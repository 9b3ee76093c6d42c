----------------------------- MODULE HtmlParser -----------------------------
(***************************************************************************)
(* IMG3_HtmlParser::ParseHtmlTags (html/IMG3_HtmlParser.cpp) as the update *)
(* command runs it on a saved key page, with the four filters that         *)
(* UpdateIMG3Database installs.  The page is a sequence of items: a tag    *)
(* <n ...>, </n> or <n .../>, a comment, a tag longer than MAX_TAG_LENGTH, *)
(* a '<' with no '>' after it, or a run of text.  Text is a section name,  *)
(* spaces only, or one of the "<b>IV</b>: <code>..</code>" and             *)
(* "<b>Key</b>: <code>..</code>" lines; the <b> and <code> tags inside     *)
(* them are not of interest and are part of the text.  An item stands for *)
(* at least one byte, so an element has data exactly when an item lies     *)
(* between its tags.                                                       *)
(*                                                                         *)
(* The parse runs in phases: the scan that builds the opening, closing    *)
(* and complete tag lists; the CombineTags loop; RetrieveDataBetweenTags;  *)
(* SortTagsById; ExtractDecryptionInfo.  Reads of a NULL or a garbage     *)
(* pointer end the process ("crashed").                                    *)
(***************************************************************************)
EXTENDS Integers, Sequences, SequencesExt

CONSTANTS
  Names,    \* tag names on the page
  Values,   \* section names, IVs and keys
  Pages     \* the key pages the update command may be given

\* The tag values AddFilter stores (IMG3_Functions.cpp lines 325-328).
Filters == {"a", "li", "span", "ul"}

TagIsOfInterest(n) == n \in Filters

None == 0
ASSUME None \notin Values /\ Filters \subseteq Names

Tag(k, n) == [k |-> k, n |-> n, v |-> None]
Text(k, v) == [k |-> k, n |-> "", v |-> v]

Item ==
  {Tag(k, n) : k \in {"open", "close", "complete"}, n \in Names}
  \cup {Tag(k, "") : k \in {"comment", "long", "unclosed", "blank"}}
  \cup {Text(k, v) : k \in {"name", "iv", "key"}, v \in Values}

\* An HtmlTagNode: its id, its tag value and where its tag is on the page.
NoNode == [id |-> -1, n |-> "", at |-> 0]

\* A tag's data: NULL until SetData, then the items it holds.
NoData == [set |-> FALSE, c |-> <<>>]

VARIABLES
  page,            \* the mapped file
  pc,              \* the phase of ParseHtmlTags
  pos,             \* the scan's currPtr, as an item index
  numberOfTags,
  openingTags, closingTags, completeTags, sortedTags,
  ctype,           \* the tag value one CombineTags call pairs
  ctodo,           \* its closingTagsOfType still to visit
  i,               \* the loop index of the retrieve and extract phases
  data,            \* data[id]: the opening node's tag data
  decryptionList

vars == <<page, pc, pos, numberOfTags, openingTags, closingTags, completeTags,
          sortedTags, ctype, ctodo, i, data, decryptionList>>

Init ==
  /\ page \in Pages
  /\ pc = "scan"
  /\ pos = 1
  /\ numberOfTags = 0
  /\ openingTags = <<>> /\ closingTags = <<>>
  /\ completeTags = <<>> /\ sortedTags = <<>>
  /\ ctype = "" /\ ctodo = <<>>
  /\ i = 1
  /\ data = [x \in 0..Len(page) |-> NoData]
  /\ decryptionList = <<>>

-----------------------------------------------------------------------------
(* The scan of ParseHtmlTags (lines 565-602).                              *)

\* strchr(currPtr, '<') steps over text.
ScanText ==
  /\ pc = "scan" /\ pos <= Len(page)
  /\ page[pos].k \in {"name", "blank", "iv", "key"}
  /\ pos' = pos + 1
  /\ UNCHANGED <<page, pc, numberOfTags, openingTags, closingTags, completeTags,
                 sortedTags, ctype, ctodo, i, data, decryptionList>>

\* A "<!--" tag is skipped (lines 585-588).
ScanComment ==
  /\ pc = "scan" /\ pos <= Len(page) /\ page[pos].k = "comment"
  /\ pos' = pos + 1
  /\ UNCHANGED <<page, pc, numberOfTags, openingTags, closingTags, completeTags,
                 sortedTags, ctype, ctodo, i, data, decryptionList>>

\* The loop breaks when no '<' is left, when a '<' has no '>' after it, or
\* on a tag longer than MAX_TAG_LENGTH; the parse goes on with what it has.
ScanEnd ==
  /\ pc = "scan"
  /\ \/ pos > Len(page)
     \/ pos <= Len(page) /\ page[pos].k \in {"unclosed", "long"}
  /\ pc' = "combine"
  /\ UNCHANGED <<page, pos, numberOfTags, openingTags, closingTags, completeTags,
                 sortedTags, ctype, ctodo, i, data, decryptionList>>

NewNode == [id |-> numberOfTags, n |-> page[pos].n, at |-> pos]

\* AddOpeningTag (lines 190-249): a tag of interest gets the next id; one
\* ending in "/>" is a complete tag, paired with itself.  Its attributes
\* are stored and never read, and are left out.
AddOpeningTag ==
  /\ pc = "scan" /\ pos <= Len(page) /\ page[pos].k \in {"open", "complete"}
  /\ pos' = pos + 1
  /\ \/ /\ ~TagIsOfInterest(page[pos].n)
        /\ UNCHANGED <<numberOfTags, openingTags, completeTags>>
     \/ /\ TagIsOfInterest(page[pos].n) /\ page[pos].k = "open"
        /\ openingTags' = Append(openingTags, NewNode)
        /\ numberOfTags' = numberOfTags + 1
        /\ UNCHANGED completeTags
     \/ /\ TagIsOfInterest(page[pos].n) /\ page[pos].k = "complete"
        /\ completeTags' = Append(completeTags, <<NewNode, NewNode>>)
        /\ numberOfTags' = numberOfTags + 1
        /\ UNCHANGED openingTags
  /\ UNCHANGED <<page, pc, closingTags, sortedTags, ctype, ctodo, i, data,
                 decryptionList>>

\* AddClosingTag (lines 251-283); a value longer than MAX_TAG_VALUE_LENGTH
\* is dropped like one of no interest.
AddClosingTag ==
  /\ pc = "scan" /\ pos <= Len(page) /\ page[pos].k = "close"
  /\ pos' = pos + 1
  /\ \/ /\ ~TagIsOfInterest(page[pos].n)
        /\ UNCHANGED <<numberOfTags, closingTags>>
     \/ /\ TagIsOfInterest(page[pos].n)
        /\ closingTags' = Append(closingTags, NewNode)
        /\ numberOfTags' = numberOfTags + 1
  /\ UNCHANGED <<page, pc, openingTags, completeTags, sortedTags, ctype, ctodo,
                 i, data, decryptionList>>

-----------------------------------------------------------------------------
(* CombineTags (lines 311-367), called while it returns 1 (lines 614-617). *)

\* GetAllOpeningTagsByName and GetAllClosingTagsByName (lines 113-151).
OfName(s, n) == SelectSeq(s, LAMBDA x : x.n = n)

\* RemoveOpeningTag and RemoveClosingTag (lines 285-309).
RemoveTag(s, x) == SelectSeq(s, LAMBDA y : y.id # x.id)

\* The inner loop (lines 338-358) over the opening tags named like the
\* closing tag c, in id order: c is paired with the opening tag before the
\* first one opened after c, or, when there is only one opening tag, with
\* that one if it was opened before c.
MatchFor(ops, c) ==
  LET first == SelectInSeq(ops, LAMBDA o : o.id > c.id)
  IN  CASE first > 1                 -> ops[first - 1]
        [] first = 0 /\ Len(ops) = 1 -> ops[1]
        [] OTHER                     -> NoNode

\* A call takes the tag value of the first closing tag left and visits
\* every closing tag with that value.  With no opening tag left it returns
\* 0; with no closing tag left, closingTags.front() of the empty list
\* yields a NULL (or, in the old list layout, a garbage) node.
CombineTags ==
  /\ pc = "combine"
  /\ \/ /\ openingTags = <<>>
        /\ pc' = "retrieve"
        /\ UNCHANGED <<ctype, ctodo>>
     \/ /\ openingTags # <<>> /\ closingTags = <<>>
        /\ pc' = "crashed"
        /\ UNCHANGED <<ctype, ctodo>>
     \/ /\ openingTags # <<>> /\ closingTags # <<>>
        /\ ctype' = Head(closingTags).n
        /\ ctodo' = OfName(closingTags, Head(closingTags).n)
        /\ pc' = "closing"
  /\ UNCHANGED <<page, pos, numberOfTags, openingTags, closingTags, completeTags,
                 sortedTags, i, data, decryptionList>>

\* Mutant: the pair is made but the closing tag stays in closingTags.
CombineClosing_KeepsClosing ==
  /\ pc = "closing" /\ ctodo # <<>>
  /\ LET c == Head(ctodo)
         m == MatchFor(OfName(openingTags, ctype), c)
     IN \/ /\ m = NoNode
           /\ UNCHANGED <<openingTags, completeTags>>
        \/ /\ m # NoNode
           /\ completeTags' = Append(completeTags, <<m, c>>)
           /\ openingTags' = RemoveTag(openingTags, m)
  /\ ctodo' = Tail(ctodo)
  /\ UNCHANGED <<page, pc, pos, numberOfTags, closingTags, sortedTags, ctype, i,
                 data, decryptionList>>

CombineClosing ==
  /\ pc = "closing" /\ ctodo # <<>>
  /\ LET c == Head(ctodo)
         m == MatchFor(OfName(openingTags, ctype), c)
     IN \/ /\ m = NoNode
           /\ UNCHANGED <<openingTags, closingTags, completeTags>>
        \/ /\ m # NoNode
           /\ completeTags' = Append(completeTags, <<m, c>>)
           /\ openingTags' = RemoveTag(openingTags, m)
           /\ closingTags' = RemoveTag(closingTags, c)
  /\ ctodo' = Tail(ctodo)
  /\ UNCHANGED <<page, pc, pos, numberOfTags, sortedTags, ctype, i, data,
                 decryptionList>>

\* The call returns 0 when every opening tag is paired, and 1 otherwise,
\* and ParseHtmlTags calls it again.
CombineEnd ==
  /\ pc = "closing" /\ ctodo = <<>>
  /\ pc' = IF openingTags = <<>> THEN "retrieve" ELSE "combine"
  /\ UNCHANGED <<page, pos, numberOfTags, openingTags, closingTags, completeTags,
                 sortedTags, ctype, ctodo, i, data, decryptionList>>

-----------------------------------------------------------------------------
(* RetrieveDataBetweenTags (lines 369-400), one pair per step.             *)

IsBlank(x) == x.k = "blank"

\* SetData (IMG3_HtmlTag.cpp lines 105-133) strips the spaces at both ends.
\* When there is nothing but spaces, the trailing loop stops at the '>'
\* before the data with length 0, and the leading loop takes length below
\* zero: the memcpy of about 4 GiB faults.
Trim(s) ==
  LET first == SelectInSeq(s, LAMBDA x : ~IsBlank(x))
  IN  IF first = 0 THEN <<>>
      ELSE SubSeq(s, first, SelectLastInSeq(s, LAMBDA x : ~IsBlank(x)))

\* The items from after the opening tag's '>' to the closing "</".
Between(o, c) == SubSeq(page, o.at + 1, c.at - 1)

\* dataSize is unsigned: a closing tag at or before its opening tag (a
\* complete tag, or a pair made the wrong way round) wraps it above
\* MAX_TAG_DATA_LENGTH, and the function returns.  dataSize 0 leaves the
\* data NULL.
RetrieveDataBetweenTags ==
  /\ pc = "retrieve"
  /\ \/ /\ i > Len(completeTags)
        /\ pc' = "sort" /\ i' = 1
        /\ UNCHANGED data
     \/ /\ i <= Len(completeTags)
        /\ LET o == completeTags[i][1]
               c == completeTags[i][2]
               d == Between(o, c)
           IN \/ /\ c.at <= o.at
                 /\ pc' = "sort" /\ i' = 1
                 /\ UNCHANGED data
              \/ /\ c.at > o.at /\ d = <<>>
                 /\ i' = i + 1
                 /\ UNCHANGED <<pc, data>>
              \/ /\ c.at > o.at /\ d # <<>> /\ \A j \in DOMAIN d : IsBlank(d[j])
                 /\ pc' = "crashed"
                 /\ UNCHANGED <<i, data>>
              \/ /\ c.at > o.at /\ \E j \in DOMAIN d : ~IsBlank(d[j])
                 /\ data' = [data EXCEPT ![o.id] = [set |-> TRUE, c |-> Trim(d)]]
                 /\ i' = i + 1
                 /\ UNCHANGED pc
  /\ UNCHANGED <<page, pos, numberOfTags, openingTags, closingTags, completeTags,
                 sortedTags, ctype, ctodo, decryptionList>>

\* Mutant: the pairs are sorted by the id of their closing tag.
SortTagsById_ByClosingId ==
  /\ pc = "sort"
  /\ sortedTags' = SortSeq(completeTags, LAMBDA p, q : p[2].id < q[2].id)
  /\ completeTags' = <<>>
  /\ pc' = "extract"
  /\ UNCHANGED <<page, pos, numberOfTags, openingTags, closingTags, ctype,
                 ctodo, i, data, decryptionList>>

\* SortTagsById (lines 402-430): a selection sort of the pairs by the id of
\* their opening tag, moving them to sortedTags.
SortTagsById ==
  /\ pc = "sort"
  /\ sortedTags' = SortSeq(completeTags, LAMBDA p, q : p[1].id < q[1].id)
  /\ completeTags' = <<>>
  /\ pc' = "extract"
  /\ UNCHANGED <<page, pos, numberOfTags, openingTags, closingTags, ctype,
                 ctodo, i, data, decryptionList>>

-----------------------------------------------------------------------------
(* ExtractDecryptionInfo (lines 432-556), one <ul> pair per step.          *)

\* GetAllSortedTagsByName("ul") (lines 153-172).
TagList == SelectSeq(sortedTags, LAMBDA p : p[1].n = "ul")

IsIV(x) == x.k = "iv"
HasColon(x) == x.k \in {"iv", "key"}

\* A <ul> whose data holds "<b>IV</b>" is an entry.  Its section is the
\* data of the pair before it in sortedTags: for the first pair that is
\* the list's end node, read as a garbage pointer.  Its IV follows the
\* ':' after the label, and its key follows the next ':' (lines 523-528),
\* whatever label that ':' belongs to; without one the function returns.
\* strstr and strlen on NULL data fault.
ExtractDecryptionInfo ==
  /\ pc = "extract"
  /\ \/ /\ i > Len(TagList)
        /\ pc' = "done"
        /\ UNCHANGED <<i, decryptionList>>
     \/ /\ i <= Len(TagList)
        /\ LET node  == TagList[i][1]
               d     == data[node.id]
               ivAt  == SelectInSeq(d.c, IsIV)
               keyAt == SelectInSubSeq(d.c, ivAt + 1, Len(d.c), HasColon)
               k     == SelectInSeq(sortedTags, LAMBDA p : p[1].id = node.id)
               prev  == data[sortedTags[k - 1][1].id]
           IN \/ /\ ~d.set
                 /\ pc' = "crashed"
                 /\ UNCHANGED <<i, decryptionList>>
              \/ /\ d.set /\ ivAt = 0
                 /\ i' = i + 1
                 /\ UNCHANGED <<pc, decryptionList>>
              \/ /\ d.set /\ ivAt > 0 /\ k = 1
                 /\ pc' = "crashed"
                 /\ UNCHANGED <<i, decryptionList>>
              \/ /\ d.set /\ ivAt > 0 /\ k > 1 /\ ~prev.set
                 /\ pc' = "crashed"
                 /\ UNCHANGED <<i, decryptionList>>
              \/ /\ d.set /\ ivAt > 0 /\ k > 1 /\ prev.set /\ keyAt = 0
                 /\ pc' = "done"
                 /\ UNCHANGED <<i, decryptionList>>
              \/ /\ d.set /\ ivAt > 0 /\ k > 1 /\ prev.set /\ keyAt > 0
                 /\ decryptionList' = Append(decryptionList,
                        [section |-> prev.c, iv |-> d.c[ivAt].v, key |-> d.c[keyAt].v])
                 /\ i' = i + 1
                 /\ UNCHANGED pc
  /\ UNCHANGED <<page, pos, numberOfTags, openingTags, closingTags, completeTags,
                 sortedTags, ctype, ctodo, data>>

\* ParseHtmlTags has returned true, or the process has faulted.
Done ==
  /\ pc \in {"done", "crashed"}
  /\ UNCHANGED vars

Next ==
  \/ ScanText \/ ScanComment \/ ScanEnd \/ AddOpeningTag \/ AddClosingTag
  \/ CombineTags \/ CombineClosing \/ CombineEnd
  \/ RetrieveDataBetweenTags \/ SortTagsById \/ ExtractDecryptionInfo
  \/ Done

\* The process runs its own next statement: weak fairness.
Spec == Init /\ [][Next]_vars /\ WF_vars(Next)

-----------------------------------------------------------------------------
(* The page as ExtractDecryptionInfo's comment describes it (lines         *)
(* 441-447): <span>[Area Name]</span><ul><li> <b>IV</b>: [IV value]        *)
(* </li><li> <b>Key</b>: [Key value] </li></ul>, the name sometimes in a   *)
(* link after the <span>.  Elements nest; each <ul> that holds an IV is   *)
(* one record, named by the data of the element opened just before it.   *)

IsOpening(j) == page[j].k = "open" /\ TagIsOfInterest(page[j].n)

\* Tags named like the one at j that are opened, less those closed, in j..m.
Depth(j, m) ==
  Cardinality({x \in j..m : page[x] = Tag("open", page[j].n)})
  - Cardinality({x \in j..m : page[x] = Tag("close", page[j].n)})

\* An element left open runs to the end of the page.
CloseOf(j) ==
  Min({m \in j + 1..Len(page) : page[m] = Tag("close", page[j].n) /\ Depth(j, m) = 0}
      \cup {Len(page) + 1})

Content(j) == Trim(SubSeq(page, j + 1, CloseOf(j) - 1))

\* Where the IV label and the Key label after it are in a content.
IVIn(c) == SelectInSeq(c, IsIV)
KeyIn(c) == SelectInSubSeq(c, IVIn(c) + 1, Len(c), LAMBDA x : x.k = "key")

IsList(j) == IsOpening(j) /\ page[j].n = "ul"

\* A list with both labels, after some element that names it.
EntryAt(j) ==
  /\ IsList(j)
  /\ IVIn(Content(j)) > 0 /\ KeyIn(Content(j)) > 0
  /\ \E b \in 1..j - 1 : IsOpening(b)

RecordAt(j) ==
  LET c == Content(j)
      before == Max({b \in 1..j - 1 : IsOpening(b)})
  IN  [section |-> Content(before), iv |-> c[IVIn(c)].v, key |-> c[KeyIn(c)].v]

ExpectedRecords ==
  LET entries == SetToSortSeq({j \in 1..Len(page) : EntryAt(j)}, <)
  IN  [r \in DOMAIN entries |-> RecordAt(entries[r])]

\* Every list with an IV label has a Key label after it.
KeysComplete ==
  \A j \in 1..Len(page) : IsList(j) /\ IVIn(Content(j)) > 0 => KeyIn(Content(j)) > 0

\* When ParseHtmlTags returns, the list handed to UpdateDatabase holds the
\* records of the page's key entries in page order, each with the section,
\* IV and key the page gives it; a list with an IV and no key ends the
\* list early, but no record is ever wrong or out of order.  This is the
\* pairing of CombineTags, the data of RetrieveDataBetweenTags, the order
\* of SortTagsById and the lookups of ExtractDecryptionInfo put together.
RecordsMatchPage ==
  pc = "done" =>
    IF KeysComplete THEN decryptionList = ExpectedRecords
                    ELSE IsPrefix(decryptionList, ExpectedRecords)

\* ParseHtmlTags ends: the CombineTags loop stops calling CombineTags, so
\* the command returns or faults rather than spinning forever.
ParseHtmlTagsEnds == <>(pc \in {"done", "crashed"})
=============================================================================
