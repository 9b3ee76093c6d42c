--------------------------- MODULE MC_HtmlParser ----------------------------
(***************************************************************************)
(* Key pages for HtmlParser.  KeyPages are built from the entries          *)
(* ExtractDecryptionInfo's comment describes, with the variants a page has *)
(* around them; NestedPages add a list nested in a list item, as in a      *)
(* page's table of contents.                                               *)
(***************************************************************************)
EXTENDS HtmlParser

Open(n) == Tag("open", n)
Close(n) == Tag("close", n)
Blank == Tag("blank", "")

\* <span>name</span><ul><li> <b>IV</b>: iv</li><li><b>Key</b>: key</li></ul>
Entry(s, iv, key) ==
  <<Open("span"), Text("name", s), Close("span"),
    Open("ul"), Open("li"), Blank, Text("iv", iv), Close("li"),
    Open("li"), Text("key", key), Close("li"), Close("ul")>>

\* The same with the name in a link after an empty <span>.
LinkEntry(s, iv, key) ==
  <<Open("span"), Close("span"), Open("a"), Text("name", s), Close("a"),
    Open("ul"), Open("li"), Text("iv", iv), Close("li"),
    Open("li"), Text("key", key), Close("li"), Blank, Close("ul")>>

\* A list that holds no key, and markup of no interest.
PlainList(s) == <<Open("ul"), Open("li"), Text("name", s), Close("li"), Close("ul")>>
Noise == {<<Tag("comment", "")>>, <<Open("b"), Text("name", 1), Close("b")>>, <<Blank>>}

Blocks ==
  {Entry(s, v, w) : s, v, w \in Values} \cup {LinkEntry(s, v, w) : s, v, w \in Values}
  \cup {PlainList(s) : s \in Values} \cup Noise

\* Blocks the parser fails on without looping: an empty list, a span of
\* spaces, a self-closed link, a key list with no element before it, an
\* entry named by an empty span, and a list with an IV and no key.
Faulty ==
  {<<Open("ul"), Close("ul")>>,
   <<Open("span"), Blank, Close("span")>>,
   <<Tag("complete", "a")>>,
   SubSeq(Entry(1, 1, 2), 4, 12),
   <<Open("span"), Close("span")>> \o SubSeq(Entry(1, 1, 2), 4, 12),
   <<Open("ul"), Open("li"), Text("iv", 1), Close("li"), Close("ul")>>}

\* After other blocks only: a stray closing tag, and an item left open.
Trailing == {<<Close("li")>>, <<Open("li"), Text("name", 1)>>}

\* The end of the file: nothing more, a '<' with no '>', or a long tag.
Ends == {<<>>, <<Tag("unclosed", "")>>, <<Tag("long", "")>>}

MCKeyPages ==
  {b \o c \o e : b \in Blocks \cup Faulty, c \in Blocks \cup Faulty \cup Trailing, e \in Ends}

\* <ul><li><a>name</a><ul><li><a>name</a></li></ul></li></ul>
Contents ==
  <<Open("ul"), Open("li"), Open("a"), Text("name", 1), Close("a"),
    Open("ul"), Open("li"), Open("a"), Text("name", 2), Close("a"), Close("li"),
    Close("ul"), Close("li"), Close("ul")>>

\* The pages on which CombineTags may make no progress: the table of
\* contents, a stray closing tag or an item left open, each before a block.
\* The block decides: a later <li> gives every inner </li> its match.
MCNestedPages == {p \o b : p \in {Contents} \cup Trailing, b \in Blocks}
=============================================================================
