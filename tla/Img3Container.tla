---------------------------- MODULE Img3Container ---------------------------
(***************************************************************************)
(* IMG3_FileInterface (sections/IMG3_FileInterface.cpp) and the            *)
(* IMG3_FileSection objects it owns (sections/IMG3_FileSection.cpp).       *)
(*                                                                         *)
(* ParseFile scans a memory-mapped file.  The file is not enumerated up    *)
(* front: the generic header (magic, totalLength, dataLength) found at an  *)
(* offset is chosen when the scan first reads that offset and is fixed     *)
(* from then on, so every file is covered, but only at the offsets the     *)
(* code really reads.  Offsets and lengths are uint32_t in the code and    *)
(* are computed modulo 2^W here.  An interface object may parse several    *)
(* files in turn (DecryptIMG3File reuses one for every extracted file).    *)
(***************************************************************************)
EXTENDS Integers, Sequences, TLC

CONSTANTS
  FileLens,   \* the fileLength values a mapped file may have
  Lengths,    \* the totalLength values a header may hold
  DataLens,   \* the dataLength values a section header may hold
  BaseHdrLens,\* the header lengths (totalLength - dataLength) of a base header
  DataHdr,    \* the fixed payload offset ParseSection uses for DATA (12)
  W,          \* the width of uint32_t, scaled down
  MaxParses,  \* how many ParseFile calls one interface object sees
  MaxSections \* the longest sections list a scan may build

ASSUME W \in Nat \ {0} /\ MaxParses \in Nat \ {0} /\ MaxSections \in Nat \ {0}

Word == 2 ^ W
U32(x) == x % Word

\* The magic words.  IMG3 is the base header; DATA and KBAG stand for the
\* fourteen magics of the switch in ParseFile (all but DATA handled alike);
\* "none" is any other word.
IMG3 == "Img3"
DATA == "DATA"
KBAG == "KBAG"
SectionMagic == {DATA, KBAG}

\* A word that is no magic; its lengths are never read.
NoMagic == [magic |-> "none", total |-> 0, data |-> 0]

\* The headers the scan loop may find: a section magic with any lengths,
\* or any other word (the base magic is skipped like any other word).
Headers ==
  {[magic |-> m, total |-> t, data |-> d] :
      m \in SectionMagic, t \in Lengths, d \in DataLens} \cup {NoMagic}

\* The headers offset 0 may hold: a base header of any total length, one
\* section header, or no magic.
FirstHeaders ==
  {[magic |-> IMG3, total |-> t, data |-> U32(t - b)] :
      t \in FileLens \cup Lengths, b \in BaseHdrLens}
  \cup {[magic |-> DATA, total |-> t, data |-> 0] : t \in Lengths} \cup {NoMagic}

VARIABLES
  pc,          \* "idle", "scan", "done" (ParseFile returned 0), "failed" (-1)
  fileLength,  \* the length ParseFile was given
  file,        \* the headers read so far: offset -> header
  sections,    \* the sections list, in push_back order
  currOffset,  \* the scan position
  gen          \* how many ParseFile calls have started

vars == <<pc, fileLength, file, sections, currOffset, gen>>

\* The header at offset o: as already read, or any header.
HeaderAt(o) == IF o \in DOMAIN file THEN {file[o]} ELSE Headers

Reveal(o, h) == [x \in DOMAIN file \cup {o} |-> IF x = o THEN h ELSE file[x]]

\* ParseSection on the header h at offset o: the object it builds.  The
\* payload copy starts at offset 12 for DATA and at totalLength -
\* dataLength for the other magics; data stays NULL when dataLength is 0.
ParseSection(o, h, g) ==
  [magic     |-> h.magic,
   at        |-> o,
   total     |-> h.total,
   dlen      |-> h.data,
   payloadAt |-> IF h.magic = DATA THEN o + DataHdr ELSE o + U32(h.total - h.data),
   data      |-> IF h.magic # IMG3 /\ h.data # 0 THEN "file" ELSE "none",
   gen       |-> g]

Init ==
  /\ pc = "idle" /\ fileLength = 0 /\ file = << >>
  /\ sections = << >> /\ currOffset = 0 /\ gen = 0

(***************************************************************************)
(* ParseFile, lines 122-168: empty the list (deleting every section), parse *)
(* the header at offset 0, require the base magic and totalLength =        *)
(* fileLength, push the base section and start the scan after its header. *)
(* The four outcomes are the four disjuncts.                               *)
(***************************************************************************)
ParseFile ==
  /\ pc # "scan"
  /\ gen < MaxParses
  /\ \E fl \in FileLens, h \in FirstHeaders :
       /\ fileLength' = fl
       /\ file' = (0 :> h)
       /\ \/ /\ h.magic = "none"                              \* ParseSection fails
             /\ pc' = "failed" /\ sections' = << >> /\ UNCHANGED currOffset
          \/ /\ h.magic \in SectionMagic                        \* not IMG3_BASE
             /\ pc' = "failed" /\ sections' = << >> /\ UNCHANGED currOffset
          \/ /\ h.magic = IMG3 /\ h.total # fl                  \* LENGTHS_DIFFER
             /\ pc' = "failed" /\ sections' = << >> /\ UNCHANGED currOffset
          \/ /\ h.magic = IMG3 /\ h.total = fl
             /\ sections' = << ParseSection(0, h, gen + 1) >>
             /\ currOffset' = U32(h.total - h.data)
             /\ pc' = "scan"
  /\ gen' = gen + 1

\* The base section's totalLength bounds the scan.
TotalImg3Length == sections[1].total

\* Lines 171-201: a section magic at currOffset; ParseSection copies its
\* payload, the section is pushed and the scan jumps by its totalLength.
\* The list is capped at MaxSections: a scan that reaches the cap stops
\* there, standing for a loop that keeps pushing until new fails.
ScanSection ==
  /\ pc = "scan"
  /\ currOffset < TotalImg3Length
  /\ Len(sections) < MaxSections
  /\ \E h \in HeaderAt(currOffset) :
       /\ h.magic \in SectionMagic
       /\ file' = Reveal(currOffset, h)
       /\ sections' = Append(sections, ParseSection(currOffset, h, gen))
       /\ currOffset' = U32(currOffset + h.total)
  /\ UNCHANGED <<pc, fileLength, gen>>

\* Lines 195-196 and FileSection.cpp 103-107: the payload malloc fails;
\* ParseFile returns -1 with the sections pushed so far left in the list.
ScanAllocFail ==
  /\ pc = "scan"
  /\ currOffset < TotalImg3Length
  /\ \E h \in HeaderAt(currOffset) :
       /\ h.magic \in SectionMagic /\ h.data # 0
       /\ file' = Reveal(currOffset, h)
  /\ pc' = "failed"
  /\ UNCHANGED <<fileLength, sections, currOffset, gen>>

\* Lines 203-208: any other word, the base magic included, moves the scan
\* on by one byte.
ScanSkip ==
  /\ pc = "scan"
  /\ currOffset < TotalImg3Length
  /\ \E h \in HeaderAt(currOffset) :
       /\ h.magic \notin SectionMagic
       /\ file' = Reveal(currOffset, h)
  /\ currOffset' = U32(currOffset + 1)
  /\ UNCHANGED <<pc, fileLength, sections, gen>>

\* Lines 171, 213: the loop test fails and ParseFile returns 0.
ScanEnd ==
  /\ pc = "scan"
  /\ currOffset >= TotalImg3Length
  /\ pc' = "done"
  /\ UNCHANGED <<fileLength, file, sections, currOffset, gen>>

(***************************************************************************)
(* WriteSectionData (lines 288-315) on a section of the list, with         *)
(* FileSection::WriteData (lines 130-150): free the old payload (or warn   *)
(* that there was none), then malloc and copy the new one.  On a malloc    *)
(* failure data holds the NULL malloc returned (line 141).                 *)
(***************************************************************************)
WriteSectionData ==
  /\ pc = "done"
  /\ \E k \in 1 .. Len(sections) :
       \/ sections' = [sections EXCEPT ![k].data = "new", ![k].payloadAt = -1]
       \/ sections' = [sections EXCEPT ![k].data = "none"]
  /\ UNCHANGED <<pc, fileLength, file, currOffset, gen>>

Next ==
  \/ ParseFile
  \/ ScanSection \/ ScanAllocFail \/ ScanSkip \/ ScanEnd
  \/ WriteSectionData

\* One thread runs ParseFile to completion; nothing else can disable a
\* step of its loop.
Spec == Init /\ [][Next]_vars /\ WF_vars(Next)

-----------------------------------------------------------------------------
(***************************************************************************)
(* spec.md 4.2: the scan "terminates when offset reaches the BASE          *)
(* totalLength".  In the code the loop of ParseFile (lines 171-209) ends   *)
(* only if currOffset grows past totalImg3Length, but it adds the         *)
(* section's totalLength from the file to a uint32_t (line 201): a zero   *)
(* totalLength leaves the offset where it is and a huge one wraps it      *)
(* backwards, and every pass pushes one more section.                     *)
(***************************************************************************)
ScanTerminates == pc = "scan" ~> pc \in {"done", "failed"}
=============================================================================
