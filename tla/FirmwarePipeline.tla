-------------------------- MODULE FirmwarePipeline --------------------------
(***************************************************************************)
(* The command functions of IMG3_Functions.cpp that main (IMG3_Main.cpp    *)
(* lines 724-761) dispatches, one command per process: DecryptIMG3File,    *)
(* UpdateIMG3Database, PatchKernelFile, ParseIMG3File and                  *)
(* DecompressLZSSFile, with the helpers they call: MapFileToMemory and     *)
(* UnmapFileFromMemory over the static descriptor slot fd, WriteDataToFile *)
(* and DecryptIMG3Data.                                                    *)
(*                                                                         *)
(* What the collaborators return (the zip reader, ParseFile, the key       *)
(* store, OpenSSL, the HTML parser, open/fstat/mmap, fopen/fwrite) is a    *)
(* nondeterministic choice; the bytes are abstracted to lengths.  The      *)
(* model keeps what the functions do with their resources: the process's   *)
(* descriptor table and the slot fd, live mappings, FILE streams and the   *)
(* heap buffers they allocate, use and free, in the order the code does.   *)
(* Every release or use of a resource the code does not hold is recorded  *)
(* in res.misuse, a history the properties read.                           *)
(***************************************************************************)
EXTENDS Integers, FiniteSets, FiniteSetsExt

CONSTANTS
  Commands,        \* the operations main may have been asked for
  MaxFiles,        \* the most files ExtractFiles returns
  Lengths,         \* DATA payload / file sizes a run may meet
  LzssHeaderSize,  \* sizeof(IMG3_LzssInterface_CompressionHeader), scaled
  MaxFd            \* the highest descriptor number open() may return

ASSUME Commands \subseteq {"decrypt", "update", "patch", "parse", "decompress"}
ASSUME MaxFiles \in Nat /\ Lengths \subseteq Nat \ {0} /\ MaxFd >= 3

\* Descriptors 0, 1 and 2 are open when main starts.
Desc == 0 .. MaxFd
StdStreams == {0, 1, 2}

\* Heap buffers: extractedFiles (list), dataToDecrypt (tmp), the output of
\* DecryptData (dec), of LzssDecompress (unz), a generated output file name
\* (name) and PatchKernelFile's patchFileData (copy).
Buffers == {"list", "tmp", "dec", "unz", "name", "copy"}

\* FILE streams of PatchKernelFile.
Streams == {"output", "patch"}

RoundUp16(n) == IF n % 16 = 0 THEN n ELSE n + (16 - (n % 16))

VARIABLES
  cmd,        \* the command main dispatched
  pc,         \* where the command is
  toDo,       \* extracted files not yet processed
  allocatedList, \* extractedFiles was allocated by the command itself
  decrypted,  \* the caller's decryptedData pointer: "null" or a buffer
  dlen,       \* the length of the DATA payload being decrypted
  res,        \* the process's resources (see ResInit)
  ret         \* what the command returned: "ok" (0), "err" (-1), "void"; "none" while it runs

vars == <<cmd, pc, toDo, allocatedList, decrypted, dlen, res, ret>>

ResInit ==
  [fd      |-> 0,                          \* static int fd = 0 (line 32)
   fds     |-> StdStreams,                 \* open descriptors
   owned   |-> {},                         \* descriptors MapFileToMemory opened
   maps    |-> 0,                          \* live mmap regions
   heap    |-> [b \in Buffers |-> "none"], \* "none", "live" or "freed"
   streams |-> [s \in Streams |-> "null"], \* "null", "open" or "closed"
   leaked  |-> 0,                          \* FILEs WriteDataToFile left open
   misuse  |-> {}]

-----------------------------------------------------------------------------
(* Resource operations, each a function from res to res. *)

\* close(d): closing a descriptor that is open but was not opened by the
\* mapping code (stdin, say) is a misuse; close(-1) or a second close
\* only fails with EBADF.
CloseDesc(r, d) ==
  [r EXCEPT !.fds = @ \ {d}, !.owned = @ \ {d},
            !.misuse = @ \cup (IF d \in r.fds /\ d \notin r.owned
                               THEN {[op |-> "close", on |-> d]} ELSE {})]

\* new: the buffer is live.
Alloc(r, b) == [r EXCEPT !.heap[b] = "live"]

\* Reading or writing a buffer that is not live is a misuse.
Use(r, b) ==
  IF r.heap[b] = "live" THEN r
  ELSE [r EXCEPT !.misuse = @ \cup {[op |-> "use", on |-> b]}]

\* delete: a buffer that is not live is deleted again.
Delete(r, b) ==
  [r EXCEPT !.heap[b] = "freed",
            !.misuse = @ \cup (IF r.heap[b] = "live" THEN {}
                               ELSE {[op |-> "delete", on |-> b]})]

FOpen(r, s, ok) == [r EXCEPT !.streams[s] = IF ok THEN "open" ELSE "null"]

\* fclose of a NULL or closed stream is a misuse.
FClose(r, s) ==
  [r EXCEPT !.streams[s] = "closed",
            !.misuse = @ \cup (IF r.streams[s] = "open" THEN {}
                               ELSE {[op |-> "fclose", on |-> s]})]

\* MapFileToMemory, lines 41-81: close the descriptor left in the slot,
\* open the file into the slot, then fstat and mmap; a failed fstat or
\* mmap closes the descriptor but leaves its number in the slot.
MapFileToMemory(r, o) ==
  LET r1 == IF r.fd # 0 THEN CloseDesc(r, r.fd) ELSE r
      free == Desc \ r1.fds
      d == Min(free)
      r2 == [r1 EXCEPT !.fd = d, !.fds = @ \cup {d}, !.owned = @ \cup {d}]
  IN  IF o = "openfail" \/ free = {} THEN [r1 EXCEPT !.fd = -1]
      ELSE IF o = "ok" THEN [r2 EXCEPT !.maps = @ + 1]
      ELSE CloseDesc(r2, d)

MapOutcomes == {"ok", "openfail", "fstatfail", "mmapfail"}

\* UnmapFileFromMemory, lines 83-94: munmap, then close a non-zero slot
\* and reset it to 0.
UnmapFileFromMemory(r) ==
  LET r1 == [r EXCEPT !.maps = @ - 1]
  IN  IF r1.fd # 0 THEN [CloseDesc(r1, r1.fd) EXCEPT !.fd = 0] ELSE r1

\* WriteDataToFile, lines 96-119: nothing without data; fopen may fail; a
\* failed fwrite returns without fclose.
WriteDataToFile(r, b, o) ==
  IF b = "null" THEN r
  ELSE LET r1 == IF b \in Buffers THEN Use(r, b) ELSE r
       IN  IF o = "writefail" THEN [r1 EXCEPT !.leaked = @ + 1] ELSE r1

WriteOutcomes == {"ok", "openfail", "writefail"}
-----------------------------------------------------------------------------
Init ==
  /\ cmd \in Commands /\ pc = "start"
  /\ toDo = 0 /\ allocatedList = FALSE /\ decrypted = "null" /\ dlen = 0
  /\ res = ResInit /\ ret = "none"

\* A command returns v with resources r.
Return(r, v) == res' = r /\ ret' = v /\ pc' = "returned"

\* The delete_list label: release extractedFiles if the command made it.
DeleteList(r) == IF allocatedList THEN Delete(r, "list") ELSE r

\* The zip reader's answers: AnalyzeFile finds a zip, or fails with "not a
\* zip file", or fails otherwise; ExtractFiles returns a list or NULL.
ZipOutcomes == {"notzip", "error", "null"} \cup {"zip"}

\* DecryptIMG3File lines 556-571 and PatchKernelFile lines 375-395: a file
\* that is not a zip becomes a one-entry list the command allocates; the
\* files of a zip are extracted.  DecryptIMG3File does not check
\* ExtractFiles for NULL and dereferences it at line 573.
StartFiles(z) ==
  \/ /\ z = "notzip"
     /\ res' = Alloc(res, "list") /\ allocatedList' = TRUE /\ toDo' = 1
     /\ pc' = "loop" /\ UNCHANGED ret
  \/ /\ z = "zip"
     /\ \E n \in 0 .. MaxFiles : toDo' = n
     /\ pc' = "loop" /\ UNCHANGED <<res, ret, allocatedList>>

DecryptStart ==
  /\ cmd = "decrypt" /\ pc = "start"
  /\ \E z \in ZipOutcomes :
       \/ StartFiles(z)
       \/ /\ z = "error" /\ Return(res, "err")
          /\ UNCHANGED <<toDo, allocatedList>>
       \/ /\ z = "null" /\ pc' = "crashed"
          /\ UNCHANGED <<res, ret, toDo, allocatedList>>
  /\ UNCHANGED <<cmd, decrypted, dlen>>

\* Lines 573-578 and 621-623: next file, mapped into memory, or the end of
\* the list.
DecryptLoop ==
  /\ cmd = "decrypt" /\ pc = "loop"
  /\ \/ /\ toDo = 0
        /\ Return(DeleteList(res), "ok")
     \/ /\ toDo > 0
        /\ \E o \in MapOutcomes :
             IF o = "ok" THEN res' = MapFileToMemory(res, o) /\ pc' = "parse" /\ UNCHANGED ret
             ELSE Return(DeleteList(MapFileToMemory(res, o)), "err")
  /\ UNCHANGED <<cmd, toDo, allocatedList, decrypted, dlen>>

\* Lines 580-595: ParseFile, then the first DATA section's payload and its
\* length, dumped to data_section.bin; no DATA payload unmaps and returns.
DecryptParse ==
  /\ cmd = "decrypt" /\ pc = "parse"
  /\ \/ /\ Return(DeleteList(UnmapFileFromMemory(res)), "err")
        /\ UNCHANGED dlen
     \/ \E l \in Lengths, o \in WriteOutcomes :
          /\ dlen' = l
          /\ res' = WriteDataToFile(res, "section", o)
          /\ pc' = "decrypt" /\ UNCHANGED ret
  /\ UNCHANGED <<cmd, toDo, allocatedList, decrypted>>
(***************************************************************************)
(* DecryptIMG3Data, lines 181-268, called at line 597.  The key and iv    *)
(* are looked up; a payload whose length is no multiple of 16 is copied,  *)
(* rounded up, into dataToDecrypt: memcpy reads the rounded length from   *)
(* the section's private copy of dataLength bytes.  DecryptData allocates *)
(* its output only when *decryptedData is NULL (IMG3_OpensslInterface.cpp *)
(* line 98).  If the result starts with the LZSS magic it is              *)
(* decompressed: LzssDecompress fails on fewer bytes than a header, and   *)
(* then the decrypted buffer is deleted but *decryptedData keeps pointing *)
(* at it; on success *decryptedData is the decompressed buffer and the    *)
(* decrypted one is not deleted (line 248 is commented out).              *)
(***************************************************************************)
DecryptSection ==
  /\ cmd = "decrypt" /\ pc = "decrypt"
  /\ \E keyFound, keySet, compressed \in BOOLEAN :
       LET dl   == RoundUp16(dlen)
           pad  == dlen % 16 # 0
           r1   == IF pad
                   THEN [Alloc(res, "tmp") EXCEPT !.misuse = @ \cup
                           (IF dl > dlen THEN {[op |-> "overread", on |-> "section"]} ELSE {})]
                   ELSE res
           FreeTmp(r) == IF pad THEN Delete(r, "tmp") ELSE r
           out  == IF decrypted = "null" THEN "dec" ELSE decrypted
           r2   == IF decrypted = "null" THEN Alloc(r1, "dec") ELSE Use(r1, decrypted)
           inflateFails == dl < LzssHeaderSize
       IN  \/ /\ ~keyFound
              /\ UNCHANGED <<res, decrypted>>
           \/ /\ keyFound /\ ~keySet
              /\ res' = FreeTmp(r1) /\ UNCHANGED decrypted
           \/ /\ keyFound /\ keySet /\ ~compressed
              /\ res' = FreeTmp(r2) /\ decrypted' = out
           \/ /\ keyFound /\ keySet /\ compressed /\ inflateFails
              /\ res' = FreeTmp(Delete(r2, out)) /\ decrypted' = out
           \/ /\ keyFound /\ keySet /\ compressed /\ ~inflateFails
              /\ res' = FreeTmp(Alloc(r2, "unz")) /\ decrypted' = "unz"
  /\ pc' = "written"
  /\ UNCHANGED <<cmd, toDo, allocatedList, dlen, ret>>



\* Lines 598-620: no decryptedData unmaps and returns; otherwise write it
\* to <archive>_decrypted, delete the name and decryptedData, reset the
\* pointer to NULL, unmap, and go on with the next file.
DecryptWrite ==
  /\ cmd = "decrypt" /\ pc = "written"
  /\ \/ /\ decrypted = "null"
        /\ Return(DeleteList(UnmapFileFromMemory(res)), "err")
        /\ UNCHANGED toDo
     \/ /\ decrypted # "null"
        /\ \E o \in WriteOutcomes :
             res' = UnmapFileFromMemory(
                      Delete(Delete(WriteDataToFile(Alloc(res, "name"), decrypted, o), "name"),
                             decrypted))
        /\ toDo' = toDo - 1 /\ pc' = "loop"
        /\ UNCHANGED ret
  /\ decrypted' = "null"
  /\ UNCHANGED <<cmd, allocatedList, dlen>>
\* UpdateIMG3Database, lines 319-323 and 349-353: map the saved HTML page;
\* on failure close(fd) with whatever the slot holds and return -1.
UpdateMap ==
  /\ cmd = "update" /\ pc = "start"
  /\ \E o \in MapOutcomes :
       LET r == MapFileToMemory(res, o)
       IN  IF o = "ok" THEN res' = r /\ pc' = "html" /\ UNCHANGED ret
           ELSE Return(CloseDesc(r, r.fd), "err")
  /\ UNCHANGED <<cmd, toDo, allocatedList, decrypted, dlen>>

\* Lines 325-353: parse the tags and take the decryption records (either
\* may fail), update the key store, then unmap (which resets the slot to
\* 0) and close(fd) on every path.
UpdateHtml ==
  /\ cmd = "update" /\ pc = "html"
  /\ \E ok \in BOOLEAN :
       LET r == UnmapFileFromMemory(res)
       IN  Return(CloseDesc(r, r.fd), IF ok THEN "ok" ELSE "err")
  /\ UNCHANGED <<cmd, toDo, allocatedList, decrypted, dlen>>

\* The PatchKernelFile_close_patch label and the two below it.
ClosePatch(r) == FClose(FClose(r, "patch"), "output")

\* PatchKernelFile lines 375-395: a failed AnalyzeFile or ExtractFiles
\* jumps to close_patch before either stream was opened.
PatchStart ==
  /\ cmd = "patch" /\ pc = "start"
  /\ \E z \in ZipOutcomes :
       \/ StartFiles(z)
       \/ /\ z \in {"error", "null"} /\ Return(ClosePatch(res), "err")
          /\ UNCHANGED <<toDo, allocatedList>>
  /\ UNCHANGED <<cmd, decrypted, dlen>>

(***************************************************************************)
(* Lines 398-432 and 510-512: for the next file open the output and the   *)
(* patch file (a failed output fopen returns at once), map the file and   *)
(* copy it into patchFileData.  A failed map jumps to delete_list.        *)
(***************************************************************************)
PatchLoop ==
  /\ cmd = "patch" /\ pc = "loop"
  /\ \/ /\ toDo = 0
        /\ Return(DeleteList(res), "ok")
     \/ /\ toDo > 0
        /\ \E outOk, patchOk \in BOOLEAN, o \in MapOutcomes :
             LET r1 == FOpen(res, "output", outOk)
                 r2 == MapFileToMemory(FOpen(r1, "patch", patchOk), o)
             IN  \/ /\ ~outOk
                    /\ Return(r1, "err")
                 \/ /\ outOk /\ ~patchOk
                    /\ Return(FClose(FOpen(r1, "patch", FALSE), "output"), "err")
                 \/ /\ outOk /\ patchOk /\ o # "ok"
                    /\ Return(ClosePatch(DeleteList(r2)), "err")
                 \/ /\ outOk /\ patchOk /\ o = "ok"
                    /\ res' = Alloc(r2, "copy") /\ pc' = "parse" /\ UNCHANGED ret
  /\ UNCHANGED <<cmd, toDo, allocatedList, decrypted, dlen>>

\* Mutation-analysis variant of PatchParse: the jump goes to delete_list
\* instead of unmap_file.
PatchParse_SkipUnmap ==
  /\ cmd = "patch" /\ pc = "parse"
  /\ Return(ClosePatch(DeleteList(res)), "err")
  /\ UNCHANGED <<cmd, toDo, allocatedList, decrypted, dlen>>

(***************************************************************************)
(* Lines 436-442: ParseFile fails, or it succeeds and encryptedData is    *)
(* still NULL (the GetSectionData call at line 440 is commented out), so  *)
(* both outcomes jump to unmap_file and the command returns -1.  The      *)
(* decryption, patching and re-encryption of lines 446-509 are never      *)
(* reached.                                                                *)
(***************************************************************************)
PatchParse ==
  /\ cmd = "patch" /\ pc = "parse"
  /\ Return(ClosePatch(DeleteList(UnmapFileFromMemory(res))), "err")
  /\ UNCHANGED <<cmd, toDo, allocatedList, decrypted, dlen>>

\* ParseIMG3File, lines 639-655: map, parse and print (the result of
\* ParseFile is ignored), unmap.
ParseRun ==
  /\ cmd = "parse" /\ pc = "start"
  /\ \E o \in MapOutcomes :
       LET r == MapFileToMemory(res, o)
       IN  Return(IF o = "ok" THEN UnmapFileFromMemory(r) ELSE r, "void")
  /\ UNCHANGED <<cmd, toDo, allocatedList, decrypted, dlen>>

\* DecompressLZSSFile, lines 667-671.
DecompressMap ==
  /\ cmd = "decompress" /\ pc = "start"
  /\ \E o \in MapOutcomes :
       LET r == MapFileToMemory(res, o)
       IN  IF o = "ok" THEN res' = r /\ pc' = "inflate" /\ UNCHANGED ret
           ELSE Return(r, "err")
  /\ UNCHANGED <<cmd, toDo, allocatedList, decrypted, dlen>>

(***************************************************************************)
(* Lines 673-693: a file that starts with the LZSS magic is decompressed  *)
(* (LzssDecompress refuses a file shorter than its header); the output,   *)
(* NULL for a file that is not compressed, is written to                  *)
(* <file>_decompressed and the command returns 0.                         *)
(***************************************************************************)
DecompressInflate ==
  /\ cmd = "decompress" /\ pc = "inflate"
  /\ \E compressed \in BOOLEAN, size \in Lengths, w \in WriteOutcomes :
       LET out == IF compressed THEN "unz" ELSE "null"
           r1  == IF compressed THEN Alloc(res, "unz") ELSE res
       IN  \/ /\ compressed /\ size < LzssHeaderSize
              /\ Return(UnmapFileFromMemory(res), "err")
           \/ /\ ~compressed \/ size >= LzssHeaderSize
              /\ Return(UnmapFileFromMemory(
                          Delete(WriteDataToFile(Alloc(r1, "name"), out, w), "name")), "ok")
  /\ UNCHANGED <<cmd, toDo, allocatedList, decrypted, dlen>>

\* The process has returned from the command (or crashed) and stays so.
Done ==
  /\ pc \in {"returned", "crashed"}
  /\ UNCHANGED vars

Next ==
  \/ DecryptStart \/ DecryptLoop \/ DecryptParse \/ DecryptSection \/ DecryptWrite
  \/ UpdateMap \/ UpdateHtml
  \/ PatchStart \/ PatchLoop \/ PatchParse
  \/ ParseRun
  \/ DecompressMap \/ DecompressInflate
  \/ Done

Spec == Init /\ [][Next]_vars

-----------------------------------------------------------------------------
TypeOK ==
  /\ pc \in {"start", "loop", "parse", "decrypt", "written", "html", "inflate",
             "returned", "crashed"}
  /\ toDo \in 0 .. MaxFiles
  /\ decrypted \in Buffers \cup {"null"}
  /\ res.fd \in {-1} \cup Desc
  /\ res.fds \subseteq Desc /\ res.owned \subseteq res.fds
  /\ res.maps \in 0 .. 1
  /\ ret \in {"none", "void", "ok", "err"}

(***************************************************************************)
(* Every command leaves no file mapped when it returns: each path out of  *)
(* the per-file loops of DecryptIMG3File and PatchKernelFile after a      *)
(* successful MapFileToMemory passes through UnmapFileFromMemory.         *)
(***************************************************************************)
NoMappingLeftOnReturn == pc = "returned" => res.maps = 0

(***************************************************************************)
(* The commands use and delete only live heap buffers, and copy only the  *)
(* bytes a buffer holds: no read or write of a deleted buffer, no second  *)
(* delete, no memcpy past the end of its source.                           *)
(***************************************************************************)
HeapDiscipline == \A m \in res.misuse : m.op \notin {"use", "delete", "overread"}
=============================================================================
