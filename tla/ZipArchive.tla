----------------------------- MODULE ZipArchive -----------------------------
(***************************************************************************)
(* IMG3_ZipInterface (src/compression/IMG3_ZipInterface.cpp) over the life *)
(* of one object, as the command functions of IMG3_Functions.cpp use it:   *)
(* constructed on the stack, AnalyzeFile once, then for a zip either the   *)
(* names are printed (ListArchiveFiles), ExtractFiles or ExtractAllFiles   *)
(* runs (ExtractFileFromArchive, DecryptIMG3File, PatchKernelFile), and    *)
(* the destructor runs when the command returns.                           *)
(*                                                                         *)
(* The archive is revealed as the code reads it: the outcome of each       *)
(* fopen/fseek/ftell/fread, where the end-of-central-directory marker sits *)
(* and each central directory record, are chosen when they are read.  A    *)
(* file name is a model value of Names; "uninit" is the value of a         *)
(* node->fileName the code never assigned.  Every release or read of      *)
(* something the object does not hold is recorded in misuse.               *)
(***************************************************************************)
EXTENDS Integers, Sequences

CONSTANTS
  Names,       \* file names a directory record may carry
  Matching,    \* the names that contain the section string
  MaxRecords,  \* the largest centralDirectoryTotalNum a run reads
  Clients      \* the command functions that construct the object

ASSUME Matching \subseteq Names /\ MaxRecords \in Nat
ASSUME Clients \subseteq {"list", "extract", "extractall", "files"}

UNINIT == "uninit"
Name == Names \cup {UNINIT}

\* Where FindCentralDirectoryEnd finds the end marker: nowhere (or its
\* fseek/fread fails), at least sizeof(end) - CENTRAL_DIRECTORY_END_EXTRA
\* bytes before the end of what it read, or closer to the end than that.
EndOutcomes == {"none", "full", "short"}

\* A central directory record as ExtractCentralDirectoryListings meets it:
\* its marker is wrong; it lies inside centralDirectorySize; only its extra
\* field or comment runs past the end; or its header or name does.
RecordKinds == {"badmarker", "fits", "tailover", "copyover"}

VARIABLES
  client,    \* which command function owns the object
  zpc,       \* where the object's owner is
  stream,    \* the FILE *fd member: "null", "open" or "closed"
  nodes,     \* fileName of each ZIP_FileNode in the nodes list
  files,     \* the files list
  total,     \* end.centralDirectoryTotalNum
  index,     \* the loop index of ExtractCentralDirectoryListings
  node,      \* the local node pointer: "uninit" or "set"
  errorCode, \* "none", "notzip", "nodir" or "sys"
  analyzed,  \* what AnalyzeFile returned: "none", "list" or "null"
  toScan,    \* ExtractFiles: the nodes it has not looked at yet
  extracted, \* ExtractFiles: the names pushed on matchingFiles
  extractRet, \* what ExtractFiles returned: "none", "list" or "null"
  misuse

vars == <<client, zpc, stream, nodes, files, total, index, node, errorCode,
          analyzed, toScan, extracted, extractRet, misuse>>

Misuse(op, on) == {[op |-> op, on |-> on]}

\* fclose of a NULL or already closed FILE is a misuse.
FCloseMisuse(s) == IF s = "open" THEN {} ELSE Misuse("fclose", "fd")

\* delete of each name in files: one the code never assigned is garbage.
DeleteNamesMisuse(fs) ==
  IF \E k \in 1 .. Len(fs) : fs[k] = UNINIT THEN Misuse("delete", "fileName") ELSE {}

\* Reading each name as a C string (fprintf, strcasestr).
ReadNamesMisuse(fs) ==
  IF \E k \in 1 .. Len(fs) : fs[k] = UNINIT THEN Misuse("read", "fileName") ELSE {}

\* ResetData, lines 41-56: clear nodes, delete and clear the names, and
\* fclose a non-NULL fd (which it does not set to NULL).
ResetDataMisuse == DeleteNamesMisuse(files) \cup
                   (IF stream = "null" THEN {} ELSE FCloseMisuse(stream))

Init ==
  /\ client \in Clients
  /\ zpc = "analyze"
  /\ stream = "null" /\ nodes = << >> /\ files = << >>
  /\ total = 0 /\ index = 0 /\ node = UNINIT
  /\ errorCode = "none" /\ analyzed = "none"
  /\ toScan = << >> /\ extracted = << >> /\ extractRet = "none"
  /\ misuse = {}

\* The zip_getfilelist_close_error label, lines 118-121.
CloseError(code) ==
  /\ errorCode' = code /\ analyzed' = "null"
  /\ stream' = "null" /\ zpc' = "analyzed"

(***************************************************************************)
(* AnalyzeFile lines 63-107 with FindCentralDirectoryEnd, lines 187-235:   *)
(* ResetData, fopen, fseek and ftell to find the size, then the end        *)
(* record.  Every failure of FindCentralDirectoryEnd, its fseek or fread  *)
(* included, is reported as "not a zip file".  memcpy at line 105 copies  *)
(* sizeof(end) - CENTRAL_DIRECTORY_END_EXTRA bytes from a buffer of only  *)
(* bytesToRead - index bytes.                                              *)
(***************************************************************************)
AnalyzeFile ==
  /\ zpc = "analyze"
  /\ \E o \in {"openfail", "seekfail", "ok"}, e \in EndOutcomes, n \in 0 .. MaxRecords :
       LET reset == ResetDataMisuse
       IN  \/ /\ o = "openfail"
              /\ misuse' = misuse \cup reset
              /\ errorCode' = "sys" /\ analyzed' = "null" /\ zpc' = "analyzed"
              /\ UNCHANGED <<stream, total>>
           \/ /\ o = "seekfail"
              /\ misuse' = misuse \cup reset
              /\ CloseError("sys") /\ UNCHANGED total
           \/ /\ o = "ok" /\ e = "none"
              /\ misuse' = misuse \cup reset
              /\ CloseError("notzip") /\ UNCHANGED total
           \/ /\ o = "ok" /\ e # "none"
              /\ misuse' = misuse \cup reset \cup
                           (IF e = "short" THEN Misuse("overread", "endBuffer") ELSE {})
              /\ stream' = "open" /\ total' = n /\ zpc' = "directory"
              /\ UNCHANGED <<errorCode, analyzed>>
  /\ nodes' = << >> /\ files' = << >>
  /\ UNCHANGED <<client, index, node, toScan, extracted, extractRet>>

\* ExtractCentralDirectoryListings lines 243-279: read the whole directory
\* into records; a failed fseek or fread returns -1.
ReadDirectory ==
  /\ zpc = "directory"
  /\ \/ /\ CloseError("nodir")
        /\ UNCHANGED <<index, node>>
     \/ /\ zpc' = "records" /\ index' = 0 /\ node' = UNINIT
        /\ UNCHANGED <<stream, errorCode, analyzed>>
  /\ UNCHANGED <<client, nodes, files, total, toScan, extracted, extractRet, misuse>>

\* The traversal_error label, lines 324-330: the nodes list is cleared, but
\* files keeps its names; node is deleted when it is not NULL, and before
\* the first record was read it was never assigned.
TraversalError(n, m) ==
  /\ nodes' = << >>
  /\ misuse' = misuse \cup m \cup (IF n = UNINIT THEN Misuse("delete", "node") ELSE {})
  /\ CloseError("nodir")

\* Mutation-analysis variant of ScanRecord: the loop does not stop at
\* centralDirectoryTotalNum records.
ScanRecord_NoBound ==
  /\ zpc = "records" /\ index <= MaxRecords
  /\ \E nm \in Name :
       /\ nodes' = Append(nodes, nm) /\ files' = Append(files, nm)
       /\ index' = index + 1 /\ node' = "set"
  /\ UNCHANGED <<client, stream, zpc, errorCode, analyzed, misuse, total, toScan,
                 extracted, extractRet>>

\* Mutation-analysis variant of ScanRecord: the name is pushed on files
\* only inside the fileNameLength != 0 branch.
ScanRecord_NamedOnly ==
  /\ zpc = "records" /\ index < total
  /\ \E k \in RecordKinds, nm \in Name :
       \/ /\ k = "badmarker"
          /\ TraversalError(node, {})
          /\ UNCHANGED <<files, index, node>>
       \/ /\ k = "fits"
          /\ nodes' = Append(nodes, nm)
          /\ files' = IF nm = UNINIT THEN files ELSE Append(files, nm)
          /\ index' = index + 1 /\ node' = "set"
          /\ UNCHANGED <<stream, zpc, errorCode, analyzed, misuse>>
  /\ UNCHANGED <<client, total, toScan, extracted, extractRet>>

(***************************************************************************)
(* One pass of the loop of lines 279-321: check the record's marker, make  *)
(* a node, copy the name when fileNameLength is not 0 (otherwise fileName  *)
(* is left unassigned), push the node and its name, and only then check    *)
(* that the record lay inside the buffer.                                  *)
(***************************************************************************)
ScanRecord ==
  /\ zpc = "records" /\ index < total
  /\ \E k \in RecordKinds, nm \in Name :
       \/ /\ k = "badmarker"
          /\ TraversalError(node, {})
          /\ UNCHANGED <<files, index, node>>
       \/ /\ k # "badmarker"
          /\ LET over == IF k = "copyover" THEN Misuse("overread", "records") ELSE {}
             IN  IF k = "fits"
                 THEN /\ nodes' = Append(nodes, nm) /\ files' = Append(files, nm)
                      /\ index' = index + 1 /\ node' = "set"
                      /\ UNCHANGED <<stream, zpc, errorCode, analyzed, misuse>>
                 ELSE /\ files' = Append(files, nm) /\ node' = "set"
                      /\ TraversalError("set", over)
                      /\ UNCHANGED index
  /\ UNCHANGED <<client, total, toScan, extracted, extractRet>>

\* Lines 322-323 and 116-117: the directory is read; AnalyzeFile fcloses fd
\* and returns its files list, leaving fd pointing at the closed FILE.
RecordsDone ==
  /\ zpc = "records" /\ index = total
  /\ stream' = "closed" /\ analyzed' = "list" /\ zpc' = "analyzed"
  /\ UNCHANGED <<client, nodes, files, total, index, node, errorCode, toScan,
                 extracted, extractRet, misuse>>
-----------------------------------------------------------------------------
(* What the command function does with a zip it analysed. *)

\* ListArchiveFiles, lines 278-288 of IMG3_Functions.cpp: print every name.
ListNames ==
  /\ client = "list" /\ zpc = "analyzed" /\ analyzed = "list"
  /\ misuse' = misuse \cup ReadNamesMisuse(files)
  /\ zpc' = "used"
  /\ UNCHANGED <<client, stream, nodes, files, total, index, node, errorCode,
                 analyzed, toScan, extracted, extractRet>>

\* ExtractAllFiles, lines 395-420: vfork unzip and wait for it; the result
\* changes nothing the object holds.
ExtractAllFiles ==
  /\ client = "extractall" /\ zpc = "analyzed" /\ analyzed = "list"
  /\ zpc' = "used"
  /\ UNCHANGED <<client, stream, nodes, files, total, index, node, errorCode,
                 analyzed, toScan, extracted, extractRet, misuse>>

\* ExtractFiles, lines 339-357: allocate matchingFiles and walk nodes.
ExtractFiles ==
  /\ client \in {"extract", "files"} /\ zpc = "analyzed" /\ analyzed = "list"
  /\ toScan' = nodes /\ extracted' = << >> /\ zpc' = "extracting"
  /\ UNCHANGED <<client, stream, nodes, files, total, index, node, errorCode,
                 analyzed, extractRet, misuse>>

(***************************************************************************)
(* One pass of the loop of lines 360-381: strcasestr on the node's name;   *)
(* a match is pushed and unzip is vforked and waited for, and a failed    *)
(* vfork or wait returns NULL.  Whether a name the code never assigned    *)
(* matches is whatever the garbage it points at holds.  An assigned name  *)
(* has no NUL (the strncpy of line 310 copies exactly fileNameLength       *)
(* bytes), so strcasestr reads on into the heap: a name holding the       *)
(* section matches, and any other name may match through what follows it. *)
(***************************************************************************)
ExtractNode ==
  /\ zpc = "extracting" /\ toScan # << >>
  /\ LET nm == Head(toScan)
     IN  \E match \in (IF nm \in Matching THEN {TRUE} ELSE BOOLEAN),
            o \in {"ok", "forkfail", "waitfail"} :
           /\ misuse' = misuse \cup ReadNamesMisuse(<<nm>>)
           /\ toScan' = Tail(toScan)
           /\ \/ /\ ~match
                 /\ UNCHANGED <<extracted, zpc, extractRet>>
              \/ /\ match /\ o = "ok"
                 /\ extracted' = Append(extracted, nm)
                 /\ UNCHANGED <<zpc, extractRet>>
              \/ /\ match /\ o # "ok"
                 /\ extracted' = Append(extracted, nm)
                 /\ extractRet' = "null" /\ zpc' = "used"
  /\ UNCHANGED <<client, stream, nodes, files, total, index, node, errorCode, analyzed>>

\* Line 385: every node looked at, matchingFiles is returned.
ExtractDone ==
  /\ zpc = "extracting" /\ toScan = << >>
  /\ extractRet' = "list" /\ zpc' = "used"
  /\ UNCHANGED <<client, stream, nodes, files, total, index, node, errorCode,
                 analyzed, toScan, extracted, misuse>>

\* The command returns and the destructor, lines 32-35, runs ResetData.
Destroy ==
  /\ \/ zpc = "used"
     \/ zpc = "analyzed" /\ analyzed = "null"
  /\ misuse' = misuse \cup ResetDataMisuse
  /\ nodes' = << >> /\ files' = << >> /\ zpc' = "destroyed"
  /\ UNCHANGED <<client, stream, total, index, node, errorCode, analyzed,
                 toScan, extracted, extractRet>>

\* The command has returned.
Done ==
  /\ zpc = "destroyed"
  /\ UNCHANGED vars

Next ==
  \/ AnalyzeFile \/ ReadDirectory \/ ScanRecord \/ RecordsDone
  \/ ListNames \/ ExtractAllFiles \/ ExtractFiles \/ ExtractNode \/ ExtractDone
  \/ Destroy \/ Done

Spec == Init /\ [][Next]_vars
-----------------------------------------------------------------------------
TypeOK ==
  /\ zpc \in {"analyze", "directory", "records", "analyzed", "extracting",
             "used", "destroyed"}
  /\ stream \in {"null", "open", "closed"}
  /\ nodes \in Seq(Name) /\ files \in Seq(Name) /\ toScan \in Seq(Name)
  /\ extracted \in Seq(Name)
  /\ total \in 0 .. MaxRecords /\ index \in 0 .. total
  /\ analyzed \in {"none", "list", "null"} /\ extractRet \in {"none", "list", "null"}


(***************************************************************************)
(* When AnalyzeFile returns its files list, the list names every record   *)
(* centralDirectoryTotalNum announced, in directory order, and it is the  *)
(* same list as the fileName of the nodes ExtractFiles walks.              *)
(***************************************************************************)
ListingMatchesDirectory ==
  analyzed = "list" /\ zpc \in {"analyzed", "extracting", "used"} =>
     /\ Len(files) = total
     /\ files = nodes

=============================================================================
