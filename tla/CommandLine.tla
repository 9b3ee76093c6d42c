---------------------------- MODULE CommandLine -----------------------------
(***************************************************************************)
(* ParseArguments and main of IMG3_Main.cpp.  ParseArguments reads argv   *)
(* once, front to back: the command word, the options of the command's   *)
(* loop, the trailing file names, and then derives the device name, the   *)
(* version and the build that were not given from the file name.  It      *)
(* fills six global char* strings that main passes to the command.        *)
(*                                                                         *)
(* An argument is a token of Args; Info[t] is what the code's string      *)
(* functions find in it: strlen, the strstr of a known device (the length *)
(* of the name the code substitutes, 0 for none) and the offsets of the   *)
(* first ',', the first two '_', the first '=', the first '(' after the   *)
(* '=' and the first '(' (None when absent).  A string the code allocates *)
(* is a buffer: its allocation, the bytes copied into it and the offset   *)
(* of the first NUL written in it (None when none was written).  new      *)
(* throws rather than returning NULL, so the NULL checks after each new   *)
(* are dead code and are left out.                                        *)
(***************************************************************************)
EXTENDS Integers, Sequences

CONSTANTS
  Argvs,      \* the argument vectors main may be started with
  Info,       \* Info[t]: what strlen, strstr and strchr find in token t
  ScanLens    \* lengths of a build name typed at the prompt

None == -1
\* A null char*.
NULL == [ptr |-> "null"]

\* The command words of lines 201-217.
Operations == {"decrypt", "update", "list", "extract", "patch", "parse", "decompress"}

\* The six globals of lines 24-29.
Globals == {"deviceName", "deviceBuild", "deviceVersion", "section",
            "archiveFileName", "patchFileName"}

ASSUME \A a \in Argvs : a \in Seq(STRING) /\ Len(a) >= 1
ASSUME ScanLens \subseteq Nat

VARIABLES
  argv,       \* argv[1] is the program name, argv[k + 1] the code's argv[k]
  pc,         \* the point ParseArguments, or main after it, has reached
  operation,  \* the global operation
  index,      \* the option loop's index
  str,        \* str[g]: the buffer global g points to, or NULL
  response,   \* the last character getchar returned at the build prompt
  maxRead,    \* the largest argv index read so far
  misuse,     \* writes past the end of an allocation, by the global written
  exitCode    \* the process's exit status once main has finished, or None

vars == <<argv, pc, operation, index, str, response, maxRead, misuse, exitCode>>

argc == Len(argv)

\* argv[argc] is the NULL that ends argv: no text at all.
NullArg == "(null)"
NoText == [len |-> 0, known |-> 0, comma |-> None, us1 |-> None, us2 |-> None,
           eq |-> None, parenEq |-> None, paren |-> None]

Arg(k) == IF k < argc THEN argv[k + 1] ELSE NullArg
InfoOf(t) == IF t \in DOMAIN Info THEN Info[t] ELSE NoText
MaxOf(a, b) == IF a > b THEN a ELSE b

\* strncpy(buf, arg, count) or memcpy of count bytes, then buf[count] = 0,
\* into new char[count + 1].
CString(n) == [alloc |-> n + 1, len |-> n, term |-> n]

\* buf[k] = '\0': the first NUL moves to k if k is inside the allocation.
WriteNul(b, k) ==
  IF k < b.alloc THEN [b EXCEPT !.term = IF @ = None \/ k < @ THEN k ELSE @] ELSE b

Overflow(g) == [op |-> "overflow", on |-> g]

\* The archive file name: argv[argc - 1] (argv[2] for parse and
\* decompress, which require argc = 3).
Archive == InfoOf(Arg(argc - 1))

Init ==
  /\ argv \in Argvs
  /\ pc = "start"
  /\ operation = "none"
  /\ index = 0
  /\ str = [g \in Globals |-> NULL]
  /\ response = "none"
  /\ maxRead = 0
  /\ misuse = {}
  /\ exitCode = None
-----------------------------------------------------------------------------
\* The argument count each case of the switch requires before it reads on.
ArgcOK(op) ==
  CASE op = "patch"                   -> argc >= 7
    [] op \in {"parse", "decompress"} -> argc = 3
    [] OTHER                          -> argc >= 3

FirstPhase(op) ==
  CASE op \in {"decrypt", "update", "extract", "patch"} -> "options"
    [] op = "list"                                      -> "listhelp"
    [] OTHER                                            -> "archive"

\* Lines 191-220 and the argc test that opens each case: an unknown or
\* missing command word, or too few arguments, returns -1.
SelectOperation ==
  /\ pc = "start"
  /\ \/ /\ argc < 2
        /\ pc' = "failed"
        /\ UNCHANGED <<operation, index, maxRead>>
     \/ /\ argc >= 2
        /\ maxRead' = 1
        /\ \/ /\ Arg(1) \notin Operations
              /\ pc' = "failed"
              /\ UNCHANGED <<operation, index>>
           \/ /\ Arg(1) \in Operations
              /\ operation' = Arg(1)
              /\ index' = 2
              /\ pc' = IF ArgcOK(Arg(1)) THEN FirstPhase(Arg(1)) ELSE "failed"
  /\ UNCHANGED <<argv, str, response, misuse, exitCode>>

\* The bound of each option loop: index < argc (decrypt, patch), index < 8
\* (update) and index < 4 (extract).
OptionBound(op) ==
  CASE op = "update"  -> 8
    [] op = "extract" -> 4
    [] OTHER          -> argc

\* The options that take a value in each loop.
ValueFlags(op) ==
  CASE op = "decrypt" -> {"-d", "-b", "-v", "-s"}
    [] op = "update"  -> {"-d", "-b", "-v"}
    [] op = "extract" -> {"-s"}
    [] OTHER          -> {"-d", "-v"}

FlagTarget(f) ==
  CASE f = "-d" -> "deviceName"
    [] f = "-b" -> "deviceBuild"
    [] f = "-v" -> "deviceVersion"
    [] OTHER    -> "section"

\* Mutation-analysis variant of OptionStep: the loop has no
\* index + 1 >= argc break and stops only at its bound.
\* The patch loop without its for-increment: a skipped argument is read again.
OptionStep_NoSkip(op) ==
  /\ pc = "options" /\ operation = op
  /\ \/ /\ index >= OptionBound(op) \/ index + 1 >= argc
        /\ pc' = "archive"
        /\ UNCHANGED <<index, str, maxRead>>
     \/ /\ index < OptionBound(op) /\ index + 1 < argc
        /\ \/ /\ Arg(index) \in ValueFlags(op)
              /\ str' = [str EXCEPT ![FlagTarget(Arg(index))] =
                                      CString(InfoOf(Arg(index + 1)).len)]
              /\ index' = index + 2
              /\ maxRead' = MaxOf(maxRead, index + 1)
              /\ UNCHANGED pc
           \/ /\ Arg(index) \notin ValueFlags(op) /\ op = "patch"
              /\ maxRead' = MaxOf(maxRead, index)
              /\ UNCHANGED <<pc, str, index>>
           \/ /\ Arg(index) \notin ValueFlags(op) /\ op # "patch"
              /\ pc' = "failed"
              /\ maxRead' = MaxOf(maxRead, index)
              /\ UNCHANGED <<index, str>>
  /\ UNCHANGED <<argv, operation, response, misuse, exitCode>>

OptionStep_NoArgcBreak(op) ==
  /\ pc = "options" /\ operation = op
  /\ \/ /\ index >= OptionBound(op)
        /\ pc' = "archive"
        /\ UNCHANGED <<index, str, maxRead>>
     \/ /\ index < OptionBound(op)
        /\ \/ /\ Arg(index) \in ValueFlags(op)
              /\ str' = [str EXCEPT ![FlagTarget(Arg(index))] =
                                      CString(InfoOf(Arg(index + 1)).len)]
              /\ index' = index + 2
              /\ maxRead' = MaxOf(maxRead, index + 1)
              /\ UNCHANGED pc
           \/ /\ Arg(index) \notin ValueFlags(op) /\ op = "patch"
              /\ index' = index + 1
              /\ maxRead' = MaxOf(maxRead, index)
              /\ UNCHANGED <<pc, str>>
           \/ /\ Arg(index) \notin ValueFlags(op) /\ op # "patch"
              /\ pc' = "failed"
              /\ maxRead' = MaxOf(maxRead, index)
              /\ UNCHANGED <<index, str>>
  /\ UNCHANGED <<argv, operation, response, misuse, exitCode>>

(***************************************************************************)
(* One pass of an option loop.  The loop ends at its bound or when no      *)
(* argument follows argv[index].  An option that takes a value copies       *)
(* argv[++index] into a new string (the previous one, if any, is dropped;   *)
(* -s is lowered in place, which changes no length).  -h, and any other     *)
(* argument, print the usage and return -1, except in the patch loop,       *)
(* which has no else branch and skips them.                                 *)
(***************************************************************************)
OptionStep(op) ==
  /\ pc = "options" /\ operation = op
  /\ \/ /\ index >= OptionBound(op) \/ index + 1 >= argc
        /\ pc' = "archive"
        /\ UNCHANGED <<index, str, maxRead>>
     \/ /\ index < OptionBound(op) /\ index + 1 < argc
        /\ \/ /\ Arg(index) \in ValueFlags(op)
              /\ str' = [str EXCEPT ![FlagTarget(Arg(index))] =
                                      CString(InfoOf(Arg(index + 1)).len)]
              /\ index' = index + 2
              /\ maxRead' = MaxOf(maxRead, index + 1)
              /\ UNCHANGED pc
           \/ /\ Arg(index) \notin ValueFlags(op) /\ op = "patch"
              /\ index' = index + 1
              /\ maxRead' = MaxOf(maxRead, index)
              /\ UNCHANGED <<pc, str>>
           \/ /\ Arg(index) \notin ValueFlags(op) /\ op # "patch"
              /\ pc' = "failed"
              /\ maxRead' = MaxOf(maxRead, index)
              /\ UNCHANGED <<index, str>>
  /\ UNCHANGED <<argv, operation, response, misuse, exitCode>>

\* Lines 227-280, 403-441, 516-540 and 557-580.
DecryptOptions == OptionStep("decrypt")
UpdateOptions == OptionStep("update")
ExtractOptions == OptionStep("extract")
PatchOptions == OptionStep("patch")

\* Lines 382-385: list takes "-h" as its first argument for the usage.
ListHelp ==
  /\ pc = "listhelp"
  /\ pc' = IF Arg(2) = "-h" THEN "failed" ELSE "archive"
  /\ maxRead' = MaxOf(maxRead, 2)
  /\ UNCHANGED <<argv, operation, index, str, response, misuse, exitCode>>

AfterArchive(op) ==
  CASE op \in {"decrypt", "patch"} -> "name"
    [] op = "update"                -> "pagename"
    [] OTHER                        -> "dispatch"

(***************************************************************************)
(* The trailing file names: argv[argc - 1] is copied into archiveFileName   *)
(* and, for patch, argv[argc - 2] into patchFileName first.                 *)
(***************************************************************************)
CopyArchive ==
  /\ pc = "archive"
  /\ str' = [str EXCEPT
               !.archiveFileName = CString(Archive.len),
               !.patchFileName = IF operation = "patch"
                                 THEN CString(InfoOf(Arg(argc - 2)).len) ELSE @]
  /\ maxRead' = MaxOf(maxRead, argc - 1)
  /\ pc' = AfterArchive(operation)
  /\ UNCHANGED <<argv, operation, index, response, misuse, exitCode>>

(***************************************************************************)
(* The device name from the file name (lines 293-345): the name of the     *)
(* first known device the file name contains, copied with strncpy of its   *)
(* strlen into new char[strlen + 1], so without a NUL; otherwise           *)
(* everything before the first ',', into new char[count + 10] with a NUL;  *)
(* no ',' is an error.                                                     *)
(***************************************************************************)
NameFromFile(w) ==
  CASE w.known > 0      -> [alloc |-> w.known + 1, len |-> w.known, term |-> None]
    [] w.comma # None   -> [alloc |-> w.comma + 10, len |-> w.comma, term |-> w.comma]
    [] OTHER            -> NULL

\* Lines 603-655 (patch), the same code as lines 293-345 (decrypt).
DeriveName ==
  /\ pc = "name"
  /\ \/ /\ str.deviceName # NULL
        /\ pc' = "version"
        /\ UNCHANGED str
     \/ /\ str.deviceName = NULL /\ NameFromFile(Archive) = NULL
        /\ pc' = "failed"
        /\ UNCHANGED str
     \/ /\ str.deviceName = NULL /\ NameFromFile(Archive) # NULL
        /\ str' = [str EXCEPT !.deviceName = NameFromFile(Archive)]
        /\ pc' = "version"
  /\ UNCHANGED <<argv, operation, index, response, maxRead, misuse, exitCode>>

(***************************************************************************)
(* The version from the file name (lines 347-375): the count bytes between *)
(* the first two '_' are copied into new char[count + 1], and the NUL      *)
(* meant to end them is written at deviceName[count] instead.              *)
(***************************************************************************)
VersionCount(w) == w.us2 - w.us1 - 1

VersionFromFile(w) == [alloc |-> VersionCount(w) + 1, len |-> VersionCount(w), term |-> None]

\* section = new char[20]; strncpy(section, "kernelcache", 20), which pads
\* the rest with NULs (lines 685-687).
KernelSection == [alloc |-> 20, len |-> 11, term |-> 11]

\* Lines 657-687 (patch), the same code as lines 347-375 (decrypt), and the
\* kernelcache section patch sets last.
DeriveVersion ==
  /\ pc = "version"
  /\ LET sectionAfter == IF operation = "patch" THEN KernelSection ELSE str.section
     IN  \/ /\ str.deviceVersion # NULL
            /\ str' = [str EXCEPT !.section = sectionAfter]
            /\ pc' = "dispatch"
            /\ UNCHANGED misuse
         \/ /\ str.deviceVersion = NULL /\ (Archive.us1 = None \/ Archive.us2 = None)
            /\ pc' = "failed"
            /\ UNCHANGED <<str, misuse>>
         \/ /\ str.deviceVersion = NULL /\ Archive.us1 # None /\ Archive.us2 # None
            /\ str' = [str EXCEPT !.deviceVersion = VersionFromFile(Archive),
                                  !.deviceName = WriteNul(@, VersionCount(Archive)),
                                  !.section = sectionAfter]
            /\ misuse' = IF VersionCount(Archive) < str.deviceName.alloc THEN misuse
                         ELSE misuse \cup {Overflow("deviceName")}
            /\ pc' = "dispatch"
  /\ UNCHANGED <<argv, operation, index, response, maxRead, exitCode>>

(***************************************************************************)
(* update, lines 452-474: the device name is what lies between the '=' and *)
(* the next '(' less one trailing character.  With the '(' right after the *)
(* '=' the count is -1: new char[0], and memcpy of (size_t)-1 bytes runs    *)
(* off the heap, which kills the process.                                  *)
(***************************************************************************)
PageNameCount(w) == w.parenEq - w.eq - 2

UpdateName ==
  /\ pc = "pagename"
  /\ \/ /\ str.deviceName # NULL
        /\ pc' = "build"
        /\ UNCHANGED <<str, misuse>>
     \/ /\ str.deviceName = NULL /\ (Archive.eq = None \/ Archive.parenEq = None)
        /\ pc' = "failed"
        /\ UNCHANGED <<str, misuse>>
     \/ /\ str.deviceName = NULL /\ Archive.eq # None /\ Archive.parenEq # None
        /\ PageNameCount(Archive) >= 0
        /\ str' = [str EXCEPT !.deviceName = CString(PageNameCount(Archive))]
        /\ pc' = "build"
        /\ UNCHANGED misuse
     \/ /\ str.deviceName = NULL /\ Archive.eq # None /\ Archive.parenEq # None
        /\ PageNameCount(Archive) < 0
        /\ misuse' = misuse \cup {Overflow("deviceName")}
        /\ pc' = "crashed"
        /\ UNCHANGED str
  /\ UNCHANGED <<argv, operation, index, response, maxRead, exitCode>>

\* Mutation-analysis variant of UpdateBuild: strchr's NULL result is not
\* checked, so the count is taken from a missing '('.
UpdateBuild_NoNullCheck ==
  /\ pc = "build"
  /\ \/ /\ str.deviceBuild # NULL
        /\ pc' = "pageversion"
        /\ UNCHANGED <<str, response, misuse>>
     \/ /\ str.deviceBuild = NULL /\ Archive.paren # 0
        /\ str' = [str EXCEPT !.deviceBuild = CString(Archive.paren - 1)]
        /\ response' \in {"Y", "N"}
        /\ pc' = "confirm"
        /\ UNCHANGED misuse
     \/ /\ str.deviceBuild = NULL /\ Archive.paren = 0
        /\ misuse' = misuse \cup {Overflow("deviceBuild")}
        /\ pc' = "crashed"
        /\ UNCHANGED <<str, response>>
  /\ UNCHANGED <<argv, operation, index, maxRead, exitCode>>

(***************************************************************************)
(* update, lines 475-491: the build is everything before the first '('     *)
(* less one character (a '(' at offset 0 gives the count -1 and the same   *)
(* fatal memcpy); then the prompt, whose answer is the first character     *)
(* getchar returns.                                                        *)
(***************************************************************************)
UpdateBuild ==
  /\ pc = "build"
  /\ \/ /\ str.deviceBuild # NULL
        /\ pc' = "pageversion"
        /\ UNCHANGED <<str, response, misuse>>
     \/ /\ str.deviceBuild = NULL /\ Archive.paren = None
        /\ pc' = "failed"
        /\ UNCHANGED <<str, response, misuse>>
     \/ /\ str.deviceBuild = NULL /\ Archive.paren # None /\ Archive.paren >= 1
        /\ str' = [str EXCEPT !.deviceBuild = CString(Archive.paren - 1)]
        /\ response' \in {"Y", "N"}
        /\ pc' = "confirm"
        /\ UNCHANGED misuse
     \/ /\ str.deviceBuild = NULL /\ Archive.paren = 0
        /\ misuse' = misuse \cup {Overflow("deviceBuild")}
        /\ pc' = "crashed"
        /\ UNCHANGED <<str, response>>
  /\ UNCHANGED <<argv, operation, index, maxRead, exitCode>>

(***************************************************************************)
(* Lines 492-504: while the answer is N, a new char[50] takes the build     *)
(* scanf("%s") reads, with its NUL; a longer word runs past the 50 bytes.   *)
(* scanf stops at the white space after the word and leaves it unread, so  *)
(* the getchar that follows returns that white space (or EOF), never N.    *)
(***************************************************************************)
ConfirmBuild ==
  /\ pc = "confirm"
  /\ \/ /\ response = "N"
        /\ \E l \in ScanLens :
             /\ str' = [str EXCEPT !.deviceBuild = [alloc |-> 50, len |-> l, term |-> l]]
             /\ misuse' = IF l < 50 THEN misuse ELSE misuse \cup {Overflow("deviceBuild")}
        /\ response' = "space"
        /\ UNCHANGED pc
     \/ /\ response # "N"
        /\ pc' = "pageversion"
        /\ UNCHANGED <<str, response, misuse>>
  /\ UNCHANGED <<argv, operation, index, maxRead, exitCode>>

\* Lines 505-508: update needs -v.
UpdateVersion ==
  /\ pc = "pageversion"
  /\ pc' = IF str.deviceVersion = NULL THEN "failed" ELSE "dispatch"
  /\ UNCHANGED <<argv, operation, index, str, response, maxRead, misuse, exitCode>>
-----------------------------------------------------------------------------
(***************************************************************************)
(* main, lines 725-760: a failed ParseArguments exits with 1; otherwise    *)
(* the command runs with the globals and main returns 0 whatever it       *)
(* returned.  The commands themselves are FirmwarePipeline and            *)
(* ZipArchive.                                                             *)
(***************************************************************************)
ExitOnParseFailure ==
  /\ pc = "failed"
  /\ exitCode' = 1
  /\ pc' = "exited"
  /\ UNCHANGED <<argv, operation, index, str, response, maxRead, misuse>>

RunCommand ==
  /\ pc = "dispatch"
  /\ exitCode' = 0
  /\ pc' = "exited"
  /\ UNCHANGED <<argv, operation, index, str, response, maxRead, misuse>>

\* The process has ended.
Done == pc \in {"exited", "crashed"} /\ UNCHANGED vars

Next ==
  \/ SelectOperation
  \/ DecryptOptions \/ UpdateOptions \/ ExtractOptions \/ PatchOptions
  \/ ListHelp
  \/ CopyArchive
  \/ DeriveName \/ DeriveVersion
  \/ UpdateName \/ UpdateBuild \/ ConfirmBuild \/ UpdateVersion
  \/ ExitOnParseFailure \/ RunCommand
  \/ Done

Spec == Init /\ [][Next]_vars

\* main runs alone in its process and never waits on anything but stdin,
\* which always answers (a character or EOF): while it has not ended it
\* keeps taking its next step.
FairSpec == Spec /\ WF_vars(Next)
-----------------------------------------------------------------------------
Buffer == [alloc : Nat, len : Nat, term : Nat \cup {None}]

TypeOK ==
  /\ pc \in {"start", "options", "listhelp", "archive", "name", "version",
             "pagename", "build", "confirm", "pageversion", "dispatch",
             "failed", "crashed", "exited"}
  /\ operation \in Operations \cup {"none"}
  /\ index \in 0 .. argc
  /\ str \in [Globals -> Buffer \cup {NULL}]
  /\ response \in {"none", "Y", "N", "space"}
  /\ maxRead \in Nat
  /\ misuse \subseteq [op : {"overflow"}, on : Globals]
  /\ exitCode \in {None, 0, 1}

(***************************************************************************)
(* ParseArguments reads no argument past argv[argc - 1]: every strcmp and  *)
(* strlen of argv[index] or argv[++index] in the option loops is behind    *)
(* the index + 1 >= argc break, and the fixed positions (argv[2],          *)
(* argv[argc - 2], argv[argc - 1]) behind each case's argc test.  argv[argc] *)
(* is NULL, and strcmp or strlen of it faults.                             *)
(***************************************************************************)
ArgvReadsInBounds == maxRead < argc

(***************************************************************************)
(* The process ends: every option loop moves index forward to its bound   *)
(* or to argc, and the build prompt's while loop runs at most once more,  *)
(* since the getchar after scanf returns the white space scanf stopped    *)
(* at.                                                                     *)
(***************************************************************************)
ParseArgumentsTerminates == <>(pc \in {"exited", "crashed"})

\* The globals each command reads: the ASSERT_RETs that open
\* DecryptIMG3File (IMG3_Functions.cpp 551-554), PatchKernelFile (369-372),
\* ListArchiveFiles (276) and ExtractFileFromArchive (297), the fileName
\* MapFileToMemory asserts (47), and the strings UpdateIMG3Database passes
\* on to the key store.
Needs(op) ==
  CASE op = "decrypt" -> {"archiveFileName", "deviceName", "deviceVersion", "section"}
    [] op = "update"  -> {"archiveFileName", "deviceName", "deviceVersion", "deviceBuild"}
    [] op = "patch"   -> {"archiveFileName", "patchFileName", "deviceName", "deviceVersion"}
    [] OTHER          -> {"archiveFileName"}

\* A C string: a NUL was written right after the bytes copied, inside the
\* allocation.
WellFormed(b) == b # NULL /\ b.term = b.len /\ b.len < b.alloc

(***************************************************************************)
(* What ParseArguments accepts, the command can use: when it returns 0,    *)
(* every string the dispatched command asserts or reads is set and is the *)
(* C string the code copied into it, and no write of ParseArguments went   *)
(* past an allocation.  spec.md section 6 says device and version may be  *)
(* inferred from the file name when omitted.                               *)
(***************************************************************************)
ParsedArgumentsUsable ==
  pc = "dispatch" =>
     /\ \A g \in Needs(operation) : WellFormed(str[g])
     /\ misuse = {}
====
