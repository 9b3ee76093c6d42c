------------------------------ MODULE KeyStore ------------------------------
(***************************************************************************)
(* IMG3_Sqlite3 (sqlite3/IMG3_Sqlite3.cpp) over the database file         *)
(* Resources/img3.db, which outlives the process.  Each command builds    *)
(* its own IMG3_Sqlite3: update calls UpdateDatabase with the records the  *)
(* HTML parser found, decrypt calls RetrieveKeyAndIV once per file, and    *)
(* the destructor closes the connection.  Commands run one after another;  *)
(* one may die between any two SQL statements, and each statement is its  *)
(* own transaction (sqlite's autocommit), so what it wrote stays.          *)
(*                                                                         *)
(* A table is a sequence of rows in rowid order: a SELECT without ORDER BY *)
(* over a plain table returns them in that order, so sqlite3_step's first  *)
(* row is the first match.  The Build column is never read back and is     *)
(* left out; the strings' lengths, and so the "sql command too long"       *)
(* checks, are abstracted away.  An SQL statement either succeeds or fails *)
(* at a fault point of FaultPoints; sqlite3_step failing with an error     *)
(* (SQLITE_BUSY when another process holds the file) is such a fault.      *)
(***************************************************************************)
EXTENDS Integers, Sequences, SequencesExt

CONSTANTS
  Devices,      \* table names
  Quoted,       \* device names that are not valid bare SQL identifiers
  Versions,
  Sections,
  Values,       \* key and IV strings
  MaxRecords,   \* records on one key page
  MaxCommands,  \* commands run against the file
  FaultPoints,  \* statements that may fail
  CrashPoints   \* points at which the process may die

ASSUME Quoted \subseteq Devices

None == 0
ASSUME None \notin Values

NotFound == [key |-> None, iv |-> None]
NoRequest == [at |-> <<>>, p |-> NotFound]

\* A DecryptionInfo record (IMG3_typedefs.h): section, key and iv.
Record == [sec : Sections, key : Values, iv : Values]
Row == [ver : Versions, sec : Sections, key : Values, iv : Values]

Commands ==
  [op : {"update"}, dev : Devices, ver : Versions,
   recs : UNION {[1..n -> Record] : n \in 1..MaxRecords}]
  \cup [op : {"lookup"}, dev : Devices, ver : Versions, sec : Sections]

VARIABLES
  tables,    \* tables[d]: the rows of device d's table, in rowid order
  created,   \* the devices whose table exists
  conn,      \* db != NULL in the current IMG3_Sqlite3
  pc,        \* where the current command is
  cmd,       \* the current command
  idx,       \* the record UpdateDatabase's loop is at
  ret,       \* the last record InsertDecryptionInfo returned for, and what
  answer,    \* what the last RetrieveKeyAndIV returned, and for what
  commands,  \* commands started so far
  before     \* history: the pair the Key update overwrote

vars == <<tables, created, conn, pc, cmd, idx, ret, answer, commands, before>>

Init ==
  /\ tables = [d \in Devices |-> <<>>]
  /\ created = {}
  /\ conn = FALSE
  /\ pc = "idle"
  /\ cmd = [op |-> "lookup", dev |-> CHOOSE d \in Devices : TRUE,
            ver |-> CHOOSE v \in Versions : TRUE, sec |-> CHOOSE s \in Sections : TRUE]
  /\ idx = 1
  /\ ret = [for |-> NoRequest, res |-> "none"]
  /\ answer = [at |-> <<>>, val |-> NotFound]
  /\ commands = 0
  /\ before = NotFound

\* The record InsertDecryptionInfo is working on.
Rec == cmd.recs[idx]

RecEntry == <<cmd.dev, cmd.ver, Rec.sec>>
RecPair == [key |-> Rec.key, iv |-> Rec.iv]
Request == [at |-> RecEntry, p |-> RecPair]

Matches(r, v, s) == r.ver = v /\ r.sec = s

\* The IMG3_Sqlite3 goes out of scope: the destructor closes the file.
Finish == pc' = "idle" /\ conn' = FALSE

\* InsertDecryptionInfo returns -1, and UpdateDatabase with it (line 43).
Fail ==
  /\ ret' = [for |-> Request, res |-> "failed"]
  /\ Finish
  /\ UNCHANGED <<tables, created, cmd, idx, answer, commands, before>>

\* A command of main: update with the records of a key page, or the
\* lookup of one DecryptIMG3Data.
StartCommand ==
  /\ pc = "idle" /\ commands < MaxCommands
  /\ \E c \in Commands : cmd' = c
  /\ pc' = "connect"
  /\ idx' = 1
  /\ commands' = commands + 1
  /\ UNCHANGED <<tables, created, conn, ret, answer, before>>

\* ConnectToDatabase, called when db is NULL by UpdateDatabase (lines 33-37)
\* and RetrieveKeyAndIV (lines 270-274); a failed open returns -1.
Connect ==
  /\ pc = "connect"
  /\ \/ /\ "open" \in FaultPoints
        /\ Finish
        /\ answer' = IF cmd.op = "lookup"
                     THEN [at |-> <<cmd.dev, cmd.ver, cmd.sec>>, val |-> NotFound]
                     ELSE answer
     \/ /\ conn' = TRUE
        /\ pc' = IF cmd.op = "update" THEN "record" ELSE "select"
        /\ UNCHANGED answer
  /\ UNCHANGED <<tables, created, cmd, idx, ret, commands, before>>

\* UpdateDatabase's loop (lines 39-47), and DoesDeviceExist (lines
\* 112-148) at the head of InsertDecryptionInfo: any error of the SELECT
\* on sqlite_master reads as "no table".
DeviceExists ==
  /\ pc = "record"
  /\ \/ /\ idx > Len(cmd.recs)
        /\ Finish
     \/ /\ idx <= Len(cmd.recs)
        /\ \/ /\ cmd.dev \in created
              /\ pc' = "secExists"
           \/ /\ cmd.dev \notin created \/ "devExists" \in FaultPoints
              /\ pc' = "create"
        /\ UNCHANGED conn
  /\ UNCHANGED <<tables, created, cmd, idx, ret, answer, commands, before>>

\* DoesSectionExist (lines 75-110): a row is found, or the step ends
\* with SQLITE_DONE or an error, which both read as "no row" (line 205).
SectionExists ==
  /\ pc = "secExists"
  /\ \/ /\ \E r \in Range(tables[cmd.dev]) : Matches(r, cmd.ver, Rec.sec)
        /\ pc' = "updKey"
     \/ /\ \/ ~\E r \in Range(tables[cmd.dev]) : Matches(r, cmd.ver, Rec.sec)
           \/ "secExists" \in FaultPoints
        /\ pc' = "insert"
  /\ UNCHANGED <<tables, created, conn, cmd, idx, ret, answer, commands, before>>

\* InsertTable (lines 150-180, called at 237): CREATE TABLE fails when the
\* table is there already.
CreateTable ==
  /\ pc = "create"
  /\ \/ /\ cmd.dev \in created \/ "create" \in FaultPoints
        /\ Fail
     \/ /\ cmd.dev \notin created
        /\ created' = created \cup {cmd.dev}
        /\ pc' = "insert"
        /\ UNCHANGED <<tables, conn, cmd, idx, ret, answer, commands, before>>

\* The first row of the version and section, as SELECT ... LIMIT-less
\* sqlite3_step returns it, or NotFound.
FirstPair(d, v, s) ==
  LET i == SelectInSeq(tables[d], LAMBDA r : Matches(r, v, s))
  IN  IF i = 0 THEN NotFound ELSE [key |-> tables[d][i].key, iv |-> tables[d][i].iv]

\* UPDATE col='x' of every row of the version and section.
SetColumn(t, col, x) ==
  [i \in DOMAIN t |-> IF Matches(t[i], cmd.ver, Rec.sec)
                      THEN [t[i] EXCEPT ![col] = x] ELSE t[i]]

\* Lines 208-219: the Key update.  updateCommandTemplate names the table
\* without quotes, so a device name that needs them is a syntax error.
UpdateKey ==
  /\ pc = "updKey"
  /\ \/ /\ cmd.dev \in Quoted \/ "updKey" \in FaultPoints
        /\ Fail
     \/ /\ cmd.dev \notin Quoted
        /\ tables' = [tables EXCEPT ![cmd.dev] = SetColumn(@, "key", Rec.key)]
        /\ before' = FirstPair(cmd.dev, cmd.ver, Rec.sec)
        /\ pc' = "updIV"
        /\ UNCHANGED <<created, conn, cmd, idx, ret, answer, commands>>

\* The loop's iterator advanced once more inside the body.
UpdateIV_SkipsRecord ==
  /\ pc = "updIV"
  /\ \/ /\ "updIV" \in FaultPoints
        /\ Fail
     \/ /\ tables' = [tables EXCEPT ![cmd.dev] = SetColumn(@, "iv", Rec.iv)]
        /\ ret' = [for |-> Request, res |-> "ok"]
        /\ idx' = idx + 2
        /\ pc' = "record"
        /\ UNCHANGED <<created, conn, cmd, answer, commands, before>>

\* Lines 221-233: the IV update, a second statement.
UpdateIV ==
  /\ pc = "updIV"
  /\ \/ /\ "updIV" \in FaultPoints
        /\ Fail
     \/ /\ tables' = [tables EXCEPT ![cmd.dev] = SetColumn(@, "iv", Rec.iv)]
        /\ ret' = [for |-> Request, res |-> "ok"]
        /\ idx' = idx + 1
        /\ pc' = "record"
        /\ UNCHANGED <<created, conn, cmd, answer, commands, before>>

InsertRow_SwappedColumns ==
  /\ pc = "insert"
  /\ \/ /\ "insert" \in FaultPoints
        /\ Fail
     \/ /\ tables' = [tables EXCEPT ![cmd.dev] =
                        Append(@, [ver |-> cmd.ver, sec |-> Rec.sec,
                                   key |-> Rec.iv, iv |-> Rec.key])]
        /\ ret' = [for |-> Request, res |-> "ok"]
        /\ idx' = idx + 1
        /\ pc' = "record"
        /\ UNCHANGED <<created, conn, cmd, answer, commands, before>>

\* Lines 242-255: INSERT INTO '<device>' (Build,Version,Section,IV,Key)
\* VALUES (build, version, section, iv, key).
InsertRow ==
  /\ pc = "insert"
  /\ \/ /\ "insert" \in FaultPoints
        /\ Fail
     \/ /\ tables' = [tables EXCEPT ![cmd.dev] =
                        Append(@, [ver |-> cmd.ver, sec |-> Rec.sec,
                                   key |-> Rec.key, iv |-> Rec.iv])]
        /\ ret' = [for |-> Request, res |-> "ok"]
        /\ idx' = idx + 1
        /\ pc' = "record"
        /\ UNCHANGED <<created, conn, cmd, answer, commands, before>>

(***************************************************************************)
(* RetrieveKeyAndIV (lines 276-336): SELECT IV, then SELECT Key, each from *)
(* the first matching row.  A missing table fails the prepare, a missing   *)
(* row ends the step with SQLITE_DONE; both, and an error of either        *)
(* statement, return -1.                                                   *)
(***************************************************************************)
Select ==
  /\ pc = "select"
  /\ \E res \in {FirstPair(cmd.dev, cmd.ver, cmd.sec)}
                \cup (IF "select" \in FaultPoints THEN {NotFound} ELSE {}) :
       answer' = [at |-> <<cmd.dev, cmd.ver, cmd.sec>>, val |-> res]
  /\ Finish
  /\ UNCHANGED <<tables, created, cmd, idx, ret, commands, before>>

\* The process dies: the file keeps every statement that completed.
Crash ==
  /\ pc \in CrashPoints
  /\ Finish
  /\ UNCHANGED <<tables, created, cmd, idx, ret, answer, commands, before>>

Done ==
  /\ pc = "idle" /\ commands = MaxCommands
  /\ UNCHANGED vars

Next ==
  \/ StartCommand \/ Connect \/ DeviceExists \/ SectionExists \/ CreateTable
  \/ UpdateKey \/ UpdateIV \/ InsertRow \/ Select \/ Crash \/ Done

Spec == Init /\ [][Next]_vars
-----------------------------------------------------------------------------
TypeOK ==
  /\ tables \in [Devices -> Seq(Row)]
  /\ created \subseteq Devices
  /\ conn \in BOOLEAN
  /\ pc \in {"idle", "connect", "record", "secExists", "create", "updKey",
             "updIV", "insert", "select"}
  /\ cmd \in Commands
  /\ idx \in 1..MaxRecords + 1
  /\ ret \in [for : {NoRequest} \cup [at : Devices \X Versions \X Sections,
                                      p : [key : Values, iv : Values]],
              res : {"none", "ok", "failed"}]
  /\ answer \in [at : {<<>>} \cup (Devices \X Versions \X Sections),
                 val : [key : Values \cup {None}, iv : Values \cup {None}]]
  /\ commands \in 0..MaxCommands
  /\ before \in [key : Values \cup {None}, iv : Values \cup {None}]

(***************************************************************************)
(* The refinement mapping.  A record is handed to the key store when the   *)
(* loop takes it (DeviceExists) and answered when InsertDecryptionInfo     *)
(* returns.  An UPDATE that changes the Key stores the record, and the IV   *)
(* update completes it; an UPDATE that leaves the Key as it was stores     *)
(* nothing, and the IV update is the store.                                *)
(***************************************************************************)
KeyChanged == pc = "updIV" /\ before.key # Rec.key

pendingBar ==
  IF pc \in {"secExists", "create", "updKey", "insert"} \/ (pc = "updIV" /\ ~KeyChanged)
  THEN Request ELSE NoRequest

kvBar ==
  [e \in Devices \X Versions \X Sections |->
     IF KeyChanged /\ e = RecEntry THEN RecPair ELSE FirstPair(e[1], e[2], e[3])]

statusBar == IF KeyChanged THEN [for |-> Request, res |-> "ok"] ELSE ret

KM == INSTANCE KeyMap WITH kv <- kvBar, pending <- pendingBar, status <- statusBar,
                           answer <- answer

\* UpdateDatabase and RetrieveKeyAndIV, over any sequence of commands,
\* failed statements and crashes, implement the key map: a record
\* InsertDecryptionInfo reports stored is what a later lookup returns,
\* key and IV together, and one that failed or was cut short by a crash
\* leaves every lookup as it was.
KeyMapRefinement == KM!Spec
=============================================================================
