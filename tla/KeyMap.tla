------------------------------- MODULE KeyMap -------------------------------
(***************************************************************************)
(* What the key store promises (spec.md section 6, "Key store             *)
(* collaborator"): a map from (device, version, section) to a key and an  *)
(* IV.  A record handed to upsert either has its key and IV stored         *)
(* together and success reported, or changes nothing and failure reported, *)
(* or, when the process dies, changes nothing; a lookup returns the stored *)
(* pair, or NotFound (which the code also reports for any error).          *)
(* pending is the record being upserted, status the last record answered *)
(* and its result, and answer the result of the last lookup.               *)
(***************************************************************************)
CONSTANTS Devices, Versions, Sections, Values, None

Entry == Devices \X Versions \X Sections

\* A key and an IV; NotFound is the pair of nothing.
Pair == [key : Values, iv : Values]
NotFound == [key |-> None, iv |-> None]
NoRequest == [at |-> <<>>, p |-> NotFound]

VARIABLES kv, pending, status, answer

Init ==
  /\ kv = [e \in Entry |-> NotFound]
  /\ pending = NoRequest
  /\ status = [for |-> NoRequest, res |-> "none"]
  /\ answer = [at |-> <<>>, val |-> NotFound]

Submit(e, p) ==
  /\ pending = NoRequest
  /\ pending' = [at |-> e, p |-> p]
  /\ UNCHANGED <<kv, status, answer>>

UpsertOK ==
  /\ pending # NoRequest
  /\ kv' = [kv EXCEPT ![pending.at] = pending.p]
  /\ pending' = NoRequest
  /\ status' = [for |-> pending, res |-> "ok"]
  /\ UNCHANGED answer

UpsertFail ==
  /\ pending # NoRequest
  /\ pending' = NoRequest
  /\ status' = [for |-> pending, res |-> "failed"]
  /\ UNCHANGED <<kv, answer>>

\* The caller is gone before an answer: nothing is stored.
Abandon ==
  /\ pending # NoRequest
  /\ pending' = NoRequest
  /\ UNCHANGED <<kv, status, answer>>

Lookup(e) ==
  /\ pending = NoRequest
  /\ \E r \in {kv[e], NotFound} : answer' = [at |-> e, val |-> r]
  /\ UNCHANGED <<kv, pending, status>>

Next ==
  \/ \E e \in Entry, p \in Pair : Submit(e, p)
  \/ UpsertOK \/ UpsertFail \/ Abandon
  \/ \E e \in Entry : Lookup(e)

Spec == Init /\ [][Next]_<<kv, pending, status, answer>>
=============================================================================
