--------------------------- MODULE AtomicTransactions ---------------------------
(***************************************************************************)
(* What doTransaction promises: a call reads and writes the database in    *)
(* one step of its own, hands its caller what it read in that step, and    *)
(* does this once.  A call that fails has done nothing.  The one exception *)
(* is the store's: after commit_unknown_result a call may have taken its   *)
(* step before it takes it again, or before it fails.                      *)
(*                                                                         *)
(* A step that only reads may be as of any moment since the call was made. *)
(***************************************************************************)
EXTENDS Integers

CONSTANTS
  Txns,            \* the calls of doTransaction
  Keys,
  Reads, Writes,   \* call -> the keys its function reads, and those it adds one to
  NoResult

VARIABLES
  db,        \* key -> how many times it has been added to
  status,    \* call -> "idle", "running", "done" or "failed"
  result,    \* call -> what its caller was given
  past,      \* call -> the databases there have been since it was made
  unknown    \* the calls that have been told commit_unknown_result

avars == <<db, status, result, past, unknown>>

Values(t, d) == [k \in Reads[t] |-> d[k]]
Added(t) == [k \in Keys |-> IF k \in Writes[t] THEN db[k] + 1 ELSE db[k]]

AInit ==
  /\ db = [k \in Keys |-> 0]
  /\ status = [t \in Txns |-> "idle"]
  /\ result = [t \in Txns |-> NoResult]
  /\ past = [t \in Txns |-> {}]
  /\ unknown = {}

Invoke(t) ==
  /\ status[t] = "idle"
  /\ status' = [status EXCEPT ![t] = "running"]
  /\ past' = [past EXCEPT ![t] = {db}]
  /\ UNCHANGED <<db, result, unknown>>

\* The step of t on the database, which every call under way sees.
Step(t) ==
  /\ status[t] = "running"
  /\ db' = Added(t)
  /\ past' = [u \in Txns |-> IF status[u] = "running" THEN past[u] \cup {db'} ELSE past[u]]

Complete(t) ==
  /\ Step(t)
  /\ status' = [status EXCEPT ![t] = "done"]
  /\ \E d \in IF Writes[t] = {} THEN past[t] ELSE {db} : result' = [result EXCEPT ![t] = Values(t, d)]
  /\ UNCHANGED unknown

CompleteUnknown(t) ==
  /\ Step(t)
  /\ unknown' = unknown \cup {t}
  /\ UNCHANGED <<status, result>>

Abort(t) ==
  /\ status[t] \in {"idle", "running"}
  /\ status' = [status EXCEPT ![t] = "failed"]
  /\ UNCHANGED <<db, result, past, unknown>>

ANext == \E t \in Txns : Invoke(t) \/ Complete(t) \/ CompleteUnknown(t) \/ Abort(t)

AtomicSpec == AInit /\ [][ANext]_avars
=============================================================================
