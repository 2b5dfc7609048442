------------------------------- MODULE RetryLoop -------------------------------
(***************************************************************************)
(* doTransaction of lib/database.js: calls of it run at the same time on   *)
(* one optimistic store, each with one Transaction object that every       *)
(* attempt of the call uses again.                                         *)
(*                                                                         *)
(* A call's function reads some keys, one after the other, adds one to     *)
(* some keys, and calls back.  It adds to a key it has read by setting it  *)
(* to the value it saw plus one, and to another by the atomic operation.   *)
(*                                                                         *)
(* The store is external.  The first read of an attempt fixes the database *)
(* the attempt sees; "dirty" is what others have written since.            *)
(***************************************************************************)
EXTENDS Integers, FiniteSets

CONSTANTS
  Txns,            \* the calls of doTransaction
  Keys,
  Reads, Writes,   \* call -> the keys its function reads, and those it adds one to
  Settings,        \* what is made of them: see SettingsAssumption
  NoResult

ASSUME FunctionsAssumption ==
  /\ Reads \in [Txns -> SUBSET Keys]
  /\ Writes \in [Txns -> SUBSET Keys]

\* calls: those that are made; retryLimit: the option retry_limit, the same for all;
\* maxFaults: bound, errors other than conflicts; mayThrow: may a function throw?
ASSUME SettingsAssumption ==
  Settings \subseteq [calls : SUBSET Txns, retryLimit : Nat, maxFaults : Nat, mayThrow : BOOLEAN]

VARIABLES
  setting,   \* one of Settings, which stays
  db,        \* key -> how many times it has been added to
  pc,        \* call -> where its retry loop is, or how it ended
  active,    \* the attempts whose first read has been served
  snap,      \* call -> the database its attempt sees
  dirty,     \* call -> keys others have written since
  seen,      \* call -> the keys its function has been given values of
  retries,   \* call -> onError calls that let it run again
  faults,    \* errors other than conflicts so far
  result,    \* call -> what its caller was given
  past,      \* history: call -> the databases there have been since it was made
  unknown,   \* history: the calls whose commit was applied and reported unknown
  applied    \* history: call -> commits of it that were applied

txVars == <<active, snap, dirty, seen>>
historyVars == <<past, unknown, applied>>
vars == <<setting, db, pc, txVars, retries, faults, result, historyVars>>

\* "retry" and "fatal": onError has been called with an error that it lets the
\* call retry, and with one that it does not.
Ends == {"done", "failed", "thrown", "lost"}
Waiting == {"reading", "committing", "retry", "fatal"}
States == {"idle"} \cup Waiting \cup Ends

Empty == [k \in Keys |-> 0]
Goto(t, where) == pc' = [pc EXCEPT ![t] = where]

\* What a call's status is, as far as its caller can know.
Status == [t \in Txns |-> CASE pc[t] = "idle" -> "idle"
                            [] pc[t] = "done" -> "done"
                            [] pc[t] \in {"failed", "thrown"} -> "failed"
                            [] OTHER -> "running"]

Atomic == INSTANCE AtomicTransactions WITH status <- Status

-----------------------------------------------------------------------------
(* Running the function: retryLoop.                                        *)

\* func(tr, ...): up to the wait for its first read, or to the commit if it has none.
RunFunc(t) == Goto(t, IF Reads[t] = {} THEN "committing" ELSE "reading")

\* db.doTransaction(func, cb)
DoTransaction(t) ==
  /\ pc[t] = "idle" /\ t \in setting.calls
  /\ RunFunc(t)
  /\ past' = [past EXCEPT ![t] = {db}]
  /\ UNCHANGED <<db, txVars, retries, faults, result, unknown, applied>>

\* The store serves the first read of the attempt.
GetReadVersion(t) ==
  /\ pc[t] = "reading"
  /\ t \notin active
  /\ active' = active \cup {t}
  /\ snap' = [snap EXCEPT ![t] = db]
  /\ UNCHANGED <<db, pc, dirty, seen, retries, faults, result, historyVars>>

\* A read calls back with a value: the function reads on, or writes and calls
\* back, and the loop commits.
ReadReturns(t, k) ==
  /\ pc[t] = "reading" /\ t \in active
  /\ k \in Reads[t] \ seen[t]
  /\ seen' = [seen EXCEPT ![t] = @ \cup {k}]
  /\ Goto(t, IF seen'[t] = Reads[t] THEN "committing" ELSE "reading")
  /\ UNCHANGED <<db, active, snap, dirty, retries, faults, result, historyVars>>

\* The function calls back with an error of its own, at once or after a read: onError
\* passes it on.
FuncFails(t) ==
  /\ pc[t] = "reading"
  /\ faults < setting.maxFaults
  /\ faults' = faults + 1
  /\ Goto(t, "failed")
  /\ UNCHANGED <<db, txVars, retries, result, historyVars>>

\* A read fails, the function passes the error on, and the loop calls onError.
ReadFails(t) ==
  /\ pc[t] = "reading"
  /\ faults < setting.maxFaults
  /\ faults' = faults + 1
  /\ Goto(t, "retry") \/ Goto(t, "fatal")
  /\ UNCHANGED <<db, txVars, retries, result, historyVars>>

\* The function throws, before its first read or in the callback of a read.  What
\* is thrown in the call itself goes to the caller of doTransaction; what is thrown
\* in a callback, so in any later attempt too, goes to the native code, which prints it.
Throws(t, where) ==
  /\ setting.mayThrow
  /\ faults < setting.maxFaults
  /\ faults' = faults + 1
  /\ Goto(t, where)

ThrowAtOnce(t) ==
  /\ pc[t] = "idle" /\ t \in setting.calls
  /\ Throws(t, "thrown")
  /\ UNCHANGED <<db, txVars, retries, result, historyVars>>

ThrowInCallback(t) ==
  /\ pc[t] = "reading" /\ seen[t] # {}
  /\ Throws(t, "lost")
  /\ UNCHANGED <<db, txVars, retries, result, historyVars>>

-----------------------------------------------------------------------------
(* tr.commit and tr.onError.                                               *)

Conflict(t) == Writes[t] # {} /\ Reads[t] \cap dirty[t] # {}

\* What the commit leaves of the database: a key that was read is set to the
\* value seen plus one, another is added to as it is.
NewDb(t) == [k \in Keys |-> IF k \notin Writes[t] THEN db[k]
                            ELSE IF k \in Reads[t] THEN snap[t][k] + 1 ELSE db[k] + 1]

\* The native transaction is as new.
ResetTx(t) ==
  /\ active' = active \ {t}
  /\ snap' = [snap EXCEPT ![t] = Empty]
  /\ seen' = [seen EXCEPT ![t] = {}]

KeepTx(t) == UNCHANGED <<active, snap, seen>>

ApplyWrites(t) ==
  /\ db' = NewDb(t)
  /\ dirty' = [u \in Txns |-> IF u \in active \ {t} THEN dirty[u] \cup Writes[t] ELSE {}]
  /\ past' = [u \in Txns |-> IF pc[u] \in Waiting \cup {"lost"} THEN past[u] \cup {db'} ELSE past[u]]
  /\ applied' = [applied EXCEPT ![t] = @ + 1]

CommitOk(t) ==
  /\ pc[t] = "committing" /\ ~Conflict(t)
  /\ ApplyWrites(t)
  /\ ResetTx(t)
  /\ result' = [result EXCEPT ![t] = [k \in Reads[t] |-> snap[t][k]]]
  /\ Goto(t, "done")
  /\ UNCHANGED <<retries, faults, unknown>>

CommitConflict(t) ==
  /\ pc[t] = "committing" /\ Conflict(t)
  /\ Goto(t, "retry")
  /\ UNCHANGED <<db, txVars, retries, faults, result, historyVars>>

\* commit_unknown_result, where the writes are in.
CommitUnknown(t) ==
  /\ pc[t] = "committing" /\ ~Conflict(t)
  /\ faults < setting.maxFaults
  /\ faults' = faults + 1
  /\ ApplyWrites(t)
  /\ KeepTx(t)
  /\ unknown' = unknown \cup {t}
  /\ Goto(t, "retry")
  /\ UNCHANGED <<retries, result>>

CommitErrorIgnored(t) ==  \* mutant: retryLoop does not look at commitErr
  /\ pc[t] = "committing"
  /\ faults < setting.maxFaults
  /\ faults' = faults + 1
  /\ Goto(t, "done")
  /\ UNCHANGED <<db, txVars, retries, result, historyVars>>

\* Any other error of the commit; the writes are lost.
CommitFails(t) ==
  /\ pc[t] = "committing"
  /\ faults < setting.maxFaults
  /\ faults' = faults + 1
  /\ Goto(t, "retry") \/ Goto(t, "fatal")
  /\ UNCHANGED <<db, txVars, retries, result, historyVars>>

RetryOnceMore(t) == pc[t] = "retry" /\ retries[t] <= setting.retryLimit  \* mutant: one too many

\* onError calls back without an error, on a transaction it has reset.
MayRetry(t) == pc[t] = "retry" /\ retries[t] < setting.retryLimit

\* Mutants: the commit alone is tried again; nothing is.
RetryCommitOnly(t) ==
  /\ MayRetry(t)
  /\ retries' = [retries EXCEPT ![t] = @ + 1]
  /\ KeepTx(t)
  /\ dirty' = [dirty EXCEPT ![t] = {}]
  /\ Goto(t, "committing")
  /\ UNCHANGED <<db, faults, result, historyVars>>
RetryForgotten(t) ==
  /\ MayRetry(t)
  /\ Goto(t, "lost")
  /\ UNCHANGED <<db, txVars, retries, faults, result, historyVars>>

Retry(t) ==
  /\ MayRetry(t)
  /\ retries' = [retries EXCEPT ![t] = @ + 1]
  /\ ResetTx(t)
  /\ dirty' = [dirty EXCEPT ![t] = {}]
  /\ RunFunc(t)
  /\ UNCHANGED <<db, faults, result, historyVars>>

RetryThrows(t) ==
  /\ MayRetry(t)
  /\ retries' = [retries EXCEPT ![t] = @ + 1]
  /\ ResetTx(t)
  /\ dirty' = [dirty EXCEPT ![t] = {}]
  /\ Throws(t, "lost")
  /\ UNCHANGED <<db, result, historyVars>>

GiveUp(t) ==
  /\ pc[t] = "fatal" \/ (pc[t] = "retry" /\ ~MayRetry(t))
  /\ Goto(t, "failed")
  /\ UNCHANGED <<db, txVars, retries, faults, result, historyVars>>

-----------------------------------------------------------------------------

Init ==
  /\ setting \in Settings
  /\ db = Empty
  /\ pc = [t \in Txns |-> "idle"]
  /\ active = {}
  /\ snap = [t \in Txns |-> Empty]
  /\ dirty = [t \in Txns |-> {}]
  /\ seen = [t \in Txns |-> {}]
  /\ retries = [t \in Txns |-> 0]
  /\ faults = 0
  /\ result = [t \in Txns |-> NoResult]
  /\ past = [t \in Txns |-> {}]
  /\ unknown = {}
  /\ applied = [t \in Txns |-> 0]

\* What the event loop and the store do without a fault.
Progress(t) ==
  \/ GetReadVersion(t)
  \/ \E k \in Keys : ReadReturns(t, k)
  \/ CommitOk(t) \/ CommitConflict(t)
  \/ Retry(t) \/ GiveUp(t)

Next ==
  /\ UNCHANGED setting
  /\ \E t \in Txns :
    \/ DoTransaction(t)
    \/ Progress(t)
    \/ FuncFails(t) \/ ReadFails(t)
    \/ ThrowAtOnce(t) \/ ThrowInCallback(t) \/ RetryThrows(t)
    \/ CommitUnknown(t) \/ CommitFails(t)

Spec == Init /\ [][Next]_vars

\* Callbacks run and requests are answered; nothing forces a call to be made
\* or a fault to happen.
FairSpec == Spec /\ \A t \in Txns : WF_vars(Progress(t) /\ UNCHANGED setting)

-----------------------------------------------------------------------------
(* Properties.                                                             *)

\* Every variable stays in its set.
TypeOK ==
  /\ setting \in Settings
  /\ db \in [Keys -> Nat]
  /\ pc \in [Txns -> States]
  /\ active \in SUBSET Txns
  /\ snap \in [Txns -> [Keys -> Nat]]
  /\ dirty \in [Txns -> SUBSET Keys]
  /\ seen \in [Txns -> SUBSET Keys]
  /\ retries \in [Txns -> 0 .. setting.retryLimit]
  /\ faults \in 0 .. setting.maxFaults
  /\ DOMAIN result = Txns
  /\ \A t \in Txns : result[t] = NoResult \/ result[t] \in [Reads[t] -> Nat]
  /\ past \in [Txns -> SUBSET [Keys -> Nat]]
  /\ unknown \in SUBSET Txns
  /\ applied \in [Txns -> Nat]

\* Every call is an atomic step on the database, or none: the loop never commits
\* what was computed from an attempt that has failed, and never hands its caller
\* the result of one.
ImplementsAtomic == Atomic!AtomicSpec

\* The additions to k that have been made: the n-th applied commit of t is <<t, n>>.
Additions(k) ==
  {p \in Txns \X (1 .. setting.maxFaults + 1) : k \in Writes[p[1]] /\ p[2] <= applied[p[1]]}

\* No update is lost: a key has been added to once for each commit that was
\* applied, although most calls write a value they have computed from a read.
NoLostUpdate == \A k \in Keys : db[k] = Cardinality(Additions(k))

\* What the caller is told is what happened: success means that the writes are
\* in, once, and failure that they are not, unless a commit's outcome was unknown.
OutcomeIsTrue ==
  \A t \in Txns \ unknown :
    /\ pc[t] = "done" => applied[t] = 1
    /\ pc[t] # "done" => applied[t] = 0

\* Every call of doTransaction calls back, however often others get in its way,
\* provided that functions do not throw.
EveryCallEnds ==
  \A t \in Txns : pc[t] \in Waiting /\ ~setting.mayThrow ~> pc[t] \in Ends \ {"lost"}
=============================================================================
