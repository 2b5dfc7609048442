----------------------------- MODULE RetryLoopProofs -----------------------------
(***************************************************************************)
(* Proofs about RetryLoop: type correctness, what the caller is told, that *)
(* no update is lost, and that every call is an atomic step, for any set   *)
(* of calls, finite or not, any keys, functions, retry limits and numbers  *)
(* of faults.                                                              *)
(***************************************************************************)
EXTENDS RetryLoop, TLAPS, FiniteSetTheorems

Running(t) == pc[t] \in Waiting \cup {"lost"}
Attempting(t) == pc[t] \in {"reading", "committing"}

-----------------------------------------------------------------------------
(* The inductive invariant.                                                *)

\* What the native transaction and the loop agree on: a transaction that has not
\* been read from knows nothing, a call that waits for reads has some to wait for,
\* and one that commits has all of them.
TxInv ==
  \A t \in Txns :
    /\ t \notin active => dirty[t] = {} /\ seen[t] = {}
    /\ pc[t] = "idle" => t \notin active
    /\ pc[t] = "reading" => Reads[t] # {}
    /\ pc[t] = "committing" => seen[t] = Reads[t]

\* What an attempt sees is the database as it is, but for the keys that others
\* have written since; this ends when a commit of unknown outcome is applied.
SnapshotInv ==
  \A t \in active : Attempting(t) => \A k \in Keys \ dirty[t] : snap[t][k] = db[k]

\* Both are among the databases there have been since the call was made.
PastInv ==
  \A t \in Txns : Running(t) =>
    /\ db \in past[t]
    /\ t \in active => snap[t] \in past[t]

\* A call commits once more only after a fault.
AppliedInv ==
  \A t \in Txns : applied[t] <= (IF pc[t] = "done" THEN faults + 1 ELSE faults)

\* A database is what has been added to it, and only finitely much has been.
UpdatesInv == \A k \in Keys : IsFiniteSet(Additions(k)) /\ db[k] = Cardinality(Additions(k))

Inv == TypeOK /\ TxInv /\ SnapshotInv /\ PastInv /\ AppliedInv /\ UpdatesInv /\ OutcomeIsTrue

LEMMA InitInv == Init => Inv
<1> SUFFICES ASSUME Init PROVE Inv
  OBVIOUS
<1>1. setting \in Settings /\ setting.retryLimit \in Nat /\ setting.maxFaults \in Nat
  BY SettingsAssumption DEF Init
<1>2. TypeOK
  BY <1>1 DEF Init, TypeOK, Empty, States
<1>3. TxInv /\ SnapshotInv /\ PastInv /\ AppliedInv /\ OutcomeIsTrue
  BY DEF Init, TxInv, SnapshotInv, PastInv, AppliedInv, OutcomeIsTrue, Running, Attempting, Waiting
<1>4. UpdatesInv
  <2> SUFFICES ASSUME NEW k \in Keys
               PROVE  IsFiniteSet(Additions(k)) /\ db[k] = Cardinality(Additions(k))
    BY DEF UpdatesInv
  <2>1. Additions(k) = {}
    BY <1>1 DEF Additions, Init
  <2>2. db[k] = 0
    BY DEF Init, Empty
  <2> QED  BY <2>1, <2>2, FS_EmptySet
<1> QED  BY <1>2, <1>3, <1>4 DEF Inv

-----------------------------------------------------------------------------
(* Steps that only move the call on: an error, a conflict, giving up.       *)

Parks(t, where) ==
  /\ pc[t] \in {"idle"} \cup Waiting
  /\ pc[t] = "idle" => where = "thrown"
  /\ where \in {"retry", "fatal", "failed", "thrown", "lost"}
  /\ Goto(t, where)
  /\ faults' \in {faults, faults + 1} /\ faults' \in 0 .. setting.maxFaults
  /\ UNCHANGED <<setting, db, txVars, retries, result, historyVars>>

LEMMA ParkingSteps ==
  ASSUME Inv, UNCHANGED setting, NEW t \in Txns,
         \/ FuncFails(t) \/ ReadFails(t) \/ ThrowAtOnce(t) \/ ThrowInCallback(t)
         \/ CommitConflict(t) \/ CommitFails(t) \/ GiveUp(t)
  PROVE  \E where \in States : Parks(t, where)
<1>1. faults \in 0 .. setting.maxFaults /\ setting.maxFaults \in Nat
  BY SettingsAssumption DEF Inv, TypeOK
<1> USE <1>1 DEF Parks, Waiting, States, Ends
<1>2. CASE FuncFails(t)  BY <1>2 DEF FuncFails
<1>3. CASE ReadFails(t)  BY <1>3 DEF ReadFails
<1>4. CASE ThrowAtOnce(t)  BY <1>4 DEF ThrowAtOnce, Throws
<1>5. CASE ThrowInCallback(t)  BY <1>5 DEF ThrowInCallback, Throws
<1>6. CASE CommitConflict(t)  BY <1>6 DEF CommitConflict
<1>7. CASE CommitFails(t)  BY <1>7 DEF CommitFails
<1>8. CASE GiveUp(t)  BY <1>8 DEF GiveUp, MayRetry
<1> QED  BY <1>2, <1>3, <1>4, <1>5, <1>6, <1>7, <1>8

LEMMA ParksInv ==
  ASSUME Inv, NEW t \in Txns, NEW where \in States, Parks(t, where)
  PROVE  Inv'
<1>0. /\ pc' = [pc EXCEPT ![t] = where] /\ pc \in [Txns -> States]
      /\ UNCHANGED <<setting, db, active, snap, dirty, seen, retries, result, past, unknown, applied>>
  BY DEF Parks, Goto, txVars, historyVars, Inv, TypeOK
<1>1. TypeOK'
  BY <1>0 DEF Inv, TypeOK, Parks
<1>2. TxInv'
  BY <1>0 DEF Inv, TxInv, Parks
<1>3. SnapshotInv'
  <2>1. \A u \in Txns : Attempting(u)' => Attempting(u)
    BY <1>0 DEF Attempting, Parks
  <2>2. active \subseteq Txns
    BY DEF Inv, TypeOK
  <2> QED  BY <1>0, <2>1, <2>2 DEF Inv, SnapshotInv
<1>4. PastInv'
  <2>1. \A u \in Txns : Running(u)' => Running(u)
    BY <1>0 DEF Running, Parks, Waiting
  <2> QED  BY <1>0, <2>1 DEF Inv, PastInv
<1>5. AppliedInv'
  <2>1. faults \in Nat /\ faults' \in Nat /\ faults <= faults'
    BY SettingsAssumption DEF Inv, TypeOK, Parks
  <2>2. applied \in [Txns -> Nat]
    BY DEF Inv, TypeOK
  <2>3. \A u \in Txns : pc'[u] = "done" <=> pc[u] = "done"
    BY <1>0 DEF Parks, Waiting
  <2>4. SUFFICES ASSUME NEW u \in Txns
                 PROVE  applied'[u] <= (IF pc'[u] = "done" THEN faults' + 1 ELSE faults')
    BY DEF AppliedInv
  <2>5. applied[u] <= (IF pc[u] = "done" THEN faults + 1 ELSE faults)
    BY DEF Inv, AppliedInv
  <2>6. applied' = applied /\ applied[u] \in Nat
    BY <1>0, <2>2
  <2>7. CASE pc[u] = "done"  BY <2>1, <2>3, <2>5, <2>6, <2>7
  <2>8. CASE pc[u] # "done"  BY <2>1, <2>3, <2>5, <2>6, <2>8
  <2> QED  BY <2>7, <2>8
<1>6. UpdatesInv'
  BY <1>0 DEF Inv, UpdatesInv, Additions
<1>7. OutcomeIsTrue'
  BY <1>0 DEF Inv, OutcomeIsTrue, Parks, Waiting
<1> QED  BY <1>1, <1>2, <1>3, <1>4, <1>5, <1>6, <1>7 DEF Inv

-----------------------------------------------------------------------------
(* Steps of an attempt.                                                    *)

LEMMA DoTransactionInv ==
  ASSUME Inv, UNCHANGED setting, NEW t \in Txns, DoTransaction(t)
  PROVE  Inv'
<1> DEFINE where == IF Reads[t] = {} THEN "committing" ELSE "reading"
<1>0. /\ pc[t] = "idle" /\ pc' = [pc EXCEPT ![t] = where] /\ pc \in [Txns -> States]
      /\ past' = [past EXCEPT ![t] = {db}]
      /\ UNCHANGED <<setting, db, active, snap, dirty, seen, retries, faults, result, unknown, applied>>
  BY DEF DoTransaction, RunFunc, Goto, txVars, Inv, TypeOK
<1>1. TypeOK'
  BY <1>0 DEF Inv, TypeOK, States, Waiting
<1>2. t \notin active /\ seen[t] = {}
  BY <1>0 DEF Inv, TxInv
<1>3. TxInv'
  BY <1>0, <1>2 DEF Inv, TxInv
<1>4. SnapshotInv'
  BY <1>0, <1>2 DEF Inv, TypeOK, SnapshotInv, Attempting
<1>5. PastInv'
  BY <1>0, <1>2 DEF Inv, TypeOK, PastInv, Running
<1>6. AppliedInv' /\ OutcomeIsTrue'
  BY <1>0 DEF Inv, AppliedInv, OutcomeIsTrue
<1>7. UpdatesInv'
  BY <1>0 DEF Inv, UpdatesInv, Additions
<1> QED  BY <1>1, <1>3, <1>4, <1>5, <1>6, <1>7 DEF Inv

LEMMA GetReadVersionInv ==
  ASSUME Inv, UNCHANGED setting, NEW t \in Txns, GetReadVersion(t)
  PROVE  Inv'
<1>0. /\ pc[t] = "reading" /\ t \notin active
      /\ active' = active \cup {t} /\ snap' = [snap EXCEPT ![t] = db]
      /\ UNCHANGED <<setting, db, pc, dirty, seen, retries, faults, result, past, unknown, applied>>
  BY DEF GetReadVersion, historyVars
<1>1. TypeOK'
  BY <1>0 DEF Inv, TypeOK
<1>2. TxInv'
  BY <1>0 DEF Inv, TxInv
<1>3. SnapshotInv'
  BY <1>0 DEF Inv, TypeOK, SnapshotInv, Attempting
<1>4. PastInv'
  BY <1>0 DEF Inv, TypeOK, PastInv, Running
<1>5. AppliedInv' /\ OutcomeIsTrue'
  BY <1>0 DEF Inv, AppliedInv, OutcomeIsTrue
<1>6. UpdatesInv'
  BY <1>0 DEF Inv, UpdatesInv, Additions
<1> QED  BY <1>1, <1>2, <1>3, <1>4, <1>5, <1>6 DEF Inv

LEMMA ReadReturnsInv ==
  ASSUME Inv, UNCHANGED setting, NEW t \in Txns, NEW k \in Keys, ReadReturns(t, k)
  PROVE  Inv'
<1>0. /\ pc[t] = "reading" /\ t \in active
      /\ seen' = [seen EXCEPT ![t] = @ \cup {k}]
      /\ pc' = [pc EXCEPT ![t] = IF seen'[t] = Reads[t] THEN "committing" ELSE "reading"]
      /\ pc \in [Txns -> States] /\ seen \in [Txns -> SUBSET Keys]
      /\ UNCHANGED <<setting, db, active, snap, dirty, retries, faults, result, past, unknown, applied>>
  BY DEF ReadReturns, Goto, historyVars, Inv, TypeOK
<1>1. TypeOK'
  BY <1>0 DEF Inv, TypeOK, States, Waiting
<1>2. TxInv'
  BY <1>0 DEF Inv, TxInv
<1>3. \A u \in Txns : (Attempting(u)' => Attempting(u)) /\ (Running(u)' => Running(u))
  BY <1>0 DEF Attempting, Running, Waiting
<1>4. SnapshotInv'
  BY <1>0, <1>3 DEF Inv, TypeOK, SnapshotInv
<1>5. PastInv'
  BY <1>0, <1>3 DEF Inv, PastInv
<1>6. AppliedInv' /\ OutcomeIsTrue'
  BY <1>0 DEF Inv, AppliedInv, OutcomeIsTrue
<1>7. UpdatesInv'
  BY <1>0 DEF Inv, UpdatesInv, Additions
<1> QED  BY <1>1, <1>2, <1>4, <1>5, <1>6, <1>7 DEF Inv

\* onError calls back without an error; the next attempt may throw at once.
Restarts(t, where) ==
  /\ MayRetry(t)
  /\ retries' = [retries EXCEPT ![t] = @ + 1]
  /\ ResetTx(t)
  /\ dirty' = [dirty EXCEPT ![t] = {}]
  /\ Goto(t, where)
  /\ where \in {"lost", IF Reads[t] = {} THEN "committing" ELSE "reading"}
  /\ faults' \in {faults, faults + 1} /\ faults' \in 0 .. setting.maxFaults
  /\ UNCHANGED <<setting, db, result, historyVars>>

LEMMA RestartingSteps ==
  ASSUME Inv, UNCHANGED setting, NEW t \in Txns, Retry(t) \/ RetryThrows(t)
  PROVE  \E where \in States : Restarts(t, where)
<1>1. faults \in 0 .. setting.maxFaults /\ setting.maxFaults \in Nat
  BY SettingsAssumption DEF Inv, TypeOK
<1> USE <1>1 DEF Restarts, States, Waiting, Ends
<1>2. CASE Retry(t)  BY <1>2 DEF Retry, RunFunc
<1>3. CASE RetryThrows(t)  BY <1>3 DEF RetryThrows, Throws
<1> QED  BY <1>2, <1>3

LEMMA RestartsInv ==
  ASSUME Inv, NEW t \in Txns, NEW where \in States, Restarts(t, where)
  PROVE  Inv'
<1>0. /\ pc[t] = "retry" /\ pc' = [pc EXCEPT ![t] = where] /\ pc \in [Txns -> States]
      /\ where \in {"lost", "committing", "reading"}
      /\ active' = active \ {t}
      /\ snap' = [snap EXCEPT ![t] = Empty]
      /\ seen' = [seen EXCEPT ![t] = {}]
      /\ dirty' = [dirty EXCEPT ![t] = {}]
      /\ UNCHANGED <<setting, db, result, past, unknown, applied>>
  BY DEF Restarts, MayRetry, ResetTx, Goto, historyVars, Inv, TypeOK
<1>1. TypeOK'
  <2>1. retries' \in [Txns -> 0 .. setting.retryLimit]
    BY SettingsAssumption DEF Inv, TypeOK, Restarts, MayRetry
  <2>2. snap' \in [Txns -> [Keys -> Nat]]
    BY <1>0 DEF Inv, TypeOK, Empty
  <2> QED  BY <1>0, <2>1, <2>2 DEF Inv, TypeOK, Restarts
<1>2. TxInv'
  BY <1>0 DEF Inv, TypeOK, TxInv, Restarts
<1>3. \A u \in Txns : Running(u)' => Running(u)
  BY <1>0 DEF Running, Waiting
<1>4. SnapshotInv'
  BY <1>0 DEF Inv, TypeOK, SnapshotInv, Attempting
<1>5. PastInv'
  BY <1>0, <1>3 DEF Inv, TypeOK, PastInv
<1>6. AppliedInv'
  <2>1. faults \in Nat /\ faults' \in Nat /\ faults <= faults'
    BY SettingsAssumption DEF Inv, TypeOK, Restarts
  <2>2. applied \in [Txns -> Nat]
    BY DEF Inv, TypeOK
  <2>3. \A u \in Txns : pc'[u] = "done" <=> pc[u] = "done"
    BY <1>0
  <2>4. SUFFICES ASSUME NEW u \in Txns
                 PROVE  applied'[u] <= (IF pc'[u] = "done" THEN faults' + 1 ELSE faults')
    BY DEF AppliedInv
  <2>5. applied[u] <= (IF pc[u] = "done" THEN faults + 1 ELSE faults)
    BY DEF Inv, AppliedInv
  <2>6. applied' = applied /\ applied[u] \in Nat
    BY <1>0, <2>2
  <2>7. CASE pc[u] = "done"  BY <2>1, <2>3, <2>5, <2>6, <2>7
  <2>8. CASE pc[u] # "done"  BY <2>1, <2>3, <2>5, <2>6, <2>8
  <2> QED  BY <2>7, <2>8
<1>7. OutcomeIsTrue'
  BY <1>0 DEF Inv, OutcomeIsTrue
<1>8. UpdatesInv'
  BY <1>0 DEF Inv, UpdatesInv, Additions
<1> QED  BY <1>1, <1>2, <1>4, <1>5, <1>6, <1>7, <1>8 DEF Inv

-----------------------------------------------------------------------------
(* Steps that apply a commit, whether or not the call is told.             *)

\* Without a conflict, what a call makes of what it has read is what it would
\* have made of the database as it is: this is where no update is lost.
LEMMA CommitIsAddition ==
  ASSUME Inv, NEW t \in Txns, pc[t] = "committing", ~Conflict(t)
  PROVE  /\ NewDb(t) = [k \in Keys |-> IF k \in Writes[t] THEN db[k] + 1 ELSE db[k]]
         /\ Reads[t] # {} => t \in active
         /\ Writes[t] # {} => \A k \in Reads[t] : snap[t][k] = db[k]
<1>1. seen[t] = Reads[t] /\ Reads[t] \subseteq Keys /\ Writes[t] \subseteq Keys
  BY FunctionsAssumption DEF Inv, TxInv
<1>2. Reads[t] # {} => t \in active
  BY <1>1 DEF Inv, TxInv
<1>3. ASSUME Writes[t] # {}, NEW k \in Reads[t]
      PROVE  snap[t][k] = db[k]
  <2>1. k \in Keys \ dirty[t]
    BY <1>1, <1>3 DEF Conflict
  <2> QED  BY <1>2, <1>3, <2>1 DEF Inv, SnapshotInv, Attempting
<1>4. \A k \in Writes[t] \cap Reads[t] : snap[t][k] + 1 = db[k] + 1
  BY <1>3
<1> QED  BY <1>1, <1>2, <1>3, <1>4 DEF NewDb

Applies(t, where) ==
  /\ pc[t] = "committing" /\ ~Conflict(t)
  /\ ApplyWrites(t)
  /\ Goto(t, where)
  /\ \/ where = "done" /\ ResetTx(t) /\ UNCHANGED <<faults, unknown>>
        /\ result' = [result EXCEPT ![t] = [k \in Reads[t] |-> snap[t][k]]]
     \/ where = "retry" /\ KeepTx(t) /\ UNCHANGED result /\ unknown' = unknown \cup {t}
        /\ faults < setting.maxFaults /\ faults' = faults + 1
  /\ UNCHANGED <<setting, retries>>

LEMMA ApplyingSteps ==
  ASSUME UNCHANGED setting, NEW t \in Txns, CommitOk(t) \/ CommitUnknown(t)
  PROVE  \E where \in {"done", "retry"} : Applies(t, where)
<1>1. CASE CommitOk(t)  BY <1>1 DEF CommitOk, Applies
<1>2. CASE CommitUnknown(t)  BY <1>2 DEF CommitUnknown, Applies
<1> QED  BY <1>1, <1>2

LEMMA AppliesInv ==
  ASSUME Inv, NEW t \in Txns, NEW where \in {"done", "retry"}, Applies(t, where)
  PROVE  Inv'
<1>0. /\ pc[t] = "committing" /\ pc' = [pc EXCEPT ![t] = where] /\ pc \in [Txns -> States]
      /\ UNCHANGED <<setting, retries>>
      /\ dirty' = [u \in Txns |-> IF u \in active \ {t} THEN dirty[u] \cup Writes[t] ELSE {}]
      /\ applied' = [applied EXCEPT ![t] = @ + 1] /\ applied \in [Txns -> Nat]
      /\ past' = [u \in Txns |-> IF Running(u) THEN past[u] \cup {db'} ELSE past[u]]
  BY DEF Applies, ApplyWrites, Goto, Running, Inv, TypeOK
<1>1. db' = [k \in Keys |-> IF k \in Writes[t] THEN db[k] + 1 ELSE db[k]]
  BY CommitIsAddition DEF Applies, ApplyWrites
<1>2. db \in [Keys -> Nat] /\ db' \in [Keys -> Nat]
  BY <1>1 DEF Inv, TypeOK
<1>3. /\ where = "done" => active' = active \ {t} /\ seen' = [seen EXCEPT ![t] = {}]
                          /\ snap' = [snap EXCEPT ![t] = Empty]
      /\ where = "retry" => UNCHANGED <<active, seen, snap>>
  BY DEF Applies, ResetTx, KeepTx
<1>4. faults \in Nat /\ setting.maxFaults \in Nat /\ faults <= setting.maxFaults
  BY SettingsAssumption DEF Inv, TypeOK
<1>5. TypeOK'
  <2>1. snap' \in [Txns -> [Keys -> Nat]]
    <3>1. snap \in [Txns -> [Keys -> Nat]]
      BY DEF Inv, TypeOK
    <3>2. Empty \in [Keys -> Nat]
      BY DEF Empty
    <3>3. snap' = snap \/ snap' = [snap EXCEPT ![t] = Empty]
      BY ONLY <1>3, where \in {"done", "retry"}
    <3> QED BY ONLY <3>1, <3>2, <3>3
  <2>2. active' \in SUBSET Txns /\ seen' \in [Txns -> SUBSET Keys] /\ dirty' \in [Txns -> SUBSET Keys]
    BY <1>0, <1>3, FunctionsAssumption DEF Inv, TypeOK
  <2>3. faults' \in 0 .. setting.maxFaults /\ unknown' \in SUBSET Txns
    BY <1>4 DEF Applies, Inv, TypeOK
  <2>4. DOMAIN result' = Txns /\ \A u \in Txns : result'[u] = NoResult \/ result'[u] \in [Reads[u] -> Nat]
    <3>1. [k \in Reads[t] |-> snap[t][k]] \in [Reads[t] -> Nat]
      BY FunctionsAssumption DEF Inv, TypeOK
    <3> QED  BY <3>1 DEF Applies, Inv, TypeOK
  <2>5. past' \in [Txns -> SUBSET [Keys -> Nat]]
    BY <1>0, <1>2 DEF Inv, TypeOK
  <2>6. pc' \in [Txns -> States] /\ applied' \in [Txns -> Nat]
    BY <1>0 DEF States, Waiting, Ends
  <2> QED  BY <1>0, <1>2, <2>1, <2>2, <2>3, <2>4, <2>5, <2>6 DEF Inv, TypeOK
<1>6. TxInv'
  BY <1>0, <1>3 DEF Inv, TypeOK, TxInv
<1>7. SnapshotInv'
  <2> SUFFICES ASSUME NEW u \in active', Attempting(u)', NEW k \in Keys \ dirty'[u]
               PROVE  snap'[u][k] = db'[k]
    BY DEF SnapshotInv
  <2>1. u \in active \ {t} /\ Attempting(u) /\ u \in Txns
    BY <1>0, <1>3 DEF Attempting, Inv, TypeOK
  <2>2. k \in Keys \ dirty[u] /\ k \notin Writes[t]
    BY <1>0, <2>1
  <2>3. snap'[u] = snap[u]
    BY <1>3, <2>1 DEF Inv, TypeOK
  <2> QED  BY <1>1, <2>1, <2>2, <2>3 DEF Inv, SnapshotInv
<1>8. PastInv'
  <2> SUFFICES ASSUME NEW u \in Txns, Running(u)'
               PROVE  db' \in past'[u] /\ (u \in active' => snap'[u] \in past'[u])
    BY DEF PastInv
  <2>1. Running(u)
    BY <1>0 DEF Running, Waiting
  <2>2. past'[u] = past[u] \cup {db'}
    BY <1>0, <2>1
  <2>3. ASSUME u \in active' PROVE u \in active /\ snap'[u] = snap[u]
    BY <1>3, <2>3 DEF Inv, TypeOK
  <2> QED  BY <2>1, <2>2, <2>3 DEF Inv, PastInv
<1>9. AppliedInv'
  <2>1. applied[t] <= faults
    BY <1>0 DEF Inv, AppliedInv
  <2>2. where = "done" => faults' = faults
    BY DEF Applies
  <2>3. where = "retry" => faults' = faults + 1
    BY DEF Applies
  <2> SUFFICES ASSUME NEW u \in Txns
               PROVE  applied'[u] <= (IF pc'[u] = "done" THEN faults' + 1 ELSE faults')
    BY DEF AppliedInv
  <2>4. CASE u = t
    BY <1>0, <1>4, <2>1, <2>2, <2>3, <2>4
  <2>5. CASE u # t
    <3>1. applied[u] <= (IF pc[u] = "done" THEN faults + 1 ELSE faults) /\ applied[u] \in Nat
      BY <1>0 DEF Inv, AppliedInv
    <3>2. applied'[u] = applied[u] /\ pc'[u] = pc[u]
      BY <1>0, <2>5
    <3> QED  BY <1>4, <2>2, <2>3, <3>1, <3>2
  <2> QED  BY <2>4, <2>5
<1>10. UpdatesInv'
  <2> SUFFICES ASSUME NEW k \in Keys
               PROVE  IsFiniteSet(Additions(k)') /\ db'[k] = Cardinality(Additions(k)')
    BY DEF UpdatesInv
  <2>1. IsFiniteSet(Additions(k)) /\ db[k] = Cardinality(Additions(k))
    BY DEF Inv, UpdatesInv
  <2>2. CASE k \in Writes[t]
    <3> DEFINE new == <<t, applied[t] + 1>>
    <3>1. applied[t] + 1 \in 1 .. setting.maxFaults + 1
      BY <1>0, <1>4 DEF Inv, AppliedInv
    <3>2. new \notin Additions(k)
      BY <1>0 DEF Additions
    <3>3. Additions(k)' = Additions(k) \cup {new}
      <4>1. ASSUME NEW p \in Txns \X (1 .. setting.maxFaults + 1)
            PROVE  p[2] <= applied'[p[1]] <=> p[2] <= applied[p[1]] \/ p = new
        <5>1. PICK u \in Txns, n \in 1 .. setting.maxFaults + 1 : p = <<u, n>>
          OBVIOUS
        <5>2. n \in Int /\ applied[u] \in Nat /\ applied[t] \in Nat
          BY <1>0, <1>4
        <5>3. CASE u = t  BY <1>0, <5>1, <5>2, <5>3
        <5>4. CASE u # t  BY <1>0, <5>1, <5>2, <5>4
        <5> QED  BY <5>3, <5>4
      <4>2. new \in Txns \X (1 .. setting.maxFaults + 1) /\ new[1] = t
        BY <3>1
      <4> HIDE DEF new
      <4> QED  BY <1>0, <2>2, <4>1, <4>2 DEF Additions
    <3>4. db'[k] = db[k] + 1
      BY <1>1, <2>2
    <3> HIDE DEF new
    <3> QED  BY <2>1, <3>2, <3>3, <3>4, FS_AddElement
  <2>3. CASE k \notin Writes[t]
    <3>1. Additions(k)' = Additions(k)
      <4>1. ASSUME NEW p \in Txns \X (1 .. setting.maxFaults + 1), k \in Writes[p[1]]
            PROVE  applied'[p[1]] = applied[p[1]]
        <5>1. p[1] \in Txns /\ p[1] # t
          BY <2>3, <4>1
        <5> QED  BY <1>0, <5>1
      <4> QED  BY <1>0, <4>1 DEF Additions
    <3>2. db'[k] = db[k]
      BY <1>1, <2>3
    <3> QED  BY <2>1, <3>1, <3>2
  <2> QED  BY <2>2, <2>3
<1>11. OutcomeIsTrue'
  <2>1. where = "retry" => unknown' = unknown \cup {t}
    BY DEF Applies
  <2>2. where = "done" => unknown' = unknown
    BY DEF Applies
  <2>3. t \in unknown \/ applied[t] = 0
    BY <1>0 DEF Inv, OutcomeIsTrue
  <2> QED  BY <1>0, <2>1, <2>2, <2>3 DEF Inv, OutcomeIsTrue
<1> QED  BY <1>5, <1>6, <1>7, <1>8, <1>9, <1>10, <1>11 DEF Inv

-----------------------------------------------------------------------------
(* The theorems.                                                           *)

\* The steps of Next, sorted by what they do to a call.
LEMMA Steps ==
  ASSUME Inv, Next
  PROVE  /\ UNCHANGED setting
         /\ \E t \in Txns :
              \/ DoTransaction(t) \/ GetReadVersion(t) \/ \E k \in Keys : ReadReturns(t, k)
              \/ \E where \in States : Parks(t, where)
              \/ \E where \in States : Restarts(t, where)
              \/ \E where \in {"done", "retry"} : Applies(t, where)
<1>0. UNCHANGED setting
  BY DEF Next
<1>1. PICK t \in Txns :
        \/ DoTransaction(t) \/ GetReadVersion(t) \/ \E k \in Keys : ReadReturns(t, k)
        \/ FuncFails(t) \/ ReadFails(t) \/ ThrowAtOnce(t) \/ ThrowInCallback(t)
        \/ CommitConflict(t) \/ CommitFails(t) \/ GiveUp(t)
        \/ Retry(t) \/ RetryThrows(t)
        \/ CommitOk(t) \/ CommitUnknown(t)
  BY DEF Next, Progress
<1> QED  BY <1>0, <1>1, ParkingSteps, RestartingSteps, ApplyingSteps

LEMMA StepInv == Inv /\ [Next]_vars => Inv'
<1> SUFFICES ASSUME Inv, [Next]_vars PROVE Inv'
  OBVIOUS
<1>1. CASE Next
  BY <1>1, Steps, DoTransactionInv, GetReadVersionInv, ReadReturnsInv, ParksInv, RestartsInv, AppliesInv
<1>2. CASE UNCHANGED vars
  <2> USE <1>2 DEF Inv, vars, txVars, historyVars
  <2>1. TypeOK'  BY DEF TypeOK
  <2>2. TxInv' /\ AppliedInv' /\ OutcomeIsTrue'  BY DEF TxInv, AppliedInv, OutcomeIsTrue
  <2>3. SnapshotInv' /\ PastInv'  BY DEF SnapshotInv, PastInv, Running, Attempting
  <2>4. UpdatesInv'  BY DEF UpdatesInv, Additions
  <2> QED  BY <2>1, <2>2, <2>3, <2>4
<1> QED  BY <1>1, <1>2

\* The inductive invariant holds in every reachable state.
LEMMA Invariance == Spec => []Inv
<1> QED  BY InitInv, StepInv, PTL DEF Spec

\* Every variable of the retry loop stays in its set.
THEOREM TypeCorrect == Spec => []TypeOK
<1>1. Inv => TypeOK
  BY DEF Inv
<1> QED  BY <1>1, Invariance, PTL

\* What doTransaction tells its caller is what happened: after success the writes
\* are in, once, and after failure they are not, unless a commit was of unknown outcome.
THEOREM CallersToldTheTruth == Spec => []OutcomeIsTrue
<1>1. Inv => OutcomeIsTrue
  BY DEF Inv
<1> QED  BY <1>1, Invariance, PTL

\* Every key has been added to once for each applied commit that adds to it,
\* although calls write values computed from what they have read.
THEOREM NoUpdateIsLost == Spec => []NoLostUpdate
<1>1. Inv => NoLostUpdate
  BY DEF Inv, UpdatesInv, NoLostUpdate
<1> QED  BY <1>1, Invariance, PTL

-----------------------------------------------------------------------------
(* The retry loop implements AtomicTransactions.                           *)

\* A call is running, for the abstract specification, just when it is in the loop.
LEMMA StatusOf ==
  ASSUME NEW t \in Txns, pc[t] \in States
  PROVE  /\ Status[t] = "idle" <=> pc[t] = "idle"
         /\ Status[t] = "running" <=> Running(t)
BY DEF Status, Running, States, Waiting, Ends

\* A step that leaves all calls but t where they are leaves their status.
LEMMA StatusMoves ==
  ASSUME pc \in [Txns -> States], NEW t \in Txns, NEW where \in States,
         pc' = [pc EXCEPT ![t] = where]
  PROVE  Status' = [Status EXCEPT ![t] = CASE where = "idle" -> "idle"
                                           [] where = "done" -> "done"
                                           [] where \in {"failed", "thrown"} -> "failed"
                                           [] OTHER -> "running"]
<1>1. pc'[t] = where /\ \A u \in Txns \ {t} : pc'[u] = pc[u]
  OBVIOUS
<1> QED  BY <1>1 DEF Status

LEMMA RefinesInit == Init => Atomic!AInit
BY DEF Init, Atomic!AInit, Status, Empty

\* A step of the loop that is not a commit is a call being made, one being given
\* up, or nothing at all to the caller.
LEMMA ParksRefines ==
  ASSUME Inv, NEW t \in Txns, NEW where \in States, Parks(t, where)
  PROVE  [Atomic!ANext]_(Atomic!avars)
<1>0. /\ pc \in [Txns -> States] /\ pc' = [pc EXCEPT ![t] = where]
      /\ UNCHANGED <<db, result, past, unknown>>
  BY DEF Parks, Goto, historyVars, Inv, TypeOK
<1>1. Status[t] \in {"idle", "running"}
  BY StatusOf, <1>0 DEF Parks, Running
<1>2. CASE where \in {"failed", "thrown"}
  <2>1. Status' = [Status EXCEPT ![t] = "failed"]
    BY <1>0, <1>2, StatusMoves
  <2> QED  BY <1>0, <1>1, <2>1 DEF Atomic!ANext, Atomic!Abort
<1>3. CASE where \notin {"failed", "thrown"}
  <2>1. Status' = [Status EXCEPT ![t] = "running"]
    BY <1>0, <1>3, StatusMoves DEF Parks
  <2>2. Status[t] = "running"
    BY <1>0, <1>3, StatusOf DEF Parks, Running
  <2>3. Status' = Status
    BY <2>1, <2>2 DEF Status
  <2> QED  BY <1>0, <2>3 DEF Atomic!avars
<1> QED  BY <1>2, <1>3

LEMMA AppliesRefines ==
  ASSUME Inv, NEW t \in Txns, NEW where \in {"done", "retry"}, Applies(t, where)
  PROVE  Atomic!ANext
<1>0. /\ pc \in [Txns -> States] /\ pc' = [pc EXCEPT ![t] = where] /\ pc[t] = "committing"
      /\ where \in States /\ Running(t)
  BY DEF Applies, Goto, Inv, TypeOK, Running, States, Waiting, Ends
<1>1. Atomic!Step(t)
  <2>1. Status[t] = "running"
    BY <1>0, StatusOf
  <2>2. db' = Atomic!Added(t)
    BY CommitIsAddition DEF Applies, ApplyWrites, Atomic!Added
  <2>3. past' = [u \in Txns |-> IF Status[u] = "running" THEN past[u] \cup {db'} ELSE past[u]]
    BY <1>0, StatusOf DEF Applies, ApplyWrites, Running
  <2> QED  BY <2>1, <2>2, <2>3 DEF Atomic!Step
<1>2. CASE where = "done"
  <2>1. Status' = [Status EXCEPT ![t] = "done"]
    BY <1>0, <1>2, StatusMoves
  <2>2. result' = [result EXCEPT ![t] = [k \in Reads[t] |-> snap[t][k]]] /\ UNCHANGED unknown
    BY <1>2 DEF Applies
  <2>3. CASE Writes[t] # {}
    <3>1. [k \in Reads[t] |-> snap[t][k]] = Atomic!Values(t, db)
      BY <2>3, CommitIsAddition DEF Applies, Atomic!Values
    <3> QED  BY <1>1, <2>1, <2>2, <2>3, <3>1 DEF Atomic!ANext, Atomic!Complete
  <2>4. CASE Writes[t] = {} /\ Reads[t] # {}
    <3>1. snap[t] \in past[t]
      BY <1>0, <2>4, CommitIsAddition DEF Applies, Inv, PastInv
    <3>2. [k \in Reads[t] |-> snap[t][k]] = Atomic!Values(t, snap[t])
      BY DEF Atomic!Values
    <3> QED  BY <1>1, <2>1, <2>2, <2>4, <3>1, <3>2 DEF Atomic!ANext, Atomic!Complete
  <2>5. CASE Writes[t] = {} /\ Reads[t] = {}
    <3>1. db \in past[t]
      BY <1>0 DEF Inv, PastInv
    <3>2. [k \in Reads[t] |-> snap[t][k]] = Atomic!Values(t, db)
      BY <2>5 DEF Atomic!Values
    <3> QED  BY <1>1, <2>1, <2>2, <2>5, <3>1, <3>2 DEF Atomic!ANext, Atomic!Complete
  <2> QED  BY <2>3, <2>4, <2>5
<1>3. CASE where = "retry"
  <2>1. Status' = [Status EXCEPT ![t] = "running"]
    BY <1>0, <1>3, StatusMoves
  <2>2. Status' = Status
    BY <1>0, <2>1, StatusOf DEF Status
  <2>3. unknown' = unknown \cup {t} /\ UNCHANGED result
    BY <1>3 DEF Applies
  <2> QED  BY <1>1, <2>2, <2>3 DEF Atomic!ANext, Atomic!CompleteUnknown
<1> QED  BY <1>2, <1>3

LEMMA RefinesStep == Inv /\ [Next]_vars => [Atomic!ANext]_(Atomic!avars)
<1> SUFFICES ASSUME Inv, [Next]_vars PROVE [Atomic!ANext]_(Atomic!avars)
  OBVIOUS
<1>0. pc \in [Txns -> States]
  BY DEF Inv, TypeOK
<1>1. CASE UNCHANGED vars
  BY <1>1 DEF vars, historyVars, Atomic!avars, Status
<1>2. ASSUME NEW t \in Txns, DoTransaction(t) PROVE Atomic!ANext
  <2> DEFINE where == IF Reads[t] = {} THEN "committing" ELSE "reading"
  <2>1. where \in States /\ pc' = [pc EXCEPT ![t] = where]
    BY <1>2 DEF DoTransaction, RunFunc, Goto, States, Waiting
  <2>2. Status' = [Status EXCEPT ![t] = "running"]
    BY <1>0, <2>1, StatusMoves
  <2>3. Status[t] = "idle"
    BY <1>0, <1>2, StatusOf DEF DoTransaction
  <2> QED  BY <1>2, <2>2, <2>3 DEF DoTransaction, Atomic!ANext, Atomic!Invoke
<1>3. ASSUME NEW t \in Txns, GetReadVersion(t) PROVE UNCHANGED Atomic!avars
  BY <1>3 DEF GetReadVersion, historyVars, Atomic!avars, Status
<1>4. ASSUME NEW t \in Txns, NEW where \in States \ {"idle", "done", "failed", "thrown"},
             pc' = [pc EXCEPT ![t] = where], Running(t), UNCHANGED <<db, result, past, unknown>>
      PROVE  UNCHANGED Atomic!avars
  <2>1. Status' = [Status EXCEPT ![t] = "running"]
    BY <1>0, <1>4, StatusMoves
  <2>2. Status' = Status
    BY <1>0, <1>4, <2>1, StatusOf DEF Status
  <2> QED  BY <1>4, <2>2 DEF Atomic!avars
<1>5. ASSUME NEW t \in Txns, NEW k \in Keys, ReadReturns(t, k) PROVE UNCHANGED Atomic!avars
  <2> DEFINE where == IF seen'[t] = Reads[t] THEN "committing" ELSE "reading"
  <2>1. /\ where \in States \ {"idle", "done", "failed", "thrown"}
        /\ pc' = [pc EXCEPT ![t] = where] /\ Running(t) /\ UNCHANGED <<db, result, past, unknown>>
    BY <1>5 DEF ReadReturns, Goto, Running, States, Waiting, historyVars
  <2> QED  BY <1>4, <2>1
<1>6. ASSUME NEW t \in Txns, NEW where \in States, Restarts(t, where) PROVE UNCHANGED Atomic!avars
  <2>1. /\ where \in States \ {"idle", "done", "failed", "thrown"}
        /\ pc' = [pc EXCEPT ![t] = where] /\ Running(t) /\ UNCHANGED <<db, result, past, unknown>>
    BY <1>6 DEF Restarts, MayRetry, Goto, Running, States, Waiting, historyVars
  <2> QED  BY <1>4, <2>1
<1> QED
  BY <1>1, <1>2, <1>3, <1>5, <1>6, Steps, ParksRefines, AppliesRefines

\* Every call of doTransaction is one step on the database, or none, however the
\* attempts of different calls interleave and whichever of them fail.
THEOREM CallsAreAtomic == Spec => ImplementsAtomic
<1> QED  BY RefinesInit, RefinesStep, Invariance, PTL DEF Spec, ImplementsAtomic, Atomic!AtomicSpec
=============================================================================
