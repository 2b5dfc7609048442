------------------------ MODULE HighContentionAllocator ------------------------
(***************************************************************************)
(* The allocator of short unique prefixes of lib/directory.js, run by      *)
(* several transactions under the retry loop of lib/database.js on an      *)
(* optimistic multi-version store.                                         *)
(*                                                                         *)
(* A call of allocate reads the last counter with a SNAPSHOT read, which   *)
(* the store does not check at commit, clears old keys and adds to the     *)
(* counter blindly, and is protected by one checked read only: the one of  *)
(* recent[candidate].  Everything here is about whether that is enough.    *)
(*                                                                         *)
(* The store is external.  A transaction sees the snapshot taken at its    *)
(* first read overlaid with its own writes; "dirty" is the set of recent   *)
(* keys other transactions have committed writes to since that snapshot.   *)
(***************************************************************************)
EXTENDS Integers, FiniteSets

CONSTANTS
  Txns,            \* the doTransaction calls that allocate
  CallsPerTxn,     \* how many times each of them calls allocate
  Concurrent,      \* may the calls of one transaction overlap?
  SnapshotRYW,     \* do snapshot reads see the transaction's own writes?
                   \* (options snapshot_ryw_enable / snapshot_ryw_disable)
  SmallLimit, SmallWindow, MidLimit, MidWindow, BigWindow,  \* 255 64 65535 1024 8192
  MaxPrefix,       \* bound: the last prefix of the model
  MaxFaults        \* bound: errors other than conflicts

ASSUME TxnsAssumption == IsFiniteSet(Txns)
ASSUME CallsAssumption == CallsPerTxn \in Nat \ {0}
ASSUME ModesAssumption == Concurrent \in BOOLEAN /\ SnapshotRYW \in BOOLEAN
ASSUME WindowAssumption ==
  /\ {SmallLimit, MidLimit} \subseteq Nat
  /\ {SmallWindow, MidWindow, BigWindow} \subseteq Nat \ {0}
ASSUME BoundsAssumption == MaxPrefix \in Nat /\ MaxFaults \in Nat

Slots == 1 .. CallsPerTxn
Prefixes == 0 .. MaxPrefix
CounterMap == [Prefixes -> Nat]
NoCounters == [s \in Prefixes |-> 0]

Larger(a, b) == IF a > b THEN a ELSE b

VARIABLES
  counters,   \* start of a window -> allocations counted in it (0: key absent)
  recent,     \* the prefixes with a key in the "recent" subspace
  issued,     \* history: prefix -> how many times a commit handed it out
  finished,   \* the transactions whose doTransaction has called back
  faults,     \* errors injected so far
  active,     \* the transactions that have a read version
  snapC, snapR, dirty, checked,    \* snapshot, others' writes, read conflict keys
  clearedC, addC, clearedR, setR,  \* own writes, in the order clear then add / set
  call        \* per call of allocate: where it is and what it has read

storeVars == <<counters, recent, issued>>
writeVars == <<clearedC, addC, clearedR, setR>>
txVars == <<active, snapC, snapR, dirty, checked, writeVars>>
vars == <<storeVars, finished, faults, txVars, call>>

CallState == [pc : {"idle", "counted", "picked", "done"}, start : Prefixes, count : Nat,
              candidate : Prefixes, free : BOOLEAN]
IdleCall == [pc |-> "idle", start |-> 0, count |-> 0, candidate |-> 0, free |-> FALSE]

-----------------------------------------------------------------------------
(* What a transaction's writes make of a counter map and of a recent set,  *)
(* and what the transaction reads through them.                            *)

ApplyAsSet(t, c) ==  \* mutant: the counter is written back, not added to
  [s \in Prefixes |-> IF addC[t][s] > 0 THEN snapC[t][s] + addC[t][s]
                      ELSE IF s < clearedC[t] THEN 0 ELSE c[s]]
ApplyC(t, c) == [s \in Prefixes |-> (IF s < clearedC[t] THEN 0 ELSE c[s]) + addC[t][s]]
ApplyR(t, r) == {p \in r : p >= clearedR[t]} \cup setR[t]
ViewR(t) == ApplyR(t, snapR[t])
Written(t) == setR[t] \cup {p \in Prefixes : p < clearedR[t]}

\* s is what getRange(counters, {limit: 1, reverse: true}) finds in c, 0 if nothing.
IsLast(c, s) ==
  \/ s = 0 /\ \A x \in Prefixes : c[x] = 0
  \/ c[s] > 0 /\ \A x \in Prefixes : x > s => c[x] = 0

windowSize(start) ==
  IF start < SmallLimit THEN SmallWindow
  ELSE IF start < MidLimit THEN MidWindow ELSE BigWindow

Window(start) == start .. (start + windowSize(start) - 1)

FullBeforeThis(start, count) == count * 2 >= windowSize(start)  \* mutant
NeverFull(start, count) == FALSE  \* mutant

\* Half full, counting the allocation at hand: the window must move.
Full(start, count) == (count + 1) * 2 >= windowSize(start)

\* What a move of the window clears of the counters: everything up to the old one.
ClearedEnd(start) == start + 1

\* The atomic add of one allocation to a counter.
CountedDown(c, s) == [c EXCEPT ![s] = @ - 1]  \* mutant
Counted(c, s) == [c EXCEPT ![s] = @ + 1]

NewStart(start, count) == IF Full(start, count) THEN start + windowSize(start) ELSE start

-----------------------------------------------------------------------------
(* The steps of one call of allocate: each is a turn of the event loop.    *)

Update(t, i, c) == call' = [call EXCEPT ![t][i] = c]

\* getRange is issued; the first read of an attempt fixes its snapshot.
ReadCounter(t, i) ==
  /\ t \notin finished
  /\ call[t][i].pc = "idle"
  /\ Concurrent \/ \A j \in Slots : j < i => call[t][j].pc = "done"
  /\ active' = active \cup {t}
  /\ IF t \in active
       THEN UNCHANGED <<snapC, snapR>>
       ELSE /\ snapC' = [snapC EXCEPT ![t] = counters]
            /\ snapR' = [snapR EXCEPT ![t] = recent]
  /\ LET c == IF SnapshotRYW THEN ApplyC(t, snapC'[t]) ELSE snapC'[t]
     IN \E start \in Prefixes :
          /\ IsLast(c, start)
          /\ Update(t, i, [pc |-> "counted", start |-> start, count |-> c[start],
                              candidate |-> 0, free |-> FALSE])
  /\ UNCHANGED <<storeVars, finished, faults, dirty, checked, writeVars>>

PickUnchecked(t, i, start, p) ==  \* mutant: the candidate too is read by a snapshot read
  /\ Update(t, i, [pc |-> "picked", start |-> start, count |-> call[t][i].count,
                   candidate |-> p,
                   free |-> IF p < clearedR'[t] THEN p \notin setR'[t]
                            ELSE p \notin setR'[t] \cup snapR[t]])
  /\ UNCHANGED checked

\* tr.get(recent[p]) is issued for a random p of the window.  A key the
\* transaction has written itself is answered locally and not checked.
PickFrom(t, i, start, p) ==
  LET written == p \in setR'[t] \/ p < clearedR'[t]
  IN /\ Update(t, i, [pc |-> "picked", start |-> start, count |-> call[t][i].count,
                      candidate |-> p,
                      free |-> IF written THEN p \notin setR'[t] ELSE p \notin snapR[t]])
     /\ checked' = IF written THEN checked ELSE [checked EXCEPT ![t] = @ \cup {p}]

\* The counter has been read: move the window if it is half full, count this
\* allocation, and try a first candidate.
OpenWindow(t, i) ==
  LET start == call[t][i].start
      count == call[t][i].count
      moved == NewStart(start, count)
      kept == [s \in Prefixes |-> IF s < ClearedEnd(start) THEN 0 ELSE addC[t][s]]
  IN /\ call[t][i].pc = "counted"
     /\ Window(moved) \subseteq Prefixes
     /\ IF Full(start, count)
          THEN /\ clearedC' = [clearedC EXCEPT ![t] = Larger(@, ClearedEnd(start))]
               /\ clearedR' = [clearedR EXCEPT ![t] = Larger(@, moved)]
               /\ setR' = [setR EXCEPT ![t] = {p \in @ : p >= moved}]
               /\ addC' = [addC EXCEPT ![t] = Counted(kept, moved)]
          ELSE /\ addC' = [addC EXCEPT ![t] = Counted(@, moved)]
               /\ UNCHANGED <<clearedC, clearedR, setR>>
     /\ \E p \in Window(moved) : PickFrom(t, i, moved, p)
     /\ UNCHANGED <<storeVars, finished, faults, active, snapC, snapR, dirty>>

\* The answer is null: take the candidate.
Take(t, i) ==
  /\ call[t][i].pc = "picked"
  /\ call[t][i].free
  /\ setR' = [setR EXCEPT ![t] = @ \cup {call[t][i].candidate}]
  /\ Update(t, i, [call[t][i] EXCEPT !.pc = "done"])
  /\ UNCHANGED <<storeVars, finished, faults, active, snapC, snapR, dirty, checked,
                 clearedC, addC, clearedR>>

\* The answer is a value: the loop body runs again with another random candidate.
PickAgain(t, i) ==
  /\ call[t][i].pc = "picked"
  /\ ~call[t][i].free
  /\ UNCHANGED writeVars
  /\ \E p \in Window(call[t][i].start) : PickFrom(t, i, call[t][i].start, p)
  /\ UNCHANGED <<storeVars, finished, faults, active, snapC, snapR, dirty>>

-----------------------------------------------------------------------------
(* The retry loop around the calls, and the store's commit.                *)

AllDone(t) == \A i \in Slots : call[t][i].pc = "done"
Conflict(t) == checked[t] \cap dirty[t] # {}
Candidates(t) == {call[t][i].candidate : i \in Slots}

\* onError resets the native transaction and the function runs again, on the
\* same transaction object; a transaction that is over is left in the same state.
Reset(t) ==
  /\ active' = active \ {t}
  /\ snapC' = [snapC EXCEPT ![t] = NoCounters]
  /\ snapR' = [snapR EXCEPT ![t] = {}]
  /\ checked' = [checked EXCEPT ![t] = {}]
  /\ clearedC' = [clearedC EXCEPT ![t] = 0]
  /\ addC' = [addC EXCEPT ![t] = NoCounters]
  /\ clearedR' = [clearedR EXCEPT ![t] = 0]
  /\ setR' = [setR EXCEPT ![t] = {}]
  /\ call' = [call EXCEPT ![t] = [i \in Slots |-> IdleCall]]

\* The writes of t become visible, and dirty to everyone who read before.
Apply(t) ==
  /\ counters' = ApplyC(t, counters)
  /\ recent' = ApplyR(t, recent)
  /\ issued' = [p \in Prefixes |->
                  issued[p] + Cardinality({i \in Slots : call[t][i].candidate = p})]
  /\ dirty' = [u \in Txns |-> IF u \in active \ {t} THEN dirty[u] \cup Written(t) ELSE {}]

Drop(t) ==
  /\ dirty' = [dirty EXCEPT ![t] = {}]
  /\ UNCHANGED storeVars

Commit(t) ==
  /\ t \notin finished /\ AllDone(t) /\ ~Conflict(t)
  /\ Apply(t)
  /\ Reset(t)
  /\ finished' = finished \cup {t}
  /\ UNCHANGED faults

CommitConflict(t) ==
  /\ t \notin finished /\ AllDone(t) /\ Conflict(t)
  /\ Drop(t)
  /\ Reset(t)
  /\ UNCHANGED <<finished, faults>>

\* commit_unknown_result: the writes are in, the caller is told they may not be.
CommitUnknown(t) ==
  /\ t \notin finished /\ AllDone(t) /\ ~Conflict(t)
  /\ faults < MaxFaults
  /\ Apply(t)
  /\ Reset(t)
  /\ faults' = faults + 1
  /\ UNCHANGED finished

\* Any retryable error of a read or of the commit; the writes are lost.
Fault(t) ==
  /\ t \in active
  /\ faults < MaxFaults
  /\ Drop(t)
  /\ Reset(t)
  /\ faults' = faults + 1
  /\ UNCHANGED finished

-----------------------------------------------------------------------------

Init ==
  /\ counters = NoCounters
  /\ recent = {}
  /\ issued = [p \in Prefixes |-> 0]
  /\ finished = {}
  /\ faults = 0
  /\ active = {}
  /\ snapC = [t \in Txns |-> NoCounters]
  /\ snapR = [t \in Txns |-> {}]
  /\ dirty = [t \in Txns |-> {}]
  /\ checked = [t \in Txns |-> {}]
  /\ clearedC = [t \in Txns |-> 0]
  /\ addC = [t \in Txns |-> NoCounters]
  /\ clearedR = [t \in Txns |-> 0]
  /\ setR = [t \in Txns |-> {}]
  /\ call = [t \in Txns |-> [i \in Slots |-> IdleCall]]

CallStep(t, i) == ReadCounter(t, i) \/ OpenWindow(t, i) \/ Take(t, i) \/ PickAgain(t, i)
CommitStep(t) == Commit(t) \/ CommitConflict(t)

Next ==
  \E t \in Txns :
    \/ \E i \in Slots : CallStep(t, i)
    \/ CommitStep(t)
    \/ CommitUnknown(t)
    \/ Fault(t)

Spec == Init /\ [][Next]_vars

\* The event loop runs every callback whose event has happened and the store
\* answers every request; the random choice does not avoid the free
\* candidates for ever.  Nothing forces a fault.
PickFree(t, i) == PickAgain(t, i) /\ call'[t][i].free

Fairness ==
  /\ \A t \in Txns, i \in Slots :
       /\ WF_vars(CallStep(t, i))
       /\ SF_vars(PickFree(t, i))
  /\ \A t \in Txns : WF_vars(CommitStep(t))

FairSpec == Spec /\ Fairness

-----------------------------------------------------------------------------
(* Properties.                                                             *)

\* Every variable stays in its set.
TypeOK ==
  /\ counters \in CounterMap
  /\ recent \in SUBSET Prefixes
  /\ issued \in [Prefixes -> Nat]
  /\ finished \in SUBSET Txns
  /\ faults \in 0 .. MaxFaults
  /\ active \in SUBSET Txns
  /\ snapC \in [Txns -> CounterMap]
  /\ snapR \in [Txns -> SUBSET Prefixes]
  /\ dirty \in [Txns -> SUBSET Prefixes]
  /\ checked \in [Txns -> SUBSET Prefixes]
  /\ clearedC \in [Txns -> Nat]
  /\ addC \in [Txns -> CounterMap]
  /\ clearedR \in [Txns -> Nat]
  /\ setR \in [Txns -> SUBSET Prefixes]
  /\ call \in [Txns -> [Slots -> CallState]]

\* No prefix is handed out by two commits, or twice by one: two directories
\* never share their contents.  It rests on the single checked read of
\* recent[candidate], although the clearing of old recent keys forgets what
\* has been handed out and the counter is read unchecked and may be stale.
PrefixIssuedOnce == \A p \in Prefixes : issued[p] <= 1

\* The counter of the last window counts exactly the prefixes taken in it:
\* stale transactions that add to, or clear, counters of windows that have
\* moved on never disturb the one that is read.
CounterExact ==
  \A s \in Prefixes :
    IsLast(counters, s) => counters[s] = Cardinality({p \in recent : p >= s})

\* When a call chooses candidates, fewer than half of the window would be in
\* use even with its own: the random search needs two tries on average, and
\* never faces a full window in which it could not end.
HalfFree ==
  \A t \in Txns, i \in Slots :
    call[t][i].pc = "picked" =>
      2 * (Cardinality(ViewR(t) \cap Window(call[t][i].start)) + 1)
        < windowSize(call[t][i].start)

\* Every transaction gets its prefixes and commits, however the others interfere.
AllFinish == \A t \in Txns : <>(t \in finished)

=============================================================================
