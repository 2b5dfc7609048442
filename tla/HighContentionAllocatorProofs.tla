--------------------- MODULE HighContentionAllocatorProofs ---------------------
(***************************************************************************)
(* The allocator never hands out a prefix twice, counts the prefixes of    *)
(* its last window exactly and leaves half of the window it searches free, *)
(* for every number of transactions and of calls, all window sizes and     *)
(* every bound, when the calls of one transaction run one after the other. *)
(***************************************************************************)
EXTENDS HighContentionAllocator, TLAPS, FiniteSetTheorems

Pc(t, i) == call[t][i].pc
Candidate(t, i) == call[t][i].candidate

-----------------------------------------------------------------------------
(* Facts about the operators.                                              *)

\* A window is not empty.
LEMMA WindowSize == \A start \in Int : windowSize(start) \in Nat \ {0}
BY WindowAssumption DEF windowSize

\* Moving the window never moves it back.
LEMMA NewStartForward ==
  ASSUME NEW start \in Nat, NEW count \in Nat
  PROVE  NewStart(start, count) \in Nat /\ NewStart(start, count) >= start
BY WindowSize DEF NewStart

\* A set of calls has a size.
LEMMA CallsFinite ==
  ASSUME NEW S, S \subseteq Slots
  PROVE  IsFiniteSet(S) /\ Cardinality(S) \in Nat
<1>1. IsFiniteSet(Slots)
  BY FS_Interval, CallsAssumption DEF Slots
<1> QED
  BY <1>1, FS_Subset, FS_CardinalityType

-----------------------------------------------------------------------------
(* Type correctness.                                                       *)

\* The window of a call that chooses is within the bound of the model.
WindowInside ==
  \A t \in Txns, i \in Slots : Pc(t, i) = "picked" => Window(call[t][i].start) \subseteq Prefixes

TypeInv == TypeOK /\ WindowInside

LEMMA InitType == Init => TypeOK
<1> USE BoundsAssumption DEF Init
<1>1. NoCounters \in CounterMap /\ 0 \in Prefixes
  BY DEF NoCounters, Prefixes, CounterMap
<1>2. IdleCall \in CallState
  BY <1>1 DEF IdleCall, CallState
<1> QED
  BY <1>1, <1>2 DEF TypeOK

LEMMA ApplyType ==
  ASSUME TypeOK, NEW t \in Txns, NEW c \in CounterMap, NEW r \in SUBSET Prefixes
  PROVE  ApplyC(t, c) \in CounterMap /\ ApplyR(t, r) \in SUBSET Prefixes
<1>1. ApplyC(t, c) \in CounterMap
  <2>1. \A s \in Prefixes : addC[t][s] \in Nat /\ c[s] \in Nat
    BY DEF TypeOK, CounterMap
  <2> QED  BY <2>1 DEF ApplyC, CounterMap
<1>2. ApplyR(t, r) \in SUBSET Prefixes
  BY DEF TypeOK, ApplyR
<1> QED  BY <1>1, <1>2

LEMMA ReadCounterType ==
  ASSUME TypeOK, NEW t \in Txns, NEW i \in Slots, ReadCounter(t, i)
  PROVE  TypeOK'
<1> USE DEF TypeOK
<1>0. /\ IF t \in active
           THEN UNCHANGED <<snapC, snapR>>
           ELSE /\ snapC' = [snapC EXCEPT ![t] = counters]
                /\ snapR' = [snapR EXCEPT ![t] = recent]
      /\ active' = active \cup {t}
      /\ UNCHANGED <<counters, recent, issued, finished, faults, dirty, checked,
                     clearedC, addC, clearedR, setR>>
  BY DEF ReadCounter, storeVars, writeVars
<1>1. snapC' \in [Txns -> CounterMap] /\ snapR' \in [Txns -> SUBSET Prefixes]
  <2>1. CASE t \in active  BY <1>0, <2>1
  <2>2. CASE t \notin active
    <3>1. snapC' = [snapC EXCEPT ![t] = counters] /\ snapR' = [snapR EXCEPT ![t] = recent]
      BY <1>0, <2>2
    <3>2. snapC' \in [Txns -> CounterMap]
      BY <3>1
    <3>3. snapR' \in [Txns -> SUBSET Prefixes]
      BY <3>1
    <3> QED  BY <3>2, <3>3
  <2> QED  BY <2>1, <2>2
<1>2. ApplyC(t, snapC'[t]) \in CounterMap
  BY <1>1, ApplyType
<1>3. call' \in [Txns -> [Slots -> CallState]]
  <2> DEFINE c == IF SnapshotRYW THEN ApplyC(t, snapC'[t]) ELSE snapC'[t]
  <2>1. PICK start \in Prefixes :
          Update(t, i, [pc |-> "counted", start |-> start, count |-> c[start],
                        candidate |-> 0, free |-> FALSE])
    BY DEF ReadCounter
  <2>2. c[start] \in Nat
    BY <1>1, <1>2, <2>1 DEF CounterMap
  <2> HIDE DEF c
  <2>3. [pc |-> "counted", start |-> start, count |-> c[start],
        candidate |-> 0, free |-> FALSE] \in CallState
    BY <2>2, BoundsAssumption DEF CallState, Prefixes
  <2> QED
    BY <2>1, <2>3 DEF Update, c
<1> QED
  BY <1>0, <1>1, <1>3

LEMMA PickFromType ==
  ASSUME TypeOK, NEW t \in Txns, NEW i \in Slots, NEW start \in Prefixes, NEW p \in Prefixes,
         PickFrom(t, i, start, p)
  PROVE  call' \in [Txns -> [Slots -> CallState]] /\ checked' \in [Txns -> SUBSET Prefixes]
<1> DEFINE written == p \in setR'[t] \/ p < clearedR'[t]
           free == IF written THEN p \notin setR'[t] ELSE p \notin snapR[t]
           c == [pc |-> "picked", start |-> start, count |-> call[t][i].count,
                 candidate |-> p, free |-> free]
<1>1. free \in BOOLEAN
  OBVIOUS
<1>2. call[t][i].count \in Nat
  BY DEF TypeOK, CallState
<1>3. Update(t, i, c) /\ checked' = IF written THEN checked ELSE [checked EXCEPT ![t] = @ \cup {p}]
  BY DEF PickFrom
<1> HIDE DEF free, written
<1>4. c \in CallState
  BY <1>1, <1>2 DEF CallState
<1> HIDE DEF c
<1>5. call' \in [Txns -> [Slots -> CallState]]
  BY <1>3, <1>4 DEF TypeOK, Update
<1>6. checked' \in [Txns -> SUBSET Prefixes]
  <2>1. checked \in [Txns -> SUBSET Prefixes]
    BY DEF TypeOK
  <2> QED  BY <1>3, <2>1
<1> QED
  BY <1>5, <1>6

LEMMA TakeType ==
  ASSUME TypeOK, NEW t \in Txns, NEW i \in Slots, Take(t, i)
  PROVE  TypeOK'
<1>1. call[t][i] \in CallState
  BY DEF TypeOK
<1>2. [call[t][i] EXCEPT !.pc = "done"] \in CallState
  BY <1>1 DEF CallState
<1>3. call' \in [Txns -> [Slots -> CallState]]
  BY <1>2 DEF TypeOK, Take, Update
<1>4. setR' \in [Txns -> SUBSET Prefixes]
  <2>1. setR \in [Txns -> SUBSET Prefixes] /\ call[t][i].candidate \in Prefixes
    BY <1>1 DEF TypeOK, CallState
  <2>2. setR' = [setR EXCEPT ![t] = @ \cup {call[t][i].candidate}]
    BY DEF Take
  <2> QED  BY <2>1, <2>2
<1> QED
  BY <1>3, <1>4 DEF TypeOK, Take, storeVars

LEMMA PickAgainType ==
  ASSUME TypeOK, WindowInside, NEW t \in Txns, NEW i \in Slots, PickAgain(t, i)
  PROVE  TypeOK'
<1>1. call[t][i].start \in Prefixes
  BY DEF TypeOK, CallState
<1>2. PICK p \in Window(call[t][i].start) : PickFrom(t, i, call[t][i].start, p)
  BY DEF PickAgain
<1>3. p \in Prefixes
  BY <1>2 DEF WindowInside, PickAgain, Pc
<1> QED
  BY <1>1, <1>2, <1>3, PickFromType DEF TypeOK, PickAgain, storeVars, writeVars

LEMMA OpenWindowType ==
  ASSUME TypeOK, NEW t \in Txns, NEW i \in Slots, OpenWindow(t, i)
  PROVE  TypeOK'
<1> DEFINE start == call[t][i].start
           count == call[t][i].count
           moved == NewStart(start, count)
           kept == [s \in Prefixes |-> IF s < ClearedEnd(start) THEN 0 ELSE addC[t][s]]
<1>1. start \in Prefixes /\ count \in Nat /\ start \in Nat
  BY BoundsAssumption DEF TypeOK, CallState, Prefixes
<1>2. moved \in Nat /\ Window(moved) \subseteq Prefixes
  BY <1>1, NewStartForward DEF OpenWindow
<1>3. moved \in Prefixes
  <2>1. windowSize(moved) \in Nat \ {0}
    BY <1>2, WindowSize
  <2>2. moved \in Window(moved)
    BY <1>2, <2>1 DEF Window
  <2> QED  BY <1>2, <2>2
<1>4. PICK p \in Window(moved) : PickFrom(t, i, moved, p)
  BY DEF OpenWindow
<1>5. call' \in [Txns -> [Slots -> CallState]] /\ checked' \in [Txns -> SUBSET Prefixes]
  BY <1>2, <1>3, <1>4, PickFromType
<1>6. addC[t] \in CounterMap /\ kept \in CounterMap
  <2>1. addC[t] \in [Prefixes -> Nat]
    BY DEF TypeOK, CounterMap
  <2>2. \A s \in Prefixes : (IF s < ClearedEnd(start) THEN 0 ELSE addC[t][s]) \in Nat
    BY <2>1
  <2> QED  BY <2>1, <2>2 DEF CounterMap
<1>7. \A c \in CounterMap : Counted(c, moved) \in CounterMap
  BY <1>3 DEF Counted, CounterMap
<1>8. /\ clearedC' \in [Txns -> Nat] /\ clearedR' \in [Txns -> Nat]
      /\ setR' \in [Txns -> SUBSET Prefixes] /\ addC' \in [Txns -> CounterMap]
  <2>0. /\ clearedC \in [Txns -> Nat] /\ clearedR \in [Txns -> Nat]
        /\ setR \in [Txns -> SUBSET Prefixes] /\ addC \in [Txns -> CounterMap]
    BY DEF TypeOK
  <2>1. CASE Full(start, count)
    <3>1. /\ clearedC' = [clearedC EXCEPT ![t] = Larger(@, ClearedEnd(start))]
          /\ clearedR' = [clearedR EXCEPT ![t] = Larger(@, moved)]
          /\ setR' = [setR EXCEPT ![t] = {q \in @ : q >= moved}]
          /\ addC' = [addC EXCEPT ![t] = Counted(kept, moved)]
      BY <2>1 DEF OpenWindow
    <3>2. Larger(clearedC[t], ClearedEnd(start)) \in Nat /\ Larger(clearedR[t], moved) \in Nat
      BY <1>1, <1>2, <2>0 DEF Larger, ClearedEnd
    <3>3. Counted(kept, moved) \in CounterMap
      BY <1>6, <1>7
    <3> HIDE DEF moved, kept, start
    <3>4. clearedC' \in [Txns -> Nat]
      BY <2>0, <3>1, <3>2
    <3>5. clearedR' \in [Txns -> Nat]
      BY <2>0, <3>1, <3>2
    <3>6. setR' \in [Txns -> SUBSET Prefixes]
      BY <2>0, <3>1
    <3>7. addC' \in [Txns -> CounterMap]
      BY <2>0, <3>1, <3>3
    <3> QED  BY <3>4, <3>5, <3>6, <3>7
  <2>2. CASE ~Full(start, count)
    <3>1. addC' = [addC EXCEPT ![t] = Counted(@, moved)] /\ UNCHANGED <<clearedC, clearedR, setR>>
      BY <2>2 DEF OpenWindow
    <3>2. Counted(addC[t], moved) \in CounterMap
      BY <1>6, <1>7
    <3> HIDE DEF moved
    <3> QED  BY <2>0, <3>1, <3>2
  <2> QED  BY <2>1, <2>2
<1> QED
  BY <1>5, <1>8 DEF TypeOK, OpenWindow, storeVars

\* What Update and Reset leave of the other calls.
LEMMA UpdateCall ==
  ASSUME TypeOK, NEW t \in Txns, NEW i \in Slots, NEW c, Update(t, i, c)
  PROVE  /\ call'[t][i] = c
         /\ \A j \in Slots : j # i => call'[t][j] = call[t][j]
         /\ \A u \in Txns : u # t => call'[u] = call[u]
BY DEF TypeOK, Update

LEMMA ResetCall ==
  ASSUME TypeOK, NEW t \in Txns, Reset(t)
  PROVE  /\ \A j \in Slots : call'[t][j] = IdleCall
         /\ \A u \in Txns : u # t => call'[u] = call[u]
BY DEF TypeOK, Reset

LEMMA ResetType ==
  ASSUME TypeOK, NEW t \in Txns, Reset(t)
  PROVE  /\ active' \in SUBSET Txns
         /\ snapC' \in [Txns -> CounterMap] /\ snapR' \in [Txns -> SUBSET Prefixes]
         /\ checked' \in [Txns -> SUBSET Prefixes]
         /\ clearedC' \in [Txns -> Nat] /\ addC' \in [Txns -> CounterMap]
         /\ clearedR' \in [Txns -> Nat] /\ setR' \in [Txns -> SUBSET Prefixes]
         /\ call' \in [Txns -> [Slots -> CallState]]
<1> USE DEF Reset
<1>1. NoCounters \in CounterMap /\ IdleCall \in CallState
  BY BoundsAssumption DEF NoCounters, CounterMap, IdleCall, CallState, Prefixes
<1>2. active' \in SUBSET Txns
  BY DEF TypeOK
<1>3. snapC' \in [Txns -> CounterMap]
  BY <1>1 DEF TypeOK
<1>4. snapR' \in [Txns -> SUBSET Prefixes]
  BY DEF TypeOK
<1>5. checked' \in [Txns -> SUBSET Prefixes]
  BY DEF TypeOK
<1>6. clearedC' \in [Txns -> Nat]
  BY DEF TypeOK
<1>7. addC' \in [Txns -> CounterMap]
  BY <1>1 DEF TypeOK
<1>8. clearedR' \in [Txns -> Nat]
  BY DEF TypeOK
<1>9. setR' \in [Txns -> SUBSET Prefixes]
  BY DEF TypeOK
<1>10. call' \in [Txns -> [Slots -> CallState]]
  BY <1>1 DEF TypeOK
<1> QED
  BY <1>2, <1>3, <1>4, <1>5, <1>6, <1>7, <1>8, <1>9, <1>10

LEMMA ApplyStepType ==
  ASSUME TypeOK, NEW t \in Txns, Apply(t)
  PROVE  /\ counters' \in CounterMap /\ recent' \in SUBSET Prefixes
         /\ issued' \in [Prefixes -> Nat] /\ dirty' \in [Txns -> SUBSET Prefixes]
<1> USE DEF Apply
<1>1. counters' \in CounterMap
  BY ApplyType DEF TypeOK
<1>2. recent' \in SUBSET Prefixes
  BY ApplyType DEF TypeOK
<1>3. issued' \in [Prefixes -> Nat]
  <2>1. \A p \in Prefixes : Cardinality({i \in Slots : call[t][i].candidate = p}) \in Nat
    BY CallsFinite
  <2>2. issued \in [Prefixes -> Nat]
    BY DEF TypeOK
  <2> QED  BY <2>1, <2>2
<1>4. dirty' \in [Txns -> SUBSET Prefixes]
  <2>1. Written(t) \in SUBSET Prefixes
    BY DEF TypeOK, Written
  <2>2. dirty \in [Txns -> SUBSET Prefixes]
    BY DEF TypeOK
  <2> QED  BY <2>1, <2>2
<1> QED
  BY <1>1, <1>2, <1>3, <1>4

LEMMA DropType ==
  ASSUME TypeOK, NEW t \in Txns, Drop(t)
  PROVE  /\ counters' \in CounterMap /\ recent' \in SUBSET Prefixes
         /\ issued' \in [Prefixes -> Nat] /\ dirty' \in [Txns -> SUBSET Prefixes]
BY DEF TypeOK, Drop, storeVars

LEMMA EndType ==
  ASSUME TypeOK, NEW t \in Txns, CommitStep(t) \/ CommitUnknown(t) \/ Fault(t)
  PROVE  TypeOK'
<1>1. Reset(t) /\ (Apply(t) \/ Drop(t))
  BY DEF CommitStep, Commit, CommitConflict, CommitUnknown, Fault
<1>2. finished' \in SUBSET Txns /\ faults' \in 0 .. MaxFaults
  BY BoundsAssumption DEF TypeOK, CommitStep, Commit, CommitConflict, CommitUnknown, Fault
<1> QED
  BY <1>1, <1>2, ResetType, ApplyStepType, DropType DEF TypeOK

LEMMA WindowInsideStep ==
  ASSUME TypeInv, Next
  PROVE  WindowInside'
<1> USE DEF TypeInv, WindowInside, Pc
<1>1. ASSUME NEW t \in Txns, NEW i \in Slots, CallStep(t, i)
      PROVE  WindowInside'
  <2>0. ASSUME NEW c, Update(t, i, c), c.pc = "picked" => Window(c.start) \subseteq Prefixes
        PROVE  WindowInside'
    BY <2>0, UpdateCall
  <2>1. CASE ReadCounter(t, i)
    <3>1. PICK start, n :
            Update(t, i, [pc |-> "counted", start |-> start, count |-> n,
                          candidate |-> 0, free |-> FALSE])
      BY <2>1 DEF ReadCounter
    <3> QED  BY <2>0, <3>1
  <2>2. CASE OpenWindow(t, i)
    <3> DEFINE moved == NewStart(call[t][i].start, call[t][i].count)
    <3>1. Window(moved) \subseteq Prefixes
      BY <2>2 DEF OpenWindow
    <3>2. PICK p \in Window(moved) : PickFrom(t, i, moved, p)
      BY <2>2 DEF OpenWindow
    <3> HIDE DEF moved
    <3>3. PICK n, free : Update(t, i, [pc |-> "picked", start |-> moved, count |-> n,
                                       candidate |-> p, free |-> free])
      BY <3>2 DEF PickFrom
    <3> QED  BY <2>0, <3>1, <3>3
  <2>3. CASE Take(t, i)
    <3>1. [call[t][i] EXCEPT !.pc = "done"].pc = "done"
      BY DEF TypeOK, CallState
    <3> QED  BY <2>0, <2>3, <3>1 DEF Take
  <2>4. CASE PickAgain(t, i)
    <3>1. PICK p \in Window(call[t][i].start) : PickFrom(t, i, call[t][i].start, p)
      BY <2>4 DEF PickAgain
    <3>2. PICK n, free : Update(t, i, [pc |-> "picked", start |-> call[t][i].start, count |-> n,
                                       candidate |-> p, free |-> free])
      BY <3>1 DEF PickFrom
    <3> QED  BY <2>0, <2>4, <3>2 DEF PickAgain
  <2> QED
    BY <1>1, <2>1, <2>2, <2>3, <2>4 DEF CallStep
<1>2. ASSUME NEW t \in Txns, Reset(t)
      PROVE  WindowInside'
  BY <1>2, ResetCall DEF IdleCall
<1> QED
  BY <1>1, <1>2 DEF Next, CommitStep, Commit, CommitConflict, CommitUnknown, Fault

LEMMA TypeStep == TypeInv /\ [Next]_vars => TypeInv'
<1> SUFFICES ASSUME TypeInv, [Next]_vars  PROVE TypeInv'
  OBVIOUS
<1>1. CASE Next
  BY <1>1, WindowInsideStep, ReadCounterType, OpenWindowType, TakeType, PickAgainType, EndType
     DEF Next, CallStep, TypeInv
<1>2. CASE UNCHANGED vars
  BY <1>2 DEF vars, storeVars, txVars, writeVars, TypeInv, TypeOK, WindowInside, Pc
<1> QED
  BY <1>1, <1>2

\* Every variable of the allocator, of its transactions and of the store stays
\* in its set, for all values of the constants.
THEOREM TypeCorrect == Spec => []TypeOK
<1>1. Init => TypeInv
  BY InitType DEF Init, TypeInv, WindowInside, Pc, IdleCall
<1>2. TypeInv => TypeOK
  BY DEF TypeInv
<1> QED
  BY <1>1, <1>2, TypeStep, PTL DEF Spec

-----------------------------------------------------------------------------
(* The inductive invariant.  "recent" forgets prefixes when the window     *)
(* moves, so that a prefix has been used can not be read off it: what is   *)
(* true is that a forgotten prefix lies before a window that is counted.   *)

\* What the store remembers of the prefixes handed out.
Remembered ==
  \A p \in Prefixes : issued[p] > 0 =>
    p \in recent \/ \E s \in Prefixes : s > p /\ counters[s] > 0

\* What an attempt knows of them, or will learn at its commit.
SeenOrDirty(t) ==
  \A p \in Prefixes : issued[p] > 0 =>
    p \in dirty[t] \/ p \in snapR[t] \/ \E s \in Prefixes : s > p /\ snapC[t][s] > 0

\* An attempt clears nothing without counting something behind it.
ClearedIsCounted(t) ==
  /\ clearedC[t] > 0 => \E s \in Prefixes : s >= clearedC[t] /\ addC[t][s] > 0
  /\ clearedR[t] > 0 => \E s \in Prefixes : s >= clearedR[t] /\ addC[t][s] > 0

\* An attempt whose snapshot reads do not see its own writes moves to one window only.
SameWindow(t) ==
  ~SnapshotRYW => \A s \in Prefixes : IsLast(snapC[t], s) => clearedR[t] <= NewStart(s, snapC[t][s])

\* The calls of an attempt run one after the other.
OneByOne(t) ==
  /\ t \notin active => clearedR[t] = 0
  /\ \A i \in Slots : Pc(t, i) # "idle" =>
       t \in active /\ \A j \in Slots : j < i => Pc(t, j) = "done"

\* The snapshot counts nothing behind prefix p.
Latest(t, p) == \A s \in Prefixes : snapC[t][s] > 0 => s <= p

CountedInv(t, i) ==
  LET start == call[t][i].start
      count == call[t][i].count
  IN Pc(t, i) = "counted" =>
       /\ Latest(t, start)
       /\ clearedR[t] <= NewStart(start, count)
       /\ ~SnapshotRYW => IsLast(snapC[t], start) /\ count = snapC[t][start]

PickedInv(t, i) ==
  LET start == call[t][i].start
      candidate == call[t][i].candidate
  IN Pc(t, i) = "picked" =>
       /\ Latest(t, start)
       /\ clearedR[t] <= start
       /\ start <= candidate
       /\ call[t][i].free => /\ candidate \notin setR[t]
                             /\ candidate \notin snapR[t]
                             /\ candidate \in checked[t]

DoneInv(t, i) ==
  LET candidate == call[t][i].candidate
  IN Pc(t, i) = "done" =>
       /\ Latest(t, candidate)
       /\ candidate \in checked[t]
       /\ candidate \notin snapR[t]
       /\ candidate \in setR[t] \/ candidate < clearedR[t]

CallInv(t, i) == CountedInv(t, i) /\ PickedInv(t, i) /\ DoneInv(t, i)

\* The calls of an attempt take different prefixes.
Distinct(t) ==
  \A i, j \in Slots :
    i < j /\ Pc(t, i) = "done" /\ Pc(t, j) = "done" => Candidate(t, i) # Candidate(t, j)

\* What is true of an attempt by itself.
OwnInv(t) ==
  /\ ClearedIsCounted(t)
  /\ SameWindow(t)
  /\ OneByOne(t)
  /\ \A i \in Slots : CallInv(t, i)
  /\ Distinct(t)

Inv ==
  /\ TypeInv
  /\ PrefixIssuedOnce
  /\ Remembered
  /\ \A t \in active : SeenOrDirty(t)
  /\ \A t \in Txns : OwnInv(t)

-----------------------------------------------------------------------------
(* Steps that leave an attempt alone, and the end of an attempt.           *)

OwnUnchanged(u) ==
  /\ UNCHANGED <<clearedC[u], addC[u], clearedR[u], setR[u], snapC[u], snapR[u],
                 checked[u], call[u]>>
  /\ u \in active' <=> u \in active

LEMMA OwnFrame ==
  ASSUME NEW u \in Txns, OwnInv(u), OwnUnchanged(u)
  PROVE  OwnInv(u)'
<1> USE DEF OwnUnchanged, Pc, Candidate
<1>1. ClearedIsCounted(u)'
  BY DEF OwnInv, ClearedIsCounted
<1>2. SameWindow(u)'
  BY DEF OwnInv, SameWindow
<1>3. OneByOne(u)'
  BY DEF OwnInv, OneByOne
<1>4. \A i \in Slots : CallInv(u, i)'
  BY DEF OwnInv, CallInv, CountedInv, PickedInv, DoneInv, Latest
<1>5. Distinct(u)'
  BY DEF OwnInv, Distinct
<1> QED
  BY <1>1, <1>2, <1>3, <1>4, <1>5 DEF OwnInv

LEMMA CallStepFrame ==
  ASSUME TypeOK, NEW t \in Txns, NEW i \in Slots, CallStep(t, i), NEW u \in Txns, u # t
  PROVE  OwnUnchanged(u)
<1> USE DEF TypeOK, OwnUnchanged, writeVars
<1>1. CASE ReadCounter(t, i)
  <2>1. call'[u] = call[u]
    BY <1>1 DEF ReadCounter, Update
  <2>2. UNCHANGED <<snapC[u], snapR[u]>> /\ (u \in active' <=> u \in active)
    BY <1>1 DEF ReadCounter
  <2> QED
    BY <1>1, <2>1, <2>2 DEF ReadCounter
<1>2. CASE OpenWindow(t, i)
  <2>1. UNCHANGED <<call[u], checked[u]>>
    BY <1>2 DEF OpenWindow, PickFrom, Update
  <2>2. UNCHANGED <<clearedC[u], addC[u], clearedR[u], setR[u]>>
    BY <1>2 DEF OpenWindow
  <2> QED
    BY <1>2, <2>1, <2>2 DEF OpenWindow
<1>3. CASE Take(t, i)
  BY <1>3 DEF Take, Update
<1>4. CASE PickAgain(t, i)
  <2>1. UNCHANGED <<call[u], checked[u]>>
    BY <1>4 DEF PickAgain, PickFrom, Update
  <2> QED
    BY <1>4, <2>1 DEF PickAgain
<1> QED
  BY <1>1, <1>2, <1>3, <1>4 DEF CallStep

LEMMA ResetFrame ==
  ASSUME TypeOK, NEW t \in Txns, Reset(t), NEW u \in Txns, u # t
  PROVE  OwnUnchanged(u)
BY DEF TypeOK, OwnUnchanged, Reset

LEMMA ResetOwn ==
  ASSUME TypeOK, TypeOK', NEW t \in Txns, Reset(t)
  PROVE  OwnInv(t)'
<1>1. clearedR'[t] = 0 /\ clearedC'[t] = 0
  BY DEF TypeOK, Reset
<1>2. \A i \in Slots : call'[t][i].pc = "idle"
  BY ResetCall DEF IdleCall
<1>3. SameWindow(t)'
  <2>1. \A s \in Prefixes : s \in Nat
    BY BoundsAssumption DEF Prefixes
  <2>2. snapC'[t] \in CounterMap
    BY DEF TypeOK
  <2>3. \A s \in Prefixes : snapC'[t][s] \in Nat
    BY <2>2 DEF CounterMap
  <2> QED
    BY <1>1, <2>1, <2>3, NewStartForward DEF SameWindow
<1> QED
  BY <1>1, <1>2, <1>3 DEF OwnInv, ClearedIsCounted, OneByOne, CallInv, CountedInv, PickedInv,
                          DoneInv, Distinct, Pc

-----------------------------------------------------------------------------
(* The steps of a call, in the attempt it belongs to.                      *)

\* While a call is at work those before it are done and those after it idle.
LEMMA OthersRest ==
  ASSUME TypeOK, NEW t \in Txns, NEW i \in Slots, OneByOne(t),
         \/ Pc(t, i) = "counted"
         \/ Pc(t, i) = "picked"
         \/ Pc(t, i) = "idle" /\ \A j \in Slots : j < i => Pc(t, j) = "done"
  PROVE  \A j \in Slots : /\ j < i => Pc(t, j) = "done"
                          /\ j > i => Pc(t, j) = "idle"
BY DEF OneByOne, Slots

\* What the other calls of the attempt need of a step of call i.
LEMMA OthersKept ==
  ASSUME TypeOK, NEW t \in Txns, NEW i \in Slots, OwnInv(t),
         \A j \in Slots : /\ j < i => Pc(t, j) = "done"
                          /\ j > i => Pc(t, j) = "idle",
         \A j \in Slots : j # i => call'[t][j] = call[t][j],
         t \in active => UNCHANGED <<snapC[t], snapR[t]>>,
         checked[t] \subseteq checked'[t],
         \A p \in setR[t] : p \in setR'[t] \/ p < clearedR'[t],
         clearedR[t] <= clearedR'[t], clearedR'[t] \in Nat
  PROVE  \A j \in Slots : j # i => CallInv(t, j)'
<1> SUFFICES ASSUME NEW j \in Slots, j # i  PROVE CallInv(t, j)'
  OBVIOUS
<1>1. CASE j > i
  BY <1>1 DEF CallInv, CountedInv, PickedInv, DoneInv, Pc
<1>2. CASE j < i
  <2>1. call'[t][j] = call[t][j] /\ call[t][j].pc = "done" /\ t \in active
    BY <1>2 DEF OwnInv, OneByOne, Pc
  <2>2. DoneInv(t, j)
    BY DEF OwnInv, CallInv
  <2>3. call[t][j].candidate \in Nat /\ clearedR[t] \in Nat
    BY BoundsAssumption DEF TypeOK, CallState, Prefixes
  <2>4. DoneInv(t, j)'
    BY <2>1, <2>2, <2>3 DEF DoneInv, Latest, Pc
  <2> QED
    BY <2>1, <2>4 DEF CallInv, CountedInv, PickedInv, Pc
<1> QED
  BY <1>1, <1>2 DEF Slots

\* No other call of the attempt becomes done.
LEMMA DistinctKept ==
  ASSUME NEW t \in Txns, NEW i \in Slots, Distinct(t), call'[t][i].pc # "done",
         \A j \in Slots : j # i => call'[t][j] = call[t][j]
  PROVE  Distinct(t)'
BY DEF Distinct, Pc, Candidate

\* The last key of a counter map.
LEMMA LastIsLatest ==
  ASSUME NEW c \in CounterMap, NEW s \in Prefixes, IsLast(c, s), NEW x \in Prefixes, c[x] > 0
  PROVE  x <= s
BY BoundsAssumption DEF CounterMap, IsLast, Prefixes

LEMMA LastUnique ==
  ASSUME NEW c \in CounterMap, NEW s \in Prefixes, IsLast(c, s), NEW x \in Prefixes, IsLast(c, x)
  PROVE  x = s
BY BoundsAssumption DEF CounterMap, IsLast, Prefixes

LEMMA TakeOwn ==
  ASSUME TypeOK, NEW t \in Txns, NEW i \in Slots, OwnInv(t), Take(t, i)
  PROVE  OwnInv(t)'
<1> DEFINE candidate == call[t][i].candidate
<1>1. /\ UNCHANGED <<active, snapC, snapR, checked, clearedC, addC, clearedR>>
      /\ setR'[t] = setR[t] \cup {candidate}
  BY DEF TypeOK, Take
<1>2. /\ call'[t][i] = [call[t][i] EXCEPT !.pc = "done"]
      /\ \A j \in Slots : j # i => call'[t][j] = call[t][j]
  BY UpdateCall DEF Take
<1>3. Pc(t, i) = "picked" /\ call[t][i].free /\ call[t][i] \in CallState
  BY DEF TypeOK, Take, Pc
<1>4. call'[t][i].pc = "done" /\ call'[t][i].candidate = candidate
  BY <1>2, <1>3 DEF CallState
<1>5. OneByOne(t)
  BY DEF OwnInv
<1>6. \A j \in Slots : (j < i => Pc(t, j) = "done") /\ (j > i => Pc(t, j) = "idle")
  BY <1>3, <1>5, OthersRest
<1>7. PickedInv(t, i)
  BY DEF OwnInv, CallInv
<1>8. candidate \in Nat /\ call[t][i].start \in Nat /\ clearedR[t] \in Nat
  BY <1>3, BoundsAssumption DEF TypeOK, CallState, Prefixes
<1>9. ClearedIsCounted(t)' /\ SameWindow(t)'
  BY <1>1 DEF OwnInv, ClearedIsCounted, SameWindow
<1>10. OneByOne(t)'
  BY <1>1, <1>2, <1>3, <1>5, <1>6 DEF OneByOne, Pc, Slots
<1>11. \A j \in Slots : j # i => CallInv(t, j)'
  BY <1>1, <1>2, <1>6, <1>8, OthersKept
<1>12. CallInv(t, i)'
  <2>1. \A s \in Prefixes : snapC[t][s] > 0 => s <= candidate
    <3>1. \A s \in Prefixes : s \in Nat
      BY BoundsAssumption DEF Prefixes
    <3> QED
      BY <1>3, <1>7, <1>8, <3>1 DEF PickedInv, Latest
  <2>2. DoneInv(t, i)'
    <3>1. candidate \in setR'[t] /\ candidate \in checked'[t] /\ candidate \notin snapR'[t]
      BY <1>1, <1>3, <1>7 DEF PickedInv
    <3>2. \A s \in Prefixes : snapC'[t][s] > 0 => s <= candidate
      BY <1>1, <2>1
    <3> HIDE DEF candidate
    <3> QED
      BY <1>4, <3>1, <3>2 DEF DoneInv, Latest
  <2> QED
    BY <1>4, <2>2 DEF CallInv, CountedInv, PickedInv, Pc
<1>13. Distinct(t)'
  <2>1. \A j \in Slots : j < i => Candidate(t, j) # candidate
    <3> SUFFICES ASSUME NEW j \in Slots, j < i  PROVE Candidate(t, j) # candidate
      OBVIOUS
    <3>1. Candidate(t, j) \in setR[t] \/ Candidate(t, j) < clearedR[t]
      BY <1>6 DEF OwnInv, CallInv, DoneInv, Candidate
    <3>2. candidate \notin setR[t] /\ clearedR[t] <= candidate
      BY <1>3, <1>7, <1>8 DEF PickedInv
    <3> QED
      BY <1>8, <3>1, <3>2
  <2>2. Distinct(t)
    BY DEF OwnInv
  <2> SUFFICES ASSUME NEW j \in Slots, NEW k \in Slots, j < k,
                      call'[t][j].pc = "done", call'[t][k].pc = "done"
               PROVE  call'[t][j].candidate # call'[t][k].candidate
    BY DEF Distinct, Pc, Candidate
  <2>3. k <= i
    BY <1>2, <1>6 DEF Slots, Pc
  <2>4. CASE k = i
    BY <1>2, <1>4, <2>1, <2>4 DEF Candidate, Slots
  <2>5. CASE k < i
    BY <1>2, <1>6, <2>2, <2>5 DEF Distinct, Candidate, Pc, Slots
  <2> QED
    BY <2>3, <2>4, <2>5 DEF Slots
<1> QED
  BY <1>9, <1>10, <1>11, <1>12, <1>13 DEF OwnInv

\* A candidate in front of everything the attempt has cleared is read, and checked at
\* commit, or known to be taken by the attempt itself.
LEMMA PickFromOwn ==
  ASSUME TypeOK, NEW t \in Txns, NEW i \in Slots, NEW start \in Nat, NEW p \in Nat,
         start <= p, clearedR'[t] \in Nat, clearedR'[t] <= start,
         PickFrom(t, i, start, p), UNCHANGED snapR
  PROVE  /\ call'[t][i].pc = "picked"
         /\ call'[t][i].start = start
         /\ call'[t][i].candidate = p
         /\ call'[t][i].free => p \notin setR'[t] /\ p \notin snapR'[t] /\ p \in checked'[t]
         /\ checked[t] \subseteq checked'[t]
         /\ \A j \in Slots : j # i => call'[t][j] = call[t][j]
<1> DEFINE free == IF p \in setR'[t] \/ p < clearedR'[t] THEN p \notin setR'[t] ELSE p \notin snapR[t]
<1>1. /\ Update(t, i, [pc |-> "picked", start |-> start, count |-> call[t][i].count,
                       candidate |-> p, free |-> free])
      /\ checked' = IF p \in setR'[t] \/ p < clearedR'[t] THEN checked
                    ELSE [checked EXCEPT ![t] = @ \cup {p}]
  BY DEF PickFrom
<1>2. free => p \notin setR'[t] /\ ~(p < clearedR'[t]) /\ p \notin snapR[t]
  OBVIOUS
<1>3. checked'[t] = IF p \in setR'[t] \/ p < clearedR'[t] THEN checked[t] ELSE checked[t] \cup {p}
  BY <1>1 DEF TypeOK
<1> HIDE DEF free
<1>4. /\ call'[t][i] = [pc |-> "picked", start |-> start, count |-> call[t][i].count,
                        candidate |-> p, free |-> free]
      /\ \A j \in Slots : j # i => call'[t][j] = call[t][j]
  BY <1>1, UpdateCall
<1> QED
  BY <1>2, <1>3, <1>4

\* What is left to show of a step to "picked", whichever window it comes from.
LEMMA PickedOwn ==
  ASSUME TypeOK, NEW t \in Txns, NEW i \in Slots, OwnInv(t), NEW start \in Nat, NEW p \in Nat,
         \/ Pc(t, i) = "counted"
         \/ Pc(t, i) = "picked",
         start <= p, clearedR'[t] \in Nat, clearedR'[t] <= start, clearedR[t] <= clearedR'[t],
         \A q \in setR[t] : q \in setR'[t] \/ q < clearedR'[t],
         PickFrom(t, i, start, p), UNCHANGED <<active, snapC, snapR>>, Latest(t, start)
  PROVE  OneByOne(t)' /\ (\A j \in Slots : CallInv(t, j)') /\ Distinct(t)'
<1>1. /\ call'[t][i].pc = "picked"
      /\ call'[t][i].start = start
      /\ call'[t][i].candidate = p
      /\ call'[t][i].free => p \notin setR'[t] /\ p \notin snapR'[t] /\ p \in checked'[t]
      /\ checked[t] \subseteq checked'[t]
      /\ \A j \in Slots : j # i => call'[t][j] = call[t][j]
  BY PickFromOwn
<1>2. \A j \in Slots : (j < i => Pc(t, j) = "done") /\ (j > i => Pc(t, j) = "idle")
  BY OthersRest DEF OwnInv
<1>3. OneByOne(t)'
  <2>1. t \in active
    BY DEF OwnInv, OneByOne
  <2> QED
    BY <1>1, <1>2, <2>1 DEF OwnInv, OneByOne, Pc, Slots
<1>4. \A j \in Slots : j # i => CallInv(t, j)'
  BY <1>1, <1>2, OthersKept
<1>5. PickedInv(t, i)'
  BY <1>1 DEF PickedInv, Latest
<1>6. CallInv(t, i)'
  BY <1>1, <1>5 DEF CallInv, CountedInv, DoneInv, Pc
<1>7. Distinct(t)'
  BY <1>1, DistinctKept DEF OwnInv
<1> QED
  BY <1>3, <1>4, <1>6, <1>7

LEMMA PickAgainOwn ==
  ASSUME TypeOK, NEW t \in Txns, NEW i \in Slots, OwnInv(t), PickAgain(t, i)
  PROVE  OwnInv(t)'
<1>1. PICK p \in Window(call[t][i].start) : PickFrom(t, i, call[t][i].start, p)
  BY DEF PickAgain
<1>2. /\ UNCHANGED <<active, snapC, snapR, clearedC, addC, clearedR, setR>>
      /\ Pc(t, i) = "picked"
  BY DEF PickAgain, writeVars, Pc
<1>3. call[t][i].start \in Nat /\ clearedR[t] \in Nat
  BY BoundsAssumption DEF TypeOK, CallState, Prefixes
<1>4. p \in Nat /\ call[t][i].start <= p
  BY <1>1, <1>3, WindowSize DEF Window
<1>5. Latest(t, call[t][i].start) /\ clearedR[t] <= call[t][i].start
  BY <1>2 DEF OwnInv, CallInv, PickedInv
<1>6. OneByOne(t)' /\ (\A j \in Slots : CallInv(t, j)') /\ Distinct(t)'
  BY <1>1, <1>2, <1>3, <1>4, <1>5, PickedOwn
<1> QED
  BY <1>2, <1>6 DEF OwnInv, ClearedIsCounted, SameWindow

LEMMA OpenWindowOwn ==
  ASSUME TypeOK, NEW t \in Txns, NEW i \in Slots, OwnInv(t), OpenWindow(t, i)
  PROVE  OwnInv(t)'
<1>0. PICK start, count, moved : /\ start = call[t][i].start
                                 /\ count = call[t][i].count
                                 /\ moved = NewStart(start, count)
  OBVIOUS
<1>1. /\ Pc(t, i) = "counted"
      /\ UNCHANGED <<active, snapC, snapR>>
      /\ Window(moved) \subseteq Prefixes
  BY <1>0 DEF OpenWindow, Pc
<1>2. PICK p \in Window(moved) : PickFrom(t, i, moved, p)
  BY <1>0 DEF OpenWindow
<1>3. start \in Prefixes /\ start \in Nat /\ count \in Nat /\ clearedR[t] \in Nat /\ clearedC[t] \in Nat
  BY <1>0, BoundsAssumption DEF TypeOK, CallState, Prefixes
<1>4. moved \in Nat /\ start <= moved
  BY <1>0, <1>3, NewStartForward
<1>5. p \in Nat /\ moved <= p /\ moved \in Prefixes
  <2>1. windowSize(moved) \in Nat \ {0}
    BY <1>4, WindowSize
  <2> QED
    BY <1>1, <1>2, <1>4, <2>1 DEF Window
<1>6. /\ Latest(t, start)
      /\ clearedR[t] <= moved
      /\ ~SnapshotRYW => IsLast(snapC[t], start) /\ count = snapC[t][start]
  BY <1>0, <1>1 DEF OwnInv, CallInv, CountedInv
<1>7. Latest(t, moved)
  <2>1. \A s \in Prefixes : s \in Nat
    BY BoundsAssumption DEF Prefixes
  <2> QED
    BY <1>3, <1>4, <1>6, <2>1 DEF Latest
<1>8. addC[t] \in CounterMap
  BY DEF TypeOK
<1>9. /\ clearedR'[t] \in Nat /\ clearedR[t] <= clearedR'[t] /\ clearedR'[t] <= moved
      /\ \A q \in setR[t] : q \in setR'[t] \/ q < clearedR'[t]
      /\ ClearedIsCounted(t)'
  <2>1. CASE Full(start, count)
    <3>1. /\ clearedC'[t] = Larger(clearedC[t], start + 1)
          /\ clearedR'[t] = Larger(clearedR[t], moved)
          /\ setR'[t] = {q \in setR[t] : q >= moved}
          /\ addC'[t] = Counted([s \in Prefixes |-> IF s < start + 1 THEN 0 ELSE addC[t][s]], moved)
      BY <1>0, <2>1 DEF OpenWindow, TypeOK, ClearedEnd
    <3>2. clearedR'[t] = moved
      BY <1>3, <1>4, <1>6, <3>1 DEF Larger
    <3>3. moved > start
      BY <1>0, <1>3, <2>1, WindowSize DEF NewStart
    <3>4. addC'[t][moved] > 0 /\ \A s \in Prefixes : s > start => addC'[t][s] >= addC[t][s]
      <4>1. \A s \in Prefixes : addC[t][s] \in Nat /\ s \in Nat
        BY <1>8, BoundsAssumption DEF CounterMap, Prefixes
      <4> QED
        BY <1>3, <1>4, <1>5, <3>1, <3>3, <4>1 DEF Counted
    <3>5. clearedC'[t] > 0 => \E s \in Prefixes : s >= clearedC'[t] /\ addC'[t][s] > 0
      <4>1. CASE clearedC[t] > start + 1
        <5>1. PICK s \in Prefixes : s >= clearedC[t] /\ addC[t][s] > 0
          BY <1>3, <4>1 DEF OwnInv, ClearedIsCounted
        <5>2. addC[t][s] \in Nat /\ s \in Nat /\ addC'[t][s] \in Int
          BY <1>8, BoundsAssumption, <3>1 DEF CounterMap, Prefixes, Counted
        <5>3. s > start /\ addC'[t][s] >= addC[t][s]
          BY <1>3, <3>4, <4>1, <5>1, <5>2
        <5> QED
          BY <1>3, <3>1, <4>1, <5>1, <5>2, <5>3 DEF Larger
      <4>2. CASE ~(clearedC[t] > start + 1)
        <5>1. clearedC'[t] = start + 1
          BY <1>3, <3>1, <4>2 DEF Larger
        <5>2. moved >= clearedC'[t] /\ addC'[t][moved] > 0
          BY <1>3, <1>4, <3>3, <3>4, <5>1
        <5> QED
          BY <1>5, <5>2
      <4> QED
        BY <4>1, <4>2
    <3>6. clearedR'[t] > 0 => \E s \in Prefixes : s >= clearedR'[t] /\ addC'[t][s] > 0
      BY <1>4, <1>5, <3>2, <3>4
    <3>7. ClearedIsCounted(t)'
      BY <3>5, <3>6 DEF ClearedIsCounted
    <3>8. \A q \in setR[t] : q \in setR'[t] \/ q < clearedR'[t]
      <4>1. \A q \in setR[t] : q \in Nat
        BY BoundsAssumption DEF TypeOK, Prefixes
      <4> QED
        BY <1>4, <3>1, <3>2, <4>1
    <3> QED
      BY <1>3, <1>4, <1>6, <3>2, <3>7, <3>8
  <2>2. CASE ~Full(start, count)
    <3>1. UNCHANGED <<clearedC, clearedR, setR>> /\ addC'[t] = Counted(addC[t], moved)
      BY <1>0, <2>2 DEF OpenWindow, TypeOK
    <3>2. \A s \in Prefixes : addC[t][s] > 0 => addC'[t][s] > 0
      BY <1>5, <1>8, <3>1 DEF Counted, CounterMap
    <3>3. ClearedIsCounted(t)
      BY DEF OwnInv
    <3>4. ClearedIsCounted(t)'
      BY <3>1, <3>2, <3>3 DEF ClearedIsCounted
    <3> QED
      BY <1>3, <1>6, <3>1, <3>4
  <2> QED
    BY <2>1, <2>2
<1>10. SameWindow(t)'
  <2> SUFFICES ASSUME ~SnapshotRYW, NEW s \in Prefixes, IsLast(snapC[t], s)
               PROVE  clearedR'[t] <= NewStart(s, snapC[t][s])
    BY <1>1 DEF SameWindow
  <2>1. snapC[t] \in CounterMap
    BY DEF TypeOK
  <2>2. s = start
    BY <1>3, <1>6, <2>1, LastUnique
  <2> QED
    BY <1>0, <1>6, <1>9, <2>2
<1>11. OneByOne(t)' /\ (\A j \in Slots : CallInv(t, j)') /\ Distinct(t)'
  BY <1>1, <1>2, <1>4, <1>5, <1>7, <1>9, PickedOwn
<1> QED
  BY <1>9, <1>10, <1>11 DEF OwnInv

LEMMA ReadCounterOwn ==
  ASSUME ~Concurrent, TypeOK, TypeOK', NEW t \in Txns, NEW i \in Slots, OwnInv(t), ReadCounter(t, i)
  PROVE  OwnInv(t)'
<1>0. PICK c : c = IF SnapshotRYW THEN ApplyC(t, snapC'[t]) ELSE snapC'[t]
  OBVIOUS
<1>1. PICK start \in Prefixes :
        /\ IsLast(c, start)
        /\ Update(t, i, [pc |-> "counted", start |-> start, count |-> c[start],
                         candidate |-> 0, free |-> FALSE])
  BY <1>0 DEF ReadCounter
<1>2. /\ active' = active \cup {t}
      /\ t \in active => UNCHANGED <<snapC, snapR>>
      /\ UNCHANGED <<checked, clearedC, addC, clearedR, setR>>
  BY DEF ReadCounter, writeVars
<1>3. /\ Pc(t, i) = "idle"
      /\ \A j \in Slots : j < i => Pc(t, j) = "done"
  BY DEF ReadCounter, Pc
<1>4. \A j \in Slots : (j < i => Pc(t, j) = "done") /\ (j > i => Pc(t, j) = "idle")
  BY <1>3, OthersRest DEF OwnInv
<1>5. /\ call'[t][i].pc = "counted"
      /\ call'[t][i].start = start
      /\ call'[t][i].count = c[start]
      /\ \A j \in Slots : j # i => call'[t][j] = call[t][j]
  BY <1>1, UpdateCall
<1>6. /\ snapC'[t] \in CounterMap /\ addC[t] \in CounterMap
      /\ clearedC[t] \in Nat /\ clearedR[t] \in Nat /\ start \in Nat
      /\ \A s \in Prefixes : s \in Nat
      /\ \A s \in Prefixes : snapC'[t][s] \in Nat
      /\ \A s \in Prefixes : addC[t][s] \in Nat
  <2>1. snapC'[t] \in CounterMap /\ addC[t] \in CounterMap
    BY DEF TypeOK
  <2>2. clearedC[t] \in Nat /\ clearedR[t] \in Nat
    BY DEF TypeOK
  <2>3. \A s \in Prefixes : s \in Nat
    BY BoundsAssumption DEF Prefixes
  <2> QED
    BY <2>1, <2>2, <2>3 DEF CounterMap
<1>7. c \in CounterMap
  BY <1>0, <1>6 DEF ApplyC, CounterMap
<1>8. SnapshotRYW => \A s \in Prefixes : c[s] = (IF s < clearedC[t] THEN 0 ELSE snapC'[t][s]) + addC[t][s]
  BY <1>0 DEF ApplyC
<1>9. ClearedIsCounted(t) /\ SameWindow(t) /\ OneByOne(t)
  BY DEF OwnInv
<1>10. \A s \in Prefixes : snapC'[t][s] > 0 => s <= start
  <2> SUFFICES ASSUME NEW s \in Prefixes, snapC'[t][s] > 0  PROVE s <= start
    OBVIOUS
  <2>0. s \in Nat /\ clearedC[t] \in Nat /\ snapC'[t][s] \in Nat /\ addC[t][s] \in Nat
    BY <1>6
  <2>1. CASE ~SnapshotRYW
    BY <1>0, <1>1, <1>7, <2>1, LastIsLatest
  <2>2. CASE SnapshotRYW /\ s >= clearedC[t]
    <3>0. c[s] = (IF s < clearedC[t] THEN 0 ELSE snapC'[t][s]) + addC[t][s]
      BY <1>8, <2>2
    <3>1. c[s] > 0
      BY <2>0, <2>2, <3>0
    <3> QED
      BY <1>1, <1>7, <3>1, LastIsLatest
  <2>3. CASE SnapshotRYW /\ s < clearedC[t]
    <3>1. PICK x \in Prefixes : x >= clearedC[t] /\ addC[t][x] > 0
      BY <1>6, <1>9, <2>3 DEF ClearedIsCounted
    <3>2. c[x] > 0
      BY <1>6, <1>8, <2>3, <3>1
    <3>3. x <= start
      BY <1>1, <1>7, <3>2, LastIsLatest
    <3>4. x \in Nat /\ s \in Nat /\ start \in Nat /\ clearedC[t] \in Nat
      BY <1>6
    <3> QED
      BY <2>3, <3>1, <3>3, <3>4
  <2>4. s >= clearedC[t] \/ s < clearedC[t]
    BY <2>0
  <2> QED
    BY <2>1, <2>2, <2>3, <2>4
<1>11. SameWindow(t)'
  <2>1. CASE t \in active
    BY <1>2, <1>9, <2>1 DEF SameWindow
  <2>2. CASE t \notin active
    <3>1. clearedR'[t] = 0
      BY <1>2, <1>9, <2>2 DEF OneByOne
    <3>2. \A s \in Prefixes : NewStart(s, snapC'[t][s]) \in Nat
      BY <1>6, NewStartForward
    <3> QED
      BY <3>1, <3>2 DEF SameWindow
  <2> QED
    BY <2>1, <2>2
<1>12. clearedR[t] <= NewStart(start, c[start])
  <2>0. NewStart(start, c[start]) \in Nat /\ NewStart(start, c[start]) >= start
    BY <1>6, <1>7, NewStartForward DEF CounterMap
  <2>1. CASE ~SnapshotRYW
    BY <1>0, <1>1, <1>2, <1>11, <2>1 DEF SameWindow
  <2>2. CASE SnapshotRYW /\ clearedR[t] > 0
    <3>1. PICK x \in Prefixes : x >= clearedR[t] /\ addC[t][x] > 0
      BY <1>9, <2>2 DEF ClearedIsCounted
    <3>2. c[x] > 0
      BY <1>6, <1>8, <2>2, <3>1
    <3>3. x <= start
      BY <1>1, <1>7, <3>2, LastIsLatest
    <3> QED
      BY <1>6, <2>0, <3>1, <3>3
  <2>3. CASE clearedR[t] = 0
    BY <2>0, <2>3
  <2> QED
    BY <1>6, <2>1, <2>2, <2>3
<1>13. CountedInv(t, i)'
  <2>1. ~SnapshotRYW => c = snapC'[t]
    BY <1>0
  <2> QED
    BY <1>1, <1>2, <1>5, <1>10, <1>12, <2>1 DEF CountedInv, Latest
<1>14. CallInv(t, i)'
  BY <1>5, <1>13 DEF CallInv, PickedInv, DoneInv, Pc
<1>15. \A j \in Slots : j # i => CallInv(t, j)'
  BY <1>2, <1>4, <1>5, <1>6, OthersKept
<1>16. ClearedIsCounted(t)'
  BY <1>2, <1>9 DEF ClearedIsCounted
<1>17. OneByOne(t)'
  BY <1>2, <1>4, <1>5, <1>9 DEF OneByOne, Pc, Slots
<1>18. Distinct(t)'
  BY <1>5, DistinctKept DEF OwnInv
<1> QED
  BY <1>11, <1>14, <1>15, <1>16, <1>17, <1>18 DEF OwnInv

LEMMA CallStepOwn ==
  ASSUME ~Concurrent, TypeOK, TypeOK', NEW t \in Txns, NEW i \in Slots, OwnInv(t), CallStep(t, i)
  PROVE  OwnInv(t)'
BY ReadCounterOwn, OpenWindowOwn, TakeOwn, PickAgainOwn DEF CallStep

-----------------------------------------------------------------------------
(* What the store and the attempts know of the prefixes handed out.        *)

LEMMA CallStepSeen ==
  ASSUME TypeOK, Remembered, NEW t \in Txns, NEW i \in Slots, CallStep(t, i),
         \A u \in active : SeenOrDirty(u)
  PROVE  /\ UNCHANGED storeVars
         /\ \A u \in active' : SeenOrDirty(u)'
<1>1. UNCHANGED storeVars /\ UNCHANGED dirty
  BY DEF CallStep, ReadCounter, OpenWindow, Take, PickAgain
<1>2. ASSUME NEW u \in active, UNCHANGED <<snapC[u], snapR[u]>>
      PROVE  SeenOrDirty(u)'
  BY <1>1, <1>2 DEF SeenOrDirty, storeVars
<1>3. CASE ReadCounter(t, i) /\ t \notin active
  <2>1. /\ active' = active \cup {t}
        /\ snapC' = [snapC EXCEPT ![t] = counters]
        /\ snapR' = [snapR EXCEPT ![t] = recent]
    BY <1>3 DEF ReadCounter
  <2>2. snapC'[t] = counters /\ snapR'[t] = recent
    BY <2>1 DEF TypeOK
  <2>3. SeenOrDirty(t)'
    BY <1>1, <2>2 DEF SeenOrDirty, Remembered, storeVars
  <2>4. \A u \in active : UNCHANGED <<snapC[u], snapR[u]>>
    BY <1>3, <2>1 DEF TypeOK
  <2> QED
    BY <1>1, <1>2, <2>1, <2>3, <2>4
<1>4. CASE ReadCounter(t, i) /\ t \in active
  BY <1>1, <1>2, <1>4 DEF ReadCounter
<1>5. CASE OpenWindow(t, i) \/ Take(t, i) \/ PickAgain(t, i)
  BY <1>1, <1>2, <1>5 DEF OpenWindow, Take, PickAgain
<1> QED
  BY <1>3, <1>4, <1>5 DEF CallStep

\* A commit without a conflict hands out prefixes that were never handed out.
LEMMA CommitIsNew ==
  ASSUME TypeOK, NEW t \in active, OwnInv(t), SeenOrDirty(t), AllDone(t), ~Conflict(t),
         NEW i \in Slots
  PROVE  issued[Candidate(t, i)] = 0
<1> DEFINE p == Candidate(t, i)
<1>1. p \in Prefixes /\ t \in Txns /\ issued[p] \in Nat
  BY DEF TypeOK, CallState, Candidate
<1>2. DoneInv(t, i) /\ Pc(t, i) = "done"
  BY <1>1 DEF OwnInv, CallInv, AllDone, Pc
<1>3. p \in checked[t] /\ p \notin snapR[t] /\ Latest(t, p)
  BY <1>2 DEF DoneInv, Candidate
<1>4. p \notin dirty[t]
  BY <1>3 DEF Conflict
<1>5. ~ \E s \in Prefixes : s > p /\ snapC[t][s] > 0
  <2>1. \A s \in Prefixes : s \in Nat
    BY BoundsAssumption DEF Prefixes
  <2> QED
    BY <1>1, <1>3, <2>1 DEF Latest
<1> QED
  BY <1>1, <1>3, <1>4, <1>5 DEF SeenOrDirty

\* How many calls of an attempt took a prefix.
LEMMA TakenOnce ==
  ASSUME TypeOK, NEW t \in Txns, OwnInv(t), AllDone(t), NEW p \in Prefixes
  PROVE  /\ Cardinality({i \in Slots : call[t][i].candidate = p}) \in {0, 1}
         /\ Cardinality({i \in Slots : call[t][i].candidate = p}) = 1
              => \E i \in Slots : Candidate(t, i) = p
<1> DEFINE S == {i \in Slots : call[t][i].candidate = p}
<1>1. CASE S = {}
  BY <1>1, FS_EmptySet
<1>2. ASSUME NEW i \in S  PROVE S = {i}
  <2> SUFFICES ASSUME NEW j \in S, j # i  PROVE FALSE
    OBVIOUS
  <2>1. i < j \/ j < i
    BY DEF Slots
  <2> QED
    BY <2>1 DEF OwnInv, Distinct, AllDone, Pc, Candidate
<1>3. CASE S # {}
  <2>1. PICK i \in S : TRUE
    BY <1>3
  <2>2. Cardinality(S) = 1
    BY <1>2, <2>1, FS_Singleton
  <2> QED
    BY <2>1, <2>2 DEF Candidate
<1> QED
  BY <1>1, <1>3

LEMMA AllDoneActive ==
  ASSUME NEW t \in Txns, OwnInv(t), AllDone(t)
  PROVE  t \in active
<1>1. 1 \in Slots
  BY CallsAssumption DEF Slots
<1> QED
  BY <1>1 DEF OwnInv, OneByOne, AllDone, Pc

LEMMA ApplyStore ==
  ASSUME Inv, NEW t \in Txns, AllDone(t), ~Conflict(t), Apply(t), Reset(t)
  PROVE  /\ PrefixIssuedOnce'
         /\ Remembered'
         /\ \A u \in active' : SeenOrDirty(u)'
<1> DEFINE taken(p) == Cardinality({i \in Slots : call[t][i].candidate = p})
<1>1. TypeOK /\ OwnInv(t) /\ t \in active /\ SeenOrDirty(t)
  BY AllDoneActive DEF Inv, TypeInv
<1>2. \A p \in Prefixes :
        /\ issued[p] \in Nat /\ issued'[p] = issued[p] + taken(p)
        /\ taken(p) \in {0, 1}
        /\ taken(p) = 1 => (\E i \in Slots : Candidate(t, i) = p) /\ issued[p] = 0
  BY <1>1, TakenOnce, CommitIsNew DEF Apply, TypeOK
<1> HIDE DEF taken
<1>3. ASSUME NEW p \in Prefixes, issued'[p] > 0
      PROVE  issued[p] > 0 \/ \E i \in Slots : Candidate(t, i) = p
  BY <1>2, <1>3
<1>4. PrefixIssuedOnce'
  BY <1>2 DEF Inv, PrefixIssuedOnce
<1>5. \A i \in Slots : /\ Candidate(t, i) \in Prefixes
                       /\ Candidate(t, i) \in setR[t] \/ Candidate(t, i) < clearedR[t]
  <2>1. \A i \in Slots : DoneInv(t, i) /\ Pc(t, i) = "done"
    BY <1>1 DEF OwnInv, CallInv, AllDone, Pc
  <2> QED
    BY <1>1, <2>1 DEF DoneInv, Candidate, TypeOK, CallState
<1>6. /\ \A s \in Prefixes : s \in Nat
      /\ \A s \in Prefixes : counters[s] \in Nat
      /\ \A s \in Prefixes : addC[t][s] \in Nat
      /\ clearedC[t] \in Nat /\ clearedR[t] \in Nat
  BY <1>1, BoundsAssumption DEF TypeOK, CounterMap, Prefixes
<1>7. \A s \in Prefixes : counters'[s] = (IF s < clearedC[t] THEN 0 ELSE counters[s]) + addC[t][s]
  BY DEF Apply, ApplyC
<1>8. recent' = {p \in recent : p >= clearedR[t]} \cup setR[t]
  BY DEF Apply, ApplyR
\* A prefix before what the attempt clears lies before a window it counts.
<1>9. ASSUME NEW p \in Prefixes, p < clearedR[t] \/ p < clearedC[t]
      PROVE  \E s \in Prefixes : s > p /\ counters'[s] > 0
  <2>1. PICK s \in Prefixes : s > p /\ addC[t][s] > 0
    <3>1. ClearedIsCounted(t)
      BY <1>1 DEF OwnInv
    <3>2. p \in Nat
      BY <1>6
    <3>3. CASE p < clearedR[t]
      <4>1. PICK s \in Prefixes : s >= clearedR[t] /\ addC[t][s] > 0
        BY <1>6, <3>1, <3>2, <3>3 DEF ClearedIsCounted
      <4>2. s \in Nat
        BY <1>6
      <4> QED
        BY <1>6, <3>2, <3>3, <4>1, <4>2
    <3>4. CASE p < clearedC[t]
      <4>1. PICK s \in Prefixes : s >= clearedC[t] /\ addC[t][s] > 0
        BY <1>6, <3>1, <3>2, <3>4 DEF ClearedIsCounted
      <4>2. s \in Nat
        BY <1>6
      <4> QED
        BY <1>6, <3>2, <3>4, <4>1, <4>2
    <3> QED
      BY <1>9, <3>3, <3>4
  <2>2. counters[s] \in Nat /\ addC[t][s] \in Nat /\ s \in Nat
    BY <1>6
  <2>3. counters'[s] > 0
    BY <1>7, <2>1, <2>2
  <2> QED
    BY <2>1, <2>3
<1>10. Remembered'
  <2> SUFFICES ASSUME NEW p \in Prefixes, issued'[p] > 0, p \notin recent'
               PROVE  \E s \in Prefixes : s > p /\ counters'[s] > 0
    BY DEF Remembered
  <2>0. p \in Nat
    BY <1>6
  <2>1. CASE \E i \in Slots : Candidate(t, i) = p
    BY <1>5, <1>8, <1>9, <2>1
  <2>2. CASE issued[p] > 0 /\ p \in recent
    <3>1. p < clearedR[t]
      BY <1>6, <1>8, <2>0, <2>2
    <3> QED
      BY <1>9, <3>1
  <2>3. CASE issued[p] > 0 /\ p \notin recent
    <3>1. PICK s \in Prefixes : s > p /\ counters[s] > 0
      BY <2>3 DEF Inv, Remembered
    <3>2. s \in Nat /\ counters[s] \in Nat /\ addC[t][s] \in Nat
      BY <1>6
    <3>3. CASE s >= clearedC[t]
      <4>1. counters'[s] > 0
        BY <1>6, <1>7, <3>1, <3>2, <3>3
      <4> QED
        BY <3>1, <4>1
    <3>4. CASE s < clearedC[t]
      <4>1. p < clearedC[t]
        BY <1>6, <2>0, <3>1, <3>2, <3>4
      <4> QED
        BY <1>9, <4>1
    <3>5. s >= clearedC[t] \/ s < clearedC[t]
      <4>1. clearedC[t] \in Nat
        BY <1>6
      <4> QED
        BY <3>2, <4>1
    <3> QED
      BY <3>3, <3>4, <3>5
  <2> QED
    BY <1>3, <2>1, <2>2, <2>3
<1>11. \A u \in active' : SeenOrDirty(u)'
  <2> SUFFICES ASSUME NEW u \in active', NEW p \in Prefixes, issued'[p] > 0
               PROVE  \/ p \in dirty'[u]
                      \/ p \in snapR'[u]
                      \/ \E s \in Prefixes : s > p /\ snapC'[u][s] > 0
    BY DEF SeenOrDirty
  <2>1. u \in active \ {t} /\ u \in Txns
    BY <1>1 DEF Reset, TypeOK
  <2>2. UNCHANGED <<snapC[u], snapR[u]>>
    BY <1>1, <2>1, ResetFrame DEF OwnUnchanged
  <2>3. dirty'[u] = dirty[u] \cup Written(t)
    BY <2>1 DEF Apply
  <2>4. CASE issued[p] > 0
    BY <2>1, <2>2, <2>3, <2>4 DEF Inv, SeenOrDirty
  <2>5. CASE \E i \in Slots : Candidate(t, i) = p
    BY <1>5, <2>3, <2>5 DEF Written
  <2> QED
    BY <1>3, <2>4, <2>5
<1> QED
  BY <1>4, <1>10, <1>11

LEMMA DropStore ==
  ASSUME Inv, NEW t \in Txns, Drop(t), Reset(t)
  PROVE  /\ UNCHANGED storeVars
         /\ \A u \in active' : SeenOrDirty(u)'
<1>1. UNCHANGED storeVars
  BY DEF Drop
<1>2. ASSUME NEW u \in active'  PROVE SeenOrDirty(u)'
  <2>1. u \in active /\ u \in Txns /\ u # t
    BY <1>2 DEF Inv, TypeInv, TypeOK, Reset
  <2>2. UNCHANGED <<snapC[u], snapR[u]>>
    BY <2>1, ResetFrame DEF Inv, TypeInv, OwnUnchanged
  <2>3. dirty'[u] = dirty[u]
    BY <2>1 DEF Drop, Inv, TypeInv, TypeOK
  <2> QED
    BY <1>1, <2>1, <2>2, <2>3 DEF Inv, SeenOrDirty, storeVars
<1> QED
  BY <1>1, <1>2

-----------------------------------------------------------------------------
(* The theorem.                                                            *)

LEMMA InitInv == Init => Inv
<1> SUFFICES ASSUME Init  PROVE Inv
  OBVIOUS
<1>1. TypeInv
  BY InitType DEF Init, TypeInv, WindowInside, Pc, IdleCall
<1>2. PrefixIssuedOnce /\ Remembered /\ \A t \in active : SeenOrDirty(t)
  BY DEF Init, PrefixIssuedOnce, Remembered
<1>3. ASSUME NEW t \in Txns  PROVE OwnInv(t)
  <2>1. clearedR[t] = 0 /\ clearedC[t] = 0 /\ snapC[t] = NoCounters
    BY DEF Init
  <2>2. \A i \in Slots : call[t][i].pc = "idle"
    BY DEF Init, IdleCall
  <2>3. SameWindow(t)
    <3>1. \A s \in Prefixes : NoCounters[s] \in Nat /\ s \in Nat
      BY BoundsAssumption DEF NoCounters, Prefixes
    <3>2. \A s \in Prefixes : NewStart(s, NoCounters[s]) \in Nat
      BY <3>1, NewStartForward
    <3> QED
      BY <2>1, <3>2 DEF SameWindow
  <2> QED
    BY <2>1, <2>2, <2>3 DEF OwnInv, ClearedIsCounted, OneByOne, CallInv, CountedInv, PickedInv,
                            DoneInv, Distinct, Pc
<1> QED
  BY <1>1, <1>2, <1>3 DEF Inv

LEMMA InvStep ==
  ASSUME ~Concurrent
  PROVE  Inv /\ [Next]_vars => Inv'
<1> SUFFICES ASSUME Inv, [Next]_vars  PROVE Inv'
  OBVIOUS
<1>1. TypeInv'
  BY TypeStep DEF Inv
<1>2. TypeOK /\ TypeOK'
  BY <1>1 DEF Inv, TypeInv
<1>3. ASSUME NEW t \in Txns, NEW i \in Slots, CallStep(t, i)
      PROVE  Inv'
  <2>1. UNCHANGED storeVars /\ \A u \in active' : SeenOrDirty(u)'
    BY <1>2, <1>3, CallStepSeen DEF Inv
  <2>2. \A u \in Txns : OwnInv(u)'
    BY <1>2, <1>3, CallStepOwn, CallStepFrame, OwnFrame DEF Inv
  <2>3. PrefixIssuedOnce' /\ Remembered'
    BY <2>1 DEF Inv, PrefixIssuedOnce, Remembered, storeVars
  <2> QED
    BY <1>1, <2>1, <2>2, <2>3 DEF Inv
<1>4. ASSUME NEW t \in Txns, CommitStep(t) \/ CommitUnknown(t) \/ Fault(t)
      PROVE  Inv'
  <2>1. Reset(t) /\ (Drop(t) \/ (Apply(t) /\ AllDone(t) /\ ~Conflict(t)))
    BY <1>4 DEF CommitStep, Commit, CommitConflict, CommitUnknown, Fault
  <2>2. \A u \in Txns : OwnInv(u)'
    BY <1>2, <2>1, ResetOwn, ResetFrame, OwnFrame DEF Inv
  <2>3. PrefixIssuedOnce' /\ Remembered' /\ \A u \in active' : SeenOrDirty(u)'
    <3>1. CASE Drop(t)
      BY <2>1, <3>1, DropStore DEF Inv, PrefixIssuedOnce, Remembered, storeVars
    <3>2. CASE Apply(t) /\ AllDone(t) /\ ~Conflict(t)
      BY <2>1, <3>2, ApplyStore
    <3> QED
      BY <2>1, <3>1, <3>2
  <2> QED
    BY <1>1, <2>2, <2>3 DEF Inv
<1>5. CASE UNCHANGED vars
  <2>1. \A u \in Txns : OwnInv(u)'
    BY <1>2, <1>5, OwnFrame DEF Inv, OwnUnchanged, vars, txVars, writeVars
  <2> QED
    BY <1>1, <1>5, <2>1 DEF Inv, PrefixIssuedOnce, Remembered, SeenOrDirty, vars, storeVars, txVars
<1> QED
  BY <1>3, <1>4, <1>5 DEF Next

\* No prefix is ever handed out twice, whatever transactions do at the same
\* time and whichever of their commits are lost, repeated or unknown, when
\* each transaction waits for one allocate before it calls the next.
THEOREM IssuedOnce ==
  ASSUME ~Concurrent
  PROVE  Spec => []PrefixIssuedOnce
<1>1. Init => Inv
  BY InitInv
<1>2. Inv /\ [Next]_vars => Inv'
  BY InvStep
<1>3. Inv => PrefixIssuedOnce
  BY DEF Inv
<1> QED
  BY <1>1, <1>2, <1>3, PTL DEF Spec

-----------------------------------------------------------------------------
(* The counters.  Windows follow each other: the last one is counted       *)
(* exactly because whatever a stale transaction still clears, counts or    *)
(* takes lies in a window that ends before it.                             *)

\* Where the next window begins.
After(s) == s + windowSize(s)

\* The starts of the windows there can be: what the first start leads to.
Starts ==
  {n \in Nat : \A C \in SUBSET Nat : 0 \in C /\ (\A s \in C : After(s) \in C) => n \in C}

\* The taken prefixes of r from s on.
From(r, s) == {p \in r : p >= s}

\* Window s is the last of counters c, and they count its prefixes of r exactly.
Exact(c, r, s) ==
  /\ s \in Starts /\ IsLast(c, s)
  /\ c[s] = Cardinality(From(r, s))
  /\ \A p \in r : p < After(s)

Counting(c, r) == \E s \in Prefixes : Exact(c, r, s)

Choosing(t) == \E i \in Slots : Pc(t, i) = "picked"

\* Attempt t has come to window m: it has counted each prefix it has taken there, and
\* the one it is choosing.
Reached(t, m) ==
  /\ m \in Starts /\ Latest(t, m) /\ clearedC[t] <= m /\ clearedR[t] <= m
  /\ \A s \in Prefixes : s > m => addC[t][s] = 0
  /\ \A p \in setR[t] : p < After(m)
  /\ addC[t][m] > 0
  /\ addC[t][m] = Cardinality(From(setR[t], m)) + (IF Choosing(t) THEN 1 ELSE 0)
  /\ ~SnapshotRYW => \A s \in Prefixes : IsLast(snapC[t], s) => m = NewStart(s, snapC[t][s])
  /\ \A i \in Slots : Pc(t, i) = "picked" => call[t][i].start = m /\ call[t][i].candidate < After(m)

\* Attempt t has written nothing.
Nothing(t) ==
  /\ addC[t] = NoCounters /\ setR[t] = {} /\ clearedC[t] = 0 /\ clearedR[t] = 0
  /\ \A i \in Slots : Pc(t, i) \in {"idle", "counted"}

\* What the allocator's snapshot reads of the counters see.
ReadC(t) == IF SnapshotRYW THEN ApplyC(t, snapC[t]) ELSE snapC[t]

AttemptInv(t) ==
  /\ Nothing(t) \/ (t \in active /\ \E m \in Prefixes : Reached(t, m))
  /\ \A p \in setR[t] : p \in checked[t] /\ p \notin snapR[t]
  /\ \A i \in Slots : Pc(t, i) = "counted" =>
       IsLast(ReadC(t), call[t][i].start) /\ call[t][i].count = ReadC(t)[call[t][i].start]

\* What an attempt knows of the prefixes that are taken.
SnapshotInv(t) ==
  /\ Counting(snapC[t], snapR[t])
  /\ \A p \in recent : p \in snapR[t] \/ p \in dirty[t]

CountInv ==
  /\ Counting(counters, recent)
  /\ \A t \in active : SnapshotInv(t)
  /\ \A t \in Txns : AttemptInv(t)

-----------------------------------------------------------------------------
(* Windows and what lies in them.                                          *)

LEMMA AfterForward == \A s \in Nat : After(s) \in Nat /\ After(s) > s
<1> SUFFICES ASSUME NEW s \in Nat  PROVE After(s) \in Nat /\ After(s) > s
  OBVIOUS
<1>1. windowSize(s) \in Nat \ {0}
  BY WindowSize
<1> QED  BY <1>1 DEF After

LEMMA StartsClosed ==
  /\ Starts \subseteq Nat /\ 0 \in Starts
  /\ \A s \in Starts : After(s) \in Starts
<1>1. Starts \subseteq Nat /\ 0 \in Starts
  BY DEF Starts
<1>2. ASSUME NEW s \in Starts
      PROVE  After(s) \in Starts
  <2>1. After(s) \in Nat
    BY <1>1, AfterForward
  <2>2. ASSUME NEW C \in SUBSET Nat, 0 \in C, \A n \in C : After(n) \in C
        PROVE  After(s) \in C
    <3>1. s \in C
      BY <2>2, Zenon DEF Starts
    <3> QED  BY <2>2, <3>1
  <2> QED  BY <2>1, <2>2, Zenon DEF Starts
<1> QED  BY <1>1, <1>2

LEMMA StartsLeast ==
  ASSUME NEW C \in SUBSET Nat, 0 \in C, \A s \in C : After(s) \in C
  PROVE  Starts \subseteq C
BY Zenon DEF Starts

\* A window ends before the next one begins.
LEMMA StartsApart == \A s, n \in Starts : s < n => After(s) <= n
<1> DEFINE Apart(s) == \A n \in Starts : (n < s => After(n) <= s) /\ (s < n => After(s) <= n)
           C == {s \in Starts : Apart(s)}
<1>1. Starts \subseteq Nat /\ 0 \in Starts /\ \A s \in Starts : After(s) \in Starts /\ After(s) > s
  BY StartsClosed, AfterForward
<1>2. 0 \in C
  <2> DEFINE D == {n \in Nat : n = 0 \/ After(0) <= n}
  <2>1. D \in SUBSET Nat /\ 0 \in D
    OBVIOUS
  <2>2. ASSUME NEW n \in D
        PROVE  After(n) \in D
    <3>1. n \in Nat /\ After(n) \in Nat /\ After(n) > n /\ After(0) \in Nat /\ (n = 0 \/ After(0) <= n)
      BY AfterForward
    <3>2. After(0) <= After(n)
      BY <3>1
    <3> QED  BY <3>1, <3>2
  <2>3. Starts \subseteq D
    <3> HIDE DEF D
    <3> QED  BY <2>1, <2>2, StartsLeast
  <2>4. \A n \in Starts : n \in Nat /\ (n = 0 \/ After(0) <= n)
    BY <2>3
  <2>5. Apart(0)
    BY <2>4
  <2> QED  BY <1>1, <2>5
<1>3. ASSUME NEW s \in C
      PROVE  After(s) \in C
  <2> DEFINE a == After(s)
             D == {n \in Starts : n <= a \/ After(a) <= n}
  <2>1. s \in Starts /\ Apart(s) /\ s \in Nat /\ a \in Starts /\ a \in Nat /\ s < a
    BY <1>1
  <2>2. ASSUME NEW n \in Starts, n < a
        PROVE  After(n) <= a
    <3>1. n \in Nat /\ After(n) \in Nat
      BY <1>1, AfterForward
    <3>2. (n < s => After(n) <= s) /\ (s < n => After(s) <= n)
      BY <2>1
    <3> QED  BY <2>1, <2>2, <3>1, <3>2
  <2>3. D \in SUBSET Nat /\ 0 \in D
    <3>1. a \in Nat /\ 0 \in Starts /\ Starts \subseteq Nat
      BY <1>1, <2>1
    <3> HIDE DEF a
    <3>2. 0 \in D
      BY <3>1
    <3> QED  BY <3>1, <3>2
  <2>4. ASSUME NEW n \in D
        PROVE  After(n) \in D
    <3> HIDE DEF a
    <3>1. n \in Starts /\ n \in Nat /\ After(n) \in Starts /\ After(n) \in Nat /\ After(n) > n
          /\ (n <= a \/ After(a) <= n) /\ After(a) \in Nat
      BY <1>1, <2>1, AfterForward
    <3>2. CASE n < a
      BY <2>2, <3>1, <3>2
    <3>3. CASE n = a
      BY <3>1, <3>3
    <3>4. CASE After(a) <= n
      <4>1. After(a) <= After(n)
        BY <3>1, <3>4
      <4> QED  BY <3>1, <4>1
    <3> QED  BY <2>1, <3>1, <3>2, <3>3, <3>4
  <2>5. Starts \subseteq D
    <3> HIDE DEF D
    <3> QED  BY <2>3, <2>4, StartsLeast
  <2>6. ASSUME NEW n \in Starts, a < n
        PROVE  After(a) <= n
    <3>1. n \in Nat /\ (n <= a \/ After(a) <= n)
      BY <1>1, <2>5
    <3> HIDE DEF a
    <3> QED  BY <2>1, <2>6, <3>1
  <2>7. Apart(a)
    BY <2>2, <2>6
  <2> QED  BY <2>1, <2>7
<1>4. Starts \subseteq C
  <2>1. C \in SUBSET Nat
    BY <1>1
  <2> HIDE DEF C
  <2> QED  BY <1>2, <1>3, <2>1, StartsLeast
<1> QED  BY <1>4

\* Sets of prefixes.
LEMMA FromFinite ==
  ASSUME NEW r \in SUBSET Prefixes, NEW s
  PROVE  IsFiniteSet(From(r, s)) /\ Cardinality(From(r, s)) \in Nat
<1>1. IsFiniteSet(Prefixes)
  BY FS_Interval, BoundsAssumption DEF Prefixes
<1>2. From(r, s) \subseteq Prefixes
  BY DEF From
<1> QED  BY <1>1, <1>2, FS_Subset, FS_CardinalityType

LEMMA FromEmpty ==
  ASSUME NEW r, NEW s, \A p \in r : ~(p >= s)
  PROVE  From(r, s) = {} /\ Cardinality(From(r, s)) = 0
<1>1. From(r, s) = {}
  BY DEF From
<1> QED  BY <1>1, FS_EmptySet

\* What an attempt writes to counters c and taken prefixes r makes the later of its
\* window and theirs the last one, and that is counted exactly.
LEMMA AppliedExact ==
  ASSUME TypeOK, NEW t \in Txns, NEW c \in CounterMap, NEW r \in SUBSET Prefixes,
         NEW l \in Prefixes, Exact(c, r, l), NEW m \in Prefixes, Reached(t, m),
         ~Choosing(t), setR[t] \cap r = {}
  PROVE  Exact(ApplyC(t, c), ApplyR(t, r), IF m < l THEN l ELSE m)
<1> DEFINE add == addC[t]
           set == setR[t]
           c2 == ApplyC(t, c)
           r2 == ApplyR(t, r)
<1>1. /\ add \in CounterMap /\ set \in SUBSET Prefixes
      /\ clearedC[t] \in Nat /\ clearedR[t] \in Nat
  BY DEF TypeOK
<1>2. /\ \A s \in Prefixes : s \in Nat /\ c[s] \in Nat /\ add[s] \in Nat
      /\ \A s \in Prefixes : c2[s] = (IF s < clearedC[t] THEN 0 ELSE c[s]) + add[s]
  <2>1. \A s \in Prefixes : s \in Nat
    BY BoundsAssumption DEF Prefixes
  <2>2. \A s \in Prefixes : c[s] \in Nat /\ add[s] \in Nat
    BY <1>1 DEF CounterMap
  <2>3. \A s \in Prefixes : c2[s] = (IF s < clearedC[t] THEN 0 ELSE c[s]) + add[s]
    BY DEF ApplyC
  <2> QED  BY <2>1, <2>2, <2>3
<1>3. /\ m \in Starts /\ l \in Starts /\ clearedC[t] <= m /\ clearedR[t] <= m
      /\ \A s \in Prefixes : s > m => add[s] = 0
      /\ \A p \in set : p < After(m)
      /\ add[m] > 0 /\ add[m] = Cardinality(From(set, m))
      /\ IsLast(c, l) /\ c[l] = Cardinality(From(r, l)) /\ \A p \in r : p < After(l)
  <2>1. add[m] = Cardinality(From(set, m))
    <3>1. add[m] = Cardinality(From(set, m)) + 0
      BY DEF Reached
    <3>2. Cardinality(From(set, m)) \in Nat
      BY <1>1, FromFinite
    <3> HIDE DEF add, set
    <3> QED  BY <3>1, <3>2
  <2>2. /\ m \in Starts /\ clearedC[t] <= m /\ clearedR[t] <= m
        /\ \A s \in Prefixes : s > m => add[s] = 0
        /\ \A p \in set : p < After(m)
        /\ add[m] > 0
    BY DEF Reached
  <2>3. /\ l \in Starts /\ IsLast(c, l) /\ c[l] = Cardinality(From(r, l))
        /\ \A p \in r : p < After(l)
    BY DEF Exact
  <2> QED  BY <2>1, <2>2, <2>3
<1>4. r2 = {p \in r : p >= clearedR[t]} \cup set
  BY DEF ApplyR
<1>5. /\ \A s \in Prefixes : s > l => c[s] = 0
      /\ c[l] = 0 => \A s \in Prefixes : c[s] = 0
  BY <1>2, <1>3 DEF IsLast
<1>6. /\ m \in Nat /\ l \in Nat /\ After(m) \in Nat /\ After(l) \in Nat
      /\ After(m) > m /\ After(l) > l
      /\ m < l => After(m) <= l
      /\ l < m => After(l) <= m
  BY <1>2, <1>3, StartsApart, AfterForward
<1>7. (\A p \in r : p \in Nat) /\ (\A p \in set : p \in Nat)
  BY <1>1, <1>2
<1> HIDE DEF add, set, c2, r2
<1>8. CASE m < l
  <2>1. c2[l] = c[l] /\ \A s \in Prefixes : s > l => c2[s] = 0
    <3>1. ~(l < clearedC[t]) /\ add[l] = 0
      BY <1>1, <1>3, <1>6, <1>8
    <3>2. \A s \in Prefixes : s > l => add[s] = 0 /\ c[s] = 0
      BY <1>2, <1>3, <1>5, <1>6, <1>8
    <3> QED  BY <1>2, <3>1, <3>2
  <2>2. c[l] > 0
    <3>1. \E x \in Prefixes : c[x] # 0 \/ l = 0
      BY <1>3, <1>6, <1>8 DEF IsLast
    <3>2. l # 0
      BY <1>6, <1>8
    <3>3. l # 0 => c[l] > 0
      BY <1>3 DEF IsLast
    <3> QED  BY <3>2, <3>3
  <2>3. IsLast(c2, l)
    BY <2>1, <2>2 DEF IsLast
  <2>4. From(r2, l) = From(r, l)
    <3>1. \A p \in set : ~(p >= l)
      BY <1>3, <1>6, <1>7, <1>8
    <3>2. \A p \in r : p >= l => p >= clearedR[t]
      BY <1>1, <1>3, <1>6, <1>7, <1>8
    <3> QED  BY <1>4, <3>1, <3>2 DEF From
  <2>5. \A p \in r2 : p < After(l)
    <3>1. \A p \in set : p < After(l)
      BY <1>3, <1>6, <1>7, <1>8
    <3> QED  BY <1>3, <1>4, <3>1
  <2>6. Exact(c2, r2, l)
    BY <1>3, <2>1, <2>3, <2>4, <2>5 DEF Exact
  <2> QED  BY <1>8, <2>6 DEF c2, r2
<1>9. CASE m >= l
  <2>1. /\ \A s \in Prefixes : s > m => c2[s] = 0
        /\ c2[m] = c[m] + add[m] /\ c2[m] > 0
    <3>1. \A s \in Prefixes : s > m => add[s] = 0 /\ c[s] = 0
      BY <1>2, <1>3, <1>5, <1>6, <1>9
    <3>2. ~(m < clearedC[t])
      BY <1>1, <1>3, <1>6
    <3> QED  BY <1>2, <1>3, <3>1, <3>2
  <2>2. IsLast(c2, m)
    BY <2>1 DEF IsLast
  <2>3. From(r2, m) = From(r, m) \cup From(set, m) /\ From(r, m) \cap From(set, m) = {}
    <3>1. \A p \in r : p >= m => p >= clearedR[t]
      BY <1>1, <1>3, <1>6, <1>7
    <3>2. set \cap r = {}
      BY DEF set
    <3> QED  BY <1>4, <3>1, <3>2 DEF From
  <2>4. Cardinality(From(r, m)) = c[m]
    <3>1. CASE m = l
      BY <1>3, <3>1
    <3>2. CASE m > l
      <4>1. \A p \in r : ~(p >= m)
        BY <1>3, <1>6, <1>7, <3>2
      <4>2. c[m] = 0
        BY <1>5, <3>2
      <4> QED  BY <4>1, <4>2, FromEmpty
    <3> QED  BY <1>6, <1>9, <3>1, <3>2
  <2>5. Cardinality(From(r2, m)) = c2[m]
    <3>1. /\ IsFiniteSet(From(r, m)) /\ IsFiniteSet(From(set, m))
          /\ Cardinality(From(r, m)) \in Nat /\ Cardinality(From(set, m)) \in Nat
      BY <1>1, FromFinite DEF set
    <3>2. Cardinality(From(r, m) \cup From(set, m)) =
            Cardinality(From(r, m)) + Cardinality(From(set, m)) - Cardinality(From(r, m) \cap From(set, m))
      BY <3>1, FS_Union
    <3>3. Cardinality(From(r, m) \cap From(set, m)) = 0
      BY <2>3, FS_EmptySet
    <3> QED  BY <1>3, <2>1, <2>3, <2>4, <3>1, <3>2, <3>3
  <2>6. \A p \in r2 : p < After(m)
    <3>1. \A p \in r : p < After(m)
      BY <1>3, <1>6, <1>7, <1>9
    <3> QED  BY <1>3, <1>4, <3>1
  <2>7. Exact(c2, r2, m)
    BY <1>3, <2>1, <2>2, <2>5, <2>6 DEF Exact
  <2>8. ~(m < l)
    BY <1>6, <1>9
  <2> QED  BY <2>7, <2>8 DEF c2, r2
<1> QED  BY <1>6, <1>8, <1>9

\* An attempt that has written nothing changes nothing.
LEMMA AppliedNothing ==
  ASSUME TypeOK, NEW t \in Txns, Nothing(t), NEW c \in CounterMap, NEW r \in SUBSET Prefixes
  PROVE  ApplyC(t, c) = c /\ ApplyR(t, r) = r
<1>1. /\ \A s \in Prefixes : s \in Nat /\ c[s] \in Nat /\ addC[t][s] = 0
      /\ clearedC[t] = 0 /\ clearedR[t] = 0 /\ setR[t] = {}
      /\ c = [s \in Prefixes |-> c[s]]
  <2>1. \A s \in Prefixes : s \in Nat
    BY BoundsAssumption DEF Prefixes
  <2>2. \A s \in Prefixes : c[s] \in Nat
    BY DEF CounterMap
  <2>3. c = [s \in Prefixes |-> c[s]]
    BY DEF CounterMap
  <2> QED  BY <2>1, <2>2, <2>3 DEF Nothing, NoCounters
<1>2. \A s \in Prefixes : (IF s < clearedC[t] THEN 0 ELSE c[s]) + addC[t][s] = c[s]
  BY <1>1
<1>3. ApplyC(t, c) = [s \in Prefixes |-> c[s]]
  BY <1>2 DEF ApplyC
<1>4. \A p \in r : p >= clearedR[t]
  BY <1>1
<1> QED  BY <1>1, <1>3, <1>4 DEF ApplyR

-----------------------------------------------------------------------------
(* The steps of a call, in the attempt it belongs to.                      *)

LEMMA AttemptFrame ==
  ASSUME NEW u \in Txns, AttemptInv(u), OwnUnchanged(u)
  PROVE  AttemptInv(u)'
<1> USE DEF OwnUnchanged
<1>1. Nothing(u) => Nothing(u)'
  BY DEF Nothing, Pc
<1>2. ASSUME NEW m \in Prefixes, Reached(u, m)
      PROVE  Reached(u, m)'
  BY <1>2 DEF Reached, Latest, Choosing, Pc
<1>3. ReadC(u)' = ReadC(u)
  BY DEF ReadC, ApplyC
<1> QED  BY <1>1, <1>2, <1>3 DEF AttemptInv, Pc

LEMMA ResetAttempt ==
  ASSUME TypeOK, NEW t \in Txns, Reset(t)
  PROVE  AttemptInv(t)'
<1>1. \A i \in Slots : call'[t][i].pc = "idle"
  BY ResetCall DEF IdleCall
<1>2. /\ addC'[t] = NoCounters /\ setR'[t] = {} /\ clearedC'[t] = 0 /\ clearedR'[t] = 0
  BY DEF TypeOK, Reset
<1> QED  BY <1>1, <1>2 DEF AttemptInv, Nothing, Pc

\* While call i is at work no other is choosing.
LEMMA OnlyOneChooses ==
  ASSUME NEW t \in Txns, NEW i \in Slots,
         \A j \in Slots : j # i => Pc(t, j) \in {"idle", "done"} /\ call'[t][j] = call[t][j]
  PROVE  /\ Choosing(t) <=> Pc(t, i) = "picked"
         /\ Choosing(t)' <=> call'[t][i].pc = "picked"
BY DEF Choosing, Pc

LEMMA OthersAtRest ==
  ASSUME TypeOK, NEW t \in Txns, NEW i \in Slots, OwnInv(t),
         \/ Pc(t, i) \in {"counted", "picked"}
         \/ Pc(t, i) = "idle" /\ \A j \in Slots : j < i => Pc(t, j) = "done"
  PROVE  \A j \in Slots : j # i => Pc(t, j) \in {"idle", "done"}
<1>1. \A j \in Slots : (j < i => Pc(t, j) = "done") /\ (j > i => Pc(t, j) = "idle")
  BY OthersRest DEF OwnInv
<1> QED  BY <1>1 DEF Slots

LEMMA ReadCounterAttempt ==
  ASSUME ~Concurrent, Inv, NEW t \in Txns, NEW i \in Slots, AttemptInv(t), ReadCounter(t, i)
  PROVE  AttemptInv(t)'
<1>1. PICK c : c = IF SnapshotRYW THEN ApplyC(t, snapC'[t]) ELSE snapC'[t]
  OBVIOUS
<1>2. PICK start \in Prefixes :
        /\ IsLast(c, start)
        /\ Update(t, i, [pc |-> "counted", start |-> start, count |-> c[start],
                         candidate |-> 0, free |-> FALSE])
  BY <1>1 DEF ReadCounter
<1>3. /\ active' = active \cup {t}
      /\ t \in active => UNCHANGED <<snapC, snapR>>
      /\ UNCHANGED <<checked, clearedC, addC, clearedR, setR>>
      /\ TypeOK /\ OwnInv(t)
  BY DEF ReadCounter, writeVars, Inv, TypeInv
<1>4. /\ Pc(t, i) = "idle"
      /\ \A j \in Slots : j < i => Pc(t, j) = "done"
  BY DEF ReadCounter, Pc
<1>5. /\ call'[t][i].pc = "counted" /\ call'[t][i].start = start /\ call'[t][i].count = c[start]
      /\ \A j \in Slots : j # i => call'[t][j] = call[t][j]
  BY <1>2, <1>3, UpdateCall
<1>6. \A j \in Slots : j # i => Pc(t, j) \in {"idle", "done"}
  BY <1>3, <1>4, OthersAtRest
<1>7. ~Choosing(t) /\ ~Choosing(t)'
  BY <1>4, <1>5, <1>6, OnlyOneChooses
<1>8. ReadC(t)' = c
  BY <1>1, <1>3 DEF ReadC, ApplyC
<1>9. \A j \in Slots : call'[t][j].pc = "counted" =>
        IsLast(ReadC(t)', call'[t][j].start) /\ call'[t][j].count = ReadC(t)'[call'[t][j].start]
  BY <1>2, <1>5, <1>6, <1>8 DEF Pc
<1>10. Nothing(t)' \/ (t \in active' /\ \E m \in Prefixes : Reached(t, m)')
  <2>1. CASE Nothing(t)
    <3>1. \A j \in Slots : call'[t][j].pc \in {"idle", "counted"}
      BY <1>5, <2>1 DEF Nothing, Pc
    <3> QED  BY <1>3, <2>1, <3>1 DEF Nothing, Pc
  <2>2. ASSUME t \in active, NEW m \in Prefixes, Reached(t, m)
        PROVE  Reached(t, m)'
    <3>1. \A j \in Slots : call'[t][j].pc # "picked"
      BY <1>5, <1>6 DEF Pc
    <3>2. UNCHANGED <<snapC, clearedC, addC, clearedR, setR>>
      BY <1>3, <2>2
    <3> QED  BY <1>7, <2>2, <3>1, <3>2 DEF Reached, Latest, Pc
  <2> QED  BY <1>3, <2>1, <2>2 DEF AttemptInv
<1>11. \A p \in setR'[t] : p \in checked'[t] /\ p \notin snapR'[t]
  <2>1. CASE t \in active
    BY <1>3, <2>1 DEF AttemptInv
  <2>2. CASE t \notin active
    <3>1. setR[t] = {}
      BY <2>2 DEF AttemptInv, Nothing
    <3> QED  BY <1>3, <3>1
  <2> QED  BY <2>1, <2>2
<1> QED  BY <1>9, <1>10, <1>11 DEF AttemptInv, Pc

LEMMA TakeAttempt ==
  ASSUME Inv, NEW t \in Txns, NEW i \in Slots, AttemptInv(t), Take(t, i)
  PROVE  AttemptInv(t)'
<1>1. TypeOK /\ OwnInv(t) /\ Pc(t, i) = "picked" /\ call[t][i].free /\ call[t][i] \in CallState
  BY DEF Inv, TypeInv, TypeOK, Take, Pc
<1>2. PICK candidate : candidate = call[t][i].candidate
  OBVIOUS
<1>3. /\ UNCHANGED <<active, snapC, snapR, checked, clearedC, addC, clearedR>>
      /\ setR'[t] = setR[t] \cup {candidate}
  BY <1>1, <1>2 DEF TypeOK, Take
<1>4. /\ call'[t][i] = [call[t][i] EXCEPT !.pc = "done"]
      /\ \A j \in Slots : j # i => call'[t][j] = call[t][j]
  BY <1>1, UpdateCall DEF Take
<1>5. call'[t][i].pc = "done"
  BY <1>1, <1>4 DEF CallState
<1>6. \A j \in Slots : j # i => Pc(t, j) \in {"idle", "done"}
  BY <1>1, OthersAtRest
<1>7. Choosing(t) /\ ~Choosing(t)'
  BY <1>1, <1>4, <1>5, <1>6, OnlyOneChooses
<1>8. /\ candidate \notin setR[t] /\ candidate \notin snapR[t] /\ candidate \in checked[t]
      /\ call[t][i].start <= candidate /\ candidate \in Prefixes /\ setR[t] \in SUBSET Prefixes
  BY <1>1, <1>2 DEF OwnInv, CallInv, PickedInv, TypeOK, CallState
<1>9. PICK m \in Prefixes : t \in active /\ Reached(t, m)
  BY <1>1 DEF AttemptInv, Nothing
<1>10. m <= candidate /\ candidate < After(m)
  BY <1>1, <1>2, <1>8, <1>9 DEF Reached
<1>11. Cardinality(From(setR'[t], m)) = Cardinality(From(setR[t], m)) + 1
       /\ Cardinality(From(setR[t], m)) \in Nat
  <2>1. From(setR'[t], m) = From(setR[t], m) \cup {candidate} /\ candidate \notin From(setR[t], m)
    <3>1. candidate >= m
      BY <1>8, <1>10, BoundsAssumption DEF Prefixes
    <3> QED  BY <1>3, <1>8, <3>1 DEF From
  <2>2. IsFiniteSet(From(setR[t], m)) /\ Cardinality(From(setR[t], m)) \in Nat
    BY <1>8, FromFinite
  <2> QED  BY <2>1, <2>2, FS_AddElement
<1>12. Reached(t, m)'
  <2>1. addC'[t][m] = Cardinality(From(setR[t], m)) + 1
    BY <1>3, <1>7, <1>9 DEF Reached
  <2>2. addC'[t][m] = Cardinality(From(setR'[t], m)) + 0
    BY <1>11, <2>1
  <2>3. \A p \in setR'[t] : p < After(m)
    BY <1>3, <1>9, <1>10 DEF Reached
  <2>4. \A j \in Slots : call'[t][j].pc # "picked"
    BY <1>4, <1>5, <1>6 DEF Pc
  <2> QED  BY <1>3, <1>7, <1>9, <2>2, <2>3, <2>4 DEF Reached, Latest, Pc
<1>13. \A p \in setR'[t] : p \in checked'[t] /\ p \notin snapR'[t]
  BY <1>3, <1>8 DEF AttemptInv
<1>14. \A j \in Slots : call'[t][j].pc # "counted"
  BY <1>4, <1>5, <1>6 DEF Pc
<1> QED  BY <1>3, <1>9, <1>12, <1>13, <1>14 DEF AttemptInv, Pc

\* A candidate is chosen from the window at hand.
LEMMA PickFromAttempt ==
  ASSUME TypeOK, NEW t \in Txns, NEW i \in Slots, NEW start \in Nat, NEW p \in Window(start),
         PickFrom(t, i, start, p)
  PROVE  /\ call'[t][i].pc = "picked" /\ call'[t][i].start = start /\ call'[t][i].candidate = p
         /\ p < After(start) /\ checked[t] \subseteq checked'[t]
         /\ \A j \in Slots : j # i => call'[t][j] = call[t][j]
<1>1. PICK free : Update(t, i, [pc |-> "picked", start |-> start, count |-> call[t][i].count,
                                candidate |-> p, free |-> free])
  BY DEF PickFrom
<1>2. checked[t] \subseteq checked'[t]
  BY DEF PickFrom, TypeOK
<1>3. p < After(start)
  <2>1. windowSize(start) \in Nat \ {0}
    BY WindowSize
  <2> QED  BY <2>1 DEF Window, After
<1>4. /\ call'[t][i] = [pc |-> "picked", start |-> start, count |-> call[t][i].count,
                        candidate |-> p, free |-> free]
      /\ \A j \in Slots : j # i => call'[t][j] = call[t][j]
  BY <1>1, UpdateCall
<1> QED  BY <1>2, <1>3, <1>4

LEMMA PickAgainAttempt ==
  ASSUME Inv, NEW t \in Txns, NEW i \in Slots, AttemptInv(t), PickAgain(t, i)
  PROVE  AttemptInv(t)'
<1>1. /\ UNCHANGED <<active, snapC, snapR, clearedC, addC, clearedR, setR>>
      /\ Pc(t, i) = "picked" /\ TypeOK /\ OwnInv(t)
  BY DEF PickAgain, writeVars, Pc, Inv, TypeInv
<1>2. PICK start : start = call[t][i].start
  OBVIOUS
<1>3. start \in Nat
  BY <1>1, <1>2, BoundsAssumption DEF TypeOK, CallState, Prefixes
<1>4. PICK p \in Window(start) : PickFrom(t, i, start, p)
  BY <1>2 DEF PickAgain
<1>5. /\ call'[t][i].pc = "picked" /\ call'[t][i].start = start /\ call'[t][i].candidate = p
      /\ p < After(start) /\ checked[t] \subseteq checked'[t]
      /\ \A j \in Slots : j # i => call'[t][j] = call[t][j]
  BY <1>1, <1>3, <1>4, PickFromAttempt
<1>6. \A j \in Slots : j # i => Pc(t, j) \in {"idle", "done"}
  BY <1>1, OthersAtRest
<1>7. Choosing(t) /\ Choosing(t)'
  BY <1>1, <1>5, <1>6, OnlyOneChooses
<1>8. PICK m \in Prefixes : t \in active /\ Reached(t, m)
  BY <1>1 DEF AttemptInv, Nothing
<1>9. m = start
  BY <1>1, <1>2, <1>8 DEF Reached
<1>10. \A j \in Slots : call'[t][j].pc = "picked" => call'[t][j].start = m /\ call'[t][j].candidate < After(m)
  BY <1>5, <1>6, <1>9 DEF Pc
<1>11. Reached(t, m)'
  BY <1>1, <1>7, <1>8, <1>10 DEF Reached, Latest, Pc
<1>12. \A p2 \in setR'[t] : p2 \in checked'[t] /\ p2 \notin snapR'[t]
  BY <1>1, <1>5 DEF AttemptInv
<1>13. \A j \in Slots : call'[t][j].pc # "counted"
  BY <1>5, <1>6 DEF Pc
<1> QED  BY <1>1, <1>8, <1>11, <1>12, <1>13 DEF AttemptInv, Pc

\* What a call that has read the counter knows: with the attempt's own writes, its
\* window is the last and is counted exactly.
LEMMA CountedFacts ==
  ASSUME Inv, NEW t \in active, NEW i \in Slots, AttemptInv(t), SnapshotInv(t), Pc(t, i) = "counted",
         NEW start, NEW count, start = call[t][i].start, count = call[t][i].count
  PROVE  /\ start \in Starts /\ start \in Prefixes /\ count \in Nat
         /\ \A p \in snapR[t] : p < After(start)
         /\ SnapshotRYW => Exact(ReadC(t), ViewR(t), start) /\ count = ReadC(t)[start]
         /\ \/ Nothing(t)
            \/ \E m \in Prefixes : /\ Reached(t, m)
                                   /\ SnapshotRYW => m = start
                                   /\ ~SnapshotRYW => m = NewStart(start, count)
<1>1. /\ TypeOK /\ t \in Txns /\ OwnInv(t) /\ snapC[t] \in CounterMap /\ snapR[t] \in SUBSET Prefixes
      /\ start \in Prefixes /\ count \in Nat
  BY DEF Inv, TypeInv, TypeOK, CallState
<1>2. PICK l \in Prefixes : Exact(snapC[t], snapR[t], l)
  BY DEF SnapshotInv, Counting
<1>3. IsLast(ReadC(t), start) /\ count = ReadC(t)[start]
  BY DEF AttemptInv
<1>4. \A p \in snapR[t] : p \in Nat
  BY <1>1, BoundsAssumption DEF Prefixes
<1>5. ~Choosing(t)
  <2>1. \A j \in Slots : j # i => Pc(t, j) \in {"idle", "done"}
    BY <1>1, OthersAtRest
  <2> QED  BY <2>1 DEF Choosing
<1>6. ASSUME ~SnapshotRYW
      PROVE  start = l
  BY <1>1, <1>2, <1>3, <1>6, LastUnique DEF ReadC, Exact
<1>7. CASE Nothing(t)
  <2>1. ApplyC(t, snapC[t]) = snapC[t] /\ ViewR(t) = snapR[t]
    BY <1>1, <1>7, AppliedNothing DEF ViewR
  <2>2. ReadC(t) = snapC[t]
    BY <2>1 DEF ReadC
  <2>3. start = l
    BY <1>1, <1>2, <1>3, <2>2, LastUnique DEF Exact
  <2> QED  BY <1>1, <1>2, <1>3, <1>7, <2>1, <2>2, <2>3 DEF Exact
<1>8. ASSUME NEW m \in Prefixes, Reached(t, m)
      PROVE  /\ start \in Starts /\ \A p \in snapR[t] : p < After(start)
             /\ SnapshotRYW => m = start /\ Exact(ReadC(t), ViewR(t), start)
             /\ ~SnapshotRYW => m = NewStart(start, count)
  <2>1. CASE SnapshotRYW
    <3>1. setR[t] \cap snapR[t] = {}
      BY DEF AttemptInv
    <3>2. Exact(ApplyC(t, snapC[t]), ViewR(t), IF m < l THEN l ELSE m)
      BY <1>1, <1>2, <1>5, <1>8, <3>1, AppliedExact DEF ViewR
    <3>3. l <= m
      <4>1. l \in Nat /\ m \in Nat /\ snapC[t][l] \in Nat
        BY <1>1, <1>8, BoundsAssumption DEF Prefixes, CounterMap
      <4>2. l = 0 \/ snapC[t][l] > 0
        BY <1>2 DEF Exact, IsLast
      <4>3. snapC[t][l] > 0 => l <= m
        BY <1>8 DEF Reached, Latest
      <4> QED  BY <4>1, <4>2, <4>3
    <3>4. l \in Nat /\ m \in Nat
      BY <1>8, BoundsAssumption DEF Prefixes
    <3>5. Exact(ReadC(t), ViewR(t), m)
      BY <2>1, <3>2, <3>3, <3>4 DEF ReadC
    <3>6. ReadC(t) \in CounterMap
      BY <1>1, <2>1, ApplyType DEF ReadC
    <3>7. start = m
      BY <1>1, <1>3, <3>5, <3>6, LastUnique DEF Exact
    <3>8. m \in Starts /\ l \in Starts
      BY <1>2, <1>8 DEF Exact, Reached
    <3>9. After(l) <= After(m) /\ After(l) \in Nat /\ After(m) \in Nat
      <4>1. After(l) \in Nat /\ After(m) \in Nat /\ After(m) > m
        BY <3>4, AfterForward
      <4>2. l < m => After(l) <= m
        BY <3>8, StartsApart
      <4>3. l = m => After(l) = After(m)
        OBVIOUS
      <4> QED  BY <3>3, <3>4, <4>1, <4>2, <4>3
    <3>10. \A p \in snapR[t] : p < After(m)
      <4>1. \A p \in snapR[t] : p < After(l)
        BY <1>2 DEF Exact
      <4> QED  BY <1>4, <3>9, <4>1
    <3> QED  BY <2>1, <3>5, <3>7, <3>8, <3>10
  <2>2. CASE ~SnapshotRYW
    <3>1. start = l /\ IsLast(snapC[t], start) /\ count = snapC[t][start]
      BY <1>2, <1>3, <1>6, <2>2 DEF ReadC
    <3>2. m = NewStart(start, count)
      BY <1>1, <1>8, <2>2, <3>1 DEF Reached
    <3> QED  BY <1>2, <2>2, <3>1, <3>2 DEF Exact
  <2> QED  BY <2>1, <2>2
<1> QED  BY <1>1, <1>3, <1>7, <1>8 DEF AttemptInv

\* The writes of a call that opens its window.
LEMMA OpenedWrites ==
  ASSUME Inv, NEW t \in active, NEW i \in Slots, AttemptInv(t), SnapshotInv(t), OpenWindow(t, i),
         NEW start, NEW count, start = call[t][i].start, count = call[t][i].count,
         NEW m, m = NewStart(start, count)
  PROVE  /\ m \in Starts /\ m \in Prefixes /\ clearedC'[t] <= m
         /\ \A s \in Prefixes : s > m => addC'[t][s] = 0
         /\ setR'[t] \subseteq setR[t] /\ \A p \in setR'[t] : p < After(m)
         /\ Cardinality(From(setR'[t], m)) \in Nat
         /\ addC'[t][m] = Cardinality(From(setR'[t], m)) + 1
<1>1. /\ TypeOK /\ t \in Txns /\ Pc(t, i) = "counted" /\ Window(m) \subseteq Prefixes
      /\ addC[t] \in CounterMap /\ setR[t] \in SUBSET Prefixes /\ clearedC[t] \in Nat
  BY DEF Inv, TypeInv, TypeOK, OpenWindow, Pc
<1>2. /\ start \in Starts /\ start \in Prefixes /\ count \in Nat
      /\ \/ Nothing(t)
         \/ \E w \in Prefixes : /\ Reached(t, w)
                                /\ SnapshotRYW => w = start
                                /\ ~SnapshotRYW => w = m
  BY <1>1, CountedFacts
<1>3. /\ \A s \in Prefixes : s \in Nat /\ addC[t][s] \in Nat
      /\ \A p \in setR[t] : p \in Nat
  <2>1. \A s \in Prefixes : s \in Nat
    BY BoundsAssumption DEF Prefixes
  <2> QED  BY <1>1, <2>1 DEF CounterMap
<1>4. /\ start \in Nat /\ m \in Nat /\ start <= m /\ After(m) \in Nat /\ After(m) > m
      /\ m \in Starts /\ m \in Prefixes
      /\ Full(start, count) => m = After(start) /\ start < m
      /\ ~Full(start, count) => m = start
  <2>1. start \in Nat /\ After(start) \in Nat /\ After(start) > start /\ After(start) \in Starts
    BY <1>2, <1>3, AfterForward, StartsClosed
  <2>2. m = IF Full(start, count) THEN After(start) ELSE start
    BY DEF NewStart, After
  <2>3. m \in Nat /\ m \in Starts
    BY <1>2, <2>1, <2>2
  <2>4. windowSize(m) \in Nat \ {0}
    BY <2>3, WindowSize
  <2>5. m \in Window(m)
    BY <2>3, <2>4 DEF Window
  <2> QED  BY <1>1, <2>1, <2>2, <2>3, <2>5, AfterForward
\* Until now the window that is opened has been counted exactly, or not at all.
<1>5. /\ clearedC[t] <= m
      /\ \A s \in Prefixes : s > m => addC[t][s] = 0
      /\ \A p \in setR[t] : p < After(m)
      /\ addC[t][m] = Cardinality(From(setR[t], m))
  <2>1. CASE Nothing(t)
    <3>1. clearedC[t] = 0 /\ setR[t] = {} /\ \A s \in Prefixes : addC[t][s] = 0
      BY <2>1 DEF Nothing, NoCounters
    <3>2. Cardinality(From(setR[t], m)) = 0
      BY <3>1, FromEmpty
    <3>3. clearedC[t] <= m
      BY <1>4, <3>1
    <3>4. (\A s \in Prefixes : s > m => addC[t][s] = 0) /\ addC[t][m] = 0
      BY <1>4, <3>1, Zenon
    <3>5. \A p \in setR[t] : p < After(m)
      BY <3>1, Zenon
    <3> QED  BY <3>2, <3>3, <3>4, <3>5
  <2>2. ASSUME NEW w \in Prefixes, Reached(t, w), w = start \/ w = m
        PROVE  <1>5!1 /\ <1>5!2 /\ <1>5!3 /\ <1>5!4
    <3>1. /\ clearedC[t] <= w /\ w \in Nat /\ w <= m /\ w \in Starts
          /\ \A s \in Prefixes : s > w => addC[t][s] = 0
          /\ \A p \in setR[t] : p < After(w)
          /\ addC[t][w] = Cardinality(From(setR[t], w)) + (IF Choosing(t) THEN 1 ELSE 0)
      BY <1>3, <1>4, <2>2 DEF Reached
    <3>2. ~Choosing(t)
      <4>1. \A j \in Slots : j # i => Pc(t, j) \in {"idle", "done"}
        BY <1>1, OthersAtRest DEF Inv
      <4> QED  BY <1>1, <4>1 DEF Choosing
    <3>3. addC[t][w] = Cardinality(From(setR[t], w))
      <4>1. Cardinality(From(setR[t], w)) \in Nat
        BY <1>1, FromFinite
      <4> QED  BY <3>1, <3>2, <4>1
    <3>4. CASE w = m
      BY <3>1, <3>3, <3>4
    <3>5. CASE w # m
      <4>1. w = start /\ w < m /\ After(w) <= m /\ After(w) \in Nat
        BY <1>4, <2>2, <3>1, <3>5, StartsApart, AfterForward
      <4>2. \A p \in setR[t] : ~(p >= m) /\ p < After(m)
        BY <1>3, <1>4, <3>1, <4>1
      <4>3. addC[t][m] = 0 /\ \A s \in Prefixes : s > m => addC[t][s] = 0
        BY <1>3, <1>4, <3>1, <4>1
      <4>4. Cardinality(From(setR[t], m)) = 0
        BY <4>2, FromEmpty
      <4> QED  BY <1>1, <1>4, <3>1, <4>2, <4>3, <4>4
    <3> QED  BY <3>4, <3>5
  <2> QED  BY <1>2, <2>1, <2>2
<1>6. Cardinality(From(setR[t], m)) \in Nat
  BY <1>1, FromFinite
<1>7. CASE Full(start, count)
  <2>1. /\ clearedC'[t] = Larger(clearedC[t], start + 1)
        /\ setR'[t] = {q \in setR[t] : q >= m}
        /\ addC'[t] = Counted([s \in Prefixes |-> IF s < start + 1 THEN 0 ELSE addC[t][s]], m)
    BY <1>1, <1>7 DEF OpenWindow, TypeOK, ClearedEnd
  <2>2. clearedC'[t] <= m
    BY <1>1, <1>4, <1>5, <1>7, <2>1 DEF Larger
  <2>3. From(setR'[t], m) = From(setR[t], m)
    BY <2>1 DEF From
  <2>4. ~(m < start + 1) /\ \A s \in Prefixes : s > m => ~(s < start + 1) /\ s # m
    <3>1. start \in Nat /\ m \in Nat /\ start < m
      BY <1>4, <1>7, Zenon
    <3>2. \A s \in Prefixes : s \in Nat
      BY <1>3, Zenon
    <3>3. \A s \in Nat : s > m => ~(s < start + 1) /\ s # m
      BY <3>1
    <3>4. ~(m < start + 1)
      BY <3>1
    <3> QED  BY <3>2, <3>3, <3>4, Zenon
  <2>5. addC'[t][m] = addC[t][m] + 1 /\ \A s \in Prefixes : s > m => addC'[t][s] = addC[t][s]
    BY <1>4, <2>1, <2>4 DEF Counted
  <2> QED  BY <1>4, <1>5, <1>6, <2>1, <2>2, <2>3, <2>5
<1>8. CASE ~Full(start, count)
  <2>1. UNCHANGED <<clearedC, clearedR, setR>> /\ addC'[t] = Counted(addC[t], m)
    BY <1>1, <1>8 DEF OpenWindow, TypeOK
  <2>2. \A s \in Prefixes : s > m => s # m
    BY <1>3, <1>4
  <2>3. addC'[t][m] = addC[t][m] + 1 /\ \A s \in Prefixes : s > m => addC'[t][s] = addC[t][s]
    BY <1>1, <1>4, <2>1, <2>2 DEF Counted, CounterMap
  <2> QED  BY <1>4, <1>5, <1>6, <2>1, <2>3
<1> QED  BY <1>7, <1>8

LEMMA OpenWindowAttempt ==
  ASSUME Inv, Inv', NEW t \in active, NEW i \in Slots, AttemptInv(t), SnapshotInv(t), OpenWindow(t, i)
  PROVE  AttemptInv(t)'
<1>1. /\ UNCHANGED <<active, snapC, snapR>> /\ TypeOK /\ t \in Txns /\ OwnInv(t) /\ Pc(t, i) = "counted"
      /\ OwnInv(t)'
  BY DEF OpenWindow, Inv, TypeInv, TypeOK, Pc
<1>2. PICK start, count, m : start = call[t][i].start /\ count = call[t][i].count /\ m = NewStart(start, count)
  OBVIOUS
<1>3. /\ m \in Starts /\ m \in Prefixes /\ clearedC'[t] <= m
      /\ \A s \in Prefixes : s > m => addC'[t][s] = 0
      /\ setR'[t] \subseteq setR[t] /\ \A p \in setR'[t] : p < After(m)
      /\ Cardinality(From(setR'[t], m)) \in Nat
      /\ addC'[t][m] = Cardinality(From(setR'[t], m)) + 1
  BY <1>2, OpenedWrites
<1>4. m \in Nat
  BY <1>3, StartsClosed
<1>5. PICK p \in Window(m) : PickFrom(t, i, m, p)
  BY <1>2 DEF OpenWindow
<1>6. /\ call'[t][i].pc = "picked" /\ call'[t][i].start = m /\ call'[t][i].candidate = p
      /\ p < After(m) /\ checked[t] \subseteq checked'[t]
      /\ \A j \in Slots : j # i => call'[t][j] = call[t][j]
  BY <1>1, <1>4, <1>5, PickFromAttempt
<1>7. \A j \in Slots : j # i => Pc(t, j) \in {"idle", "done"}
  BY <1>1, OthersAtRest
<1>8. Choosing(t)'
  BY <1>1, <1>6, <1>7, OnlyOneChooses
<1>9. Latest(t, m)' /\ clearedR'[t] <= m
  BY <1>1, <1>6 DEF OwnInv, CallInv, PickedInv, Latest, Pc
<1>10. ~SnapshotRYW => \A s \in Prefixes : IsLast(snapC'[t], s) => m = NewStart(s, snapC'[t][s])
  <2> SUFFICES ASSUME ~SnapshotRYW, NEW s \in Prefixes, IsLast(snapC[t], s)
               PROVE  m = NewStart(s, snapC[t][s])
    BY <1>1
  <2>1. IsLast(snapC[t], start) /\ count = snapC[t][start]
    BY <1>1, <1>2 DEF AttemptInv, ReadC
  <2>2. s = start
    BY <1>1, <1>2, <2>1, LastUnique DEF TypeOK, CallState
  <2> QED  BY <1>2, <2>1, <2>2
<1>11. \A j \in Slots : call'[t][j].pc = "picked" => call'[t][j].start = m /\ call'[t][j].candidate < After(m)
  BY <1>6, <1>7 DEF Pc
<1>12. addC'[t][m] > 0
  BY <1>3
<1>13. Reached(t, m)'
  BY <1>3, <1>8, <1>9, <1>10, <1>11, <1>12 DEF Reached, Pc
<1>14. \A q \in setR'[t] : q \in checked'[t] /\ q \notin snapR'[t]
  BY <1>1, <1>3, <1>6 DEF AttemptInv
<1>15. \A j \in Slots : call'[t][j].pc # "counted"
  BY <1>6, <1>7 DEF Pc
<1> QED  BY <1>1, <1>3, <1>13, <1>14, <1>15 DEF AttemptInv, Pc

LEMMA CallStepAttempt ==
  ASSUME ~Concurrent, Inv, Inv', NEW t \in Txns, NEW i \in Slots, CallStep(t, i),
         AttemptInv(t), t \in active => SnapshotInv(t)
  PROVE  AttemptInv(t)'
<1>1. ASSUME OpenWindow(t, i)
      PROVE  t \in active
  BY <1>1 DEF OpenWindow, Inv, OwnInv, OneByOne, Pc
<1> QED
  BY <1>1, ReadCounterAttempt, OpenWindowAttempt, TakeAttempt, PickAgainAttempt DEF CallStep

-----------------------------------------------------------------------------
(* The snapshots, the commit and the theorems about the counters.          *)

LEMMA CallStepSnapshots ==
  ASSUME TypeOK, Counting(counters, recent), NEW t \in Txns, NEW i \in Slots, CallStep(t, i),
         \A u \in active : SnapshotInv(u)
  PROVE  /\ UNCHANGED <<counters, recent>>
         /\ \A u \in active' : SnapshotInv(u)'
<1>1. UNCHANGED <<counters, recent, dirty>>
  BY DEF CallStep, ReadCounter, OpenWindow, Take, PickAgain, storeVars
<1>2. ASSUME NEW u \in active, UNCHANGED <<snapC[u], snapR[u]>>
      PROVE  SnapshotInv(u)'
  BY <1>1, <1>2 DEF SnapshotInv
<1>3. CASE ReadCounter(t, i) /\ t \notin active
  <2>1. /\ active' = active \cup {t}
        /\ snapC' = [snapC EXCEPT ![t] = counters]
        /\ snapR' = [snapR EXCEPT ![t] = recent]
    BY <1>3 DEF ReadCounter
  <2>2. snapC'[t] = counters /\ snapR'[t] = recent
    BY <2>1 DEF TypeOK
  <2>3. SnapshotInv(t)'
    BY <1>1, <2>2 DEF SnapshotInv
  <2>4. \A u \in active : UNCHANGED <<snapC[u], snapR[u]>>
    BY <1>3, <2>1 DEF TypeOK
  <2> QED  BY <1>1, <1>2, <2>1, <2>3, <2>4
<1>4. CASE ReadCounter(t, i) /\ t \in active
  BY <1>1, <1>2, <1>4 DEF ReadCounter
<1>5. CASE OpenWindow(t, i) \/ Take(t, i) \/ PickAgain(t, i)
  BY <1>1, <1>2, <1>5 DEF OpenWindow, Take, PickAgain
<1> QED  BY <1>1, <1>3, <1>4, <1>5 DEF CallStep

\* A commit without a conflict takes prefixes that no one has taken, and counts them.
LEMMA CommitCounts ==
  ASSUME Inv, CountInv, NEW t \in Txns, AllDone(t), ~Conflict(t), Apply(t)
  PROVE  Counting(counters', recent')
<1>1. /\ TypeOK /\ t \in active /\ AttemptInv(t) /\ SnapshotInv(t)
      /\ counters \in CounterMap /\ recent \in SUBSET Prefixes
  BY AllDoneActive DEF Inv, TypeInv, TypeOK, CountInv
<1>2. ~Nothing(t) /\ ~Choosing(t)
  <2>1. 1 \in Slots
    BY CallsAssumption DEF Slots
  <2> QED  BY <2>1 DEF Nothing, Choosing, AllDone, Pc
<1>3. PICK m \in Prefixes : Reached(t, m)
  BY <1>1, <1>2 DEF AttemptInv
<1>4. setR[t] \cap recent = {}
  BY <1>1 DEF AttemptInv, SnapshotInv, Conflict
<1>5. PICK l \in Prefixes : Exact(counters, recent, l)
  BY DEF CountInv, Counting
<1>6. Exact(ApplyC(t, counters), ApplyR(t, recent), IF m < l THEN l ELSE m)
  BY <1>1, <1>2, <1>3, <1>4, <1>5, AppliedExact
<1>7. PICK s \in Prefixes : s = IF m < l THEN l ELSE m
  OBVIOUS
<1>8. Exact(counters', recent', s)
  BY <1>6, <1>7 DEF Apply
<1> QED  BY <1>8 DEF Counting

LEMMA ApplySnapshots ==
  ASSUME TypeOK, NEW t \in Txns, Apply(t), Reset(t), \A u \in active : SnapshotInv(u)
  PROVE  \A u \in active' : SnapshotInv(u)'
<1> SUFFICES ASSUME NEW u \in active'  PROVE SnapshotInv(u)'
  OBVIOUS
<1>1. u \in active \ {t} /\ u \in Txns
  BY DEF Reset, TypeOK
<1>2. UNCHANGED <<snapC[u], snapR[u]>>
  BY <1>1, ResetFrame DEF OwnUnchanged
<1>3. dirty'[u] = dirty[u] \cup Written(t)
  BY <1>1 DEF Apply
<1>4. \A p \in recent' : p \in recent \/ p \in Written(t)
  BY DEF Apply, ApplyR, Written
<1> QED  BY <1>1, <1>2, <1>3, <1>4 DEF SnapshotInv

LEMMA DropSnapshots ==
  ASSUME TypeOK, NEW t \in Txns, Drop(t), Reset(t), \A u \in active : SnapshotInv(u)
  PROVE  \A u \in active' : SnapshotInv(u)'
<1> SUFFICES ASSUME NEW u \in active'  PROVE SnapshotInv(u)'
  OBVIOUS
<1>1. u \in active \ {t} /\ u \in Txns
  BY DEF Reset, TypeOK
<1>2. UNCHANGED <<snapC[u], snapR[u]>>
  BY <1>1, ResetFrame DEF OwnUnchanged
<1>3. UNCHANGED <<dirty[u], recent>>
  BY <1>1 DEF Drop, TypeOK, storeVars
<1> QED  BY <1>1, <1>2, <1>3 DEF SnapshotInv

LEMMA InitCounts == Init => CountInv
<1> SUFFICES ASSUME Init  PROVE CountInv
  OBVIOUS
<1>1. 0 \in Starts /\ 0 \in Prefixes
  BY StartsClosed, BoundsAssumption DEF Prefixes
<1>2. counters = NoCounters /\ recent = {} /\ active = {}
  BY DEF Init
<1>3. Exact(counters, recent, 0)
  <2>1. IsLast(counters, 0) /\ counters[0] = 0
    BY <1>1, <1>2 DEF IsLast, NoCounters
  <2>2. Cardinality(From(recent, 0)) = 0
    BY <1>2, FromEmpty
  <2> QED  BY <1>1, <1>2, <2>1, <2>2 DEF Exact
<1>4. ASSUME NEW t \in Txns
      PROVE  AttemptInv(t)
  <2>1. /\ addC[t] = NoCounters /\ setR[t] = {} /\ clearedC[t] = 0 /\ clearedR[t] = 0
        /\ \A i \in Slots : call[t][i].pc = "idle"
    BY DEF Init, IdleCall
  <2> QED  BY <2>1 DEF AttemptInv, Nothing, Pc
<1> QED  BY <1>1, <1>2, <1>3, <1>4 DEF CountInv, Counting

LEMMA CountStep ==
  ASSUME ~Concurrent
  PROVE  CountInv /\ Inv /\ Inv' /\ [Next]_vars => CountInv'
<1> SUFFICES ASSUME CountInv, Inv, Inv', [Next]_vars  PROVE CountInv'
  OBVIOUS
<1>1. TypeOK /\ \A u \in active : u \in Txns
  BY DEF Inv, TypeInv, TypeOK
<1>2. /\ Counting(counters, recent)
      /\ \A u \in active : SnapshotInv(u)
      /\ \A u \in Txns : AttemptInv(u)
  BY DEF CountInv
<1>3. ASSUME NEW t \in Txns, NEW i \in Slots, CallStep(t, i)
      PROVE  CountInv'
  <2>1. UNCHANGED <<counters, recent>> /\ \A u \in active' : SnapshotInv(u)'
    BY <1>1, <1>2, <1>3, CallStepSnapshots
  <2>2. AttemptInv(t)'
    BY <1>2, <1>3, CallStepAttempt
  <2>3. \A u \in Txns : u # t => AttemptInv(u)'
    BY <1>1, <1>2, <1>3, CallStepFrame, AttemptFrame
  <2> QED  BY <1>2, <2>1, <2>2, <2>3 DEF CountInv
<1>4. ASSUME NEW t \in Txns, CommitStep(t) \/ CommitUnknown(t) \/ Fault(t)
      PROVE  CountInv'
  <2>1. Reset(t) /\ (Drop(t) \/ (Apply(t) /\ AllDone(t) /\ ~Conflict(t)))
    BY <1>4 DEF CommitStep, Commit, CommitConflict, CommitUnknown, Fault
  <2>2. \A u \in Txns : AttemptInv(u)'
    BY <1>1, <1>2, <2>1, ResetAttempt, ResetFrame, AttemptFrame
  <2>3. Counting(counters', recent') /\ \A u \in active' : SnapshotInv(u)'
    <3>1. CASE Drop(t)
      <4>1. UNCHANGED <<counters, recent>>
        BY <3>1 DEF Drop, storeVars
      <4> QED  BY <1>1, <1>2, <2>1, <3>1, <4>1, DropSnapshots
    <3>2. CASE Apply(t) /\ AllDone(t) /\ ~Conflict(t)
      BY <1>1, <1>2, <2>1, <3>2, CommitCounts, ApplySnapshots
    <3> QED  BY <2>1, <3>1, <3>2
  <2> QED  BY <2>2, <2>3 DEF CountInv
<1>5. CASE UNCHANGED vars
  <2>1. \A u \in Txns : OwnUnchanged(u)
    BY <1>5 DEF OwnUnchanged, vars, txVars, writeVars
  <2>2. \A u \in Txns : AttemptInv(u)'
    BY <1>2, <2>1, AttemptFrame
  <2>3. UNCHANGED <<counters, recent, active, dirty, snapC, snapR>>
    BY <1>5 DEF vars, txVars, storeVars
  <2>4. \A u \in active' : SnapshotInv(u)'
    BY <1>2, <2>3 DEF SnapshotInv
  <2> QED  BY <1>2, <2>2, <2>3, <2>4 DEF CountInv
<1> QED  BY <1>3, <1>4, <1>5 DEF Next

\* The counter that a call reads to decide whether its window is half full is right:
\* it counts the prefixes taken in the window exactly, however stale the transactions
\* that add to it, clear it or take prefixes behind it.
THEOREM CountedExactly ==
  ASSUME ~Concurrent
  PROVE  Spec => []CounterExact
<1>1. Init => Inv /\ CountInv
  BY InitInv, InitCounts
<1>2. Inv /\ CountInv /\ [Next]_vars => Inv' /\ CountInv'
  BY InvStep, CountStep
<1>3. Inv /\ CountInv => CounterExact
  <2> SUFFICES ASSUME Inv, CountInv, NEW s \in Prefixes, IsLast(counters, s)
               PROVE  counters[s] = Cardinality({p \in recent : p >= s})
    BY DEF CounterExact
  <2>1. PICK l \in Prefixes : Exact(counters, recent, l)
    BY DEF CountInv, Counting
  <2>2. s = l
    BY <2>1, LastUnique DEF Exact, Inv, TypeInv, TypeOK
  <2> QED  BY <2>1, <2>2 DEF Exact, From
<1> QED  BY <1>1, <1>2, <1>3, PTL DEF Spec

-----------------------------------------------------------------------------
(* The candidates.  An attempt that sees its own counters counts every     *)
(* prefix it sees as taken in its window, so that a window it leaves open  *)
(* is less than half full, and the window it moves to is empty.            *)

Roomy(t) ==
  \A i \in Slots : Pc(t, i) = "picked" =>
    2 * (Cardinality(ViewR(t) \cap Window(call[t][i].start)) + 1) < windowSize(call[t][i].start)

LEMMA RoomyFrame ==
  ASSUME NEW u \in Txns, Roomy(u), OwnUnchanged(u)
  PROVE  Roomy(u)'
<1>1. ViewR(u)' = ViewR(u)
  BY DEF OwnUnchanged, ViewR, ApplyR
<1>2. call'[u] = call[u]
  BY DEF OwnUnchanged
<1> QED  BY <1>1, <1>2, Zenon DEF Roomy, Pc

LEMMA ViewFinite ==
  ASSUME TypeOK, NEW t \in Txns
  PROVE  ViewR(t) \in SUBSET Prefixes
BY ApplyType DEF ViewR, TypeOK

\* A window that is opened has room, whether it is kept or moved to.
LEMMA OpenWindowRoom ==
  ASSUME SnapshotRYW, \A w \in {SmallWindow, MidWindow, BigWindow} : w > 2,
         Inv, NEW t \in active, NEW i \in Slots, AttemptInv(t), SnapshotInv(t), OpenWindow(t, i),
         NEW start, NEW count, start = call[t][i].start, count = call[t][i].count,
         NEW m, m = NewStart(start, count)
  PROVE  2 * (Cardinality(ViewR(t)' \cap Window(m)) + 1) < windowSize(m)
<1>1. /\ TypeOK /\ t \in Txns /\ Pc(t, i) = "counted" /\ UNCHANGED snapR
      /\ snapR[t] \in SUBSET Prefixes /\ setR[t] \in SUBSET Prefixes
      /\ clearedR[t] \in Nat
  BY DEF Inv, TypeInv, TypeOK, OpenWindow, Pc
<1>2. /\ start \in Starts /\ start \in Prefixes /\ count \in Nat
      /\ \A p \in snapR[t] : p < After(start)
      /\ Exact(ReadC(t), ViewR(t), start) /\ count = ReadC(t)[start]
      /\ Nothing(t) \/ \E w \in Prefixes : Reached(t, w) /\ w = start
  BY <1>1, CountedFacts
<1>3. /\ start \in Nat /\ windowSize(start) \in Nat \ {0}
      /\ \A p \in Prefixes : p \in Nat
  BY <1>2, WindowSize, BoundsAssumption DEF Prefixes
<1>4. CASE ~Full(start, count)
  <2>1. m = start
    BY <1>4 DEF NewStart
  <2>2. ViewR(t)' = ViewR(t)
    <3>1. UNCHANGED <<clearedR, setR>>
      BY <1>4 DEF OpenWindow
    <3> QED  BY <1>1, <3>1 DEF ViewR, ApplyR
  <2>3. count = Cardinality(From(ViewR(t), start))
    BY <1>2 DEF Exact
  <2>4. ViewR(t) \cap Window(start) \subseteq From(ViewR(t), start)
    BY <1>3 DEF Window, From
  <2>5. IsFiniteSet(From(ViewR(t), start))
    BY <1>1, ViewFinite, FromFinite
  <2>6. /\ Cardinality(ViewR(t) \cap Window(start)) <= count
        /\ Cardinality(ViewR(t) \cap Window(start)) \in Nat
    BY <2>3, <2>4, <2>5, FS_Subset, FS_CardinalityType
  <2>7. PICK size, n : size = windowSize(start) /\ n = Cardinality(ViewR(t) \cap Window(start))
    OBVIOUS
  <2>8. size \in Nat /\ n \in Nat /\ n <= count /\ ~((count + 1) * 2 >= size)
    BY <1>3, <1>4, <2>6, <2>7 DEF Full
  <2>9. 2 * (n + 1) < size
    BY <1>2, <2>8
  <2> QED  BY <2>1, <2>2, <2>7, <2>9
<1>5. CASE Full(start, count)
  <2>1. m = After(start) /\ m \in Nat
    BY <1>3, <1>5, AfterForward DEF NewStart, After
  <2>2. setR'[t] = {p \in setR[t] : p >= m}
    BY <1>1, <1>5 DEF OpenWindow, TypeOK
  <2>3. \A p \in setR[t] : p < After(start)
    BY <1>2 DEF Nothing, Reached
  <2>4. \A p \in ViewR(t)' : p \in Nat /\ p < m
    <3>1. \A p \in ViewR(t)' : p \in snapR[t] \/ p \in setR[t]
      BY <1>1, <2>2 DEF ViewR, ApplyR
    <3> QED  BY <1>1, <1>2, <1>3, <2>1, <2>3, <3>1
  <2>5. ViewR(t)' \cap Window(m) = {}
    <3>1. \A p \in Window(m) : p >= m /\ p \in Int
      BY <2>1 DEF Window
    <3> QED  BY <2>1, <2>4, <3>1
  <2>6. Cardinality(ViewR(t)' \cap Window(m)) = 0
    BY <2>5, FS_EmptySet
  <2>7. windowSize(m) \in Nat /\ windowSize(m) > 2
    BY <2>1, WindowSize DEF windowSize
  <2> QED  BY <2>6, <2>7
<1> QED  BY <1>4, <1>5

LEMMA CallStepRoom ==
  ASSUME ~Concurrent, SnapshotRYW, \A w \in {SmallWindow, MidWindow, BigWindow} : w > 2,
         Inv, CountInv, NEW t \in Txns, NEW i \in Slots, CallStep(t, i), Roomy(t)
  PROVE  Roomy(t)'
<1>1. TypeOK /\ OwnInv(t) /\ AttemptInv(t)
  BY DEF Inv, TypeInv, CountInv
\* No other call is choosing, before or after the step.
<1>2. ASSUME \/ Pc(t, i) \in {"counted", "picked"}
             \/ Pc(t, i) = "idle" /\ \A j \in Slots : j < i => Pc(t, j) = "done",
             NEW c, Update(t, i, c)
      PROVE  /\ \A j \in Slots : call'[t][j].pc = "picked" => j = i
             /\ call'[t][i] = c
  <2>1. \A j \in Slots : j # i => Pc(t, j) \in {"idle", "done"}
    BY <1>1, <1>2, OthersAtRest
  <2>2. call'[t][i] = c /\ \A j \in Slots : j # i => call'[t][j] = call[t][j]
    BY <1>1, <1>2, UpdateCall
  <2> QED  BY <2>1, <2>2 DEF Pc
<1>3. CASE ReadCounter(t, i)
  <2>1. PICK start, n :
          Update(t, i, [pc |-> "counted", start |-> start, count |-> n,
                        candidate |-> 0, free |-> FALSE])
    BY <1>3 DEF ReadCounter
  <2>2. Pc(t, i) = "idle" /\ \A j \in Slots : j < i => Pc(t, j) = "done"
    BY <1>3 DEF ReadCounter, Pc
  <2>3. \A j \in Slots : call'[t][j].pc # "picked"
    BY <1>2, <2>1, <2>2
  <2> QED  BY <2>3 DEF Roomy, Pc
<1>4. CASE OpenWindow(t, i)
  <2>1. Pc(t, i) = "counted" /\ t \in active /\ SnapshotInv(t)
    BY <1>1, <1>4 DEF OpenWindow, OwnInv, OneByOne, CountInv, Pc
  <2>2. PICK start, count, m : start = call[t][i].start /\ count = call[t][i].count /\ m = NewStart(start, count)
    OBVIOUS
  <2>3. 2 * (Cardinality(ViewR(t)' \cap Window(m)) + 1) < windowSize(m)
    BY <1>1, <1>4, <2>1, <2>2, OpenWindowRoom
  <2>4. PICK p : PickFrom(t, i, m, p)
    BY <1>4, <2>2 DEF OpenWindow
  <2>5. PICK free : Update(t, i, [pc |-> "picked", start |-> m, count |-> call[t][i].count,
                                  candidate |-> p, free |-> free])
    BY <2>4 DEF PickFrom
  <2>6. (\A j \in Slots : call'[t][j].pc = "picked" => j = i) /\ call'[t][i].start = m
    BY <1>2, <2>1, <2>5
  <2> QED  BY <2>3, <2>6, Zenon DEF Roomy, Pc
<1>5. CASE Take(t, i)
  <2>1. Pc(t, i) = "picked" /\ Update(t, i, [call[t][i] EXCEPT !.pc = "done"])
    BY <1>5 DEF Take, Pc
  <2>2. [call[t][i] EXCEPT !.pc = "done"].pc = "done"
    BY <1>1 DEF TypeOK, CallState
  <2>3. \A j \in Slots : call'[t][j].pc # "picked"
    BY <1>2, <2>1, <2>2
  <2> QED  BY <2>3 DEF Roomy, Pc
<1>6. CASE PickAgain(t, i)
  <2>1. Pc(t, i) = "picked" /\ UNCHANGED <<clearedR, setR, snapR>>
    BY <1>6 DEF PickAgain, writeVars, Pc
  <2>2. PICK p : PickFrom(t, i, call[t][i].start, p)
    BY <1>6 DEF PickAgain
  <2>3. PICK free : Update(t, i, [pc |-> "picked", start |-> call[t][i].start, count |-> call[t][i].count,
                                  candidate |-> p, free |-> free])
    BY <2>2 DEF PickFrom
  <2>4. (\A j \in Slots : call'[t][j].pc = "picked" => j = i) /\ call'[t][i].start = call[t][i].start
    BY <1>2, <2>1, <2>3
  <2>5. ViewR(t)' = ViewR(t)
    BY <2>1 DEF ViewR, ApplyR
  <2> QED  BY <2>1, <2>4, <2>5, Zenon DEF Roomy, Pc
<1> QED  BY <1>3, <1>4, <1>5, <1>6 DEF CallStep

LEMMA RoomStep ==
  ASSUME ~Concurrent, SnapshotRYW, \A w \in {SmallWindow, MidWindow, BigWindow} : w > 2
  PROVE  HalfFree /\ CountInv /\ Inv /\ [Next]_vars => HalfFree'
<1> SUFFICES ASSUME HalfFree, CountInv, Inv, [Next]_vars  PROVE HalfFree'
  OBVIOUS
<1>1. TypeOK /\ \A u \in Txns : Roomy(u)
  BY Zenon DEF Inv, TypeInv, HalfFree, Roomy, Pc
<1>2. ASSUME \A u \in Txns : Roomy(u)'
      PROVE  HalfFree'
  BY <1>2, Zenon DEF HalfFree, Roomy, Pc
<1>3. ASSUME NEW t \in Txns, NEW i \in Slots, CallStep(t, i)
      PROVE  HalfFree'
  <2>1. Roomy(t)'
    BY <1>1, <1>3, CallStepRoom
  <2>2. \A u \in Txns : u # t => Roomy(u)'
    BY <1>1, <1>3, CallStepFrame, RoomyFrame
  <2> QED  BY <1>2, <2>1, <2>2
<1>4. ASSUME NEW t \in Txns, CommitStep(t) \/ CommitUnknown(t) \/ Fault(t)
      PROVE  HalfFree'
  <2>1. Reset(t)
    BY <1>4 DEF CommitStep, Commit, CommitConflict, CommitUnknown, Fault
  <2>2. \A u \in Txns : u # t => Roomy(u)'
    BY <1>1, <2>1, ResetFrame, RoomyFrame
  <2>3. \A i \in Slots : call'[t][i].pc = "idle"
    BY <1>1, <2>1, ResetCall DEF IdleCall
  <2>4. Roomy(t)'
    BY <2>3 DEF Roomy, Pc
  <2> QED  BY <1>2, <2>2, <2>4
<1>5. CASE UNCHANGED vars
  <2>1. \A u \in Txns : OwnUnchanged(u)
    BY <1>5 DEF OwnUnchanged, vars, txVars, writeVars
  <2> QED  BY <1>1, <1>2, <2>1, RoomyFrame
<1> QED  BY <1>3, <1>4, <1>5 DEF Next

\* A call never searches a window that is half full: every candidate it draws is free
\* with a chance above one half, when its snapshot reads see its own writes (option
\* snapshot_ryw_enable) and windows are larger than 2 (the code's have 64 at least).
THEOREM SearchHasRoom ==
  ASSUME ~Concurrent, SnapshotRYW, \A w \in {SmallWindow, MidWindow, BigWindow} : w > 2
  PROVE  Spec => []HalfFree
<1>1. Init => Inv /\ CountInv
  BY InitInv, InitCounts
<1>2. Init => HalfFree
  BY DEF Init, HalfFree, IdleCall
<1>3. Inv /\ CountInv /\ HalfFree /\ [Next]_vars => Inv' /\ CountInv' /\ HalfFree'
  BY InvStep, CountStep, RoomStep
<1> QED  BY <1>1, <1>2, <1>3, PTL DEF Spec
=============================================================================
