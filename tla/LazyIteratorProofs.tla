--------------------------- MODULE LazyIteratorProofs ---------------------------
(***************************************************************************)
(* Proofs about LazyIterator: its invariant is inductive, the rows of each *)
(* loop come in order, and the iterator implements RangeScan, for any      *)
(* ranges, limits, loops, calls of next and failing reads.                 *)
(*                                                                         *)
(* Its steps are of five kinds: a loop or a call of next goes on in its    *)
(* state (LoopMoves, NextMoves), a fetch or a copy of the start state      *)
(* wakes those who wait (Awakes, StartAnswers), and a new consumer waits   *)
(* for the start state (WaitsForStart).                                    *)
(***************************************************************************)
EXTENDS LazyIterator, TLAPS, FiniteSetTheorems

Consumers == {ForNext} \cup Loops
EntryType == [state : Iters, cb : Consumers \cup Calls, err : BOOLEAN]

-----------------------------------------------------------------------------
(* One state.                                                              *)

\* A copy that waits for the start state.
Waiting(st) == st.fetcher = Undefined

\* The rows that have been taken from a state.
Consumed(st) ==
  IF st.fetcher = Undefined THEN 0
  ELSE IF st.results = Undefined THEN st.fetcher.pos
  ELSE st.fetcher.pos - Len(st.results) + Least(st.index + 1, Len(st.results))

\* What remains of the limit is what the rows behind the fetcher have left of it.
FetcherOK(f) ==
  /\ f \in FetcherType /\ f.pos <= Total
  /\ use.limit = 0 => f.limit = 0
  /\ use.limit # 0 => f.limit + f.pos = use.limit /\ (f.limit = 0 => f.finished)
  /\ f.finished => f.pos = Total

\* The results are the last rows that the fetcher has gone past.
ResultsOK(st) ==
  /\ st.results = Undefined => st.index = -1
  /\ st.results # Undefined =>
       /\ Len(st.results) <= st.fetcher.pos
       /\ \A k \in DOMAIN st.results : st.results[k] = st.fetcher.pos - Len(st.results) + k
       /\ -1 <= st.index /\ st.index <= Len(st.results)

\* A state fetches only when its rows are given and its fetcher has not finished.
StateOK(s, st) ==
  /\ st \in IterType(s)
  /\ Waiting(st) => st.fetching /\ st.finished = FALSE /\ st.results = Undefined /\ st.index = -1
  /\ ~Waiting(st) => FetcherOK(st.fetcher) /\ ResultsOK(st)
  /\ ~Waiting(st) /\ (st.fetching \/ st.finished) => Consumed(st) = st.fetcher.pos
  /\ ~Waiting(st) /\ st.fetching => st.fetcher.finished = FALSE
  /\ st.fetching => st.finished = FALSE
  /\ ~st.fetching => st.callbacks = <<>>

\* A state whose fetch has just brought rows.
Fresh(st) == st.index = -1 /\ st.results # Undefined /\ st.results # <<>>

-----------------------------------------------------------------------------
(* The inductive invariant.                                                *)

Created == UNION {IterType(s) : s \in Iters}
SomeState == Created \cup {Undefined}

TypeInv ==
  /\ use \in Uses
  /\ iter \in [Iters -> SomeState]
  /\ run \in Seq(EntryType)
  /\ user \in {Undefined, "next"} \cup Loops
  /\ made \in 0 .. NumCalls /\ errors \in 0 .. MaxErrors
  /\ out \in [Loops -> Seq(Nat)]
  /\ outcome \in [Loops -> {"idle"} \cup Reading \cup Ends]
  /\ answer \in [Calls -> {Pending, End, Error} \cup 1 .. use.rows]

StateInv == \A s \in Iters : iter[s] # Undefined => StateOK(s, iter[s])

\* Nobody takes rows from the start state, each copy waits for it once, and what
\* ends it is an error or an empty range.
StartInv ==
  LET st == iter[Start] IN
  /\ st # Undefined /\ ~Waiting(st) /\ st.index = -1 /\ Consumed(st) = 0
  /\ ~st.fetching /\ st.results \in {Undefined, <<>>} => st.finished
  /\ ~st.fetching /\ st.finished => st.results \in {Undefined, <<>>}
  /\ st.results = <<>> => Total = 0
  /\ \A i, j \in DOMAIN st.callbacks : i # j => st.callbacks[i] # st.callbacks[j]
  /\ \A i \in DOMAIN st.callbacks :
       iter[st.callbacks[i]] # Undefined /\ Waiting(iter[st.callbacks[i]])

\* What a callback that has still to run will find.
EntryOK(e) ==
  /\ e.state = Start =>
       /\ e.cb \in Consumers /\ iter[e.cb] # Undefined /\ Waiting(iter[e.cb])
       /\ ~iter[Start].fetching
       /\ e.err => iter[Start].finished
       /\ ~e.err /\ iter[Start].finished => Total = 0
  /\ e.state # Start =>
       /\ iter[e.state] # Undefined /\ ~Waiting(iter[e.state])
       /\ e.err => iter[e.state].finished
  /\ e.state \in Loops =>
       /\ e.cb = e.state /\ outcome[e.state] = "fetching" /\ ~iter[e.state].fetching
       /\ ~iter[e.state].finished => Fresh(iter[e.state])
  /\ e.state = ForNext =>
       /\ e.cb \in 1 .. made /\ answer[e.cb] = Pending
       /\ \A i \in DOMAIN iter[ForNext].callbacks : iter[ForNext].callbacks[i] # e.cb

Distinct(r) ==
  \A i, j \in DOMAIN r : i # j => r[i].state # r[j].state \/ r[i].cb # r[j].cb

\* No callback of a turn runs twice.
EntriesOK(r) == Distinct(r) /\ \A i \in DOMAIN r : EntryOK(r[i])

RunInv == EntriesOK(run)

\* A loop has been given just the rows taken from its state.
LoopOK(c, st, how) ==
  /\ st.fetching => how = "fetching" /\ st.callbacks = <<c>>
  /\ how = "inFunc" => ~st.finished
  /\ c \notin ForEach /\ st.results # Undefined => st.index = -1 \/ st.index = Len(st.results)

LoopInv ==
  \A c \in Loops :
    /\ outcome[c] = "idle" <=> iter[c] = Undefined
    /\ iter[c] = Undefined => out[c] = <<>>
    /\ \A k \in DOMAIN out[c] : out[c][k] = k
    /\ iter[c] # Undefined => Len(out[c]) = Consumed(iter[c]) /\ LoopOK(c, iter[c], outcome[c])

\* The calls of next share the rows taken from their state, and each waits once.
Taken == IF iter[ForNext] = Undefined THEN 0 ELSE Consumed(iter[ForNext])
NextWaits == IF iter[ForNext] = Undefined THEN <<>> ELSE iter[ForNext].callbacks

WaitsOK(cbs) ==
  /\ \A i \in DOMAIN cbs : cbs[i] \in 1 .. made /\ answer[cbs[i]] = Pending
  /\ \A i, j \in DOMAIN cbs : i # j => cbs[i] # cbs[j]

NextInv ==
  /\ iter[ForNext] = Undefined => made = 0
  /\ iter[ForNext] # Undefined /\ iter[ForNext].fetching => iter[ForNext].callbacks # <<>>
  /\ \A n \in Calls : n > made => answer[n] = Pending
  /\ IsFiniteSet(Given) /\ Cardinality(Given) = Taken
  /\ WaitsOK(NextWaits)

\* A state is finished when its rows are at an end, or after an error: one that its
\* consumer has been told of or is told of next, before anything else can run.
ErrorNext(s) == run # <<>> /\ Head(run).state = s /\ Head(run).err /\ user = Undefined

FinishedInv ==
  /\ \A c \in Loops : iter[c] # Undefined /\ iter[c].finished =>
       Consumed(iter[c]) = Total \/ outcome[c] = "error" \/ ErrorNext(c)
  /\ iter[ForNext] # Undefined /\ iter[ForNext].finished =>
       Consumed(iter[ForNext]) = Total \/ (\E m \in Calls : answer[m] = Error) \/ ErrorNext(ForNext)

\* Calls of next that are not made in callbacks wait in the order they are made in:
\* those that have to wait again first, then those whose callback has still to run.
Held(r, n) == \E i \in DOMAIN r : r[i].state = ForNext /\ r[i].cb = n

Ordered(cbs, r, m) ==
  /\ \A n \in 1 .. m : answer[n] = Pending => (\E i \in DOMAIN cbs : cbs[i] = n) \/ Held(r, n)
  /\ \A i, j \in DOMAIN cbs : i < j => cbs[i] < cbs[j]
  /\ \A i, j \in DOMAIN r :
       i < j /\ r[i].state = ForNext /\ r[j].state = ForNext => r[i].cb < r[j].cb
  /\ \A i \in DOMAIN cbs, j \in DOMAIN r : r[j].state = ForNext => cbs[i] < r[j].cb

OrderInv == ~use.reentrant => Ordered(NextWaits, run, made)

Inv ==
  /\ TypeInv /\ StateInv /\ StartInv /\ RunInv
  /\ LoopInv /\ NextInv /\ FinishedInv /\ OrderInv

-----------------------------------------------------------------------------
(* Facts about one state.                                                  *)

LEMMA UseFacts ==
  ASSUME use \in Uses
  PROVE  /\ use.rows \in Nat /\ use.limit \in Nat /\ Total \in Nat /\ Total <= use.rows
         /\ use.limit = 0 => Total = use.rows
         /\ use.limit # 0 => Total = Least(use.rows, use.limit) /\ Total <= use.limit
<1>1. use.rows \in Nat /\ use.limit \in Nat
  BY UsesAssumption
<1> QED  BY <1>1 DEF Total, Least

LEMMA SomeStates ==
  /\ Undefined \in SomeState
  /\ \A s \in Iters : \A st \in IterType(s) : st \in SomeState
<1>1. \A s \in Iters : \A st \in IterType(s) : st \in Created
  BY DEF Created
<1> QED  BY <1>1 DEF SomeState

LEMMA NamesDiffer ==
  /\ Start # ForNext /\ Start \notin Loops /\ ForNext \notin Loops
  /\ Undefined \notin Loops
BY NamesAssumption DEF Start, ForNext

\* The fields of a state have their types.
LEMMA Fields ==
  ASSUME NEW s \in Iters, NEW st \in IterType(s)
  PROVE  /\ st.index \in Int /\ st.fetching \in BOOLEAN /\ st.finished \in BOOLEAN
         /\ st.callbacks \in Seq(Waiters(s))
         /\ st.results # Undefined => st.results \in Seq(Nat) /\ Len(st.results) \in Nat
                                      /\ DOMAIN st.results = 1 .. Len(st.results)
         /\ st.fetcher # Undefined => st.fetcher \in FetcherType
         /\ st # Undefined
BY UndefinedAssumption DEF IterType

\* State st with its index moved, and what ends it.
At(st, index) ==
  [index |-> index, results |-> st.results, fetching |-> st.fetching,
   callbacks |-> st.callbacks, finished |-> st.finished, fetcher |-> st.fetcher]

Ended(st) ==
  [index |-> -1, results |-> Undefined, fetching |-> FALSE,
   callbacks |-> <<>>, finished |-> TRUE, fetcher |-> st.fetcher]

LEMMA SteppedStates ==
  ASSUME NEW s \in Iters, NEW st \in IterType(s), NEW index, NEW cb
  PROVE  /\ [st EXCEPT !.index = index] = At(st, index)
         /\ [st EXCEPT !.index = @ + 1] = At(st, st.index + 1)
         /\ Arrived([st EXCEPT !.callbacks = Append(@, cb)], st.fetcher, Undefined) = Ended(st)
<1>1. PICK same : same = [index |-> st.index, results |-> st.results, fetching |-> st.fetching,
                        callbacks |-> st.callbacks, finished |-> st.finished, fetcher |-> st.fetcher]
  OBVIOUS
<1>2. same = st
  BY <1>1 DEF IterType
<1>3. [same EXCEPT !.index = index] = At(st, index)
  BY <1>1 DEF At
<1>4. [same EXCEPT !.index = @ + 1] = At(st, st.index + 1)
  BY <1>1 DEF At
<1>5. PICK joined : joined = [same EXCEPT !.callbacks = Append(@, cb)]
  OBVIOUS
<1>6. joined = [index |-> st.index, results |-> st.results, fetching |-> st.fetching,
                callbacks |-> Append(st.callbacks, cb), finished |-> st.finished, fetcher |-> st.fetcher]
  BY <1>1, <1>5
<1>7. Arrived(joined, st.fetcher, Undefined) = Ended(st)
  <2>1. Arrived(joined, st.fetcher, Undefined)
          = [joined EXCEPT !.fetching = FALSE, !.callbacks = <<>>, !.results = Undefined,
                           !.index = -1, !.finished = TRUE, !.fetcher = st.fetcher]
    BY DEF Arrived
  <2> QED  BY <1>6, <2>1 DEF Ended
<1> QED  BY <1>2, <1>3, <1>4, <1>5, <1>7

\* Rows are taken one by one ...
LEMMA TakeRow ==
  ASSUME use \in Uses, NEW s \in Iters, NEW st, StateOK(s, st), ~st.finished, HasRow(st),
         NEW to, to = At(st, st.index + 1)
  PROVE  /\ StateOK(s, to) /\ Consumed(to) = Consumed(st) + 1
         /\ st.results[st.index + 2] = Consumed(st) + 1
         /\ Consumed(st) + 1 \in 1 .. Total
         /\ ~st.fetching /\ ~Waiting(st) /\ ~Waiting(to) /\ to.results = st.results
         /\ to.fetching = st.fetching /\ to.finished = st.finished /\ to.callbacks = st.callbacks
<1>1. st \in IterType(s) /\ ~Waiting(st) /\ FetcherOK(st.fetcher) /\ ResultsOK(st)
  BY DEF StateOK, HasRow
<1>2. /\ st.index \in Int /\ st.results # Undefined /\ st.results \in Seq(Nat)
      /\ Len(st.results) \in Nat /\ DOMAIN st.results = 1 .. Len(st.results)
      /\ st.fetcher \in FetcherType /\ st.fetching \in BOOLEAN
  BY <1>1, Fields DEF HasRow, Waiting
<1>3. st.fetcher.pos \in Nat /\ st.fetcher.pos <= Total /\ Total \in Nat
  BY <1>1, <1>2, UseFacts DEF FetcherOK, FetcherType
<1>4. st.index + 1 < Len(st.results) /\ -1 <= st.index /\ Len(st.results) <= st.fetcher.pos
  BY <1>1, <1>2 DEF ResultsOK, HasRow
<1> DEFINE pos == st.fetcher.pos
           len == Len(st.results)
           at == st.index
<1>a. pos \in Nat /\ len \in Nat /\ at \in Int /\ at + 1 < len /\ -1 <= at /\ len <= pos /\ pos <= Total
  BY <1>2, <1>3, <1>4
<1>5. Consumed(st) = pos - len + at + 1
  <2>1. Consumed(st) = pos - len + Least(at + 1, len)
    BY <1>1, <1>2 DEF Consumed, Waiting
  <2> HIDE DEF pos, len, at
  <2>2. Least(at + 1, len) = at + 1
    BY <1>a DEF Least
  <2> QED  BY <1>a, <2>1, <2>2
<1>6. /\ to \in IterType(s) /\ to.index = st.index + 1 /\ to.results = st.results
      /\ to.fetching = st.fetching /\ to.finished = st.finished
      /\ to.callbacks = st.callbacks /\ to.fetcher = st.fetcher
  BY <1>1, <1>2 DEF IterType, At
<1>7. Consumed(to) = pos - len + at + 2
  <2>1. Consumed(to) = pos - len + Least((at + 1) + 1, len)
    BY <1>1, <1>2, <1>6 DEF Consumed, Waiting
  <2> HIDE DEF pos, len, at
  <2>2. Least((at + 1) + 1, len) = at + 2
    BY <1>a DEF Least
  <2> QED  BY <1>a, <2>1, <2>2
<1>8. ~st.fetching
  <2>1. st.fetching => Consumed(st) = pos
    BY <1>1 DEF StateOK
  <2> HIDE DEF pos, len, at
  <2> QED  BY <1>a, <1>5, <2>1
<1>9. st.results[st.index + 2] = Consumed(st) + 1
  <2>1. at + 2 \in DOMAIN st.results
    <3> HIDE DEF pos, at
    <3> QED  BY <1>2, <1>a
  <2>2. st.results[at + 2] = pos - len + (at + 2)
    BY <1>1, <1>2, <2>1 DEF ResultsOK
  <2>3. pos - len + (at + 2) = Consumed(st) + 1
    <3> HIDE DEF pos, len, at
    <3> QED  BY <1>a, <1>5
  <2> QED  BY <2>2, <2>3
<1>10. StateOK(s, to)
  <2>1. /\ to.results # Undefined /\ Len(to.results) <= to.fetcher.pos
        /\ \A k \in DOMAIN to.results : to.results[k] = to.fetcher.pos - Len(to.results) + k
    BY <1>1, <1>2, <1>4, <1>6 DEF ResultsOK
  <2>2. -1 <= to.index /\ to.index <= Len(to.results)
    <3>1. -1 <= at + 1 /\ at + 1 <= len
      <4> HIDE DEF at, len
      <4> QED  BY <1>a
    <3> QED  BY <1>6, <3>1
  <2>3. ResultsOK(to)
    BY <2>1, <2>2 DEF ResultsOK
  <2> QED  BY <1>1, <1>6, <1>8, <2>3 DEF StateOK, Waiting
<1>12. ~Waiting(to)
  BY <1>1, <1>6 DEF Waiting
<1>11. Consumed(st) + 1 \in 1 .. Total /\ Consumed(to) = Consumed(st) + 1
  <2> HIDE DEF pos, len, at
  <2> QED  BY <1>3, <1>a, <1>5, <1>7
<1> QED  BY <1>1, <1>6, <1>8, <1>9, <1>10, <1>11, <1>12

\* ... or all the results at once.
LEMMA TakeBatch ==
  ASSUME use \in Uses, NEW s \in Iters, NEW st, StateOK(s, st), ~st.finished, ~st.fetching,
         st.results # Undefined, st.index = -1,
         NEW to, to = At(st, Len(st.results))
  PROVE  /\ StateOK(s, to) /\ Consumed(to) = Consumed(st) + Len(st.results)
         /\ st.results \in Seq(Nat) /\ \A k \in DOMAIN st.results : st.results[k] = Consumed(st) + k
         /\ Consumed(st) \in Nat /\ Consumed(to) <= Total
         /\ ~Waiting(st) /\ ~Waiting(to) /\ to.index = Len(st.results) /\ to.results = st.results
         /\ to.fetching = st.fetching /\ to.finished = st.finished /\ to.callbacks = st.callbacks
<1>1. st \in IterType(s) /\ ~Waiting(st) /\ FetcherOK(st.fetcher) /\ ResultsOK(st)
  BY DEF StateOK
<1>2. /\ st.results \in Seq(Nat)
      /\ Len(st.results) \in Nat /\ DOMAIN st.results = 1 .. Len(st.results)
      /\ st.fetcher \in FetcherType /\ st.fetching \in BOOLEAN
  BY <1>1, Fields DEF Waiting
<1>3. st.fetcher.pos \in Nat /\ st.fetcher.pos <= Total /\ Total \in Nat
  BY <1>1, <1>2, UseFacts DEF FetcherOK, FetcherType
<1>4. Len(st.results) <= st.fetcher.pos
  BY <1>1 DEF ResultsOK
<1>5. Consumed(st) = st.fetcher.pos - Len(st.results)
  BY <1>1, <1>2, <1>3, <1>4 DEF Consumed, Least, Waiting
<1>6. /\ to \in IterType(s) /\ to.index = Len(st.results) /\ to.results = st.results
      /\ to.fetching = st.fetching /\ to.finished = st.finished
      /\ to.callbacks = st.callbacks /\ to.fetcher = st.fetcher
  BY <1>1, <1>2 DEF IterType, At
<1>7. Consumed(to) = st.fetcher.pos
  <2> QED  BY <1>1, <1>2, <1>3, <1>4, <1>6 DEF Consumed, Least, Waiting
<1>8. \A k \in DOMAIN st.results : st.results[k] = Consumed(st) + k
  BY <1>1, <1>5 DEF ResultsOK
<1>9. StateOK(s, to)
  <2>1. ResultsOK(to)
    BY <1>1, <1>2, <1>4, <1>6 DEF ResultsOK
  <2> QED  BY <1>1, <1>6, <2>1 DEF StateOK, Waiting
<1>10. ~Waiting(to)
  BY <1>1, <1>6 DEF Waiting
<1>11. Consumed(to) = Consumed(st) + Len(st.results) /\ Consumed(st) \in Nat /\ Consumed(to) <= Total
  BY <1>2, <1>3, <1>4, <1>5, <1>7
<1> QED  BY <1>1, <1>2, <1>6, <1>8, <1>9, <1>10, <1>11

\* What has no row left has given all that its fetcher has gone past.
LEMMA NothingLeft ==
  ASSUME use \in Uses, NEW s \in Iters, NEW st, StateOK(s, st), ~Waiting(st),
         ~HasRow(st) \/ st.results = Undefined \/ st.index = Len(st.results)
  PROVE  Consumed(st) = st.fetcher.pos
<1>1. st \in IterType(s) /\ ResultsOK(st)
  BY DEF StateOK
<1>2. st.index \in Int /\ st.fetcher \in FetcherType /\ st.fetcher.pos \in Nat
  BY <1>1, Fields DEF Waiting, FetcherType
<1>3. CASE st.results = Undefined
  BY <1>3 DEF Consumed, Waiting
<1>4. CASE st.results # Undefined
  <2>1. Len(st.results) \in Nat
    BY <1>1, <1>4, Fields
  <2> QED  BY <1>1, <1>2, <1>4, <2>1 DEF HasRow, ResultsOK, Consumed, Waiting, Least
<1> QED  BY <1>3, <1>4

\* The copies of the start state.
LEMMA CopiedOK ==
  ASSUME TypeInv, StateInv, StartInv, ~iter[Start].fetching, NEW s \in Consumers
  PROVE  /\ StateOK(s, Copied(iter[Start])) /\ Consumed(Copied(iter[Start])) = 0
         /\ LET st == Copied(iter[Start]) IN
            /\ ~Waiting(st) /\ ~st.fetching /\ ~st.finished /\ st.callbacks = <<>>
            /\ st.index = -1 /\ st.results = iter[Start].results
<1> DEFINE from == iter[Start]
           st == Copied(from)
<1>1. from # Undefined /\ StateOK(Start, from) /\ Start \in Iters /\ s \in Iters
  BY DEF StartInv, StateInv, Iters, Consumers
<1>2. from \in IterType(Start) /\ ~Waiting(from) /\ FetcherOK(from.fetcher) /\ ResultsOK(from)
      /\ from.index = -1 /\ Consumed(from) = 0
  BY <1>1 DEF StateOK, StartInv
<1>3. /\ from.results \in Seq(Nat) \cup {Undefined} /\ from.fetcher \in FetcherType
  BY <1>1, <1>2, Fields DEF Waiting
<1> HIDE DEF from
<1>4. /\ st.index = from.index /\ st.results = from.results /\ st.fetching = FALSE
      /\ st.callbacks = <<>> /\ st.finished = FALSE /\ st.fetcher = from.fetcher
  BY DEF Copied, IterState
<1>a. st = [index |-> from.index, results |-> from.results, fetching |-> FALSE,
            callbacks |-> <<>>, finished |-> FALSE, fetcher |-> from.fetcher]
  <2>1. st = [IterState EXCEPT !.index = from.index, !.results = from.results, !.fetcher = from.fetcher]
    BY DEF Copied
  <2> HIDE DEF st
  <2> QED  BY <2>1 DEF IterState
<1> HIDE DEF st
<1>5. st \in IterType(s)
  BY <1>2, <1>3, <1>a DEF IterType
<1>6. ~Waiting(st) /\ ResultsOK(st) /\ Consumed(st) = Consumed(from)
  BY <1>2, <1>4 DEF Waiting, ResultsOK, Consumed
<1> QED  BY <1>2, <1>4, <1>5, <1>6 DEF StateOK, st, from

LEMMA CopyArrivedOK ==
  ASSUME TypeInv, StateInv, StartInv, ~iter[Start].fetching, NEW s \in Consumers
  PROVE  /\ StateOK(s, CopyArrived(s)) /\ Consumed(CopyArrived(s)) = 0
         /\ LET st == CopyArrived(s) IN
            /\ ~Waiting(st) /\ ~st.fetching /\ st.callbacks = <<>>
            /\ st.finished = iter[Start].finished
            /\ st.index = -1 /\ st.results = iter[Start].results
<1> DEFINE from == iter[Start]
           st == CopyArrived(s)
<1>1. from # Undefined /\ StateOK(Start, from) /\ Start \in Iters /\ s \in Iters
  BY DEF StartInv, StateInv, Iters, Consumers
<1>2. /\ from \in IterType(Start) /\ ~Waiting(from) /\ FetcherOK(from.fetcher) /\ ResultsOK(from)
      /\ from.index = -1 /\ Consumed(from) = 0
      /\ from.finished => Consumed(from) = from.fetcher.pos
  BY <1>1 DEF StateOK, StartInv
<1>3. /\ from.results \in Seq(Nat) \cup {Undefined} /\ from.fetcher \in FetcherType
      /\ from.finished \in BOOLEAN
  BY <1>1, <1>2, Fields DEF Waiting
<1>4. st = [IterState EXCEPT !.index = from.index, !.results = from.results,
                             !.finished = from.finished, !.fetcher = from.fetcher]
  BY DEF CopyArrived
<1> HIDE DEF from, st
<1>5. /\ st.index = from.index /\ st.results = from.results /\ st.fetching = FALSE
      /\ st.callbacks = <<>> /\ st.finished = from.finished /\ st.fetcher = from.fetcher
  BY <1>4 DEF IterState
<1>a. st = [index |-> from.index, results |-> from.results, fetching |-> FALSE,
            callbacks |-> <<>>, finished |-> from.finished, fetcher |-> from.fetcher]
  BY <1>4 DEF IterState
<1>6. st \in IterType(s)
  BY <1>2, <1>3, <1>a DEF IterType
<1>7. ~Waiting(st) /\ ResultsOK(st) /\ Consumed(st) = Consumed(from)
  BY <1>2, <1>5 DEF Waiting, ResultsOK, Consumed
<1> QED  BY <1>2, <1>5, <1>6, <1>7 DEF StateOK, st, from

-----------------------------------------------------------------------------
(* Facts about fetches.                                                    *)

\* The iteration has to wait: it joins the fetch in flight or starts one.
LEMMA Joins ==
  ASSUME use \in Uses, NEW s \in Iters, NEW st, StateOK(s, st), NEW cb,
         ~st.finished, Waiting(st) \/ Consumed(st) = st.fetcher.pos,
         st.fetching \/ ~st.fetcher.finished,
         NEW to \in IterType(s), to.index = st.index, to.results = st.results, to.fetching,
         to.callbacks = Append(st.callbacks, cb), to.finished = st.finished, to.fetcher = st.fetcher
  PROVE  StateOK(s, to) /\ Consumed(to) = Consumed(st) /\ Waiting(to) = Waiting(st)
<1>1. st \in IterType(s) /\ to.fetching = TRUE
  BY Fields DEF StateOK
<1>2. /\ Waiting(to) = Waiting(st) /\ Consumed(to) = Consumed(st)
      /\ ResultsOK(to) = ResultsOK(st)
  BY DEF Waiting, Consumed, ResultsOK
<1>3. st.finished \in BOOLEAN /\ (~Waiting(st) => st.fetcher \in FetcherType /\ st.fetcher.finished \in BOOLEAN)
  BY <1>1, Fields DEF Waiting, FetcherType
<1>4. StateOK(s, to)
  BY <1>1, <1>2, <1>3 DEF StateOK
<1> QED  BY <1>2, <1>4

\* A finished fetcher ends the iteration at once.
LEMMA Finishes ==
  ASSUME use \in Uses, NEW s \in Consumers, NEW st, StateOK(s, st), ~Waiting(st), st.fetcher.finished,
         NEW to, to = Ended(st)
  PROVE  /\ StateOK(s, to) /\ Consumed(to) = Total /\ st.fetcher.pos = Total
         /\ ~Waiting(to) /\ ~to.fetching /\ to.finished /\ to.callbacks = <<>> /\ to.results = Undefined
<1>1. st \in IterType(s) /\ s \in Iters /\ FetcherOK(st.fetcher)
  BY DEF StateOK, Iters, Consumers
<1>2. st.fetcher \in FetcherType
  BY <1>1, Fields DEF Waiting
<1>4. /\ to \in IterType(s) /\ to.fetching = FALSE /\ to.callbacks = <<>> /\ to.results = Undefined
      /\ to.index = -1 /\ to.finished = TRUE /\ to.fetcher = st.fetcher
  <2>1. <<>> \in Seq(Waiters(s))
    OBVIOUS
  <2>2. Ended(st) \in IterType(s)
    BY <1>2, <2>1 DEF IterType, Ended
  <2> QED  BY <2>2 DEF Ended
<1>5. st.fetcher.pos = Total
  BY <1>1 DEF FetcherOK
<1>6. ~Waiting(to) /\ ResultsOK(to) /\ Consumed(to) = Total
  BY <1>4, <1>5 DEF Waiting, ResultsOK, Consumed
<1>7. StateOK(s, to)
  BY <1>1, <1>4, <1>5, <1>6 DEF StateOK
<1> QED  BY <1>4, <1>5, <1>6, <1>7

\* The rows of a batch follow the rows behind the fetcher, and a fetcher finishes
\* only at the end of the range or of the limit.
LEMMA BatchOK ==
  ASSUME use \in Uses, NEW f, FetcherOK(f), ~f.finished, NEW b \in Batches(f), NEW more \in More(f, b)
  PROVE  /\ b \in Seq(Nat) /\ Len(b) \in Nat /\ DOMAIN b = 1 .. Len(b)
         /\ \A k \in DOMAIN b : b[k] = f.pos + k
         /\ b = <<>> => f.pos = Total
         /\ FetcherOK(Fetched(f, b, more)) /\ Fetched(f, b, more).pos = f.pos + Len(b)
<1> DEFINE room == IF f.limit = 0 THEN use.rows - f.pos ELSE Least(use.rows - f.pos, f.limit)
           to == Fetched(f, b, more)
           pos == f.pos
           limit == f.limit
           rows == use.rows
           max == use.limit
<1>1. /\ pos \in Nat /\ limit \in Nat /\ f \in FetcherType /\ pos <= Total
      /\ max = 0 => limit = 0
      /\ max # 0 => limit + pos = max /\ limit # 0
  BY DEF FetcherOK, FetcherType
<1>2. /\ rows \in Nat /\ max \in Nat /\ Total \in Nat
      /\ max = 0 => Total = rows
      /\ max # 0 => Total = Least(rows, max)
  BY UseFacts
<1>3. PICK n \in Least(room, 1) .. Least(room, MaxBatch) : b = [k \in 1 .. n |-> pos + k]
  BY DEF Batches
<1> HIDE DEF pos, limit, rows, max
<1>4. room = Total - pos
  BY <1>1, <1>2 DEF Least, pos, limit, rows, max
<1> HIDE DEF room
<1>5. n \in Nat /\ n <= room /\ (n = 0 => room = 0)
  BY <1>1, <1>2, <1>3, <1>4, SizesAssumption DEF Least
<1>6. b \in Seq(Nat) /\ Len(b) = n /\ DOMAIN b = 1 .. n /\ (\A k \in DOMAIN b : b[k] = pos + k)
  <2>1. \A k \in 1 .. n : pos + k \in Nat
    BY <1>1, <1>5
  <2> QED  BY <1>3, <1>5, <2>1
<1>7. b = <<>> => pos = Total
  <2>1. b = <<>> => n = 0
    BY <1>6
  <2> QED  BY <1>1, <1>2, <1>4, <1>5, <2>1
<1>8. more \in BOOLEAN /\ (~more => ~(pos + n < rows /\ (limit = 0 \/ n < limit)))
  <2>1. more \in (IF pos + n < rows /\ (limit = 0 \/ n < limit) THEN {TRUE} ELSE BOOLEAN)
    BY <1>6 DEF More, pos, limit, rows
  <2> QED  BY <2>1
<1> DEFINE fin == (limit # 0 /\ (IF limit = 0 THEN 0 ELSE limit - n) <= 0) \/ ~more
<1>9. to = [pos |-> pos + n, limit |-> (IF limit = 0 THEN 0 ELSE limit - n), finished |-> fin]
  BY <1>6 DEF Fetched, pos, limit
<1>10. (IF limit = 0 THEN 0 ELSE limit - n) \in Nat
  BY <1>1, <1>2, <1>4, <1>5 DEF Least
<1>a. fin \in BOOLEAN
  OBVIOUS
<1>b. fin <=> (limit # 0 /\ (IF limit = 0 THEN 0 ELSE limit - n) <= 0) \/ ~more
  OBVIOUS
<1> HIDE DEF fin
<1>11. /\ to \in FetcherType /\ to.pos = pos + n /\ to.limit = (IF limit = 0 THEN 0 ELSE limit - n)
       /\ to.finished <=> (limit # 0 /\ (IF limit = 0 THEN 0 ELSE limit - n) <= 0) \/ ~more
  <2>1. to.finished = fin /\ to.pos = pos + n /\ to.limit = (IF limit = 0 THEN 0 ELSE limit - n)
    BY <1>9
  <2>2. to \in FetcherType
    BY <1>1, <1>5, <1>9, <1>10, <1>a DEF FetcherType
  <2> QED  BY <1>b, <2>1, <2>2
<1> HIDE DEF to
<1>12. pos + n <= Total
  BY <1>1, <1>2, <1>4, <1>5
<1>13. to.finished => to.pos = Total
  <2>1. CASE max = 0
    BY <1>1, <1>2, <1>5, <1>8, <1>11, <1>12, <2>1
  <2>2. CASE max # 0
    <3>1. limit # 0 /\ limit + pos = max /\ Total <= max /\ (Total = rows \/ Total = max) /\ Total <= rows
      BY <1>1, <1>2, <2>2 DEF Least
    <3>2. CASE ~(limit - n <= 0)
      <4>1. to.finished => ~(pos + n < rows /\ n < limit)
        BY <1>8, <1>11, <3>1, <3>2
      <4> QED  BY <1>1, <1>2, <1>5, <1>11, <1>12, <3>1, <3>2, <4>1
    <3>3. CASE limit - n <= 0
      BY <1>1, <1>2, <1>5, <1>11, <1>12, <3>1, <3>3
    <3> QED  BY <3>2, <3>3
  <2> QED  BY <2>1, <2>2
<1>14. /\ max = 0 => to.limit = 0
       /\ max # 0 => to.limit + to.pos = max /\ (to.limit = 0 => to.finished)
  BY <1>1, <1>2, <1>5, <1>11
<1>15. FetcherOK(to)
  BY <1>11, <1>12, <1>13, <1>14 DEF FetcherOK, max
<1> QED  BY <1>5, <1>6, <1>7, <1>11, <1>15 DEF to, pos

\* What a state has become when its fetch is answered, or has failed.
AnsweredTo(s, st, b, to) ==
  /\ StateOK(s, to) /\ Consumed(to) = Consumed(st)
  /\ ~Waiting(to) /\ ~to.fetching /\ to.callbacks = <<>> /\ to.results = b /\ to.index = -1
  /\ to.finished <=> b = <<>>
  /\ to.finished => Consumed(to) = Total
  /\ ~to.finished => Fresh(to)

LEMMA Answered ==
  ASSUME use \in Uses, NEW s \in Iters, NEW st, StateOK(s, st), ~Waiting(st), st.fetching,
         NEW b \in Batches(st.fetcher), NEW more \in More(st.fetcher, b),
         NEW to, to = Arrived(st, Fetched(st.fetcher, b, more), b)
  PROVE  AnsweredTo(s, st, b, to)
<1> DEFINE f == st.fetcher
           g == Fetched(f, b, more)
           len == Len(b)
<1>1. st \in IterType(s) /\ FetcherOK(f) /\ f.finished = FALSE /\ Consumed(st) = f.pos
  BY DEF StateOK
<1>2. f \in FetcherType /\ f.pos \in Nat
  BY <1>1 DEF FetcherOK, FetcherType
<1>3. /\ b \in Seq(Nat) /\ len \in Nat /\ DOMAIN b = 1 .. len
      /\ \A k \in DOMAIN b : b[k] = f.pos + k
      /\ b = <<>> => f.pos = Total
      /\ FetcherOK(g) /\ g.pos = f.pos + len
  BY <1>1, BatchOK
<1>4. b # Undefined
  BY <1>3, UndefinedAssumption
<1> DEFINE empty == b = <<>>
<1>5. to = [st EXCEPT !.fetching = FALSE, !.callbacks = <<>>, !.results = b, !.index = -1,
                      !.finished = empty, !.fetcher = g]
  <2>1. (b = Undefined \/ b = <<>>) = empty
    BY <1>4
  <2>2. to = Arrived(st, g, b)
    OBVIOUS
  <2> HIDE DEF empty, g
  <2> QED  BY <2>1, <2>2 DEF Arrived
<1>6. empty \in BOOLEAN /\ g \in FetcherType /\ <<>> \in Seq(Waiters(s))
  BY <1>3 DEF FetcherOK
<1> HIDE DEF g, empty
<1>7. /\ to \in IterType(s) /\ to.fetching = FALSE /\ to.callbacks = <<>> /\ to.results = b
      /\ to.index = -1 /\ to.finished = empty /\ to.fetcher = g
  <2>1. to = [index |-> -1, results |-> b, fetching |-> FALSE, callbacks |-> <<>>,
              finished |-> empty, fetcher |-> g]
    BY <1>1, <1>3, <1>5, <1>6 DEF IterType
  <2>2. <<>> \in Seq(Waiters(s))
    OBVIOUS
  <2>3. [index |-> -1, results |-> b, fetching |-> FALSE, callbacks |-> <<>>,
         finished |-> empty, fetcher |-> g] \in IterType(s)
    BY <1>3, <1>6, <2>2 DEF IterType
  <2> QED  BY <2>1, <2>3
<1>8. ~Waiting(to)
  BY <1>6, <1>7, UndefinedAssumption DEF Waiting
<1>9. Consumed(to) = f.pos
  <2>1. Consumed(to) = g.pos - len + Least((-1) + 1, len)
    BY <1>4, <1>7, <1>8 DEF Consumed, Waiting
  <2>2. g.pos = f.pos + len /\ len \in Nat /\ f.pos \in Nat
    BY <1>2, <1>3
  <2> HIDE DEF len, f
  <2>3. Least((-1) + 1, len) = 0
    BY <2>2 DEF Least
  <2> QED  BY <2>1, <2>2, <2>3
<1>10. ResultsOK(to)
  <2>1. f.pos + len - len = f.pos
    BY <1>2, <1>3
  <2>2. len <= f.pos + len /\ -1 <= len
    BY <1>2, <1>3
  <2>3. \A k \in DOMAIN b : b[k] = g.pos - len + k
    BY <1>2, <1>3, <2>1
  <2> QED  BY <1>3, <1>4, <1>7, <2>2, <2>3 DEF ResultsOK
<1>11. empty => g.pos = f.pos
  <2>1. empty => len = 0
    BY DEF empty
  <2> QED  BY <1>2, <1>3, <2>1
<1>12. StateOK(s, to)
  BY <1>3, <1>7, <1>8, <1>9, <1>10, <1>11 DEF StateOK
<1>13. empty => Consumed(to) = Total
  BY <1>3, <1>9 DEF empty
<1>14. ~empty => Fresh(to)
  BY <1>4, <1>7 DEF Fresh, empty
<1> QED  BY <1>1, <1>7, <1>8, <1>9, <1>12, <1>13, <1>14 DEF g, empty, AnsweredTo

LEMMA Failed ==
  ASSUME use \in Uses, NEW s \in Iters, NEW st, StateOK(s, st), ~Waiting(st), st.fetching,
         NEW to, to = Arrived(st, st.fetcher, Undefined)
  PROVE  /\ StateOK(s, to) /\ Consumed(to) = Consumed(st)
         /\ ~Waiting(to) /\ ~to.fetching /\ to.callbacks = <<>> /\ to.results = Undefined /\ to.index = -1
         /\ to.finished
<1>1. st \in IterType(s) /\ FetcherOK(st.fetcher) /\ Consumed(st) = st.fetcher.pos
  BY DEF StateOK
<1>2. st.fetcher \in FetcherType /\ <<>> \in Seq(Waiters(s))
  BY <1>1 DEF FetcherOK
<1>3. to = [st EXCEPT !.fetching = FALSE, !.callbacks = <<>>, !.results = Undefined, !.index = -1,
                      !.finished = TRUE, !.fetcher = st.fetcher]
  BY DEF Arrived
<1>4. /\ to \in IterType(s) /\ to.fetching = FALSE /\ to.callbacks = <<>> /\ to.results = Undefined
      /\ to.index = -1 /\ to.finished = TRUE /\ to.fetcher = st.fetcher
  <2>1. to = [index |-> -1, results |-> Undefined, fetching |-> FALSE, callbacks |-> <<>>,
              finished |-> TRUE, fetcher |-> st.fetcher]
    BY <1>1, <1>2, <1>3 DEF IterType
  <2>2. <<>> \in Seq(Waiters(s))
    OBVIOUS
  <2>3. [index |-> -1, results |-> Undefined, fetching |-> FALSE, callbacks |-> <<>>,
         finished |-> TRUE, fetcher |-> st.fetcher] \in IterType(s)
    BY <1>2, <2>2 DEF IterType
  <2> QED  BY <2>1, <2>3
<1>5. ~Waiting(to) /\ ResultsOK(to) /\ Consumed(to) = Consumed(st)
  BY <1>1, <1>4 DEF Waiting, ResultsOK, Consumed
<1>6. StateOK(s, to)
  BY <1>1, <1>4, <1>5 DEF StateOK
<1> QED  BY <1>4, <1>5, <1>6

-----------------------------------------------------------------------------
(* Sequences of callbacks.                                                 *)

LEMMA JoinedEntries ==
  ASSUME NEW w \in Seq(EntryType), NEW r \in Seq(EntryType)
  PROVE  /\ w \o r \in Seq(EntryType)
         /\ Len(w) \in Nat /\ Len(r) \in Nat
         /\ DOMAIN w = 1 .. Len(w) /\ DOMAIN r = 1 .. Len(r)
         /\ DOMAIN (w \o r) = 1 .. Len(w) + Len(r)
         /\ \A i \in DOMAIN w : i \in DOMAIN (w \o r) /\ (w \o r)[i] = w[i]
         /\ \A i \in DOMAIN r : i + Len(w) \in DOMAIN (w \o r) /\ (w \o r)[i + Len(w)] = r[i]
         /\ \A i \in DOMAIN (w \o r) :
              \/ i \in DOMAIN w /\ (w \o r)[i] = w[i]
              \/ i > Len(w) /\ i - Len(w) \in DOMAIN r /\ (w \o r)[i] = r[i - Len(w)]
OBVIOUS

LEMMA RestOfEntries ==
  ASSUME NEW r \in Seq(EntryType), r # <<>>
  PROVE  /\ Tail(r) \in Seq(EntryType) /\ Head(r) \in EntryType
         /\ 1 \in DOMAIN r /\ r[1] = Head(r)
         /\ \A i \in DOMAIN Tail(r) : i \in Nat \ {0} /\ i + 1 \in DOMAIN r /\ Tail(r)[i] = r[i + 1]
         /\ \A i \in DOMAIN r : i # 1 => i - 1 \in DOMAIN Tail(r) /\ Tail(r)[i - 1] = r[i]
OBVIOUS

LEMMA WaitersAreConsumers ==
  ASSUME NEW s \in Iters
  PROVE  Waiters(s) \subseteq Consumers \cup Calls
BY DEF Waiters, Consumers, Iters

LEMMA WokenEntries ==
  ASSUME NEW s \in Iters, NEW st \in IterType(s), NEW err \in BOOLEAN
  PROVE  /\ Wake(s, st, err) \in Seq(EntryType)
         /\ Len(Wake(s, st, err)) = Len(st.callbacks)
         /\ DOMAIN Wake(s, st, err) = DOMAIN st.callbacks
         /\ \A i \in DOMAIN st.callbacks :
              LET e == Wake(s, st, err)[i] IN
              e.state = s /\ e.cb = st.callbacks[i] /\ e.err = err /\ e \in EntryType
<1> DEFINE cbs == st.callbacks
           entry(i) == [state |-> s, cb |-> cbs[i], err |-> err]
<1>1. cbs \in Seq(Waiters(s))
  BY Fields
<1> HIDE DEF cbs
<1>2. Len(cbs) \in Nat /\ DOMAIN cbs = 1 .. Len(cbs) /\ \A i \in DOMAIN cbs : cbs[i] \in Waiters(s)
  BY <1>1
<1>3. \A i \in 1 .. Len(cbs) : entry(i) \in EntryType
  BY <1>2, WaitersAreConsumers DEF EntryType
<1>4. Wake(s, st, err) = [i \in 1 .. Len(cbs) |-> entry(i)]
  BY <1>2 DEF Wake, cbs
<1>5. \A i \in 1 .. Len(cbs) : entry(i).state = s /\ entry(i).cb = cbs[i] /\ entry(i).err = err
  OBVIOUS
<1> HIDE DEF entry
<1>6. Wake(s, st, err) \in Seq(EntryType)
  BY <1>2, <1>3, <1>4
<1> QED  BY <1>2, <1>3, <1>4, <1>5, <1>6 DEF cbs

\* What is left to run is as good as the whole, and has no second callback of the
\* one that is run.
LEMMA RestOK ==
  ASSUME NEW r \in Seq(EntryType), r # <<>>, EntriesOK(r)
  PROVE  /\ EntriesOK(Tail(r)) /\ EntryOK(Head(r))
         /\ \A i \in DOMAIN Tail(r) :
              Tail(r)[i].state # Head(r).state \/ Tail(r)[i].cb # Head(r).cb
<1>1. \A i, j \in DOMAIN Tail(r) : i # j => i + 1 # j + 1
  BY RestOfEntries
<1>2. Distinct(Tail(r))
  BY <1>1, RestOfEntries DEF EntriesOK, Distinct
<1>3. \A i \in DOMAIN Tail(r) : i + 1 # 1
  BY RestOfEntries
<1> QED  BY <1>2, <1>3, RestOfEntries DEF EntriesOK, Distinct

LEMMA RunMoves ==
  ASSUME NEW w \in Seq(EntryType), NEW r \in Seq(EntryType), run' = w \o r,
         Distinct(w), Distinct(r),
         \A i \in DOMAIN w, j \in DOMAIN r : w[i].state # r[j].state \/ w[i].cb # r[j].cb,
         \A i \in DOMAIN w : EntryOK(w[i])', \A i \in DOMAIN r : EntryOK(r[i])'
  PROVE  RunInv' /\ run' \in Seq(EntryType)
<1> DEFINE all == w \o r
<1>1. \A i \in DOMAIN all : EntryOK(all[i])'
  BY JoinedEntries
<1>2. Distinct(all)
  <2> SUFFICES ASSUME NEW i \in DOMAIN all, NEW j \in DOMAIN all, i # j
               PROVE  all[i].state # all[j].state \/ all[i].cb # all[j].cb
    BY DEF Distinct
  <2>1. /\ \/ i \in DOMAIN w /\ all[i] = w[i]
           \/ i > Len(w) /\ i - Len(w) \in DOMAIN r /\ all[i] = r[i - Len(w)]
        /\ \/ j \in DOMAIN w /\ all[j] = w[j]
           \/ j > Len(w) /\ j - Len(w) \in DOMAIN r /\ all[j] = r[j - Len(w)]
    BY JoinedEntries
  <2>2. i \in Int /\ j \in Int /\ Len(w) \in Nat /\ i - Len(w) # j - Len(w)
    <3>1. Len(w) \in Nat /\ Len(r) \in Nat /\ DOMAIN all = 1 .. Len(w) + Len(r)
      BY JoinedEntries
    <3> QED  BY <3>1
  <2> HIDE DEF all
  <2> QED  BY <2>1, <2>2 DEF Distinct
<1>3. all \in Seq(EntryType) /\ run' = all
  BY JoinedEntries
<1> QED  BY <1>1, <1>2, <1>3 DEF RunInv, EntriesOK

-----------------------------------------------------------------------------
(* The five kinds of steps.                                                *)

\* FinishedInv for all but x, when no error is about to be told to others.
Calm(x) ==
  /\ \A c \in Loops \ {x} : iter[c] # Undefined /\ iter[c].finished =>
       Consumed(iter[c]) = Total \/ outcome[c] = "error"
  /\ x # ForNext /\ iter[ForNext] # Undefined /\ iter[ForNext].finished =>
       Consumed(iter[ForNext]) = Total \/ \E m \in Calls : answer[m] = Error

\* A fetch that a finished fetcher answers at once wakes the one that asked.
WokenAtOnce(s, cb, st, w) ==
  /\ w = <<[state |-> s, cb |-> cb, err |-> FALSE]>>
  /\ ~st.fetching /\ ~Waiting(st) /\ st.finished /\ st.callbacks = <<>>

\* Loop c goes on to state st and outcome how; its function has been given rows in
\* all, w wakes it at once if it has to, and rest is left to run.
LoopMoves(c, st, how, rows, w, rest) ==
  /\ iter' = [iter EXCEPT ![c] = st] /\ outcome' = [outcome EXCEPT ![c] = how]
  /\ out' = [out EXCEPT ![c] = rows] /\ run' = w \o rest /\ user' \in {c, Undefined}
  /\ UNCHANGED <<use, made, errors, answer>>
  /\ outcome[c] \in {"idle"} \cup Reading /\ how \in Reading \cup Ends
  /\ iter[c] = Undefined \/ ~Waiting(iter[c])
  /\ StateOK(c, st) /\ ~Waiting(st) /\ LoopOK(c, st, how)
  /\ st.finished => Consumed(st) = Total \/ how = "error"
  /\ rows \in Seq(Nat) /\ Len(rows) = Consumed(st) /\ \A k \in DOMAIN rows : rows[k] = k
  /\ Len(rows) >= Len(out[c])
  /\ how \in Ends => rows = out[c] /\ outcome[c] \in Reading
  /\ how = "end" => Len(rows) = Total
  /\ how = "inFunc" /\ outcome[c] # "inFunc" /\ rows = out[c] => outcome[c] = "idle" /\ Total = 0
  /\ w = <<>> \/ (WokenAtOnce(c, c, st, w) /\ how = "fetching")
  /\ rest \in Seq(EntryType) /\ EntriesOK(rest) /\ \A i \in DOMAIN rest : rest[i].state # c
  /\ ~use.reentrant => Ordered(NextWaits, rest, made)
  /\ Calm(c)

\* Ordered, but for call n, which is neither waiting nor woken just now.
OrderedBut(n, cbs, r) ==
  /\ \A k \in (1 .. made) \ {n} : answer[k] = Pending => (\E i \in DOMAIN cbs : cbs[i] = k) \/ Held(r, k)
  /\ \A i, j \in DOMAIN cbs : i < j => cbs[i] < cbs[j]
  /\ \A i, j \in DOMAIN r :
       i < j /\ r[i].state = ForNext /\ r[j].state = ForNext => r[i].cb < r[j].cb
  /\ \A i \in DOMAIN cbs, j \in DOMAIN r : r[j].state = ForNext => cbs[i] < r[j].cb
  /\ \A i \in DOMAIN cbs : cbs[i] < n
  /\ \A j \in DOMAIN r : r[j].state = ForNext => n < r[j].cb

\* Call n of next is answered a, or Pending if it has to wait.
Replies(n, a, st, w) ==
  /\ a \in {End, Error} \cup 1 .. use.rows /\ answer' = [answer EXCEPT ![n] = a]
  /\ w = <<>> /\ ~st.fetching /\ st.callbacks = NextWaits
  /\ a = Error \/ a = End => Consumed(st) = Taken
  /\ a \notin {End, Error} => a = Taken + 1 /\ Consumed(st) = Taken + 1 /\ a <= Total
  /\ a = End => Taken = Total \/ \E m \in Calls : answer[m] = Error
  /\ user' = "next"

Waits(n, st, w) ==
  /\ UNCHANGED answer /\ user' = Undefined /\ Consumed(st) = Taken
  /\ \/ w = <<>> /\ st.fetching /\ st.callbacks = Append(NextWaits, n)
     \/ NextWaits = <<>> /\ WokenAtOnce(ForNext, n, st, w)

NextMoves(n, st, w, rest) ==
  /\ iter' = [iter EXCEPT ![ForNext] = st] /\ run' = w \o rest
  /\ UNCHANGED <<use, errors, out, outcome>>
  /\ n \in Calls /\ answer[n] = Pending /\ n <= made'
  /\ made' = made \/ (made' = made + 1 /\ n = made')
  /\ StateOK(ForNext, st)
  /\ iter[ForNext] = Undefined => ~Waiting(st)
  /\ iter[ForNext] # Undefined => Waiting(st) = Waiting(iter[ForNext])
  /\ iter[ForNext] # Undefined /\ iter[ForNext].finished => st.finished
  /\ st.finished => Consumed(st) = Total \/ \E m \in Calls : answer'[m] = Error
  /\ Waits(n, st, w) \/ \E a \in {End, Error} \cup 1 .. use.rows : Replies(n, a, st, w)
  /\ \A i \in DOMAIN NextWaits : NextWaits[i] # n
  /\ rest \in Seq(EntryType) /\ EntriesOK(rest)
  /\ \A i \in DOMAIN rest : rest[i].state # ForNext \/ rest[i].cb # n
  /\ ~use.reentrant => OrderedBut(n, NextWaits, rest)
  /\ Calm(ForNext)

\* State s of a consumer has its rows, or an error, and wakes all who wait for them.
Awakes(s, st, err, rest) ==
  /\ iter' = [iter EXCEPT ![s] = st] /\ run' = Wake(s, iter[s], err) \o rest /\ user' = Undefined
  /\ UNCHANGED <<use, made, out, outcome, answer>> /\ errors' \in 0 .. MaxErrors
  /\ iter[s] # Undefined /\ iter[s].fetching
  /\ StateOK(s, st) /\ Consumed(st) = Consumed(iter[s]) /\ ~Waiting(st) /\ ~st.fetching
  /\ st.index = -1 /\ err \in BOOLEAN
  /\ err => st.finished
  /\ ~err /\ st.finished => Consumed(st) = Total
  /\ ~st.finished => Fresh(st)
  /\ rest \in Seq(EntryType) /\ EntriesOK(rest)
  /\ \A i \in DOMAIN rest : rest[i].state # s /\ (rest[i].state = Start => rest[i].cb # s)
  /\ \A i \in DOMAIN iter[Start].callbacks : iter[Start].callbacks[i] # s
  /\ ~use.reentrant => Ordered(NextWaits, rest, made)
  /\ Calm(s)

\* The first fetch is answered.
StartAnswers(st, err) ==
  /\ iter' = [iter EXCEPT ![Start] = st] /\ run = <<>> /\ run' = Wake(Start, iter[Start], err)
  /\ user' = Undefined
  /\ UNCHANGED <<use, made, out, outcome, answer>> /\ errors' \in 0 .. MaxErrors
  /\ iter[Start].fetching
  /\ StateOK(Start, st) /\ Consumed(st) = 0 /\ ~Waiting(st) /\ ~st.fetching /\ st.callbacks = <<>>
  /\ st.index = -1 /\ err \in BOOLEAN
  /\ err => st.finished
  /\ ~err /\ st.finished => Total = 0
  /\ st.finished <=> st.results \in {Undefined, <<>>}
  /\ st.results = <<>> => Total = 0

\* Consumer s begins while the first fetch is in flight, for a loop or a call of next.
WaitsForStart(s, cb) ==
  /\ WaitForStart(s, cb) /\ s \in Consumers /\ iter[s] = Undefined /\ iter[Start].fetching
  /\ user' = Undefined /\ UNCHANGED <<use, run, errors, out, answer>>
  /\ \/ /\ s \in Loops /\ cb = s /\ outcome[s] = "idle"
        /\ outcome' = [outcome EXCEPT ![s] = "fetching"] /\ UNCHANGED made
     \/ s = ForNext /\ cb = made' /\ made' = made + 1 /\ made' \in Calls /\ UNCHANGED outcome
  /\ Calm(Start)

-----------------------------------------------------------------------------
(* Steps of the five kinds preserve the invariant.                         *)

\* Every state of the iterator there is.
LEMMA StatesTyped ==
  ASSUME Inv
  PROVE  /\ use \in Uses /\ IsFiniteSet(Given) /\ iter[Start] # Undefined
         /\ \A s \in Iters : iter[s] # Undefined => StateOK(s, iter[s]) /\ iter[s] \in IterType(s)
         /\ \A i \in DOMAIN iter[Start].callbacks : iter[Start].callbacks[i] \in Consumers
<1>1. iter[Start] # Undefined /\ Start \in Iters
  BY DEF Inv, StartInv, Iters
<1>2. \A s \in Iters : iter[s] # Undefined => StateOK(s, iter[s]) /\ iter[s] \in IterType(s)
  BY DEF Inv, StateInv, StateOK
<1>3. iter[Start].callbacks \in Seq(Consumers)
  BY <1>1, <1>2, Fields, NamesDiffer DEF Waiters, Consumers
<1> QED  BY <1>1, <1>2, <1>3 DEF Inv, TypeInv, NextInv

\* What is right for a state stays so.
LEMMA StatesKept ==
  ASSUME UNCHANGED use, NEW s, NEW st, StateOK(s, st)
  PROVE  StateOK(s, st)'
BY DEF StateOK, FetcherOK, ResultsOK, Consumed, Waiting, Total

LEMMA OthersWoken ==
  ASSUME NEW w \in Seq(EntryType), NEW r \in Seq(EntryType), NEW cbs, NEW m,
         \A i \in DOMAIN w : w[i].state # ForNext, Ordered(cbs, r, m)
  PROVE  Ordered(cbs, w \o r, m)
<1> DEFINE all == w \o r
<1>1. ASSUME NEW n, Held(r, n)
      PROVE  Held(all, n)
  <2>1. PICK i \in DOMAIN r : r[i].state = ForNext /\ r[i].cb = n
    BY <1>1 DEF Held
  <2>2. i + Len(w) \in DOMAIN all /\ all[i + Len(w)] = r[i]
    BY JoinedEntries
  <2> HIDE DEF all
  <2> QED  BY <2>1, <2>2 DEF Held
<1>2. \A i \in DOMAIN all : all[i].state = ForNext =>
        i \in Nat /\ i - Len(w) \in DOMAIN r /\ all[i] = r[i - Len(w)]
  BY JoinedEntries
<1>3. \A i, j \in DOMAIN all :
        i < j /\ all[i].state = ForNext /\ all[j].state = ForNext => all[i].cb < all[j].cb
  <2> SUFFICES ASSUME NEW i \in DOMAIN all, NEW j \in DOMAIN all, i < j,
                      all[i].state = ForNext, all[j].state = ForNext
               PROVE  all[i].cb < all[j].cb
    OBVIOUS
  <2>1. /\ i \in Nat /\ i - Len(w) \in DOMAIN r /\ all[i] = r[i - Len(w)]
        /\ j \in Nat /\ j - Len(w) \in DOMAIN r /\ all[j] = r[j - Len(w)]
    BY <1>2
  <2>2. Len(w) \in Nat
    BY JoinedEntries
  <2> HIDE DEF all
  <2>3. i - Len(w) < j - Len(w)
    BY <2>1, <2>2
  <2> QED  BY <2>1, <2>3 DEF Ordered
<1> HIDE DEF all
<1>4. Ordered(cbs, all, m)
  BY <1>1, <1>2, <1>3 DEF Ordered
<1> QED  BY <1>4 DEF all

\* A state that moves has its type, and the others stay.
LEMMA OneStateMoves ==
  ASSUME Inv, UNCHANGED use, NEW s \in Iters, NEW st, StateOK(s, st), iter' = [iter EXCEPT ![s] = st]
  PROVE  /\ StateInv' /\ iter'[s] = st /\ st # Undefined /\ \A t \in Iters : t # s => iter'[t] = iter[t]
         /\ iter' \in [Iters -> SomeState]
<1>1. st \in IterType(s) /\ st # Undefined
  BY Fields DEF StateOK
<1>2. iter'[s] = st /\ \A t \in Iters : t # s => iter'[t] = iter[t]
  BY DEF Inv, TypeInv
<1>3. ASSUME NEW t \in Iters, iter'[t] # Undefined
      PROVE  \E to : to = iter'[t] /\ StateOK(t, to)
  BY <1>2, <1>3 DEF Inv, StateInv
<1>4. ASSUME NEW t \in Iters, iter'[t] # Undefined
      PROVE  StateOK(t, iter[t])'
  <2>1. PICK to : to = iter'[t] /\ StateOK(t, to)
    BY <1>3, <1>4
  <2>2. StateOK(t, to)'
    BY <2>1, StatesKept
  <2> QED  BY <2>1, <2>2
<1> QED  BY <1>1, <1>2, <1>4, SomeStates DEF Inv, TypeInv, StateInv

\* The start state does not care for what a copy does, while those that wait for it
\* go on waiting.
LEMMA StartKept ==
  ASSUME Inv, UNCHANGED use, NEW s \in Consumers, \A t \in Iters : t # s => iter'[t] = iter[t],
         \A i \in DOMAIN iter[Start].callbacks :
           iter[Start].callbacks[i] = s => iter'[s] # Undefined /\ Waiting(iter'[s])
  PROVE  StartInv'
<1>1. Start # s /\ Start \in Iters /\ Consumers \subseteq Iters
  BY NamesDiffer DEF Consumers, Iters
<1>2. iter'[Start] = iter[Start]
  BY <1>1
<1>3. ASSUME NEW i \in DOMAIN iter[Start].callbacks
      PROVE  iter'[iter[Start].callbacks[i]] # Undefined /\ Waiting(iter'[iter[Start].callbacks[i]])
  <2>1. iter[Start].callbacks[i] \in Iters
    BY <1>1, StatesTyped
  <2>2. iter[iter[Start].callbacks[i]] # Undefined /\ Waiting(iter[iter[Start].callbacks[i]])
    BY DEF Inv, StartInv
  <2> QED  BY <2>1, <2>2
<1> QED  BY <1>2, <1>3 DEF Inv, StartInv, Total

\* A callback finds what it would have found, unless its state moves.
LEMMA EntryKept ==
  ASSUME UNCHANGED use, NEW s \in Consumers, \A t \in Iters : t # s => iter'[t] = iter[t],
         NEW e \in EntryType, EntryOK(e), e.state # s,
         e.state = Start /\ e.cb = s => iter'[s] # Undefined /\ Waiting(iter'[s]),
         e.state \in Loops => outcome'[e.state] = outcome[e.state],
         e.state = ForNext => answer'[e.cb] = answer[e.cb] /\ e.cb \in 1 .. made'
  PROVE  EntryOK(e)'
<1>1. /\ Start \in Iters /\ s # Start /\ ForNext \in Iters /\ Consumers \subseteq Iters /\ e.state \in Iters
      /\ Start # ForNext /\ Start \notin Loops /\ ForNext \notin Loops
  BY NamesDiffer DEF Consumers, Iters, EntryType
<1>2. iter'[Start] = iter[Start] /\ iter'[e.state] = iter[e.state]
  BY <1>1
<1>3. e.state = Start => iter'[e.cb] # Undefined /\ Waiting(iter'[e.cb])
  BY <1>1 DEF EntryOK
<1> QED  BY <1>1, <1>2, <1>3 DEF EntryOK, Total

LEMMA LoopMovesInv ==
  ASSUME Inv, NEW c \in Loops, NEW st, NEW how, NEW rows, NEW w, NEW rest,
         LoopMoves(c, st, how, rows, w, rest)
  PROVE  Inv'
<1> USE DEF Inv
<1>1. /\ c \in Iters /\ c # Start /\ c # ForNext /\ c \in Consumers
      /\ ForNext \in Iters /\ Start \in Iters
      /\ \A d \in Loops : d \in Iters /\ d # Start /\ d # ForNext
  BY NamesDiffer DEF Iters, Consumers
<1>2. /\ iter' = [iter EXCEPT ![c] = st] /\ StateOK(c, st)
      /\ UNCHANGED <<use, made, errors, answer>>
  BY DEF LoopMoves
<1>3. /\ StateInv' /\ iter'[c] = st /\ st # Undefined /\ \A t \in Iters : t # c => iter'[t] = iter[t]
      /\ iter' \in [Iters -> SomeState]
  BY <1>1, <1>2, OneStateMoves
<1>4. /\ outcome'[c] = how /\ out'[c] = rows
      /\ \A d \in Loops : d # c => outcome'[d] = outcome[d] /\ out'[d] = out[d]
  BY <1>1 DEF LoopMoves, TypeInv
<1>5. /\ w \in Seq(EntryType) /\ rest \in Seq(EntryType) /\ run' = w \o rest
      /\ \A i \in DOMAIN w :
           w[i] = [state |-> c, cb |-> c, err |-> FALSE] /\ WokenAtOnce(c, c, st, w) /\ how = "fetching"
      /\ Distinct(w)
  <2>1. [state |-> c, cb |-> c, err |-> FALSE] \in EntryType
    BY <1>1 DEF EntryType, Consumers
  <2>2. CASE w = <<>>
    BY <2>2 DEF LoopMoves, Distinct
  <2>3. CASE WokenAtOnce(c, c, st, w) /\ how = "fetching"
    <3>1. w = <<[state |-> c, cb |-> c, err |-> FALSE]>>
      BY <2>3 DEF WokenAtOnce
    <3>2. DOMAIN w = {1} /\ w[1] = [state |-> c, cb |-> c, err |-> FALSE] /\ w \in Seq(EntryType)
      BY <2>1, <3>1
    <3> QED  BY <2>3, <3>2 DEF LoopMoves, Distinct
  <2> QED  BY <2>2, <2>3 DEF LoopMoves
<1>6. TypeInv'
  <2>1. run' \in Seq(EntryType)
    BY <1>5, JoinedEntries
  <2> QED  BY <1>3, <2>1 DEF LoopMoves, TypeInv
<1>7. StartInv'
  <2>1. \A i \in DOMAIN iter[Start].callbacks : iter[Start].callbacks[i] # c
    BY DEF StartInv, LoopMoves
  <2> QED  BY <1>1, <1>2, <1>3, <2>1, StartKept
<1>8. RunInv'
  <2>1. ASSUME NEW i \in DOMAIN rest
        PROVE  EntryOK(rest[i])'
    <3>1. /\ rest[i] \in EntryType /\ EntryOK(rest[i]) /\ rest[i].state # c
          /\ rest[i].state = Start => rest[i].cb # c
      BY <1>5 DEF LoopMoves, EntriesOK, EntryOK
    <3>2. rest[i].state = ForNext => rest[i].cb \in 1 .. made'
      BY <1>1, <1>2, <3>1 DEF EntryOK
    <3> QED  BY <1>1, <1>2, <1>3, <1>4, <3>1, <3>2, EntryKept
  <2>2. \A i \in DOMAIN w : EntryOK(w[i])'
    BY <1>1, <1>3, <1>4, <1>5 DEF EntryOK, WokenAtOnce
  <2>3. \A i \in DOMAIN w, j \in DOMAIN rest : w[i].state # rest[j].state
    BY <1>5 DEF LoopMoves
  <2>4. Distinct(rest)
    BY DEF LoopMoves, EntriesOK
  <2> QED  BY <1>5, <2>1, <2>2, <2>3, <2>4, RunMoves
<1>9. LoopInv'
  <2>1. how # "idle"
    BY DEF LoopMoves, Reading, Ends, Scan!Ends
  <2>2. ASSUME NEW d \in Loops, d # c
        PROVE  iter'[d] = iter[d] /\ outcome'[d] = outcome[d] /\ out'[d] = out[d]
    BY <1>1, <1>3, <1>4, <2>2
  <2>3. /\ Len(out'[c]) = Consumed(iter'[c]) /\ LoopOK(c, iter'[c], outcome'[c])
        /\ \A k \in DOMAIN out'[c] : out'[c][k] = k
    BY <1>3, <1>4 DEF LoopMoves
  <2> QED  BY <1>3, <1>4, <2>1, <2>2, <2>3 DEF LoopInv
<1>10. NextInv'
  BY <1>1, <1>2, <1>3 DEF NextInv, LoopMoves, Given, Taken, NextWaits, WaitsOK
<1>11. FinishedInv'
  BY <1>1, <1>3, <1>4 DEF FinishedInv, LoopMoves, Calm, Total
<1>12. OrderInv'
  <2> SUFFICES ASSUME ~use.reentrant
               PROVE  Ordered(NextWaits, run, made)'
    BY DEF OrderInv, LoopMoves
  <2>1. \A i \in DOMAIN w : w[i].state # ForNext
    BY <1>1, <1>5
  <2>2. Ordered(NextWaits, w \o rest, made)
    BY <1>5, <2>1, OthersWoken DEF LoopMoves
  <2>3. NextWaits' = NextWaits
    BY <1>1, <1>3 DEF NextWaits
  <2> QED  BY <2>2, <2>3 DEF Ordered, Held, LoopMoves
<1> QED  BY <1>3, <1>6, <1>7, <1>8, <1>9, <1>10, <1>11, <1>12

\* All who wait for the fetch of the calls of next are woken in their order.
LEMMA WaitersWoken ==
  ASSUME NEW w \in Seq(EntryType), NEW r \in Seq(EntryType), NEW cbs \in Seq(Calls), NEW m,
         DOMAIN w = DOMAIN cbs, Ordered(cbs, r, m),
         \A i \in DOMAIN w : w[i].state = ForNext /\ w[i].cb = cbs[i]
  PROVE  Ordered(<<>>, w \o r, m)
<1> DEFINE all == w \o r
<1>1. \A i \in DOMAIN cbs : Held(all, cbs[i])
  BY JoinedEntries DEF Held
<1>2. ASSUME NEW n, Held(r, n)
      PROVE  Held(all, n)
  <2>1. PICK i \in DOMAIN r : r[i].state = ForNext /\ r[i].cb = n
    BY <1>2 DEF Held
  <2>2. i + Len(w) \in DOMAIN all /\ all[i + Len(w)] = r[i]
    BY JoinedEntries
  <2> HIDE DEF all
  <2> QED  BY <2>1, <2>2 DEF Held
<1>3. ASSUME NEW i \in DOMAIN all, NEW j \in DOMAIN all, i < j,
             all[i].state = ForNext, all[j].state = ForNext
      PROVE  all[i].cb < all[j].cb
  <2>1. /\ i \in Nat /\ j \in Nat /\ Len(w) \in Nat /\ DOMAIN w = 1 .. Len(w)
        /\ \/ i \in DOMAIN w /\ all[i] = w[i]
           \/ i > Len(w) /\ i - Len(w) \in DOMAIN r /\ all[i] = r[i - Len(w)]
        /\ \/ j \in DOMAIN w /\ all[j] = w[j]
           \/ j > Len(w) /\ j - Len(w) \in DOMAIN r /\ all[j] = r[j - Len(w)]
    BY JoinedEntries
  <2> HIDE DEF all
  <2>2. i - Len(w) < j - Len(w) /\ (j \in DOMAIN w => i \in DOMAIN w)
    BY <1>3, <2>1
  <2> QED  BY <1>3, <2>1, <2>2 DEF Ordered
<1> HIDE DEF all
<1>4. Ordered(<<>>, all, m)
  BY <1>1, <1>2, <1>3 DEF Ordered
<1> QED  BY <1>4 DEF all

LEMMA AwakesInv ==
  ASSUME Inv, NEW s \in Consumers, NEW st, NEW err, NEW rest, Awakes(s, st, err, rest)
  PROVE  Inv'
<1> USE DEF Inv
<1> DEFINE cbs == iter[s].callbacks
<1>0. PICK w : w = Wake(s, iter[s], err)
  OBVIOUS
<1>1. /\ s \in Iters /\ s # Start /\ ForNext \in Iters /\ Start \in Iters
      /\ \A d \in Loops : d \in Iters /\ d # Start /\ d # ForNext
      /\ s \in Loops \/ s = ForNext
  BY NamesDiffer DEF Iters, Consumers
<1>2. /\ iter' = [iter EXCEPT ![s] = st] /\ StateOK(s, st) /\ iter[s] # Undefined
      /\ UNCHANGED <<use, made, out, outcome, answer>> /\ err \in BOOLEAN
      /\ run' = w \o rest /\ rest \in Seq(EntryType)
  BY <1>0 DEF Awakes
<1>3. /\ StateInv' /\ iter'[s] = st /\ st # Undefined /\ \A t \in Iters : t # s => iter'[t] = iter[t]
      /\ iter' \in [Iters -> SomeState]
  BY <1>1, <1>2, OneStateMoves
<1>4. /\ w \in Seq(EntryType) /\ Len(w) = Len(cbs) /\ DOMAIN w = DOMAIN cbs
      /\ \A i \in DOMAIN cbs : w[i].state = s /\ w[i].cb = cbs[i] /\ w[i].err = err
      /\ cbs \in Seq(Waiters(s))
  <2>1. iter[s] \in IterType(s)
    BY <1>1, <1>2, StatesTyped
  <2> QED  BY <1>0, <1>1, <1>2, <2>1, WokenEntries, Fields
<1>5. s \in Loops => cbs = <<s>> /\ outcome[s] = "fetching"
  BY DEF Awakes, LoopInv, LoopOK
<1>6. s = ForNext => cbs = NextWaits /\ cbs # <<>> /\ cbs \in Seq(Calls)
  BY <1>4, <1>2, NamesDiffer DEF NextWaits, Waiters, NextInv, Awakes
<1>7. cbs # <<>> /\ st.callbacks = <<>>
  <2>1. cbs # <<>>
    BY <1>1, <1>5, <1>6
  <2> QED  BY <2>1 DEF Awakes, StateOK
<1>8. Distinct(w)
  <2>1. \A i, j \in DOMAIN cbs : i # j => cbs[i] # cbs[j]
    <3>1. CASE s \in Loops
      BY <1>5, <3>1
    <3>2. CASE s = ForNext
      BY <1>6, <3>2 DEF NextInv, WaitsOK
    <3> QED  BY <1>1, <3>1, <3>2
  <2> QED  BY <1>4, <2>1 DEF Distinct
<1>9. TypeInv'
  <2>1. run' \in Seq(EntryType)
    BY <1>2, <1>4, JoinedEntries
  <2> QED  BY <1>3, <2>1 DEF Awakes, TypeInv
<1>10. StartInv'
  <2>1. \A i \in DOMAIN iter[Start].callbacks : iter[Start].callbacks[i] # s
    BY DEF Awakes
  <2> QED  BY <1>2, <1>3, <2>1, StartKept
<1>11. RunInv'
  <2>1. ASSUME NEW i \in DOMAIN rest
        PROVE  EntryOK(rest[i])'
    <3>1. /\ rest[i] \in EntryType /\ EntryOK(rest[i]) /\ rest[i].state # s
          /\ rest[i].state = Start => rest[i].cb # s
      BY <1>2 DEF Awakes, EntriesOK
    <3>2. rest[i].state = ForNext => rest[i].cb \in 1 .. made'
      BY <1>1, <1>2, <3>1 DEF EntryOK
    <3> QED  BY <1>1, <1>2, <1>3, <3>1, <3>2, EntryKept
  <2>2. ASSUME NEW i \in DOMAIN w
        PROVE  EntryOK(w[i])'
    <3>1. w[i].state = s /\ w[i].cb = cbs[i] /\ w[i].err = err
      BY <1>4
    <3>2. ~Waiting(st) /\ (err => st.finished) /\ ~st.fetching /\ (~st.finished => Fresh(st))
      BY DEF Awakes
    <3>3. CASE s \in Loops
      <4>1. i \in DOMAIN <<s>> /\ cbs[i] = s
        BY <1>4, <1>5, <3>3
      <4> QED  BY <1>1, <1>2, <1>3, <1>5, <3>1, <3>2, <3>3, <4>1 DEF EntryOK
    <3>4. CASE s = ForNext
      <4>1. cbs[i] \in 1 .. made /\ answer[cbs[i]] = Pending
        BY <1>4, <1>6, <3>4 DEF NextInv, WaitsOK
      <4> QED  BY <1>1, <1>2, <1>3, <1>7, <3>1, <3>2, <3>4, <4>1 DEF EntryOK
    <3> QED  BY <1>1, <3>3, <3>4
  <2>3. \A i \in DOMAIN w, j \in DOMAIN rest : w[i].state # rest[j].state
    BY <1>4 DEF Awakes
  <2>4. Distinct(rest)
    BY DEF Awakes, EntriesOK
  <2> QED  BY <1>2, <1>4, <1>8, <2>1, <2>2, <2>3, <2>4, RunMoves
<1>12. LoopInv'
  <2>1. ASSUME NEW d \in Loops, d # s
        PROVE  iter'[d] = iter[d] /\ outcome'[d] = outcome[d] /\ out'[d] = out[d]
    BY <1>1, <1>2, <1>3, <2>1
  <2>2. ASSUME s \in Loops
        PROVE  /\ Len(out'[s]) = Consumed(iter'[s]) /\ LoopOK(s, iter'[s], outcome'[s])
               /\ \A k \in DOMAIN out'[s] : out'[s][k] = k
               /\ outcome'[s] = "fetching"
    BY <1>2, <1>3, <1>5, <2>2 DEF LoopInv, LoopOK, Awakes
  <2> QED  BY <1>3, <2>1, <2>2 DEF LoopInv
<1>13. NextInv'
  <2>1. Given' = Given /\ made' = made /\ answer' = answer
    BY <1>2 DEF Given
  <2>2. CASE s = ForNext
    <3>1. Taken' = Taken /\ NextWaits' = <<>>
      BY <1>2, <1>3, <1>7, <2>2 DEF Taken, NextWaits, Awakes
    <3>2. iter'[ForNext] # Undefined /\ ~iter'[ForNext].fetching
      BY <1>3, <2>2 DEF Awakes
    <3> QED  BY <2>1, <3>1, <3>2 DEF NextInv, WaitsOK
  <2>3. CASE s # ForNext
    <3>1. iter'[ForNext] = iter[ForNext]
      BY <1>1, <1>3, <2>3
    <3>2. Taken' = Taken /\ NextWaits' = NextWaits
      BY <3>1 DEF Taken, NextWaits
    <3> QED  BY <2>1, <3>1, <3>2 DEF NextInv, WaitsOK
  <2> QED  BY <2>2, <2>3
<1>14. FinishedInv'
  <2>1. err => ErrorNext(s)'
    <3>1. DOMAIN cbs = 1 .. Len(cbs) /\ Len(cbs) \in Nat \ {0} /\ 1 \in DOMAIN w
      BY <1>4, <1>7
    <3>2. 1 \in DOMAIN (w \o rest) /\ (w \o rest)[1] = w[1] /\ w \o rest \in Seq(EntryType)
      BY <1>2, <1>4, <3>1, JoinedEntries
    <3>3. w \o rest # <<>> /\ Head(w \o rest) = w[1]
      BY <3>2
    <3>4. user' = Undefined /\ w[1].state = s /\ w[1].err = err
      BY <1>4, <3>1 DEF Awakes
    <3> QED  BY <1>2, <3>3, <3>4 DEF ErrorNext
  <2>2. st.finished => Consumed(st) = Total \/ err
    BY <1>2 DEF Awakes
  <2>3. Total' = Total
    BY <1>2 DEF Total
  <2>4. ASSUME NEW d \in Loops, d # s, iter'[d] # Undefined, iter'[d].finished
        PROVE  (Consumed(iter[d]) = Total \/ outcome[d] = "error") /\ iter'[d] = iter[d]
    BY <1>1, <1>3, <2>4 DEF Awakes, Calm
  <2>5. ASSUME s # ForNext, iter'[ForNext] # Undefined, iter'[ForNext].finished
        PROVE  /\ Consumed(iter[ForNext]) = Total \/ \E m \in Calls : answer[m] = Error
               /\ iter'[ForNext] = iter[ForNext]
    BY <1>1, <1>3, <2>5 DEF Awakes, Calm
  <2> QED  BY <1>2, <1>3, <2>1, <2>2, <2>3, <2>4, <2>5 DEF FinishedInv
<1>15. OrderInv'
  <2> SUFFICES ASSUME ~use.reentrant
               PROVE  Ordered(NextWaits, run, made)'
    BY <1>2 DEF OrderInv
  <2>1. Ordered(NextWaits', w \o rest, made)
    <3>1. CASE s = ForNext
      <4>1. NextWaits' = <<>>
        BY <1>3, <1>7, <3>1 DEF NextWaits
      <4>2. Ordered(cbs, rest, made)
        BY <1>6, <3>1 DEF Awakes
      <4> QED  BY <1>2, <1>4, <1>6, <3>1, <4>1, <4>2, WaitersWoken
    <3>2. CASE s # ForNext
      <4>1. NextWaits' = NextWaits
        BY <1>1, <1>3, <3>2 DEF NextWaits
      <4>2. \A i \in DOMAIN w : w[i].state # ForNext
        BY <1>4, <3>2
      <4>3. Ordered(NextWaits, w \o rest, made)
        BY <1>2, <1>4, <4>2, OthersWoken DEF Awakes
      <4> QED  BY <4>1, <4>3
    <3> QED  BY <3>1, <3>2
  <2> QED  BY <1>2, <2>1 DEF Ordered, Held
<1> QED  BY <1>3, <1>9, <1>10, <1>11, <1>12, <1>13, <1>14, <1>15

LEMMA StartAnswersInv ==
  ASSUME Inv, NEW st, NEW err, StartAnswers(st, err)
  PROVE  Inv'
<1> USE DEF Inv
<1> DEFINE cbs == iter[Start].callbacks
<1>0. PICK w : w = Wake(Start, iter[Start], err)
  OBVIOUS
<1>1. /\ Start \in Iters /\ ForNext \in Iters /\ Start # ForNext
      /\ \A d \in Loops : d \in Iters /\ d # Start /\ d # ForNext
      /\ \A d \in Consumers : d \in Iters /\ d # Start
  BY NamesDiffer DEF Iters, Consumers
<1>2. /\ iter' = [iter EXCEPT ![Start] = st] /\ StateOK(Start, st)
      /\ UNCHANGED <<use, made, out, outcome, answer>> /\ err \in BOOLEAN
      /\ run = <<>> /\ run' = w
  BY <1>0 DEF StartAnswers
<1>3. /\ StateInv' /\ iter'[Start] = st /\ st # Undefined
      /\ \A t \in Iters : t # Start => iter'[t] = iter[t]
      /\ iter' \in [Iters -> SomeState]
  BY <1>1, <1>2, OneStateMoves
<1>4. /\ w \in Seq(EntryType) /\ Len(w) = Len(cbs) /\ DOMAIN w = DOMAIN cbs
      /\ \A i \in DOMAIN cbs : w[i].state = Start /\ w[i].cb = cbs[i] /\ w[i].err = err
      /\ \A i \in DOMAIN cbs : cbs[i] \in Consumers
  BY <1>0, <1>1, <1>2, StatesTyped, WokenEntries
<1>5. <<>> \in Seq(EntryType) /\ run' = w \o <<>>
  BY <1>2, <1>4
<1>6. TypeInv'
  BY <1>2, <1>3, <1>4 DEF StartAnswers, TypeInv
<1>7. StartInv'
  BY <1>2, <1>3 DEF StartInv, StartAnswers, Total
<1>8. RunInv'
  <2>1. Distinct(w)
    BY <1>4 DEF StartInv, Distinct
  <2>2. ASSUME NEW i \in DOMAIN w
        PROVE  EntryOK(w[i])'
    <3>1. w[i].state = Start /\ w[i].cb = cbs[i] /\ w[i].err = err /\ cbs[i] \in Consumers
      BY <1>4
    <3>2. iter[cbs[i]] # Undefined /\ Waiting(iter[cbs[i]]) /\ iter'[cbs[i]] = iter[cbs[i]]
      BY <1>1, <1>3, <1>4, <3>1 DEF StartInv
    <3>3. PICK cb : cb = cbs[i]
      OBVIOUS
    <3> QED  BY <1>1, <1>2, <1>3, <3>1, <3>2, <3>3 DEF EntryOK, StartAnswers, Total
  <2>3. PICK none : none = <<>>
    OBVIOUS
  <2>4. DOMAIN none = {} /\ Distinct(none)
    BY <2>3 DEF Distinct
  <2> QED  BY <1>4, <1>5, <2>1, <2>2, <2>3, <2>4, RunMoves
<1>9. LoopInv'
  <2>1. \A d \in Loops : iter'[d] = iter[d] /\ outcome'[d] = outcome[d] /\ out'[d] = out[d]
    BY <1>1, <1>2, <1>3
  <2> QED  BY <2>1 DEF LoopInv
<1>10. iter'[ForNext] = iter[ForNext] /\ Given' = Given /\ Taken' = Taken /\ NextWaits' = NextWaits
  BY <1>1, <1>2, <1>3 DEF Given, Taken, NextWaits
<1>11. NextInv'
  BY <1>2, <1>10 DEF NextInv, WaitsOK
<1>12. FinishedInv'
  <2>1. ASSUME NEW d \in Loops, iter'[d] # Undefined, iter'[d].finished
        PROVE  (Consumed(iter[d]) = Total \/ outcome[d] = "error") /\ iter'[d] = iter[d]
    BY <1>1, <1>2, <1>3, <2>1 DEF FinishedInv, ErrorNext
  <2>2. ASSUME iter'[ForNext] # Undefined, iter'[ForNext].finished
        PROVE  Consumed(iter[ForNext]) = Total \/ \E m \in Calls : answer[m] = Error
    BY <1>2, <1>10, <2>2 DEF FinishedInv, ErrorNext
  <2> QED  BY <1>2, <1>10, <2>1, <2>2 DEF FinishedInv, Total
<1>13. OrderInv'
  <2> SUFFICES ASSUME ~use.reentrant
               PROVE  Ordered(NextWaits, run, made)'
    BY <1>2 DEF OrderInv
  <2>1. \A i \in DOMAIN w : w[i].state # ForNext
    BY <1>1, <1>4
  <2>2. Ordered(NextWaits, w \o <<>>, made)
    BY <1>2, <1>4, <1>5, <2>1, OthersWoken DEF OrderInv
  <2> QED  BY <1>2, <1>5, <1>10, <2>2 DEF Ordered, Held
<1> QED  BY <1>3, <1>6, <1>7, <1>8, <1>9, <1>11, <1>12, <1>13

\* A copy that is to wait, for consumer s to be woken with cb.
LEMMA NewWaiting ==
  ASSUME NEW s \in Iters, NEW cb \in Waiters(s)
  PROVE  LET st == [IterState EXCEPT !.fetching = TRUE, !.callbacks = <<cb>>] IN
         /\ StateOK(s, st) /\ Waiting(st) /\ Consumed(st) = 0 /\ st # Undefined
         /\ st.fetching = TRUE /\ st.finished = FALSE /\ st.callbacks = <<cb>> /\ st.results = Undefined
<1> DEFINE st == [IterState EXCEPT !.fetching = TRUE, !.callbacks = <<cb>>]
<1>1. st = [index |-> -1, results |-> Undefined, fetching |-> TRUE,
            callbacks |-> <<cb>>, finished |-> FALSE, fetcher |-> Undefined]
  <2>1. st = [IterState EXCEPT !.fetching = TRUE, !.callbacks = <<cb>>]
    OBVIOUS
  <2> HIDE DEF st
  <2> QED  BY <2>1 DEF IterState
<1>2. <<cb>> \in Seq(Waiters(s))
  OBVIOUS
<1> HIDE DEF st
<1>3. st \in IterType(s)
  BY <1>1, <1>2 DEF IterType
<1>4. st # Undefined
  BY <1>3, Fields
<1> QED  BY <1>1, <1>3, <1>4 DEF StateOK, Waiting, Consumed, st

LEMMA WaitsForStartInv ==
  ASSUME Inv, NEW s, NEW cb, WaitsForStart(s, cb)
  PROVE  Inv'
<1> USE DEF Inv
<1> DEFINE from == iter[Start]
           cbs == from.callbacks
<1>1. /\ Start \in Iters /\ ForNext \in Iters /\ Start # ForNext
      /\ \A d \in Loops : d \in Iters /\ d # Start /\ d # ForNext
      /\ \A d \in Consumers : d \in Iters /\ d # Start
      /\ s \in Consumers
  BY NamesDiffer DEF Iters, Consumers, WaitsForStart
<1>2. /\ UNCHANGED <<use, run, errors, out, answer>> /\ user' = Undefined /\ iter[s] = Undefined
      /\ from # Undefined /\ StateOK(Start, from) /\ from \in IterType(Start) /\ from.fetching
  BY <1>1, StatesTyped DEF WaitsForStart
<1>3. \/ /\ s \in Loops /\ cb = s /\ made' = made /\ outcome[s] = "idle"
         /\ outcome' = [outcome EXCEPT ![s] = "fetching"]
      \/ s = ForNext /\ cb = made' /\ made' = made + 1 /\ made' \in Calls /\ outcome' = outcome
  BY DEF WaitsForStart
<1>4. cb \in Waiters(s) /\ s \in Waiters(Start)
  BY <1>1, <1>3 DEF Waiters, Consumers
<1>5. PICK st1 : st1 = [from EXCEPT !.callbacks = Append(@, s)]
  OBVIOUS
<1>6. PICK st2 : st2 = [IterState EXCEPT !.fetching = TRUE, !.callbacks = <<cb>>]
  OBVIOUS
<1>7. iter' = [iter EXCEPT ![Start] = st1, ![s] = st2]
  BY <1>5, <1>6 DEF WaitsForStart, WaitForStart
<1>8. iter'[Start] = st1 /\ iter'[s] = st2 /\ \A t \in Iters : t # Start /\ t # s => iter'[t] = iter[t]
  BY <1>1, <1>7 DEF TypeInv
<1>9. /\ StateOK(Start, st1) /\ Consumed(st1) = 0 /\ ~Waiting(st1) /\ st1.fetching
      /\ st1.callbacks = Append(cbs, s) /\ st1.results = from.results /\ st1.index = -1
      /\ st1.finished = FALSE /\ st1 # Undefined
  <2>1. /\ ~Waiting(from) /\ Consumed(from) = 0 /\ from.index = -1 /\ Consumed(from) = from.fetcher.pos
        /\ from.finished = FALSE
    BY <1>2 DEF StartInv, StateOK
  <2>2. /\ st1 \in IterType(Start) /\ st1.index = from.index /\ st1.results = from.results
        /\ st1.fetching = from.fetching /\ st1.callbacks = Append(from.callbacks, s)
        /\ st1.finished = from.finished /\ st1.fetcher = from.fetcher
    <3>1. Append(from.callbacks, s) \in Seq(Waiters(Start))
      BY <1>1, <1>2, <1>4, Fields
    <3> QED  BY <1>2, <1>5, <3>1 DEF IterType
  <2> HIDE DEF from
  <2>3. StateOK(Start, st1) /\ Consumed(st1) = Consumed(from) /\ Waiting(st1) = Waiting(from)
    <3>1. use \in Uses
      BY DEF TypeInv
    <3> QED  BY <1>1, <1>2, <2>1, <2>2, <3>1, Joins
  <2>4. st1 # Undefined
    BY <1>1, <2>3, Fields DEF StateOK
  <2> QED  BY <1>2, <2>1, <2>2, <2>3, <2>4
<1>10. /\ StateOK(s, st2) /\ Waiting(st2) /\ Consumed(st2) = 0 /\ st2 # Undefined /\ st2.fetching
       /\ st2.finished = FALSE /\ st2.callbacks = <<cb>> /\ st2.results = Undefined
  BY <1>1, <1>4, <1>6, NewWaiting
<1>11. TypeInv'
  <2>1. iter' \in [Iters -> SomeState]
    BY <1>1, <1>7, <1>9, <1>10, SomeStates DEF TypeInv, StateOK
  <2>2. made' \in 0 .. NumCalls
    BY <1>3 DEF TypeInv, Calls
  <2>3. outcome' \in [Loops -> {"idle"} \cup Reading \cup Ends]
    BY <1>3 DEF TypeInv, Reading
  <2> QED  BY <1>2, <2>1, <2>2, <2>3 DEF TypeInv
<1>12. StateInv'
  <2>1. StateOK(Start, st1)' /\ StateOK(s, st2)'
    BY <1>2, <1>9, <1>10, StatesKept
  <2>2. ASSUME NEW t \in Iters, t # Start, t # s, iter[t] # Undefined
        PROVE  StateOK(t, iter[t])'
    <3>1. PICK st : st = iter[t]
      OBVIOUS
    <3>2. StateOK(t, st)'
      BY <1>2, <2>2, <3>1, StatesKept DEF StateInv
    <3> QED  BY <1>8, <2>2, <3>1, <3>2
  <2> QED  BY <1>8, <2>1, <2>2 DEF StateInv
<1>13. StartInv'
  <2>1. cbs \in Seq(Consumers)
    BY <1>2, <1>1, Fields DEF Waiters, Consumers
  <2>2. \A i \in DOMAIN cbs : iter[cbs[i]] # Undefined /\ Waiting(iter[cbs[i]]) /\ cbs[i] \in Consumers
    BY <2>1 DEF StartInv
  <2>3. \A i \in DOMAIN cbs : cbs[i] # s /\ iter'[cbs[i]] = iter[cbs[i]]
    BY <1>1, <1>2, <1>8, <2>2
  <2>4. \A i, j \in DOMAIN cbs : i # j => cbs[i] # cbs[j]
    BY DEF StartInv
  <2> HIDE DEF cbs
  <2>5. /\ DOMAIN Append(cbs, s) = DOMAIN cbs \cup {Len(cbs) + 1}
        /\ Append(cbs, s)[Len(cbs) + 1] = s /\ \A i \in DOMAIN cbs : Append(cbs, s)[i] = cbs[i]
    BY <1>1, <2>1
  <2>6. /\ \A i, j \in DOMAIN st1.callbacks : i # j => st1.callbacks[i] # st1.callbacks[j]
        /\ \A i \in DOMAIN st1.callbacks :
             iter'[st1.callbacks[i]] # Undefined /\ Waiting(iter'[st1.callbacks[i]])
    BY <1>8, <1>9, <1>10, <2>2, <2>3, <2>4, <2>5
  <2>7. st1.results = <<>> => Total' = 0
    BY <1>2, <1>9 DEF StartInv, Total
  <2> QED  BY <1>8, <1>9, <2>6, <2>7 DEF StartInv
<1>14. ASSUME NEW i \in DOMAIN run
       PROVE  /\ EntryOK(run[i]) /\ run[i].state # Start /\ run[i].state # s
              /\ run[i].state \in Iters /\ iter'[run[i].state] = iter[run[i].state]
  <2>1. EntryOK(run[i]) /\ run[i].state \in Iters
    <3>1. run[i] \in EntryType
      BY DEF TypeInv
    <3> QED  BY <3>1 DEF RunInv, EntriesOK, EntryType
  <2> QED  BY <1>2, <1>8, <2>1 DEF EntryOK
<1>15. RunInv'
  <2>1. ASSUME NEW i \in DOMAIN run
        PROVE  EntryOK(run[i])'
    <3>1. PICK e : e = run[i]
      OBVIOUS
    <3>2. e.state \in Loops => outcome'[e.state] = outcome[e.state]
      BY <1>1, <1>3, <1>14, <3>1 DEF TypeInv
    <3>3. e.state = ForNext => e.cb \in 1 .. made'
      <4>1. made' = made \/ made' = made + 1
        BY <1>3
      <4> QED  BY <1>14, <3>1, <4>1 DEF EntryOK, TypeInv
    <3>4. EntryOK(e)'
      BY <1>1, <1>2, <1>14, <3>1, <3>2, <3>3 DEF EntryOK
    <3> QED  BY <1>2, <3>1, <3>4
  <2> QED  BY <1>2, <2>1 DEF RunInv, EntriesOK, Distinct
<1>16. LoopInv'
  <2>1. ASSUME NEW d \in Loops, d # s
        PROVE  iter'[d] = iter[d] /\ outcome'[d] = outcome[d] /\ out'[d] = out[d]
    BY <1>1, <1>2, <1>3, <1>8, <2>1 DEF TypeInv
  <2>2. ASSUME s \in Loops
        PROVE  /\ outcome'[s] = "fetching" /\ out'[s] = <<>> /\ iter'[s] = st2
               /\ LoopOK(s, st2, "fetching")
    <3>1. cb = s /\ outcome' = [outcome EXCEPT ![s] = "fetching"]
      BY <1>1, <1>3, <2>2
    <3> QED  BY <1>2, <1>8, <1>10, <2>2, <3>1 DEF LoopInv, LoopOK, TypeInv
  <2> QED  BY <1>10, <2>1, <2>2 DEF LoopInv
<1>17. ASSUME s = ForNext
       PROVE  NextInv' /\ OrderInv'
  <2>1. made = 0 /\ made' = 1 /\ cb = 1 /\ NextWaits = <<>> /\ Taken = 0 /\ 1 \in Calls
    BY <1>1, <1>2, <1>3, <1>17 DEF NextInv, NextWaits, Taken
  <2>2. NextWaits' = <<1>> /\ Taken' = 0 /\ Given' = Given /\ answer' = answer /\ answer[1] = Pending
    BY <1>2, <1>8, <1>10, <1>17, <2>1 DEF NextInv, NextWaits, Taken, Given
  <2>3. NextInv'
    <3>1. WaitsOK(<<1>>)'
      BY <2>1, <2>2 DEF WaitsOK
    <3>2. WaitsOK(NextWaits)'
      BY <2>2, <3>1 DEF WaitsOK
    <3>3. iter'[ForNext] # Undefined /\ iter'[ForNext].callbacks # <<>>
      BY <1>8, <1>10, <1>17
    <3>4. \A n \in Calls : n > made' => answer'[n] = Pending
      BY <2>1, <2>2 DEF NextInv, Calls
    <3> QED  BY <2>1, <2>2, <3>2, <3>3, <3>4 DEF NextInv
  <2>4. OrderInv'
    <3>1. \A i \in DOMAIN run : run[i].state # ForNext
      BY <1>14, <1>17
    <3>2. Ordered(NextWaits, run, made)'
      BY <1>2, <2>1, <2>2, <3>1 DEF Ordered, Held
    <3> QED  BY <3>2 DEF OrderInv
  <2> QED  BY <2>3, <2>4
<1>18. ASSUME s # ForNext
       PROVE  NextInv' /\ OrderInv'
  <2>1. made' = made /\ iter'[ForNext] = iter[ForNext]
    BY <1>1, <1>3, <1>8, <1>18
  <2>2. NextWaits' = NextWaits /\ Taken' = Taken /\ Given' = Given /\ answer' = answer
    BY <1>2, <2>1 DEF NextWaits, Taken, Given
  <2>3. NextInv'
    BY <2>1, <2>2 DEF NextInv, WaitsOK
  <2>4. OrderInv'
    BY <1>2, <2>1, <2>2 DEF OrderInv, Ordered, Held
  <2> QED  BY <2>3, <2>4
<1>19. FinishedInv'
  <2>1. ASSUME NEW d \in Loops, iter'[d] # Undefined, iter'[d].finished
        PROVE  (Consumed(iter'[d]) = Total \/ outcome'[d] = "error")
    <3>1. d # s /\ iter'[d] = iter[d] /\ outcome'[d] = outcome[d]
      BY <1>1, <1>3, <1>8, <1>10, <2>1 DEF TypeInv
    <3> QED  BY <1>1, <2>1, <3>1 DEF WaitsForStart, Calm
  <2>2. ASSUME iter'[ForNext] # Undefined, iter'[ForNext].finished
        PROVE  Consumed(iter'[ForNext]) = Total \/ \E m \in Calls : answer[m] = Error
    <3>1. iter'[ForNext] = iter[ForNext]
      BY <1>1, <1>8, <1>10, <2>2
    <3> QED  BY <1>1, <2>2, <3>1 DEF WaitsForStart, Calm
  <2>3. Total' = Total
    BY <1>2 DEF Total
  <2> QED  BY <1>2, <2>1, <2>2, <2>3 DEF FinishedInv
<1> QED  BY <1>11, <1>12, <1>13, <1>15, <1>16, <1>17, <1>18, <1>19

\* With call n among those that wait, the calls are in order.
LEMMA NowOrdered ==
  ASSUME NEW n \in Calls, NEW cbs \in Seq(Calls), NEW r \in Seq(EntryType), NEW m,
         made \in Nat, m = made \/ (m = made + 1 /\ n = m), OrderedBut(n, cbs, r)
  PROVE  Ordered(Append(cbs, n), r, m)
<1> DEFINE all == Append(cbs, n)
<1>1. /\ Len(cbs) \in Nat /\ DOMAIN cbs = 1 .. Len(cbs) /\ \A i \in DOMAIN cbs : cbs[i] \in Calls
      /\ DOMAIN all = 1 .. Len(cbs) + 1 /\ \A i \in DOMAIN cbs : all[i] = cbs[i]
      /\ all[Len(cbs) + 1] = n
  OBVIOUS
<1> HIDE DEF all
<1>2. ASSUME NEW k \in 1 .. m, answer[k] = Pending
      PROVE  (\E i \in DOMAIN all : all[i] = k) \/ Held(r, k)
  <2>1. CASE k = n
    BY <1>1, <2>1
  <2>2. CASE k # n
    <3>1. k \in (1 .. made) \ {n}
      BY <2>2
    <3>2. (\E i \in DOMAIN cbs : cbs[i] = k) \/ Held(r, k)
      BY <1>2, <3>1 DEF OrderedBut
    <3> QED  BY <1>1, <3>2
  <2> QED  BY <2>1, <2>2
<1>3. \A i, j \in DOMAIN all : i < j => all[i] < all[j]
  BY <1>1 DEF OrderedBut
<1>4. \A i \in DOMAIN all, j \in DOMAIN r : r[j].state = ForNext => all[i] < r[j].cb
  BY <1>1 DEF OrderedBut
<1>5. Ordered(all, r, m)
  BY <1>2, <1>3, <1>4 DEF OrderedBut, Ordered
<1> QED  BY <1>5 DEF all

LEMMA NextMovesInv ==
  ASSUME Inv, NEW n, NEW st, NEW w, NEW rest, NextMoves(n, st, w, rest)
  PROVE  Inv'
<1> USE DEF Inv
<1>1. /\ ForNext \in Iters /\ Start \in Iters /\ ForNext # Start /\ ForNext \in Consumers
      /\ \A d \in Loops : d \in Iters /\ d # Start /\ d # ForNext
      /\ Calls \subseteq Nat
  BY NamesDiffer DEF Iters, Consumers, Calls
<1>2. /\ iter' = [iter EXCEPT ![ForNext] = st] /\ StateOK(ForNext, st)
      /\ UNCHANGED <<use, errors, out, outcome>>
      /\ n \in Calls /\ answer[n] = Pending /\ n <= made'
      /\ made \in Nat /\ made' \in Nat /\ made <= made' /\ n \in 1 .. made' /\ made' \in 0 .. NumCalls
      /\ made' = made \/ (made' = made + 1 /\ n = made')
      /\ rest \in Seq(EntryType) /\ run' = w \o rest
  BY DEF NextMoves, TypeInv, Calls
<1>a. 1 .. made' \subseteq Calls /\ 1 .. made \subseteq 1 .. made'
  <2>1. NumCalls \in Nat /\ made' <= NumCalls
    BY <1>2, SizesAssumption
  <2> QED  BY <1>2, <2>1 DEF Calls
<1>3. /\ StateInv' /\ iter'[ForNext] = st /\ st # Undefined
      /\ \A t \in Iters : t # ForNext => iter'[t] = iter[t]
      /\ iter' \in [Iters -> SomeState]
  BY <1>1, <1>2, OneStateMoves
<1>4. NextWaits' = st.callbacks /\ Taken' = Consumed(st)
  BY <1>3 DEF NextWaits, Taken
<1>5. NextWaits \in Seq(Calls) /\ \A i \in DOMAIN NextWaits : NextWaits[i] \in 1 .. made /\ NextWaits[i] # n
  <2>1. NextWaits \in Seq(Calls)
    <3>1. CASE iter[ForNext] = Undefined
      BY <3>1 DEF NextWaits
    <3>2. CASE iter[ForNext] # Undefined
      BY <1>1, <3>2, StatesTyped, Fields, NamesDiffer DEF NextWaits, Waiters
    <3> QED  BY <3>1, <3>2
  <2> QED  BY <2>1 DEF NextInv, WaitsOK, NextMoves
<1>6. ASSUME NEW a \in {End, Error} \cup 1 .. use.rows, Replies(n, a, st, w)
      PROVE  a # Pending /\ answer' = [answer EXCEPT ![n] = a] /\ w = <<>>
  BY <1>6, UseFacts DEF Replies, Pending, End, Error, Scan!Pending, Scan!End, Scan!Error, TypeInv
<1>7. \/ UNCHANGED answer
      \/ \E a \in {End, Error} \cup 1 .. use.rows : answer' = [answer EXCEPT ![n] = a]
  BY <1>6 DEF NextMoves, Waits
<1>8. \A k \in Calls : k # n => answer'[k] = answer[k]
  BY <1>7 DEF TypeInv
<1>9. /\ w \in Seq(EntryType) /\ Distinct(w)
      /\ \/ w = <<>>
         \/ /\ DOMAIN w = {1} /\ w[1] = [state |-> ForNext, cb |-> n, err |-> FALSE]
            /\ WokenAtOnce(ForNext, n, st, w) /\ UNCHANGED answer /\ NextWaits = <<>>
  <2>1. w = <<>> \/ (WokenAtOnce(ForNext, n, st, w) /\ UNCHANGED answer /\ NextWaits = <<>>)
    BY <1>6 DEF NextMoves, Waits
  <2>2. CASE w = <<>>
    BY <2>2 DEF Distinct
  <2>3. CASE WokenAtOnce(ForNext, n, st, w) /\ UNCHANGED answer /\ NextWaits = <<>>
    <3>1. w = <<[state |-> ForNext, cb |-> n, err |-> FALSE]>>
      BY <2>3 DEF WokenAtOnce
    <3>2. [state |-> ForNext, cb |-> n, err |-> FALSE] \in EntryType
      BY <1>1, <1>2 DEF EntryType
    <3>3. DOMAIN w = {1} /\ w[1] = [state |-> ForNext, cb |-> n, err |-> FALSE] /\ w \in Seq(EntryType)
      BY <3>1, <3>2
    <3> QED  BY <2>3, <3>3 DEF Distinct
  <2> QED  BY <2>1, <2>2, <2>3
<1>10. TypeInv'
  <2>1. run' \in Seq(EntryType)
    BY <1>2, <1>9, JoinedEntries
  <2>2. answer' \in [Calls -> {Pending, End, Error} \cup 1 .. use.rows]
    BY <1>7 DEF TypeInv
  <2>3. user' \in {Undefined, "next"} \cup Loops
    BY DEF NextMoves, Waits, Replies
  <2> QED  BY <1>2, <1>3, <2>1, <2>2, <2>3 DEF TypeInv
<1>11. iter[ForNext] # Undefined => Waiting(st) = Waiting(iter[ForNext])
  BY DEF NextMoves
<1>12. StartInv'
  <2>1. \A i \in DOMAIN iter[Start].callbacks :
          iter[Start].callbacks[i] = ForNext => iter'[ForNext] # Undefined /\ Waiting(iter'[ForNext])
    BY <1>3, <1>11 DEF StartInv
  <2> QED  BY <1>1, <1>2, <1>3, <2>1, StartKept
<1>13. RunInv'
  <2>1. ASSUME NEW i \in DOMAIN rest
        PROVE  EntryOK(rest[i])'
    <3>1. PICK e : e = rest[i]
      OBVIOUS
    <3>2. e \in EntryType /\ EntryOK(e) /\ (e.state # ForNext \/ e.cb # n)
      BY <1>2, <3>1 DEF NextMoves, EntriesOK
    <3>3. CASE e.state # ForNext
      <4>1. e.state = Start /\ e.cb = ForNext => iter'[ForNext] # Undefined /\ Waiting(iter'[ForNext])
        BY <1>3, <1>11, <3>2 DEF EntryOK
      <4>2. e.state \in Loops => outcome'[e.state] = outcome[e.state]
        BY <1>2
      <4>3. EntryOK(e)'
        BY <1>1, <1>2, <1>3, <3>2, <3>3, <4>1, <4>2, EntryKept
      <4> QED  BY <3>1, <4>3
    <3>4. CASE e.state = ForNext
      <4>1. /\ iter[ForNext] # Undefined /\ ~Waiting(iter[ForNext]) /\ (e.err => iter[ForNext].finished)
            /\ e.cb \in 1 .. made /\ answer[e.cb] = Pending /\ e.cb # n
            /\ \A j \in DOMAIN iter[ForNext].callbacks : iter[ForNext].callbacks[j] # e.cb
        BY <1>1, <3>2, <3>4 DEF EntryOK
      <4>2. ~Waiting(st) /\ (e.err => st.finished)
        BY <1>11, <4>1 DEF NextMoves
      <4>3. e.cb \in Calls /\ e.cb \in 1 .. made' /\ answer'[e.cb] = Pending
        <5>1. e.cb \in Calls /\ e.cb \in 1 .. made'
          BY <1>a, <4>1
        <5> QED  BY <1>8, <4>1, <5>1
      <4>4. \A j \in DOMAIN st.callbacks : st.callbacks[j] # e.cb
        <5>1. \A j \in DOMAIN NextWaits : NextWaits[j] # e.cb
          BY <4>1 DEF NextWaits
        <5>2. st.callbacks \in {NextWaits, Append(NextWaits, n), <<>>}
          BY DEF NextMoves, Waits, Replies, WokenAtOnce
        <5>3. \A j \in DOMAIN Append(NextWaits, n) : Append(NextWaits, n)[j] # e.cb
          <6>1. PICK cbs : cbs = NextWaits
            OBVIOUS
          <6>2. \A j \in DOMAIN Append(cbs, n) :
                  (j \in DOMAIN cbs /\ Append(cbs, n)[j] = cbs[j]) \/ Append(cbs, n)[j] = n
            BY <1>5, <6>1
          <6> QED  BY <4>1, <5>1, <6>1, <6>2
        <5> QED  BY <5>1, <5>2, <5>3
      <4>5. EntryOK(e)'
        BY <1>1, <1>3, <3>4, <4>2, <4>3, <4>4 DEF EntryOK
      <4> QED  BY <3>1, <4>5
    <3> QED  BY <3>3, <3>4
  <2>2. \A i \in DOMAIN w : EntryOK(w[i])'
    BY <1>1, <1>2, <1>3, <1>9 DEF EntryOK, WokenAtOnce
  <2>3. \A i \in DOMAIN w, j \in DOMAIN rest : w[i].state # rest[j].state \/ w[i].cb # rest[j].cb
    BY <1>9 DEF NextMoves
  <2>4. Distinct(rest)
    BY DEF NextMoves, EntriesOK
  <2> QED  BY <1>2, <1>9, <2>1, <2>2, <2>3, <2>4, RunMoves
<1>14. LoopInv'
  <2>1. \A d \in Loops : iter'[d] = iter[d]
    BY <1>1, <1>3
  <2> QED  BY <1>2, <2>1 DEF LoopInv
<1>15. IsFiniteSet(Given') /\ Cardinality(Given') = Consumed(st)
  <2>1. ASSUME NEW a \in 1 .. use.rows, Replies(n, a, st, w)
        PROVE  IsFiniteSet(Given') /\ Cardinality(Given') = Consumed(st)
    <3>1. a \notin {End, Error} /\ a > 0 /\ ~(Pending > 0)
      BY UseFacts DEF Pending, End, Error, Scan!Pending, Scan!End, Scan!Error, TypeInv
    <3>2. Given' = Given \cup {n} /\ n \notin Given
      BY <1>2, <2>1, <3>1 DEF Given, Replies, TypeInv
    <3>3. Consumed(st) = Taken + 1
      BY <2>1, <3>1 DEF Replies
    <3> QED  BY <3>2, <3>3, FS_AddElement DEF NextInv
  <2>2. ASSUME NEW a \in {End, Error}, Replies(n, a, st, w)
        PROVE  IsFiniteSet(Given') /\ Cardinality(Given') = Consumed(st)
    <3>1. ~(a > 0) /\ ~(Pending > 0)
      BY DEF Pending, End, Error, Scan!Pending, Scan!End, Scan!Error
    <3>2. Given' = Given
      BY <1>2, <2>2, <3>1 DEF Given, Replies, TypeInv
    <3> QED  BY <2>2, <3>2 DEF Replies, NextInv
  <2>3. ASSUME Waits(n, st, w)
        PROVE  IsFiniteSet(Given') /\ Cardinality(Given') = Consumed(st)
    BY <2>3 DEF Waits, Given, NextInv
  <2> QED  BY <2>1, <2>2, <2>3 DEF NextMoves
<1>16. WaitsOK(NextWaits)'
  <2>1. \A k \in 1 .. made : k \in Calls /\ k \in 1 .. made'
    BY <1>a
  <2>2. WaitsOK(NextWaits) /\ \A i \in DOMAIN NextWaits : NextWaits[i] \in 1 .. made'
                              /\ answer'[NextWaits[i]] = Pending
    BY <1>5, <1>8, <2>1 DEF NextInv, WaitsOK
  <2>3. PICK cbs : cbs = NextWaits
    OBVIOUS
  <2>4. WaitsOK(cbs)' /\ WaitsOK(<<>>)'
    BY <2>2, <2>3 DEF WaitsOK
  <2>5. UNCHANGED answer => WaitsOK(Append(cbs, n))'
    <3>1. \A i \in DOMAIN cbs : cbs[i] # n
      BY <1>5, <2>3
    <3>2. cbs \in Seq(Calls)
      BY <1>5, <2>3
    <3>3. /\ Len(cbs) \in Nat /\ DOMAIN Append(cbs, n) = 1 .. Len(cbs) + 1 /\ DOMAIN cbs = 1 .. Len(cbs)
          /\ Append(cbs, n)[Len(cbs) + 1] = n /\ \A i \in DOMAIN cbs : Append(cbs, n)[i] = cbs[i]
      BY <3>2
    <3>4. \A i \in DOMAIN Append(cbs, n) : i = Len(cbs) + 1 \/ i \in DOMAIN cbs
      BY <3>3
    <3> QED  BY <1>2, <2>4, <3>1, <3>3, <3>4 DEF WaitsOK
  <2>6. st.callbacks \in {cbs, <<>>} \/ (st.callbacks = Append(cbs, n) /\ UNCHANGED answer)
    BY <2>3 DEF NextMoves, Waits, Replies, WokenAtOnce
  <2>7. WaitsOK(st.callbacks)'
    BY <2>4, <2>5, <2>6
  <2> QED  BY <1>4, <2>7 DEF WaitsOK
<1>17. NextInv'
  <2>1. iter'[ForNext].fetching => iter'[ForNext].callbacks # <<>>
    <3>1. Append(NextWaits, n) # <<>>
      BY <1>5
    <3> QED  BY <1>3, <3>1 DEF NextMoves, Waits, Replies, WokenAtOnce
  <2>2. \A k \in Calls : k > made' => answer'[k] = Pending
    <3>1. \A k \in Calls : k > made' => k > made /\ k # n
      BY <1>1, <1>2
    <3> QED  BY <1>8, <3>1 DEF NextInv
  <2> QED  BY <1>3, <1>4, <1>15, <1>16, <2>1, <2>2 DEF NextInv
<1>18. FinishedInv'
  <2>1. ASSUME NEW d \in Loops, iter'[d] # Undefined, iter'[d].finished
        PROVE  (Consumed(iter[d]) = Total \/ outcome[d] = "error") /\ iter'[d] = iter[d]
    BY <1>1, <1>3, <2>1 DEF NextMoves, Calm
  <2>2. st.finished => Consumed(st) = Total \/ \E m \in Calls : answer'[m] = Error
    BY DEF NextMoves
  <2> QED  BY <1>2, <1>3, <2>1, <2>2 DEF FinishedInv, Total
<1>19. OrderInv'
  <2> SUFFICES ASSUME ~use.reentrant
               PROVE  Ordered(NextWaits, run, made)'
    BY <1>2 DEF OrderInv
  <2>1. OrderedBut(n, NextWaits, rest)
    BY DEF NextMoves
  <2>2. ASSUME NEW a \in {End, Error} \cup 1 .. use.rows, Replies(n, a, st, w)
        PROVE  Ordered(NextWaits, run, made)'
    <3>1. a # Pending /\ answer' = [answer EXCEPT ![n] = a] /\ w = <<>>
      BY <1>6, <2>2
    <3>2. run' = rest /\ NextWaits' = NextWaits
      BY <1>2, <1>4, <2>2, <3>1 DEF Replies
    <3>3. ASSUME NEW k \in 1 .. made', answer'[k] = Pending
          PROVE  (\E i \in DOMAIN NextWaits : NextWaits[i] = k) \/ Held(rest, k)
      <4>1. k \in Calls
        BY <1>a
      <4>2. answer'[n] = a
        BY <1>2, <3>1 DEF TypeInv
      <4>3. k # n /\ answer[k] = Pending
        BY <1>8, <3>1, <3>3, <4>1, <4>2
      <4>4. k \in (1 .. made) \ {n}
        BY <1>2, <4>3
      <4> QED  BY <2>1, <4>3, <4>4 DEF OrderedBut
    <3> QED  BY <2>1, <3>2, <3>3 DEF Ordered, OrderedBut, Held
  <2>3. Ordered(Append(NextWaits, n), rest, made')
    BY <1>2, <1>5, <2>1, NowOrdered
  <2>4. CASE w = <<>> /\ st.callbacks = Append(NextWaits, n) /\ UNCHANGED answer
    BY <1>2, <1>4, <2>3, <2>4 DEF Ordered, Held
  <2>5. CASE NextWaits = <<>> /\ WokenAtOnce(ForNext, n, st, w) /\ UNCHANGED answer
    <3>1. Append(NextWaits, n) = <<n>> /\ <<n>> \in Seq(Calls) /\ DOMAIN <<n>> = {1} /\ <<n>>[1] = n
      BY <1>2, <2>5
    <3>2. w # <<>>
      BY <2>5 DEF WokenAtOnce
    <3>3. Ordered(<<>>, w \o rest, made')
      <4>1. PICK cbs : cbs = <<n>>
        OBVIOUS
      <4>2. cbs \in Seq(Calls) /\ DOMAIN w = DOMAIN cbs /\ Ordered(cbs, rest, made')
            /\ \A i \in DOMAIN w : w[i].state = ForNext /\ w[i].cb = cbs[i]
        BY <1>9, <2>3, <3>1, <3>2, <4>1
      <4> QED  BY <1>2, <1>9, <4>2, WaitersWoken
    <3>4. st.callbacks = <<>>
      BY <2>5 DEF WokenAtOnce
    <3> QED  BY <1>2, <1>4, <2>5, <3>3, <3>4 DEF Ordered, Held
  <2> QED  BY <2>2, <2>4, <2>5 DEF NextMoves, Waits
<1> QED  BY <1>3, <1>10, <1>12, <1>13, <1>14, <1>17, <1>18, <1>19

-----------------------------------------------------------------------------
(* Every step is of one of the five kinds.                                 *)

\* No error is about to be told to another than x when user code is running, or when
\* nothing is about to be told, or it is told to x.
LEMMA CalmWhen ==
  ASSUME Inv, NEW x,
         run = <<>> \/ user # Undefined \/ Head(run).state \in {x, Start} \/ ~Head(run).err
  PROVE  Calm(x)
<1>1. Start # ForNext /\ Start \notin Loops /\ ForNext \notin Loops
  BY NamesDiffer
<1>2. \A s \in Consumers : s # x => ~ErrorNext(s)
  BY <1>1 DEF ErrorNext, Consumers
<1> QED  BY <1>2 DEF Inv, FinishedInv, Calm, Consumers

\* What the callbacks after the first one will find.
LEMMA RestFacts ==
  ASSUME Inv, run # <<>>
  PROVE  /\ Tail(run) \in Seq(EntryType) /\ Head(run) \in EntryType
         /\ EntriesOK(Tail(run)) /\ EntryOK(Head(run))
         /\ \A i \in DOMAIN Tail(run) :
              Tail(run)[i].state # Head(run).state \/ Tail(run)[i].cb # Head(run).cb
<1>1. PICK r : r = run
  OBVIOUS
<1>2. r \in Seq(EntryType) /\ r # <<>> /\ EntriesOK(r)
  BY <1>1 DEF Inv, TypeInv, RunInv
<1> QED  BY <1>1, <1>2, RestOK, RestOfEntries

LEMMA RestOrdered ==
  ASSUME NEW r \in Seq(EntryType), r # <<>>, NEW cbs, NEW m, Ordered(cbs, r, m)
  PROVE  /\ Head(r).state # ForNext => Ordered(cbs, Tail(r), m)
         /\ Head(r).state = ForNext /\ m = made => OrderedBut(Head(r).cb, cbs, Tail(r))
<1> DEFINE t == Tail(r)
<1>1. /\ 1 \in DOMAIN r /\ r[1] = Head(r)
      /\ \A i \in DOMAIN t : i \in Nat \ {0} /\ i + 1 \in DOMAIN r /\ t[i] = r[i + 1]
      /\ \A i \in DOMAIN r : i # 1 => i - 1 \in DOMAIN t /\ t[i - 1] = r[i]
  BY RestOfEntries
<1> HIDE DEF t
<1>2. ASSUME NEW k, Held(r, k), Head(r).state # ForNext \/ Head(r).cb # k
      PROVE  Held(t, k)
  <2>1. PICK i \in DOMAIN r : r[i].state = ForNext /\ r[i].cb = k
    BY <1>2 DEF Held
  <2>2. i # 1
    BY <1>1, <1>2, <2>1
  <2> QED  BY <1>1, <2>1, <2>2 DEF Held
<1>3. ASSUME NEW i \in DOMAIN t, NEW j \in DOMAIN t, i < j, t[i].state = ForNext, t[j].state = ForNext
      PROVE  t[i].cb < t[j].cb
  <2>1. i + 1 < j + 1
    BY <1>1, <1>3
  <2> QED  BY <1>1, <1>3, <2>1 DEF Ordered
<1>4. \A i \in DOMAIN cbs, j \in DOMAIN t : t[j].state = ForNext => cbs[i] < t[j].cb
  BY <1>1 DEF Ordered
<1>5. Head(r).state # ForNext => Ordered(cbs, t, m)
  BY <1>2, <1>3, <1>4 DEF Ordered
<1>6. ASSUME Head(r).state = ForNext, m = made
      PROVE  OrderedBut(Head(r).cb, cbs, t)
  <2>1. \A k \in (1 .. made) \ {Head(r).cb} :
          answer[k] = Pending => (\E i \in DOMAIN cbs : cbs[i] = k) \/ Held(t, k)
    BY <1>2, <1>6 DEF Ordered
  <2>2. \A j \in DOMAIN t : t[j].state = ForNext => Head(r).cb < t[j].cb
    <3>1. \A j \in DOMAIN t : 1 < j + 1
      BY <1>1
    <3> QED  BY <1>1, <1>6, <3>1 DEF Ordered
  <2>3. \A i \in DOMAIN cbs : cbs[i] < Head(r).cb
    BY <1>1, <1>6 DEF Ordered
  <2> QED  BY <1>3, <1>4, <2>1, <2>2, <2>3 DEF Ordered, OrderedBut
<1> QED  BY <1>5, <1>6 DEF t

\* A fetch makes state st the state "to", and w what it runs at once, before rest.
FetchMakes(s, st, cb, rest, to, w) ==
  /\ iter' = [iter EXCEPT ![s] = to] /\ run' = w \o rest
  /\ StateOK(s, to) /\ Waiting(to) = Waiting(st) /\ Consumed(to) = Consumed(st)
  /\ \/ /\ w = <<>> /\ to.fetching /\ to.callbacks = Append(st.callbacks, cb)
        /\ to.results = st.results /\ to.index = st.index /\ ~to.finished
     \/ /\ WokenAtOnce(s, cb, to, w) /\ st.callbacks = <<>>
        /\ to.results = Undefined /\ Consumed(to) = Total

\* A fetch either has its caller wait or, the fetcher being finished, ends the state
\* and wakes the caller in the same turn.
LEMMA FetchMoves ==
  ASSUME use \in Uses, NEW s \in Consumers, NEW st, StateOK(s, st), NEW cb \in Waiters(s),
         NEW rest \in Seq(EntryType), Fetch(s, st, cb, rest), ~st.finished,
         Waiting(st) \/ Consumed(st) = st.fetcher.pos, cb \in Consumers \cup Calls
  PROVE  \E to, w : FetchMakes(s, st, cb, rest, to, w)
<1>1. s \in Iters /\ st \in IterType(s)
  BY DEF Consumers, Iters, StateOK
<1>2. st.callbacks \in Seq(Waiters(s)) /\ Append(st.callbacks, cb) \in Seq(Waiters(s))
      /\ st.fetching \in BOOLEAN /\ (Waiting(st) => st.fetching)
  BY <1>1, Fields DEF StateOK
<1>3. PICK joined : joined = [st EXCEPT !.callbacks = Append(@, cb)]
  OBVIOUS
<1>4. /\ joined \in IterType(s) /\ joined.callbacks = Append(st.callbacks, cb)
      /\ joined.index = st.index /\ joined.results = st.results /\ joined.fetching = st.fetching
      /\ joined.finished = st.finished /\ joined.fetcher = st.fetcher
  BY <1>1, <1>2, <1>3 DEF IterType
<1>5. CASE st.fetching \/ ~st.fetcher.finished
  <2>1. PICK to : to = [joined EXCEPT !.fetching = TRUE]
    OBVIOUS
  <2>2. /\ to \in IterType(s) /\ to.callbacks = Append(st.callbacks, cb)
        /\ to.index = st.index /\ to.results = st.results /\ to.fetching
        /\ to.finished = st.finished /\ to.fetcher = st.fetcher
    BY <1>4, <2>1 DEF IterType
  <2>3. StateOK(s, to) /\ Consumed(to) = Consumed(st) /\ Waiting(to) = Waiting(st)
    BY <1>1, <1>5, <2>2, Joins
  <2>4. PICK w : w = <<>>
    OBVIOUS
  <2>5. iter' = [iter EXCEPT ![s] = to] /\ run' = w \o rest
    <3>1. <<>> \o rest = rest
      OBVIOUS
    <3>2. iter' = [iter EXCEPT ![s] = to] /\ run' = rest
      BY <1>3, <1>5, <2>1 DEF Fetch
    <3> QED  BY <2>4, <3>1, <3>2
  <2> QED  BY <2>2, <2>3, <2>4, <2>5 DEF FetchMakes
<1>6. CASE ~st.fetching /\ st.fetcher.finished
  <2>1. PICK to : to = Arrived(joined, st.fetcher, Undefined)
    OBVIOUS
  <2>2. PICK w : w = Wake(s, joined, FALSE)
    OBVIOUS
  <2>3. iter' = [iter EXCEPT ![s] = to] /\ run' = w \o rest
    BY <1>3, <1>6, <2>1, <2>2 DEF Fetch
  <2>4. to = Ended(st)
    BY <1>1, <1>3, <2>1, SteppedStates
  <2>5. ~Waiting(st) /\ st.callbacks = <<>>
    BY <1>2, <1>6 DEF StateOK
  <2>6. /\ StateOK(s, to) /\ Consumed(to) = Total /\ st.fetcher.pos = Total
        /\ ~Waiting(to) /\ ~to.fetching /\ to.finished /\ to.callbacks = <<>> /\ to.results = Undefined
    BY <1>6, <2>4, <2>5, Finishes
  <2>7. w = <<[state |-> s, cb |-> cb, err |-> FALSE]>>
    <3>1. joined.callbacks = <<cb>>
      BY <1>4, <2>5
    <3>2. DOMAIN <<cb>> = {1} /\ <<cb>>[1] = cb
      OBVIOUS
    <3>3. w = [k \in {1} |-> [state |-> s, cb |-> <<cb>>[k], err |-> FALSE]]
      BY <2>2, <3>1, <3>2 DEF Wake
    <3>4. PICK e : e = [state |-> s, cb |-> cb, err |-> FALSE]
      OBVIOUS
    <3>5. w = [k \in {1} |-> e]
      BY <3>2, <3>3, <3>4
    <3>6. [k \in {1} |-> e] = <<e>>
      OBVIOUS
    <3> QED  BY <3>4, <3>5, <3>6
  <2>8. WokenAtOnce(s, cb, to, w)
    BY <2>6, <2>7 DEF WokenAtOnce
  <2>9. Consumed(to) = Consumed(st) /\ Waiting(to) = Waiting(st)
    BY <2>5, <2>6 DEF Waiting
  <2> QED  BY <2>3, <2>5, <2>6, <2>8, <2>9 DEF FetchMakes
<1> QED  BY <1>2, <1>5, <1>6

\* Rows given after rows 1 .. n are the next ones.
LEMMA RowsFollow ==
  ASSUME NEW o \in Seq(Nat), NEW b \in Seq(Nat), \A k \in DOMAIN o : o[k] = k,
         \A k \in DOMAIN b : b[k] = Len(o) + k
  PROVE  /\ o \o b \in Seq(Nat) /\ Len(o \o b) = Len(o) + Len(b) /\ Len(o) <= Len(o \o b)
         /\ \A k \in DOMAIN (o \o b) : (o \o b)[k] = k
         /\ o \o b = o => b = <<>>
<1>1. /\ Len(o) \in Nat /\ Len(b) \in Nat /\ DOMAIN o = 1 .. Len(o) /\ DOMAIN b = 1 .. Len(b)
      /\ o \o b \in Seq(Nat) /\ Len(o \o b) = Len(o) + Len(b)
      /\ DOMAIN (o \o b) = 1 .. Len(o) + Len(b)
  OBVIOUS
<1>2. ASSUME NEW k \in DOMAIN (o \o b)
      PROVE  (o \o b)[k] = k
  <2>1. CASE k \in 1 .. Len(o)
    BY <1>1, <2>1
  <2>2. CASE k \notin 1 .. Len(o)
    <3>1. k - Len(o) \in DOMAIN b /\ (o \o b)[k] = b[k - Len(o)]
      BY <1>1, <2>2
    <3> QED  BY <1>1, <3>1
  <2> QED  BY <2>1, <2>2
<1>3. (o \o b = o => Len(b) = 0) /\ Len(o) <= Len(o \o b)
  <2>1. PICK all : all = o \o b
    OBVIOUS
  <2>2. Len(all) = Len(o) + Len(b) /\ Len(o) \in Nat /\ Len(b) \in Nat
    BY <1>1, <2>1
  <2>3. all = o => Len(b) = 0
    BY <2>2
  <2>4. Len(o) <= Len(all)
    BY <2>2
  <2> QED  BY <2>1, <2>3, <2>4
<1>4. Len(b) = 0 => b = <<>>
  OBVIOUS
<1> QED  BY <1>1, <1>2, <1>3, <1>4

\* Loop c is to go on in state st, and rest is what is left to run after it.
LoopReady(c, st, rest) ==
  /\ StateOK(c, st) /\ ~Waiting(st) /\ ~st.fetching
  /\ \/ iter[c] = Undefined /\ outcome[c] = "idle" /\ ~st.finished
     \/ iter[c] = st /\ outcome[c] \in Reading
  /\ st.finished => Consumed(st) = Total
  /\ c \notin ForEach /\ st.results # Undefined => st.index = -1 \/ st.index = Len(st.results)
  /\ outcome[c] = "fetching" /\ ~st.finished => Fresh(st)
  /\ outcome[c] = "idle" /\ st.results = <<>> => Total = 0
  /\ out[c] \in Seq(Nat) /\ Len(out[c]) = Consumed(st) /\ \A k \in DOMAIN out[c] : out[c][k] = k
  /\ rest \in Seq(EntryType) /\ EntriesOK(rest) /\ \A i \in DOMAIN rest : rest[i].state # c
  /\ ~use.reentrant => Ordered(NextWaits, rest, made)
  /\ Calm(c)

LoopMoved(c) == \E st, how, rows, w, rest : LoopMoves(c, st, how, rows, w, rest)

\* A loop whose iteration has ended, or whose function or read has failed it.
LEMMA LoopFinishes ==
  ASSUME Inv, NEW c \in Loops, NEW st, NEW how \in Ends, NEW rest, StateOK(c, st), ~Waiting(st), ~st.fetching,
         iter[c] = st, outcome[c] \in Reading, st.finished => Consumed(st) = Total \/ how = "error",
         how = "end" => st.finished,
         rest \in Seq(EntryType), EntriesOK(rest), \A i \in DOMAIN rest : rest[i].state # c,
         ~use.reentrant => Ordered(NextWaits, rest, made), Calm(c),
         iter' = [iter EXCEPT ![c] = st], run' = rest, Turn(c, how), UNCHANGED <<use, made, errors>>
  PROVE  LoopMoved(c)
<1>1. PICK w : w = <<>>
  OBVIOUS
<1>2. run' = w \o rest
  <2>1. <<>> \o rest = rest
    OBVIOUS
  <2> QED  BY <1>1, <2>1
<1>3. PICK rows : rows = out[c]
  OBVIOUS
<1>4. st # Undefined /\ c \in Iters
  BY Fields DEF Iters, StateOK
<1>5. out' = [out EXCEPT ![c] = rows] /\ rows \in Seq(Nat) /\ Len(rows) = Consumed(st)
      /\ \A k \in DOMAIN rows : rows[k] = k
  BY <1>3, <1>4 DEF Turn, Inv, TypeInv, LoopInv
<1>6. how # "inFunc" /\ how # "fetching"
  BY DEF Ends, Scan!Ends
<1>7. LoopOK(c, st, how)
  <2>1. LoopOK(c, st, outcome[c])
    BY <1>4 DEF Inv, LoopInv
  <2> QED  BY <1>6, <2>1 DEF LoopOK
<1>8. Len(rows) \in Nat
  BY <1>5
<1>9. /\ how \in Reading \cup Ends /\ outcome[c] \in {"idle"} \cup Reading
      /\ how = "end" => how # "error"
      /\ user' \in {c, Undefined} /\ outcome' = [outcome EXCEPT ![c] = how] /\ UNCHANGED answer
  BY DEF Turn
<1>10. Len(rows) >= Len(out[c]) /\ rows = out[c]
  BY <1>3, <1>8
<1>11. LoopMoves(c, st, how, rows, w, rest)
  BY <1>1, <1>2, <1>5, <1>6, <1>7, <1>9, <1>10 DEF LoopMoves
<1> QED  BY <1>11 DEF LoopMoved

\* A loop gives its function the rows that follow.
LEMMA LoopGives ==
  ASSUME Inv, NEW c \in Loops, NEW st, NEW rest, LoopReady(c, st, rest), ~st.finished, NEW to, NEW batch \in Seq(Nat),
         StateOK(c, to), ~Waiting(to), ~to.fetching, ~to.finished,
         Consumed(to) = Consumed(st) + Len(batch), \A k \in DOMAIN batch : batch[k] = Consumed(st) + k,
         c \notin ForEach => to.index = Len(to.results),
         batch = <<>> => outcome[c] # "fetching" /\ st.results = <<>>,
         iter' = [iter EXCEPT ![c] = to], run' = rest, Give(c, batch), UNCHANGED <<use, made, errors>>
  PROVE  LoopMoved(c)
<1>1. PICK w : w = <<>>
  OBVIOUS
<1>2. run' = w \o rest
  <2>1. <<>> \o rest = rest
    BY DEF LoopReady
  <2> QED  BY <1>1, <2>1
<1>3. PICK rows : rows = out[c] \o batch
  OBVIOUS
<1>4. /\ out' = [out EXCEPT ![c] = rows] /\ rows \in Seq(Nat) /\ Len(rows) = Consumed(to)
      /\ Len(rows) >= Len(out[c]) /\ (rows = out[c] => batch = <<>>)
      /\ \A k \in DOMAIN rows : rows[k] = k
  <2>1. out[c] \in Seq(Nat) /\ Len(out[c]) = Consumed(st) /\ \A k \in DOMAIN out[c] : out[c][k] = k
    BY DEF LoopReady
  <2>2. PICK o : o = out[c]
    OBVIOUS
  <2>3. /\ o \o batch \in Seq(Nat) /\ Len(o \o batch) = Len(o) + Len(batch) /\ Len(o) <= Len(o \o batch)
        /\ \A k \in DOMAIN (o \o batch) : (o \o batch)[k] = k
        /\ o \o batch = o => batch = <<>>
    BY <2>1, <2>2, RowsFollow
  <2>4. rows = o \o batch /\ Len(rows) \in Nat /\ Len(o) \in Nat
    BY <1>3, <2>2, <2>1, <2>3
  <2>5. out' = [out EXCEPT ![c] = rows]
    BY <1>3 DEF Give, Inv, TypeInv
  <2> QED  BY <2>1, <2>2, <2>3, <2>4, <2>5
<1>5. outcome[c] # "inFunc" /\ rows = out[c] => outcome[c] = "idle" /\ Total = 0
  BY <1>4 DEF LoopReady, Reading
<1>6. LoopOK(c, to, "inFunc")
  BY DEF LoopOK
<1>7. /\ iter' = [iter EXCEPT ![c] = to] /\ outcome' = [outcome EXCEPT ![c] = "inFunc"]
      /\ run' = w \o rest /\ user' \in {c, Undefined}
      /\ UNCHANGED <<use, made, errors, answer>>
  BY <1>2 DEF Give
<1>8. /\ outcome[c] \in {"idle"} \cup Reading /\ (iter[c] = Undefined \/ ~Waiting(iter[c]))
      /\ "inFunc" \in Reading \cup Ends /\ "inFunc" \notin Ends
  BY DEF LoopReady, Reading, Ends, Scan!Ends
<1>9. LoopMoves(c, to, "inFunc", rows, w, rest)
  BY <1>1, <1>4, <1>5, <1>6, <1>7, <1>8 DEF LoopMoves, LoopReady
<1> QED  BY <1>9 DEF LoopMoved

\* A loop that has given all it has asks for more.
LEMMA LoopFetches ==
  ASSUME Inv, NEW c \in Loops, NEW st, NEW rest, LoopReady(c, st, rest), ~st.finished,
         ~HasRow(st) \/ st.results = Undefined \/ st.index = Len(st.results),
         c \notin ForEach => st.results = Undefined \/ st.index = Len(st.results),
         Fetch(c, st, c, rest), Turn(c, "fetching"), UNCHANGED <<use, made, errors>>
  PROVE  LoopMoved(c)
<1>1. c \in Iters /\ c \in Consumers /\ c # Start /\ c # ForNext /\ c \in Waiters(c)
  BY NamesDiffer DEF Iters, Consumers, Waiters
<1>2. use \in Uses /\ StateOK(c, st) /\ ~Waiting(st) /\ rest \in Seq(EntryType) /\ st.callbacks = <<>>
  BY DEF Inv, TypeInv, LoopReady, StateOK
<1>3. Consumed(st) = st.fetcher.pos
  BY <1>1, <1>2, NothingLeft
<1>4. PICK to, w : FetchMakes(c, st, c, rest, to, w)
  BY <1>1, <1>2, <1>3, FetchMoves
<1>a. /\ iter' = [iter EXCEPT ![c] = to] /\ run' = w \o rest
      /\ StateOK(c, to) /\ Waiting(to) = Waiting(st) /\ Consumed(to) = Consumed(st)
      /\ \/ /\ w = <<>> /\ to.fetching /\ to.callbacks = Append(st.callbacks, c)
            /\ to.results = st.results /\ to.index = st.index /\ ~to.finished
         \/ /\ WokenAtOnce(c, c, to, w) /\ st.callbacks = <<>>
            /\ to.results = Undefined /\ Consumed(to) = Total
  BY <1>4 DEF FetchMakes
<1>5. PICK rows : rows = out[c]
  OBVIOUS
<1>6. /\ out' = [out EXCEPT ![c] = rows] /\ rows \in Seq(Nat) /\ Len(rows) = Consumed(to)
      /\ \A k \in DOMAIN rows : rows[k] = k
      /\ Len(rows) >= Len(out[c])
  <2>1. out[c] \in Seq(Nat) /\ Len(out[c]) = Consumed(st) /\ \A k \in DOMAIN out[c] : out[c][k] = k
    BY DEF LoopReady
  <2>2. out' = [out EXCEPT ![c] = rows]
    BY <1>5 DEF Turn, Inv, TypeInv
  <2>3. Len(rows) \in Nat
    BY <1>5, <2>1
  <2> QED  BY <1>a, <1>5, <2>1, <2>2, <2>3
<1>7. LoopOK(c, to, "fetching")
  <2>1. Append(<<>>, c) = <<c>>
    OBVIOUS
  <2>2. to.fetching => to.callbacks = <<c>>
    BY <1>2, <1>a, <2>1 DEF WokenAtOnce
  <2>3. c \notin ForEach /\ to.results # Undefined => to.index = -1 \/ to.index = Len(to.results)
    BY <1>a
  <2> QED  BY <2>2, <2>3 DEF LoopOK
<1>8. /\ outcome' = [outcome EXCEPT ![c] = "fetching"] /\ user' \in {c, Undefined}
      /\ UNCHANGED <<use, made, errors, answer>>
      /\ outcome[c] \in {"idle"} \cup Reading /\ (iter[c] = Undefined \/ ~Waiting(iter[c]))
      /\ "fetching" \in Reading \cup Ends /\ "fetching" \notin Ends
  BY DEF Turn, LoopReady, Reading, Ends, Scan!Ends
<1>9. ~Waiting(to) /\ (to.finished => Consumed(to) = Total)
  BY <1>2, <1>a
<1>10. w = <<>> \/ WokenAtOnce(c, c, to, w)
  BY <1>a
<1>11. LoopMoves(c, to, "fetching", rows, w, rest)
  BY <1>a, <1>6, <1>7, <1>8, <1>9, <1>10 DEF LoopMoves, LoopReady
<1> QED  BY <1>11 DEF LoopMoved

LEMMA ForEachStepMoves ==
  ASSUME Inv, NEW c \in ForEach, NEW st, NEW rest, LoopReady(c, st, rest), ForEachStep(c, st, rest),
         UNCHANGED <<use, made, errors>>
  PROVE  LoopMoved(c)
<1>1. c \in Loops /\ c \in Iters /\ use \in Uses /\ StateOK(c, st) /\ st \in IterType(c)
  BY DEF Loops, Iters, Inv, TypeInv, LoopReady, StateOK
<1>2. CASE st.finished /\ Settle(c, st, rest) /\ Turn(c, "end")
  <2>1. "end" \in Ends
    BY DEF Ends, Scan!Ends
  <2> QED  BY <1>1, <1>2, <2>1, LoopFinishes DEF LoopReady, Settle
<1>3. CASE /\ ~st.finished /\ HasRow(st)
           /\ Settle(c, [st EXCEPT !.index = @ + 1], rest)
           /\ Give(c, <<st.results[st.index + 2]>>)
  <2>1. PICK to : to = [st EXCEPT !.index = @ + 1]
    OBVIOUS
  <2>2. to = At(st, st.index + 1)
    BY <1>1, <2>1, SteppedStates
  <2>3. /\ StateOK(c, to) /\ Consumed(to) = Consumed(st) + 1
        /\ st.results[st.index + 2] = Consumed(st) + 1 /\ Consumed(st) + 1 \in 1 .. Total
        /\ ~Waiting(to) /\ ~to.fetching /\ ~to.finished
    BY <1>1, <1>3, <2>2, TakeRow
  <2>4. PICK batch : batch = <<st.results[st.index + 2]>>
    OBVIOUS
  <2>5. /\ batch \in Seq(Nat) /\ Len(batch) = 1 /\ batch # <<>>
        /\ \A k \in DOMAIN batch : batch[k] = Consumed(st) + k
    <3>1. PICK row : row = Consumed(st) + 1
      OBVIOUS
    <3>2. batch = <<row>> /\ row \in Nat
      BY <1>1, <2>3, <2>4, <3>1, UseFacts
    <3>3. DOMAIN batch = {1} /\ batch[1] = row /\ batch \in Seq(Nat) /\ Len(batch) = 1
      BY <3>2
    <3>4. batch # <<>>
      BY <3>2
    <3>5. \A k \in DOMAIN batch : k = 1
      BY <3>3
    <3> QED  BY <3>1, <3>3, <3>4, <3>5
  <2>6. iter' = [iter EXCEPT ![c] = to] /\ run' = rest /\ Give(c, batch)
    BY <1>3, <2>1, <2>4 DEF Settle
  <2> QED  BY <1>1, <1>3, <2>3, <2>5, <2>6, LoopGives
<1>4. CASE ~st.finished /\ ~HasRow(st) /\ Fetch(c, st, c, rest) /\ Turn(c, "fetching")
  BY <1>1, <1>4, LoopFetches
<1> QED  BY <1>2, <1>3, <1>4 DEF ForEachStep

LEMMA ProcessBatchMoves ==
  ASSUME Inv, NEW c \in Loops \ ForEach, NEW st, NEW rest, LoopReady(c, st, rest), ProcessBatch(c, st, rest),
         st.finished \/ (st.results # Undefined /\ st.index = -1),
         UNCHANGED <<use, made, errors>>
  PROVE  LoopMoved(c)
<1>1. c \in Iters /\ use \in Uses /\ StateOK(c, st) /\ st \in IterType(c) /\ ~st.fetching
  BY DEF Iters, Inv, TypeInv, LoopReady, StateOK
<1>2. CASE st.finished /\ Settle(c, st, rest) /\ Turn(c, "end")
  <2>1. "end" \in Ends
    BY DEF Ends, Scan!Ends
  <2> QED  BY <1>1, <1>2, <2>1, LoopFinishes DEF LoopReady, Settle
<1>3. CASE /\ ~st.finished
           /\ Settle(c, [st EXCEPT !.index = Len(st.results)], rest)
           /\ Give(c, st.results)
  <2>1. PICK to : to = [st EXCEPT !.index = Len(st.results)]
    OBVIOUS
  <2>2. to = At(st, Len(st.results))
    BY <1>1, <2>1, SteppedStates
  <2>3. /\ StateOK(c, to) /\ Consumed(to) = Consumed(st) + Len(st.results)
        /\ st.results \in Seq(Nat) /\ \A k \in DOMAIN st.results : st.results[k] = Consumed(st) + k
        /\ ~Waiting(to) /\ ~to.fetching /\ ~to.finished
        /\ to.index = Len(to.results)
    BY <1>1, <1>3, <2>2, TakeBatch
  <2>4. st.results = <<>> => outcome[c] # "fetching"
    BY <1>3 DEF LoopReady, Fresh
  <2>5. PICK batch : batch = st.results
    OBVIOUS
  <2>6. iter' = [iter EXCEPT ![c] = to] /\ run' = rest /\ Give(c, batch)
    BY <1>3, <2>1, <2>5 DEF Settle
  <2> QED  BY <1>1, <1>3, <2>3, <2>4, <2>5, <2>6, LoopGives
<1> QED  BY <1>2, <1>3 DEF ProcessBatch

LEMMA LoopStepMoves ==
  ASSUME Inv, NEW c \in Loops, NEW st, NEW rest, LoopReady(c, st, rest), LoopStep(c, st, rest),
         ~st.finished, UNCHANGED <<use, made, errors>>
  PROVE  LoopMoved(c)
<1>1. CASE c \in ForEach
  BY <1>1, ForEachStepMoves DEF LoopStep
<1>2. CASE c \notin ForEach /\ (st.results = Undefined \/ st.index = Len(st.results))
  BY <1>2, LoopFetches DEF LoopStep, BatchStep
<1>3. CASE c \notin ForEach /\ ~(st.results = Undefined \/ st.index = Len(st.results))
  <2>1. st.results # Undefined /\ st.index = -1
    BY <1>3 DEF LoopReady
  <2> QED  BY <1>3, <2>1, ProcessBatchMoves DEF LoopStep, BatchStep
<1> QED  BY <1>1, <1>2, <1>3

LEMMA SameStates ==
  ASSUME Inv, NEW s \in Iters
  PROVE  [iter EXCEPT ![s] = iter[s]] = iter
BY DEF Inv, TypeInv

\* User code runs in a turn of its own or inside the callback that is running.
LEMMA UserRuns ==
  ASSUME Inv, run = <<>> \/ user # Undefined, NEW x
  PROVE  /\ Calm(x) /\ run \in Seq(EntryType) /\ EntriesOK(run)
         /\ ~use.reentrant => Ordered(NextWaits, run, made)
BY CalmWhen DEF Inv, TypeInv, RunInv, OrderInv

LEMMA StartLoopMoves ==
  ASSUME Inv, NEW c \in Loops, StartLoop(c), UNCHANGED use
  PROVE  LoopMoved(c) \/ WaitsForStart(c, c)
<1>1. /\ c \in Iters /\ c \in Consumers /\ c # Start /\ iter[c] = Undefined /\ outcome[c] = "idle"
      /\ out[c] = <<>>
  BY NamesDiffer DEF Iters, Consumers, StartLoop, Inv, LoopInv
<1>2. run = <<>> \/ user # Undefined
  BY DEF StartLoop, MayCall
<1>3. CASE iter[Start].fetching
  <2>1. Calm(Start)
    BY <1>2, UserRuns
  <2> QED  BY <1>1, <1>3, <2>1 DEF StartLoop, WaitsForStart, Turn
<1>4. CASE ~iter[Start].fetching
  <2>1. PICK st : st = Copied(iter[Start])
    OBVIOUS
  <2>2. /\ StateOK(c, st) /\ Consumed(st) = 0 /\ ~Waiting(st) /\ ~st.fetching /\ ~st.finished
        /\ st.index = -1 /\ st.results = iter[Start].results
    BY <1>1, <1>4, <2>1, CopiedOK DEF Inv
  <2>3. \A i \in DOMAIN run : run[i].state # c
    BY <1>1, NamesDiffer DEF Inv, RunInv, EntriesOK, EntryOK
  <2>4. st.results = <<>> => Total = 0
    BY <2>2 DEF Inv, StartInv
  <2>5. <<>> \in Seq(Nat) /\ Len(<<>>) = 0 /\ DOMAIN <<>> = {}
    OBVIOUS
  <2>6. LoopReady(c, st, run)
    BY <1>1, <1>2, <2>2, <2>3, <2>4, <2>5, UserRuns DEF LoopReady
  <2>7. LoopStep(c, st, run) /\ UNCHANGED <<use, made, errors>>
    BY <1>4, <2>1 DEF StartLoop
  <2> QED  BY <2>2, <2>6, <2>7, LoopStepMoves
<1> QED  BY <1>3, <1>4

\* What is known of a loop whose function is running.
LEMMA LoopInFunc ==
  ASSUME Inv, NEW c \in Loops, outcome[c] = "inFunc", run = <<>> \/ user = c
  PROVE  LoopReady(c, iter[c], run) /\ ~iter[c].finished /\ c \in Iters
<1>1. c \in Iters /\ c # Undefined /\ c # Start /\ c # ForNext
  BY NamesDiffer DEF Iters
<1>2. iter[c] # Undefined /\ StateOK(c, iter[c]) /\ LoopOK(c, iter[c], "inFunc")
  BY <1>1 DEF Inv, LoopInv, StateInv
<1>3. ~iter[c].fetching /\ ~iter[c].finished /\ ~Waiting(iter[c])
  BY <1>2 DEF LoopOK, StateOK
<1>4. \A i \in DOMAIN run : run[i].state # c
  BY <1>1 DEF Inv, RunInv, EntriesOK, EntryOK
<1> QED  BY <1>1, <1>2, <1>3, <1>4, UserRuns DEF LoopReady, LoopOK, Inv, LoopInv, TypeInv, Reading

LEMMA FuncReturnsMoves ==
  ASSUME Inv, NEW c \in Loops, FuncReturns(c), UNCHANGED use
  PROVE  LoopMoved(c)
<1>1. LoopReady(c, iter[c], run) /\ ~iter[c].finished /\ c \in Iters
  BY LoopInFunc DEF FuncReturns, Continue, Stop
<1>2. CASE Continue(c)
  BY <1>1, <1>2, LoopStepMoves DEF Continue
<1>3. CASE Stop(c)
  <2>1. PICK st, rest : st = iter[c] /\ rest = run
    OBVIOUS
  <2>2. LoopReady(c, st, rest) /\ ~st.finished /\ iter[c] = st
    BY <1>1, <2>1
  <2>3. iter' = [iter EXCEPT ![c] = st] /\ run' = rest
    BY <1>1, <1>3, <2>1, SameStates DEF Stop
  <2>4. "stopped" \in Ends /\ outcome[c] \in Reading
    BY <1>3 DEF Ends, Scan!Ends, Stop, Reading
  <2>5. Turn(c, "stopped") /\ UNCHANGED <<use, made, errors>>
    BY <1>3 DEF Stop
  <2> QED  BY <2>2, <2>3, <2>4, <2>5, LoopFinishes DEF LoopReady
<1> QED  BY <1>2, <1>3 DEF FuncReturns

LEMMA RunLoopMoves ==
  ASSUME Inv, RunLoop, UNCHANGED use
  PROVE  \E c \in Loops : LoopMoved(c)
<1>1. PICK c : c = Head(run).state
  OBVIOUS
<1>2. PICK rest : rest = Tail(run)
  OBVIOUS
<1>3. run # <<>> /\ c \in Loops /\ UNCHANGED <<use, made, errors>>
  BY <1>1 DEF RunLoop
<1>4. /\ rest \in Seq(EntryType) /\ EntriesOK(rest) /\ EntryOK(Head(run))
      /\ \A i \in DOMAIN rest : rest[i].state # c \/ rest[i].cb # Head(run).cb
  BY <1>1, <1>2, <1>3, RestFacts
<1>5. c \in Iters /\ c # Undefined /\ c # Start /\ c # ForNext
  BY <1>3, NamesDiffer DEF Iters
<1>6. /\ Head(run).cb = c /\ outcome[c] = "fetching" /\ ~iter[c].fetching /\ iter[c] # Undefined
      /\ ~Waiting(iter[c]) /\ (Head(run).err => iter[c].finished)
      /\ ~iter[c].finished => Fresh(iter[c])
  BY <1>1, <1>3, <1>4, <1>5 DEF EntryOK
<1>7. \A i \in DOMAIN rest : rest[i].state # c
  BY <1>3, <1>4, <1>5, <1>6 DEF EntriesOK, EntryOK
<1>8. ~use.reentrant => Ordered(NextWaits, rest, made)
  <2>1. run \in Seq(EntryType)
    BY DEF Inv, TypeInv
  <2> QED  BY <1>1, <1>2, <1>3, <1>5, <2>1, RestOrdered DEF Inv, OrderInv
<1>9. Calm(c)
  BY <1>1, CalmWhen
<1>10. StateOK(c, iter[c]) /\ LoopOK(c, iter[c], "fetching") /\ Len(out[c]) = Consumed(iter[c])
       /\ out[c] \in Seq(Nat) /\ \A k \in DOMAIN out[c] : out[c][k] = k
  BY <1>3, <1>5, <1>6 DEF Inv, StateInv, LoopInv, TypeInv
<1>11. CASE Head(run).err
  <2>1. PICK st : st = iter[c]
    OBVIOUS
  <2>2. Turn(c, "error") /\ iter' = [iter EXCEPT ![c] = st] /\ run' = rest
    <3>1. Turn(c, "error") /\ run' = rest /\ UNCHANGED iter
      BY <1>2, <1>6, <1>11 DEF RunLoop
    <3> QED  BY <1>5, <2>1, <3>1, SameStates
  <2>3. "error" \in Ends /\ outcome[c] \in Reading
    BY <1>6 DEF Ends, Scan!Ends, Reading
  <2> QED  BY <1>3, <1>4, <1>6, <1>7, <1>8, <1>9, <1>10, <2>1, <2>2, <2>3, LoopFinishes
<1>12. CASE ~Head(run).err
  <2>1. iter[c].finished => Consumed(iter[c]) = Total
    BY <1>1, <1>3, <1>6, <1>12 DEF Inv, FinishedInv, ErrorNext
  <2>2. LoopReady(c, iter[c], rest)
    BY <1>3, <1>4, <1>6, <1>7, <1>8, <1>9, <1>10, <2>1 DEF LoopReady, Reading, LoopOK
  <2>3. CASE c \in ForEach
    <3>1. ForEachStep(c, iter[c], rest)
      BY <1>2, <1>6, <1>12, <2>3 DEF RunLoop
    <3> QED  BY <1>3, <2>2, <2>3, <3>1, ForEachStepMoves
  <2>4. CASE c \notin ForEach
    <3>1. ProcessBatch(c, iter[c], rest)
      BY <1>2, <1>6, <1>12, <2>4 DEF RunLoop
    <3>2. iter[c].finished \/ (iter[c].results # Undefined /\ iter[c].index = -1)
      BY <1>6 DEF Fresh
    <3> QED  BY <1>3, <2>2, <2>4, <3>1, <3>2, ProcessBatchMoves
  <2> QED  BY <2>3, <2>4
<1> QED  BY <1>11, <1>12

\* Call n of next is to go on in state st, and rest is what is left to run after it.
NextReady(n, st, rest) ==
  /\ StateOK(ForNext, st) /\ Consumed(st) = Taken /\ st.callbacks = NextWaits
  /\ \/ iter[ForNext] = Undefined /\ ~Waiting(st) /\ ~st.finished
     \/ iter[ForNext] # Undefined /\ iter[ForNext] = st
  /\ st.finished => Consumed(st) = Total \/ \E m \in Calls : answer[m] = Error
  /\ n \in Calls /\ answer[n] = Pending /\ n <= made'
  /\ made' = made \/ (made' = made + 1 /\ n = made')
  /\ \A i \in DOMAIN NextWaits : NextWaits[i] # n
  /\ rest \in Seq(EntryType) /\ EntriesOK(rest)
  /\ \A i \in DOMAIN rest : rest[i].state # ForNext \/ rest[i].cb # n
  /\ ~use.reentrant => OrderedBut(n, NextWaits, rest)
  /\ Calm(ForNext)

NextMoved == \E n, st, w, rest : NextMoves(n, st, w, rest)

LEMMA Answers ==
  ASSUME use \in Uses
  PROVE  /\ Pending \notin {End, Error} \cup 1 .. use.rows /\ End # Error
         /\ \A a \in 1 .. use.rows : a \notin {End, Error}
BY UseFacts DEF Pending, End, Error, Scan!Pending, Scan!End, Scan!Error

LEMMA NextReplies ==
  ASSUME Inv, NEW n, NEW st, NEW rest, NextReady(n, st, rest), NEW to, NEW a \in {End, Error} \cup 1 .. use.rows,
         StateOK(ForNext, to), ~to.fetching, to.callbacks = st.callbacks, Waiting(to) = Waiting(st),
         to.finished = st.finished,
         a \in {End, Error} => Consumed(to) = Consumed(st),
         a \notin {End, Error} => a = Taken + 1 /\ Consumed(to) = Taken + 1 /\ a <= Total,
         a = End => st.finished,
         a # Error => (to.finished => Consumed(to) = Total \/ \E m \in Calls : answer[m] = Error),
         Settle(ForNext, to, rest), Reply(n, a), UNCHANGED <<use, errors>>
  PROVE  NextMoved
<1>1. PICK w : w = <<>>
  OBVIOUS
<1>2. run' = w \o rest /\ iter' = [iter EXCEPT ![ForNext] = to]
  <2>1. <<>> \o rest = rest
    BY DEF NextReady
  <2> QED  BY <1>1, <2>1 DEF Settle
<1>3. answer' = [answer EXCEPT ![n] = a] /\ user' = "next" /\ UNCHANGED <<use, errors, out, outcome>>
  BY DEF Reply
<1>4. n \in Calls /\ answer \in [Calls -> {Pending, End, Error} \cup 1 .. use.rows] /\ use \in Uses
  BY DEF NextReady, Inv, TypeInv
<1>5. answer'[n] = a /\ \A m \in Calls : answer[m] = Error => answer'[m] = Error
  BY <1>3, <1>4, Answers DEF NextReady
<1>6. Consumed(st) = Taken /\ (a = End => Taken = Total \/ \E m \in Calls : answer[m] = Error)
  BY DEF NextReady
<1>7. to.finished => Consumed(to) = Total \/ \E m \in Calls : answer'[m] = Error
  BY <1>4, <1>5
<1>8. Replies(n, a, to, w)
  BY <1>1, <1>3, <1>6 DEF Replies, NextReady
<1>9. /\ iter[ForNext] = Undefined => ~Waiting(to)
      /\ iter[ForNext] # Undefined => Waiting(to) = Waiting(iter[ForNext])
      /\ iter[ForNext] # Undefined /\ iter[ForNext].finished => to.finished
  BY DEF NextReady
<1>10. NextMoves(n, to, w, rest)
  BY <1>2, <1>3, <1>7, <1>8, <1>9 DEF NextMoves, NextReady
<1> QED  BY <1>10 DEF NextMoved

LEMMA NextImplMoves ==
  ASSUME Inv, NEW n, NEW st, NEW rest, NextReady(n, st, rest), NextImpl(st, n, rest),
         UNCHANGED <<use, errors>>
  PROVE  NextMoved
<1>1. /\ ForNext \in Iters /\ ForNext \in Consumers /\ use \in Uses /\ StateOK(ForNext, st)
      /\ st \in IterType(ForNext) /\ n \in Calls /\ n \in Waiters(ForNext)
      /\ Consumed(st) = Taken /\ st.finished \in BOOLEAN /\ Total <= use.rows /\ Total \in Nat
      /\ use.rows \in Nat
  BY NamesDiffer, Fields, UseFacts DEF Iters, Consumers, Waiters, Inv, TypeInv, NextReady, StateOK
<1>2. CASE st.finished /\ Settle(ForNext, st, rest) /\ Reply(n, End)
  <2>1. ~st.fetching
    BY <1>1, <1>2, Fields DEF StateOK
  <2>2. st.finished => Consumed(st) = Total \/ \E m \in Calls : answer[m] = Error
    BY DEF NextReady
  <2> QED  BY <1>1, <1>2, <2>1, <2>2, NextReplies
<1>3. CASE /\ ~st.finished /\ HasRow(st)
           /\ Settle(ForNext, [st EXCEPT !.index = @ + 1], rest)
           /\ Reply(n, st.results[st.index + 2])
  <2>1. PICK to, a : to = [st EXCEPT !.index = @ + 1] /\ a = st.results[st.index + 2]
    OBVIOUS
  <2>2. to = At(st, st.index + 1)
    BY <1>1, <2>1, SteppedStates
  <2>3. /\ StateOK(ForNext, to) /\ Consumed(to) = Consumed(st) + 1
        /\ a = Consumed(st) + 1 /\ Consumed(st) + 1 \in 1 .. Total
        /\ ~Waiting(st) /\ ~Waiting(to) /\ ~to.fetching /\ to.finished = st.finished
        /\ to.callbacks = st.callbacks
    BY <1>1, <1>3, <2>1, <2>2, TakeRow
  <2>4. a \in 1 .. use.rows /\ a <= Total /\ a \notin {End, Error}
    BY <1>1, <2>3, Answers
  <2>5. Waiting(to) = Waiting(st)
    BY <2>3 DEF Waiting
  <2>6. Settle(ForNext, to, rest) /\ Reply(n, a)
    BY <1>3, <2>1
  <2> QED  BY <1>1, <1>3, <2>3, <2>4, <2>5, <2>6, NextReplies
<1>4. CASE /\ ~st.finished /\ ~HasRow(st)
           /\ Fetch(ForNext, st, n, rest)
           /\ user' = Undefined
           /\ UNCHANGED <<out, outcome, answer>>
  <2>1. Waiting(st) \/ Consumed(st) = st.fetcher.pos
    BY <1>1, <1>4, NothingLeft
  <2>2. PICK to, w : FetchMakes(ForNext, st, n, rest, to, w)
    <3>1. rest \in Seq(EntryType)
      BY DEF NextReady
    <3> QED  BY <1>1, <1>4, <2>1, <3>1, FetchMoves
  <2>3. /\ iter' = [iter EXCEPT ![ForNext] = to] /\ run' = w \o rest
        /\ StateOK(ForNext, to) /\ Waiting(to) = Waiting(st) /\ Consumed(to) = Consumed(st)
        /\ \/ /\ w = <<>> /\ to.fetching /\ to.callbacks = Append(st.callbacks, n)
              /\ to.results = st.results /\ to.index = st.index /\ ~to.finished
           \/ /\ WokenAtOnce(ForNext, n, to, w) /\ st.callbacks = <<>>
              /\ to.results = Undefined /\ Consumed(to) = Total
    BY <2>2 DEF FetchMakes
  <2>4. st.callbacks = NextWaits
    BY DEF NextReady
  <2>5. Waits(n, to, w)
    BY <1>1, <1>4, <2>3, <2>4 DEF Waits
  <2>6. to.finished => Consumed(to) = Total
    BY <2>3
  <2>7. /\ iter[ForNext] = Undefined => ~Waiting(to)
        /\ iter[ForNext] # Undefined => Waiting(to) = Waiting(iter[ForNext])
        /\ iter[ForNext] # Undefined /\ iter[ForNext].finished => to.finished
    BY <1>4, <2>3 DEF NextReady
  <2>8. NextMoves(n, to, w, rest)
    BY <1>4, <2>3, <2>5, <2>6, <2>7 DEF NextMoves, NextReady
  <2> QED  BY <2>8 DEF NextMoved
<1> QED  BY <1>2, <1>3, <1>4 DEF NextImpl

LEMMA CallNextMoves ==
  ASSUME Inv, CallNext, UNCHANGED use
  PROVE  NextMoved \/ WaitsForStart(ForNext, made')
<1>1. /\ ForNext \in Iters /\ ForNext \in Consumers /\ ForNext # Start /\ ForNext \notin Loops
      /\ Start \notin Loops
  BY NamesDiffer DEF Iters, Consumers
<1>2. run = <<>> \/ user # Undefined
  BY DEF CallNext, MayCall
<1>3. PICK n : n = made'
  OBVIOUS
<1>4. /\ made \in Nat /\ n = made + 1 /\ made' = n /\ n \in Calls /\ UNCHANGED errors
      /\ \A k \in 1 .. made : k \in Nat /\ k < n
  <2>1. use.calls \in 0 .. NumCalls /\ made \in 0 .. NumCalls /\ NumCalls \in Nat /\ made < use.calls
    BY UsesAssumption, SizesAssumption DEF Inv, TypeInv, CallNext
  <2>2. n = made + 1 /\ UNCHANGED errors
    BY <1>3 DEF CallNext
  <2> QED  BY <1>3, <2>1, <2>2 DEF Calls
<1>5. answer[n] = Pending
  BY <1>4 DEF Inv, NextInv
<1>6. \A i \in DOMAIN NextWaits : NextWaits[i] \in 1 .. made /\ NextWaits[i] # n /\ NextWaits[i] < n
  BY <1>4 DEF Inv, NextInv, WaitsOK
<1>7. \A i \in DOMAIN run : run[i].state # ForNext \/ run[i].cb # n
  BY <1>1, <1>4 DEF Inv, RunInv, EntriesOK, EntryOK
<1>8. ~use.reentrant => OrderedBut(n, NextWaits, run)
  <2> SUFFICES ASSUME ~use.reentrant
               PROVE  OrderedBut(n, NextWaits, run)
    OBVIOUS
  <2>1. run = <<>>
    BY DEF CallNext, MayCall
  <2>2. Ordered(NextWaits, run, made)
    BY DEF Inv, OrderInv
  <2>3. DOMAIN run = {}
    BY <2>1
  <2> QED  BY <1>6, <2>2, <2>3 DEF Ordered, OrderedBut
<1>9. Calm(ForNext) /\ Calm(Start) /\ run \in Seq(EntryType) /\ EntriesOK(run)
  BY <1>2, UserRuns
<1>10. ASSUME NEW st, StateOK(ForNext, st), Consumed(st) = Taken, st.callbacks = NextWaits,
              \/ iter[ForNext] = Undefined /\ ~Waiting(st) /\ ~st.finished
              \/ iter[ForNext] # Undefined /\ iter[ForNext] = st,
              st.finished => Consumed(st) = Total \/ \E m \in Calls : answer[m] = Error
       PROVE  NextReady(n, st, run)
  <2>1. n <= made' /\ made' = made + 1 /\ n = made'
    BY <1>4
  <2> QED  BY <1>4, <1>5, <1>6, <1>7, <1>8, <1>9, <1>10, <2>1 DEF NextReady
<1>11. CASE iter[ForNext] # Undefined /\ NextImpl(iter[ForNext], made', run)
  <2>1. PICK st : st = iter[ForNext]
    OBVIOUS
  <2>2. StateOK(ForNext, st) /\ Consumed(st) = Taken /\ st.callbacks = NextWaits
    BY <1>1, <1>11, <2>1 DEF Inv, StateInv, Taken, NextWaits
  <2>3. st.finished => Consumed(st) = Total \/ \E m \in Calls : answer[m] = Error
    BY <1>2, <1>11, <2>1 DEF Inv, FinishedInv, ErrorNext
  <2>4. NextReady(n, st, run)
    BY <1>10, <1>11, <2>1, <2>2, <2>3
  <2>5. NextImpl(st, n, run)
    BY <1>3, <1>11, <2>1
  <2> QED  BY <1>4, <2>4, <2>5, NextImplMoves
<1>12. CASE /\ iter[ForNext] = Undefined /\ iter[Start].fetching
            /\ WaitForStart(ForNext, made')
            /\ user' = Undefined
            /\ UNCHANGED <<run, out, outcome, answer>>
  BY <1>1, <1>4, <1>9, <1>12 DEF WaitsForStart
<1>13. CASE /\ iter[ForNext] = Undefined /\ ~iter[Start].fetching
            /\ NextImpl(Copied(iter[Start]), made', run)
  <2>1. PICK st : st = Copied(iter[Start])
    OBVIOUS
  <2>2. StateOK(ForNext, st) /\ Consumed(st) = 0 /\ ~Waiting(st) /\ ~st.finished /\ st.callbacks = <<>>
    BY <1>1, <1>13, <2>1, CopiedOK DEF Inv
  <2>3. NextWaits = <<>> /\ Taken = 0
    BY <1>13 DEF NextWaits, Taken
  <2>4. NextReady(n, st, run)
    BY <1>10, <1>13, <2>2, <2>3
  <2>5. NextImpl(st, n, run)
    BY <1>3, <1>13, <2>1
  <2> QED  BY <1>4, <2>4, <2>5, NextImplMoves
<1> QED  BY <1>11, <1>12, <1>13 DEF CallNext

LEMMA RunNextMoves ==
  ASSUME Inv, RunNext, UNCHANGED use
  PROVE  NextMoved
<1>1. PICK n : n = Head(run).cb
  OBVIOUS
<1>2. PICK rest : rest = Tail(run)
  OBVIOUS
<1>3. PICK st : st = iter[ForNext]
  OBVIOUS
<1>4. run # <<>> /\ Head(run).state = ForNext /\ UNCHANGED <<use, made, errors>>
  BY DEF RunNext
<1>5. /\ rest \in Seq(EntryType) /\ EntriesOK(rest) /\ EntryOK(Head(run))
      /\ \A i \in DOMAIN rest : rest[i].state # ForNext \/ rest[i].cb # n
  BY <1>1, <1>2, <1>4, RestFacts
<1>6. ForNext \in Iters /\ ForNext # Start /\ ForNext \notin Loops
  BY NamesDiffer DEF Iters
<1>7. /\ st # Undefined /\ ~Waiting(st) /\ (Head(run).err => st.finished)
      /\ n \in 1 .. made /\ answer[n] = Pending
      /\ \A i \in DOMAIN st.callbacks : st.callbacks[i] # n
  BY <1>1, <1>3, <1>4, <1>5, <1>6 DEF EntryOK
<1>8. n \in Calls /\ n <= made' /\ made' = made
  <2>1. made \in 0 .. NumCalls /\ NumCalls \in Nat
    BY SizesAssumption DEF Inv, TypeInv
  <2> QED  BY <1>4, <1>7, <2>1 DEF Calls
<1>9. /\ StateOK(ForNext, st) /\ Consumed(st) = Taken /\ st.callbacks = NextWaits
      /\ \A i \in DOMAIN NextWaits : NextWaits[i] # n
  BY <1>3, <1>6, <1>7 DEF Inv, StateInv, Taken, NextWaits
<1>10. ~use.reentrant => OrderedBut(n, NextWaits, rest)
  <2>1. run \in Seq(EntryType)
    BY DEF Inv, TypeInv
  <2> QED  BY <1>1, <1>2, <1>4, <2>1, RestOrdered DEF Inv, OrderInv
<1>11. Calm(ForNext)
  BY <1>4, CalmWhen
<1>12. CASE ~Head(run).err
  <2>1. st.finished => Consumed(st) = Total \/ \E m \in Calls : answer[m] = Error
    BY <1>3, <1>7, <1>12 DEF Inv, FinishedInv, ErrorNext
  <2>2. NextReady(n, st, rest)
    BY <1>3, <1>5, <1>7, <1>8, <1>9, <1>10, <1>11, <2>1 DEF NextReady
  <2>3. NextImpl(st, n, rest)
    BY <1>1, <1>2, <1>3, <1>12 DEF RunNext
  <2> QED  BY <1>4, <2>2, <2>3, NextImplMoves
<1>13. CASE Head(run).err
  <2>1. Reply(n, Error) /\ run' = rest /\ iter' = [iter EXCEPT ![ForNext] = st]
    BY <1>1, <1>2, <1>3, <1>6, <1>13, SameStates DEF RunNext
  <2>2. PICK w : w = <<>>
    OBVIOUS
  <2>3. run' = w \o rest
    <3>1. <<>> \o rest = rest
      BY <1>5
    <3> QED  BY <2>1, <2>2, <3>1
  <2>4. st.finished /\ ~st.fetching
    <3>1. st.fetching \in BOOLEAN
      BY <1>6, <1>9, Fields DEF StateOK
    <3> QED  BY <1>7, <1>9, <1>13, <3>1 DEF StateOK
  <2>5. answer' = [answer EXCEPT ![n] = Error] /\ user' = "next" /\ UNCHANGED <<out, outcome>>
    BY <2>1 DEF Reply
  <2>6. answer'[n] = Error
    BY <1>8, <2>5 DEF Inv, TypeInv
  <2>7. Error \in {End, Error} \cup 1 .. use.rows /\ Error # End
    BY Answers DEF Inv, TypeInv
  <2>8. Replies(n, Error, st, w)
    BY <1>9, <2>2, <2>4, <2>5, <2>7 DEF Replies
  <2>9. NextMoves(n, st, w, rest)
    BY <1>3, <1>4, <1>5, <1>7, <1>8, <1>9, <1>10, <1>11, <2>1, <2>3, <2>4, <2>5, <2>6, <2>7, <2>8 DEF NextMoves
  <2> QED  BY <2>9 DEF NextMoved
<1> QED  BY <1>12, <1>13

Awakened ==
  \/ \E s \in Consumers : \E st, err, rest : Awakes(s, st, err, rest)
  \/ \E st, err : StartAnswers(st, err)

\* What the answer of the store makes of state s, whoever it belongs to.
LEMMA AnswerMoves ==
  ASSUME Inv, NEW s \in Iters, Requested(s), NEW f, NEW res, NEW err \in BOOLEAN, Returned(s, f, res, err),
         UNCHANGED use, errors' \in 0 .. MaxErrors, NEW st, st = Arrived(iter[s], f, res),
         StateOK(s, st), Consumed(st) = Consumed(iter[s]), ~Waiting(st), ~st.fetching, st.callbacks = <<>>,
         st.index = -1, err => st.finished, ~err /\ st.finished => Consumed(st) = Total,
         ~st.finished => Fresh(st), st.finished => st.results \in {Undefined, <<>>},
         st.results = <<>> => Consumed(st) = Total
  PROVE  Awakened
<1>1. /\ iter' = [iter EXCEPT ![s] = st] /\ run = <<>> /\ run' = Wake(s, iter[s], err) /\ user' = Undefined
      /\ UNCHANGED <<use, made, out, outcome, answer>>
  BY DEF Returned
<1>2. iter[s] # Undefined /\ iter[s].fetching /\ ~Waiting(iter[s])
  BY DEF Requested, Waiting
<1>3. CASE s = Start
  <2>1. Consumed(st) = 0 /\ (st.results = <<>> => Total = 0) /\ (~err /\ st.finished => Total = 0)
    BY <1>3 DEF Inv, StartInv
  <2>2. st.finished <=> st.results \in {Undefined, <<>>}
    BY DEF Fresh
  <2>3. StartAnswers(st, err)
    BY <1>1, <1>2, <1>3, <2>1, <2>2 DEF StartAnswers
  <2> QED  BY <2>3 DEF Awakened
<1>4. CASE s # Start
  <2>1. s \in Consumers
    BY <1>4 DEF Iters, Consumers
  <2>2. PICK rest : rest = <<>>
    OBVIOUS
  <2>3. rest \in Seq(EntryType) /\ EntriesOK(rest) /\ DOMAIN rest = {}
    BY <2>2 DEF EntriesOK, Distinct
  <2>4. run' = Wake(s, iter[s], err) \o rest
    <3>1. Wake(s, iter[s], err) \in Seq(EntryType)
      BY <1>2, StatesTyped, WokenEntries
    <3> QED  BY <1>1, <2>2, <3>1
  <2>5. \A i \in DOMAIN iter[Start].callbacks : iter[Start].callbacks[i] # s
    BY <1>2 DEF Inv, StartInv
  <2>6. (~use.reentrant => Ordered(NextWaits, rest, made)) /\ Calm(s)
    BY <1>1, <2>2, CalmWhen DEF Inv, OrderInv
  <2>7. Awakes(s, st, err, rest)
    BY <1>1, <1>2, <2>3, <2>4, <2>5, <2>6 DEF Awakes
  <2> QED  BY <2>1, <2>7 DEF Awakened
<1> QED  BY <1>3, <1>4

LEMMA RespondMoves ==
  ASSUME Inv, NEW s \in Iters, Respond(s) \/ RespondError(s), UNCHANGED use
  PROVE  Awakened
<1>1. /\ Requested(s) /\ use \in Uses /\ StateOK(s, iter[s]) /\ ~Waiting(iter[s]) /\ iter[s].fetching
      /\ errors \in 0 .. MaxErrors /\ MaxErrors \in Nat
  BY SizesAssumption DEF Respond, RespondError, Requested, Waiting, Inv, TypeInv, StateInv
<1>2. CASE Respond(s)
  <2>1. PICK b \in Batches(iter[s].fetcher) : \E more \in More(iter[s].fetcher, b) :
          Returned(s, Fetched(iter[s].fetcher, b, more), b, FALSE)
    BY <1>2 DEF Respond
  <2>2. PICK more \in More(iter[s].fetcher, b) : Returned(s, Fetched(iter[s].fetcher, b, more), b, FALSE)
    BY <2>1
  <2>3. PICK st : st = Arrived(iter[s], Fetched(iter[s].fetcher, b, more), b)
    OBVIOUS
  <2>4. /\ StateOK(s, st) /\ Consumed(st) = Consumed(iter[s])
        /\ ~Waiting(st) /\ ~st.fetching /\ st.callbacks = <<>> /\ st.results = b /\ st.index = -1
        /\ st.finished <=> b = <<>>
        /\ st.finished => Consumed(st) = Total
        /\ ~st.finished => Fresh(st)
    <3>1. PICK from : from = iter[s]
      OBVIOUS
    <3>2. /\ use \in Uses /\ StateOK(s, from) /\ ~Waiting(from) /\ from.fetching
          /\ b \in Batches(from.fetcher) /\ more \in More(from.fetcher, b)
          /\ st = Arrived(from, Fetched(from.fetcher, b, more), b)
      BY <1>1, <2>1, <2>2, <2>3, <3>1
    <3>3. AnsweredTo(s, from, b, st)
      BY <3>2, Answered
    <3> QED  BY <3>1, <3>3 DEF AnsweredTo
  <2>5. errors' \in 0 .. MaxErrors
    BY <1>1, <1>2 DEF Respond
  <2>6. (st.finished => st.results \in {Undefined, <<>>}) /\ (st.results = <<>> => Consumed(st) = Total)
    BY <2>4
  <2> QED  BY <1>1, <2>2, <2>3, <2>4, <2>5, <2>6, AnswerMoves
<1>3. CASE RespondError(s)
  <2>1. PICK st : st = Arrived(iter[s], iter[s].fetcher, Undefined)
    OBVIOUS
  <2>2. /\ StateOK(s, st) /\ Consumed(st) = Consumed(iter[s])
        /\ ~Waiting(st) /\ ~st.fetching /\ st.callbacks = <<>> /\ st.results = Undefined /\ st.index = -1
        /\ st.finished
    BY <1>1, <2>1, Failed
  <2>3. errors' \in 0 .. MaxErrors /\ Returned(s, iter[s].fetcher, Undefined, TRUE)
    <3>1. errors' = errors + 1 /\ errors < MaxErrors /\ Returned(s, iter[s].fetcher, Undefined, TRUE)
      BY <1>3 DEF RespondError
    <3>2. errors' \in 0 .. MaxErrors
      <4>1. errors' = errors + 1 /\ errors < MaxErrors
        BY <3>1
      <4> QED  BY <1>1, <4>1
    <3> QED  BY <3>1, <3>2
  <2>4. Undefined # <<>>
    <3>1. <<>> \in Seq(Nat)
      OBVIOUS
    <3> QED  BY <3>1, UndefinedAssumption
  <2> QED  BY <1>1, <2>1, <2>2, <2>3, <2>4, AnswerMoves
<1> QED  BY <1>2, <1>3

LEMMA RunCopyMoves ==
  ASSUME Inv, RunCopy, UNCHANGED use
  PROVE  Awakened
<1>1. PICK s, err, rest : s = Head(run).cb /\ err = Head(run).err /\ rest = Tail(run)
  OBVIOUS
<1>2. run # <<>> /\ Head(run).state = Start
  BY DEF RunCopy
<1>3. /\ rest \in Seq(EntryType) /\ EntriesOK(rest) /\ EntryOK(Head(run)) /\ err \in BOOLEAN
      /\ \A i \in DOMAIN rest : rest[i].state # Start \/ rest[i].cb # s
  BY <1>1, <1>2, RestFacts DEF EntryType
<1>4. /\ s \in Consumers /\ iter[s] # Undefined /\ Waiting(iter[s]) /\ ~iter[Start].fetching
      /\ err => iter[Start].finished
      /\ ~err /\ iter[Start].finished => Total = 0
  BY <1>1, <1>2, <1>3 DEF EntryOK
<1>5. s \in Iters /\ s # Start /\ Start \in Iters /\ Start # ForNext
  BY <1>4, NamesDiffer DEF Consumers, Iters
<1>6. Consumed(iter[s]) = 0 /\ iter[s].fetching /\ iter[Start].callbacks = <<>>
  BY <1>4, <1>5, StatesTyped DEF StateOK, Waiting, Consumed
<1>7. PICK st : st = CopyArrived(s)
  OBVIOUS
<1>8. /\ StateOK(s, st) /\ Consumed(st) = 0 /\ ~Waiting(st) /\ ~st.fetching /\ st.callbacks = <<>>
      /\ st.finished = iter[Start].finished /\ st.index = -1 /\ st.results = iter[Start].results
  BY <1>4, <1>7, CopyArrivedOK DEF Inv
<1>9. ~st.finished => Fresh(st)
  BY <1>4, <1>8 DEF Inv, StartInv, Fresh
<1>10. \A i \in DOMAIN rest : rest[i].state # s
  BY <1>3, <1>4, <1>5 DEF EntriesOK, EntryOK
<1>11. ~use.reentrant => Ordered(NextWaits, rest, made)
  <2>1. run \in Seq(EntryType)
    BY DEF Inv, TypeInv
  <2> QED  BY <1>1, <1>2, <1>5, <2>1, RestOrdered DEF Inv, OrderInv
<1>12. Calm(s)
  BY <1>2, CalmWhen
<1>13. /\ iter' = [iter EXCEPT ![s] = st] /\ run' = Wake(s, iter[s], err) \o rest /\ user' = Undefined
       /\ UNCHANGED <<use, made, out, outcome, answer>> /\ errors' \in 0 .. MaxErrors
  BY <1>1, <1>7 DEF RunCopy, Inv, TypeInv
<1>14. DOMAIN iter[Start].callbacks = {}
  BY <1>6
<1>15. Awakes(s, st, err, rest)
  BY <1>3, <1>4, <1>6, <1>8, <1>9, <1>10, <1>11, <1>12, <1>13, <1>14 DEF Awakes
<1> QED  BY <1>4, <1>15 DEF Awakened

LEMMA Moves ==
  ASSUME Inv, Next
  PROVE  \/ \E c \in Loops : LoopMoved(c)
         \/ NextMoved \/ Awakened
         \/ \E s, cb : WaitsForStart(s, cb)
<1>1. UNCHANGED use
  BY DEF Next
<1>2. CASE \E c \in Loops : FuncReturns(c)
  BY <1>1, <1>2, FuncReturnsMoves
<1>3. CASE CallNext
  BY <1>1, <1>3, CallNextMoves
<1>4. CASE \E c \in Loops : StartLoop(c)
  BY <1>1, <1>4, StartLoopMoves
<1>5. CASE \E s \in Iters : Respond(s) \/ RespondError(s)
  BY <1>1, <1>5, RespondMoves
<1>6. CASE RunCallback
  BY <1>1, <1>6, RunCopyMoves, RunNextMoves, RunLoopMoves DEF RunCallback
<1> QED  BY <1>2, <1>3, <1>4, <1>5, <1>6 DEF Next

-----------------------------------------------------------------------------
(* The invariant.                                                          *)

LEMMA InitInv ==
  ASSUME Init
  PROVE  Inv
<1>1. /\ use \in Uses /\ use.rows \in Nat /\ use.limit \in Nat /\ Total \in Nat
      /\ use.limit # 0 => Total <= use.limit
  BY UseFacts DEF Init
<1>2. Start \in Iters /\ ForNext \in Iters /\ Start # ForNext /\ \A c \in Loops : c \in Iters /\ c # Start
  BY NamesDiffer DEF Iters
<1>3. PICK st : st = [IterState EXCEPT !.fetcher = RangeFetcher, !.fetching = TRUE]
  OBVIOUS
<1>4. st = [index |-> -1, results |-> Undefined, fetching |-> TRUE,
            callbacks |-> <<>>, finished |-> FALSE, fetcher |-> RangeFetcher]
  BY <1>3 DEF IterState
<1>5. FetcherOK(RangeFetcher) /\ RangeFetcher \in FetcherType /\ RangeFetcher.pos = 0
      /\ RangeFetcher.finished = FALSE
  BY <1>1 DEF RangeFetcher, FetcherOK, FetcherType
<1>6. st \in IterType(Start)
  <2>1. <<>> \in Seq(Waiters(Start))
    OBVIOUS
  <2> QED  BY <1>4, <1>5, <2>1 DEF IterType
<1>7. /\ st # Undefined /\ ~Waiting(st) /\ Consumed(st) = 0
      /\ st.fetching = TRUE /\ st.callbacks = <<>> /\ st.index = -1 /\ st.finished = FALSE
      /\ st.results = Undefined /\ st.fetcher = RangeFetcher
  BY <1>2, <1>4, <1>5, <1>6, UndefinedAssumption DEF Waiting, Consumed
<1>8. StateOK(Start, st)
  BY <1>5, <1>6, <1>7 DEF StateOK, ResultsOK
<1>9. iter[Start] = st /\ \A s \in Iters : s # Start => iter[s] = Undefined
  BY <1>2, <1>3 DEF Init
<1>10. TypeInv
  <2>1. iter \in [Iters -> SomeState]
    <3>1. iter = [s \in Iters |-> IF s = Start THEN st ELSE Undefined]
      BY <1>3 DEF Init
    <3>2. st \in SomeState /\ Undefined \in SomeState
      BY <1>2, <1>6, SomeStates
    <3> QED  BY <3>1, <3>2
  <2>2. run \in Seq(EntryType)
    BY DEF Init
  <2>3. made \in 0 .. NumCalls /\ errors \in 0 .. MaxErrors
    BY SizesAssumption DEF Init
  <2>4. out \in [Loops -> Seq(Nat)]
    BY DEF Init
  <2> QED  BY <2>1, <2>2, <2>3, <2>4 DEF Init, TypeInv
<1>11. StateInv
  BY <1>8, <1>9 DEF StateInv
<1>12. StartInv
  <2>1. Undefined # <<>>
    <3>1. <<>> \in Seq(Nat)
      OBVIOUS
    <3> QED  BY <3>1, UndefinedAssumption
  <2>2. DOMAIN st.callbacks = {}
    BY <1>7
  <2> QED  BY <1>7, <1>9, <2>1, <2>2 DEF StartInv
<1>13. RunInv
  BY DEF Init, RunInv, EntriesOK, Distinct
<1>14. LoopInv
  <2>1. ASSUME NEW c \in Loops
        PROVE  iter[c] = Undefined /\ outcome[c] = "idle" /\ out[c] = <<>> /\ DOMAIN out[c] = {}
    BY <1>2, <1>9 DEF Init
  <2> QED  BY <2>1 DEF LoopInv
<1>15. /\ iter[ForNext] = Undefined /\ NextWaits = <<>> /\ Taken = 0 /\ Given = {}
       /\ \A n \in Calls : answer[n] = Pending
  <2>1. iter[ForNext] = Undefined /\ \A n \in Calls : answer[n] = Pending
    BY <1>2, <1>9 DEF Init
  <2>2. ~(Pending > 0)
    BY DEF Pending, Scan!Pending
  <2> QED  BY <2>1, <2>2 DEF NextWaits, Taken, Given
<1>16. NextInv
  BY <1>15, FS_EmptySet DEF Init, NextInv, WaitsOK
<1>17. FinishedInv
  <2>1. \A c \in Loops : iter[c] = Undefined
    BY <1>2, <1>9
  <2> QED  BY <1>15, <2>1 DEF FinishedInv
<1>18. OrderInv
  BY <1>15 DEF Init, OrderInv, Ordered
<1> QED  BY <1>10, <1>11, <1>12, <1>13, <1>14, <1>16, <1>17, <1>18 DEF Inv

LEMMA StutterInv ==
  ASSUME Inv, UNCHANGED vars
  PROVE  Inv'
<1> USE DEF vars, Inv
<1>1. TypeInv'
  BY DEF TypeInv
<1>2. StateInv'
  BY StatesKept DEF StateInv, StateOK, FetcherOK, Total
<1>3. StartInv'
  BY DEF StartInv, Total
<1>4. RunInv'
  BY DEF RunInv, EntriesOK, EntryOK, Total
<1>5. LoopInv' /\ NextInv'
  BY DEF LoopInv, NextInv, Given, Taken, NextWaits, WaitsOK
<1>6. FinishedInv' /\ OrderInv'
  BY DEF FinishedInv, ErrorNext, OrderInv, Ordered, Held, NextWaits, Total
<1> QED  BY <1>1, <1>2, <1>3, <1>4, <1>5, <1>6

LEMMA StepInv ==
  ASSUME Inv, [Next]_vars
  PROVE  Inv'
<1>1. CASE Next
  BY <1>1, Moves, LoopMovesInv, NextMovesInv, AwakesInv, StartAnswersInv, WaitsForStartInv
     DEF LoopMoved, NextMoved, Awakened
<1>2. CASE UNCHANGED vars
  BY <1>2, StutterInv
<1> QED  BY <1>1, <1>2

LEMMA Invariance == Spec => []Inv
<1> QED  BY InitInv, StepInv, PTL DEF Spec

-----------------------------------------------------------------------------
(* The theorems.                                                           *)

LEMMA StateBounds ==
  ASSUME use \in Uses, NEW s \in Iters, NEW st, StateOK(s, st)
  PROVE  /\ st.index \in -1 .. use.rows
         /\ st.results # Undefined => \A k \in DOMAIN st.results : st.results[k] \in 1 .. use.rows
         /\ st.fetcher # Undefined => st.fetcher.pos <= use.rows /\ st.fetcher.limit <= use.limit
<1>1. /\ use.rows \in Nat /\ use.limit \in Nat /\ Total \in Nat /\ Total <= use.rows
      /\ st \in IterType(s) /\ st.index \in Int
  BY UseFacts, Fields DEF StateOK
<1>2. CASE Waiting(st)
  BY <1>1, <1>2 DEF StateOK, Waiting
<1>3. CASE ~Waiting(st)
  <2>1. FetcherOK(st.fetcher) /\ ResultsOK(st)
    BY <1>3 DEF StateOK
  <2>2. PICK pos, limit : pos = st.fetcher.pos /\ limit = st.fetcher.limit
    OBVIOUS
  <2>3. /\ pos \in Nat /\ limit \in Nat /\ pos <= Total
        /\ use.limit = 0 => limit = 0
        /\ use.limit # 0 => limit + pos = use.limit
    BY <2>1, <2>2 DEF FetcherOK, FetcherType
  <2>4. pos <= use.rows /\ limit <= use.limit
    BY <1>1, <2>3
  <2>5. CASE st.results = Undefined
    <3>1. st.index = -1
      BY <2>1, <2>5 DEF ResultsOK
    <3> QED  BY <1>1, <2>2, <2>4, <2>5, <3>1
  <2>6. CASE st.results # Undefined
    <3>1. PICK len : len = Len(st.results)
      OBVIOUS
    <3>2. /\ len \in Nat /\ DOMAIN st.results = 1 .. len /\ len <= pos
          /\ \A k \in 1 .. len : st.results[k] = pos - len + k
          /\ -1 <= st.index /\ st.index <= len
      BY <1>1, <2>1, <2>2, <2>6, <3>1, Fields DEF ResultsOK
    <3>3. st.index \in -1 .. use.rows
      BY <1>1, <2>3, <2>4, <3>2
    <3>4. \A k \in 1 .. len : pos - len + k \in 1 .. use.rows
      BY <1>1, <2>3, <2>4, <3>2
    <3> QED  BY <2>2, <2>4, <3>2, <3>3, <3>4
  <2> QED  BY <2>5, <2>6
<1> QED  BY <1>2, <1>3

LEMMA InvTypes ==
  ASSUME Inv
  PROVE  TypeOK
<1>1. /\ TypeInv /\ use \in Uses
      /\ \A s \in Iters : iter[s] # Undefined => StateOK(s, iter[s]) /\ iter[s] \in IterType(s)
  BY StatesTyped DEF Inv
<1>2. ASSUME NEW s \in Iters, iter[s] # Undefined
      PROVE  /\ iter[s] \in IterType(s) /\ iter[s].index \in -1 .. use.rows
             /\ iter[s].results # Undefined =>
                  \A k \in DOMAIN iter[s].results : iter[s].results[k] \in 1 .. use.rows
             /\ iter[s].fetcher # Undefined =>
                  iter[s].fetcher.pos <= use.rows /\ iter[s].fetcher.limit <= use.limit
  <2>1. PICK st : st = iter[s]
    OBVIOUS
  <2>2. StateOK(s, st) /\ st \in IterType(s)
    BY <1>1, <1>2, <2>1
  <2> QED  BY <1>1, <2>1, <2>2, StateBounds
<1>3. ASSUME NEW k \in DOMAIN run
      PROVE  run[k].state \in Iters /\ run[k].cb \in Waiters(run[k].state) /\ run[k].err \in BOOLEAN
  <2>1. PICK e : e = run[k]
    OBVIOUS
  <2>2. e \in EntryType /\ EntryOK(e)
    BY <1>1, <2>1 DEF TypeInv, Inv, RunInv, EntriesOK
  <2>3. e.state \in Iters /\ e.err \in BOOLEAN /\ made \in 0 .. NumCalls /\ NumCalls \in Nat
    BY <1>1, <2>2, SizesAssumption DEF EntryType, TypeInv
  <2>4. e.cb \in Waiters(e.state)
    <3>1. CASE e.state = Start
      <4>1. e.cb \in Consumers
        BY <2>2, <3>1 DEF EntryOK
      <4>2. Waiters(Start) = Consumers
        BY NamesDiffer DEF Waiters, Consumers
      <4> QED  BY <3>1, <4>1, <4>2
    <3>2. CASE e.state = ForNext
      <4>1. e.cb \in 1 .. made
        BY <2>2, <3>2 DEF EntryOK
      <4>2. e.cb \in Calls
        BY <2>3, <4>1 DEF Calls
      <4> QED  BY <3>2, <4>2, NamesDiffer DEF Waiters
    <3>3. CASE e.state \in Loops
      <4>1. e.cb = e.state /\ e.state # Start /\ e.state # ForNext
        BY <2>2, <3>3, NamesDiffer DEF EntryOK
      <4> QED  BY <4>1 DEF Waiters
    <3> QED  BY <2>3, <3>1, <3>2, <3>3 DEF Iters
  <2> QED  BY <2>1, <2>3, <2>4
<1> QED  BY <1>1, <1>2, <1>3 DEF TypeOK, TypeInv

\* Every state of the iterator, every callback of a turn and every answer stays in
\* its set: no index passes the results, no fetcher the range, no limit goes below 0.
THEOREM TypeCorrect == Spec => []TypeOK
<1>1. Inv => TypeOK
  BY InvTypes
<1> QED  BY <1>1, Invariance, PTL

\* A loop is given the rows from the first one on, in order and without gaps,
\* whatever the other loops, calls of next and failing reads on the iterator do.
THEOREM InOrder == Spec => []RowsInOrder
<1>1. ASSUME Inv
      PROVE  RowsInOrder
  <2> SUFFICES ASSUME NEW c \in Loops
               PROVE  out[c] = [k \in DOMAIN out[c] |-> k]
    BY DEF RowsInOrder
  <2>1. out[c] \in Seq(Nat) /\ \A k \in DOMAIN out[c] : out[c][k] = k
    BY <1>1 DEF Inv, TypeInv, LoopInv
  <2>2. out[c] = [k \in DOMAIN out[c] |-> out[c][k]]
    BY <2>1
  <2> QED  BY <2>1, <2>2
<1> QED  BY <1>1, Invariance, PTL

\* A function of forEachBatch is called with an empty batch only in the call of
\* forEachBatch itself, when the range is known to be empty: a read that ends with no
\* row for a loop that has begun, and one that fails, call it no more.
THEOREM NoLateEmptyBatch == Spec => EmptyBatchOnlyAtOnce
<1>1. ASSUME Inv, [Next]_vars
      PROVE  [\A c \in Loops :
                outcome[c] # "inFunc" /\ outcome'[c] = "inFunc" /\ out'[c] = out[c]
                  => outcome[c] = "idle" /\ Total = 0]_vars
  <2> SUFFICES ASSUME Next, NEW c \in Loops,
                      outcome[c] # "inFunc", outcome'[c] = "inFunc", out'[c] = out[c]
               PROVE  outcome[c] = "idle" /\ Total = 0
    BY <1>1
  <2>1. DOMAIN outcome = Loops /\ DOMAIN out = Loops
    BY <1>1 DEF Inv, TypeInv
  <2>2. ASSUME NEW d \in Loops, LoopMoved(d)
        PROVE  outcome[c] = "idle" /\ Total = 0
    <3>1. PICK st, how, rows, w, rest : LoopMoves(d, st, how, rows, w, rest)
      BY <2>2 DEF LoopMoved
    <3>2. outcome' = [outcome EXCEPT ![d] = how] /\ out' = [out EXCEPT ![d] = rows]
      BY <3>1 DEF LoopMoves
    <3>3. d = c
      BY <2>1, <3>2
    <3>4. how = "inFunc" /\ rows = out[c]
      BY <2>1, <3>2, <3>3
    <3> QED  BY <3>1, <3>3, <3>4 DEF LoopMoves
  <2>3. ~NextMoved /\ ~Awakened
    <3>1. UNCHANGED outcome => FALSE
      OBVIOUS
    <3> QED  BY <3>1 DEF NextMoved, Awakened, NextMoves, Awakes, StartAnswers
  <2>4. \A s, cb : ~WaitsForStart(s, cb)
    BY <2>1 DEF WaitsForStart
  <2> QED  BY <1>1, <2>2, <2>3, <2>4, Moves
<1> QED  BY <1>1, Invariance, PTL DEF Spec, EmptyBatchOnlyAtOnce

-----------------------------------------------------------------------------
(* The iterator implements the scan: an invariant state and a step of one  *)
(* of the five kinds make a step of the scan, or none.                     *)

LEMMA ConsumedBounds ==
  ASSUME use \in Uses, NEW s \in Iters, NEW st, StateOK(s, st)
  PROVE  Consumed(st) \in 0 .. Total
<1>1. Total \in Nat /\ st \in IterType(s)
  BY UseFacts DEF StateOK
<1>2. CASE Waiting(st)
  BY <1>1, <1>2 DEF Waiting, Consumed
<1>3. CASE ~Waiting(st)
  <2>1. FetcherOK(st.fetcher) /\ ResultsOK(st)
    BY <1>3 DEF StateOK
  <2>2. PICK pos, len, at : pos = st.fetcher.pos /\ len = Len(st.results) /\ at = st.index
    OBVIOUS
  <2>3. pos \in Nat /\ pos <= Total
    BY <2>1, <2>2 DEF FetcherOK, FetcherType
  <2>4. CASE st.results = Undefined
    BY <1>1, <1>3, <2>2, <2>3, <2>4 DEF Consumed, Waiting
  <2>5. CASE st.results # Undefined
    <3>1. len \in Nat /\ len <= pos /\ at \in Int /\ -1 <= at /\ at <= len
      BY <1>1, <2>1, <2>2, <2>5, Fields DEF ResultsOK
    <3>2. Consumed(st) = pos - len + Least(at + 1, len)
      BY <1>3, <2>2, <2>5 DEF Consumed, Waiting
    <3>3. Least(at + 1, len) \in 0 .. len
      BY <3>1 DEF Least
    <3> QED  BY <1>1, <2>3, <3>1, <3>2, <3>3
  <2> QED  BY <2>4, <2>5
<1> QED  BY <1>2, <1>3

LEMMA ScanStarts ==
  ASSUME Init
  PROVE  Scan!SInit
<1>1. Total \in Nat /\ (~use.reentrant) \in BOOLEAN
  <2>1. use \in Uses
    BY DEF Init
  <2>2. (~use.reentrant) \in BOOLEAN
    OBVIOUS
  <2> QED  BY <2>1, <2>2, UseFacts
<1>2. Got = [c \in Loops |-> 0]
  BY DEF Init, Got
<1>3. Shown = [c \in Loops |-> "idle"]
  BY DEF Init, Shown, Reading
<1>4. answer = [n \in Calls |-> Scan!Pending]
  BY DEF Init, Pending
<1>5. Given = {}
  BY <1>4 DEF Given, Scan!Pending
<1>6. Cardinality(Given) = 0
  BY <1>5, FS_EmptySet
<1> QED  BY <1>1, <1>2, <1>3, <1>4, <1>6 DEF Scan!SInit

\* The loop that moves is given rows, or has ended.
LEMMA LoopMovesScan ==
  ASSUME Inv, NEW c \in Loops, LoopMoved(c)
  PROVE  Scan!SNext
<1>1. PICK st, how, rows, w, rest : LoopMoves(c, st, how, rows, w, rest)
  BY DEF LoopMoved
<1>2. PICK shown : shown = IF how \in Reading THEN "reading" ELSE how
  OBVIOUS
<1>3. DOMAIN outcome = Loops /\ DOMAIN out = Loops /\ out[c] \in Seq(Nat) /\ use \in Uses
  BY DEF Inv, TypeInv
<1>4. Got' = [Got EXCEPT ![c] = Len(rows)]
  BY <1>1, <1>3 DEF LoopMoves, Got
<1>5. Shown' = [Shown EXCEPT ![c] = shown]
  BY <1>1, <1>2, <1>3 DEF LoopMoves, Shown
<1>6. UNCHANGED <<Total, use.reentrant, answer, Given>>
  BY <1>1 DEF LoopMoves, Total, Given
<1>7. UNCHANGED <<Total, ~use.reentrant>> /\ Cardinality(Given)' = Cardinality(Given)
  BY <1>6
<1>8. Got[c] = Len(out[c]) /\ Shown[c] = IF outcome[c] \in Reading THEN "reading" ELSE outcome[c]
  BY DEF Got, Shown
<1>9. CASE how \in Reading
  <2>1. shown = "reading"
    BY <1>2, <1>9
  <2>2. Shown[c] \in {"idle", "reading"}
    BY <1>1, <1>8 DEF LoopMoves
  <2>3. Len(rows) \in Got[c] .. Total
    <3>1. Consumed(st) \in 0 .. Total /\ Total \in Nat
      BY <1>1, <1>3, ConsumedBounds, UseFacts DEF LoopMoves, Iters
    <3>2. Len(rows) = Consumed(st) /\ Len(rows) >= Len(out[c]) /\ Len(out[c]) \in Nat
      BY <1>1, <1>3 DEF LoopMoves
    <3> QED  BY <1>8, <3>1, <3>2
  <2>4. Scan!Give(c)
    BY <1>4, <1>5, <1>6, <1>7, <2>1, <2>2, <2>3 DEF Scan!Give
  <2> QED  BY <1>7, <2>4 DEF Scan!SNext
<1>10. CASE how \notin Reading
  <2>1. how \in Ends /\ shown = how
    BY <1>1, <1>2, <1>10 DEF LoopMoves
  <2>2. rows = out[c] /\ outcome[c] \in Reading /\ (how = "end" => Len(rows) = Total)
    BY <1>1, <2>1 DEF LoopMoves
  <2>3. Got' = Got
    BY <1>4, <1>8, <2>2 DEF Got
  <2>4. Shown[c] = "reading" /\ (how = "end" => Got[c] = Total)
    BY <1>8, <2>2
  <2>5. Scan!Finish(c)
    BY <1>5, <1>6, <1>7, <2>1, <2>3, <2>4 DEF Scan!Finish, Ends
  <2> QED  BY <1>7, <2>5 DEF Scan!SNext
<1> QED  BY <1>9, <1>10

\* A loop that has to wait for the start state has begun; a call of next that waits,
\* and a state that wakes its callbacks, show nothing.
LEMMA WaitsForStartScan ==
  ASSUME Inv, NEW s, NEW cb, WaitsForStart(s, cb)
  PROVE  Scan!SNext \/ UNCHANGED Scan!svars
<1>1. UNCHANGED <<use, Total, answer, Got, Given>> /\ Cardinality(Given)' = Cardinality(Given)
  BY DEF WaitsForStart, Total, Got, Given
<1>2. UNCHANGED <<Total, ~use.reentrant>>
  BY <1>1
<1>3. CASE s \in Loops /\ outcome[s] = "idle" /\ outcome' = [outcome EXCEPT ![s] = "fetching"]
  <2>1. DOMAIN outcome = Loops /\ use \in Uses
    BY DEF Inv, TypeInv
  <2>2. Shown' = [Shown EXCEPT ![s] = "reading"] /\ Shown[s] = "idle"
    BY <1>3, <2>1 DEF Shown, Reading
  <2>3. Got[s] = 0
    BY <1>3 DEF WaitsForStart, Inv, LoopInv, Got
  <2>4. 0 \in Got[s] .. Total
    BY <2>1, <2>3, UseFacts
  <2>5. Got' = [Got EXCEPT ![s] = 0]
    BY <1>1, <1>3, <2>3 DEF Got
  <2>6. Scan!Give(s)
    BY <1>1, <1>3, <2>2, <2>4, <2>5 DEF Scan!Give
  <2> QED  BY <1>2, <1>3, <2>6 DEF Scan!SNext
<1>4. CASE UNCHANGED outcome
  <2>1. UNCHANGED Shown
    BY <1>4 DEF Shown
  <2> QED  BY <1>1, <1>2, <2>1 DEF Scan!svars
<1> QED  BY <1>3, <1>4 DEF WaitsForStart

LEMMA AwakenedScan ==
  ASSUME Inv, Awakened
  PROVE  UNCHANGED Scan!svars
<1>1. UNCHANGED <<use, out, outcome, answer>>
  BY DEF Awakened, Awakes, StartAnswers
<1>2. UNCHANGED <<Total, ~use.reentrant, Got, Shown, answer, Given>>
  BY <1>1 DEF Total, Got, Shown, Given
<1>3. Cardinality(Given)' = Cardinality(Given)
  BY <1>2
<1> QED  BY <1>2, <1>3 DEF Scan!svars

\* A call of next that is answered is in its turn: none before it still waits.
LEMMA RepliesInTurn ==
  ASSUME Inv, NEW n, NEW st, NEW w, NEW rest, NextMoves(n, st, w, rest), ~st.fetching,
         st.callbacks = NextWaits
  PROVE  n \in Calls /\ Scan!InTurn(n)
<1>1. /\ n \in Calls /\ answer[n] = Pending /\ n <= made' /\ StateOK(ForNext, st)
      /\ made' = made \/ made' = made + 1
      /\ ~use.reentrant => OrderedBut(n, NextWaits, rest)
  BY DEF NextMoves
<1>2. DOMAIN NextWaits = {}
  BY <1>1 DEF StateOK
<1>3. ASSUME ~use.reentrant, NEW m \in Calls, m < n, answer[m] = Pending
      PROVE  FALSE
  <2>1. m \in (1 .. made) \ {n}
    <3>1. made \in Nat /\ m \in Nat \ {0} /\ n \in Nat
      BY <1>1, SizesAssumption DEF Inv, TypeInv, Calls
    <3> QED  BY <1>1, <1>3, <3>1
  <2>2. Held(rest, m)
    BY <1>1, <1>2, <1>3, <2>1 DEF OrderedBut
  <2>3. PICK i \in DOMAIN rest : rest[i].state = ForNext /\ rest[i].cb = m
    BY <2>2 DEF Held
  <2>4. n < m
    BY <1>1, <1>3, <2>3 DEF OrderedBut
  <2>5. m \in Nat /\ n \in Nat
    BY <1>1 DEF Calls
  <2> QED  BY <1>3, <2>4, <2>5
<1> QED  BY <1>1, <1>3 DEF Scan!InTurn, Pending

LEMMA NextMovesScan ==
  ASSUME Inv, NextMoved
  PROVE  Scan!SNext \/ UNCHANGED Scan!svars
<1>1. PICK n, st, w, rest : NextMoves(n, st, w, rest)
  BY DEF NextMoved
<1>2. UNCHANGED <<use, out, outcome>> /\ n \in Calls /\ answer[n] = Pending
  BY <1>1 DEF NextMoves
<1>3. UNCHANGED <<Total, ~use.reentrant, Got, Shown>>
  BY <1>2 DEF Total, Got, Shown
<1>4. DOMAIN answer = Calls /\ use \in Uses /\ IsFiniteSet(Given) /\ Cardinality(Given) = Taken
  BY DEF Inv, TypeInv, NextInv
<1>5. CASE Waits(n, st, w)
  <2>1. UNCHANGED answer
    BY <1>5 DEF Waits
  <2>2. Cardinality(Given)' = Cardinality(Given)
    BY <2>1 DEF Given
  <2> QED  BY <1>3, <2>1, <2>2 DEF Scan!svars
<1>6. ASSUME NEW a \in {End, Error} \cup 1 .. use.rows, Replies(n, a, st, w)
      PROVE  Scan!SNext
  <2>1. answer' = [answer EXCEPT ![n] = a] /\ ~st.fetching /\ st.callbacks = NextWaits
    BY <1>6 DEF Replies
  <2>2. Scan!InTurn(n)
    BY <1>1, <2>1, RepliesInTurn
  <2>3. ~(Pending > 0) /\ ~(End > 0) /\ ~(Error > 0)
    BY DEF Pending, End, Error, Scan!Pending, Scan!End, Scan!Error
  <2>4. CASE a \in {End, Error}
    <3>1. Given' = Given
      BY <1>2, <1>4, <2>1, <2>3, <2>4 DEF Given
    <3>2. Cardinality(Given)' = Cardinality(Given)
      BY <3>1
    <3>3. CASE a = Error
      <4>1. Scan!ReplyError(n)
        BY <1>3, <2>1, <2>2, <3>2, <3>3 DEF Scan!ReplyError, Error
      <4> QED  BY <1>2, <1>3, <4>1 DEF Scan!SNext
    <3>4. CASE a = End
      <4>1. Cardinality(Given) = Total \/ \E m \in Calls : answer[m] = Scan!Error
        BY <1>4, <1>6, <3>4 DEF Replies, Error
      <4>2. Scan!ReplyEnd(n)
        BY <1>3, <2>1, <2>2, <3>2, <3>4, <4>1 DEF Scan!ReplyEnd, End
      <4> QED  BY <1>2, <1>3, <4>2 DEF Scan!SNext
    <3> QED  BY <2>4, <3>3, <3>4
  <2>5. CASE a \notin {End, Error}
    <3>1. a = Taken + 1 /\ a <= Total /\ a \in 1 .. use.rows
      BY <1>6, <2>5 DEF Replies
    <3>2. a \in Nat \ {0} /\ Total \in Nat
      BY <1>4, <3>1, UseFacts
    <3>3. Given' = Given \cup {n} /\ n \notin Given
      BY <1>2, <1>4, <2>1, <2>3, <3>2 DEF Given
    <3>4. Cardinality(Given)' = Cardinality(Given) + 1 /\ Cardinality(Given) \in Nat
      BY <1>4, <3>3, FS_AddElement, FS_CardinalityType
    <3>5. Cardinality(Given) < Total /\ a = Cardinality(Given) + 1
      BY <1>4, <3>1, <3>2, <3>4
    <3>6. Scan!ReplyRow(n)
      BY <1>3, <2>1, <2>2, <3>4, <3>5 DEF Scan!ReplyRow
    <3> QED  BY <1>2, <1>3, <3>6 DEF Scan!SNext
  <2> QED  BY <2>4, <2>5
<1> QED  BY <1>1, <1>5, <1>6 DEF NextMoves

\* Every consumer of the iterator is given what a scan of its own would give it, and
\* the calls of next, overlapping or made in one another's callbacks, share one.
THEOREM ScansTheRange == Spec => ImplementsScan
<1>1. ASSUME Inv, [Next]_vars
      PROVE  [Scan!SNext]_(Scan!svars)
  <2>1. CASE Next
    BY <1>1, <2>1, Moves, LoopMovesScan, NextMovesScan, AwakenedScan, WaitsForStartScan
  <2>2. CASE UNCHANGED vars
    <3>1. UNCHANGED <<Total, ~use.reentrant, Got, Shown, answer, Given>>
      BY <2>2 DEF vars, Total, Got, Shown, Given
    <3>2. Cardinality(Given)' = Cardinality(Given)
      BY <3>1
    <3> QED  BY <3>1, <3>2 DEF Scan!svars
  <2> QED  BY <1>1, <2>1, <2>2
<1> QED  BY <1>1, ScanStarts, Invariance, PTL DEF Spec, ImplementsScan, Scan!ScanSpec
=============================================================================
