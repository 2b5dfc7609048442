----------------------------- MODULE LazyIterator -----------------------------
(***************************************************************************)
(* One iterator of lib/lazyIterator.js over the range fetcher of           *)
(* lib/rangeIterator.js.  The constructor starts one fetch; every consumer *)
(* works on a copy of that start state, and a copy made while the fetch is *)
(* in flight waits for it through a callback.                              *)
(*                                                                         *)
(* A turn of the event loop runs callbacks one after the other, and each   *)
(* may run others before it returns: "run" is that stack.  Between turns   *)
(* it is empty; inside a turn only user code that is running may act.      *)
(***************************************************************************)
EXTENDS Integers, Sequences, FiniteSets

CONSTANTS
  Uses,        \* the ways the iterator may be used, records of
               \*   rows       the range holds rows 1 .. rows in the order of the scan
               \*   limit      options.limit, 0 for none
               \*   loops      the loops that may be run on it
               \*   calls      how many calls of next() may be made
               \*   reentrant  may user code called back use it before it returns?
  MaxBatch,    \* bound: rows the store returns at once
  MaxErrors,   \* bound: reads that fail
  ForEach, ForEachBatch, ToArray,   \* the loops run on the iterator, by kind
  NumCalls,    \* bound: calls of next() in any use
  Undefined    \* JavaScript's undefined

Loops == ForEach \cup ForEachBatch \cup ToArray

ASSUME SizesAssumption == {MaxErrors, NumCalls} \subseteq Nat /\ MaxBatch \in Nat \ {0}
ASSUME UsesAssumption ==
  Uses \subseteq [rows : Nat, limit : Nat, loops : SUBSET Loops, calls : 0 .. NumCalls,
                  reentrant : BOOLEAN]

Calls == 1 .. NumCalls
Least(a, b) == IF a < b THEN a ELSE b
Start == "start"       \* this.startState
ForNext == "forNext"   \* this.stateForNext
Iters == {Start, ForNext} \cup Loops

\* Who may wait for the fetch of state s: copies for that of the start state, calls
\* of next, or the loop itself.
Waiters(s) == CASE s = Start -> {ForNext} \cup Loops [] s = ForNext -> Calls [] OTHER -> {s}

\* The fields of RangeFetcher and of iterState.
FetcherType == [pos : Nat, limit : Nat, finished : BOOLEAN]
IterType(s) ==
  [index : Int, results : Seq(Nat) \cup {Undefined}, fetching : BOOLEAN,
   callbacks : Seq(Waiters(s)), finished : BOOLEAN, fetcher : FetcherType \cup {Undefined}]

ASSUME NamesAssumption == {Start, ForNext, "next", Undefined} \cap Loops = {}
ASSUME UndefinedAssumption ==
  /\ Undefined \notin Seq(Nat) /\ Undefined \notin FetcherType
  /\ \A s \in Iters : Undefined \notin IterType(s)

VARIABLES
  use,      \* the way this iterator is used; never changed
  iter,     \* iterator state -> its fields, Undefined before it is created
  run,      \* callbacks still to run in this turn
  user,     \* whose function is running in this turn: a loop, "next" or Undefined
  made,     \* calls of next() made so far
  errors,   \* reads that have failed
  out,      \* loop -> the rows its function has been given
  outcome,  \* loop -> "idle", "fetching", "inFunc" or how it ended
  answer    \* call of next() -> Pending, its row, End or Error

vars == <<use, iter, run, user, made, errors, out, outcome, answer>>

Total == IF use.limit = 0 THEN use.rows ELSE Least(use.rows, use.limit)
Reading == {"fetching", "inFunc"}

\* What of the scan the iterator's users have seen.
Got == [c \in Loops |-> Len(out[c])]
Shown == [c \in Loops |-> IF outcome[c] \in Reading THEN "reading" ELSE outcome[c]]
Given == {n \in Calls : answer[n] > 0}

Scan == INSTANCE RangeScan WITH
  total <- Total, ordered <- ~use.reentrant, got <- Got, outcome <- Shown,
  taken <- Cardinality(Given)

Pending == Scan!Pending
End == Scan!End
Error == Scan!Error
Ends == Scan!Ends

-----------------------------------------------------------------------------
(* The range fetcher: pos rows are behind it, limit is what remains of it. *)

RangeFetcher == [pos |-> 0, limit |-> use.limit, finished |-> FALSE]

\* The rows the store may answer: as many as it likes, at least one if there is one.
Batches(f) ==
  LET room == IF f.limit = 0 THEN use.rows - f.pos ELSE Least(use.rows - f.pos, f.limit)
  IN {[k \in 1 .. n |-> f.pos + k] : n \in Least(room, 1) .. Least(room, MaxBatch)}

\* "more" is certain only where the store stopped short of both ends.
More(f, b) == IF f.pos + Len(b) < use.rows /\ (f.limit = 0 \/ Len(b) < f.limit)
              THEN {TRUE} ELSE BOOLEAN

FetchedNegative(f, b, more) ==  \* mutant: the limit is counted down when there is none
  LET limit == f.limit - Len(b)
  IN [pos |-> f.pos + Len(b), limit |-> limit, finished |-> (f.limit # 0 /\ limit <= 0) \/ ~more]

\* The callback of tr.getRange.
Fetched(f, b, more) ==
  LET limit == IF f.limit = 0 THEN 0 ELSE f.limit - Len(b)
  IN [pos |-> f.pos + Len(b), limit |-> limit,
      finished |-> (f.limit # 0 /\ limit <= 0) \/ ~more]

-----------------------------------------------------------------------------
(* iterState, fetch and copyState.                                         *)

IterState == [index |-> -1, results |-> Undefined, fetching |-> FALSE,
              callbacks |-> <<>>, finished |-> FALSE, fetcher |-> Undefined]

ArrivedEmpty(st, f, res) ==  \* mutant: an empty answer does not end the iteration
  [st EXCEPT !.fetching = FALSE, !.callbacks = <<>>, !.results = res, !.index = -1,
             !.finished = (res = Undefined), !.fetcher = f]

\* The state after the callback of fetcher.fetch, and what that goes on to run.
Arrived(st, f, res) ==
  [st EXCEPT !.fetching = FALSE, !.callbacks = <<>>, !.results = res, !.index = -1,
             !.finished = (res = Undefined \/ res = <<>>), !.fetcher = f]

WakeFirst(s, st, err) ==  \* mutant: one callback only is kept
  IF st.callbacks = <<>> THEN <<>> ELSE <<[state |-> s, cb |-> Head(st.callbacks), err |-> err]>>
WakeReversed(s, st, err) ==  \* mutant: callbacks run last in, first out
  LET n == Len(st.callbacks)
  IN [k \in 1 .. n |-> [state |-> s, cb |-> st.callbacks[n + 1 - k], err |-> err]]
Wake(s, st, err) ==
  [k \in DOMAIN st.callbacks |-> [state |-> s, cb |-> st.callbacks[k], err |-> err]]

\* fetch: join the fetch in flight or start one; a finished fetcher calls back at once.
Fetch(s, st, cb, rest) ==
  LET joined == [st EXCEPT !.callbacks = Append(@, cb)]
  IN IF ~st.fetching /\ st.fetcher.finished
       THEN /\ iter' = [iter EXCEPT ![s] = Arrived(joined, st.fetcher, Undefined)]
            /\ run' = Wake(s, joined, FALSE) \o rest
       ELSE /\ iter' = [iter EXCEPT ![s] = [joined EXCEPT !.fetching = TRUE]]
            /\ run' = rest

CopiedUnread(st) == [IterState EXCEPT !.index = st.index, !.results = st.results,
                                      !.fetcher = RangeFetcher]  \* mutant: clone forgets iterStart

\* A copy of a start state that is not fetching; "finished" is not copied.
Copied(st) == [IterState EXCEPT !.index = st.index, !.results = st.results,
                                !.fetcher = st.fetcher]

\* A copy of a start state that is fetching waits for it under its own name, and
\* whoever the copy is made for waits for the copy.
WaitForStart(s, cb) ==
  iter' = [iter EXCEPT ![Start].callbacks = Append(@, s),
                       ![s] = [IterState EXCEPT !.fetching = TRUE, !.callbacks = <<cb>>]]

\* The copy takes over what the start state has become.
CopyArrived(s) ==
  [IterState EXCEPT !.index = iter[Start].index, !.results = iter[Start].results,
                    !.finished = iter[Start].finished, !.fetcher = iter[Start].fetcher]

-----------------------------------------------------------------------------
(* One step of a consumer on its state st; "rest" is what is left to run.  *)

HasRow(st) == st.results # Undefined /\ st.index + 1 < Len(st.results)

Settle(s, st, rest) == iter' = [iter EXCEPT ![s] = st] /\ run' = rest

Reply(n, a) ==
  /\ answer' = [answer EXCEPT ![n] = a]
  /\ user' = "next"
  /\ UNCHANGED <<out, outcome>>

Turn(c, how) ==
  /\ outcome' = [outcome EXCEPT ![c] = how]
  /\ user' = Undefined
  /\ UNCHANGED <<out, answer>>

Give(c, batch) ==
  /\ out' = [out EXCEPT ![c] = @ \o batch]
  /\ outcome' = [outcome EXCEPT ![c] = "inFunc"]
  /\ user' = c
  /\ UNCHANGED answer

\* nextImpl for call n of next().
NextImpl(st, n, rest) ==
  \/ st.finished /\ Settle(ForNext, st, rest) /\ Reply(n, End)
  \/ /\ ~st.finished /\ HasRow(st)
     /\ Settle(ForNext, [st EXCEPT !.index = @ + 1], rest)
     /\ Reply(n, st.results[st.index + 2])
  \/ /\ ~st.finished /\ ~HasRow(st)
     /\ Fetch(ForNext, st, n, rest)
     /\ user' = Undefined
     /\ UNCHANGED <<out, outcome, answer>>

\* nextImpl for the loop of forEach.
ForEachStep(c, st, rest) ==
  \/ st.finished /\ Settle(c, st, rest) /\ Turn(c, "end")
  \/ /\ ~st.finished /\ HasRow(st)
     /\ Settle(c, [st EXCEPT !.index = @ + 1], rest)
     /\ Give(c, <<st.results[st.index + 2]>>)
  \/ ~st.finished /\ ~HasRow(st) /\ Fetch(c, st, c, rest) /\ Turn(c, "fetching")

\* processBatch without an error.  "inFunc" is left in the same turn by toArray's
\* own function (see Continue).
ProcessBatch(c, st, rest) ==
  \/ st.finished /\ Settle(c, st, rest) /\ Turn(c, "end")
  \/ /\ ~st.finished
     /\ Settle(c, [st EXCEPT !.index = Len(st.results)], rest)
     /\ Give(c, st.results)

\* loopBody of forEachBatchImpl.
BatchStep(c, st, rest) ==
  IF st.results = Undefined \/ st.index = Len(st.results)
    THEN Fetch(c, st, c, rest) /\ Turn(c, "fetching")
    ELSE ProcessBatch(c, st, rest)

LoopStep(c, st, rest) ==
  IF c \in ForEach THEN ForEachStep(c, st, rest) ELSE BatchStep(c, st, rest)

-----------------------------------------------------------------------------
(* Actions of the user's code: in a turn of its own, or re-entrantly.      *)

MayCall == run = <<>> \/ (use.reentrant /\ user # Undefined)

CallNext ==
  /\ MayCall
  /\ made < use.calls
  /\ made' = made + 1
  /\ \/ iter[ForNext] # Undefined /\ NextImpl(iter[ForNext], made', run)
     \/ /\ iter[ForNext] = Undefined /\ iter[Start].fetching
        /\ WaitForStart(ForNext, made')
        /\ user' = Undefined
        /\ UNCHANGED <<run, out, outcome, answer>>
     \/ /\ iter[ForNext] = Undefined /\ ~iter[Start].fetching
        /\ NextImpl(Copied(iter[Start]), made', run)
  /\ UNCHANGED errors

\* forEach, forEachBatch or toArray, up to the first wait.
StartLoop(c) ==
  /\ MayCall
  /\ c \in use.loops
  /\ outcome[c] = "idle"
  /\ IF iter[Start].fetching
       THEN WaitForStart(c, c) /\ Turn(c, "fetching") /\ UNCHANGED run
       ELSE LoopStep(c, Copied(iter[Start]), run)
  /\ UNCHANGED <<made, errors>>

\* The loop's function calls back, before it returns or later, and the loop goes on.
Continue(c) ==
  /\ outcome[c] = "inFunc"
  /\ run = <<>> \/ user = c
  /\ LoopStep(c, iter[c], run)
  /\ UNCHANGED <<made, errors>>

\* The loop's function calls back with an error or a value.
Stop(c) ==
  /\ c \notin ToArray
  /\ outcome[c] = "inFunc"
  /\ run = <<>> \/ user = c
  /\ Turn(c, "stopped")
  /\ UNCHANGED <<iter, run, made, errors>>

-----------------------------------------------------------------------------
(* Actions of the event loop.                                              *)

\* The store answers the request that state s itself has in flight.
Requested(s) == iter[s] # Undefined /\ iter[s].fetching /\ iter[s].fetcher # Undefined

Returned(s, f, res, err) ==
  /\ run = <<>>
  /\ iter' = [iter EXCEPT ![s] = Arrived(@, f, res)]
  /\ run' = Wake(s, iter[s], err)
  /\ user' = Undefined
  /\ UNCHANGED <<made, out, outcome, answer>>

Respond(s) ==
  /\ Requested(s)
  /\ \E b \in Batches(iter[s].fetcher) : \E more \in More(iter[s].fetcher, b) :
       Returned(s, Fetched(iter[s].fetcher, b, more), b, FALSE)
  /\ UNCHANGED errors

RespondError(s) ==
  /\ Requested(s)
  /\ errors < MaxErrors
  /\ errors' = errors + 1
  /\ Returned(s, iter[s].fetcher, Undefined, TRUE)

\* User code has returned, or none was running, and the next callback of the turn runs:
\* that of a copy, of a call of next(), or of a loop's fetch.
RunCopy ==
  /\ run # <<>> /\ Head(run).state = Start
  /\ LET s == Head(run).cb
     IN /\ iter' = [iter EXCEPT ![s] = CopyArrived(s)]
        /\ run' = Wake(s, iter[s], Head(run).err) \o Tail(run)
  /\ user' = Undefined
  /\ UNCHANGED <<made, errors, out, outcome, answer>>

RunNext ==
  /\ run # <<>> /\ Head(run).state = ForNext
  /\ LET n == Head(run).cb
     IN IF Head(run).err
          THEN Reply(n, Error) /\ run' = Tail(run) /\ UNCHANGED iter
          ELSE NextImpl(iter[ForNext], n, Tail(run))
  /\ UNCHANGED <<made, errors>>

RunLoop ==
  /\ run # <<>> /\ Head(run).state \in Loops
  /\ LET c == Head(run).cb
     IN CASE Head(run).err -> Turn(c, "error") /\ run' = Tail(run) /\ UNCHANGED iter
          [] ~Head(run).err /\ c \in ForEach -> ForEachStep(c, iter[c], Tail(run))
          [] OTHER -> ProcessBatch(c, iter[c], Tail(run))
  /\ UNCHANGED <<made, errors>>

RunCallback == RunCopy \/ RunNext \/ RunLoop

\* toArray's function only appends: nothing else runs before it calls back.
Appending == user \in ToArray /\ outcome[user] = "inFunc"

-----------------------------------------------------------------------------

\* The constructor starts the first fetch.
Init ==
  /\ use \in Uses
  /\ iter = [s \in Iters |-> IF s = Start
                               THEN [IterState EXCEPT !.fetcher = RangeFetcher, !.fetching = TRUE]
                               ELSE Undefined]
  /\ run = <<>>
  /\ user = Undefined
  /\ made = 0
  /\ errors = 0
  /\ out = [c \in Loops |-> <<>>]
  /\ outcome = [c \in Loops |-> "idle"]
  /\ answer = [n \in Calls |-> Pending]

FuncReturns(c) == Continue(c) \/ Stop(c)

Next ==
  /\ UNCHANGED use
  /\ \/ \E c \in Loops : FuncReturns(c)
     \/ /\ ~Appending
        /\ \/ CallNext
           \/ \E c \in Loops : StartLoop(c)
           \/ \E s \in Iters : Respond(s) \/ RespondError(s)
           \/ RunCallback

Spec == Init /\ [][Next]_vars

\* The event loop runs the callbacks of a turn, the store answers or fails every
\* request, and the function of every loop calls back.
Fairness ==
  /\ WF_vars(~Appending /\ RunCallback /\ UNCHANGED use)
  /\ \A s \in Iters : WF_vars(~Appending /\ (Respond(s) \/ RespondError(s)) /\ UNCHANGED use)
  /\ \A c \in Loops : WF_vars(FuncReturns(c) /\ UNCHANGED use)

FairSpec == Spec /\ Fairness

-----------------------------------------------------------------------------
(* Properties.                                                             *)

\* Every variable stays in its set.
TypeOK ==
  /\ use \in Uses /\ DOMAIN iter = Iters
  /\ \A s \in Iters : iter[s] # Undefined =>
       /\ iter[s] \in IterType(s) /\ iter[s].index \in -1 .. use.rows
       /\ iter[s].results # Undefined => \A k \in DOMAIN iter[s].results : iter[s].results[k] \in 1 .. use.rows
       /\ iter[s].fetcher # Undefined =>
            iter[s].fetcher.pos <= use.rows /\ iter[s].fetcher.limit <= use.limit
  /\ \A k \in DOMAIN run :
       run[k].state \in Iters /\ run[k].cb \in Waiters(run[k].state) /\ run[k].err \in BOOLEAN
  /\ user \in {Undefined, "next"} \cup Loops
  /\ made \in 0 .. NumCalls /\ errors \in 0 .. MaxErrors
  /\ outcome \in [Loops -> {"idle"} \cup Reading \cup Ends]
  /\ answer \in [Calls -> {Pending, End, Error} \cup 1 .. use.rows]

\* forEach, forEachBatch and toArray give their function the rows from the first
\* on, in order, whatever the other consumers of the iterator do and whether the
\* loop began before or after the first fetch came back.
RowsInOrder == \A c \in Loops : out[c] = [k \in DOMAIN out[c] |-> k]

\* A function of forEachBatch is given an empty batch only in the call itself,
\* when the range is known to be empty by then; never later, and never in a
\* loop that began with the iterator.
EmptyBatchOnlyAtOnce ==
  [][\A c \in Loops :
       outcome[c] # "inFunc" /\ outcome'[c] = "inFunc" /\ out'[c] = out[c]
         => outcome[c] = "idle" /\ Total = 0]_vars

\* Every consumer is an implementation of the abstract scan.  In it the calls of
\* next share one position, though they overlap or are made in one another's
\* callbacks: each is given the row after those given before, and is told of the
\* end only when all rows are given, or when a call has been told of an error.
ImplementsScan == Scan!ScanSpec

\* Every call of next is answered and every loop ends: no fetch is joined by a
\* consumer that nobody wakes.
ConsumersServed ==
  /\ \A n \in Calls : made >= n ~> answer[n] # Pending
  /\ \A c \in Loops : outcome[c] \in Reading ~> outcome[c] \in Ends
=============================================================================
