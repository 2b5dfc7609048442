-------------------------------- MODULE Future --------------------------------
(***************************************************************************)
(* The futures of lib/future.js: those settled by native code, those made  *)
(* by then, all and race, node-style callbacks, and the loops of           *)
(* fdbUtil.whileLoop and of whileLoop in lib/directory.js over them.       *)
(*                                                                         *)
(* What a future's callbacks do they put off to a process.nextTick of      *)
(* their own; each such tick, each call from native code and each call of  *)
(* user code is one step.  Native code calls back without draining the     *)
(* ticks (NodeCallback.h, line 117), so that steps of all three kinds mix. *)
(* A handler's own calls of then, all, ... are steps beside its tick.      *)
(*                                                                         *)
(* Promises of other libraries are left out: every future here is one of   *)
(* the library's.                                                          *)
(***************************************************************************)
EXTENDS Integers, Sequences, FiniteSets, SequencesExt

CONSTANTS
  Natives,    \* futures made by create(func), for which func keeps the callback
  Children,   \* futures that then may make
  Alls, Races, Loops,  \* futures that all, race and whileLoop may make
  Nodes,      \* node-style callbacks
  Lists,      \* what may be given to all and race: sequences of futures and Plain
  Settings,   \* the sets of these that may be used together
  MaxRounds,  \* bound: bodies a loop runs before one ends it
  Plain,      \* a value that is not a future
  Undefined,  \* JavaScript's undefined
  Error,      \* a reason
  Falsy,      \* a reason that is falsy, such as undefined itself
  SelfError   \* the TypeError of a future resolved with itself

Futures == Natives \cup Children \cup Alls \cup Races \cup Loops
Handlers == SUBSET {"onFulfilled", "onRejected"}

ASSUME SettingsAssumption == Settings \subseteq SUBSET (Futures \cup Nodes)
ASSUME ListsAssumption == Lists \subseteq Seq(Natives \cup Children \cup {Plain})
ASSUME RoundsAssumption == MaxRounds \in Nat
\* What is made by one function is not made by another, and values are not futures.
ASSUME NamesAssumption ==
  /\ Natives \cap (Children \cup Alls \cup Races \cup Loops) = {}
  /\ Children \cap (Alls \cup Races \cup Loops) = {}
  /\ Alls \cap (Races \cup Loops) = {}
  /\ Races \cap Loops = {}
  /\ Nodes \cap Futures = {}
  /\ {Plain, Undefined, Error, Falsy, SelfError} \cap Futures = {}

VARIABLES
  uses,       \* the setting; never changed
  state,      \* future -> Unmade, Thrown, Pending, or its fate
  callbacks,  \* future -> its callbacks
  ticks,      \* the process.nextTick queue
  source,     \* child -> its future, the handlers it has and what came of them
  list,       \* future of all or race -> its list, and how many were settled by then
  count,      \* future of all -> elements it waits for
  loop,       \* future of a loop -> where the loop is
  asked, ran, \* history: future -> its callbacks in the order they were added, and run
  settled     \* history: the futures in the order they were settled

coreVars == <<state, callbacks, ticks, asked, settled>>
vars == <<uses, coreVars, source, list, count, loop, ran>>

Unmade == [is |-> "unmade"]
Thrown == [is |-> "thrown"]  \* the call that was to make it has thrown
Pending == [is |-> "pending"]
Fulfilled(v) == [is |-> "fulfilled", value |-> v]
Rejected(e) == [is |-> "rejected", error |-> e]
IsSettled(s) == s.is \in {"fulfilled", "rejected"}
Made(f) == state[f].is \notin {"unmade", "thrown"}

\* A callback is known by what it does and for whom.
Callback(kind, to) == [kind |-> kind, to |-> to]

-----------------------------------------------------------------------------
(* FutureState, on the part w of the state that it changes.                *)

World == [state |-> state, callbacks |-> callbacks, ticks |-> ticks, asked |-> asked,
          settled |-> settled]
Become(w) ==
  /\ state' = w.state /\ callbacks' = w.callbacks /\ ticks' = w.ticks
  /\ asked' = w.asked /\ settled' = w.settled

Tick(f, cb) == [of |-> f, cb |-> cb]

TriggeredReversed(f, cbs) ==  \* mutant: the last callback first
  [k \in DOMAIN cbs |-> Tick(f, cbs[Len(cbs) + 1 - k])]
\* triggerCallbacks: every callback asks for its tick.
Triggered(f, cbs) == [k \in DOMAIN cbs |-> Tick(f, cbs[k])]

SettledAgain(w, f, fate) ==  \* mutant: a settled future is settled again
  [w EXCEPT !.state[f] = fate, !.callbacks[f] = <<>>,
            !.ticks = @ \o Triggered(f, w.callbacks[f]), !.settled = Append(@, f)]
\* fulfill and reject
Settled(w, f, fate) ==
  IF IsSettled(w.state[f]) THEN w
  ELSE [w EXCEPT !.state[f] = fate, !.callbacks[f] = <<>>,
                 !.ticks = @ \o Triggered(f, w.callbacks[f]), !.settled = Append(@, f)]

AddedPending(w, f, cb) ==  \* mutant: a callback added late waits for ever
  [w EXCEPT !.callbacks[f] = Append(@, cb), !.asked[f] = Append(@, cb)]
\* addCallback
Added(w, f, cb) ==
  LET asking == [w EXCEPT !.asked[f] = Append(@, cb)]
  IN IF IsSettled(w.state[f]) THEN [asking EXCEPT !.ticks = Append(@, Tick(f, cb))]
                              ELSE [asking EXCEPT !.callbacks[f] = Append(@, cb)]

\* getFutureCallback: a falsy error is taken for none.
FutureCallback(w, f, err, val) ==
  Settled(w, f, IF err \notin {Falsy, Undefined} THEN Rejected(err) ELSE Fulfilled(val))

ResolvedAsIs(w, f, x) == Settled(w, f, Fulfilled(x))  \* mutant: futures are not looked into

\* resolvePromise.  A future resolved with itself is rejected, and then waits for itself.
Resolved(w, f, x) ==
  IF x \notin Futures THEN Settled(w, f, Fulfilled(x))
  ELSE Added(IF x = f THEN Settled(w, f, Rejected(SelfError)) ELSE w, x, Callback("adopt", f))

-----------------------------------------------------------------------------
(* Steps of native and of user code.                                       *)

MayUse(f) == f \in uses
New(f) == f \in uses /\ state[f] = Unmade

\* User code runs in between; inside a turn of a loop only its body does.
Idle == \A l \in Loops : loop[l].pc # "run"

\* Native code, or whoever else has the callback, calls it, the second time in vain.
NativeCallback(f) ==
  /\ Idle /\ MayUse(f)
  /\ \E err \in {Undefined, Error, Falsy}, val \in {Undefined, Plain} :
       /\ err = Undefined \/ val = Undefined
       /\ Become(FutureCallback(World, f, err, val))
  /\ UNCHANGED <<source, list, count, loop, ran>>

\* f = reject(reason), before anyone uses it.
Reject(f) ==
  /\ Idle /\ MayUse(f) /\ asked[f] = <<>>
  /\ \E e \in {Error, Falsy} : Become(Settled(World, f, Rejected(e)))
  /\ UNCHANGED <<source, list, count, loop, ran>>

\* c = f.then(...)
Then(f, c) ==
  /\ Idle /\ Made(f) /\ MayUse(f) /\ New(c)
  /\ \E has \in Handlers : source' = [source EXCEPT ![c] = [of |-> f, has |-> has, got |-> Pending]]
  /\ Become(Added([World EXCEPT !.state[c] = Pending], f, Callback("then", c)))
  /\ UNCHANGED <<list, count, loop, ran>>

\* f(callback)
NodeStyle(f, n) ==
  /\ Idle /\ Made(f) /\ MayUse(f) /\ MayUse(n)
  /\ \A g \in Futures : Callback("node", n) \notin ToSet(asked[g])
  /\ Become(Added(World, f, Callback("node", n)))
  /\ UNCHANGED <<source, list, count, loop, ran>>

\* The n-th of a set of positions.
Nth(these, n) == CHOOSE i \in these : Cardinality({j \in these : j <= i}) = n

\* The elements of a list at these positions are waited for, one after the other.
Waiting(w, fs, these, cb) ==
  LET again(x) == [n \in 1 .. Cardinality({i \in these : fs[i] = x}) |-> cb]
      late == {i \in these : IsSettled(w.state[fs[i]])}
  IN [w EXCEPT !.asked = [x \in Futures |-> @[x] \o again(x)],
               !.callbacks = [x \in Futures |-> IF IsSettled(w.state[x]) THEN @[x] ELSE @[x] \o again(x)],
               !.ticks = @ \o [n \in 1 .. Cardinality(late) |-> Tick(fs[Nth(late, n)], cb)]]

\* a = all(fs): every element that is a future is waited for.  If it has counted all
\* elements before it returns, and there are any, it throws: it asks a plain value for
\* its _state.
All(a, fs) ==
  LET these == {i \in DOMAIN fs : fs[i] # Plain}
      w == [World EXCEPT !.state[a] = Pending]
  IN /\ Idle /\ New(a)
     /\ \A i \in these : Made(fs[i]) /\ MayUse(fs[i])
     /\ list' = [list EXCEPT ![a] = [of |-> fs, at |-> Len(settled)]]
     /\ count' = [count EXCEPT ![a] = Cardinality(these)]
     /\ Become(CASE fs = <<>> -> FutureCallback(w, a, Undefined, <<>>)
                 [] fs # <<>> /\ these = {} -> [World EXCEPT !.state[a] = Thrown]
                 [] OTHER -> Waiting(w, fs, these, Callback("all", a)))
     /\ UNCHANGED <<source, loop, ran>>

\* race(fs): the first plain value wins at once, and what comes after it is not waited for.
RaceBegun(r, fs) ==
  LET these == {i \in DOMAIN fs : \A j \in 1 .. i : fs[j] # Plain}
      w == Waiting([World EXCEPT !.state[r] = Pending], fs, these, Callback("race", r))
  IN IF Plain \in ToSet(fs) THEN FutureCallback(w, r, Undefined, Plain) ELSE w

Race(r, fs) ==
  /\ Idle /\ New(r)
  /\ \A x \in ToSet(fs) \ {Plain} : Made(x) /\ MayUse(x)
  /\ list' = [list EXCEPT ![r] = [of |-> fs, at |-> Len(settled)]]
  /\ Become(RaceBegun(r, fs))
  /\ UNCHANGED <<source, count, loop, ran>>

-----------------------------------------------------------------------------
(* whileLoop.  "called" is its calledCallback, "frames" its while statements *)
(* that are running; in the state "run" the innermost is about to run func.  *)

NoLoop == [pc |-> "none", called |-> TRUE, frames |-> 0, rounds |-> 0, body |-> Undefined,
           end |-> Pending]

NestedOuter(l) == [l EXCEPT !.pc = "run", !.frames = @ + 1]  \* mutant: no trampoline

\* outer(undefined, undefined)
Outer(l) ==
  IF ~l.called THEN [l EXCEPT !.called = TRUE, !.pc = "run"]
               ELSE [l EXCEPT !.pc = "run", !.frames = @ + 1]

\* func has returned: the while statement goes on if func has called back, or it ends.
Returned(l) ==
  IF l.pc = "run" THEN l ELSE [l EXCEPT !.called = TRUE, !.frames = @ - 1]

StartLoop(l) ==
  /\ Idle /\ New(l)
  /\ loop' = [loop EXCEPT ![l] = Outer(NoLoop)]
  /\ Become([World EXCEPT !.state[l] = Pending])
  /\ UNCHANGED <<source, list, count, ran>>

\* cb(err, res) of the loop, where err is truthy or res is defined.
LoopEnds(w, l, err, res) == FutureCallback(w, l, err, res)
EndOf(err, res) == IF err \notin {Falsy, Undefined} THEN Rejected(err) ELSE Fulfilled(res)

\* The loop runs func once.
Running(l) ==
  /\ loop[l].pc = "run"
  /\ UNCHANGED <<source, list, count, ran>>
Body(l) == [loop[l] EXCEPT !.called = FALSE, !.pc = "wait", !.rounds = @ + 1]

\* func()(f): func returns a future, which is given the callback.
BodyWaits(l) ==
  /\ Running(l) /\ loop[l].rounds < MaxRounds
  /\ \E f \in Natives \cup Children :
       /\ Made(f) /\ MayUse(f)
       /\ loop' = [loop EXCEPT ![l] = Returned([Body(l) EXCEPT !.body = f])]
       /\ Become(Added(World, f, Callback("loop", l)))

\* func calls back before it returns, to go on, or with a value or an error.
BodyGoesOn(l) ==
  /\ Running(l) /\ loop[l].rounds < MaxRounds
  /\ loop' = [loop EXCEPT ![l] = Returned(Outer([Body(l) EXCEPT !.body = Undefined]))]
  /\ UNCHANGED coreVars

BodyEnds(l) ==
  /\ Running(l)
  /\ \E how \in {<<Error, Undefined>>, <<Undefined, Plain>>} :
       /\ loop' = [loop EXCEPT ![l] = Returned([Body(l) EXCEPT !.pc = "ended", !.body = Undefined,
                                                              !.end = EndOf(how[1], how[2])])]
       /\ Become(LoopEnds(World, l, how[1], how[2]))

\* func throws: out of whileLoop if this is the first turn, and into the catch of a
\* tick if it is not.  Either way the loop is over and its future is never settled.
BodyThrows(l) ==
  /\ Running(l)
  /\ loop' = [loop EXCEPT ![l] = [Body(l) EXCEPT !.pc = "thrown", !.body = Undefined]]
  /\ UNCHANGED coreVars

-----------------------------------------------------------------------------
(* The tick of a callback, after its future has been settled.              *)

Fate(f) == state[f]
Reason(fate) == IF fate.is = "rejected" THEN fate.error ELSE Undefined
Val(fate) == IF fate.is = "fulfilled" THEN fate.value ELSE Undefined

Quiet == UNCHANGED <<source, list, count, loop>>

\* then's own callback: the handler for this fate, or the fate itself if there is none.
RunThen(w, f, c) ==
  LET handler == IF Fate(f).is = "rejected" THEN "onRejected" ELSE "onFulfilled"
      Got(x) == source' = [source EXCEPT ![c].got = x]
  IN /\ IF handler \in source[c].has
          THEN \/ \E x \in {Plain, Undefined} \cup {g \in uses \cap Futures : Made(g)} :
                    Got(Fulfilled(x)) /\ Become(Resolved(w, c, x))
               \/ \E e \in {Error, Falsy} : Got(Rejected(e)) /\ Become(Settled(w, c, Rejected(e)))
          ELSE IF Fate(f).is = "rejected"
            THEN Got(Fate(f)) /\ Become(Settled(w, c, Fate(f)))
            ELSE Got(Fate(f)) /\ Become(Resolved(w, c, Val(Fate(f))))
     /\ UNCHANGED <<list, count, loop>>

\* A future that waits for the one it was resolved with takes its fate.
RunAdopt(w, f, p) ==
  /\ Become(IF Fate(f).is = "rejected" THEN Settled(w, p, Fate(f)) ELSE Resolved(w, p, Val(Fate(f))))
  /\ Quiet

Elements(a) == ToSet(list[a].of)
Values(a) == [i \in DOMAIN list[a].of |-> Val(state[list[a].of[i]])]

RunAllCounting(w, f, a) ==  \* mutant: a rejection counts as a success
  /\ count' = [count EXCEPT ![a] = @ - 1]
  /\ Become(IF count'[a] = 0 /\ Plain \notin Elements(a)
              THEN FutureCallback(w, a, Undefined, Values(a)) ELSE w)
  /\ UNCHANGED <<source, list, loop>>

\* The last success asks every element for its _state: with a plain value among them
\* it throws, into then's catch, and the future is never settled.
RunAll(w, f, a) ==
  /\ IF Fate(f).is = "rejected"
       THEN UNCHANGED count /\ Become(FutureCallback(w, a, Reason(Fate(f)), Undefined))
       ELSE /\ count' = [count EXCEPT ![a] = @ - 1]
            /\ Become(IF count'[a] = 0 /\ Plain \notin Elements(a)
                        THEN FutureCallback(w, a, Undefined, Values(a)) ELSE w)
  /\ UNCHANGED <<source, list, loop>>

RunRace(w, f, r) == Become(FutureCallback(w, r, Reason(Fate(f)), Val(Fate(f)))) /\ Quiet

\* A node-style callback is given the fate; what it throws is caught and forgotten.
RunNode(w) == Become(w) /\ Quiet

\* outer(err, res): a falsy error with no value goes on.
RunLoop(w, f, l) ==
  LET err == Reason(Fate(f))
      res == Val(Fate(f))
  IN /\ IF err \in {Undefined, Falsy} /\ res = Undefined
          THEN loop' = [loop EXCEPT ![l] = Outer(@)] /\ Become(w)
          ELSE /\ loop' = [loop EXCEPT ![l].pc = "ended", ![l].end = EndOf(err, res)]
               /\ Become(LoopEnds(w, l, err, res))
     /\ UNCHANGED <<source, list, count>>

RunTick ==
  /\ Idle /\ ticks # <<>>
  /\ LET f == Head(ticks).of
         cb == Head(ticks).cb
         w == [World EXCEPT !.ticks = Tail(@)]
     IN /\ ran' = [ran EXCEPT ![f] = Append(@, [cb |-> cb, fate |-> Fate(f)])]
        /\ CASE cb.kind = "then" -> RunThen(w, f, cb.to)
             [] cb.kind = "adopt" -> RunAdopt(w, f, cb.to)
             [] cb.kind = "all" -> RunAll(w, f, cb.to)
             [] cb.kind = "race" -> RunRace(w, f, cb.to)
             [] cb.kind = "node" -> RunNode(w)
             [] cb.kind = "loop" -> RunLoop(w, f, cb.to)

-----------------------------------------------------------------------------

Init ==
  /\ uses \in Settings
  /\ state = [f \in Futures |-> IF f \in Natives THEN Pending ELSE Unmade]
  /\ callbacks = [f \in Futures |-> <<>>]
  /\ ticks = <<>>
  /\ source = [c \in Children |-> [of |-> Undefined, has |-> {}, got |-> Pending]]
  /\ list = [x \in Alls \cup Races |-> [of |-> <<>>, at |-> 0]]
  /\ count = [a \in Alls |-> 0]
  /\ loop = [l \in Loops |-> NoLoop]
  /\ asked = [f \in Futures |-> <<>>]
  /\ ran = [f \in Futures |-> <<>>]
  /\ settled = <<>>

UserCode ==
  \/ \E f \in Futures, c \in Children : Then(f, c)
  \/ \E f \in Futures, n \in Nodes : NodeStyle(f, n)
  \/ \E fs \in Lists : (\E a \in Alls : All(a, fs)) \/ (\E r \in Races : Race(r, fs))
  \/ \E l \in Loops : StartLoop(l)

RunBody ==
  \E l \in Loops : BodyWaits(l) \/ BodyGoesOn(l) \/ BodyEnds(l) \/ BodyThrows(l)

Next ==
  /\ (\E f \in Natives : NativeCallback(f) \/ Reject(f)) \/ UserCode \/ RunTick \/ RunBody
  /\ UNCHANGED uses

\* The event loop runs every tick, and user code that is running goes on; nothing
\* forces native code to call back.
Spec == Init /\ [][Next]_vars
FairSpec == Spec /\ WF_vars(RunTick /\ UNCHANGED uses) /\ WF_vars(RunBody /\ UNCHANGED uses)

-----------------------------------------------------------------------------
(* Properties.                                                             *)

\* Every variable stays in its set, and only a pending future keeps callbacks.
TypeOK ==
  /\ \A f \in Futures :
       /\ state[f].is \in {"unmade", "thrown", "pending", "fulfilled", "rejected"}
       /\ callbacks[f] # <<>> => state[f] = Pending
  /\ \A k \in DOMAIN ticks : /\ IsSettled(state[ticks[k].of])
                            /\ (ticks[k].cb.to \in Nodes \/ Made(ticks[k].cb.to))
  /\ \A a \in Alls : count[a] \in 0 .. Len(list[a].of)
  /\ \A l \in Loops : loop[l].pc \in {"none", "run", "wait", "ended", "thrown"}

\* A future is settled once, whoever else would settle it later: native code that
\* calls back twice, a slower element of race or all, the end of a loop.
SettledForever == [][\A f \in Futures : IsSettled(state[f]) => state'[f] = state[f]]_vars

\* The callbacks of a future run once each, in the order in which they were added
\* before or after it was settled, and are all given its one fate.
CallbacksInOrder ==
  \A f \in Futures : \A i \in DOMAIN ran[f] :
    /\ i <= Len(asked[f])
    /\ ran[f][i] = [cb |-> asked[f][i], fate |-> state[f]]

\* The future that then has returned takes the fate that the handler has given it:
\* its value, what it has thrown, or the fate of the future it has returned and no
\* other; a handler that returns the very future then has returned gives it an error.
ChildTakesFate ==
  \A c \in Children :
    LET got == source[c].got
    IN CASE got = Pending -> ~IsSettled(state[c])
         [] got.is = "rejected" -> state[c] = got
         [] got.is = "fulfilled" /\ got.value \notin Futures -> state[c] = got
         [] got.is = "fulfilled" /\ got.value = c -> state[c] = Rejected(SelfError)
         [] OTHER -> state[c] = Pending \/ state[c] = state[got.value]

\* The element of a list that comes first of those in "these": the one settled first,
\* and of those that were settled already the first in the list.
First(x, these) ==
  LET rank(f) == LET k == SelectInSeq(settled, LAMBDA g : g = f)
                 IN IF k < list[x].at THEN list[x].at ELSE k
      best == {f \in these : \A g \in these : rank(f) <= rank(g)}
  IN list[x].of[SelectInSeq(list[x].of, LAMBDA f : f \in best)]

AsCalledBack(fate) == EndOf(Reason(fate), Val(fate))

\* all is fulfilled with the values of all its elements, when each is fulfilled, or
\* takes the fate of the first that is rejected; with a plain value in its list and none
\* rejected it is never settled.  race takes the fate of the first to be settled, or the
\* first plain value.  A falsy reason arrives as success with nothing: all or race is
\* fulfilled with undefined.
CombinedFate ==
  /\ \A a \in Alls : IsSettled(state[a]) =>
       LET rejected == {f \in Elements(a) \ {Plain} : state[f].is = "rejected"}
       IN IF rejected # {} THEN state[a] = AsCalledBack(state[First(a, rejected)])
          ELSE /\ \A f \in Elements(a) : f # Plain /\ state[f].is = "fulfilled"
               /\ state[a] = Fulfilled(Values(a))
  /\ \A r \in Races : IsSettled(state[r]) =>
       state[r] = IF Plain \in Elements(r) THEN Fulfilled(Plain)
                  ELSE AsCalledBack(state[First(r, {f \in Elements(r) : IsSettled(state[f])})])

\* One body of a loop is under way at a time, however the bodies call back, and on
\* a stack that does not grow with the rounds; the loop's future is settled when a
\* body has ended the loop, with what ended it.
LoopIsExact ==
  \A l \in Loops :
    LET cb == Callback("loop", l)
        waits == {f \in Futures : cb \in ToSet(callbacks[f])}
        due == {k \in DOMAIN ticks : ticks[k].cb = cb}
    IN /\ Cardinality(waits) + Cardinality(due) = IF loop[l].pc = "wait" THEN 1 ELSE 0
       /\ loop[l].frames <= 1
       /\ IsSettled(state[l]) <=> loop[l].pc = "ended"
       /\ loop[l].pc = "ended" =>
            /\ state[l] = loop[l].end
            /\ loop[l].body # Undefined => loop[l].end = AsCalledBack(state[loop[l].body])

\* No fate is lost on its way: a handler runs once its future is settled, a future
\* that waits for another is settled after it, and all once its elements are.
FatesArrive ==
  /\ \A c \in Children :
       /\ Made(c) /\ IsSettled(state[source[c].of]) ~> source[c].got # Pending
       /\ (source[c].got.is = "fulfilled" /\ source[c].got.value \in {f \in Futures : IsSettled(state[f])})
            ~> IsSettled(state[c])
  /\ \A a \in Alls : (Made(a) /\ \A f \in Elements(a) : f # Plain /\ IsSettled(state[f]))
                        ~> IsSettled(state[a])
=============================================================================
