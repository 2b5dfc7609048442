---------------------------- MODULE NativeCallback ----------------------------
(***************************************************************************)
(* NodeCallback of src/NodeCallback.h and Watch of src/Transaction.cpp:    *)
(* the objects that carry the answer of a native future to JavaScript.     *)
(*                                                                         *)
(* Three parties touch one of them.  The network thread of the client      *)
(* library reports that the future is ready, which sends to its uv handle. *)
(* The event loop calls it back and later closes the handle.  The garbage  *)
(* collector destroys the Watch object that refers to it as well.          *)
(* A reference count says who is last.                                     *)
(*                                                                         *)
(* External: the client library's futures, libuv's loop and handles,       *)
(* node's queue of ticks, and the collector, which takes only what cannot  *)
(* be reached.                                                             *)
(***************************************************************************)
EXTENDS Integers, FiniteSets

CONSTANTS
  Requests,    \* get, commit and the like, made with a callback
  Watches,     \* Transaction.watch, which gives a future with a Watch object
  Settings,    \* what is made of them: see SettingsAssumption
  Script,      \* other code of the program than the callback of a request
  NoOne

ASSUME CallbacksAssumption ==
  /\ Requests \cap Watches = {}
  /\ Script \notin Requests \cup Watches /\ NoOne \notin Requests \cup Watches
  /\ Script # NoOne

Callbacks == Requests \cup Watches

\* callbacks: those that the program makes; timers: bound, events of node's own.
ASSUME SettingsAssumption == Settings \subseteq [callbacks : SUBSET Callbacks, timers : Nat]

VARIABLES
  unmade,     \* the NodeCallbacks that the program may still make
  fut,        \* NodeCallback.future
  handle,     \* NodeCallback.handle
  refd,       \* those whose handle keeps the loop running
  refCount,
  deleted,    \* the NodeCallbacks that have been destroyed
  watch,      \* the Watch object
  tx,         \* the watch's transaction
  held,       \* watches whose future the program can reach
  waits,      \* those with functions to be called
  ticks,      \* those whose functions are in node's queue of ticks
  calling,    \* what the loop is in: a NodeCallback, the program, or nothing
  timers,     \* events of node's own to come
  ended,      \* the loop has run out
  told,       \* history: what the functions were given
  asked       \* history: watches that the program has cancelled

native == <<refCount, deleted, watch>>
program == <<held, waits, ticks, timers, ended, told, asked>>
vars == <<unmade, fut, handle, refd, native, tx, calling, program>>

Outcomes == {"value", "error", "cancelled"}
Made == {c \in Callbacks : fut[c] # "none"}
JsRuns == calling = Script \/ calling \in Requests

-----------------------------------------------------------------------------
(* The objects.                                                            *)

ConstructUnref(c, count) ==  \* mutant: the handle does not keep the loop running
  /\ unmade' = unmade \ {c}
  /\ fut' = [fut EXCEPT ![c] = "pending"]
  /\ handle' = [handle EXCEPT ![c] = "open"]
  /\ refCount' = [refCount EXCEPT ![c] = count]
  /\ UNCHANGED refd

\* NodeCallback::NodeCallback and start; uv_async_init makes a handle that keeps
\* the loop running.
Construct(c, count) ==
  /\ unmade' = unmade \ {c}
  /\ fut' = [fut EXCEPT ![c] = "pending"]
  /\ handle' = [handle EXCEPT ![c] = "open"]
  /\ refd' = refd \cup {c}
  /\ refCount' = [refCount EXCEPT ![c] = count]

AddTwo == 2  \* mutant: Transaction::Watch adds one too
\* What Watch::NewInstance adds to the count of the constructor.
AddRef == 1

\* delRef
DelRef(c) ==
  /\ refCount' = [refCount EXCEPT ![c] = @ - 1]
  /\ deleted' = IF refCount[c] = 1 THEN deleted \cup {c} ELSE deleted

\* fdb_future_cancel: nothing, if there is an outcome.
Cancelled(w) == fut' = IF fut[w] = "pending" THEN [fut EXCEPT ![w] = "cancelled"] ELSE fut

ReachableByProgram == held  \* mutant: then keeps only the state of its future
\* The watches that a collection leaves alone: those whose future the program can
\* reach, or a function that waits can, by way of "self" in then.
Reachable == held \cup waits

-----------------------------------------------------------------------------
(* The program, in its script or in the callback of a request.             *)

MakeRequest(c) ==
  /\ JsRuns /\ c \in Requests \cap unmade
  /\ Construct(c, 1)
  /\ waits' = waits \cup {c}
  /\ UNCHANGED <<deleted, watch, tx, calling, held, ticks, timers, ended, told, asked>>

MakeWatch(w) ==
  /\ JsRuns /\ w \in Watches \cap unmade
  /\ Construct(w, 1 + AddRef)
  /\ watch' = [watch EXCEPT ![w] = "live"]
  /\ tx' = [tx EXCEPT ![w] = "open"]
  /\ held' = held \cup {w}
  /\ UNCHANGED <<deleted, calling, waits, ticks, timers, ended, told, asked>>

\* then: on a future with an outcome, its function goes into the queue at once.
\* Bound: nobody waits again for a watch that has called its functions.
Wait(w) ==
  /\ JsRuns /\ w \in held \ waits /\ told[w] = "nothing"
  /\ waits' = waits \cup {w}
  /\ ticks' = IF handle[w] \in {"closing", "closed"} THEN ticks \cup {w} ELSE ticks
  /\ UNCHANGED <<unmade, fut, handle, refd, native, tx, calling, held, timers, ended, told, asked>>

\* The program lets go of the future: so does doTransaction, of one that an
\* attempt has made that it then tries again.
Drop(w) ==
  /\ JsRuns /\ w \in held
  /\ held' = held \ {w}
  /\ UNCHANGED <<unmade, fut, handle, refd, native, tx, calling, waits, ticks, timers, ended, told, asked>>

\* Watch::Cancel
Cancel(w) ==
  /\ JsRuns /\ w \in held
  /\ Cancelled(w)
  /\ asked' = asked \cup {w}
  /\ UNCHANGED <<unmade, handle, refd, native, tx, calling, held, waits, ticks, timers, ended, told>>

ReturnFreed ==  \* mutant: it drops its reference too, not waiting for closeCallback
  /\ calling # NoOne
  /\ calling' = NoOne
  /\ IF calling = Script THEN UNCHANGED <<handle, refCount, deleted>>
     ELSE DelRef(calling) /\ handle' = [handle EXCEPT ![calling] = "closing"]
  /\ UNCHANGED <<unmade, fut, refd, watch, tx, program>>

\* The program or the callback comes back: nodeThreadCallback closes its handle.
Return ==
  /\ calling # NoOne
  /\ calling' = NoOne
  /\ handle' = IF calling = Script THEN handle ELSE [handle EXCEPT ![calling] = "closing"]
  /\ UNCHANGED <<unmade, fut, refd, native, tx, program>>

-----------------------------------------------------------------------------
(* The database and the network thread.                                    *)

\* The request is answered; the watch fires, or fails, once its transaction has committed.
Answer(c) ==
  /\ fut[c] = "pending" /\ (c \in Watches => tx[c] = "committed")
  /\ \E outcome \in {"value", "error"} : fut' = [fut EXCEPT ![c] = outcome]
  /\ UNCHANGED <<unmade, handle, refd, native, tx, calling, program>>

CommitTx(w) ==
  /\ tx[w] = "open"
  /\ tx' = [tx EXCEPT ![w] = "committed"]
  /\ UNCHANGED <<unmade, fut, handle, refd, native, calling, program>>

\* The transaction is reset, by onError or otherwise, or destroyed: its watches fail.
ResetTx(w) ==
  /\ tx[w] = "open"
  /\ tx' = [tx EXCEPT ![w] = "reset"]
  /\ fut' = IF fut[w] = "pending" THEN [fut EXCEPT ![w] = "error"] ELSE fut
  /\ UNCHANGED <<unmade, handle, refd, native, calling, program>>

FutureReadyUnlessCancelled(c) ==  \* mutant
  /\ fut[c] \in {"value", "error"} /\ handle[c] = "open"
  /\ handle' = [handle EXCEPT ![c] = "sent"]
  /\ UNCHANGED <<unmade, fut, refd, native, tx, calling, program>>

\* futureReadyCallback
FutureReadyCallback(c) ==
  /\ fut[c] \in Outcomes /\ handle[c] = "open"
  /\ handle' = [handle EXCEPT ![c] = "sent"]
  /\ UNCHANGED <<unmade, fut, refd, native, tx, calling, program>>

-----------------------------------------------------------------------------
(* The event loop and the collector.                                       *)

\* nodeThreadCallback, up to the call: a request's function runs in it, a watch's
\* are put into the queue of ticks.
NodeThreadCallback(c) ==
  /\ calling = NoOne /\ ~ended /\ handle[c] = "sent"
  /\ refd' = refd \ {c}
  /\ calling' = c
  /\ IF c \in Requests
     THEN /\ told' = [told EXCEPT ![c] = fut[c]]
          /\ waits' = waits \ {c}
          /\ UNCHANGED ticks
     ELSE /\ ticks' = ticks \cup (waits \cap {c})
          /\ UNCHANGED <<told, waits>>
  /\ handle' = [handle EXCEPT ![c] = "calling"]
  /\ UNCHANGED <<unmade, fut, native, tx, held, timers, ended, asked>>

CloseCallback(c) ==
  /\ calling = NoOne /\ ~ended /\ handle[c] = "closing"
  /\ handle' = [handle EXCEPT ![c] = "closed"]
  /\ DelRef(c)
  /\ UNCHANGED <<unmade, fut, refd, watch, tx, calling, program>>

\* Node runs its queue of ticks after an event of its own, and when the loop has
\* nothing left; nodeThreadCallback does not make it.
RunTicks ==
  /\ calling = NoOne /\ ~ended /\ ticks # {}
  /\ calling' = Script
  /\ told' = [c \in Callbacks |-> IF c \in ticks THEN fut[c] ELSE told[c]]
  /\ waits' = waits \ ticks
  /\ ticks' = {}
  /\ UNCHANGED <<unmade, fut, handle, refd, native, tx, held, timers, ended, asked>>

Timer ==
  /\ calling = NoOne /\ ~ended /\ timers > 0
  /\ timers' = timers - 1
  /\ calling' = Script
  /\ UNCHANGED <<unmade, fut, handle, refd, native, tx, held, waits, ticks, ended, told, asked>>

LoopIsEmpty == calling = NoOne /\ refd = {} /\ timers = 0 /\ \A c \in Callbacks : handle[c] # "closing"

EndOfLoop ==
  /\ LoopIsEmpty /\ ticks = {} /\ ~ended
  /\ ended' = TRUE
  /\ UNCHANGED <<unmade, fut, handle, refd, native, tx, calling, held, waits, ticks, timers, told, asked>>

CollectQuietly(w) ==  \* mutant: the destructor does not cancel
  /\ ~ended
  /\ watch[w] = "live" /\ w \notin Reachable
  /\ watch' = [watch EXCEPT ![w] = "collected"]
  /\ DelRef(w)
  /\ UNCHANGED <<unmade, fut, handle, refd, tx, calling, program>>

\* Watch::~Watch, at any time, also while a callback runs
Collect(w) ==
  /\ ~ended
  /\ watch[w] = "live" /\ w \notin Reachable
  /\ watch' = [watch EXCEPT ![w] = "collected"]
  /\ Cancelled(w)
  /\ DelRef(w)
  /\ UNCHANGED <<unmade, handle, refd, tx, calling, program>>

-----------------------------------------------------------------------------

Init ==
  /\ \E s \in Settings : unmade = s.callbacks /\ timers = s.timers
  /\ fut = [c \in Callbacks |-> "none"]
  /\ handle = [c \in Callbacks |-> "none"]
  /\ refd = {} /\ deleted = {}
  /\ refCount = [c \in Callbacks |-> 0]
  /\ watch = [w \in Watches |-> "none"]
  /\ tx = [w \in Watches |-> "none"]
  /\ held = {} /\ waits = {} /\ ticks = {}
  /\ calling = Script
  /\ ended = FALSE
  /\ told = [c \in Callbacks |-> "nothing"]
  /\ asked = {}

Next ==
  \/ \E c \in Callbacks :
       MakeRequest(c) \/ Answer(c) \/ FutureReadyCallback(c) \/ NodeThreadCallback(c) \/ CloseCallback(c)
  \/ \E w \in Watches :
       MakeWatch(w) \/ Wait(w) \/ Drop(w) \/ Cancel(w) \/ CommitTx(w) \/ ResetTx(w) \/ Collect(w)
  \/ Return \/ RunTicks \/ Timer \/ EndOfLoop

Spec == Init /\ [][Next]_vars

\* The network thread reports, the loop serves every handle that has been sent to
\* or closed and every timer, code comes back, and the collector runs.  Requests
\* are answered, but nothing makes a watch fire.  The queue of ticks is only
\* sure to run when the loop has nothing left.
FairSpec ==
  /\ Spec
  /\ \A c \in Callbacks :
       WF_vars(FutureReadyCallback(c)) /\ WF_vars(NodeThreadCallback(c)) /\ WF_vars(CloseCallback(c))
  /\ \A c \in Requests : WF_vars(Answer(c))
  /\ \A w \in Watches : WF_vars(Collect(w))
  /\ WF_vars(Return) /\ WF_vars(Timer) /\ WF_vars(EndOfLoop)
  /\ WF_vars(LoopIsEmpty /\ RunTicks)

-----------------------------------------------------------------------------
(* Properties.                                                             *)

\* Every variable stays in its set.
TypeOK ==
  /\ fut \in [Callbacks -> {"none", "pending"} \cup Outcomes]
  /\ handle \in [Callbacks -> {"none", "open", "sent", "calling", "closing", "closed"}]
  /\ refd \in SUBSET Callbacks /\ deleted \in SUBSET Callbacks
  /\ refCount \in [Callbacks -> 0 .. 2]
  /\ watch \in [Watches -> {"none", "live", "collected"}]
  /\ tx \in [Watches -> {"none", "open", "committed", "reset"}]
  /\ held \in SUBSET Watches /\ waits \in SUBSET Callbacks /\ ticks \in SUBSET Watches
  /\ calling \in Callbacks \cup {Script, NoOne}
  /\ unmade \in SUBSET (Callbacks \ Made)
  /\ \E s \in Settings : timers \in 0 .. s.timers
  /\ ended \in BOOLEAN
  /\ told \in [Callbacks -> {"nothing"} \cup Outcomes]
  /\ asked \in SUBSET Watches

\* No NodeCallback is destroyed while a party may still use it: the future that
\* will report to it, the loop that holds its handle, the callback that runs, the
\* Watch object.
NoUseAfterFree ==
  \A c \in deleted :
    /\ handle[c] = "closed" /\ calling # c
    /\ c \in Watches => watch[c] # "live"

\* A collection never cancels a watch that someone waits for: a function is told
\* that its watch was cancelled only if the program has cancelled it.
OnlyAskedCancels == \A w \in Watches : told[w] = "cancelled" => w \in asked

\* The loop does not run out while someone waits: the handle of what is pending
\* holds it, and the functions of what is not have been called.
NobodyLeftWaiting == ended => waits = {}

\* A NodeCallback is destroyed once nobody can be waiting for it: a request when
\* it has called back, and a watch that the program has let go of, whether or not
\* it ever fires.
GarbageIsFreed ==
  \A c \in Callbacks : c \in Made \ Reachable ~> c \in deleted \/ ended

\* What has an outcome reaches the functions that wait for it, or node's queue.
WaitersServed ==
  \A c \in Callbacks : c \in waits /\ fut[c] \in Outcomes ~> c \notin waits \/ c \in ticks
=============================================================================
