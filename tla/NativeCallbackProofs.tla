------------------------- MODULE NativeCallbackProofs -------------------------
(* The reference count of a NativeCallback, for any number of them: the count  *)
(* is exact, and so none is destroyed while a party may still use it.          *)
EXTENDS NativeCallback, TLAPS

\* The references that are held: the loop's until the handle is closed, and that
\* of the Watch object until it is collected.
OfLoop(c) == IF handle[c] \in {"none", "closed"} THEN 0 ELSE 1
OfWatch(c) == IF c \in Watches /\ watch[c] = "live" THEN 1 ELSE 0

RefCountExact == \A c \in Callbacks : refCount[c] = OfLoop(c) + OfWatch(c)

\* What is yet to be made has no handle, no Watch object and is not destroyed.
UnmadeIsClean ==
  \A c \in Callbacks : handle[c] = "none" => c \notin deleted /\ (c \in Watches => watch[c] # "live")
UnmadeHasNoHandle == \A c \in unmade : fut[c] = "none" /\ handle[c] = "none"

\* The callback that runs is that of a handle which is neither open nor closed.
CallsFromOpenHandle == calling \in Callbacks => handle[calling] = "calling"

\* What has been reported has an outcome, and functions are queued for nothing else.
ReportedHasOutcome == \A c \in Callbacks : handle[c] \notin {"none", "open"} => fut[c] \in Outcomes
QueuedIsReported == \A c \in ticks : handle[c] \notin {"none", "open"}

\* A future that was cancelled unasked belongs to a watch that nobody reaches.
UnaskedIsUnreachable == \A w \in Watches : fut[w] = "cancelled" => w \in asked \/ w \notin Reachable
QueuedWaits == ticks \subseteq waits

\* What is waited for has a handle that is still to call back, and so keeps the loop
\* running, or is in the queue; and where the loop has run out nothing runs.
HandleHasFuture == \A c \in Callbacks : handle[c] # "none" => fut[c] # "none"
HeldIsMade == \A w \in held : handle[w] # "none"
OneCalls == \A c \in Callbacks : handle[c] = "calling" => calling = c
WaitersAreServed == \A c \in waits : handle[c] \in {"open", "sent"} \/ c \in ticks
OpenHoldsLoop == \A c \in Callbacks : handle[c] \in {"open", "sent"} => c \in refd
EndIsQuiet == ended => calling = NoOne

WaitInvariant ==
  HandleHasFuture /\ HeldIsMade /\ OneCalls /\ WaitersAreServed /\ OpenHoldsLoop /\ EndIsQuiet
  /\ NobodyLeftWaiting

IInv ==
  /\ TypeOK
  /\ RefCountExact
  /\ UnmadeIsClean
  /\ UnmadeHasNoHandle
  /\ CallsFromOpenHandle
  /\ ReportedHasOutcome /\ QueuedIsReported
  /\ UnaskedIsUnreachable /\ QueuedWaits /\ OnlyAskedCancels
  /\ WaitInvariant
  /\ NoUseAfterFree

-----------------------------------------------------------------------------
(* Init and each action.                                                   *)

\* Nothing is made at first, and no reference is counted.
LEMMA InitInv == Init => IInv
  <1> SUFFICES ASSUME Init PROVE IInv
    OBVIOUS
  <1>1. TypeOK
    <2>1. PICK s \in Settings : unmade = s.callbacks /\ timers = s.timers
      BY DEF Init
    <2>2. s.callbacks \in SUBSET Callbacks /\ s.timers \in Nat
      BY SettingsAssumption
    <2>3. Made = {}
      BY DEF Init, Made
    <2>4. \E r \in Settings : timers \in 0 .. r.timers
      BY <2>1, <2>2
    <2>5. unmade \in SUBSET (Callbacks \ Made)
      BY <2>1, <2>2, <2>3
    <2>6. /\ fut \in [Callbacks -> {"none", "pending"} \cup Outcomes]
          /\ handle \in [Callbacks -> {"none", "open", "sent", "calling", "closing", "closed"}]
          /\ refCount \in [Callbacks -> 0 .. 2]
          /\ watch \in [Watches -> {"none", "live", "collected"}]
          /\ tx \in [Watches -> {"none", "open", "committed", "reset"}]
          /\ told \in [Callbacks -> {"nothing"} \cup Outcomes]
      BY DEF Init
    <2> QED
      BY <2>4, <2>5, <2>6 DEF Init, TypeOK
  <1>2. RefCountExact /\ UnmadeIsClean
    BY DEF Init, RefCountExact, UnmadeIsClean, OfLoop, OfWatch
  <1>3. UnmadeHasNoHandle /\ NoUseAfterFree
    BY SettingsAssumption DEF Init, UnmadeHasNoHandle, NoUseAfterFree, Callbacks
  <1>4. CallsFromOpenHandle /\ ReportedHasOutcome /\ QueuedIsReported
    BY CallbacksAssumption DEF Init, CallsFromOpenHandle, Callbacks, ReportedHasOutcome, QueuedIsReported
  <1>5. UnaskedIsUnreachable /\ QueuedWaits /\ OnlyAskedCancels
    BY DEF Init, UnaskedIsUnreachable, QueuedWaits, OnlyAskedCancels, Callbacks
  <1>6. WaitInvariant
    BY CallbacksAssumption
       DEF Init, WaitInvariant, HandleHasFuture, HeldIsMade, OneCalls, WaitersAreServed, OpenHoldsLoop,
           EndIsQuiet, NobodyLeftWaiting
  <1> QED
    BY <1>1, <1>2, <1>3, <1>4, <1>5, <1>6 DEF IInv

\* A request is made with the reference of the loop.
LEMMA MakeRequestInv ==
  ASSUME IInv, NEW c \in Callbacks, MakeRequest(c)
  PROVE  IInv'
  <1> USE CallbacksAssumption DEF IInv, Callbacks, MakeRequest, Construct, JsRuns, program, native, AddRef
  <1>1. TypeOK'
    BY DEF TypeOK, Made, Outcomes
  <1>2. RefCountExact'
    BY DEF TypeOK, RefCountExact, OfLoop, OfWatch, UnmadeIsClean, UnmadeHasNoHandle
  <1>3. UnmadeIsClean'
    BY DEF TypeOK, UnmadeIsClean, UnmadeHasNoHandle
  <1>4. UnmadeHasNoHandle'
    BY DEF TypeOK, UnmadeHasNoHandle
  <1>5. CallsFromOpenHandle'
    BY DEF TypeOK, CallsFromOpenHandle, UnmadeHasNoHandle
  <1>6. NoUseAfterFree'
    BY DEF TypeOK, NoUseAfterFree, UnmadeHasNoHandle, UnmadeIsClean
  <1>7. ReportedHasOutcome' /\ QueuedIsReported'
    BY DEF TypeOK, ReportedHasOutcome, QueuedIsReported, UnmadeHasNoHandle, Outcomes
  <1>8. UnaskedIsUnreachable' /\ QueuedWaits' /\ OnlyAskedCancels'
    BY DEF TypeOK, UnaskedIsUnreachable, QueuedWaits, OnlyAskedCancels, UnmadeHasNoHandle, Outcomes, Reachable
  <1>9. WaitInvariant'
    BY DEF TypeOK, WaitInvariant, HandleHasFuture, HeldIsMade, OneCalls, WaitersAreServed,
           OpenHoldsLoop, EndIsQuiet, NobodyLeftWaiting, UnmadeHasNoHandle, Outcomes
  <1> QED
    BY <1>1, <1>2, <1>3, <1>4, <1>5, <1>6, <1>7, <1>8, <1>9

\* A watch is made with the reference of its Watch object as well.
LEMMA MakeWatchInv ==
  ASSUME IInv, NEW w \in Watches, MakeWatch(w)
  PROVE  IInv'
  <1> USE CallbacksAssumption DEF IInv, Callbacks, MakeWatch, Construct, JsRuns, program, native, AddRef
  <1>1. TypeOK'
    BY DEF TypeOK, Made, Outcomes
  <1>2. RefCountExact'
    BY DEF TypeOK, RefCountExact, OfLoop, OfWatch, UnmadeIsClean, UnmadeHasNoHandle
  <1>3. UnmadeIsClean'
    BY DEF TypeOK, UnmadeIsClean, UnmadeHasNoHandle
  <1>4. UnmadeHasNoHandle'
    BY DEF TypeOK, UnmadeHasNoHandle
  <1>5. CallsFromOpenHandle'
    BY DEF TypeOK, CallsFromOpenHandle, UnmadeHasNoHandle
  <1>6. NoUseAfterFree'
    BY DEF TypeOK, NoUseAfterFree, UnmadeHasNoHandle, UnmadeIsClean
  <1>7. ReportedHasOutcome' /\ QueuedIsReported'
    BY DEF TypeOK, ReportedHasOutcome, QueuedIsReported, UnmadeHasNoHandle, Outcomes
  <1>8. UnaskedIsUnreachable' /\ QueuedWaits' /\ OnlyAskedCancels'
    BY DEF TypeOK, UnaskedIsUnreachable, QueuedWaits, OnlyAskedCancels, UnmadeHasNoHandle, Outcomes, Reachable
  <1>9. WaitInvariant'
    BY DEF TypeOK, WaitInvariant, HandleHasFuture, HeldIsMade, OneCalls, WaitersAreServed,
           OpenHoldsLoop, EndIsQuiet, NobodyLeftWaiting, UnmadeHasNoHandle, Outcomes
  <1> QED
    BY <1>1, <1>2, <1>3, <1>4, <1>5, <1>6, <1>7, <1>8, <1>9

\* A function that waits takes no reference.
LEMMA WaitInv ==
  ASSUME IInv, NEW w \in Watches, Wait(w)
  PROVE  IInv'
  <1> USE CallbacksAssumption DEF IInv, Callbacks, Wait, program, native, Cancelled, Outcomes
  <1>1. TypeOK'
    BY DEF TypeOK, Made, Outcomes
  <1>2. RefCountExact'
    BY DEF TypeOK, RefCountExact, OfLoop, OfWatch
  <1>3. UnmadeIsClean'
    BY DEF TypeOK, UnmadeIsClean
  <1>4. UnmadeHasNoHandle'
    BY DEF TypeOK, UnmadeHasNoHandle
  <1>5. CallsFromOpenHandle'
    BY DEF TypeOK, CallsFromOpenHandle
  <1>6. NoUseAfterFree'
    BY DEF TypeOK, NoUseAfterFree
  <1>7. ReportedHasOutcome' /\ QueuedIsReported'
    BY DEF TypeOK, ReportedHasOutcome, QueuedIsReported
  <1>8. UnaskedIsUnreachable' /\ QueuedWaits' /\ OnlyAskedCancels'
    BY DEF TypeOK, UnaskedIsUnreachable, QueuedWaits, OnlyAskedCancels, Reachable
  <1>9. WaitInvariant'
    BY DEF TypeOK, WaitInvariant, HandleHasFuture, HeldIsMade, OneCalls, WaitersAreServed,
           OpenHoldsLoop, EndIsQuiet, NobodyLeftWaiting, ReportedHasOutcome, JsRuns
  <1> QED
    BY <1>1, <1>2, <1>3, <1>4, <1>5, <1>6, <1>7, <1>8, <1>9

\* Nor is one given back with the future.
LEMMA DropInv ==
  ASSUME IInv, NEW w \in Watches, Drop(w)
  PROVE  IInv'
  <1> USE CallbacksAssumption DEF IInv, Callbacks, Drop, program, native, Cancelled, Outcomes
  <1>1. TypeOK'
    BY DEF TypeOK, Made, Outcomes
  <1>2. RefCountExact'
    BY DEF TypeOK, RefCountExact, OfLoop, OfWatch
  <1>3. UnmadeIsClean'
    BY DEF TypeOK, UnmadeIsClean
  <1>4. UnmadeHasNoHandle'
    BY DEF TypeOK, UnmadeHasNoHandle
  <1>5. CallsFromOpenHandle'
    BY DEF TypeOK, CallsFromOpenHandle
  <1>6. NoUseAfterFree'
    BY DEF TypeOK, NoUseAfterFree
  <1>7. ReportedHasOutcome' /\ QueuedIsReported'
    BY DEF TypeOK, ReportedHasOutcome, QueuedIsReported
  <1>8. UnaskedIsUnreachable' /\ QueuedWaits' /\ OnlyAskedCancels'
    BY DEF TypeOK, UnaskedIsUnreachable, QueuedWaits, OnlyAskedCancels, Reachable
  <1>9. WaitInvariant'
    BY DEF TypeOK, WaitInvariant, HandleHasFuture, HeldIsMade, OneCalls, WaitersAreServed,
           OpenHoldsLoop, EndIsQuiet, NobodyLeftWaiting, JsRuns
  <1> QED
    BY <1>1, <1>2, <1>3, <1>4, <1>5, <1>6, <1>7, <1>8, <1>9

\* Cancelling takes none.
LEMMA CancelInv ==
  ASSUME IInv, NEW w \in Watches, Cancel(w)
  PROVE  IInv'
  <1> USE CallbacksAssumption DEF IInv, Callbacks, Cancel, program, native, Cancelled, Outcomes
  <1>1. TypeOK'
    BY DEF TypeOK, Made, Outcomes
  <1>2. RefCountExact'
    BY DEF TypeOK, RefCountExact, OfLoop, OfWatch
  <1>3. UnmadeIsClean'
    BY DEF TypeOK, UnmadeIsClean
  <1>4. UnmadeHasNoHandle'
    BY DEF TypeOK, UnmadeHasNoHandle, UnmadeIsClean
  <1>5. CallsFromOpenHandle'
    BY DEF TypeOK, CallsFromOpenHandle
  <1>6. NoUseAfterFree'
    BY DEF TypeOK, NoUseAfterFree
  <1>7. ReportedHasOutcome' /\ QueuedIsReported'
    BY DEF TypeOK, ReportedHasOutcome, QueuedIsReported
  <1>8. UnaskedIsUnreachable' /\ QueuedWaits' /\ OnlyAskedCancels'
    BY DEF TypeOK, UnaskedIsUnreachable, QueuedWaits, OnlyAskedCancels, Reachable
  <1>9. WaitInvariant'
    BY DEF TypeOK, WaitInvariant, HandleHasFuture, HeldIsMade, OneCalls, WaitersAreServed,
           OpenHoldsLoop, EndIsQuiet, NobodyLeftWaiting, ReportedHasOutcome, JsRuns
  <1> QED
    BY <1>1, <1>2, <1>3, <1>4, <1>5, <1>6, <1>7, <1>8, <1>9

\* The handle that is closing keeps its reference.
LEMMA ReturnInv ==
  ASSUME IInv, Return
  PROVE  IInv'
  <1> USE CallbacksAssumption DEF IInv, Callbacks, Return, program, native, Cancelled, Outcomes
  <1>1. TypeOK'
    BY DEF TypeOK, Made, Outcomes
  <1>2. RefCountExact'
    BY DEF TypeOK, RefCountExact, OfLoop, OfWatch, CallsFromOpenHandle
  <1>3. UnmadeIsClean'
    BY DEF TypeOK, UnmadeIsClean, CallsFromOpenHandle
  <1>4. UnmadeHasNoHandle'
    BY DEF TypeOK, UnmadeHasNoHandle, CallsFromOpenHandle
  <1>5. CallsFromOpenHandle'
    BY DEF TypeOK, CallsFromOpenHandle
  <1>6. NoUseAfterFree'
    BY DEF TypeOK, NoUseAfterFree, CallsFromOpenHandle
  <1>7. ReportedHasOutcome' /\ QueuedIsReported'
    BY DEF TypeOK, ReportedHasOutcome, QueuedIsReported, CallsFromOpenHandle
  <1>8. UnaskedIsUnreachable' /\ QueuedWaits' /\ OnlyAskedCancels'
    BY DEF TypeOK, UnaskedIsUnreachable, QueuedWaits, OnlyAskedCancels, Reachable
  <1>9. WaitInvariant'
    BY DEF TypeOK, WaitInvariant, HandleHasFuture, HeldIsMade, OneCalls, WaitersAreServed,
           OpenHoldsLoop, EndIsQuiet, NobodyLeftWaiting, CallsFromOpenHandle, JsRuns
  <1> QED
    BY <1>1, <1>2, <1>3, <1>4, <1>5, <1>6, <1>7, <1>8, <1>9

\* What becomes of the future is no matter of references.
LEMMA AnswerInv ==
  ASSUME IInv, NEW c \in Callbacks, Answer(c)
  PROVE  IInv'
  <1> USE CallbacksAssumption DEF IInv, Callbacks, Answer, program, native, Cancelled, Outcomes
  <1>1. TypeOK'
    BY DEF TypeOK, Made, Outcomes
  <1>2. RefCountExact'
    BY DEF TypeOK, RefCountExact, OfLoop, OfWatch
  <1>3. UnmadeIsClean'
    BY DEF TypeOK, UnmadeIsClean
  <1>4. UnmadeHasNoHandle'
    BY DEF TypeOK, UnmadeHasNoHandle, UnmadeIsClean
  <1>5. CallsFromOpenHandle'
    BY DEF TypeOK, CallsFromOpenHandle
  <1>6. NoUseAfterFree'
    BY DEF TypeOK, NoUseAfterFree
  <1>7. ReportedHasOutcome' /\ QueuedIsReported'
    BY DEF TypeOK, ReportedHasOutcome, QueuedIsReported
  <1>8. UnaskedIsUnreachable' /\ QueuedWaits' /\ OnlyAskedCancels'
    BY DEF TypeOK, UnaskedIsUnreachable, QueuedWaits, OnlyAskedCancels, Reachable
  <1>9. WaitInvariant'
    BY DEF TypeOK, WaitInvariant, HandleHasFuture, HeldIsMade, OneCalls, WaitersAreServed,
           OpenHoldsLoop, EndIsQuiet, NobodyLeftWaiting, ReportedHasOutcome, JsRuns
  <1> QED
    BY <1>1, <1>2, <1>3, <1>4, <1>5, <1>6, <1>7, <1>8, <1>9

\* Nor what becomes of the transaction.
LEMMA CommitTxInv ==
  ASSUME IInv, NEW w \in Watches, CommitTx(w)
  PROVE  IInv'
  <1> USE CallbacksAssumption DEF IInv, Callbacks, CommitTx, program, native, Cancelled, Outcomes
  <1>1. TypeOK'
    BY DEF TypeOK, Made, Outcomes
  <1>2. RefCountExact'
    BY DEF TypeOK, RefCountExact, OfLoop, OfWatch
  <1>3. UnmadeIsClean'
    BY DEF TypeOK, UnmadeIsClean
  <1>4. UnmadeHasNoHandle'
    BY DEF TypeOK, UnmadeHasNoHandle
  <1>5. CallsFromOpenHandle'
    BY DEF TypeOK, CallsFromOpenHandle
  <1>6. NoUseAfterFree'
    BY DEF TypeOK, NoUseAfterFree
  <1>7. ReportedHasOutcome' /\ QueuedIsReported'
    BY DEF TypeOK, ReportedHasOutcome, QueuedIsReported
  <1>8. UnaskedIsUnreachable' /\ QueuedWaits' /\ OnlyAskedCancels'
    BY DEF TypeOK, UnaskedIsUnreachable, QueuedWaits, OnlyAskedCancels, Reachable
  <1>9. WaitInvariant'
    BY DEF TypeOK, WaitInvariant, HandleHasFuture, HeldIsMade, OneCalls, WaitersAreServed,
           OpenHoldsLoop, EndIsQuiet, NobodyLeftWaiting, JsRuns
  <1> QED
    BY <1>1, <1>2, <1>3, <1>4, <1>5, <1>6, <1>7, <1>8, <1>9

\* Nor that it is reset.
LEMMA ResetTxInv ==
  ASSUME IInv, NEW w \in Watches, ResetTx(w)
  PROVE  IInv'
  <1> USE CallbacksAssumption DEF IInv, Callbacks, ResetTx, program, native, Cancelled, Outcomes
  <1>1. TypeOK'
    BY DEF TypeOK, Made, Outcomes
  <1>2. RefCountExact'
    BY DEF TypeOK, RefCountExact, OfLoop, OfWatch
  <1>3. UnmadeIsClean'
    BY DEF TypeOK, UnmadeIsClean
  <1>4. UnmadeHasNoHandle'
    BY DEF TypeOK, UnmadeHasNoHandle, UnmadeIsClean
  <1>5. CallsFromOpenHandle'
    BY DEF TypeOK, CallsFromOpenHandle
  <1>6. NoUseAfterFree'
    BY DEF TypeOK, NoUseAfterFree
  <1>7. ReportedHasOutcome' /\ QueuedIsReported'
    BY DEF TypeOK, ReportedHasOutcome, QueuedIsReported
  <1>8. UnaskedIsUnreachable' /\ QueuedWaits' /\ OnlyAskedCancels'
    BY DEF TypeOK, UnaskedIsUnreachable, QueuedWaits, OnlyAskedCancels, Reachable
  <1>9. WaitInvariant'
    BY DEF TypeOK, WaitInvariant, HandleHasFuture, HeldIsMade, OneCalls, WaitersAreServed,
           OpenHoldsLoop, EndIsQuiet, NobodyLeftWaiting, JsRuns
  <1> QED
    BY <1>1, <1>2, <1>3, <1>4, <1>5, <1>6, <1>7, <1>8, <1>9

\* A handle that was sent to is not closed.
LEMMA FutureReadyCallbackInv ==
  ASSUME IInv, NEW c \in Callbacks, FutureReadyCallback(c)
  PROVE  IInv'
  <1> USE CallbacksAssumption DEF IInv, Callbacks, FutureReadyCallback, program, native, Cancelled, Outcomes
  <1>1. TypeOK'
    BY DEF TypeOK, Made, Outcomes
  <1>2. RefCountExact'
    BY DEF TypeOK, RefCountExact, OfLoop, OfWatch
  <1>3. UnmadeIsClean'
    BY DEF TypeOK, UnmadeIsClean
  <1>4. UnmadeHasNoHandle'
    BY DEF TypeOK, UnmadeHasNoHandle
  <1>5. CallsFromOpenHandle'
    BY DEF TypeOK, CallsFromOpenHandle
  <1>6. NoUseAfterFree'
    BY DEF TypeOK, NoUseAfterFree
  <1>7. ReportedHasOutcome' /\ QueuedIsReported'
    BY DEF TypeOK, ReportedHasOutcome, QueuedIsReported
  <1>8. UnaskedIsUnreachable' /\ QueuedWaits' /\ OnlyAskedCancels'
    BY DEF TypeOK, UnaskedIsUnreachable, QueuedWaits, OnlyAskedCancels, Reachable
  <1>9. WaitInvariant'
    BY DEF TypeOK, WaitInvariant, HandleHasFuture, HeldIsMade, OneCalls, WaitersAreServed,
           OpenHoldsLoop, EndIsQuiet, NobodyLeftWaiting, ReportedHasOutcome, JsRuns
  <1> QED
    BY <1>1, <1>2, <1>3, <1>4, <1>5, <1>6, <1>7, <1>8, <1>9

\* The loop calls back a handle that is not closed.
LEMMA NodeThreadCallbackInv ==
  ASSUME IInv, NEW c \in Callbacks, NodeThreadCallback(c)
  PROVE  IInv'
  <1> USE CallbacksAssumption DEF IInv, Callbacks, NodeThreadCallback, program, native, Cancelled, Outcomes
  <1>1. TypeOK'
    BY DEF TypeOK, Made, Outcomes, ReportedHasOutcome, QueuedIsReported
  <1>2. RefCountExact'
    BY DEF TypeOK, RefCountExact, OfLoop, OfWatch
  <1>3. UnmadeIsClean'
    BY DEF TypeOK, UnmadeIsClean
  <1>4. UnmadeHasNoHandle'
    BY DEF TypeOK, UnmadeHasNoHandle
  <1>5. CallsFromOpenHandle'
    BY DEF TypeOK, CallsFromOpenHandle
  <1>6. NoUseAfterFree'
    BY DEF TypeOK, NoUseAfterFree
  <1>7. ReportedHasOutcome' /\ QueuedIsReported'
    BY DEF TypeOK, ReportedHasOutcome, QueuedIsReported
  <1>8. UnaskedIsUnreachable' /\ QueuedWaits' /\ OnlyAskedCancels'
    BY DEF TypeOK, UnaskedIsUnreachable, QueuedWaits, OnlyAskedCancels, Reachable
  <1>9. WaitInvariant'
    BY DEF TypeOK, WaitInvariant, HandleHasFuture, HeldIsMade, OneCalls, WaitersAreServed,
           OpenHoldsLoop, EndIsQuiet, NobodyLeftWaiting, ReportedHasOutcome, JsRuns
  <1> QED
    BY <1>1, <1>2, <1>3, <1>4, <1>5, <1>6, <1>7, <1>8, <1>9

\* The loop's reference goes with the handle.
LEMMA CloseCallbackInv ==
  ASSUME IInv, NEW c \in Callbacks, CloseCallback(c)
  PROVE  IInv'
  <1> USE CallbacksAssumption DEF IInv, Callbacks, CloseCallback, program, native, Cancelled, Outcomes, DelRef, Reachable
  <1>1. TypeOK'
    BY DEF TypeOK, Made, Outcomes, RefCountExact, OfLoop, OfWatch
  <1>2. RefCountExact'
    BY DEF TypeOK, RefCountExact, OfLoop, OfWatch
  <1>3. UnmadeIsClean'
    BY DEF TypeOK, UnmadeIsClean, RefCountExact, OfLoop, OfWatch
  <1>4. UnmadeHasNoHandle'
    BY DEF TypeOK, UnmadeHasNoHandle
  <1>5. CallsFromOpenHandle'
    BY DEF TypeOK, CallsFromOpenHandle
  <1>6. NoUseAfterFree'
    BY DEF TypeOK, NoUseAfterFree, RefCountExact, OfLoop, OfWatch, UnmadeIsClean
  <1>7. ReportedHasOutcome' /\ QueuedIsReported'
    BY DEF TypeOK, ReportedHasOutcome, QueuedIsReported
  <1>8. UnaskedIsUnreachable' /\ QueuedWaits' /\ OnlyAskedCancels'
    BY DEF TypeOK, UnaskedIsUnreachable, QueuedWaits, OnlyAskedCancels
  <1>9. WaitInvariant'
    BY DEF TypeOK, WaitInvariant, HandleHasFuture, HeldIsMade, OneCalls, WaitersAreServed,
           OpenHoldsLoop, EndIsQuiet, NobodyLeftWaiting, JsRuns
  <1> QED
    BY <1>1, <1>2, <1>3, <1>4, <1>5, <1>6, <1>7, <1>8, <1>9

\* Ticks hold no reference.
LEMMA RunTicksInv ==
  ASSUME IInv, RunTicks
  PROVE  IInv'
  <1> USE CallbacksAssumption DEF IInv, Callbacks, RunTicks, program, native, Cancelled, Outcomes
  <1>1. TypeOK'
    BY DEF TypeOK, Made, Outcomes, ReportedHasOutcome, QueuedIsReported
  <1>2. RefCountExact'
    BY DEF TypeOK, RefCountExact, OfLoop, OfWatch
  <1>3. UnmadeIsClean'
    BY DEF TypeOK, UnmadeIsClean
  <1>4. UnmadeHasNoHandle'
    BY DEF TypeOK, UnmadeHasNoHandle
  <1>5. CallsFromOpenHandle'
    BY DEF TypeOK, CallsFromOpenHandle
  <1>6. NoUseAfterFree'
    BY DEF TypeOK, NoUseAfterFree
  <1>7. ReportedHasOutcome' /\ QueuedIsReported'
    BY DEF TypeOK, ReportedHasOutcome, QueuedIsReported
  <1>8. UnaskedIsUnreachable' /\ QueuedWaits' /\ OnlyAskedCancels'
    BY DEF TypeOK, UnaskedIsUnreachable, QueuedWaits, OnlyAskedCancels, Reachable
  <1>9. WaitInvariant'
    BY DEF TypeOK, WaitInvariant, HandleHasFuture, HeldIsMade, OneCalls, WaitersAreServed,
           OpenHoldsLoop, EndIsQuiet, NobodyLeftWaiting, JsRuns
  <1> QED
    BY <1>1, <1>2, <1>3, <1>4, <1>5, <1>6, <1>7, <1>8, <1>9

\* Nor do timers.
LEMMA TimerInv ==
  ASSUME IInv, Timer
  PROVE  IInv'
  <1> USE CallbacksAssumption DEF IInv, Callbacks, Timer, program, native, Cancelled, Outcomes
  <1>1. TypeOK'
    <2>1. PICK s \in Settings : timers \in 0 .. s.timers
      BY DEF TypeOK
    <2>2. timers - 1 \in 0 .. s.timers
      BY <2>1, SettingsAssumption
    <2> QED
      BY <2>2 DEF TypeOK, Made, Outcomes
  <1>2. RefCountExact'
    BY DEF TypeOK, RefCountExact, OfLoop, OfWatch
  <1>3. UnmadeIsClean'
    BY DEF TypeOK, UnmadeIsClean
  <1>4. UnmadeHasNoHandle'
    BY DEF TypeOK, UnmadeHasNoHandle
  <1>5. CallsFromOpenHandle'
    BY DEF TypeOK, CallsFromOpenHandle
  <1>6. NoUseAfterFree'
    BY DEF TypeOK, NoUseAfterFree
  <1>7. ReportedHasOutcome' /\ QueuedIsReported'
    BY DEF TypeOK, ReportedHasOutcome, QueuedIsReported
  <1>8. UnaskedIsUnreachable' /\ QueuedWaits' /\ OnlyAskedCancels'
    BY DEF TypeOK, UnaskedIsUnreachable, QueuedWaits, OnlyAskedCancels, Reachable
  <1>9. WaitInvariant'
    BY DEF TypeOK, WaitInvariant, HandleHasFuture, HeldIsMade, OneCalls, WaitersAreServed,
           OpenHoldsLoop, EndIsQuiet, NobodyLeftWaiting, JsRuns
  <1> QED
    BY <1>1, <1>2, <1>3, <1>4, <1>5, <1>6, <1>7, <1>8, <1>9

\* Nor does the end of the loop.
LEMMA EndOfLoopInv ==
  ASSUME IInv, EndOfLoop
  PROVE  IInv'
  <1> USE CallbacksAssumption DEF IInv, Callbacks, EndOfLoop, program, native, Cancelled, Outcomes, LoopIsEmpty
  <1>1. TypeOK'
    BY DEF TypeOK, Made, Outcomes
  <1>2. RefCountExact'
    BY DEF TypeOK, RefCountExact, OfLoop, OfWatch
  <1>3. UnmadeIsClean'
    BY DEF TypeOK, UnmadeIsClean
  <1>4. UnmadeHasNoHandle'
    BY DEF TypeOK, UnmadeHasNoHandle
  <1>5. CallsFromOpenHandle'
    BY DEF TypeOK, CallsFromOpenHandle
  <1>6. NoUseAfterFree'
    BY DEF TypeOK, NoUseAfterFree
  <1>7. ReportedHasOutcome' /\ QueuedIsReported'
    BY DEF TypeOK, ReportedHasOutcome, QueuedIsReported
  <1>8. UnaskedIsUnreachable' /\ QueuedWaits' /\ OnlyAskedCancels'
    BY DEF TypeOK, UnaskedIsUnreachable, QueuedWaits, OnlyAskedCancels, Reachable
  <1>9. WaitInvariant'
    BY DEF TypeOK, WaitInvariant, HandleHasFuture, HeldIsMade, OneCalls, WaitersAreServed,
           OpenHoldsLoop, EndIsQuiet, NobodyLeftWaiting, ReportedHasOutcome, JsRuns
  <1> QED
    BY <1>1, <1>2, <1>3, <1>4, <1>5, <1>6, <1>7, <1>8, <1>9

\* The Watch object's reference goes with it.
LEMMA CollectInv ==
  ASSUME IInv, NEW w \in Watches, Collect(w)
  PROVE  IInv'
  <1> USE CallbacksAssumption DEF IInv, Callbacks, Collect, program, native, Cancelled, Outcomes, DelRef, Reachable
  <1>1. TypeOK'
    BY DEF TypeOK, Made, Outcomes, RefCountExact, OfLoop, OfWatch
  <1>2. RefCountExact'
    BY DEF TypeOK, RefCountExact, OfLoop, OfWatch
  <1>3. UnmadeIsClean'
    BY DEF TypeOK, UnmadeIsClean, RefCountExact, OfLoop, OfWatch
  <1>4. UnmadeHasNoHandle'
    BY DEF TypeOK, UnmadeHasNoHandle, UnmadeIsClean
  <1>5. CallsFromOpenHandle'
    BY DEF TypeOK, CallsFromOpenHandle
  <1>6. NoUseAfterFree'
    BY DEF TypeOK, NoUseAfterFree, RefCountExact, OfLoop, OfWatch, UnmadeIsClean, CallsFromOpenHandle
  <1>7. ReportedHasOutcome' /\ QueuedIsReported'
    BY DEF TypeOK, ReportedHasOutcome, QueuedIsReported
  <1>8. UnaskedIsUnreachable' /\ QueuedWaits' /\ OnlyAskedCancels'
    BY DEF TypeOK, UnaskedIsUnreachable, QueuedWaits, OnlyAskedCancels
  <1>9. WaitInvariant'
    BY DEF TypeOK, WaitInvariant, HandleHasFuture, HeldIsMade, OneCalls, WaitersAreServed,
           OpenHoldsLoop, EndIsQuiet, NobodyLeftWaiting, JsRuns
  <1> QED
    BY <1>1, <1>2, <1>3, <1>4, <1>5, <1>6, <1>7, <1>8, <1>9

-----------------------------------------------------------------------------
(* The theorems.                                                           *)

\* Nor does a step that changes nothing.
LEMMA StutterInv == ASSUME IInv, UNCHANGED vars PROVE IInv'
  BY DEF IInv, TypeOK, RefCountExact, OfLoop, OfWatch, UnmadeIsClean, UnmadeHasNoHandle,
         CallsFromOpenHandle, ReportedHasOutcome, QueuedIsReported, UnaskedIsUnreachable,
         QueuedWaits, OnlyAskedCancels, Reachable, WaitInvariant, HandleHasFuture, HeldIsMade, OneCalls,
         WaitersAreServed, OpenHoldsLoop, EndIsQuiet, NobodyLeftWaiting, NoUseAfterFree, Made, Outcomes,
         vars, native, program

\* No step breaks the invariant.
LEMMA StepInv == IInv /\ [Next]_vars => IInv'
  <1> SUFFICES ASSUME IInv, [Next]_vars PROVE IInv'
    OBVIOUS
  <1>1. ASSUME NEW c \in Callbacks,
               MakeRequest(c) \/ Answer(c) \/ FutureReadyCallback(c) \/ NodeThreadCallback(c)
                 \/ CloseCallback(c)
        PROVE  IInv'
    BY <1>1, MakeRequestInv, AnswerInv, FutureReadyCallbackInv, NodeThreadCallbackInv, CloseCallbackInv
  <1>2. ASSUME NEW w \in Watches,
               MakeWatch(w) \/ Wait(w) \/ Drop(w) \/ Cancel(w) \/ CommitTx(w) \/ ResetTx(w) \/ Collect(w)
        PROVE  IInv'
    BY <1>2, MakeWatchInv, WaitInv, DropInv, CancelInv, CommitTxInv, ResetTxInv, CollectInv
  <1>3. CASE Return \/ RunTicks \/ Timer \/ EndOfLoop
    BY <1>3, ReturnInv, RunTicksInv, TimerInv, EndOfLoopInv
  <1>4. CASE UNCHANGED vars
    BY <1>4, StutterInv
  <1> QED
    BY <1>1, <1>2, <1>3, <1>4 DEF Next

\* The strengthened invariant always holds.
THEOREM Invariant == Spec => []IInv
  <1>1. Init => IInv
    BY InitInv
  <1>2. IInv /\ [Next]_vars => IInv'
    BY StepInv
  <1> QED
    BY <1>1, <1>2, PTL DEF Spec

\* Every variable stays in its set; in particular no reference count leaves 0 .. 2.
THEOREM TypeCorrect == Spec => []TypeOK
  <1>1. IInv => TypeOK
    BY DEF IInv
  <1> QED
    BY <1>1, Invariant, PTL

\* However many requests and watches there are, and in whatever order the network
\* thread reports, the loop closes and the collector runs, no NodeCallback is
\* destroyed while one of them may still use it.
THEOREM NeverUsedAfterFree == Spec => []NoUseAfterFree
  <1>1. IInv => NoUseAfterFree
    BY DEF IInv
  <1> QED
    BY <1>1, Invariant, PTL

\* However many watches there are, a function that waits for one is told that it
\* was cancelled only if the program has cancelled it, and never because the
\* collector has taken its Watch object.
THEOREM NeverCancelledUnasked == Spec => []OnlyAskedCancels
  <1>1. IInv => OnlyAskedCancels
    BY DEF IInv
  <1> QED
    BY <1>1, Invariant, PTL

\* The loop never runs out while a function waits for a request or a watch.
THEOREM LoopOutlivesWaiters == Spec => []NobodyLeftWaiting
  <1>1. IInv => NobodyLeftWaiting
    BY DEF IInv, WaitInvariant
  <1> QED
    BY <1>1, Invariant, PTL
=============================================================================
