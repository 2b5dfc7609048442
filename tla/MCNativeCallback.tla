---------------------------- MODULE MCNativeCallback ----------------------------
(* A request and a watch, with an event of node's own; two watches without one. *)
EXTENDS NativeCallback

CONSTANTS r, w1, w2

MCSettings ==
  {[callbacks |-> {r, w1}, timers |-> 1], [callbacks |-> {w1, w2}, timers |-> 0]}
=============================================================================
