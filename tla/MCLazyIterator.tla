---------------------------- MODULE MCLazyIterator ----------------------------
(* Three uses of one iterator: loops and overlapping calls of next on a range of *)
(* three rows; all three kinds of loop on an empty range; and user code that     *)
(* calls next inside the callbacks of next and of loops, on a range cut short by *)
(* the limit.                                                                    *)
EXTENDS LazyIterator

CONSTANTS f, b, a  \* a forEach, a forEachBatch and a toArray

MCUses ==
  {[rows |-> 3, limit |-> 0, loops |-> {f, b}, calls |-> 2, reentrant |-> FALSE],
   [rows |-> 0, limit |-> 0, loops |-> {f, b, a}, calls |-> 2, reentrant |-> FALSE],
   [rows |-> 3, limit |-> 2, loops |-> {f, a}, calls |-> 3, reentrant |-> TRUE]}
=============================================================================
