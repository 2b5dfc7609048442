------------------------------ MODULE MCRetryLoop ------------------------------
(* Four kinds of functions on two keys: two that read both keys and add to one   *)
(* each, so that they conflict both ways; one that reads nothing and uses the    *)
(* atomic operation; and one that only reads.                                    *)
EXTENDS RetryLoop

CONSTANTS skewA, skewB, blind, reader, a, b

MCReads == [t \in Txns |-> IF t = blind THEN {} ELSE {a, b}]
MCWrites == [t \in Txns |-> CASE t = skewB -> {b} [] t = reader -> {} [] OTHER -> {a}]

\* Three that write, of which two conflict both ways; two of them with more
\* faults and more attempts; and the reader with two that write, which all may
\* retry for as long as there is a conflict.
MCSettings ==
  {[calls |-> {skewA, skewB, blind}, retryLimit |-> 1, maxFaults |-> 1, mayThrow |-> TRUE],
   [calls |-> {skewA, skewB}, retryLimit |-> 2, maxFaults |-> 2, mayThrow |-> TRUE],
   [calls |-> {skewA, skewB, reader}, retryLimit |-> 9, maxFaults |-> 1, mayThrow |-> FALSE]}
=============================================================================
