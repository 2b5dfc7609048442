-------------------------------- MODULE MCFuture --------------------------------
(* Two native futures with: two calls of then, on them or on one another, and a *)
(* node-style callback; all and race over lists of one to three elements, plain *)
(* values and repeated elements among them; and a loop over them.               *)
EXTENDS Future

CONSTANTS n1, n2, c1, c2, a, r, l, node

MCSettings ==
  {{n1, c1, c2}, {n1, n2, c1, node}, {n1, n2, a}, {n1, c1, a}, {n1, n2, r}, {n1, c1, r}, {n1, c1, l}}
MCLists ==
  {<<>>, <<n1, n2>>, <<n2, n1, n2>>, <<c1, n1>>, <<n1>>, <<Plain>>, <<n1, Plain>>, <<Plain, n2, Plain>>}
=============================================================================
