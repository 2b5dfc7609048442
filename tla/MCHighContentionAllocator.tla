----------------------- MODULE MCHighContentionAllocator -----------------------
(* Model checking of the allocator, whose transactions are all alike.          *)
EXTENDS HighContentionAllocator, TLC

TxnSymmetry == Permutations(Txns)
=============================================================================
