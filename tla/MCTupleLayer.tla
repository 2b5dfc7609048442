---------------------------- MODULE MCTupleLayer ----------------------------
(* Bytes of four bits; integers of up to three bytes, of which doubles hold nine *)
(* bits.  Strings of up to two of a null byte, an FF and another; integers at    *)
(* every boundary of a length, of a sign and of the doubles, and a byte beyond.  *)
EXTENDS TupleLayer

Null == [type |-> "null"]
Value(type, v) == [type |-> type, value |-> v]
SmallStrings == BoundedSeq({0, 5, FF}, 2)

Around(n) == {n - 2, n - 1, n, n + 1, n + 2}
Edges == UNION {Around(n) : n \in {0, Base, Base * Base, maxInt, 2 * maxInt, Power(Base, MaxBytes)}}
Ints == Edges \cup {-n : n \in Edges}

SmallItems == {Null} \cup {Value(type, s) : type \in {"bytes", "string"}, s \in SmallStrings}
                \cup {Value("int", n) : n \in Ints}
Few == {Null, Value("string", <<5>>), Value("string", <<5, 0>>), Value("bytes", <<0>>),
        Value("int", 0), Value("int", -Base), Value("int", minInt - 1), Value("int", FF)}

MCTuples == {<<>>} \cup {<<x>> : x \in SmallItems} \cup {<<x, y>> : x, y \in Few}
MCRawPrefixes == {<<>>, <<5, FF>>, <<FF>>}
=============================================================================
