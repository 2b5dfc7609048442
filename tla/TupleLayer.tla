------------------------------ MODULE TupleLayer ------------------------------
(***************************************************************************)
(* The keys of lib/tuple.js and lib/subspace.js, and the key ranges made   *)
(* from them.                                                              *)
(*                                                                         *)
(* A key is a sequence of bytes.  Byte values, the codes and the width of  *)
(* integers are constants, so that small ones keep the boundaries of the   *)
(* real ones: the longest integer has more bits than a double is exact     *)
(* for.  A unicode string stands for its UTF-8 bytes.  A key may have been *)
(* written by another binding, whose integers are up to a byte longer; it  *)
(* is always the whole key of a tuple.                                     *)
(*                                                                         *)
(* The state is a subspace of a raw prefix and a tuple, a key of a tuple   *)
(* in or beside it, and where Subspace.unpack of that key stands.          *)
(***************************************************************************)
EXTENDS Integers, Sequences, SequencesExt, FiniteSetsExt

CONSTANTS
  Base,        \* the number of byte values, 256
  Zero,        \* the code of the integer 0, 20
  MaxBytes,    \* the bytes of the longest integer, 7
  Precision,   \* the bits of a double's mantissa, 53
  Tuples,      \* tuples of [type, value], as any binding may pack them
  RawPrefixes  \* raw prefixes of subspaces

FF == Base - 1
Power(b, n) == LET power[i \in 0 .. n] == IF i = 0 THEN 1 ELSE b * power[i - 1] IN power[n]
maxInt == Power(2, Precision) - 1
minInt == -Power(2, Precision)

ASSUME CodesAssumption ==
  /\ {Base, Zero, MaxBytes, Precision} \subseteq Nat \ {0}
  /\ 2 < Zero - MaxBytes - 1 /\ Zero + MaxBytes + 1 < FF
\* An integer of MaxBytes - 1 bytes is exact, one of MaxBytes bytes need not be.
ASSUME PrecisionAssumption ==
  /\ Power(Base, MaxBytes - 1) <= Power(2, Precision)
  /\ Power(2, Precision) < Power(Base, MaxBytes)
  /\ Power(Base, MaxBytes) <= Power(2, 2 * Precision)

\* What can be in a tuple.
Bytes == 0 .. FF
Longest == Power(Base, MaxBytes + 1) - 1
Nulls == [type : {"null"}]
Strings == [type : {"bytes", "string"}, value : Seq(Bytes)]
Numbers == [type : {"int"}, value : -Longest .. Longest]
Items == Nulls \cup Strings \cup Numbers

ASSUME TuplesAssumption == Tuples \subseteq Seq(Items) /\ RawPrefixes \subseteq Seq(Bytes)

VARIABLES
  raw, left,   \* the subspace: its raw prefix and its tuple
  right,       \* a tuple
  key, pos,    \* what Subspace.unpack decodes of the key of "right", and how far it is
  arr,         \* the items it has found
  outcome      \* "unpacking", "done", or the error

vars == <<raw, left, right, key, pos, arr, outcome>>

-----------------------------------------------------------------------------
(* tuple.pack.                                                             *)

Escaped(s) == FlattenSeq([i \in DOMAIN s |-> IF s[i] = 0 THEN <<0, FF>> ELSE <<s[i]>>])

\* The bytes of a magnitude, the most significant first: the fewest that hold it.
Length(m) == Min({n \in 0 .. MaxBytes + 1 : m <= Power(Base, n) - 1})
Rest(m, n) == LET rest[i \in 0 .. n] == IF i = 0 THEN m ELSE rest[i - 1] \div Base IN rest[n]
Digits(m, n) == [i \in 1 .. n |-> Rest(m, n - i) % Base]

EncodedSigned(item) ==  \* mutant: the bytes of negative integers are not complemented
  LET m == IF item < 0 THEN -item ELSE item
  IN <<IF item < 0 THEN Zero - Length(m) ELSE Zero + Length(m)>> \o Digits(m, Length(m))

EncodedInt(item) ==
  LET m == IF item < 0 THEN -item ELSE item
      n == Length(m)
      digits == Digits(m, n)
  IN IF item < 0 THEN <<Zero - n>> \o [i \in 1 .. n |-> FF - digits[i]]
                 ELSE <<Zero + n>> \o digits

encode(item) ==
  CASE item.type = "null" -> <<0>>
    [] item.type = "bytes" -> <<1>> \o Escaped(item.value) \o <<0>>
    [] item.type = "string" -> <<2>> \o Escaped(item.value) \o <<0>>
    [] item.type = "int" -> EncodedInt(item.value)

pack(t) == FlattenSeq([i \in DOMAIN t |-> encode(t[i])])

\* pack throws a RangeError for the other integers.
CanPack(t) == \A i \in DOMAIN t : t[i].type = "int" => t[i].value \in minInt .. maxInt

-----------------------------------------------------------------------------
(* tuple.unpack.                                                           *)

\* findNullBytes in search of a terminator: a null byte that is not escaped,
\* or the end of the key.
Terminator(k, start) ==
  LET ends == {p \in start .. Len(k) : k[p] = 0 /\ (p = Len(k) \/ k[p + 1] # FF)}
  IN Min(ends \cup {Len(k) + 1})

\* The bytes from start up to end, without the FF after each null byte.
Unescaped(k, start, end) ==
  LET kept[n \in 0 .. end - start] ==
        IF n = 0 THEN <<>>
        ELSE IF n > 1 /\ k[start + n - 2] = 0 THEN kept[n - 1]
                                              ELSE Append(kept[n - 1], k[start + n - 1])
  IN kept[end - start]

\* The double nearest to a magnitude, the even one of two.
Rounded(m) ==
  LET scale == Min({s \in 0 .. Precision : m <= Power(2, Precision + s)})
      ulp == Power(2, scale)
      q == m \div ulp
      r == m % ulp
      up == 2 * r > ulp \/ (2 * r = ulp /\ q % 2 = 1)
  IN (IF up THEN q + 1 ELSE q) * ulp

OutOfRangeByValue(num, odd) == num > maxInt \/ num < minInt  \* mutant: "odd" is not looked at
OutOfRange(num, odd) == num > maxInt \/ num < minInt \/ (num = minInt /\ odd)

\* decodeNumber: the sum is exact up to its last addition.
Sum(digits) ==
  LET sum[i \in 0 .. Len(digits)] == IF i = 0 THEN 0 ELSE sum[i - 1] * Base + digits[i]
  IN sum[Len(digits)]
decodeNumber(k, start, n, negative) ==
  LET digits == [i \in 1 .. n |-> IF negative THEN FF - k[start + i - 1] ELSE k[start + i - 1]]
      m == Sum(digits)
      num == IF negative THEN -Rounded(m) ELSE Rounded(m)
  IN IF OutOfRange(num, m % 2 = 1) THEN [error |-> "RangeError"]
                                   ELSE [type |-> "int", value |-> num]

Distance(code) == IF code < Zero THEN Zero - code ELSE code - Zero

\* The item at p, or the error, and where the next one begins.
decode(k, p) ==
  LET code == k[p]
      end == Terminator(k, p + 1)
      n == Distance(code)
  IN CASE code = 0 -> [item |-> [type |-> "null"], next |-> p + 1]
       [] code \in {1, 2} ->
            [item |-> [type |-> IF code = 1 THEN "bytes" ELSE "string",
                       value |-> Unescaped(k, p + 1, end)],
             next |-> end + 1]
       [] code > 2 /\ n <= MaxBytes ->
            [item |-> IF n = 0 THEN [type |-> "int", value |-> 0]
                      ELSE decodeNumber(k, p + 1, n, code < Zero),
             next |-> p + n + 1]
       [] code > 2 /\ n = MaxBytes + 1 -> [item |-> [error |-> "RangeError"], next |-> p]
       [] OTHER -> [item |-> [error |-> "TypeError"], next |-> p]

-----------------------------------------------------------------------------
(* Subspaces and ranges.                                                   *)

\* The order of keys, and of sequences whose elements are ordered by Less.
Precedes(Less(_, _), s, t) ==
  \/ IsStrictPrefix(s, t)
  \/ \E i \in DOMAIN s \cap DOMAIN t : Less(s[i], t[i]) /\ SubSeq(s, 1, i - 1) = SubSeq(t, 1, i - 1)

Before(k, l) == Precedes(LAMBDA x, y : x < y, k, l)
Within(k, r) == ~Before(k, r.begin) /\ Before(k, r.end)

SubspaceKey == raw \o pack(left)

contains(prefix, k) == Len(k) >= Len(prefix) /\ SubSeq(k, 1, Len(prefix)) = prefix

range(prefix) == [begin |-> Append(prefix, 0), end |-> Append(prefix, FF)]

\* strinc throws where no byte can be incremented.
CanIncrement(p) == \E i \in DOMAIN p : p[i] # FF
strincWhole(p) == [p EXCEPT ![Len(p)] = (@ + 1) % Base]  \* mutant: the last byte overflows
strinc(p) ==
  LET n == Max({i \in DOMAIN p : p[i] # FF})
  IN [SubSeq(p, 1, n) EXCEPT ![n] = @ + 1]

-----------------------------------------------------------------------------

Init ==
  /\ raw \in RawPrefixes
  /\ left \in {t \in Tuples : CanPack(t)}
  /\ right \in Tuples
  /\ LET k == raw \o pack(right)
     IN IF contains(SubspaceKey, k)
          THEN key = SubSeq(k, Len(SubspaceKey) + 1, Len(k)) /\ outcome = "unpacking"
          ELSE key = <<>> /\ outcome = "not in subspace"
  /\ pos = 1
  /\ arr = <<>>

\* One turn of the loop of tuple.unpack.
Decode ==
  /\ outcome = "unpacking" /\ pos <= Len(key)
  /\ LET d == decode(key, pos)
     IN IF "error" \in DOMAIN d.item
          THEN outcome' = d.item.error /\ UNCHANGED <<pos, arr>>
          ELSE /\ pos' = d.next
               /\ arr' = Append(arr, d.item)
               /\ UNCHANGED outcome
  /\ UNCHANGED <<raw, left, right, key>>

Return ==
  /\ outcome = "unpacking" /\ pos > Len(key)
  /\ outcome' = "done"
  /\ UNCHANGED <<raw, left, right, key, pos, arr>>

Next == Decode \/ Return

Spec == Init /\ [][Next]_vars

-----------------------------------------------------------------------------
(* Properties.                                                             *)

TypeRank(item) == CASE item.type = "null" -> 0 [] item.type = "bytes" -> 1
                    [] item.type = "string" -> 2 [] item.type = "int" -> 3

\* The order of items that the layer documents: by type, then by value.
ItemBefore(x, y) ==
  \/ TypeRank(x) < TypeRank(y)
  \/ /\ x.type = y.type /\ x.type # "null"
     /\ IF x.type = "int" THEN x.value < y.value ELSE Before(x.value, y.value)

\* What Subspace.unpack returns is the tuple that was packed, and it is returned
\* for every key the subspace has packed, and for every tuple of another binding's
\* in it whose integers are exact in a double.  Any other key, be it one that the
\* subspace contains by an accident of its bytes, is refused and never misread.
UnpackIsExact ==
  /\ outcome = "done" => right = left \o arr
  /\ outcome = "RangeError" => ~CanPack(right)
  /\ outcome \in {"TypeError", "not in subspace"} => ~IsPrefix(left, right)

\* The keys of tuples are in the order of the tuples.
OrderPreserved ==
  pos = 1 => /\ Precedes(ItemBefore, left, right) <=> Before(pack(left), pack(right))
             /\ left = right <=> pack(left) = pack(right)

\* The range of a subspace holds the keys of the tuples that go on from its own,
\* and no other: not its own key, nor those of a tuple whose string goes on from the
\* last string of its own by a null byte, although they begin with the same bytes.
RangeIsExact ==
  Within(raw \o pack(right), range(SubspaceKey)) <=> IsStrictPrefix(left, right)

\* getRangeStartsWith and clearRangeStartsWith of a prefix work on the keys with the
\* prefix; a prefix that has an FF byte last, or nothing else, is no exception but
\* that the latter is refused.
StartsWithIsExact ==
  CanIncrement(SubspaceKey) =>
    LET k == raw \o pack(right)
    IN Within(k, [begin |-> SubspaceKey, end |-> strinc(SubspaceKey)]) <=> contains(SubspaceKey, k)

\* Both kinds of ranges hold what they are meant to hold.
RangesAreExact == pos = 1 => RangeIsExact /\ StartsWithIsExact
=============================================================================
