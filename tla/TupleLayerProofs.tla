--------------------------- MODULE TupleLayerProofs ---------------------------
(***************************************************************************)
(* The keys of tuples are in the order of the tuples, ranges hold the keys *)
(* they are meant to hold, and unpacking returns what was packed, for all  *)
(* tuples, subspaces, widths of integers and precisions of doubles that    *)
(* the assumptions on the constants allow.                                 *)
(*                                                                         *)
(* Two different tuples part at an item, or one goes on from the other.    *)
(* Where they part, their keys are in order by the bytes of those items,   *)
(* whatever follows (Below): a type's code decides, or an integer's length *)
(* in its code and then its bytes, or the bytes of a string.  A string     *)
(* that goes on by a null byte is the delicate case: the key of the        *)
(* shorter ends the string there, and that of the longer has FF behind     *)
(* the null byte, with which no item begins (Tame).                        *)
(*                                                                         *)
(* Sequences appear as words that are put together (Join, One, Words), and *)
(* recursive functions by the values that their recursion has (Recursion,  *)
(* SameValues).                                                            *)
(***************************************************************************)
EXTENDS TupleLayer, TLAPS, SequenceTheorems, WellFoundedInduction

-----------------------------------------------------------------------------
(* The least number of a set, for which induction is done.                 *)

Less == {ss \in Nat \X Nat : ss[1] < ss[2]}

\* There is no endless descent among the natural numbers.
LEMMA LessIsWellFounded == IsWellFoundedOn(Less, Nat)
<1>1. IsWellFoundedOn({ss \in Nat \X Nat : ss[1] < ss[2]}, Nat)
  BY NatLessThanWellFounded, Zenon DEF OpToRel
<1> QED BY <1>1 DEF Less

\* A set of natural numbers has a least one.
LEMMA Least ==
  ASSUME NEW S, S \subseteq Nat, S # {}
  PROVE  \E n \in S : n \in Nat /\ \A m \in S : n <= m
<1>1. PICK n \in S : \A m \in S : ~(<<m, n>> \in Less)
  BY LessIsWellFounded, WFMin
<1>2. ASSUME NEW m \in S
      PROVE  n <= m
  <2>1. ~(<<m, n>> \in Less)
    BY <1>1
  <2>2. m \in Nat /\ n \in Nat
    OBVIOUS
  <2> QED BY <2>1, <2>2 DEF Less
<1> QED BY <1>2

\* Min of a set of natural numbers.
LEMMA MinFacts ==
  ASSUME NEW S, S \subseteq Nat, S # {}
  PROVE  /\ Min(S) \in S /\ Min(S) \in Nat
         /\ \A m \in S : Min(S) <= m
BY Least, Zenon DEF Min

-----------------------------------------------------------------------------
(* Sequences.                                                              *)

\* Names for what the provers are to see by its laws only.
Join(k, l) == k \o l
One(x) == <<x>>
Words(S) == Seq(S)

\* A sequence of one element.
LEMMA OneElement ==
  ASSUME NEW S, NEW x \in S
  PROVE  <<x>> \in Seq(S) /\ Len(<<x>>) = 1 /\ <<x>>[1] = x
OBVIOUS

\* A sequence up to a place, and from it on.
LEMMA Parts ==
  ASSUME NEW S, NEW s \in Seq(S), NEW n \in 0 .. Len(s)
  PROVE  /\ SubSeq(s, 1, n) \in Seq(S) /\ SubSeq(s, n + 1, Len(s)) \in Seq(S)
         /\ Len(SubSeq(s, 1, n)) = n /\ Len(SubSeq(s, n + 1, Len(s))) = Len(s) - n
         /\ \A i \in 1 .. n : SubSeq(s, 1, n)[i] = s[i]
         /\ \A i \in 1 .. Len(s) - n : SubSeq(s, n + 1, Len(s))[i] = s[n + i]
         /\ s = SubSeq(s, 1, n) \o SubSeq(s, n + 1, Len(s))
<1>1. Len(s) \in Nat /\ n \in Nat /\ n <= Len(s)
  BY LenProperties
<1>2. \A i \in 1 .. n : s[i] \in S
  BY <1>1, ElementOfSeq
<1>3. \A i \in n + 1 .. Len(s) : s[i] \in S
  BY <1>1, ElementOfSeq
<1>4. PICK m : m = n + 1
  OBVIOUS
<1>5. /\ SubSeq(s, 1, n) \in Seq(S)
      /\ Len(SubSeq(s, 1, n)) = IF 1 <= n THEN n - 1 + 1 ELSE 0
      /\ \A i \in 1 .. n - 1 + 1 : SubSeq(s, 1, n)[i] = s[1 + i - 1]
  BY <1>1, <1>2, SubSeqProperties
<1>6. /\ SubSeq(s, m, Len(s)) \in Seq(S)
      /\ Len(SubSeq(s, m, Len(s))) = IF m <= Len(s) THEN Len(s) - m + 1 ELSE 0
      /\ \A i \in 1 .. Len(s) - m + 1 : SubSeq(s, m, Len(s))[i] = s[m + i - 1]
  BY <1>1, <1>3, <1>4, SubSeqProperties
<1>7. s = SubSeq(s, 1, n) \o SubSeq(s, n + 1, Len(s))
  <2>1. 1 \in 1 .. Len(s) + 1 /\ n \in 1 - 1 .. Len(s) /\ Len(s) \in n .. Len(s)
    BY <1>1
  <2>2. SubSeq(s, 1, n) \o SubSeq(s, n + 1, Len(s)) = SubSeq(s, 1, Len(s))
    BY <2>1, ConcatAdjacentSubSeq
  <2> QED BY <2>2, SubSeqFull
<1>8. /\ Len(SubSeq(s, 1, n)) = n
      /\ \A i \in 1 .. n : SubSeq(s, 1, n)[i] = s[i]
  <2>1. (IF 1 <= n THEN n - 1 + 1 ELSE 0) = n /\ n - 1 + 1 = n /\ \A i \in 1 .. n : 1 + i - 1 = i
    BY <1>1
  <2> QED BY <1>5, <2>1
<1>9. /\ Len(SubSeq(s, m, Len(s))) = Len(s) - n
      /\ \A i \in 1 .. Len(s) - n : SubSeq(s, m, Len(s))[i] = s[n + i]
  <2>1. (IF m <= Len(s) THEN Len(s) - m + 1 ELSE 0) = Len(s) - n /\ Len(s) - m + 1 = Len(s) - n
    BY <1>1, <1>4
  <2>2. \A i \in 1 .. Len(s) - n : m + i - 1 = n + i
    BY <1>1, <1>4
  <2> QED BY <1>6, <2>1, <2>2
<1> QED BY <1>4, <1>5, <1>6, <1>7, <1>8, <1>9

\* A sequence, an element of it in the middle.
LEMMA Middle ==
  ASSUME NEW S, NEW s \in Seq(S), NEW n \in 1 .. Len(s)
  PROVE  /\ SubSeq(s, 1, n - 1) \in Seq(S) /\ SubSeq(s, n + 1, Len(s)) \in Seq(S) /\ s[n] \in S
         /\ s = Join(SubSeq(s, 1, n - 1), Join(One(s[n]), SubSeq(s, n + 1, Len(s))))
<1>1. Len(s) \in Nat /\ n \in Nat /\ n - 1 \in 0 .. Len(s) /\ n \in 0 .. Len(s) /\ n - 1 + 1 = n
  BY LenProperties
<1>2. SubSeq(s, n, Len(s)) = <<s[n]>> \o SubSeq(s, n + 1, Len(s))
  <2>1. Len(s) \in n .. Len(s)
    BY <1>1
  <2> QED BY <2>1, SubSeqRecursiveFirst
<1>3. s = SubSeq(s, 1, n - 1) \o SubSeq(s, n, Len(s))
      /\ SubSeq(s, 1, n - 1) \in Seq(S) /\ Len(SubSeq(s, 1, n - 1)) = n - 1
  <2>1. PICK m \in 0 .. Len(s) : m = n - 1
    BY <1>1
  <2>2. m + 1 = n
    BY <2>1, <1>1
  <2> QED BY <2>1, <2>2, Parts
<1>4. SubSeq(s, n + 1, Len(s)) \in Seq(S) /\ Len(SubSeq(s, n + 1, Len(s))) = Len(s) - n
  BY <1>1, Parts
<1>5. SubSeq(s, n, Len(s)) = Join(One(s[n]), SubSeq(s, n + 1, Len(s)))
  BY <1>2, Zenon DEF Join, One
<1>6. s = Join(SubSeq(s, 1, n - 1), SubSeq(s, n, Len(s)))
  BY <1>3, Zenon DEF Join
<1>7. s[n] \in S
  BY ElementOfSeq
<1> QED BY ONLY <1>3, <1>4, <1>5, <1>6, <1>7

\* What begins a sequence.
LEMMA PrefixIs ==
  ASSUME NEW S, NEW s \in Seq(S), NEW t \in Seq(S)
  PROVE  IsPrefix(s, t) <=> Len(s) <= Len(t) /\ \A i \in 1 .. Len(s) : s[i] = t[i]
<1>1. Len(s) \in Nat /\ Len(t) \in Nat
  BY LenProperties
<1>2. SubSeq(s, 1, Len(s)) = s
  BY SubSeqFull
<1>3. CASE ~(Len(s) <= Len(t))
  BY <1>3 DEF IsPrefix
<1>4. CASE Len(s) <= Len(t)
  <2>1. PICK n \in 0 .. Len(t) : n = Len(s)
    BY <1>1, <1>4
  <2>2. PICK u : u = SubSeq(t, 1, n)
    OBVIOUS
  <2>3. u \in Seq(S) /\ Len(u) = n /\ \A i \in 1 .. n : u[i] = t[i]
    BY <2>2, Parts
  <2>4. IsPrefix(s, t) <=> s = u
    BY <1>2, <1>4, <2>1, <2>2 DEF IsPrefix
  <2>5. s = u <=> \A i \in 1 .. n : s[i] = t[i]
    BY <2>1, <2>3, SeqEqual
  <2> QED BY <1>4, <2>1, <2>4, <2>5
<1> QED BY <1>3, <1>4

\* A sequence is what begins it and a rest.
LEMMA PrefixRest ==
  ASSUME NEW S, NEW s \in Seq(S), NEW t \in Seq(S)
  PROVE  /\ IsPrefix(s, t) => \E r \in Seq(S) : r = SubSeq(t, Len(s) + 1, Len(t)) /\ t = s \o r
         /\ \A r \in Seq(S) : t = s \o r => IsPrefix(s, t)
<1>1. Len(s) \in Nat /\ Len(t) \in Nat
  BY LenProperties
<1>2. ASSUME IsPrefix(s, t)
      PROVE  \E r \in Seq(S) : r = SubSeq(t, Len(s) + 1, Len(t)) /\ t = s \o r
  <2>1. PICK n \in 0 .. Len(t) : n = Len(s)
    BY <1>1, <1>2, PrefixIs
  <2>2. /\ SubSeq(t, n + 1, Len(t)) \in Seq(S)
        /\ t = SubSeq(t, 1, n) \o SubSeq(t, n + 1, Len(t))
    BY Parts
  <2>3. SubSeq(t, 1, n) = s
    BY <1>2, <2>1, SubSeqFull DEF IsPrefix
  <2> QED BY <2>1, <2>2, <2>3
<1>3. ASSUME NEW r \in Seq(S), t = s \o r
      PROVE  IsPrefix(s, t)
  <2>1. Len(t) = Len(s) + Len(r) /\ \A i \in 1 .. Len(s) + Len(r) : t[i] = IF i <= Len(s) THEN s[i] ELSE r[i - Len(s)]
    BY <1>3, ConcatProperties
  <2>2. Len(r) \in Nat
    BY LenProperties
  <2>3. Len(s) <= Len(t) /\ \A i \in 1 .. Len(s) : s[i] = t[i]
    BY <1>1, <2>1, <2>2
  <2> QED BY <2>3, PrefixIs
<1> QED BY <1>2, <1>3

-----------------------------------------------------------------------------
(* The order of byte strings.                                              *)

\* Two strings differ somewhere, where the first has the smaller byte.
Decided(k, l) ==
  \E j \in 1 .. Len(k) : j <= Len(l) /\ k[j] < l[j] /\ \A i \in 1 .. j - 1 : k[i] = l[i]

\* The same for the bytes up to a place.
LEMMA SameStart ==
  ASSUME NEW S, NEW k \in Seq(S), NEW l \in Seq(S), NEW j \in 1 .. Len(k), j <= Len(l)
  PROVE  SubSeq(k, 1, j - 1) = SubSeq(l, 1, j - 1) <=> \A i \in 1 .. j - 1 : k[i] = l[i]
<1>1. Len(k) \in Nat /\ Len(l) \in Nat
  BY LenProperties
<1>2. PICK n \in Nat : n = j - 1
  BY <1>1
<1>3. n \in 0 .. Len(k) /\ n \in 0 .. Len(l)
  BY <1>1, <1>2
<1>4. PICK u, v : u = SubSeq(k, 1, n) /\ v = SubSeq(l, 1, n)
  OBVIOUS
<1>5. /\ u \in Seq(S) /\ Len(u) = n /\ \A i \in 1 .. n : u[i] = k[i]
      /\ v \in Seq(S) /\ Len(v) = n /\ \A i \in 1 .. n : v[i] = l[i]
  BY <1>3, <1>4, Parts
<1>6. u = v <=> \A i \in 1 .. n : u[i] = v[i]
  BY <1>5, SeqEqual
<1> QED BY <1>2, <1>4, <1>5, <1>6

\* Before is to be a strict prefix or to be decided.
LEMMA BeforeIs ==
  ASSUME NEW S, NEW k \in Seq(S), NEW l \in Seq(S)
  PROVE  Before(k, l) <=> IsStrictPrefix(k, l) \/ Decided(k, l)
<1>1. Len(k) \in Nat /\ Len(l) \in Nat /\ DOMAIN k = 1 .. Len(k) /\ DOMAIN l = 1 .. Len(l)
  BY LenProperties
<1>2. Before(k, l) <=> \/ IsStrictPrefix(k, l)
                       \/ \E j \in DOMAIN k \cap DOMAIN l :
                            k[j] < l[j] /\ SubSeq(k, 1, j - 1) = SubSeq(l, 1, j - 1)
  BY DEF Before, Precedes
<1>3. \A j : j \in DOMAIN k \cap DOMAIN l <=> j \in 1 .. Len(k) /\ j <= Len(l)
  BY <1>1
<1>4. \A j \in 1 .. Len(k) : j <= Len(l) =>
        (SubSeq(k, 1, j - 1) = SubSeq(l, 1, j - 1) <=> \A i \in 1 .. j - 1 : k[i] = l[i])
  BY SameStart
<1> QED BY <1>2, <1>3, <1>4 DEF Decided

\* Two sequences begin the same, or there is a first place where they differ.
LEMMA FirstDifference ==
  ASSUME NEW S, NEW k \in Seq(S), NEW l \in Seq(S)
  PROVE  \/ IsPrefix(k, l) \/ IsPrefix(l, k)
         \/ \E j \in 1 .. Len(k) : j <= Len(l) /\ k[j] # l[j] /\ \A i \in 1 .. j - 1 : k[i] = l[i]
<1>1. Len(k) \in Nat /\ Len(l) \in Nat
  BY LenProperties
<1> DEFINE D == {j \in 1 .. Len(k) : j <= Len(l) /\ k[j] # l[j]}
<1>2. CASE D = {}
  <2>1. \A j \in 1 .. Len(k) : j <= Len(l) => k[j] = l[j]
    BY <1>2
  <2>2. CASE Len(k) <= Len(l)
    <3>1. \A j \in 1 .. Len(k) : k[j] = l[j]
      BY <1>1, <2>1, <2>2
    <3> QED BY <2>2, <3>1, PrefixIs
  <2>3. CASE Len(l) <= Len(k)
    <3>1. \A j \in 1 .. Len(l) : l[j] = k[j]
      BY <1>1, <2>1, <2>3
    <3> QED BY <2>3, <3>1, PrefixIs
  <2> QED BY <1>1, <2>2, <2>3
<1>3. CASE D # {}
  <2>1. PICK j \in D : j \in Nat /\ \A m \in D : j <= m
    <3>1. D \subseteq Nat
      BY <1>1
    <3> HIDE DEF D
    <3> QED BY <1>3, <3>1, Least
  <2>2. ASSUME NEW i \in 1 .. j - 1
        PROVE  k[i] = l[i]
    <3>1. i \in 1 .. Len(k) /\ i <= Len(l) /\ ~(j <= i)
      BY <1>1, <2>1
    <3> QED BY <2>1, <3>1
  <2> QED BY <2>1, <2>2
<1> QED BY <1>2, <1>3

\* Byte strings begin the same or are decided.
LEMMA Compared ==
  ASSUME NEW S \in SUBSET Int, NEW k \in Seq(S), NEW l \in Seq(S)
  PROVE  IsPrefix(k, l) \/ IsPrefix(l, k) \/ Decided(k, l) \/ Decided(l, k)
<1>1. Len(k) \in Nat /\ Len(l) \in Nat
  BY LenProperties
<1>2. CASE \E j \in 1 .. Len(k) : j <= Len(l) /\ k[j] # l[j] /\ \A i \in 1 .. j - 1 : k[i] = l[i]
  <2>1. PICK j \in 1 .. Len(k) : j <= Len(l) /\ k[j] # l[j] /\ \A i \in 1 .. j - 1 : k[i] = l[i]
    BY <1>2
  <2>2. j \in 1 .. Len(l) /\ j <= Len(k) /\ j \in Nat
    BY <1>1, <2>1
  <2>3. k[j] \in S /\ l[j] \in S
    BY <2>2, ElementOfSeq
  <2>4. k[j] < l[j] \/ l[j] < k[j]
    <3>1. k[j] \in Int /\ l[j] \in Int
      BY <2>3
    <3> QED BY <2>1, <3>1
  <2>5. \A i \in 1 .. j - 1 : l[i] = k[i]
    BY <2>1
  <2> QED BY <2>1, <2>2, <2>4, <2>5 DEF Decided
<1> QED BY <1>2, FirstDifference

\* What is decided is decided one way only, and neither begins the other.
LEMMA DecidedOnce ==
  ASSUME NEW S \in SUBSET Int, NEW k \in Seq(S), NEW l \in Seq(S), Decided(k, l)
  PROVE  ~Decided(l, k) /\ ~IsPrefix(k, l) /\ ~IsPrefix(l, k) /\ k # l
<1>1. Len(k) \in Nat /\ Len(l) \in Nat
  BY LenProperties
<1>2. PICK j \in 1 .. Len(k) : j <= Len(l) /\ k[j] < l[j] /\ \A i \in 1 .. j - 1 : k[i] = l[i]
  BY DEF Decided
<1>3. j \in 1 .. Len(l) /\ j \in Nat
  BY <1>1, <1>2
<1>4. k[j] \in Int /\ l[j] \in Int
  BY <1>3, ElementOfSeq
<1>5. k[j] # l[j] /\ ~(l[j] < k[j])
  BY <1>2, <1>4
<1>6. ~IsPrefix(k, l) /\ ~IsPrefix(l, k)
  BY <1>2, <1>3, <1>5, PrefixIs
<1>7. ASSUME Decided(l, k)
      PROVE  FALSE
  <2>1. PICK m \in 1 .. Len(l) : m <= Len(k) /\ l[m] < k[m] /\ \A i \in 1 .. m - 1 : l[i] = k[i]
    BY <1>7 DEF Decided
  <2>2. m \in Nat /\ m \in 1 .. Len(k)
    BY <1>1, <2>1
  <2>3. l[m] \in Int /\ k[m] \in Int
    BY <2>2, ElementOfSeq
  <2>4. l[m] # k[m]
    BY <2>1, <2>3
  <2>5. m = j \/ m \in 1 .. j - 1 \/ j \in 1 .. m - 1
    BY <1>1, <1>3, <2>2
  <2> QED BY <1>2, <1>5, <2>1, <2>4, <2>5
<1> QED BY <1>5, <1>6, <1>7

\* What is decided stays decided when more follows.
LEMMA DecidedAfter ==
  ASSUME NEW S, NEW k \in Seq(S), NEW l \in Seq(S), NEW r \in Seq(S), NEW q \in Seq(S), Decided(k, l)
  PROVE  Decided(k \o r, l \o q)
<1>1. Len(k) \in Nat /\ Len(l) \in Nat /\ Len(r) \in Nat /\ Len(q) \in Nat
  BY LenProperties
<1>2. PICK j \in 1 .. Len(k) : j <= Len(l) /\ k[j] < l[j] /\ \A i \in 1 .. j - 1 : k[i] = l[i]
  BY DEF Decided
<1>3. /\ Len(k \o r) = Len(k) + Len(r) /\ \A i \in 1 .. Len(k) + Len(r) : (k \o r)[i] = IF i <= Len(k) THEN k[i] ELSE r[i - Len(k)]
      /\ Len(l \o q) = Len(l) + Len(q) /\ \A i \in 1 .. Len(l) + Len(q) : (l \o q)[i] = IF i <= Len(l) THEN l[i] ELSE q[i - Len(l)]
  BY ConcatProperties
<1>4. \A i \in 1 .. j : (k \o r)[i] = k[i] /\ (l \o q)[i] = l[i]
  BY <1>1, <1>2, <1>3
<1>5. j \in 1 .. Len(k \o r) /\ j <= Len(l \o q) /\ j \in 1 .. j /\ \A i \in 1 .. j - 1 : i \in 1 .. j
  BY <1>1, <1>2, <1>3
<1> QED BY <1>2, <1>4, <1>5 DEF Decided

\* The elements behind a common start.
LEMMA Behind ==
  ASSUME NEW S, NEW p \in Seq(S), NEW k \in Seq(S)
  PROVE  /\ p \o k \in Seq(S) /\ Len(p \o k) = Len(p) + Len(k)
         /\ Len(p) \in Nat /\ Len(k) \in Nat
         /\ \A i \in 1 .. Len(p) : (p \o k)[i] = p[i]
         /\ \A i \in 1 .. Len(k) : (p \o k)[Len(p) + i] = k[i]
<1>1. Len(p) \in Nat /\ Len(k) \in Nat
  BY LenProperties
<1>2. PICK c : c = p \o k
  OBVIOUS
<1>3. /\ c \in Seq(S) /\ Len(c) = Len(p) + Len(k)
      /\ \A i \in 1 .. Len(p) + Len(k) : c[i] = IF i <= Len(p) THEN p[i] ELSE k[i - Len(p)]
  BY <1>2, ConcatProperties
<1>4. \A i \in 1 .. Len(p) : c[i] = p[i]
  BY <1>1, <1>3
<1>5. ASSUME NEW i \in 1 .. Len(k)
      PROVE  c[Len(p) + i] = k[i]
  <2>1. Len(p) + i \in 1 .. Len(p) + Len(k) /\ ~(Len(p) + i <= Len(p)) /\ Len(p) + i - Len(p) = i
    BY <1>1
  <2>2. c[Len(p) + i] = IF Len(p) + i <= Len(p) THEN p[Len(p) + i] ELSE k[Len(p) + i - Len(p)]
    BY <2>1, <1>3
  <2> QED BY <2>1, <2>2
<1> QED BY <1>1, <1>2, <1>3, <1>4, <1>5

\* What is decided is decided after the same start.
LEMMA DecidedBehind ==
  ASSUME NEW S, NEW p \in Seq(S), NEW k \in Seq(S), NEW l \in Seq(S), Decided(k, l)
  PROVE  Decided(p \o k, p \o l)
<1>1. PICK j \in 1 .. Len(k) : j <= Len(l) /\ k[j] < l[j] /\ \A i \in 1 .. j - 1 : k[i] = l[i]
  BY DEF Decided
<1>2. PICK c, d : c = p \o k /\ d = p \o l
  OBVIOUS
<1>3. /\ Len(c) = Len(p) + Len(k) /\ Len(d) = Len(p) + Len(l)
      /\ Len(p) \in Nat /\ Len(k) \in Nat /\ Len(l) \in Nat
      /\ \A i \in 1 .. Len(p) : c[i] = p[i] /\ d[i] = p[i]
      /\ \A i \in 1 .. Len(k) : c[Len(p) + i] = k[i]
      /\ \A i \in 1 .. Len(l) : d[Len(p) + i] = l[i]
  <2>1. /\ Len(p \o k) = Len(p) + Len(k) /\ Len(p) \in Nat /\ Len(k) \in Nat
        /\ \A i \in 1 .. Len(p) : (p \o k)[i] = p[i]
        /\ \A i \in 1 .. Len(k) : (p \o k)[Len(p) + i] = k[i]
    BY ONLY p \in Seq(S), k \in Seq(S), Behind
  <2>2. /\ Len(p \o l) = Len(p) + Len(l) /\ Len(l) \in Nat
        /\ \A i \in 1 .. Len(p) : (p \o l)[i] = p[i]
        /\ \A i \in 1 .. Len(l) : (p \o l)[Len(p) + i] = l[i]
    BY ONLY p \in Seq(S), l \in Seq(S), Behind
  <2> QED BY ONLY <1>2, <2>1, <2>2
<1>4. PICK m \in Nat : m = Len(p) + j
  BY <1>3
<1>5. m \in 1 .. Len(c) /\ m <= Len(d) /\ j \in 1 .. Len(l)
  BY <1>1, <1>3, <1>4
<1>6. c[m] < d[m]
  BY <1>1, <1>3, <1>4, <1>5
<1>7. ASSUME NEW i \in 1 .. m - 1
      PROVE  c[i] = d[i]
  <2>1. CASE i \in 1 .. Len(p)
    BY <1>3, <2>1
  <2>2. CASE i > Len(p)
    <3>3. i \in Nat /\ i - Len(p) \in Nat
      BY <1>3, <1>4, <2>2
    <3>1. PICK n \in Nat : n = i - Len(p)
      BY <3>3
    <3>2. n \in 1 .. j - 1 /\ n \in 1 .. Len(k) /\ n \in 1 .. Len(l) /\ i = Len(p) + n
      BY <1>1, <1>3, <1>4, <2>2, <3>1
    <3> QED BY <1>1, <1>3, <3>2
  <2> QED BY <1>3, <1>4, <2>1, <2>2
<1> QED BY <1>2, <1>5, <1>6, <1>7 DEF Decided

\* A smaller byte after the same start decides.
LEMMA DecidedByByte ==
  ASSUME NEW S, NEW p \in Seq(S), NEW a \in S, NEW b \in S, a < b, NEW r \in Seq(S), NEW q \in Seq(S)
  PROVE  Decided(p \o (<<a>> \o r), p \o (<<b>> \o q))
<1>1. <<a>> \in Seq(S) /\ <<b>> \in Seq(S) /\ Len(<<a>>) = 1 /\ Len(<<b>>) = 1 /\ <<a>>[1] = a /\ <<b>>[1] = b
  BY OneElement
<1>2. Decided(<<a>>, <<b>>)
  <2>1. PICK k, l : k = <<a>> /\ l = <<b>>
    OBVIOUS
  <2>2. Len(k) = 1 /\ Len(l) = 1 /\ k[1] = a /\ l[1] = b
    BY <1>1, <2>1
  <2>3. 1 \in 1 .. Len(k) /\ 1 <= Len(l) /\ k[1] < l[1] /\ \A i \in 1 .. 1 - 1 : k[i] = l[i]
    BY <2>2
  <2>4. Decided(k, l)
    BY <2>3 DEF Decided
  <2> QED BY <2>1, <2>4
<1>3. Decided(<<a>> \o r, <<b>> \o q)
  BY <1>1, <1>2, DecidedAfter
<1>4. <<a>> \o r \in Seq(S) /\ <<b>> \o q \in Seq(S)
  BY <1>1, ConcatProperties
<1> QED BY <1>3, <1>4, DecidedBehind

-----------------------------------------------------------------------------
(* Sequences put together.                                                 *)

Flattened(seqs, n, w) == w = [i \in 1 .. n |-> IF i = 1 THEN seqs[i] ELSE Join(w[i - 1], seqs[i])]

\* The recursion of FlattenSeq has a solution, by induction on its length.
LEMMA FlattenExists ==
  ASSUME NEW seqs, NEW N \in Nat
  PROVE  \E w : Flattened(seqs, N, w)
<1> DEFINE Bad == {n \in Nat : ~ \E w : Flattened(seqs, n, w)}
<1> SUFFICES ASSUME Bad # {} PROVE FALSE
  OBVIOUS
<1>1. PICK n \in Bad : n \in Nat /\ \A m \in Bad : n <= m
  <2> HIDE DEF Bad
  <2>1. Bad \subseteq Nat
    BY DEF Bad
  <2> QED BY <2>1, Least
<1>2. CASE n = 0
  <2> DEFINE w == [i \in 1 .. 0 |-> seqs[i]]
  <2>1. w = [i \in 1 .. 0 |-> IF i = 1 THEN seqs[i] ELSE Join(w[i - 1], seqs[i])]
    OBVIOUS
  <2> HIDE DEF w
  <2>2. Flattened(seqs, 0, w)
    BY <2>1, Zenon DEF Flattened
  <2> QED BY <2>2, <1>2
<1>3. CASE n # 0
  <2>1. n - 1 \in Nat /\ ~(n <= n - 1)
    BY <1>1, <1>3
  <2>2. PICK w : Flattened(seqs, n - 1, w)
    BY <2>1, <1>1
  <2> DEFINE v == [i \in 1 .. n |-> IF i = 1 THEN seqs[i] ELSE Join(w[i - 1], seqs[i])]
  <2>4. \A i \in 1 .. n : v[i] = IF i = 1 THEN seqs[i] ELSE Join(w[i - 1], seqs[i])
    OBVIOUS
  <2>9. \A i \in 1 .. n - 1 : w[i] = IF i = 1 THEN seqs[i] ELSE Join(w[i - 1], seqs[i])
    BY <2>2, Zenon DEF Flattened
  <2>3. \A i \in 1 .. n - 1 : v[i] = w[i]
    <3>1. \A i \in 1 .. n - 1 : i \in 1 .. n
      BY <2>1
    <3> HIDE DEF v
    <3> QED BY <3>1, <2>4, <2>9, Zenon
  <2>5. v = [i \in 1 .. n |-> v[i]]
    OBVIOUS
  <2> HIDE DEF v
  <2>6. \A i \in 1 .. n : i # 1 => v[i - 1] = w[i - 1]
    BY <2>3, <2>1
  <2>7. \A i \in 1 .. n : v[i] = IF i = 1 THEN seqs[i] ELSE Join(v[i - 1], seqs[i])
    BY <2>4, <2>6, <2>1
  <2>8. v = [i \in 1 .. n |-> IF i = 1 THEN seqs[i] ELSE Join(v[i - 1], seqs[i])]
    BY <2>5, <2>7
  <2> QED BY <2>8, Zenon DEF Flattened
<1> QED BY <1>2, <1>3

\* The solution for one sequence more agrees with the one before it.
LEMMA FlattenUnique ==
  ASSUME NEW n \in Nat, NEW s, NEW t, \A i \in 1 .. n : s[i] = t[i],
         NEW v, NEW w, Flattened(s, n, v), Flattened(t, n + 1, w)
  PROVE  \A i \in 1 .. n : v[i] = w[i]
<1> DEFINE Bad == {i \in 1 .. n : v[i] # w[i]}
<1> SUFFICES ASSUME Bad # {} PROVE FALSE
  OBVIOUS
<1>1. PICK i \in Bad : i \in Nat /\ \A j \in Bad : i <= j
  <2> HIDE DEF Bad
  <2>1. Bad \subseteq Nat
    BY DEF Bad
  <2> QED BY <2>1, Least
<1>2. i \in 1 .. n /\ i \in 1 .. n + 1 /\ s[i] = t[i]
  BY <1>1
<1>3. /\ v[i] = IF i = 1 THEN s[i] ELSE Join(v[i - 1], s[i])
      /\ w[i] = IF i = 1 THEN t[i] ELSE Join(w[i - 1], t[i])
  BY <1>2 DEF Flattened
<1>4. CASE i = 1
  BY <1>1, <1>2, <1>3, <1>4
<1>5. CASE i # 1
  <2>1. i - 1 \in 1 .. n /\ ~(i <= i - 1)
    BY <1>1, <1>5
  <2>2. v[i - 1] = w[i - 1]
    BY <1>1, <2>1
  <2> QED BY <1>1, <1>2, <1>3, <1>5, <2>2
<1> QED BY <1>4, <1>5

\* A solution for each sequence, whose last value is what FlattenSeq returns.
LEMMA FlattenIs ==
  ASSUME NEW n \in Nat, NEW s, Len(s) = n, n # 0
  PROVE  \E w : Flattened(s, n, w) /\ FlattenSeq(s) = w[n]
<1>1. PICK u : Flattened(s, n, u)
  BY FlattenExists
<1> DEFINE f == CHOOSE g : g = [i \in 1 .. Len(s) |-> IF i = 1 THEN s[i] ELSE Join(g[i - 1], s[i])]
<1>2. f = [i \in 1 .. Len(s) |-> IF i = 1 THEN s[i] ELSE Join(f[i - 1], s[i])]
  BY <1>1, Zenon DEF Flattened
<1>3. FlattenSeq(s) = f[Len(s)]
  <2>1. ~(Len(s) = 0)
    OBVIOUS
  <2> QED BY <2>1, Zenon DEF FlattenSeq, Join
<1> HIDE DEF f
<1>4. Flattened(s, n, f) /\ FlattenSeq(s) = f[n]
  BY <1>2, <1>3, Zenon DEF Flattened
<1> QED BY <1>4

\* FlattenSeq of one sequence more.
LEMMA FlattenDef ==
  ASSUME NEW n \in Nat, NEW s, NEW t, Len(s) = n, Len(t) = n + 1, \A i \in 1 .. n : s[i] = t[i]
  PROVE  FlattenSeq(t) = IF n = 0 THEN t[1] ELSE Join(FlattenSeq(s), t[n + 1])
<1>1. PICK m \in Nat : m = n + 1 /\ m # 0 /\ m - 1 = n /\ m \in 1 .. m
  OBVIOUS
<1>2. PICK w : Flattened(t, m, w) /\ FlattenSeq(t) = w[m]
  BY <1>1, FlattenIs
<1>3. w[m] = IF m = 1 THEN t[m] ELSE Join(w[m - 1], t[m])
  BY <1>1, <1>2 DEF Flattened
<1>4. CASE n = 0
  BY <1>1, <1>2, <1>3, <1>4
<1>5. CASE n # 0
  <2>1. PICK v : Flattened(s, n, v) /\ FlattenSeq(s) = v[n]
    BY <1>5, FlattenIs
  <2>2. \A i \in 1 .. n : v[i] = w[i]
    <3>1. Flattened(t, n + 1, w)
      BY <1>1, <1>2
    <3>2. n \in Nat /\ Flattened(s, n, v) /\ \A i \in 1 .. n : s[i] = t[i]
      BY <2>1
    <3> QED BY ONLY <3>1, <3>2, FlattenUnique
  <2>3. w[n] = v[n]
    BY <1>5, <2>2
  <2> QED BY <1>1, <1>2, <1>3, <1>5, <2>1, <2>3
<1> QED BY <1>4, <1>5

-----------------------------------------------------------------------------
(* What is put together from the images of elements.                       *)

Images(F, s) == [i \in DOMAIN s |-> F[s[i]]]
Flat(F, s) == FlattenSeq(Images(F, s))

\* The images of a sequence.
LEMMA ImagesFacts ==
  ASSUME NEW S, NEW F, NEW s \in Seq(S)
  PROVE  /\ Len(Images(F, s)) = Len(s)
         /\ \A i \in 1 .. Len(s) : Images(F, s)[i] = F[s[i]]
<1>1. Len(s) \in Nat /\ DOMAIN s = 1 .. Len(s)
  BY LenProperties
<1> QED BY <1>1 DEF Images

\* Flat of nothing, and of one element more.
LEMMA FlatEmpty ==
  ASSUME NEW F
  PROVE  Flat(F, <<>>) = <<>>
<1>1. Images(F, <<>>) = <<>>
  BY DEF Images
<1> QED BY <1>1, EmptySeq DEF Flat, FlattenSeq

\* With another element, its image is put at the end.
LEMMA FlatAppend ==
  ASSUME NEW S, NEW T, NEW F, NEW s \in Seq(S), NEW x \in S, F[x] \in Seq(T)
  PROVE  Flat(F, Append(s, x)) = Flat(F, s) \o F[x]
<1>1. PICK n \in Nat : n = Len(s)
  BY LenProperties
<1>2. PICK t \in Seq(S) : t = Append(s, x) /\ Len(t) = n + 1 /\ t[n + 1] = x /\ \A i \in 1 .. n : t[i] = s[i]
  <2>1. PICK t : t = Append(s, x)
    OBVIOUS
  <2>2. t \in Seq(S) /\ Len(t) = Len(s) + 1 /\ t[Len(s) + 1] = x /\ \A i \in 1 .. Len(s) : t[i] = s[i]
    BY <2>1, AppendProperties
  <2> QED BY <1>1, <2>1, <2>2
<1>3. PICK u, v : u = Images(F, s) /\ v = Images(F, t)
  OBVIOUS
<1>4. Len(u) = n /\ \A i \in 1 .. n : u[i] = F[s[i]]
  BY <1>1, <1>3, ImagesFacts
<1>5. Len(v) = n + 1 /\ \A i \in 1 .. n + 1 : v[i] = F[t[i]]
  <2>1. Len(v) = Len(t) /\ \A i \in 1 .. Len(t) : v[i] = F[t[i]]
    <3>1. t \in Seq(S)
      BY <1>2
    <3>2. v = Images(F, t)
      BY <1>3
    <3> QED BY ONLY <3>1, <3>2, ImagesFacts
  <2> QED BY <1>2, <2>1
<1>6. v[n + 1] = F[x] /\ \A i \in 1 .. n : u[i] = v[i]
  BY <1>1, <1>2, <1>4, <1>5
<1>7. FlattenSeq(v) = IF n = 0 THEN v[1] ELSE Join(FlattenSeq(u), v[n + 1])
  <2>1. n \in Nat /\ Len(u) = n /\ Len(v) = n + 1 /\ \A i \in 1 .. n : u[i] = v[i]
    BY <1>1, <1>4, <1>5, <1>6
  <2> QED BY ONLY <2>1, FlattenDef
<1>8. CASE n = 0
  <2>1. s = <<>>
    BY <1>1, <1>8, EmptySeq
  <2>2. Flat(F, s) = <<>>
    BY <2>1, FlatEmpty
  <2>3. <<>> \o F[x] = F[x]
    BY ConcatEmptySeq
  <2>4. FlattenSeq(v) = F[x]
    BY <1>6, <1>7, <1>8
  <2> QED BY <1>2, <1>3, <2>2, <2>3, <2>4, Zenon DEF Flat
<1>9. CASE n # 0
  <2>1. FlattenSeq(v) = Join(FlattenSeq(u), F[x])
    BY <1>6, <1>7, <1>9
  <2> QED BY <1>2, <1>3, <2>1, Zenon DEF Flat, Join
<1> QED BY <1>8, <1>9

\* Flat is a sequence,
LEMMA FlatType ==
  ASSUME NEW S, NEW T, NEW F, \A x \in S : F[x] \in Seq(T), NEW s \in Seq(S)
  PROVE  Flat(F, s) \in Seq(T)
<1> DEFINE Bad == {Len(t) : t \in {u \in Seq(S) : Flat(F, u) \notin Seq(T)}}
<1> SUFFICES ASSUME Bad # {} PROVE FALSE
  OBVIOUS
<1>1. PICK n \in Bad : n \in Nat /\ \A m \in Bad : n <= m
  <2>1. Bad \subseteq Nat
    BY LenProperties
  <2> HIDE DEF Bad
  <2> QED BY <2>1, Least
<1>2. PICK t \in Seq(S) : n = Len(t) /\ Flat(F, t) \notin Seq(T)
  OBVIOUS
<1>3. t # <<>>
  <2>1. Flat(F, <<>>) \in Seq(T)
    BY FlatEmpty, EmptySeq
  <2> QED BY <1>2, <2>1
<1>4. PICK u \in Seq(S), x \in S : t = Append(u, x)
  BY <1>3, SequenceEmptyOrAppend
<1>5. Len(u) \in Nat /\ Len(t) = Len(u) + 1
  BY <1>4, AppendProperties, LenProperties
<1>6. Flat(F, u) \in Seq(T)
  <2>1. ~(n <= Len(u))
    BY <1>2, <1>5
  <2> QED BY <1>1, <2>1
<1>7. F[x] \in Seq(T)
  BY <1>4
<1>8. Flat(F, t) = Flat(F, u) \o F[x]
  <2>1. Flat(F, Append(u, x)) = Flat(F, u) \o F[x]
    BY ONLY u \in Seq(S), x \in S, <1>7, FlatAppend
  <2> QED BY <1>4, <2>1
<1> QED BY <1>2, <1>6, <1>7, <1>8, ConcatProperties

\* Sequences are put together in any grouping.
LEMMA Associative ==
  ASSUME NEW S
  PROVE  \A k, l, m \in Words(S) : Join(Join(k, l), m) = Join(k, Join(l, m))
<1> SUFFICES ASSUME NEW k \in Words(S), NEW l \in Words(S), NEW m \in Words(S)
             PROVE  Join(Join(k, l), m) = Join(k, Join(l, m))
  OBVIOUS
<1>1. (k \o l) \o m = k \o (l \o m)
  BY ConcatAssociative DEF Words
<1> QED BY <1>1, Zenon DEF Join

\* and that of two sequences is what they give one after the other.
LEMMA FlatConcat ==
  ASSUME NEW S, NEW T, NEW F, \A x \in S : F[x] \in Seq(T), NEW s \in Seq(S), NEW r \in Seq(S)
  PROVE  Flat(F, s) \in Seq(T) /\ Flat(F, Join(s, r)) = Join(Flat(F, s), Flat(F, r))
<1> SUFFICES Flat(F, s) \in Seq(T) /\ Flat(F, s \o r) = Flat(F, s) \o Flat(F, r)
  BY Zenon DEF Join
<1>0. Flat(F, s) \in Seq(T)
  BY FlatType
<1> DEFINE Bad == {Len(t) : t \in {u \in Seq(S) : Flat(F, s \o u) # Flat(F, s) \o Flat(F, u)}}
<1> SUFFICES ASSUME Bad # {} PROVE FALSE
  BY <1>0
<1>1. PICK n \in Bad : n \in Nat /\ \A m \in Bad : n <= m
  <2>1. Bad \subseteq Nat
    BY LenProperties
  <2> HIDE DEF Bad
  <2> QED BY <2>1, Least
<1>2. PICK t \in Seq(S) : n = Len(t) /\ Flat(F, s \o t) # Flat(F, s) \o Flat(F, t)
  OBVIOUS
<1>3. \A u \in Seq(S) : Len(u) \notin Bad => Flat(F, s \o u) = Flat(F, s) \o Flat(F, u)
  OBVIOUS
<1> HIDE DEF Bad
<1>4. t # <<>>
  <2>1. Flat(F, s) \o <<>> = Flat(F, s) /\ s \o <<>> = s
    BY FlatType, ConcatEmptySeq
  <2> QED BY <1>2, <2>1, FlatEmpty
<1>5. PICK u \in Seq(S), x \in S : t = Append(u, x)
  BY <1>2, <1>4, SequenceEmptyOrAppend
<1>6. Len(u) \in Nat /\ Len(t) = Len(u) + 1 /\ u \in Seq(S) /\ x \in S /\ F[x] \in Seq(T)
  BY <1>5, AppendProperties, LenProperties
<1>7. Flat(F, s \o u) = Flat(F, s) \o Flat(F, u)
  <2>1. ~(n <= Len(u))
    BY <1>1, <1>2, <1>6
  <2> QED BY <1>1, <1>3, <1>6, <2>1
<1>8. s \o u \in Seq(S) /\ s \o t = Append(s \o u, x)
  <2>1. <<x>> \in Seq(S) /\ s \o u \in Seq(S)
    BY <1>6, OneElement, ConcatProperties
  <2>2. t = u \o <<x>> /\ Append(s \o u, x) = (s \o u) \o <<x>>
    BY <1>5, <1>6, <2>1, AppendIsConcat
  <2>3. (s \o u) \o <<x>> = s \o (u \o <<x>>)
    <3>1. s \in Words(S) /\ u \in Words(S) /\ <<x>> \in Words(S)
      BY <2>1 DEF Words
    <3>2. Join(Join(s, u), <<x>>) = Join(s, Join(u, <<x>>))
      BY <3>1, Associative
    <3> QED BY <3>2, Zenon DEF Join
  <2> QED BY <2>1, <2>2, <2>3
<1>9. Flat(F, s \o t) = Flat(F, s \o u) \o F[x] /\ Flat(F, t) = Flat(F, u) \o F[x]
  <2>1. Flat(F, Append(s \o u, x)) = Flat(F, s \o u) \o F[x]
    <3>1. PICK c : c = s \o u
      OBVIOUS
    <3>2. c \in Seq(S) /\ x \in S /\ F[x] \in Seq(T)
      BY <1>6, <1>8, <3>1
    <3>3. Flat(F, Append(c, x)) = Flat(F, c) \o F[x]
      BY ONLY <3>2, FlatAppend
    <3> QED BY ONLY <3>1, <3>3
  <2>2. Flat(F, Append(u, x)) = Flat(F, u) \o F[x]
    BY <1>6, FlatAppend
  <2> QED BY <1>5, <1>8, <2>1, <2>2
<1>10. PICK y \in Seq(T), z \in Seq(T), f \in Seq(T) : y = Flat(F, s) /\ z = Flat(F, u) /\ f = F[x]
  BY <1>6, FlatType
<1>11. (y \o z) \o f = y \o (z \o f)
  <2>1. y \in Words(T) /\ z \in Words(T) /\ f \in Words(T)
    BY DEF Words
  <2>2. Join(Join(y, z), f) = Join(y, Join(z, f))
    BY ONLY <2>1, Associative
  <2> QED BY <2>2, Zenon DEF Join
<1> QED BY <1>2, <1>7, <1>9, <1>10, <1>11

\* What one element gives.
LEMMA FlatOne ==
  ASSUME NEW S, NEW T, NEW F, NEW x \in S, F[x] \in Seq(T)
  PROVE  Flat(F, <<x>>) = F[x]
<1>1. <<>> \in Seq(S) /\ <<x>> = Append(<<>>, x)
  BY EmptySeq
<1>2. Flat(F, <<x>>) = Flat(F, <<>>) \o F[x]
  <2>1. PICK e \in Seq(S) : e = <<>>
    BY <1>1
  <2>2. Flat(F, Append(e, x)) = Flat(F, e) \o F[x]
    BY ONLY e \in Seq(S), x \in S, F[x] \in Seq(T), FlatAppend
  <2> QED BY <1>1, <2>1, <2>2
<1> QED BY <1>2, FlatEmpty, ConcatEmptySeq

-----------------------------------------------------------------------------
(* Sequences as words: Join, One and Words stand for \o, <<_>> and Seq, so *)
(* that the provers see their laws and not their definitions.              *)

\* Join is associative, and the empty word does nothing.
LEMMA Monoid ==
  ASSUME NEW S
  PROVE  /\ <<>> \in Words(S)
         /\ \A x \in S : One(x) \in Words(S)
         /\ \A k, l \in Words(S) : Join(k, l) \in Words(S)
         /\ \A k \in Words(S) : Join(k, <<>>) = k /\ Join(<<>>, k) = k
<1>1. <<>> \in Words(S)
  BY EmptySeq DEF Words
<1>2. \A x \in S : One(x) \in Words(S)
  BY OneElement DEF Words, One
<1>3. \A k, l \in Words(S) : Join(k, l) \in Words(S)
  BY ConcatProperties DEF Words, Join
<1>4. \A k \in Words(S) : Join(k, <<>>) = k /\ Join(<<>>, k) = k
  BY ConcatEmptySeq DEF Words, Join
<1> QED BY <1>1, <1>2, <1>3, <1>4

\* A word has the elements of e at first, or behind n others.
Opens(k, e) == \A i \in 1 .. Len(e) : k[i] = e[i]
Shows(k, n, e) == \A i \in 1 .. Len(e) : k[n + i] = e[i]

\* The elements of a word that is joined.
LEMMA AtJoin ==
  ASSUME NEW S, NEW k \in Words(S), NEW l \in Words(S)
  PROVE  /\ Len(k) \in Nat /\ Len(l) \in Nat /\ Len(Join(k, l)) = Len(k) + Len(l)
         /\ Opens(Join(k, l), k) /\ Shows(Join(k, l), Len(k), l)
<1>1. /\ Len(k) \in Nat /\ Len(l) \in Nat /\ Len(k \o l) = Len(k) + Len(l)
      /\ \A i \in 1 .. Len(k) : (k \o l)[i] = k[i]
      /\ \A i \in 1 .. Len(l) : (k \o l)[Len(k) + i] = l[i]
  BY Behind DEF Words
<1>2. k \o l = Join(k, l)
  BY Zenon DEF Join
<1>3. Opens(Join(k, l), k) /\ Shows(Join(k, l), Len(k), l)
  BY <1>1, <1>2, Zenon DEF Opens, Shows
<1> QED BY <1>1, <1>2, <1>3

\* The element of a word of one.
LEMMA AtOne ==
  ASSUME NEW x
  PROVE  Len(One(x)) = 1 /\ One(x)[1] = x
BY DEF One

\* A word is empty or has a first element,
LEMMA FirstOf ==
  ASSUME NEW S
  PROVE  \A k \in Words(S) : k = <<>> \/ \E x \in S, r \in Words(S) : x = k[1] /\ k = Join(One(x), r)
<1> SUFFICES ASSUME NEW k \in Seq(S), k # <<>>
             PROVE  \E x \in S, r \in Seq(S) : x = k[1] /\ k = Join(One(x), r)
  BY DEF Words
<1>1. k \in Seq(S) /\ 1 \in 1 .. Len(k)
  BY EmptySeq, LenProperties
<1>2. /\ SubSeq(k, 1, 1 - 1) \in Seq(S) /\ SubSeq(k, 1 + 1, Len(k)) \in Seq(S) /\ k[1] \in S
      /\ k = Join(SubSeq(k, 1, 1 - 1), Join(One(k[1]), SubSeq(k, 1 + 1, Len(k))))
  BY ONLY <1>1, Middle
<1>3. SubSeq(k, 1, 1 - 1) = <<>>
  BY SubSeqEmpty
<1>4. PICK r, g : r = SubSeq(k, 1 + 1, Len(k)) /\ g = Join(One(k[1]), r)
  OBVIOUS
<1>5. r \in Words(S) /\ One(k[1]) \in Words(S) /\ k = Join(<<>>, g)
  BY <1>2, <1>3, <1>4, Monoid DEF Words
<1>6. g \in Words(S)
  BY ONLY <1>4, <1>5, Monoid
<1>7. k = g
  BY ONLY <1>5, <1>6, Monoid
<1> QED BY <1>2, <1>4, <1>5, <1>7 DEF Words

\* and only one.
LEMMA Cancel ==
  ASSUME NEW S
  PROVE  /\ \A x \in S, r \in Words(S) : Join(One(x), r) # <<>>
         /\ \A p, k, l \in Words(S) : Join(p, k) = Join(p, l) => k = l
         /\ \A x, y \in S, r, q \in Words(S) : Join(One(x), r) = Join(One(y), q) => x = y /\ r = q
         /\ \A k, l \in Words(S) : Join(k, l) = k => l = <<>>
<1>1. ASSUME NEW x \in S, NEW r \in Words(S)
      PROVE  Join(One(x), r) # <<>>
  <2>1. PICK m : m = One(x)
    OBVIOUS
  <2>2. m \in Words(S) /\ Len(m) = 1
    BY <2>1, Monoid, AtOne
  <2>3. Len(Join(m, r)) = 1 + Len(r) /\ Len(r) \in Nat
    <3>1. Len(Join(m, r)) = Len(m) + Len(r) /\ Len(r) \in Nat
      BY ONLY <2>2, r \in Words(S), AtJoin
    <3> QED BY <2>2, <3>1
  <2> QED BY <2>1, <2>3, EmptySeq
<1>2. ASSUME NEW p \in Words(S), NEW k \in Words(S), NEW l \in Words(S), Join(p, k) = Join(p, l)
      PROVE  k = l
  <2>1. Len(p) \in Nat /\ Len(k) \in Nat /\ Len(Join(p, k)) = Len(p) + Len(k)
        /\ \A i \in 1 .. Len(k) : Join(p, k)[Len(p) + i] = k[i]
    BY ONLY p \in Words(S), k \in Words(S), AtJoin DEF Shows
  <2>2. Len(l) \in Nat /\ Len(Join(p, l)) = Len(p) + Len(l)
        /\ \A i \in 1 .. Len(l) : Join(p, l)[Len(p) + i] = l[i]
    BY ONLY p \in Words(S), l \in Words(S), AtJoin DEF Shows
  <2>3. Len(k) = Len(l) /\ \A i \in 1 .. Len(k) : k[i] = l[i]
    BY <1>2, <2>1, <2>2
  <2> QED BY <2>3, SeqEqual DEF Words
<1>3. ASSUME NEW x \in S, NEW y \in S, NEW r \in Words(S), NEW q \in Words(S), Join(One(x), r) = Join(One(y), q)
      PROVE  x = y /\ r = q
  <2>1. One(x) \in Words(S) /\ One(y) \in Words(S) /\ Len(One(x)) = 1 /\ One(x)[1] = x /\ Len(One(y)) = 1 /\ One(y)[1] = y
    BY Monoid, AtOne
  <2>2. \A i \in 1 .. Len(One(x)) : Join(One(x), r)[i] = One(x)[i]
    <3>1. Opens(Join(One(x), r), One(x))
      BY <2>1, AtJoin
    <3> QED BY <3>1 DEF Opens
  <2>3. \A i \in 1 .. Len(One(y)) : Join(One(y), q)[i] = One(y)[i]
    <3>1. Opens(Join(One(y), q), One(y))
      BY <2>1, AtJoin
    <3> QED BY <3>1 DEF Opens
  <2>4. x = y
    BY <1>3, <2>1, <2>2, <2>3
  <2> QED BY <1>2, <1>3, <2>1, <2>4
<1>4. ASSUME NEW k \in Words(S), NEW l \in Words(S), Join(k, l) = k
      PROVE  l = <<>>
  <2>1. <<>> \in Words(S) /\ Join(k, <<>>) = k
    BY Monoid
  <2> QED BY <1>2, <1>4, <2>1
<1> QED BY <1>1, <1>2, <1>3, <1>4

\* What begins a word.
LEMMA Begins ==
  ASSUME NEW S
  PROVE  \A k, l \in Words(S) :
           /\ IsPrefix(k, l) <=> \E r \in Words(S) : l = Join(k, r)
           /\ IsStrictPrefix(k, l) <=> \E x \in S, r \in Words(S) : l = Join(k, Join(One(x), r))
<1> SUFFICES ASSUME NEW k \in Words(S), NEW l \in Words(S)
             PROVE  /\ IsPrefix(k, l) <=> \E r \in Words(S) : l = Join(k, r)
                    /\ IsStrictPrefix(k, l) <=> \E x \in S, r \in Words(S) : l = Join(k, Join(One(x), r))
  OBVIOUS
<1>1. IsPrefix(k, l) <=> \E r \in Words(S) : l = Join(k, r)
  <2>1. \A r : Join(k, r) = k \o r
    BY Zenon DEF Join
  <2>2. k \in Seq(S) /\ l \in Seq(S)
    BY DEF Words
  <2>3. ASSUME IsPrefix(k, l)
        PROVE  \E r \in Seq(S) : l = k \o r
    <3>1. PICK q \in Seq(S) : q = SubSeq(l, Len(k) + 1, Len(l)) /\ l = k \o q
      BY ONLY <2>2, <2>3, PrefixRest
    <3> QED BY <3>1, Zenon
  <2>4. ASSUME NEW r \in Seq(S), l = k \o r
        PROVE  IsPrefix(k, l)
    BY ONLY <2>2, <2>4, PrefixRest
  <2> QED BY <2>1, <2>3, <2>4, Zenon DEF Words
<1>2. ASSUME NEW r \in Words(S), l = Join(k, r), k # l
      PROVE  \E x \in S, q \in Words(S) : l = Join(k, Join(One(x), q))
  <2>1. r # <<>>
    BY <1>2, Monoid
  <2> QED BY <1>2, <2>1, FirstOf
<1>3. ASSUME NEW x \in S, NEW q \in Words(S), l = Join(k, Join(One(x), q))
      PROVE  k # l /\ IsPrefix(k, l)
  <2>1. Join(One(x), q) \in Words(S) /\ Join(One(x), q) # <<>>
    BY Monoid, Cancel
  <2> QED BY <1>1, <1>3, <2>1, Cancel
<1> QED BY <1>1, <1>2, <1>3 DEF IsStrictPrefix

\* Two words are parted where their elements first differ.
Parted(k, l, p, x, r, y, q) == k = Join(p, Join(One(x), r)) /\ l = Join(p, Join(One(y), q))

\* Words that differ at an element are parted there, if they agree before it.
LEMMA PartedAt ==
  ASSUME NEW S, NEW k \in Words(S), NEW l \in Words(S), NEW j \in 1 .. Len(k), j <= Len(l),
         \A i \in 1 .. j - 1 : k[i] = l[i]
  PROVE  /\ k[j] \in S /\ l[j] \in S
         /\ \E p, r, q \in Words(S) : Parted(k, l, p, k[j], r, l[j], q)
<1>1. k \in Seq(S) /\ l \in Seq(S)
  BY DEF Words
<1>2. j \in 1 .. Len(l)
  BY <1>1, LenProperties
<1>3. PICK p, r \in Seq(S) : p = SubSeq(k, 1, j - 1) /\ k[j] \in S /\ k = Join(p, Join(One(k[j]), r))
  <2>1. k \in Seq(S) /\ j \in 1 .. Len(k)
    BY <1>1
  <2>2. /\ SubSeq(k, 1, j - 1) \in Seq(S) /\ SubSeq(k, j + 1, Len(k)) \in Seq(S) /\ k[j] \in S
        /\ k = Join(SubSeq(k, 1, j - 1), Join(One(k[j]), SubSeq(k, j + 1, Len(k))))
    BY ONLY <2>1, Middle
  <2> QED BY ONLY <2>2
<1>4. PICK u, q \in Seq(S) : u = SubSeq(l, 1, j - 1) /\ l[j] \in S /\ l = Join(u, Join(One(l[j]), q))
  <2>1. l \in Seq(S) /\ j \in 1 .. Len(l)
    BY <1>1, <1>2
  <2>2. /\ SubSeq(l, 1, j - 1) \in Seq(S) /\ SubSeq(l, j + 1, Len(l)) \in Seq(S) /\ l[j] \in S
        /\ l = Join(SubSeq(l, 1, j - 1), Join(One(l[j]), SubSeq(l, j + 1, Len(l))))
    BY ONLY <2>1, Middle
  <2> QED BY ONLY <2>2
<1>5. p = u
  BY <1>1, <1>3, <1>4, SameStart
<1>8. p \in Words(S) /\ r \in Words(S) /\ q \in Words(S)
  BY <1>3, <1>4 DEF Words
<1>9. Parted(k, l, p, k[j], r, l[j], q)
  BY <1>3, <1>4, <1>5 DEF Parted
<1> QED BY <1>3, <1>4, <1>8, <1>9

\* Words that are parted have the same elements up to the place, and these at it.
LEMMA AtParted ==
  ASSUME NEW S
  PROVE  \A p, r, k \in Words(S), x \in S : k = Join(p, Join(One(x), r)) =>
           /\ Len(p) \in Nat /\ Len(p) + 1 \in 1 .. Len(k)
           /\ k[Len(p) + 1] = x /\ \A i \in 1 .. Len(p) : k[i] = p[i]
<1> SUFFICES ASSUME NEW p \in Words(S), NEW x \in S, NEW r \in Words(S), NEW k \in Words(S), k = Join(p, Join(One(x), r))
             PROVE  /\ Len(p) \in Nat /\ Len(p) + 1 \in 1 .. Len(k)
                    /\ k[Len(p) + 1] = x /\ \A i \in 1 .. Len(p) : k[i] = p[i]
  OBVIOUS
<1>1. PICK m \in Words(S) : m = One(x) /\ Len(m) = 1 /\ m[1] = x
  BY Monoid, AtOne
<1>2. PICK n \in Words(S) : n = Join(m, r)
  BY Monoid
<1>3. Len(r) \in Nat /\ Len(n) = 1 + Len(r) /\ n[1] = x
  <2>1. Len(r) \in Nat /\ Len(n) = Len(m) + Len(r) /\ Opens(n, m)
    BY <1>2, AtJoin
  <2> QED BY <1>1, <2>1 DEF Opens
<1>4. k = Join(p, n)
  BY <1>1, <1>2
<1>5. /\ Len(p) \in Nat /\ Len(k) = Len(p) + Len(n) /\ \A i \in 1 .. Len(p) : k[i] = p[i]
      /\ \A i \in 1 .. Len(n) : k[Len(p) + i] = n[i]
  <2>1. Len(p) \in Nat /\ Len(k) = Len(p) + Len(n)
    BY <1>4, AtJoin
  <2>2. \A i \in 1 .. Len(p) : Join(p, n)[i] = p[i]
    <3>1. Opens(Join(p, n), p)
      BY AtJoin
    <3> QED BY <3>1 DEF Opens
  <2>3. \A i \in 1 .. Len(n) : Join(p, n)[Len(p) + i] = n[i]
    <3>1. Shows(Join(p, n), Len(p), n)
      BY AtJoin
    <3> QED BY <3>1 DEF Shows
  <2> QED BY <1>4, <2>1, <2>2, <2>3
<1>6. 1 \in 1 .. Len(n)
  BY <1>3
<1> QED BY <1>3, <1>5, <1>6

\* Two words are parted, or one begins the other.
LEMMA Diverge ==
  ASSUME NEW S
  PROVE  \A k, l \in Words(S) :
           \/ k = l \/ IsStrictPrefix(k, l) \/ IsStrictPrefix(l, k)
           \/ \E x, y \in S, p, r, q \in Words(S) : x # y /\ Parted(k, l, p, x, r, y, q)
<1> SUFFICES ASSUME NEW k \in Words(S), NEW l \in Words(S)
             PROVE  \/ k = l \/ IsStrictPrefix(k, l) \/ IsStrictPrefix(l, k)
                    \/ \E x, y \in S, p, r, q \in Words(S) : x # y /\ Parted(k, l, p, x, r, y, q)
  OBVIOUS
<1>1. \/ IsPrefix(k, l) \/ IsPrefix(l, k)
      \/ \E j \in 1 .. Len(k) : j <= Len(l) /\ k[j] # l[j] /\ \A i \in 1 .. j - 1 : k[i] = l[i]
  BY FirstDifference DEF Words
<1>2. CASE \E j \in 1 .. Len(k) : j <= Len(l) /\ k[j] # l[j] /\ \A i \in 1 .. j - 1 : k[i] = l[i]
  <2>1. PICK j \in 1 .. Len(k) : j <= Len(l) /\ k[j] # l[j] /\ \A i \in 1 .. j - 1 : k[i] = l[i]
    BY <1>2
  <2>2. k[j] \in S /\ l[j] \in S /\ \E p, r, q \in Words(S) : Parted(k, l, p, k[j], r, l[j], q)
    BY <2>1, PartedAt
  <2> QED BY <2>1, <2>2
<1> QED BY <1>1, <1>2 DEF IsStrictPrefix

-----------------------------------------------------------------------------
(* Strings.                                                                *)

\* What is assumed of the codes.
LEMMA CodeFacts ==
  /\ Base \in Nat /\ Zero \in Nat /\ MaxBytes \in Nat /\ Precision \in Nat
  /\ Base > 6 /\ MaxBytes > 0 /\ Precision > 0
  /\ FF \in Nat /\ FF = Base - 1 /\ FF > 0
  /\ 2 < Zero - MaxBytes - 1 /\ Zero + MaxBytes + 1 < FF
  /\ Bytes \in SUBSET Int
  /\ \A b : b \in Bytes <=> b \in Int /\ 0 <= b /\ b <= FF
  /\ 0 \in Bytes /\ 1 \in Bytes /\ 2 \in Bytes /\ FF \in Bytes
BY CodesAssumption DEF FF, Bytes

\* The order of byte strings, in terms of words.
LEMMA DecidedIs ==
  ASSUME NEW S \in SUBSET Int, NEW k \in Words(S), NEW l \in Words(S)
  PROVE  /\ Before(k, l) <=> IsStrictPrefix(k, l) \/ Decided(k, l)
         /\ k = l \/ IsStrictPrefix(k, l) \/ IsStrictPrefix(l, k) \/ Decided(k, l) \/ Decided(l, k)
         /\ Decided(k, l) => ~Decided(l, k) /\ ~IsPrefix(k, l) /\ ~IsPrefix(l, k) /\ k # l
         /\ Decided(k, l) => \E a, b \in S, p, r, q \in Words(S) : a < b /\ Parted(k, l, p, a, r, b, q)
<1>1. k \in Seq(S) /\ l \in Seq(S)
  BY DEF Words
<1>2. Before(k, l) <=> IsStrictPrefix(k, l) \/ Decided(k, l)
  BY <1>1, BeforeIs
<1>3. IsPrefix(k, l) \/ IsPrefix(l, k) \/ Decided(k, l) \/ Decided(l, k)
  BY <1>1, Compared
<1>4. Decided(k, l) => ~Decided(l, k) /\ ~IsPrefix(k, l) /\ ~IsPrefix(l, k) /\ k # l
  BY <1>1, DecidedOnce
<1>5. ASSUME Decided(k, l)
      PROVE  \E a, b \in S, p, r, q \in Words(S) : a < b /\ Parted(k, l, p, a, r, b, q)
  <2>1. PICK j \in 1 .. Len(k) : j <= Len(l) /\ k[j] < l[j] /\ \A i \in 1 .. j - 1 : k[i] = l[i]
    BY <1>5 DEF Decided
  <2>2. k[j] \in S /\ l[j] \in S /\ \E p, r, q \in Words(S) : Parted(k, l, p, k[j], r, l[j], q)
    BY <2>1, PartedAt
  <2> QED BY <2>1, <2>2
<1> QED BY <1>2, <1>3, <1>4, <1>5 DEF IsStrictPrefix

\* A smaller byte decides, whatever comes before and after.
LEMMA PartedDecides ==
  ASSUME NEW S \in SUBSET Int, NEW a \in S, NEW b \in S, a < b,
         NEW p \in Words(S), NEW r \in Words(S), NEW q \in Words(S)
  PROVE  Decided(Join(p, Join(One(a), r)), Join(p, Join(One(b), q)))
BY DecidedByByte DEF Words, Join, One

\* What is decided stays decided in front of more and behind the same.
LEMMA DecidedJoin ==
  ASSUME NEW S, NEW k \in Words(S), NEW l \in Words(S), NEW p \in Words(S), NEW q \in Words(S), Decided(k, l)
  PROVE  Decided(Join(k, p), Join(l, q)) /\ Decided(Join(p, k), Join(p, l))
BY DecidedAfter, DecidedBehind DEF Words, Join

EscapeOf == [b \in Bytes |-> IF b = 0 THEN <<0, FF>> ELSE <<b>>]
Stuffing(b) == IF b = 0 THEN One(FF) ELSE <<>>

\* A byte, escaped, is the byte and what is stuffed behind it.
LEMMA EscapeOfByte ==
  ASSUME NEW b \in Bytes
  PROVE  EscapeOf[b] = Join(One(b), Stuffing(b)) /\ EscapeOf[b] \in Words(Bytes) /\ Stuffing(b) \in Words(Bytes)
<1>1. Stuffing(b) \in Words(Bytes)
  BY CodeFacts, Monoid DEF Stuffing
<1>2. EscapeOf[b] = IF b = 0 THEN <<0, FF>> ELSE <<b>>
  BY DEF EscapeOf
<1>3. CASE b = 0
  <2>1. <<0>> \o <<FF>> = <<0, FF>>
    <3>1. <<0>> \in Seq(Bytes) /\ FF \in Bytes
      BY CodeFacts, OneElement
    <3>2. Append(<<0>>, FF) = <<0>> \o <<FF>>
      BY <3>1, AppendIsConcat
    <3>3. Append(<<0>>, FF) = <<0, FF>>
      <4>1. PICK s, t : s = Append(<<0>>, FF) /\ t = <<0, FF>>
        OBVIOUS
      <4>2. t \in Seq(Bytes) /\ Len(t) = 2 /\ t[1] = 0 /\ t[2] = FF
        BY <4>1, CodeFacts
      <4>3. s \in Seq(Bytes) /\ Len(s) = 2 /\ s[1] = 0 /\ s[2] = FF
        BY <3>1, <4>1, OneElement, CodeFacts, AppendProperties
      <4>4. \A i \in 1 .. 2 : s[i] = t[i]
        BY <4>2, <4>3
      <4> QED BY <4>1, <4>2, <4>3, <4>4, SeqEqual
    <3> QED BY <3>2, <3>3
  <2>2. Join(One(b), Stuffing(b)) = <<0, FF>>
    BY <1>3, <2>1 DEF Stuffing, Join, One
  <2> QED BY <1>1, <1>2, <1>3, <2>2, Monoid
<1>4. CASE b # 0
  <2>1. Stuffing(b) = <<>> /\ EscapeOf[b] = One(b)
    BY <1>2, <1>4 DEF Stuffing, One
  <2> QED BY <1>1, <2>1, Monoid
<1> QED BY <1>3, <1>4

\* Escaped is put together byte by byte.
LEMMA EscapedFacts ==
  /\ Escaped(<<>>) = <<>>
  /\ \A b \in Bytes : Escaped(One(b)) = Join(One(b), Stuffing(b)) /\ Stuffing(b) \in Words(Bytes)
  /\ \A s \in Words(Bytes) : Escaped(s) \in Words(Bytes)
  /\ \A s, r \in Words(Bytes) : Escaped(Join(s, r)) = Join(Escaped(s), Escaped(r))
<1>1. ASSUME NEW s \in Words(Bytes)
      PROVE  Escaped(s) = Flat(EscapeOf, s)
  <2>1. \A i \in DOMAIN s : s[i] \in Bytes
    BY LenProperties, ElementOfSeq DEF Words
  <2>2. [i \in DOMAIN s |-> IF s[i] = 0 THEN <<0, FF>> ELSE <<s[i]>>] = Images(EscapeOf, s)
    BY <2>1 DEF Images, EscapeOf
  <2> QED BY <2>2, Zenon DEF Escaped, Flat
<1>2. \A b \in Bytes : EscapeOf[b] \in Seq(Bytes)
  BY EscapeOfByte DEF Words
<1>3. Escaped(<<>>) = <<>>
  BY <1>1, Monoid, FlatEmpty
<1>4. \A s \in Words(Bytes) : Flat(EscapeOf, s) \in Words(Bytes)
  BY <1>2, FlatType DEF Words
<1>5. ASSUME NEW b \in Bytes
      PROVE  Flat(EscapeOf, One(b)) = Join(One(b), Stuffing(b))
  <2>1. EscapeOf[b] \in Seq(Bytes) /\ EscapeOf[b] = Join(One(b), Stuffing(b))
    BY EscapeOfByte, <1>2
  <2>2. Flat(EscapeOf, One(b)) = EscapeOf[b]
    BY <2>1, FlatOne DEF One
  <2> QED BY <2>1, <2>2
<1>6. ASSUME NEW s \in Words(Bytes), NEW r \in Words(Bytes)
      PROVE  Flat(EscapeOf, Join(s, r)) = Join(Flat(EscapeOf, s), Flat(EscapeOf, r))
  <2>1. s \in Seq(Bytes) /\ r \in Seq(Bytes)
    BY DEF Words
  <2> QED BY ONLY <1>2, <2>1, FlatConcat
<1>7. \A b \in Bytes : One(b) \in Words(Bytes) /\ Stuffing(b) \in Words(Bytes)
  BY Monoid, EscapeOfByte
<1>8. \A s, r \in Words(Bytes) : Join(s, r) \in Words(Bytes)
  BY Monoid
<1> QED BY <1>1, <1>3, <1>4, <1>5, <1>6, <1>7, <1>8

\* A string under a code.
Coded(c, s) == Join(One(c), Join(Escaped(s), One(0)))

\* Such a string at one of its bytes.
LEMMA CodedAt ==
  ASSUME NEW c \in Bytes, NEW p \in Words(Bytes), NEW b \in Bytes, NEW r \in Words(Bytes)
  PROVE  \E x, y \in Words(Bytes) :
           /\ x = Join(One(c), Escaped(p))
           /\ y = Join(Escaped(r), One(0))
           /\ Join(Stuffing(b), y) \in Words(Bytes)
           /\ Coded(c, Join(p, Join(One(b), r))) = Join(x, Join(One(b), Join(Stuffing(b), y)))
           /\ Coded(c, p) = Join(x, Join(One(0), <<>>))
<1>1. PICK e, f, u, k, z, m \in Words(Bytes) :
        e = Escaped(p) /\ f = Escaped(r) /\ u = Stuffing(b) /\ k = One(c) /\ z = One(0) /\ m = One(b)
  <2>1. Escaped(p) \in Words(Bytes) /\ Escaped(r) \in Words(Bytes) /\ Stuffing(b) \in Words(Bytes)
    BY EscapedFacts
  <2>2. One(c) \in Words(Bytes) /\ One(0) \in Words(Bytes) /\ One(b) \in Words(Bytes)
    BY CodeFacts, Monoid
  <2> QED BY <2>1, <2>2
<1>2. Escaped(Join(p, Join(m, r))) = Join(e, Join(Join(m, u), f))
  <2>1. Join(m, r) \in Words(Bytes)
    BY Monoid
  <2> QED BY <1>1, <2>1, EscapedFacts
<1>3. PICK g \in Words(Bytes) : g = Join(f, z)
  BY Monoid
<1>4. Join(Join(e, Join(Join(m, u), f)), z) = Join(e, Join(m, Join(u, g)))
  <2>1. Join(m, u) \in Words(Bytes) /\ Join(u, f) \in Words(Bytes) /\ Join(u, g) \in Words(Bytes) /\ Join(Join(m, u), f) \in Words(Bytes)
    BY Monoid
  <2> QED BY <1>3, <2>1, Associative
<1>5. PICK n \in Words(Bytes) : n = Join(m, Join(u, g))
  BY Monoid
<1>6. Join(k, Join(e, n)) = Join(Join(k, e), n) /\ Join(k, e) \in Words(Bytes)
      /\ Join(k, Join(e, z)) = Join(Join(k, e), z)
  BY Associative, Monoid
<1>7. Join(u, g) \in Words(Bytes) /\ Join(z, <<>>) = z
  BY Monoid
<1>8. Coded(c, Join(p, Join(One(b), r))) = Join(k, Join(e, n))
  BY <1>1, <1>2, <1>4, <1>5 DEF Coded
<1>9. Coded(c, p) = Join(k, Join(e, z))
  BY <1>1 DEF Coded
<1> QED BY <1>1, <1>3, <1>5, <1>6, <1>7, <1>8, <1>9

\* One key comes before another, whatever follows that does not begin with FF.
Below(k, l) == Decided(k, l) \/ \E r \in Words(Bytes) : l = Join(k, Join(One(FF), r))

\* Strings are ordered as the keys of them.
LEMMA CodedInOrder ==
  ASSUME NEW c \in Bytes, NEW s \in Words(Bytes), NEW t \in Words(Bytes), Before(s, t)
  PROVE  Below(Coded(c, s), Coded(c, t))
<1>1. CASE Decided(s, t)
  <2>1. PICK a, b \in Bytes, p, r, q \in Words(Bytes) : a < b /\ Parted(s, t, p, a, r, b, q)
    BY <1>1, CodeFacts, DecidedIs
  <2>2. PICK x, y \in Words(Bytes) : /\ x = Join(One(c), Escaped(p))
                                     /\ Join(Stuffing(a), y) \in Words(Bytes)
                                     /\ Coded(c, Join(p, Join(One(a), r))) = Join(x, Join(One(a), Join(Stuffing(a), y)))
    BY CodedAt
  <2>3. PICK z \in Words(Bytes) : /\ Join(Stuffing(b), z) \in Words(Bytes)
                                  /\ Coded(c, Join(p, Join(One(b), q))) = Join(x, Join(One(b), Join(Stuffing(b), z)))
    BY <2>2, CodedAt
  <2>4. Decided(Join(x, Join(One(a), Join(Stuffing(a), y))), Join(x, Join(One(b), Join(Stuffing(b), z))))
    BY <2>1, <2>2, <2>3, CodeFacts, PartedDecides
  <2> QED BY <2>1, <2>2, <2>3, <2>4 DEF Below, Parted
<1>2. CASE IsStrictPrefix(s, t)
  <2>1. PICK b \in Bytes, q \in Words(Bytes) : t = Join(s, Join(One(b), q))
    BY <1>2, Begins
  <2>2. PICK x, y \in Words(Bytes) : /\ x = Join(One(c), Escaped(s))
                                     /\ y = Join(Escaped(q), One(0))
                                     /\ Join(Stuffing(b), y) \in Words(Bytes)
                                     /\ Coded(c, Join(s, Join(One(b), q))) = Join(x, Join(One(b), Join(Stuffing(b), y)))
                                     /\ Coded(c, s) = Join(x, Join(One(0), <<>>))
    BY CodedAt
  <2>3. CASE b # 0
    <3>1. 0 < b /\ 0 \in Bytes /\ <<>> \in Words(Bytes) /\ Bytes \in SUBSET Int
      BY <2>3, CodeFacts, Monoid
    <3>2. Decided(Join(x, Join(One(0), <<>>)), Join(x, Join(One(b), Join(Stuffing(b), y))))
      BY <2>2, <3>1, PartedDecides
    <3> QED BY <2>1, <2>2, <3>2 DEF Below
  <2>4. CASE b = 0
    <3>1. PICK z, f \in Words(Bytes) : z = One(0) /\ f = One(FF)
      BY CodeFacts, Monoid
    <3>2. Coded(c, s) = Join(x, z) /\ Coded(c, t) = Join(x, Join(z, Join(f, y)))
      BY <2>1, <2>2, <2>4, <3>1, Monoid DEF Stuffing
    <3>3. Join(f, y) \in Words(Bytes)
      BY Monoid
    <3>4. Join(x, Join(z, Join(f, y))) = Join(Join(x, z), Join(f, y))
      BY <3>3, Associative
    <3> QED BY <3>1, <3>2, <3>4 DEF Below
  <2> QED BY <2>3, <2>4
<1>3. Before(s, t) <=> IsStrictPrefix(s, t) \/ Decided(s, t)
  BY CodeFacts, DecidedIs
<1> QED BY <1>1, <1>2, <1>3

-----------------------------------------------------------------------------
(* Recursive functions on an interval from 0 on.                           *)

\* There are values for any recursion whose steps stay in a set.
Values(a, G, n, v) == v[0] = a /\ \A i \in 1 .. n : v[i] = G[i][v[i - 1]]

\* By induction on the number of steps.
LEMMA Recursion ==
  ASSUME NEW A, NEW a \in A, NEW N \in Nat, NEW G, \A i \in 1 .. N : \A x \in A : G[i][x] \in A
  PROVE  \E v : Values(a, G, N, v) /\ \A i \in 0 .. N : v[i] \in A
<1> DEFINE Good(n, v) == Values(a, G, n, v) /\ \A i \in 0 .. n : v[i] \in A
<1> DEFINE Bad == {n \in 0 .. N : ~ \E v : Good(n, v)}
<1> SUFFICES ASSUME Bad # {} PROVE FALSE
  OBVIOUS
<1>1. PICK n \in Bad : n \in Nat /\ \A m \in Bad : n <= m
  <2> HIDE DEF Bad
  <2>1. Bad \subseteq Nat
    BY DEF Bad
  <2> QED BY <2>1, Least
<1>2. CASE n = 0
  <2>1. PICK v : v = [i \in 0 .. 0 |-> a]
    OBVIOUS
  <2>2. Values(a, G, 0, v) /\ \A i \in 0 .. 0 : v[i] \in A
    BY <2>1 DEF Values
  <2> QED BY <1>1, <1>2, <2>2
<1>3. CASE n # 0
  <2>1. n - 1 \in 0 .. N /\ ~(n <= n - 1) /\ n - 1 \in Nat /\ n \in 1 .. N
    BY <1>1, <1>3
  <2>2. PICK w : Good(n - 1, w)
    BY <1>1, <2>1
  <2>3. /\ w[0] = a /\ \A i \in 1 .. n - 1 : w[i] = G[i][w[i - 1]]
        /\ \A i \in 0 .. n - 1 : w[i] \in A
    BY <2>2 DEF Values
  <2>4. PICK v : v = [i \in 0 .. n |-> IF i = n THEN G[n][w[n - 1]] ELSE w[i]]
    OBVIOUS
  <2>5. v[n] = G[n][w[n - 1]] /\ \A i \in 0 .. n - 1 : v[i] = w[i]
    BY <2>1, <2>4
  <2>6. w[n - 1] \in A /\ G[n][w[n - 1]] \in A
    BY <2>1, <2>3
  <2>7. \A i \in 0 .. n : v[i] \in A
    BY <2>1, <2>3, <2>5, <2>6
  <2>8. \A i \in 1 .. n : v[i] = G[i][v[i - 1]]
    <3>1. ASSUME NEW i \in 1 .. n
          PROVE  v[i] = G[i][v[i - 1]]
      <4>1. i - 1 \in 0 .. n - 1 /\ v[i - 1] = w[i - 1]
        BY <2>1, <2>5
      <4>2. CASE i = n
        BY <2>5, <4>1, <4>2
      <4>3. CASE i # n
        <5>1. i \in 1 .. n - 1 /\ i \in 0 .. n - 1
          BY <2>1, <4>3
        <5> QED BY <2>3, <2>5, <4>1, <5>1
      <4> QED BY <4>2, <4>3
    <3> QED BY <3>1
  <2>9. v[0] = a
    BY <2>1, <2>3, <2>5
  <2>10. Good(n, v)
    BY <2>7, <2>8, <2>9 DEF Values
  <2> QED BY <1>1, <2>10
<1> QED BY <1>2, <1>3

\* What is defined by such a recursion has these values.
LEMMA SameValues ==
  ASSUME NEW n \in Nat, NEW f, NEW v, f[0] = v[0], \A i \in 1 .. n : f[i - 1] = v[i - 1] => f[i] = v[i]
  PROVE  f[n] = v[n]
<1> DEFINE Bad == {i \in 0 .. n : f[i] # v[i]}
<1> SUFFICES ASSUME Bad # {} PROVE FALSE
  OBVIOUS
<1>1. PICK i \in Bad : i \in Nat /\ \A m \in Bad : i <= m
  <2> HIDE DEF Bad
  <2>1. Bad \subseteq Nat
    BY DEF Bad
  <2> QED BY <2>1, Least
<1>2. i # 0 /\ f[i] # v[i] /\ i \in 1 .. n
  BY <1>1
<1>3. i - 1 \in 0 .. n /\ ~(i <= i - 1)
  BY <1>1, <1>2
<1>4. f[i - 1] = v[i - 1]
  BY <1>1, <1>3
<1> QED BY <1>2, <1>4

-----------------------------------------------------------------------------
(* Powers.                                                                 *)

\* Power is what its recursion says.
LEMMA PowerValues ==
  ASSUME NEW b \in Nat, NEW N \in Nat
  PROVE  \E v : /\ v[0] = 1 /\ \A i \in 1 .. N : v[i] = b * v[i - 1]
                /\ \A i \in 0 .. N : v[i] \in Nat
                /\ \A n \in 0 .. N : Power(b, n) = v[n]
<1> DEFINE G == [i \in 1 .. N |-> [x \in Nat |-> b * x]]
<1>1. \A i \in 1 .. N : \A x \in Nat : G[i][x] \in Nat /\ G[i][x] = b * x
  OBVIOUS
<1> HIDE DEF G
<1>2. PICK v : Values(1, G, N, v) /\ \A i \in 0 .. N : v[i] \in Nat
  <2>1. 1 \in Nat /\ N \in Nat /\ \A i \in 1 .. N : \A x \in Nat : G[i][x] \in Nat
    BY <1>1
  <2> QED BY ONLY <2>1, Recursion
<1>3. v[0] = 1 /\ \A i \in 1 .. N : v[i] = b * v[i - 1]
  <2>1. \A i \in 1 .. N : i - 1 \in 0 .. N
    OBVIOUS
  <2> QED BY <1>1, <1>2, <2>1 DEF Values
<1>4. ASSUME NEW n \in 0 .. N
      PROVE  Power(b, n) = v[n]
  <2> DEFINE f == CHOOSE f : f = [i \in 0 .. n |-> IF i = 0 THEN 1 ELSE b * f[i - 1]]
  <2>1. PICK w : w = [i \in 0 .. n |-> v[i]]
    OBVIOUS
  <2>2. w = [i \in 0 .. n |-> IF i = 0 THEN 1 ELSE b * w[i - 1]]
    <3>1. \A i \in 0 .. n : w[i] = IF i = 0 THEN 1 ELSE b * w[i - 1]
      BY <1>3, <2>1
    <3> QED BY <2>1, <3>1
  <2>3. f = [i \in 0 .. n |-> IF i = 0 THEN 1 ELSE b * f[i - 1]]
    BY <2>2, Zenon
  <2>4. Power(b, n) = f[n]
    BY Zenon DEF Power
  <2> HIDE DEF f
  <2>5. f[0] = v[0] /\ \A i \in 1 .. n : f[i - 1] = v[i - 1] => f[i] = v[i]
    BY <1>3, <2>3
  <2> QED BY <2>4, <2>5, SameValues
<1> QED BY <1>2, <1>3, <1>4

\* Powers, one by one.
LEMMA PowerType ==
  ASSUME NEW b \in Nat, NEW n \in Nat
  PROVE  Power(b, n) \in Nat
<1>1. PICK v : /\ v[0] = 1 /\ \A i \in 1 .. n : v[i] = b * v[i - 1]
               /\ \A i \in 0 .. n : v[i] \in Nat
               /\ \A m \in 0 .. n : Power(b, m) = v[m]
  BY PowerValues
<1> QED BY <1>1

\* A power and the next.
LEMMA PowerStep ==
  ASSUME NEW b \in Nat, NEW n \in Nat
  PROVE  Power(b, 0) = 1 /\ Power(b, n + 1) = b * Power(b, n)
<1>1. PICK N \in Nat : N = n + 1
  OBVIOUS
<1>2. PICK v : /\ v[0] = 1 /\ \A i \in 1 .. N : v[i] = b * v[i - 1]
               /\ \A i \in 0 .. N : v[i] \in Nat
               /\ \A m \in 0 .. N : Power(b, m) = v[m]
  BY PowerValues
<1>3. 0 \in 0 .. N /\ n \in 0 .. N /\ N \in 1 .. N /\ N - 1 = n
  BY <1>1
<1> QED BY <1>1, <1>2, <1>3

\* They grow.
LEMMA PowerGrows ==
  ASSUME NEW b \in Nat, b > 1, NEW n \in Nat
  PROVE  Power(b, n) > 0 /\ \A m \in 0 .. n : Power(b, m) <= Power(b, n)
<1> DEFINE Bad == {i \in Nat : ~(Power(b, i) > 0 /\ \A m \in 0 .. i : Power(b, m) <= Power(b, i))}
<1> SUFFICES ASSUME Bad # {} PROVE FALSE
  OBVIOUS
<1>1. PICK i \in Bad : i \in Nat /\ \A j \in Bad : i <= j
  <2> HIDE DEF Bad
  <2>1. Bad \subseteq Nat
    BY DEF Bad
  <2> QED BY <2>1, Least
<1>2. i # 0
  <2>1. Power(b, 0) = 1
    BY PowerStep
  <2>2. CASE i = 0
    <3>1. Power(b, i) > 0 /\ \A m \in 0 .. i : Power(b, m) <= Power(b, i)
      BY <2>1, <2>2
    <3> QED BY <1>1, <3>1
  <2> QED BY <2>2
<1>3. PICK j \in Nat : i = j + 1 /\ ~(i <= j)
  <2>1. i - 1 \in Nat /\ i = (i - 1) + 1 /\ ~(i <= i - 1)
    BY <1>1, <1>2
  <2> QED BY <2>1
<1>4. Power(b, j) > 0 /\ \A m \in 0 .. j : Power(b, m) <= Power(b, j)
  BY <1>1, <1>3
<1>5. Power(b, j) \in Nat /\ Power(b, i) = b * Power(b, j)
  BY <1>3, PowerStep, PowerType
<1>6. Power(b, j) < Power(b, i)
  <2>1. PICK p \in Nat : p = Power(b, j)
    BY <1>5
  <2>2. p > 0 /\ p < b * p
    BY <1>4, <2>1
  <2> QED BY <1>5, <2>1, <2>2
<1>7. Power(b, i) \in Nat
  BY <1>1, PowerType
<1>8. ASSUME NEW m \in 0 .. i
      PROVE  Power(b, m) <= Power(b, i)
  <2>0. m \in Nat
    BY <1>1
  <2>1. m \in Nat /\ Power(b, m) \in Nat
    BY <2>0, PowerType
  <2>2. CASE m = i
    BY <1>7, <2>2
  <2>3. CASE m # i
    <3>1. m \in 0 .. j
      BY <1>3, <2>1, <2>3
    <3> QED BY <1>4, <1>5, <1>6, <1>7, <2>1, <3>1
  <2> QED BY <2>2, <2>3
<1> QED BY <1>1, <1>4, <1>5, <1>6, <1>7, <1>8

-----------------------------------------------------------------------------
(* Digits.                                                                 *)

\* Division of natural numbers.
LEMMA DivFacts ==
  ASSUME NEW a \in Nat, NEW b \in Nat, b > 0
  PROVE  a \div b \in Nat /\ a % b \in Nat /\ a % b < b /\ a = b * (a \div b) + (a % b)
<1>1. a \in Int /\ b \in Int /\ 0 < b /\ 0 <= a
  OBVIOUS
<1>2. a = b * (a \div b) + (a % b) /\ 0 <= a % b /\ a % b < b /\ a \div b \in Int /\ a % b \in Int
  BY <1>1
<1>3. a \div b >= 0
  BY <1>1
<1> QED BY <1>2, <1>3

\* A quotient of a number below a product.
LEMMA DivBelow ==
  ASSUME NEW a \in Nat, NEW b \in Nat, b > 0, NEW c \in Nat, a < b * c
  PROVE  a \div b < c
<1>1. PICK q, r \in Nat : q = a \div b /\ r = a % b /\ a = b * q + r
  BY DivFacts
<1>2. ASSUME q >= c
      PROVE  FALSE
  <2>1. PICK d \in Nat : q = c + d
    <3>1. q - c \in Nat /\ q = c + (q - c)
      BY <1>2
    <3> QED BY <3>1
  <2>2. b * q = b * c + b * d /\ b * d >= 0
    BY <2>1
  <2>3. PICK x, y, z \in Nat : x = b * q /\ y = b * c /\ z = b * d
    OBVIOUS
  <2> QED BY <1>1, <2>2, <2>3
<1> QED BY <1>1, <1>2

\* Larger numbers have larger quotients.
LEMMA DivMonotone ==
  ASSUME NEW a \in Nat, NEW b \in Nat, b > 0, NEW c \in Nat, a <= c
  PROVE  a \div b <= c \div b
OBVIOUS

\* What is left of a magnitude, byte by byte.
LEMMA RestValues ==
  ASSUME NEW m \in Nat, NEW N \in Nat
  PROVE  \E v : /\ v[0] = m /\ \A i \in 1 .. N : v[i] = v[i - 1] \div Base
                /\ \A i \in 0 .. N : v[i] \in Nat
                /\ \A n \in 0 .. N : Rest(m, n) = v[n]
<1> DEFINE G == [i \in 1 .. N |-> [x \in Nat |-> x \div Base]]
<1>1. \A i \in 1 .. N : \A x \in Nat : G[i][x] \in Nat /\ G[i][x] = x \div Base
  <2>1. \A x \in Nat : x \div Base \in Nat
    BY CodeFacts, DivFacts
  <2> QED BY <2>1
<1> HIDE DEF G
<1>2. PICK v : Values(m, G, N, v) /\ \A i \in 0 .. N : v[i] \in Nat
  <2>1. m \in Nat /\ N \in Nat /\ \A i \in 1 .. N : \A x \in Nat : G[i][x] \in Nat
    BY <1>1
  <2> QED BY ONLY <2>1, Recursion
<1>3. v[0] = m /\ \A i \in 1 .. N : v[i] = v[i - 1] \div Base
  <2>1. \A i \in 1 .. N : i - 1 \in 0 .. N
    OBVIOUS
  <2> QED BY <1>1, <1>2, <2>1 DEF Values
<1>4. ASSUME NEW n \in 0 .. N
      PROVE  Rest(m, n) = v[n]
  <2> DEFINE f == CHOOSE f : f = [i \in 0 .. n |-> IF i = 0 THEN m ELSE f[i - 1] \div Base]
  <2>1. PICK w : w = [i \in 0 .. n |-> v[i]]
    OBVIOUS
  <2>2. w = [i \in 0 .. n |-> IF i = 0 THEN m ELSE w[i - 1] \div Base]
    <3>1. \A i \in 0 .. n : w[i] = IF i = 0 THEN m ELSE w[i - 1] \div Base
      <4>1. ASSUME NEW i \in 0 .. n, i # 0
            PROVE  w[i] = w[i - 1] \div Base
        <5>1. i \in 1 .. N /\ i - 1 \in 0 .. n
          BY <4>1
        <5>2. w[i] = v[i] /\ w[i - 1] = v[i - 1]
          BY <2>1, <5>1
        <5> QED BY <1>3, <5>1, <5>2
      <4>2. w[0] = m
        BY <1>3, <2>1
      <4> QED BY <4>1, <4>2
    <3> QED BY <2>1, <3>1
  <2>3. f = [i \in 0 .. n |-> IF i = 0 THEN m ELSE f[i - 1] \div Base]
    BY <2>2, Zenon
  <2>4. Rest(m, n) = f[n]
    BY Zenon DEF Rest
  <2> HIDE DEF f
  <2>5. ASSUME NEW i \in 1 .. n, f[i - 1] = v[i - 1]
        PROVE  f[i] = v[i]
    <3>1. i \in 0 .. n /\ i # 0 /\ i \in 1 .. N
      OBVIOUS
    <3>2. f[i] = f[i - 1] \div Base
      BY <2>3, <3>1
    <3> QED BY <1>3, <2>5, <3>1, <3>2
  <2>6. f[0] = v[0]
    BY <1>3, <2>3
  <2> QED BY <2>4, <2>5, <2>6, SameValues
<1> QED BY <1>2, <1>3, <1>4

\* What is left of a magnitude behind its last n digits is a magnitude ...
LEMMA RestType ==
  ASSUME NEW m \in Nat, NEW n \in Nat
  PROVE  Rest(m, n) \in Nat
<1>1. PICK v : /\ v[0] = m /\ \A i \in 1 .. n : v[i] = v[i - 1] \div Base
               /\ \A i \in 0 .. n : v[i] \in Nat
               /\ \A j \in 0 .. n : Rest(m, j) = v[j]
  BY RestValues
<1> QED BY <1>1

\* ... and one digit more is one division more.
LEMMA RestStep ==
  ASSUME NEW m \in Nat, NEW n \in Nat
  PROVE  Rest(m, 0) = m /\ Rest(m, n + 1) = Rest(m, n) \div Base
<1>1. PICK N \in Nat : N = n + 1
  OBVIOUS
<1>2. PICK v : /\ v[0] = m /\ \A i \in 1 .. N : v[i] = v[i - 1] \div Base
               /\ \A i \in 0 .. N : v[i] \in Nat
               /\ \A j \in 0 .. N : Rest(m, j) = v[j]
  BY RestValues
<1>3. 0 \in 0 .. N /\ n \in 0 .. N /\ N \in 1 .. N /\ N - 1 = n
  BY <1>1
<1>4. v[N] = v[n] \div Base
  BY <1>2, <1>3
<1> QED BY <1>1, <1>2, <1>3, <1>4

\* A greater magnitude leaves no less,
LEMMA RestMonotone ==
  ASSUME NEW m \in Nat, NEW l \in Nat, m <= l, NEW n \in Nat
  PROVE  Rest(m, n) <= Rest(l, n)
<1> DEFINE Bad == {i \in Nat : ~(Rest(m, i) <= Rest(l, i))}
<1> SUFFICES ASSUME Bad # {} PROVE FALSE
  OBVIOUS
<1>1. PICK i \in Bad : i \in Nat /\ \A j \in Bad : i <= j
  <2> HIDE DEF Bad
  <2>1. Bad \subseteq Nat
    BY DEF Bad
  <2> QED BY <2>1, Least
<1>2. Rest(m, 0) = m /\ Rest(l, 0) = l
  BY RestStep
<1>3. i # 0
  BY <1>1, <1>2
<1>4. PICK j \in Nat : i = j + 1 /\ ~(i <= j)
  <2>1. i - 1 \in Nat /\ i = (i - 1) + 1 /\ ~(i <= i - 1)
    BY <1>1, <1>3
  <2> QED BY <2>1
<1>5. PICK a, b \in Nat : a = Rest(m, j) /\ b = Rest(l, j)
  BY RestType
<1>6. a <= b
  BY <1>1, <1>4, <1>5
<1>7. Rest(m, i) = a \div Base /\ Rest(l, i) = b \div Base
  BY <1>4, <1>5, RestStep
<1>8. a \div Base <= b \div Base
  BY <1>6, CodeFacts, DivMonotone
<1> QED BY <1>1, <1>7, <1>8

\* and one of n bytes leaves nothing behind them.
LEMMA RestBelow ==
  ASSUME NEW m \in Nat, NEW n \in Nat, m <= Power(Base, n) - 1
  PROVE  Rest(m, n) = 0
<1>0. Base \in Nat /\ Base > 0
  BY CodeFacts
<1> DEFINE Bad == {i \in 0 .. n : ~(Rest(m, i) < Power(Base, n - i))}
<1>1. ASSUME Bad # {}
      PROVE  FALSE
  <2>1. PICK i \in Bad : i \in Nat /\ \A j \in Bad : i <= j
    <3> HIDE DEF Bad
    <3>1. Bad \subseteq Nat
      BY DEF Bad
    <3> QED BY <1>1, <3>1, Least
  <2>2. Rest(m, 0) = m /\ Power(Base, n) \in Nat /\ n - 0 = n
    BY <1>0, RestStep, PowerType
  <2>3. i # 0
    BY <2>1, <2>2
  <2>4. PICK j \in Nat : i = j + 1 /\ ~(i <= j) /\ j \in 0 .. n
    <3>1. i - 1 \in Nat /\ i = (i - 1) + 1 /\ ~(i <= i - 1) /\ i - 1 \in 0 .. n
      BY <2>1, <2>3
    <3> QED BY <3>1
  <2>5. PICK k \in Nat : k = n - i /\ n - j = k + 1
    <3>1. n - i \in Nat /\ n - j = (n - i) + 1
      BY <2>1, <2>4
    <3> QED BY <3>1
  <2>6. Rest(m, j) < Power(Base, k + 1)
    BY <2>1, <2>4, <2>5
  <2>7. PICK a, c \in Nat : a = Rest(m, j) /\ c = Power(Base, k)
    BY <1>0, RestType, PowerType
  <2>8. Power(Base, k + 1) = Base * c /\ Rest(m, i) = a \div Base
    BY <1>0, <2>4, <2>7, PowerStep, RestStep
  <2>9. a \div Base < c
    BY <1>0, <2>6, <2>7, <2>8, DivBelow
  <2> QED BY <2>1, <2>5, <2>7, <2>8, <2>9
<1>2. Rest(m, n) < Power(Base, n - n)
  BY <1>1
<1>3. Power(Base, 0) = 1 /\ n - n = 0 /\ Rest(m, n) \in Nat
  BY <1>0, PowerStep, RestType
<1> QED BY <1>2, <1>3

\* The digits.
LEMMA DigitsFacts ==
  ASSUME NEW m \in Nat, NEW n \in Nat
  PROVE  /\ Digits(m, n) \in Words(Bytes) /\ Len(Digits(m, n)) = n
         /\ \A i \in 1 .. n : Digits(m, n)[i] = Rest(m, n - i) % Base /\ Digits(m, n)[i] \in Bytes
<1>1. ASSUME NEW i \in 1 .. n
      PROVE  Rest(m, n - i) % Base \in Bytes
  <2>1. n - i \in Nat
    OBVIOUS
  <2>2. PICK a \in Nat : a = Rest(m, n - i)
    BY <2>1, RestType
  <2>3. a % Base \in Nat /\ a % Base < Base
    BY CodeFacts, DivFacts
  <2> QED BY <2>2, <2>3, CodeFacts
<1>2. Digits(m, n) \in Seq(Bytes)
  BY <1>1, IsASeq DEF Digits
<1>3. DOMAIN Digits(m, n) = 1 .. n
  BY DEF Digits
<1>4. Len(Digits(m, n)) = n
  <2>1. PICK d \in Seq(Bytes) : d = Digits(m, n)
    BY <1>2
  <2>2. Len(d) \in Nat /\ DOMAIN d = 1 .. Len(d) /\ DOMAIN d = 1 .. n
    BY <1>3, <2>1, LenProperties
  <2>3. Len(d) = n
    <3>1. PICK a \in Nat : a = Len(d) /\ 1 .. a = 1 .. n
      BY <2>2
    <3>2. n <= a
      BY <3>1
    <3>3. a <= n
      BY <3>1
    <3>4. a = n
      BY ONLY a \in Nat, n \in Nat, <3>2, <3>3
    <3>5. Len(d) = a
      BY <3>1
    <3> QED BY ONLY <3>4, <3>5, Zenon
  <2> QED BY <2>1, <2>3
<1>5. \A i \in 1 .. n : Digits(m, n)[i] = Rest(m, n - i) % Base
  BY DEF Digits
<1> QED BY <1>1, <1>2, <1>4, <1>5 DEF Words

\* The digits of magnitudes first differ where the smaller has the smaller one.
LEMMA DigitsDiffer ==
  ASSUME NEW m \in Nat, NEW l \in Nat, m < l, NEW n \in Nat, l <= Power(Base, n) - 1
  PROVE  \E j \in 1 .. n : Digits(m, n)[j] < Digits(l, n)[j] /\ \A i \in 1 .. j - 1 : Digits(m, n)[i] = Digits(l, n)[i]
<1>0. Base \in Nat /\ Base > 0 /\ Power(Base, n) \in Nat
  BY CodeFacts, PowerType
<1>1. m <= Power(Base, n) - 1
  BY <1>0
<1> DEFINE D == {j \in 0 .. n : Rest(m, n - j) # Rest(l, n - j)}
<1>2. n \in D
  <2>1. Rest(m, 0) = m /\ Rest(l, 0) = l /\ n - n = 0
    BY RestStep
  <2> QED BY <2>1
<1>3. PICK j \in D : j \in Nat /\ \A i \in D : j <= i
  <2> HIDE DEF D
  <2>1. D \subseteq Nat
    BY DEF D
  <2> QED BY <1>2, <2>1, Least
<1>4. j # 0
  <2>1. Rest(m, n) = 0 /\ Rest(l, n) = 0 /\ n - 0 = n
    BY <1>1, RestBelow
  <2> QED BY <1>3, <2>1
<1>5. PICK s \in Nat : s = n - j /\ n - (j - 1) = s + 1 /\ j - 1 \in 0 .. n /\ ~(j <= j - 1)
  <2>1. n - j \in Nat /\ n - (j - 1) = (n - j) + 1 /\ j - 1 \in 0 .. n /\ ~(j <= j - 1)
    BY <1>3, <1>4
  <2> QED BY <2>1
<1>6. PICK a, b \in Nat : a = Rest(m, s) /\ b = Rest(l, s)
  BY RestType
<1>7. a < b
  <2>1. a <= b
    <3>1. m <= l
      OBVIOUS
    <3> QED BY <1>6, <3>1, RestMonotone
  <2>2. a # b
    BY <1>3, <1>5, <1>6
  <2> QED BY <2>1, <2>2
<1>8. a \div Base = b \div Base
  <2>1. Rest(m, s + 1) = a \div Base /\ Rest(l, s + 1) = b \div Base
    BY <1>6, RestStep
  <2>2. Rest(m, s + 1) = Rest(l, s + 1)
    BY <1>3, <1>5
  <2> QED BY <2>1, <2>2
<1>9. a % Base < b % Base
  <2>1. a = Base * (a \div Base) + (a % Base) /\ a % Base \in Nat /\ a \div Base \in Nat
    BY <1>0, DivFacts
  <2>2. b = Base * (b \div Base) + (b % Base) /\ b % Base \in Nat
    BY <1>0, DivFacts
  <2>3. PICK q \in Nat : q = Base * (a \div Base)
    BY <1>0, <2>1
  <2> QED BY <1>7, <1>8, <2>1, <2>2, <2>3
<1>10. j \in 1 .. n
  BY <1>3, <1>4
<1>11. Digits(m, n)[j] = a % Base /\ Digits(l, n)[j] = b % Base
  BY <1>5, <1>6, <1>10, DigitsFacts
<1>12. ASSUME NEW i \in 1 .. j - 1
       PROVE  Digits(m, n)[i] = Digits(l, n)[i]
  <2>1. i \in 0 .. n /\ ~(j <= i) /\ i \in 1 .. n
    BY <1>10
  <2>2. Rest(m, n - i) = Rest(l, n - i)
    BY <1>3, <2>1
  <2>3. Digits(m, n)[i] = Rest(m, n - i) % Base
    BY <2>1, DigitsFacts
  <2>4. Digits(l, n)[i] = Rest(l, n - i) % Base
    BY <2>1, DigitsFacts
  <2> QED BY <2>2, <2>3, <2>4
<1> QED BY <1>9, <1>10, <1>11, <1>12

-----------------------------------------------------------------------------
(* The length of a magnitude.                                              *)

\* Length is enough bytes for a magnitude, and no fewer are.
LEMMA LengthFacts ==
  ASSUME NEW m \in 0 .. Longest
  PROVE  /\ Length(m) \in 0 .. MaxBytes + 1 /\ m <= Power(Base, Length(m)) - 1
         /\ \A n \in 0 .. MaxBytes + 1 : m <= Power(Base, n) - 1 => Length(m) <= n
<1> DEFINE D == {n \in 0 .. MaxBytes + 1 : m <= Power(Base, n) - 1}
<1>1. MaxBytes + 1 \in D
  BY CodeFacts DEF Longest
<1>2. D \subseteq Nat
  BY CodeFacts
<1>3. Length(m) = Min(D)
  BY DEF Length
<1>4. Min(D) \in D /\ \A n \in D : Min(D) <= n
  <2> HIDE DEF D
  <2>1. D # {}
    BY <1>1
  <2> QED BY <1>2, <2>1, MinFacts
<1> QED BY <1>3, <1>4

\* A larger magnitude has no fewer bytes,
LEMMA LengthMonotone ==
  ASSUME NEW m \in 0 .. Longest, NEW l \in 0 .. Longest, m <= l
  PROVE  Length(m) <= Length(l)
<1>1. PICK n \in 0 .. MaxBytes + 1 : n = Length(l) /\ l <= Power(Base, n) - 1
  BY LengthFacts
<1>2. Power(Base, n) \in Nat
  <2>1. n \in Nat /\ Base \in Nat
    BY CodeFacts
  <2> QED BY <2>1, PowerType
<1>3. Longest \in Int
  <2>1. MaxBytes + 1 \in Nat /\ Base \in Nat
    BY CodeFacts
  <2>2. Power(Base, MaxBytes + 1) \in Nat
    BY <2>1, PowerType
  <2> QED BY <2>2 DEF Longest
<1>4. m <= Power(Base, n) - 1
  BY <1>1, <1>2, <1>3
<1> QED BY <1>1, <1>4, LengthFacts

\* and 0 has none.
LEMMA LengthZero == 0 \in 0 .. Longest /\ Length(0) = 0 /\ Longest \in Nat
<1>1. MaxBytes + 1 \in Nat /\ Base \in Nat /\ Base > 1 /\ 0 \in Nat
  BY CodeFacts
<1>2. Power(Base, MaxBytes + 1) > 0 /\ Power(Base, MaxBytes + 1) \in Nat /\ Power(Base, 0) = 1
  BY <1>1, PowerGrows, PowerType, PowerStep
<1>3. 0 \in 0 .. Longest /\ Longest \in Nat
  BY <1>2 DEF Longest
<1>4. 0 \in 0 .. MaxBytes + 1 /\ 0 <= Power(Base, 0) - 1
  BY <1>1, <1>2
<1>5. Length(0) <= 0 /\ Length(0) \in 0 .. MaxBytes + 1
  BY <1>3, <1>4, LengthFacts
<1> QED BY <1>1, <1>3, <1>5

-----------------------------------------------------------------------------
(* Integers.                                                               *)

\* Words that begin with an element each.
LEMMA FirstDecides ==
  ASSUME NEW a \in Bytes, NEW b \in Bytes, NEW r \in Words(Bytes), NEW q \in Words(Bytes)
  PROVE  /\ a < b => Decided(Join(One(a), r), Join(One(b), q))
         /\ Decided(r, q) => Decided(Join(One(a), r), Join(One(a), q))
<1>1. Bytes \in SUBSET Int
  BY CodeFacts
<1>2. PICK k, l \in Words(Bytes) : k = One(a) /\ l = One(b)
  BY Monoid
<1>3. ASSUME a < b
      PROVE  Decided(Join(One(a), r), Join(One(b), q))
  <2>1. <<>> \in Words(Bytes)
    BY Monoid
  <2>2. Decided(Join(<<>>, Join(One(a), r)), Join(<<>>, Join(One(b), q)))
    BY <1>1, <1>3, <2>1, PartedDecides
  <2>3. PICK c, d \in Words(Bytes) : c = Join(One(a), r) /\ d = Join(One(b), q)
    BY <1>2, Monoid
  <2>4. Join(<<>>, c) = c /\ Join(<<>>, d) = d
    BY Monoid
  <2> QED BY <2>2, <2>3, <2>4
<1>4. ASSUME Decided(r, q)
      PROVE  Decided(Join(One(a), r), Join(One(a), q))
  BY <1>2, <1>4, DecidedJoin
<1> QED BY <1>3, <1>4

Complement(s, n) == [i \in 1 .. n |-> FF - s[i]]

\* The complements of bytes.
LEMMA ComplementFacts ==
  ASSUME NEW n \in Nat, NEW s \in Words(Bytes), Len(s) = n
  PROVE  /\ Complement(s, n) \in Words(Bytes) /\ Len(Complement(s, n)) = n
         /\ \A i \in 1 .. n : Complement(s, n)[i] = FF - s[i]
         /\ \A i \in 1 .. n : FF - Complement(s, n)[i] = s[i]
<1>1. \A i \in 1 .. n : s[i] \in Bytes
  BY ElementOfSeq DEF Words
<1>2. \A i \in 1 .. n : FF - s[i] \in Bytes /\ FF - (FF - s[i]) = s[i]
  <2>1. ASSUME NEW b \in Bytes
        PROVE  FF - b \in Bytes /\ FF - (FF - b) = b
    <3>1. b \in Int /\ 0 <= b /\ b <= FF /\ FF \in Nat
      BY CodeFacts
    <3>2. FF - b \in Int /\ 0 <= FF - b /\ FF - b <= FF
      BY <3>1
    <3>3. FF - (FF - b) = b
      BY <3>1
    <3> QED BY <3>2, <3>3, CodeFacts
  <2> QED BY <1>1, <2>1
<1>3. PICK t : t = Complement(s, n)
  OBVIOUS
<1>4. t \in Seq(Bytes) /\ DOMAIN t = 1 .. n /\ \A i \in 1 .. n : t[i] = FF - s[i]
  BY <1>2, <1>3, IsASeq DEF Complement
<1>5. Len(t) = n
  <2>1. PICK a \in Nat : a = Len(t) /\ 1 .. a = 1 .. n
    BY <1>4, LenProperties
  <2>2. n <= a
    BY <2>1
  <2>3. a <= n
    BY <2>1
  <2>4. a = n
    BY ONLY a \in Nat, n \in Nat, <2>2, <2>3
  <2> QED BY <2>1, <2>4
<1> QED BY <1>2, <1>3, <1>4, <1>5 DEF Words

\* An integer is a code and the bytes of its magnitude.
Magnitude(v) == IF v < 0 THEN -v ELSE v
Size(v) == Length(Magnitude(v))
Code(v) == IF v < 0 THEN Zero - Size(v) ELSE Zero + Size(v)
Body(v) == IF v < 0 THEN Complement(Digits(Magnitude(v), Size(v)), Size(v)) ELSE Digits(Magnitude(v), Size(v))

\* What an integer is packed to, and that no code of one is FF or that of another type.
LEMMA IntegerFacts ==
  ASSUME NEW v \in -Longest .. Longest
  PROVE  /\ v \in Int /\ Magnitude(v) \in 0 .. Longest /\ Magnitude(v) \in Nat
         /\ Size(v) \in 0 .. MaxBytes + 1 /\ Size(v) \in Nat
         /\ Magnitude(v) <= Power(Base, Size(v)) - 1
         /\ v # 0 <=> Size(v) > 0
         /\ Code(v) \in Bytes /\ Code(v) > 2 /\ Code(v) # FF
         /\ Body(v) \in Words(Bytes) /\ Len(Body(v)) = Size(v)
         /\ EncodedInt(v) = Join(One(Code(v)), Body(v))
<1>1. Longest \in Nat /\ v \in Int /\ -Longest <= v /\ v <= Longest
  BY LengthZero
<1>2. Magnitude(v) \in 0 .. Longest /\ Magnitude(v) \in Nat
  BY <1>1 DEF Magnitude
<1>3. Size(v) \in 0 .. MaxBytes + 1 /\ Magnitude(v) <= Power(Base, Size(v)) - 1
  BY <1>2, LengthFacts DEF Size
<1>4. Size(v) \in Nat
  BY <1>3, CodeFacts
<1>5. v # 0 <=> Size(v) > 0
  <2>1. CASE v = 0
    <3>1. Magnitude(v) = 0
      BY <2>1 DEF Magnitude
    <3>2. Size(v) = 0
      BY <3>1, LengthZero DEF Size
    <3> QED BY <2>1, <3>2
  <2>2. CASE v # 0
    <3>1. Magnitude(v) > 0
      BY <1>1, <2>2 DEF Magnitude
    <3>2. Power(Base, 0) = 1
      BY CodeFacts, PowerStep
    <3>3. Size(v) # 0
      BY <1>2, <1>3, <3>1, <3>2
    <3> QED BY <1>4, <2>2, <3>3
  <2> QED BY <2>1, <2>2
<1>6. Code(v) \in Bytes /\ Code(v) > 2 /\ Code(v) # FF
  BY <1>3, CodeFacts DEF Code
<1>7. PICK d \in Words(Bytes) : d = Digits(Magnitude(v), Size(v)) /\ Len(d) = Size(v)
  BY <1>2, <1>4, DigitsFacts
<1>8. Complement(d, Size(v)) \in Words(Bytes) /\ Len(Complement(d, Size(v))) = Size(v)
  BY <1>4, <1>7, ComplementFacts
<1>9. Body(v) \in Words(Bytes) /\ Len(Body(v)) = Size(v)
  BY <1>7, <1>8 DEF Body
<1>10. EncodedInt(v) = Join(One(Code(v)), Body(v))
  BY <1>7, Zenon DEF EncodedInt, Code, Body, Complement, Size, Magnitude, Join, One
<1> QED BY <1>1, <1>2, <1>3, <1>4, <1>5, <1>6, <1>9, <1>10

\* Magnitudes of one length, and their complements.
LEMMA DigitsInOrder ==
  ASSUME NEW m \in Nat, NEW l \in Nat, m < l, NEW n \in Nat, l <= Power(Base, n) - 1
  PROVE  /\ Decided(Digits(m, n), Digits(l, n))
         /\ Decided(Complement(Digits(l, n), n), Complement(Digits(m, n), n))
<1>1. PICK j \in 1 .. n : Digits(m, n)[j] < Digits(l, n)[j] /\ \A i \in 1 .. j - 1 : Digits(m, n)[i] = Digits(l, n)[i]
  BY DigitsDiffer
<1>2. Digits(m, n) \in Words(Bytes) /\ Len(Digits(m, n)) = n /\ \A i \in 1 .. n : Digits(m, n)[i] \in Bytes
  BY DigitsFacts
<1>3. Digits(l, n) \in Words(Bytes) /\ Len(Digits(l, n)) = n /\ \A i \in 1 .. n : Digits(l, n)[i] \in Bytes
  BY DigitsFacts
<1>4. PICK c, d : c = Digits(m, n) /\ d = Digits(l, n)
  OBVIOUS
<1>5. Decided(c, d)
  <2>1. j \in 1 .. Len(c) /\ j <= Len(d) /\ c[j] < d[j] /\ \A i \in 1 .. j - 1 : c[i] = d[i]
    BY <1>1, <1>2, <1>3, <1>4
  <2> QED BY <2>1 DEF Decided
<1>6. PICK u, v : u = Complement(c, n) /\ v = Complement(d, n)
  OBVIOUS
<1>7. c \in Words(Bytes) /\ Len(c) = n /\ d \in Words(Bytes) /\ Len(d) = n
  BY <1>2, <1>3, <1>4
<1>8. Len(u) = n /\ \A i \in 1 .. n : u[i] = FF - c[i]
  BY <1>6, <1>7, ComplementFacts
<1>9. Len(v) = n /\ \A i \in 1 .. n : v[i] = FF - d[i]
  BY <1>6, <1>7, ComplementFacts
<1>10. c[j] \in Int /\ d[j] \in Int /\ c[j] < d[j] /\ FF \in Int
  BY <1>1, <1>2, <1>3, <1>4, CodeFacts
<1>11. v[j] < u[j]
  BY <1>8, <1>9, <1>10
<1>12. \A i \in 1 .. j - 1 : v[i] = u[i]
  <2>1. ASSUME NEW i \in 1 .. j - 1
        PROVE  v[i] = u[i]
    <3>1. i \in 1 .. n /\ c[i] = d[i]
      BY <1>1, <1>4
    <3> QED BY <1>8, <1>9, <3>1
  <2> QED BY <2>1
<1>13. Decided(v, u)
  <2>1. j \in 1 .. Len(v) /\ j <= Len(u)
    BY <1>8, <1>9
  <2> QED BY <1>11, <1>12, <2>1 DEF Decided
<1> QED BY <1>4, <1>5, <1>6, <1>13

\* Integers are ordered as the keys of them.
LEMMA IntegersInOrder ==
  ASSUME NEW v \in -Longest .. Longest, NEW w \in -Longest .. Longest, v < w
  PROVE  Decided(EncodedInt(v), EncodedInt(w))
<1>1. /\ v \in Int /\ Magnitude(v) \in 0 .. Longest /\ Magnitude(v) \in Nat
      /\ Size(v) \in Nat /\ Magnitude(v) <= Power(Base, Size(v)) - 1
      /\ (v # 0 <=> Size(v) > 0)
      /\ Code(v) \in Bytes /\ Body(v) \in Words(Bytes) /\ EncodedInt(v) = Join(One(Code(v)), Body(v))
  BY IntegerFacts
<1>2. /\ w \in Int /\ Magnitude(w) \in 0 .. Longest /\ Magnitude(w) \in Nat
      /\ Size(w) \in Nat /\ Magnitude(w) <= Power(Base, Size(w)) - 1
      /\ Code(w) \in Bytes /\ Body(w) \in Words(Bytes) /\ EncodedInt(w) = Join(One(Code(w)), Body(w))
  BY IntegerFacts
<1>3. Zero \in Nat
  BY CodeFacts
<1>4. Code(v) < Code(w) \/ (Code(v) = Code(w) /\ Decided(Body(v), Body(w)))
  <2>1. CASE v < 0 /\ 0 <= w
    <3>1. Code(v) = Zero - Size(v) /\ Code(w) = Zero + Size(w) /\ Size(v) > 0
      BY <1>1, <1>2, <2>1 DEF Code
    <3> QED BY <1>1, <1>2, <1>3, <3>1
  <2>2. CASE 0 <= v
    <3>1. ~(v < 0) /\ ~(w < 0)
      BY <1>1, <1>2, <2>2
    <3>2. /\ Code(v) = Zero + Size(v) /\ Code(w) = Zero + Size(w)
          /\ Body(v) = Digits(Magnitude(v), Size(v)) /\ Body(w) = Digits(Magnitude(w), Size(w))
          /\ Magnitude(v) = v /\ Magnitude(w) = w
      BY <3>1 DEF Code, Body, Magnitude
    <3>3. Size(v) <= Size(w)
      <4>1. Magnitude(v) <= Magnitude(w)
        BY <1>1, <1>2, <3>2
      <4> QED BY <1>1, <1>2, <4>1, LengthMonotone DEF Size
    <3>4. CASE Size(v) = Size(w)
      <4>1. Magnitude(v) < Magnitude(w)
        BY <3>2
      <4>2. PICK n \in Nat : n = Size(w) /\ Magnitude(w) <= Power(Base, n) - 1
        BY <1>2
      <4>3. Decided(Digits(Magnitude(v), n), Digits(Magnitude(w), n))
        BY <1>1, <1>2, <4>1, <4>2, DigitsInOrder
      <4> QED BY <3>2, <3>4, <4>2, <4>3
    <3>5. CASE Size(v) # Size(w)
      BY <1>1, <1>2, <1>3, <3>2, <3>3, <3>5
    <3> QED BY <3>4, <3>5
  <2>3. CASE w < 0
    <3>1. v < 0 /\ w < 0
      BY <1>1, <1>2, <2>3
    <3>2. /\ Code(v) = Zero - Size(v) /\ Code(w) = Zero - Size(w)
          /\ Body(v) = Complement(Digits(Magnitude(v), Size(v)), Size(v))
          /\ Body(w) = Complement(Digits(Magnitude(w), Size(w)), Size(w))
          /\ Magnitude(v) = -v /\ Magnitude(w) = -w
      BY <3>1 DEF Code, Body, Magnitude
    <3>3. Size(w) <= Size(v)
      <4>1. Magnitude(w) <= Magnitude(v)
        BY <1>1, <1>2, <3>2
      <4> QED BY <1>1, <1>2, <4>1, LengthMonotone DEF Size
    <3>4. CASE Size(v) = Size(w)
      <4>1. Magnitude(w) < Magnitude(v)
        BY <1>1, <1>2, <3>2
      <4>2. PICK n \in Nat : n = Size(v) /\ Magnitude(v) <= Power(Base, n) - 1
        BY <1>1
      <4>3. Decided(Complement(Digits(Magnitude(v), n), n), Complement(Digits(Magnitude(w), n), n))
        BY <1>1, <1>2, <4>1, <4>2, DigitsInOrder
      <4> QED BY <3>2, <3>4, <4>2, <4>3
    <3>5. CASE Size(v) # Size(w)
      BY <1>1, <1>2, <1>3, <3>2, <3>3, <3>5
    <3> QED BY <3>4, <3>5
  <2> QED BY <1>1, <1>2, <2>1, <2>2, <2>3
<1>5. CASE Code(v) < Code(w)
  BY <1>1, <1>2, <1>5, FirstDecides
<1>6. CASE Code(v) = Code(w) /\ Decided(Body(v), Body(w))
  BY <1>1, <1>2, <1>6, FirstDecides
<1> QED BY <1>4, <1>5, <1>6

-----------------------------------------------------------------------------
(* Items.                                                                  *)

\* The items of each type.
LEMMA ItemCases ==
  ASSUME NEW x \in Items
  PROVE  \/ x = [type |-> "null"] /\ x.type = "null"
         \/ /\ x.type \in {"bytes", "string"} /\ x.value \in Words(Bytes)
            /\ x = [type |-> x.type, value |-> x.value]
         \/ /\ x.type = "int" /\ x.value \in -Longest .. Longest
            /\ x = [type |-> x.type, value |-> x.value]
<1>1. CASE x \in Nulls
  BY <1>1 DEF Nulls
<1>2. CASE x \in Strings
  BY <1>2 DEF Strings, Words
<1>3. CASE x \in Numbers
  BY <1>3 DEF Numbers
<1> QED BY <1>1, <1>2, <1>3 DEF Items

\* What is packed of an item, by its type.
LEMMA EncodeCases ==
  ASSUME NEW x \in Items
  PROVE  /\ x.type = "null" => encode(x) = Join(One(0), <<>>)
         /\ x.type = "bytes" => encode(x) = Coded(1, x.value) /\ x.value \in Words(Bytes)
         /\ x.type = "string" => encode(x) = Coded(2, x.value) /\ x.value \in Words(Bytes)
         /\ x.type = "int" => encode(x) = EncodedInt(x.value) /\ x.value \in -Longest .. Longest
<1>1. ASSUME x.type = "null"
      PROVE  encode(x) = Join(One(0), <<>>)
  <2>1. One(0) \in Words(Bytes)
    BY CodeFacts, Monoid
  <2>2. Join(One(0), <<>>) = One(0)
    BY <2>1, Monoid
  <2> QED BY <1>1, <2>2 DEF encode, One
<1>2. ASSUME NEW c \in Bytes, NEW s \in Words(Bytes)
      PROVE  <<c>> \o Escaped(s) \o <<0>> = Coded(c, s)
  <2>1. One(c) \in Words(Bytes) /\ Escaped(s) \in Words(Bytes) /\ One(0) \in Words(Bytes)
    BY EscapedFacts, CodeFacts, Monoid
  <2>2. Join(Join(One(c), Escaped(s)), One(0)) = Coded(c, s)
    BY <2>1, Associative DEF Coded
  <2> QED BY <2>2, Zenon DEF Join, One
<1>3. ASSUME x.type = "bytes"
      PROVE  encode(x) = Coded(1, x.value) /\ x.value \in Words(Bytes)
  <2>1. encode(x) = <<1>> \o Escaped(x.value) \o <<0>>
    BY <1>3 DEF encode
  <2>2. x.value \in Words(Bytes)
    BY <1>3, ItemCases
  <2> QED BY <1>2, <2>1, <2>2, CodeFacts
<1>4. ASSUME x.type = "string"
      PROVE  encode(x) = Coded(2, x.value) /\ x.value \in Words(Bytes)
  <2>1. encode(x) = <<2>> \o Escaped(x.value) \o <<0>>
    BY <1>4 DEF encode
  <2>2. x.value \in Words(Bytes)
    BY <1>4, ItemCases
  <2> QED BY <1>2, <2>1, <2>2, CodeFacts
<1>5. ASSUME x.type = "int"
      PROVE  encode(x) = EncodedInt(x.value) /\ x.value \in -Longest .. Longest
  BY <1>5, ItemCases DEF encode
<1> QED BY <1>1, <1>3, <1>4, <1>5

\* An item begins with its code, which is never FF, and those of its types are in order.
LEMMA EncodeFirst ==
  ASSUME NEW x \in Items
  PROVE  \E b \in Bytes, r \in Words(Bytes) :
           /\ encode(x) = Join(One(b), r) /\ b # FF
           /\ x.type = "null" => b = 0
           /\ x.type = "bytes" => b = 1
           /\ x.type = "string" => b = 2
           /\ x.type = "int" => b > 2
<1>1. x.type \in {"null", "bytes", "string", "int"}
  BY ItemCases
<1>2. ASSUME NEW c \in Bytes, NEW s \in Words(Bytes)
      PROVE  \E r \in Words(Bytes) : Coded(c, s) = Join(One(c), r)
  <2>1. Escaped(s) \in Words(Bytes) /\ One(0) \in Words(Bytes)
    BY EscapedFacts, CodeFacts, Monoid
  <2>2. Join(Escaped(s), One(0)) \in Words(Bytes)
    BY <2>1, Monoid
  <2> QED BY <2>2 DEF Coded
<1>3. CASE x.type = "null"
  <2>1. encode(x) = Join(One(0), <<>>) /\ <<>> \in Words(Bytes)
    BY <1>3, EncodeCases, Monoid
  <2> QED BY <1>3, <2>1, CodeFacts
<1>4. CASE x.type = "bytes"
  <2>1. 1 \in Bytes /\ 1 # FF
    BY CodeFacts
  <2>2. PICK r \in Words(Bytes) : encode(x) = Join(One(1), r)
    BY <1>2, <1>4, <2>1, EncodeCases
  <2> QED BY <1>4, <2>1, <2>2
<1>5. CASE x.type = "string"
  <2>1. 2 \in Bytes /\ 2 # FF
    BY CodeFacts
  <2>2. PICK r \in Words(Bytes) : encode(x) = Join(One(2), r)
    BY <1>2, <1>5, <2>1, EncodeCases
  <2> QED BY <1>5, <2>1, <2>2
<1>6. CASE x.type = "int"
  <2>1. encode(x) = EncodedInt(x.value) /\ x.value \in -Longest .. Longest
    BY <1>6, EncodeCases
  <2>2. PICK b \in Bytes, r \in Words(Bytes) : EncodedInt(x.value) = Join(One(b), r) /\ b > 2 /\ b # FF
    BY <2>1, IntegerFacts
  <2> QED BY <1>6, <2>1, <2>2
<1> QED BY <1>1, <1>3, <1>4, <1>5, <1>6

\* Items are ordered as the keys of them,
LEMMA ItemsInOrder ==
  ASSUME NEW x \in Items, NEW y \in Items, ItemBefore(x, y)
  PROVE  Below(encode(x), encode(y))
<1>1. x.type \in {"null", "bytes", "string", "int"} /\ y.type \in {"null", "bytes", "string", "int"}
  BY ItemCases
<1>2. CASE TypeRank(x) < TypeRank(y)
  <2>1. PICK a \in Bytes, r \in Words(Bytes) :
          /\ encode(x) = Join(One(a), r) /\ a # FF
          /\ x.type = "null" => a = 0
          /\ x.type = "bytes" => a = 1
          /\ x.type = "string" => a = 2
          /\ x.type = "int" => a > 2
    BY EncodeFirst
  <2>2. PICK b \in Bytes, q \in Words(Bytes) :
          /\ encode(y) = Join(One(b), q) /\ b # FF
          /\ y.type = "null" => b = 0
          /\ y.type = "bytes" => b = 1
          /\ y.type = "string" => b = 2
          /\ y.type = "int" => b > 2
    BY EncodeFirst
  <2>3. a < b
    <3>1. a \in Int /\ b \in Int
      BY CodeFacts
    <3> QED BY <1>1, <1>2, <2>1, <2>2, <3>1 DEF TypeRank
  <2>4. Decided(encode(x), encode(y))
    BY <2>1, <2>2, <2>3, FirstDecides
  <2> QED BY <2>4 DEF Below
<1>3. CASE x.type = "int" /\ y.type = "int" /\ x.value < y.value
  <2>1. /\ encode(x) = EncodedInt(x.value) /\ x.value \in -Longest .. Longest
        /\ encode(y) = EncodedInt(y.value) /\ y.value \in -Longest .. Longest
    BY <1>3, EncodeCases
  <2>2. Decided(EncodedInt(x.value), EncodedInt(y.value))
    BY <1>3, <2>1, IntegersInOrder
  <2> QED BY <2>1, <2>2 DEF Below
<1>4. CASE x.type = y.type /\ x.type \in {"bytes", "string"} /\ Before(x.value, y.value)
  <2>1. PICK c \in Bytes : encode(x) = Coded(c, x.value) /\ encode(y) = Coded(c, y.value)
                           /\ x.value \in Words(Bytes) /\ y.value \in Words(Bytes)
    BY <1>4, EncodeCases, CodeFacts
  <2> QED BY <1>4, <2>1, CodedInOrder
<1> QED BY <1>1, <1>2, <1>3, <1>4 DEF ItemBefore

\* and of two of them one is before the other.
LEMMA ItemsCompared ==
  ASSUME NEW x \in Items, NEW y \in Items
  PROVE  x = y \/ ItemBefore(x, y) \/ ItemBefore(y, x)
<1>1. x.type \in {"null", "bytes", "string", "int"} /\ y.type \in {"null", "bytes", "string", "int"}
  BY ItemCases
<1>2. CASE x.type # y.type
  <2>1. TypeRank(x) < TypeRank(y) \/ TypeRank(y) < TypeRank(x)
    BY <1>1, <1>2 DEF TypeRank
  <2> QED BY <2>1 DEF ItemBefore
<1>3. CASE x.type = y.type /\ x.type = "null"
  BY <1>3, ItemCases
<1>4. CASE x.type = y.type /\ x.type = "int"
  <2>1. x.value \in Int /\ y.value \in Int
    <3>1. x.value \in -Longest .. Longest /\ y.value \in -Longest .. Longest
      BY <1>4, ItemCases
    <3> QED BY <3>1, LengthZero
  <2>2. x = [type |-> x.type, value |-> x.value] /\ y = [type |-> y.type, value |-> y.value]
    BY <1>4, ItemCases
  <2>3. x.value = y.value \/ x.value < y.value \/ y.value < x.value
    BY <2>1
  <2>4. CASE x.value = y.value
    BY <1>4, <2>2, <2>4
  <2>5. CASE x.value < y.value \/ y.value < x.value
    BY <1>4, <2>5 DEF ItemBefore
  <2> QED BY <2>3, <2>4, <2>5
<1>5. CASE x.type = y.type /\ x.type \in {"bytes", "string"}
  <2>1. x.value \in Words(Bytes) /\ y.value \in Words(Bytes)
    BY <1>5, ItemCases
  <2>2. x = [type |-> x.type, value |-> x.value] /\ y = [type |-> y.type, value |-> y.value]
    BY <1>5, ItemCases
  <2>3. x.value = y.value \/ Before(x.value, y.value) \/ Before(y.value, x.value)
    <3>1. Bytes \in SUBSET Int
      BY CodeFacts
    <3>2. /\ Before(x.value, y.value) <=> IsStrictPrefix(x.value, y.value) \/ Decided(x.value, y.value)
          /\ \/ x.value = y.value \/ IsStrictPrefix(x.value, y.value) \/ IsStrictPrefix(y.value, x.value)
             \/ Decided(x.value, y.value) \/ Decided(y.value, x.value)
      BY <2>1, <3>1, DecidedIs
    <3>3. Before(y.value, x.value) <=> IsStrictPrefix(y.value, x.value) \/ Decided(y.value, x.value)
      BY <2>1, <3>1, DecidedIs
    <3> QED BY <3>2, <3>3
  <2>4. CASE x.value = y.value
    BY <1>5, <2>2, <2>4
  <2>5. CASE Before(x.value, y.value) \/ Before(y.value, x.value)
    BY <1>5, <2>5 DEF ItemBefore
  <2> QED BY <2>3, <2>4, <2>5
<1> QED BY <1>1, <1>2, <1>3, <1>4, <1>5

-----------------------------------------------------------------------------
(* Tuples.                                                                 *)

EncodeOf == [x \in Items |-> encode(x)]

\* pack puts together what it packs of the items.
LEMMA PackFacts ==
  /\ pack(<<>>) = <<>>
  /\ \A x \in Items : pack(One(x)) = encode(x) /\ encode(x) \in Words(Bytes)
  /\ \A s \in Words(Items) : pack(s) \in Words(Bytes)
  /\ \A s, r \in Words(Items) : pack(Join(s, r)) = Join(pack(s), pack(r))
<1>1. ASSUME NEW s \in Words(Items)
      PROVE  pack(s) = Flat(EncodeOf, s)
  <2>1. \A i \in DOMAIN s : s[i] \in Items
    BY LenProperties, ElementOfSeq DEF Words
  <2>2. [i \in DOMAIN s |-> encode(s[i])] = Images(EncodeOf, s)
    BY <2>1 DEF Images, EncodeOf
  <2> QED BY <2>2, Zenon DEF pack, Flat
<1>2. \A x \in Items : EncodeOf[x] = encode(x) /\ encode(x) \in Words(Bytes) /\ EncodeOf[x] \in Seq(Bytes)
  <2>1. ASSUME NEW x \in Items
        PROVE  encode(x) \in Words(Bytes)
    <3>1. PICK b \in Bytes, r \in Words(Bytes) : encode(x) = Join(One(b), r)
      BY EncodeFirst
    <3>2. One(b) \in Words(Bytes)
      BY Monoid
    <3> QED BY <3>1, <3>2, Monoid
  <2> QED BY <2>1 DEF EncodeOf, Words
<1>3. pack(<<>>) = <<>>
  BY <1>1, Monoid, FlatEmpty
<1>4. \A s \in Words(Items) : Flat(EncodeOf, s) \in Words(Bytes)
  BY <1>2, FlatType DEF Words
<1>5. ASSUME NEW x \in Items
      PROVE  Flat(EncodeOf, One(x)) = EncodeOf[x]
  <2>1. EncodeOf[x] \in Seq(Bytes)
    BY <1>2
  <2> QED BY <2>1, FlatOne DEF One
<1>6. ASSUME NEW s \in Words(Items), NEW r \in Words(Items)
      PROVE  Flat(EncodeOf, Join(s, r)) = Join(Flat(EncodeOf, s), Flat(EncodeOf, r))
  <2>1. s \in Seq(Items) /\ r \in Seq(Items)
    BY DEF Words
  <2>2. \A x \in Items : EncodeOf[x] \in Seq(Bytes)
    BY <1>2
  <2>3. Flat(EncodeOf, s) \in Seq(Bytes) /\ Flat(EncodeOf, Join(s, r)) = Join(Flat(EncodeOf, s), Flat(EncodeOf, r))
    BY ONLY <2>1, <2>2, FlatConcat
  <2> QED BY <2>3
<1>7. \A x \in Items : One(x) \in Words(Items)
  BY Monoid
<1>8. \A s, r \in Words(Items) : Join(s, r) \in Words(Items)
  BY Monoid
<1> QED BY <1>1, <1>2, <1>3, <1>4, <1>5, <1>6, <1>7, <1>8

\* The key of a tuple at one of its items.
LEMMA PackAt ==
  ASSUME NEW p \in Words(Items), NEW x \in Items, NEW r \in Words(Items)
  PROVE  /\ pack(Join(p, Join(One(x), r))) = Join(pack(p), Join(encode(x), pack(r)))
         /\ pack(p) \in Words(Bytes) /\ encode(x) \in Words(Bytes) /\ pack(r) \in Words(Bytes)
<1>1. One(x) \in Words(Items)
  BY Monoid
<1>2. Join(One(x), r) \in Words(Items)
  BY <1>1, Monoid
<1> QED BY <1>1, <1>2, PackFacts

\* A key that is empty or does not begin with FF.
Tame(k) == k = <<>> \/ \E b \in Bytes, r \in Words(Bytes) : k = Join(One(b), r) /\ b # FF

\* The key of a tuple does not begin with FF, and is not empty unless the tuple is.
LEMMA PackTame ==
  ASSUME NEW t \in Words(Items)
  PROVE  Tame(pack(t)) /\ (t # <<>> => pack(t) # <<>>)
<1>1. CASE t = <<>>
  BY <1>1, PackFacts DEF Tame
<1>2. CASE t # <<>>
  <2>1. PICK x \in Items, r \in Words(Items) : t = Join(One(x), r)
    BY <1>2, FirstOf
  <2>2. One(x) \in Words(Items)
    BY Monoid
  <2>3. pack(t) = Join(encode(x), pack(r)) /\ pack(r) \in Words(Bytes)
    BY <2>1, <2>2, PackFacts
  <2>4. PICK b \in Bytes, q \in Words(Bytes) : encode(x) = Join(One(b), q) /\ b # FF
    BY EncodeFirst
  <2>5. One(b) \in Words(Bytes) /\ Join(q, pack(r)) \in Words(Bytes)
    BY <2>3, Monoid
  <2>6. pack(t) = Join(One(b), Join(q, pack(r)))
    BY <2>3, <2>4, <2>5, Associative
  <2> QED BY <2>4, <2>5, <2>6, Cancel DEF Tame
<1> QED BY <1>1, <1>2

\* What is below stays below in front of keys that do not begin with FF, and behind others.
LEMMA BelowJoin ==
  ASSUME NEW k \in Words(Bytes), NEW l \in Words(Bytes), Below(k, l),
         NEW p \in Words(Bytes), NEW r \in Words(Bytes), NEW q \in Words(Bytes), Tame(r)
  PROVE  Below(Join(p, Join(k, r)), Join(p, Join(l, q)))
<1>1. CASE Decided(k, l)
  <2>1. Decided(Join(k, r), Join(l, q)) /\ Join(k, r) \in Words(Bytes) /\ Join(l, q) \in Words(Bytes)
    BY <1>1, DecidedJoin, Monoid
  <2> QED BY <2>1, DecidedJoin DEF Below
<1>2. CASE \E z \in Words(Bytes) : l = Join(k, Join(One(FF), z))
  <2>1. PICK z \in Words(Bytes) : l = Join(k, Join(One(FF), z))
    BY <1>2
  <2>2. PICK f \in Words(Bytes) : f = One(FF)
    BY CodeFacts, Monoid
  <2>3. Join(f, z) \in Words(Bytes) /\ Join(z, q) \in Words(Bytes)
    BY Monoid
  <2>4. Join(l, q) = Join(k, Join(f, Join(z, q)))
    BY <2>1, <2>2, <2>3, Associative
  <2>5. Join(f, Join(z, q)) \in Words(Bytes) /\ Join(p, k) \in Words(Bytes)
    BY <2>3, Monoid
  <2>6. Join(p, Join(l, q)) = Join(Join(p, k), Join(f, Join(z, q)))
    BY <2>4, <2>5, Associative
  <2>7. Join(p, Join(k, r)) = Join(Join(p, k), r)
    BY Associative
  <2>8. CASE r = <<>>
    <3>1. Join(Join(p, k), r) = Join(p, k)
      BY <2>5, <2>8, Monoid
    <3> QED BY <2>2, <2>3, <2>6, <2>7, <3>1 DEF Below
  <2>9. CASE \E b \in Bytes, u \in Words(Bytes) : r = Join(One(b), u) /\ b # FF
    <3>1. PICK b \in Bytes, u \in Words(Bytes) : r = Join(One(b), u) /\ b # FF
      BY <2>9
    <3>2. b < FF /\ FF \in Bytes
      BY <3>1, CodeFacts
    <3>3. Decided(r, Join(f, Join(z, q)))
      BY <2>2, <2>3, <3>1, <3>2, FirstDecides
    <3>4. Decided(Join(Join(p, k), r), Join(Join(p, k), Join(f, Join(z, q))))
      BY <2>5, <3>3, DecidedJoin
    <3> QED BY <2>6, <2>7, <3>4 DEF Below
  <2> QED BY <2>8, <2>9 DEF Tame
<1> QED BY <1>1, <1>2 DEF Below

\* One tuple is before another by the items where they part.
BeforeByItem(s, t) ==
  \E p, r, q \in Words(Items), x, y \in Items : ItemBefore(x, y) /\ Parted(s, t, p, x, r, y, q)

\* Where two tuples part, their keys do: the items before are packed to the same bytes.
LEMMA PackInOrder ==
  ASSUME NEW s \in Words(Items), NEW t \in Words(Items), BeforeByItem(s, t)
  PROVE  Below(pack(s), pack(t))
<1>1. PICK p, r, q \in Words(Items), x, y \in Items : ItemBefore(x, y) /\ Parted(s, t, p, x, r, y, q)
  BY DEF BeforeByItem
<1>2. /\ pack(s) = Join(pack(p), Join(encode(x), pack(r)))
      /\ pack(p) \in Words(Bytes) /\ encode(x) \in Words(Bytes) /\ pack(r) \in Words(Bytes)
  BY <1>1, PackAt DEF Parted
<1>3. /\ pack(t) = Join(pack(p), Join(encode(y), pack(q)))
      /\ encode(y) \in Words(Bytes) /\ pack(q) \in Words(Bytes)
  BY <1>1, PackAt DEF Parted
<1>4. Below(encode(x), encode(y)) /\ Tame(pack(r))
  BY <1>1, ItemsInOrder, PackTame
<1> QED BY <1>2, <1>3, <1>4, BelowJoin

\* The key of a tuple that goes on from another one.
Continues(k, l) == \E b \in Bytes, r \in Words(Bytes) : l = Join(k, Join(One(b), r)) /\ b # FF

\* A tuple that goes on from another has a key that goes on from its key, and not by FF.
LEMMA PackContinues ==
  ASSUME NEW s \in Words(Items), NEW t \in Words(Items), IsStrictPrefix(s, t)
  PROVE  Continues(pack(s), pack(t))
<1>1. PICK x \in Items, r \in Words(Items) : t = Join(s, Join(One(x), r))
  BY Begins
<1>2. PICK u \in Words(Items) : u = Join(One(x), r) /\ u # <<>>
  BY Monoid, Cancel
<1>3. pack(t) = Join(pack(s), pack(u)) /\ Tame(pack(u)) /\ pack(u) # <<>>
  BY <1>1, <1>2, PackFacts, PackTame
<1> QED BY <1>3 DEF Tame, Continues

\* The keys of two tuples compare as the tuples do.
LEMMA PackCompared ==
  ASSUME NEW s \in Words(Items), NEW t \in Words(Items)
  PROVE  \/ s = t
         \/ IsStrictPrefix(s, t) /\ Continues(pack(s), pack(t))
         \/ IsStrictPrefix(t, s) /\ Continues(pack(t), pack(s))
         \/ BeforeByItem(s, t) /\ Below(pack(s), pack(t))
         \/ BeforeByItem(t, s) /\ Below(pack(t), pack(s))
<1>1. ASSUME NEW x \in Items, NEW y \in Items, NEW p \in Words(Items), NEW r \in Words(Items), NEW q \in Words(Items),
             x # y, Parted(s, t, p, x, r, y, q)
      PROVE  BeforeByItem(s, t) \/ BeforeByItem(t, s)
  <2>1. ItemBefore(x, y) \/ ItemBefore(y, x)
    BY <1>1, ItemsCompared
  <2>2. Parted(t, s, p, y, q, x, r)
    BY <1>1 DEF Parted
  <2> QED BY <1>1, <2>1, <2>2 DEF BeforeByItem
<1>2. s = t \/ IsStrictPrefix(s, t) \/ IsStrictPrefix(t, s) \/ BeforeByItem(s, t) \/ BeforeByItem(t, s)
  BY <1>1, Diverge
<1>3. IsStrictPrefix(s, t) => Continues(pack(s), pack(t))
  BY PackContinues
<1>4. IsStrictPrefix(t, s) => Continues(pack(t), pack(s))
  BY PackContinues
<1>5. BeforeByItem(s, t) => Below(pack(s), pack(t))
  BY PackInOrder
<1>6. BeforeByItem(t, s) => Below(pack(t), pack(s))
  BY PackInOrder
<1> QED BY <1>2, <1>3, <1>4, <1>5, <1>6

-----------------------------------------------------------------------------
(* The order of the keys of tuples.                                        *)

\* Precedes, for tuples, is to go on or to be before by an item.
LEMMA PrecedesIs ==
  ASSUME NEW s \in Words(Items), NEW t \in Words(Items)
  PROVE  Precedes(ItemBefore, s, t) <=> IsStrictPrefix(s, t) \/ BeforeByItem(s, t)
<1>1. s \in Seq(Items) /\ t \in Seq(Items)
  BY DEF Words
<1>2. Len(s) \in Nat /\ Len(t) \in Nat /\ DOMAIN s = 1 .. Len(s) /\ DOMAIN t = 1 .. Len(t)
  BY <1>1, LenProperties
<1>3. Precedes(ItemBefore, s, t) <=>
        \/ IsStrictPrefix(s, t)
        \/ \E j \in DOMAIN s \cap DOMAIN t : ItemBefore(s[j], t[j]) /\ SubSeq(s, 1, j - 1) = SubSeq(t, 1, j - 1)
  BY DEF Precedes
<1>4. ASSUME NEW j \in DOMAIN s \cap DOMAIN t, ItemBefore(s[j], t[j]), SubSeq(s, 1, j - 1) = SubSeq(t, 1, j - 1)
      PROVE  BeforeByItem(s, t)
  <2>1. j \in 1 .. Len(s) /\ j <= Len(t)
    BY <1>2
  <2>2. \A i \in 1 .. j - 1 : s[i] = t[i]
    BY <1>1, <1>4, <2>1, SameStart
  <2>3. s[j] \in Items /\ t[j] \in Items /\ \E p, r, q \in Words(Items) : Parted(s, t, p, s[j], r, t[j], q)
    BY <2>1, <2>2, PartedAt
  <2> QED BY <1>4, <2>3 DEF BeforeByItem
<1>5. ASSUME BeforeByItem(s, t)
      PROVE  \E j \in DOMAIN s \cap DOMAIN t : ItemBefore(s[j], t[j]) /\ SubSeq(s, 1, j - 1) = SubSeq(t, 1, j - 1)
  <2>1. PICK p, r, q \in Words(Items), x, y \in Items : ItemBefore(x, y) /\ Parted(s, t, p, x, r, y, q)
    BY <1>5 DEF BeforeByItem
  <2>2. PICK n : n = Len(p)
    OBVIOUS
  <2>3. /\ n \in Nat /\ n + 1 \in 1 .. Len(s)
        /\ s[n + 1] = x /\ \A i \in 1 .. n : s[i] = p[i]
    <3>1. s = Join(p, Join(One(x), r))
      BY <2>1 DEF Parted
    <3>2. /\ Len(p) \in Nat /\ Len(p) + 1 \in 1 .. Len(s)
          /\ s[Len(p) + 1] = x /\ \A i \in 1 .. Len(p) : s[i] = p[i]
      BY <3>1, AtParted
    <3> QED BY <2>2, <3>2
  <2>4. /\ n + 1 \in 1 .. Len(t)
        /\ t[n + 1] = y /\ \A i \in 1 .. n : t[i] = p[i]
    <3>1. t = Join(p, Join(One(y), q))
      BY <2>1 DEF Parted
    <3>2. /\ Len(p) \in Nat /\ Len(p) + 1 \in 1 .. Len(t)
          /\ t[Len(p) + 1] = y /\ \A i \in 1 .. Len(p) : t[i] = p[i]
      BY <3>1, AtParted
    <3> QED BY <2>2, <3>2
  <2>5. PICK j : j = n + 1 /\ j - 1 = n
    BY <2>3
  <2>6. j \in 1 .. Len(s) /\ j <= Len(t) /\ \A i \in 1 .. j - 1 : s[i] = t[i]
    BY <2>3, <2>4, <2>5
  <2>7. SubSeq(s, 1, j - 1) = SubSeq(t, 1, j - 1)
    BY <1>1, <2>6, SameStart
  <2>8. j \in DOMAIN s \cap DOMAIN t
    BY <1>2, <2>3, <2>4, <2>5
  <2>9. ItemBefore(s[j], t[j])
    BY <2>1, <2>3, <2>4, <2>5
  <2> QED BY <2>7, <2>8, <2>9
<1> QED BY <1>3, <1>4, <1>5

\* What Below and Continues say of the order of keys.
LEMMA BelowIs ==
  ASSUME NEW k \in Words(Bytes), NEW l \in Words(Bytes)
  PROVE  /\ Below(k, l) => Before(k, l) /\ ~Before(l, k) /\ k # l
         /\ Continues(k, l) => Before(k, l) /\ ~Before(l, k) /\ k # l
         /\ IsStrictPrefix(k, l) => Before(k, l)
         /\ IsPrefix(k, l) => ~Before(l, k)
<1>1. Bytes \in SUBSET Int
  BY CodeFacts
<1>2. /\ Before(k, l) <=> IsStrictPrefix(k, l) \/ Decided(k, l)
      /\ Decided(k, l) => ~Decided(l, k) /\ ~IsPrefix(k, l) /\ ~IsPrefix(l, k) /\ k # l
  BY <1>1, DecidedIs
<1>3. /\ Before(l, k) <=> IsStrictPrefix(l, k) \/ Decided(l, k)
      /\ Decided(l, k) => ~IsPrefix(k, l)
  BY <1>1, DecidedIs
<1>4. ASSUME IsPrefix(k, l), IsStrictPrefix(l, k)
      PROVE  FALSE
  <2>1. k \in Seq(Bytes) /\ l \in Seq(Bytes) /\ IsPrefix(l, k) /\ k # l
    BY <1>4 DEF Words, IsStrictPrefix
  <2>2. Len(k) <= Len(l) /\ \A i \in 1 .. Len(k) : k[i] = l[i]
    BY <1>4, <2>1, PrefixIs
  <2>3. Len(l) <= Len(k)
    BY <2>1, PrefixIs
  <2>4. Len(k) = Len(l)
    BY <2>1, <2>2, <2>3, LenProperties
  <2> QED BY <2>1, <2>2, <2>4, SeqEqual
<1>5. ASSUME IsStrictPrefix(k, l)
      PROVE  Before(k, l) /\ ~Before(l, k) /\ k # l
  <2>1. IsPrefix(k, l) /\ k # l
    BY <1>5 DEF IsStrictPrefix
  <2> QED BY <1>2, <1>3, <1>4, <1>5, <2>1
<1>6. ASSUME NEW b \in Bytes, NEW r \in Words(Bytes), l = Join(k, Join(One(b), r))
      PROVE  IsStrictPrefix(k, l)
  BY <1>6, Begins
<1>7. Below(k, l) => Decided(k, l) \/ IsStrictPrefix(k, l)
  BY <1>6, CodeFacts DEF Below
<1>8. Continues(k, l) => IsStrictPrefix(k, l)
  BY <1>6 DEF Continues
<1>9. Decided(k, l) => Before(k, l) /\ ~Before(l, k) /\ k # l
  <2>1. Decided(k, l) => ~IsStrictPrefix(l, k)
    BY <1>2 DEF IsStrictPrefix
  <2> QED BY <1>2, <1>3, <2>1
<1> QED BY <1>2, <1>3, <1>4, <1>5, <1>7, <1>8, <1>9

\* Keys are in the order of their tuples.
LEMMA KeysInOrder ==
  ASSUME NEW s \in Words(Items), NEW t \in Words(Items)
  PROVE  /\ Precedes(ItemBefore, s, t) <=> Before(pack(s), pack(t))
         /\ s = t <=> pack(s) = pack(t)
<1>1. pack(s) \in Words(Bytes) /\ pack(t) \in Words(Bytes)
  BY PackFacts
<1>2. Precedes(ItemBefore, s, t) <=> IsStrictPrefix(s, t) \/ BeforeByItem(s, t)
  BY PrecedesIs
<1>3. IsStrictPrefix(s, t) => Continues(pack(s), pack(t))
  BY PackContinues
<1>4. BeforeByItem(s, t) => Below(pack(s), pack(t))
  BY PackInOrder
<1>5. PICK k, l \in Words(Bytes) : k = pack(s) /\ l = pack(t)
  BY <1>1
<1>6. /\ Below(k, l) => Before(k, l) /\ ~Before(l, k) /\ k # l
      /\ Continues(k, l) => Before(k, l) /\ ~Before(l, k) /\ k # l
      /\ IsPrefix(k, l) => ~Before(l, k)
  BY BelowIs
<1>7. /\ Below(l, k) => Before(l, k) /\ ~Before(k, l) /\ k # l
      /\ Continues(l, k) => Before(l, k) /\ ~Before(k, l) /\ k # l
      /\ IsPrefix(l, k) => ~Before(k, l)
  BY BelowIs
<1>8. IsPrefix(k, k)
  BY Begins, Monoid
<1>9. /\ \/ s = t
         \/ IsStrictPrefix(s, t) /\ Continues(k, l)
         \/ IsStrictPrefix(t, s) /\ Continues(l, k)
         \/ BeforeByItem(s, t) /\ Below(k, l)
         \/ BeforeByItem(t, s) /\ Below(l, k)
  BY <1>5, PackCompared
<1>10. s = t => k = l
  BY <1>5
<1> QED BY <1>2, <1>3, <1>4, <1>5, <1>6, <1>7, <1>8, <1>9, <1>10

-----------------------------------------------------------------------------
(* Ranges.                                                                 *)

\* A raw prefix in front of keys changes nothing between them.
LEMMA BehindRaw ==
  ASSUME NEW p \in Words(Bytes), NEW k \in Words(Bytes), NEW l \in Words(Bytes)
  PROVE  /\ Below(k, l) => Below(Join(p, k), Join(p, l))
         /\ Continues(k, l) => Continues(Join(p, k), Join(p, l))
<1>1. ASSUME NEW b \in Bytes, NEW r \in Words(Bytes), l = Join(k, Join(One(b), r))
      PROVE  Join(p, l) = Join(Join(p, k), Join(One(b), r))
  <2>1. One(b) \in Words(Bytes)
    BY Monoid
  <2>2. Join(One(b), r) \in Words(Bytes)
    BY <2>1, Monoid
  <2> QED BY <1>1, <2>2, Associative
<1>2. Decided(k, l) => Decided(Join(p, k), Join(p, l))
  BY DecidedJoin
<1> QED BY <1>1, <1>2, CodeFacts DEF Below, Continues

\* The keys between those with 0 and with FF behind a prefix.
LEMMA RangeOf ==
  ASSUME NEW p \in Words(Bytes), NEW k \in Words(Bytes)
  PROVE  /\ Join(p, One(0)) \in Words(Bytes) /\ Join(p, One(FF)) \in Words(Bytes)
         /\ k = p => Before(k, Join(p, One(0)))
         /\ Continues(p, k) => ~Before(k, Join(p, One(0))) /\ Before(k, Join(p, One(FF)))
         /\ Continues(k, p) => Before(k, Join(p, One(0)))
         /\ Below(p, k) => ~Before(k, Join(p, One(FF)))
         /\ Below(k, p) => Before(k, Join(p, One(0)))
<1>1. PICK z, f \in Words(Bytes) : z = One(0) /\ f = One(FF) /\ Join(z, <<>>) = z /\ Join(f, <<>>) = f
  BY CodeFacts, Monoid
<1>2. PICK b, e \in Words(Bytes) : b = Join(p, z) /\ e = Join(p, f)
  BY Monoid
<1>3. Bytes \in SUBSET Int /\ 0 \in Bytes /\ FF \in Bytes /\ <<>> \in Words(Bytes)
  BY CodeFacts, Monoid
<1>4. IsStrictPrefix(p, b)
  BY <1>1, <1>2, <1>3, Begins
<1>5. ASSUME k = p
      PROVE  Before(k, b)
  BY <1>4, <1>5, BelowIs
<1>6. ASSUME Continues(p, k)
      PROVE  ~Before(k, b) /\ Before(k, e)
  <2>1. PICK c \in Bytes, r \in Words(Bytes) : k = Join(p, Join(One(c), r)) /\ c # FF
    BY <1>6 DEF Continues
  <2>2. c < FF /\ (c = 0 \/ 0 < c)
    BY <2>1, CodeFacts
  <2>3. Decided(k, Join(p, Join(One(FF), <<>>)))
    BY <1>3, <2>1, <2>2, PartedDecides
  <2>4. Below(k, e)
    BY <1>1, <1>2, <2>3 DEF Below
  <2>5. CASE c = 0
    <3>1. Join(p, Join(z, r)) = Join(b, r)
      BY <1>2, Associative
    <3>2. IsPrefix(b, k)
      BY <1>1, <2>1, <2>5, <3>1, Begins
    <3> QED BY <2>4, <3>2, BelowIs
  <2>6. CASE 0 < c
    <3>1. Decided(Join(p, Join(One(0), <<>>)), k)
      BY <1>3, <2>1, <2>6, PartedDecides
    <3>2. Below(b, k)
      BY <1>1, <1>2, <3>1 DEF Below
    <3> QED BY <2>4, <3>2, BelowIs
  <2> QED BY <2>2, <2>5, <2>6
<1>7. ASSUME NEW c \in Bytes, NEW r \in Words(Bytes), p = Join(k, Join(One(c), r))
      PROVE  Before(k, b)
  <2>1. One(c) \in Words(Bytes) /\ Join(r, z) \in Words(Bytes)
    BY Monoid
  <2>2. Join(One(c), r) \in Words(Bytes)
    BY <2>1, Monoid
  <2>3. b = Join(k, Join(One(c), Join(r, z)))
    BY <1>2, <1>7, <2>1, <2>2, Associative
  <2>4. IsStrictPrefix(k, b)
    BY <2>1, <2>3, Begins
  <2> QED BY <2>4, BelowIs
<1>8. Continues(k, p) => Before(k, b)
  BY <1>7 DEF Continues
<1>9. ASSUME Below(p, k)
      PROVE  ~Before(k, e)
  <2>1. CASE Decided(p, k)
    <3>1. Join(k, <<>>) = k
      BY Monoid
    <3>2. Decided(e, k)
      BY <1>2, <1>3, <2>1, <3>1, DecidedJoin
    <3> QED BY <3>2, BelowIs DEF Below
  <2>2. CASE \E r \in Words(Bytes) : k = Join(p, Join(One(FF), r))
    <3>1. PICK r \in Words(Bytes) : k = Join(p, Join(f, r))
      BY <1>1, <2>2
    <3>2. k = Join(e, r)
      BY <1>2, <3>1, Associative
    <3>3. IsPrefix(e, k)
      BY <3>2, Begins
    <3> QED BY <3>3, BelowIs
  <2> QED BY <1>9, <2>1, <2>2 DEF Below
<1>10. ASSUME Below(k, p)
       PROVE  Before(k, b)
  <2>1. CASE Decided(k, p)
    <3>1. Join(k, <<>>) = k
      BY Monoid
    <3>2. Decided(k, b)
      BY <1>2, <1>3, <2>1, <3>1, DecidedJoin
    <3> QED BY <3>2, BelowIs DEF Below
  <2>2. CASE \E r \in Words(Bytes) : p = Join(k, Join(One(FF), r))
    BY <1>3, <1>7, <2>2
  <2> QED BY <1>10, <2>1, <2>2 DEF Below
<1> QED BY <1>1, <1>2, <1>5, <1>6, <1>8, <1>9, <1>10

\* The range of a subspace.
LEMMA RangeExact ==
  ASSUME NEW p \in Words(Bytes), NEW s \in Words(Items), NEW t \in Words(Items)
  PROVE  Within(Join(p, pack(t)), range(Join(p, pack(s)))) <=> IsStrictPrefix(s, t)
<1>1. pack(s) \in Words(Bytes) /\ pack(t) \in Words(Bytes)
  BY PackFacts
<1>2. PICK q, k \in Words(Bytes) : q = Join(p, pack(s)) /\ k = Join(p, pack(t))
  BY <1>1, Monoid
<1>3. range(q).begin = Join(q, One(0)) /\ range(q).end = Join(q, One(FF))
  <2>1. q \in Seq(Bytes) /\ 0 \in Bytes /\ FF \in Bytes
    BY CodeFacts DEF Words
  <2>2. Append(q, 0) = q \o <<0>> /\ Append(q, FF) = q \o <<FF>>
    BY <2>1, AppendIsConcat
  <2>3. range(q).begin = Append(q, 0) /\ range(q).end = Append(q, FF)
    BY DEF range
  <2> QED BY <2>2, <2>3, Zenon DEF Join, One
<1>4. Within(k, range(q)) <=> ~Before(k, Join(q, One(0))) /\ Before(k, Join(q, One(FF)))
  BY <1>3 DEF Within
<1>5. /\ k = q => Before(k, Join(q, One(0)))
      /\ Continues(q, k) => ~Before(k, Join(q, One(0))) /\ Before(k, Join(q, One(FF)))
      /\ Continues(k, q) => Before(k, Join(q, One(0)))
      /\ Below(q, k) => ~Before(k, Join(q, One(FF)))
      /\ Below(k, q) => Before(k, Join(q, One(0)))
  BY RangeOf
<1>6. /\ Below(pack(s), pack(t)) => Below(q, k)
      /\ Continues(pack(s), pack(t)) => Continues(q, k)
  BY <1>1, <1>2, BehindRaw
<1>7. /\ Below(pack(t), pack(s)) => Below(k, q)
      /\ Continues(pack(t), pack(s)) => Continues(k, q)
  BY <1>1, <1>2, BehindRaw
<1>8. \/ s = t
      \/ IsStrictPrefix(s, t) /\ Continues(pack(s), pack(t))
      \/ IsStrictPrefix(t, s) /\ Continues(pack(t), pack(s))
      \/ BeforeByItem(s, t) /\ Below(pack(s), pack(t))
      \/ BeforeByItem(t, s) /\ Below(pack(t), pack(s))
  BY PackCompared
<1>9. s = t => k = q
  BY <1>2
<1>10. IsStrictPrefix(s, t) => Continues(pack(s), pack(t))
  BY PackContinues
<1> QED BY <1>2, <1>4, <1>5, <1>6, <1>7, <1>8, <1>9, <1>10

\* Max of a set of places.
LEMMA MaxFacts ==
  ASSUME NEW N \in Nat, NEW S, S \subseteq 1 .. N, S # {}
  PROVE  Max(S) \in S /\ \A m \in S : m <= Max(S)
<1> DEFINE D == {N - i : i \in S}
<1>1. D \subseteq Nat /\ D # {}
  <2>1. ASSUME NEW i \in S
        PROVE  N - i \in Nat
    <3>1. i \in 1 .. N
      OBVIOUS
    <3> QED BY <3>1
  <2> QED BY <2>1
<1>2. PICK d \in D : \A e \in D : d <= e
  <2> HIDE DEF D
  <2> QED BY <1>1, Least
<1>3. PICK n \in S : d = N - n
  BY <1>2
<1>4. \A m \in S : n >= m
  <2>1. ASSUME NEW m \in S
        PROVE  n >= m
    <3>1. N - m \in D /\ m \in Int /\ n \in Int
      OBVIOUS
    <3>2. N - n <= N - m
      BY <1>2, <1>3, <3>1
    <3> QED BY <3>1, <3>2
  <2> QED BY <2>1
<1>5. \E x \in S : \A y \in S : x >= y
  BY <1>4
<1>6. Max(S) \in S /\ \A y \in S : Max(S) >= y
  BY <1>5, Zenon DEF Max
<1>7. \A m \in S : m \in Int /\ Max(S) \in Int
  BY <1>6
<1> QED BY <1>6, <1>7

\* What a prefix is incremented to.
LEMMA StrincFacts ==
  ASSUME NEW p \in Words(Bytes), CanIncrement(p)
  PROVE  \E n \in 1 .. Len(p), c \in Words(Bytes) :
           /\ c = strinc(p) /\ Len(c) = n /\ n \in Nat
           /\ p[n] \in Bytes /\ c[n] = p[n] + 1
           /\ \A i \in 1 .. n - 1 : c[i] = p[i]
           /\ \A i \in n + 1 .. Len(p) : p[i] = FF
<1>0. p \in Seq(Bytes) /\ Len(p) \in Nat /\ DOMAIN p = 1 .. Len(p)
  BY LenProperties DEF Words
<1> DEFINE D == {i \in DOMAIN p : p[i] # FF}
<1>1. D \subseteq 1 .. Len(p) /\ D # {}
  BY <1>0 DEF CanIncrement
<1>2. PICK n : n = Max(D)
  OBVIOUS
<1>3. n \in D /\ \A m \in D : m <= n
  <2> HIDE DEF D
  <2> QED BY <1>0, <1>1, <1>2, MaxFacts
<1>4. n \in 1 .. Len(p) /\ n \in Nat /\ p[n] # FF /\ \A i \in n + 1 .. Len(p) : p[i] = FF
  <2>1. n \in 1 .. Len(p) /\ p[n] # FF
    BY <1>1, <1>3
  <2>2. ASSUME NEW i \in n + 1 .. Len(p)
        PROVE  p[i] = FF
    <3>1. i \in 1 .. Len(p) /\ ~(i <= n)
      BY <1>0, <2>1
    <3> QED BY <1>0, <1>3, <3>1
  <2> QED BY <1>0, <2>1, <2>2
<1>5. p[n] \in Bytes /\ p[n] + 1 \in Bytes
  <2>1. p[n] \in Bytes
    BY <1>0, <1>4, ElementOfSeq
  <2>2. PICK b \in Bytes : b = p[n] /\ b # FF
    BY <1>4, <2>1
  <2>3. b + 1 \in Bytes
    BY <2>2, CodeFacts
  <2> QED BY <2>1, <2>2, <2>3
<1>6. PICK s \in Seq(Bytes) : s = SubSeq(p, 1, n) /\ Len(s) = n /\ \A i \in 1 .. n : s[i] = p[i]
  <2>1. n \in 0 .. Len(p)
    BY <1>4
  <2>2. PICK s : s = SubSeq(p, 1, n)
    OBVIOUS
  <2>3. s \in Seq(Bytes) /\ Len(s) = n /\ \A i \in 1 .. n : s[i] = p[i]
    BY <1>0, <2>1, <2>2, Parts
  <2> QED BY <2>2, <2>3
<1>7. PICK c : c = [s EXCEPT ![n] = @ + 1]
  OBVIOUS
<1>8. n \in 1 .. Len(s) /\ s[n] = p[n]
  BY <1>4, <1>6
<1>9. c = [s EXCEPT ![n] = p[n] + 1]
  BY <1>7, <1>8
<1>10. c \in Seq(Bytes) /\ Len(c) = Len(s) /\ \A i \in 1 .. Len(s) : c[i] = IF i = n THEN p[n] + 1 ELSE s[i]
  BY <1>5, <1>8, <1>9, ExceptSeq
<1>11. c = strinc(p)
  BY <1>2, <1>6, <1>7, Zenon DEF strinc
<1>12. c[n] = p[n] + 1 /\ \A i \in 1 .. n - 1 : c[i] = p[i]
  <2>1. c[n] = p[n] + 1
    BY <1>8, <1>10
  <2>2. ASSUME NEW i \in 1 .. n - 1
        PROVE  c[i] = p[i]
    <3>1. i \in 1 .. n /\ i # n /\ i \in 1 .. Len(s)
      BY <1>4, <1>6
    <3> QED BY <1>6, <1>10, <3>1
  <2> QED BY <2>1, <2>2
<1> QED BY <1>4, <1>5, <1>6, <1>10, <1>11, <1>12 DEF Words

\* The keys with a prefix.
LEMMA StartsWithExact ==
  ASSUME NEW p \in Words(Bytes), CanIncrement(p), NEW k \in Words(Bytes)
  PROVE  Within(k, [begin |-> p, end |-> strinc(p)]) <=> contains(p, k)
<1>0. p \in Seq(Bytes) /\ k \in Seq(Bytes) /\ Len(p) \in Nat /\ Len(k) \in Nat /\ Bytes \in SUBSET Int
  BY LenProperties, CodeFacts DEF Words
<1>1. contains(p, k) <=> IsPrefix(p, k)
  <2>1. SubSeq(p, 1, Len(p)) = p
    BY <1>0, SubSeqFull
  <2>2. Len(k) >= Len(p) <=> Len(p) <= Len(k)
    BY <1>0
  <2> QED BY <2>1, <2>2 DEF contains, IsPrefix
<1>2. PICK n \in 1 .. Len(p), c \in Words(Bytes) :
        /\ c = strinc(p) /\ Len(c) = n /\ n \in Nat
        /\ p[n] \in Bytes /\ c[n] = p[n] + 1
        /\ \A i \in 1 .. n - 1 : c[i] = p[i]
        /\ \A i \in n + 1 .. Len(p) : p[i] = FF
  BY StrincFacts
<1>3. Within(k, [begin |-> p, end |-> strinc(p)]) <=> ~Before(k, p) /\ Before(k, c)
  BY <1>2 DEF Within
<1>4. p[n] \in Int /\ c[n] \in Int /\ p[n] < c[n]
  <2>1. PICK b \in Bytes : b = p[n]
    BY <1>2
  <2>2. b \in Int
    BY <1>0
  <2> QED BY <1>2, <2>1, <2>2
<1>5. ASSUME IsPrefix(p, k)
      PROVE  ~Before(k, p) /\ Before(k, c)
  <2>1. ~Before(k, p)
    BY <1>5, BelowIs
  <2>2. Len(p) <= Len(k) /\ \A i \in 1 .. Len(p) : p[i] = k[i]
    BY <1>0, <1>5, PrefixIs
  <2>3. n \in 1 .. Len(k) /\ k[n] < c[n]
    BY <1>0, <1>4, <2>2
  <2>4. \A i \in 1 .. n - 1 : k[i] = c[i]
    <3>1. \A i \in 1 .. n - 1 : i \in 1 .. Len(p)
      BY <1>2
    <3> QED BY <1>2, <2>2, <3>1
  <2>5. Decided(k, c)
    BY <1>2, <2>3, <2>4 DEF Decided
  <2>6. Below(k, c)
    BY <2>5 DEF Below
  <2> QED BY <2>1, <2>6, BelowIs
<1>6. ASSUME Decided(p, k)
      PROVE  ~Before(k, c)
  <2>1. PICK j \in 1 .. Len(p) : j <= Len(k) /\ p[j] < k[j] /\ \A i \in 1 .. j - 1 : p[i] = k[i]
    BY <1>6 DEF Decided
  <2>2. j \in 1 .. Len(k) /\ j \in Nat
    BY <1>0, <2>1
  <2>3. k[j] \in Bytes /\ k[j] \in Int /\ k[j] <= FF
    <3>1. k[j] \in Bytes
      BY <1>0, <2>2, ElementOfSeq
    <3> QED BY <3>1, CodeFacts
  <2>4. ~(j > n)
    <3>1. ASSUME j > n
          PROVE  FALSE
      <4>1. j \in n + 1 .. Len(p)
        BY <1>0, <1>2, <3>1
      <4>2. p[j] = FF
        BY <1>2, <4>1
      <4> QED BY <2>1, <2>3, <4>2, CodeFacts
    <3> QED BY <3>1
  <2>5. ASSUME j <= Len(c), c[j] < k[j]
        PROVE  ~Before(k, c)
    <3>1. \A i \in 1 .. j - 1 : c[i] = k[i]
      <4>1. \A i \in 1 .. j - 1 : i \in 1 .. n - 1
        BY <1>2, <2>2, <2>4
      <4> QED BY <1>2, <2>1, <4>1
    <3>2. j \in 1 .. Len(c)
      BY <1>2, <2>2, <2>5
    <3>3. Decided(c, k)
      BY <2>1, <2>5, <3>1, <3>2 DEF Decided
    <3> QED BY <3>3, BelowIs DEF Below
  <2>6. CASE j < n
    <3>1. j \in 1 .. n - 1 /\ c[j] = p[j]
      BY <1>2, <2>2, <2>6
    <3>2. j <= Len(c) /\ c[j] < k[j]
      BY <1>2, <2>1, <2>6, <3>1
    <3> QED BY <2>5, <3>2
  <2>7. CASE j = n /\ c[n] < k[n]
    BY <1>2, <2>5, <2>7
  <2>8. CASE j = n /\ ~(c[n] < k[n])
    <3>1. c[n] = k[n]
      BY <1>2, <1>4, <2>1, <2>3, <2>8
    <3>2. Len(c) <= Len(k) /\ \A i \in 1 .. Len(c) : c[i] = k[i]
      <4>1. \A i \in 1 .. n : i = n \/ i \in 1 .. n - 1
        BY <1>2
      <4> QED BY <1>2, <2>1, <2>8, <3>1, <4>1
    <3>3. IsPrefix(c, k)
      BY <1>0, <3>2, PrefixIs DEF Words
    <3> QED BY <3>3, BelowIs
  <2> QED BY <1>2, <2>2, <2>4, <2>6, <2>7, <2>8
<1>7. /\ Before(k, p) <=> IsStrictPrefix(k, p) \/ Decided(k, p)
      /\ k = p \/ IsStrictPrefix(k, p) \/ IsStrictPrefix(p, k) \/ Decided(k, p) \/ Decided(p, k)
  BY <1>0, DecidedIs
<1>8. k = p \/ IsStrictPrefix(p, k) => IsPrefix(p, k)
  BY Begins, Monoid DEF IsStrictPrefix
<1> QED BY <1>1, <1>3, <1>5, <1>6, <1>7, <1>8

-----------------------------------------------------------------------------
(* The invariants that say what the keys are.                              *)

\* The subspace is of bytes and of items, and so is the tuple.
Typed == raw \in Words(Bytes) /\ left \in Words(Items) /\ right \in Words(Items)

\* They are sequences at first ...
LEMMA InitTyped == Init => Typed
BY TuplesAssumption DEF Init, Typed, Words

\* ... and no step changes them.
LEMMA NextTyped == Typed /\ [Next]_vars => Typed'
BY DEF Typed, Next, Decode, Return, vars

\* The order of keys does not depend on what is unpacked ...
LEMMA TypedOrder == Typed => OrderPreserved
BY KeysInOrder DEF Typed, OrderPreserved

\* ... nor do the ranges.
LEMMA TypedRanges == Typed => RangesAreExact
<1> SUFFICES ASSUME Typed PROVE RangeIsExact /\ StartsWithIsExact
  BY DEF RangesAreExact
<1>1. raw \in Words(Bytes) /\ left \in Words(Items) /\ right \in Words(Items)
  BY DEF Typed
<1>2. SubspaceKey = Join(raw, pack(left)) /\ raw \o pack(right) = Join(raw, pack(right))
  BY Zenon DEF SubspaceKey, Join
<1>3. RangeIsExact
  BY <1>1, <1>2, RangeExact DEF RangeIsExact
<1>4. pack(left) \in Words(Bytes) /\ pack(right) \in Words(Bytes)
  BY <1>1, PackFacts
<1>5. Join(raw, pack(left)) \in Words(Bytes) /\ Join(raw, pack(right)) \in Words(Bytes)
  BY <1>1, <1>4, Monoid
<1>6. StartsWithIsExact
  BY <1>2, <1>5, StartsWithExact DEF StartsWithIsExact
<1> QED BY <1>3, <1>6

-----------------------------------------------------------------------------
(* What is decoded of an integer.                                          *)

\* The sum of the digits is the magnitude.
LEMMA SumOfDigits ==
  ASSUME NEW m \in Nat, NEW n \in Nat, m <= Power(Base, n) - 1
  PROVE  Sum(Digits(m, n)) = m
<1>0. Base \in Nat /\ Base > 0
  BY CodeFacts
<1>1. PICK d : d = Digits(m, n)
  OBVIOUS
<1>2. Len(d) = n /\ \A i \in 1 .. n : d[i] = Rest(m, n - i) % Base
  BY <1>1, DigitsFacts
<1>3. PICK w : w = [i \in 0 .. n |-> Rest(m, n - i)]
  OBVIOUS
<1>4. w[0] = 0
  <2>1. n - 0 = n /\ Rest(m, n) = 0
    BY RestBelow
  <2>2. w[0] = Rest(m, n - 0)
    BY <1>3
  <2> QED BY <2>1, <2>2
<1>5. ASSUME NEW i \in 1 .. n
      PROVE  w[i] = w[i - 1] * Base + d[i]
  <2>1. PICK s \in Nat : s = n - i /\ s + 1 = n - (i - 1)
    <3>1. n - i \in Nat /\ (n - i) + 1 = n - (i - 1)
      OBVIOUS
    <3> QED BY <3>1
  <2>2. PICK a \in Nat : a = Rest(m, s)
    BY RestType
  <2>3. Rest(m, s + 1) = a \div Base
    BY <2>2, RestStep
  <2>4. w[i] = a /\ w[i - 1] = a \div Base /\ d[i] = a % Base
    <3>1. i \in 0 .. n /\ i - 1 \in 0 .. n
      OBVIOUS
    <3>2. w[i] = Rest(m, n - i) /\ w[i - 1] = Rest(m, n - (i - 1))
      BY <1>3, <3>1
    <3> QED BY <1>2, <2>1, <2>2, <2>3, <3>2
  <2>5. a = Base * (a \div Base) + (a % Base) /\ a \div Base \in Nat
    BY <1>0, DivFacts
  <2>6. Base * (a \div Base) = (a \div Base) * Base
    BY <1>0, <2>5
  <2> QED BY <2>4, <2>5, <2>6
<1>6. PICK f : f = (CHOOSE h : h = [i \in 0 .. Len(d) |-> IF i = 0 THEN 0 ELSE h[i - 1] * Base + d[i]])
  OBVIOUS
<1>7. f = [i \in 0 .. n |-> IF i = 0 THEN 0 ELSE f[i - 1] * Base + d[i]]
  <2>1. \A i \in 0 .. n : w[i] = IF i = 0 THEN 0 ELSE w[i - 1] * Base + d[i]
    BY <1>4, <1>5
  <2>2. w = [i \in 0 .. n |-> IF i = 0 THEN 0 ELSE w[i - 1] * Base + d[i]]
    BY <1>3, <2>1
  <2>3. w = [i \in 0 .. Len(d) |-> IF i = 0 THEN 0 ELSE w[i - 1] * Base + d[i]]
    BY <1>2, <2>2
  <2>4. f = [i \in 0 .. Len(d) |-> IF i = 0 THEN 0 ELSE f[i - 1] * Base + d[i]]
    BY <1>6, <2>3, Zenon
  <2> QED BY <1>2, <2>4
<1>8. Sum(d) = f[Len(d)]
  BY <1>6, Zenon DEF Sum
<1>9. f[n] = w[n]
  <2>1. f[0] = w[0]
    BY <1>4, <1>7
  <2>2. ASSUME NEW i \in 1 .. n, f[i - 1] = w[i - 1]
        PROVE  f[i] = w[i]
    <3>1. i \in 0 .. n /\ i # 0
      OBVIOUS
    <3>2. f[i] = f[i - 1] * Base + d[i]
      BY <1>7, <3>1
    <3> QED BY <1>5, <2>2, <3>2
  <2> QED BY <2>1, <2>2, SameValues
<1>10. w[n] = m
  <2>1. n - n = 0 /\ n \in 0 .. n /\ Rest(m, 0) = m
    BY RestStep
  <2>2. w[n] = Rest(m, n - n)
    BY <1>3, <2>1
  <2> QED BY <2>1, <2>2
<1> QED BY <1>1, <1>2, <1>8, <1>9, <1>10

\* The power of a sum.
LEMMA PowerOfSum ==
  ASSUME NEW b \in Nat, NEW m \in Nat, NEW n \in Nat
  PROVE  Power(b, m + n) = Power(b, m) * Power(b, n)
<1> DEFINE Bad == {i \in Nat : Power(b, m + i) # Power(b, m) * Power(b, i)}
<1> SUFFICES ASSUME Bad # {} PROVE FALSE
  OBVIOUS
<1>1. PICK i \in Bad : i \in Nat /\ \A j \in Bad : i <= j
  <2> HIDE DEF Bad
  <2>1. Bad \subseteq Nat
    BY DEF Bad
  <2> QED BY <2>1, Least
<1>2. i # 0
  <2>1. Power(b, 0) = 1 /\ Power(b, m) \in Nat /\ m + 0 = m
    BY PowerStep, PowerType
  <2>2. Power(b, m + 0) = Power(b, m) * Power(b, 0)
    BY <2>1
  <2> QED BY <1>1, <2>2
<1>3. PICK j \in Nat : i = j + 1 /\ ~(i <= j)
  <2>1. i - 1 \in Nat /\ i = (i - 1) + 1 /\ ~(i <= i - 1)
    BY <1>1, <1>2
  <2> QED BY <2>1
<1>4. PICK x, y \in Nat : x = Power(b, m) /\ y = Power(b, j)
  BY PowerType
<1>5. Power(b, m + j) = x * y
  BY <1>1, <1>3, <1>4
<1>6. Power(b, j + 1) = b * y
  BY <1>4, PowerStep
<1>7. Power(b, m + i) = b * (x * y)
  <2>1. PICK s \in Nat : s = m + j /\ m + i = s + 1
    BY <1>3
  <2>2. Power(b, s + 1) = b * Power(b, s)
    BY PowerStep
  <2> QED BY <1>5, <2>1, <2>2
<1>8. b * (x * y) = x * (b * y)
  OBVIOUS
<1> QED BY <1>1, <1>3, <1>4, <1>6, <1>7, <1>8

\* The exact magnitudes are rounded to themselves, the others to none below the greatest
\* exact one, and to that only from an odd one.
LEMMA RoundedFacts ==
  ASSUME NEW m \in Nat, m <= Power(Base, MaxBytes) - 1
  PROVE  /\ m <= Power(2, Precision) => Rounded(m) = m
         /\ m > Power(2, Precision) => /\ Rounded(m) \in Nat /\ Rounded(m) >= Power(2, Precision)
                                       /\ Rounded(m) = Power(2, Precision) => m % 2 = 1
<1>0. Base \in Nat /\ MaxBytes \in Nat /\ Precision \in Nat /\ Precision > 0 /\ Precision - 1 \in Nat
  BY CodeFacts
<1> DEFINE D == {s \in 0 .. Precision : m <= Power(2, Precision + s)}
<1>1. PICK s : s = Min(D)
  OBVIOUS
<1>2. s \in D /\ s \in Nat /\ \A i \in D : s <= i
  <2>1. D \subseteq Nat
    BY <1>0
  <2>2. Precision \in D
    <3>1. 2 * Precision = Precision + Precision /\ 2 * Precision \in Nat
      BY <1>0
    <3>2. Power(Base, MaxBytes) \in Nat /\ Power(2, 2 * Precision) \in Nat
      BY <1>0, <3>1, PowerType
    <3>3. m <= Power(2, 2 * Precision)
      BY <3>2, PrecisionAssumption
    <3> QED BY <1>0, <3>1, <3>3
  <2> HIDE DEF D
  <2>3. D # {}
    BY <2>2
  <2> QED BY <1>1, <2>1, <2>3, MinFacts
<1>3. PICK u \in Nat : u = Power(2, s) /\ u > 0
  BY <1>2, PowerType, PowerGrows
<1>4. PICK q, r \in Nat : q = m \div u /\ r = m % u /\ m = u * q + r /\ r < u
  BY ONLY m \in Nat, <1>3, DivFacts
<1>5. Rounded(m) = (IF 2 * r > u \/ (2 * r = u /\ q % 2 = 1) THEN q + 1 ELSE q) * u
  BY <1>1, <1>3, <1>4, Zenon DEF Rounded
<1>6. ASSUME m <= Power(2, Precision)
      PROVE  Rounded(m) = m
  <2>1. 0 \in D
    <3>1. Precision + 0 = Precision
      BY <1>0
    <3> QED BY <1>0, <1>6, <3>1
  <2>2. s = 0
    BY <1>2, <2>1
  <2>3. u = 1
    BY <1>3, <2>2, PowerStep
  <2>4. r = 0 /\ q = m
    BY <1>4, <2>3
  <2> QED BY <1>5, <2>3, <2>4
<1>7. ASSUME m > Power(2, Precision)
      PROVE  /\ Rounded(m) \in Nat /\ Rounded(m) >= Power(2, Precision)
             /\ Rounded(m) = Power(2, Precision) => m % 2 = 1
  <2>1. s # 0
    <3>1. ~(m <= Power(2, Precision + 0))
      <4>1. Precision + 0 = Precision
        BY <1>0
      <4>2. Power(2, Precision) \in Nat
        BY <1>0, PowerType
      <4> QED BY <1>7, <4>1, <4>2
    <3> QED BY <1>2, <3>1
  <2>2. PICK t \in Nat : t + 1 = s /\ ~(s <= t)
    <3>1. s - 1 \in Nat /\ (s - 1) + 1 = s /\ ~(s <= s - 1)
      BY <1>2, <2>1
    <3> QED BY <3>1
  <2>3. PICK h \in Nat : h = Power(2, t) /\ h > 0
    BY PowerType, PowerGrows
  <2>4. u = 2 * h
    BY <1>3, <2>2, <2>3, PowerStep
  <2>5. PICK g \in Nat : g = Power(2, Precision - 1) /\ g > 0
    BY <1>0, PowerType, PowerGrows
  <2>6. Power(2, Precision) = 2 * g
    <3>1. (Precision - 1) + 1 = Precision
      BY <1>0
    <3>2. Power(2, (Precision - 1) + 1) = 2 * Power(2, Precision - 1)
      BY <1>0, PowerStep
    <3> QED BY <2>5, <3>1, <3>2
  <2>7. m > g * u
    <3>1. t \in 0 .. Precision
      <4>1. s \in 0 .. Precision
        BY <1>2
      <4> QED BY <1>0, <2>2, <4>1
    <3>2. ~(m <= Power(2, Precision + t))
      BY <1>2, <2>2, <3>1
    <3>3. Precision + t = (Precision - 1) + s /\ Precision + t \in Nat
      BY <1>0, <1>2, <2>2
    <3>4. Power(2, (Precision - 1) + s) = g * u
      BY <1>0, <1>2, <1>3, <2>5, PowerOfSum
    <3>5. g * u \in Nat
      OBVIOUS
    <3> QED BY <3>2, <3>3, <3>4, <3>5
  <2>8. q >= g
    <3>1. ASSUME q < g
          PROVE  FALSE
      <4>1. u * (q + 1) <= u * g
        <5>1. q + 1 <= g
          BY <3>1
        <5>2. PICK e \in Nat : g = (q + 1) + e
          <6>1. g - (q + 1) \in Nat /\ g = (q + 1) + (g - (q + 1))
            BY <5>1
          <6> QED BY <6>1
        <5>3. u * g = u * (q + 1) + u * e /\ u * e >= 0
          BY <5>2
        <5> QED BY <5>3
      <4>2. u * (q + 1) = u * q + u /\ u * g = g * u
        OBVIOUS
      <4>3. PICK x, y \in Nat : x = u * q /\ y = g * u
        OBVIOUS
      <4> QED BY <1>4, <2>7, <4>1, <4>2, <4>3
    <3> QED BY <3>1
  <2>9. PICK z \in Nat : z = (IF 2 * r > u \/ (2 * r = u /\ q % 2 = 1) THEN q + 1 ELSE q) /\ (z = q \/ z = q + 1)
    OBVIOUS
  <2>10. Rounded(m) = z * u /\ z >= g
    BY <1>5, <2>8, <2>9
  <2>11. PICK e, f \in Nat : z = g + e /\ h = 1 + f
    <3>1. z - g \in Nat /\ z = g + (z - g) /\ h - 1 \in Nat /\ h = 1 + (h - 1)
      BY <2>3, <2>10
    <3> QED BY <3>1
  <2>12. z * u = 2 * g + 2 * (g * f) + 2 * (e * h)
    <3>1. z * u = g * (2 * h) + e * (2 * h)
      BY <2>4, <2>11
    <3>2. g * (2 * h) = 2 * (g * h) /\ e * (2 * h) = 2 * (e * h)
      OBVIOUS
    <3>3. g * h = g + g * f
      BY <2>11
    <3> QED BY <3>1, <3>2, <3>3
  <2>13. g * f \in Nat /\ e * h \in Nat
    OBVIOUS
  <2>14. Rounded(m) \in Nat /\ Rounded(m) >= Power(2, Precision)
    BY <2>6, <2>10, <2>12, <2>13
  <2>15. ASSUME Rounded(m) = Power(2, Precision)
         PROVE  m % 2 = 1
    <3>1. g * f = 0 /\ e * h = 0
      BY <2>6, <2>10, <2>12, <2>13, <2>15
    <3>2. f = 0 /\ e = 0
      BY <2>3, <2>5, <3>1
    <3>3. h = 1 /\ u = 2 /\ z = g
      BY <2>4, <2>11, <3>2
    <3>4. z = q
      BY <2>8, <2>9, <3>3
    <3>5. m = 2 * q + r /\ r < 2 /\ m > 2 * q
      BY <1>4, <2>7, <3>3, <3>4
    <3> QED BY <3>5
  <2> QED BY <2>14, <2>15
<1> QED BY <1>6, <1>7

\* The exact integers are those of at most the greatest exact magnitude.
LEMMA ExactFacts ==
  ASSUME NEW v \in -Longest .. Longest
  PROVE  /\ Power(2, Precision) \in Nat /\ Power(2, Precision) % 2 = 0 /\ Power(2, Precision) > 0
         /\ Size(v) <= MaxBytes => Magnitude(v) <= Power(Base, MaxBytes) - 1
         /\ Size(v) > MaxBytes => v \notin minInt .. maxInt
<1>0. Base \in Nat /\ Base > 1 /\ MaxBytes \in Nat /\ Precision \in Nat /\ Precision > 0 /\ Precision - 1 \in Nat
  BY CodeFacts
<1>1. Power(2, Precision) \in Nat /\ Power(2, Precision) > 0
  BY <1>0, PowerType, PowerGrows
<1>2. Power(2, Precision) % 2 = 0
  <2>1. PICK g \in Nat : g = Power(2, Precision - 1)
    BY <1>0, PowerType
  <2>2. (Precision - 1) + 1 = Precision
    BY <1>0
  <2>3. Power(2, (Precision - 1) + 1) = 2 * g
    BY <1>0, <2>1, PowerStep
  <2> QED BY <2>2, <2>3
<1>3. /\ v \in Int /\ Magnitude(v) \in Nat /\ Magnitude(v) \in 0 .. Longest
      /\ Size(v) \in 0 .. MaxBytes + 1 /\ Size(v) \in Nat
      /\ Magnitude(v) <= Power(Base, Size(v)) - 1
  BY IntegerFacts
<1>4. Power(Base, MaxBytes) \in Nat /\ Power(Base, Size(v)) \in Nat
  BY <1>0, <1>3, PowerType
<1>5. ASSUME Size(v) <= MaxBytes
      PROVE  Magnitude(v) <= Power(Base, MaxBytes) - 1
  <2>1. Size(v) \in 0 .. MaxBytes
    BY <1>3, <1>5
  <2>2. Power(Base, Size(v)) <= Power(Base, MaxBytes)
    BY <1>0, <2>1, PowerGrows
  <2> QED BY <1>3, <1>4, <2>2
<1>6. ASSUME Size(v) > MaxBytes
      PROVE  v \notin minInt .. maxInt
  <2>1. ~(Magnitude(v) <= Power(Base, MaxBytes) - 1)
    <3>1. MaxBytes \in 0 .. MaxBytes + 1 /\ ~(Size(v) <= MaxBytes)
      BY <1>0, <1>3, <1>6
    <3> QED BY <1>3, <3>1, LengthFacts DEF Size
  <2>2. Magnitude(v) > Power(2, Precision)
    BY <1>1, <1>3, <1>4, <2>1, PrecisionAssumption
  <2> QED BY <1>1, <1>3, <2>2 DEF Magnitude, minInt, maxInt
<1> QED BY <1>1, <1>2, <1>5, <1>6

\* What is decoded of the bytes of an integer is the integer, or an error if it is not exact.
LEMMA NumberDecoded ==
  ASSUME NEW v \in -Longest .. Longest, v # 0, Size(v) <= MaxBytes,
         NEW k, NEW p \in Nat, \A i \in 1 .. Size(v) : k[p + i - 1] = Body(v)[i]
  PROVE  decodeNumber(k, p, Size(v), v < 0) = IF v \in minInt .. maxInt THEN [type |-> "int", value |-> v]
                                                                      ELSE [error |-> "RangeError"]
<1>1. PICK m, n \in Nat : m = Magnitude(v) /\ n = Size(v) /\ m <= Power(Base, n) - 1
  BY IntegerFacts
<1>2. PICK d \in Words(Bytes) : d = Digits(m, n) /\ Len(d) = n
  BY DigitsFacts
<1>3. \A i \in 1 .. n : (IF v < 0 THEN FF - k[p + i - 1] ELSE k[p + i - 1]) = d[i]
  <2>1. CASE v < 0
    <3>1. Body(v) = Complement(d, n)
      BY <1>1, <1>2, <2>1 DEF Body
    <3>2. \A i \in 1 .. n : FF - Complement(d, n)[i] = d[i]
      BY <1>2, ComplementFacts
    <3> QED BY <1>1, <2>1, <3>1, <3>2
  <2>2. CASE ~(v < 0)
    <3>1. Body(v) = d
      BY <1>1, <1>2, <2>2 DEF Body
    <3> QED BY <1>1, <2>2, <3>1
  <2> QED BY <2>1, <2>2
<1>4. [i \in 1 .. n |-> IF v < 0 THEN FF - k[p + i - 1] ELSE k[p + i - 1]] = d
  <2>1. d = [i \in 1 .. n |-> d[i]]
    BY <1>2 DEF Digits
  <2>2. PICK e : e = [i \in 1 .. n |-> IF v < 0 THEN FF - k[p + i - 1] ELSE k[p + i - 1]]
    OBVIOUS
  <2>3. \A i \in 1 .. n : e[i] = d[i]
    BY <1>3, <2>2
  <2>4. e = [i \in 1 .. n |-> e[i]]
    BY <2>2
  <2>5. e = d
    BY <2>1, <2>3, <2>4
  <2> QED BY <2>2, <2>5
<1>5. Sum(d) = m
  BY <1>1, <1>2, SumOfDigits
<1>6. PICK num : num = IF v < 0 THEN -Rounded(m) ELSE Rounded(m)
  OBVIOUS
<1>7. decodeNumber(k, p, n, v < 0) = IF OutOfRange(num, m % 2 = 1) THEN [error |-> "RangeError"]
                                                                   ELSE [type |-> "int", value |-> num]
  BY <1>4, <1>5, <1>6, Zenon DEF decodeNumber
<1>8. v \in Int /\ m = IF v < 0 THEN -v ELSE v
  BY <1>1, IntegerFacts DEF Magnitude
<1>9. PICK P \in Nat : P = Power(2, Precision) /\ P % 2 = 0 /\ P > 0
  BY ExactFacts
<1>10. minInt = -P /\ maxInt = P - 1
  BY <1>9 DEF minInt, maxInt
<1>11. m <= Power(Base, MaxBytes) - 1
  BY <1>1, ExactFacts
<1>12. /\ m <= P => Rounded(m) = m
       /\ m > P => Rounded(m) \in Nat /\ Rounded(m) >= P /\ (Rounded(m) = P => m % 2 = 1)
  BY <1>9, <1>11, RoundedFacts
<1>13. OutOfRange(num, m % 2 = 1) <=> num > P - 1 \/ num < -P \/ (num = -P /\ m % 2 = 1)
  BY <1>10, Zenon DEF OutOfRange
<1>14. CASE v \in minInt .. maxInt
  <2>1. m <= P /\ num = v
    BY <1>6, <1>8, <1>9, <1>10, <1>12, <1>14
  <2>2. ~(num > P - 1) /\ ~(num < -P)
    BY <1>9, <1>10, <1>14, <2>1
  <2>3. ~(num = -P /\ m % 2 = 1)
    <3>1. ASSUME num = -P
          PROVE  m = P
      BY <1>8, <1>9, <2>1, <3>1
    <3> QED BY <1>9, <3>1
  <2> QED BY <1>1, <1>7, <1>13, <1>14, <2>1, <2>2, <2>3
<1>15. CASE v \notin minInt .. maxInt
  <2>1. CASE v < 0
    <3>1. m > P /\ num = -Rounded(m)
      BY <1>6, <1>8, <1>9, <1>10, <1>15, <2>1
    <3>2. num < -P \/ (num = -P /\ m % 2 = 1)
      BY <1>12, <3>1
    <3> QED BY <1>1, <1>7, <1>13, <1>15, <3>2
  <2>2. CASE ~(v < 0)
    <3>1. m >= P /\ num = Rounded(m)
      BY <1>6, <1>8, <1>9, <1>10, <1>15, <2>2
    <3>2. num > P - 1
      BY <1>12, <3>1
    <3> QED BY <1>1, <1>7, <1>13, <1>15, <3>2
  <2> QED BY <2>1, <2>2
<1> QED BY <1>14, <1>15

-----------------------------------------------------------------------------
(* What is decoded of a string.                                            *)

\* A word is empty or has a last element.
LEMMA LastOf ==
  ASSUME NEW S
  PROVE  \A k \in Words(S) : k = <<>> \/ \E u \in Words(S), x \in S : k = Join(u, One(x)) /\ Len(k) = Len(u) + 1
<1> SUFFICES ASSUME NEW k \in Seq(S), k # <<>>
             PROVE  \E u \in Seq(S), x \in S : k = Join(u, One(x)) /\ Len(k) = Len(u) + 1
  BY DEF Words
<1>1. PICK u \in Seq(S), x \in S : k = Append(u, x)
  BY SequenceEmptyOrAppend
<1>2. k = u \o <<x>>
  BY <1>1, AppendIsConcat
<1>3. k = Join(u, One(x))
  BY <1>2, Zenon DEF Join, One
<1>4. Len(k) = Len(u) + 1
  BY <1>1, AppendProperties
<1> QED BY <1>3, <1>4

\* The bytes of what is joined to a byte and what is stuffed behind it.
LEMMA StuffedBytes ==
  \A e, f \in Words(Bytes) : \A b \in Bytes : f = Join(e, Join(One(b), Stuffing(b))) =>
    /\ Len(e) \in Nat /\ Len(f) = Len(e) + (IF b = 0 THEN 2 ELSE 1)
    /\ \A i \in 1 .. Len(e) : f[i] = e[i]
    /\ f[Len(e) + 1] = b /\ (b = 0 => f[Len(e) + 2] = FF)
<1> SUFFICES ASSUME NEW e \in Words(Bytes), NEW f \in Words(Bytes), NEW b \in Bytes, f = Join(e, Join(One(b), Stuffing(b)))
             PROVE  /\ Len(e) \in Nat /\ Len(f) = Len(e) + (IF b = 0 THEN 2 ELSE 1)
                    /\ \A i \in 1 .. Len(e) : f[i] = e[i]
                    /\ f[Len(e) + 1] = b /\ (b = 0 => f[Len(e) + 2] = FF)
  OBVIOUS
<1>1. PICK m, s \in Words(Bytes) : m = One(b) /\ s = Stuffing(b) /\ Len(m) = 1 /\ m[1] = b
  BY Monoid, EscapeOfByte, AtOne
<1>2. PICK g \in Words(Bytes) : g = Join(m, s)
  BY Monoid
<1>3. f = Join(e, g)
  BY <1>1, <1>2
<1>4. Len(s) = (IF b = 0 THEN 1 ELSE 0) /\ (b = 0 => s[1] = FF)
  <2>1. CASE b = 0
    <3>1. s = One(FF)
      BY <1>1, <2>1 DEF Stuffing
    <3> QED BY <2>1, <3>1, AtOne
  <2>2. CASE b # 0
    <3>1. s = <<>>
      BY <1>1, <2>2 DEF Stuffing
    <3> QED BY <2>2, <3>1, EmptySeq
  <2> QED BY <2>1, <2>2
<1>5. Len(g) = Len(m) + Len(s)
  BY <1>2, AtJoin
<1>6. g[1] = b
  <2>1. \A i \in 1 .. Len(m) : Join(m, s)[i] = m[i]
    <3>1. Opens(Join(m, s), m)
      BY AtJoin
    <3> QED BY <3>1 DEF Opens
  <2> QED BY <1>1, <1>2, <2>1
<1>7. b = 0 => g[2] = FF
  <2>1. \A i \in 1 .. Len(s) : Join(m, s)[Len(m) + i] = s[i]
    <3>1. Shows(Join(m, s), Len(m), s)
      BY AtJoin
    <3> QED BY <3>1 DEF Shows
  <2> QED BY <1>1, <1>2, <1>4, <2>1
<1>8. Len(e) \in Nat /\ Len(f) = Len(e) + Len(g)
  BY <1>3, AtJoin
<1>9. \A i \in 1 .. Len(e) : f[i] = e[i]
  <2>1. \A i \in 1 .. Len(e) : Join(e, g)[i] = e[i]
    <3>1. Opens(Join(e, g), e)
      BY AtJoin
    <3> QED BY <3>1 DEF Opens
  <2> QED BY <1>3, <2>1
<1>10. \A i \in 1 .. Len(g) : f[Len(e) + i] = g[i]
  <2>1. \A i \in 1 .. Len(g) : Join(e, g)[Len(e) + i] = g[i]
    <3>1. Shows(Join(e, g), Len(e), g)
      BY AtJoin
    <3> QED BY <3>1 DEF Shows
  <2> QED BY <1>3, <2>1
<1>11. Len(g) = IF b = 0 THEN 2 ELSE 1
  BY <1>1, <1>4, <1>5
<1>12. 1 \in 1 .. Len(g) /\ (b = 0 => 2 \in 1 .. Len(g))
  BY <1>11
<1> QED BY <1>6, <1>7, <1>8, <1>9, <1>10, <1>11, <1>12

\* In an escaped string each null byte has an FF behind it.
Stuffed(e) == \A i \in 1 .. Len(e) : e[i] = 0 => i + 1 <= Len(e) /\ e[i + 1] = FF

\* By the last byte of the string.
LEMMA EscapedStuffed ==
  ASSUME NEW s \in Words(Bytes)
  PROVE  Stuffed(Escaped(s))
<1> DEFINE Bad == {Len(t) : t \in {u \in Words(Bytes) : ~Stuffed(Escaped(u))}}
<1> SUFFICES ASSUME Bad # {} PROVE FALSE
  OBVIOUS
<1>1. PICK n \in Bad : n \in Nat /\ \A m \in Bad : n <= m
  <2>1. Bad \subseteq Nat
    BY LenProperties DEF Words
  <2> HIDE DEF Bad
  <2> QED BY <2>1, Least
<1>2. PICK t \in Words(Bytes) : n = Len(t) /\ ~Stuffed(Escaped(t))
  OBVIOUS
<1>3. \A u \in Words(Bytes) : Len(u) \notin Bad => Stuffed(Escaped(u))
  OBVIOUS
<1> HIDE DEF Bad
<1>4. t # <<>>
  <2>1. Stuffed(<<>>)
    BY EmptySeq DEF Stuffed
  <2> QED BY <1>2, <2>1, EscapedFacts
<1>5. PICK u \in Words(Bytes), b \in Bytes : t = Join(u, One(b)) /\ Len(t) = Len(u) + 1
  BY <1>4, LastOf
<1>6. PICK e, f \in Words(Bytes) : e = Escaped(u) /\ f = Escaped(t) /\ f = Join(e, Join(One(b), Stuffing(b)))
  <2>1. One(b) \in Words(Bytes)
    BY Monoid
  <2>2. Escaped(Join(u, One(b))) = Join(Escaped(u), Escaped(One(b)))
    BY <2>1, EscapedFacts
  <2> QED BY <1>5, <2>2, EscapedFacts
<1>7. Stuffed(e)
  <2>1. Len(u) \in Nat
    BY LenProperties DEF Words
  <2>2. ~(n <= Len(u))
    BY <1>1, <1>2, <1>5, <2>1
  <2> QED BY <1>1, <1>3, <1>6, <2>2
<1>8. /\ Len(e) \in Nat /\ Len(f) = Len(e) + (IF b = 0 THEN 2 ELSE 1)
      /\ \A i \in 1 .. Len(e) : f[i] = e[i]
      /\ f[Len(e) + 1] = b /\ (b = 0 => f[Len(e) + 2] = FF)
  BY <1>6, StuffedBytes
<1>9. ASSUME NEW i \in 1 .. Len(f), f[i] = 0
      PROVE  i + 1 <= Len(f) /\ f[i + 1] = FF
  <2>1. CASE i <= Len(e)
    <3>1. i \in 1 .. Len(e) /\ e[i] = 0
      BY <1>8, <1>9, <2>1
    <3>2. i + 1 <= Len(e) /\ e[i + 1] = FF
      BY <1>7, <3>1 DEF Stuffed
    <3>3. i + 1 \in 1 .. Len(e)
      BY <1>8, <3>1, <3>2
    <3> QED BY <1>8, <3>2, <3>3
  <2>2. CASE i = Len(e) + 1
    <3>1. b = 0
      BY <1>8, <1>9, <2>2
    <3>2. i + 1 = Len(e) + 2 /\ Len(f) = Len(e) + 2
      BY <1>8, <2>2, <3>1
    <3> QED BY <1>8, <2>2, <3>1, <3>2
  <2>3. CASE i = Len(e) + 2
    <3>1. b = 0
      BY <1>8, <2>3
    <3>2. f[i] = FF
      BY <1>8, <2>3, <3>1
    <3> QED BY <1>9, <3>2, CodeFacts
  <2> QED BY <1>8, <2>1, <2>2, <2>3
<1> QED BY <1>2, <1>6, <1>9 DEF Stuffed

\* The values of the recursion of Unescaped, for the bytes e.
Kept(e, n, v) ==
  /\ v[0] = <<>>
  /\ \A i \in 1 .. n : v[i] = IF i > 1 /\ e[i - 1] = 0 THEN v[i - 1] ELSE Join(v[i - 1], One(e[i]))

\* Of an escaped string they keep, up to the end of each byte of it, the string so far.
LEMMA KeptOfEscaped ==
  ASSUME NEW s \in Words(Bytes), NEW v, Kept(Escaped(s), Len(Escaped(s)), v)
  PROVE  v[Len(Escaped(s))] = s
<1> DEFINE Wrong(u) == (\E w \in Words(Bytes) : s = Join(u, w)) /\ v[Len(Escaped(u))] # u
<1> DEFINE Bad == {Len(t) : t \in {u \in Words(Bytes) : Wrong(u)}}
<1>1. ASSUME Bad # {}
      PROVE  FALSE
  <2>1. PICK n \in Bad : n \in Nat /\ \A m \in Bad : n <= m
    <3>1. Bad \subseteq Nat
      BY LenProperties DEF Words
    <3> HIDE DEF Bad
    <3> QED BY <1>1, <3>1, Least
  <2>2. PICK t \in Words(Bytes) : n = Len(t) /\ Wrong(t)
    OBVIOUS
  <2>3. \A u \in Words(Bytes) : Len(u) \notin Bad => ~Wrong(u)
    OBVIOUS
  <2>4. PICK w \in Words(Bytes) : s = Join(t, w)
    BY <2>2
  <2>5. v[Len(Escaped(t))] # t
    BY <2>2
  <2>6. \A u, x \in Words(Bytes) : s = Join(u, x) /\ Len(u) \notin Bad => v[Len(Escaped(u))] = u
    BY <2>3
  <2> HIDE DEF Bad, Wrong
  <2>7. t # <<>>
    <3>1. Len(Escaped(<<>>)) = 0
      BY EscapedFacts, EmptySeq
    <3>2. v[0] = <<>>
      BY DEF Kept
    <3> QED BY <2>5, <3>1, <3>2
  <2>8. PICK u \in Words(Bytes), b \in Bytes : t = Join(u, One(b)) /\ Len(t) = Len(u) + 1
    BY <2>7, LastOf
  <2>9. PICK m \in Words(Bytes) : m = One(b)
    BY Monoid
  <2>10. s = Join(u, Join(m, w)) /\ Join(m, w) \in Words(Bytes)
    BY <2>4, <2>8, <2>9, Associative, Monoid
  <2>11. v[Len(Escaped(u))] = u
    <3>1. Len(u) \in Nat
      BY LenProperties DEF Words
    <3>2. ~(n <= Len(u))
      BY <2>2, <2>8, <3>1
    <3> QED BY <2>1, <2>6, <2>10, <3>2
  <2>12. PICK e, f, g, h \in Words(Bytes) :
           /\ e = Escaped(u) /\ f = Escaped(t) /\ g = Escaped(s) /\ h = Escaped(w)
           /\ f = Join(e, Join(One(b), Stuffing(b)))
           /\ g = Join(f, h)
    <3>1. Escaped(t) = Join(Escaped(u), Escaped(m))
      BY <2>8, <2>9, EscapedFacts
    <3>2. Escaped(m) = Join(One(b), Stuffing(b))
      BY <2>9, EscapedFacts
    <3>3. Escaped(s) = Join(Escaped(t), Escaped(w))
      BY <2>4, EscapedFacts
    <3> QED BY <3>1, <3>2, <3>3, EscapedFacts
  <2>13. /\ Len(e) \in Nat /\ Len(f) = Len(e) + (IF b = 0 THEN 2 ELSE 1)
         /\ \A i \in 1 .. Len(e) : f[i] = e[i]
         /\ f[Len(e) + 1] = b /\ (b = 0 => f[Len(e) + 2] = FF)
    BY <2>12, StuffedBytes
  <2>14. Len(h) \in Nat /\ Len(g) = Len(f) + Len(h)
    BY <2>12, AtJoin
  <2>15. \A i \in 1 .. Len(f) : g[i] = f[i]
    <3>1. \A i \in 1 .. Len(f) : Join(f, h)[i] = f[i]
      <4>1. Opens(Join(f, h), f)
        BY AtJoin
      <4> QED BY <4>1 DEF Opens
    <3> QED BY <2>12, <3>1
  <2>16. PICK L \in Nat : L = Len(e) /\ L + 1 - 1 = L /\ L + 2 - 1 = L + 1
    BY <2>13
  <2>17. /\ L + 1 \in 1 .. Len(g) /\ g[L + 1] = b /\ (L + 1 > 1 <=> L > 0)
         /\ (b = 0 => L + 2 \in 1 .. Len(g) /\ L + 2 > 1)
    BY <2>13, <2>14, <2>15, <2>16
  <2>18. L > 0 => g[L] # 0
    <3>1. ASSUME L > 0, g[L] = 0
          PROVE  FALSE
      <4>1. L \in 1 .. Len(e) /\ L \in 1 .. Len(f) /\ ~(L + 1 <= Len(e))
        BY <2>13, <2>16, <3>1
      <4>2. e[L] = 0
        BY <2>13, <2>15, <3>1, <4>1
      <4>3. Stuffed(e)
        BY <2>12, EscapedStuffed
      <4> QED BY <4>1, <4>2, <4>3 DEF Stuffed
    <3> QED BY <3>1
  <2>19. Kept(g, Len(g), v)
    BY <2>12
  <2>20. v[L + 1] = Join(v[L], One(b))
    <3>1. v[L + 1] = IF L + 1 > 1 /\ g[L + 1 - 1] = 0 THEN v[L + 1 - 1] ELSE Join(v[L + 1 - 1], One(g[L + 1]))
      BY <2>17, <2>19 DEF Kept
    <3> QED BY <2>16, <2>17, <2>18, <3>1
  <2>21. v[L + 1] = t
    BY <2>8, <2>11, <2>12, <2>16, <2>20
  <2>22. CASE b = 0
    <3>1. v[L + 2] = IF L + 2 > 1 /\ g[L + 2 - 1] = 0 THEN v[L + 2 - 1] ELSE Join(v[L + 2 - 1], One(g[L + 2]))
      BY <2>17, <2>19, <2>22 DEF Kept
    <3>2. v[L + 2] = t
      BY <2>16, <2>17, <2>21, <2>22, <3>1
    <3>3. Len(f) = L + 2
      BY <2>13, <2>16, <2>22
    <3> QED BY <2>5, <2>12, <3>2, <3>3
  <2>23. CASE b # 0
    <3>1. Len(f) = L + 1
      BY <2>13, <2>16, <2>23
    <3> QED BY <2>5, <2>12, <2>21, <3>1
  <2> QED BY <2>22, <2>23
<1>2. ~Wrong(s)
  BY <1>1
<1>3. s = Join(s, <<>>) /\ <<>> \in Words(Bytes)
  BY Monoid
<1> QED BY <1>2, <1>3

\* Strings are read with a recursion that keeps a byte or leaves it out ...
LEMMA UnescapedUnfold ==
  ASSUME NEW k, NEW start, NEW end
  PROVE  \E f : /\ Unescaped(k, start, end) = f[end - start]
               /\ f = (CHOOSE h : h = [n \in 0 .. end - start |->
                         IF n = 0 THEN <<>> ELSE IF n > 1 /\ k[start + n - 2] = 0 THEN h[n - 1]
                                ELSE Append(h[n - 1], k[start + n - 1])])
BY DEF Unescaped

\* ... and what satisfies its equations is what is read.
Solves(k, p, L, w) ==
  \A n \in 0 .. L : w[n] = (IF n = 0 THEN <<>> ELSE IF n > 1 /\ k[p + n - 2] = 0 THEN w[n - 1]
                          ELSE Append(w[n - 1], k[p + n - 1]))

\* Unescaped satisfies the equations, and so is what they give.
LEMMA UnescapedByValues ==
  ASSUME NEW k, NEW p \in Nat, NEW L \in Nat, NEW w \in [0 .. L -> Words(Bytes)], Solves(k, p, L, w)
  PROVE  Unescaped(k, p, p + L) = w[L]
<1>1. p + L - p = L
  OBVIOUS
<1>2. PICK f : /\ Unescaped(k, p, p + L) = f[p + L - p]
               /\ f = (CHOOSE h : h = [n \in 0 .. p + L - p |->
                         IF n = 0 THEN <<>> ELSE IF n > 1 /\ k[p + n - 2] = 0 THEN h[n - 1]
                                ELSE Append(h[n - 1], k[p + n - 1])])
  BY ONLY UnescapedUnfold
<1>3. w = [n \in 0 .. L |-> IF n = 0 THEN <<>> ELSE IF n > 1 /\ k[p + n - 2] = 0 THEN w[n - 1]
                        ELSE Append(w[n - 1], k[p + n - 1])]
  <2>1. w = [n \in 0 .. L |-> w[n]]
    OBVIOUS
  <2> QED BY <2>1 DEF Solves
<1>4. w = [n \in 0 .. p + L - p |-> IF n = 0 THEN <<>> ELSE IF n > 1 /\ k[p + n - 2] = 0 THEN w[n - 1]
                                 ELSE Append(w[n - 1], k[p + n - 1])]
  BY <1>1, <1>3
<1>5. f = [n \in 0 .. p + L - p |-> IF n = 0 THEN <<>> ELSE IF n > 1 /\ k[p + n - 2] = 0 THEN f[n - 1]
                                 ELSE Append(f[n - 1], k[p + n - 1])]
  BY <1>2, <1>4, Zenon
<1>6. ASSUME NEW n \in 0 .. L
      PROVE  f[n] = (IF n = 0 THEN <<>> ELSE IF n > 1 /\ k[p + n - 2] = 0 THEN f[n - 1]
                      ELSE Append(f[n - 1], k[p + n - 1]))
  BY <1>1, <1>5
<1>7. f[0] = w[0]
  <2>1. 0 \in 0 .. L
    OBVIOUS
  <2>2. f[0] = <<>> /\ w[0] = <<>>
    BY <1>6, <2>1 DEF Solves
  <2> QED BY <2>2
<1>8. ASSUME NEW n \in 1 .. L, f[n - 1] = w[n - 1]
      PROVE  f[n] = w[n]
  <2>1. n \in 0 .. L /\ n # 0
    OBVIOUS
  <2>2. f[n] = IF n > 1 /\ k[p + n - 2] = 0 THEN f[n - 1] ELSE Append(f[n - 1], k[p + n - 1])
    BY <1>6, <2>1
  <2>3. w[n] = IF n > 1 /\ k[p + n - 2] = 0 THEN w[n - 1] ELSE Append(w[n - 1], k[p + n - 1])
    BY <2>1 DEF Solves
  <2> QED BY <1>8, <2>2, <2>3
<1>9. f[L] = w[L]
  BY <1>7, <1>8, SameValues
<1> QED BY <1>1, <1>2, <1>9

\* What Unescaped returns of the bytes of an escaped string in a key.
LEMMA UnescapedIs ==
  ASSUME NEW s \in Words(Bytes), NEW k, NEW p \in Nat,
         NEW L \in Nat, L = Len(Escaped(s)), \A i \in 1 .. L : k[p + i - 1] = Escaped(s)[i]
  PROVE  \A end : end = p + L => Unescaped(k, p, end) = s
<1>1. PICK e \in Words(Bytes) : e = Escaped(s) /\ Len(e) = L
  BY EscapedFacts
<1>2. \A i \in 1 .. L : e[i] \in Bytes
  BY <1>1, ElementOfSeq DEF Words
<1> DEFINE G == [i \in 1 .. L |-> [x \in Words(Bytes) |-> IF i > 1 /\ e[i - 1] = 0 THEN x ELSE Join(x, One(e[i]))]]
<1>3. \A i \in 1 .. L : \A x \in Words(Bytes) :
        G[i][x] = (IF i > 1 /\ e[i - 1] = 0 THEN x ELSE Join(x, One(e[i]))) /\ G[i][x] \in Words(Bytes)
  <2>1. \A i \in 1 .. L : One(e[i]) \in Words(Bytes)
    BY <1>2, Monoid
  <2>2. \A i \in 1 .. L : \A x \in Words(Bytes) : Join(x, One(e[i])) \in Words(Bytes)
    BY <2>1, Monoid
  <2> QED BY <2>2
<1> HIDE DEF G
<1>4. PICK v : Values(<<>>, G, L, v) /\ \A i \in 0 .. L : v[i] \in Words(Bytes)
  <2>1. <<>> \in Words(Bytes)
    BY Monoid
  <2>2. \A i \in 1 .. L : \A x \in Words(Bytes) : G[i][x] \in Words(Bytes)
    BY <1>3
  <2> QED BY ONLY L \in Nat, <2>1, <2>2, Recursion
<1>5. Kept(e, L, v)
  <2>1. \A i \in 1 .. L : i - 1 \in 0 .. L
    OBVIOUS
  <2>2. v[0] = <<>> /\ \A i \in 1 .. L : v[i] = G[i][v[i - 1]]
    BY <1>4 DEF Values
  <2>3. \A i \in 1 .. L : v[i - 1] \in Words(Bytes)
    BY <1>4, <2>1
  <2> QED BY <1>3, <2>2, <2>3 DEF Kept
<1>6. v[L] = s
  BY <1>1, <1>5, KeptOfEscaped
<1>7. ASSUME NEW i \in 1 .. L
      PROVE  /\ k[p + i - 1] = e[i]
             /\ i > 1 => k[p + i - 2] = e[i - 1]
  <2>1. k[p + i - 1] = e[i]
    BY <1>1
  <2>2. ASSUME i > 1
        PROVE  k[p + i - 2] = e[i - 1]
    <3>1. PICK j \in 1 .. L : j = i - 1
      BY <2>2
    <3>2. p + j - 1 = p + i - 2
      BY <3>1
    <3>3. k[p + j - 1] = e[j]
      BY <1>1
    <3> QED BY <3>1, <3>2, <3>3
  <2> QED BY <2>1, <2>2
<1>8. ASSUME NEW i \in 1 .. L, NEW f, f[i - 1] = v[i - 1]
      PROVE  (IF i > 1 /\ k[p + i - 2] = 0 THEN f[i - 1] ELSE Append(f[i - 1], k[p + i - 1])) = v[i]
  <2>1. v[i] = IF i > 1 /\ e[i - 1] = 0 THEN v[i - 1] ELSE Join(v[i - 1], One(e[i]))
    BY <1>5 DEF Kept
  <2>2. Append(v[i - 1], e[i]) = Join(v[i - 1], One(e[i]))
    <3>1. i - 1 \in 0 .. L
      OBVIOUS
    <3>2. v[i - 1] \in Seq(Bytes) /\ e[i] \in Bytes
      BY <1>2, <1>4, <3>1 DEF Words
    <3>3. Append(v[i - 1], e[i]) = v[i - 1] \o <<e[i]>>
      BY <3>2, AppendIsConcat
    <3> QED BY <3>3, Zenon DEF Join, One
  <2> QED BY <1>7, <1>8, <2>1, <2>2
<1>9. p + L - p = L
  OBVIOUS
<1>10. PICK w : w = [n \in 0 .. L |-> v[n]]
  OBVIOUS
<1>11. ASSUME NEW n \in 0 .. L
       PROVE  w[n] = (IF n = 0 THEN <<>> ELSE IF n > 1 /\ k[p + n - 2] = 0 THEN w[n - 1]
                       ELSE Append(w[n - 1], k[p + n - 1]))
  <2>1. CASE n = 0
    BY <1>5, <1>10, <2>1 DEF Kept
  <2>2. CASE n # 0
    <3>1. n \in 1 .. L /\ n - 1 \in 0 .. L
      BY <2>2
    <3>2. w[n - 1] = v[n - 1] /\ w[n] = v[n]
      BY <1>10, <3>1
    <3> QED BY <1>8, <2>2, <3>1, <3>2
  <2> QED BY <2>1, <2>2
<1>12. Unescaped(k, p, p + L) = w[L]
  <2>1. w \in [0 .. L -> Words(Bytes)]
    BY <1>4, <1>10
  <2>2. Solves(k, p, L, w)
    BY <1>11 DEF Solves
  <2> QED BY ONLY p \in Nat, L \in Nat, <2>1, <2>2, UnescapedByValues
<1> QED BY <1>6, <1>10, <1>12

-----------------------------------------------------------------------------
(* What is decoded at the beginning of an item.                            *)

\* The bytes in the middle of a key.
LEMMA ShowsMiddle ==
  ASSUME NEW S, NEW k \in Words(S), NEW e \in Words(S), NEW r \in Words(S)
  PROVE  /\ Join(k, Join(e, r)) \in Words(S)
         /\ Len(k) \in Nat /\ Len(e) \in Nat /\ Len(r) \in Nat
         /\ Len(Join(k, Join(e, r))) = Len(k) + Len(e) + Len(r)
         /\ Shows(Join(k, Join(e, r)), 0, k)
         /\ Shows(Join(k, Join(e, r)), Len(k), e)
         /\ Shows(Join(k, Join(e, r)), Len(k) + Len(e), r)
<1>1. PICK f \in Words(S) : f = Join(e, r)
  BY Monoid
<1>2. Join(k, f) \in Words(S)
  BY <1>1, Monoid
<1>3. Len(k) \in Nat /\ Len(e) \in Nat /\ Len(r) \in Nat /\ Len(f) = Len(e) + Len(r)
  BY <1>1, AtJoin
<1>4. Len(Join(k, f)) = Len(k) + Len(f)
  BY <1>1, AtJoin
<1>5. /\ \A i \in 1 .. Len(k) : Join(k, f)[i] = k[i]
      /\ \A i \in 1 .. Len(f) : Join(k, f)[Len(k) + i] = f[i]
      /\ \A i \in 1 .. Len(e) : f[i] = e[i]
      /\ \A i \in 1 .. Len(r) : f[Len(e) + i] = r[i]
  <2>1. Opens(Join(k, f), k) /\ Shows(Join(k, f), Len(k), f)
    BY AtJoin
  <2>2. Opens(f, e) /\ Shows(f, Len(e), r)
    BY <1>1, AtJoin
  <2> QED BY <2>1, <2>2 DEF Opens, Shows
<1>6. ASSUME NEW i \in 1 .. Len(e)
      PROVE  Join(k, f)[Len(k) + i] = e[i]
  <2>1. i \in 1 .. Len(f)
    BY <1>3
  <2> QED BY <1>5, <2>1
<1>7. ASSUME NEW i \in 1 .. Len(r)
      PROVE  Join(k, f)[Len(k) + Len(e) + i] = r[i]
  <2>1. PICK j \in 1 .. Len(f) : j = Len(e) + i
    BY <1>3
  <2>2. Len(k) + j = Len(k) + Len(e) + i
    BY <1>3, <2>1
  <2> QED BY <1>5, <2>1, <2>2
<1>8. Len(Join(k, f)) = Len(k) + Len(e) + Len(r)
  BY <1>3, <1>4
<1>9. Shows(Join(k, f), 0, k) /\ Shows(Join(k, f), Len(k), e) /\ Shows(Join(k, f), Len(k) + Len(e), r)
  <2>1. \A i \in 1 .. Len(k) : 0 + i = i
    BY <1>3
  <2> QED BY <1>5, <1>6, <1>7, <2>1 DEF Shows
<1> QED BY <1>1, <1>2, <1>3, <1>8, <1>9

\* An escaped string is read as the string.
LEMMA ShownString ==
  ASSUME NEW k, NEW n \in Nat, NEW s \in Words(Bytes), Shows(k, n, Escaped(s))
  PROVE  \A q, end : q = n + 1 /\ end = q + Len(Escaped(s)) => Unescaped(k, q, end) = s
<1>1. PICK q \in Nat : q = n + 1
  OBVIOUS
<1>2. PICK L \in Nat : L = Len(Escaped(s))
  BY EscapedFacts, AtJoin
<1>3. \A i \in 1 .. L : k[q + i - 1] = Escaped(s)[i]
  <2>1. ASSUME NEW i \in 1 .. L
        PROVE  k[q + i - 1] = Escaped(s)[i]
    <3>1. q + i - 1 = n + i /\ k[n + i] = Escaped(s)[i]
      BY <1>1, <1>2 DEF Shows
    <3> QED BY <3>1
  <2> QED BY <2>1
<1>4. \A end : end = q + L => Unescaped(k, q, end) = s
  BY ONLY s \in Words(Bytes), q \in Nat, L \in Nat, <1>2, <1>3, UnescapedIs
<1> QED BY <1>1, <1>2, <1>4

\* The terminator of a string is the null byte behind it.
LEMMA TerminatorIs ==
  ASSUME NEW k, Len(k) \in Nat, NEW n \in Nat, NEW e \in Words(Bytes), Stuffed(e), Shows(k, n, e),
         NEW L \in Nat, L = Len(e), n + L + 1 <= Len(k), k[n + L + 1] = 0,
         n + L + 1 = Len(k) \/ k[n + L + 2] # FF
  PROVE  \A q : q = n + 1 => Terminator(k, q) = q + L
<1>0. PICK q \in Nat : q = n + 1 /\ q > 0 /\ q + L = n + L + 1 /\ q + L + 1 = n + L + 2
  OBVIOUS
<1>a. \A i \in 1 .. L : k[q + i - 1] = e[i]
  <2>1. ASSUME NEW i \in 1 .. L
        PROVE  k[q + i - 1] = e[i]
    <3>1. q + i - 1 = n + i /\ k[n + i] = e[i]
      BY <1>0 DEF Shows
    <3> QED BY <3>1
  <2> QED BY <2>1
<1> DEFINE Ends == {p \in q .. Len(k) : k[p] = 0 /\ (p = Len(k) \/ k[p + 1] # FF)}
<1> DEFINE All == Ends \cup {Len(k) + 1}
<1>1. All \subseteq Nat /\ q + L \in All
  BY <1>0
<1>2. ASSUME NEW p \in All, p < q + L
      PROVE  FALSE
  <2>1. p \in q .. Len(k) /\ k[p] = 0 /\ (p = Len(k) \/ k[p + 1] # FF)
    BY <1>0, <1>2
  <2>2. PICK i \in 1 .. L : i = p - q + 1 /\ q + i - 1 = p
    <3>1. p - q + 1 \in 1 .. L /\ q + (p - q + 1) - 1 = p
      BY <1>2, <2>1
    <3> QED BY <3>1
  <2>3. e[i] = 0
    BY <1>a, <2>1, <2>2
  <2>4. i + 1 <= L /\ e[i + 1] = FF
    BY <2>3 DEF Stuffed
  <2>5. PICK j \in 1 .. L : j = i + 1
    BY <2>4
  <2>6. k[q + j - 1] = FF /\ q + j - 1 = p + 1
    BY <1>0, <1>a, <2>1, <2>2, <2>4, <2>5
  <2> QED BY <1>0, <1>2, <2>1, <2>6
<1>3. Min(All) \in All /\ Min(All) \in Nat /\ \A p \in All : Min(All) <= p
  <2>1. All # {}
    OBVIOUS
  <2> HIDE DEF All
  <2> QED BY <1>1, <2>1, MinFacts
<1>4. Terminator(k, q) = Min(All)
  BY DEF Terminator
<1> HIDE DEF All
<1>5. Min(All) <= q + L /\ ~(Min(All) < q + L)
  BY <1>1, <1>2, <1>3
<1> QED BY <1>0, <1>3, <1>4, <1>5

\* A key that is not empty and not FF at first.
LEMMA TameAt ==
  ASSUME NEW r \in Words(Bytes), Tame(r)
  PROVE  Len(r) \in Nat /\ (Len(r) = 0 \/ (Len(r) >= 1 /\ r[1] # FF))
<1>1. CASE r = <<>>
  BY <1>1
<1>2. CASE r # <<>>
  <2>1. PICK b \in Bytes, q \in Words(Bytes) : r = Join(One(b), q) /\ b # FF
    BY <1>2 DEF Tame
  <2>2. PICK o \in Words(Bytes) : o = One(b) /\ Len(o) = 1 /\ o[1] = b
    BY Monoid, AtOne
  <2>3. Len(q) \in Nat /\ Len(Join(o, q)) = Len(o) + Len(q)
    BY AtJoin
  <2>4. PICK i \in 1 .. Len(o) : i = 1
    BY <2>2
  <2>5. Join(o, q)[i] = o[i]
    <3>1. Opens(Join(o, q), o)
      BY AtJoin
    <3> QED BY <3>1 DEF Opens
  <2> QED BY <2>1, <2>2, <2>3, <2>4, <2>5
<1> QED BY <1>1, <1>2

\* A string is read as it was packed, whatever follows that does not begin with FF.
LEMMA DecodeString ==
  ASSUME NEW k \in Words(Bytes), NEW c \in {1, 2}, NEW s \in Words(Bytes),
         NEW r \in Words(Bytes), Tame(r),
         NEW K \in Words(Bytes), K = Join(k, Join(Coded(c, s), r)),
         NEW p \in Nat, p = Len(k) + 1
  PROVE  decode(K, p) = [item |-> [type |-> IF c = 1 THEN "bytes" ELSE "string", value |-> s],
                         next |-> p + Len(Coded(c, s))]
<1>1. PICK e \in Words(Bytes) : e = Escaped(s) /\ Stuffed(e)
  BY EscapedFacts, EscapedStuffed
<1>2. PICK o \in Words(Bytes), z \in Words(Bytes) :
        /\ o = One(c) /\ Len(o) = 1 /\ o[1] = c
        /\ z = One(0) /\ Len(z) = 1 /\ z[1] = 0
  <2>1. c \in Bytes /\ 0 \in Bytes
    BY CodeFacts
  <2> QED BY <2>1, Monoid, AtOne
<1>3. PICK g \in Words(Bytes) : g = Coded(c, s) /\ g = Join(o, Join(e, z))
  <2>1. Coded(c, s) = Join(o, Join(e, z))
    BY <1>1, <1>2 DEF Coded
  <2>2. Join(o, Join(e, z)) \in Words(Bytes)
    BY ShowsMiddle
  <2> QED BY <2>1, <2>2
<1>4. PICK L \in Nat : L = Len(e)
  BY ShowsMiddle
<1>5. Len(g) = L + 2 /\ g[1] = c /\ g[L + 2] = 0 /\ \A i \in 1 .. L : g[i + 1] = e[i]
  <2>1. Len(g) = Len(o) + Len(e) + Len(z) /\ Shows(g, 0, o) /\ Shows(g, Len(o), e) /\ Shows(g, Len(o) + Len(e), z)
    BY <1>3, ShowsMiddle
  <2>2. Shows(g, 0, o) /\ Shows(g, 1, e) /\ Shows(g, 1 + L, z)
    BY <1>2, <1>4, <2>1
  <2>3. g[0 + 1] = o[1] /\ g[1 + L + 1] = z[1] /\ \A i \in 1 .. L : g[1 + i] = e[i]
    BY <1>2, <1>4, <2>2 DEF Shows
  <2>4. 0 + 1 = 1 /\ 1 + L + 1 = L + 2 /\ \A i \in 1 .. L : 1 + i = i + 1
    OBVIOUS
  <2> QED BY <1>2, <1>4, <2>1, <2>3, <2>4
<1>6. PICK M \in Nat : M = Len(r) /\ (M = 0 \/ (M >= 1 /\ r[1] # FF))
  BY TameAt
<1>7. K = Join(k, Join(g, r))
  BY <1>3
<1>8. /\ Len(k) \in Nat /\ Len(K) = Len(k) + (L + 2) + M
      /\ \A i \in 1 .. L + 2 : K[Len(k) + i] = g[i]
      /\ \A i \in 1 .. M : K[Len(k) + (L + 2) + i] = r[i]
  <2>1. /\ Len(k) \in Nat /\ Len(K) = Len(k) + Len(g) + Len(r)
        /\ Shows(K, Len(k), g) /\ Shows(K, Len(k) + Len(g), r)
    BY <1>7, ShowsMiddle
  <2>2. Shows(K, Len(k) + (L + 2), r)
    BY <1>5, <2>1
  <2> QED BY <1>5, <1>6, <2>1, <2>2 DEF Shows
<1>9. K[p] = c
  BY <1>5, <1>8
<1>10. Shows(K, p, e)
  <2>1. ASSUME NEW i \in 1 .. L
        PROVE  K[p + i] = e[i]
    <3>1. PICK j \in 1 .. L + 2 : j = i + 1 /\ Len(k) + j = p + i
      BY <1>8
    <3> QED BY <1>5, <1>8, <3>1
  <2> QED BY <1>4, <2>1 DEF Shows
<1>11. K[p + L + 1] = 0
  <2>1. PICK j \in 1 .. L + 2 : j = L + 2 /\ Len(k) + j = p + L + 1
    BY <1>8
  <2> QED BY <1>5, <1>8, <2>1
<1>12. p + L + 1 <= Len(K) /\ (p + L + 1 = Len(K) \/ K[p + L + 2] # FF)
  <2>1. CASE M = 0
    BY <1>8, <2>1
  <2>2. CASE M # 0
    <3>1. 1 \in 1 .. M /\ r[1] # FF /\ Len(k) + (L + 2) + 1 = p + L + 2
      BY <1>6, <1>8, <2>2
    <3> QED BY <1>8, <3>1
  <2> QED BY <2>1, <2>2
<1>13. PICK q \in Nat : q = p + 1
  OBVIOUS
<1>14. Terminator(K, q) = q + L
  <2>1. Len(K) \in Nat
    BY <1>8
  <2>2. \A x : x = p + 1 => Terminator(K, x) = x + L
    BY ONLY p \in Nat, e \in Words(Bytes), L \in Nat, <1>1, <1>4, <1>10, <1>11, <1>12, <2>1, TerminatorIs
  <2> QED BY <1>13, <2>2
<1>15. Unescaped(K, q, q + L) = s
  BY <1>1, <1>4, <1>10, <1>13, ShownString
<1>16. Terminator(K, p + 1) = q + L /\ Unescaped(K, p + 1, q + L) = s
  BY <1>13, <1>14, <1>15
<1>17. q + L + 1 = p + Len(Coded(c, s))
  BY <1>3, <1>5, <1>13
<1>18. decode(K, p) = [item |-> [type |-> IF c = 1 THEN "bytes" ELSE "string", value |-> s], next |-> q + L + 1]
  <2>1. K[p] \in {1, 2} /\ K[p] # 0 /\ ~(K[p] > 2)
    BY <1>9
  <2> QED BY <1>9, <1>16, <2>1 DEF decode
<1> QED BY <1>17, <1>18

\* The code of an integer tells its size.
LEMMA CodeOf ==
  ASSUME NEW v \in -Longest .. Longest
  PROVE  /\ Code(v) > 2 /\ Distance(Code(v)) = Size(v)
         /\ Code(v) < Zero <=> v < 0
<1>1. Size(v) \in Nat /\ v \in Int /\ (v # 0 <=> Size(v) > 0) /\ Code(v) > 2
  BY IntegerFacts
<1>2. Zero \in Nat
  BY CodeFacts
<1>3. CASE v < 0
  BY <1>1, <1>2, <1>3 DEF Code, Distance
<1>4. CASE ~(v < 0)
  BY <1>1, <1>2, <1>4 DEF Code, Distance
<1> QED BY <1>3, <1>4

\* What is decoded under the code of an integer.
LEMMA DecodeNumeral ==
  ASSUME NEW K, NEW p \in Nat, K[p] \in Int, K[p] > 2,
         NEW n \in Nat, n = Distance(K[p]), MaxBytes \in Nat, n <= MaxBytes
  PROVE  decode(K, p) = [item |-> IF n = 0 THEN [type |-> "int", value |-> 0]
                                  ELSE decodeNumber(K, p + 1, n, K[p] < Zero),
                         next |-> p + n + 1]
<1>1. K[p] # 0 /\ K[p] \notin {1, 2}
  OBVIOUS
<1> QED BY <1>1 DEF decode

\* An integer is read as it was packed, or refused where a double may not hold it.
LEMMA DecodeInteger ==
  ASSUME NEW k \in Words(Bytes), NEW v \in -Longest .. Longest, NEW r \in Words(Bytes),
         NEW K \in Words(Bytes), K = Join(k, Join(EncodedInt(v), r)),
         NEW p \in Nat, p = Len(k) + 1
  PROVE  /\ v \in minInt .. maxInt =>
              decode(K, p) = [item |-> [type |-> "int", value |-> v], next |-> p + Len(EncodedInt(v))]
         /\ v \notin minInt .. maxInt => decode(K, p).item = [error |-> "RangeError"]
<1>1. /\ v \in Int /\ Code(v) \in Bytes /\ (v # 0 <=> Size(v) > 0)
      /\ Body(v) \in Words(Bytes) /\ EncodedInt(v) = Join(One(Code(v)), Body(v))
  BY IntegerFacts
<1>2. PICK n \in Nat : n = Size(v) /\ n = Len(Body(v)) /\ n \in 0 .. MaxBytes + 1
  BY IntegerFacts
<1>3. PICK o \in Words(Bytes) : o = One(Code(v)) /\ Len(o) = 1 /\ o[1] = Code(v)
  BY <1>1, Monoid, AtOne
<1>4. PICK b \in Words(Bytes) : b = Body(v)
  BY <1>1
<1>5. PICK g \in Words(Bytes) : g = EncodedInt(v) /\ g = Join(o, b)
  BY <1>1, <1>3, <1>4, Monoid
<1>6. Len(g) = n + 1 /\ g[1] = Code(v) /\ \A i \in 1 .. n : g[i + 1] = b[i]
  <2>1. PICK w \in Words(Bytes) : g = Join(o, Join(b, w)) /\ Len(w) = 0
    <3>1. <<>> \in Words(Bytes) /\ Join(b, <<>>) = b /\ Len(<<>>) = 0
      BY Monoid
    <3> QED BY <1>5, <3>1
  <2>2. Len(g) = Len(o) + Len(b) + Len(w) /\ Shows(g, 0, o) /\ Shows(g, Len(o), b)
    <3>1. /\ Len(Join(o, Join(b, w))) = Len(o) + Len(b) + Len(w)
          /\ Shows(Join(o, Join(b, w)), 0, o) /\ Shows(Join(o, Join(b, w)), Len(o), b)
      BY ShowsMiddle
    <3> QED BY <2>1, <3>1
  <2>3. Shows(g, 0, o) /\ Shows(g, 1, b)
    BY <1>3, <2>2
  <2>4. g[0 + 1] = o[1] /\ \A i \in 1 .. n : g[1 + i] = b[i]
    BY <1>2, <1>3, <1>4, <2>3 DEF Shows
  <2>5. 0 + 1 = 1 /\ \A i \in 1 .. n : 1 + i = i + 1
    OBVIOUS
  <2> QED BY <1>2, <1>3, <1>4, <2>1, <2>2, <2>4, <2>5
<1>7. Len(k) \in Nat /\ \A i \in 1 .. n + 1 : K[Len(k) + i] = g[i]
  <2>1. Len(k) \in Nat /\ Shows(K, Len(k), g)
    BY <1>5, ShowsMiddle
  <2> QED BY <1>6, <2>1 DEF Shows
<1>8. K[p] = Code(v)
  BY <1>6, <1>7
<1>9. PICK q \in Nat : q = p + 1
  OBVIOUS
<1>10. \A i \in 1 .. n : K[q + i - 1] = Body(v)[i]
  <2>1. ASSUME NEW i \in 1 .. n
        PROVE  K[q + i - 1] = Body(v)[i]
    <3>1. PICK j \in 1 .. n + 1 : j = i + 1 /\ Len(k) + j = q + i - 1
      BY <1>7, <1>9
    <3> QED BY <1>4, <1>6, <1>7, <3>1
  <2> QED BY <2>1
<1>11. /\ K[p] > 2 /\ Distance(K[p]) = n /\ (K[p] < Zero <=> v < 0)
       /\ K[p] # 0 /\ K[p] \notin {1, 2} /\ K[p] \in Int
  <2>1. K[p] \in Int
    BY <1>1, <1>8, CodeFacts
  <2>2. Code(v) > 2 /\ Distance(Code(v)) = Size(v)
    BY CodeOf
  <2>3. Code(v) < Zero <=> v < 0
    BY CodeOf
  <2> QED BY <1>1, <1>2, <1>8, <2>1, <2>2, <2>3
<1>12. p + n + 1 = p + Len(EncodedInt(v))
  BY <1>5, <1>6
<1>13. MaxBytes \in Nat
  BY CodeFacts
<1>14. CASE n = MaxBytes + 1
  <2>1. v \notin minInt .. maxInt
    <3>1. Size(v) > MaxBytes
      BY <1>2, <1>13, <1>14
    <3> QED BY <3>1, ExactFacts
  <2>2. decode(K, p).item = [error |-> "RangeError"]
    <3>1. ~(n <= MaxBytes)
      BY <1>13, <1>14
    <3> QED BY <1>11, <1>14, <3>1 DEF decode
  <2> QED BY <2>1, <2>2
<1>15. CASE n # MaxBytes + 1 /\ v = 0
  <2>1. n = 0 /\ n <= MaxBytes
    BY <1>1, <1>2, <1>13, <1>15
  <2>2. decode(K, p) = [item |-> [type |-> "int", value |-> 0], next |-> p + n + 1]
    BY <1>11, <1>13, <2>1, DecodeNumeral
  <2>3. v \in minInt .. maxInt
    <3>1. Power(2, Precision) \in Nat /\ Power(2, Precision) > 0
      BY ExactFacts
    <3> QED BY <1>15, <3>1 DEF minInt, maxInt
  <2> QED BY <1>12, <1>15, <2>2, <2>3
<1>16. CASE n # MaxBytes + 1 /\ v # 0
  <2>1. n <= MaxBytes /\ n # 0
    BY <1>1, <1>2, <1>13, <1>16
  <2>2. decodeNumber(K, q, n, v < 0) = IF v \in minInt .. maxInt THEN [type |-> "int", value |-> v]
                                                               ELSE [error |-> "RangeError"]
    <3>1. Size(v) <= MaxBytes /\ \A i \in 1 .. Size(v) : K[q + i - 1] = Body(v)[i]
      BY <1>2, <1>10, <2>1
    <3>2. decodeNumber(K, q, Size(v), v < 0) = IF v \in minInt .. maxInt THEN [type |-> "int", value |-> v]
                                                                     ELSE [error |-> "RangeError"]
      BY ONLY v \in -Longest .. Longest, q \in Nat, <1>16, <3>1, NumberDecoded
    <3> QED BY <1>2, <3>2
  <2>3. decode(K, p) = [item |-> decodeNumber(K, q, n, K[p] < Zero), next |-> p + n + 1]
    BY <1>9, <1>11, <1>13, <2>1, DecodeNumeral
  <2>4. (K[p] < Zero) = (v < 0)
    BY <1>1, <1>11
  <2> QED BY <1>12, <2>2, <2>3, <2>4
<1> QED BY <1>14, <1>15, <1>16

\* The first byte of a word in the middle of a key.
LEMMA FirstInMiddle ==
  ASSUME NEW k \in Words(Bytes), NEW b \in Bytes, NEW r \in Words(Bytes),
         NEW K \in Words(Bytes), K = Join(k, Join(One(b), r)),
         NEW p \in Nat, p = Len(k) + 1
  PROVE  K[p] = b /\ p <= Len(K)
<1>1. PICK o \in Words(Bytes) : o = One(b) /\ Len(o) = 1 /\ o[1] = b
  BY Monoid, AtOne
<1>2. /\ Len(k) \in Nat /\ Len(r) \in Nat
      /\ Len(Join(k, Join(o, r))) = Len(k) + Len(o) + Len(r)
      /\ Shows(Join(k, Join(o, r)), Len(k), o)
  BY ShowsMiddle
<1>3. K[Len(k) + 1] = o[1]
  <2>1. 1 \in 1 .. Len(o)
    BY <1>1
  <2> QED BY <1>1, <1>2, <2>1 DEF Shows
<1> QED BY <1>1, <1>2, <1>3

\* Numbers that another binding may have packed and this one does not pack.
Exact(x) == x.type = "int" => x.value \in minInt .. maxInt

\* Each item is read as it was packed, and no other integer is ever misread.
LEMMA DecodeItem ==
  ASSUME NEW k \in Words(Bytes), NEW x \in Items, NEW r \in Words(Bytes), Tame(r),
         NEW K \in Words(Bytes), K = Join(k, Join(encode(x), r)),
         NEW p \in Nat, p = Len(k) + 1
  PROVE  /\ Exact(x) => decode(K, p) = [item |-> x, next |-> p + Len(encode(x))]
         /\ ~Exact(x) => decode(K, p).item = [error |-> "RangeError"]
<1>1. CASE x = [type |-> "null"] /\ x.type = "null"
  <2>1. encode(x) = Join(One(0), <<>>) /\ 0 \in Bytes
    BY <1>1, EncodeCases, CodeFacts
  <2>2. PICK o \in Words(Bytes) : o = One(0) /\ Len(o) = 1 /\ encode(x) = o
    BY <2>1, Monoid, AtOne
  <2>3. K = Join(k, Join(One(0), r))
    BY <2>2
  <2>4. K[p] = 0
    BY ONLY k \in Words(Bytes), r \in Words(Bytes), K \in Words(Bytes), p \in Nat, p = Len(k) + 1,
            <2>1, <2>3, FirstInMiddle
  <2>5. decode(K, p) = [item |-> [type |-> "null"], next |-> p + 1]
    BY <2>4 DEF decode
  <2>6. Exact(x)
    BY <1>1 DEF Exact
  <2> QED BY <1>1, <2>2, <2>5, <2>6
<1>2. CASE /\ x.type \in {"bytes", "string"} /\ x.value \in Words(Bytes)
           /\ x = [type |-> x.type, value |-> x.value]
  <2>1. PICK c \in {1, 2} : c = (IF x.type = "bytes" THEN 1 ELSE 2)
    OBVIOUS
  <2>2. encode(x) = Coded(c, x.value) /\ x.type = (IF c = 1 THEN "bytes" ELSE "string")
    BY <1>2, <2>1, EncodeCases
  <2>3. PICK s \in Words(Bytes) : s = x.value
    BY <1>2
  <2>4. K = Join(k, Join(Coded(c, s), r))
    BY <2>2, <2>3
  <2>5. decode(K, p) = [item |-> [type |-> IF c = 1 THEN "bytes" ELSE "string", value |-> s],
                        next |-> p + Len(Coded(c, s))]
    BY <2>4, DecodeString
  <2>6. [type |-> IF c = 1 THEN "bytes" ELSE "string", value |-> s] = x
    BY <1>2, <2>2, <2>3
  <2>7. Exact(x)
    BY <1>2 DEF Exact
  <2> QED BY <2>2, <2>3, <2>5, <2>6, <2>7
<1>3. CASE /\ x.type = "int" /\ x.value \in -Longest .. Longest
           /\ x = [type |-> x.type, value |-> x.value]
  <2>1. PICK v \in -Longest .. Longest : v = x.value
    BY <1>3
  <2>2. encode(x) = EncodedInt(v)
    BY <1>3, <2>1, EncodeCases
  <2>3. K = Join(k, Join(EncodedInt(v), r))
    BY <2>2
  <2>4. /\ v \in minInt .. maxInt =>
             decode(K, p) = [item |-> [type |-> "int", value |-> v], next |-> p + Len(EncodedInt(v))]
        /\ v \notin minInt .. maxInt => decode(K, p).item = [error |-> "RangeError"]
    BY <2>3, DecodeInteger
  <2>5. Exact(x) <=> v \in minInt .. maxInt
    BY <1>3, <2>1 DEF Exact
  <2>6. [type |-> "int", value |-> v] = x
    BY <1>3, <2>1
  <2> QED BY <2>2, <2>4, <2>5, <2>6
<1> QED BY <1>1, <1>2, <1>3, ItemCases

\* An FF begins no item.
LEMMA DecodeForeign ==
  ASSUME NEW K \in Words(Bytes), NEW r \in Words(Bytes), K = Join(One(FF), r)
  PROVE  decode(K, 1).item = [error |-> "TypeError"] /\ 1 <= Len(K)
<1>1. /\ FF \in Bytes /\ FF \in Nat /\ Zero \in Nat /\ MaxBytes \in Nat
      /\ 2 < Zero - MaxBytes - 1 /\ Zero + MaxBytes + 1 < FF
  BY CodeFacts
<1>2. <<>> \in Words(Bytes) /\ Join(<<>>, Join(One(FF), r)) = Join(One(FF), r)
  BY <1>1, Monoid
<1>3. PICK k \in Words(Bytes) : K = Join(k, Join(One(FF), r)) /\ Len(k) = 0
  BY <1>2
<1>4. PICK p \in Nat : p = Len(k) + 1 /\ p = 1
  BY <1>3
<1>5. K[p] = FF /\ p <= Len(K)
  BY <1>1, <1>3, <1>4, FirstInMiddle
<1>6. K[1] = FF /\ 1 <= Len(K)
  BY <1>4, <1>5
<1>7. K[1] # 0 /\ K[1] \notin {1, 2} /\ ~(Distance(K[1]) <= MaxBytes) /\ Distance(K[1]) # MaxBytes + 1
  BY <1>1, <1>6 DEF Distance
<1>8. decode(K, 1) = [item |-> [error |-> "TypeError"], next |-> 1]
  BY <1>7 DEF decode
<1> QED BY <1>6, <1>8

-----------------------------------------------------------------------------
(* What unpacking has read.                                                *)

\* The key is that of the items read and of those to come ...
Reading ==
  \E a, b \in Words(Items) :
    /\ right = Join(left, Join(a, b))
    /\ key = pack(Join(a, b))
    /\ arr = a /\ pos = Len(pack(a)) + 1

\* ... or it is in the subspace by an accident of its bytes, and begins with FF.
Foreign ==
  /\ ~IsPrefix(left, right) /\ pos = 1
  /\ \E r \in Words(Bytes) : key = Join(One(FF), r)

Unpacking ==
  /\ Typed
  /\ outcome = "unpacking" => Reading \/ Foreign
  /\ outcome = "done" => right = Join(left, arr)
  /\ outcome = "RangeError" => ~CanPack(right)
  /\ outcome \in {"TypeError", "not in subspace"} => ~IsPrefix(left, right)

\* A subspace contains the keys that begin with its own.
LEMMA ContainsIs ==
  ASSUME NEW p \in Words(Bytes), NEW k \in Words(Bytes)
  PROVE  /\ contains(p, k) <=> IsPrefix(p, k)
         /\ \A r \in Words(Bytes) : k = Join(p, r) => contains(p, k) /\ SubSeq(k, Len(p) + 1, Len(k)) = r
<1>1. contains(p, k) <=> IsPrefix(p, k)
  <2>1. Len(p) \in Nat /\ Len(k) \in Nat /\ p \in Seq(Bytes) /\ k \in Seq(Bytes)
    BY DEF Words
  <2>2. Len(p) <= Len(k) <=> Len(k) >= Len(p)
    BY <2>1
  <2> QED BY <2>1, <2>2 DEF contains, IsPrefix
<1>2. ASSUME NEW r \in Words(Bytes), k = Join(p, r)
      PROVE  contains(p, k) /\ SubSeq(k, Len(p) + 1, Len(k)) = r
  <2>1. IsPrefix(p, k)
    BY <1>2, Begins
  <2>2. PICK q \in Seq(Bytes) : q = SubSeq(k, Len(p) + 1, Len(k)) /\ k = p \o q
    BY <2>1, PrefixRest DEF Words
  <2>3. q \in Words(Bytes) /\ k = Join(p, q)
    BY <2>2, Zenon DEF Words, Join
  <2>4. q = r
    BY <1>2, <2>3, Cancel
  <2> QED BY <1>1, <2>1, <2>2, <2>4
<1> QED BY <1>1, <1>2

\* What is packed under the subspace is read from its beginning, and another key in
\* it goes on with FF behind the key of the subspace.
LEMMA InitUnpacking == Init => Unpacking
<1> SUFFICES ASSUME Init PROVE Unpacking
  OBVIOUS
<1>1. Typed
  BY InitTyped
<1>2. raw \in Words(Bytes) /\ left \in Words(Items) /\ right \in Words(Items)
  BY <1>1 DEF Typed
<1>3. PICK s \in Words(Bytes), t \in Words(Bytes) : s = pack(left) /\ t = pack(right)
  BY <1>2, PackFacts
<1>4. PICK p \in Words(Bytes), k \in Words(Bytes) :
        p = Join(raw, s) /\ k = Join(raw, t) /\ SubspaceKey = p /\ raw \o pack(right) = k
  <2>1. Join(raw, s) \in Words(Bytes) /\ Join(raw, t) \in Words(Bytes)
    BY <1>2, Monoid
  <2>2. SubspaceKey = Join(raw, s) /\ raw \o pack(right) = Join(raw, t)
    BY <1>3, Zenon DEF SubspaceKey, Join
  <2> QED BY <2>1, <2>2
<1>5. /\ pos = 1 /\ arr = <<>>
      /\ IF contains(p, k) THEN key = SubSeq(k, Len(p) + 1, Len(k)) /\ outcome = "unpacking"
                           ELSE key = <<>> /\ outcome = "not in subspace"
  BY <1>4 DEF Init
<1>6. CASE IsPrefix(left, right)
  <2>1. PICK b \in Words(Items) : right = Join(left, b)
    BY <1>2, <1>6, Begins
  <2>2. pack(b) \in Words(Bytes) /\ t = Join(s, pack(b))
    BY <1>2, <1>3, <2>1, PackFacts
  <2>3. k = Join(p, pack(b))
    BY <1>2, <1>4, <2>2, Associative
  <2>4. contains(p, k) /\ SubSeq(k, Len(p) + 1, Len(k)) = pack(b)
    BY <2>2, <2>3, ContainsIs
  <2>5. key = pack(b) /\ outcome = "unpacking"
    BY <1>5, <2>4
  <2>6. <<>> \in Words(Items) /\ Join(<<>>, b) = b /\ pack(<<>>) = <<>> /\ Len(<<>>) = 0
    BY Monoid, PackFacts
  <2>7. Reading
    BY <1>5, <2>1, <2>5, <2>6 DEF Reading
  <2> QED BY <1>1, <2>5, <2>7 DEF Unpacking
<1>7. CASE ~IsPrefix(left, right) /\ ~contains(p, k)
  BY <1>1, <1>5, <1>7 DEF Unpacking
<1>8. CASE ~IsPrefix(left, right) /\ contains(p, k)
  <2>1. IsPrefix(p, k) /\ ~Before(k, p)
    BY <1>8, ContainsIs, BelowIs
  <2>2. ~Continues(t, s) /\ ~Below(t, s)
    BY <1>2, <1>4, <2>1, BehindRaw, BelowIs
  <2>3. left # right /\ ~IsStrictPrefix(left, right)
    <3>1. Join(left, <<>>) = left /\ <<>> \in Words(Items)
      BY <1>2, Monoid
    <3> QED BY <1>2, <1>8, <3>1, Begins DEF IsStrictPrefix
  <2>4. Below(s, t)
    BY <1>2, <1>3, <2>2, <2>3, PackCompared
  <2>5. ~Decided(s, t)
    <3>1. Decided(s, t) => Decided(p, k)
      BY <1>2, <1>4, DecidedJoin
    <3>2. ~Decided(p, k)
      BY <2>1, DecidedIs, CodeFacts
    <3> QED BY <3>1, <3>2
  <2>6. PICK r \in Words(Bytes) : t = Join(s, Join(One(FF), r))
    BY <2>4, <2>5 DEF Below
  <2>7. PICK z \in Words(Bytes) : z = Join(One(FF), r)
    BY CodeFacts, Monoid
  <2>8. k = Join(p, z)
    BY <1>2, <1>4, <2>6, <2>7, Associative
  <2>9. key = z /\ outcome = "unpacking"
    BY <1>5, <1>8, <2>8, ContainsIs
  <2>10. Foreign
    BY <1>5, <1>8, <2>7, <2>9 DEF Foreign
  <2> QED BY <1>1, <2>9, <2>10 DEF Unpacking
<1> QED BY <1>6, <1>7, <1>8

\* A turn of the loop reads the next item, or refuses it.
LEMMA ReadingDecode ==
  ASSUME Typed, Typed', Reading, Decode
  PROVE  /\ outcome' = "unpacking" => Reading'
         /\ outcome' \in {"unpacking", "RangeError"}
         /\ outcome' = "RangeError" => ~CanPack(right')
<1>1. PICK a \in Words(Items), b \in Words(Items) :
        /\ right = Join(left, Join(a, b))
        /\ key = pack(Join(a, b))
        /\ arr = a /\ pos = Len(pack(a)) + 1
  BY DEF Reading
<1>2. PICK k \in Words(Bytes) : k = pack(a) /\ Len(k) \in Nat /\ pos = Len(k) + 1
  <2>1. pack(a) \in Words(Bytes)
    BY PackFacts
  <2> QED BY <1>1, <2>1, AtJoin
<1>3. outcome = "unpacking" /\ pos <= Len(key)
  BY DEF Decode
<1>4. b # <<>>
  <2>1. ASSUME b = <<>>
        PROVE  FALSE
    <3>1. Join(a, b) = a
      BY <2>1, Monoid
    <3>2. Len(key) = Len(k)
      BY <1>1, <1>2, <3>1
    <3> QED BY <1>2, <1>3, <3>2
  <2> QED BY <2>1
<1>5. PICK x \in Items, q \in Words(Items) : b = Join(One(x), q)
  BY <1>4, FirstOf
<1>6. PICK e \in Words(Bytes), r \in Words(Bytes) :
        e = encode(x) /\ r = pack(q) /\ Tame(r) /\ key = Join(k, Join(e, r))
  <2>1. pack(Join(a, b)) = Join(pack(a), Join(encode(x), pack(q)))
    BY <1>5, PackAt
  <2>2. encode(x) \in Words(Bytes) /\ pack(q) \in Words(Bytes) /\ Tame(pack(q))
    BY PackFacts, PackTame
  <2> QED BY <1>1, <1>2, <2>1, <2>2
<1>7. key \in Words(Bytes) /\ Len(e) \in Nat
  BY <1>6, ShowsMiddle
<1>8. /\ Exact(x) => decode(key, pos) = [item |-> x, next |-> pos + Len(e)]
      /\ ~Exact(x) => decode(key, pos).item = [error |-> "RangeError"]
  <2>1. pos \in Nat /\ key = Join(k, Join(encode(x), r))
    BY <1>2, <1>6
  <2> QED BY <1>2, <1>6, <1>7, <2>1, DecodeItem
<1>9. UNCHANGED <<raw, left, right, key>>
  BY DEF Decode
<1>10. CASE Exact(x)
  <2>1. decode(key, pos).item = x /\ decode(key, pos).next = pos + Len(e)
    BY <1>8, <1>10
  <2>2. "error" \notin DOMAIN x
    <3>1. ASSUME x = [type |-> "null"]
          PROVE  DOMAIN x = {"type"}
      BY <3>1
    <3>2. ASSUME x = [type |-> x.type, value |-> x.value]
          PROVE  DOMAIN x = {"type", "value"}
      BY <3>2
    <3>3. DOMAIN x = {"type"} \/ DOMAIN x = {"type", "value"}
      BY <3>1, <3>2, ItemCases
    <3> QED BY <3>3
  <2>3. pos' = pos + Len(e) /\ arr' = Append(arr, x) /\ outcome' = outcome
    BY <2>1, <2>2 DEF Decode
  <2>4. PICK o \in Words(Items) : o = One(x)
    BY Monoid
  <2>5. PICK c \in Words(Items) : c = Join(a, o)
    BY Monoid
  <2>6. arr' = c
    <3>1. Append(a, x) = a \o <<x>>
      BY AppendIsConcat DEF Words
    <3>2. a \o <<x>> = Join(a, One(x))
      BY Zenon DEF Join, One
    <3> QED BY <1>1, <2>3, <2>4, <2>5, <3>1, <3>2
  <2>7. Join(c, q) = Join(a, b)
    BY <1>5, <2>4, <2>5, Associative
  <2>8. pack(c) = Join(k, e)
    <3>1. pack(o) = e
      BY <1>6, <2>4, PackFacts
    <3> QED BY <1>2, <2>5, <3>1, PackFacts
  <2>9. Len(pack(c)) = Len(k) + Len(e)
    BY <2>8, AtJoin
  <2>10. pos' = Len(pack(c)) + 1
    BY <1>2, <1>7, <2>3, <2>9
  <2>11. Reading'
    BY <1>1, <1>9, <2>6, <2>7, <2>10 DEF Reading
  <2> QED BY <1>3, <2>3, <2>11
<1>11. CASE ~Exact(x)
  <2>1. outcome' = "RangeError"
    BY <1>8, <1>11 DEF Decode
  <2>2. ~CanPack(right)
    <3>1. PICK f \in Words(Items) : f = Join(left, a)
      BY Monoid DEF Typed
    <3>2. right = Join(f, Join(One(x), q))
      <4>1. left \in Words(Items)
        BY DEF Typed
      <4> QED BY <1>1, <1>5, <3>1, <4>1, Associative
    <3>3. right \in Words(Items)
      BY DEF Typed
    <3>4. Len(f) + 1 \in 1 .. Len(right) /\ right[Len(f) + 1] = x
      BY ONLY f \in Words(Items), q \in Words(Items), x \in Items, <3>2, <3>3, AtParted
    <3>5. DOMAIN right = 1 .. Len(right)
      BY <3>3 DEF Words
    <3> QED BY <1>11, <3>4, <3>5 DEF CanPack, Exact
  <2> QED BY <1>9, <2>1, <2>2
<1> QED BY <1>10, <1>11

\* What is returned is all that was packed.
LEMMA ReadingReturn ==
  ASSUME Typed, Reading, Return
  PROVE  right' = Join(left', arr')
<1>1. PICK a \in Words(Items), b \in Words(Items) :
        /\ right = Join(left, Join(a, b))
        /\ key = pack(Join(a, b))
        /\ arr = a /\ pos = Len(pack(a)) + 1
  BY DEF Reading
<1>2. pos > Len(key) /\ UNCHANGED <<left, right, arr>>
  BY DEF Return
<1>3. PICK k \in Words(Bytes), l \in Words(Bytes) : k = pack(a) /\ l = pack(b) /\ key = Join(k, l)
  BY <1>1, PackFacts
<1>4. Len(k) \in Nat /\ Len(l) \in Nat /\ Len(key) = Len(k) + Len(l)
  BY <1>3, AtJoin
<1>5. Len(l) = 0
  BY <1>1, <1>2, <1>3, <1>4
<1>6. l = <<>>
  BY <1>5 DEF Words
<1>7. b = <<>>
  BY <1>3, <1>6, PackTame
<1>8. Join(a, b) = a
  BY <1>7, Monoid
<1> QED BY <1>1, <1>2, <1>8

\* Nothing is read of another key.
LEMMA ForeignStep ==
  ASSUME Typed, Foreign, Decode \/ Return
  PROVE  outcome' = "TypeError" /\ ~IsPrefix(left', right')
<1>1. PICK r \in Words(Bytes) : key = Join(One(FF), r)
  BY DEF Foreign
<1>2. key \in Words(Bytes)
  BY <1>1, Monoid, CodeFacts
<1>3. decode(key, pos).item = [error |-> "TypeError"] /\ pos = 1 /\ 1 <= Len(key)
  BY <1>1, <1>2, DecodeForeign DEF Foreign
<1>4. Len(key) \in Nat
  BY <1>2, AtJoin
<1>5. ~Return
  BY <1>3, <1>4 DEF Return
<1>6. outcome' = "TypeError" /\ UNCHANGED <<left, right>>
  BY <1>3, <1>5 DEF Decode
<1> QED BY <1>6 DEF Foreign

\* Each turn of the loop, and the return, keep it so.
LEMMA NextUnpacking == Unpacking /\ [Next]_vars => Unpacking'
<1> SUFFICES ASSUME Unpacking, [Next]_vars PROVE Unpacking'
  OBVIOUS
<1>1. Typed /\ Typed'
  BY NextTyped DEF Unpacking
<1>2. CASE Decode
  <2>1. Reading \/ Foreign
    BY <1>2 DEF Decode, Unpacking
  <2>2. CASE Reading
    BY <1>1, <1>2, <2>2, ReadingDecode DEF Unpacking
  <2>3. CASE Foreign
    BY <1>1, <1>2, <2>3, ForeignStep DEF Unpacking
  <2> QED BY <2>1, <2>2, <2>3
<1>3. CASE Return
  <2>1. Reading \/ Foreign
    BY <1>3 DEF Return, Unpacking
  <2>2. outcome' = "done"
    BY <1>3 DEF Return
  <2>3. CASE Reading
    BY <1>1, <1>3, <2>2, <2>3, ReadingReturn DEF Unpacking
  <2>4. CASE Foreign
    BY <1>1, <1>3, <2>4, ForeignStep DEF Unpacking
  <2> QED BY <2>1, <2>3, <2>4
<1>4. CASE UNCHANGED vars
  BY <1>4 DEF Unpacking, Typed, Reading, Foreign, CanPack, vars
<1> QED BY <1>2, <1>3, <1>4 DEF Next

\* What is returned is then what was packed.
LEMMA UnpackingExact == Unpacking => UnpackIsExact
BY Zenon DEF Unpacking, UnpackIsExact, Join

\* THE ORDER OF KEYS: tuple.pack keeps the order of tuples, and no two tuples have
\* one key, for strings of any length, tuples of any number of items, and integers
\* of any width that is within the codes.
THEOREM OrderIsPreserved == Spec => []OrderPreserved
<1>1. Init => Typed
  BY InitTyped
<1>2. Typed /\ [Next]_vars => Typed'
  BY NextTyped
<1>3. Typed => OrderPreserved
  BY TypedOrder
<1> QED BY <1>1, <1>2, <1>3, PTL DEF Spec

\* RANGES: Subspace.range holds the keys of the tuples that go on from that of the
\* subspace and no other, and the range up to strinc those with its bytes in front.
THEOREM RangesHoldWhatTheyMean == Spec => []RangesAreExact
<1>1. Init => Typed
  BY InitTyped
<1>2. Typed /\ [Next]_vars => Typed'
  BY NextTyped
<1>3. Typed => RangesAreExact
  BY TypedRanges
<1> QED BY <1>1, <1>2, <1>3, PTL DEF Spec

\* UNPACKING: Subspace.unpack returns the tuple whose key it is given, and never
\* another: a number that a double cannot hold, or a key that is in the subspace by an
\* accident of its bytes, is refused.
THEOREM UnpackingReturnsThePacked == Spec => []UnpackIsExact
<1>1. Init => Unpacking
  BY InitUnpacking
<1>2. Unpacking /\ [Next]_vars => Unpacking'
  BY NextUnpacking
<1>3. Unpacking => UnpackIsExact
  BY UnpackingExact
<1> QED BY <1>1, <1>2, <1>3, PTL DEF Spec
=============================================================================
