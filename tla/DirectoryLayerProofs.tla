------------------------- MODULE DirectoryLayerProofs -------------------------
(***************************************************************************)
(* Directories stay in order, for every number of calls, any operations on *)
(* any paths, partitions in partitions, conflicts and commits of unknown   *)
(* outcome, as long as no prefix is given by hand.                         *)
(*                                                                         *)
(* An attempt is kept (Kept) if committing it leaves every database in     *)
(* order (NodesOK) in which all that it has read is as it was.  Every      *)
(* attempt of every operation is.  A commit without a conflict is one on   *)
(* such a database, so that TreeInv is inductive.  In a database that is in *)
(* order the places of the tree are the nodes, one for one, from which the *)
(* invariants that are checked follow.                                     *)
(*                                                                         *)
(* What these proofs need of the operators of DirectoryLayer comes first:  *)
(* prefixes, keys and ranges, the walk along a path and into partitions,   *)
(* and the changes that leave the nodes of a database in order.  Induction *)
(* over numbers goes by the least counterexample (Least), which the well-  *)
(* foundedness of the natural numbers gives; so do the recursive functions *)
(* of the model, whose recursions are first shown to have a solution for   *)
(* every number of steps.                                                  *)
(***************************************************************************)
EXTENDS DirectoryLayer, TLAPS, SequenceTheorems, FiniteSetTheorems, WellFoundedInduction

-----------------------------------------------------------------------------
(* The least number of a set, for which induction is done.                 *)

Less == {ss \in Nat \X Nat : ss[1] < ss[2]}

\* There is no endless descent among the natural numbers.
LEMMA LessIsWellFounded == IsWellFoundedOn(Less, Nat)
<1>1. IsWellFoundedOn({ss \in Nat \X Nat : ss[1] < ss[2]}, Nat)
  BY NatLessThanWellFounded, Zenon DEF OpToRel
<1> QED BY <1>1 DEF Less

\* A set of natural numbers has a least one.
LEMMA Least ==
  ASSUME NEW S, S \subseteq Nat, S # {}
  PROVE  \E n \in S : n \in Nat /\ \A m \in S : n <= m
<1>1. PICK n \in S : \A m \in S : ~(<<m, n>> \in Less)
  BY LessIsWellFounded, WFMin
<1>2. ASSUME NEW m \in S
      PROVE  n <= m
  <2>1. ~(<<m, n>> \in Less)
    BY <1>1
  <2>2. m \in Nat /\ n \in Nat
    OBVIOUS
  <2> QED BY <2>1, <2>2 DEF Less
<1> QED BY <1>2

-----------------------------------------------------------------------------
(* Prefixes and their parts.                                               *)

Numbers == 1 .. MaxAlloc
Layers == Seq(Numbers)
PrefixesOf(c) == {Append(c, n) : n \in Numbers}

\* What is assumed of the constants, in the words of the proofs.
LEMMA Constants ==
  /\ MaxAlloc \in Nat /\ MaxAlloc + 1 \in Nat /\ MaxAlloc + 1 \notin Numbers
  /\ Numbers \subseteq Nat /\ Layers \subseteq Seq(Nat)
  /\ Root \in Layers
  /\ None # Partition /\ NoLayer # Partition
  /\ \A p \in Seq(Nat) : p # None
  /\ \A q \in Seq(Names) : q # None
<1>1. MaxAlloc \in Nat /\ MaxAlloc + 1 \in Nat /\ MaxAlloc + 1 \notin Numbers /\ Numbers \subseteq Nat
  BY AllocAssumption DEF Numbers
<1>2. Layers \subseteq Seq(Nat)
  BY <1>1, SeqMonotonic DEF Layers
<1>3. Root \in Layers
  BY EmptySeq DEF Root, Layers
<1> QED BY <1>1, <1>2, <1>3, NoneAssumption

\* How many numbers there are after one and up to another.
LEMMA Counted ==
  ASSUME NEW n \in Int, NEW m \in Int, n <= m
  PROVE  (IF n + 1 <= m THEN m - (n + 1) + 1 ELSE 0) = m - n
OBVIOUS

\* A number after a prefix.
LEMMA AppendFacts ==
  ASSUME NEW S, NEW c \in Seq(S), NEW n \in S
  PROVE  /\ Append(c, n) \in Seq(S)
         /\ Len(Append(c, n)) = Len(c) + 1
         /\ Append(c, n)[Len(c) + 1] = n
         /\ \A i \in 1 .. Len(c) : Append(c, n)[i] = c[i]
         /\ Append(c, n) # <<>>
         /\ Last(Append(c, n)) = n
<1>1. /\ Append(c, n) \in Seq(S)
      /\ Len(Append(c, n)) = Len(c) + 1
      /\ Append(c, n)[Len(c) + 1] = n
      /\ \A i \in 1 .. Len(c) : Append(c, n)[i] = c[i]
  OBVIOUS
<1>2. Append(c, n) # <<>>
  BY <1>1
<1>3. Last(Append(c, n)) = n
  BY <1>1 DEF Last
<1> QED BY <1>1, <1>2, <1>3

\* A sequence without its last element, and with it again.
LEMMA FrontFacts ==
  ASSUME NEW S, NEW s \in Seq(S), s # <<>>
  PROVE  /\ Front(s) \in Seq(S) /\ Last(s) \in S
         /\ Len(Front(s)) = Len(s) - 1
         /\ \A i \in 1 .. Len(s) - 1 : Front(s)[i] = s[i]
         /\ s = Append(Front(s), Last(s))
<1>1. Len(s) \in Nat \ {0}
  BY EmptySeq
<1>2. \A i \in 1 .. Len(s) - 1 : s[i] \in S
  BY <1>1, ElementOfSeq
<1>3. /\ Front(s) \in Seq(S)
      /\ Len(Front(s)) = Len(s) - 1
      /\ \A i \in 1 .. Len(s) - 1 : Front(s)[i] = s[i]
  <2>1. PICK w : w = SubSeq(s, 1, Len(s) - 1)
    OBVIOUS
  <2>2. /\ w \in Seq(S)
        /\ Len(w) = IF 1 <= Len(s) - 1 THEN Len(s) - 1 - 1 + 1 ELSE 0
        /\ \A i \in 1 .. Len(s) - 1 - 1 + 1 : w[i] = s[1 + i - 1]
    BY <2>1, <1>1, <1>2, SubSeqProperties
  <2>5. Len(s) - 1 - 1 + 1 = Len(s) - 1 /\ \A i \in 1 .. Len(s) - 1 : 1 + i - 1 = i
    BY <1>1
  <2>6. Len(w) = Len(s) - 1
    <3>1. Len(w) = IF 1 <= Len(s) - 1 THEN Len(s) - 1 - 1 + 1 ELSE 0
      BY <2>2
    <3>2. PICK n : n = Len(s)
      OBVIOUS
    <3>3. 0 \in Int /\ n - 1 \in Int /\ 0 <= n - 1
      BY <1>1, <3>2
    <3>4. (IF 0 + 1 <= n - 1 THEN n - 1 - (0 + 1) + 1 ELSE 0) = n - 1 - 0
      BY ONLY <3>3, Counted
    <3>5. 0 + 1 = 1 /\ n - 1 - 0 = n - 1
      BY <3>3
    <3> QED BY <3>1, <3>2, <3>4, <3>5
  <2>7. \A i \in 1 .. Len(s) - 1 : w[i] = s[1 + i - 1]
    BY <2>2, <2>5, Zenon
  <2>3. Len(w) = Len(s) - 1 /\ \A i \in 1 .. Len(s) - 1 : w[i] = s[i]
    BY <2>5, <2>6, <2>7
  <2>4. Front(s) = w
    BY <2>1 DEF Front
  <2> QED BY <2>2, <2>3, <2>4
<1>4. Last(s) \in S
  BY <1>1, ElementOfSeq DEF Last
<1>5. s = Append(Front(s), Last(s))
  <2>1. /\ Append(Front(s), Last(s)) \in Seq(S)
        /\ Len(Append(Front(s), Last(s))) = Len(s)
        /\ \A i \in 1 .. Len(s) : Append(Front(s), Last(s))[i] = s[i]
    BY <1>1, <1>3, <1>4, AppendFacts DEF Last
  <2> QED BY <2>1, SeqEqual
<1> QED BY <1>3, <1>4, <1>5

\* What is appended is what Front leaves out.
LEMMA FrontOfAppend ==
  ASSUME NEW S, NEW c \in Seq(S), NEW n \in S
  PROVE  Front(Append(c, n)) = c
<1>1. /\ Front(Append(c, n)) \in Seq(S)
      /\ Len(Front(Append(c, n))) = Len(c)
      /\ \A i \in 1 .. Len(c) : Front(Append(c, n))[i] = c[i]
  <2>1. Append(c, n) \in Seq(S) /\ Append(c, n) # <<>> /\ Len(Append(c, n)) = Len(c) + 1
    BY AppendFacts
  <2>2. /\ Front(Append(c, n)) \in Seq(S)
        /\ Len(Front(Append(c, n))) = Len(Append(c, n)) - 1
        /\ \A i \in 1 .. Len(Append(c, n)) - 1 : Front(Append(c, n))[i] = Append(c, n)[i]
    BY <2>1, FrontFacts
  <2>3. Len(c) \in Nat
    BY LenProperties
  <2>4. \A i \in 1 .. Len(c) : Append(c, n)[i] = c[i]
    BY AppendFacts
  <2> QED BY <2>1, <2>2, <2>3, <2>4
<1> QED BY <1>1, SeqEqual

\* What a sequence is appended from is known by the sequence.
LEMMA AppendParts ==
  ASSUME NEW S, NEW c \in Seq(S), NEW e \in Seq(S), NEW n \in S, NEW m \in S,
         Append(c, n) = Append(e, m)
  PROVE  c = e /\ n = m
<1>1. Front(Append(c, n)) = c /\ Front(Append(e, m)) = e
  BY FrontOfAppend
<1>2. Last(Append(c, n)) = n /\ Last(Append(e, m)) = m
  BY AppendFacts
<1> QED BY <1>1, <1>2

\* One sequence beginning with another, position by position.
LEMMA PrefixByPosition ==
  ASSUME NEW S, NEW s \in Seq(S), NEW t \in Seq(S)
  PROVE  IsPrefix(s, t) <=> Len(s) <= Len(t) /\ \A i \in 1 .. Len(s) : s[i] = t[i]
<1>1. Len(s) \in Nat /\ Len(t) \in Nat
  BY LenProperties
<1>2. SubSeq(s, 1, Len(s)) = s
  BY SubSeqFull
<1>3. CASE Len(s) <= Len(t)
  <2>1. \A i \in 1 .. Len(s) : t[i] \in S
    BY <1>1, <1>3, ElementOfSeq
  <2>2. /\ SubSeq(t, 1, Len(s)) \in Seq(S)
        /\ Len(SubSeq(t, 1, Len(s))) = IF 1 <= Len(s) THEN Len(s) - 1 + 1 ELSE 0
        /\ \A i \in 1 .. Len(s) - 1 + 1 : SubSeq(t, 1, Len(s))[i] = t[1 + i - 1]
    BY <2>1, <1>1, SubSeqProperties
  <2>3. /\ Len(SubSeq(t, 1, Len(s))) = Len(s)
        /\ \A i \in 1 .. Len(s) : SubSeq(t, 1, Len(s))[i] = t[i]
    BY <2>2, <1>1
  <2>4. (s = SubSeq(t, 1, Len(s))) <=> \A i \in 1 .. Len(s) : s[i] = t[i]
    <3>1. ASSUME \A i \in 1 .. Len(s) : s[i] = t[i]
          PROVE  s = SubSeq(t, 1, Len(s))
      BY <3>1, <2>2, <2>3, SeqEqual
    <3>2. ASSUME s = SubSeq(t, 1, Len(s))
          PROVE  \A i \in 1 .. Len(s) : s[i] = t[i]
      BY <3>2, <2>3
    <3> QED BY <3>1, <3>2
  <2> QED BY <2>4, <1>2, <1>3 DEF IsPrefix
<1>4. CASE ~(Len(s) <= Len(t))
  BY <1>4 DEF IsPrefix
<1> QED BY <1>3, <1>4

\* To begin a sequence is an order.
LEMMA PrefixOrder ==
  ASSUME NEW S, NEW s \in Seq(S), NEW t \in Seq(S), NEW u \in Seq(S)
  PROVE  /\ IsPrefix(s, s)
         /\ IsPrefix(s, t) /\ IsPrefix(t, u) => IsPrefix(s, u)
         /\ IsPrefix(s, t) /\ IsPrefix(t, s) => s = t
         /\ IsPrefix(s, t) => Len(s) <= Len(t)
         /\ IsPrefix(s, t) /\ s # t => Len(s) < Len(t)
<1>1. Len(s) \in Nat /\ Len(t) \in Nat /\ Len(u) \in Nat
  BY LenProperties
<1>2. /\ IsPrefix(s, t) <=> Len(s) <= Len(t) /\ \A i \in 1 .. Len(s) : s[i] = t[i]
      /\ IsPrefix(t, u) <=> Len(t) <= Len(u) /\ \A i \in 1 .. Len(t) : t[i] = u[i]
      /\ IsPrefix(s, u) <=> Len(s) <= Len(u) /\ \A i \in 1 .. Len(s) : s[i] = u[i]
      /\ IsPrefix(s, s) <=> Len(s) <= Len(s) /\ \A i \in 1 .. Len(s) : s[i] = s[i]
      /\ IsPrefix(t, s) <=> Len(t) <= Len(s) /\ \A i \in 1 .. Len(t) : t[i] = s[i]
  BY PrefixByPosition
<1>3. IsPrefix(s, s)
  BY <1>1, <1>2
<1>4. IsPrefix(s, t) /\ IsPrefix(t, u) => IsPrefix(s, u)
  BY <1>1, <1>2
<1>5. IsPrefix(s, t) /\ Len(s) = Len(t) => s = t
  BY <1>1, <1>2, SeqEqual
<1>6. IsPrefix(s, t) => Len(s) <= Len(t)
  BY <1>2
<1>7. IsPrefix(s, t) /\ IsPrefix(t, s) => s = t
  BY <1>1, <1>2, <1>5
<1>8. IsPrefix(s, t) /\ s # t => Len(s) < Len(t)
  BY <1>1, <1>5, <1>6
<1> QED BY <1>3, <1>4, <1>6, <1>7, <1>8

\* What begins a sequence that is longer by one begins the sequence, or is all of it.
LEMMA PrefixOfAppend ==
  ASSUME NEW S, NEW p \in Seq(S), NEW c \in Seq(S), NEW n \in S
  PROVE  IsPrefix(p, Append(c, n)) <=> IsPrefix(p, c) \/ p = Append(c, n)
<1>1. Len(p) \in Nat /\ Len(c) \in Nat
  BY LenProperties
<1>2. /\ Append(c, n) \in Seq(S) /\ Len(Append(c, n)) = Len(c) + 1
      /\ \A i \in 1 .. Len(c) : Append(c, n)[i] = c[i]
  BY AppendFacts
<1>3. IsPrefix(p, Append(c, n)) <=> Len(p) <= Len(c) + 1 /\ \A i \in 1 .. Len(p) : p[i] = Append(c, n)[i]
  <2>1. PICK w : w = Append(c, n)
    OBVIOUS
  <2>2. w \in Seq(S)
    BY <1>2, <2>1
  <2>3. IsPrefix(p, w) <=> Len(p) <= Len(w) /\ \A i \in 1 .. Len(p) : p[i] = w[i]
    BY <2>2, PrefixByPosition
  <2>4. IsPrefix(p, Append(c, n))
          <=> Len(p) <= Len(Append(c, n)) /\ \A i \in 1 .. Len(p) : p[i] = Append(c, n)[i]
    BY <2>1, <2>3, Zenon
  <2> QED BY <2>4, <1>2
<1>4. IsPrefix(p, c) <=> Len(p) <= Len(c) /\ \A i \in 1 .. Len(p) : p[i] = c[i]
  BY PrefixByPosition
<1>5. CASE Len(p) <= Len(c)
  <2>1. p # Append(c, n)
    BY <1>5, <1>1, <1>2
  <2>2. \A i \in 1 .. Len(p) : Append(c, n)[i] = c[i]
    BY <1>5, <1>1, <1>2
  <2> QED BY <2>1, <2>2, <1>1, <1>3, <1>4, <1>5
<1>6. CASE ~(Len(p) <= Len(c))
  <2>1. IsPrefix(p, Append(c, n)) => p = Append(c, n)
    <3>1. ASSUME IsPrefix(p, Append(c, n))
          PROVE  p = Append(c, n)
      <4>1. Len(p) = Len(Append(c, n)) /\ \A i \in 1 .. Len(p) : p[i] = Append(c, n)[i]
        BY <3>1, <1>1, <1>2, <1>3, <1>6
      <4> QED BY <4>1, <1>2, SeqEqual
    <3> QED BY <3>1
  <2>2. p = Append(c, n) => IsPrefix(p, Append(c, n))
    BY <1>2, PrefixOrder
  <2>3. ~IsPrefix(p, c)
    BY <1>4, <1>6
  <2> QED BY <2>1, <2>2, <2>3
<1> QED BY <1>5, <1>6

-----------------------------------------------------------------------------
(* Prefixes of directories.                                                *)

\* A prefix in a layer is that of the layer and a number.
LEMMA PrefixFacts ==
  ASSUME NEW c \in Layers, NEW p \in PrefixesOf(c)
  PROVE  /\ p \in Layers /\ p \in Seq(Nat) /\ p # <<>> /\ p # None
         /\ Front(p) = c /\ Last(p) \in Numbers /\ p = Append(c, Last(p))
         /\ Len(p) = Len(c) + 1
<1>1. PICK n \in Numbers : p = Append(c, n)
  BY DEF PrefixesOf
<1>2. c \in Seq(Numbers)
  BY DEF Layers
<1>3. /\ Append(c, n) \in Seq(Numbers) /\ Append(c, n) # <<>> /\ Last(Append(c, n)) = n
      /\ Len(Append(c, n)) = Len(c) + 1
  BY <1>2, AppendFacts
<1>4. Front(Append(c, n)) = c
  BY <1>2, FrontOfAppend
<1>5. p \in Layers /\ Last(p) = n /\ p # <<>> /\ Front(p) = c /\ Len(p) = Len(c) + 1
  BY <1>1, <1>3, <1>4 DEF Layers
<1>6. p \in Seq(Nat) /\ p # None
  BY <1>5, Constants
<1> QED BY <1>1, <1>5, <1>6

\* A layer other than the root is a prefix in another, shorter one.
LEMMA LayerFacts ==
  ASSUME NEW e \in Layers
  PROVE  /\ Len(e) \in Nat
         /\ e # Root => /\ Front(e) \in Layers /\ e \in PrefixesOf(Front(e))
                        /\ Len(Front(e)) < Len(e)
<1>1. Len(e) \in Nat
  BY LenProperties DEF Layers
<1>2. CASE e # <<>>
  <2>1. /\ Front(e) \in Seq(Numbers) /\ Last(e) \in Numbers
        /\ Len(Front(e)) = Len(e) - 1 /\ e = Append(Front(e), Last(e))
    BY <1>2, FrontFacts DEF Layers
  <2>2. Front(e) \in Layers /\ e \in PrefixesOf(Front(e))
    BY <2>1, Zenon DEF Layers, PrefixesOf
  <2> QED BY <1>1, <1>2, <2>1, <2>2 DEF Root
<1>3. CASE e = <<>>
  <2>1. e = Root
    BY <1>3, Zenon DEF Root
  <2> QED BY <1>1, <2>1, Zenon
<1> QED BY <1>2, <1>3

\* The root of a layer is no directory, and that of one layer only.
LEMMA RootPrefixFacts ==
  ASSUME NEW c \in Layers
  PROVE  /\ RootPrefix(c) \in Seq(Nat) /\ RootPrefix(c) # None
         /\ RootPrefix(c) \notin Layers
         /\ \A e \in Layers : RootPrefix(e) = RootPrefix(c) => e = c
         /\ \A e \in Layers : RootPrefix(c) \notin PrefixesOf(e)
<1>1. \A e \in Layers : e \in Seq(Nat)
  BY Constants
<1>2. MaxAlloc + 1 \in Nat /\ MaxAlloc + 1 \notin Numbers
  BY Constants
<1>3. /\ RootPrefix(c) \in Seq(Nat) /\ Last(RootPrefix(c)) = MaxAlloc + 1
      /\ RootPrefix(c) # <<>>
  <2>1. /\ Append(c, MaxAlloc + 1) \in Seq(Nat) /\ Last(Append(c, MaxAlloc + 1)) = MaxAlloc + 1
        /\ Append(c, MaxAlloc + 1) # <<>>
    BY <1>1, <1>2, AppendFacts
  <2> QED BY <2>1, Zenon DEF RootPrefix
<1>4. RootPrefix(c) \notin Layers
  <2> SUFFICES ASSUME RootPrefix(c) \in Layers PROVE FALSE
    OBVIOUS
  <2>1. Last(RootPrefix(c)) \in Numbers
    BY <1>3, FrontFacts DEF Layers
  <2> QED BY <2>1, <1>2, <1>3
<1>5. ASSUME NEW e \in Layers, RootPrefix(e) = RootPrefix(c)
      PROVE  e = c
  <2>1. Front(Append(e, MaxAlloc + 1)) = e /\ Front(Append(c, MaxAlloc + 1)) = c
    BY <1>1, <1>2, FrontOfAppend
  <2> QED BY <2>1, <1>5, Zenon DEF RootPrefix
<1>6. ASSUME NEW e \in Layers, RootPrefix(c) \in PrefixesOf(e)
      PROVE  FALSE
  BY <1>6, <1>4, PrefixFacts
<1>7. RootPrefix(c) # None
  BY <1>3, Constants
<1> QED BY <1>3, <1>4, <1>5, <1>6, <1>7

\* A prefix is of one layer.
LEMMA PrefixesDiffer ==
  ASSUME NEW c \in Layers, NEW e \in Layers, NEW p \in PrefixesOf(c), p \in PrefixesOf(e)
  PROVE  c = e
BY PrefixFacts

\* What a directory's prefix begins: other prefixes, and the keys of other layers.
LEMMA Beginnings ==
  ASSUME NEW c \in Layers, NEW p \in PrefixesOf(c), NEW e \in Layers
  PROVE  /\ IsPrefix(p, RootPrefix(e)) <=> IsPrefix(p, e)
         /\ ~IsPrefix(p, c)
         /\ IsPrefix(p, p)
         /\ e # Root => (IsPrefix(p, e) <=> IsPrefix(p, Front(e)) \/ p = e)
         /\ e \in PrefixesOf(c) /\ IsPrefix(p, e) => p = e
<1>1. p \in Seq(Nat) /\ e \in Seq(Nat) /\ c \in Seq(Nat) /\ MaxAlloc + 1 \in Nat
  BY Constants, PrefixFacts
<1>2. IsPrefix(p, RootPrefix(e)) <=> IsPrefix(p, e)
  <2>1. IsPrefix(p, Append(e, MaxAlloc + 1)) <=> IsPrefix(p, e) \/ p = Append(e, MaxAlloc + 1)
    BY <1>1, PrefixOfAppend
  <2>2. p # RootPrefix(e)
    BY RootPrefixFacts
  <2> QED BY <2>1, <2>2, Zenon DEF RootPrefix
<1>3. ~IsPrefix(p, c)
  <2>1. Len(p) = Len(c) + 1 /\ Len(c) \in Nat
    BY PrefixFacts, LayerFacts
  <2>2. IsPrefix(p, c) => Len(p) <= Len(c)
    BY <1>1, PrefixOrder
  <2> QED BY <2>1, <2>2
<1>4. IsPrefix(p, p)
  BY <1>1, PrefixOrder
<1>5. ASSUME e # Root
      PROVE  IsPrefix(p, e) <=> IsPrefix(p, Front(e)) \/ p = e
  <2>1. Front(e) \in Layers /\ e \in PrefixesOf(Front(e))
    BY <1>5, LayerFacts
  <2>2. e = Append(Front(e), Last(e)) /\ Last(e) \in Nat /\ Front(e) \in Seq(Nat)
    BY <2>1, PrefixFacts, Constants
  <2>3. IsPrefix(p, Append(Front(e), Last(e))) <=> IsPrefix(p, Front(e)) \/ p = Append(Front(e), Last(e))
    BY <1>1, <2>2, PrefixOfAppend
  <2> QED BY <2>2, <2>3, Zenon
<1>6. ASSUME e \in PrefixesOf(c), IsPrefix(p, e)
      PROVE  p = e
  <2>1. e # Root /\ Front(e) = c
    BY <1>6, PrefixFacts DEF Root
  <2> QED BY <2>1, <1>3, <1>5, <1>6
<1> QED BY <1>2, <1>3, <1>4, <1>5, <1>6

-----------------------------------------------------------------------------
(* Keys.                                                                   *)

\* What keys are made of.
LEMMA KeyFields ==
  /\ \A c, p, x : SubKey(c, p, x)[1] = "sub"
  /\ \A c, p, x : SubKey(c, p, x)[2] = c
  /\ \A c, p, x : SubKey(c, p, x)[3] = p
  /\ \A c, p, x : SubKey(c, p, x)[4] = x
  /\ \A c, p : LayerKey(c, p)[1] = "layer"
  /\ \A c, p : LayerKey(c, p)[2] = c
  /\ \A c, p : LayerKey(c, p)[3] = p
  /\ \A c : VersionKey(c)[1] = "version"
  /\ \A c : VersionKey(c)[2] = c
  /\ \A c, n : RecentKey(c, n)[1] = "recent"
  /\ \A c, n : RecentKey(c, n)[2] = c
  /\ \A c, n : RecentKey(c, n)[3] = n
  /\ \A p : ContentKey(p)[1] = "content"
  /\ \A p : ContentKey(p)[2] = p
BY DEF SubKey, LayerKey, VersionKey, RecentKey, ContentKey

\* What ranges are made of.
LEMMA RangeFields ==
  /\ \A c, p : SubsOf(c, p)[1] = "subs of"
  /\ \A c, p : SubsOf(c, p)[2] = c
  /\ \A c, p : SubsOf(c, p)[3] = p
  /\ \A c, p : NodeOf(c, p)[1] = "node"
  /\ \A c, p : NodeOf(c, p)[2] = c
  /\ \A c, p : NodeOf(c, p)[3] = p
  /\ \A p : AllAt(p)[1] = "all at"
  /\ \A p : AllAt(p)[2] = p
BY DEF SubsOf, NodeOf, AllAt

KeyKinds == {"sub", "layer", "version", "recent", "content"}

\* A key as a range holds itself.
LEMMA InKey ==
  ASSUME NEW k, NEW l, l[1] \in KeyKinds
  PROVE  InRange(k, l) <=> k = l
BY DEF InRange, KeyKinds

\* The range of a prefix holds the keys that begin with it.
LEMMA InAllAt ==
  ASSUME NEW k, NEW p, k[1] \in KeyKinds
  PROVE  InRange(k, AllAt(p)) <=> StartsWith(k, p)
<1>1. PICK r : r = AllAt(p)
  OBVIOUS
<1>2. r[1] = "all at" /\ r[2] = p
  BY <1>1 DEF AllAt
<1>3. InRange(k, r) <=> StartsWith(k, p)
  BY <1>2 DEF InRange, KeyKinds
<1> QED BY <1>1, <1>3, Zenon

\* The range of a directory's names holds its names.
LEMMA InSubsOf ==
  ASSUME NEW k, NEW c, NEW p, k[1] \in KeyKinds
  PROVE  InRange(k, SubsOf(c, p)) <=> k[1] = "sub" /\ k[2] = c /\ k[3] = p
<1>1. PICK r : r = SubsOf(c, p)
  OBVIOUS
<1>2. r[1] = "subs of" /\ r[2] = c /\ r[3] = p
  BY <1>1 DEF SubsOf
<1>3. InRange(k, r) <=> k[1] = "sub" /\ k[2] = c /\ k[3] = p
  BY <1>2 DEF InRange, KeyKinds
<1> QED BY <1>1, <1>3, Zenon

\* The range of a node holds its names and its layer.
LEMMA InNodeOf ==
  ASSUME NEW k, NEW c, NEW p, k[1] \in KeyKinds
  PROVE  InRange(k, NodeOf(c, p)) <=> k[1] \in {"sub", "layer"} /\ k[2] = c /\ k[3] = p
<1>1. PICK r : r = NodeOf(c, p)
  OBVIOUS
<1>2. r[1] = "node" /\ r[2] = c /\ r[3] = p
  BY <1>1 DEF NodeOf
<1>3. InRange(k, r) <=> k[1] \in {"sub", "layer"} /\ k[2] = c /\ k[3] = p
  BY <1>2 DEF InRange, KeyKinds
<1> QED BY <1>1, <1>3, Zenon

SubTyped(d, k) ==
  /\ k = SubKey(k[2], k[3], k[4])
  /\ k[3] \in PrefixesOf(k[2]) \cup {RootPrefix(k[2])}
  /\ d[k] \in PrefixesOf(k[2])
Typed(d) ==
  \A k \in DOMAIN d :
    /\ k[1] \in KeyKinds /\ k[2] \in Layers
    /\ k[1] = "sub" => SubTyped(d, k)
    /\ k[1] = "layer" => k = LayerKey(k[2], k[3]) /\ k[3] \in PrefixesOf(k[2])
    /\ k[1] = "version" => k = VersionKey(k[2])
    /\ k[1] = "recent" => k = RecentKey(k[2], k[3]) /\ k[3] \in Numbers
    /\ k[1] = "content" => k = ContentKey(k[2])

\* What is at the end of a name.
LEMMA SubValue ==
  ASSUME NEW d, Typed(d), NEW c, NEW p, NEW x
  PROVE  IF SubKey(c, p, x) \in DOMAIN d
           THEN /\ Get(d, SubKey(c, p, x)) = d[SubKey(c, p, x)]
                /\ d[SubKey(c, p, x)] \in PrefixesOf(c)
                /\ c \in Layers /\ p \in PrefixesOf(c) \cup {RootPrefix(c)}
                /\ SubKey(c, p, x) \in Subs(d)
                /\ Get(d, SubKey(c, p, x)) # None
           ELSE Get(d, SubKey(c, p, x)) = None
<1>1. PICK k : k = SubKey(c, p, x)
  OBVIOUS
<1>2. k[1] = "sub" /\ k[2] = c /\ k[3] = p
  BY <1>1, KeyFields
<1>3. CASE k \in DOMAIN d
  <2>1. /\ d[k] \in PrefixesOf(c) /\ c \in Layers /\ p \in PrefixesOf(c) \cup {RootPrefix(c)}
    BY <1>2, <1>3 DEF Typed, SubTyped
  <2>2. d[k] # None
    BY <2>1, PrefixFacts
  <2>3. k \in Subs(d) /\ Get(d, k) = d[k]
    BY <1>2, <1>3 DEF Subs, Get
  <2> QED BY <1>1, <1>3, <2>1, <2>2, <2>3, Zenon
<1>4. CASE k \notin DOMAIN d
  <2>1. Get(d, k) = None
    BY <1>4 DEF Get
  <2> QED BY <1>1, <1>4, <2>1, Zenon
<1> QED BY <1>3, <1>4

\* A partition has a node.
LEMMA PartitionNode ==
  ASSUME NEW d, NEW c, NEW p, IsPartition(d, c, p)
  PROVE  LayerKey(c, p) \in DOMAIN d
<1>1. PICK k : k = LayerKey(c, p)
  OBVIOUS
<1>2. Get(d, k) = Partition
  BY <1>1 DEF IsPartition
<1>3. k \in DOMAIN d
  BY <1>2, Constants DEF Get
<1> QED BY <1>1, <1>3

\* The root of a layer is no partition.
LEMMA RootIsNoPartition ==
  ASSUME NEW d, Typed(d), NEW c \in Layers
  PROVE  ~IsPartition(d, c, RootPrefix(c))
<1> SUFFICES ASSUME IsPartition(d, c, RootPrefix(c)) PROVE FALSE
  OBVIOUS
<1>1. PICK k : k = LayerKey(c, RootPrefix(c))
  OBVIOUS
<1>2. k \in DOMAIN d
  BY <1>1, PartitionNode
<1>3. k[1] = "layer" /\ k[2] = c /\ k[3] = RootPrefix(c)
  BY <1>1, KeyFields
<1>4. RootPrefix(c) \in PrefixesOf(c)
  BY <1>2, <1>3 DEF Typed
<1> QED BY <1>4, RootPrefixFacts

-----------------------------------------------------------------------------
(* Walking along a path.                                                   *)

Walked(d, c, path, n, w) ==
  w = [i \in 0 .. n |-> IF i = 0 THEN WalkStart(c) ELSE WalkStep(d, c, w[i - 1], i, path[i])]

\* The recursion of Walk has a solution, by induction on the length of the path.
LEMMA WalkExists ==
  ASSUME NEW d, NEW c, NEW path, NEW N \in Nat
  PROVE  \E w : Walked(d, c, path, N, w)
<1> DEFINE Bad == {n \in Nat : ~ \E w : Walked(d, c, path, n, w)}
<1> SUFFICES ASSUME Bad # {} PROVE FALSE
  OBVIOUS
<1>1. PICK n \in Bad : n \in Nat /\ \A m \in Bad : n <= m
  <2> HIDE DEF Bad
  <2>1. Bad \subseteq Nat
    BY DEF Bad
  <2> QED BY <2>1, Least
<1>2. CASE n = 0
  <2> DEFINE w == [i \in 0 .. 0 |-> WalkStart(c)]
  <2>1. Walked(d, c, path, 0, w)
    BY DEF Walked
  <2> QED BY <2>1, <1>2
<1>3. CASE n # 0
  <2>1. n - 1 \in Nat /\ ~(n <= n - 1)
    BY <1>1, <1>3
  <2>2. PICK w : Walked(d, c, path, n - 1, w)
    BY <2>1, <1>1
  <2> DEFINE v == [i \in 0 .. n |-> IF i = 0 THEN WalkStart(c) ELSE WalkStep(d, c, w[i - 1], i, path[i])]
  <2>3. \A i \in 0 .. n - 1 : v[i] = w[i]
    BY <2>2, <2>1 DEF Walked
  <2>4. \A i \in 0 .. n : v[i] = IF i = 0 THEN WalkStart(c) ELSE WalkStep(d, c, w[i - 1], i, path[i])
    OBVIOUS
  <2>5. v = [i \in 0 .. n |-> v[i]]
    OBVIOUS
  <2> HIDE DEF v
  <2>6. \A i \in 1 .. n : v[i - 1] = w[i - 1]
    BY <2>3, <2>1
  <2>7. \A i \in 0 .. n : v[i] = IF i = 0 THEN WalkStart(c) ELSE WalkStep(d, c, v[i - 1], i, path[i])
    BY <2>4, <2>6, <2>1
  <2>8. v = [i \in 0 .. n |-> IF i = 0 THEN WalkStart(c) ELSE WalkStep(d, c, v[i - 1], i, path[i])]
    BY <2>5, <2>7
  <2> QED BY <2>8, Zenon DEF Walked
<1> QED BY <1>2, <1>3

\* Walk is its first step and the next ones.
LEMMA WalkDef ==
  ASSUME NEW d, NEW c, NEW path, Len(path) \in Nat
  PROVE  /\ Walk(d, c, path)[0] = WalkStart(c)
         /\ \A i \in 1 .. Len(path) :
              Walk(d, c, path)[i] = WalkStep(d, c, Walk(d, c, path)[i - 1], i, path[i])
<1>1. PICK w : Walked(d, c, path, Len(path), w)
  BY WalkExists
<1>2. Walked(d, c, path, Len(path), Walk(d, c, path))
  BY <1>1, Zenon DEF Walk, Walked
<1>3. PICK v : v = Walk(d, c, path)
  OBVIOUS
<1>4. v = [i \in 0 .. Len(path) |-> IF i = 0 THEN WalkStart(c) ELSE WalkStep(d, c, v[i - 1], i, path[i])]
  BY <1>2, <1>3 DEF Walked
<1>5. v[0] = WalkStart(c) /\ \A i \in 1 .. Len(path) : v[i] = WalkStep(d, c, v[i - 1], i, path[i])
  BY <1>4
<1> QED BY <1>3, <1>5, Zenon

At(d, c, path, i) == Walk(d, c, path)[i].prefix

\* The j-th step is taken, and "reads" has what it reads.
Passed(d, c, path, j, reads) ==
  /\ At(d, c, path, j - 1) # None /\ ~IsPartition(d, c, At(d, c, path, j - 1))
  /\ At(d, c, path, j) = Get(d, SubKey(c, At(d, c, path, j - 1), path[j]))
  /\ SubKey(c, At(d, c, path, j - 1), path[j]) \in reads
  /\ LayerKey(c, At(d, c, path, j)) \in reads

\* How far the walk is after i steps: m of them are taken, and there it stops.
Reached(d, c, path, i, m) ==
  /\ m \in 0 .. i
  /\ \A j \in m .. i : Walk(d, c, path)[j] = Walk(d, c, path)[m]
  /\ Walk(d, c, path)[m].depth = m
  /\ \A j \in 1 .. m : Passed(d, c, path, j, Walk(d, c, path)[m].reads)
  /\ m < i => At(d, c, path, m) = None \/ IsPartition(d, c, At(d, c, path, m))

\* Where a walk has come to after a step.
LEMMA WalkReaches ==
  ASSUME NEW d, NEW c, NEW path, Len(path) \in Nat, NEW N \in 0 .. Len(path)
  PROVE  \E m \in Nat : Reached(d, c, path, N, m)
<1> DEFINE w == Walk(d, c, path)
           Bad == {n \in Nat : n <= Len(path) /\ ~ \E m \in Nat : Reached(d, c, path, n, m)}
<1>w. /\ w[0] = WalkStart(c)
      /\ \A i \in 1 .. Len(path) : w[i] = WalkStep(d, c, w[i - 1], i, path[i])
  BY WalkDef
<1> SUFFICES ASSUME Bad # {} PROVE FALSE
  OBVIOUS
<1>1. PICK n \in Bad : n \in Nat /\ \A m \in Bad : n <= m
  <2> HIDE DEF Bad
  <2>1. Bad \subseteq Nat
    BY DEF Bad
  <2> QED BY <2>1, Least
<1>n. n <= Len(path) /\ ~ \E m \in Nat : Reached(d, c, path, n, m)
  OBVIOUS
<1>2. CASE n = 0
  <2>1. Reached(d, c, path, 0, 0)
    BY <1>w DEF Reached, WalkStart
  <2> QED BY <2>1, <1>2, <1>n
<1>3. CASE n # 0
  <2>1. n - 1 \in Nat /\ ~(n <= n - 1) /\ n \in 1 .. Len(path) /\ n - 1 <= Len(path)
    BY <1>1, <1>3, <1>n
  <2>2. PICK m \in Nat : Reached(d, c, path, n - 1, m)
    BY <2>1, <1>1
  <2> HIDE DEF Bad, w
  <2>3. w[n] = WalkStep(d, c, w[n - 1], n, path[n])
    BY <1>w, <2>1
  <2>r. /\ m \in 0 .. n - 1 /\ w[m].depth = m
        /\ \A j \in m .. n - 1 : w[j] = w[m]
        /\ \A j \in 1 .. m : Passed(d, c, path, j, w[m].reads)
        /\ m < n - 1 => w[m].prefix = None \/ IsPartition(d, c, w[m].prefix)
    BY <2>2 DEF Reached, w, At
  <2>4. /\ m \in 0 .. n - 1 /\ w[n - 1] = w[m] /\ w[m].depth = m
        /\ \A j \in 1 .. m : Passed(d, c, path, j, w[m].reads)
        /\ m < n - 1 => w[m].prefix = None \/ IsPartition(d, c, w[m].prefix)
    BY <2>r, <2>1
  <2>5. CASE w[m].prefix = None \/ IsPartition(d, c, w[m].prefix)
    <3>1. w[n] = w[m]
      BY <2>3, <2>4, <2>5 DEF WalkStep
    <3>2. m \in 0 .. n
      BY <2>1, <2>4
    <3>4. \A j \in m .. n : w[j] = w[m]
      BY <2>r, <3>1, <2>1
    <3>3. Reached(d, c, path, n, m)
      BY <2>4, <2>5, <3>4, <3>2 DEF Reached, w, At
    <3> QED BY <3>3, <1>n
  <2>6. CASE ~(w[m].prefix = None \/ IsPartition(d, c, w[m].prefix))
    <3>1. m = n - 1
      BY <2>4, <2>6, <2>1
    <3> DEFINE key == SubKey(c, w[n - 1].prefix, path[n])
    <3>2. w[n] = [prefix |-> Get(d, key), depth |-> n,
                  reads |-> w[n - 1].reads \cup {key, LayerKey(c, Get(d, key))}]
      BY <2>3, <2>6, <3>1 DEF WalkStep
    <3> HIDE DEF key
    <3>3. /\ w[n].prefix = Get(d, key) /\ w[n].depth = n
          /\ w[n].reads = w[n - 1].reads \cup {key, LayerKey(c, Get(d, key))}
      BY <3>2
    <3>4. Passed(d, c, path, n, w[n].reads)
      BY <3>3, <3>1, <2>6 DEF Passed, At, w, key
    <3>5. ASSUME NEW j \in 1 .. n - 1
          PROVE  Passed(d, c, path, j, w[n].reads)
      <4>1. Passed(d, c, path, j, w[n - 1].reads)
        BY <2>4, <3>1
      <4>2. w[n - 1].reads \subseteq w[n].reads
        BY <3>3
      <4> QED BY <4>1, <4>2 DEF Passed
    <3>6. \A j \in 1 .. n : Passed(d, c, path, j, w[n].reads)
      <4> SUFFICES ASSUME NEW j \in 1 .. n PROVE Passed(d, c, path, j, w[n].reads)
        OBVIOUS
      <4>1. j = n \/ j \in 1 .. n - 1
        BY <2>1
      <4> QED BY <4>1, <3>4, <3>5
    <3>7. Reached(d, c, path, n, n)
      <4>1. n \in 0 .. n /\ ~(n < n) /\ \A j \in n .. n : w[j] = w[n]
        BY <2>1
      <4>2. w[n].depth = n /\ \A j \in 1 .. n : Passed(d, c, path, j, w[n].reads)
        BY <3>3, <3>6
      <4> QED BY <4>1, <4>2, Zenon DEF Reached, w
    <3> QED BY <3>7, <1>n, <1>1
  <2> QED BY <2>5, <2>6
<1> QED BY <1>2, <1>3

\* What Find returns: a node of the layer or None, and what it has read.
LEMMA FindFacts ==
  ASSUME NEW d, Typed(d), NEW c \in Layers, NEW path \in Seq(Names)
  PROVE  /\ Len(path) \in Nat
         /\ Find(d, c, path).depth \in 0 .. Len(path)
         /\ Find(d, c, path).prefix = At(d, c, path, Find(d, c, path).depth)
         /\ At(d, c, path, 0) = RootPrefix(c)
         /\ \A j \in 1 .. Find(d, c, path).depth : Passed(d, c, path, j, Find(d, c, path).reads)
         /\ \A j \in Find(d, c, path).depth .. Len(path) : At(d, c, path, j) = Find(d, c, path).prefix
         /\ Find(d, c, path).depth < Len(path) =>
              Find(d, c, path).prefix = None \/ IsPartition(d, c, Find(d, c, path).prefix)
         /\ \A j \in 1 .. Find(d, c, path).depth : At(d, c, path, j) \in PrefixesOf(c) \cup {None}
<1>1. Len(path) \in Nat
  BY LenProperties
<1>2. PICK m \in Nat : Reached(d, c, path, Len(path), m)
  <2>1. Len(path) \in 0 .. Len(path)
    BY <1>1
  <2> QED BY <1>1, <2>1, WalkReaches
<1> DEFINE w == Walk(d, c, path)
<1>3. /\ m \in 0 .. Len(path)
      /\ \A j \in m .. Len(path) : w[j] = w[m]
      /\ w[m].depth = m
      /\ \A j \in 1 .. m : Passed(d, c, path, j, w[m].reads)
      /\ m < Len(path) => w[m].prefix = None \/ IsPartition(d, c, w[m].prefix)
  BY <1>2 DEF Reached, At
<1>4. Find(d, c, path) = w[m]
  <2>1. w[Len(path)] = w[m]
    BY <1>1, <1>3
  <2> QED BY <2>1 DEF Find
<1>5. At(d, c, path, 0) = RootPrefix(c)
  <2>1. w[0] = WalkStart(c)
    BY <1>1, WalkDef
  <2> QED BY <2>1 DEF At, WalkStart
<1>6. ASSUME NEW j \in 1 .. m
      PROVE  At(d, c, path, j) \in PrefixesOf(c) \cup {None}
  <2>1. At(d, c, path, j) = Get(d, SubKey(c, At(d, c, path, j - 1), path[j]))
    BY <1>3 DEF Passed
  <2> QED BY <2>1, SubValue
<1>7. \A j \in m .. Len(path) : At(d, c, path, j) = w[m].prefix
  BY <1>3 DEF At
<1>8. w[m].prefix = At(d, c, path, m)
  BY DEF At
<1> HIDE DEF w
<1> QED BY <1>1, <1>3, <1>4, <1>5, <1>6, <1>7, <1>8

\* The last name of a path that leads somewhere, for those who change what is there.
LEMMA FindNames ==
  ASSUME NEW d, Typed(d), NEW c \in Layers, NEW path \in Seq(Names),
         NEW j \in 1 .. Find(d, c, path).depth
  PROVE  /\ At(d, c, path, j - 1) \in PrefixesOf(c) \cup {RootPrefix(c)}
         /\ j \in 1 .. Len(path) /\ j - 1 \in 0 .. Len(path)
         /\ path[j] \in Names
<1>1. /\ Len(path) \in Nat
      /\ Find(d, c, path).depth \in 0 .. Len(path)
      /\ At(d, c, path, 0) = RootPrefix(c)
      /\ \A i \in 1 .. Find(d, c, path).depth : At(d, c, path, i) \in PrefixesOf(c) \cup {None}
      /\ \A i \in 1 .. Find(d, c, path).depth : Passed(d, c, path, i, Find(d, c, path).reads)
  BY FindFacts
<1>2. j \in 1 .. Len(path) /\ j - 1 \in 0 .. Len(path)
  BY <1>1
<1>3. path[j] \in Names
  BY <1>2, ElementOfSeq
<1>4. At(d, c, path, j - 1) # None
  BY <1>1 DEF Passed
<1>5. j - 1 = 0 \/ j - 1 \in 1 .. Find(d, c, path).depth
  BY <1>1
<1>6. At(d, c, path, j - 1) \in PrefixesOf(c) \cup {RootPrefix(c)}
  BY <1>1, <1>4, <1>5
<1> QED BY <1>2, <1>3, <1>6

\* A shorter path is part of the same walk.
LEMMA ShorterWalk ==
  ASSUME NEW d, NEW c, NEW path \in Seq(Names), NEW n \in 0 .. Len(path)
  PROVE  \A i \in 0 .. n : Walk(d, c, SubSeq(path, 1, n))[i] = Walk(d, c, path)[i]
<1>1. Len(path) \in Nat /\ n \in Nat
  BY LenProperties
<1>2. PICK s : s = SubSeq(path, 1, n)
  OBVIOUS
<1>3. Len(s) = n /\ \A i \in 1 .. n : s[i] = path[i]
  <2>1. \A i \in 1 .. n : path[i] \in Names
    BY <1>1, ElementOfSeq
  <2>2. Len(s) = (IF 1 <= n THEN n - 1 + 1 ELSE 0) /\ \A i \in 1 .. n - 1 + 1 : s[i] = path[1 + i - 1]
    BY <2>1, <1>1, <1>2, SubSeqProperties
  <2>3. n - 1 + 1 = n /\ \A i \in 1 .. n : 1 + i - 1 = i
    BY <1>1
  <2>4. Len(s) = n
    BY <2>2, <2>3, <1>1
  <2>5. \A i \in 1 .. n : s[i] = path[1 + i - 1]
    BY <2>2, <2>3
  <2> QED BY <2>3, <2>4, <2>5
<1> DEFINE v == Walk(d, c, s)
           w == Walk(d, c, path)
           Bad == {i \in 0 .. n : v[i] # w[i]}
<1>4. v[0] = WalkStart(c) /\ \A i \in 1 .. n : v[i] = WalkStep(d, c, v[i - 1], i, path[i])
  <2>0. Len(s) \in Nat
    BY <1>1, <1>3
  <2>1. v[0] = WalkStart(c) /\ \A i \in 1 .. Len(s) : v[i] = WalkStep(d, c, v[i - 1], i, s[i])
    BY ONLY <2>0, WalkDef
  <2> HIDE DEF v
  <2> QED BY <2>1, <1>3
<1>5. w[0] = WalkStart(c) /\ \A i \in 1 .. n : w[i] = WalkStep(d, c, w[i - 1], i, path[i])
  <2>1. w[0] = WalkStart(c) /\ \A i \in 1 .. Len(path) : w[i] = WalkStep(d, c, w[i - 1], i, path[i])
    BY <1>1, WalkDef
  <2> HIDE DEF w
  <2> QED BY <2>1, <1>1
<1> HIDE DEF v, w
<1> SUFFICES ASSUME Bad # {} PROVE FALSE
  BY <1>2, Zenon DEF v, w
<1>6. PICK i \in Bad : i \in Nat /\ \A m \in Bad : i <= m
  <2>1. Bad \subseteq Nat
    BY <1>1
  <2> HIDE DEF Bad
  <2> QED BY <2>1, Least
<1>7. i # 0
  BY <1>4, <1>5
<1>8. i \in 1 .. n /\ i - 1 \in 0 .. n /\ ~(i <= i - 1)
  BY <1>6, <1>7, <1>1
<1>9. v[i - 1] = w[i - 1]
  BY <1>8, <1>6
<1>10. v[i] = w[i]
  BY <1>4, <1>5, <1>8, <1>9
<1> QED BY <1>10

\* The front of a path is a path.
LEMMA SubPath ==
  ASSUME NEW path \in Seq(Names), NEW n \in 0 .. Len(path)
  PROVE  SubSeq(path, 1, n) \in Seq(Names) /\ Len(SubSeq(path, 1, n)) = n
<1>1. Len(path) \in Nat /\ n \in Nat
  BY LenProperties
<1>2. PICK s : s = SubSeq(path, 1, n)
  OBVIOUS
<1>3. \A i \in 1 .. n : path[i] \in Names
  BY <1>1, ElementOfSeq
<1>4. s \in Seq(Names) /\ Len(s) = (IF 1 <= n THEN n - 1 + 1 ELSE 0)
  BY <1>1, <1>2, <1>3, SubSeqProperties
<1>5. Len(s) = n
  <2>1. (IF 1 <= n THEN n - 1 + 1 ELSE 0) = n
    BY <1>1
  <2> QED BY <2>1, <1>4
<1> QED BY <1>2, <1>4, <1>5, Zenon

\* The same for the path without its last name.
LEMMA FindShorter ==
  ASSUME NEW d, NEW c, NEW path \in Seq(Names), NEW n \in 0 .. Len(path)
  PROVE  Find(d, c, SubSeq(path, 1, n)).prefix = At(d, c, path, n)
<1>1. n \in 0 .. n
  BY LenProperties
<1>2. Walk(d, c, SubSeq(path, 1, n))[n] = Walk(d, c, path)[n]
  BY <1>1, ShorterWalk
<1>3. Len(SubSeq(path, 1, n)) = n
  BY SubPath
<1> QED BY <1>2, <1>3, Zenon DEF Find, At

-----------------------------------------------------------------------------
(* What is left of a path.                                                 *)

\* What is left of a path, and of another that begins the same way.
LEMMA FromFacts ==
  ASSUME NEW path \in Seq(Names), NEW n \in 0 .. Len(path)
  PROVE  /\ From(path, n) \in Seq(Names)
         /\ Len(From(path, n)) = Len(path) - n
         /\ \A i \in 1 .. Len(path) - n : From(path, n)[i] = path[n + i]
<1>1. Len(path) \in Nat /\ n \in Nat
  BY LenProperties
<1>2. PICK s : s = From(path, n)
  OBVIOUS
<1>3. s = SubSeq(path, n + 1, Len(path))
  BY <1>2, Zenon DEF From
<1>4. \A i \in n + 1 .. Len(path) : path[i] \in Names
  BY <1>1, ElementOfSeq
<1>5. /\ s \in Seq(Names)
      /\ Len(s) = (IF n + 1 <= Len(path) THEN Len(path) - (n + 1) + 1 ELSE 0)
      /\ \A i \in 1 .. Len(path) - (n + 1) + 1 : s[i] = path[n + 1 + i - 1]
  BY <1>1, <1>3, <1>4, SubSeqProperties
<1>6. Len(s) = Len(path) - n
  <2>1. n \in Int /\ Len(path) \in Int /\ n <= Len(path)
    BY <1>1
  <2>2. (IF n + 1 <= Len(path) THEN Len(path) - (n + 1) + 1 ELSE 0) = Len(path) - n
    BY ONLY <2>1, Counted
  <2> QED BY <2>2, <1>5
<1>7. \A i \in 1 .. Len(path) - n : s[i] = path[n + i]
  <2>0. n \in Int /\ Len(path) \in Int
    BY <1>1
  <2>1. Len(path) - (n + 1) + 1 = Len(path) - n
    BY ONLY <2>0
  <2>2. ASSUME NEW i \in 1 .. Len(path) - n
        PROVE  n + 1 + i - 1 = n + i
    <3>1. n \in Int /\ i \in Int
      BY <1>1
    <3> QED BY ONLY <3>1
  <2>3. \A i \in 1 .. Len(path) - n : s[i] = path[n + 1 + i - 1]
    BY <1>5, <2>1, Zenon
  <2> QED BY <2>2, <2>3
<1> QED BY <1>2, <1>5, <1>6, <1>7, Zenon

\* What is left of what is left of a path.
LEMMA FromFrom ==
  ASSUME NEW path \in Seq(Names), NEW n \in 0 .. Len(path), NEW m \in 0 .. Len(path) - n
  PROVE  n + m \in 0 .. Len(path) /\ From(From(path, n), m) = From(path, n + m)
<1>1. Len(path) \in Nat /\ n \in Nat /\ m \in Nat /\ n + m \in 0 .. Len(path)
  BY LenProperties
<1>2. PICK s : s = From(path, n)
  OBVIOUS
<1>3. /\ s \in Seq(Names) /\ Len(s) = Len(path) - n
      /\ \A i \in 1 .. Len(path) - n : s[i] = path[n + i]
  BY <1>2, FromFacts
<1>4. PICK t : t = From(s, m)
  OBVIOUS
<1>5. /\ t \in Seq(Names) /\ Len(t) = Len(path) - n - m
      /\ \A i \in 1 .. Len(path) - n - m : t[i] = s[m + i]
  <2>1. m \in 0 .. Len(s)
    BY <1>3
  <2>2. /\ t \in Seq(Names) /\ Len(t) = Len(s) - m
        /\ \A i \in 1 .. Len(s) - m : t[i] = s[m + i]
    BY <2>1, <1>3, <1>4, FromFacts
  <2> QED BY <2>2, <1>3
<1>6. PICK u : u = From(path, n + m)
  OBVIOUS
<1>7. /\ u \in Seq(Names) /\ Len(u) = Len(path) - (n + m)
      /\ \A i \in 1 .. Len(path) - (n + m) : u[i] = path[n + m + i]
  BY <1>1, <1>6, FromFacts
<1>8. Len(path) - (n + m) = Len(path) - n - m
  BY <1>1
<1>9. \A i \in 1 .. Len(path) - n - m : t[i] = u[i]
  <2> SUFFICES ASSUME NEW i \in 1 .. Len(path) - n - m PROVE t[i] = u[i]
    OBVIOUS
  <2>1. m + i \in 1 .. Len(path) - n /\ n + (m + i) = n + m + i
    BY <1>1
  <2>2. s[m + i] = path[n + (m + i)]
    BY <2>1, <1>3
  <2> QED BY <2>1, <2>2, <1>5, <1>7, <1>8
<1>10. t = u
  BY <1>5, <1>7, <1>8, <1>9, SeqEqual
<1> QED BY <1>1, <1>2, <1>4, <1>6, <1>10, Zenon

\* All of a path is left at its start.
LEMMA FromStart ==
  ASSUME NEW path \in Seq(Names)
  PROVE  0 \in 0 .. Len(path) /\ From(path, 0) = path
<1>1. Len(path) \in Nat /\ 0 \in 0 .. Len(path)
  BY LenProperties
<1>2. From(path, 0) = SubSeq(path, 1, Len(path))
  BY DEF From
<1> QED BY <1>1, <1>2, SubSeqFull

\* Two paths that begin the same way have the same places on the way.
LEMMA CommonStart ==
  ASSUME NEW path \in Seq(Names), NEW to \in Seq(Names),
         NEW n \in 0 .. Len(path), NEW m \in 0 .. Len(to),
         SubSeq(to, 1, m) = SubSeq(path, 1, n),
         IsPrefix(From(path, n), From(to, m))
  PROVE  IsPrefix(path, to)
<1>1. Len(path) \in Nat /\ Len(to) \in Nat /\ n \in Nat /\ m \in Nat
  BY LenProperties
<1>2. m = n
  BY SubPath
<1>3. \A i \in 1 .. n : path[i] = to[i]
  <2>1. \A i \in 1 .. n : path[i] \in Names
    BY <1>1, ElementOfSeq
  <2>2. \A i \in 1 .. n : to[i] \in Names
    BY <1>1, <1>2, ElementOfSeq
  <2>3. PICK s : s = SubSeq(path, 1, n)
    OBVIOUS
  <2>4. s = SubSeq(to, 1, n)
    BY <1>2, <2>3
  <2>5. \A i \in 1 .. n - 1 + 1 : s[i] = path[1 + i - 1]
    BY <1>1, <2>1, <2>3, SubSeqProperties
  <2>6. \A i \in 1 .. n - 1 + 1 : s[i] = to[1 + i - 1]
    BY <1>1, <2>2, <2>4, SubSeqProperties
  <2>7. n - 1 + 1 = n /\ \A i \in 1 .. n : 1 + i - 1 = i
    BY <1>1
  <2> QED BY <2>5, <2>6, <2>7
<1> DEFINE p == From(path, n)
           t == From(to, n)
<1>4. /\ p \in Seq(Names) /\ Len(p) = Len(path) - n
      /\ \A i \in 1 .. Len(path) - n : p[i] = path[n + i]
  BY FromFacts
<1>5. /\ t \in Seq(Names) /\ Len(t) = Len(to) - n
      /\ \A i \in 1 .. Len(to) - n : t[i] = to[n + i]
  BY <1>2, FromFacts
<1>6. IsPrefix(p, t)
  BY <1>2
<1> HIDE DEF p, t
<1>7. Len(p) <= Len(t) /\ \A i \in 1 .. Len(p) : p[i] = t[i]
  BY <1>4, <1>5, <1>6, PrefixByPosition
<1>8. Len(path) <= Len(to)
  BY <1>4, <1>5, <1>7, <1>1, <1>2
<1>9. ASSUME NEW i \in 1 .. Len(path)
      PROVE  path[i] = to[i]
  <2>1. CASE i <= n
    BY <2>1, <1>3
  <2>2. CASE ~(i <= n)
    <3>1. i - n \in 1 .. Len(path) - n /\ i - n \in 1 .. Len(to) - n /\ n + (i - n) = i
      BY <2>2, <1>1, <1>8
    <3>2. p[i - n] = path[n + (i - n)] /\ t[i - n] = to[n + (i - n)] /\ p[i - n] = t[i - n]
      BY <3>1, <1>4, <1>5, <1>7
    <3> QED BY <3>1, <3>2
  <2> QED BY <2>1, <2>2
<1> QED BY <1>8, <1>9, PrefixByPosition

-----------------------------------------------------------------------------
(* Entering partitions.                                                    *)

Entered(d, c, path, to, n, w) ==
  w = [i \in 0 .. n |-> IF i = 0 THEN EnterStart(c, path, to) ELSE EnterStep(d, w[i - 1])]

\* The recursion of Entering has a solution.
LEMMA EnteringExists ==
  ASSUME NEW d, NEW c, NEW path, NEW to, NEW N \in Nat
  PROVE  \E w : Entered(d, c, path, to, N, w)
<1> DEFINE Bad == {n \in Nat : ~ \E w : Entered(d, c, path, to, n, w)}
<1> SUFFICES ASSUME Bad # {} PROVE FALSE
  OBVIOUS
<1>1. PICK n \in Bad : n \in Nat /\ \A m \in Bad : n <= m
  <2> HIDE DEF Bad
  <2>1. Bad \subseteq Nat
    BY DEF Bad
  <2> QED BY <2>1, Least
<1>2. CASE n = 0
  <2> DEFINE w == [i \in 0 .. 0 |-> EnterStart(c, path, to)]
  <2>1. Entered(d, c, path, to, 0, w)
    BY DEF Entered
  <2> QED BY <2>1, <1>2
<1>3. CASE n # 0
  <2>1. n - 1 \in Nat /\ ~(n <= n - 1)
    BY <1>1, <1>3
  <2>2. PICK w : Entered(d, c, path, to, n - 1, w)
    BY <2>1, <1>1
  <2> DEFINE v == [i \in 0 .. n |-> IF i = 0 THEN EnterStart(c, path, to) ELSE EnterStep(d, w[i - 1])]
  <2>3. \A i \in 0 .. n - 1 : v[i] = w[i]
    BY <2>2, <2>1 DEF Entered
  <2>4. \A i \in 0 .. n : v[i] = IF i = 0 THEN EnterStart(c, path, to) ELSE EnterStep(d, w[i - 1])
    OBVIOUS
  <2>5. v = [i \in 0 .. n |-> v[i]]
    OBVIOUS
  <2> HIDE DEF v
  <2>6. \A i \in 1 .. n : v[i - 1] = w[i - 1]
    BY <2>3, <2>1
  <2>7. \A i \in 0 .. n : v[i] = IF i = 0 THEN EnterStart(c, path, to) ELSE EnterStep(d, v[i - 1])
    <3> SUFFICES ASSUME NEW i \in 0 .. n
                 PROVE  v[i] = IF i = 0 THEN EnterStart(c, path, to) ELSE EnterStep(d, v[i - 1])
      OBVIOUS
    <3>1. CASE i = 0
      BY <2>4, <3>1
    <3>2. CASE i # 0
      <4>1. i \in 1 .. n
        BY <3>2
      <4>2. v[i - 1] = w[i - 1]
        BY <2>6, <4>1
      <4> QED BY <2>4, <3>2, <4>2
    <3> QED BY <3>1, <3>2
  <2>8. v = [i \in 0 .. n |-> IF i = 0 THEN EnterStart(c, path, to) ELSE EnterStep(d, v[i - 1])]
    BY <2>5, <2>7
  <2> QED BY <2>8, Zenon DEF Entered
<1> QED BY <1>2, <1>3

\* Entering is its first step and the next ones.
LEMMA EnteringDef ==
  ASSUME NEW d, NEW c, NEW path, NEW to, Len(path) \in Nat
  PROVE  /\ Entering(d, c, path, to)[0] = EnterStart(c, path, to)
         /\ \A i \in 1 .. Len(path) :
              Entering(d, c, path, to)[i] = EnterStep(d, Entering(d, c, path, to)[i - 1])
<1>1. PICK w : Entered(d, c, path, to, Len(path), w)
  BY EnteringExists
<1>2. Entered(d, c, path, to, Len(path), Entering(d, c, path, to))
  BY <1>1, Zenon DEF Entering, Entered
<1>3. PICK v : v = Entering(d, c, path, to)
  OBVIOUS
<1>4. v = [i \in 0 .. Len(path) |-> IF i = 0 THEN EnterStart(c, path, to) ELSE EnterStep(d, v[i - 1])]
  BY <1>2, <1>3 DEF Entered
<1>5. v[0] = EnterStart(c, path, to) /\ \A i \in 1 .. Len(path) : v[i] = EnterStep(d, v[i - 1])
  BY <1>4
<1> QED BY <1>3, <1>5, Zenon

\* A layer that is worked in: its version and, unless it is the one the operation
\* started in, the record of its partition are read.
Known(d, l, reads, start) ==
  /\ l \in Layers /\ VersionKey(l) \in reads
  /\ l # start => l # Root /\ IsPartition(d, Front(l), l) /\ LayerKey(Front(l), l) \in reads

Entry(d, c, path, to, h) ==
  /\ h.c \in Layers /\ h.c \in h.layers /\ c \in h.layers /\ IsFiniteSet(h.layers)
  /\ h.path \in Seq(Names)
  /\ \E n \in 0 .. Len(path) : h.path = From(path, n)
  /\ IF to = None THEN h.to = None
     ELSE h.to \in Seq(Names) /\ (IsPrefix(h.path, h.to) => IsPrefix(path, to))
  /\ \A l \in h.layers : Known(d, l, h.reads, c) /\ IsPrefix(l, h.c)

\* The partition that the path leads into is entered, by both paths.
EntersBoth(d, h) ==
  /\ InPartition(d, h.c, Find(d, h.c, h.path), h.path)
  /\ \/ h.to = None
     \/ /\ InPartition(d, h.c, Find(d, h.c, h.to), h.to)
        /\ SubSeq(h.to, 1, Find(d, h.c, h.to).depth) = SubSeq(h.path, 1, Find(d, h.c, h.path).depth)

\* A step into a partition.
LEMMA StepIn ==
  ASSUME NEW d, Typed(d), NEW c \in Layers, NEW path \in Seq(Names), NEW to \in Seq(Names) \cup {None},
         NEW h, Entry(d, c, path, to, h), EntersBoth(d, h)
  PROVE  Entry(d, c, path, to, EnterStep(d, h)) /\ Len(EnterStep(d, h).path) < Len(h.path)
<1> DEFINE node == Find(d, h.c, h.path)
           other == Find(d, h.c, h.to)
           g == EnterStep(d, h)
<1>1. g = [c |-> node.prefix, path |-> From(h.path, node.depth),
           to |-> IF h.to = None THEN None ELSE From(h.to, other.depth),
           layers |-> h.layers \cup {node.prefix},
           reads |-> h.reads \cup node.reads \cup {VersionKey(node.prefix)}
                     \cup (IF h.to = None THEN {} ELSE other.reads)]
  BY DEF EnterStep, EntersBoth
<1>2. /\ g.c = node.prefix /\ g.path = From(h.path, node.depth)
      /\ g.to = IF h.to = None THEN None ELSE From(h.to, other.depth)
      /\ g.layers = h.layers \cup {node.prefix}
      /\ h.reads \subseteq g.reads /\ node.reads \subseteq g.reads /\ VersionKey(node.prefix) \in g.reads
  <2> HIDE DEF node, other, g
  <2> QED BY <1>1
<1>3. h.c \in Layers /\ h.path \in Seq(Names)
  BY DEF Entry
<1>4. /\ IsPartition(d, h.c, node.prefix) /\ node.prefix # None /\ node.depth < Len(h.path)
  BY DEF EntersBoth, InPartition
<1>5. /\ Len(h.path) \in Nat /\ node.depth \in 0 .. Len(h.path)
      /\ node.prefix = At(d, h.c, h.path, node.depth)
      /\ At(d, h.c, h.path, 0) = RootPrefix(h.c)
      /\ \A j \in 1 .. node.depth : Passed(d, h.c, h.path, j, node.reads)
      /\ \A j \in 1 .. node.depth : At(d, h.c, h.path, j) \in PrefixesOf(h.c) \cup {None}
  BY <1>3, FindFacts
<1>6. node.depth # 0
  BY <1>3, <1>4, <1>5, RootIsNoPartition
<1> HIDE DEF node, other, g
<1>7. node.depth \in 1 .. node.depth
  BY <1>5, <1>6
<1>8. node.prefix \in PrefixesOf(h.c) /\ LayerKey(h.c, node.prefix) \in node.reads
  <2>1. Passed(d, h.c, h.path, node.depth, node.reads)
    BY <1>5, <1>7
  <2>2. LayerKey(h.c, At(d, h.c, h.path, node.depth)) \in node.reads
    BY <2>1 DEF Passed
  <2> QED BY <1>4, <1>5, <1>7, <2>2
<1>9. /\ node.prefix \in Layers /\ node.prefix \in Seq(Nat) /\ node.prefix # Root
      /\ Front(node.prefix) = h.c /\ node.prefix = Append(h.c, Last(node.prefix))
      /\ Last(node.prefix) \in Nat
  <2>1. \A n \in Numbers : n \in Nat
    BY Constants
  <2> QED BY <1>3, <1>8, <2>1, PrefixFacts DEF Root
<1>10. /\ g.path \in Seq(Names) /\ Len(g.path) = Len(h.path) - node.depth
  BY <1>2, <1>3, <1>5, FromFacts
<1>11. Len(g.path) < Len(h.path)
  BY <1>10, <1>5, <1>6
<1>12. ASSUME NEW l \in g.layers
       PROVE  Known(d, l, g.reads, c) /\ IsPrefix(l, g.c)
  <2>1. CASE l = node.prefix
    <3>1. Known(d, l, g.reads, c)
      BY <2>1, <1>2, <1>4, <1>8, <1>9 DEF Known
    <3>2. IsPrefix(l, g.c)
      BY <2>1, <1>2, <1>9, PrefixOrder
    <3> QED BY <3>1, <3>2
  <2>2. CASE l \in h.layers
    <3>1. Known(d, l, h.reads, c) /\ IsPrefix(l, h.c)
      BY <2>2 DEF Entry
    <3>2. Known(d, l, g.reads, c)
      BY <3>1, <1>2 DEF Known
    <3>3. l \in Seq(Nat) /\ h.c \in Seq(Nat)
      BY <3>1, <1>3, Constants DEF Known
    <3>4. IsPrefix(l, Append(h.c, Last(node.prefix)))
      BY <3>1, <3>3, <1>9, PrefixOfAppend
    <3>5. IsPrefix(l, g.c)
      BY <3>4, <1>9, <1>2
    <3> QED BY <3>2, <3>5
  <2> QED BY <2>1, <2>2, <1>2
<1>13. IF to = None THEN g.to = None
       ELSE g.to \in Seq(Names) /\ (IsPrefix(g.path, g.to) => IsPrefix(path, to))
  <2>1. CASE to = None
    <3>1. h.to = None
      BY <2>1 DEF Entry
    <3> QED BY <3>1, <2>1, <1>2
  <2>2. CASE to # None
    <3>1. h.to \in Seq(Names) /\ (IsPrefix(h.path, h.to) => IsPrefix(path, to))
      BY <2>2 DEF Entry
    <3>2. h.to # None
      BY <3>1, Constants
    <3>3. g.to = From(h.to, other.depth)
      BY <3>2, <1>2
    <3>4. other.depth \in 0 .. Len(h.to)
      BY <3>1, <1>3, FindFacts DEF other
    <3>5. SubSeq(h.to, 1, other.depth) = SubSeq(h.path, 1, node.depth)
      BY <3>2 DEF EntersBoth, node, other
    <3>6. g.to \in Seq(Names)
      BY <3>1, <3>3, <3>4, FromFacts
    <3>7. ASSUME IsPrefix(g.path, g.to)
          PROVE  IsPrefix(path, to)
      <4>1. IsPrefix(From(h.path, node.depth), From(h.to, other.depth))
        BY <3>7, <3>3, <1>2
      <4>2. IsPrefix(h.path, h.to)
        BY <4>1, <3>1, <3>4, <3>5, <1>3, <1>5, CommonStart
      <4> QED BY <4>2, <3>1
    <3> QED BY <3>6, <3>7, <2>2
  <2> QED BY <2>1, <2>2
<1>14. g.c \in Layers /\ g.c \in g.layers /\ c \in g.layers /\ IsFiniteSet(g.layers)
  <2>1. c \in h.layers /\ IsFiniteSet(h.layers)
    BY DEF Entry
  <2>2. IsFiniteSet(h.layers \cup {node.prefix})
    BY <2>1, FS_AddElement
  <2> QED BY <2>1, <2>2, <1>2, <1>9
<1>16. \E n \in 0 .. Len(path) : g.path = From(path, n)
  <2>1. PICK n \in 0 .. Len(path) : h.path = From(path, n)
    BY DEF Entry
  <2>2. Len(h.path) = Len(path) - n
    BY <2>1, FromFacts
  <2>3. node.depth \in 0 .. Len(path) - n
    BY <2>2, <1>5
  <2>4. From(From(path, n), node.depth) = From(path, n + node.depth) /\ n + node.depth \in 0 .. Len(path)
    BY <2>3, FromFrom
  <2> QED BY <2>1, <2>4, <1>2
<1>15. Entry(d, c, path, to, g)
  BY <1>16, <1>10, <1>12, <1>13, <1>14, Zenon DEF Entry
<1> QED BY <1>11, <1>15, Zenon DEF g

\* A path that leads into no partition goes no further.
LEMMA StepOut ==
  ASSUME NEW d, NEW h, ~EntersBoth(d, h)
  PROVE  EnterStep(d, h) = h
BY DEF EnterStep, EntersBoth

\* All partitions are entered that both paths lead into.
LEMMA EnterFacts ==
  ASSUME NEW d, Typed(d), NEW c \in Layers, NEW path \in Seq(Names), NEW to \in Seq(Names) \cup {None}
  PROVE  Entry(d, c, path, to, Enter(d, c, path, to)) /\ ~EntersBoth(d, Enter(d, c, path, to))
<1> DEFINE w == Entering(d, c, path, to)
           Held(i) == /\ Entry(d, c, path, to, w[i])
                      /\ Len(w[i].path) + i <= Len(path) \/ ~EntersBoth(d, w[i])
           Bad == {i \in Nat : i <= Len(path) /\ ~Held(i)}
<1>1. Len(path) \in Nat
  BY LenProperties
<1>2. /\ w[0] = EnterStart(c, path, to)
      /\ \A i \in 1 .. Len(path) : w[i] = EnterStep(d, w[i - 1])
  BY <1>1, EnteringDef
<1> HIDE DEF w
<1>3. Held(0)
  <2>1. /\ w[0].c = c /\ w[0].path = path /\ w[0].to = to /\ w[0].layers = {c}
        /\ VersionKey(c) \in w[0].reads
    BY <1>2 DEF EnterStart
  <2>2. Known(d, c, w[0].reads, c)
    BY <2>1 DEF Known
  <2>3. IsPrefix(c, c)
    <3>1. c \in Seq(Nat)
      BY Constants
    <3> QED BY <3>1, PrefixOrder
  <2>5. IsFiniteSet(w[0].layers)
    BY <2>1, FS_Singleton
  <2>4. Entry(d, c, path, to, w[0])
    BY <2>1, <2>2, <2>3, <2>5, FromStart DEF Entry
  <2> QED BY <2>1, <2>4, <1>1
<1>4. Bad = {}
  <2> SUFFICES ASSUME Bad # {} PROVE FALSE
    OBVIOUS
  <2>1. PICK n \in Bad : n \in Nat /\ \A m \in Bad : n <= m
    <3> HIDE DEF Bad
    <3>1. Bad \subseteq Nat
      BY DEF Bad
    <3> QED BY <3>1, Least
  <2>2. n # 0
    BY <1>3
  <2>3. n - 1 \in Nat /\ ~(n <= n - 1) /\ n \in 1 .. Len(path) /\ n - 1 <= Len(path)
    BY <2>1, <2>2, <1>1
  <2>4. Held(n - 1)
    BY <2>1, <2>3
  <2>5. w[n] = EnterStep(d, w[n - 1])
    BY <1>2, <2>3
  <2>6. ~Held(n)
    OBVIOUS
  <2>7. CASE EntersBoth(d, w[n - 1])
    <3>1. Entry(d, c, path, to, w[n]) /\ Len(w[n].path) < Len(w[n - 1].path)
      BY <2>4, <2>5, <2>7, StepIn
    <3>2. Len(w[n - 1].path) \in Nat /\ Len(w[n].path) \in Nat
      BY <2>4, <3>1, LenProperties DEF Entry
    <3>3. Len(w[n].path) + n <= Len(path)
      BY <3>1, <3>2, <2>4, <2>7, <2>3, <2>1
    <3> QED BY <3>1, <3>3, <2>6
  <2>8. CASE ~EntersBoth(d, w[n - 1])
    <3>1. w[n] = w[n - 1]
      BY <2>5, <2>8, StepOut
    <3> QED BY <3>1, <2>4, <2>6, <2>8
  <2> QED BY <2>7, <2>8
<1>5. Held(Len(path))
  BY <1>1, <1>4
<1>6. Enter(d, c, path, to) = w[Len(path)]
  BY DEF Enter, w
<1>7. ~EntersBoth(d, w[Len(path)])
  <2> SUFFICES ASSUME EntersBoth(d, w[Len(path)]) PROVE FALSE
    OBVIOUS
  <2> DEFINE h == w[Len(path)]
  <2>1. Len(h.path) + Len(path) <= Len(path) /\ h.path \in Seq(Names) /\ h.c \in Layers
    BY <1>5 DEF Entry
  <2>2. Find(d, h.c, h.path).depth \in 0 .. Len(h.path) /\ Len(h.path) \in Nat
    BY <2>1, FindFacts
  <2>3. Find(d, h.c, h.path).depth < Len(h.path)
    BY DEF EntersBoth, InPartition
  <2> QED BY <2>1, <2>2, <2>3, <1>1
<1> QED BY <1>5, <1>6, <1>7

-----------------------------------------------------------------------------
(* The state the databases are in.                                         *)

NodeKeys(d) == {k \in DOMAIN d : k[1] = "layer"}
Ordinary(d, c, p) == LayerKey(c, p) \in DOMAIN d /\ ~IsPartition(d, c, p)
Live(d, c) == c = Root \/ IsPartition(d, Front(c), c)

ChildrenExist(d) == \A k \in Subs(d) : LayerKey(k[2], d[k]) \in DOMAIN d
ParentsExist(d) == \A k \in Subs(d) : k[3] = RootPrefix(k[2]) \/ Ordinary(d, k[2], k[3])
OneParent(d) == \A k, l \in Subs(d) : d[k] = d[l] => k = l
HasParent(d) == \A k \in NodeKeys(d) : \E l \in Subs(d) : d[l] = k[3]
Recorded(d) == \A k \in NodeKeys(d) : RecentKey(k[2], Last(k[3])) \in DOMAIN d
LayersLive(d) == \A k \in DOMAIN d : k[1] = "content" \/ Live(d, k[2])
ContentsOwned(d) == \A k \in DOMAIN d : k[1] = "content" => k[2] # Root /\ Ordinary(d, Front(k[2]), k[2])
NoCycles(d) ==
  \A S \in SUBSET {d[k] : k \in Subs(d)} :
    S = {} \/ \E q \in S : \A k \in Subs(d) : d[k] = q => k[3] \notin S

NodesOK(d) ==
  /\ Typed(d) /\ IsFiniteSet(DOMAIN d) /\ ChildrenExist(d) /\ ParentsExist(d) /\ OneParent(d)
  /\ HasParent(d) /\ Recorded(d) /\ LayersLive(d) /\ ContentsOwned(d) /\ NoCycles(d)

Same(d, e, k) == (k \in DOMAIN d <=> k \in DOMAIN e) /\ (k \in DOMAIN d => d[k] = e[k])

\* What is the same in two databases is read the same.
LEMMA SameGet ==
  ASSUME NEW d, NEW e, NEW k, Same(d, e, k)
  PROVE  Get(d, k) = Get(e, k)
BY DEF Same, Get

\* A node that is the same is a partition in both or in neither.
LEMMA SamePartition ==
  ASSUME NEW d, NEW e, NEW c, NEW p, Same(d, e, LayerKey(c, p))
  PROVE  IsPartition(d, c, p) <=> IsPartition(e, c, p)
BY SameGet DEF IsPartition

\* A set of nodes each of which has its parent in the set.
Cyclic(d, S) == \A q \in S : \E k \in Subs(d) : d[k] = q /\ k[3] \in S

\* No set of nodes has all their parents in it,
LEMMA CyclicIsEmpty ==
  ASSUME NEW d, NoCycles(d), NEW S, Cyclic(d, S)
  PROVE  S = {}
<1>1. S \in SUBSET {d[k] : k \in Subs(d)}
  BY DEF Cyclic
<1>2. S = {} \/ \E q \in S : \A k \in Subs(d) : d[k] = q => k[3] \notin S
  BY <1>1 DEF NoCycles
<1> QED BY <1>2 DEF Cyclic

\* and a database without such a set has no cycles.
LEMMA EmptyIsAcyclic ==
  ASSUME NEW d, \A S : Cyclic(d, S) => S = {}
  PROVE  NoCycles(d)
BY DEF NoCycles, Cyclic

-----------------------------------------------------------------------------
(* What may be written.                                                    *)

\* The versions of layers there are.
VersionsAdded(d, e) ==
  /\ DOMAIN d \subseteq DOMAIN e /\ IsFiniteSet(DOMAIN e)
  /\ \A k \in DOMAIN e \ DOMAIN d : k[1] = "version" /\ k[2] \in Layers /\ k = VersionKey(k[2]) /\ Live(d, k[2])
  /\ \A k \in DOMAIN d : e[k] = d[k]

\* Versions of layers that are there may be added.
LEMMA VersionsKeep ==
  ASSUME NEW d, NodesOK(d), NEW e, VersionsAdded(d, e)
  PROVE  NodesOK(e)
<1>1. /\ DOMAIN d \subseteq DOMAIN e
      /\ \A k \in DOMAIN e : k[1] # "version" => k \in DOMAIN d
      /\ \A k \in DOMAIN d : e[k] = d[k]
  BY DEF VersionsAdded
<1>2. Subs(e) = Subs(d) /\ NodeKeys(e) = NodeKeys(d)
  BY <1>1 DEF Subs, NodeKeys
<1>3. ASSUME NEW c, NEW p
      PROVE  Same(d, e, LayerKey(c, p))
  BY <1>1, KeyFields DEF Same
<1>4. \A c, p : IsPartition(d, c, p) <=> IsPartition(e, c, p)
  BY <1>3, SamePartition
<1>5. \A c, p : Ordinary(d, c, p) <=> Ordinary(e, c, p)
  BY <1>3, <1>4 DEF Ordinary, Same
<1>6. \A c : Live(d, c) <=> Live(e, c)
  BY <1>4 DEF Live
<1>7. \A k \in Subs(d) : e[k] = d[k]
  BY <1>1 DEF Subs
<1>8. Typed(e)
  <2> SUFFICES ASSUME NEW k \in DOMAIN e
               PROVE  /\ k[1] \in KeyKinds /\ k[2] \in Layers
                      /\ k[1] = "sub" => SubTyped(e, k)
                      /\ k[1] = "layer" => k = LayerKey(k[2], k[3]) /\ k[3] \in PrefixesOf(k[2])
                      /\ k[1] = "version" => k = VersionKey(k[2])
                      /\ k[1] = "recent" => k = RecentKey(k[2], k[3]) /\ k[3] \in Numbers
                      /\ k[1] = "content" => k = ContentKey(k[2])
    BY DEF Typed
  <2>1. CASE k \in DOMAIN d
    BY <2>1, <1>1 DEF NodesOK, Typed, SubTyped
  <2>2. CASE k \notin DOMAIN d
    BY <2>2 DEF VersionsAdded, KeyKinds
  <2> QED BY <2>1, <2>2
<1>9. ChildrenExist(e) /\ ParentsExist(e) /\ OneParent(e) /\ HasParent(e)
  <2>1. ChildrenExist(e)
    BY <1>1, <1>2, <1>7 DEF NodesOK, ChildrenExist
  <2>2. ParentsExist(e)
    BY <1>2, <1>5 DEF NodesOK, ParentsExist
  <2>3. OneParent(e)
    BY <1>2, <1>7 DEF NodesOK, OneParent
  <2>4. HasParent(e)
    BY <1>2, <1>7 DEF NodesOK, HasParent
  <2> QED BY <2>1, <2>2, <2>3, <2>4
<1>10. Recorded(e)
  BY <1>1, <1>2 DEF NodesOK, Recorded
<1>11. LayersLive(e)
  BY <1>1, <1>6 DEF NodesOK, LayersLive, VersionsAdded
<1>12. ContentsOwned(e)
  BY <1>1, <1>5 DEF NodesOK, ContentsOwned
<1>13. NoCycles(e)
  <2> SUFFICES ASSUME NEW S, Cyclic(e, S) PROVE S = {}
    BY EmptyIsAcyclic
  <2>1. Cyclic(d, S)
    BY <1>2, <1>7 DEF Cyclic
  <2> QED BY <2>1, CyclicIsEmpty DEF NodesOK
<1>14. IsFiniteSet(DOMAIN e)
  BY DEF VersionsAdded
<1> QED BY <1>8, <1>9, <1>10, <1>11, <1>12, <1>13, <1>14 DEF NodesOK

\* Something in an ordinary directory.
ContentAdded(d, e, c, p) ==
  /\ c \in Layers /\ p \in PrefixesOf(c) /\ Ordinary(d, c, p)
  /\ DOMAIN e = DOMAIN d \cup {ContentKey(p)}
  /\ \A k \in DOMAIN d : k[1] # "content" => e[k] = d[k]

\* Content of an ordinary directory may be added.
LEMMA ContentKeeps ==
  ASSUME NEW d, NodesOK(d), NEW e, NEW c, NEW p, ContentAdded(d, e, c, p)
  PROVE  NodesOK(e)
<1>0. PICK new : new = ContentKey(p)
  OBVIOUS
<1>n. new[1] = "content" /\ new[2] = p
  BY <1>0, KeyFields
<1>1. /\ DOMAIN e = DOMAIN d \cup {new}
      /\ \A k \in DOMAIN e : k[1] # "content" => k \in DOMAIN d
      /\ \A k \in DOMAIN d : k[1] # "content" => e[k] = d[k]
  BY <1>0, <1>n DEF ContentAdded
<1>2. Subs(e) = Subs(d) /\ NodeKeys(e) = NodeKeys(d)
  BY <1>1, <1>n DEF Subs, NodeKeys
<1>3. ASSUME NEW x, NEW q
      PROVE  Same(d, e, LayerKey(x, q))
  <2>1. LayerKey(x, q)[1] = "layer"
    BY KeyFields
  <2> QED BY <2>1, <1>1 DEF Same
<1>4. \A x, q : IsPartition(d, x, q) <=> IsPartition(e, x, q)
  BY <1>3, SamePartition
<1>5. \A x, q : Ordinary(d, x, q) <=> Ordinary(e, x, q)
  BY <1>3, <1>4 DEF Ordinary, Same
<1>6. \A x : Live(d, x) <=> Live(e, x)
  BY <1>4 DEF Live
<1>7. \A k \in Subs(d) : e[k] = d[k]
  BY <1>1 DEF Subs
<1>p. /\ c \in Layers /\ p \in PrefixesOf(c) /\ Ordinary(d, c, p) /\ p \in Layers /\ p # Root /\ Front(p) = c
  BY PrefixFacts DEF ContentAdded, Root
<1>8. Typed(e)
  <2> SUFFICES ASSUME NEW k \in DOMAIN e
               PROVE  /\ k[1] \in KeyKinds /\ k[2] \in Layers
                      /\ k[1] = "sub" => SubTyped(e, k)
                      /\ k[1] = "layer" => k = LayerKey(k[2], k[3]) /\ k[3] \in PrefixesOf(k[2])
                      /\ k[1] = "version" => k = VersionKey(k[2])
                      /\ k[1] = "recent" => k = RecentKey(k[2], k[3]) /\ k[3] \in Numbers
                      /\ k[1] = "content" => k = ContentKey(k[2])
    BY DEF Typed
  <2>1. CASE k \in DOMAIN d
    BY <2>1, <1>1 DEF NodesOK, Typed, SubTyped
  <2>2. CASE k = new
    BY <2>2, <1>0, <1>n, <1>p DEF KeyKinds
  <2> QED BY <2>1, <2>2, <1>1
<1>9. ChildrenExist(e) /\ ParentsExist(e) /\ OneParent(e) /\ HasParent(e)
  <2>1. ChildrenExist(e)
    BY <1>1, <1>2, <1>7 DEF NodesOK, ChildrenExist
  <2>2. ParentsExist(e)
    BY <1>2, <1>5 DEF NodesOK, ParentsExist
  <2>3. OneParent(e)
    BY <1>2, <1>7 DEF NodesOK, OneParent
  <2>4. HasParent(e)
    BY <1>2, <1>7 DEF NodesOK, HasParent
  <2> QED BY <2>1, <2>2, <2>3, <2>4
<1>10. Recorded(e)
  BY <1>1, <1>2 DEF NodesOK, Recorded
<1>11. LayersLive(e)
  BY <1>1, <1>6, <1>n DEF NodesOK, LayersLive
<1>12. ContentsOwned(e)
  BY <1>1, <1>5, <1>n, <1>p DEF NodesOK, ContentsOwned
<1>13. NoCycles(e)
  <2> SUFFICES ASSUME NEW S, Cyclic(e, S) PROVE S = {}
    BY EmptyIsAcyclic
  <2>1. Cyclic(d, S)
    BY <1>2, <1>7 DEF Cyclic
  <2> QED BY <2>1, CyclicIsEmpty DEF NodesOK
<1>14. IsFiniteSet(DOMAIN e)
  BY <1>1, FS_AddElement DEF NodesOK
<1> QED BY <1>8, <1>9, <1>10, <1>11, <1>12, <1>13, <1>14 DEF NodesOK

-----------------------------------------------------------------------------
(* Moving a directory.                                                     *)

\* A way from the root of a layer to a node that does not pass another.
Avoids(d, c, q, p) ==
  \E n \in Nat : \E w :
    /\ w[0] = RootPrefix(c) /\ w[n] = q
    /\ \A j \in 1 .. n : w[j] # p /\ \E k \in Subs(d) : k[3] = w[j - 1] /\ d[k] = w[j]

\* A directory has another name.
Moved(d, e, c, old, q, x) ==
  /\ c \in Layers /\ Live(d, c)
  /\ old \in Subs(d) /\ old[2] = c
  /\ q = RootPrefix(c) \/ Ordinary(d, c, q)
  /\ Avoids(d, c, q, d[old])
  /\ SubKey(c, q, x) \notin DOMAIN d
  /\ DOMAIN e = (DOMAIN d \ {old}) \cup {SubKey(c, q, x)}
  /\ e[SubKey(c, q, x)] = d[old]
  /\ \A k \in DOMAIN d \ {old} : e[k] = d[k]

\* A directory may be given another name if the way to that name does not pass it.
LEMMA MoveKeeps ==
  ASSUME NEW d, NodesOK(d), NEW e, NEW c, NEW old, NEW q, NEW x, Moved(d, e, c, old, q, x)
  PROVE  NodesOK(e)
<1>0. PICK new : new = SubKey(c, q, x)
  OBVIOUS
<1>n. new[1] = "sub" /\ new[2] = c /\ new[3] = q /\ new[4] = x
  BY <1>0, KeyFields
<1>m. /\ c \in Layers /\ Live(d, c) /\ old \in Subs(d) /\ old[2] = c
      /\ q = RootPrefix(c) \/ Ordinary(d, c, q)
      /\ Avoids(d, c, q, d[old])
      /\ new \notin DOMAIN d
      /\ DOMAIN e = (DOMAIN d \ {old}) \cup {new}
      /\ e[new] = d[old]
      /\ \A k \in DOMAIN d \ {old} : e[k] = d[k]
  BY <1>0 DEF Moved
<1>o. old \in DOMAIN d /\ old[1] = "sub" /\ d[old] \in PrefixesOf(c) /\ old # new
  BY <1>m DEF Subs, NodesOK, Typed, SubTyped
<1>1. /\ \A k \in DOMAIN d : k[1] # "sub" => k \in DOMAIN e /\ e[k] = d[k]
      /\ \A k \in DOMAIN e : k[1] # "sub" => k \in DOMAIN d
  BY <1>m, <1>o, <1>n
<1>2. Subs(e) = (Subs(d) \ {old}) \cup {new} /\ NodeKeys(e) = NodeKeys(d)
  BY <1>m, <1>n, <1>o DEF Subs, NodeKeys
<1>3. ASSUME NEW y, NEW p
      PROVE  Same(d, e, LayerKey(y, p))
  <2>1. LayerKey(y, p)[1] # "sub"
    BY KeyFields
  <2> QED BY <2>1, <1>1 DEF Same
<1>4. \A y, p : IsPartition(d, y, p) <=> IsPartition(e, y, p)
  BY <1>3, SamePartition
<1>5. \A y, p : Ordinary(d, y, p) <=> Ordinary(e, y, p)
  BY <1>3, <1>4 DEF Ordinary, Same
<1>6. \A y : Live(d, y) <=> Live(e, y)
  BY <1>4 DEF Live
<1>7. \A k \in Subs(d) : k # old => e[k] = d[k]
  BY <1>m DEF Subs
<1>q. q \in PrefixesOf(c) \cup {RootPrefix(c)}
  <2>1. CASE Ordinary(d, c, q)
    <3>1. PICK k : k = LayerKey(c, q)
      OBVIOUS
    <3>2. k \in DOMAIN d /\ k[1] = "layer" /\ k[2] = c /\ k[3] = q
      BY <3>1, <2>1, KeyFields DEF Ordinary
    <3>3. k[3] \in PrefixesOf(k[2])
      BY <3>2 DEF NodesOK, Typed
    <3> QED BY <3>2, <3>3
  <2> QED BY <2>1, <1>m
<1>8. Typed(e)
  <2> SUFFICES ASSUME NEW k \in DOMAIN e
               PROVE  /\ k[1] \in KeyKinds /\ k[2] \in Layers
                      /\ k[1] = "sub" => SubTyped(e, k)
                      /\ k[1] = "layer" => k = LayerKey(k[2], k[3]) /\ k[3] \in PrefixesOf(k[2])
                      /\ k[1] = "version" => k = VersionKey(k[2])
                      /\ k[1] = "recent" => k = RecentKey(k[2], k[3]) /\ k[3] \in Numbers
                      /\ k[1] = "content" => k = ContentKey(k[2])
    BY DEF Typed
  <2>1. CASE k \in DOMAIN d /\ k # old
    BY <2>1, <1>m DEF NodesOK, Typed, SubTyped
  <2>2. CASE k = new
    BY <2>2, <1>0, <1>n, <1>m, <1>o, <1>q DEF KeyKinds, SubTyped
  <2> QED BY <2>1, <2>2, <1>m
<1>9. ChildrenExist(e)
  <2> SUFFICES ASSUME NEW k \in Subs(e) PROVE LayerKey(k[2], e[k]) \in DOMAIN e
    BY DEF ChildrenExist
  <2>1. PICK l \in Subs(d) : d[l] = e[k] /\ l[2] = k[2]
    BY <1>2, <1>7, <1>m, <1>n
  <2>2. LayerKey(l[2], d[l]) \in DOMAIN d
    BY <2>1 DEF NodesOK, ChildrenExist
  <2>3. Same(d, e, LayerKey(l[2], d[l]))
    BY <1>3
  <2> QED BY <2>1, <2>2, <2>3 DEF Same
<1>10. ParentsExist(e)
  BY <1>2, <1>5, <1>n, <1>m DEF NodesOK, ParentsExist
<1>11. OneParent(e)
  <2> SUFFICES ASSUME NEW k \in Subs(e), NEW l \in Subs(e), e[k] = e[l] PROVE k = l
    BY DEF OneParent
  <2>1. \A k1, l1 \in Subs(d) : d[k1] = d[l1] => k1 = l1
    BY DEF NodesOK, OneParent
  <2> QED BY <2>1, <1>2, <1>7, <1>m
<1>12. HasParent(e)
  <2> SUFFICES ASSUME NEW k \in NodeKeys(d) PROVE \E l \in Subs(e) : e[l] = k[3]
    BY <1>2 DEF HasParent
  <2>1. PICK l \in Subs(d) : d[l] = k[3]
    BY DEF NodesOK, HasParent
  <2>2. CASE l = old
    BY <2>1, <2>2, <1>2, <1>m
  <2>3. CASE l # old
    BY <2>1, <2>3, <1>2, <1>7
  <2> QED BY <2>2, <2>3
<1>13. Recorded(e)
  <2> SUFFICES ASSUME NEW k \in NodeKeys(d) PROVE RecentKey(k[2], Last(k[3])) \in DOMAIN e
    BY <1>2 DEF Recorded
  <2>1. RecentKey(k[2], Last(k[3])) \in DOMAIN d
    BY DEF NodesOK, Recorded
  <2>2. RecentKey(k[2], Last(k[3]))[1] # "sub"
    BY KeyFields
  <2> QED BY <2>1, <2>2, <1>1
<1>14. LayersLive(e)
  BY <1>m, <1>6, <1>n DEF NodesOK, LayersLive
<1>15. ContentsOwned(e)
  BY <1>1, <1>5 DEF NodesOK, ContentsOwned
<1>16. NoCycles(e)
  <2> SUFFICES ASSUME NEW S, Cyclic(e, S) PROVE S = {}
    BY EmptyIsAcyclic
  <2>1. CASE d[old] \notin S
    <3>1. Cyclic(d, S)
      <4> SUFFICES ASSUME NEW y \in S PROVE \E k \in Subs(d) : d[k] = y /\ k[3] \in S
        BY DEF Cyclic
      <4>1. PICK k \in Subs(e) : e[k] = y /\ k[3] \in S
        BY DEF Cyclic
      <4>2. k # new
        BY <4>1, <2>1, <1>m
      <4>3. k \in Subs(d) /\ k # old
        BY <4>2, <1>2, <1>m DEF Subs
      <4> QED BY <4>1, <4>3, <1>7
    <3> QED BY <3>1, CyclicIsEmpty DEF NodesOK
  <2>2. CASE d[old] \in S
    <3>1. \A k \in Subs(e) : k # new => k \in Subs(d) /\ k # old /\ e[k] = d[k]
      BY <1>2, <1>7, <1>m DEF Subs
    <3>u. \A k1, l1 \in Subs(d) : d[k1] = d[l1] => k1 = l1
      BY DEF NodesOK, OneParent
    <3>2. q \in S
      <4>1. PICK k \in Subs(e) : e[k] = d[old] /\ k[3] \in S
        BY <2>2 DEF Cyclic
      <4>2. k = new
        BY <4>1, <3>1, <3>u, <1>m
      <4> QED BY <4>1, <4>2, <1>n
    <3>n. PICK n \in Nat :
             \E w : /\ w[0] = RootPrefix(c) /\ w[n] = q
                    /\ \A j \in 1 .. n : w[j] # d[old] /\ \E k \in Subs(d) : k[3] = w[j - 1] /\ d[k] = w[j]
      BY <1>m DEF Avoids
    <3>3. PICK w : /\ w[0] = RootPrefix(c) /\ w[n] = q
                   /\ \A j \in 1 .. n : w[j] # d[old] /\ \E k \in Subs(d) : k[3] = w[j - 1] /\ d[k] = w[j]
      BY <3>n
    <3> DEFINE Bad == {j \in Nat : j <= n /\ w[n - j] \notin S}
    <3>4. Bad = {}
      <4> SUFFICES ASSUME Bad # {} PROVE FALSE
        OBVIOUS
      <4>1. PICK j \in Bad : j \in Nat /\ \A m \in Bad : j <= m
        <5> HIDE DEF Bad
        <5>1. Bad \subseteq Nat
          BY DEF Bad
        <5> QED BY <5>1, Least
      <4>j. j <= n /\ w[n - j] \notin S
        OBVIOUS
      <4>2. j # 0
        <5>1. n - 0 = n
          OBVIOUS
        <5> QED BY <5>1, <4>j, <3>2, <3>3
      <4>3. j - 1 \in Nat /\ ~(j <= j - 1) /\ j - 1 <= n
        BY <4>1, <4>2, <4>j
      <4>4. w[n - (j - 1)] \in S
        BY <4>1, <4>3
      <4>5. n - (j - 1) \in 1 .. n /\ n - (j - 1) - 1 = n - j
        BY <4>1, <4>2, <4>j
      <4>6. PICK i : i = n - (j - 1)
        OBVIOUS
      <4>7. i \in 1 .. n /\ w[i] \in S /\ w[i - 1] \notin S
        BY <4>4, <4>5, <4>6, <4>j
      <4>8. PICK k \in Subs(d) : k[3] = w[i - 1] /\ d[k] = w[i]
        BY <4>7, <3>3
      <4>9. PICK l \in Subs(e) : e[l] = w[i] /\ l[3] \in S
        BY <4>7 DEF Cyclic
      <4>10. l # new
        BY <4>9, <4>7, <3>3, <1>m
      <4>11. l = k
        BY <4>8, <4>9, <4>10, <3>1, <3>u
      <4> QED BY <4>7, <4>8, <4>9, <4>11
    <3>5. n \notin Bad /\ n - n = 0
      BY <3>4
    <3>6. RootPrefix(c) \in S
      BY <3>5, <3>3
    <3>7. PICK l \in Subs(e) : e[l] = RootPrefix(c)
      BY <3>6 DEF Cyclic
    <3>8. l[2] \in Layers /\ RootPrefix(c) \in PrefixesOf(l[2])
      BY <3>7, <1>8 DEF Subs, Typed, SubTyped
    <3> QED BY <3>8, <1>m, RootPrefixFacts
  <2> QED BY <2>1, <2>2
<1>17. IsFiniteSet(DOMAIN e)
  <2>1. IsFiniteSet(DOMAIN d \ {old})
    BY FS_RemoveElement DEF NodesOK
  <2> QED BY <2>1, <1>m, FS_AddElement
<1> QED BY <1>8, <1>9, <1>10, <1>11, <1>12, <1>13, <1>14, <1>15, <1>16, <1>17 DEF NodesOK

-----------------------------------------------------------------------------
(* Removing directories.                                                   *)

\* The prefix begins with one of those.
Under(D, x) == \E p \in D : IsPrefix(p, x)

\* A key begins with a prefix if its layer, or the owner of the content, does.
LEMMA StartsIsUnder ==
  ASSUME NEW d, Typed(d), NEW k \in DOMAIN d, NEW c \in Layers, NEW p \in PrefixesOf(c)
  PROVE  StartsWith(k, p) <=> IsPrefix(p, k[2])
<1>1. k[2] \in Layers
  BY DEF Typed
<1>2. IsPrefix(p, RootPrefix(k[2])) <=> IsPrefix(p, k[2])
  BY <1>1, Beginnings
<1> QED BY <1>2 DEF StartsWith

\* A prefix is under others if its layer is, or if it is one of them.
LEMMA UnderNode ==
  ASSUME NEW c \in Layers, NEW D, D \subseteq PrefixesOf(c), NEW x \in Layers, NEW p \in PrefixesOf(x)
  PROVE  Under(D, p) <=> Under(D, x) \/ p \in D
<1>1. p \in Layers /\ p # Root /\ Front(p) = x
  BY PrefixFacts DEF Root
<1>2. \A q \in D : IsPrefix(q, p) <=> IsPrefix(q, x) \/ q = p
  BY <1>1, Beginnings
<1> QED BY <1>2 DEF Under

\* What a removal of directories clears.
Gone(c, old, D, k) ==
  \/ k = old
  \/ Under(D, k[2])
  \/ k[1] \in {"sub", "layer"} /\ k[2] = c /\ k[3] \in D

\* Directories of a layer are removed, with all that is under them.
RemovedAll(d, e, c, old, D) ==
  /\ c \in Layers /\ D \subseteq PrefixesOf(c)
  /\ old \in Subs(d) /\ old[2] = c /\ d[old] \in D
  /\ \A k \in Subs(d) : k[2] = c /\ k[3] \in D => d[k] \in D
  /\ \A p \in D : p = d[old] \/ \E k \in Subs(d) : k[2] = c /\ k[3] \in D /\ d[k] = p
  /\ \A k \in DOMAIN d : k \in DOMAIN e <=> ~Gone(c, old, D, k)
  /\ DOMAIN e \subseteq DOMAIN d
  /\ \A k \in DOMAIN e : e[k] = d[k]

\* A removal leaves the nodes that are not under what is removed,
LEMMA NodeSurvives ==
  ASSUME NEW d, NodesOK(d), NEW e, NEW c, NEW old, NEW D, RemovedAll(d, e, c, old, D),
         NEW x \in Layers, NEW p \in PrefixesOf(x), LayerKey(x, p) \in DOMAIN d, ~Under(D, p)
  PROVE  LayerKey(x, p) \in DOMAIN e /\ Same(d, e, LayerKey(x, p))
<1>1. PICK k : k = LayerKey(x, p)
  OBVIOUS
<1>2. k[1] = "layer" /\ k[2] = x /\ k[3] = p /\ k \in DOMAIN d
  BY <1>1, KeyFields
<1>3. c \in Layers /\ D \subseteq PrefixesOf(c) /\ old[1] = "sub"
  BY DEF RemovedAll, Subs
<1>4. ~Under(D, x) /\ p \notin D
  BY <1>3, UnderNode
<1>5. ~Gone(c, old, D, k)
  BY <1>2, <1>3, <1>4 DEF Gone
<1>6. k \in DOMAIN e /\ e[k] = d[k]
  BY <1>2, <1>5 DEF RemovedAll
<1> QED BY <1>1, <1>2, <1>6 DEF Same

\* the layers that are not,
LEMMA LiveSurvives ==
  ASSUME NEW d, NodesOK(d), NEW e, NEW c, NEW old, NEW D, RemovedAll(d, e, c, old, D),
         NEW x \in Layers, Live(d, x), ~Under(D, x)
  PROVE  Live(e, x)
<1>1. CASE x = Root
  BY <1>1 DEF Live
<1>2. CASE x # Root
  <2>1. IsPartition(d, Front(x), x) /\ Front(x) \in Layers /\ x \in PrefixesOf(Front(x))
    BY <1>2, LayerFacts DEF Live
  <2>2. LayerKey(Front(x), x) \in DOMAIN d
    BY <2>1, PartitionNode
  <2>3. Same(d, e, LayerKey(Front(x), x))
    BY <2>1, <2>2, NodeSurvives
  <2> QED BY <2>1, <2>3, SamePartition DEF Live
<1> QED BY <1>1, <1>2

\* and the ordinary directories that are not.
LEMMA OrdinarySurvives ==
  ASSUME NEW d, NodesOK(d), NEW e, NEW c, NEW old, NEW D, RemovedAll(d, e, c, old, D),
         NEW x \in Layers, NEW p \in PrefixesOf(x), Ordinary(d, x, p), ~Under(D, p)
  PROVE  Ordinary(e, x, p)
BY NodeSurvives, SamePartition DEF Ordinary

\* Directories may be removed with everything under them.
LEMMA RemovalKeeps ==
  ASSUME NEW d, NodesOK(d), NEW e, NEW c, NEW old, NEW D, RemovedAll(d, e, c, old, D)
  PROVE  NodesOK(e)
<1>m. /\ c \in Layers /\ D \subseteq PrefixesOf(c)
      /\ old \in Subs(d) /\ old[2] = c /\ d[old] \in D
      /\ \A k \in Subs(d) : k[2] = c /\ k[3] \in D => d[k] \in D
      /\ \A p \in D : p = d[old] \/ \E k \in Subs(d) : k[2] = c /\ k[3] \in D /\ d[k] = p
      /\ \A k \in DOMAIN d : k \in DOMAIN e <=> ~Gone(c, old, D, k)
      /\ DOMAIN e \subseteq DOMAIN d
      /\ \A k \in DOMAIN e : e[k] = d[k]
  BY DEF RemovedAll
<1>u. \A k, l \in Subs(d) : d[k] = d[l] => k = l
  BY DEF NodesOK, OneParent
<1>s. /\ Subs(e) \subseteq Subs(d) /\ NodeKeys(e) \subseteq NodeKeys(d)
      /\ \A k \in Subs(e) : e[k] = d[k]
  BY <1>m DEF Subs, NodeKeys
<1>k. \A k \in Subs(e) : /\ k # old /\ ~Under(D, k[2]) /\ ~(k[2] = c /\ k[3] \in D)
                         /\ k[1] = "sub" /\ k \in DOMAIN d
  BY <1>m DEF Gone, Subs
<1>n. \A k \in NodeKeys(e) : /\ ~Under(D, k[2]) /\ ~(k[2] = c /\ k[3] \in D)
                             /\ k[1] = "layer" /\ k \in DOMAIN d
  BY <1>m DEF Gone, NodeKeys
<1>t. /\ \A k \in DOMAIN d : k[2] \in Layers
      /\ \A k \in Subs(d) : /\ k[3] \in PrefixesOf(k[2]) \cup {RootPrefix(k[2])} /\ d[k] \in PrefixesOf(k[2])
                            /\ k \in DOMAIN d /\ k[2] \in Layers
      /\ \A k \in NodeKeys(d) : k[3] \in PrefixesOf(k[2]) /\ k = LayerKey(k[2], k[3]) /\ k[2] \in Layers
  BY DEF NodesOK, Typed, SubTyped, Subs, NodeKeys
<1>1. Typed(e)
  <2> SUFFICES ASSUME NEW k \in DOMAIN e
               PROVE  /\ k[1] \in KeyKinds /\ k[2] \in Layers
                      /\ k[1] = "sub" => SubTyped(e, k)
                      /\ k[1] = "layer" => k = LayerKey(k[2], k[3]) /\ k[3] \in PrefixesOf(k[2])
                      /\ k[1] = "version" => k = VersionKey(k[2])
                      /\ k[1] = "recent" => k = RecentKey(k[2], k[3]) /\ k[3] \in Numbers
                      /\ k[1] = "content" => k = ContentKey(k[2])
    BY DEF Typed
  <2>1. k \in DOMAIN d /\ e[k] = d[k]
    BY <1>m
  <2> QED BY <2>1 DEF NodesOK, Typed, SubTyped
<1>2. IsFiniteSet(DOMAIN e)
  BY <1>m, FS_Subset DEF NodesOK
<1>3. ChildrenExist(e)
  <2> SUFFICES ASSUME NEW k \in Subs(e) PROVE LayerKey(k[2], d[k]) \in DOMAIN e
    BY <1>s DEF ChildrenExist
  <2>1. LayerKey(k[2], d[k]) \in DOMAIN d
    BY <1>s DEF NodesOK, ChildrenExist
  <2>2. k[2] \in Layers /\ d[k] \in PrefixesOf(k[2])
    BY <1>s, <1>t
  <2>3. d[k] \notin D
    <3> SUFFICES ASSUME d[k] \in D PROVE FALSE
      OBVIOUS
    <3>1. d[k] # d[old]
      BY <1>k, <1>s, <1>u, <1>m
    <3>2. PICK l \in Subs(d) : l[2] = c /\ l[3] \in D /\ d[l] = d[k]
      BY <3>1, <1>m
    <3>3. l = k
      BY <3>2, <1>s, <1>u
    <3> QED BY <3>2, <3>3, <1>k
  <2>4. ~Under(D, d[k])
    BY <2>2, <2>3, <1>k, <1>m, UnderNode
  <2> QED BY <2>1, <2>2, <2>4, NodeSurvives
<1>4. ParentsExist(e)
  <2> SUFFICES ASSUME NEW k \in Subs(e), k[3] # RootPrefix(k[2]) PROVE Ordinary(e, k[2], k[3])
    BY DEF ParentsExist
  <2>1. Ordinary(d, k[2], k[3])
    BY <1>s DEF NodesOK, ParentsExist
  <2>2. k[2] \in Layers /\ k[3] \in PrefixesOf(k[2])
    BY <1>s, <1>t
  <2>3. k[3] \notin D
    BY <2>2, <1>m, <1>k, PrefixesDiffer
  <2>4. ~Under(D, k[3])
    BY <2>2, <2>3, <1>k, <1>m, UnderNode
  <2> QED BY <2>1, <2>2, <2>4, OrdinarySurvives
<1>5. OneParent(e)
  BY <1>s, <1>u DEF OneParent
<1>6. HasParent(e)
  <2> SUFFICES ASSUME NEW k \in NodeKeys(e) PROVE \E l \in Subs(e) : e[l] = k[3]
    BY DEF HasParent
  <2>1. PICK l \in Subs(d) : d[l] = k[3]
    BY <1>s DEF NodesOK, HasParent
  <2>2. l[2] = k[2]
    BY <2>1, <1>t, <1>s, PrefixesDiffer
  <2>3. k[3] \notin D
    BY <1>n, <1>t, <1>s, <1>m, PrefixesDiffer
  <2>4. ~Gone(c, old, D, l)
    BY <2>1, <2>2, <2>3, <1>n, <1>m DEF Gone
  <2>5. l \in DOMAIN e /\ l[1] = "sub"
    BY <2>4, <1>m, <1>t DEF Subs
  <2>6. l \in Subs(e)
    BY <2>5 DEF Subs
  <2> QED BY <2>1, <2>6, <1>s
<1>7. Recorded(e)
  <2> SUFFICES ASSUME NEW k \in NodeKeys(e) PROVE RecentKey(k[2], Last(k[3])) \in DOMAIN e
    BY DEF Recorded
  <2>1. PICK r : r = RecentKey(k[2], Last(k[3]))
    OBVIOUS
  <2>2. r \in DOMAIN d
    BY <2>1, <1>s DEF NodesOK, Recorded
  <2>3. r[1] = "recent" /\ r[2] = k[2]
    BY <2>1, KeyFields
  <2>4. ~Gone(c, old, D, r)
    BY <2>3, <1>n, <1>m DEF Gone, Subs
  <2> QED BY <2>1, <2>2, <2>4, <1>m
<1>8. LayersLive(e)
  <2> SUFFICES ASSUME NEW k \in DOMAIN e, k[1] # "content" PROVE Live(e, k[2])
    BY DEF LayersLive
  <2>1. k \in DOMAIN d /\ ~Under(D, k[2]) /\ k[2] \in Layers
    BY <1>m, <1>t DEF Gone
  <2>2. Live(d, k[2])
    BY <2>1 DEF NodesOK, LayersLive
  <2> QED BY <2>1, <2>2, LiveSurvives
<1>9. ContentsOwned(e)
  <2> SUFFICES ASSUME NEW k \in DOMAIN e, k[1] = "content"
               PROVE  k[2] # Root /\ Ordinary(e, Front(k[2]), k[2])
    BY DEF ContentsOwned
  <2>1. k \in DOMAIN d /\ ~Under(D, k[2]) /\ k[2] \in Layers
    BY <1>m, <1>t DEF Gone
  <2>2. k[2] # Root /\ Ordinary(d, Front(k[2]), k[2])
    BY <2>1 DEF NodesOK, ContentsOwned
  <2>3. Front(k[2]) \in Layers /\ k[2] \in PrefixesOf(Front(k[2]))
    BY <2>1, <2>2, LayerFacts
  <2> QED BY <2>1, <2>2, <2>3, OrdinarySurvives
<1>10. NoCycles(e)
  <2> SUFFICES ASSUME NEW S, Cyclic(e, S) PROVE S = {}
    BY EmptyIsAcyclic
  <2>1. Cyclic(d, S)
    BY <1>s DEF Cyclic
  <2> QED BY <2>1, CyclicIsEmpty DEF NodesOK
<1> QED BY <1>1, <1>2, <1>3, <1>4, <1>5, <1>6, <1>7, <1>8, <1>9, <1>10 DEF NodesOK

-----------------------------------------------------------------------------
(* Creating directories.                                                   *)

\* A function on a finite set has finitely many values.
LEMMA FiniteRange ==
  ASSUME NEW f, IsFiniteSet(DOMAIN f)
  PROVE  IsFiniteSet({f[i] : i \in DOMAIN f})
<1> DEFINE g == [i \in DOMAIN f |-> f[i]]
<1>1. g \in Surjection(DOMAIN f, {f[i] : i \in DOMAIN f})
  BY DEF Surjection
<1> QED BY <1>1, FS_Surjection

\* Directories are created, each in the one before, the first in "first": one for
\* each of I, with its prefix, that of its parent, and its name.
SubOf(c, above, name, i) == SubKey(c, above[i], name[i])
Created(d, e, c, m, L, first, pre, above, name) ==
  /\ c \in Layers /\ Live(d, c)
  /\ m \in Nat /\ L \in Nat
  /\ first = RootPrefix(c) \/ Ordinary(d, c, first)
  /\ SubKey(c, first, name[m]) \notin DOMAIN d
  /\ \A i \in m .. L : /\ pre[i] \in PrefixesOf(c)
                       /\ RecentKey(c, Last(pre[i])) \notin DOMAIN d
                       /\ above[i] = IF i = m THEN first ELSE pre[i - 1]
  /\ \A i, j \in m .. L : pre[i] = pre[j] => i = j
  /\ \A k : k \in DOMAIN e <=> \/ k \in DOMAIN d
                               \/ \E i \in m .. L : \/ k = SubOf(c, above, name, i)
                                                    \/ k = LayerKey(c, pre[i])
                                                    \/ k = RecentKey(c, Last(pre[i]))
  /\ \A i \in m .. L : /\ e[SubOf(c, above, name, i)] = pre[i]
                       /\ i # L => e[LayerKey(c, pre[i])] # Partition
  /\ \A k \in DOMAIN d : \/ e[k] = d[k]
                         \/ \E i \in m .. L : \/ k = SubOf(c, above, name, i)
                                              \/ k = LayerKey(c, pre[i])
                                              \/ k = RecentKey(c, Last(pre[i]))

\* A chain of new directories may be added below one that is there.
LEMMA CreationKeeps ==
  ASSUME NEW d, NodesOK(d), NEW e, NEW c, NEW m, NEW L, NEW first, NEW pre, NEW above, NEW name,
         Created(d, e, c, m, L, first, pre, above, name)
  PROVE  NodesOK(e)
<1> DEFINE I == m .. L
           S(i) == SubOf(c, above, name, i)
           N(i) == LayerKey(c, pre[i])
           R(i) == RecentKey(c, Last(pre[i]))
<1>a. /\ c \in Layers /\ Live(d, c)
      /\ m \in Nat /\ L \in Nat
      /\ first = RootPrefix(c) \/ Ordinary(d, c, first)
      /\ SubKey(c, first, name[m]) \notin DOMAIN d
      /\ \A i \in I : pre[i] \in PrefixesOf(c)
      /\ \A i \in I : R(i) \notin DOMAIN d
      /\ \A i \in I : above[i] = IF i = m THEN first ELSE pre[i - 1]
      /\ \A i, j \in I : pre[i] = pre[j] => i = j
      /\ \A k : k \in DOMAIN e <=> k \in DOMAIN d \/ \E i \in I : k = S(i) \/ k = N(i) \/ k = R(i)
      /\ \A i \in I : e[S(i)] = pre[i]
      /\ \A i \in I : i # L => e[N(i)] # Partition
      /\ \A k \in DOMAIN d : e[k] = d[k] \/ \E i \in I : k = S(i) \/ k = N(i) \/ k = R(i)
  BY DEF Created
<1>S. \A i \in I : S(i)[1] = "sub" /\ S(i)[2] = c /\ S(i)[3] = above[i] /\ S(i)[4] = name[i]
  BY KeyFields, SMT DEF SubOf
<1>N. \A i \in I : N(i)[1] = "layer" /\ N(i)[2] = c /\ N(i)[3] = pre[i]
  BY KeyFields, SMT
<1>R. \A i \in I : R(i)[1] = "recent" /\ R(i)[2] = c /\ R(i)[3] = Last(pre[i])
  BY KeyFields, SMT
<1>T. \A i \in I : S(i) = SubKey(c, above[i], name[i])
  BY DEF SubOf
<1>M. \A i \in I : i # m => i - 1 \in I /\ i - 1 # L
  BY <1>a
<1>x. \A i \in I : N(i) \notin DOMAIN d
  <2> SUFFICES ASSUME NEW i \in I, N(i) \in DOMAIN d PROVE FALSE
    OBVIOUS
  <2>1. PICK k : k = N(i)
    OBVIOUS
  <2>2. k \in NodeKeys(d) /\ k[2] = c /\ k[3] = pre[i]
    BY <2>1, <1>N DEF NodeKeys
  <2>3. RecentKey(k[2], Last(k[3])) \in DOMAIN d
    BY <2>2 DEF NodesOK, Recorded
  <2> QED BY <2>2, <2>3, <1>a
<1>y. \A i \in I : ~Ordinary(d, c, pre[i]) /\ pre[i] # RootPrefix(c)
  BY <1>x, <1>a, RootPrefixFacts DEF Ordinary
<1>z. \A i \in I : above[i] # pre[i]
  <2> SUFFICES ASSUME NEW i \in I, above[i] = pre[i] PROVE FALSE
    OBVIOUS
  <2>1. CASE i = m
    BY <2>1, <1>a, <1>y
  <2>2. CASE i # m
    <3>1. i - 1 \in I /\ above[i] = pre[i - 1] /\ i - 1 # i
      BY <2>2, <1>a, <1>M
    <3> QED BY <3>1, <1>a
  <2> QED BY <2>1, <2>2
<1>u. \A k \in Subs(d) : \A i \in I : d[k] # pre[i] /\ k[3] # pre[i]
  <2> SUFFICES ASSUME NEW k \in Subs(d), NEW i \in I, d[k] = pre[i] \/ k[3] = pre[i] PROVE FALSE
    OBVIOUS
  <2>t. k[2] \in Layers /\ d[k] \in PrefixesOf(k[2]) /\ k[3] \in PrefixesOf(k[2]) \cup {RootPrefix(k[2])}
    BY DEF NodesOK, Typed, SubTyped, Subs
  <2>1. CASE d[k] = pre[i]
    <3>1. k[2] = c
      BY <2>1, <2>t, <1>a, PrefixesDiffer
    <3>2. LayerKey(k[2], d[k]) \in DOMAIN d
      BY DEF NodesOK, ChildrenExist
    <3> QED BY <3>1, <3>2, <2>1, <1>x
  <2>2. CASE k[3] = pre[i]
    <3>1. k[3] # RootPrefix(k[2])
      BY <2>2, <2>t, <1>a, RootPrefixFacts
    <3>2. k[2] = c
      BY <2>2, <2>t, <3>1, <1>a, PrefixesDiffer
    <3>3. Ordinary(d, k[2], k[3])
      BY <3>1 DEF NodesOK, ParentsExist
    <3> QED BY <3>2, <3>3, <2>2, <1>y
  <2> QED BY <2>1, <2>2
<1>v. \A i, j \in I : S(i) = S(j) => i = j
  <2> SUFFICES ASSUME NEW i \in I, NEW j \in I, S(i) = S(j) PROVE i = j
    OBVIOUS
  <2>1. e[S(i)] = pre[i] /\ e[S(j)] = pre[j]
    BY <1>a
  <2> QED BY <2>1, <1>a
<1>w. \A i \in I : S(i) \notin DOMAIN d
  <2> SUFFICES ASSUME NEW i \in I, S(i) \in DOMAIN d PROVE FALSE
    OBVIOUS
  <2>1. CASE i = m
    BY <2>1, <1>a, <1>T
  <2>2. CASE i # m
    <3>1. i - 1 \in I /\ above[i] = pre[i - 1]
      BY <2>2, <1>a, <1>M
    <3>2. PICK k : k = S(i)
      OBVIOUS
    <3>3. k \in Subs(d) /\ k[3] = above[i]
      BY <3>2, <1>S DEF Subs
    <3> QED BY <3>1, <3>3, <1>u
  <2> QED BY <2>1, <2>2
<1> HIDE DEF S, N, R, I
<1>m. /\ c \in Layers /\ Live(d, c)
      /\ m \in Nat /\ L \in Nat
      /\ first = RootPrefix(c) \/ Ordinary(d, c, first)
      /\ SubKey(c, first, name[m]) \notin DOMAIN d
      /\ \A i \in I : pre[i] \in PrefixesOf(c)
      /\ \A i \in I : R(i) \notin DOMAIN d
      /\ \A i \in I : above[i] = IF i = m THEN first ELSE pre[i - 1]
      /\ \A i, j \in I : pre[i] = pre[j] => i = j
      /\ \A k : k \in DOMAIN e <=> k \in DOMAIN d \/ \E i \in I : k = S(i) \/ k = N(i) \/ k = R(i)
      /\ \A i \in I : e[S(i)] = pre[i]
      /\ \A i \in I : i # L => e[N(i)] # Partition
      /\ \A k \in DOMAIN d : e[k] = d[k]
  BY <1>a, <1>w, <1>x
<1>1. /\ \A k \in Subs(e) : (k \in Subs(d) /\ e[k] = d[k]) \/ \E i \in I : k = S(i)
      /\ \A k \in Subs(d) : k \in Subs(e) /\ e[k] = d[k]
      /\ \A i \in I : S(i) \in Subs(e)
  BY <1>m, <1>S, <1>N, <1>R DEF Subs
<1>2. /\ \A k \in NodeKeys(e) : k \in NodeKeys(d) \/ \E i \in I : k = N(i)
      /\ \A k \in NodeKeys(d) : k \in NodeKeys(e)
      /\ \A i \in I : N(i) \in DOMAIN e
  BY <1>m, <1>S, <1>N, <1>R DEF NodeKeys
<1>3. ASSUME NEW x, NEW p, LayerKey(x, p) \in DOMAIN d
      PROVE  Same(d, e, LayerKey(x, p))
  BY <1>3, <1>m DEF Same
<1>4. ASSUME NEW x, NEW p, IsPartition(d, x, p)
      PROVE  IsPartition(e, x, p)
  BY <1>4, <1>3, PartitionNode, SamePartition
<1>5. ASSUME NEW x, NEW p, Ordinary(d, x, p)
      PROVE  Ordinary(e, x, p)
  BY <1>5, <1>3, SamePartition DEF Ordinary, Same
<1>6. ASSUME NEW x, Live(d, x)
      PROVE  Live(e, x)
  BY <1>6, <1>4 DEF Live
<1>7. \A i \in I : i # L => Ordinary(e, c, pre[i])
  <2> SUFFICES ASSUME NEW i \in I, i # L PROVE Ordinary(e, c, pre[i])
    OBVIOUS
  <2>1. LayerKey(c, pre[i]) \in DOMAIN e /\ e[LayerKey(c, pre[i])] # Partition
    BY <1>2, <1>m DEF N
  <2>2. PICK k : k = LayerKey(c, pre[i])
    OBVIOUS
  <2>3. Get(e, k) # Partition
    BY <2>1, <2>2 DEF Get
  <2> QED BY <2>1, <2>2, <2>3 DEF Ordinary, IsPartition
<1>8. \A i \in I : above[i] = RootPrefix(c) \/ Ordinary(e, c, above[i])
  <2> SUFFICES ASSUME NEW i \in I PROVE above[i] = RootPrefix(c) \/ Ordinary(e, c, above[i])
    OBVIOUS
  <2>1. CASE i = m
    BY <2>1, <1>m, <1>5
  <2>2. CASE i # m
    <3>1. i - 1 \in I /\ i - 1 # L /\ above[i] = pre[i - 1]
      BY <2>2, <1>m, <1>M DEF I
    <3> QED BY <3>1, <1>7
  <2> QED BY <2>1, <2>2
<1>9. \A i \in I : above[i] \in PrefixesOf(c) \cup {RootPrefix(c)}
  <2> SUFFICES ASSUME NEW i \in I, Ordinary(e, c, above[i]), above[i] # RootPrefix(c)
               PROVE  above[i] \in PrefixesOf(c)
    BY <1>8
  <2>1. CASE i # m
    <3>1. i - 1 \in I /\ above[i] = pre[i - 1]
      BY <2>1, <1>m, <1>M DEF I
    <3> QED BY <3>1, <1>m
  <2>2. CASE i = m
    <3>1. Ordinary(d, c, first) /\ above[i] = first
      BY <2>2, <1>m
    <3>2. PICK k : k = LayerKey(c, first)
      OBVIOUS
    <3>3. k \in DOMAIN d /\ k[1] = "layer" /\ k[2] = c /\ k[3] = first
      BY <3>1, <3>2, KeyFields DEF Ordinary
    <3>4. k[3] \in PrefixesOf(k[2])
      BY <3>3 DEF NodesOK, Typed
    <3> QED BY <3>1, <3>3, <3>4
  <2> QED BY <2>1, <2>2
<1>10. Typed(e)
  <2> SUFFICES ASSUME NEW k \in DOMAIN e
               PROVE  /\ k[1] \in KeyKinds /\ k[2] \in Layers
                      /\ k[1] = "sub" => SubTyped(e, k)
                      /\ k[1] = "layer" => k = LayerKey(k[2], k[3]) /\ k[3] \in PrefixesOf(k[2])
                      /\ k[1] = "version" => k = VersionKey(k[2])
                      /\ k[1] = "recent" => k = RecentKey(k[2], k[3]) /\ k[3] \in Numbers
                      /\ k[1] = "content" => k = ContentKey(k[2])
    BY DEF Typed
  <2>1. CASE k \in DOMAIN d
    BY <2>1, <1>m DEF NodesOK, Typed, SubTyped
  <2>2. ASSUME NEW i \in I, k = S(i)
        PROVE  k[1] = "sub" /\ k[2] = c /\ SubTyped(e, k)
    <3>1. k = SubKey(c, above[i], name[i]) /\ k[1] = "sub" /\ k[2] = c /\ k[3] = above[i] /\ k[4] = name[i]
      BY <2>2, <1>S, <1>T
    <3> QED BY <2>2, <3>1, <1>9, <1>m DEF SubTyped
  <2>3. ASSUME NEW i \in I, k = N(i)
        PROVE  k[1] = "layer" /\ k[2] = c /\ k = LayerKey(k[2], k[3]) /\ k[3] \in PrefixesOf(k[2])
    BY <2>3, <1>N, <1>m DEF N
  <2>4. ASSUME NEW i \in I, k = R(i)
        PROVE  k[1] = "recent" /\ k[2] = c /\ k = RecentKey(k[2], k[3]) /\ k[3] \in Numbers
    BY <2>4, <1>R, <1>m, PrefixFacts DEF R
  <2>5. k \in DOMAIN d \/ \E i \in I : k = S(i) \/ k = N(i) \/ k = R(i)
    BY <1>m
  <2> QED BY <2>1, <2>2, <2>3, <2>4, <2>5, <1>m DEF KeyKinds
<1>11. IsFiniteSet(DOMAIN e)
  <2> DEFINE f == [i \in I |-> S(i)]
             g == [i \in I |-> N(i)]
             h == [i \in I |-> R(i)]
  <2>1. IsFiniteSet(I)
    BY <1>m, FS_Interval DEF I
  <2>2. IsFiniteSet({f[i] : i \in DOMAIN f}) /\ IsFiniteSet({g[i] : i \in DOMAIN g})
        /\ IsFiniteSet({h[i] : i \in DOMAIN h})
    BY <2>1, FiniteRange
  <2>3. IsFiniteSet(DOMAIN d)
    BY DEF NodesOK
  <2>4. IsFiniteSet(((DOMAIN d \cup {f[i] : i \in DOMAIN f}) \cup {g[i] : i \in DOMAIN g})
                    \cup {h[i] : i \in DOMAIN h})
    <3> DEFINE A == {f[i] : i \in DOMAIN f}
               B == {g[i] : i \in DOMAIN g}
               C == {h[i] : i \in DOMAIN h}
    <3> HIDE DEF A, B, C
    <3>1. IsFiniteSet(A) /\ IsFiniteSet(B) /\ IsFiniteSet(C)
      BY <2>2 DEF A, B, C
    <3>2. IsFiniteSet(DOMAIN d \cup A)
      BY <2>3, <3>1, FS_Union
    <3>3. IsFiniteSet((DOMAIN d \cup A) \cup B)
      BY <3>1, <3>2, FS_Union
    <3>4. IsFiniteSet(((DOMAIN d \cup A) \cup B) \cup C)
      BY <3>1, <3>3, FS_Union
    <3> QED BY <3>4 DEF A, B, C
  <2>5. DOMAIN e \subseteq ((DOMAIN d \cup {f[i] : i \in DOMAIN f}) \cup {g[i] : i \in DOMAIN g})
                           \cup {h[i] : i \in DOMAIN h}
    BY <1>m
  <2> QED BY <2>4, <2>5, FS_Subset
<1>12. ChildrenExist(e)
  <2> SUFFICES ASSUME NEW k \in Subs(e) PROVE LayerKey(k[2], e[k]) \in DOMAIN e
    BY DEF ChildrenExist
  <2>1. CASE k \in Subs(d) /\ e[k] = d[k]
    BY <2>1, <1>m DEF NodesOK, ChildrenExist
  <2>2. ASSUME NEW i \in I, k = S(i)
        PROVE  LayerKey(k[2], e[k]) \in DOMAIN e
    <3>1. k[2] = c /\ e[k] = pre[i]
      BY <2>2, <1>S, <1>m
    <3> QED BY <3>1, <1>2 DEF N
  <2> QED BY <2>1, <2>2, <1>1
<1>13. ParentsExist(e)
  <2> SUFFICES ASSUME NEW k \in Subs(e) PROVE k[3] = RootPrefix(k[2]) \/ Ordinary(e, k[2], k[3])
    BY DEF ParentsExist
  <2>1. CASE k \in Subs(d)
    BY <2>1, <1>5 DEF NodesOK, ParentsExist
  <2>2. CASE \E i \in I : k = S(i)
    BY <2>2, <1>S, <1>8
  <2> QED BY <2>1, <2>2, <1>1
<1>14. OneParent(e)
  <2> SUFFICES ASSUME NEW k \in Subs(e), NEW l \in Subs(e), e[k] = e[l] PROVE k = l
    BY DEF OneParent
  <2>1. CASE k \in Subs(d) /\ l \in Subs(d)
    BY <2>1, <1>1 DEF NodesOK, OneParent
  <2>2. CASE k \notin Subs(d) /\ l \notin Subs(d)
    <3>1. PICK i \in I, j \in I : k = S(i) /\ l = S(j)
      BY <2>2, <1>1
    <3>2. pre[i] = pre[j]
      BY <3>1, <1>m
    <3> QED BY <3>1, <3>2, <1>m
  <2>3. CASE k \in Subs(d) /\ l \notin Subs(d)
    BY <2>3, <1>1, <1>m, <1>u
  <2>4. CASE l \in Subs(d) /\ k \notin Subs(d)
    BY <2>4, <1>1, <1>m, <1>u
  <2> QED BY <2>1, <2>2, <2>3, <2>4
<1>15. HasParent(e)
  <2> SUFFICES ASSUME NEW k \in NodeKeys(e) PROVE \E l \in Subs(e) : e[l] = k[3]
    BY DEF HasParent
  <2>1. CASE k \in NodeKeys(d)
    BY <2>1, <1>1 DEF NodesOK, HasParent
  <2>2. CASE \E i \in I : k = N(i)
    BY <2>2, <1>1, <1>N, <1>m
  <2> QED BY <2>1, <2>2, <1>2
<1>16. Recorded(e)
  <2> SUFFICES ASSUME NEW k \in NodeKeys(e) PROVE RecentKey(k[2], Last(k[3])) \in DOMAIN e
    BY DEF Recorded
  <2>1. CASE k \in NodeKeys(d)
    BY <2>1, <1>m DEF NodesOK, Recorded
  <2>2. ASSUME NEW i \in I, k = N(i)
        PROVE  RecentKey(k[2], Last(k[3])) \in DOMAIN e
    <3>1. k[2] = c /\ k[3] = pre[i]
      BY <2>2, <1>N
    <3>2. R(i) \in DOMAIN e
      BY <1>m
    <3> QED BY <3>1, <3>2 DEF R
  <2> QED BY <2>1, <2>2, <1>2
<1>17. LayersLive(e)
  <2> SUFFICES ASSUME NEW k \in DOMAIN e, k[1] # "content" PROVE Live(e, k[2])
    BY DEF LayersLive
  <2>1. CASE k \in DOMAIN d
    BY <2>1, <1>6 DEF NodesOK, LayersLive
  <2>2. CASE k \notin DOMAIN d
    <3>1. k[2] = c
      BY <2>2, <1>m, <1>S, <1>N, <1>R
    <3> QED BY <3>1, <1>m, <1>6
  <2> QED BY <2>1, <2>2
<1>18. ContentsOwned(e)
  <2> SUFFICES ASSUME NEW k \in DOMAIN e, k[1] = "content"
               PROVE  k[2] # Root /\ Ordinary(e, Front(k[2]), k[2])
    BY DEF ContentsOwned
  <2>1. k \in DOMAIN d
    BY <1>m, <1>S, <1>N, <1>R
  <2> QED BY <2>1, <1>5 DEF NodesOK, ContentsOwned
<1>19. NoCycles(e)
  <2> SUFFICES ASSUME NEW H, Cyclic(e, H) PROVE H = {}
    BY EmptyIsAcyclic
  <2> DEFINE News == {pre[i] : i \in I}
             Olds == H \ News
  <2>1. Olds = {}
    <3>1. Cyclic(d, Olds)
      <4> SUFFICES ASSUME NEW q \in Olds PROVE \E k \in Subs(d) : d[k] = q /\ k[3] \in Olds
        BY Zenon DEF Cyclic
      <4>1. PICK k \in Subs(e) : e[k] = q /\ k[3] \in H
        BY DEF Cyclic
      <4>2. k \in Subs(d) /\ e[k] = d[k]
        BY <4>1, <1>1, <1>m
      <4> QED BY <4>1, <4>2, <1>u
    <3> QED BY <3>1, CyclicIsEmpty DEF NodesOK
  <2>2. \A i \in I : pre[i] \in H => above[i] \in H
    <3> SUFFICES ASSUME NEW i \in I, pre[i] \in H PROVE above[i] \in H
      OBVIOUS
    <3>1. PICK k \in Subs(e) : e[k] = pre[i] /\ k[3] \in H
      BY DEF Cyclic
    <3>2. k = S(i)
      BY <3>1, <1>14, <1>1, <1>m DEF OneParent
    <3> QED BY <3>1, <3>2, <1>S
  <2> DEFINE Bad == {i \in I : pre[i] \in H}
  <2>3. Bad = {}
    <3> SUFFICES ASSUME Bad # {} PROVE FALSE
      OBVIOUS
    <3>1. PICK i \in Bad : i \in Nat /\ \A j \in Bad : i <= j
      <4> HIDE DEF Bad
      <4>1. Bad \subseteq Nat
        BY <1>m DEF Bad, I
      <4> QED BY <4>1, Least
    <3>2. i \in I /\ pre[i] \in H /\ above[i] \in H
      BY <2>2
    <3>3. CASE i = m
      <4>1. above[i] = first
        BY <3>2, <3>3, <1>m
      <4>2. first \in News
        BY <4>1, <3>2, <2>1
      <4> QED BY <4>2, <1>m, <1>y
    <3>4. CASE i # m
      <4>1. i - 1 \in I /\ above[i] = pre[i - 1]
        BY <3>2, <3>4, <1>m, <1>M DEF I
      <4>2. i - 1 \in Bad /\ ~(i <= i - 1)
        BY <4>1, <3>1, <3>2
      <4> QED BY <4>2, <3>1
    <3> QED BY <3>3, <3>4
  <2> QED BY <2>1, <2>3
<1> QED BY <1>10, <1>11, <1>12, <1>13, <1>14, <1>15, <1>16, <1>17, <1>18, <1>19 DEF NodesOK

-----------------------------------------------------------------------------
(* Attempts, and the databases that agree on what one has read.            *)

\* Two databases agree on what is read.
Agree(d, e, reads) == \A k : InSome(k, reads) => Same(d, e, k)

\* Databases that agree on what is read agree on less,
LEMMA AgreeOnLess ==
  ASSUME NEW d, NEW e, NEW reads, NEW fewer, fewer \subseteq reads, Agree(d, e, reads)
  PROVE  Agree(d, e, fewer)
BY DEF Agree, InSome

\* on each key of it,
LEMMA AgreeOnKey ==
  ASSUME NEW d, NEW e, NEW reads, Agree(d, e, reads), NEW k \in reads
  PROVE  Same(d, e, k)
<1>1. InSome(k, reads)
  BY DEF InSome, InRange
<1> QED BY <1>1 DEF Agree

\* and on each name in a directory whose names are read.
LEMMA AgreeOnSubs ==
  ASSUME NEW d, NEW e, NEW reads, Agree(d, e, reads), NEW c, NEW p, SubsOf(c, p) \in reads,
         NEW k, k[1] = "sub", k[2] = c, k[3] = p
  PROVE  Same(d, e, k)
<1>1. InRange(k, SubsOf(c, p))
  BY InSubsOf DEF KeyKinds
<1>2. InSome(k, reads)
  BY <1>1 DEF InSome
<1> QED BY <1>2 DEF Agree

\* An attempt is a record of what it answers, reads, puts and clears.
IsAttempt(a) == a = [result |-> a.result, reads |-> a.reads, puts |-> a.puts, clears |-> a.clears]

\* An attempt that has read more is an attempt.
LEMMA MoreReads ==
  ASSUME NEW a, IsAttempt(a), NEW more
  PROVE  LET b == [a EXCEPT !.reads = @ \cup more]
         IN /\ IsAttempt(b) /\ b.result = a.result /\ b.puts = a.puts /\ b.clears = a.clears
            /\ b.reads = a.reads \cup more
<1>1. PICK r, s, p, c : a = [result |-> r, reads |-> s, puts |-> p, clears |-> c]
  BY DEF IsAttempt
<1>2. [a EXCEPT !.reads = @ \cup more] = [result |-> r, reads |-> s \cup more, puts |-> p, clears |-> c]
  BY ONLY <1>1
<1> QED BY <1>1, <1>2 DEF IsAttempt

\* What an attempt is that fails,
LEMMA FailFacts ==
  ASSUME NEW why
  PROVE  IsAttempt(Fail(why)) /\ ReadOnly(Fail(why)) /\ "error" \in DOMAIN Fail(why).result
BY DEF IsAttempt, ReadOnly, Fail, Reply

\* and one that only answers.
LEMMA ReplyFacts ==
  ASSUME NEW result, NEW reads
  PROVE  /\ IsAttempt(Reply(result, reads)) /\ ReadOnly(Reply(result, reads))
         /\ Reply(result, reads).reads = reads /\ Reply(result, reads).result = result
BY DEF IsAttempt, ReadOnly, Reply

\* What is put over something.
LEMMA OverFacts ==
  ASSUME NEW f, NEW g
  PROVE  /\ DOMAIN Over(f, g) = DOMAIN f \cup DOMAIN g
         /\ \A k \in DOMAIN f : Over(f, g)[k] = f[k]
         /\ \A k \in DOMAIN g \ DOMAIN f : Over(f, g)[k] = g[k]
BY DEF Over

\* What is there after a commit.
LEMMA WrittenFacts ==
  ASSUME NEW d, NEW a
  PROVE  /\ \A k : k \in DOMAIN Written(d, a)
                      <=> (k \in DOMAIN a.puts \/ (k \in DOMAIN d /\ ~InSome(k, a.clears)))
         /\ \A k \in DOMAIN a.puts : Written(d, a)[k] = a.puts[k]
         /\ \A k \in DOMAIN Written(d, a) : k \notin DOMAIN a.puts => Written(d, a)[k] = d[k]
<1>1. /\ DOMAIN Cleared(d, a.clears) = {k \in DOMAIN d : ~InSome(k, a.clears)}
      /\ \A k \in DOMAIN Cleared(d, a.clears) : Cleared(d, a.clears)[k] = d[k]
  BY DEF Cleared, Restrict
<1>2. PICK g : g = Cleared(d, a.clears)
  OBVIOUS
<1>3. PICK f : f = a.puts
  OBVIOUS
<1>4. PICK w : w = Written(d, a)
  OBVIOUS
<1>5. w = Over(f, g)
  BY <1>2, <1>3, <1>4, Zenon DEF Written
<1>6. /\ DOMAIN w = DOMAIN f \cup DOMAIN g
      /\ \A k \in DOMAIN f : w[k] = f[k]
      /\ \A k \in DOMAIN g \ DOMAIN f : w[k] = g[k]
  <2>1. /\ DOMAIN Over(f, g) = DOMAIN f \cup DOMAIN g
        /\ \A k \in DOMAIN f : Over(f, g)[k] = f[k]
        /\ \A k \in DOMAIN g \ DOMAIN f : Over(f, g)[k] = g[k]
    BY OverFacts
  <2> QED BY <2>1, <1>5, Zenon
<1>7. /\ \A k : k \in DOMAIN g <=> k \in DOMAIN d /\ ~InSome(k, a.clears)
      /\ \A k \in DOMAIN g : g[k] = d[k]
  BY <1>1, <1>2
<1>8. /\ \A k : k \in DOMAIN w <=> (k \in DOMAIN f \/ (k \in DOMAIN d /\ ~InSome(k, a.clears)))
      /\ \A k \in DOMAIN f : w[k] = f[k]
      /\ \A k \in DOMAIN w : k \notin DOMAIN f => w[k] = d[k]
  <2>1. \A k : k \in DOMAIN w <=> k \in DOMAIN f \/ k \in DOMAIN g
    BY <1>6, Zenon
  <2>2. \A k \in DOMAIN w : k \notin DOMAIN f => k \in DOMAIN g /\ w[k] = g[k]
    BY <1>6, Zenon
  <2>3. \A k : k \in DOMAIN w <=> k \in DOMAIN f \/ (k \in DOMAIN d /\ ~InSome(k, a.clears))
    BY <2>1, <1>7, Zenon
  <2>4. \A k \in DOMAIN w : k \notin DOMAIN f => w[k] = d[k]
    BY <2>2, <1>7, Zenon
  <2> QED BY <2>3, <2>4, <1>6, Zenon
<1> QED BY <1>3, <1>4, <1>8, Zenon

\* The versions that are put are those of layers without one.
LEMMA VersionsFacts ==
  ASSUME NEW d, NEW layers
  PROVE  \A k : k \in DOMAIN Versions(d, layers) <=> k \notin DOMAIN d /\ \E l \in layers : k = VersionKey(l)
BY DEF Versions

\* A database without some of its keys.
Without(e, V) == [k \in DOMAIN e \ V |-> e[k]]

\* A database is in order if it is without the versions of its layers.
LEMMA WithVersions ==
  ASSUME NEW e, NEW V, IsFiniteSet(V), NodesOK(Without(e, V)),
         \A k \in V : k[1] = "version" /\ k[2] \in Layers /\ k = VersionKey(k[2]) /\ Live(Without(e, V), k[2])
  PROVE  NodesOK(e)
<1> DEFINE d == Without(e, V)
<1>1. DOMAIN d = DOMAIN e \ V /\ \A k \in DOMAIN d : d[k] = e[k]
  BY DEF Without
<1> HIDE DEF d
<1>2. IsFiniteSet(DOMAIN e)
  <2>1. IsFiniteSet(DOMAIN d)
    BY DEF NodesOK, d
  <2>2. IsFiniteSet(DOMAIN d \cup V)
    BY <2>1, FS_Union
  <2> QED BY <2>2, <1>1, FS_Subset
<1>3. VersionsAdded(d, e)
  BY <1>1, <1>2 DEF VersionsAdded, d
<1>4. NodesOK(d)
  BY DEF d
<1> QED BY <1>3, <1>4, VersionsKeep

-----------------------------------------------------------------------------
(* What an attempt has read is what it finds when it is committed.         *)

\* The layer an attempt works in is there, and the layers it came through.
Handed(d, at) ==
  /\ at.c \in Layers /\ at.c \in at.layers /\ at.path \in Seq(Names) /\ Live(d, at.c)
  /\ IsFiniteSet(at.layers)
  /\ \A l \in at.layers : l \in Layers /\ IsPrefix(l, at.c) /\ Live(d, l) /\ VersionKey(l) \in at.reads

\* A layer that an operation was handed to is live where the reads of the way agree.
LEMMA HandedThen ==
  ASSUME NEW d, NEW e, NEW start \in Layers, NEW path, NEW to, NEW at, Entry(d, start, path, to, at),
         NEW reads, at.reads \subseteq reads, Agree(d, e, reads), Live(e, start)
  PROVE  Handed(e, at)
<1>1. /\ at.c \in Layers /\ at.c \in at.layers /\ at.path \in Seq(Names) /\ IsFiniteSet(at.layers)
      /\ \A l \in at.layers : Known(d, l, at.reads, start) /\ IsPrefix(l, at.c)
  BY DEF Entry
<1>2. ASSUME NEW l \in at.layers
      PROVE  l \in Layers /\ Live(e, l) /\ VersionKey(l) \in at.reads
  <2>1. Known(d, l, at.reads, start)
    BY <1>1
  <2>2. CASE l = start
    BY <2>1, <2>2 DEF Known
  <2>3. CASE l # start
    <3>1. l \in Layers /\ IsPartition(d, Front(l), l) /\ LayerKey(Front(l), l) \in reads
      BY <2>1, <2>3 DEF Known
    <3>2. Same(d, e, LayerKey(Front(l), l))
      BY <3>1, AgreeOnKey
    <3>3. VersionKey(l) \in at.reads
      BY <2>1 DEF Known
    <3> QED BY <3>1, <3>2, <3>3, SamePartition DEF Live
  <2> QED BY <2>2, <2>3
<1> QED BY <1>1, <1>2 DEF Handed

\* Where the walk has been, for as long as what it has read is unchanged.
LEMMA Trail ==
  ASSUME NEW d, NodesOK(d), NEW c \in Layers, NEW path \in Seq(Names),
         NEW j \in 1 .. Find(d, c, path).depth
  PROVE  LET p == At(d, c, path, j - 1)
             q == At(d, c, path, j)
             k == SubKey(c, p, path[j])
             reads == Find(d, c, path).reads
         IN /\ k \in reads
            /\ q \in PrefixesOf(c) \cup {None}
            /\ IF q = None THEN k \notin DOMAIN d ELSE k \in Subs(d) /\ d[k] = q
            /\ q # None => LayerKey(c, q) \in DOMAIN d /\ LayerKey(c, q) \in reads
            /\ p \in PrefixesOf(c) \cup {RootPrefix(c)}
            /\ \/ p = RootPrefix(c) /\ j = 1
               \/ p \in PrefixesOf(c) /\ Ordinary(d, c, p) /\ LayerKey(c, p) \in reads /\ j # 1
<1> DEFINE node == Find(d, c, path)
           p == At(d, c, path, j - 1)
           q == At(d, c, path, j)
           k == SubKey(c, p, path[j])
<1>t. Typed(d)
  BY DEF NodesOK
<1>1. /\ Len(path) \in Nat /\ node.depth \in 0 .. Len(path)
      /\ At(d, c, path, 0) = RootPrefix(c)
      /\ \A i \in 1 .. node.depth : Passed(d, c, path, i, node.reads)
      /\ \A i \in 1 .. node.depth : At(d, c, path, i) \in PrefixesOf(c) \cup {None}
  BY <1>t, FindFacts
<1> HIDE DEF node
<1>n. node.depth = Find(d, c, path).depth
  BY DEF node
<1>2. ASSUME NEW i \in 1 .. node.depth, At(d, c, path, i) # None
      PROVE  /\ SubKey(c, At(d, c, path, i - 1), path[i]) \in Subs(d)
             /\ d[SubKey(c, At(d, c, path, i - 1), path[i])] = At(d, c, path, i)
             /\ LayerKey(c, At(d, c, path, i)) \in DOMAIN d
             /\ LayerKey(c, At(d, c, path, i)) \in node.reads
  <2>1. PICK l : l = SubKey(c, At(d, c, path, i - 1), path[i])
    OBVIOUS
  <2>2. At(d, c, path, i) = Get(d, l) /\ LayerKey(c, At(d, c, path, i)) \in node.reads
    BY <1>1, <2>1 DEF Passed
  <2>3. l \in DOMAIN d /\ d[l] = At(d, c, path, i) /\ l \in Subs(d)
    <3>1. l[1] = "sub"
      BY <2>1, KeyFields
    <3> QED BY <2>2, <1>2, <3>1 DEF Get, Subs
  <2>4. l[2] = c
    BY <2>1, KeyFields
  <2>5. LayerKey(c, d[l]) \in DOMAIN d
    BY <2>3, <2>4 DEF NodesOK, ChildrenExist
  <2> QED BY <2>1, <2>2, <2>3, <2>5
<1>3. Passed(d, c, path, j, node.reads)
  BY <1>1, <1>n
<1>4. k \in node.reads /\ q = Get(d, k) /\ p # None /\ ~IsPartition(d, c, p)
  BY <1>3 DEF Passed
<1>5. q = None => k \notin DOMAIN d
  BY <1>4, <1>t, SubValue
<1>6. q # None => /\ k \in Subs(d) /\ d[k] = q
                  /\ LayerKey(c, q) \in DOMAIN d /\ LayerKey(c, q) \in node.reads
  BY <1>2, <1>n
<1>7. CASE j = 1
  <2>1. p = RootPrefix(c)
    BY <1>7, <1>1
  <2> QED BY <2>1, <1>1, <1>4, <1>5, <1>6, <1>7, <1>n DEF node
<1>8. CASE j # 1
  <2>1. j - 1 \in 1 .. node.depth
    BY <1>8, <1>1, <1>n
  <2>2. PICK i : i = j - 1
    OBVIOUS
  <2>3. LayerKey(c, p) \in DOMAIN d /\ LayerKey(c, p) \in node.reads
    BY <2>1, <2>2, <1>2, <1>4
  <2>4. p \in PrefixesOf(c)
    BY <2>1, <1>1, <1>4
  <2>5. Ordinary(d, c, p)
    BY <2>3, <1>4 DEF Ordinary
  <2> QED BY <2>3, <2>4, <2>5, <1>1, <1>4, <1>5, <1>6, <1>8, <1>n DEF node
<1> QED BY <1>7, <1>8

\* A directory there was, or the root, when its record is as it was.
LEMMA StillOrdinary ==
  ASSUME NEW d, NEW e, NEW reads, Agree(d, e, reads), NEW c, NEW p, Ordinary(d, c, p), LayerKey(c, p) \in reads
  PROVE  Ordinary(e, c, p)
<1>1. Same(d, e, LayerKey(c, p))
  BY AgreeOnKey
<1>2. LayerKey(c, p) \in DOMAIN e
  BY <1>1 DEF Ordinary, Same
<1> QED BY <1>1, <1>2, SamePartition DEF Ordinary

-----------------------------------------------------------------------------
(* Levels, each reached from the one before by the edges of a finite set:  *)
(* there are no more of them than edges.                                   *)

FirstAt(lv, x, i) == x \in lv[i] /\ \A j \in 0 .. i - 1 : x \notin lv[j]

\* What is on some level is first on one.
LEMMA FirstLevel ==
  ASSUME NEW lv, NEW N \in Nat, NEW x, NEW n \in 0 .. N, x \in lv[n]
  PROVE  \E i \in 0 .. N : FirstAt(lv, x, i)
<1> DEFINE Found == {i \in 0 .. N : x \in lv[i]}
<1>1. Found \subseteq Nat /\ Found # {}
  OBVIOUS
<1>2. PICK i \in Found : i \in Nat /\ \A m \in Found : i <= m
  <2> HIDE DEF Found
  <2> QED BY <1>1, Least
<1>3. \A j \in 0 .. i - 1 : x \notin lv[j]
  <2> SUFFICES ASSUME NEW j \in 0 .. i - 1, x \in lv[j] PROVE FALSE
    OBVIOUS
  <2>1. j \in Found /\ ~(i <= j)
    OBVIOUS
  <2> QED BY <2>1, <1>2
<1> QED BY <1>3 DEF FirstAt

\* What an edge leads to from some level is on some level: a chain of first visits that
\* went beyond the last level would use more edges than there are.
LEMMA LevelsClose ==
  ASSUME NEW K, IsFiniteSet(K), NEW src, NEW dst, NEW lv,
         \A i \in 1 .. Cardinality(K) : lv[i] = {dst[k] : k \in {l \in K : src[l] \in lv[i - 1]}},
         NEW k \in K, NEW n \in 0 .. Cardinality(K), src[k] \in lv[n]
  PROVE  \E i \in 0 .. Cardinality(K) : dst[k] \in lv[i]
<1> DEFINE N == Cardinality(K)
<1>0. N \in Nat
  BY FS_CardinalityType
<1>s. /\ \A i \in 1 .. N : lv[i] = {dst[l] : l \in {m \in K : src[m] \in lv[i - 1]}}
      /\ n \in 0 .. N
  OBVIOUS
<1>g. IsFiniteSet(K) /\ N = Cardinality(K)
  OBVIOUS
<1> HIDE DEF N
<1> SUFFICES ASSUME \A i \in 0 .. N : dst[k] \notin lv[i] PROVE FALSE
  BY DEF N
<1>1. \A i \in 1 .. N : \A x \in lv[i] : \E l \in K : dst[l] = x /\ src[l] \in lv[i - 1]
  BY <1>s
<1>2. \A i \in 1 .. N, l \in K : src[l] \in lv[i - 1] => dst[l] \in lv[i]
  BY <1>s
<1>3. FirstAt(lv, src[k], N)
  <2>1. PICK i \in 0 .. N : FirstAt(lv, src[k], i)
    BY <1>0, <1>s, FirstLevel
  <2>2. CASE i = N
    BY <2>1, <2>2
  <2>3. CASE i # N
    <3>1. i + 1 \in 1 .. N /\ i + 1 - 1 = i /\ i + 1 \in 0 .. N
      BY <2>3, <1>0
    <3>2. src[k] \in lv[i]
      BY <2>1 DEF FirstAt
    <3>3. dst[k] \in lv[i + 1]
      BY <3>1, <3>2, <1>2
    <3> QED BY <3>1, <3>3
  <2> QED BY <2>2, <2>3
\* What is first reached at a level has a parent that is first reached at the one before.
<1>4. ASSUME NEW i \in 1 .. N, NEW x, FirstAt(lv, x, i)
      PROVE  \E l \in K : dst[l] = x /\ FirstAt(lv, src[l], i - 1)
  <2>1. PICK l \in K : dst[l] = x /\ src[l] \in lv[i - 1]
    BY <1>1, <1>4 DEF FirstAt
  <2>2. ASSUME NEW j \in 0 .. (i - 1) - 1, src[l] \in lv[j]
        PROVE  FALSE
    <3>1. j + 1 \in 1 .. N /\ j + 1 - 1 = j /\ j + 1 \in 0 .. i - 1
      BY <1>0
    <3>2. x \in lv[j + 1]
      BY <3>1, <2>1, <2>2, <1>2
    <3> QED BY <3>1, <3>2, <1>4 DEF FirstAt
  <2> QED BY <2>1, <2>2 DEF FirstAt
<1> DEFINE Bad == {t \in Nat : t < N /\ ~ \E l \in K : FirstAt(lv, dst[l], N - t)}
<1>5. Bad = {}
  <2> SUFFICES ASSUME Bad # {} PROVE FALSE
    OBVIOUS
  <2>1. PICK t \in Bad : t \in Nat /\ \A m \in Bad : t <= m
    <3> HIDE DEF Bad
    <3>1. Bad \subseteq Nat
      BY DEF Bad
    <3> QED BY <3>1, Least
  <2>2. t < N /\ ~ \E l \in K : FirstAt(lv, dst[l], N - t)
    OBVIOUS
  <2>3. CASE t = 0
    <3>1. N \in 1 .. N /\ N - 0 = N
      BY <2>2, <2>3, <1>0
    <3>2. \E l \in K : dst[l] = src[k]
      BY <3>1, <1>3, <1>4
    <3> QED BY <3>1, <3>2, <2>2, <2>3, <1>3
  <2>4. CASE t # 0
    <3>1. t - 1 \in Nat /\ ~(t <= t - 1) /\ t - 1 < N
      BY <2>1, <2>2, <2>4, <1>0
    <3>2. PICK l \in K : FirstAt(lv, dst[l], N - (t - 1))
      BY <3>1, <2>1
    <3>3. N - (t - 1) \in 1 .. N /\ N - (t - 1) - 1 = N - t /\ N - t \in 1 .. N
      BY <3>1, <2>1, <2>2, <2>4, <1>0
    <3>4. PICK i : i = N - (t - 1)
      OBVIOUS
    <3>5. PICK m \in K : FirstAt(lv, src[m], N - t)
      BY <3>2, <3>3, <3>4, <1>4
    <3>6. PICK h \in K : dst[h] = src[m]
      BY <3>3, <3>5, <1>4
    <3> QED BY <3>5, <3>6, <2>2
  <2> QED BY <2>3, <2>4
<1>6. \A i \in 1 .. N : \E l \in K : FirstAt(lv, dst[l], i)
  <2> SUFFICES ASSUME NEW i \in 1 .. N PROVE \E l \in K : FirstAt(lv, dst[l], i)
    OBVIOUS
  <2>1. N - i \in Nat /\ N - i < N /\ N - (N - i) = i
    BY <1>0
  <2>2. N - i \notin Bad
    BY <1>5
  <2> QED BY <2>1, <2>2
<1> HIDE DEF Bad
<1> DEFINE at(i) == IF i = N + 1 THEN k ELSE CHOOSE l \in K : FirstAt(lv, dst[l], i)
           f == [i \in 1 .. N + 1 |-> at(i)]
<1>7. \A i \in 1 .. N : at(i) \in K /\ FirstAt(lv, dst[at(i)], i)
  <2> SUFFICES ASSUME NEW i \in 1 .. N PROVE at(i) \in K /\ FirstAt(lv, dst[at(i)], i)
    OBVIOUS
  <2>1. i # N + 1
    BY <1>0
  <2> QED BY <2>1, <1>6
<1>8. at(N + 1) = k
  OBVIOUS
<1> HIDE DEF at
<1>9. ASSUME NEW i \in 1 .. N + 1, NEW j \in 1 .. N + 1, at(i) = at(j), i < j
      PROVE  FALSE
  <2>1. i \in 1 .. N /\ i \in 0 .. j - 1 /\ i \in 0 .. N
    BY <1>9, <1>0
  <2>2. dst[at(i)] \in lv[i]
    BY <2>1, <1>7 DEF FirstAt
  <2>3. CASE j = N + 1
    BY <2>1, <2>2, <2>3, <1>8, <1>9
  <2>4. CASE j # N + 1
    <3>1. j \in 1 .. N
      BY <2>4, <1>0
    <3>2. dst[at(j)] \notin lv[i]
      BY <3>1, <2>1, <1>7 DEF FirstAt
    <3> QED BY <3>2, <2>2, <1>9
  <2> QED BY <2>3, <2>4
<1>10. \A i, j \in 1 .. N + 1 : at(i) = at(j) => i = j
  <2> SUFFICES ASSUME NEW i \in 1 .. N + 1, NEW j \in 1 .. N + 1, at(i) = at(j), i # j PROVE FALSE
    OBVIOUS
  <2>1. i < j \/ j < i
    BY <1>0
  <2> QED BY <2>1, <1>9
<1>11. \A i \in 1 .. N + 1 : at(i) \in K
  <2> SUFFICES ASSUME NEW i \in 1 .. N + 1 PROVE at(i) \in K
    OBVIOUS
  <2>1. i = N + 1 \/ i \in 1 .. N
    BY <1>0
  <2> QED BY <2>1, <1>7, <1>8
<1>12. f \in Injection(1 .. N + 1, K)
  BY <1>10, <1>11 DEF Injection, IsInjective
<1>13. Cardinality(1 .. N + 1) <= Cardinality(K)
  BY <1>12, <1>g, FS_Injection
<1>14. Cardinality(1 .. N + 1) = N + 1
  <2>1. 1 \in Int /\ N + 1 \in Int /\ ~(1 > N + 1) /\ (N + 1) - 1 + 1 = N + 1
    BY <1>0
  <2>2. PICK b : b = N + 1
    OBVIOUS
  <2>3. Cardinality(1 .. b) = IF 1 > b THEN 0 ELSE b - 1 + 1
    BY <2>1, <2>2, FS_Interval
  <2> QED BY <2>1, <2>2, <2>3
<1> QED BY <1>13, <1>14, <1>g, <1>0

-----------------------------------------------------------------------------
(* The directories under one.                                              *)

Descended(d, c, p, n, w) == w = [i \in 0 .. n |-> IF i = 0 THEN {p} ELSE Children(d, c, w[i - 1])]

\* The recursion of Descent has a solution.
LEMMA DescentExists ==
  ASSUME NEW d, NEW c, NEW p, NEW N \in Nat
  PROVE  \E w : Descended(d, c, p, N, w)
<1> DEFINE Bad == {n \in Nat : ~ \E w : Descended(d, c, p, n, w)}
<1> SUFFICES ASSUME Bad # {} PROVE FALSE
  OBVIOUS
<1>1. PICK n \in Bad : n \in Nat /\ \A m \in Bad : n <= m
  <2> HIDE DEF Bad
  <2>1. Bad \subseteq Nat
    BY DEF Bad
  <2> QED BY <2>1, Least
<1>2. CASE n = 0
  <2> DEFINE w == [i \in 0 .. 0 |-> {p}]
  <2>1. Descended(d, c, p, 0, w)
    BY DEF Descended
  <2> QED BY <2>1, <1>2
<1>3. CASE n # 0
  <2>1. n - 1 \in Nat /\ ~(n <= n - 1)
    BY <1>1, <1>3
  <2>2. PICK w : Descended(d, c, p, n - 1, w)
    BY <2>1, <1>1
  <2> DEFINE v == [i \in 0 .. n |-> IF i = 0 THEN {p} ELSE Children(d, c, w[i - 1])]
  <2>3. \A i \in 0 .. n - 1 : v[i] = w[i]
    <3>1. w = [i \in 0 .. n - 1 |-> IF i = 0 THEN {p} ELSE Children(d, c, w[i - 1])]
      BY <2>2 DEF Descended
    <3> SUFFICES ASSUME NEW i \in 0 .. n - 1 PROVE v[i] = w[i]
      OBVIOUS
    <3>2. w[i] = IF i = 0 THEN {p} ELSE Children(d, c, w[i - 1])
      BY <3>1
    <3>3. v[i] = IF i = 0 THEN {p} ELSE Children(d, c, w[i - 1])
      BY <2>1
    <3> QED BY <3>2, <3>3
  <2>4. \A i \in 0 .. n : v[i] = IF i = 0 THEN {p} ELSE Children(d, c, w[i - 1])
    OBVIOUS
  <2>5. v = [i \in 0 .. n |-> v[i]]
    OBVIOUS
  <2> HIDE DEF v
  <2>6. \A i \in 1 .. n : v[i - 1] = w[i - 1]
    BY <2>3, <2>1
  <2>7. \A i \in 0 .. n : v[i] = IF i = 0 THEN {p} ELSE Children(d, c, v[i - 1])
    <3> SUFFICES ASSUME NEW i \in 0 .. n
                 PROVE  v[i] = IF i = 0 THEN {p} ELSE Children(d, c, v[i - 1])
      OBVIOUS
    <3>1. CASE i = 0
      BY <2>4, <3>1
    <3>2. CASE i # 0
      <4>1. i \in 1 .. n
        BY <3>2
      <4>2. v[i - 1] = w[i - 1]
        BY <2>6, <4>1
      <4> QED BY <2>4, <3>2, <4>2
    <3> QED BY <3>1, <3>2
  <2>8. v = [i \in 0 .. n |-> IF i = 0 THEN {p} ELSE Children(d, c, v[i - 1])]
    BY <2>5, <2>7
  <2> QED BY <2>8, Zenon DEF Descended
<1> QED BY <1>2, <1>3

\* Descent is the directory and the levels under it.
LEMMA DescentDef ==
  ASSUME NEW d, NEW c, NEW p, Cardinality(SubsIn(d, c)) \in Nat
  PROVE  /\ DOMAIN Descent(d, c, p) = 0 .. Cardinality(SubsIn(d, c))
         /\ Descent(d, c, p)[0] = {p}
         /\ \A i \in 1 .. Cardinality(SubsIn(d, c)) :
              Descent(d, c, p)[i] = Children(d, c, Descent(d, c, p)[i - 1])
<1>1. PICK w : Descended(d, c, p, Cardinality(SubsIn(d, c)), w)
  BY DescentExists
<1>2. Descended(d, c, p, Cardinality(SubsIn(d, c)), Descent(d, c, p))
  BY <1>1, Zenon DEF Descent, Descended
<1>3. PICK v : v = Descent(d, c, p)
  OBVIOUS
<1>4. PICK n \in Nat : n = Cardinality(SubsIn(d, c))
  OBVIOUS
<1>5. v = [i \in 0 .. n |-> IF i = 0 THEN {p} ELSE Children(d, c, v[i - 1])]
  BY <1>2, <1>3, <1>4 DEF Descended
<1>6. DOMAIN v = 0 .. n /\ v[0] = {p} /\ \A i \in 1 .. n : v[i] = Children(d, c, v[i - 1])
  <2>1. DOMAIN v = 0 .. n
    BY <1>5
  <2>2. \A i \in 0 .. n : v[i] = IF i = 0 THEN {p} ELSE Children(d, c, v[i - 1])
    BY <1>5
  <2>3. v[0] = {p}
    BY <2>2
  <2>4. ASSUME NEW i \in 1 .. n
        PROVE  v[i] = Children(d, c, v[i - 1])
    <3>1. i \in 0 .. n /\ i # 0
      OBVIOUS
    <3> QED BY <3>1, <2>2
  <2> QED BY <2>1, <2>3, <2>4
<1> QED BY <1>3, <1>4, <1>6, Zenon

\* All that is under a directory, and nothing else.
LEMMA SubtreeFacts ==
  ASSUME NEW d, NodesOK(d), NEW c \in Layers, NEW p \in PrefixesOf(c)
  PROVE  /\ p \in Subtree(d, c, p)
         /\ Subtree(d, c, p) \subseteq PrefixesOf(c)
         /\ \A k \in SubsIn(d, c) : k[3] \in Subtree(d, c, p) => d[k] \in Subtree(d, c, p)
         /\ \A q \in Subtree(d, c, p) :
              q = p \/ \E k \in SubsIn(d, c) : k[3] \in Subtree(d, c, p) /\ d[k] = q
<1> DEFINE K == SubsIn(d, c)
           N == Cardinality(K)
           lv == Descent(d, c, p)
           U == Subtree(d, c, p)
           src == [k \in K |-> k[3]]
           dst == [k \in K |-> d[k]]
<1>1. IsFiniteSet(K)
  BY FS_Subset DEF NodesOK, SubsIn
<1>2. N \in Nat
  BY <1>1, FS_CardinalityType
<1>3. /\ DOMAIN lv = 0 .. N /\ lv[0] = {p}
      /\ \A i \in 1 .. N : lv[i] = Children(d, c, lv[i - 1])
  BY <1>2, DescentDef
<1>4. \A i \in 1 .. N : lv[i] = {dst[k] : k \in {l \in K : src[l] \in lv[i - 1]}}
  <2> SUFFICES ASSUME NEW i \in 1 .. N
               PROVE  lv[i] = {dst[k] : k \in {l \in K : src[l] \in lv[i - 1]}}
    OBVIOUS
  <2>1. lv[i] = Children(d, c, lv[i - 1])
    BY <1>3
  <2> HIDE DEF lv, N
  <2>2. Children(d, c, lv[i - 1]) = {d[k] : k \in {l \in K : l[3] \in lv[i - 1]}}
    BY DEF Children
  <2>3. {l \in K : src[l] \in lv[i - 1]} = {l \in K : l[3] \in lv[i - 1]}
    OBVIOUS
  <2>4. {dst[k] : k \in {l \in K : l[3] \in lv[i - 1]}} = {d[k] : k \in {l \in K : l[3] \in lv[i - 1]}}
    OBVIOUS
  <2> QED BY <2>1, <2>2, <2>3, <2>4
<1>5. \A x : x \in U <=> \E i \in 0 .. N : x \in lv[i]
  BY <1>3 DEF Subtree
<1>6. \A k \in K : src[k] = k[3] /\ dst[k] = d[k] /\ d[k] \in PrefixesOf(c)
  BY DEF SubsIn, NodesOK, Typed, SubTyped
<1>7. 0 \in 0 .. N
  BY <1>2
<1>8. \A i \in 1 .. N : i - 1 \in 0 .. N
  BY <1>2
<1> HIDE DEF lv, U, src, dst
<1>9. p \in U
  BY <1>3, <1>5, <1>7
<1>10. \A q \in U : q = p \/ \E k \in K : k[3] \in U /\ d[k] = q
  <2> SUFFICES ASSUME NEW q \in U, q # p PROVE \E k \in K : k[3] \in U /\ d[k] = q
    OBVIOUS
  <2>1. PICK i \in 0 .. N : q \in lv[i]
    BY <1>5
  <2>2. i \in 1 .. N
    <3>1. i # 0
      BY <2>1, <1>3
    <3> QED BY <3>1, <1>2
  <2>3. PICK k \in K : src[k] \in lv[i - 1] /\ dst[k] = q
    BY <2>1, <2>2, <1>4
  <2> QED BY <2>2, <2>3, <1>5, <1>6, <1>8
<1>11. U \subseteq PrefixesOf(c)
  BY <1>6, <1>10
<1>12. ASSUME NEW k \in K, k[3] \in U
       PROVE  d[k] \in U
  <2>1. PICK n \in 0 .. N : src[k] \in lv[n]
    BY <1>5, <1>6, <1>12
  <2>2. \E i \in 0 .. N : dst[k] \in lv[i]
    BY <1>1, <1>4, <2>1, LevelsClose
  <2> QED BY <2>2, <1>5, <1>6
<1> QED BY <1>9, <1>10, <1>11, <1>12 DEF U

-----------------------------------------------------------------------------
(* The writes of attempts.                                                 *)

\* The versions that an attempt puts.
LEMMA VersionsNew ==
  ASSUME NEW d, NEW e, NEW at, Handed(e, at), NEW reads, at.reads \subseteq reads, Agree(d, e, reads)
  PROVE  /\ IsFiniteSet(DOMAIN Versions(d, at.layers))
         /\ \A k \in DOMAIN Versions(d, at.layers) :
              /\ k \notin DOMAIN e /\ k[1] = "version" /\ k[2] \in Layers /\ k = VersionKey(k[2])
              /\ Live(e, k[2]) /\ IsPrefix(k[2], at.c)
<1> DEFINE V == DOMAIN Versions(d, at.layers)
           f == [l \in at.layers |-> VersionKey(l)]
<1>1. \A k \in V : k \notin DOMAIN d /\ \E l \in at.layers : k = VersionKey(l)
  BY ONLY VersionsFacts
<1>2. IsFiniteSet(V)
  <2>1. IsFiniteSet({f[l] : l \in DOMAIN f})
    BY FiniteRange DEF Handed
  <2>2. V \subseteq {f[l] : l \in DOMAIN f}
    BY <1>1
  <2> HIDE DEF V, f
  <2> QED BY <2>1, <2>2, FS_Subset
<1>3. ASSUME NEW k \in V
      PROVE  /\ k \notin DOMAIN e /\ k[1] = "version" /\ k[2] \in Layers /\ k = VersionKey(k[2])
             /\ Live(e, k[2]) /\ IsPrefix(k[2], at.c)
  <2>1. PICK l \in at.layers : k = VersionKey(l)
    BY <1>1
  <2>2. l \in Layers /\ IsPrefix(l, at.c) /\ Live(e, l) /\ k \in reads
    BY <2>1 DEF Handed
  <2>3. k[1] = "version" /\ k[2] = l
    BY <2>1, KeyFields
  <2>4. Same(d, e, k)
    BY <2>2, AgreeOnKey
  <2>5. k \notin DOMAIN e
    BY <2>4, <1>1 DEF Same
  <2> QED BY <2>1, <2>2, <2>3, <2>5
<1> QED BY <1>2, <1>3

\* The last name of a path that leads to a directory of the layer.
LEMMA LastStep ==
  ASSUME NEW d, NodesOK(d), NEW c \in Layers, NEW path \in Seq(Names), path # <<>>,
         Find(d, c, path).prefix # None, ~InPartition(d, c, Find(d, c, path), path)
  PROVE  LET node == Find(d, c, path)
             old == SubKey(c, Find(d, c, Parent(path)).prefix, Last(path))
         IN /\ old \in Subs(d) /\ old \in node.reads /\ d[old] = node.prefix
            /\ node.prefix \in PrefixesOf(c)
            /\ LayerKey(c, node.prefix) \in DOMAIN d /\ LayerKey(c, node.prefix) \in node.reads
            /\ node.depth = Len(path) /\ Len(path) \in Nat \ {0}
            /\ node.prefix = At(d, c, path, Len(path))
<1> DEFINE node == Find(d, c, path)
           L == Len(path)
<1>t. Typed(d)
  BY DEF NodesOK
<1>1. L \in Nat /\ L # 0
  BY LenProperties, EmptySeq
<1>2. /\ node.depth \in 0 .. L
      /\ node.prefix = At(d, c, path, node.depth)
      /\ node.depth < L => node.prefix = None \/ IsPartition(d, c, node.prefix)
  BY <1>t, FindFacts
<1>3. node.depth = L
  BY <1>1, <1>2 DEF InPartition
<1>4. L \in 1 .. node.depth
  BY <1>1, <1>3
<1>5. PICK p : p = At(d, c, path, L - 1)
  OBVIOUS
<1>6. PICK k : k = SubKey(c, p, path[L])
  OBVIOUS
<1>7. /\ k \in node.reads /\ At(d, c, path, L) \in PrefixesOf(c) \cup {None}
      /\ At(d, c, path, L) # None => /\ k \in Subs(d) /\ d[k] = At(d, c, path, L)
                                     /\ LayerKey(c, At(d, c, path, L)) \in DOMAIN d
                                     /\ LayerKey(c, At(d, c, path, L)) \in node.reads
  BY <1>4, <1>5, <1>6, Trail
<1>8. Find(d, c, Parent(path)).prefix = p
  <2>1. L - 1 \in 0 .. Len(path)
    BY <1>1
  <2>2. Find(d, c, SubSeq(path, 1, L - 1)).prefix = At(d, c, path, L - 1)
    BY <2>1, FindShorter
  <2> QED BY <2>2, <1>5 DEF Parent
<1>9. SubKey(c, Find(d, c, Parent(path)).prefix, Last(path)) = k
  BY <1>6, <1>8 DEF Last
<1> HIDE DEF node
<1>10. node.prefix = At(d, c, path, L) /\ node.prefix # None
  BY <1>2, <1>3 DEF node
<1> QED BY <1>1, <1>3, <1>7, <1>9, <1>10 DEF node

-----------------------------------------------------------------------------
(* A removal.                                                              *)

\* A removal that is committed leaves the database in order.
LEMMA RemoveWrites ==
  ASSUME NEW d, NodesOK(d), NEW at, at.c \in Layers, at.path \in Seq(Names), at.path # <<>>,
         Find(d, at.c, at.path).prefix # None, ~InPartition(d, at.c, Find(d, at.c, at.path), at.path),
         NEW D, D = Subtree(d, at.c, Find(d, at.c, at.path).prefix),
         NEW a, a.puts = Versions(d, at.layers),
         a.clears = Removed(at.c, D)
                    \cup ClearedFromParent(at.c, Find(d, at.c, Parent(at.path)).prefix, Last(at.path)),
         a.reads = at.reads \cup Find(d, at.c, at.path).reads \cup ListedSubs(at.c, D),
         NEW e, NodesOK(e), Handed(e, at), Agree(d, e, a.reads)
  PROVE  NodesOK(Written(e, a))
<1> DEFINE c == at.c
           node == Find(d, c, at.path)
<1>1. PICK old : old = SubKey(c, Find(d, c, Parent(at.path)).prefix, Last(at.path))
  OBVIOUS
<1>2. /\ old \in Subs(d) /\ old \in node.reads /\ d[old] = node.prefix /\ node.prefix \in PrefixesOf(c)
  BY <1>1, LastStep
<1>3. old[1] = "sub" /\ old[2] = c
  BY <1>1, KeyFields
<1>4. /\ node.prefix \in D /\ D \subseteq PrefixesOf(c)
      /\ \A k \in SubsIn(d, c) : k[3] \in D => d[k] \in D
      /\ \A q \in D : q = node.prefix \/ \E k \in SubsIn(d, c) : k[3] \in D /\ d[k] = q
  BY <1>2, SubtreeFacts
<1>5. a.clears = {NodeOf(c, p) : p \in D} \cup {AllAt(p) : p \in D} \cup {old}
  BY <1>1 DEF Removed, ClearedFromParent
<1>6. at.reads \subseteq a.reads /\ node.reads \subseteq a.reads /\ \A p \in D : SubsOf(c, p) \in a.reads
  BY DEF ListedSubs
<1> DEFINE V == DOMAIN Versions(d, at.layers)
           w == Written(e, a)
           x == Without(w, V)
<1>v. /\ IsFiniteSet(V)
      /\ \A k \in V : /\ k \notin DOMAIN e /\ k[1] = "version" /\ k[2] \in Layers /\ k = VersionKey(k[2])
                      /\ Live(e, k[2]) /\ IsPrefix(k[2], c)
  BY <1>6, VersionsNew
<1>w. /\ \A k : k \in DOMAIN w <=> (k \in V \/ (k \in DOMAIN e /\ ~InSome(k, a.clears)))
      /\ \A k \in DOMAIN w : k \notin V => w[k] = e[k]
  <2>1. DOMAIN a.puts = V
    OBVIOUS
  <2>2. /\ \A k : k \in DOMAIN Written(e, a) <=> (k \in DOMAIN a.puts \/ (k \in DOMAIN e /\ ~InSome(k, a.clears)))
        /\ \A k \in DOMAIN Written(e, a) : k \notin DOMAIN a.puts => Written(e, a)[k] = e[k]
    BY ONLY WrittenFacts
  <2> HIDE DEF V
  <2> QED BY <2>1, <2>2, Zenon
<1>h. D # {} /\ c \in Layers
  BY <1>4
<1> HIDE DEF V, w, node, c
<1>x. DOMAIN x = DOMAIN w \ V /\ \A k \in DOMAIN x : x[k] = w[k]
  BY DEF Without
<1> HIDE DEF x
<1>7. Same(d, e, old)
  BY <1>2, <1>6, AgreeOnKey
<1>8. ASSUME NEW k, k[1] = "sub", k[2] = c, k[3] \in D
      PROVE  Same(d, e, k)
  <2>1. SubsOf(c, k[3]) \in a.reads
    BY <1>6, <1>8
  <2> QED BY <2>1, <1>8, AgreeOnSubs
<1>9. ASSUME NEW k \in DOMAIN e
      PROVE  InSome(k, a.clears) <=> Gone(c, old, D, k)
  <2>1. k[1] \in KeyKinds /\ k[2] \in Layers /\ Typed(e)
    BY DEF NodesOK, Typed
  <2>2. InRange(k, old) <=> k = old
    BY <1>3, InKey DEF KeyKinds
  <2>3. \A p \in D : InRange(k, AllAt(p)) <=> IsPrefix(p, k[2])
    BY <2>1, <1>4, <1>h, InAllAt, StartsIsUnder
  <2>4. \A p \in D : InRange(k, NodeOf(c, p)) <=> k[1] \in {"sub", "layer"} /\ k[2] = c /\ k[3] = p
    BY <2>1, InNodeOf
  <2>5. InSome(k, a.clears) <=> \/ \E p \in D : InRange(k, NodeOf(c, p))
                                \/ \E p \in D : InRange(k, AllAt(p))
                                \/ InRange(k, old)
    BY <1>5 DEF InSome
  <2>6. (\E p \in D : InRange(k, AllAt(p))) <=> Under(D, k[2])
    BY <2>3 DEF Under
  <2>7. (\E p \in D : InRange(k, NodeOf(c, p))) <=> k[1] \in {"sub", "layer"} /\ k[2] = c /\ k[3] \in D
    BY <2>4
  <2> QED BY <2>2, <2>5, <2>6, <2>7 DEF Gone
<1>10. RemovedAll(e, x, c, old, D)
  <2>1. old \in Subs(e) /\ e[old] = node.prefix
    BY <1>2, <1>3, <1>7 DEF Same, Subs
  <2>2. \A k \in Subs(e) : k[2] = c /\ k[3] \in D => d[k] \in D /\ e[k] = d[k]
    BY <1>4, <1>8 DEF Subs, SubsIn, Same
  <2>3. \A q \in D : q = node.prefix \/ \E k \in Subs(e) : k[2] = c /\ k[3] \in D /\ e[k] = q
    BY <1>4, <1>8 DEF Subs, SubsIn, Same
  <2>4. \A k \in DOMAIN e : k \in DOMAIN x <=> ~Gone(c, old, D, k)
    BY <1>9, <1>v, <1>w, <1>x
  <2>5. DOMAIN x \subseteq DOMAIN e
    BY <1>w, <1>x
  <2>6. \A k \in DOMAIN x : x[k] = e[k]
    BY <1>w, <1>x
  <2>7. \A k \in Subs(e) : k[2] = c /\ k[3] \in D => e[k] \in D
    BY <2>2
  <2>8. \A p \in D : p = e[old] \/ \E k \in Subs(e) : k[2] = c /\ k[3] \in D /\ e[k] = p
    BY <2>1, <2>3
  <2>9. c \in Layers /\ D \subseteq PrefixesOf(c) /\ old[2] = c /\ e[old] \in D
    BY <1>h, <1>3, <1>4, <2>1
  <2> QED BY <2>1, <2>4, <2>5, <2>6, <2>7, <2>8, <2>9, Zenon DEF RemovedAll
<1>11. NodesOK(x)
  BY <1>10, RemovalKeeps
<1>12. ASSUME NEW l \in Layers, IsPrefix(l, c)
       PROVE  ~Under(D, l)
  <2> SUFFICES ASSUME NEW p \in D, IsPrefix(p, l) PROVE FALSE
    BY DEF Under
  <2>1. p \in PrefixesOf(c) /\ p \in Seq(Nat) /\ l \in Seq(Nat) /\ c \in Seq(Nat)
    BY <1>4, <1>h, PrefixFacts, Constants
  <2>2. IsPrefix(p, c)
    BY <2>1, <1>12, PrefixOrder
  <2> QED BY <2>1, <2>2, <1>h, Beginnings
<1>13. \A k \in V : k[1] = "version" /\ k[2] \in Layers /\ k = VersionKey(k[2]) /\ Live(x, k[2])
  BY <1>v, <1>10, <1>12, LiveSurvives
<1> QED BY <1>v, <1>11, <1>13, WithVersions DEF x, w

-----------------------------------------------------------------------------
(* A move.                                                                 *)

\* Two paths that lead to one directory are the same that far.
LEMMA SameWay ==
  ASSUME NEW d, NodesOK(d), NEW c \in Layers, NEW path \in Seq(Names), NEW to \in Seq(Names),
         NEW L \in 1 .. Find(d, c, path).depth, NEW J \in 1 .. Find(d, c, to).depth,
         At(d, c, path, L) = At(d, c, to, J), At(d, c, path, L) # None
  PROVE  L = J /\ \A i \in 1 .. L : path[i] = to[i]
<1> DEFINE m == Find(d, c, path).depth
           n == Find(d, c, to).depth
           P(i) == At(d, c, path, i)
           Q(i) == At(d, c, to, i)
           Held(i) == P(L - i) = Q(J - i) /\ P(L - i) # None /\ (i # 0 => path[L - i + 1] = to[J - i + 1])
           Bad == {i \in Nat : i <= L /\ i <= J /\ ~Held(i)}
<1>t. Typed(d)
  BY DEF NodesOK
<1>1. /\ m \in Nat /\ n \in Nat /\ P(0) = RootPrefix(c) /\ Q(0) = RootPrefix(c)
      /\ \A i \in 1 .. m : P(i) \in PrefixesOf(c) \cup {None}
      /\ \A i \in 1 .. n : Q(i) \in PrefixesOf(c) \cup {None}
  BY <1>t, FindFacts
<1>0. L \in 1 .. m /\ J \in 1 .. n /\ L \in Nat /\ J \in Nat
  BY <1>1
<1>r. \A q \in PrefixesOf(c) \cup {None} : q # RootPrefix(c)
  BY RootPrefixFacts
<1>2. ASSUME NEW i \in 1 .. m
      PROVE  P(i - 1) # None /\ (P(i) # None => SubKey(c, P(i - 1), path[i]) \in Subs(d)
                                               /\ d[SubKey(c, P(i - 1), path[i])] = P(i))
  <2>1. \A q \in PrefixesOf(c) \cup {RootPrefix(c)} : q # None
    BY PrefixFacts, RootPrefixFacts
  <2> QED BY <2>1, Trail
<1>3. ASSUME NEW i \in 1 .. n
      PROVE  Q(i - 1) # None /\ (Q(i) # None => SubKey(c, Q(i - 1), to[i]) \in Subs(d)
                                               /\ d[SubKey(c, Q(i - 1), to[i])] = Q(i))
  <2>1. \A q \in PrefixesOf(c) \cup {RootPrefix(c)} : q # None
    BY PrefixFacts, RootPrefixFacts
  <2> QED BY <2>1, Trail
<1>h. P(L) = Q(J) /\ P(L) # None
  OBVIOUS
<1> HIDE DEF m, n, P, Q
<1>4. Bad = {}
  <2> SUFFICES ASSUME Bad # {} PROVE FALSE
    OBVIOUS
  <2>1. PICK i \in Bad : i \in Nat /\ \A h \in Bad : i <= h
    <3> HIDE DEF Bad
    <3>1. Bad \subseteq Nat
      BY DEF Bad
    <3> QED BY <3>1, Least
  <2>2. i <= L /\ i <= J /\ ~Held(i)
    OBVIOUS
  <2>3. i # 0
    <3>1. L - 0 = L /\ J - 0 = J
      BY <1>0
    <3> QED BY <3>1, <2>2, <1>h
  <2>4. i - 1 \in Nat /\ ~(i <= i - 1) /\ i - 1 <= L /\ i - 1 <= J
    BY <2>1, <2>2, <2>3, <1>0
  <2>5. Held(i - 1)
    BY <2>1, <2>4
  <2>6. /\ L - (i - 1) = L - i + 1 /\ J - (i - 1) = J - i + 1
        /\ (L - i + 1) - 1 = L - i /\ (J - i + 1) - 1 = J - i
        /\ L - i + 1 \in 1 .. m /\ J - i + 1 \in 1 .. n
    BY <2>1, <2>2, <2>3, <1>0, <1>1
  <2>7. PICK l : l = L - i + 1
    OBVIOUS
  <2>8. PICK j : j = J - i + 1
    OBVIOUS
  <2>9. /\ l \in 1 .. m /\ j \in 1 .. n /\ l - 1 = L - i /\ j - 1 = J - i
        /\ P(l) = Q(j) /\ P(l) # None
    BY <2>5, <2>6, <2>7, <2>8
  <2>10. PICK k1 \in Subs(d) : k1 = SubKey(c, P(l - 1), path[l]) /\ d[k1] = P(l)
    BY <2>9, <1>2
  <2>11. PICK k2 \in Subs(d) : k2 = SubKey(c, Q(j - 1), to[j]) /\ d[k2] = Q(j)
    BY <2>9, <1>3
  <2>12. k1 = k2
    BY <2>9, <2>10, <2>11 DEF NodesOK, OneParent
  <2>13. P(l - 1) = Q(j - 1) /\ path[l] = to[j]
    <3>a. k1 = SubKey(c, P(l - 1), path[l])
      BY <2>10
    <3>b. k2 = SubKey(c, Q(j - 1), to[j])
      BY <2>11
    <3>1. k1[3] = P(l - 1) /\ k1[4] = path[l]
      <4>1. PICK p, x : p = P(l - 1) /\ x = path[l]
        OBVIOUS
      <4>2. k1 = SubKey(c, p, x)
        BY <3>a, <4>1, Zenon
      <4>3. k1[3] = p /\ k1[4] = x
        BY <4>2 DEF SubKey
      <4> QED BY <4>1, <4>3, Zenon
    <3>2. k2[3] = Q(j - 1) /\ k2[4] = to[j]
      <4>1. PICK p, x : p = Q(j - 1) /\ x = to[j]
        OBVIOUS
      <4>2. k2 = SubKey(c, p, x)
        BY <3>b, <4>1, Zenon
      <4>3. k2[3] = p /\ k2[4] = x
        BY <4>2 DEF SubKey
      <4> QED BY <4>1, <4>3, Zenon
    <3> QED BY <3>1, <3>2, <2>12
  <2>14. P(l - 1) # None
    BY <2>9, <1>2
  <2> QED BY <2>2, <2>7, <2>8, <2>9, <2>13, <2>14
<1>5. ASSUME NEW i \in Nat, i <= L, i <= J
      PROVE  Held(i)
  BY <1>4, <1>5
<1> HIDE DEF Bad
<1>6. ~(L < J)
  <2> SUFFICES ASSUME L < J PROVE FALSE
    OBVIOUS
  <2>1. Held(L)
    BY <1>0, <1>5
  <2>2. L - L = 0 /\ J - L \in 1 .. n
    BY <1>0, <1>1
  <2>3. P(0) = Q(J - L)
    BY <2>1, <2>2
  <2> QED BY <2>2, <2>3, <1>1, <1>r
<1>7. ~(J < L)
  <2> SUFFICES ASSUME J < L PROVE FALSE
    OBVIOUS
  <2>1. Held(J)
    BY <1>0, <1>5
  <2>2. J - J = 0 /\ L - J \in 1 .. m
    BY <1>0, <1>1
  <2>3. P(L - J) = Q(0)
    BY <2>1, <2>2
  <2> QED BY <2>2, <2>3, <1>1, <1>r
<1>8. L = J
  BY <1>0, <1>6, <1>7
<1>9. ASSUME NEW i \in 1 .. L
      PROVE  path[i] = to[i]
  <2>1. L - i + 1 \in Nat /\ L - i + 1 <= L /\ L - i + 1 # 0 /\ L - (L - i + 1) + 1 = i
    BY <1>0
  <2>2. PICK h : h = L - i + 1
    OBVIOUS
  <2>3. Held(h)
    BY <2>1, <2>2, <1>5, <1>8
  <2> QED BY <2>1, <2>2, <2>3, <1>8
<1> QED BY <1>8, <1>9

\* The parent of a path that does not exist yet.
LEMMA ParentStep ==
  ASSUME NEW d, NodesOK(d), NEW c \in Layers, NEW to \in Seq(Names),
         Find(d, c, to).prefix = None, Find(d, c, Parent(to)).prefix # None
  PROVE  LET node == Find(d, c, to)
             q == Find(d, c, Parent(to)).prefix
             new == SubKey(c, q, Last(to))
         IN /\ new \notin DOMAIN d /\ new \in node.reads
            /\ \/ q = RootPrefix(c)
               \/ Ordinary(d, c, q) /\ LayerKey(c, q) \in node.reads
            /\ node.depth = Len(to) /\ Len(to) \in Nat \ {0}
            /\ q = At(d, c, to, Len(to) - 1)
<1> DEFINE node == Find(d, c, to)
           L == Len(to)
<1>t. Typed(d)
  BY DEF NodesOK
<1>1. /\ L \in Nat /\ node.depth \in 0 .. L
      /\ node.prefix = At(d, c, to, node.depth)
      /\ At(d, c, to, 0) = RootPrefix(c)
      /\ \A j \in node.depth .. L : At(d, c, to, j) = node.prefix
  BY <1>t, FindFacts
<1>2. L # 0
  <2> SUFFICES ASSUME L = 0 PROVE FALSE
    OBVIOUS
  <2>1. node.depth = 0
    BY <1>1
  <2>2. RootPrefix(c) = None
    BY <2>1, <1>1
  <2> QED BY <2>2, RootPrefixFacts
<1>3. PICK q : q = At(d, c, to, L - 1)
  OBVIOUS
<1>4. Find(d, c, Parent(to)).prefix = q
  <2>1. L - 1 \in 0 .. Len(to)
    BY <1>1, <1>2
  <2>2. Find(d, c, SubSeq(to, 1, L - 1)).prefix = At(d, c, to, L - 1)
    BY <2>1, FindShorter
  <2> QED BY <2>2, <1>3 DEF Parent
<1>5. node.depth = L
  <2> SUFFICES ASSUME node.depth # L PROVE FALSE
    OBVIOUS
  <2>1. L - 1 \in node.depth .. L
    BY <1>1, <1>2
  <2>2. q = None
    BY <2>1, <1>1, <1>3
  <2> QED BY <2>2, <1>4
<1>6. L \in 1 .. node.depth
  BY <1>1, <1>2, <1>5
<1>7. PICK k : k = SubKey(c, q, to[L])
  OBVIOUS
<1>8. /\ k \in node.reads /\ (At(d, c, to, L) = None => k \notin DOMAIN d)
      /\ q = RootPrefix(c) \/ (Ordinary(d, c, q) /\ LayerKey(c, q) \in node.reads)
  BY <1>6, <1>3, <1>7, Trail
<1>9. At(d, c, to, L) = None
  BY <1>1, <1>5
<1>10. SubKey(c, Find(d, c, Parent(to)).prefix, Last(to)) = k
  BY <1>4, <1>7 DEF Last
<1> HIDE DEF node
<1> QED BY <1>1, <1>2, <1>3, <1>4, <1>5, <1>8, <1>9, <1>10 DEF node

\* A move that is committed leaves the database in order.
LEMMA MoveWrites ==
  ASSUME NEW d, NodesOK(d), NEW at, at.c \in Layers, at.path \in Seq(Names), at.to \in Seq(Names),
         ~IsPrefix(at.path, at.to),
         Find(d, at.c, at.path).prefix # None, ~InPartition(d, at.c, Find(d, at.c, at.path), at.path),
         Find(d, at.c, at.to).prefix = None, Find(d, at.c, Parent(at.to)).prefix # None,
         NEW puts, DOMAIN puts = {SubKey(at.c, Find(d, at.c, Parent(at.to)).prefix, Last(at.to))},
         \A k \in DOMAIN puts : puts[k] = Find(d, at.c, at.path).prefix,
         NEW a, a.puts = Over(puts, Versions(d, at.layers)),
         a.clears = ClearedFromParent(at.c, Find(d, at.c, Parent(at.path)).prefix, Last(at.path)),
         a.reads = at.reads \cup Find(d, at.c, at.path).reads \cup Find(d, at.c, at.to).reads,
         NEW e, NodesOK(e), Handed(e, at), Agree(d, e, a.reads)
  PROVE  NodesOK(Written(e, a))
<1> DEFINE c == at.c
           node == Find(d, c, at.path)
           dest == Find(d, c, at.to)
           L == Len(at.path)
           n == Len(at.to) - 1
<1>0. Typed(d) /\ c \in Layers
  BY DEF NodesOK
<1>1. at.path # <<>>
  <2>1. Len(<<>>) = 0 /\ <<>> \in Seq(Names) /\ Len(at.to) \in Nat
    BY EmptySeq, LenProperties
  <2>2. IsPrefix(<<>>, at.to)
    <3>1. PICK s : s = <<>>
      OBVIOUS
    <3>2. s \in Seq(Names) /\ Len(s) = 0
      BY <2>1, <3>1
    <3>3. IsPrefix(s, at.to)
      <4>1. Len(s) <= Len(at.to) /\ \A i \in 1 .. Len(s) : s[i] = at.to[i]
        BY <2>1, <3>2
      <4> QED BY <4>1, <3>2, PrefixByPosition
    <3> QED BY <3>1, <3>3, Zenon
  <2> QED BY <2>2
<1>2. PICK old : old = SubKey(c, Find(d, c, Parent(at.path)).prefix, Last(at.path))
  OBVIOUS
<1>3. /\ old \in Subs(d) /\ old \in node.reads /\ d[old] = node.prefix /\ node.prefix \in PrefixesOf(c)
      /\ node.depth = L /\ L \in Nat \ {0} /\ node.prefix = At(d, c, at.path, L)
  BY <1>1, <1>2, LastStep
<1>4. PICK q : q = Find(d, c, Parent(at.to)).prefix
  OBVIOUS
<1>5. PICK x : x = Last(at.to)
  OBVIOUS
<1>6. PICK new : new = SubKey(c, q, x)
  OBVIOUS
<1>7. /\ new \notin DOMAIN d /\ new \in dest.reads
      /\ q = RootPrefix(c) \/ (Ordinary(d, c, q) /\ LayerKey(c, q) \in dest.reads)
      /\ dest.depth = Len(at.to) /\ Len(at.to) \in Nat \ {0} /\ q = At(d, c, at.to, n)
  BY <1>4, <1>5, <1>6, ParentStep
<1>8. old[1] = "sub" /\ old[2] = c /\ new[1] = "sub" /\ new[2] = c /\ new[3] = q
  BY <1>2, <1>6, KeyFields
<1>9. /\ DOMAIN puts = {new} /\ puts[new] = node.prefix /\ a.clears = {old}
      /\ at.reads \subseteq a.reads /\ node.reads \subseteq a.reads /\ dest.reads \subseteq a.reads
  BY <1>2, <1>4, <1>5, <1>6 DEF ClearedFromParent
<1>10. \A j \in 1 .. n : /\ At(d, c, at.to, j) # node.prefix
                         /\ \E k \in Subs(d) : /\ k \in dest.reads /\ k[3] = At(d, c, at.to, j - 1)
                                               /\ d[k] = At(d, c, at.to, j)
  <2> SUFFICES ASSUME NEW j \in 1 .. n
               PROVE  /\ At(d, c, at.to, j) # node.prefix
                      /\ \E k \in Subs(d) : /\ k \in dest.reads /\ k[3] = At(d, c, at.to, j - 1)
                                            /\ d[k] = At(d, c, at.to, j)
    OBVIOUS
  <2>1. j \in 1 .. dest.depth /\ j + 1 \in 1 .. dest.depth /\ j + 1 - 1 = j
    BY <1>7
  <2>2. PICK i : i = j + 1
    OBVIOUS
  <2>3. At(d, c, at.to, i - 1) \in PrefixesOf(c) \cup {RootPrefix(c)}
    BY <2>1, <2>2, Trail
  <2>4. At(d, c, at.to, j) # None
    BY <2>1, <2>2, <2>3, <1>0, PrefixFacts, RootPrefixFacts
  <2>5. PICK k : k = SubKey(c, At(d, c, at.to, j - 1), at.to[j])
    OBVIOUS
  <2>6. k \in dest.reads /\ k \in Subs(d) /\ d[k] = At(d, c, at.to, j)
    BY <2>1, <2>4, <2>5, Trail
  <2>7. k[3] = At(d, c, at.to, j - 1)
    BY <2>5, KeyFields
  <2>8. At(d, c, at.to, j) # node.prefix
    <3> SUFFICES ASSUME At(d, c, at.to, j) = node.prefix PROVE FALSE
      OBVIOUS
    <3>1. L \in 1 .. node.depth
      BY <1>3
    <3>2. L = j /\ \A h \in 1 .. L : at.path[h] = at.to[h]
      BY <3>1, <2>1, <2>4, <1>3, SameWay
    <3>3. L <= Len(at.to)
      BY <3>2, <1>7
    <3>4. IsPrefix(at.path, at.to)
      BY <3>2, <3>3, PrefixByPosition
    <3> QED BY <3>4
  <2> QED BY <2>6, <2>7, <2>8
<1> DEFINE V == DOMAIN Versions(d, at.layers)
           w == Written(e, a)
           y == Without(w, V)
<1>v. /\ IsFiniteSet(V)
      /\ \A k \in V : /\ k \notin DOMAIN e /\ k[1] = "version" /\ k[2] \in Layers /\ k = VersionKey(k[2])
                      /\ Live(e, k[2])
  <2>1. at.reads \subseteq a.reads
    BY <1>9
  <2>2. /\ IsFiniteSet(DOMAIN Versions(d, at.layers))
        /\ \A k \in DOMAIN Versions(d, at.layers) :
             /\ k \notin DOMAIN e /\ k[1] = "version" /\ k[2] \in Layers /\ k = VersionKey(k[2])
             /\ Live(e, k[2]) /\ IsPrefix(k[2], at.c)
    BY <2>1, VersionsNew
  <2> QED BY <2>2
<1>p. DOMAIN a.puts = {new} \cup V /\ a.puts[new] = node.prefix
  <2>a. PICK g : g = Versions(d, at.layers)
    OBVIOUS
  <2>b. DOMAIN Over(puts, g) = DOMAIN puts \cup DOMAIN g
    BY ONLY OverFacts
  <2>c. \A k \in DOMAIN puts : Over(puts, g)[k] = puts[k]
    BY DEF Over
  <2>1. /\ DOMAIN Over(puts, Versions(d, at.layers)) = DOMAIN puts \cup DOMAIN Versions(d, at.layers)
        /\ \A k \in DOMAIN puts : Over(puts, Versions(d, at.layers))[k] = puts[k]
    BY <2>a, <2>b, <2>c
  <2>2. a.puts = Over(puts, Versions(d, at.layers))
    OBVIOUS
  <2>3. DOMAIN a.puts = DOMAIN puts \cup V /\ \A k \in DOMAIN puts : a.puts[k] = puts[k]
    BY <2>1, <2>2, Zenon
  <2>4. DOMAIN puts = {new} /\ puts[new] = node.prefix
    BY <1>9
  <2> QED BY <2>3, <2>4, Zenon
<1>w. /\ \A k : k \in DOMAIN w <=> (k \in DOMAIN a.puts \/ (k \in DOMAIN e /\ ~InSome(k, a.clears)))
      /\ \A k \in DOMAIN a.puts : w[k] = a.puts[k]
      /\ \A k \in DOMAIN w : k \notin DOMAIN a.puts => w[k] = e[k]
  BY ONLY WrittenFacts
<1>l. Live(e, c)
  BY DEF Handed
<1> HIDE DEF V, w, node, dest, c, L, n
<1>x. DOMAIN y = DOMAIN w \ V /\ \A k \in DOMAIN y : y[k] = w[k]
  BY DEF Without
<1> HIDE DEF y
<1>11. \A k : InSome(k, a.clears) <=> k = old
  BY <1>9, <1>8, InKey DEF InSome, KeyKinds
<1>12. Same(d, e, old) /\ Same(d, e, new)
  BY <1>3, <1>7, <1>9, AgreeOnKey
<1>13. old \in Subs(e) /\ e[old] = node.prefix /\ new \notin DOMAIN e
  BY <1>3, <1>7, <1>8, <1>12 DEF Same, Subs
<1>14. q = RootPrefix(c) \/ Ordinary(e, c, q)
  BY <1>7, <1>9, StillOrdinary
<1>15. Avoids(e, c, q, e[old])
  <2> DEFINE u == [j \in Nat |-> At(d, c, at.to, j)]
  <2>1. n \in Nat
    BY <1>7 DEF n
  <2>2. u[0] = RootPrefix(c) /\ u[n] = q
    <3>1. At(d, c, at.to, 0) = RootPrefix(c)
      BY <1>0, FindFacts DEF c
    <3> QED BY <3>1, <2>1, <1>7
  <2>3. ASSUME NEW j \in 1 .. n
        PROVE  u[j] # e[old] /\ \E k \in Subs(e) : k[3] = u[j - 1] /\ e[k] = u[j]
    <3>1. u[j] = At(d, c, at.to, j) /\ u[j - 1] = At(d, c, at.to, j - 1)
      BY <2>1
    <3>2. PICK k \in Subs(d) : /\ k \in dest.reads /\ k[3] = At(d, c, at.to, j - 1)
                               /\ d[k] = At(d, c, at.to, j)
      BY <1>10
    <3>3. Same(d, e, k)
      BY <3>2, <1>9, AgreeOnKey
    <3>4. k \in Subs(e) /\ e[k] = d[k]
      BY <3>3 DEF Same, Subs
    <3>5. At(d, c, at.to, j) # node.prefix
      BY <1>10
    <3> QED BY <3>1, <3>2, <3>4, <3>5, <1>13
  <2> HIDE DEF u
  <2> QED BY <2>1, <2>2, <2>3 DEF Avoids
<1>16. Moved(e, y, c, old, q, x)
  <2>1. \A k : k \in DOMAIN y <=> k = new \/ (k \in DOMAIN e /\ k # old)
    BY <1>v, <1>p, <1>w, <1>x, <1>11, <1>8
  <2>2. DOMAIN y = (DOMAIN e \ {old}) \cup {new}
    BY <2>1
  <2>3. y[new] = e[old]
    BY <2>1, <1>x, <1>w, <1>p, <1>13
  <2>4. \A k \in DOMAIN e \ {old} : y[k] = e[k]
    BY <2>1, <1>x, <1>w, <1>p, <1>13, <1>v
  <2> QED BY <2>2, <2>3, <2>4, <1>6, <1>8, <1>0, <1>l, <1>13, <1>14, <1>15 DEF Moved
<1>17. NodesOK(y)
  BY <1>16, MoveKeeps
<1>18. ASSUME NEW l \in Layers, Live(e, l)
       PROVE  Live(y, l)
  <2>1. \A z, p : Same(e, y, LayerKey(z, p))
    <3> SUFFICES ASSUME NEW z, NEW p PROVE Same(e, y, LayerKey(z, p))
      OBVIOUS
    <3>1. LayerKey(z, p)[1] = "layer"
      BY KeyFields
    <3>2. LayerKey(z, p) # old /\ LayerKey(z, p) # new
      BY <3>1, <1>8
    <3>3. /\ DOMAIN y = (DOMAIN e \ {old}) \cup {new}
          /\ \A k \in DOMAIN e \ {old} : y[k] = e[k]
      BY <1>16, <1>6 DEF Moved
    <3> QED BY <3>2, <3>3 DEF Same
  <2> QED BY <2>1, <1>18, SamePartition DEF Live
<1>19. \A k \in V : k[1] = "version" /\ k[2] \in Layers /\ k = VersionKey(k[2]) /\ Live(y, k[2])
  BY <1>v, <1>18
<1> QED BY <1>v, <1>17, <1>19, WithVersions DEF y, w

\* Nothing but versions is put.
LEMMA VersionsWrite ==
  ASSUME NEW d, NEW at, NEW a, a.puts = Versions(d, at.layers), a.clears = {}, at.reads \subseteq a.reads,
         NEW e, NodesOK(e), Handed(e, at), Agree(d, e, a.reads)
  PROVE  NodesOK(Written(e, a))
<1> DEFINE V == DOMAIN Versions(d, at.layers)
           w == Written(e, a)
<1>v. /\ IsFiniteSet(V)
      /\ \A k \in V : /\ k \notin DOMAIN e /\ k[1] = "version" /\ k[2] \in Layers /\ k = VersionKey(k[2])
                      /\ Live(e, k[2])
  <2>1. /\ IsFiniteSet(DOMAIN Versions(d, at.layers))
        /\ \A k \in DOMAIN Versions(d, at.layers) :
             /\ k \notin DOMAIN e /\ k[1] = "version" /\ k[2] \in Layers /\ k = VersionKey(k[2])
             /\ Live(e, k[2]) /\ IsPrefix(k[2], at.c)
    BY VersionsNew
  <2> QED BY <2>1
<1>w. /\ \A k : k \in DOMAIN w <=> (k \in V \/ k \in DOMAIN e)
      /\ \A k \in DOMAIN w : k \notin V => w[k] = e[k]
  <2>1. DOMAIN a.puts = V
    OBVIOUS
  <2>2. /\ \A k : k \in DOMAIN Written(e, a) <=> (k \in DOMAIN a.puts \/ (k \in DOMAIN e /\ ~InSome(k, a.clears)))
        /\ \A k \in DOMAIN Written(e, a) : k \notin DOMAIN a.puts => Written(e, a)[k] = e[k]
    BY ONLY WrittenFacts
  <2>3. \A k : ~InSome(k, a.clears)
    BY DEF InSome
  <2> HIDE DEF V
  <2> QED BY <2>1, <2>2, <2>3, Zenon
<1> HIDE DEF V, w
<1>1. IsFiniteSet(DOMAIN w)
  <2>1. IsFiniteSet(DOMAIN e \cup V)
    BY <1>v, FS_Union DEF NodesOK
  <2>2. DOMAIN w \subseteq DOMAIN e \cup V
    BY <1>w
  <2> QED BY <2>1, <2>2, FS_Subset
<1>2. VersionsAdded(e, w)
  BY <1>1, <1>v, <1>w DEF VersionsAdded
<1> QED BY <1>2, VersionsKeep DEF w

\* Something is written in a directory.
LEMMA ContentWrites ==
  ASSUME NEW d, NEW c \in Layers, NEW p \in PrefixesOf(c), Ordinary(d, c, p),
         NEW a, DOMAIN a.puts = {ContentKey(p)}, a.clears = {}, LayerKey(c, p) \in a.reads,
         NEW e, NodesOK(e), Agree(d, e, a.reads)
  PROVE  NodesOK(Written(e, a))
<1> DEFINE w == Written(e, a)
<1>0. PICK new : new = ContentKey(p)
  OBVIOUS
<1>n. new[1] = "content"
  BY <1>0, KeyFields
<1>w. /\ \A k : k \in DOMAIN w <=> (k = new \/ k \in DOMAIN e)
      /\ \A k \in DOMAIN w : k # new => w[k] = e[k]
  <2>1. \A k : k \in DOMAIN a.puts <=> k = new
    BY <1>0
  <2>2. /\ \A k : k \in DOMAIN Written(e, a) <=> (k \in DOMAIN a.puts \/ (k \in DOMAIN e /\ ~InSome(k, a.clears)))
        /\ \A k \in DOMAIN Written(e, a) : k \notin DOMAIN a.puts => Written(e, a)[k] = e[k]
    BY ONLY WrittenFacts
  <2>3. \A k : ~InSome(k, a.clears)
    BY DEF InSome
  <2> QED BY <2>1, <2>2, <2>3, Zenon
<1> HIDE DEF w
<1>1. Ordinary(e, c, p)
  BY StillOrdinary
<1>2. DOMAIN w = DOMAIN e \cup {ContentKey(p)}
  BY <1>w, <1>0
<1>3. \A k \in DOMAIN e : k[1] # "content" => w[k] = e[k]
  BY <1>w, <1>n
<1>4. ContentAdded(e, w, c, p)
  BY <1>1, <1>2, <1>3 DEF ContentAdded
<1> QED BY <1>4, ContentKeeps DEF w

-----------------------------------------------------------------------------
(* A creation.                                                             *)

\* The numbers of the directories that are created, one for each missing part of the path.
NewNumbers(d, at, node, n) ==
  /\ DOMAIN n = node.depth .. Len(at.path)
  /\ \A i \in DOMAIN n : n[i] \in Numbers /\ RecentKey(at.c, n[i]) \notin DOMAIN d
  /\ \A i, j \in DOMAIN n : n[i] = n[j] => i = j

\* What is written and has been read for it.
Creates(d, at, op, node, n, a) ==
  /\ NewNumbers(d, at, node, n)
  /\ a.puts = Over(NewKeys(d, at, op, node, n), Versions(d, {at.c}))
  /\ a.clears = {}
  /\ at.reads \subseteq a.reads /\ node.reads \subseteq a.reads
  /\ \A i \in DOMAIN n : RecentKey(at.c, n[i]) \in a.reads

\* What an attempt at a creation can be.
LEMMA CreateFacts ==
  ASSUME NEW d, NEW at, NEW op, op.prefix = None, NEW node, NEW a \in Create(d, at, op, node)
  PROVE  /\ IsAttempt(a)
         /\ ReadOnly(a) \/ \E n : Creates(d, at, op, node, n, a)
<1> DEFINE depths == node.depth .. Len(at.path)
           free == {n \in 1 .. MaxAlloc : RecentKey(at.c, n) \notin DOMAIN d}
<1>1. PICK n \in [depths -> free] : IsInjective(n) /\ a = CreateWith(d, at, op, node, n)
  BY DEF Create
<1>2. NewNumbers(d, at, node, n)
  BY <1>1 DEF NewNumbers, IsInjective, Numbers
<1>3. CASE \E why : a = Fail(why)
  BY <1>3, FailFacts
<1>4. CASE ~ \E why : a = Fail(why)
  <2> DEFINE reads == at.reads \cup node.reads
                      \cup UNION {Allocated(at.c, n[i]) : i \in DOMAIN n}
                      \cup UNION {NodesRead(d, at.c, NewPrefix(at, op, n, i)) : i \in depths \ DOMAIN n}
  <2>1. a = [result |-> [directory |-> NewPrefix(at, op, n, Len(at.path))],
             reads |-> reads,
             puts |-> Over(NewKeys(d, at, op, node, n), Versions(d, {at.c})),
             clears |-> {}]
    BY <1>1, <1>4, Zenon DEF CreateWith
  <2>2. at.reads \subseteq reads /\ node.reads \subseteq reads
    OBVIOUS
  <2>3. \A i \in DOMAIN n : RecentKey(at.c, n[i]) \in reads
    <3> SUFFICES ASSUME NEW i \in DOMAIN n PROVE RecentKey(at.c, n[i]) \in reads
      OBVIOUS
    <3>1. RecentKey(at.c, n[i]) \in Allocated(at.c, n[i])
      BY DEF Allocated
    <3>2. RecentKey(at.c, n[i]) \in UNION {Allocated(at.c, n[j]) : j \in DOMAIN n}
      BY <3>1
    <3> QED BY <3>2
  <2> HIDE DEF reads
  <2>4. PICK result : a = [result |-> result, reads |-> reads,
                           puts |-> Over(NewKeys(d, at, op, node, n), Versions(d, {at.c})), clears |-> {}]
    BY <2>1
  <2>5. PICK puts : puts = Over(NewKeys(d, at, op, node, n), Versions(d, {at.c}))
    OBVIOUS
  <2>6. a = [result |-> result, reads |-> reads, puts |-> puts, clears |-> {}]
    BY <2>4, <2>5
  <2>7. IsAttempt(a) /\ a.reads = reads /\ a.puts = puts /\ a.clears = {}
    BY <2>6 DEF IsAttempt
  <2>8. Creates(d, at, op, node, n, a)
    BY <1>2, <2>2, <2>3, <2>5, <2>7, Zenon DEF Creates
  <2> QED BY <2>7, <2>8
<1> QED BY <1>3, <1>4

\* What is put for directories that are created, in a layer, from a depth of a path on:
\* each has its entry in the one above it, its node, and its number.
Upper(c, m, n, first, i) == IF i = m THEN first ELSE Append(c, n[i - 1])
NewPuts(puts, c, path, m, n, first, layer) ==
  /\ \A k : k \in DOMAIN puts <=> (\E i \in m .. Len(path) :
                                    k \in {SubKey(c, Upper(c, m, n, first, i), path[i]),
                                          LayerKey(c, Append(c, n[i])), RecentKey(c, n[i])})
  /\ \A i \in m .. Len(path) : /\ puts[SubKey(c, Upper(c, m, n, first, i), path[i])] = Append(c, n[i])
                               /\ i # Len(path) => puts[LayerKey(c, Append(c, n[i]))] = NoLayer
  /\ \A k \in DOMAIN puts : k[1] = "layer" => puts[k] \in {layer, NoLayer}

\* What NewKeys puts.
LEMMA NewKeysFacts ==
  ASSUME NEW d, NodesOK(d), NEW at, at.c \in Layers, at.path \in Seq(Names),
         NEW node, node = Find(d, at.c, at.path), node.prefix = None,
         NEW op, NEW n, NewNumbers(d, at, node, n)
  PROVE  NewPuts(NewKeys(d, at, op, node, n), at.c, at.path, node.depth, n,
                 At(d, at.c, at.path, node.depth - 1), op.layer)
<1> DEFINE c == at.c
           path == at.path
           m == node.depth
           L == Len(path)
           I == m .. L
           first == At(d, c, path, m - 1)
           pre(i) == Append(c, n[i])
           above(i) == IF i = m THEN first ELSE pre(i - 1)
           S(i) == SubKey(c, above(i), path[i])
           N(i) == LayerKey(c, pre(i))
           R(i) == RecentKey(c, n[i])
           puts == NewKeys(d, at, op, node, n)
<1>t. Typed(d)
  BY DEF NodesOK
<1>1. L \in Nat /\ m \in 0 .. L /\ At(d, c, path, 0) = RootPrefix(c) /\ node.prefix = At(d, c, path, m)
  BY <1>t, FindFacts
<1>2. m # 0
  <2> SUFFICES ASSUME m = 0 PROVE FALSE
    OBVIOUS
  <2>1. RootPrefix(c) = None
    BY <1>1
  <2> QED BY <2>1, RootPrefixFacts
<1>3. DOMAIN n = I /\ \A i \in I : n[i] \in Numbers /\ R(i) \notin DOMAIN d
  BY DEF NewNumbers
<1>4. \A i, j \in I : n[i] = n[j] => i = j
  BY <1>3 DEF NewNumbers
<1>5. \A i \in I : pre(i) \in PrefixesOf(c) /\ Last(pre(i)) = n[i] /\ NewPrefix(at, op, n, i) = pre(i)
  <2> SUFFICES ASSUME NEW i \in I
               PROVE  pre(i) \in PrefixesOf(c) /\ Last(pre(i)) = n[i] /\ NewPrefix(at, op, n, i) = pre(i)
    OBVIOUS
  <2>1. n[i] \in Numbers /\ i \in DOMAIN n
    BY <1>3
  <2>2. pre(i) \in PrefixesOf(c)
    BY <2>1 DEF PrefixesOf
  <2>3. Last(Append(c, n[i])) = n[i]
    BY <2>1, AppendFacts DEF Layers
  <2>4. NewPrefix(at, op, n, i) = pre(i)
    BY <2>1 DEF NewPrefix
  <2> QED BY <2>2, <2>3, <2>4
<1>6. \A i \in I : i # m => i - 1 \in I
  BY <1>1
<1>7. \A i \in I : NewSub(d, at, op, node, n, i) = S(i)
  <2> SUFFICES ASSUME NEW i \in I PROVE NewParent(d, at, op, node, n, i) = above(i)
    BY DEF NewSub
  <2>1. CASE i = m
    <3>1. m - 1 \in 0 .. Len(path)
      BY <1>1, <1>2
    <3>2. Find(d, c, SubSeq(path, 1, m - 1)).prefix = At(d, c, path, m - 1)
      BY <3>1, FindShorter
    <3>3. NewParent(d, at, op, node, n, i) = Find(d, c, SubSeq(path, 1, m - 1)).prefix
      BY <2>1 DEF NewParent
    <3> QED BY <2>1, <3>2, <3>3
  <2>2. CASE i # m
    <3>1. NewParent(d, at, op, node, n, i) = NewPrefix(at, op, n, i - 1)
      BY <2>2 DEF NewParent
    <3> QED BY <2>2, <3>1, <1>5, <1>6
  <2> QED BY <2>1, <2>2
<1>8. first = RootPrefix(c) \/ Ordinary(d, c, first)
  <2>1. m \in 1 .. Find(d, c, path).depth
    BY <1>1, <1>2
  <2> QED BY <2>1, Trail
<1>9. \A i \in I : pre(i) # first
  <2> SUFFICES ASSUME NEW i \in I, pre(i) = first PROVE FALSE
    OBVIOUS
  <2>1. pre(i) \in PrefixesOf(c) /\ Last(pre(i)) = n[i]
    BY <1>5
  <2>2. Ordinary(d, c, pre(i))
    BY <2>1, <1>8, RootPrefixFacts
  <2>3. PICK k : k = LayerKey(c, pre(i))
    OBVIOUS
  <2>4. k \in NodeKeys(d) /\ k[2] = c /\ k[3] = pre(i)
    BY <2>2, <2>3, KeyFields DEF Ordinary, NodeKeys
  <2>5. RecentKey(k[2], Last(k[3])) \in DOMAIN d
    BY <2>4 DEF NodesOK, Recorded
  <2>6. RecentKey(c, n[i]) \in DOMAIN d
    BY <2>1, <2>4, <2>5
  <2> QED BY <2>6, <1>3
<1>10. \A i, j \in I : pre(i) = pre(j) => i = j
  <2> SUFFICES ASSUME NEW i \in I, NEW j \in I, pre(i) = pre(j) PROVE i = j
    OBVIOUS
  <2>1. n[i] = n[j]
    BY <1>5
  <2> QED BY <2>1, <1>4
<1> HIDE DEF pre
<1>11. \A i, j \in I : above(i) = above(j) => i = j
  <2> SUFFICES ASSUME NEW i \in I, NEW j \in I, above(i) = above(j) PROVE i = j
    OBVIOUS
  <2>1. CASE i = m /\ j # m
    BY <2>1, <1>6, <1>9
  <2>2. CASE j = m /\ i # m
    BY <2>2, <1>6, <1>9
  <2>3. CASE i # m /\ j # m
    <3>1. i - 1 = j - 1
      BY <2>3, <1>6, <1>10
    <3> QED BY <3>1, <1>1
  <2>4. CASE i = m /\ j = m
    BY <2>4
  <2> QED BY <2>1, <2>2, <2>3, <2>4
<1> HIDE DEF above
<1>12. \A i \in I : S(i)[1] = "sub" /\ S(i)[3] = above(i)
  BY KeyFields, SMT
<1>13. \A i \in I : N(i)[1] = "layer" /\ N(i)[3] = pre(i)
  BY KeyFields, SMT
<1>14. \A i \in I : R(i)[1] = "recent"
  BY KeyFields, SMT
<1> HIDE DEF S, N, R
<1>15. \A i, j \in I : S(i) = S(j) => i = j
  <2> SUFFICES ASSUME NEW i \in I, NEW j \in I, S(i) = S(j) PROVE i = j
    OBVIOUS
  <2>1. above(i) = above(j)
    BY <1>12
  <2> QED BY <2>1, <1>11
<1> DEFINE keys == {S(i) : i \in I} \cup {N(i) : i \in I} \cup {R(i) : i \in I}
           value(k) == CASE k[1] = "sub" -> NewPrefix(at, op, n, CHOOSE i \in I : NewSub(d, at, op, node, n, i) = k)
                         [] k[1] = "layer" -> IF k[3] = NewPrefix(at, op, n, L) THEN op.layer ELSE NoLayer
                         [] OTHER -> TRUE
<1>16. DOMAIN puts = keys /\ \A k \in keys : puts[k] = value(k)
  <2>1. {NewSub(d, at, op, node, n, i) : i \in I} = {S(i) : i \in I}
    BY <1>7
  <2>2. {LayerKey(c, NewPrefix(at, op, n, i)) : i \in I} = {N(i) : i \in I}
    BY <1>5 DEF N, pre
  <2>3. {RecentKey(c, n[i]) : i \in DOMAIN n} = {R(i) : i \in I}
    BY <1>3 DEF R
  <2> DEFINE these == {NewSub(d, at, op, node, n, i) : i \in I}
                      \cup {LayerKey(c, NewPrefix(at, op, n, i)) : i \in I}
                      \cup {RecentKey(c, n[i]) : i \in DOMAIN n}
  <2>4. puts = [k \in these |-> value(k)]
    BY DEF NewKeys
  <2>5. these = keys
    BY <2>1, <2>2, <2>3
  <2> HIDE DEF these, keys, value, puts
  <2>6. DOMAIN puts = these /\ \A k \in these : puts[k] = value(k)
    BY <2>4
  <2> QED BY <2>5, <2>6
<1> HIDE DEF puts
<1>17. \A i \in I : puts[S(i)] = pre(i)
  <2> SUFFICES ASSUME NEW i \in I PROVE puts[S(i)] = pre(i)
    OBVIOUS
  <2>1. (CHOOSE j \in I : NewSub(d, at, op, node, n, j) = S(i)) = i
    BY <1>7, <1>15
  <2>2. S(i) \in keys
    OBVIOUS
  <2>3. puts[S(i)] = value(S(i))
    BY <2>2, <1>16
  <2>4. value(S(i)) = NewPrefix(at, op, n, CHOOSE j \in I : NewSub(d, at, op, node, n, j) = S(i))
    BY <1>12
  <2> QED BY <2>1, <2>3, <2>4, <1>5
<1>18. \A k \in keys : k[1] = "layer" => puts[k] = IF k[3] = NewPrefix(at, op, n, L) THEN op.layer ELSE NoLayer
  <2> SUFFICES ASSUME NEW k \in keys, k[1] = "layer"
               PROVE  value(k) = IF k[3] = NewPrefix(at, op, n, L) THEN op.layer ELSE NoLayer
    BY <1>16
  <2> QED OBVIOUS
<1>19. \A i \in I : i # L => puts[N(i)] = NoLayer
  <2> SUFFICES ASSUME NEW i \in I, i # L PROVE puts[N(i)] = NoLayer
    OBVIOUS
  <2>1. L \in I
    BY <1>1
  <2>2. N(i)[3] # NewPrefix(at, op, n, L)
    BY <2>1, <1>5, <1>10, <1>13
  <2>3. N(i) \in keys
    OBVIOUS
  <2> QED BY <2>2, <2>3, <1>13, <1>18
<1>20. \A i \in I : puts[N(i)] \in {op.layer, NoLayer}
  <2> SUFFICES ASSUME NEW i \in I PROVE puts[N(i)] \in {op.layer, NoLayer}
    OBVIOUS
  <2>1. N(i) \in keys
    OBVIOUS
  <2> QED BY <2>1, <1>13, <1>18
<1>21. \A k \in DOMAIN puts : k[1] = "layer" => puts[k] \in {op.layer, NoLayer}
  BY <1>16, <1>18
<1>22. \A k : k \in DOMAIN puts <=> \E i \in I : k = S(i) \/ k = N(i) \/ k = R(i)
  BY <1>16
<1> HIDE DEF I, keys
<1>23. \A i \in I : S(i) = SubKey(c, Upper(c, m, n, first, i), path[i])
  BY DEF S, Upper, above, pre
<1>24. \A i \in I : N(i) = LayerKey(c, Append(c, n[i])) /\ R(i) = RecentKey(c, n[i]) /\ pre(i) = Append(c, n[i])
  BY DEF N, R, pre
<1> HIDE DEF S, N, R, pre, first, c, path, m, L
<1>25. NewPuts(puts, c, path, m, n, first, op.layer)
  <2> HIDE DEF value
  <2>1. \A k : k \in DOMAIN puts <=> (\E i \in m .. Len(path) :
                                        k \in {SubKey(c, Upper(c, m, n, first, i), path[i]),
                                              LayerKey(c, Append(c, n[i])), RecentKey(c, n[i])})
    BY <1>22, <1>23, <1>24 DEF I, L
  <2>2. \A i \in m .. Len(path) : puts[SubKey(c, Upper(c, m, n, first, i), path[i])] = Append(c, n[i])
    BY <1>17, <1>23, <1>24, Zenon DEF I, L
  <2>3. \A i \in m .. Len(path) : i # Len(path) => puts[LayerKey(c, Append(c, n[i]))] = NoLayer
    BY <1>19, <1>24, Zenon DEF I, L
  <2> QED BY <1>21, <2>1, <2>2, <2>3, Zenon DEF NewPuts
<1> QED BY <1>25, Zenon DEF puts, c, path, m, first

\* A creation that is committed leaves the database in order.
LEMMA CreateWrites ==
  ASSUME NEW d, NodesOK(d), NEW at, at.c \in Layers, at.path \in Seq(Names),
         Find(d, at.c, at.path).prefix = None,
         NEW op, NEW n, NEW a, Creates(d, at, op, Find(d, at.c, at.path), n, a),
         NEW e, NodesOK(e), Handed(e, at), Agree(d, e, a.reads)
  PROVE  NodesOK(Written(e, a))
<1> DEFINE c == at.c
           path == at.path
           node == Find(d, c, path)
           m == node.depth
           L == Len(path)
           I == m .. L
           V == DOMAIN Versions(d, {c})
           w == Written(e, a)
           y == Without(w, V)
           first == At(d, c, path, m - 1)
           pre == [i \in I |-> Append(c, n[i])]
           above == [i \in I |-> IF i = m THEN first ELSE pre[i - 1]]
<1>t. Typed(d)
  BY DEF NodesOK
<1>a. /\ NewNumbers(d, at, node, n)
      /\ a.puts = Over(NewKeys(d, at, op, node, n), Versions(d, {at.c}))
      /\ a.clears = {}
      /\ at.reads \subseteq a.reads /\ node.reads \subseteq a.reads
      /\ \A i \in DOMAIN n : RecentKey(at.c, n[i]) \in a.reads
  BY Zenon DEF Creates
<1>1. L \in Nat /\ m \in 0 .. L /\ At(d, c, path, 0) = RootPrefix(c) /\ node.prefix = At(d, c, path, m)
  BY <1>t, FindFacts
<1>2. m # 0
  <2> SUFFICES ASSUME m = 0 PROVE FALSE
    OBVIOUS
  <2>1. RootPrefix(c) = None
    BY <1>1
  <2> QED BY <2>1, RootPrefixFacts
<1>3. DOMAIN n = I /\ \A i \in I : n[i] \in Numbers /\ RecentKey(c, n[i]) \notin DOMAIN d
  BY <1>a DEF NewNumbers
<1>4. \A i, j \in I : n[i] = n[j] => i = j
  BY <1>3, <1>a DEF NewNumbers
<1>5. \A i \in I : /\ pre[i] = Append(c, n[i]) /\ pre[i] \in PrefixesOf(c) /\ Last(pre[i]) = n[i]
                   /\ above[i] = IF i = m THEN first ELSE pre[i - 1]
  <2> SUFFICES ASSUME NEW i \in I
               PROVE  Append(c, n[i]) \in PrefixesOf(c) /\ Last(Append(c, n[i])) = n[i]
    OBVIOUS
  <2>1. n[i] \in Numbers
    BY <1>3
  <2>2. Append(c, n[i]) \in PrefixesOf(c)
    BY <2>1 DEF PrefixesOf
  <2>3. Last(Append(c, n[i])) = n[i]
    BY <2>1, AppendFacts DEF Layers
  <2> QED BY <2>2, <2>3
<1>6. \A i, j \in I : pre[i] = pre[j] => i = j
  <2> SUFFICES ASSUME NEW i \in I, NEW j \in I, pre[i] = pre[j] PROVE i = j
    OBVIOUS
  <2> HIDE DEF pre
  <2>1. n[i] = n[j]
    BY <1>5
  <2> QED BY <2>1, <1>4
<1> DEFINE puts == NewKeys(d, at, op, node, n)
           S(i) == SubOf(c, above, path, i)
           N(i) == LayerKey(c, pre[i])
           R(i) == RecentKey(c, Last(pre[i]))
<1>7. /\ \A k : k \in DOMAIN puts <=> \E i \in I : k = S(i) \/ k = N(i) \/ k = R(i)
      /\ \A i \in I : puts[S(i)] = pre[i]
      /\ \A i \in I : i # L => puts[N(i)] = NoLayer
  <2>1. NewPuts(puts, c, path, m, n, first, op.layer)
    BY <1>a, NewKeysFacts
  <2> HIDE DEF puts, first, node
  <2>2. \A i \in I : N(i) = LayerKey(c, Append(c, n[i])) /\ R(i) = RecentKey(c, n[i])
    BY <1>5
  <2>3. \A i \in I : i # m => i - 1 \in I
    BY <1>1
  <2>4. \A i \in I : above[i] = Upper(c, m, n, first, i)
    BY <1>5, <2>3 DEF Upper
  <2>5. \A i \in I : S(i) = SubKey(c, Upper(c, m, n, first, i), path[i])
    BY <2>4 DEF SubOf
  <2>6. \A i \in I : pre[i] = Append(c, n[i])
    BY <1>5
  <2> HIDE DEF S, N, R, pre, above, c, path
  <2>7. \A k : k \in DOMAIN puts <=> \E i \in I : k = S(i) \/ k = N(i) \/ k = R(i)
    BY <2>1, <2>2, <2>5 DEF NewPuts
  <2>8. \A i \in I : puts[S(i)] = pre[i]
    BY <2>1, <2>5, <2>6, Zenon DEF NewPuts
  <2>9. \A i \in I : i # L => puts[N(i)] = NoLayer
    BY <2>1, <2>2, Zenon DEF NewPuts
  <2> QED BY <2>7, <2>8, <2>9
<1>8. \A i \in I : S(i)[1] = "sub" /\ N(i)[1] = "layer" /\ R(i)[1] = "recent"
  BY KeyFields, SMT DEF SubOf
<1>9. S(m) = SubKey(c, first, path[m])
  <2>1. m \in I
    BY <1>1
  <2>2. above[m] = first
    BY <2>1, <1>5
  <2> QED BY <2>2 DEF SubOf
<1>10. /\ first = RootPrefix(c) \/ Ordinary(e, c, first)
       /\ SubKey(c, first, path[m]) \notin DOMAIN e
  <2>1. m \in 1 .. Find(d, c, path).depth
    BY <1>1, <1>2
  <2>2. LET p == At(d, c, path, m - 1)
            q == At(d, c, path, m)
            k == SubKey(c, p, path[m])
            reads == Find(d, c, path).reads
        IN /\ k \in reads
           /\ q \in PrefixesOf(c) \cup {None}
           /\ IF q = None THEN k \notin DOMAIN d ELSE k \in Subs(d) /\ d[k] = q
           /\ q # None => LayerKey(c, q) \in DOMAIN d /\ LayerKey(c, q) \in reads
           /\ p \in PrefixesOf(c) \cup {RootPrefix(c)}
           /\ \/ p = RootPrefix(c) /\ m = 1
              \/ p \in PrefixesOf(c) /\ Ordinary(d, c, p) /\ LayerKey(c, p) \in reads /\ m # 1
    BY <2>1, Trail
  <2>3. PICK k : k = SubKey(c, first, path[m])
    OBVIOUS
  <2>4. k \notin DOMAIN d /\ k \in a.reads
    BY <2>2, <2>3, <1>1, <1>a
  <2>5. k \notin DOMAIN e
    BY <2>4, AgreeOnKey DEF Same
  <2>6. CASE first # RootPrefix(c)
    <3>1. Ordinary(d, c, first) /\ LayerKey(c, first) \in a.reads
      BY <2>2, <2>6, <1>a
    <3> QED BY <3>1, <2>3, <2>5, StillOrdinary
  <2> QED BY <2>3, <2>5, <2>6
<1> HIDE DEF puts, first, pre, above
<1>v. /\ IsFiniteSet(V)
      /\ \A k \in V : k[1] = "version" /\ k[2] \in Layers /\ k = VersionKey(k[2]) /\ k[2] = c /\ k \notin DOMAIN e
  <2>1. \A k : k \in DOMAIN Versions(d, {c}) <=> k \notin DOMAIN d /\ \E l \in {c} : k = VersionKey(l)
    BY VersionsFacts
  <2>2. V \subseteq {VersionKey(c)} /\ \A k \in V : k \notin DOMAIN d
    BY <2>1
  <2>3. IsFiniteSet({VersionKey(c)})
    BY FS_Singleton
  <2>4. PICK k : k = VersionKey(c)
    OBVIOUS
  <2>5. k[1] = "version" /\ k[2] = c
    BY <2>4, KeyFields
  <2>6. k \in a.reads
    BY <2>4, <1>a DEF Handed
  <2>7. Same(d, e, k)
    BY <2>6, AgreeOnKey
  <2> HIDE DEF V
  <2> QED BY <2>2, <2>3, <2>4, <2>5, <2>7, FS_Subset DEF Same
<1>w. /\ \A k : k \in DOMAIN w <=> (k \in DOMAIN puts \/ k \in V \/ k \in DOMAIN e)
      /\ \A k \in DOMAIN puts : w[k] = puts[k]
      /\ \A k \in DOMAIN w : k \notin DOMAIN puts /\ k \notin V => w[k] = e[k]
  <2>1. PICK g : g = Versions(d, {c})
    OBVIOUS
  <2>2. /\ DOMAIN Over(puts, g) = DOMAIN puts \cup DOMAIN g
        /\ \A k \in DOMAIN puts : Over(puts, g)[k] = puts[k]
    BY OverFacts
  <2>3. a.puts = Over(puts, g)
    BY <2>1, <1>a DEF puts
  <2>4. DOMAIN a.puts = DOMAIN puts \cup V /\ \A k \in DOMAIN puts : a.puts[k] = puts[k]
    BY <2>1, <2>2, <2>3, Zenon
  <2>5. /\ \A k : k \in DOMAIN Written(e, a) <=> (k \in DOMAIN a.puts \/ (k \in DOMAIN e /\ ~InSome(k, a.clears)))
        /\ \A k \in DOMAIN a.puts : Written(e, a)[k] = a.puts[k]
        /\ \A k \in DOMAIN Written(e, a) : k \notin DOMAIN a.puts => Written(e, a)[k] = e[k]
    BY ONLY WrittenFacts
  <2>6. \A k : ~InSome(k, a.clears)
    BY <1>a DEF InSome
  <2> HIDE DEF V
  <2> QED BY <2>4, <2>5, <2>6
<1>y. DOMAIN y = DOMAIN w \ V /\ \A k \in DOMAIN y : y[k] = w[k]
  BY DEF Without
<1> HIDE DEF V, w, y, node, S, N, R, c, path
<1>p. \A k \in DOMAIN puts : k \notin V
  BY <1>7, <1>8, <1>v
<1>11. \A k : k \in DOMAIN y <=> (k \in DOMAIN e \/ \E i \in I : k = S(i) \/ k = N(i) \/ k = R(i))
  <2>1. \A k : k \in DOMAIN y <=> (k \in DOMAIN e \/ k \in DOMAIN puts)
    BY <1>w, <1>y, <1>v, <1>p
  <2> QED BY <2>1, <1>7
<1>12. \A i \in I : y[S(i)] = pre[i] /\ (i # L => y[N(i)] = NoLayer)
  <2> SUFFICES ASSUME NEW i \in I PROVE y[S(i)] = pre[i] /\ (i # L => y[N(i)] = NoLayer)
    OBVIOUS
  <2>1. S(i) \in DOMAIN puts /\ N(i) \in DOMAIN puts
    BY <1>7
  <2>2. S(i) \in DOMAIN y /\ N(i) \in DOMAIN y
    BY <1>11
  <2> QED BY <2>1, <2>2, <1>7, <1>w, <1>y
<1>13. \A k \in DOMAIN e : y[k] = e[k] \/ \E i \in I : k = S(i) \/ k = N(i) \/ k = R(i)
  <2> SUFFICES ASSUME NEW k \in DOMAIN e, k \notin DOMAIN puts PROVE y[k] = e[k]
    BY <1>7
  <2>1. k \notin V
    BY <1>v
  <2>2. k \in DOMAIN w /\ k \in DOMAIN y
    BY <1>11, <1>w
  <2> QED BY <2>1, <2>2, <1>w, <1>y
<1>14. \A i \in I : R(i) \notin DOMAIN e
  <2> SUFFICES ASSUME NEW i \in I PROVE R(i) \notin DOMAIN e
    OBVIOUS
  <2>1. R(i) = RecentKey(c, n[i])
    BY <1>5 DEF R
  <2>2. R(i) \notin DOMAIN d /\ R(i) \in a.reads
    BY <2>1, <1>3, <1>a DEF c
  <2> QED BY <2>2, AgreeOnKey DEF Same
<1>15. c \in Layers /\ Live(e, c)
  BY DEF Handed, c
<1>16. Created(e, y, c, m, L, first, pre, above, path)
  <2>1. NoLayer # Partition
    BY NoneAssumption
  <2>2. m \in Nat /\ L \in Nat
    BY <1>1
  <2>3. \A i \in I : /\ pre[i] \in PrefixesOf(c)
                     /\ RecentKey(c, Last(pre[i])) \notin DOMAIN e
                     /\ above[i] = IF i = m THEN first ELSE pre[i - 1]
    BY <1>5, <1>14 DEF R
  <2>4. \A k : k \in DOMAIN y <=> \/ k \in DOMAIN e
                                  \/ \E i \in I : \/ k = SubOf(c, above, path, i)
                                                  \/ k = LayerKey(c, pre[i])
                                                  \/ k = RecentKey(c, Last(pre[i]))
    BY <1>11 DEF S, N, R
  <2>5. \A i \in I : /\ y[SubOf(c, above, path, i)] = pre[i]
                     /\ i # L => y[LayerKey(c, pre[i])] # Partition
    BY <1>12, <2>1 DEF S, N
  <2>6. \A k \in DOMAIN e : \/ y[k] = e[k]
                            \/ \E i \in I : \/ k = SubOf(c, above, path, i)
                                            \/ k = LayerKey(c, pre[i])
                                            \/ k = RecentKey(c, Last(pre[i]))
    BY <1>13 DEF S, N, R
  <2> QED BY <1>6, <1>10, <1>15, <2>2, <2>3, <2>4, <2>5, <2>6, Zenon DEF Created
<1>17. NodesOK(y)
  BY <1>16, CreationKeeps
<1>18. Live(y, c)
  <2>1. CASE c = Root
    BY <2>1 DEF Live
  <2>2. CASE c # Root
    <3>1. PICK k : k = LayerKey(Front(c), c)
      OBVIOUS
    <3>2. IsPartition(e, Front(c), c)
      BY <2>2, <1>15 DEF Live
    <3>3. k \in DOMAIN e /\ k[2] = Front(c)
      BY <3>1, <3>2, PartitionNode, KeyFields
    <3>4. \A i \in I : k # S(i) /\ k # N(i) /\ k # R(i)
      <4>1. k[1] = "layer" /\ k[3] = c
        BY <3>1, KeyFields
      <4>2. \A i \in I : N(i)[3] = pre[i]
        BY KeyFields, SMT DEF N
      <4>3. \A i \in I : pre[i] # c
        BY <1>5, PrefixFacts
      <4> QED BY <4>1, <4>2, <4>3, <1>8
    <3>5. Same(e, y, k)
      BY <3>3, <3>4, <1>11, <1>13 DEF Same
    <3>6. IsPartition(y, Front(c), c)
      BY <3>1, <3>2, <3>5, SamePartition
    <3> QED BY <3>6 DEF Live
  <2> QED BY <2>1, <2>2
<1>19. \A k \in V : k[1] = "version" /\ k[2] \in Layers /\ k = VersionKey(k[2]) /\ Live(y, k[2])
  BY <1>v, <1>18
<1> QED BY <1>v, <1>17, <1>19, WithVersions DEF y, w

-----------------------------------------------------------------------------
(* Attempts that leave every database in order that has what they have read. *)

\* An attempt on a layer leaves every database in order that has what it has read,
\* and puts on nodes no layers but that of its operation.
Kept(d, start, op, a) ==
  /\ IsAttempt(a)
  /\ \A k \in DOMAIN a.puts : k[1] = "layer" => a.puts[k] \in {NoLayer, op.layer}
  /\ ReadOnly(a) \/ \A e : NodesOK(e) /\ Live(e, start) /\ Agree(d, e, a.reads) => NodesOK(Written(e, a))

\* Attempts that write nothing are kept,
LEMMA ReadOnlyKept ==
  ASSUME NEW d, NEW start, NEW op, NEW a, IsAttempt(a), ReadOnly(a)
  PROVE  Kept(d, start, op, a)
<1>1. DOMAIN a.puts = {}
  <2>1. PICK p : p = a.puts
    OBVIOUS
  <2>2. p = <<>>
    BY <2>1 DEF ReadOnly, NoWrites
  <2>3. DOMAIN p = {}
    BY <2>2
  <2> QED BY <2>1, <2>3
<1> QED BY <1>1 DEF Kept

\* those that fail among them,
LEMMA FailKept ==
  ASSUME NEW d, NEW start, NEW op, NEW why
  PROVE  Kept(d, start, op, Fail(why))
BY FailFacts, ReadOnlyKept

\* and those that answer.
LEMMA ReplyKept ==
  ASSUME NEW d, NEW start, NEW op, NEW result, NEW reads
  PROVE  Kept(d, start, op, Reply(result, reads))
BY ReplyFacts, ReadOnlyKept

\* No layer is put with the versions.
LEMMA VersionsAreNoLayers ==
  ASSUME NEW d, NEW layers
  PROVE  \A k \in DOMAIN Versions(d, layers) : k[1] # "layer"
<1> SUFFICES ASSUME NEW k \in DOMAIN Versions(d, layers) PROVE k[1] # "layer"
  OBVIOUS
<1>1. \E l \in layers : k = VersionKey(l)
  BY VersionsFacts
<1> QED BY <1>1, KeyFields

\* The layer that an operation is handed to, and the node its path leads to there.
Asked(d, start, path, to, at) ==
  /\ NodesOK(d) /\ start \in Layers
  /\ Entry(d, start, path, to, at) /\ ~EntersBoth(d, at)

\* Where an operation is handed to when a directory layer is asked.
LEMMA AskedFacts ==
  ASSUME NEW d, NEW start, NEW path, NEW to, NEW at, Asked(d, start, path, to, at)
  PROVE  /\ NodesOK(d) /\ at.c \in Layers /\ at.path \in Seq(Names)
         /\ to = None => ~InPartition(d, at.c, Find(d, at.c, at.path), at.path)
         /\ to # None => at.to \in Seq(Names) /\ (IsPrefix(at.path, at.to) => IsPrefix(path, to))
         /\ \A e, reads : at.reads \subseteq reads /\ Agree(d, e, reads) /\ Live(e, start) => Handed(e, at)
<1>1. NodesOK(d) /\ at.c \in Layers /\ at.path \in Seq(Names)
  BY DEF Asked, Entry
<1>2. to = None => ~InPartition(d, at.c, Find(d, at.c, at.path), at.path)
  BY DEF Asked, Entry, EntersBoth
<1>3. to # None => at.to \in Seq(Names) /\ (IsPrefix(at.path, at.to) => IsPrefix(path, to))
  BY DEF Asked, Entry
<1>4. ASSUME NEW e, NEW reads, at.reads \subseteq reads, Agree(d, e, reads), Live(e, start)
      PROVE  Handed(e, at)
  BY <1>4, HandedThen DEF Asked
<1> QED BY <1>1, <1>2, <1>3, <1>4

\* An attempt at a creation is kept,
LEMMA CreateKept ==
  ASSUME NEW d, NEW start, NEW path, NEW at, Asked(d, start, path, None, at),
         Find(d, at.c, at.path).prefix = None,
         NEW op, op.prefix = None, NEW a \in Create(d, at, op, Find(d, at.c, at.path))
  PROVE  Kept(d, start, op, a)
<1> DEFINE node == Find(d, at.c, at.path)
<1>1. IsAttempt(a)
  BY CreateFacts
<1>2. CASE ReadOnly(a)
  BY <1>1, <1>2, ReadOnlyKept
<1>3. CASE ~ReadOnly(a)
  <2>1. PICK n : Creates(d, at, op, node, n, a)
    BY <1>3, CreateFacts
  <2>a. at.reads \subseteq a.reads /\ NewNumbers(d, at, node, n)
        /\ a.puts = Over(NewKeys(d, at, op, node, n), Versions(d, {at.c}))
    BY <2>1, Zenon DEF Creates
  <2>2. /\ NodesOK(d) /\ at.c \in Layers /\ at.path \in Seq(Names)
        /\ \A e, reads : at.reads \subseteq reads /\ Agree(d, e, reads) /\ Live(e, start) => Handed(e, at)
    BY AskedFacts
  <2>3. ASSUME NEW e, NodesOK(e), Live(e, start), Agree(d, e, a.reads)
        PROVE  NodesOK(Written(e, a))
    <3>1. Handed(e, at)
      BY <2>a, <2>2, <2>3
    <3> QED BY <2>1, <2>2, <2>3, <3>1, CreateWrites
  <2>4. PICK puts : puts = NewKeys(d, at, op, node, n)
    OBVIOUS
  <2>5. \A k \in DOMAIN puts : k[1] = "layer" => puts[k] \in {op.layer, NoLayer}
    <3>1. NewPuts(NewKeys(d, at, op, node, n), at.c, at.path, node.depth, n,
                  At(d, at.c, at.path, node.depth - 1), op.layer)
      BY <2>a, <2>2, NewKeysFacts
    <3> QED BY <2>4, <3>1 DEF NewPuts
  <2>6. PICK g : g = Versions(d, {at.c})
    OBVIOUS
  <2>7. \A k \in DOMAIN g : k[1] # "layer"
    BY <2>6, VersionsAreNoLayers
  <2>8. a.puts = Over(puts, g)
    BY <2>a, <2>4, <2>6
  <2>9. /\ DOMAIN Over(puts, g) = DOMAIN puts \cup DOMAIN g
        /\ \A k \in DOMAIN puts : Over(puts, g)[k] = puts[k]
    BY OverFacts
  <2>10. DOMAIN a.puts = DOMAIN puts \cup DOMAIN g /\ \A k \in DOMAIN puts : a.puts[k] = puts[k]
    BY <2>8, <2>9, Zenon
  <2>11. \A k \in DOMAIN a.puts : k[1] = "layer" => a.puts[k] \in {NoLayer, op.layer}
    BY <2>5, <2>7, <2>10
  <2> QED BY <1>1, <2>3, <2>11 DEF Kept
<1> QED BY <1>2, <1>3

\* With options.allowManualPrefixes unset, no directory is given its prefix.
LEMMA CreateOrOpenKept ==
  ASSUME ~AllowManualPrefixes,
         NEW d, NEW start, NEW path, NEW at, Asked(d, start, path, None, at),
         NEW op, NEW a \in createOrOpen(d, op, at, Find(d, at.c, at.path))
  PROVE  /\ Kept(d, start, op, a)
         /\ op.kind \notin {"create", "createOrOpen"} =>
              \/ "error" \in DOMAIN a.result /\ ReadOnly(a)
              \/ /\ at.path # <<>> /\ Find(d, at.c, at.path).prefix # None
                 /\ ReadOnly(a) /\ at.reads \subseteq a.reads /\ Find(d, at.c, at.path).reads \subseteq a.reads
<1> DEFINE node == Find(d, at.c, at.path)
<1>1. CASE \E why : a = Fail(why)
  BY <1>1, FailKept, FailFacts
<1>2. CASE /\ op.prefix = None /\ op.kind \in {"create", "createOrOpen"} /\ node.prefix = None
           /\ a \in Create(d, at, op, node)
  BY <1>2, CreateKept
<1>3. CASE /\ at.path # <<>> /\ node.prefix # None
           /\ \E result : a = Reply(result, at.reads \cup node.reads)
  <2>1. PICK result : a = Reply(result, at.reads \cup node.reads)
    BY <1>3
  <2>2. PICK reads : reads = at.reads \cup node.reads
    OBVIOUS
  <2>3. Kept(d, start, op, a) /\ ReadOnly(a) /\ a.reads = reads
    BY <2>1, <2>2, ReplyKept, ReplyFacts
  <2> QED BY <1>3, <2>2, <2>3
<1>4. \/ \E why : a = Fail(why)
      \/ /\ op.prefix = None /\ op.kind \in {"create", "createOrOpen"} /\ node.prefix = None
         /\ a \in Create(d, at, op, node)
      \/ /\ at.path # <<>> /\ node.prefix # None
         /\ \E result : a = Reply(result, at.reads \cup node.reads)
  <2> HIDE DEF node
  <2>1. a \in createOrOpen(d, op, at, node)
    BY DEF node
  <2> QED BY <2>1 DEF createOrOpen
<1> QED BY <1>1, <1>2, <1>3, <1>4

\* one that opens a directory and writes,
LEMMA WriteKept ==
  ASSUME ~AllowManualPrefixes,
         NEW d, NEW start, NEW path, NEW at, Asked(d, start, path, None, at),
         NEW op, op.kind = "write", NEW a \in Write(d, op, at, Find(d, at.c, at.path))
  PROVE  Kept(d, start, op, a)
<1> DEFINE node == Find(d, at.c, at.path)
<1>1. CASE \E why : a = Fail(why)
  BY <1>1, FailKept
<1>2. CASE ~ \E why : a = Fail(why)
  <2>1. ~(node.prefix # None /\ at.path # <<>> /\ IsPartition(d, at.c, node.prefix))
    BY <1>2 DEF Write
  <2>2. PICK r \in createOrOpen(d, op, at, node) :
          a = IF "error" \in DOMAIN r.result THEN r
              ELSE [r EXCEPT !.puts = [k \in {ContentKey(node.prefix)} |-> TRUE]]
    BY <2>1 DEF Write
  <2>3. /\ Kept(d, start, op, r)
        /\ \/ "error" \in DOMAIN r.result /\ ReadOnly(r)
           \/ /\ at.path # <<>> /\ node.prefix # None
              /\ ReadOnly(r) /\ node.reads \subseteq r.reads
    BY CreateOrOpenKept
  <2>4. CASE "error" \in DOMAIN r.result
    BY <2>2, <2>3, <2>4
  <2>5. CASE ~("error" \in DOMAIN r.result)
    <3>1. at.path # <<>> /\ node.prefix # None /\ ReadOnly(r) /\ node.reads \subseteq r.reads
      BY <2>3, <2>5
    <3> DEFINE new == ContentKey(node.prefix)
               puts == [k \in {new} |-> TRUE]
    <3>2. IsAttempt(a) /\ a.puts = puts /\ a.reads = r.reads /\ a.clears = {}
      <4>1. PICK s, t, p, c : r = [result |-> s, reads |-> t, puts |-> p, clears |-> c]
        BY <2>3 DEF Kept, IsAttempt
      <4>2. c = {}
        BY <3>1, <4>1 DEF ReadOnly
      <4> HIDE DEF puts, node
      <4>3. a = [r EXCEPT !.puts = puts]
        BY <2>2, <2>5 DEF puts
      <4>4. a = [result |-> s, reads |-> t, puts |-> puts, clears |-> {}]
        BY <4>1, <4>2, <4>3
      <4> QED BY <4>1, <4>4 DEF IsAttempt
    <3>3. DOMAIN a.puts = {ContentKey(node.prefix)}
      BY <3>2
    <3>4. \A k \in DOMAIN a.puts : k[1] # "layer"
      BY <3>3, KeyFields
    <3>5. /\ NodesOK(d) /\ at.c \in Layers /\ at.path \in Seq(Names)
          /\ ~InPartition(d, at.c, node, at.path)
      BY AskedFacts
    <3>6. node.prefix \in PrefixesOf(at.c) /\ LayerKey(at.c, node.prefix) \in DOMAIN d
          /\ LayerKey(at.c, node.prefix) \in node.reads
      BY <3>1, <3>5, LastStep
    <3>7. Ordinary(d, at.c, node.prefix)
      BY <2>1, <3>1, <3>6 DEF Ordinary
    <3>8. LayerKey(at.c, node.prefix) \in a.reads
      BY <3>1, <3>2, <3>6
    <3> HIDE DEF node
    <3>9. ASSUME NEW e, NodesOK(e), Agree(d, e, a.reads)
          PROVE  NodesOK(Written(e, a))
      BY <3>2, <3>3, <3>5, <3>6, <3>7, <3>8, <3>9, ContentWrites
    <3> QED BY <3>2, <3>4, <3>9 DEF Kept
  <2> QED BY <2>4, <2>5
<1> QED BY <1>1, <1>2

\* one that removes,
LEMMA RemoveKept ==
  ASSUME NEW d, NEW start, NEW path, NEW at, Asked(d, start, path, None, at),
         NEW op, NEW a \in removeInternal(d, op, at, Find(d, at.c, at.path))
  PROVE  Kept(d, start, op, a)
<1> DEFINE node == Find(d, at.c, at.path)
           parent == Find(d, at.c, Parent(at.path))
           D == Subtree(d, at.c, node.prefix)
<1>1. /\ NodesOK(d) /\ at.c \in Layers /\ at.path \in Seq(Names)
      /\ ~InPartition(d, at.c, node, at.path)
      /\ \A e, reads : at.reads \subseteq reads /\ Agree(d, e, reads) /\ Live(e, start) => Handed(e, at)
  BY AskedFacts
<1>2. PICK puts : puts = Versions(d, at.layers)
  OBVIOUS
<1>3. \A k \in DOMAIN puts : k[1] # "layer"
  BY <1>2, VersionsAreNoLayers
<1>4. CASE \E why : a = Fail(why)
  BY <1>4, FailKept
<1>5. CASE \E result : a = [Reply(result, at.reads \cup node.reads) EXCEPT !.puts = Versions(d, at.layers)]
  <2>1. PICK result : a = [Reply(result, at.reads \cup node.reads) EXCEPT !.puts = Versions(d, at.layers)]
    BY <1>5
  <2>2. IsAttempt(a) /\ a.puts = puts /\ a.clears = {} /\ a.reads = at.reads \cup node.reads
    <3>1. PICK reads : reads = at.reads \cup node.reads
      OBVIOUS
    <3>2. a = [Reply(result, reads) EXCEPT !.puts = puts]
      BY <1>2, <2>1, <3>1
    <3>3. a = [result |-> result, reads |-> reads, puts |-> puts, clears |-> {}]
      BY <3>2 DEF Reply
    <3> QED BY <3>1, <3>3 DEF IsAttempt
  <2>3. at.reads \subseteq a.reads /\ a.puts = Versions(d, at.layers)
    BY <1>2, <2>2
  <2>4. ASSUME NEW e, NodesOK(e), Live(e, start), Agree(d, e, a.reads)
        PROVE  NodesOK(Written(e, a))
    <3>1. Handed(e, at)
      BY <1>1, <2>3, <2>4
    <3> QED BY <2>2, <2>3, <2>4, <3>1, VersionsWrite
  <2> QED BY <1>3, <2>2, <2>4 DEF Kept
<1>6. CASE /\ at.path # <<>> /\ node.prefix # None
           /\ \E result : a = [result |-> result,
                               reads |-> at.reads \cup node.reads \cup ListedSubs(at.c, D),
                               puts |-> Versions(d, at.layers),
                               clears |-> Removed(at.c, D)
                                          \cup ClearedFromParent(at.c, parent.prefix, Last(at.path))]
  <2>1. PICK result : a = [result |-> result,
                           reads |-> at.reads \cup node.reads \cup ListedSubs(at.c, D),
                           puts |-> Versions(d, at.layers),
                           clears |-> Removed(at.c, D)
                                      \cup ClearedFromParent(at.c, parent.prefix, Last(at.path))]
    BY <1>6
  <2>2. PICK reads : reads = at.reads \cup node.reads \cup ListedSubs(at.c, D)
    OBVIOUS
  <2>3. PICK clears : clears = Removed(at.c, D) \cup ClearedFromParent(at.c, parent.prefix, Last(at.path))
    OBVIOUS
  <2>4. a = [result |-> result, reads |-> reads, puts |-> puts, clears |-> clears]
    BY <1>2, <2>1, <2>2, <2>3
  <2>5. IsAttempt(a) /\ a.reads = reads /\ a.puts = puts /\ a.clears = clears
    BY <2>4 DEF IsAttempt
  <2>6. /\ a.puts = Versions(d, at.layers) /\ at.reads \subseteq a.reads
        /\ a.clears = Removed(at.c, D) \cup ClearedFromParent(at.c, parent.prefix, Last(at.path))
        /\ a.reads = at.reads \cup node.reads \cup ListedSubs(at.c, D)
    BY <1>2, <2>2, <2>3, <2>5
  <2>7. ASSUME NEW e, NodesOK(e), Live(e, start), Agree(d, e, a.reads)
        PROVE  NodesOK(Written(e, a))
    <3>1. Handed(e, at)
      BY <1>1, <2>6, <2>7
    <3>2. PICK doomed : doomed = D
      OBVIOUS
    <3>3. /\ a.clears = Removed(at.c, doomed)
                        \cup ClearedFromParent(at.c, Find(d, at.c, Parent(at.path)).prefix, Last(at.path))
          /\ a.reads = at.reads \cup Find(d, at.c, at.path).reads \cup ListedSubs(at.c, doomed)
          /\ doomed = Subtree(d, at.c, Find(d, at.c, at.path).prefix)
      BY <2>6, <3>2
    <3> HIDE DEF D
    <3> QED BY <1>1, <1>6, <2>6, <2>7, <3>1, <3>3, RemoveWrites
  <2> QED BY <1>3, <2>5, <2>7 DEF Kept
<1>7. \/ \E why : a = Fail(why)
      \/ \E result : a = [Reply(result, at.reads \cup node.reads) EXCEPT !.puts = Versions(d, at.layers)]
      \/ /\ at.path # <<>> /\ node.prefix # None
         /\ \E result : a = [result |-> result,
                             reads |-> at.reads \cup node.reads \cup ListedSubs(at.c, D),
                             puts |-> Versions(d, at.layers),
                             clears |-> Removed(at.c, D)
                                        \cup ClearedFromParent(at.c, parent.prefix, Last(at.path))]
  <2>1. a \in removeInternal(d, op, at, node)
    OBVIOUS
  <2> HIDE DEF node
  <2> QED BY <2>1 DEF removeInternal
<1> QED BY <1>4, <1>5, <1>6, <1>7

\* one that moves,
LEMMA MoveKept ==
  ASSUME NEW d, NEW start, NEW path, NEW to, to # None, NEW at, Asked(d, start, path, to, at),
         NEW op, IsPrefix(path, to) => IsPrefix(op.path, op.to),
         NEW a \in Move(d, op, at, Find(d, at.c, at.path))
  PROVE  Kept(d, start, op, a)
<1> DEFINE old == Find(d, at.c, at.path)
           new == Find(d, at.c, at.to)
           oldParent == Find(d, at.c, Parent(at.path))
           newParent == Find(d, at.c, Parent(at.to))
           key == SubKey(at.c, newParent.prefix, Last(at.to))
           moved == [k \in {key} |-> MovedPrefix(old, new)]
<1>1. /\ NodesOK(d) /\ at.c \in Layers /\ at.path \in Seq(Names) /\ at.to \in Seq(Names)
      /\ IsPrefix(at.path, at.to) => IsPrefix(path, to)
      /\ \A e, reads : at.reads \subseteq reads /\ Agree(d, e, reads) /\ Live(e, start) => Handed(e, at)
  BY AskedFacts
<1>2. CASE \E why : a = Fail(why)
  BY <1>2, FailKept
<1>3. CASE /\ ~IsPrefix(op.path, op.to) /\ old.prefix # None
           /\ ~InPartition(d, at.c, old, at.path) /\ new.prefix = None /\ newParent.prefix # None
           /\ \E result : a = [result |-> result,
                               reads |-> at.reads \cup old.reads \cup new.reads,
                               puts |-> Over(moved, Versions(d, at.layers)),
                               clears |-> ClearedFromParent(at.c, oldParent.prefix, Last(at.path))]
  <2>1. PICK result : a = [result |-> result,
                           reads |-> at.reads \cup old.reads \cup new.reads,
                           puts |-> Over(moved, Versions(d, at.layers)),
                           clears |-> ClearedFromParent(at.c, oldParent.prefix, Last(at.path))]
    BY <1>3
  <2>2. PICK reads : reads = at.reads \cup old.reads \cup new.reads
    OBVIOUS
  <2>3. PICK clears : clears = ClearedFromParent(at.c, oldParent.prefix, Last(at.path))
    OBVIOUS
  <2>4. PICK g : g = Versions(d, at.layers)
    OBVIOUS
  <2>5. PICK f : f = moved
    OBVIOUS
  <2>6. a = [result |-> result, reads |-> reads, puts |-> Over(f, g), clears |-> clears]
    BY <2>1, <2>2, <2>3, <2>4, <2>5
  <2>7. IsAttempt(a) /\ a.reads = reads /\ a.puts = Over(f, g) /\ a.clears = clears
    BY <2>6 DEF IsAttempt
  <2>8. DOMAIN f = {key} /\ \A k \in DOMAIN f : f[k] = old.prefix
    BY <2>5 DEF MovedPrefix
  <2>9. \A k \in DOMAIN a.puts : k[1] # "layer"
    <3>1. DOMAIN Over(f, g) = DOMAIN f \cup DOMAIN g
      BY OverFacts
    <3>2. DOMAIN a.puts = DOMAIN f \cup DOMAIN g
      BY <2>7, <3>1, Zenon
    <3>3. \A k \in DOMAIN g : k[1] # "layer"
      BY <2>4, VersionsAreNoLayers
    <3>4. PICK k : k = key
      OBVIOUS
    <3>5. k[1] = "sub"
      BY <3>4, KeyFields
    <3> QED BY <2>8, <3>2, <3>3, <3>4, <3>5
  <2>10. ASSUME NEW e, NodesOK(e), Live(e, start), Agree(d, e, a.reads)
         PROVE  NodesOK(Written(e, a))
    <3>1. a.puts = Over(f, Versions(d, at.layers))
      BY <2>4, <2>7
    <3>2. a.clears = ClearedFromParent(at.c, Find(d, at.c, Parent(at.path)).prefix, Last(at.path))
      BY <2>3, <2>7
    <3>3. a.reads = at.reads \cup Find(d, at.c, at.path).reads \cup Find(d, at.c, at.to).reads
      BY <2>2, <2>7
    <3>4. Handed(e, at)
      <4>1. at.reads \subseteq a.reads
        BY <3>3
      <4> QED BY <1>1, <2>10, <4>1
    <3>5. ~IsPrefix(at.path, at.to)
      BY <1>1, <1>3
    <3> HIDE DEF moved
    <3> QED BY <1>1, <1>3, <2>8, <2>10, <3>1, <3>2, <3>3, <3>4, <3>5, MoveWrites
  <2> QED BY <2>7, <2>9, <2>10 DEF Kept
<1>4. \/ \E why : a = Fail(why)
      \/ /\ ~IsPrefix(op.path, op.to) /\ old.prefix # None
         /\ ~InPartition(d, at.c, old, at.path) /\ new.prefix = None /\ newParent.prefix # None
         /\ \E result : a = [result |-> result,
                             reads |-> at.reads \cup old.reads \cup new.reads,
                             puts |-> Over(moved, Versions(d, at.layers)),
                             clears |-> ClearedFromParent(at.c, oldParent.prefix, Last(at.path))]
  <2>1. a \in Move(d, op, at, old)
    OBVIOUS
  <2> HIDE DEF old
  <2> QED BY <2>1 DEF Move
<1> QED BY <1>2, <1>3, <1>4

\* An operation, and the paths it is asked for in the layer that it is asked of.
Asks(op, path, to) ==
  /\ path \in Seq(Names)
  /\ op.kind \in {"create", "createOrOpen", "open", "write", "remove", "removeIfExists",
                   "move", "moveTo", "list", "exists"}
  /\ IF op.kind \in {"move", "moveTo"}
     THEN to \in Seq(Names) /\ (IsPrefix(path, to) => IsPrefix(op.path, op.to))
     ELSE to = None

\* and so is every attempt of an operation at a layer.
LEMMA AttemptsAtKept ==
  ASSUME ~AllowManualPrefixes,
         NEW d, NodesOK(d), NEW op, NEW c \in Layers, NEW path, NEW to, Asks(op, path, to),
         NEW a \in AttemptsAt(d, op, c, path, to)
  PROVE  Kept(d, c, op, a)
<1> DEFINE at == Enter(d, c, path, to)
           node == Find(d, at.c, at.path)
<1>1. Asked(d, c, path, to, at)
  <2>1. path \in Seq(Names) /\ to \in Seq(Names) \cup {None} /\ Typed(d)
    BY DEF Asks, NodesOK
  <2> QED BY <2>1, EnterFacts DEF Asked
<1>2. a \in Dispatch(d, op, at, node)
  BY DEF AttemptsAt
<1> HIDE DEF at
<1>3. CASE \E why : a = Fail(why)
  BY <1>3, FailKept
<1>4. CASE ~ \E why : a = Fail(why)
  <2> DEFINE result == CASE op.kind \in {"create", "createOrOpen", "open"} -> createOrOpen(d, op, at, node)
                         [] op.kind = "write" -> Write(d, op, at, node)
                         [] op.kind \in {"remove", "removeIfExists"} -> removeInternal(d, op, at, node)
                         [] op.kind \in {"move", "moveTo"} -> Move(d, op, at, node)
                         [] op.kind = "list" -> List(d, at, node)
                         [] op.kind = "exists" -> Exists(at, node)
  <2>1. a \in result
    <3> HIDE DEF node
    <3> QED BY <1>2, <1>4 DEF Dispatch
  <2>n. to # None <=> op.kind \in {"move", "moveTo"}
    <3>1. None \notin Seq(Names)
      BY NoneAssumption
    <3> QED BY <3>1 DEF Asks
  <2>2. CASE op.kind \in {"create", "createOrOpen", "open"}
    <3>1. a \in createOrOpen(d, op, at, node)
      <4> HIDE DEF node
      <4> QED BY <2>1, <2>2
    <3>2. to = None
      BY <2>2, <2>n
    <3> QED BY <1>1, <3>1, <3>2, CreateOrOpenKept
  <2>3. CASE op.kind = "write"
    <3>1. a \in Write(d, op, at, node)
      <4> HIDE DEF node
      <4> QED BY <2>1, <2>3
    <3>2. to = None
      BY <2>3, <2>n
    <3> QED BY <1>1, <2>3, <3>1, <3>2, WriteKept
  <2>4. CASE op.kind \in {"remove", "removeIfExists"}
    <3>1. a \in removeInternal(d, op, at, node)
      <4> HIDE DEF node
      <4> QED BY <2>1, <2>4
    <3>2. to = None
      BY <2>4, <2>n
    <3> QED BY <1>1, <3>1, <3>2, RemoveKept
  <2>5. CASE op.kind \in {"move", "moveTo"}
    <3>1. a \in Move(d, op, at, node)
      <4> HIDE DEF node
      <4> QED BY <2>1, <2>5
    <3>2. to # None /\ (IsPrefix(path, to) => IsPrefix(op.path, op.to))
      BY <2>5, <2>n DEF Asks
    <3> QED BY <1>1, <3>1, <3>2, MoveKept
  <2>6. CASE op.kind = "list"
    <3>1. a \in List(d, at, node)
      <4> HIDE DEF node
      <4> QED BY <2>1, <2>6
    <3>2. \E answer, reads : a = Reply(answer, reads)
      <4> HIDE DEF node
      <4> QED BY <1>4, <3>1 DEF List
    <3> QED BY <3>2, ReplyKept
  <2>7. CASE op.kind = "exists"
    <3>1. a \in Exists(at, node)
      <4> HIDE DEF node
      <4> QED BY <2>1, <2>7
    <3>2. \E answer, reads : a = Reply(answer, reads)
      <4> HIDE DEF node
      <4> QED BY <3>1 DEF Exists
    <3> QED BY <3>2, ReplyKept
  <2> QED BY <2>2, <2>3, <2>4, <2>5, <2>6, <2>7 DEF Asks
<1> QED BY <1>3, <1>4

\* What begins a sequence is the start of it.
LEMMA PrefixStart ==
  ASSUME NEW S, NEW s \in Seq(S), NEW t \in Seq(S), IsPrefix(s, t)
  PROVE  Len(s) \in 0 .. Len(t) /\ SubSeq(t, 1, Len(s)) = s
<1>1. Len(s) \in Nat /\ Len(t) \in Nat /\ Len(s) <= Len(t)
  BY LenProperties, PrefixOrder
<1>2. SubSeq(s, 1, Len(s)) = SubSeq(t, 1, Len(s))
  BY DEF IsPrefix
<1> QED BY <1>1, <1>2, SubSeqFull

\* Sequences that begin with one are the same that far.
LEMMA SameFront ==
  ASSUME NEW S, NEW l \in Seq(S), NEW s \in Seq(S), NEW t \in Seq(S), IsPrefix(l \o s, l \o t)
  PROVE  IsPrefix(s, t)
<1>0. Len(l) \in Nat /\ Len(s) \in Nat /\ Len(t) \in Nat
  BY LenProperties
<1>1. PICK u : u = l \o s
  OBVIOUS
<1>2. PICK v : v = l \o t
  OBVIOUS
<1>3. /\ u \in Seq(S) /\ Len(u) = Len(l) + Len(s)
      /\ \A i \in 1 .. Len(l) + Len(s) : u[i] = IF i <= Len(l) THEN l[i] ELSE s[i - Len(l)]
  BY <1>1, ConcatProperties
<1>4. /\ v \in Seq(S) /\ Len(v) = Len(l) + Len(t)
      /\ \A i \in 1 .. Len(l) + Len(t) : v[i] = IF i <= Len(l) THEN l[i] ELSE t[i - Len(l)]
  BY <1>2, ConcatProperties
<1>5. Len(u) <= Len(v) /\ \A i \in 1 .. Len(u) : u[i] = v[i]
  <2>1. IsPrefix(u, v)
    BY <1>1, <1>2
  <2>2. u \in Seq(S) /\ v \in Seq(S)
    BY <1>3, <1>4
  <2> QED BY ONLY <2>1, <2>2, PrefixByPosition
<1>6. Len(s) <= Len(t)
  BY <1>0, <1>3, <1>4, <1>5
<1>7. \A i \in 1 .. Len(s) : s[i] = t[i]
  <2> SUFFICES ASSUME NEW i \in 1 .. Len(s) PROVE s[i] = t[i]
    OBVIOUS
  <2>1. /\ Len(l) + i \in 1 .. Len(l) + Len(s) /\ Len(l) + i \in 1 .. Len(l) + Len(t)
        /\ ~(Len(l) + i <= Len(l)) /\ (Len(l) + i) - Len(l) = i
    BY <1>0, <1>6
  <2>2. u[Len(l) + i] = s[i] /\ v[Len(l) + i] = t[i]
    BY <2>1, <1>3, <1>4
  <2> QED BY <2>1, <2>2, <1>3, <1>5
<1> QED BY <1>6, <1>7, PrefixByPosition

\* The second path of a move has the first one as a prefix in no layer but where it has
\* it in the root.
LEMMA MoveInLayer ==
  ASSUME NEW via \in Seq(Names), NEW p \in Seq(Names), NEW q \in Seq(Names), NEW l \in Seq(Names),
         IsPrefix(via, p), IsPrefix(via, q),
         IsPrefix(l \o From(p, Len(via)), l \o From(q, Len(via)))
  PROVE  IsPrefix(p, q)
<1>1. /\ Len(via) \in 0 .. Len(p) /\ Len(via) \in 0 .. Len(q)
      /\ SubSeq(p, 1, Len(via)) = via /\ SubSeq(q, 1, Len(via)) = via
  BY PrefixStart
<1>2. From(p, Len(via)) \in Seq(Names) /\ From(q, Len(via)) \in Seq(Names)
  BY <1>1, FromFacts
<1>3. IsPrefix(From(p, Len(via)), From(q, Len(via)))
  BY <1>2, SameFront
<1> QED BY <1>1, <1>3, CommonStart

\* The path of a moveTo in the layer it is asked of.
LEMMA MoveToInLayer ==
  ASSUME NEW via \in Seq(Names), NEW q \in Seq(Names), NEW n \in 0 .. Len(via),
         NEW base, base = SubSeq(via, 1, Len(via) - Len(From(via, n))), IsPrefix(base, q)
  PROVE  /\ From(q, Len(base)) \in Seq(Names)
         /\ IsPrefix(From(via, n), From(q, Len(base))) => IsPrefix(via, q)
<1>1. Len(via) \in Nat /\ Len(From(via, n)) = Len(via) - n
  BY LenProperties, FromFacts
<1>2. Len(via) - Len(From(via, n)) = n
  BY <1>1
<1>3. base = SubSeq(via, 1, n) /\ base \in Seq(Names) /\ Len(base) = n
  BY <1>2, SubPath
<1>4. n \in 0 .. Len(q) /\ SubSeq(q, 1, n) = base
  <2>1. Len(base) \in 0 .. Len(q) /\ SubSeq(q, 1, Len(base)) = base
    BY <1>3, PrefixStart, Zenon
  <2> QED BY <2>1, <1>3, Zenon
<1>5. From(q, n) \in Seq(Names)
  BY <1>4, FromFacts
<1>6. IsPrefix(From(via, n), From(q, n)) => IsPrefix(via, q)
  BY <1>3, <1>4, CommonStart
<1> QED BY <1>3, <1>5, <1>6

-----------------------------------------------------------------------------
(* Operations of a directory that is opened.                               *)

\* What is left of a path.
EndOf(path, via) == \E n \in 0 .. Len(via) : path = From(via, n)

\* Opening writes nothing.
LEMMA OpenAnswers ==
  ASSUME ~AllowManualPrefixes,
         NEW d, NodesOK(d), NEW via \in Seq(Names), NEW open, open.kind = "open",
         NEW r \in AttemptsAt(d, open, Root, via, None)
  PROVE  IsAttempt(r) /\ ReadOnly(r)
<1> DEFINE at == Enter(d, Root, via, None)
           node == Find(d, at.c, at.path)
<1>1. Asked(d, Root, via, None, at)
  BY EnterFacts, Constants DEF Asked, NodesOK
<1>2. r \in Dispatch(d, open, at, node)
  BY DEF AttemptsAt
<1> HIDE DEF at
<1>3. CASE \E why : r = Fail(why)
  BY <1>3, FailFacts
<1>4. CASE r \in createOrOpen(d, open, at, node)
  BY <1>1, <1>4, CreateOrOpenKept DEF Kept
<1>5. (\E why : r = Fail(why)) \/ r \in createOrOpen(d, open, at, node)
  <2> HIDE DEF node
  <2> QED BY <1>2 DEF Dispatch
<1> QED BY <1>3, <1>4, <1>5

\* The layer the object of a directory asks is there for as long as what it was opened
\* with is unchanged.
LEMMA OpenFacts ==
  ASSUME ~AllowManualPrefixes,
         NEW d, NodesOK(d), NEW via \in Seq(Names), NEW open, open.kind = "open",
         NEW r \in AttemptsAt(d, open, Root, via, None), ~("error" \in DOMAIN r.result),
         NEW dir \in {Contents(d, via).parent, Contents(d, via).own}
  PROVE  /\ dir.c \in Layers
         /\ \A e : Agree(d, e, r.reads) => Live(e, dir.c)
         /\ dir.path = <<>> \/ EndOf(dir.path, via)
         /\ dir = Contents(d, via).parent => EndOf(dir.path, via)
<1> DEFINE at == Enter(d, Root, via, None)
           node == Find(d, at.c, at.path)
<1>1. Asked(d, Root, via, None, at)
  BY EnterFacts, Constants DEF Asked, NodesOK
<1>2. EndOf(at.path, via)
  BY <1>1 DEF Asked, Entry, EndOf
<1>3. r \in Dispatch(d, open, at, node)
  BY DEF AttemptsAt
<1>4. Contents(d, via).parent = [c |-> at.c, path |-> at.path]
      /\ Contents(d, via).own = IF IsPartition(d, at.c, node.prefix) THEN [c |-> node.prefix, path |-> <<>>]
                                ELSE [c |-> at.c, path |-> at.path]
  <2> PICK x : x = at
    OBVIOUS
  <2> DEFINE nd == Find(d, x.c, x.path)
             parent == [c |-> x.c, path |-> x.path]
             own == IF IsPartition(d, x.c, nd.prefix) THEN [c |-> nd.prefix, path |-> <<>>] ELSE parent
  <2>1. Contents(d, via) = [parent |-> parent, own |-> own]
    BY DEF Contents
  <2> HIDE DEF parent, own
  <2>2. Contents(d, via).parent = parent /\ Contents(d, via).own = own
    BY <2>1
  <2> QED BY <2>2 DEF parent, own
<1> HIDE DEF at
<1>5. r \in createOrOpen(d, open, at, node)
  <2> HIDE DEF node
  <2> USE FailFacts
  <2>1. CASE \E l \in at.layers : TooNew(d, l)
    BY <2>1, <1>3 DEF Dispatch
  <2>2. CASE ~ \E l \in at.layers : TooNew(d, l)
    BY <2>2, <1>3 DEF Dispatch
  <2> QED BY <2>1, <2>2
<1>6. at.path # <<>> /\ node.prefix # None /\ at.reads \subseteq r.reads /\ node.reads \subseteq r.reads
  <2>1. /\ Kept(d, Root, open, r)
        /\ open.kind \notin {"create", "createOrOpen"} =>
              \/ "error" \in DOMAIN r.result /\ ReadOnly(r)
              \/ /\ at.path # <<>> /\ Find(d, at.c, at.path).prefix # None
                 /\ ReadOnly(r) /\ at.reads \subseteq r.reads /\ Find(d, at.c, at.path).reads \subseteq r.reads
    <3>1. r \in createOrOpen(d, open, at, Find(d, at.c, at.path))
      BY <1>5
    <3> QED BY <1>1, <3>1, CreateOrOpenKept, Zenon
  <2>2. open.kind \notin {"create", "createOrOpen"}
    OBVIOUS
  <2> QED BY <2>1, <2>2, Zenon
<1>7. /\ NodesOK(d) /\ at.c \in Layers /\ at.path \in Seq(Names)
      /\ ~InPartition(d, at.c, node, at.path)
      /\ \A e, reads : at.reads \subseteq reads /\ Agree(d, e, reads) /\ Live(e, Root) => Handed(e, at)
  BY <1>1, AskedFacts
<1>8. node.prefix \in PrefixesOf(at.c) /\ LayerKey(at.c, node.prefix) \in node.reads
  BY <1>6, <1>7, LastStep
<1>9. node.prefix \in Layers /\ Front(node.prefix) = at.c
  BY <1>7, <1>8, PrefixFacts
<1> HIDE DEF node
<1>10. ASSUME NEW e, Agree(d, e, r.reads)
       PROVE  Live(e, at.c) /\ (IsPartition(d, at.c, node.prefix) => Live(e, node.prefix))
  <2>1. Live(e, Root)
    BY DEF Live
  <2>2. at.reads \subseteq r.reads
    BY <1>6
  <2>3. Handed(e, at)
    BY <1>7, <1>10, <2>1, <2>2
  <2>4. Same(d, e, LayerKey(at.c, node.prefix))
    BY <1>6, <1>8, <1>10, AgreeOnKey
  <2>5. IsPartition(d, at.c, node.prefix) => IsPartition(e, at.c, node.prefix)
    BY <2>4, SamePartition
  <2> QED BY <2>3, <2>5, <1>9 DEF Live, Handed
<1>11. CASE dir.c = at.c /\ dir.path = at.path
  BY <1>2, <1>7, <1>10, <1>11
<1>12. CASE /\ dir.c = node.prefix /\ dir.path = <<>> /\ IsPartition(d, at.c, node.prefix)
            /\ dir # Contents(d, via).parent
  BY <1>9, <1>10, <1>12
<1>13. \/ dir.c = at.c /\ dir.path = at.path
       \/ /\ dir.c = node.prefix /\ dir.path = <<>> /\ IsPartition(d, at.c, node.prefix)
          /\ dir # Contents(d, via).parent
  BY <1>4
<1> QED BY <1>11, <1>12, <1>13

\* An operation of a directory is an operation at the layer of its object.
LEMMA AttemptsViaKept ==
  ASSUME ~AllowManualPrefixes,
         NEW d, NodesOK(d), NEW op, WellFormed(op), op.via # None, NEW layer, layer.c \in Layers,
         layer.path = <<>> \/ EndOf(layer.path, op.via),
         op.kind = "moveTo" => EndOf(layer.path, op.via),
         NEW a \in AttemptsVia(d, op, layer)
  PROVE  Kept(d, layer.c, op, a)
<1> DEFINE via == op.via
           path == Subpath(layer, op, op.path)
           base == LayerPath(layer, op)
<1>1. /\ op.kind \in {"create", "createOrOpen", "open", "write", "remove", "removeIfExists",
                       "move", "moveTo", "list", "exists"}
      /\ op.path \in Seq(Names)
      /\ IF op.kind \in {"move", "moveTo"} THEN op.to \in Seq(Names) ELSE op.to = None
      /\ via \in Seq(Names) /\ IsPrefix(via, op.path)
      /\ op.kind = "move" => IsPrefix(via, op.to)
      /\ op.kind = "moveTo" => op.path = via
  BY DEF WellFormed
<1>2. layer.path \in Seq(Names)
  BY <1>1, FromFacts, EmptySeq DEF EndOf
<1>3. Len(via) \in 0 .. Len(op.path) /\ From(op.path, Len(via)) \in Seq(Names)
  BY <1>1, PrefixStart, FromFacts
<1>4. path \in Seq(Names)
  BY <1>2, <1>3, ConcatProperties DEF Subpath
<1>5. op.to = None <=> op.kind \notin {"move", "moveTo"}
  BY <1>1, Constants
<1> HIDE DEF path
<1>6. CASE op.kind \notin {"move", "moveTo"}
  <2>1. a \in AttemptsAt(d, op, layer.c, path, None)
    BY <1>5, <1>6 DEF AttemptsVia, path
  <2>2. Asks(op, path, None)
    BY <1>1, <1>4, <1>6 DEF Asks
  <2> QED BY <2>1, <2>2, AttemptsAtKept
<1>7. CASE op.kind = "move"
  <2> DEFINE to == Subpath(layer, op, op.to)
  <2>1. a \in AttemptsAt(d, op, layer.c, path, to)
    BY <1>5, <1>7 DEF AttemptsVia, path
  <2>2. Len(via) \in 0 .. Len(op.to) /\ From(op.to, Len(via)) \in Seq(Names)
    BY <1>1, <1>7, PrefixStart, FromFacts
  <2>3. to \in Seq(Names)
    BY <1>2, <2>2, ConcatProperties DEF Subpath
  <2>4. ASSUME IsPrefix(path, to)
        PROVE  IsPrefix(op.path, op.to)
    BY <2>4, <1>1, <1>2, <1>7, MoveInLayer DEF Subpath, path
  <2> HIDE DEF to
  <2>5. Asks(op, path, to)
    BY <1>1, <1>4, <1>7, <2>3, <2>4 DEF Asks
  <2> QED BY <2>1, <2>5, AttemptsAtKept
<1>8. CASE op.kind = "moveTo"
  <2> DEFINE to == From(op.to, Len(base))
  <2>1. CASE ~IsPrefix(base, op.to)
    <3>1. a = Fail("between")
      BY <1>5, <1>8, <2>1 DEF AttemptsVia, path
    <3> QED BY <3>1, FailKept
  <2>2. CASE IsPrefix(base, op.to)
    <3>1. a \in AttemptsAt(d, op, layer.c, path, to)
      <4> HIDE DEF base
      <4> USE DEF base
      <4> QED BY <1>5, <1>8, <2>2 DEF AttemptsVia, path
    <3>2. path = layer.path
      <4>1. op.path = via
        BY <1>1, <1>8
      <4>2. From(op.path, Len(via)) = <<>>
        <5>1. Len(op.path) \in Nat /\ Len(via) = Len(op.path)
          BY <4>1, <1>1, LenProperties
        <5>3. Len(From(op.path, Len(via))) = Len(op.path) - Len(via)
          BY <1>3, <1>1, FromFacts
        <5>2. Len(From(op.path, Len(via))) = 0
          BY <5>1, <5>3
        <5> QED BY <5>2, <1>3, EmptySeq
      <4>3. layer.path \o <<>> = layer.path
        BY <1>2, ConcatEmptySeq
      <4> QED BY <4>2, <4>3, Zenon DEF Subpath, path
    <3>3. PICK n \in 0 .. Len(via) : layer.path = From(via, n)
      BY <1>8 DEF EndOf
    <3>4. PICK b : b = base
      OBVIOUS
    <3>5. b = SubSeq(via, 1, Len(via) - Len(From(via, n)))
      BY <3>3, <3>4 DEF LayerPath
    <3>6. /\ From(op.to, Len(b)) \in Seq(Names)
          /\ IsPrefix(From(via, n), From(op.to, Len(b))) => IsPrefix(via, op.to)
      <4>1. IsPrefix(b, op.to) /\ op.to \in Seq(Names) /\ via \in Seq(Names)
        BY <2>2, <3>4, <1>1, <1>8
      <4> QED BY <3>5, <4>1, MoveToInLayer
    <3>7. to \in Seq(Names) /\ (IsPrefix(path, to) => IsPrefix(op.path, op.to))
      <4>1. to = From(op.to, Len(b))
        BY <3>4
      <4>2. path = From(via, n) /\ op.path = via
        BY <3>2, <3>3, <1>1, <1>8
      <4> HIDE DEF to
      <4> QED BY <3>6, <4>1, <4>2, Zenon
    <3> HIDE DEF to
    <3>8. Asks(op, path, to)
      BY <1>1, <1>4, <1>8, <3>7 DEF Asks
    <3> QED BY <3>1, <3>8, AttemptsAtKept
  <2> QED BY <2>1, <2>2
<1> QED BY <1>6, <1>7, <1>8

\* Whatever an operation is, each of its attempts keeps the directories in order.
LEMMA AttemptsKept ==
  ASSUME ~AllowManualPrefixes,
         NEW d, NodesOK(d), NEW op, WellFormed(op), NEW a \in Attempts(d, op)
  PROVE  Kept(d, Root, op, a)
<1>1. CASE op.via = None
  <2>1. a \in AttemptsAt(d, op, Root, op.path, op.to)
    BY <1>1 DEF Attempts
  <2>2. Asks(op, op.path, op.to)
    BY DEF Asks, WellFormed
  <2> QED BY <2>1, <2>2, AttemptsAtKept, Constants
<1>2. CASE op.via # None
  <2> DEFINE open == [kind |-> "open", path |-> op.via, to |-> None, layer |-> NoLayer,
                      prefix |-> None, via |-> None]
             layer == LayerForPath(Contents(d, op.via), op)
  <2>1. PICK r \in AttemptsAt(d, open, Root, op.via, None) :
          a \in IF "error" \in DOMAIN r.result THEN {r}
                ELSE {[b EXCEPT !.reads = @ \cup r.reads] : b \in AttemptsVia(d, op, layer)}
    <3> HIDE DEF layer, open
    <3> USE DEF layer, open
    <3> QED BY <1>2, Zenon DEF Attempts
  <2>2. op.via \in Seq(Names)
    BY <1>2 DEF WellFormed
  <2>o. open.kind = "open"
    OBVIOUS
  <2> HIDE DEF open
  <2>3. Kept(d, Root, open, r)
    <3>1. Asks(open, op.via, None)
      BY <2>2, <2>o DEF Asks
    <3> QED BY <3>1, AttemptsAtKept, Constants
  <2>4. CASE "error" \in DOMAIN r.result
    <3>1. a = r
      BY <2>1, <2>4
    <3>2. IsAttempt(r) /\ ReadOnly(r)
      BY <2>2, <2>o, OpenAnswers
    <3> QED BY <3>1, <3>2, ReadOnlyKept
  <2>5. CASE ~("error" \in DOMAIN r.result)
    <3>1. PICK b \in AttemptsVia(d, op, layer) : a = [b EXCEPT !.reads = @ \cup r.reads]
      <4> HIDE DEF layer
      <4> QED BY <2>1, <2>5
    <3>2. /\ layer \in {Contents(d, op.via).parent, Contents(d, op.via).own}
          /\ op.kind = "moveTo" => layer = Contents(d, op.via).parent
      BY <1>2 DEF LayerForPath, WellFormed
    <3> HIDE DEF layer
    <3>3. /\ layer.c \in Layers
          /\ \A e : Agree(d, e, r.reads) => Live(e, layer.c)
          /\ layer.path = <<>> \/ EndOf(layer.path, op.via)
          /\ layer = Contents(d, op.via).parent => EndOf(layer.path, op.via)
      BY <2>2, <2>5, <2>o, <3>2, OpenFacts
    <3>4. Kept(d, layer.c, op, b)
      BY <1>2, <3>2, <3>3, AttemptsViaKept
    <3>5. /\ IsAttempt(a) /\ a.result = b.result /\ a.puts = b.puts /\ a.clears = b.clears
          /\ a.reads = b.reads \cup r.reads
      BY <3>1, <3>4, MoreReads DEF Kept
    <3>6. ReadOnly(a) <=> ReadOnly(b)
      BY <3>5 DEF ReadOnly
    <3>7. ASSUME NEW e, NodesOK(e), Agree(d, e, a.reads), ~ReadOnly(a)
          PROVE  NodesOK(Written(e, a))
      <4>1. b.reads \subseteq a.reads /\ r.reads \subseteq a.reads
        BY <3>5
      <4>2. Agree(d, e, b.reads) /\ Agree(d, e, r.reads)
        BY <3>7, <4>1, AgreeOnLess
      <4>3. Live(e, layer.c)
        BY <3>3, <4>2
      <4>4. NodesOK(Written(e, b))
        BY <3>4, <3>6, <3>7, <4>2, <4>3 DEF Kept
      <4>5. Written(e, a) = Written(e, b)
        BY <3>5, Zenon DEF Written
      <4> QED BY <4>4, <4>5
    <3>8. \A k \in DOMAIN a.puts : k[1] = "layer" => a.puts[k] \in {NoLayer, op.layer}
      BY <3>4, <3>5 DEF Kept
    <3> QED BY <3>5, <3>7, <3>8 DEF Kept
  <2> QED BY <2>4, <2>5
<1> QED BY <1>1, <1>2

-----------------------------------------------------------------------------
(* Steps.                                                                  *)

\* The layers of directories are those that were asked for, or none.
LayersOK(d) == \A k \in NodeKeys(d) : d[k] \in {NoLayer, Partition} \cup {op.layer : op \in Ops}

\* What is assumed of the operations.
LEMMA OpsFacts ==
  ASSUME NEW s \in Settings
  PROVE  /\ \A op \in s.ops : op \in Ops /\ op # None /\ WellFormed(op)
         /\ \A ops \in s.earlier : /\ Len(ops) \in Nat
                                   /\ \A i \in 1 .. Len(ops) : ops[i] \in Ops /\ WellFormed(ops[i])
<1>1. \A op \in s.ops : op \in Ops /\ op # None /\ WellFormed(op)
  BY OpsAssumption DEF Ops
<1>2. ASSUME NEW ops \in s.earlier
      PROVE  /\ Len(ops) \in Nat
             /\ \A i \in 1 .. Len(ops) : ops[i] \in Ops /\ WellFormed(ops[i])
  <2>1. ops \in Seq(ToSet(ops)) /\ \A op \in ToSet(ops) : WellFormed(op)
    BY OpsAssumption
  <2>2. Len(ops) \in Nat /\ \A i \in 1 .. Len(ops) : ops[i] \in ToSet(ops)
    BY <2>1, LenProperties, ElementOfSeq
  <2>3. \A op \in ToSet(ops) : op \in Ops
    BY DEF Ops
  <2> QED BY <2>1, <2>2, <2>3
<1> QED BY <1>1, <1>2

\* What an attempt writes, when what it has read is still what there is.
LEMMA StepKeeps ==
  ASSUME ~AllowManualPrefixes,
         NEW d, NodesOK(d), NEW op \in Ops, WellFormed(op), NEW a \in Attempts(d, op),
         NEW e, NodesOK(e), LayersOK(e), Agree(d, e, a.reads)
  PROVE  NodesOK(Written(e, a)) /\ LayersOK(Written(e, a))
<1> DEFINE w == Written(e, a)
<1>1. Kept(d, Root, op, a)
  BY AttemptsKept
<1>2. /\ \A k : k \in DOMAIN w <=> (k \in DOMAIN a.puts \/ (k \in DOMAIN e /\ ~InSome(k, a.clears)))
      /\ \A k \in DOMAIN a.puts : w[k] = a.puts[k]
      /\ \A k \in DOMAIN w : k \notin DOMAIN a.puts => w[k] = e[k]
  BY ONLY WrittenFacts
<1> HIDE DEF w
<1>3. NodesOK(w)
  <2>1. CASE ReadOnly(a)
    <3>1. DOMAIN a.puts = {} /\ \A k : ~InSome(k, a.clears)
      <4>1. PICK p : p = a.puts
        OBVIOUS
      <4>2. p = <<>>
        BY <2>1, <4>1 DEF ReadOnly, NoWrites
      <4>3. DOMAIN p = {}
        BY <4>2
      <4>4. a.clears = {}
        BY <2>1 DEF ReadOnly
      <4> QED BY <4>1, <4>3, <4>4 DEF InSome
    <3>2. DOMAIN w = DOMAIN e /\ \A k \in DOMAIN e : w[k] = e[k]
      BY <3>1, <1>2
    <3>3. VersionsAdded(e, w)
      BY <3>2 DEF VersionsAdded, NodesOK
    <3> QED BY <3>3, VersionsKeep
  <2>2. CASE ~ReadOnly(a)
    <3>1. Live(e, Root)
      BY DEF Live
    <3> QED BY <1>1, <2>2, <3>1 DEF Kept, w
  <2> QED BY <2>1, <2>2
<1>4. LayersOK(w)
  <2> SUFFICES ASSUME NEW k \in DOMAIN w, k[1] = "layer"
               PROVE  w[k] \in {NoLayer, Partition} \cup {o.layer : o \in Ops}
    BY DEF LayersOK, NodeKeys
  <2>1. CASE k \in DOMAIN a.puts
    <3>1. w[k] \in {NoLayer, op.layer}
      BY <1>1, <1>2, <2>1 DEF Kept
    <3> QED BY <3>1
  <2>2. CASE k \notin DOMAIN a.puts
    BY <2>2, <1>2 DEF LayersOK, NodeKeys
  <2> QED BY <2>1, <2>2
<1> QED BY <1>3, <1>4 DEF w

-----------------------------------------------------------------------------
(* The databases there may be at the start.                                *)

\* An empty database, or one with a version, is in order.
LEMMA EmptyIsOK == NodesOK(EmptyDb) /\ LayersOK(EmptyDb)
<1>1. PICK e : e = EmptyDb
  OBVIOUS
<1>2. PICK v : v = VersionKey(Root)
  OBVIOUS
<1>3. v[1] = "version" /\ v[2] = Root /\ v = VersionKey(v[2])
  BY <1>2, KeyFields
<1>4. DOMAIN e \subseteq {v}
  <2>1. CASE StoredVersion = None
    <3>1. e = <<>>
      BY <2>1, <1>1 DEF EmptyDb
    <3>2. DOMAIN e = {}
      BY <3>1
    <3> QED BY <3>2
  <2>2. CASE StoredVersion # None
    <3>1. e = [k \in {v} |-> StoredVersion]
      BY <2>2, <1>1, <1>2, Zenon DEF EmptyDb
    <3> QED BY <3>1
  <2> QED BY <2>1, <2>2
<1>5. \A k \in DOMAIN e : k[1] = "version" /\ k[2] = Root /\ k = VersionKey(k[2])
  BY <1>3, <1>4
<1>6. IsFiniteSet(DOMAIN e)
  <2>1. IsFiniteSet({v})
    BY FS_Singleton
  <2> QED BY <2>1, <1>4, FS_Subset
<1>7. Subs(e) = {} /\ NodeKeys(e) = {}
  BY <1>5 DEF Subs, NodeKeys
<1>8. Typed(e)
  BY <1>5, Constants DEF Typed, KeyKinds
<1>9. ChildrenExist(e) /\ ParentsExist(e) /\ OneParent(e) /\ HasParent(e) /\ Recorded(e)
  BY <1>7 DEF ChildrenExist, ParentsExist, OneParent, HasParent, Recorded
<1>10. LayersLive(e) /\ ContentsOwned(e)
  BY <1>5 DEF LayersLive, ContentsOwned, Live
<1>11. NoCycles(e)
  <2>1. \A S : Cyclic(e, S) => S = {}
    BY <1>7 DEF Cyclic
  <2> QED BY <2>1, EmptyIsAcyclic
<1>12. LayersOK(e)
  BY <1>7 DEF LayersOK
<1> QED BY <1>1, <1>6, <1>8, <1>9, <1>10, <1>11, <1>12 DEF NodesOK

Afters(ops) ==
  LET after[i \in 0 .. Len(ops)] == IF i = 0 THEN EmptyDb ELSE Done(after[i - 1], ops[i])
  IN after

Follows(ops, n, w) ==
  w = [i \in 0 .. n |-> IF i = 0 THEN EmptyDb ELSE Done(w[i - 1], ops[i])]

\* The recursion of After has a solution.
LEMMA AftersExist ==
  ASSUME NEW ops, NEW N \in Nat
  PROVE  \E w : Follows(ops, N, w)
<1> DEFINE Bad == {n \in Nat : ~ \E w : Follows(ops, n, w)}
<1> SUFFICES ASSUME Bad # {} PROVE FALSE
  OBVIOUS
<1>1. PICK n \in Bad : n \in Nat /\ \A m \in Bad : n <= m
  <2> HIDE DEF Bad
  <2>1. Bad \subseteq Nat
    BY DEF Bad
  <2> QED BY <2>1, Least
<1>2. CASE n = 0
  <2> DEFINE w == [i \in 0 .. 0 |-> EmptyDb]
  <2>1. Follows(ops, 0, w)
    BY DEF Follows
  <2> QED BY <2>1, <1>2
<1>3. CASE n # 0
  <2>1. n - 1 \in Nat /\ ~(n <= n - 1)
    BY <1>1, <1>3
  <2>2. PICK w : Follows(ops, n - 1, w)
    BY <2>1, <1>1
  <2> DEFINE v == [i \in 0 .. n |-> IF i = 0 THEN EmptyDb ELSE Done(w[i - 1], ops[i])]
  <2>3. \A i \in 0 .. n - 1 : v[i] = w[i]
    BY <2>2, <2>1 DEF Follows
  <2>4. \A i \in 0 .. n : v[i] = IF i = 0 THEN EmptyDb ELSE Done(w[i - 1], ops[i])
    OBVIOUS
  <2>5. v = [i \in 0 .. n |-> v[i]]
    OBVIOUS
  <2> HIDE DEF v
  <2>6. \A i \in 1 .. n : v[i - 1] = w[i - 1]
    BY <2>3, <2>1
  <2>7. \A i \in 0 .. n : v[i] = IF i = 0 THEN EmptyDb ELSE Done(v[i - 1], ops[i])
    <3> SUFFICES ASSUME NEW i \in 0 .. n PROVE v[i] = IF i = 0 THEN EmptyDb ELSE Done(v[i - 1], ops[i])
      OBVIOUS
    <3>1. CASE i = 0
      BY <2>4, <3>1
    <3>2. CASE i # 0
      <4>1. i \in 1 .. n
        BY <3>2
      <4>2. v[i - 1] = w[i - 1]
        BY <2>6, <4>1
      <4> QED BY <2>4, <3>2, <4>2
    <3> QED BY <3>1, <3>2
  <2>8. v = [i \in 0 .. n |-> IF i = 0 THEN EmptyDb ELSE Done(v[i - 1], ops[i])]
    BY <2>5, <2>7
  <2> QED BY <2>8, Zenon DEF Follows
<1> QED BY <1>2, <1>3

\* An operation that is done leaves a database in order,
LEMMA DoneKeeps ==
  ASSUME ~AllowManualPrefixes,
         NEW d, NodesOK(d), LayersOK(d), NEW op \in Ops, WellFormed(op)
  PROVE  NodesOK(Done(d, op)) /\ LayersOK(Done(d, op))
<1>1. CASE Attempts(d, op) = {}
  BY <1>1 DEF Done
<1>2. CASE Attempts(d, op) # {}
  <2>1. PICK a : a = CHOOSE b \in Attempts(d, op) : TRUE
    OBVIOUS
  <2>2. a \in Attempts(d, op)
    BY <1>2, <2>1
  <2>3. Done(d, op) = Written(d, a)
    BY <1>2, <2>1, Zenon DEF Done
  <2>4. Agree(d, d, a.reads)
    BY DEF Agree, Same
  <2> QED BY <2>2, <2>3, <2>4, StepKeeps
<1> QED BY <1>1, <1>2

\* and so do any number of them, by induction on their number.
LEMMA AfterIsOK ==
  ASSUME ~AllowManualPrefixes, NEW ops, Len(ops) \in Nat,
         \A i \in 1 .. Len(ops) : ops[i] \in Ops /\ WellFormed(ops[i])
  PROVE  NodesOK(After(ops)) /\ LayersOK(After(ops))
<1>1. PICK u : Follows(ops, Len(ops), u)
  BY AftersExist
<1>2. Follows(ops, Len(ops), Afters(ops))
  BY <1>1, Zenon DEF Afters, Follows
<1>3. PICK w : w = Afters(ops)
  OBVIOUS
<1>4. w = [i \in 0 .. Len(ops) |-> IF i = 0 THEN EmptyDb ELSE Done(w[i - 1], ops[i])]
  BY <1>2, <1>3 DEF Follows
<1>5. w[0] = EmptyDb /\ \A i \in 1 .. Len(ops) : w[i] = Done(w[i - 1], ops[i])
  BY <1>4
<1>6. After(ops) = w[Len(ops)]
  BY <1>3, Zenon DEF After, Afters
<1> DEFINE Bad == {n \in Nat : n <= Len(ops) /\ ~(NodesOK(w[n]) /\ LayersOK(w[n]))}
<1>7. Bad = {}
  <2> SUFFICES ASSUME Bad # {} PROVE FALSE
    OBVIOUS
  <2>1. PICK n \in Bad : n \in Nat /\ \A m \in Bad : n <= m
    <3> HIDE DEF Bad
    <3>1. Bad \subseteq Nat
      BY DEF Bad
    <3> QED BY <3>1, Least
  <2>2. n # 0
    BY <1>5, EmptyIsOK
  <2>3. n - 1 \in Nat /\ ~(n <= n - 1) /\ n - 1 <= Len(ops) /\ n \in 1 .. Len(ops)
    BY <2>1, <2>2
  <2>4. NodesOK(w[n - 1]) /\ LayersOK(w[n - 1])
    BY <2>1, <2>3
  <2>5. NodesOK(Done(w[n - 1], ops[n])) /\ LayersOK(Done(w[n - 1], ops[n]))
    BY <2>3, <2>4, DoneKeeps
  <2> QED BY <2>3, <2>5, <1>5
<1> QED BY <1>6, <1>7

-----------------------------------------------------------------------------
(* The inductive invariant.                                                *)

IsMap(f) == f = [t \in Txns |-> f[t]]

\* An attempt is one of its operation in a database there was: what is different in
\* the present one is noted as dirty.
AttemptOK(t) ==
  attempt[t] # None =>
    \E d : /\ NodesOK(d) /\ attempt[t] \in Attempts(d, call[t])
           /\ \A k : k \in dirty[t] \/ Same(d, db, k)

CallOK(t) ==
  /\ call[t] \in setting.ops \cup {None}
  /\ attempt[t] # None => call[t] # None /\ outcome[t] = Pending /\ ~ReadOnly(attempt[t])
  /\ dirty[t] # {} => attempt[t] # None
  /\ outcome[t] # Pending => outcome[t].op = call[t]

TreeInv ==
  /\ setting \in Settings
  /\ NodesOK(db) /\ LayersOK(db)
  /\ places = Places(db)
  /\ IsMap(call) /\ IsMap(attempt) /\ IsMap(dirty) /\ IsMap(outcome)
  /\ \A t \in Txns : CallOK(t) /\ AttemptOK(t)

Updated(f, t, x, g) == g = [f EXCEPT ![t] = x]

\* A function that is changed at one of the calls.
LEMMA MapFacts ==
  ASSUME NEW f, IsMap(f), NEW t \in Txns, NEW x, NEW g, Updated(f, t, x, g)
  PROVE  IsMap(g) /\ \A u \in Txns : g[u] = IF u = t THEN x ELSE f[u]
<1>1. DOMAIN f = Txns
  BY DEF IsMap
<1>2. g = [u \in Txns |-> IF u = t THEN x ELSE f[u]]
  BY <1>1 DEF Updated
<1> QED BY <1>2 DEF IsMap

\* What is not changed is the same.
LEMMA ChangedIsAll ==
  ASSUME NEW d, NEW a
  PROVE  \A k : k \in Changed(d, a) \/ Same(d, Written(d, a), k)
<1>1. PICK w : w = Written(d, a)
  OBVIOUS
<1>2. /\ \A k : k \in DOMAIN w <=> (k \in DOMAIN a.puts \/ (k \in DOMAIN d /\ ~InSome(k, a.clears)))
      /\ \A k \in DOMAIN w : k \notin DOMAIN a.puts => w[k] = d[k]
  <2>1. /\ \A k : k \in DOMAIN Written(d, a)
                     <=> (k \in DOMAIN a.puts \/ (k \in DOMAIN d /\ ~InSome(k, a.clears)))
        /\ \A k \in DOMAIN a.puts : Written(d, a)[k] = a.puts[k]
        /\ \A k \in DOMAIN Written(d, a) : k \notin DOMAIN a.puts => Written(d, a)[k] = d[k]
    BY ONLY WrittenFacts
  <2> QED BY <1>1, <2>1
<1>3. ASSUME NEW k, k \notin Changed(d, a)
      PROVE  Same(d, w, k)
  <2>1. k \notin DOMAIN a.puts /\ (k \in DOMAIN d => ~InSome(k, a.clears))
    BY <1>3 DEF Changed
  <2> QED BY <2>1, <1>2 DEF Same
<1> QED BY <1>1, <1>3

\* What has not changed twice has not changed.
LEMMA SameTwice ==
  ASSUME NEW d, NEW e, NEW f, NEW k, Same(d, e, k), Same(e, f, k)
  PROVE  Same(d, f, k)
BY DEF Same

\* The commit of an attempt that meets no conflict leaves the directories in order.
LEMMA CommitKeeps ==
  ASSUME ~AllowManualPrefixes, TreeInv, NEW t \in Txns, attempt[t] # None, ~Conflict(t)
  PROVE  NodesOK(Written(db, attempt[t])) /\ LayersOK(Written(db, attempt[t]))
<1>1. call[t] \in Ops /\ WellFormed(call[t])
  <2>1. call[t] \in setting.ops
    BY DEF TreeInv, CallOK
  <2> QED BY <2>1, OpsFacts DEF TreeInv
<1>2. PICK d : /\ NodesOK(d) /\ attempt[t] \in Attempts(d, call[t])
               /\ \A k : k \in dirty[t] \/ Same(d, db, k)
  BY DEF TreeInv, AttemptOK
<1>3. Agree(d, db, attempt[t].reads)
  BY <1>2 DEF Conflict, Agree
<1>4. NodesOK(db) /\ LayersOK(db)
  BY DEF TreeInv
<1> QED BY <1>1, <1>2, <1>3, <1>4, StepKeeps

\* The invariant holds at the start,
LEMMA InitTree ==
  ASSUME ~AllowManualPrefixes, Init
  PROVE  TreeInv
<1>1. PICK ops \in setting.earlier : db = After(ops)
  BY DEF Init
<1>2. setting \in Settings /\ places = Places(db)
  BY DEF Init
<1>3. NodesOK(db) /\ LayersOK(db)
  <2>1. Len(ops) \in Nat /\ \A i \in 1 .. Len(ops) : ops[i] \in Ops /\ WellFormed(ops[i])
    BY <1>1, <1>2, OpsFacts
  <2>2. NodesOK(After(ops)) /\ LayersOK(After(ops))
    BY <2>1, AfterIsOK
  <2> QED BY <1>1, <2>2
<1>4. /\ call = [t \in Txns |-> None] /\ attempt = [t \in Txns |-> None]
      /\ dirty = [t \in Txns |-> {}] /\ outcome = [t \in Txns |-> Pending]
  BY DEF Init
<1>5. IsMap(call) /\ IsMap(attempt) /\ IsMap(dirty) /\ IsMap(outcome)
  BY <1>4 DEF IsMap
<1>6. \A t \in Txns : CallOK(t) /\ AttemptOK(t)
  BY <1>4 DEF CallOK, AttemptOK
<1> QED BY <1>2, <1>3, <1>5, <1>6 DEF TreeInv

\* An attempt keeps the invariant: it changes nothing that is stored.
LEMMA AttemptTree ==
  ASSUME TreeInv, NEW t \in Txns, Attempt(t), setting' = setting
  PROVE  TreeInv'
<1>1. /\ outcome[t] = Pending /\ attempt[t] = None
      /\ \E op \in setting.ops :
           /\ call[t] \in {None, op} /\ call' = [call EXCEPT ![t] = op]
           /\ \E a \in Attempts(db, op) :
                IF ReadOnly(a)
                THEN /\ outcome' = [outcome EXCEPT ![t] = [op |-> call'[t], result |-> a.result]]
                     /\ UNCHANGED <<db, attempt, dirty, places, unknown>>
                ELSE attempt' = [attempt EXCEPT ![t] = a] /\ UNCHANGED <<db, dirty, places, outcome, unknown>>
  BY DEF Attempt, Finish
<1>2. PICK op \in setting.ops :
           /\ call[t] \in {None, op} /\ call' = [call EXCEPT ![t] = op]
           /\ \E a \in Attempts(db, op) :
                IF ReadOnly(a)
                THEN /\ outcome' = [outcome EXCEPT ![t] = [op |-> call'[t], result |-> a.result]]
                     /\ UNCHANGED <<db, attempt, dirty, places, unknown>>
                ELSE attempt' = [attempt EXCEPT ![t] = a] /\ UNCHANGED <<db, dirty, places, outcome, unknown>>
  BY <1>1
<1>3. PICK a \in Attempts(db, op) :
        IF ReadOnly(a)
        THEN /\ outcome' = [outcome EXCEPT ![t] = [op |-> call'[t], result |-> a.result]]
             /\ UNCHANGED <<db, attempt, dirty, places, unknown>>
        ELSE attempt' = [attempt EXCEPT ![t] = a] /\ UNCHANGED <<db, dirty, places, outcome, unknown>>
  BY <1>2
<1>m. /\ IsMap(call) /\ IsMap(attempt) /\ IsMap(dirty) /\ IsMap(outcome) /\ setting \in Settings
      /\ NodesOK(db) /\ LayersOK(db) /\ places = Places(db)
  BY DEF TreeInv
<1>4. IsMap(call') /\ \A u \in Txns : call'[u] = IF u = t THEN op ELSE call[u]
  <2>1. Updated(call, t, op, call')
    BY <1>2 DEF Updated
  <2> QED BY <2>1, <1>m, MapFacts
<1>5. op # None
  BY <1>m, OpsFacts
<1>6. dirty[t] = {}
  BY <1>1 DEF TreeInv, CallOK
<1>7. dirty' = dirty /\ db' = db /\ places' = places
  BY <1>3
<1>8. /\ IsMap(attempt')
      /\ \A u \in Txns : attempt'[u] = IF u = t /\ ~ReadOnly(a) THEN a ELSE attempt[u]
  <2>1. CASE ReadOnly(a)
    BY <1>3, <1>m, <2>1
  <2>2. CASE ~ReadOnly(a)
    <3>1. Updated(attempt, t, a, attempt')
      BY <1>3, <2>2 DEF Updated
    <3> QED BY <2>2, <3>1, <1>m, MapFacts
  <2> QED BY <2>1, <2>2
<1>9. PICK done : done = [op |-> call'[t], result |-> a.result]
  OBVIOUS
<1>10. /\ IsMap(outcome')
       /\ \A u \in Txns : outcome'[u] = IF u = t /\ ReadOnly(a) THEN done ELSE outcome[u]
  <2>1. CASE ReadOnly(a)
    <3>1. Updated(outcome, t, done, outcome')
      BY <1>3, <1>9, <2>1 DEF Updated
    <3> QED BY <2>1, <3>1, <1>m, MapFacts
  <2>2. CASE ~ReadOnly(a)
    BY <1>3, <1>m, <2>2
  <2> QED BY <2>1, <2>2
<1>11. done.op = op
  BY <1>4, <1>9
<1>12. ASSUME NEW u \in Txns PROVE CallOK(u)' /\ AttemptOK(u)'
  <2>0. CallOK(u) /\ AttemptOK(u)
    BY DEF TreeInv
  <2>1. CASE u # t
    <3>1. call'[u] = call[u] /\ attempt'[u] = attempt[u] /\ outcome'[u] = outcome[u] /\ dirty'[u] = dirty[u]
      BY <2>1, <1>4, <1>7, <1>8, <1>10
    <3>2. CallOK(u)'
      BY <2>0, <3>1 DEF CallOK, ReadOnly, NoWrites
    <3>3. AttemptOK(u)'
      BY <2>0, <3>1, <1>7 DEF AttemptOK
    <3> QED BY <3>2, <3>3
  <2>2. CASE u = t /\ ReadOnly(a)
    <3>1. call'[u] = op /\ attempt'[u] = None /\ outcome'[u] = done /\ dirty'[u] = {}
      BY <2>2, <1>1, <1>4, <1>6, <1>7, <1>8, <1>10
    <3> QED BY <3>1, <1>11 DEF CallOK, AttemptOK
  <2>3. CASE u = t /\ ~ReadOnly(a)
    <3>1. call'[u] = op /\ attempt'[u] = a /\ outcome'[u] = Pending /\ dirty'[u] = {}
      BY <2>3, <1>1, <1>4, <1>6, <1>7, <1>8, <1>10
    <3>2. CASE a = None
      BY <3>1, <3>2 DEF CallOK, AttemptOK
    <3>3. CASE a # None
      <4>1. CallOK(u)'
        BY <2>3, <3>1, <1>5 DEF CallOK, ReadOnly, NoWrites
      <4>2. \A k : Same(db, db', k)
        BY <1>7 DEF Same
      <4>3. AttemptOK(u)'
        BY <3>1, <4>2, <1>m DEF AttemptOK
      <4> QED BY <4>1, <4>3
    <3> QED BY <3>2, <3>3
  <2> QED BY <2>1, <2>2, <2>3
<1>13. /\ setting' \in Settings /\ NodesOK(db') /\ LayersOK(db') /\ places' = Places(db') /\ IsMap(dirty')
  BY <1>7, <1>m
<1> QED BY <1>4, <1>8, <1>10, <1>12, <1>13 DEF TreeInv

\* The end of an attempt that is not applied.
LEMMA EndTree ==
  ASSUME TreeInv, NEW t \in Txns, EndAttempt(t), Updated(dirty, t, {}, dirty'),
         UNCHANGED <<setting, db, call, places, outcome>>
  PROVE  TreeInv'
<1>m. /\ IsMap(call) /\ IsMap(attempt) /\ IsMap(dirty) /\ IsMap(outcome) /\ setting \in Settings
      /\ NodesOK(db) /\ LayersOK(db) /\ places = Places(db)
  BY DEF TreeInv
<1>1. IsMap(attempt') /\ \A u \in Txns : attempt'[u] = IF u = t THEN None ELSE attempt[u]
  <2>1. Updated(attempt, t, None, attempt')
    BY DEF EndAttempt, Updated
  <2> QED BY <2>1, <1>m, MapFacts
<1>2. IsMap(dirty') /\ \A u \in Txns : dirty'[u] = IF u = t THEN {} ELSE dirty[u]
  BY <1>m, MapFacts
<1>3. ASSUME NEW u \in Txns PROVE CallOK(u)' /\ AttemptOK(u)'
  <2>0. CallOK(u) /\ AttemptOK(u)
    BY DEF TreeInv
  <2>1. CASE u # t
    <3>1. call'[u] = call[u] /\ attempt'[u] = attempt[u] /\ outcome'[u] = outcome[u] /\ dirty'[u] = dirty[u]
      BY <2>1, <1>1, <1>2
    <3>2. CallOK(u)'
      BY <2>0, <3>1 DEF CallOK, ReadOnly, NoWrites
    <3>3. AttemptOK(u)'
      BY <2>0, <3>1 DEF AttemptOK
    <3> QED BY <3>2, <3>3
  <2>2. CASE u = t
    <3>1. attempt'[u] = None /\ dirty'[u] = {}
      BY <2>2, <1>1, <1>2
    <3> QED BY <2>0, <3>1 DEF CallOK, AttemptOK
  <2> QED BY <2>1, <2>2
<1>4. /\ setting' \in Settings /\ NodesOK(db') /\ LayersOK(db') /\ places' = Places(db')
      /\ IsMap(call') /\ IsMap(outcome')
  BY <1>m
<1> QED BY <1>1, <1>2, <1>3, <1>4 DEF TreeInv

\* The end of one that is applied, whether the call gets to know it or not.
LEMMA ApplyTree ==
  ASSUME ~AllowManualPrefixes,
         TreeInv, NEW t \in Txns, attempt[t] # None, ~Conflict(t), Apply(t), EndAttempt(t),
         UNCHANGED <<setting, call>>, (outcome' = outcome) \/ Finish(t, attempt[t].result)
  PROVE  TreeInv'
<1>m. /\ IsMap(call) /\ IsMap(attempt) /\ IsMap(dirty) /\ IsMap(outcome) /\ setting \in Settings
  BY DEF TreeInv
<1>1. IsMap(attempt') /\ \A u \in Txns : attempt'[u] = IF u = t THEN None ELSE attempt[u]
  <2>1. Updated(attempt, t, None, attempt')
    BY DEF EndAttempt, Updated
  <2> QED BY <2>1, <1>m, MapFacts
<1>2. PICK more : more = Changed(db, attempt[t])
  OBVIOUS
<1>3. /\ IsMap(dirty')
      /\ \A u \in Txns : dirty'[u] = IF u = t \/ attempt[u] = None THEN {} ELSE dirty[u] \cup more
  BY <1>2 DEF Apply, IsMap
<1>4. db' = Written(db, attempt[t]) /\ places' = Places(db')
  BY DEF Apply
<1>5. NodesOK(db') /\ LayersOK(db')
  BY <1>4, CommitKeeps
<1>6. \A k : k \in more \/ Same(db, db', k)
  BY <1>2, <1>4, ChangedIsAll
<1>7. PICK done : done = [op |-> call'[t], result |-> attempt[t].result]
  OBVIOUS
<1>8. done.op = call[t]
  BY <1>7
<1>9. /\ IsMap(outcome')
      /\ \A u \in Txns : outcome'[u] = outcome[u] \/ (u = t /\ outcome'[u] = done)
  <2>1. CASE outcome' = outcome
    BY <2>1, <1>m
  <2>2. CASE Finish(t, attempt[t].result)
    <3>1. Updated(outcome, t, done, outcome')
      BY <2>2, <1>7 DEF Finish, Updated
    <3> QED BY <3>1, <1>m, MapFacts
  <2> QED BY <2>1, <2>2
<1>10. ASSUME NEW u \in Txns PROVE CallOK(u)' /\ AttemptOK(u)'
  <2>0. CallOK(u) /\ AttemptOK(u)
    BY DEF TreeInv
  <2>1. CASE u # t /\ attempt[u] # None
    <3>1. /\ call'[u] = call[u] /\ attempt'[u] = attempt[u] /\ outcome'[u] = outcome[u]
          /\ dirty'[u] = dirty[u] \cup more
      BY <2>1, <1>1, <1>3, <1>9
    <3>2. CallOK(u)'
      BY <2>0, <2>1, <3>1 DEF CallOK, ReadOnly, NoWrites
    <3>3. PICK d : /\ NodesOK(d) /\ attempt[u] \in Attempts(d, call[u])
                   /\ \A k : k \in dirty[u] \/ Same(d, db, k)
      BY <2>0, <2>1 DEF AttemptOK
    <3>4. \A k : k \in dirty'[u] \/ Same(d, db', k)
      BY <3>1, <3>3, <1>6, SameTwice
    <3>5. AttemptOK(u)'
      BY <3>1, <3>3, <3>4 DEF AttemptOK
    <3> QED BY <3>2, <3>5
  <2>2. CASE u # t /\ attempt[u] = None
    <3>1. /\ call'[u] = call[u] /\ attempt'[u] = None /\ outcome'[u] = outcome[u] /\ dirty'[u] = {}
      BY <2>2, <1>1, <1>3, <1>9
    <3> QED BY <2>0, <3>1 DEF CallOK, AttemptOK
  <2>3. CASE u = t
    <3>1. /\ call'[u] = call[u] /\ attempt'[u] = None /\ dirty'[u] = {}
          /\ outcome'[u] = outcome[u] \/ outcome'[u] = done
      BY <2>3, <1>1, <1>3, <1>9
    <3> QED BY <2>0, <2>3, <3>1, <1>8 DEF CallOK, AttemptOK
  <2> QED BY <2>1, <2>2, <2>3
<1>11. setting' \in Settings /\ IsMap(call')
  BY <1>m
<1> QED BY <1>1, <1>3, <1>4, <1>5, <1>9, <1>10, <1>11 DEF TreeInv

\* Every step keeps it.
LEMMA NextTree ==
  ASSUME ~AllowManualPrefixes, TreeInv, [Next]_vars
  PROVE  TreeInv'
<1>1. ASSUME NEW t \in Txns, Attempt(t), setting' = setting
      PROVE  TreeInv'
  BY <1>1, AttemptTree
<1>2. ASSUME NEW t \in Txns, Commit(t), setting' = setting
      PROVE  TreeInv'
  BY <1>2, ApplyTree DEF Commit
<1>3. ASSUME NEW t \in Txns, CommitConflict(t), setting' = setting
      PROVE  TreeInv'
  BY <1>3, EndTree DEF CommitConflict, Updated
<1>4. ASSUME NEW t \in Txns, CommitUnknown(t), setting' = setting
      PROVE  TreeInv'
  <2>1. CASE Apply(t)
    BY <1>4, <2>1, ApplyTree DEF CommitUnknown
  <2>2. CASE dirty' = [dirty EXCEPT ![t] = {}] /\ UNCHANGED <<db, places, unknown>>
    BY <1>4, <2>2, EndTree DEF CommitUnknown, Updated
  <2> QED BY <1>4, <2>1, <2>2 DEF CommitUnknown
<1>5. CASE UNCHANGED vars
  <2>1. /\ setting' = setting /\ db' = db /\ places' = places /\ call' = call /\ attempt' = attempt
        /\ dirty' = dirty /\ outcome' = outcome
    BY <1>5 DEF vars
  <2> QED BY <2>1 DEF TreeInv, IsMap, CallOK, AttemptOK, ReadOnly, NoWrites
<1> QED BY <1>1, <1>2, <1>3, <1>4, <1>5 DEF Next

\* The invariant holds in every state.
LEMMA TreeIsInvariant ==
  ASSUME ~AllowManualPrefixes
  PROVE  Spec => []TreeInv
<1>1. Init => TreeInv
  BY InitTree
<1>2. TreeInv /\ [Next]_vars => TreeInv'
  BY NextTree
<1> QED BY <1>1, <1>2, PTL DEF Spec

-----------------------------------------------------------------------------
(* The levels of the tree.                                                 *)

Level(d, S) == UNION {Below(d, x) : x \in S}
Levelled(d, n, w) == w = [i \in 0 .. n |-> IF i = 0 THEN {RootPlace} ELSE Level(d, w[i - 1])]

\* The recursion of Levels has a solution.
LEMMA LevelsExist ==
  ASSUME NEW d, NEW N \in Nat
  PROVE  \E w : Levelled(d, N, w)
<1> DEFINE Bad == {n \in Nat : ~ \E w : Levelled(d, n, w)}
<1> SUFFICES ASSUME Bad # {} PROVE FALSE
  OBVIOUS
<1>1. PICK n \in Bad : n \in Nat /\ \A m \in Bad : n <= m
  <2> HIDE DEF Bad
  <2>1. Bad \subseteq Nat
    BY DEF Bad
  <2> QED BY <2>1, Least
<1>2. CASE n = 0
  <2> DEFINE w == [i \in 0 .. 0 |-> {RootPlace}]
  <2>1. Levelled(d, 0, w)
    BY DEF Levelled
  <2> QED BY <2>1, <1>2
<1>3. CASE n # 0
  <2>1. n - 1 \in Nat /\ ~(n <= n - 1)
    BY <1>1, <1>3
  <2>2. PICK w : Levelled(d, n - 1, w)
    BY <2>1, <1>1
  <2> DEFINE v == [i \in 0 .. n |-> IF i = 0 THEN {RootPlace} ELSE Level(d, w[i - 1])]
  <2>3. \A i \in 0 .. n - 1 : v[i] = w[i]
    <3>1. w = [i \in 0 .. n - 1 |-> IF i = 0 THEN {RootPlace} ELSE Level(d, w[i - 1])]
      BY <2>2 DEF Levelled
    <3> SUFFICES ASSUME NEW i \in 0 .. n - 1 PROVE v[i] = w[i]
      OBVIOUS
    <3>2. w[i] = IF i = 0 THEN {RootPlace} ELSE Level(d, w[i - 1])
      BY <3>1
    <3>3. v[i] = IF i = 0 THEN {RootPlace} ELSE Level(d, w[i - 1])
      BY <2>1
    <3> QED BY <3>2, <3>3
  <2>4. \A i \in 0 .. n : v[i] = IF i = 0 THEN {RootPlace} ELSE Level(d, w[i - 1])
    OBVIOUS
  <2>5. v = [i \in 0 .. n |-> v[i]]
    OBVIOUS
  <2> HIDE DEF v
  <2>6. \A i \in 1 .. n : v[i - 1] = w[i - 1]
    BY <2>3, <2>1
  <2>7. \A i \in 0 .. n : v[i] = IF i = 0 THEN {RootPlace} ELSE Level(d, v[i - 1])
    <3> SUFFICES ASSUME NEW i \in 0 .. n
                 PROVE  v[i] = IF i = 0 THEN {RootPlace} ELSE Level(d, v[i - 1])
      OBVIOUS
    <3>1. CASE i = 0
      BY <2>4, <3>1
    <3>2. CASE i # 0
      <4>1. i \in 1 .. n
        BY <3>2
      <4>2. v[i - 1] = w[i - 1]
        BY <2>6, <4>1
      <4> QED BY <2>4, <3>2, <4>2
    <3> QED BY <3>1, <3>2
  <2>8. v = [i \in 0 .. n |-> IF i = 0 THEN {RootPlace} ELSE Level(d, v[i - 1])]
    BY <2>5, <2>7
  <2> QED BY <2>8, Zenon DEF Levelled
<1> QED BY <1>2, <1>3

\* Levels is the root and the levels under it.
LEMMA LevelsDef ==
  ASSUME NEW d, Cardinality(Subs(d)) \in Nat
  PROVE  /\ DOMAIN Levels(d) = 0 .. Cardinality(Subs(d))
         /\ Levels(d)[0] = {RootPlace}
         /\ \A i \in 1 .. Cardinality(Subs(d)) : Levels(d)[i] = Level(d, Levels(d)[i - 1])
<1>1. PICK w : Levelled(d, Cardinality(Subs(d)), w)
  BY LevelsExist
<1>2. Levelled(d, Cardinality(Subs(d)), Levels(d))
  BY <1>1, Zenon DEF Levels, Levelled, Level
<1>3. PICK v : v = Levels(d)
  OBVIOUS
<1>4. PICK n \in Nat : n = Cardinality(Subs(d))
  OBVIOUS
<1>5. v = [i \in 0 .. n |-> IF i = 0 THEN {RootPlace} ELSE Level(d, v[i - 1])]
  BY <1>2, <1>3, <1>4 DEF Levelled
<1>6. DOMAIN v = 0 .. n /\ v[0] = {RootPlace} /\ \A i \in 1 .. n : v[i] = Level(d, v[i - 1])
  <2>1. DOMAIN v = 0 .. n
    BY <1>5
  <2>2. \A i \in 0 .. n : v[i] = IF i = 0 THEN {RootPlace} ELSE Level(d, v[i - 1])
    BY <1>5
  <2>3. v[0] = {RootPlace}
    BY <2>2
  <2>4. ASSUME NEW i \in 1 .. n
        PROVE  v[i] = Level(d, v[i - 1])
    <3>1. i \in 0 .. n /\ i # 0
      OBVIOUS
    <3> QED BY <3>1, <2>2
  <2> QED BY <2>1, <2>3, <2>4
<1> QED BY <1>3, <1>4, <1>6, Zenon

\* The place under another one that a name leads to.
ChildPlace(d, x, k) == Place(Append(x.path, k[4]), k[2], d[k])
NamesIn(d) == {k[4] : k \in Subs(d)}
\* The prefix of the directory that a name is stored in: the root, a partition, or an
\* ordinary directory.
Source(k) ==
  IF k[3] # RootPrefix(k[2]) THEN k[3] ELSE IF k[2] = Root THEN RootPrefix(Root) ELSE k[2]

PlaceTyped(d, x) ==
  /\ x.path \in Seq(NamesIn(d))
  /\ x = RootPlace \/ (x.c \in Layers /\ x.prefix \in PrefixesOf(x.c) /\ x.path # <<>>)

\* What places are made of.
LEMMA PlaceFields ==
  /\ \A path, c, p : Place(path, c, p).path = path
  /\ \A path, c, p : Place(path, c, p).c = c
  /\ \A path, c, p : Place(path, c, p).prefix = p
  /\ RootPlace.path = <<>> /\ RootPlace.c = Root /\ RootPlace.prefix = RootPrefix(Root)
BY DEF Place, RootPlace

\* The inside of a partition is the root of its layer.
LEMMA InsideFields ==
  ASSUME NEW d, NEW x
  PROVE  /\ IsPartition(d, x.c, x.prefix) => Inside(d, x).c = x.prefix /\ Inside(d, x).prefix = RootPrefix(x.prefix)
         /\ ~IsPartition(d, x.c, x.prefix) => Inside(d, x).c = x.c /\ Inside(d, x).prefix = x.prefix
BY DEF Inside

\* A name is within the one place whose prefix is its source.
LEMMA WithinSource ==
  ASSUME NEW d, NodesOK(d), NEW x, PlaceTyped(d, x), NEW k \in Subs(d)
  PROVE  k \in Within(d, x) <=> Source(k) = x.prefix
<1>1. k \in Within(d, x) <=> k[2] = Inside(d, x).c /\ k[3] = Inside(d, x).prefix
  BY DEF Within
<1>2. /\ k[2] \in Layers /\ (k[3] = RootPrefix(k[2]) \/ k[3] \in PrefixesOf(k[2]))
      /\ Live(d, k[2])
      /\ k[3] = RootPrefix(k[2]) \/ Ordinary(d, k[2], k[3])
  BY DEF NodesOK, Typed, SubTyped, Subs, ParentsExist, LayersLive
<1>3. Typed(d) /\ Root \in Layers
  BY Constants DEF NodesOK
<1>4. CASE x = RootPlace
  <2>1. x.c = Root /\ x.prefix = RootPrefix(Root)
    BY <1>4, PlaceFields
  <2>2. Inside(d, x).c = Root /\ Inside(d, x).prefix = RootPrefix(Root)
    BY <2>1, <1>3, RootIsNoPartition, InsideFields
  <2>3. RootPrefix(Root) \notin Layers /\ RootPrefix(Root) \notin PrefixesOf(k[2])
    BY <1>2, <1>3, RootPrefixFacts
  <2> QED BY <1>1, <1>2, <2>1, <2>2, <2>3 DEF Source
<1>5. CASE x.c \in Layers /\ x.prefix \in PrefixesOf(x.c)
  <2>1. x.prefix \in Layers /\ Front(x.prefix) = x.c /\ x.prefix # Root
    BY <1>5, PrefixFacts DEF Root
  <2>2. \A e \in Layers : RootPrefix(e) # x.prefix
    BY <2>1, RootPrefixFacts
  <2>3. k[3] = x.prefix => k[2] = x.c
    BY <1>2, <1>5, <2>2, PrefixesDiffer
  <2>4. CASE IsPartition(d, x.c, x.prefix)
    <3>1. Inside(d, x).c = x.prefix /\ Inside(d, x).prefix = RootPrefix(x.prefix)
      BY <2>4, InsideFields
    <3>2. ~(k[3] = x.prefix /\ k[3] # RootPrefix(k[2]))
      BY <1>2, <2>3, <2>4 DEF Ordinary
    <3> QED BY <1>1, <1>2, <1>3, <2>1, <2>2, <3>1, <3>2 DEF Source
  <2>5. CASE ~IsPartition(d, x.c, x.prefix)
    <3>1. Inside(d, x).c = x.c /\ Inside(d, x).prefix = x.prefix
      BY <2>5, InsideFields
    <3>2. k[2] # x.prefix
      BY <1>2, <2>1, <2>5 DEF Live
    <3> QED BY <1>1, <1>2, <1>3, <2>2, <2>3, <3>1, <3>2 DEF Source
  <2> QED BY <2>4, <2>5
<1> QED BY <1>4, <1>5 DEF PlaceTyped

\* What is under a place is a place, with a longer path.
LEMMA ChildTyped ==
  ASSUME NEW d, NodesOK(d), NEW x, PlaceTyped(d, x), NEW k \in Subs(d)
  PROVE  /\ PlaceTyped(d, ChildPlace(d, x, k))
         /\ ChildPlace(d, x, k).prefix = d[k] /\ ChildPlace(d, x, k).c = k[2]
         /\ ChildPlace(d, x, k).path = Append(x.path, k[4])
         /\ k[2] \in Layers /\ d[k] \in PrefixesOf(k[2]) /\ ChildPlace(d, x, k) # RootPlace
<1>1. PICK y : y = ChildPlace(d, x, k)
  OBVIOUS
<1>2. y.prefix = d[k] /\ y.c = k[2] /\ y.path = Append(x.path, k[4])
  <2>1. PICK h : h = Append(x.path, k[4])
    OBVIOUS
  <2>2. y = Place(h, k[2], d[k])
    BY <1>1, <2>1, Zenon DEF ChildPlace
  <2>3. y.prefix = d[k] /\ y.c = k[2] /\ y.path = h
    BY <2>2 DEF Place
  <2> QED BY <2>1, <2>3, Zenon
<1>3. k[2] \in Layers /\ d[k] \in PrefixesOf(k[2])
  BY DEF NodesOK, Typed, SubTyped, Subs
<1>4. x.path \in Seq(NamesIn(d)) /\ k[4] \in NamesIn(d)
  BY DEF PlaceTyped, NamesIn
<1>5. Append(x.path, k[4]) \in Seq(NamesIn(d)) /\ Append(x.path, k[4]) # <<>>
  BY <1>4, AppendFacts
<1>6. y # RootPlace
  BY <1>2, <1>5, PlaceFields
<1>7. PlaceTyped(d, y)
  BY <1>2, <1>3, <1>5 DEF PlaceTyped
<1> QED BY <1>1, <1>2, <1>3, <1>6, <1>7

\* What is at one level is under what is at the one before.
LEMMA LevelFacts ==
  ASSUME NEW d, NEW S
  PROVE  \A y : y \in Level(d, S) <=> \E x \in S : \E k \in Within(d, x) : y = ChildPlace(d, x, k)
BY DEF Level, Below, ChildPlace

-----------------------------------------------------------------------------
(* The places of the tree.                                                 *)

\* The places of the tree: there is one for each node, and what is stored in a
\* directory is under its place.
TreePlaces(d, P) ==
  /\ RootPlace \in P /\ \A x \in P : PlaceTyped(d, x)
  /\ \A x, y \in P : x.prefix = y.prefix => x = y
  /\ \A x \in P, k \in Subs(d) : Source(k) = x.prefix => ChildPlace(d, x, k) \in P
  /\ \A y \in P : y = RootPlace \/ \E x \in P, k \in Subs(d) : Source(k) = x.prefix /\ y = ChildPlace(d, x, k)

Stage(d, N, lv) ==
  /\ N \in Nat /\ lv[0] = {RootPlace}
  /\ \A i \in 1 .. N : \A y : y \in lv[i] <=> \E x \in lv[i - 1] : \E k \in Within(d, x) : y = ChildPlace(d, x, k)

\* The root is a place,
LEMMA RootTyped ==
  ASSUME NEW d
  PROVE  PlaceTyped(d, RootPlace)
BY PlaceFields, EmptySeq DEF PlaceTyped

\* and so is everything on a level.
LEMMA StageTyped ==
  ASSUME NEW d, NodesOK(d), NEW N, NEW lv, Stage(d, N, lv)
  PROVE  \A i \in 0 .. N : \A y \in lv[i] : PlaceTyped(d, y)
<1> DEFINE Bad == {n \in Nat : n <= N /\ ~ \A y \in lv[n] : PlaceTyped(d, y)}
<1>1. Bad = {}
  <2> SUFFICES ASSUME Bad # {} PROVE FALSE
    OBVIOUS
  <2>1. PICK n \in Bad : n \in Nat /\ \A m \in Bad : n <= m
    <3>1. Bad \subseteq Nat
      OBVIOUS
    <3> HIDE DEF Bad
    <3> QED BY <3>1, Least
  <2>2. n <= N /\ ~ \A y \in lv[n] : PlaceTyped(d, y)
    OBVIOUS
  <2>3. n # 0
    BY <2>2, RootTyped DEF Stage
  <2>4. n - 1 \in Nat /\ n - 1 <= N /\ n \in 1 .. N /\ ~(n <= n - 1)
    BY <2>1, <2>2, <2>3 DEF Stage
  <2>5. \A x \in lv[n - 1] : PlaceTyped(d, x)
    BY <2>1, <2>4
  <2> HIDE DEF Bad
  <2>6. PICK y \in lv[n] : ~PlaceTyped(d, y)
    BY <2>2
  <2>7. PICK x \in lv[n - 1] : \E k \in Within(d, x) : y = ChildPlace(d, x, k)
    BY <2>4, <2>6 DEF Stage
  <2>8. PICK k \in Subs(d) : y = ChildPlace(d, x, k)
    BY <2>7 DEF Within
  <2> QED BY <2>5, <2>6, <2>8, ChildTyped
<1>2. \A i \in 0 .. N : i \in Nat /\ i <= N
  BY DEF Stage
<1> QED BY <1>1, <1>2

\* How a place is reached.
LEMMA StageParent ==
  ASSUME NEW d, NodesOK(d), NEW N, NEW lv, Stage(d, N, lv), NEW n \in 1 .. N, NEW y \in lv[n]
  PROVE  /\ n - 1 \in 0 .. N
         /\ y # RootPlace /\ y.prefix # RootPrefix(Root)
         /\ \E x \in lv[n - 1], k \in Subs(d) :
              PlaceTyped(d, x) /\ Source(k) = x.prefix /\ y = ChildPlace(d, x, k) /\ y.prefix = d[k]
<1>1. n - 1 \in 0 .. N
  BY DEF Stage
<1>2. PICK x \in lv[n - 1] : \E k \in Within(d, x) : y = ChildPlace(d, x, k)
  BY DEF Stage
<1>3. PICK k \in Within(d, x) : y = ChildPlace(d, x, k)
  BY <1>2
<1>4. PlaceTyped(d, x)
  BY <1>1, StageTyped
<1>5. k \in Subs(d)
  BY DEF Within
<1>6. Source(k) = x.prefix
  BY <1>4, <1>5, WithinSource
<1>7. y.prefix = d[k] /\ k[2] \in Layers /\ d[k] \in PrefixesOf(k[2]) /\ y # RootPlace
  BY <1>3, <1>4, <1>5, ChildTyped
<1>8. RootPrefix(Root) \notin PrefixesOf(k[2])
  BY <1>7, Constants, RootPrefixFacts
<1> QED BY <1>1, <1>3, <1>4, <1>5, <1>6, <1>7, <1>8

\* One place for a prefix.
LEMMA StageUnique ==
  ASSUME NEW d, NodesOK(d), NEW N, NEW lv, Stage(d, N, lv)
  PROVE  \A i, j \in 0 .. N : \A x \in lv[i], y \in lv[j] : x.prefix = y.prefix => x = y
<1> DEFINE Alone(n) == \A j \in 0 .. N : \A x \in lv[n], y \in lv[j] : x.prefix = y.prefix => x = y
           Bad == {n \in Nat : n <= N /\ ~Alone(n)}
<1>0. N \in Nat /\ lv[0] = {RootPlace} /\ RootPlace.prefix = RootPrefix(Root)
  BY PlaceFields DEF Stage
<1>1. Bad = {}
  <2> SUFFICES ASSUME Bad # {} PROVE FALSE
    OBVIOUS
  <2>1. PICK n \in Bad : n \in Nat /\ \A m \in Bad : n <= m
    <3>1. Bad \subseteq Nat
      OBVIOUS
    <3> HIDE DEF Bad
    <3> QED BY <3>1, Least
  <2>2. n <= N /\ ~Alone(n)
    OBVIOUS
  <2>3. \A m \in Nat : m <= N /\ m < n => Alone(m)
    <3> SUFFICES ASSUME NEW m \in Nat, m <= N, m < n, ~Alone(m) PROVE FALSE
      OBVIOUS
    <3>1. m \in Bad
      OBVIOUS
    <3> HIDE DEF Bad, Alone
    <3> QED BY <3>1, <2>1
  <2> HIDE DEF Bad
  <2>4. PICK j \in 0 .. N : \E x \in lv[n], y \in lv[j] : x.prefix = y.prefix /\ x # y
    BY <2>2
  <2>5. PICK x \in lv[n], y \in lv[j] : x.prefix = y.prefix /\ x # y
    BY <2>4
  <2>6. CASE n = 0
    <3>1. x = RootPlace
      BY <2>6, <1>0
    <3>2. j # 0
      BY <3>1, <2>5, <1>0
    <3>3. j \in 1 .. N
      BY <3>2, <1>0
    <3>4. y.prefix # RootPrefix(Root)
      BY <3>3, StageParent
    <3> QED BY <3>1, <3>4, <2>5, <1>0
  <2>7. CASE n # 0
    <3>1. n \in 1 .. N /\ n - 1 \in Nat /\ n - 1 <= N /\ n - 1 < n
      BY <2>1, <2>2, <2>7, <1>0
    <3>2. PICK z \in lv[n - 1], k \in Subs(d) :
             PlaceTyped(d, z) /\ Source(k) = z.prefix /\ x = ChildPlace(d, z, k) /\ x.prefix = d[k]
      BY <3>1, StageParent
    <3>3. x.prefix # RootPrefix(Root)
      BY <3>1, StageParent
    <3>4. j # 0
      BY <3>3, <2>5, <1>0
    <3>5. j \in 1 .. N
      BY <3>4, <1>0
    <3>6. PICK u \in lv[j - 1], l \in Subs(d) :
             PlaceTyped(d, u) /\ Source(l) = u.prefix /\ y = ChildPlace(d, u, l) /\ y.prefix = d[l]
      BY <3>5, StageParent
    <3>7. k = l
      BY <3>2, <3>6, <2>5 DEF NodesOK, OneParent
    <3>8. j - 1 \in 0 .. N
      BY <3>5, <1>0
    <3>9. Alone(n - 1)
      BY <3>1, <2>3
    <3>10. z = u
      BY <3>2, <3>6, <3>7, <3>8, <3>9
    <3> QED BY <3>2, <3>6, <3>7, <3>10, <2>5
  <2> QED BY <2>6, <2>7
<1>2. \A i \in 0 .. N : i \in Nat /\ i <= N /\ i \notin Bad
  BY <1>0, <1>1
<1>3. \A i \in 0 .. N : Alone(i)
  BY <1>2
<1> QED BY <1>3

\* Places are closed: by LevelsClose there is a place for what a name at a place leads to,
\* and by StageUnique it is the one under that place.
LEMMA PlacesFacts ==
  ASSUME NEW d, NodesOK(d)
  PROVE  TreePlaces(d, Places(d))
<1> DEFINE K == Subs(d)
           N == Cardinality(K)
           lv == Levels(d)
           P == Places(d)
           src == [k \in K |-> Source(k)]
           dst == [k \in K |-> d[k]]
           pv == [i \in 0 .. N |-> {x.prefix : x \in lv[i]}]
<1>1. IsFiniteSet(K)
  BY FS_Subset DEF NodesOK, Subs
<1>2. N \in Nat
  BY <1>1, FS_CardinalityType
<1>3. /\ DOMAIN lv = 0 .. N /\ lv[0] = {RootPlace}
      /\ \A i \in 1 .. N : lv[i] = Level(d, lv[i - 1])
  BY <1>2, LevelsDef
<1>4. Stage(d, N, lv)
  <2> HIDE DEF N, lv
  <2> QED BY <1>2, <1>3, LevelFacts DEF Stage
<1>5. \A x : x \in P <=> \E i \in 0 .. N : x \in lv[i]
  BY <1>3 DEF Places
<1>6. \A k \in K : src[k] = Source(k) /\ dst[k] = d[k]
  OBVIOUS
<1>7. \A i \in 0 .. N : \A p : p \in pv[i] <=> \E x \in lv[i] : x.prefix = p
  OBVIOUS
<1> HIDE DEF lv, P, src, dst, pv, N
<1>8. \A i \in 0 .. N : \A x \in lv[i] : PlaceTyped(d, x)
  BY <1>4, StageTyped
<1>9. \A i, j \in 0 .. N : \A x \in lv[i], y \in lv[j] : x.prefix = y.prefix => x = y
  BY <1>4, StageUnique
<1>10. 0 \in 0 .. N /\ \A i \in 1 .. N : i \in 0 .. N /\ i - 1 \in 0 .. N
  BY <1>2
<1>11. \A i \in 1 .. N : pv[i] = {dst[k] : k \in {l \in K : src[l] \in pv[i - 1]}}
  <2> SUFFICES ASSUME NEW i \in 1 .. N, NEW p
               PROVE  p \in pv[i] <=> \E k \in K : src[k] \in pv[i - 1] /\ dst[k] = p
    OBVIOUS
  <2>1. ASSUME p \in pv[i]
        PROVE  \E k \in K : src[k] \in pv[i - 1] /\ dst[k] = p
    <3>1. PICK y \in lv[i] : y.prefix = p
      BY <2>1, <1>7, <1>10
    <3>2. PICK x \in lv[i - 1], k \in K : Source(k) = x.prefix /\ y.prefix = d[k]
      BY <1>4, StageParent
    <3> QED BY <3>1, <3>2, <1>6, <1>7, <1>10
  <2>2. ASSUME NEW k \in K, src[k] \in pv[i - 1], dst[k] = p
        PROVE  p \in pv[i]
    <3>1. PICK x \in lv[i - 1] : x.prefix = Source(k)
      BY <2>2, <1>6, <1>7, <1>10
    <3>2. PlaceTyped(d, x)
      BY <1>8, <1>10
    <3>3. k \in Within(d, x)
      BY <3>1, <3>2, WithinSource
    <3>4. ChildPlace(d, x, k) \in lv[i]
      BY <3>3, <1>4 DEF Stage
    <3>5. ChildPlace(d, x, k).prefix = p
      BY <2>2, <3>2, <1>6, ChildTyped
    <3> QED BY <3>4, <3>5, <1>7, <1>10
  <2> QED BY <2>1, <2>2
<1>12. RootPlace \in P /\ \A x \in P : PlaceTyped(d, x)
  BY <1>3, <1>5, <1>8, <1>10
<1>13. \A x, y \in P : x.prefix = y.prefix => x = y
  BY <1>5, <1>9
<1>14. ASSUME NEW y \in P, y # RootPlace
       PROVE  \E x \in P, k \in K : Source(k) = x.prefix /\ y = ChildPlace(d, x, k)
  <2>1. PICK i \in 0 .. N : y \in lv[i]
    BY <1>5
  <2>2. i \in 1 .. N
    <3>1. i # 0
      BY <2>1, <1>3, <1>14
    <3> QED BY <3>1, <1>2
  <2>3. PICK x \in lv[i - 1], k \in K : Source(k) = x.prefix /\ y = ChildPlace(d, x, k)
    BY <2>1, <2>2, <1>4, StageParent
  <2> QED BY <2>2, <2>3, <1>5, <1>10
<1>15. ASSUME NEW x \in P, NEW k \in K, Source(k) = x.prefix
       PROVE  ChildPlace(d, x, k) \in P
  <2>1. PICK n \in 0 .. N : x \in lv[n]
    BY <1>5
  <2>2. src[k] \in pv[n]
    BY <2>1, <1>6, <1>7, <1>15
  <2>3. \E i \in 0 .. Cardinality(K) : dst[k] \in pv[i]
    BY <1>1, <1>11, <2>2, LevelsClose DEF N
  <2>4. PICK i \in 0 .. N : d[k] \in pv[i]
    BY <2>3, <1>6 DEF N
  <2>5. PICK y \in lv[i] : y.prefix = d[k]
    BY <2>4, <1>7
  <2>6. PlaceTyped(d, x) /\ y \in P
    BY <2>5, <1>5, <1>12
  <2>7. d[k] # RootPrefix(Root)
    <3>1. k[2] \in Layers /\ d[k] \in PrefixesOf(k[2])
      BY <2>6, ChildTyped
    <3> QED BY <3>1, Constants, RootPrefixFacts
  <2>8. y # RootPlace
    BY <2>5, <2>7, PlaceFields
  <2>9. PICK z \in P, l \in K : Source(l) = z.prefix /\ y = ChildPlace(d, z, l)
    BY <2>6, <2>8, <1>14
  <2>10. PlaceTyped(d, z)
    BY <1>12
  <2>11. y.prefix = d[l]
    BY <2>9, <2>10, ChildTyped
  <2>12. k = l
    BY <2>5, <2>11 DEF NodesOK, OneParent
  <2>13. x = z
    BY <2>9, <2>12, <1>13, <1>15
  <2> QED BY <2>6, <2>9, <2>12, <2>13
<1>16. TreePlaces(d, P)
  BY <1>12, <1>13, <1>14, <1>15 DEF TreePlaces
<1> QED BY <1>16 DEF P

\* Every directory has a place: one that had none would be under another without one,
\* and the one nearest to the root of all could only be in a cycle.
LEMMA AllReached ==
  ASSUME NEW d, NodesOK(d), NEW P, TreePlaces(d, P)
  PROVE  \A k \in Subs(d) : \E x \in P : x.prefix = d[k]
<1> DEFINE Lost == {d[k] : k \in {l \in Subs(d) : ~ \E x \in P : x.prefix = d[l]}}
           Sizes == {Len(q) : q \in Lost}
<1> SUFFICES ASSUME Lost # {} PROVE FALSE
  OBVIOUS
<1>1. \A k \in Subs(d) : /\ k[2] \in Layers /\ d[k] \in PrefixesOf(k[2])
                         /\ k[3] = RootPrefix(k[2]) \/ k[3] \in PrefixesOf(k[2])
                         /\ Live(d, k[2])
                         /\ k[3] = RootPrefix(k[2]) \/ Ordinary(d, k[2], k[3])
  BY DEF NodesOK, Typed, SubTyped, Subs, ParentsExist, LayersLive
<1>2. \A q \in Lost : q \in Layers /\ Len(q) \in Nat
  <2>1. \A k \in Subs(d) : d[k] \in Layers
    BY <1>1, PrefixFacts
  <2> QED BY <2>1, LayerFacts
<1>3. \A q : q \in Lost => \E k \in Subs(d) : d[k] = q /\ ~ \E x \in P : x.prefix = q
  OBVIOUS
<1>4. \A k \in Subs(d) : (~ \E x \in P : x.prefix = d[k]) => d[k] \in Lost
  OBVIOUS
<1>5. Sizes \subseteq Nat /\ Sizes # {}
  BY <1>2
<1>6. PICK n \in Sizes : n \in Nat /\ \A m \in Sizes : n <= m
  <2> HIDE DEF Sizes
  <2> QED BY <1>5, Least
<1>7. \A q \in Lost : n <= Len(q)
  BY <1>6
<1> DEFINE Nearest == {q \in Lost : Len(q) = n}
<1>8. Nearest # {}
  OBVIOUS
<1> HIDE DEF Lost, Sizes
\* Whatever has a layer key and no place is lost.
<1>9. ASSUME NEW c, NEW p, LayerKey(c, p) \in DOMAIN d, ~ \E x \in P : x.prefix = p
      PROVE  p \in Lost
  <2>1. PICK k : k = LayerKey(c, p)
    OBVIOUS
  <2>2. k \in NodeKeys(d) /\ k[3] = p
    BY <1>9, <2>1, KeyFields DEF NodeKeys
  <2>3. PICK l \in Subs(d) : d[l] = p
    BY <2>2 DEF NodesOK, HasParent
  <2> QED BY <2>3, <1>4, <1>9
\* What is lost is in a directory that is.
<1>10. ASSUME NEW k \in Subs(d), d[k] \in Nearest
       PROVE  k[3] \in Nearest
  <2>1. /\ k[2] \in Layers /\ d[k] \in PrefixesOf(k[2]) /\ Len(d[k]) = Len(k[2]) + 1
        /\ d[k] \in Lost /\ Len(d[k]) = n
    BY <1>1, <1>10, PrefixFacts
  <2>2. ~ \E x \in P : x.prefix = Source(k)
    <3> SUFFICES ASSUME NEW x \in P, x.prefix = Source(k) PROVE FALSE
      OBVIOUS
    <3>1. ChildPlace(d, x, k) \in P /\ PlaceTyped(d, x)
      BY DEF TreePlaces
    <3>2. ChildPlace(d, x, k).prefix = d[k]
      BY <3>1, ChildTyped
    <3> QED BY <3>1, <3>2, <2>1, <1>3
  <2>3. CASE k[3] # RootPrefix(k[2])
    <3>1. LayerKey(k[2], k[3]) \in DOMAIN d /\ k[3] \in PrefixesOf(k[2]) /\ Source(k) = k[3]
      BY <2>3, <1>1 DEF Ordinary, Source
    <3>2. k[3] \in Lost
      BY <3>1, <2>2, <1>9
    <3>3. Len(k[3]) = Len(k[2]) + 1
      BY <3>1, <2>1, PrefixFacts
    <3> QED BY <3>2, <3>3, <2>1
  <2>4. CASE k[3] = RootPrefix(k[2])
    <3>1. k[2] # Root
      <4>1. RootPlace \in P /\ RootPlace.prefix = RootPrefix(Root)
        BY PlaceFields DEF TreePlaces
      <4> QED BY <4>1, <2>2, <2>4 DEF Source
    <3>2. Source(k) = k[2] /\ IsPartition(d, Front(k[2]), k[2])
      BY <3>1, <2>4, <1>1 DEF Source, Live
    <3>3. k[2] \in Lost
      BY <3>2, <2>2, <1>9, PartitionNode
    <3>4. n <= Len(k[2]) /\ Len(k[2]) \in Nat
      BY <3>3, <1>2, <1>7
    <3> QED BY <3>4, <2>1, <1>6
  <2> QED BY <2>3, <2>4
<1>11. Cyclic(d, Nearest)
  <2> SUFFICES ASSUME NEW q \in Nearest PROVE \E k \in Subs(d) : d[k] = q /\ k[3] \in Nearest
    BY DEF Cyclic
  <2>1. PICK k \in Subs(d) : d[k] = q
    BY <1>3
  <2> QED BY <2>1, <1>10
<1>12. NoCycles(d)
  BY DEF NodesOK
<1> HIDE DEF Nearest
<1> QED BY <1>8, <1>11, <1>12, CyclicIsEmpty

\* The places other than that of the root.
Dirs(P) == {x \in P : x.path # <<>>}

\* The places but the root are those of the nodes that are stored.
LEMMA DirFacts ==
  ASSUME NEW d, NodesOK(d), NEW P, TreePlaces(d, P)
  PROVE  /\ \A x \in P : x \in Dirs(P) <=> x # RootPlace
         /\ \A x \in Dirs(P) : /\ x.c \in Layers /\ x.prefix \in PrefixesOf(x.c)
                               /\ LayerKey(x.c, x.prefix) \in DOMAIN d
         /\ \A c \in Layers : \A p \in PrefixesOf(c) :
              LayerKey(c, p) \in DOMAIN d => \E x \in Dirs(P) : x.c = c /\ x.prefix = p
<1>1. \A x \in P : x \in Dirs(P) <=> x # RootPlace
  BY PlaceFields DEF TreePlaces, PlaceTyped, Dirs
<1>2. ASSUME NEW x \in Dirs(P)
      PROVE  x \in P /\ x.c \in Layers /\ x.prefix \in PrefixesOf(x.c)
  BY <1>1 DEF TreePlaces, PlaceTyped, Dirs
<1>3. ASSUME NEW x \in Dirs(P)
      PROVE  LayerKey(x.c, x.prefix) \in DOMAIN d
  <2>1. PICK z \in P, k \in Subs(d) : Source(k) = z.prefix /\ x = ChildPlace(d, z, k)
    BY <1>1, <1>2 DEF TreePlaces
  <2>2. x.c = k[2] /\ x.prefix = d[k]
    BY <2>1, ChildTyped DEF TreePlaces
  <2> QED BY <2>2 DEF NodesOK, ChildrenExist
<1>4. ASSUME NEW c \in Layers, NEW p \in PrefixesOf(c), LayerKey(c, p) \in DOMAIN d
      PROVE  \E x \in Dirs(P) : x.c = c /\ x.prefix = p
  <2>1. PICK k : k = LayerKey(c, p)
    OBVIOUS
  <2>2. k \in NodeKeys(d) /\ k[3] = p
    BY <1>4, <2>1, KeyFields DEF NodeKeys
  <2>3. PICK l \in Subs(d) : d[l] = p
    BY <2>2 DEF NodesOK, HasParent
  <2>4. PICK x \in P : x.prefix = p
    BY <2>3, AllReached
  <2>5. x # RootPlace
    BY <2>4, Constants, RootPrefixFacts, PlaceFields
  <2>6. x \in Dirs(P) /\ x.c = c
    BY <2>4, <2>5, <1>1, <1>2, PrefixesDiffer
  <2> QED BY <2>4, <2>6
<1> QED BY <1>1, <1>2, <1>3, <1>4

-----------------------------------------------------------------------------
(* The tree has no orphans, no two names, and no prefix in another.        *)

\* The invariant implies NoOrphans,
LEMMA NoOrphansHere ==
  ASSUME TreeInv
  PROVE  NoOrphans
<1>1. NodesOK(db) /\ TreePlaces(db, places)
  BY PlacesFacts DEF TreeInv
<1>2. Directories = Dirs(places)
  BY DEF Directories, Dirs
<1>3. /\ \A x \in places : x \in Directories <=> x # RootPlace
      /\ \A x \in Directories : /\ x.c \in Layers /\ x.prefix \in PrefixesOf(x.c)
                                /\ LayerKey(x.c, x.prefix) \in DOMAIN db
      /\ \A c \in Layers : \A p \in PrefixesOf(c) :
           LayerKey(c, p) \in DOMAIN db => \E x \in Directories : x.c = c /\ x.prefix = p
  BY <1>1, <1>2, DirFacts
<1>4. ASSUME NEW k \in DOMAIN db, k[1] = "layer"
      PROVE  <<k[2], k[3]>> \in NodesAt(Directories)
  <2>1. k = LayerKey(k[2], k[3]) /\ k[2] \in Layers /\ k[3] \in PrefixesOf(k[2])
    BY <1>1, <1>4 DEF NodesOK, Typed
  <2>2. PICK x \in Directories : x.c = k[2] /\ x.prefix = k[3]
    BY <2>1, <1>3
  <2> QED BY <2>2 DEF NodesAt
<1>5. ASSUME NEW x \in Directories
      PROVE  \E k \in {l \in DOMAIN db : l[1] = "layer"} : <<x.c, x.prefix>> = <<k[2], k[3]>>
  <2>1. PICK k : k = LayerKey(x.c, x.prefix)
    OBVIOUS
  <2>2. k \in DOMAIN db /\ k[1] = "layer" /\ k[2] = x.c /\ k[3] = x.prefix
    BY <1>3, <2>1, KeyFields
  <2> QED BY <2>2
<1>6. {<<k[2], k[3]>> : k \in {l \in DOMAIN db : l[1] = "layer"}} = NodesAt(Directories)
  BY <1>4, <1>5 DEF NodesAt
<1>7. \A x, y \in Directories : x.prefix = y.prefix => x = y
  BY <1>1 DEF TreePlaces, Directories
<1>8. ASSUME NEW k \in DOMAIN db, k[1] = "sub", k[3] # RootPrefix(k[2])
      PROVE  <<k[2], k[3]>> \in NodesAt(places)
  <2>1. k \in Subs(db)
    BY <1>8 DEF Subs
  <2>2. k[2] \in Layers /\ k[3] \in PrefixesOf(k[2]) /\ LayerKey(k[2], k[3]) \in DOMAIN db
    BY <1>1, <1>8, <2>1 DEF NodesOK, Typed, SubTyped, ParentsExist, Ordinary
  <2>3. PICK x \in Directories : x.c = k[2] /\ x.prefix = k[3]
    BY <2>2, <1>3
  <2> QED BY <2>3 DEF NodesAt, Directories
<1> QED BY <1>6, <1>7, <1>8 DEF NoOrphans

\* and NothingLeft.
LEMMA NothingLeftHere ==
  ASSUME TreeInv
  PROVE  NothingLeft
<1>1. NodesOK(db) /\ TreePlaces(db, places)
  BY PlacesFacts DEF TreeInv
<1>2. Directories = Dirs(places)
  BY DEF Directories, Dirs
<1>3. /\ \A x \in Directories : x.c \in Layers /\ x.prefix \in PrefixesOf(x.c)
      /\ \A c \in Layers : \A p \in PrefixesOf(c) :
           LayerKey(c, p) \in DOMAIN db => \E x \in Directories : x.c = c /\ x.prefix = p
  BY <1>1, <1>2, DirFacts
<1>4. \A k \in DOMAIN db : k[2] \in Layers
  BY <1>1 DEF NodesOK, Typed
<1>5. ASSUME NEW k \in DOMAIN db, k[1] = "content"
      PROVE  k[2] \in {x.prefix : x \in Directories} \ {x.prefix : x \in Partitions}
  <2>1. k[2] # Root /\ Ordinary(db, Front(k[2]), k[2])
    BY <1>1, <1>5 DEF NodesOK, ContentsOwned
  <2>2. Front(k[2]) \in Layers /\ k[2] \in PrefixesOf(Front(k[2]))
    BY <2>1, <1>4, LayerFacts
  <2>3. PICK x \in Directories : x.c = Front(k[2]) /\ x.prefix = k[2]
    BY <2>1, <2>2, <1>3 DEF Ordinary
  <2>4. ASSUME NEW y \in Partitions, y.prefix = k[2]
        PROVE  FALSE
    <3>1. y \in Directories /\ IsPartition(db, y.c, y.prefix)
      BY DEF Partitions
    <3>2. y.c = Front(k[2])
      BY <3>1, <2>2, <2>4, <1>3, PrefixesDiffer
    <3> QED BY <3>1, <3>2, <2>1, <2>4 DEF Ordinary
  <2> QED BY <2>3, <2>4
<1>6. ASSUME NEW k \in DOMAIN db, k[1] # "content", k[2] # Root
      PROVE  k[2] \in {x.prefix : x \in Partitions}
  <2>1. IsPartition(db, Front(k[2]), k[2])
    BY <1>1, <1>6 DEF NodesOK, LayersLive, Live
  <2>2. Front(k[2]) \in Layers /\ k[2] \in PrefixesOf(Front(k[2]))
    BY <1>4, <1>6, LayerFacts
  <2>3. PICK x \in Directories : x.c = Front(k[2]) /\ x.prefix = k[2]
    BY <2>1, <2>2, <1>3, PartitionNode
  <2> QED BY <2>1, <2>3 DEF Partitions
<1> QED BY <1>5, <1>6 DEF NothingLeft

-----------------------------------------------------------------------------
(* Directories in partitions.                                              *)

\* A path that goes on is longer.
LEMMA LongerPath ==
  ASSUME NEW S, NEW s \in Seq(S), NEW c \in Seq(S), NEW n \in S, IsPrefix(s, c)
  PROVE  IsStrictPrefix(s, Append(c, n))
<1>1. PICK w : w = Append(c, n)
  OBVIOUS
<1>2. w \in Seq(S) /\ Len(w) = Len(c) + 1
  BY <1>1, AppendFacts
<1>3. IsPrefix(s, w)
  <2>1. IsPrefix(s, Append(c, n))
    BY PrefixOfAppend
  <2> QED BY <1>1, <2>1
<1>4. Len(s) <= Len(c) /\ Len(s) \in Nat /\ Len(c) \in Nat
  BY PrefixOrder, LenProperties
<1>5. s # w
  BY <1>2, <1>4
<1>6. IsStrictPrefix(s, w)
  BY <1>3, <1>5 DEF IsStrictPrefix
<1> QED BY <1>1, <1>6, Zenon

\* The prefix of a layer that a directory is in, or that is around that one, is that
\* of a partition above the directory.
AboveIn(d, P, x, p, y) ==
  x \in Dirs(P) /\ x.prefix = p /\ IsPartition(d, x.c, x.prefix) /\ IsStrictPrefix(x.path, y.path)
Enclosed(d, P, y) ==
  \A p \in Layers : p # Root /\ IsPrefix(p, y.c) => \E x \in P : AboveIn(d, P, x, p, y)

\* That holds under a place if it holds at the place,
LEMMA ChildEnclosed ==
  ASSUME NEW d, NodesOK(d), NEW P, TreePlaces(d, P), NEW z \in P, z = RootPlace \/ Enclosed(d, P, z),
         NEW k \in Subs(d), Source(k) = z.prefix
  PROVE  Enclosed(d, P, ChildPlace(d, z, k))
<1>1. PICK y : y = ChildPlace(d, z, k)
  OBVIOUS
<1>2. /\ PlaceTyped(d, z) /\ k[2] \in Layers /\ y.c = k[2]
      /\ y.path = Append(z.path, k[4])
  <2>1. PlaceTyped(d, z)
    BY DEF TreePlaces
  <2>2. NodesOK(d) /\ k \in Subs(d)
    OBVIOUS
  <2>3. /\ ChildPlace(d, z, k).c = k[2] /\ k[2] \in Layers
        /\ ChildPlace(d, z, k).path = Append(z.path, k[4])
    BY ONLY <2>1, <2>2, ChildTyped
  <2> QED BY <1>1, <2>1, <2>3
<1>3. z.path \in Seq(NamesIn(d)) /\ k[4] \in NamesIn(d)
  BY <1>2 DEF PlaceTyped, NamesIn
<1>4. /\ k[3] = RootPrefix(k[2]) \/ (k[3] \in PrefixesOf(k[2]) /\ Ordinary(d, k[2], k[3]))
      /\ Live(d, k[2])
  BY DEF NodesOK, Typed, SubTyped, Subs, ParentsExist, LayersLive
<1>5. \A x \in P : x.path \in Seq(NamesIn(d))
  BY DEF TreePlaces, PlaceTyped
<1>6. \A x \in P : \A p : AboveIn(d, P, x, p, z) => AboveIn(d, P, x, p, y)
  <2> SUFFICES ASSUME NEW x \in P, NEW p, AboveIn(d, P, x, p, z) PROVE AboveIn(d, P, x, p, y)
    OBVIOUS
  <2>1. IsPrefix(x.path, z.path)
    BY DEF AboveIn, IsStrictPrefix
  <2>2. IsStrictPrefix(x.path, Append(z.path, k[4]))
    BY <2>1, <1>3, <1>5, LongerPath
  <2> QED BY <1>2, <2>2, Zenon DEF AboveIn
<1>7. ASSUME NEW p \in Layers, p # Root, IsPrefix(p, k[2])
      PROVE  \E x \in P : AboveIn(d, P, x, p, y)
  <2>1. Front(p) \in Layers /\ p \in PrefixesOf(Front(p))
    BY <1>7, LayerFacts
  <2>2. k[2] # Root
    <3>1. ~IsPrefix(p, Root)
      <4>1. Root \in Layers /\ p \in Seq(Nat) /\ Root \in Seq(Nat)
        BY <2>1, Constants, PrefixFacts
      <4>2. IsPrefix(p, Root) => Len(p) <= Len(Root)
        BY <4>1, PrefixOrder
      <4>3. Len(Root) = 0
        BY EmptySeq DEF Root
      <4>4. Len(p) = Len(Front(p)) + 1 /\ Len(Front(p)) \in Nat
        BY <2>1, PrefixFacts, LayerFacts
      <4> QED BY <4>2, <4>3, <4>4
    <3> QED BY <3>1, <1>7
  <2>3. CASE k[3] # RootPrefix(k[2])
    <3>1. Source(k) = k[3] /\ k[3] \in PrefixesOf(k[2])
      BY <2>3, <1>4 DEF Source
    <3>2. z # RootPlace
      <4>1. RootPrefix(Root) \notin PrefixesOf(k[2])
        BY <1>2, Constants, RootPrefixFacts
      <4>2. z.prefix \in PrefixesOf(k[2])
        BY <3>1
      <4> QED BY <4>1, <4>2, PlaceFields
    <3>3. z.c = k[2]
      BY <3>1, <3>2, <1>2, PrefixesDiffer DEF PlaceTyped
    <3>4. \E x \in P : AboveIn(d, P, x, p, z)
      BY <3>2, <3>3, <1>7 DEF Enclosed
    <3> QED BY <3>4, <1>6
  <2>4. CASE k[3] = RootPrefix(k[2])
    <3>1. z.prefix = k[2] /\ IsPartition(d, Front(k[2]), k[2])
      BY <2>2, <2>4, <1>4 DEF Source, Live
    <3>2. z # RootPlace
      BY <3>1, <1>2, Constants, RootPrefixFacts, PlaceFields
    <3>3. /\ z.c \in Layers /\ z.prefix \in PrefixesOf(z.c) /\ z \in Dirs(P)
          /\ Front(k[2]) = z.c
      BY <3>1, <3>2, <1>2, PrefixFacts DEF PlaceTyped, Dirs
    <3>4. IsPartition(d, z.c, z.prefix)
      BY <3>1, <3>3
    <3>5. IsPrefix(p, z.c) \/ p = k[2]
      BY <2>1, <2>2, <3>3, <1>2, <1>7, Beginnings
    <3>6. CASE p = k[2]
      <4>1. IsPrefix(z.path, z.path)
        BY <1>3, PrefixOrder
      <4>2. IsStrictPrefix(z.path, Append(z.path, k[4]))
        BY <4>1, <1>3, LongerPath
      <4>3. IsStrictPrefix(z.path, y.path)
        BY <4>2, <1>2, Zenon
      <4>4. AboveIn(d, P, z, p, y)
        BY <3>1, <3>3, <3>4, <3>6, <4>3 DEF AboveIn
      <4> QED BY <4>4
    <3>7. CASE IsPrefix(p, z.c)
      <4>1. \E x \in P : AboveIn(d, P, x, p, z)
        BY <3>2, <3>7, <1>7 DEF Enclosed
      <4> QED BY <4>1, <1>6
    <3> QED BY <3>5, <3>6, <3>7
  <2> QED BY <2>3, <2>4
<1>8. Enclosed(d, P, y)
  BY <1>2, <1>7 DEF Enclosed
<1> QED BY <1>1, <1>8

\* and so everywhere, by induction on the length of the paths.
LEMMA AllEnclosed ==
  ASSUME NEW d, NodesOK(d), NEW P, TreePlaces(d, P)
  PROVE  \A y \in Dirs(P) : Enclosed(d, P, y)
<1> DEFINE Bad == {y \in P : y # RootPlace /\ ~Enclosed(d, P, y)}
           Sizes == {Len(y.path) : y \in Bad}
<1>1. \A y \in P : PlaceTyped(d, y) /\ y.path \in Seq(NamesIn(d)) /\ Len(y.path) \in Nat
  BY LenProperties DEF TreePlaces, PlaceTyped
<1>2. Bad = {}
  <2> SUFFICES ASSUME Bad # {} PROVE FALSE
    OBVIOUS
  <2>1. Sizes \subseteq Nat /\ Sizes # {}
    BY <1>1
  <2>2. PICK n \in Sizes : \A m \in Sizes : n <= m
    <3> HIDE DEF Sizes
    <3> QED BY <2>1, Least
  <2>3. PICK y \in Bad : n = Len(y.path)
    OBVIOUS
  <2>4. PICK z \in P, k \in Subs(d) : Source(k) = z.prefix /\ y = ChildPlace(d, z, k)
    BY <2>3 DEF TreePlaces
  <2>5. Len(y.path) = Len(z.path) + 1
    <3>1. y.path = Append(z.path, k[4]) /\ k[4] \in NamesIn(d)
      <4>1. PlaceTyped(d, z)
        BY <1>1
      <4>2. ChildPlace(d, z, k).path = Append(z.path, k[4])
        BY <4>1, ChildTyped
      <4>3. y.path = Append(z.path, k[4])
        BY <2>4, <4>2, Zenon
      <4>4. k[4] \in NamesIn(d)
        BY DEF NamesIn
      <4> QED BY <4>3, <4>4, Zenon
    <3>2. Len(Append(z.path, k[4])) = Len(z.path) + 1
      BY <1>1, <3>1, AppendFacts
    <3> QED BY <3>1, <3>2, Zenon
  <2>6. Len(z.path) \notin Sizes
    BY <1>1, <2>2, <2>3, <2>5
  <2>7. z = RootPlace \/ Enclosed(d, P, z)
    BY <2>6
  <2>8. Enclosed(d, P, y)
    BY <2>4, <2>7, ChildEnclosed
  <2> QED BY <2>3, <2>8
<1>3. \A y \in Dirs(P) : y \in P /\ y # RootPlace
  BY DirFacts DEF Dirs
<1> QED BY <1>2, <1>3

\* The invariant implies PrefixesDisjoint,
LEMMA PrefixesDisjointHere ==
  ASSUME TreeInv
  PROVE  PrefixesDisjoint
<1>1. NodesOK(db) /\ TreePlaces(db, places)
  BY PlacesFacts DEF TreeInv
<1>2. Directories = Dirs(places)
  BY DEF Directories, Dirs
<1>3. \A x \in Directories : x \in places /\ x.c \in Layers /\ x.prefix \in PrefixesOf(x.c)
  BY <1>1, <1>2, DirFacts DEF Directories
<1>4. ASSUME NEW x \in Directories, NEW y \in Directories, x # y, IsPrefix(x.prefix, y.prefix)
      PROVE  x \in Partitions /\ IsStrictPrefix(x.path, y.path)
  <2>1. x.prefix # y.prefix
    BY <1>1, <1>3, <1>4 DEF TreePlaces
  <2>2. x.prefix \in Layers /\ x.prefix # Root /\ y.prefix \in Layers /\ y.prefix # Root /\ Front(y.prefix) = y.c
    BY <1>3, PrefixFacts DEF Root
  <2>3. IsPrefix(x.prefix, y.c)
    BY <1>3, <1>4, <2>1, <2>2, Beginnings
  <2>4. PICK z \in places : AboveIn(db, places, z, x.prefix, y)
    BY <1>1, <1>2, <2>2, <2>3, AllEnclosed DEF Enclosed
  <2>5. z = x
    BY <1>1, <1>3, <2>4 DEF TreePlaces, AboveIn
  <2> QED BY <2>4, <2>5 DEF AboveIn, Partitions
<1> QED BY <1>4 DEF PrefixesDisjoint

\* and TypeOK.
LEMMA TypeOKHere ==
  ASSUME TreeInv
  PROVE  TypeOK
<1>1. NodesOK(db) /\ LayersOK(db)
  BY DEF TreeInv
<1>2. ASSUME NEW k \in DOMAIN db
      PROVE  /\ k[1] \in {"sub", "layer", "version", "recent", "content"}
             /\ k[1] = "sub" => db[k] \in Seq(1 .. MaxAlloc)
             /\ k[1] = "layer" => db[k] \in {NoLayer, Partition} \cup {op.layer : op \in Ops}
  <2>1. k[1] \in {"sub", "layer", "version", "recent", "content"}
    BY <1>1 DEF NodesOK, Typed, KeyKinds
  <2>2. ASSUME k[1] = "sub"
        PROVE  db[k] \in Seq(1 .. MaxAlloc)
    <3>1. k[2] \in Layers /\ db[k] \in PrefixesOf(k[2])
      BY <1>1, <2>2 DEF NodesOK, Typed, SubTyped
    <3> QED BY <3>1, PrefixFacts DEF Layers, Numbers
  <2>3. k[1] = "layer" => db[k] \in {NoLayer, Partition} \cup {op.layer : op \in Ops}
    BY <1>1 DEF LayersOK, NodeKeys
  <2> QED BY <2>1, <2>2, <2>3
<1>3. \A t \in Txns :
       /\ call[t] \in setting.ops \cup {None}
       /\ attempt[t] # None => call[t] # None /\ outcome[t] = Pending /\ ~ReadOnly(attempt[t])
       /\ dirty[t] # {} => attempt[t] # None
       /\ outcome[t] # Pending => outcome[t].op = call[t]
  BY DEF TreeInv, CallOK
<1> QED BY <1>2, <1>3 DEF TypeOK

-----------------------------------------------------------------------------
(* Without prefixes given by hand, which is the default of the options.    *)

\* What is stored where, and an attempt that is to be committed, are of their types: TypeOK.
THEOREM TypeCorrect ==
  ASSUME ~AllowManualPrefixes
  PROVE  Spec => []TypeOK
<1>1. TreeInv => TypeOK
  BY TypeOKHere
<1> QED BY <1>1, TreeIsInvariant, PTL

\* Whatever calls create, move and remove beside each other, the nodes that are stored
\* are those of the directories that can be reached, each by one path: NoOrphans.
THEOREM NoDirectoryLost ==
  ASSUME ~AllowManualPrefixes
  PROVE  Spec => []NoOrphans
<1>1. TreeInv => NoOrphans
  BY NoOrphansHere
<1> QED BY <1>1, TreeIsInvariant, PTL

\* No directory's prefix begins with that of another, but for a partition it lies in:
\* PrefixesDisjoint.
THEOREM ContentsApart ==
  ASSUME ~AllowManualPrefixes
  PROVE  Spec => []PrefixesDisjoint
<1>1. TreeInv => PrefixesDisjoint
  BY PrefixesDisjointHere
<1> QED BY <1>1, TreeIsInvariant, PTL

\* Nothing is left of a directory that has been removed, whoever has written to it or
\* created directories in it meanwhile: NothingLeft.
THEOREM RemovedWhole ==
  ASSUME ~AllowManualPrefixes
  PROVE  Spec => []NothingLeft
<1>1. TreeInv => NothingLeft
  BY NothingLeftHere
<1> QED BY <1>1, TreeIsInvariant, PTL
=============================================================================
