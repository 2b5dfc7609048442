---------------------------- MODULE FutureProofs ----------------------------
(***************************************************************************)
(* What holds of Future for every set of futures, lists and settings.      *)
(*                                                                         *)
(* The first part is about the order of callbacks: OrderInv says where the *)
(* ticks of each future stand in the queue, and gives CallbacksInOrder and *)
(* SettledForever.  The second part is about whom a fate is for: FateInv   *)
(* counts the places where a callback has still to run, and gives TypeOK,  *)
(* ChildTakesFate and LoopIsExact.  The third part is about all and race:  *)
(* CombInv says that a future of theirs that waits has its elements' ticks *)
(* before it in the order in which they come first, and gives CombinedFate.*)
(***************************************************************************)
EXTENDS Future, TLAPS, SequenceTheorems, FiniteSetTheorems

-----------------------------------------------------------------------------
(* The queue, as the order in which the ticks of one future stand in it.     *)

\* q gives the places in the queue ts of the ticks of f, the first of them first; they
\* run what is left of its callbacks cbs after the first done.
InTurn(f, ts, cbs, done, q) ==
  /\ done \in 0 .. Len(cbs)
  /\ q \in [1 .. Len(cbs) - done -> DOMAIN ts]
  /\ \A m, n \in DOMAIN q : m < n => q[m] < q[n]
  /\ \A k \in DOMAIN ts : ts[k].of = f => \E n \in DOMAIN q : q[n] = k
  /\ \A n \in DOMAIN q : ts[q[n]] = Tick(f, cbs[done + n])

NoTick(f, ts) == \A k \in DOMAIN ts : ts[k].of # f

\* Two queues in a row run the callbacks of f in a row.
LEMMA Joined ==
  ASSUME NEW f, NEW T, NEW C, NEW ts \in Seq(T), NEW us \in Seq(T), NEW cbs \in Seq(C),
         NEW more \in Seq(C), NEW done, NEW q, NEW p,
         InTurn(f, ts, cbs, done, q), InTurn(f, us, more, 0, p)
  PROVE  \E both : InTurn(f, ts \o us, cbs \o more, done, both)
<1> DEFINE d == Len(cbs) - done
           both == [n \in 1 .. Len(cbs \o more) - done |->
                      IF n <= d THEN q[n] ELSE Len(ts) + p[n - d]]
<1>1. /\ ts \o us \in Seq(T)
      /\ Len(ts \o us) = Len(ts) + Len(us)
      /\ \A i \in 1 .. Len(ts) + Len(us) : (ts \o us)[i] = IF i <= Len(ts) THEN ts[i] ELSE us[i - Len(ts)]
  BY ConcatProperties
<1>2. /\ cbs \o more \in Seq(C)
      /\ Len(cbs \o more) = Len(cbs) + Len(more)
      /\ \A i \in 1 .. Len(cbs) + Len(more) : (cbs \o more)[i] = IF i <= Len(cbs) THEN cbs[i] ELSE more[i - Len(cbs)]
  BY ConcatProperties
<1>3. /\ Len(ts) \in Nat /\ DOMAIN ts = 1 .. Len(ts)
      /\ Len(us) \in Nat /\ DOMAIN us = 1 .. Len(us)
      /\ Len(cbs) \in Nat /\ Len(more) \in Nat
      /\ DOMAIN (ts \o us) = 1 .. Len(ts) + Len(us)
  BY <1>1, LenProperties
<1>4. /\ d \in Nat /\ done \in Nat /\ done <= Len(cbs)
      /\ q \in [1 .. d -> 1 .. Len(ts)]
      /\ \A m, n \in 1 .. d : m < n => q[m] < q[n]
      /\ \A k \in 1 .. Len(ts) : ts[k].of = f => \E n \in 1 .. d : q[n] = k
      /\ \A n \in 1 .. d : ts[q[n]] = Tick(f, cbs[done + n])
  <2>1. done \in Nat /\ done <= Len(cbs) /\ d \in Nat
    BY <1>3 DEF InTurn
  <2>2. q \in [1 .. d -> 1 .. Len(ts)] /\ DOMAIN q = 1 .. d
    BY <1>3 DEF InTurn
  <2> HIDE DEF d
  <2> QED
    BY <2>1, <2>2, <1>3 DEF InTurn
<1>5. /\ p \in [1 .. Len(more) -> 1 .. Len(us)]
      /\ \A m, n \in 1 .. Len(more) : m < n => p[m] < p[n]
      /\ \A k \in 1 .. Len(us) : us[k].of = f => \E n \in 1 .. Len(more) : p[n] = k
      /\ \A n \in 1 .. Len(more) : us[p[n]] = Tick(f, more[n])
  <2>1. Len(more) - 0 = Len(more) /\ \A n \in 1 .. Len(more) : 0 + n = n
    BY <1>3
  <2> QED
    BY <2>1, <1>3 DEF InTurn
<1>6. Len(cbs \o more) - done = d + Len(more)
  BY <1>2, <1>3, <1>4
<1>7. DOMAIN both = 1 .. d + Len(more)
  BY <1>6
<1>8. ASSUME NEW n \in 1 .. d + Len(more)
      PROVE  \/ n \in 1 .. d /\ both[n] = q[n] /\ q[n] \in 1 .. Len(ts)
             \/ n - d \in 1 .. Len(more) /\ both[n] = Len(ts) + p[n - d] /\ p[n - d] \in 1 .. Len(us) /\ n > d
  <2>1. both[n] = IF n <= d THEN q[n] ELSE Len(ts) + p[n - d]
    BY <1>7
  <2> HIDE DEF d, both
  <2>2. n \in 1 .. d \/ (n > d /\ n - d \in 1 .. Len(more) /\ ~(n <= d))
    BY <1>3, <1>4
  <2>3. CASE n \in 1 .. d
    <3>1. n <= d
      BY <2>3
    <3> QED
      BY <2>1, <2>3, <3>1, <1>4
  <2>4. CASE n > d /\ n - d \in 1 .. Len(more) /\ ~(n <= d)
    BY <2>1, <2>4, <1>5
  <2> QED
    BY <2>2, <2>3, <2>4
<1> HIDE DEF d, both
<1>9. both \in [1 .. Len(cbs \o more) - done -> DOMAIN (ts \o us)]
  <2>1. ASSUME NEW n \in 1 .. d + Len(more)
        PROVE  both[n] \in 1 .. Len(ts) + Len(us)
    BY <1>8, <1>3
  <2> QED
    BY <2>1, <1>3, <1>6 DEF both
<1>10. ASSUME NEW m \in DOMAIN both, NEW n \in DOMAIN both, m < n
       PROVE  both[m] < both[n]
  <2> DEFINE early(i) == i \in 1 .. d /\ both[i] = q[i] /\ q[i] \in 1 .. Len(ts)
             late(i) == i - d \in 1 .. Len(more) /\ both[i] = Len(ts) + p[i - d] /\ p[i - d] \in 1 .. Len(us) /\ i > d
  <2>1. (early(m) \/ late(m)) /\ (early(n) \/ late(n)) /\ m \in Nat /\ n \in Nat
    <3>1. m \in 1 .. d + Len(more) /\ n \in 1 .. d + Len(more)
      BY <1>7
    <3>2. m \in Nat /\ n \in Nat
      BY <3>1, <1>3, <1>4
    <3>3. (early(m) \/ late(m)) /\ (early(n) \/ late(n))
      BY <3>1, <1>8
    <3> QED
      BY <3>2, <3>3
  <2>2. ~(late(m) /\ early(n))
    BY <2>1, <1>10, <1>4
  <2>3. CASE early(m) /\ early(n)
    BY <2>3, <1>10, <1>4
  <2>4. CASE early(m) /\ late(n)
    <3>1. q[m] <= Len(ts) /\ p[n - d] >= 1 /\ q[m] \in Nat /\ p[n - d] \in Nat
      BY <2>4, <1>3
    <3> QED
      BY <3>1, <2>4, <1>3
  <2>5. CASE late(m) /\ late(n)
    <3>1. m - d < n - d
      BY <1>10, <2>1, <1>4
    <3>2. p[m - d] < p[n - d] /\ p[m - d] \in Nat /\ p[n - d] \in Nat
      BY <3>1, <2>5, <1>3, <1>5
    <3> QED
      BY <3>2, <2>5, <1>3
  <2> QED
    BY <2>1, <2>2, <2>3, <2>4, <2>5
<1>11. ASSUME NEW k \in DOMAIN (ts \o us), (ts \o us)[k].of = f
       PROVE  \E n \in DOMAIN both : both[n] = k
  <2>1. CASE k <= Len(ts)
    <3>1. k \in 1 .. Len(ts) /\ ts[k].of = f
      BY <2>1, <1>11, <1>1, <1>3
    <3>2. PICK n \in 1 .. d : q[n] = k
      BY <3>1, <1>4
    <3>3. n \in 1 .. d + Len(more)
      BY <1>3, <1>4
    <3>4. both[n] = q[n]
      BY <3>3, <1>8, <1>3, <1>4
    <3> QED
      BY <3>2, <3>3, <3>4, <1>7
  <2>2. CASE k > Len(ts)
    <3>1. k - Len(ts) \in 1 .. Len(us) /\ us[k - Len(ts)].of = f
      BY <2>2, <1>11, <1>1, <1>3
    <3>2. PICK n \in 1 .. Len(more) : p[n] = k - Len(ts)
      BY <3>1, <1>5
    <3>3. /\ n + d \in 1 .. d + Len(more)
          /\ (n + d) - d = n
          /\ n + d \notin 1 .. d
      BY <1>3, <1>4
    <3>4. both[n + d] = Len(ts) + p[n]
      BY <3>3, <1>8
    <3>5. both[n + d] = k
      BY <3>2, <3>4, <1>3
    <3> QED
      BY <3>3, <3>5, <1>7
  <2> QED
    BY <2>1, <2>2, <1>3
<1>12. ASSUME NEW n \in DOMAIN both
       PROVE  (ts \o us)[both[n]] = Tick(f, (cbs \o more)[done + n])
  <2>1. CASE n \in 1 .. d /\ both[n] = q[n] /\ q[n] \in 1 .. Len(ts)
    <3>1. (ts \o us)[both[n]] = ts[q[n]]
      BY <2>1, <1>1, <1>3
    <3>2. done + n \in 1 .. Len(cbs)
      BY <2>1, <1>3, <1>4 DEF d
    <3>3. (cbs \o more)[done + n] = cbs[done + n]
      BY <3>2, <1>2, <1>3
    <3> QED
      BY <3>1, <3>3, <2>1, <1>4
  <2>2. CASE n - d \in 1 .. Len(more) /\ both[n] = Len(ts) + p[n - d] /\ p[n - d] \in 1 .. Len(us) /\ n > d
    <3>1. (ts \o us)[both[n]] = us[p[n - d]]
      BY <2>2, <1>1, <1>3
    <3>2. /\ done + n \in 1 .. Len(cbs) + Len(more)
          /\ ~(done + n <= Len(cbs))
          /\ (done + n) - Len(cbs) = n - d
      BY <2>2, <1>3, <1>4, <1>7 DEF d
    <3>3. (cbs \o more)[done + n] = more[n - d]
      BY <3>2, <1>2
    <3> QED
      BY <3>1, <3>3, <2>2, <1>5
  <2> QED
    BY <2>1, <2>2, <1>8, <1>7
<1>13. done \in 0 .. Len(cbs \o more)
  BY <1>2, <1>3, <1>4
<1>14. InTurn(f, ts \o us, cbs \o more, done, both)
  BY <1>9, <1>10, <1>11, <1>12, <1>13 DEF InTurn
<1> QED
  BY <1>14

\* Ticks of others after them change nothing.
LEMMA JoinedByOthers ==
  ASSUME NEW f, NEW T, NEW C, NEW ts \in Seq(T), NEW us \in Seq(T), NEW cbs \in Seq(C),
         NEW done, NEW q, InTurn(f, ts, cbs, done, q), NoTick(f, us)
  PROVE  \E both : InTurn(f, ts \o us, cbs, done, both)
<1>1. InTurn(f, us, <<>>, 0, <<>>)
  <2>1. <<>> \in [1 .. Len(<<>>) - 0 -> DOMAIN us] /\ DOMAIN <<>> = {} /\ 0 \in 0 .. Len(<<>>)
    OBVIOUS
  <2> QED
    BY <2>1 DEF InTurn, NoTick
<1>2. <<>> \in Seq(C) /\ cbs \o <<>> = cbs
  BY EmptySeq, ConcatEmptySeq
<1> QED
  <2>1. PICK both : InTurn(f, ts \o us, cbs \o <<>>, done, both)
    BY <1>1, <1>2, Joined
  <2> QED
    BY <2>1, <1>2

\* Two queues without a tick of f have none together.
LEMMA NoTickJoined ==
  ASSUME NEW f, NEW T, NEW ts \in Seq(T), NEW us \in Seq(T), NoTick(f, ts), NoTick(f, us)
  PROVE  NoTick(f, ts \o us)
BY ConcatProperties, LenProperties DEF NoTick

\* The ticks that a future asks for as it is settled are all its callbacks in turn.
LEMMA AllInTurn ==
  ASSUME NEW f, NEW C, NEW cbs \in Seq(C)
  PROVE  /\ Triggered(f, cbs) \in Seq([of : {f}, cb : C])
         /\ Len(Triggered(f, cbs)) = Len(cbs)
         /\ \A k \in 1 .. Len(cbs) : Triggered(f, cbs)[k] = Tick(f, cbs[k])
         /\ InTurn(f, Triggered(f, cbs), cbs, 0, [n \in 1 .. Len(cbs) |-> n])
<1>1. Len(cbs) \in Nat /\ DOMAIN cbs = 1 .. Len(cbs) /\ \A k \in 1 .. Len(cbs) : cbs[k] \in C
  BY LenProperties, ElementOfSeq
<1>2. /\ Triggered(f, cbs) \in [1 .. Len(cbs) -> [of : {f}, cb : C]]
      /\ \A k \in 1 .. Len(cbs) : Triggered(f, cbs)[k] = Tick(f, cbs[k])
  BY <1>1 DEF Triggered, Tick
<1>3. Triggered(f, cbs) \in Seq([of : {f}, cb : C])
  <2>1. Len(cbs) \in Nat
    BY <1>1
  <2>2. Triggered(f, cbs) \in [1 .. Len(cbs) -> [of : {f}, cb : C]]
    BY <1>2
  <2> QED
    <3>1. Triggered(f, cbs) \in UNION {[1 .. n -> [of : {f}, cb : C]] : n \in Nat}
      BY <2>1, <2>2
    <3> QED
      BY <3>1, SeqDef, Zenon
<1>4. Len(Triggered(f, cbs)) = Len(cbs)
  BY <1>1, <1>2, <1>3, LenProperties
<1>5. InTurn(f, Triggered(f, cbs), cbs, 0, [n \in 1 .. Len(cbs) |-> n])
  <2> DEFINE q == [n \in 1 .. Len(cbs) |-> n]
  <2>1. /\ DOMAIN q = 1 .. Len(cbs) /\ \A n \in 1 .. Len(cbs) : q[n] = n /\ 0 + n = n
        /\ Len(cbs) - 0 = Len(cbs) /\ 0 \in 0 .. Len(cbs)
        /\ DOMAIN Triggered(f, cbs) = 1 .. Len(cbs)
        /\ q \in [1 .. Len(cbs) -> 1 .. Len(cbs)]
    BY <1>1, <1>2
  <2> HIDE DEF q
  <2>2. InTurn(f, Triggered(f, cbs), cbs, 0, q)
    BY <2>1, <1>2 DEF InTurn
  <2> QED
    BY <2>2 DEF q
<1> QED
  BY <1>2, <1>3, <1>4, <1>5

\* The tick at the head of the queue runs the next callback of its future.
LEMMA HeadRuns ==
  ASSUME NEW f, NEW T, NEW C, NEW ts \in Seq(T), NEW cbs \in Seq(C), NEW done, NEW q,
         InTurn(f, ts, cbs, done, q), ts # <<>>, Head(ts).of = f
  PROVE  /\ done + 1 \in 1 .. Len(cbs)
         /\ Head(ts) = Tick(f, cbs[done + 1])
         /\ \E rest : InTurn(f, Tail(ts), cbs, done + 1, rest)
<1>1. /\ Len(ts) \in Nat \ {0} /\ DOMAIN ts = 1 .. Len(ts)
      /\ Len(cbs) \in Nat
      /\ Head(ts) = ts[1]
  BY LenProperties, EmptySeq
<1>2. /\ Tail(ts) \in Seq(T)
      /\ Len(Tail(ts)) = Len(ts) - 1
      /\ DOMAIN Tail(ts) = 1 .. Len(ts) - 1
      /\ \A i \in 1 .. Len(ts) - 1 : Tail(ts)[i] = ts[i + 1]
  BY HeadTailProperties, LenProperties
<1> DEFINE d == Len(cbs) - done
           rest == [n \in 1 .. Len(cbs) - (done + 1) |-> q[n + 1] - 1]
<1>3. /\ done \in Nat /\ done <= Len(cbs) /\ d \in Nat
      /\ q \in [1 .. d -> 1 .. Len(ts)]
      /\ \A m, n \in 1 .. d : m < n => q[m] < q[n]
      /\ \A k \in 1 .. Len(ts) : ts[k].of = f => \E n \in 1 .. d : q[n] = k
      /\ \A n \in 1 .. d : ts[q[n]] = Tick(f, cbs[done + n])
  <2>1. done \in Nat /\ done <= Len(cbs) /\ d \in Nat
    BY <1>1 DEF InTurn
  <2>2. q \in [1 .. d -> 1 .. Len(ts)] /\ DOMAIN q = 1 .. d
    BY <1>1 DEF InTurn
  <2> HIDE DEF d
  <2> QED
    BY <2>1, <2>2, <1>1 DEF InTurn
<1>4. 1 \in 1 .. d /\ q[1] = 1
  <2>1. PICK n \in 1 .. d : q[n] = 1
    BY <1>1, <1>3
  <2>2. 1 \in 1 .. d /\ (n = 1 \/ 1 < n)
    BY <1>3
  <2>3. CASE 1 < n
    <3>1. q[1] < q[n] /\ q[1] \in 1 .. Len(ts)
      BY <1>3, <2>2, <2>3
    <3> QED
      BY <3>1, <2>1, <1>1
  <2> QED
    BY <2>1, <2>2, <2>3
<1>5. done + 1 \in 1 .. Len(cbs) /\ Len(cbs) - (done + 1) = d - 1
  BY <1>1, <1>3, <1>4
<1>6. Head(ts) = Tick(f, cbs[done + 1])
  BY <1>1, <1>3, <1>4
<1>7. /\ DOMAIN rest = 1 .. d - 1
      /\ \A n \in 1 .. d - 1 : rest[n] = q[n + 1] - 1
  BY <1>5
<1>8. ASSUME NEW n \in 1 .. d - 1
      PROVE  /\ n + 1 \in 1 .. d /\ q[n + 1] \in 2 .. Len(ts)
             /\ q[n + 1] - 1 \in 1 .. Len(ts) - 1
             /\ (q[n + 1] - 1) + 1 = q[n + 1]
  <2>1. n + 1 \in 1 .. d /\ 1 < n + 1
    BY <1>3
  <2>2. q[n + 1] \in 1 .. Len(ts) /\ 1 < q[n + 1]
    BY <2>1, <1>3, <1>4
  <2> QED
    BY <2>1, <2>2, <1>1
<1>9. rest \in [1 .. Len(cbs) - (done + 1) -> DOMAIN Tail(ts)]
  BY <1>2, <1>5, <1>8
<1>10. ASSUME NEW m \in DOMAIN rest, NEW n \in DOMAIN rest, m < n
       PROVE  rest[m] < rest[n]
  <2>1. m + 1 < n + 1 /\ m \in 1 .. d - 1 /\ n \in 1 .. d - 1
    BY <1>10, <1>7, <1>3
  <2>2. q[m + 1] < q[n + 1]
    BY <2>1, <1>8, <1>3
  <2> QED
    BY <2>1, <2>2, <1>7, <1>8, <1>1
<1>11. ASSUME NEW k \in DOMAIN Tail(ts), Tail(ts)[k].of = f
       PROVE  \E n \in DOMAIN rest : rest[n] = k
  <2>1. k + 1 \in 1 .. Len(ts) /\ ts[k + 1].of = f /\ k \in 1 .. Len(ts) - 1
    BY <1>11, <1>1, <1>2
  <2>2. PICK n \in 1 .. d : q[n] = k + 1
    BY <2>1, <1>3
  <2>3. n # 1
    BY <2>1, <2>2, <1>4, <1>1
  <2>4. n - 1 \in 1 .. d - 1 /\ (n - 1) + 1 = n
    BY <2>3, <1>3
  <2>5. rest[n - 1] = (k + 1) - 1
    BY <2>2, <2>4, <1>7
  <2> QED
    <3>1. rest[n - 1] = k /\ n - 1 \in DOMAIN rest
      <4>1. (k + 1) - 1 = k
        BY <2>1
      <4> QED
        BY <4>1, <2>4, <2>5, <1>7
    <3> HIDE DEF rest
    <3> QED
      BY <3>1
<1>12. ASSUME NEW n \in DOMAIN rest
       PROVE  Tail(ts)[rest[n]] = Tick(f, cbs[(done + 1) + n])
  <2>1. n \in 1 .. d - 1
    BY <1>7
  <2>2. Tail(ts)[rest[n]] = ts[q[n + 1]]
    BY <2>1, <1>2, <1>7, <1>8
  <2>3. ts[q[n + 1]] = Tick(f, cbs[done + (n + 1)])
    BY <2>1, <1>3, <1>8
  <2>4. done + (n + 1) = (done + 1) + n
    BY <2>1, <1>3
  <2> QED
    BY <2>2, <2>3, <2>4
<1> HIDE DEF rest, d
<1>13. InTurn(f, Tail(ts), cbs, done + 1, rest)
  <2>1. done + 1 \in 0 .. Len(cbs)
    BY <1>5
  <2> QED
    BY <2>1, <1>9, <1>10, <1>11, <1>12 DEF InTurn
<1> QED
  BY <1>5, <1>6, <1>13

\* A tick of another future at the head changes nothing for f.
LEMMA HeadOfAnother ==
  ASSUME NEW f, NEW T, NEW C, NEW ts \in Seq(T), NEW cbs \in Seq(C), NEW done, NEW q,
         InTurn(f, ts, cbs, done, q), ts # <<>>, Head(ts).of # f
  PROVE  \E rest : InTurn(f, Tail(ts), cbs, done, rest)
<1>1. /\ Len(ts) \in Nat \ {0} /\ DOMAIN ts = 1 .. Len(ts)
      /\ Len(cbs) \in Nat
      /\ Head(ts) = ts[1]
  BY LenProperties, EmptySeq
<1>2. /\ Tail(ts) \in Seq(T)
      /\ DOMAIN Tail(ts) = 1 .. Len(ts) - 1
      /\ \A i \in 1 .. Len(ts) - 1 : Tail(ts)[i] = ts[i + 1]
  BY HeadTailProperties, LenProperties
<1> DEFINE d == Len(cbs) - done
           rest == [n \in 1 .. Len(cbs) - done |-> q[n] - 1]
<1>3. /\ done \in Nat /\ done <= Len(cbs) /\ d \in Nat
      /\ q \in [1 .. d -> 1 .. Len(ts)]
      /\ \A m, n \in 1 .. d : m < n => q[m] < q[n]
      /\ \A k \in 1 .. Len(ts) : ts[k].of = f => \E n \in 1 .. d : q[n] = k
      /\ \A n \in 1 .. d : ts[q[n]] = Tick(f, cbs[done + n])
  <2>1. done \in Nat /\ done <= Len(cbs) /\ d \in Nat
    BY <1>1 DEF InTurn
  <2>2. q \in [1 .. d -> 1 .. Len(ts)] /\ DOMAIN q = 1 .. d
    BY <1>1 DEF InTurn
  <2> HIDE DEF d
  <2> QED
    BY <2>1, <2>2, <1>1 DEF InTurn
<1>4. ASSUME NEW n \in 1 .. d
      PROVE  /\ q[n] - 1 \in 1 .. Len(ts) - 1
             /\ (q[n] - 1) + 1 = q[n]
             /\ q[n] \in Nat
  <2>1. q[n] # 1
    <3>1. ts[q[n]] = Tick(f, cbs[done + n])
      BY <1>3
    <3>2. ts[q[n]].of = f
      BY <3>1 DEF Tick
    <3> QED
      BY <3>2, <1>1
  <2>2. q[n] \in 1 .. Len(ts)
    BY <1>3
  <2> QED
    BY <2>1, <2>2, <1>1
<1>5. DOMAIN rest = 1 .. d /\ \A n \in 1 .. d : rest[n] = q[n] - 1
  OBVIOUS
<1>6. rest \in [1 .. Len(cbs) - done -> DOMAIN Tail(ts)]
  BY <1>2, <1>4
<1>7. ASSUME NEW m \in DOMAIN rest, NEW n \in DOMAIN rest, m < n
      PROVE  rest[m] < rest[n]
  BY <1>7, <1>3, <1>4, <1>5
<1>8. ASSUME NEW k \in DOMAIN Tail(ts), Tail(ts)[k].of = f
      PROVE  \E n \in DOMAIN rest : rest[n] = k
  <2>1. k + 1 \in 1 .. Len(ts) /\ ts[k + 1].of = f /\ k \in 1 .. Len(ts) - 1
    BY <1>8, <1>1, <1>2
  <2>2. PICK n \in 1 .. d : q[n] = k + 1
    BY <2>1, <1>3
  <2>3. rest[n] = k
    BY <2>1, <2>2, <1>5, <1>1
  <2> QED
    BY <2>3, <1>5
<1>9. ASSUME NEW n \in DOMAIN rest
      PROVE  Tail(ts)[rest[n]] = Tick(f, cbs[done + n])
  BY <1>2, <1>3, <1>4, <1>5
<1> HIDE DEF rest, d
<1>10. InTurn(f, Tail(ts), cbs, done, rest)
  BY <1>3, <1>6, <1>7, <1>8, <1>9 DEF InTurn
<1> QED
  BY <1>10

-----------------------------------------------------------------------------
(* Positions.                                                                *)

Rank(these, i) == Cardinality({j \in these : j <= i})

\* The ranks of the members of a finite set of numbers go from 1 to their number.
LEMMA Ranked ==
  ASSUME NEW these \in SUBSET Nat, IsFiniteSet(these)
  PROVE  /\ Cardinality(these) \in Nat
         /\ \A i \in these : Rank(these, i) \in 1 .. Cardinality(these)
         /\ \A i, k \in these : i < k => Rank(these, i) < Rank(these, k)
         /\ \A n \in 1 .. Cardinality(these) : Nth(these, n) \in these /\ Rank(these, Nth(these, n)) = n
         /\ \A i \in these : Nth(these, Rank(these, i)) = i
<1> DEFINE card == Cardinality(these)
           upto(i) == {j \in these : j <= i}
           rank == [i \in these |-> Rank(these, i)]
<1>1. card \in Nat
  BY FS_CardinalityType
<1>2. ASSUME NEW i \in these
      PROVE  Rank(these, i) \in 1 .. card
  <2>1. upto(i) \in SUBSET these /\ {i} \in SUBSET upto(i)
    OBVIOUS
  <2>2. /\ IsFiniteSet(upto(i))
        /\ Cardinality(upto(i)) <= card
    BY <2>1, FS_Subset
  <2>3. Cardinality({i}) <= Cardinality(upto(i)) /\ Cardinality({i}) = 1
    BY <2>1, <2>2, FS_Subset, FS_Singleton
  <2>4. Cardinality(upto(i)) \in Nat
    BY <2>2, FS_CardinalityType
  <2> QED
    BY <1>1, <2>2, <2>3, <2>4 DEF Rank
<1>3. ASSUME NEW i \in these, NEW k \in these, i < k
      PROVE  Rank(these, i) < Rank(these, k)
  <2>1. upto(i) \in SUBSET upto(k) /\ k \in upto(k) /\ k \notin upto(i) /\ upto(k) \in SUBSET these
    <3>1. i \in Nat /\ k \in Nat /\ \A j \in these : j \in Nat
      OBVIOUS
    <3>2. k <= k /\ ~(k <= i) /\ \A j \in these : j <= i => j <= k
      BY <1>3, <3>1
    <3> QED
      BY <3>2
  <2>2. IsFiniteSet(upto(k))
    BY <2>1, FS_Subset
  <2>3. /\ Cardinality(upto(i)) <= Cardinality(upto(k))
        /\ Cardinality(upto(i)) # Cardinality(upto(k))
    BY <2>1, <2>2, FS_Subset
  <2>4. Rank(these, i) <= Rank(these, k) /\ Rank(these, i) # Rank(these, k)
    BY <2>3 DEF Rank
  <2> HIDE DEF upto
  <2> QED
    BY <2>4, <1>1, <1>2
<1>4. ASSUME NEW i \in these, NEW k \in these, Rank(these, i) = Rank(these, k)
      PROVE  i = k
  <2>1. ~(i < k) /\ ~(k < i)
    <3>1. Rank(these, i) \in Nat
      BY <1>1, <1>2
    <3> QED
      BY <3>1, <1>3, <1>4
  <2> QED
    BY <2>1
<1>5. rank \in Surjection(these, 1 .. card)
  <2>1. rank \in [these -> 1 .. card]
    BY <1>2
  <2>2. rank \in Injection(these, 1 .. card)
    <3>1. \A i, k \in these : rank[i] = rank[k] => i = k
      BY <1>4
    <3> QED
      BY <2>1, <3>1 DEF Injection, IsInjective
  <2>3. IsFiniteSet(1 .. card) /\ Cardinality(1 .. card) = card
    BY <1>1, FS_Interval
  <2> QED
    BY <2>2, <2>3, FS_Injection
<1>6. ASSUME NEW n \in 1 .. card
      PROVE  Nth(these, n) \in these /\ Rank(these, Nth(these, n)) = n
  <2>1. \E i \in these : rank[i] = n
    BY <1>5 DEF Surjection
  <2>2. \E i \in these : Cardinality({j \in these : j <= i}) = n
    BY <2>1 DEF Rank
  <2> QED
    BY <2>2 DEF Nth, Rank
<1>7. ASSUME NEW i \in these
      PROVE  Nth(these, Rank(these, i)) = i
  BY <1>2, <1>4, <1>6
<1> QED
  BY <1>1, <1>2, <1>3, <1>6, <1>7

\* What is asked of the elements of a list at these positions, and the ticks that the
\* late ones get.
Again(fs, these, x, cb) == [n \in 1 .. Cardinality({i \in these : fs[i] = x}) |-> cb]
LateTicks(fs, late, cb) == [n \in 1 .. Cardinality(late) |-> Tick(fs[Nth(late, n)], cb)]

\* The ticks of a future that stands in the list several times are as many and in turn.
LEMMA LateInTurn ==
  ASSUME NEW fs, NEW these \in SUBSET Nat, IsFiniteSet(these), NEW late \in SUBSET these,
         NEW x, NEW cb, \A i \in these : fs[i] = x => i \in late
  PROVE  \E p : InTurn(x, LateTicks(fs, late, cb), Again(fs, these, x, cb), 0, p)
<1> DEFINE mine == {i \in these : fs[i] = x}
           us == LateTicks(fs, late, cb)
           more == Again(fs, these, x, cb)
           p == [n \in 1 .. Cardinality(mine) |-> Rank(late, Nth(mine, n))]
<1>1. /\ mine \in SUBSET Nat /\ IsFiniteSet(mine) /\ mine \in SUBSET late
      /\ late \in SUBSET Nat /\ IsFiniteSet(late)
  BY FS_Subset
<1>2. /\ Cardinality(mine) \in Nat
      /\ \A i \in mine : Rank(mine, i) \in 1 .. Cardinality(mine)
      /\ \A i, k \in mine : i < k => Rank(mine, i) < Rank(mine, k)
      /\ \A n \in 1 .. Cardinality(mine) : Nth(mine, n) \in mine /\ Rank(mine, Nth(mine, n)) = n
      /\ \A i \in mine : Nth(mine, Rank(mine, i)) = i
  BY <1>1, Ranked
<1>3. /\ Cardinality(late) \in Nat
      /\ \A i \in late : Rank(late, i) \in 1 .. Cardinality(late)
      /\ \A i, k \in late : i < k => Rank(late, i) < Rank(late, k)
      /\ \A n \in 1 .. Cardinality(late) : Nth(late, n) \in late /\ Rank(late, Nth(late, n)) = n
      /\ \A i \in late : Nth(late, Rank(late, i)) = i
  BY <1>1, Ranked
<1>4. /\ DOMAIN us = 1 .. Cardinality(late)
      /\ \A n \in 1 .. Cardinality(late) : us[n] = Tick(fs[Nth(late, n)], cb)
  BY DEF LateTicks
<1>5. /\ more \in Seq({cb}) /\ Len(more) = Cardinality(mine)
      /\ \A n \in 1 .. Cardinality(mine) : more[n] = cb
  <2>1. more \in [1 .. Cardinality(mine) -> {cb}]
    BY DEF Again
  <2>2. more \in UNION {[1 .. n -> {cb}] : n \in Nat}
    BY <2>1, <1>2
  <2>3. more \in Seq({cb})
    BY <2>2, SeqDef, Zenon
  <2> HIDE DEF more, mine
  <2>4. 1 .. Len(more) = 1 .. Cardinality(mine) /\ Len(more) \in Nat
    BY <2>1, <2>3, LenProperties
  <2> QED
    BY <2>1, <2>3, <2>4, <1>2
<1>6. DOMAIN p = 1 .. Cardinality(mine) /\ \A n \in 1 .. Cardinality(mine) : p[n] = Rank(late, Nth(mine, n))
  OBVIOUS
<1>7. \A i \in mine : i \in late /\ fs[i] = x /\ i \in Nat
  BY <1>1
<1>8. \A i \in late : fs[i] = x => i \in mine
  OBVIOUS
<1> HIDE DEF mine, us, more, p
<1>9. p \in [1 .. Len(more) - 0 -> DOMAIN us]
  <2>1. \A n \in 1 .. Cardinality(mine) : p[n] \in 1 .. Cardinality(late)
    BY <1>2, <1>3, <1>6, <1>7
  <2>2. Len(more) - 0 = Cardinality(mine)
    BY <1>2, <1>5
  <2>3. p \in [1 .. Cardinality(mine) -> 1 .. Cardinality(late)]
    BY <2>1, <1>6 DEF p
  <2> QED
    BY <2>2, <2>3, <1>4
<1>10. ASSUME NEW m \in DOMAIN p, NEW n \in DOMAIN p, m < n
       PROVE  p[m] < p[n]
  <2>1. /\ Nth(mine, m) \in mine /\ Rank(mine, Nth(mine, m)) = m
        /\ Nth(mine, n) \in mine /\ Rank(mine, Nth(mine, n)) = n
    BY <1>2, <1>6
  <2>2. Nth(mine, m) \in Nat /\ Nth(mine, n) \in Nat /\ m \in Nat /\ n \in Nat
    BY <2>1, <1>7, <1>6
  <2>3. ~(Nth(mine, n) < Nth(mine, m)) /\ Nth(mine, n) # Nth(mine, m)
    BY <2>1, <2>2, <1>2, <1>10
  <2>4. Nth(mine, m) < Nth(mine, n)
    BY <2>2, <2>3
  <2> QED
    BY <2>1, <2>4, <1>3, <1>6, <1>7
<1>11. ASSUME NEW k \in DOMAIN us, us[k].of = x
       PROVE  \E n \in DOMAIN p : p[n] = k
  <2>1. k \in 1 .. Cardinality(late) /\ Nth(late, k) \in late /\ Rank(late, Nth(late, k)) = k
    BY <1>3, <1>4
  <2>2. fs[Nth(late, k)] = x
    BY <2>1, <1>4, <1>11 DEF Tick
  <2>3. Nth(late, k) \in mine
    BY <2>1, <2>2, <1>8
  <2>4. Rank(mine, Nth(late, k)) \in DOMAIN p
    BY <2>3, <1>2, <1>6
  <2>5. p[Rank(mine, Nth(late, k))] = k
    BY <2>1, <2>3, <2>4, <1>2, <1>6
  <2> QED
    BY <2>4, <2>5
<1>12. ASSUME NEW n \in DOMAIN p
       PROVE  us[p[n]] = Tick(x, more[0 + n])
  <2>1. n \in 1 .. Cardinality(mine) /\ 0 + n = n /\ Nth(mine, n) \in mine
    BY <1>2, <1>6
  <2>2. p[n] \in 1 .. Cardinality(late) /\ Nth(late, p[n]) = Nth(mine, n)
    BY <2>1, <1>3, <1>6, <1>7
  <2> QED
    BY <2>1, <2>2, <1>4, <1>5, <1>7
<1>13. 0 \in 0 .. Len(more)
  BY <1>5, <1>2
<1>14. InTurn(x, us, more, 0, p)
  BY <1>9, <1>10, <1>11, <1>12, <1>13 DEF InTurn
<1> QED
  BY <1>14 DEF us, more

\* A future that is not among the late ones gets no tick.
LEMMA NoneLate ==
  ASSUME NEW fs, NEW late \in SUBSET Nat, IsFiniteSet(late), NEW x, NEW cb,
         \A i \in late : fs[i] # x
  PROVE  NoTick(x, LateTicks(fs, late, cb))
<1>1. \A n \in 1 .. Cardinality(late) : Nth(late, n) \in late
  BY Ranked
<1> QED
  BY <1>1 DEF NoTick, LateTicks, Tick

-----------------------------------------------------------------------------
(* Callbacks run in order.                                                   *)

CallbackSet ==
  [kind : {"then", "adopt"}, to : Children] \cup [kind : {"all"}, to : Alls]
    \cup [kind : {"race"}, to : Races] \cup [kind : {"node"}, to : Nodes]
    \cup [kind : {"loop"}, to : Loops]
TickSet == [of : Futures, cb : CallbackSet]

IsWorld(w) ==
  w = [state |-> w.state, callbacks |-> w.callbacks, ticks |-> w.ticks, asked |-> w.asked,
       settled |-> w.settled]

Typed(w) ==
  /\ IsWorld(w)
  /\ w.state = [f \in Futures |-> w.state[f]]
  /\ w.callbacks \in [Futures -> Seq(CallbackSet)]
  /\ w.asked \in [Futures -> Seq(CallbackSet)]
  /\ w.ticks \in Seq(TickSet)

HistoryTyped(r) == \E S : r \in [Futures -> Seq(S)]

\* What has been asked of f has run, or waits in the queue, or still waits for f.
InOrder(w, r, f) ==
  IF IsSettled(w.state[f])
    THEN /\ w.callbacks[f] = <<>>
         /\ \E q : InTurn(f, w.ticks, w.asked[f], Len(r[f]), q)
         /\ \A i \in DOMAIN r[f] : r[f][i] = [cb |-> w.asked[f][i], fate |-> w.state[f]]
    ELSE w.callbacks[f] = w.asked[f] /\ r[f] = <<>> /\ NoTick(f, w.ticks)

Order(w, r) == Typed(w) /\ HistoryTyped(r) /\ \A f \in Futures : InOrder(w, r, f)

\* The fields of Settled, for a future that is not settled, and of Added.
SettledTo(w, v, f, fate) ==
  /\ IsWorld(v)
  /\ v.state = [w.state EXCEPT ![f] = fate]
  /\ v.callbacks = [w.callbacks EXCEPT ![f] = <<>>]
  /\ v.ticks = w.ticks \o Triggered(f, w.callbacks[f])
  /\ v.asked = w.asked
  /\ v.settled = Append(w.settled, f)

AddedTo(w, v, f, cb) ==
  /\ IsWorld(v)
  /\ v.state = w.state /\ v.settled = w.settled
  /\ v.asked = [w.asked EXCEPT ![f] = Append(@, cb)]
  /\ IsSettled(w.state[f]) => v.callbacks = w.callbacks /\ v.ticks = Append(w.ticks, Tick(f, cb))
  /\ ~IsSettled(w.state[f]) => v.callbacks = [w.callbacks EXCEPT ![f] = Append(@, cb)] /\ v.ticks = w.ticks

\* The fields of the world in which f has just been settled.
LEMMA SettledFields ==
  ASSUME NEW w, IsWorld(w), NEW f, NEW fate, ~IsSettled(w.state[f])
  PROVE  SettledTo(w, Settled(w, f, fate), f, fate)
<1>1. PICK v : v = Settled(w, f, fate)
  OBVIOUS
<1>2. v = [w EXCEPT !.state[f] = fate, !.callbacks[f] = <<>>,
                    !.ticks = @ \o Triggered(f, w.callbacks[f]), !.settled = Append(@, f)]
  BY <1>1 DEF Settled
<1>3. SettledTo(w, v, f, fate)
  BY <1>2 DEF IsWorld, SettledTo
<1> QED
  BY <1>1, <1>3

\* The fields of the world in which f has one callback more.
LEMMA AddedFields ==
  ASSUME NEW w, IsWorld(w), NEW f, NEW cb
  PROVE  AddedTo(w, Added(w, f, cb), f, cb)
<1>1. PICK asking : asking = [w EXCEPT !.asked[f] = Append(@, cb)]
  OBVIOUS
<1>5. /\ IsWorld(asking)
      /\ asking.state = w.state /\ asking.callbacks = w.callbacks /\ asking.ticks = w.ticks /\ asking.settled = w.settled
      /\ asking.asked = [w.asked EXCEPT ![f] = Append(@, cb)]
  BY <1>1 DEF IsWorld
<1>2. PICK v : v = Added(w, f, cb)
  OBVIOUS
<1> SUFFICES AddedTo(w, v, f, cb)
  BY <1>2
<1>3. CASE IsSettled(w.state[f])
  <2>1. v = [asking EXCEPT !.ticks = Append(@, Tick(f, cb))]
    BY <1>1, <1>2, <1>3 DEF Added
  <2>2. /\ IsWorld(v) /\ v.state = w.state /\ v.callbacks = w.callbacks /\ v.settled = w.settled
        /\ v.asked = [w.asked EXCEPT ![f] = Append(@, cb)]
        /\ v.ticks = Append(w.ticks, Tick(f, cb))
    BY <1>5, <2>1 DEF IsWorld
  <2> QED
    BY <1>3, <2>2, Zenon DEF AddedTo
<1>4. CASE ~IsSettled(w.state[f])
  <2>1. v = [asking EXCEPT !.callbacks[f] = Append(@, cb)]
    BY <1>1, <1>2, <1>4 DEF Added
  <2>2. /\ IsWorld(v) /\ v.state = w.state /\ v.ticks = w.ticks /\ v.settled = w.settled
        /\ v.asked = [w.asked EXCEPT ![f] = Append(@, cb)]
        /\ v.callbacks = [w.callbacks EXCEPT ![f] = Append(@, cb)]
    BY <1>5, <2>1 DEF IsWorld
  <2> QED
    BY <1>4, <2>2, Zenon DEF AddedTo
<1> QED
  BY <1>2, <1>3, <1>4

\* Ticks of f that are added at the end of the queue leave another future as it was.
LEMMA OthersStay ==
  ASSUME NEW w, NEW v, NEW r, NEW g \in Futures, Typed(w), InOrder(w, r, g),
         NEW us \in Seq(TickSet), NoTick(g, us), v.ticks = w.ticks \o us,
         v.state[g] = w.state[g], v.callbacks[g] = w.callbacks[g], v.asked[g] = w.asked[g]
  PROVE  InOrder(v, r, g)
<1>1. w.ticks \in Seq(TickSet) /\ w.asked[g] \in Seq(CallbackSet)
  BY DEF Typed
<1>2. CASE IsSettled(w.state[g])
  <2>1. PICK q : InTurn(g, w.ticks, w.asked[g], Len(r[g]), q)
    BY <1>2 DEF InOrder
  <2>2. \E both : InTurn(g, w.ticks \o us, w.asked[g], Len(r[g]), both)
    <3>1. PICK done : done = Len(r[g])
      OBVIOUS
    <3>2. PICK ts \in Seq(TickSet) : ts = w.ticks
      BY <1>1
    <3>3. PICK cbs \in Seq(CallbackSet) : cbs = w.asked[g]
      BY <1>1
    <3>4. InTurn(g, ts, cbs, done, q)
      BY <2>1, <3>1, <3>2, <3>3
    <3>5. \E both : InTurn(g, ts \o us, cbs, done, both)
      BY <3>4, JoinedByOthers
    <3> QED
      BY <3>5, <3>1, <3>2, <3>3
  <2> QED
    BY <1>2, <2>2 DEF InOrder
<1>3. CASE ~IsSettled(w.state[g])
  <2>1. NoTick(g, w.ticks)
    BY <1>3 DEF InOrder
  <2>2. NoTick(g, w.ticks \o us)
    BY <1>1, <2>1, NoTickJoined
  <2> QED
    BY <1>3, <2>2 DEF InOrder
<1> QED
  BY <1>2, <1>3

\* Callbacks of f that get their ticks at once run after those that wait already.
LEMMA MoreInTurn ==
  ASSUME NEW w, NEW v, NEW r, NEW f \in Futures, Typed(w), InOrder(w, r, f), HistoryTyped(r),
         IsSettled(w.state[f]),
         NEW us \in Seq(TickSet), NEW more \in Seq(CallbackSet), NEW p, InTurn(f, us, more, 0, p),
         v.ticks = w.ticks \o us, v.state[f] = w.state[f], v.callbacks[f] = w.callbacks[f],
         v.asked[f] = w.asked[f] \o more
  PROVE  InOrder(v, r, f)
<1>1. w.ticks \in Seq(TickSet) /\ w.asked[f] \in Seq(CallbackSet)
  BY DEF Typed
<1>2. PICK q : InTurn(f, w.ticks, w.asked[f], Len(r[f]), q)
  BY DEF InOrder
<1>3. PICK done : done = Len(r[f])
  OBVIOUS
<1>4. PICK ts \in Seq(TickSet) : ts = w.ticks
  BY <1>1
<1>5. PICK cbs \in Seq(CallbackSet) : cbs = w.asked[f]
  BY <1>1
<1>6. InTurn(f, ts, cbs, done, q)
  BY <1>2, <1>3, <1>4, <1>5
<1>7. PICK both : InTurn(f, ts \o us, cbs \o more, done, both)
  BY <1>6, Joined
<1>8. InTurn(f, v.ticks, v.asked[f], Len(r[f]), both)
  BY <1>7, <1>3, <1>4, <1>5
<1>9. ASSUME NEW i \in DOMAIN r[f]
      PROVE  (cbs \o more)[i] = cbs[i]
  <2>1. PICK S : r \in [Futures -> Seq(S)]
    BY DEF HistoryTyped
  <2>2. r[f] \in Seq(S)
    BY <2>1
  <2>3. DOMAIN r[f] = 1 .. done /\ done \in Nat
    BY <2>2, <1>3, LenProperties
  <2>4. done <= Len(cbs) /\ Len(cbs) \in Nat /\ Len(more) \in Nat
    BY <1>6, LenProperties DEF InTurn
  <2>5. i \in 1 .. Len(cbs) + Len(more) /\ i <= Len(cbs)
    BY <2>3, <2>4
  <2> QED
    BY <2>5, ConcatProperties
<1>10. \A i \in DOMAIN r[f] : r[f][i] = [cb |-> v.asked[f][i], fate |-> v.state[f]]
  <2>1. \A i \in DOMAIN r[f] : r[f][i] = [cb |-> w.asked[f][i], fate |-> w.state[f]]
    BY DEF InOrder
  <2> QED
    BY <2>1, <1>5, <1>9
<1> QED
  BY <1>8, <1>10 DEF InOrder

\* fulfill and reject
LEMMA SettledKeepsOrder ==
  ASSUME NEW w, NEW r, Order(w, r), NEW f \in Futures, NEW fate, IsSettled(fate)
  PROVE  Order(Settled(w, f, fate), r)
<1>1. CASE IsSettled(w.state[f])
  BY <1>1 DEF Settled
<1>2. CASE ~IsSettled(w.state[f])
  <2>1. PICK v : v = Settled(w, f, fate)
    OBVIOUS
  <2>2. PICK us : us = Triggered(f, w.callbacks[f])
    OBVIOUS
  <2>3. Typed(w)
    BY DEF Order
  <2>4. /\ IsWorld(v)
        /\ v.state = [w.state EXCEPT ![f] = fate]
        /\ v.callbacks = [w.callbacks EXCEPT ![f] = <<>>]
        /\ v.ticks = w.ticks \o us
        /\ v.asked = w.asked
    <3>1. SettledTo(w, v, f, fate)
      <4>1. IsWorld(w)
        BY <2>3 DEF Typed
      <4> QED
        BY <4>1, <1>2, <2>1, SettledFields
    <3> QED
      BY <3>1, <2>2 DEF SettledTo
  <2>5. PICK cbs \in Seq(CallbackSet) : cbs = w.callbacks[f]
    BY <2>3 DEF Typed
  <2>6. /\ us \in Seq([of : {f}, cb : CallbackSet])
        /\ \A k \in 1 .. Len(cbs) : us[k] = Tick(f, cbs[k])
        /\ Len(us) = Len(cbs)
        /\ InTurn(f, us, cbs, 0, [n \in 1 .. Len(cbs) |-> n])
    <3>1. /\ Triggered(f, cbs) \in Seq([of : {f}, cb : CallbackSet])
          /\ Len(Triggered(f, cbs)) = Len(cbs)
          /\ \A k \in 1 .. Len(cbs) : Triggered(f, cbs)[k] = Tick(f, cbs[k])
          /\ InTurn(f, Triggered(f, cbs), cbs, 0, [n \in 1 .. Len(cbs) |-> n])
      BY AllInTurn, Zenon
    <3>2. us = Triggered(f, cbs)
      BY <2>2, <2>5
    <3> QED
      BY <3>1, <3>2, Zenon
  <2>7. us \in Seq(TickSet)
    <3>1. [of : {f}, cb : CallbackSet] \subseteq TickSet
      BY DEF TickSet
    <3> QED
      BY <3>1, <2>6, SeqMonotonic
  <2>8. Typed(v)
    <3>1. v.state = [g \in Futures |-> v.state[g]]
      BY <2>3, <2>4 DEF Typed
    <3>2. v.callbacks \in [Futures -> Seq(CallbackSet)]
      BY <2>3, <2>4, EmptySeq DEF Typed
    <3>3. v.ticks \in Seq(TickSet)
      BY <2>3, <2>4, <2>7, ConcatProperties DEF Typed
    <3> QED
      BY <2>3, <2>4, <3>1, <3>2, <3>3 DEF Typed
  <2>9. ASSUME NEW g \in Futures, g # f
        PROVE  InOrder(v, r, g)
    <3>1. NoTick(g, us)
      <4>1. DOMAIN us = 1 .. Len(cbs)
        BY <2>6, LenProperties
      <4> QED
        BY <4>1, <2>6, <2>9 DEF NoTick, Tick
    <3>2. v.state[g] = w.state[g] /\ v.callbacks[g] = w.callbacks[g] /\ v.asked[g] = w.asked[g]
      BY <2>3, <2>4, <2>9 DEF Typed
    <3>3. InOrder(w, r, g)
      BY DEF Order
    <3> QED
      BY <3>1, <3>2, <3>3, <2>3, <2>4, <2>7, OthersStay
  <2>10. InOrder(v, r, f)
    <3>1. w.callbacks[f] = w.asked[f] /\ r[f] = <<>> /\ NoTick(f, w.ticks)
      BY <1>2 DEF Order, InOrder
    <3>2. v.state[f] = fate /\ v.callbacks[f] = <<>> /\ v.asked[f] = cbs
      BY <2>3, <2>4, <2>5, <3>1 DEF Typed
    <3>3. InTurn(f, w.ticks, <<>>, 0, <<>>)
      <4>1. <<>> \in [1 .. Len(<<>>) - 0 -> DOMAIN w.ticks] /\ DOMAIN <<>> = {} /\ 0 \in 0 .. Len(<<>>)
        OBVIOUS
      <4> QED
        BY <3>1, <4>1 DEF InTurn, NoTick
    <3>4. <<>> \in Seq(CallbackSet) /\ <<>> \o cbs = cbs
      BY EmptySeq, ConcatEmptySeq
    <3>5. PICK ts \in Seq(TickSet) : ts = w.ticks
      BY <2>3 DEF Typed
    <3>6. PICK both : InTurn(f, ts \o us, <<>> \o cbs, 0, both)
      <4>1. PICK p : p = [n \in 1 .. Len(cbs) |-> n]
        OBVIOUS
      <4>2. InTurn(f, ts, <<>>, 0, <<>>) /\ InTurn(f, us, cbs, 0, p)
        BY <3>3, <3>5, <2>6, <4>1
      <4> QED
        BY <4>2, <3>4, <2>7, Joined
    <3>7. InTurn(f, v.ticks, v.asked[f], Len(r[f]), both)
      <4>1. Len(r[f]) = 0
        BY <3>1, EmptySeq
      <4> QED
        BY <4>1, <3>2, <3>4, <3>5, <3>6, <2>4
    <3>8. DOMAIN r[f] = {}
      BY <3>1
    <3> QED
      BY <3>2, <3>7, <3>8 DEF InOrder
  <2>11. \A g \in Futures : InOrder(v, r, g)
    BY <2>9, <2>10
  <2> QED
    BY <2>1, <2>8, <2>11 DEF Order
<1> QED
  BY <1>1, <1>2

\* addCallback
LEMMA AddedKeepsOrder ==
  ASSUME NEW w, NEW r, Order(w, r), NEW f \in Futures, NEW cb \in CallbackSet
  PROVE  Order(Added(w, f, cb), r)
<1>1. PICK v : v = Added(w, f, cb)
  OBVIOUS
<1>2. Typed(w) /\ HistoryTyped(r) /\ \A g \in Futures : InOrder(w, r, g)
  BY DEF Order
<1>3. /\ IsWorld(v)
      /\ v.state = w.state
      /\ v.asked = [w.asked EXCEPT ![f] = Append(@, cb)]
      /\ IsSettled(w.state[f]) => v.callbacks = w.callbacks /\ v.ticks = Append(w.ticks, Tick(f, cb))
      /\ ~IsSettled(w.state[f]) => v.callbacks = [w.callbacks EXCEPT ![f] = Append(@, cb)] /\ v.ticks = w.ticks
  <2>1. AddedTo(w, v, f, cb)
    <3>1. IsWorld(w)
      BY <1>2 DEF Typed
    <3> QED
      BY <3>1, <1>1, AddedFields
  <2> QED
    BY <2>1 DEF AddedTo
<1>4. PICK cbs \in Seq(CallbackSet) : cbs = w.asked[f]
  BY <1>2 DEF Typed
<1>5. PICK ts \in Seq(TickSet) : ts = w.ticks
  BY <1>2 DEF Typed
<1>6. PICK t \in TickSet : t = Tick(f, cb)
  BY DEF TickSet, Tick
<1>7. Append(cbs, cb) \in Seq(CallbackSet) /\ Append(cbs, cb) = cbs \o <<cb>>
  BY AppendProperties, AppendIsConcat
<1>8. Append(ts, t) \in Seq(TickSet) /\ Append(ts, t) = ts \o <<t>>
  BY AppendProperties, AppendIsConcat
<1>9. v.asked \in [Futures -> Seq(CallbackSet)] /\ v.asked[f] = cbs \o <<cb>>
  BY <1>2, <1>3, <1>4, <1>7 DEF Typed
<1>10. CASE IsSettled(w.state[f])
  <2>1. v.callbacks = w.callbacks /\ v.ticks = ts \o <<t>> /\ v.ticks \in Seq(TickSet)
    BY <1>3, <1>5, <1>6, <1>8, <1>10
  <2>2. Typed(v)
    BY <2>1, <1>2, <1>3, <1>9 DEF Typed
  <2>3. <<t>> \in Seq(TickSet) /\ <<cb>> \in Seq(CallbackSet)
    OBVIOUS
  <2>4. ASSUME NEW g \in Futures, g # f
        PROVE  InOrder(v, r, g)
    <3>1. NoTick(g, <<t>>)
      BY <1>6, <2>4 DEF NoTick, Tick
    <3>2. v.state[g] = w.state[g] /\ v.callbacks[g] = w.callbacks[g] /\ v.asked[g] = w.asked[g]
      BY <1>2, <1>3, <2>1, <2>4 DEF Typed
    <3>3. v.ticks = w.ticks \o <<t>>
      BY <2>1, <1>5
    <3> QED
      BY <3>1, <3>2, <3>3, <2>3, <1>2, OthersStay
  <2>5. InOrder(v, r, f)
    <3>1. InTurn(f, <<t>>, <<cb>>, 0, <<1>>)
      <4>1. /\ <<1>> \in [1 .. Len(<<cb>>) - 0 -> DOMAIN <<t>>] /\ DOMAIN <<1>> = 1 .. 1 /\ 0 \in 0 .. Len(<<cb>>)
            /\ <<1>>[1] = 1 /\ <<t>>[1] = Tick(f, cb) /\ <<cb>>[0 + 1] = cb
            /\ DOMAIN <<t>> = 1 .. 1
        BY <1>6
      <4>2. \A n \in DOMAIN <<1>> : n = 1
        BY <4>1
      <4>3. \A n \in DOMAIN <<t>> : n = 1
        BY <4>1
      <4> QED
        BY <4>1, <4>2, <4>3 DEF InTurn
    <3>2. v.state[f] = w.state[f] /\ v.callbacks[f] = w.callbacks[f] /\ v.asked[f] = w.asked[f] \o <<cb>>
      BY <1>3, <1>4, <1>9, <2>1
    <3>3. v.ticks = w.ticks \o <<t>>
      BY <2>1, <1>5
    <3> QED
      BY <3>1, <3>2, <3>3, <2>3, <1>2, <1>10, MoreInTurn
  <2>6. \A g \in Futures : InOrder(v, r, g)
    BY <2>4, <2>5
  <2> QED
    BY <2>2, <2>6, <1>1, <1>2 DEF Order
<1>11. CASE ~IsSettled(w.state[f])
  <2>1. v.callbacks = [w.callbacks EXCEPT ![f] = Append(@, cb)] /\ v.ticks = w.ticks
    BY <1>3, <1>11
  <2>2. w.callbacks[f] = w.asked[f] /\ r[f] = <<>> /\ NoTick(f, w.ticks)
    BY <1>2, <1>11 DEF InOrder
  <2>3. v.callbacks \in [Futures -> Seq(CallbackSet)] /\ v.callbacks[f] = v.asked[f]
    BY <2>1, <2>2, <1>2, <1>3, <1>4, <1>7 DEF Typed
  <2>4. Typed(v)
    BY <2>1, <2>3, <1>2, <1>3, <1>9 DEF Typed
  <2>5. InOrder(v, r, f)
    BY <2>1, <2>2, <2>3, <1>3, <1>11 DEF InOrder
  <2>6. ASSUME NEW g \in Futures, g # f
        PROVE  InOrder(v, r, g)
    <3>1. v.state[g] = w.state[g] /\ v.callbacks[g] = w.callbacks[g] /\ v.asked[g] = w.asked[g]
      BY <1>2, <1>3, <2>1, <2>6 DEF Typed
    <3> QED
      BY <3>1, <2>1, <1>2 DEF InOrder
  <2>7. \A g \in Futures : InOrder(v, r, g)
    BY <2>5, <2>6
  <2> QED
    BY <2>4, <2>7, <1>1, <1>2 DEF Order
<1> QED
  BY <1>10, <1>11

WaitingTo(w, v, fs, these, cb) ==
  /\ IsWorld(v)
  /\ v.state = w.state /\ v.settled = w.settled
  /\ v.asked = [x \in Futures |-> w.asked[x] \o Again(fs, these, x, cb)]
  /\ v.callbacks = [x \in Futures |-> IF IsSettled(w.state[x]) THEN w.callbacks[x]
                                      ELSE w.callbacks[x] \o Again(fs, these, x, cb)]
  /\ v.ticks = w.ticks \o LateTicks(fs, {i \in these : IsSettled(w.state[fs[i]])}, cb)

\* The fields of the world in which all or race has asked for its elements.
LEMMA WaitingFields ==
  ASSUME NEW w, IsWorld(w), NEW fs, NEW these, NEW cb
  PROVE  WaitingTo(w, Waiting(w, fs, these, cb), fs, these, cb)
<1>1. PICK v : v = Waiting(w, fs, these, cb)
  OBVIOUS
<1>2. v = [w EXCEPT !.asked = [x \in Futures |-> w.asked[x] \o Again(fs, these, x, cb)],
                    !.callbacks = [x \in Futures |-> IF IsSettled(w.state[x]) THEN w.callbacks[x]
                                                     ELSE w.callbacks[x] \o Again(fs, these, x, cb)],
                    !.ticks = w.ticks \o LateTicks(fs, {i \in these : IsSettled(w.state[fs[i]])}, cb)]
  BY <1>1, Zenon DEF Waiting, Again, LateTicks
<1>3. WaitingTo(w, v, fs, these, cb)
  BY <1>2 DEF WaitingTo, IsWorld
<1> QED
  BY <1>1, <1>3

\* The additions that all and race make, to one element or to several.
LEMMA WaitingKeepsOrder ==
  ASSUME NEW w, NEW r, Order(w, r), NEW fs, NEW these \in SUBSET Nat, IsFiniteSet(these),
         \A i \in these : fs[i] \in Futures, NEW cb \in CallbackSet
  PROVE  Order(Waiting(w, fs, these, cb), r)
<1>1. PICK v : v = Waiting(w, fs, these, cb)
  OBVIOUS
<1>2. Typed(w) /\ HistoryTyped(r) /\ \A g \in Futures : InOrder(w, r, g)
  BY DEF Order
<1>3. PICK late : late = {i \in these : IsSettled(w.state[fs[i]])}
  OBVIOUS
<1>4. late \in SUBSET these /\ late \in SUBSET Nat /\ IsFiniteSet(late)
  BY <1>3, FS_Subset
<1>5. PICK us : us = LateTicks(fs, late, cb)
  OBVIOUS
<1>6. /\ IsWorld(v)
      /\ v.state = w.state
      /\ v.asked = [x \in Futures |-> w.asked[x] \o Again(fs, these, x, cb)]
      /\ v.callbacks = [x \in Futures |-> IF IsSettled(w.state[x]) THEN w.callbacks[x]
                                          ELSE w.callbacks[x] \o Again(fs, these, x, cb)]
      /\ v.ticks = w.ticks \o us
  <2>1. WaitingTo(w, v, fs, these, cb)
    BY <1>1, <1>2, WaitingFields DEF Typed
  <2> QED
    BY <2>1, <1>3, <1>5 DEF WaitingTo
<1>7. us \in Seq(TickSet)
  <2>1. \A n \in 1 .. Cardinality(late) : Nth(late, n) \in late
    BY <1>4, Ranked
  <2>2. \A n \in 1 .. Cardinality(late) : Tick(fs[Nth(late, n)], cb) \in TickSet
    BY <2>1, <1>4 DEF Tick, TickSet
  <2>3. us \in [1 .. Cardinality(late) -> TickSet]
    BY <2>2, <1>5 DEF LateTicks
  <2>4. Cardinality(late) \in Nat
    BY <1>4, FS_CardinalityType
  <2>5. us \in UNION {[1 .. n -> TickSet] : n \in Nat}
    BY <2>3, <2>4
  <2> QED
    BY <2>5, SeqDef, Zenon
<1>8. ASSUME NEW x
      PROVE  Again(fs, these, x, cb) \in Seq(CallbackSet)
  <2>1. PICK n : n = Cardinality({i \in these : fs[i] = x})
    OBVIOUS
  <2>2. n \in Nat
    BY <2>1, FS_Subset, FS_CardinalityType
  <2>3. Again(fs, these, x, cb) \in [1 .. n -> CallbackSet]
    BY <2>1 DEF Again
  <2>4. Again(fs, these, x, cb) \in UNION {[1 .. k -> CallbackSet] : k \in Nat}
    BY <2>2, <2>3
  <2> QED
    BY <2>4, SeqDef, Zenon
<1>9. Typed(v)
  <2>1. ASSUME NEW x \in Futures
        PROVE  w.asked[x] \o Again(fs, these, x, cb) \in Seq(CallbackSet)
    BY <1>2, <1>8, ConcatProperties DEF Typed
  <2>2. ASSUME NEW x \in Futures
        PROVE  /\ w.callbacks[x] \in Seq(CallbackSet)
               /\ w.callbacks[x] \o Again(fs, these, x, cb) \in Seq(CallbackSet)
    BY <1>2, <1>8, ConcatProperties DEF Typed
  <2>3. v.asked \in [Futures -> Seq(CallbackSet)]
    BY <1>6, <2>1
  <2>4. v.callbacks \in [Futures -> Seq(CallbackSet)]
    BY <1>6, <2>2
  <2>5. v.ticks \in Seq(TickSet)
    BY <1>2, <1>6, <1>7, ConcatProperties DEF Typed
  <2> QED
    BY <1>2, <1>6, <2>3, <2>4, <2>5 DEF Typed
<1>10. ASSUME NEW x \in Futures
       PROVE  InOrder(v, r, x)
  <2>1. PICK more \in Seq(CallbackSet) : more = Again(fs, these, x, cb)
    BY <1>8
  <2>2. v.state[x] = w.state[x] /\ v.asked[x] = w.asked[x] \o more
    BY <1>6, <2>1
  <2>3. InOrder(w, r, x)
    BY <1>2
  <2>4. CASE IsSettled(w.state[x])
    <3>1. v.callbacks[x] = w.callbacks[x]
      BY <1>6, <2>4
    <3>2. \A i \in these : fs[i] = x => i \in late
      BY <1>3, <2>4
    <3>3. PICK p : InTurn(x, us, more, 0, p)
      BY <3>2, <1>4, <1>5, <2>1, LateInTurn
    <3> QED
      BY <3>1, <3>3, <2>2, <2>3, <2>4, <1>2, <1>6, <1>7, MoreInTurn
  <2>5. CASE ~IsSettled(w.state[x])
    <3>1. v.callbacks[x] = w.callbacks[x] \o more
      BY <1>6, <2>1, <2>5
    <3>2. w.callbacks[x] = w.asked[x] /\ r[x] = <<>> /\ NoTick(x, w.ticks)
      BY <2>3, <2>5 DEF InOrder
    <3>3. \A i \in late : fs[i] # x
      BY <1>3, <2>5
    <3>4. NoTick(x, us)
      BY <3>3, <1>4, <1>5, NoneLate
    <3>5. NoTick(x, v.ticks)
      <4>1. NoTick(x, w.ticks \o us)
        BY <3>2, <3>4, <1>2, <1>7, NoTickJoined DEF Typed
      <4> QED
        BY <4>1, <1>6
    <3> QED
      BY <3>1, <3>2, <3>5, <2>2, <2>5 DEF InOrder
  <2> QED
    BY <2>4, <2>5
<1> QED
  BY <1>1, <1>2, <1>9, <1>10 DEF Order

\* A future is made, or its maker throws.
MadeTo(w, v, f, s) ==
  /\ IsWorld(v) /\ v.state = [w.state EXCEPT ![f] = s]
  /\ v.callbacks = w.callbacks /\ v.ticks = w.ticks /\ v.asked = w.asked /\ v.settled = w.settled

\* The fields of the world in which f has just been made.
LEMMA MadeFields ==
  ASSUME NEW w, IsWorld(w), NEW f, NEW s
  PROVE  MadeTo(w, [w EXCEPT !.state[f] = s], f, s)
<1>1. PICK v : v = [w EXCEPT !.state[f] = s]
  OBVIOUS
<1>2. MadeTo(w, v, f, s)
  BY <1>1 DEF MadeTo, IsWorld
<1> QED
  BY <1>1, <1>2

\* To make a future disturbs no order.
LEMMA MadeKeepsOrder ==
  ASSUME NEW w, NEW r, Order(w, r), NEW f \in Futures, NEW s, ~IsSettled(s), ~IsSettled(w.state[f])
  PROVE  Order([w EXCEPT !.state[f] = s], r)
<1>1. PICK v : v = [w EXCEPT !.state[f] = s]
  OBVIOUS
<1>2. Typed(w)
  BY DEF Order
<1>3. MadeTo(w, v, f, s)
  BY <1>1, <1>2, MadeFields DEF Typed
<1>4. /\ IsWorld(v) /\ v.state = [w.state EXCEPT ![f] = s]
      /\ v.callbacks = w.callbacks /\ v.ticks = w.ticks /\ v.asked = w.asked
  BY <1>3 DEF MadeTo
<1>5. Typed(v)
  BY <1>2, <1>4 DEF Typed
<1>6. ASSUME NEW g \in Futures
      PROVE  InOrder(v, r, g)
  <2>1. InOrder(w, r, g)
    BY DEF Order
  <2>2. CASE g = f
    <3>1. v.state[g] = s
      BY <1>2, <1>4, <2>2 DEF Typed
    <3> QED
      BY <3>1, <2>1, <2>2, <1>4 DEF InOrder
  <2>3. CASE g # f
    <3>1. v.state[g] = w.state[g]
      BY <1>2, <1>4, <2>3 DEF Typed
    <3> QED
      BY <3>1, <2>1, <1>4 DEF InOrder
  <2> QED
    BY <2>2, <2>3
<1> QED
  BY <1>1, <1>5, <1>6 DEF Order

\* The tick at the head of the queue is taken, and its run noted.
Popped(w) == [w EXCEPT !.ticks = Tail(@)]
Noted(w, r) ==
  [r EXCEPT ![Head(w.ticks).of] = Append(@, [cb |-> Head(w.ticks).cb, fate |-> w.state[Head(w.ticks).of]])]

\* When the first tick is taken and its run is noted the order stays, and the callback that
\* runs is the next one that was asked of its future.
LEMMA PoppedKeepsOrder ==
  ASSUME NEW w, NEW r, Order(w, r), w.ticks # <<>>, NEW f, f = Head(w.ticks).of, NEW cb, cb = Head(w.ticks).cb
  PROVE  /\ Order(Popped(w), Noted(w, r))
         /\ f \in Futures /\ cb \in CallbackSet
         /\ IsSettled(w.state[f])
         /\ Len(r[f]) + 1 \in 1 .. Len(w.asked[f])
         /\ w.asked[f][Len(r[f]) + 1] = cb
<1>1. PICK v : v = Popped(w)
  OBVIOUS
<1>2. Typed(w) /\ HistoryTyped(r) /\ \A g \in Futures : InOrder(w, r, g)
  BY DEF Order
<1>3. PICK ts \in Seq(TickSet) : ts = w.ticks
  BY <1>2 DEF Typed
<1>4. /\ Head(ts) \in TickSet /\ Tail(ts) \in Seq(TickSet)
      /\ Head(ts) = ts[1] /\ 1 \in DOMAIN ts
  BY <1>3, HeadTailProperties, EmptySeq, LenProperties
<1>5. f \in Futures /\ cb \in CallbackSet /\ Head(ts).of = f /\ Head(ts).cb = cb
  BY <1>3, <1>4 DEF TickSet
<1>6. IsSettled(w.state[f])
  <2>1. ~NoTick(f, w.ticks)
    BY <1>3, <1>4, <1>5 DEF NoTick
  <2>2. InOrder(w, r, f)
    BY <1>2, <1>5
  <2> QED
    BY <2>1, <2>2 DEF InOrder
<1>7. /\ IsWorld(v) /\ v.state = w.state /\ v.callbacks = w.callbacks /\ v.asked = w.asked
      /\ v.ticks = Tail(ts)
  BY <1>1, <1>2, <1>3 DEF Typed, IsWorld, Popped
<1>8. Typed(v)
  BY <1>2, <1>4, <1>7 DEF Typed
<1>9. PICK h : h = Noted(w, r)
  OBVIOUS
<1>10. PICK run : run = [cb |-> cb, fate |-> w.state[f]]
  OBVIOUS
<1>11. h = [r EXCEPT ![f] = Append(@, run)]
  BY <1>9, <1>10 DEF Noted
<1>12. PICK S : r \in [Futures -> Seq(S)]
  BY <1>2 DEF HistoryTyped
<1>13. PICK rf \in Seq(S \cup {run}) : rf = r[f]
  BY <1>12, <1>5, SeqMonotonic
<1>14. /\ Append(rf, run) \in Seq(S \cup {run})
       /\ Len(Append(rf, run)) = Len(rf) + 1
       /\ \A i \in 1 .. Len(rf) : Append(rf, run)[i] = rf[i]
       /\ Append(rf, run)[Len(rf) + 1] = run
       /\ DOMAIN Append(rf, run) = 1 .. Len(rf) + 1
       /\ Len(rf) \in Nat
       /\ DOMAIN rf = 1 .. Len(rf)
  BY AppendProperties, LenProperties
<1>15. h \in [Futures -> Seq(S \cup {run})] /\ h[f] = Append(rf, run) /\ \A g \in Futures : g # f => h[g] = r[g]
  <2>1. \A g \in Futures : r[g] \in Seq(S \cup {run})
    BY <1>12, SeqMonotonic
  <2> QED
    BY <2>1, <1>5, <1>11, <1>12, <1>13, <1>14
<1>16. HistoryTyped(h)
  BY <1>15 DEF HistoryTyped
<1>17. PICK cbs \in Seq(CallbackSet) : cbs = w.asked[f]
  BY <1>2, <1>5 DEF Typed
<1>18. InOrder(w, r, f)
  BY <1>2, <1>5
<1>19. PICK q : InTurn(f, ts, cbs, Len(rf), q)
  BY <1>18, <1>6, <1>3, <1>13, <1>17 DEF InOrder
<1>20. /\ Len(rf) + 1 \in 1 .. Len(cbs)
       /\ Head(ts) = Tick(f, cbs[Len(rf) + 1])
       /\ \E rest : InTurn(f, Tail(ts), cbs, Len(rf) + 1, rest)
  <2>1. PICK done : done = Len(rf)
    OBVIOUS
  <2>2. InTurn(f, ts, cbs, done, q)
    BY <2>1, <1>19
  <2>3. /\ done + 1 \in 1 .. Len(cbs)
        /\ Head(ts) = Tick(f, cbs[done + 1])
        /\ \E rest : InTurn(f, Tail(ts), cbs, done + 1, rest)
    BY <2>2, <1>3, <1>5, HeadRuns
  <2> QED
    BY <2>1, <2>3
<1>21. cbs[Len(rf) + 1] = cb
  BY <1>20, <1>5 DEF Tick
<1>22. InOrder(v, h, f)
  <2>1. PICK rest : InTurn(f, Tail(ts), cbs, Len(rf) + 1, rest)
    BY <1>20
  <2>2. InTurn(f, v.ticks, v.asked[f], Len(h[f]), rest)
    BY <2>1, <1>7, <1>14, <1>15, <1>17
  <2>3. ASSUME NEW i \in DOMAIN h[f]
        PROVE  h[f][i] = [cb |-> v.asked[f][i], fate |-> v.state[f]]
    <3>1. i \in 1 .. Len(rf) \/ i = Len(rf) + 1
      BY <1>14, <1>15
    <3>2. CASE i \in 1 .. Len(rf)
      <4>1. rf[i] = [cb |-> w.asked[f][i], fate |-> w.state[f]]
        BY <3>2, <1>18, <1>6, <1>13, <1>14 DEF InOrder
      <4> QED
        BY <3>2, <4>1, <1>7, <1>14, <1>15
    <3>3. CASE i = Len(rf) + 1
      BY <3>3, <1>7, <1>10, <1>14, <1>15, <1>17, <1>21
    <3> QED
      BY <3>1, <3>2, <3>3
  <2>4. v.callbacks[f] = <<>> /\ IsSettled(v.state[f])
    BY <1>18, <1>6, <1>7 DEF InOrder
  <2> QED
    BY <2>2, <2>3, <2>4 DEF InOrder
<1>23. ASSUME NEW g \in Futures, g # f
       PROVE  InOrder(v, h, g)
  <2>1. InOrder(w, r, g) /\ h[g] = r[g]
    BY <1>2, <1>15, <1>23
  <2>2. CASE IsSettled(w.state[g])
    <3>1. PICK p : InTurn(g, ts, w.asked[g], Len(r[g]), p)
      BY <2>1, <2>2, <1>3 DEF InOrder
    <3>2. PICK done : done = Len(r[g])
      OBVIOUS
    <3>3. PICK gs \in Seq(CallbackSet) : gs = w.asked[g]
      BY <1>2 DEF Typed
    <3>4. InTurn(g, ts, gs, done, p)
      BY <3>1, <3>2, <3>3
    <3>5. \E rest : InTurn(g, Tail(ts), gs, done, rest)
      BY <3>4, <1>3, <1>5, <1>23, HeadOfAnother
    <3> QED
      BY <3>2, <3>3, <3>5, <2>1, <2>2, <1>7 DEF InOrder
  <2>3. CASE ~IsSettled(w.state[g])
    <3>1. NoTick(g, ts)
      BY <2>1, <2>3, <1>3 DEF InOrder
    <3>2. NoTick(g, Tail(ts))
      <4>1. /\ Len(ts) \in Nat /\ DOMAIN ts = 1 .. Len(ts)
            /\ DOMAIN Tail(ts) = 1 .. Len(ts) - 1
            /\ \A i \in 1 .. Len(ts) - 1 : Tail(ts)[i] = ts[i + 1]
        BY <1>3, HeadTailProperties, LenProperties
      <4>2. \A i \in 1 .. Len(ts) - 1 : i + 1 \in 1 .. Len(ts)
        BY <4>1
      <4> QED
        BY <3>1, <4>1, <4>2 DEF NoTick
    <3> QED
      BY <3>2, <2>1, <2>3, <1>7 DEF InOrder
  <2> QED
    BY <2>2, <2>3
<1>24. Order(v, h)
  BY <1>8, <1>16, <1>22, <1>23 DEF Order
<1> QED
  BY <1>1, <1>5, <1>6, <1>9, <1>13, <1>17, <1>20, <1>21, <1>24

-----------------------------------------------------------------------------
(* The steps.                                                                *)

\* What is settled in w is settled so in v.
Later(w, v) == \A f \in Futures : IsSettled(w.state[f]) => v.state[f] = w.state[f]

\* Both, as every operation keeps them.
Goes(w, v, r) == Order(v, r) /\ Later(w, v)

\* What is settled stays so over two operations.
LEMMA LaterTransitive ==
  ASSUME NEW w, NEW v, NEW u, Later(w, v), Later(v, u)
  PROVE  Later(w, u)
BY Zenon DEF Later

\* To settle a future keeps the order and every fate there is.
LEMMA SettledGoes ==
  ASSUME NEW w, NEW r, Order(w, r), NEW f \in Futures, NEW fate, IsSettled(fate)
  PROVE  Goes(w, Settled(w, f, fate), r)
<1>1. Order(Settled(w, f, fate), r)
  BY SettledKeepsOrder
<1>2. CASE IsSettled(w.state[f])
  BY <1>1, <1>2 DEF Settled, Later, Goes
<1>3. CASE ~IsSettled(w.state[f])
  <2>1. PICK v : v = Settled(w, f, fate)
    OBVIOUS
  <2>2. Typed(w)
    BY DEF Order
  <2>3. v.state = [w.state EXCEPT ![f] = fate]
    <3>1. SettledTo(w, v, f, fate)
      BY <1>3, <2>1, <2>2, SettledFields DEF Typed
    <3> QED
      BY <3>1 DEF SettledTo
  <2>4. Later(w, v)
    BY <1>3, <2>2, <2>3 DEF Typed, Later
  <2> QED
    BY <1>1, <2>1, <2>4 DEF Goes
<1> QED
  BY <1>2, <1>3

\* Which states are settled.
LEMMA FatesSettle ==
  /\ \A x : IsSettled(Fulfilled(x)) /\ IsSettled(Rejected(x))
  /\ ~IsSettled(Pending) /\ ~IsSettled(Unmade) /\ ~IsSettled(Thrown)
BY DEF IsSettled, Fulfilled, Rejected, Pending, Unmade, Thrown

\* So does getFutureCallback.
LEMMA FutureCallbackGoes ==
  ASSUME NEW w, NEW r, Order(w, r), NEW f \in Futures, NEW err, NEW val
  PROVE  Goes(w, FutureCallback(w, f, err, val), r)
<1>1. PICK fate : fate = IF err \notin {Falsy, Undefined} THEN Rejected(err) ELSE Fulfilled(val)
  OBVIOUS
<1>2. IsSettled(fate)
  BY <1>1, FatesSettle
<1>3. Goes(w, Settled(w, f, fate), r)
  BY <1>2, SettledGoes
<1> QED
  BY <1>1, <1>3 DEF FutureCallback

\* So does addCallback.
LEMMA AddedGoes ==
  ASSUME NEW w, NEW r, Order(w, r), NEW f \in Futures, NEW cb \in CallbackSet
  PROVE  Goes(w, Added(w, f, cb), r)
<1>1. Order(Added(w, f, cb), r)
  BY AddedKeepsOrder
<1>2. AddedTo(w, Added(w, f, cb), f, cb)
  BY AddedFields DEF Order, Typed
<1>3. Later(w, Added(w, f, cb))
  BY <1>2 DEF AddedTo, Later
<1> QED
  BY <1>1, <1>3 DEF Goes

\* The callbacks that the operations ask for.
LEMMA CallbacksTyped ==
  /\ \A c \in Children : Callback("then", c) \in CallbackSet /\ Callback("adopt", c) \in CallbackSet
  /\ \A a \in Alls : Callback("all", a) \in CallbackSet
  /\ \A x \in Races : Callback("race", x) \in CallbackSet
  /\ \A n \in Nodes : Callback("node", n) \in CallbackSet
  /\ \A l \in Loops : Callback("loop", l) \in CallbackSet
BY DEF Callback, CallbackSet

\* So does resolvePromise.
LEMMA ResolvedGoes ==
  ASSUME NEW w, NEW r, Order(w, r), NEW c \in Children, NEW x
  PROVE  Goes(w, Resolved(w, c, x), r)
<1>1. c \in Futures
  BY DEF Futures
<1>2. CASE x \notin Futures
  <2>1. Goes(w, Settled(w, c, Fulfilled(x)), r)
    BY <1>1, FatesSettle, SettledGoes
  <2> QED
    BY <1>2, <2>1 DEF Resolved
<1>3. CASE x \in Futures
  <2>1. PICK v : v = IF x = c THEN Settled(w, c, Rejected(SelfError)) ELSE w
    OBVIOUS
  <2>2. Goes(w, v, r)
    <3>1. CASE x = c
      BY <3>1, <2>1, <1>1, FatesSettle, SettledGoes
    <3>2. CASE x # c
      BY <3>2, <2>1 DEF Goes, Later
    <3> QED
      BY <3>1, <3>2
  <2>3. PICK u : u = Added(v, x, Callback("adopt", c))
    OBVIOUS
  <2>4. Goes(v, u, r)
    BY <2>2, <2>3, <1>3, CallbacksTyped, AddedGoes DEF Goes
  <2>5. Goes(w, u, r)
    BY <2>2, <2>4, LaterTransitive DEF Goes
  <2> QED
    BY <2>1, <2>3, <2>5, <1>3 DEF Resolved
<1> QED
  BY <1>2, <1>3

\* So does making a future.
LEMMA MadeGoes ==
  ASSUME NEW w, NEW r, Order(w, r), NEW f \in Futures, w.state[f] = Unmade, NEW s, s \in {Pending, Thrown}
  PROVE  Goes(w, [w EXCEPT !.state[f] = s], r)
<1>1. ~IsSettled(s) /\ ~IsSettled(w.state[f])
  BY FatesSettle
<1>2. Order([w EXCEPT !.state[f] = s], r)
  BY <1>1, MadeKeepsOrder
<1>3. Typed(w)
  BY DEF Order
<1>4. MadeTo(w, [w EXCEPT !.state[f] = s], f, s)
  BY <1>3, MadeFields DEF Typed
<1>5. Later(w, [w EXCEPT !.state[f] = s])
  BY <1>1, <1>3, <1>4 DEF MadeTo, Later, Typed
<1> QED
  BY <1>2, <1>5 DEF Goes

\* The positions of the futures of a list.
LEMMA PositionsOfFutures ==
  ASSUME NEW fs \in Lists
  PROVE  /\ DOMAIN fs = 1 .. Len(fs) /\ Len(fs) \in Nat
         /\ \A i \in DOMAIN fs : i \in Nat /\ fs[i] \in Natives \cup Children \cup {Plain}
         /\ \A i \in DOMAIN fs : fs[i] # Plain => fs[i] \in Futures
         /\ \A these \in SUBSET DOMAIN fs : these \in SUBSET Nat /\ IsFiniteSet(these)
<1>1. fs \in Seq(Natives \cup Children \cup {Plain})
  BY ListsAssumption
<1>2. /\ DOMAIN fs = 1 .. Len(fs) /\ Len(fs) \in Nat
      /\ \A i \in DOMAIN fs : fs[i] \in Natives \cup Children \cup {Plain}
  BY <1>1, LenProperties, ElementOfSeq
<1>3. IsFiniteSet(DOMAIN fs)
  BY <1>2, FS_Interval
<1>4. \A these \in SUBSET DOMAIN fs : these \in SUBSET Nat /\ IsFiniteSet(these)
  BY <1>2, <1>3, FS_Subset
<1> QED
  BY <1>2, <1>4 DEF Futures

\* So does asking for the elements of a list.
LEMMA WaitingGoes ==
  ASSUME NEW w, NEW r, Order(w, r), NEW fs \in Lists, NEW these \in SUBSET DOMAIN fs,
         \A i \in these : fs[i] # Plain, NEW cb \in CallbackSet
  PROVE  Goes(w, Waiting(w, fs, these, cb), r)
<1>1. these \in SUBSET Nat /\ IsFiniteSet(these) /\ \A i \in these : fs[i] \in Futures
  BY PositionsOfFutures
<1>2. Order(Waiting(w, fs, these, cb), r)
  BY <1>1, WaitingKeepsOrder
<1>3. WaitingTo(w, Waiting(w, fs, these, cb), fs, these, cb)
  BY WaitingFields DEF Order, Typed
<1>4. Later(w, Waiting(w, fs, these, cb))
  BY <1>3 DEF WaitingTo, Later
<1> QED
  BY <1>2, <1>4 DEF Goes

OrderInv == Order(World, ran)

\* The world after a step that becomes v.
LEMMA WorldNext ==
  ASSUME NEW v, IsWorld(v), Become(v)
  PROVE  World' = v
BY DEF World, Become, IsWorld

\* The fields of the world are the variables.
LEMMA WorldFields ==
  /\ World.state = state /\ World.callbacks = callbacks /\ World.ticks = ticks /\ World.asked = asked
  /\ IsWorld(World)
BY DEF World, IsWorld

\* At the beginning nothing is out of order.
LEMMA InitOrder == Init => OrderInv
<1> SUFFICES ASSUME Init PROVE OrderInv
  OBVIOUS
<1>1. PICK w : w = World
  OBVIOUS
<1>2. /\ w.state = [f \in Futures |-> IF f \in Natives THEN Pending ELSE Unmade]
      /\ w.callbacks = [f \in Futures |-> <<>>]
      /\ w.ticks = <<>>
      /\ w.asked = [f \in Futures |-> <<>>]
      /\ ran = [f \in Futures |-> <<>>]
      /\ IsWorld(w)
  BY <1>1, WorldFields DEF Init
<1>3. Typed(w)
  BY <1>2, EmptySeq DEF Typed
<1>4. HistoryTyped(ran)
  <2>1. ran \in [Futures -> Seq({})]
    BY <1>2, EmptySeq
  <2> QED
    BY <2>1 DEF HistoryTyped
<1>5. ASSUME NEW f \in Futures
      PROVE  InOrder(w, ran, f)
  <2>1. ~IsSettled(w.state[f])
    BY <1>2, FatesSettle
  <2>2. NoTick(f, w.ticks)
    BY <1>2 DEF NoTick
  <2> QED
    BY <1>2, <2>1, <2>2 DEF InOrder
<1> QED
  BY <1>1, <1>3, <1>4, <1>5 DEF OrderInv, Order

\* A step goes to a world that keeps the order, and settles nothing again.
Advances == \E v : Become(v) /\ Goes(World, v, ran')

\* What native code does with a future, and what rejects one at once.
Native(f) == NativeCallback(f) \/ Reject(f)

\* Either settles it, if nobody else has.
LEMMA NativeSettles ==
  ASSUME NEW f, Native(f)
  PROVE  \E fate : /\ IsSettled(fate) /\ Become(Settled(World, f, fate))
                  /\ UNCHANGED <<source, list, count, loop, ran>>
<1>1. CASE NativeCallback(f)
  <2>1. PICK err, val : Become(FutureCallback(World, f, err, val))
    BY <1>1 DEF NativeCallback
  <2>2. PICK fate : fate = IF err \notin {Falsy, Undefined} THEN Rejected(err) ELSE Fulfilled(val)
    OBVIOUS
  <2>3. IsSettled(fate) /\ Become(Settled(World, f, fate))
    BY <2>1, <2>2, FatesSettle DEF FutureCallback
  <2>4. UNCHANGED <<source, list, count, loop, ran>>
    BY <1>1 DEF NativeCallback
  <2> QED
    BY <2>3, <2>4
<1>2. CASE Reject(f)
  <2>1. PICK e : Become(Settled(World, f, Rejected(e)))
    BY <1>2 DEF Reject
  <2>2. UNCHANGED <<source, list, count, loop, ran>>
    BY <1>2 DEF Reject
  <2> QED
    BY <2>1, <2>2, FatesSettle
<1> QED
  BY <1>1, <1>2 DEF Native

\* Native and user code keep the order.
LEMMA UserAdvances ==
  ASSUME OrderInv, UserCode \/ \E f \in Natives : Native(f)
  PROVE  Advances
<1>1. Order(World, ran) /\ Goes(World, World, ran)
  BY DEF OrderInv, Goes, Later
<1>2. ASSUME NEW f \in Natives, Native(f)
      PROVE  Advances
  <2>1. PICK fate : IsSettled(fate) /\ Become(Settled(World, f, fate)) /\ ran' = ran
    BY <1>2, NativeSettles
  <2>2. f \in Futures /\ ran' = ran
    BY <2>1 DEF Futures
  <2>3. Goes(World, Settled(World, f, fate), ran)
    BY <1>1, <2>1, <2>2, SettledGoes
  <2> QED
    BY <2>1, <2>2, <2>3 DEF Advances
<1>3. ASSUME NEW f \in Futures, NEW c \in Children, Then(f, c)
      PROVE  Advances
  <2>1. PICK w : w = [World EXCEPT !.state[c] = Pending]
    OBVIOUS
  <2>2. Become(Added(w, f, Callback("then", c))) /\ ran' = ran /\ c \in Futures /\ World.state[c] = Unmade
    BY <1>3, <2>1, WorldFields DEF Then, New, Futures
  <2>3. Goes(World, w, ran)
    BY <1>1, <2>1, <2>2, MadeGoes
  <2>4. Goes(w, Added(w, f, Callback("then", c)), ran)
    BY <2>3, CallbacksTyped, AddedGoes DEF Goes
  <2>5. Goes(World, Added(w, f, Callback("then", c)), ran)
    BY <2>3, <2>4, LaterTransitive DEF Goes
  <2> QED
    BY <2>2, <2>5 DEF Advances
<1>4. ASSUME NEW f \in Futures, NEW n \in Nodes, NodeStyle(f, n)
      PROVE  Advances
  <2>1. Become(Added(World, f, Callback("node", n))) /\ ran' = ran
    BY <1>4 DEF NodeStyle
  <2>2. Goes(World, Added(World, f, Callback("node", n)), ran)
    BY <1>1, CallbacksTyped, AddedGoes
  <2> QED
    BY <2>1, <2>2 DEF Advances
<1>5. ASSUME NEW fs \in Lists, NEW a \in Alls, All(a, fs)
      PROVE  Advances
  <2> DEFINE these == {i \in DOMAIN fs : fs[i] # Plain}
  <2>1. PICK w : w = [World EXCEPT !.state[a] = Pending]
    OBVIOUS
  <2>2. ran' = ran /\ a \in Futures /\ World.state[a] = Unmade
    BY <1>5, WorldFields DEF All, New, Futures
  <2>3. \/ Become(FutureCallback(w, a, Undefined, <<>>))
        \/ Become([World EXCEPT !.state[a] = Thrown])
        \/ Become(Waiting(w, fs, these, Callback("all", a)))
    BY <1>5, <2>1 DEF All
  <2>4. Goes(World, w, ran)
    BY <1>1, <2>1, <2>2, MadeGoes
  <2>5. Goes(World, FutureCallback(w, a, Undefined, <<>>), ran)
    <3>1. Goes(w, FutureCallback(w, a, Undefined, <<>>), ran)
      BY <2>2, <2>4, FutureCallbackGoes DEF Goes
    <3> QED
      BY <2>4, <3>1, LaterTransitive DEF Goes
  <2>6. Goes(World, [World EXCEPT !.state[a] = Thrown], ran)
    BY <1>1, <2>2, MadeGoes
  <2>7. Goes(World, Waiting(w, fs, these, Callback("all", a)), ran)
    <3>1. Goes(w, Waiting(w, fs, these, Callback("all", a)), ran)
      BY <2>4, CallbacksTyped, WaitingGoes DEF Goes
    <3> QED
      BY <2>4, <3>1, LaterTransitive DEF Goes
  <2> QED
    BY <2>2, <2>3, <2>5, <2>6, <2>7 DEF Advances
<1>6. ASSUME NEW fs \in Lists, NEW x \in Races, Race(x, fs)
      PROVE  Advances
  <2> DEFINE these == {i \in DOMAIN fs : \A j \in 1 .. i : fs[j] # Plain}
  <2>1. PICK w : w = [World EXCEPT !.state[x] = Pending]
    OBVIOUS
  <2>2. PICK v : v = Waiting(w, fs, these, Callback("race", x))
    OBVIOUS
  <2>3. ran' = ran /\ x \in Futures /\ World.state[x] = Unmade
    BY <1>6, WorldFields DEF Race, New, Futures
  <2>4. Become(v) \/ Become(FutureCallback(v, x, Undefined, Plain))
    BY <1>6, <2>1, <2>2 DEF Race, RaceBegun
  <2>5. Goes(World, w, ran)
    BY <1>1, <2>1, <2>3, MadeGoes
  <2>6. Goes(World, v, ran)
    <3>1. \A i \in these : fs[i] # Plain
      BY PositionsOfFutures
    <3>2. these \in SUBSET DOMAIN fs
      OBVIOUS
    <3> HIDE DEF these
    <3>3. Goes(w, v, ran)
      BY <2>2, <2>5, <3>1, <3>2, CallbacksTyped, WaitingGoes DEF Goes
    <3> QED
      BY <2>5, <3>3, LaterTransitive DEF Goes
  <2>7. Goes(World, FutureCallback(v, x, Undefined, Plain), ran)
    <3>1. Goes(v, FutureCallback(v, x, Undefined, Plain), ran)
      BY <2>3, <2>6, FutureCallbackGoes DEF Goes
    <3> QED
      BY <2>6, <3>1, LaterTransitive DEF Goes
  <2> QED
    BY <2>3, <2>4, <2>6, <2>7 DEF Advances
<1>7. ASSUME NEW l \in Loops, StartLoop(l)
      PROVE  Advances
  <2>1. Become([World EXCEPT !.state[l] = Pending]) /\ ran' = ran /\ l \in Futures /\ World.state[l] = Unmade
    BY <1>7, WorldFields DEF StartLoop, New, Futures
  <2>2. Goes(World, [World EXCEPT !.state[l] = Pending], ran)
    BY <1>1, <2>1, MadeGoes
  <2> QED
    BY <2>1, <2>2 DEF Advances
<1> QED
  BY <1>2, <1>3, <1>4, <1>5, <1>6, <1>7 DEF UserCode

\* The body of a loop keeps the order.
LEMMA BodyAdvances ==
  ASSUME OrderInv, RunBody
  PROVE  Advances
<1>1. Order(World, ran) /\ Goes(World, World, ran)
  BY DEF OrderInv, Goes, Later
<1>2. PICK l \in Loops : BodyWaits(l) \/ BodyGoesOn(l) \/ BodyEnds(l) \/ BodyThrows(l)
  BY DEF RunBody
<1>3. l \in Futures
  BY DEF Futures
<1>4. CASE BodyWaits(l)
  <2>1. PICK f \in Natives \cup Children : Become(Added(World, f, Callback("loop", l)))
    BY <1>4 DEF BodyWaits
  <2>2. f \in Futures /\ ran' = ran
    BY <1>4 DEF BodyWaits, Running, Futures
  <2>3. Goes(World, Added(World, f, Callback("loop", l)), ran)
    BY <1>1, <2>2, CallbacksTyped, AddedGoes
  <2> QED
    BY <2>1, <2>2, <2>3 DEF Advances
<1>5. CASE BodyGoesOn(l) \/ BodyThrows(l)
  <2>1. Become(World) /\ ran' = ran
    BY <1>5, WorldFields DEF BodyGoesOn, BodyThrows, Running, coreVars, Become, World
  <2> QED
    BY <1>1, <2>1 DEF Advances
<1>6. CASE BodyEnds(l)
  <2>1. PICK how : Become(LoopEnds(World, l, how[1], how[2])) /\ ran' = ran
    BY <1>6 DEF BodyEnds, Running
  <2>2. Goes(World, LoopEnds(World, l, how[1], how[2]), ran)
    BY <1>1, <1>3, FutureCallbackGoes DEF LoopEnds
  <2> QED
    BY <2>1, <2>2 DEF Advances
<1> QED
  BY <1>2, <1>4, <1>5, <1>6

\* A tick keeps the order.
LEMMA TickAdvances ==
  ASSUME OrderInv, RunTick
  PROVE  Advances
<1>1. Order(World, ran) /\ World.ticks = ticks /\ World.state = state
  BY WorldFields DEF OrderInv
<1>2. PICK f : f = Head(ticks).of
  OBVIOUS
<1>3. PICK cb : cb = Head(ticks).cb
  OBVIOUS
<1>4. PICK w : w = Popped(World)
  OBVIOUS
<1>5. /\ ran' = Noted(World, ran)
      /\ CASE cb.kind = "then" -> RunThen(w, f, cb.to)
           [] cb.kind = "adopt" -> RunAdopt(w, f, cb.to)
           [] cb.kind = "all" -> RunAll(w, f, cb.to)
           [] cb.kind = "race" -> RunRace(w, f, cb.to)
           [] cb.kind = "node" -> RunNode(w)
           [] cb.kind = "loop" -> RunLoop(w, f, cb.to)
  BY <1>1, <1>2, <1>3, <1>4 DEF RunTick, Noted, Popped, Fate
<1>6. /\ Order(w, ran')
      /\ f \in Futures /\ cb \in CallbackSet
      /\ IsSettled(state[f])
  <2>1. World.ticks # <<>>
    BY <1>1 DEF RunTick
  <2> QED
    BY <2>1, <1>1, <1>2, <1>3, <1>4, <1>5, PoppedKeepsOrder
<1>7. Goes(World, w, ran')
  <2>1. w.state = World.state
    BY <1>4, WorldFields DEF Popped, IsWorld
  <2> QED
    BY <2>1, <1>6 DEF Goes, Later
<1>8. ASSUME NEW v, Become(v), Goes(w, v, ran')
      PROVE  Advances
  <2>1. Goes(World, v, ran')
    BY <1>7, <1>8, LaterTransitive DEF Goes
  <2> QED
    BY <1>8, <2>1 DEF Advances
<1>9. Goes(w, w, ran')
  BY <1>6 DEF Goes, Later
<1>10. CASE cb.kind \in {"then", "adopt"}
  <2>1. cb.to \in Children /\ cb.to \in Futures
    BY <1>6, <1>10 DEF CallbackSet, Futures
  <2>2. ASSUME NEW x
        PROVE  Goes(w, Resolved(w, cb.to, x), ran')
    BY <2>1, <1>6, ResolvedGoes
  <2>3. /\ \A e : Goes(w, Settled(w, cb.to, Rejected(e)), ran')
        /\ Goes(w, Settled(w, cb.to, Fate(f)), ran')
    BY <2>1, <1>6, FatesSettle, SettledGoes DEF Fate
  <2>4. CASE cb.kind = "then"
    <3>1. RunThen(w, f, cb.to)
      BY <1>5, <2>4
    <3>2. \/ \E x : Become(Resolved(w, cb.to, x))
          \/ \E e : Become(Settled(w, cb.to, Rejected(e)))
          \/ Become(Settled(w, cb.to, Fate(f)))
      BY <3>1 DEF RunThen
    <3> QED
      BY <3>2, <2>2, <2>3, <1>8
  <2>5. CASE cb.kind = "adopt"
    <3>1. RunAdopt(w, f, cb.to)
      BY <1>5, <2>5
    <3>2. \/ \E x : Become(Resolved(w, cb.to, x))
          \/ Become(Settled(w, cb.to, Fate(f)))
      BY <3>1 DEF RunAdopt
    <3> QED
      BY <3>2, <2>2, <2>3, <1>8
  <2> QED
    BY <1>10, <2>4, <2>5
<1>11. CASE cb.kind = "all"
  <2>1. cb.to \in Futures /\ RunAll(w, f, cb.to)
    BY <1>5, <1>6, <1>11 DEF CallbackSet, Futures
  <2>2. Become(w) \/ \E err, val : Become(FutureCallback(w, cb.to, err, val))
    BY <2>1 DEF RunAll
  <2>3. ASSUME NEW err, NEW val
        PROVE  Goes(w, FutureCallback(w, cb.to, err, val), ran')
    BY <2>1, <1>6, FutureCallbackGoes
  <2> QED
    BY <2>2, <2>3, <1>8, <1>9
<1>12. CASE cb.kind = "race"
  <2>1. cb.to \in Futures /\ RunRace(w, f, cb.to)
    BY <1>5, <1>6, <1>12 DEF CallbackSet, Futures
  <2>2. \E err, val : Become(FutureCallback(w, cb.to, err, val))
    BY <2>1 DEF RunRace
  <2>3. ASSUME NEW err, NEW val
        PROVE  Goes(w, FutureCallback(w, cb.to, err, val), ran')
    BY <2>1, <1>6, FutureCallbackGoes
  <2> QED
    BY <2>2, <2>3, <1>8
<1>13. CASE cb.kind = "node"
  <2>1. Become(w)
    BY <1>5, <1>13 DEF RunNode
  <2> QED
    BY <2>1, <1>8, <1>9
<1>14. CASE cb.kind = "loop"
  <2>1. cb.to \in Futures /\ RunLoop(w, f, cb.to)
    BY <1>5, <1>6, <1>14 DEF CallbackSet, Futures
  <2>2. Become(w) \/ \E err, val : Become(FutureCallback(w, cb.to, err, val))
    BY <2>1 DEF RunLoop, LoopEnds
  <2>3. ASSUME NEW err, NEW val
        PROVE  Goes(w, FutureCallback(w, cb.to, err, val), ran')
    BY <2>1, <1>6, FutureCallbackGoes
  <2> QED
    BY <2>2, <2>3, <1>8, <1>9
<1> QED
  BY <1>6, <1>10, <1>11, <1>12, <1>13, <1>14 DEF CallbackSet

\* Every step keeps the order and every fate there is.
LEMMA StepKeepsOrder ==
  ASSUME OrderInv, [Next]_vars
  PROVE  /\ OrderInv'
         /\ \A f \in Futures : IsSettled(state[f]) => state'[f] = state[f]
<1>1. CASE Next
  <2>1. Advances
    BY <1>1, UserAdvances, BodyAdvances, TickAdvances DEF Next, Native
  <2>2. PICK v : Become(v) /\ Goes(World, v, ran')
    BY <2>1 DEF Advances
  <2>3. World' = v
    BY <2>2, WorldNext DEF Goes, Order, Typed
  <2>4. OrderInv'
    BY <2>2, <2>3 DEF Goes, OrderInv
  <2>5. \A f \in Futures : IsSettled(state[f]) => state'[f] = state[f]
    BY <2>2, WorldFields DEF Goes, Later, Become
  <2> QED
    BY <2>4, <2>5
<1>2. CASE UNCHANGED vars
  BY <1>2 DEF vars, coreVars, OrderInv, World
<1> QED
  BY <1>1, <1>2

\* The order is an invariant.
LEMMA OrderInvariant == Spec => []OrderInv
<1>1. OrderInv /\ [Next]_vars => OrderInv'
  BY StepKeepsOrder
<1> QED
  BY <1>1, InitOrder, PTL DEF Spec

\* CallbacksInOrder for any futures, lists and settings: the callbacks of a future run once
\* each, in the order in which they were added, and are given its one fate.
THEOREM RunInOrder == Spec => []CallbacksInOrder
<1>1. OrderInv => CallbacksInOrder
  <2> SUFFICES ASSUME OrderInv, NEW f \in Futures, NEW i \in DOMAIN ran[f]
               PROVE  i <= Len(asked[f]) /\ ran[f][i] = [cb |-> asked[f][i], fate |-> state[f]]
    BY DEF CallbacksInOrder
  <2>1. Typed(World) /\ HistoryTyped(ran) /\ InOrder(World, ran, f)
    BY DEF OrderInv, Order
  <2>2. PICK S : ran \in [Futures -> Seq(S)]
    BY <2>1 DEF HistoryTyped
  <2>3. ran[f] \in Seq(S) /\ asked[f] \in Seq(CallbackSet)
    BY <2>1, <2>2, WorldFields DEF Typed
  <2>4. i \in 1 .. Len(ran[f]) /\ Len(ran[f]) \in Nat /\ Len(asked[f]) \in Nat
    BY <2>3, LenProperties
  <2>5. IsSettled(state[f])
    BY <2>1, WorldFields DEF InOrder
  <2>6. PICK q : InTurn(f, ticks, asked[f], Len(ran[f]), q)
    BY <2>1, <2>5, WorldFields DEF InOrder
  <2>7. Len(ran[f]) <= Len(asked[f])
    BY <2>4, <2>6 DEF InTurn
  <2>8. ran[f][i] = [cb |-> asked[f][i], fate |-> state[f]]
    BY <2>1, <2>5, WorldFields DEF InOrder
  <2> QED
    BY <2>4, <2>7, <2>8
<1> QED
  BY <1>1, OrderInvariant, PTL

\* SettledForever for any futures, lists and settings: what fulfill, reject and
\* getFutureCallback have settled no later call changes.
THEOREM SettledOnce == Spec => SettledForever
<1>1. OrderInv /\ [Next]_vars => [\A f \in Futures : IsSettled(state[f]) => state'[f] = state[f]]_vars
  BY StepKeepsOrder
<1> QED
  BY <1>1, OrderInvariant, PTL DEF Spec, SettledForever

-----------------------------------------------------------------------------
(* Where a callback has been asked for, and where it has still to run.       *)

Places(as, cb) == {p \in Futures \X Nat : p[2] \in 1 .. Len(as[p[1]]) /\ as[p[1]][p[2]] = cb}
Open(as, r, cb) == {p \in Places(as, cb) : Len(r[p[1]]) < p[2]}

\* A callback that is added has one place more.
LEMMA AppendPlaces ==
  ASSUME NEW as \in [Futures -> Seq(CallbackSet)], NEW y \in Futures, NEW cb \in CallbackSet,
         NEW bs, bs[y] = Append(as[y], cb), \A x \in Futures : x # y => bs[x] = as[x]
  PROVE  /\ \A other : other # cb => Places(bs, other) = Places(as, other)
         /\ Places(bs, cb) = Places(as, cb) \cup {<<y, Len(as[y]) + 1>>}
         /\ Len(as[y]) \in Nat
<1>1. PICK old \in Seq(CallbackSet) : old = as[y]
  OBVIOUS
<1>2. PICK new : new = Append(old, cb)
  OBVIOUS
<1>a. /\ Len(old) \in Nat /\ Len(new) = Len(old) + 1
      /\ \A i \in 1 .. Len(old) : new[i] = old[i]
      /\ new[Len(old) + 1] = cb
  BY <1>2, AppendProperties, LenProperties
<1>b. bs[y] = new /\ \A x \in Futures : x # y => bs[x] = as[x]
  BY <1>1, <1>2
<1>3. ASSUME NEW other, NEW x \in Futures, NEW i \in Nat
      PROVE  (i \in 1 .. Len(bs[x]) /\ bs[x][i] = other) <=>
               \/ i \in 1 .. Len(as[x]) /\ as[x][i] = other
               \/ x = y /\ i = Len(as[y]) + 1 /\ other = cb
  <2>1. CASE x # y
    BY <2>1, <1>b
  <2>2. CASE x = y
    <3>1. i \in 1 .. Len(new) <=> (i \in 1 .. Len(old) \/ i = Len(old) + 1)
      BY <1>a
    <3>2. i \in 1 .. Len(old) => new[i] = old[i]
      BY <1>a
    <3>3. i \in 1 .. Len(old) => i # Len(old) + 1
      BY <1>a
    <3>4. (i \in 1 .. Len(new) /\ new[i] = other) <=>
            \/ i \in 1 .. Len(old) /\ old[i] = other
            \/ i = Len(old) + 1 /\ other = cb
      BY <3>1, <3>2, <3>3, <1>a, Zenon
    <3> QED
      BY <2>2, <3>4, <1>1, <1>b
  <2> QED
    BY <2>1, <2>2
<1>4. ASSUME NEW other, NEW p \in Futures \X Nat
      PROVE  p \in Places(bs, other) <=> p \in Places(as, other) \/ (other = cb /\ p = <<y, Len(as[y]) + 1>>)
  <2>1. PICK x \in Futures, i \in Nat : p = <<x, i>>
    OBVIOUS
  <2>2. p[1] = x /\ p[2] = i
    BY <2>1
  <2>3. p = <<y, Len(as[y]) + 1>> <=> (x = y /\ i = Len(as[y]) + 1)
    BY <2>1
  <2>4. p \in Places(bs, other) <=> (i \in 1 .. Len(bs[x]) /\ bs[x][i] = other)
    BY <2>2 DEF Places
  <2>5. p \in Places(as, other) <=> (i \in 1 .. Len(as[x]) /\ as[x][i] = other)
    BY <2>2 DEF Places
  <2>6. (i \in 1 .. Len(bs[x]) /\ bs[x][i] = other) <=>
          \/ i \in 1 .. Len(as[x]) /\ as[x][i] = other
          \/ x = y /\ i = Len(as[y]) + 1 /\ other = cb
    BY <1>3, Zenon
  <2> QED
    BY <2>3, <2>4, <2>5, <2>6, Zenon
<1>5. \A other : Places(bs, other) \subseteq Futures \X Nat /\ Places(as, other) \subseteq Futures \X Nat
  BY DEF Places
<1>6. <<y, Len(as[y]) + 1>> \in Futures \X Nat /\ Len(as[y]) \in Nat
  <2>1. PICK n \in Nat : n = Len(old)
    BY <1>a
  <2>2. <<y, n + 1>> \in Futures \X Nat
    BY <2>1
  <2> QED
    BY <2>1, <2>2, <1>1
<1>7. \A other : other # cb => Places(bs, other) = Places(as, other)
  <2>1. ASSUME NEW other, other # cb
        PROVE  \A p : p \in Places(bs, other) <=> p \in Places(as, other)
    BY <2>1, <1>4, <1>5
  <2>2. ASSUME NEW other, other # cb
        PROVE  Places(bs, other) = Places(as, other)
    <3>1. \A p : p \in Places(bs, other) <=> p \in Places(as, other)
      BY <2>1, <2>2
    <3>2. PICK S, T : S = Places(bs, other) /\ T = Places(as, other)
      OBVIOUS
    <3>3. S = T
      BY <3>1, <3>2
    <3> QED
      BY <3>2, <3>3
  <2> QED
    BY <2>2
<1>8. Places(bs, cb) = Places(as, cb) \cup {<<y, Len(as[y]) + 1>>}
  <2>1. \A p : p \in Places(bs, cb) <=> p \in Places(as, cb) \cup {<<y, Len(as[y]) + 1>>}
    BY <1>4, <1>5, <1>6
  <2> QED
    BY <2>1
<1> QED
  BY <1>6, <1>7, <1>8

\* A callback that has run has one place less to run.
LEMMA NotedOpen ==
  ASSUME NEW as, NEW r, NEW h, NEW f \in Futures, Len(r[f]) \in Nat,
         Len(h[f]) = Len(r[f]) + 1, \A x \in Futures : x # f => h[x] = r[x], NEW cb
  PROVE  Open(as, h, cb) = Open(as, r, cb) \ {<<f, Len(r[f]) + 1>>}
<1>1. ASSUME NEW p \in Futures \X Nat
      PROVE  Len(h[p[1]]) < p[2] <=> (Len(r[p[1]]) < p[2] /\ p # <<f, Len(r[f]) + 1>>)
  <2>1. PICK x \in Futures, i \in Nat : p = <<x, i>>
    OBVIOUS
  <2>2. p[1] = x /\ p[2] = i
    BY <2>1
  <2>3. p = <<f, Len(r[f]) + 1>> <=> (x = f /\ i = Len(r[f]) + 1)
    BY <2>1
  <2>4. CASE x = f
    BY <2>2, <2>3, <2>4
  <2>5. CASE x # f
    BY <2>2, <2>3, <2>5
  <2> QED
    BY <2>4, <2>5
<1>2. \A p \in Places(as, cb) : p \in Futures \X Nat
  BY DEF Places
<1>3. \A p : p \in Open(as, h, cb) <=> p \in Open(as, r, cb) \ {<<f, Len(r[f]) + 1>>}
  BY <1>1, <1>2 DEF Open
<1> QED
  BY <1>3

\* What all or race asks for in one step, and what places it has then.
MoreIsAsked(as, bs, fs, these, cb) ==
  \A x \in Futures : bs[x] = as[x] \o Again(fs, these, x, cb)
PlacesGained(as, bs, fs, these, cb) ==
  /\ \A other : other # cb => Places(bs, other) = Places(as, other)
  /\ \A p \in Places(bs, cb) : p \in Places(as, cb) \/ \E i \in these : fs[i] = p[1]
  /\ Places(as, cb) = {} => /\ IsFiniteSet(Places(bs, cb))
                            /\ Cardinality(Places(bs, cb)) <= Cardinality(these)

\* What all and race ask for has as many places at most as there are elements.
LEMMA WaitingGains ==
  ASSUME NEW as \in [Futures -> Seq(CallbackSet)], NEW fs, NEW these \in SUBSET Nat, IsFiniteSet(these),
         NEW cb \in CallbackSet, NEW bs, MoreIsAsked(as, bs, fs, these, cb)
  PROVE  PlacesGained(as, bs, fs, these, cb)
<1> DEFINE mine(x) == {i \in these : fs[i] = x}
           num(x) == Cardinality(mine(x))
<1>1. ASSUME NEW x \in Futures
      PROVE  /\ Len(as[x]) \in Nat /\ num(x) \in Nat
             /\ Len(bs[x]) = Len(as[x]) + num(x)
             /\ \A i \in 1 .. Len(as[x]) : bs[x][i] = as[x][i]
             /\ \A i \in 1 .. Len(bs[x]) : i \notin 1 .. Len(as[x]) => bs[x][i] = cb /\ i - Len(as[x]) \in 1 .. num(x)
  <2>1. num(x) \in Nat
    BY FS_Subset, FS_CardinalityType
  <2>2. PICK more : more = Again(fs, these, x, cb)
    OBVIOUS
  <2>3. more \in [1 .. num(x) -> CallbackSet] /\ \A i \in 1 .. num(x) : more[i] = cb
    BY <2>2 DEF Again
  <2> HIDE DEF num
  <2>4. more \in UNION {[1 .. k -> CallbackSet] : k \in Nat}
    BY <2>1, <2>3
  <2>5. more \in Seq(CallbackSet)
    BY <2>4, SeqDef, Zenon
  <2>6. Len(more) = num(x)
    BY <2>1, <2>3, <2>5, LenProperties
  <2>7. as[x] \in Seq(CallbackSet) /\ Len(as[x]) \in Nat
    BY LenProperties
  <2>8. bs[x] = as[x] \o more
    BY <2>2 DEF MoreIsAsked
  <2>9. /\ Len(as[x] \o more) = Len(as[x]) + Len(more)
        /\ \A i \in 1 .. Len(as[x]) + Len(more) :
             (as[x] \o more)[i] = IF i <= Len(as[x]) THEN as[x][i] ELSE more[i - Len(as[x])]
    BY <2>5, <2>7, ConcatProperties
  <2> QED
    <3>1. PICK n \in Nat, d \in Nat : n = Len(as[x]) /\ d = num(x)
      BY <2>1, <2>7
    <3>2. PICK both : both = bs[x]
      OBVIOUS
    <3>3. Len(both) = n + d /\ \A i \in 1 .. n + d : both[i] = IF i <= n THEN as[x][i] ELSE more[i - n]
      BY <2>6, <2>8, <2>9, <3>1, <3>2
    <3>4. ASSUME NEW i \in 1 .. n
          PROVE  both[i] = as[x][i]
      <4>1. i \in 1 .. n + d /\ i <= n
        OBVIOUS
      <4> QED
        BY <4>1, <3>3
    <3>5. ASSUME NEW i \in 1 .. n + d, i \notin 1 .. n
          PROVE  both[i] = cb /\ i - n \in 1 .. d
      <4>1. ~(i <= n) /\ i - n \in 1 .. d
        BY <3>5
      <4> QED
        BY <4>1, <3>1, <3>3, <2>3
    <3> QED
      BY <3>1, <3>2, <3>3, <3>4, <3>5
<1> HIDE DEF num
<1>2. ASSUME NEW other, NEW x \in Futures, NEW i \in Nat
      PROVE  /\ i \in 1 .. Len(as[x]) /\ as[x][i] = other => i \in 1 .. Len(bs[x]) /\ bs[x][i] = other
             /\ i \in 1 .. Len(bs[x]) /\ bs[x][i] = other =>
                  \/ i \in 1 .. Len(as[x]) /\ as[x][i] = other
                  \/ other = cb /\ i \notin 1 .. Len(as[x]) /\ i - Len(as[x]) \in 1 .. num(x)
  <2>1. i \in 1 .. Len(as[x]) => i \in 1 .. Len(bs[x]) /\ bs[x][i] = as[x][i]
    <3>1. Len(as[x]) \in Nat /\ num(x) \in Nat /\ Len(bs[x]) = Len(as[x]) + num(x)
      BY <1>1
    <3>2. i \in 1 .. Len(as[x]) => i \in 1 .. Len(as[x]) + num(x)
      <4>1. PICK n \in Nat, d \in Nat : n = Len(as[x]) /\ d = num(x)
        BY <3>1
      <4>2. i \in 1 .. n => i \in 1 .. n + d
        OBVIOUS
      <4> QED
        BY <4>1, <4>2
    <3> QED
      BY <3>1, <3>2, <1>1
  <2>2. i \in 1 .. Len(bs[x]) /\ i \notin 1 .. Len(as[x]) => bs[x][i] = cb /\ i - Len(as[x]) \in 1 .. num(x)
    BY <1>1
  <2> QED
    BY <2>1, <2>2, Zenon
<1>3. ASSUME NEW other, NEW p \in Futures \X Nat
      PROVE  /\ p \in Places(as, other) => p \in Places(bs, other)
             /\ p \in Places(bs, other) =>
                  \/ p \in Places(as, other)
                  \/ other = cb /\ p[2] \notin 1 .. Len(as[p[1]]) /\ p[2] - Len(as[p[1]]) \in 1 .. num(p[1])
  <2>1. PICK x \in Futures, i \in Nat : x = p[1] /\ i = p[2]
    OBVIOUS
  <2>2. p \in Places(bs, other) <=> (i \in 1 .. Len(bs[x]) /\ bs[x][i] = other)
    BY <2>1 DEF Places
  <2>3. p \in Places(as, other) <=> (i \in 1 .. Len(as[x]) /\ as[x][i] = other)
    BY <2>1 DEF Places
  <2> QED
    <3>1. /\ p \in Places(as, other) => p \in Places(bs, other)
          /\ p \in Places(bs, other) =>
               \/ p \in Places(as, other)
               \/ other = cb /\ i \notin 1 .. Len(as[x]) /\ i - Len(as[x]) \in 1 .. num(x)
      BY <2>2, <2>3, <1>2, Zenon
    <3> QED
      BY <2>1, <3>1
<1>4. \A other : Places(bs, other) \subseteq Futures \X Nat /\ Places(as, other) \subseteq Futures \X Nat
  BY DEF Places
<1>5. \A other : other # cb => Places(bs, other) = Places(as, other)
  BY <1>3, <1>4
<1>6. ASSUME NEW p \in Places(bs, cb), p \notin Places(as, cb)
      PROVE  \E i \in these : fs[i] = p[1]
  <2>1. p \in Futures \X Nat /\ p[2] - Len(as[p[1]]) \in 1 .. num(p[1])
    BY <1>3, <1>4, <1>6
  <2>2. num(p[1]) # 0
    <3>1. PICK d : d = num(p[1])
      OBVIOUS
    <3>2. PICK k : k = p[2] - Len(as[p[1]])
      OBVIOUS
    <3>3. d \in Nat /\ k \in 1 .. d
      <4>1. p[1] \in Futures
        BY <2>1
      <4> QED
        BY <2>1, <3>1, <3>2, <4>1, <1>1
    <3>4. d # 0
      BY <3>3
    <3> QED
      BY <3>1, <3>4
  <2>3. mine(p[1]) # {}
    BY <2>2, FS_EmptySet DEF num
  <2> QED
    BY <2>3
<1>7. ASSUME Places(as, cb) = {}
      PROVE  IsFiniteSet(Places(bs, cb)) /\ Cardinality(Places(bs, cb)) <= Cardinality(these)
  <2> DEFINE g == [p \in Places(bs, cb) |-> Nth(mine(p[1]), p[2] - Len(as[p[1]]))]
  <2>1. ASSUME NEW p \in Places(bs, cb)
        PROVE  /\ p = <<p[1], p[2]>> /\ p[1] \in Futures /\ p[2] \in Nat /\ Len(as[p[1]]) \in Nat
               /\ g[p] \in these /\ fs[g[p]] = p[1]
               /\ Rank(mine(p[1]), g[p]) = p[2] - Len(as[p[1]])
    <3>1. p \in Futures \X Nat /\ p[2] - Len(as[p[1]]) \in 1 .. num(p[1])
      BY <1>3, <1>4, <1>7
    <3>2. mine(p[1]) \in SUBSET Nat /\ IsFiniteSet(mine(p[1]))
      BY FS_Subset
    <3>3. \A n \in 1 .. num(p[1]) : Nth(mine(p[1]), n) \in mine(p[1]) /\ Rank(mine(p[1]), Nth(mine(p[1]), n)) = n
      BY <3>2, Ranked DEF num
    <3>4. g[p] \in mine(p[1]) /\ Rank(mine(p[1]), g[p]) = p[2] - Len(as[p[1]])
      BY <3>1, <3>3
    <3>5. g[p] \in these /\ fs[g[p]] = p[1]
      BY <3>4
    <3>6. p[1] \in Futures /\ p[2] \in Nat /\ p = <<p[1], p[2]>>
      BY <3>1
    <3>7. Len(as[p[1]]) \in Nat
      BY <3>6, <1>1
    <3> HIDE DEF g, mine
    <3> QED
      BY <3>4, <3>5, <3>6, <3>7
  <2> HIDE DEF g
  <2>2. g \in Injection(Places(bs, cb), these)
    <3>1. g \in [Places(bs, cb) -> these]
      BY <2>1 DEF g
    <3>2. ASSUME NEW p \in Places(bs, cb), NEW s \in Places(bs, cb), g[p] = g[s]
          PROVE  p = s
      <4>1. p[1] = s[1]
        <5>1. fs[g[p]] = p[1] /\ fs[g[s]] = s[1]
          BY <2>1
        <5> QED
          BY <5>1, <3>2
      <4>2. p[2] - Len(as[p[1]]) = s[2] - Len(as[p[1]])
        <5>1. Rank(mine(p[1]), g[p]) = p[2] - Len(as[p[1]])
          BY <2>1
        <5>2. Rank(mine(s[1]), g[s]) = s[2] - Len(as[s[1]])
          BY <2>1
        <5> HIDE DEF mine
        <5> QED
          BY <5>1, <5>2, <3>2, <4>1
      <4>3. p[2] \in Nat /\ s[2] \in Nat /\ Len(as[p[1]]) \in Nat
        BY <2>1
      <4>4. p[2] = s[2]
        <5>1. PICK n \in Nat, i \in Nat, k \in Nat : n = Len(as[p[1]]) /\ i = p[2] /\ k = s[2]
          BY <4>3
        <5>2. i - n = k - n
          BY <4>2, <5>1
        <5>3. i = k
          BY <5>2
        <5> QED
          BY <5>1, <5>3
      <4> QED
        BY <2>1, <4>1, <4>4
    <3> QED
      BY <3>1, <3>2 DEF Injection, IsInjective
  <2> QED
    BY <2>2, FS_Injection
<1> QED
  BY <1>5, <1>6, <1>7, Zenon DEF PlacesGained

-----------------------------------------------------------------------------
(* Whom a future's fate is for, in states st of the futures, with what was   *)
(* asked, as, and has run, r.                                                *)

\* A future that is settled has a fate of one of two forms; no value is a future.
FateOK(s) ==
  \/ s \in {Unmade, Thrown, Pending}
  \/ s.is = "rejected"
  \/ s.is = "fulfilled" /\ s = Fulfilled(s.value) /\ s.value \notin Futures

IsMade(s) == s.is \notin {"unmade", "thrown"}

\* What has been asked for, and of whom, has been made.
Known(st, as, cb) ==
  /\ Places(as, cb) # {} => cb.to \in Nodes \/ IsMade(st[cb.to])
  /\ \A p \in Places(as, cb) : IsMade(st[p[1]])

\* As in ChildTakesFate.
FateTaken(st, c, got) ==
  CASE got = Pending -> ~IsSettled(st[c])
    [] got.is = "rejected" -> st[c] = got
    [] got.is = "fulfilled" /\ got.value \notin Futures -> st[c] = got
    [] got.is = "fulfilled" /\ got.value = c -> st[c] = Rejected(SelfError)
    [] OTHER -> st[c] = Pending \/ st[c] = st[got.value]

\* The handler of c runs once; a future that c then waits for is the one it was given.
ChildOK(st, as, r, s, c) ==
  /\ s = [of |-> s.of, has |-> s.has, got |-> s.got]
  /\ \/ s.got = Pending \/ s.got.is = "rejected"
     \/ s.got.is = "fulfilled" /\ s.got = Fulfilled(s.got.value)
  /\ s.got # Pending => IsMade(st[c])
  /\ \A p, o \in Places(as, Callback("then", c)) : p = o
  /\ Open(as, r, Callback("then", c)) # {} => s.got = Pending
  /\ \A p \in Open(as, r, Callback("adopt", c)) : s.got = Fulfilled(p[1])
  /\ FateTaken(st, c, s.got)

\* The loop waits for one future, or has no callback to run.
LoopOK(st, as, r, s, l) ==
  /\ s = [pc |-> s.pc, called |-> s.called, frames |-> s.frames, rounds |-> s.rounds,
          body |-> s.body, end |-> s.end]
  /\ s.pc \in {"none", "run", "wait", "ended", "thrown"}
  /\ s.frames \in {0, 1}
  /\ IsMade(st[l]) \/ s = NoLoop
  /\ s.pc = "run" => s.called = TRUE /\ s.frames = 1
  /\ s.pc = "wait" => /\ s.called = TRUE /\ s.frames = 0
                      /\ \E i \in Nat : Open(as, r, Callback("loop", l)) = {<<s.body, i>>}
  /\ s.pc # "wait" => Open(as, r, Callback("loop", l)) = {}
  /\ IsSettled(st[l]) <=> s.pc = "ended"
  /\ s.pc = "ended" => /\ st[l] = s.end
                       /\ s.body # Undefined => /\ s.body \in Futures /\ IsSettled(st[s.body])
                                                /\ s.end = AsCalledBack(st[s.body])

\* all counts at least what has still to run.
AllOK(as, r, s, n, a) ==
  /\ s = [of |-> s.of, at |-> s.at]
  /\ Len(s.of) \in Nat /\ DOMAIN s.of = 1 .. Len(s.of)
  /\ n \in 0 .. Len(s.of)
  /\ IsFiniteSet(Open(as, r, Callback("all", a)))
  /\ Cardinality(Open(as, r, Callback("all", a))) <= n

FatesOK == \A f \in Futures : FateOK(state[f])
KnownOK == \A cb \in CallbackSet : Known(state, asked, cb)
ChildrenOK ==
  /\ source = [c \in Children |-> source[c]]
  /\ \A c \in Children : ChildOK(state, asked, ran, source[c], c)
LoopsOK ==
  /\ loop = [l \in Loops |-> loop[l]]
  /\ \A l \in Loops : LoopOK(state, asked, ran, loop[l], l)
AllsOK ==
  /\ count = [a \in Alls |-> count[a]]
  /\ list = [x \in Alls \cup Races |-> list[x]]
  /\ \A a \in Alls : AllOK(asked, ran, list[a], count[a], a)

FateInv == FatesOK /\ KnownOK /\ ChildrenOK /\ LoopsOK /\ AllsOK

\* What is settled stays, what is made stays made.
Keeps ==
  \A f \in Futures : /\ IsSettled(state[f]) => state'[f] = state[f]
                     /\ IsMade(state[f]) => IsMade(state'[f])

\* What a step lets alone of the callbacks.
SameAsked(cb) == Places(asked', cb) = Places(asked, cb)
SameToRun(cb) == Open(asked', ran', cb) = Open(asked, ran, cb)

\* A step keeps what is said of a child, of a loop, of a future of all and of a callback
\* that it lets alone.
LEMMA ChildFrame ==
  ASSUME FatesOK, Keeps, NEW c \in Children, ChildOK(state, asked, ran, source[c], c),
         source'[c] = source[c], state'[c] = state[c],
         SameAsked(Callback("then", c)), SameToRun(Callback("then", c)), SameToRun(Callback("adopt", c))
  PROVE  ChildOK(state', asked', ran', source'[c], c)
<1>1. c \in Futures
  BY DEF Futures
<1>2. PICK s : s = source[c]
  OBVIOUS
<1>3. ChildOK(state, asked, ran, s, c)
  BY <1>2
<1>4. FateTaken(state', c, s.got)
  <2>1. PICK got : got = s.got
    OBVIOUS
  <2> SUFFICES FateTaken(state', c, got)
    BY <2>1
  <2>2. FateTaken(state, c, got) /\ (got # Pending => IsMade(state[c]))
    BY <1>3, <2>1 DEF ChildOK
  <2>3. CASE got = Pending
    BY <2>2, <2>3 DEF FateTaken
  <2>4. CASE got # Pending /\ state[c] = Pending
    BY <2>2, <2>4 DEF FateTaken
  <2>5. CASE got # Pending /\ state[c] # Pending
    <3>1. IsSettled(state[c])
      <4>1. FateOK(state[c]) /\ IsMade(state[c])
        BY <2>2, <2>5, <1>1 DEF FatesOK
      <4>2. PICK t : t = state[c]
        OBVIOUS
      <4>3. t # Unmade /\ t # Thrown
        BY <4>1, <4>2 DEF IsMade, Unmade, Thrown
      <4>4. t.is = "rejected" \/ t.is = "fulfilled"
        BY <4>1, <4>2, <4>3, <2>5 DEF FateOK
      <4> QED
        BY <4>2, <4>4 DEF IsSettled
    <3>2. got.value \in Futures /\ state[c] = state[got.value] => state'[c] = state'[got.value]
      BY <3>1 DEF Keeps
    <3>3. CASE got.is = "rejected" \/ (got.is = "fulfilled" /\ got.value \notin Futures)
      BY <3>3, <2>2, <2>5 DEF FateTaken
    <3>4. CASE got.is = "fulfilled" /\ got.value \in Futures
      BY <3>4, <3>2, <2>2, <2>5 DEF FateTaken
    <3>5. \/ got.is = "rejected"
          \/ got.is = "fulfilled"
      BY <1>3, <2>1, <2>5 DEF ChildOK
    <3> QED
      BY <3>3, <3>4, <3>5
  <2> QED
    BY <2>3, <2>4, <2>5
<1>5. s.got # Pending => IsMade(state'[c])
  BY <1>1, <1>3 DEF ChildOK, Keeps
<1>6. ChildOK(state', asked', ran', s, c)
  BY <1>3, <1>4, <1>5 DEF ChildOK, SameAsked, SameToRun
<1> QED
  BY <1>2, <1>6

\* The same of a loop.
LEMMA LoopFrame ==
  ASSUME Keeps, NEW l \in Loops, LoopOK(state, asked, ran, loop[l], l), loop'[l] = loop[l],
         state'[l] = state[l], SameToRun(Callback("loop", l))
  PROVE  LoopOK(state', asked', ran', loop'[l], l)
<1>1. PICK s : s = loop[l]
  OBVIOUS
<1>2. LoopOK(state, asked, ran, s, l)
  BY <1>1
<1>3. s.pc = "ended" /\ s.body # Undefined => state'[s.body] = state[s.body]
  BY <1>2 DEF LoopOK, Keeps
<1>4. LoopOK(state', asked', ran', s, l)
  BY <1>2, <1>3 DEF LoopOK, SameToRun
<1> QED
  BY <1>1, <1>4

\* The same of a future of all.
LEMMA AllFrame ==
  ASSUME NEW a \in Alls, AllOK(asked, ran, list[a], count[a], a), list'[a] = list[a], count'[a] = count[a],
         SameToRun(Callback("all", a))
  PROVE  AllOK(asked', ran', list'[a], count'[a], a)
BY DEF AllOK, SameToRun

\* The same of a callback.
LEMMA KnownFrame ==
  ASSUME Keeps, NEW cb \in CallbackSet, Known(state, asked, cb), SameAsked(cb)
  PROVE  Known(state', asked', cb)
<1>1. \A p \in Places(asked, cb) : p[1] \in Futures
  BY DEF Places
<1>2. cb.to \in Nodes \/ cb.to \in Futures
  BY DEF CallbackSet, Futures
<1> QED
  BY <1>1, <1>2 DEF Known, Keeps, SameAsked

-----------------------------------------------------------------------------
(* What the operations do to the states and to what is asked for.            *)

\* x is settled with this fate unless it is settled already.
Only(w, v, x, fate) ==
  /\ v.asked = w.asked
  /\ \A f \in Futures : v.state[f] = IF f = x /\ ~IsSettled(w.state[x]) THEN fate ELSE w.state[f]

\* To settle x changes the state of x at most.
LEMMA SettledOnly ==
  ASSUME NEW w, Typed(w), NEW x \in Futures, NEW fate
  PROVE  Only(w, Settled(w, x, fate), x, fate)
<1>1. CASE IsSettled(w.state[x])
  BY <1>1 DEF Settled, Only
<1>2. CASE ~IsSettled(w.state[x])
  <2>1. PICK v : v = Settled(w, x, fate)
    OBVIOUS
  <2>2. SettledTo(w, v, x, fate)
    BY <1>2, <2>1, SettledFields DEF Typed
  <2>3. v.asked = w.asked /\ v.state = [w.state EXCEPT ![x] = fate]
    BY <2>2 DEF SettledTo
  <2>4. \A f \in Futures : v.state[f] = IF f = x THEN fate ELSE w.state[f]
    BY <2>3 DEF Typed
  <2> QED
    BY <1>2, <2>1, <2>3, <2>4 DEF Only
<1> QED
  BY <1>1, <1>2

\* So does getFutureCallback.
LEMMA FutureCallbackOnly ==
  ASSUME NEW w, Typed(w), NEW x \in Futures, NEW err, NEW val
  PROVE  Only(w, FutureCallback(w, x, err, val), x, EndOf(err, val))
BY SettledOnly DEF FutureCallback, EndOf

\* One callback is added, and no state changed.
Adds(w, v, y, cb) ==
  /\ v.asked = [w.asked EXCEPT ![y] = Append(@, cb)]
  /\ \A f \in Futures : v.state[f] = w.state[f]

\* addCallback changes no state.
LEMMA AddedAdds ==
  ASSUME NEW w, Typed(w), NEW y, NEW cb
  PROVE  Adds(w, Added(w, y, cb), y, cb)
<1>1. AddedTo(w, Added(w, y, cb), y, cb)
  BY AddedFields DEF Typed
<1> QED
  BY <1>1 DEF AddedTo, Adds

\* resolvePromise settles c, with a value or with SelfError, or has it wait for another.
LEMMA ResolvedDoes ==
  ASSUME NEW w, NEW r, Order(w, r), NEW c \in Children, NEW x, NEW v, v = Resolved(w, c, x)
  PROVE  /\ x \notin Futures => Only(w, v, c, Fulfilled(x))
         /\ x \in Futures =>
              /\ v.asked = [w.asked EXCEPT ![x] = Append(@, Callback("adopt", c))]
              /\ \A f \in Futures :
                   v.state[f] = IF f = c /\ x = c /\ ~IsSettled(w.state[c]) THEN Rejected(SelfError) ELSE w.state[f]
<1>1. c \in Futures /\ Typed(w)
  BY DEF Futures, Order
<1>2. CASE x \notin Futures
  BY <1>1, <1>2, SettledOnly DEF Resolved
<1>3. CASE x \in Futures
  <2>1. PICK u : u = IF x = c THEN Settled(w, c, Rejected(SelfError)) ELSE w
    OBVIOUS
  <2>2. /\ u.asked = w.asked
        /\ \A f \in Futures :
             u.state[f] = IF f = c /\ x = c /\ ~IsSettled(w.state[c]) THEN Rejected(SelfError) ELSE w.state[f]
        /\ Typed(u)
    <3>1. CASE x = c
      <4>1. Only(w, u, c, Rejected(SelfError))
        BY <3>1, <2>1, <1>1, SettledOnly
      <4>2. Order(u, r)
        BY <3>1, <2>1, <1>1, FatesSettle, SettledKeepsOrder
      <4> QED
        BY <4>1, <4>2, <3>1 DEF Only, Order
    <3>2. CASE x # c
      BY <3>2, <2>1, <1>1
    <3> QED
      BY <3>1, <3>2
  <2>3. v = Added(u, x, Callback("adopt", c))
    BY <2>1, <1>3 DEF Resolved
  <2>4. Adds(u, v, x, Callback("adopt", c))
    BY <2>2, <2>3, AddedAdds
  <2> QED
    BY <2>2, <2>4, <1>3 DEF Adds
<1> QED
  BY <1>2, <1>3

\* To make a future changes its state only.
LEMMA MadeDoes ==
  ASSUME NEW w, Typed(w), NEW x \in Futures, NEW s, NEW v, v = [w EXCEPT !.state[x] = s]
  PROVE  /\ v.asked = w.asked
         /\ \A f \in Futures : v.state[f] = IF f = x THEN s ELSE w.state[f]
<1>1. MadeTo(w, v, x, s)
  BY MadeFields DEF Typed
<1> QED
  BY <1>1 DEF MadeTo, Typed

\* Distinct callbacks.
LEMMA CallbacksDiffer ==
  \A k1, k2, t1, t2 : Callback(k1, t1) = Callback(k2, t2) <=> (k1 = k2 /\ t1 = t2)
BY DEF Callback

\* A callback is asked for of futures only, and what has to run has been asked for.
LEMMA Asking ==
  /\ \A as, cb : Places(as, cb) \subseteq Futures \X Nat
  /\ \A as, r, cb : Open(as, r, cb) \subseteq Places(as, cb)
BY DEF Places, Open

\* No more callbacks have run than were asked for.
LEMMA OrderLens ==
  ASSUME NEW w, NEW r, Order(w, r), NEW x \in Futures
  PROVE  Len(r[x]) \in Nat /\ Len(w.asked[x]) \in Nat /\ Len(r[x]) <= Len(w.asked[x])
<1>1. Typed(w) /\ HistoryTyped(r) /\ InOrder(w, r, x)
  BY DEF Order
<1>2. PICK S : r \in [Futures -> Seq(S)]
  BY <1>1 DEF HistoryTyped
<1>3. r[x] \in Seq(S) /\ w.asked[x] \in Seq(CallbackSet)
  BY <1>1, <1>2 DEF Typed
<1>4. Len(r[x]) \in Nat /\ Len(w.asked[x]) \in Nat
  BY <1>3, LenProperties
<1>5. CASE IsSettled(w.state[x])
  <2>1. PICK q : InTurn(x, w.ticks, w.asked[x], Len(r[x]), q)
    BY <1>1, <1>5 DEF InOrder
  <2> QED
    BY <2>1, <1>4 DEF InTurn
<1>6. CASE ~IsSettled(w.state[x])
  <2>1. r[x] = <<>>
    BY <1>1, <1>6 DEF InOrder
  <2>2. Len(r[x]) = 0
    BY <2>1, EmptySeq
  <2> QED
    BY <2>2, <1>4
<1> QED
  BY <1>5, <1>6

\* cb has one more place, n, where it has still to run.
OneMore(as, bs, r, y, cb, n) ==
  /\ \A other : other # cb => /\ Places(bs, other) = Places(as, other)
                              /\ Open(bs, r, other) = Open(as, r, other)
  /\ Places(bs, cb) = Places(as, cb) \cup {<<y, n>>}
  /\ Open(bs, r, cb) = Open(as, r, cb) \cup {<<y, n>>}

\* A callback that is added has one more place where it has to run.
LEMMA OpenAdded ==
  ASSUME NEW as \in [Futures -> Seq(CallbackSet)], NEW r, NEW y \in Futures, NEW cb \in CallbackSet,
         Len(r[y]) \in Nat, Len(r[y]) <= Len(as[y]),
         NEW bs, bs[y] = Append(as[y], cb), \A x \in Futures : x # y => bs[x] = as[x]
  PROVE  \E n \in Nat : OneMore(as, bs, r, y, cb, n)
<1>1. /\ \A other : other # cb => Places(bs, other) = Places(as, other)
      /\ Places(bs, cb) = Places(as, cb) \cup {<<y, Len(as[y]) + 1>>}
      /\ Len(as[y]) \in Nat
  BY AppendPlaces
<1>2. PICK n : n = Len(as[y]) + 1
  OBVIOUS
<1>3. Places(bs, cb) = Places(as, cb) \cup {<<y, n>>}
  BY <1>1, <1>2, Zenon
<1>4. n \in Nat /\ Len(r[y]) < n
  <2>1. PICK m \in Nat : m = Len(as[y])
    BY <1>1
  <2>2. PICK k \in Nat : k = Len(r[y])
    OBVIOUS
  <2>3. k <= m /\ n = m + 1
    BY <2>1, <2>2, <1>2
  <2>4. n \in Nat /\ k < n
    BY <2>3
  <2> QED
    BY <2>2, <2>4
<1>5. \A other : other # cb => Open(bs, r, other) = Open(as, r, other)
  BY <1>1 DEF Open
<1>6. Open(bs, r, cb) = Open(as, r, cb) \cup {<<y, n>>}
  <2>1. \A p : p \in Open(bs, r, cb) <=> p \in Places(bs, cb) /\ Len(r[p[1]]) < p[2]
    BY DEF Open
  <2>2. \A p : p \in Open(as, r, cb) <=> p \in Places(as, cb) /\ Len(r[p[1]]) < p[2]
    BY DEF Open
  <2>3. \A p : p = <<y, n>> => Len(r[p[1]]) < p[2]
    BY <1>4
  <2>4. \A p : p \in Open(bs, r, cb) <=> p \in Open(as, r, cb) \cup {<<y, n>>}
    BY <2>1, <2>2, <2>3, <1>3
  <2> QED
    BY <2>4
<1> QED
  BY <1>1, <1>3, <1>4, <1>5, <1>6 DEF OneMore

\* A future is no sequence.
FuturesAreNoLists == \A S : Futures \cap Seq(S) = {}

\* The values that native and user code give are no futures.
LEMMA ValuesAreNoFutures ==
  /\ \A v \in {Plain, Undefined, Error, Falsy, SelfError} : v \notin Futures
  /\ Undefined \notin Futures /\ Plain \notin Futures
BY NamesAssumption

\* What is settled has a fate.
LEMMA SettledFate ==
  ASSUME NEW s, FateOK(s)
  PROVE  /\ IsSettled(s) => s.is = "rejected" \/ (s.is = "fulfilled" /\ s = Fulfilled(s.value) /\ s.value \notin Futures)
         /\ Val(s) \notin Futures
         /\ ~IsSettled(s) /\ IsMade(s) => s = Pending
         /\ s.is \in {"unmade", "thrown", "pending", "fulfilled", "rejected"}
<1>1. CASE s = Unmade \/ s = Thrown
  BY <1>1, ValuesAreNoFutures DEF Unmade, Thrown, IsSettled, Val, IsMade
<1>2. CASE s = Pending
  BY <1>2, ValuesAreNoFutures DEF Pending, IsSettled, Val
<1>3. CASE s.is = "rejected"
  BY <1>3, ValuesAreNoFutures DEF IsSettled, Val
<1>4. CASE s.is = "fulfilled" /\ s = Fulfilled(s.value) /\ s.value \notin Futures
  BY <1>4 DEF IsSettled, Val
<1> QED
  BY <1>1, <1>2, <1>3, <1>4 DEF FateOK

\* What getFutureCallback settles a future with is a fate.
LEMMA EndIsFate ==
  ASSUME NEW err, NEW val, val \notin Futures
  PROVE  FateOK(EndOf(err, val)) /\ IsSettled(EndOf(err, val))
<1>1. EndOf(err, val) = Rejected(err) \/ EndOf(err, val) = Fulfilled(val)
  BY DEF EndOf
<1>2. Rejected(err).is = "rejected"
  BY DEF Rejected
<1>3. Fulfilled(val).is = "fulfilled" /\ Fulfilled(val).value = val
  BY DEF Fulfilled
<1> QED
  BY <1>1, <1>2, <1>3, FatesSettle DEF FateOK

\* What is settled or pending has been made.
LEMMA SettledIsMade ==
  ASSUME NEW s, IsSettled(s) \/ s = Pending
  PROVE  IsMade(s)
BY DEF IsSettled, Pending, IsMade

\* A step that settles x at most.
LEMMA SettlingKeeps ==
  ASSUME FatesOK, NEW x, NEW fate, FateOK(fate), IsSettled(fate),
         \A f \in Futures : state'[f] = IF f = x /\ ~IsSettled(state[x]) THEN fate ELSE state[f]
  PROVE  Keeps /\ FatesOK'
<1>1. ASSUME NEW f \in Futures
      PROVE  /\ IsSettled(state[f]) => state'[f] = state[f]
             /\ IsMade(state[f]) => IsMade(state'[f])
             /\ FateOK(state'[f])
  <2>1. state'[f] = state[f] \/ (state'[f] = fate /\ ~IsSettled(state[f]))
    OBVIOUS
  <2>2. CASE state'[f] = state[f]
    BY <2>2 DEF FatesOK
  <2>3. CASE state'[f] = fate /\ ~IsSettled(state[f])
    BY <2>3, SettledIsMade
  <2> QED
    BY <2>1, <2>2, <2>3
<1> QED
  BY <1>1 DEF Keeps, FatesOK, FateOK

\* A step that makes x.
LEMMA MakingKeeps ==
  ASSUME FatesOK, NEW x, NEW s, FateOK(s), state[x] = Unmade,
         \A f \in Futures : state'[f] = IF f = x THEN s ELSE state[f]
  PROVE  Keeps /\ FatesOK'
<1>1. ASSUME NEW f \in Futures
      PROVE  /\ IsSettled(state[f]) => state'[f] = state[f]
             /\ IsMade(state[f]) => IsMade(state'[f])
             /\ FateOK(state'[f])
  <2>1. CASE f # x
    BY <2>1 DEF FatesOK
  <2>2. CASE f = x
    <3>1. ~IsSettled(state[f]) /\ ~IsMade(state[f])
      BY <2>2, FatesSettle DEF IsMade, Unmade
    <3> QED
      BY <2>2, <3>1
  <2> QED
    BY <2>1, <2>2
<1> QED
  BY <1>1 DEF Keeps, FatesOK, FateOK

\* Nothing has been asked for on behalf of a future that is not made.
LEMMA UnmadeAsksNothing ==
  ASSUME KnownOK, NEW x \in Futures, state[x] = Unmade, NEW cb \in CallbackSet, cb.to = x
  PROVE  Places(asked, cb) = {} /\ Open(asked, ran, cb) = {}
<1>1. ~IsMade(state[x])
  BY DEF IsMade, Unmade
<1>2. x \notin Nodes
  BY NamesAssumption
<1> QED
  BY <1>1, <1>2, Asking DEF KnownOK, Known

\* Whatever a step lets alone is kept: X are the futures whose state it changes, N the
\* callbacks that it adds and P those that it runs.
LEMMA Rest ==
  ASSUME FateInv, Keeps, NEW X, NEW N, NEW P,
         \A f \in Futures : f \notin X => state'[f] = state[f],
         \A cb : cb \notin N => SameAsked(cb),
         \A cb : cb \notin N /\ cb \notin P => SameToRun(cb)
  PROVE  /\ \A c \in Children :
              source'[c] = source[c] /\ c \notin X
                /\ Callback("then", c) \notin N /\ Callback("then", c) \notin P
                /\ Callback("adopt", c) \notin N /\ Callback("adopt", c) \notin P
              => ChildOK(state', asked', ran', source'[c], c)
         /\ \A l \in Loops :
              loop'[l] = loop[l] /\ l \notin X /\ Callback("loop", l) \notin N /\ Callback("loop", l) \notin P
              => LoopOK(state', asked', ran', loop'[l], l)
         /\ \A a \in Alls :
              list'[a] = list[a] /\ count'[a] = count[a] /\ Callback("all", a) \notin N /\ Callback("all", a) \notin P
              => AllOK(asked', ran', list'[a], count'[a], a)
         /\ \A cb \in CallbackSet : cb \notin N => Known(state', asked', cb)
<1>1. ASSUME NEW c \in Children, source'[c] = source[c], c \notin X,
             Callback("then", c) \notin N, Callback("then", c) \notin P,
             Callback("adopt", c) \notin N, Callback("adopt", c) \notin P
      PROVE  ChildOK(state', asked', ran', source'[c], c)
  <2>1. ChildOK(state, asked, ran, source[c], c) /\ FatesOK
    BY DEF FateInv, ChildrenOK
  <2>2. state'[c] = state[c]
    BY <1>1 DEF Futures
  <2> QED
    BY <1>1, <2>1, <2>2, ChildFrame
<1>2. ASSUME NEW l \in Loops, loop'[l] = loop[l], l \notin X,
             Callback("loop", l) \notin N, Callback("loop", l) \notin P
      PROVE  LoopOK(state', asked', ran', loop'[l], l)
  <2>1. LoopOK(state, asked, ran, loop[l], l)
    BY DEF FateInv, LoopsOK
  <2>2. state'[l] = state[l]
    BY <1>2 DEF Futures
  <2> QED
    BY <1>2, <2>1, <2>2, LoopFrame
<1>3. ASSUME NEW a \in Alls, list'[a] = list[a], count'[a] = count[a],
             Callback("all", a) \notin N, Callback("all", a) \notin P
      PROVE  AllOK(asked', ran', list'[a], count'[a], a)
  <2>1. AllOK(asked, ran, list[a], count[a], a)
    BY DEF FateInv, AllsOK
  <2> QED
    BY <1>3, <2>1, AllFrame
<1>4. ASSUME NEW cb \in CallbackSet, cb \notin N
      PROVE  Known(state', asked', cb)
  <2>1. Known(state, asked, cb)
    BY DEF FateInv, KnownOK
  <2> QED
    BY <1>4, <2>1, KnownFrame
<1> QED
  BY <1>1, <1>2, <1>3, <1>4

\* A step that lets the callbacks alone.
LEMMA NothingAsked ==
  ASSUME asked' = asked, ran' = ran
  PROVE  \A cb : SameAsked(cb) /\ SameToRun(cb)
BY DEF SameAsked, SameToRun

-----------------------------------------------------------------------------
(* The steps of native and of user code.                                     *)

\* Native code keeps whom a fate is for.
LEMMA NativeKeeps ==
  ASSUME OrderInv, FateInv, NEW f \in Natives, Native(f)
  PROVE  FateInv'
<1>1. PICK fate : /\ FateOK(fate) /\ IsSettled(fate) /\ Become(Settled(World, f, fate))
                  /\ UNCHANGED <<source, list, count, loop, ran>>
  <2>1. CASE NativeCallback(f)
    <3>1. PICK err \in {Undefined, Error, Falsy}, val \in {Undefined, Plain} :
            Become(FutureCallback(World, f, err, val))
      BY <2>1 DEF NativeCallback
    <3>2. UNCHANGED <<source, list, count, loop, ran>>
      BY <2>1 DEF NativeCallback
    <3>3. FateOK(EndOf(err, val)) /\ IsSettled(EndOf(err, val))
      BY EndIsFate, ValuesAreNoFutures
    <3>4. FutureCallback(World, f, err, val) = Settled(World, f, EndOf(err, val))
      BY DEF FutureCallback, EndOf
    <3> QED
      BY <3>1, <3>2, <3>3, <3>4
  <2>2. CASE Reject(f)
    <3>1. PICK e : Become(Settled(World, f, Rejected(e)))
      BY <2>2 DEF Reject
    <3>2. UNCHANGED <<source, list, count, loop, ran>>
      BY <2>2 DEF Reject
    <3>3. FateOK(Rejected(e)) /\ IsSettled(Rejected(e))
      BY FatesSettle DEF FateOK, Rejected
    <3> QED
      BY <3>1, <3>2, <3>3
  <2> QED
    BY <2>1, <2>2 DEF Native
<1>2. PICK v : v = Settled(World, f, fate)
  OBVIOUS
<1>3. f \in Futures /\ Typed(World)
  BY DEF Futures, OrderInv, Order
<1>4. /\ v.asked = asked
      /\ \A g \in Futures : v.state[g] = IF g = f /\ ~IsSettled(state[f]) THEN fate ELSE state[g]
  BY <1>2, <1>3, SettledOnly, WorldFields DEF Only
<1>5. /\ asked' = asked
      /\ \A g \in Futures : state'[g] = IF g = f /\ ~IsSettled(state[f]) THEN fate ELSE state[g]
      /\ UNCHANGED <<source, list, count, loop, ran>>
  BY <1>1, <1>2, <1>4 DEF Become
<1>6. FateOK(fate) /\ IsSettled(fate)
  BY <1>1
<1>7. Keeps /\ FatesOK'
  BY <1>5, <1>6, SettlingKeeps DEF FateInv
<1>8. \A g \in Futures : g \notin {f} => state'[g] = state[g]
  BY <1>5
<1>9. PICK N : N = {}
  OBVIOUS
<1>10. /\ \A cb : cb \notin N => SameAsked(cb)
       /\ \A cb : cb \notin N /\ cb \notin N => SameToRun(cb)
       /\ \A cb : cb \notin N
  BY <1>5, <1>9, NothingAsked
<1>11. \A x \in Children \cup Loops : x \notin {f}
  BY NamesAssumption
<1>12. /\ \A c \in Children : ChildOK(state', asked', ran', source'[c], c)
       /\ \A l \in Loops : LoopOK(state', asked', ran', loop'[l], l)
       /\ \A a \in Alls : AllOK(asked', ran', list'[a], count'[a], a)
       /\ \A cb \in CallbackSet : Known(state', asked', cb)
  BY <1>5, <1>7, <1>8, <1>10, <1>11, Rest
<1> QED
  BY <1>5, <1>7, <1>12 DEF FateInv, ChildrenOK, LoopsOK, AllsOK, KnownOK

\* A child whose handler has not run.
LEMMA ChildWaits ==
  ASSUME NEW st, NEW as, NEW r, NEW of, NEW has, NEW c, NEW s, s = [of |-> of, has |-> has, got |-> Pending],
         ~IsSettled(st[c]), \A p, o \in Places(as, Callback("then", c)) : p = o,
         Open(as, r, Callback("adopt", c)) = {}
  PROVE  ChildOK(st, as, r, s, c)
<1>1. s.got = Pending
  OBVIOUS
<1>2. s = [of |-> s.of, has |-> s.has, got |-> s.got]
  OBVIOUS
<1>3. FateTaken(st, c, s.got)
  BY <1>1 DEF FateTaken, Pending
<1> QED
  BY <1>1, <1>2, <1>3, Zenon DEF ChildOK

\* At the beginning nothing has been asked for.
LEMMA InitFates == Init => FateInv
<1> SUFFICES ASSUME Init PROVE FateInv
  OBVIOUS
<1>1. \A cb : Places(asked, cb) = {} /\ Open(asked, ran, cb) = {}
  <2>1. \A f \in Futures : asked[f] = <<>> /\ Len(asked[f]) = 0
    BY EmptySeq DEF Init
  <2>2. ASSUME NEW cb, NEW p \in Places(asked, cb) PROVE FALSE
    <3>1. p[1] \in Futures /\ p[2] \in 1 .. Len(asked[p[1]])
      BY <2>2 DEF Places
    <3>2. p[2] \in 1 .. 0
      BY <3>1, <2>1
    <3> QED
      BY <3>2
  <2> QED
    BY <2>2, Asking
<1>2. \A f \in Futures : state[f] \in {Pending, Unmade}
  BY DEF Init
<1>3. \A f \in Futures : FateOK(state[f]) /\ ~IsSettled(state[f])
  BY <1>2, FatesSettle DEF FateOK
<1>4. ASSUME NEW c \in Children PROVE ChildOK(state, asked, ran, source[c], c)
  <2>1. PICK s : s = source[c]
    OBVIOUS
  <2>2. s = [of |-> Undefined, has |-> {}, got |-> Pending]
    BY <2>1 DEF Init
  <2>3. c \in Futures
    BY DEF Futures
  <2>4. ChildOK(state, asked, ran, s, c)
    BY <1>1, <1>3, <2>2, <2>3, ChildWaits
  <2> QED
    BY <2>1, <2>4
<1>5. ASSUME NEW l \in Loops PROVE LoopOK(state, asked, ran, loop[l], l)
  <2>1. PICK s : s = loop[l]
    OBVIOUS
  <2>2. s = NoLoop
    BY <2>1 DEF Init
  <2>3. ~IsSettled(state[l])
    BY <1>3 DEF Futures
  <2>4. LoopOK(state, asked, ran, s, l)
    BY <1>1, <2>2, <2>3 DEF LoopOK, NoLoop
  <2> QED
    BY <2>1, <2>4
<1>6. ASSUME NEW a \in Alls PROVE AllOK(asked, ran, list[a], count[a], a)
  <2>1. PICK s, n : s = list[a] /\ n = count[a]
    OBVIOUS
  <2>2. s = [of |-> <<>>, at |-> 0] /\ n = 0
    BY <2>1 DEF Init
  <2>3. Len(s.of) = 0 /\ DOMAIN s.of = {}
    BY <2>2, EmptySeq
  <2>4. AllOK(asked, ran, s, n, a)
    <3>1. PICK S : S = Open(asked, ran, Callback("all", a))
      OBVIOUS
    <3>2. IsFiniteSet(S) /\ Cardinality(S) = 0
      BY <1>1, <3>1, FS_EmptySet
    <3>3. s = [of |-> s.of, at |-> s.at] /\ Len(s.of) \in Nat /\ DOMAIN s.of = 1 .. Len(s.of)
      BY <2>2, <2>3
    <3>4. n \in 0 .. Len(s.of) /\ Cardinality(S) <= n
      BY <2>2, <2>3, <3>2
    <3> QED
      BY <3>1, <3>2, <3>3, <3>4 DEF AllOK
  <2> QED
    BY <2>1, <2>4
<1>7. KnownOK
  BY <1>1 DEF KnownOK, Known
<1>8. /\ source = [c \in Children |-> source[c]]
      /\ loop = [l \in Loops |-> loop[l]]
      /\ count = [a \in Alls |-> count[a]]
      /\ list = [x \in Alls \cup Races |-> list[x]]
  BY DEF Init
<1> QED
  BY <1>3, <1>4, <1>5, <1>6, <1>7, <1>8 DEF FateInv, FatesOK, ChildrenOK, LoopsOK, AllsOK

\* A step that asks for one callback.
LEMMA OneAsked ==
  ASSUME OrderInv, NEW y \in Futures, NEW cb \in CallbackSet, asked' = [asked EXCEPT ![y] = Append(@, cb)],
         ran' = ran
  PROVE  /\ \E n \in Nat : OneMore(asked, asked', ran', y, cb, n)
         /\ \A other : other \notin {cb} => SameAsked(other) /\ SameToRun(other)
<1>1. asked \in [Futures -> Seq(CallbackSet)]
  BY WorldFields DEF OrderInv, Order, Typed
<1>2. Len(ran[y]) \in Nat /\ Len(ran[y]) <= Len(asked[y])
  BY OrderLens, WorldFields DEF OrderInv
<1>3. PICK bs : bs = asked'
  OBVIOUS
<1>4. bs[y] = Append(asked[y], cb) /\ \A x \in Futures : x # y => bs[x] = asked[x]
  BY <1>1, <1>3
<1>5. \E n \in Nat : OneMore(asked, bs, ran, y, cb, n)
  BY <1>1, <1>2, <1>4, OpenAdded
<1> QED
  BY <1>3, <1>5 DEF OneMore, SameAsked, SameToRun

\* The callback that has been added is known, if it and the future that it was added to
\* have been made.
LEMMA KnownAdded ==
  ASSUME KnownOK, Keeps, NEW cb \in CallbackSet, NEW y \in Futures, NEW n, OneMore(asked, asked', ran', y, cb, n),
         IsMade(state[y]), cb.to \in Nodes \/ IsMade(state'[cb.to])
  PROVE  Known(state', asked', cb)
<1>1. Places(asked', cb) = Places(asked, cb) \cup {<<y, n>>}
  BY DEF OneMore
<1>2. \A p \in Places(asked, cb) : p[1] \in Futures /\ IsMade(state[p[1]])
  BY DEF KnownOK, Known, Places
<1>3. \A p \in Places(asked', cb) : IsMade(state'[p[1]])
  BY <1>1, <1>2 DEF Keeps
<1> QED
  BY <1>3 DEF Known

\* then keeps it.
LEMMA ThenKeeps ==
  ASSUME OrderInv, FateInv, NEW f \in Futures, NEW c \in Children, Then(f, c)
  PROVE  FateInv'
<1>1. PICK cb : cb = Callback("then", c)
  OBVIOUS
<1>2. PICK w, v : w = [World EXCEPT !.state[c] = Pending] /\ v = Added(w, f, cb)
  OBVIOUS
<1>3. c \in Futures /\ Typed(World) /\ state[c] = Unmade /\ cb \in CallbackSet /\ cb.to = c
  BY <1>1, CallbacksTyped DEF Futures, OrderInv, Order, Then, New, Callback
<1>4. w.asked = asked /\ \A g \in Futures : w.state[g] = IF g = c THEN Pending ELSE state[g]
  BY <1>2, <1>3, MadeDoes, WorldFields
<1>5. Typed(w)
  BY <1>2, <1>3, MadeGoes, WorldFields DEF OrderInv, Goes, Order
<1>6. Adds(w, v, f, cb)
  BY <1>2, <1>5, AddedAdds
<1>7. /\ asked' = [asked EXCEPT ![f] = Append(@, cb)]
      /\ \A g \in Futures : state'[g] = IF g = c THEN Pending ELSE state[g]
      /\ UNCHANGED <<list, count, loop, ran>>
  BY <1>1, <1>2, <1>4, <1>6 DEF Then, Become, Adds
<1>8. PICK has \in Handlers : source' = [source EXCEPT ![c] = [of |-> f, has |-> has, got |-> Pending]]
  BY DEF Then
<1>9. Keeps /\ FatesOK'
  BY <1>3, <1>7, MakingKeeps DEF FateInv, FateOK
<1>10. \A g \in Futures : g \notin {c} => state'[g] = state[g]
  BY <1>7
<1>11. PICK n \in Nat : OneMore(asked, asked', ran', f, cb, n)
  BY <1>3, <1>7, OneAsked
<1>12. \A other : other \notin {cb} => SameAsked(other) /\ SameToRun(other)
  BY <1>3, <1>7, OneAsked
<1>13. \A other : other \notin {cb} /\ other \notin {cb} => SameToRun(other)
  BY <1>12
<1>14. Known(state', asked', cb)
  <2>1. IsMade(state[f])
    BY DEF Then, Made, IsMade
  <2>2. state'[c] = Pending /\ IsMade(Pending)
    BY <1>3, <1>7 DEF IsMade, Pending
  <2> QED
    BY <1>3, <1>9, <1>11, <2>1, <2>2, KnownAdded DEF FateInv
<1>15. ChildOK(state', asked', ran', source'[c], c)
  <2>1. PICK s : s = source'[c]
    OBVIOUS
  <2>2. s = [of |-> f, has |-> has, got |-> Pending]
    BY <1>8, <2>1 DEF FateInv, ChildrenOK
  <2>3. Places(asked, cb) = {} /\ Open(asked', ran', Callback("adopt", c)) = {}
    <3>1. Callback("adopt", c) \in CallbackSet /\ Callback("adopt", c).to = c
      BY CallbacksTyped DEF Callback
    <3>2. Callback("adopt", c) # cb
      BY <1>1, CallbacksDiffer
    <3> QED
      BY <1>3, <1>12, <3>1, <3>2, UnmadeAsksNothing DEF FateInv, SameToRun
  <2>4. Places(asked', cb) = {<<f, n>>}
    BY <1>11, <2>3 DEF OneMore
  <2>5. state'[c] = Pending /\ ~IsSettled(state'[c])
    BY <1>3, <1>7, FatesSettle
  <2>6. ChildOK(state', asked', ran', s, c)
    <3>1. \A p, o \in Places(asked', Callback("then", c)) : p = o
      BY <1>1, <2>4
    <3> QED
      BY <2>2, <2>3, <2>5, <3>1, ChildWaits
  <2> QED
    BY <2>1, <2>6
<1>16. /\ \A d \in Children : d # c => source'[d] = source[d] /\ d \notin {c} /\ Callback("then", d) \notin {cb}
       /\ \A d : Callback("adopt", d) \notin {cb} /\ Callback("loop", d) \notin {cb} /\ Callback("all", d) \notin {cb}
       /\ \A l \in Loops : l \notin {c}
  BY <1>1, <1>8, CallbacksDiffer, NamesAssumption DEF FateInv, ChildrenOK
<1>17. /\ \A d \in Children : d # c => ChildOK(state', asked', ran', source'[d], d)
       /\ \A l \in Loops : LoopOK(state', asked', ran', loop'[l], l)
       /\ \A a \in Alls : AllOK(asked', ran', list'[a], count'[a], a)
       /\ \A other \in CallbackSet : other \notin {cb} => Known(state', asked', other)
  BY <1>7, <1>9, <1>10, <1>12, <1>13, <1>16, Rest
<1>18. source' = [d \in Children |-> source'[d]]
  BY <1>8 DEF FateInv, ChildrenOK
<1> QED
  BY <1>7, <1>9, <1>14, <1>15, <1>17, <1>18 DEF FateInv, ChildrenOK, LoopsOK, AllsOK, KnownOK

\* A node-style callback keeps it.
LEMMA NodeStyleKeeps ==
  ASSUME OrderInv, FateInv, NEW f \in Futures, NEW m \in Nodes, NodeStyle(f, m)
  PROVE  FateInv'
<1>1. PICK cb : cb = Callback("node", m)
  OBVIOUS
<1>2. cb \in CallbackSet /\ cb.to = m /\ Typed(World)
  BY <1>1, CallbacksTyped DEF OrderInv, Order, Callback
<1>3. Adds(World, Added(World, f, cb), f, cb)
  BY <1>2, AddedAdds
<1>4. /\ asked' = [asked EXCEPT ![f] = Append(@, cb)]
      /\ \A g \in Futures : state'[g] = state[g]
      /\ UNCHANGED <<source, list, count, loop, ran>>
  BY <1>1, <1>3, WorldFields DEF NodeStyle, Become, Adds
<1>5. Keeps /\ FatesOK'
  BY <1>4 DEF Keeps, FateInv, FatesOK
<1>6. PICK n \in Nat : OneMore(asked, asked', ran', f, cb, n)
  BY <1>2, <1>4, OneAsked
<1>7. \A other : other \notin {cb} => SameAsked(other) /\ SameToRun(other)
  BY <1>2, <1>4, OneAsked
<1>8. \A other : other \notin {cb} /\ other \notin {cb} => SameToRun(other)
  BY <1>7
<1>9. Known(state', asked', cb)
  <2>1. IsMade(state[f])
    BY DEF NodeStyle, Made, IsMade
  <2> QED
    BY <1>2, <1>5, <1>6, <2>1, KnownAdded DEF FateInv
<1>10. /\ \A d : /\ Callback("then", d) \notin {cb} /\ Callback("adopt", d) \notin {cb}
                 /\ Callback("loop", d) \notin {cb} /\ Callback("all", d) \notin {cb}
  BY <1>1, CallbacksDiffer
<1>11. PICK X : X = {}
  OBVIOUS
<1>12. /\ \A g \in Futures : g \notin X => state'[g] = state[g]
       /\ \A g : g \notin X
  BY <1>4, <1>11
<1>13. /\ \A d \in Children : ChildOK(state', asked', ran', source'[d], d)
       /\ \A l \in Loops : LoopOK(state', asked', ran', loop'[l], l)
       /\ \A a \in Alls : AllOK(asked', ran', list'[a], count'[a], a)
       /\ \A other \in CallbackSet : other \notin {cb} => Known(state', asked', other)
  BY <1>4, <1>5, <1>7, <1>8, <1>10, <1>12, Rest
<1> QED
  BY <1>4, <1>5, <1>9, <1>13 DEF FateInv, ChildrenOK, LoopsOK, AllsOK, KnownOK

\* A step of all or race that asks for the elements at some positions.
LEMMA WaitingAsked ==
  ASSUME OrderInv, KnownOK, Keeps, NEW fs \in Lists, NEW these \in SUBSET DOMAIN fs, NEW cb \in CallbackSet,
         asked' = [x \in Futures |-> asked[x] \o Again(fs, these, x, cb)], ran' = ran,
         \A i \in these : fs[i] \in Futures /\ IsMade(state[fs[i]]), IsMade(state'[cb.to])
  PROVE  /\ \A other : other \notin {cb} => SameAsked(other) /\ SameToRun(other)
         /\ Known(state', asked', cb)
         /\ Places(asked, cb) = {} => /\ IsFiniteSet(Places(asked', cb))
                                      /\ Cardinality(Places(asked', cb)) <= Cardinality(these)
<1>1. asked \in [Futures -> Seq(CallbackSet)]
  BY WorldFields DEF OrderInv, Order, Typed
<1>2. these \in SUBSET Nat /\ IsFiniteSet(these)
  BY PositionsOfFutures
<1>3. PICK bs : bs = asked'
  OBVIOUS
<1>4. \A x \in Futures : bs[x] = asked[x] \o Again(fs, these, x, cb)
  BY <1>3
<1>5. /\ \A other : other # cb => Places(bs, other) = Places(asked, other)
      /\ \A p \in Places(bs, cb) : p \in Places(asked, cb) \/ \E i \in these : fs[i] = p[1]
      /\ Places(asked, cb) = {} => /\ IsFiniteSet(Places(bs, cb))
                                   /\ Cardinality(Places(bs, cb)) <= Cardinality(these)
  <2>1. MoreIsAsked(asked, bs, fs, these, cb)
    BY <1>4, Zenon DEF MoreIsAsked
  <2>2. PlacesGained(asked, bs, fs, these, cb)
    BY <1>1, <1>2, <2>1, WaitingGains
  <2> QED
    BY <2>2, Zenon DEF PlacesGained
<1>6. \A other : other # cb => Places(asked', other) = Places(asked, other)
  BY <1>3, <1>5
<1>7. \A other : other # cb => Open(asked', ran', other) = Open(asked, ran, other)
  BY <1>6 DEF Open
<1>8. \A p \in Places(asked', cb) : IsMade(state'[p[1]])
  <2>1. ASSUME NEW p \in Places(bs, cb) PROVE IsMade(state'[p[1]])
    <3>1. CASE p \in Places(asked, cb)
      <4>1. p[1] \in Futures /\ IsMade(state[p[1]])
        BY <3>1 DEF KnownOK, Known, Places
      <4> QED
        BY <4>1 DEF Keeps
    <3>2. CASE \E i \in these : fs[i] = p[1]
      BY <3>2 DEF Keeps
    <3> QED
      BY <1>5, <2>1, <3>1, <3>2
  <2> QED
    BY <1>3, <2>1
<1> QED
  BY <1>3, <1>5, <1>6, <1>7, <1>8 DEF Known, SameAsked, SameToRun

\* A step that makes the future a of all.
LEMMA AllMade ==
  ASSUME OrderInv, FateInv, NEW fs \in Lists, NEW a \in Alls, New(a), Keeps, FatesOK',
         \A g \in Futures : g \notin {a} => state'[g] = state[g],
         NEW these \in SUBSET DOMAIN fs, NEW at, list' = [list EXCEPT ![a] = [of |-> fs, at |-> at]],
         count' = [count EXCEPT ![a] = Cardinality(these)],
         UNCHANGED <<source, loop, ran>>, NEW cb, cb = Callback("all", a),
         \A other : other \notin {cb} => SameAsked(other) /\ SameToRun(other),
         Known(state', asked', cb),
         IsFiniteSet(Places(asked', cb)), Cardinality(Places(asked', cb)) <= Cardinality(these)
  PROVE  FateInv'
<1>1. /\ \A d \in Alls : d # a => list'[d] = list[d] /\ count'[d] = count[d] /\ Callback("all", d) \notin {cb}
      /\ \A d : /\ Callback("then", d) \notin {cb} /\ Callback("adopt", d) \notin {cb}
                /\ Callback("loop", d) \notin {cb}
      /\ \A x \in Children \cup Loops : x \notin {a}
  BY CallbacksDiffer, NamesAssumption DEF FateInv, AllsOK
<1>2. \A other : other \notin {cb} /\ other \notin {cb} => SameToRun(other)
  OBVIOUS
<1>3. /\ \A d \in Children : ChildOK(state', asked', ran', source'[d], d)
      /\ \A l \in Loops : LoopOK(state', asked', ran', loop'[l], l)
      /\ \A d \in Alls : d # a => AllOK(asked', ran', list'[d], count'[d], d)
      /\ \A other \in CallbackSet : other \notin {cb} => Known(state', asked', other)
  BY <1>1, <1>2, Rest
<1>4. AllOK(asked', ran', list'[a], count'[a], a)
  <2>1. PICK s, n : s = list'[a] /\ n = count'[a]
    OBVIOUS
  <2>2. s = [of |-> fs, at |-> at] /\ n = Cardinality(these)
    BY <2>1 DEF FateInv, AllsOK
  <2>3. PICK S, P : S = Open(asked', ran', cb) /\ P = Places(asked', cb)
    OBVIOUS
  <2>4. IsFiniteSet(S) /\ Cardinality(S) <= Cardinality(P)
    <3>1. S \subseteq P /\ IsFiniteSet(P)
      BY <2>3, Asking
    <3> QED
      BY <3>1, FS_Subset
  <2>5. Cardinality(these) \in 0 .. Len(fs) /\ Cardinality(S) <= Cardinality(these)
    <3>1. Len(fs) \in Nat /\ DOMAIN fs = 1 .. Len(fs)
      BY PositionsOfFutures
    <3>2. PICK m \in Nat : m = Len(fs)
      BY <3>1
    <3>3. IsFiniteSet(1 .. m) /\ Cardinality(1 .. m) = m
      BY FS_Interval
    <3>4. these \subseteq 1 .. m
      BY <3>1, <3>2
    <3>5. IsFiniteSet(these) /\ Cardinality(these) <= m
      BY <3>3, <3>4, FS_Subset
    <3>6. Cardinality(these) \in Nat /\ Cardinality(S) \in Nat /\ Cardinality(P) \in Nat
      BY <2>3, <2>4, <3>5, FS_CardinalityType
    <3>7. Cardinality(P) <= Cardinality(these)
      BY <2>3
    <3> HIDE <2>3
    <3> QED
      BY <2>4, <3>2, <3>5, <3>6, <3>7
  <2>6. s = [of |-> s.of, at |-> s.at] /\ s.of = fs /\ Len(fs) \in Nat /\ DOMAIN fs = 1 .. Len(fs)
    BY <2>2, PositionsOfFutures
  <2>7. AllOK(asked', ran', s, n, a)
    BY <2>2, <2>3, <2>4, <2>5, <2>6 DEF AllOK
  <2> QED
    BY <2>1, <2>7
<1>5. /\ count' = [d \in Alls |-> count'[d]]
      /\ list' = [x \in Alls \cup Races |-> list'[x]]
  BY DEF FateInv, AllsOK
<1> QED
  BY <1>3, <1>4, <1>5 DEF FateInv, ChildrenOK, LoopsOK, AllsOK, KnownOK

\* A step that asks for nothing.
LEMMA NoneAsked ==
  ASSUME FateInv, Keeps, asked' = asked, ran' = ran
  PROVE  /\ \A cb : SameAsked(cb) /\ SameToRun(cb)
         /\ \A cb \in CallbackSet : Known(state', asked', cb)
<1>1. \A cb : SameAsked(cb) /\ SameToRun(cb)
  BY NothingAsked
<1> QED
  BY <1>1, KnownFrame DEF FateInv, KnownOK

\* The world in which x has been made.
Making(v, x, s) ==
  /\ v.asked = asked
  /\ \A f \in Futures : v.state[f] = IF f = x THEN s ELSE state[f]

\* The fields of that world.
LEMMA MakingWorld ==
  ASSUME OrderInv
  PROVE  \A x \in Futures : \A s : Making([World EXCEPT !.state[x] = s], x, s)
<1>1. SUFFICES ASSUME NEW x \in Futures, NEW s PROVE Making([World EXCEPT !.state[x] = s], x, s)
  OBVIOUS
<1>2. PICK v : v = [World EXCEPT !.state[x] = s]
  OBVIOUS
<1>3. Making(v, x, s)
  BY <1>2, MadeDoes, WorldFields DEF Making, OrderInv, Order
<1> QED
  BY <1>2, <1>3

\* all keeps whom a fate is for, whether it is settled at once, throws or waits.
LEMMA AllKeeps ==
  ASSUME FuturesAreNoLists, OrderInv, FateInv, NEW fs \in Lists, NEW a \in Alls, All(a, fs)
  PROVE  FateInv'
<1>1. PICK these : these = {i \in DOMAIN fs : fs[i] # Plain}
  OBVIOUS
<1>2. PICK cb : cb = Callback("all", a)
  OBVIOUS
<1>3. PICK w : w = [World EXCEPT !.state[a] = Pending]
  OBVIOUS
<1>4. PICK at : at = Len(settled)
  OBVIOUS
<1>5. /\ New(a) /\ state[a] = Unmade
      /\ \A i \in these : Made(fs[i])
      /\ list' = [list EXCEPT ![a] = [of |-> fs, at |-> at]]
      /\ count' = [count EXCEPT ![a] = Cardinality(these)]
      /\ UNCHANGED <<source, loop, ran>>
      /\ \/ fs = <<>> /\ Become(FutureCallback(w, a, Undefined, <<>>))
         \/ Become([World EXCEPT !.state[a] = Thrown])
         \/ Become(Waiting(w, fs, these, cb))
  BY <1>1, <1>2, <1>3, <1>4 DEF All, New
<1>6. /\ a \in Futures /\ Typed(World) /\ cb \in CallbackSet /\ cb.to = a
      /\ these \in SUBSET DOMAIN fs
  BY <1>1, <1>2, CallbacksTyped DEF Futures, OrderInv, Order, Callback
<1>7. /\ w.asked = asked /\ Typed(w)
      /\ \A g \in Futures : w.state[g] = IF g = a THEN Pending ELSE state[g]
  <2>1. w.asked = asked /\ \A g \in Futures : w.state[g] = IF g = a THEN Pending ELSE state[g]
    <3>1. Making([World EXCEPT !.state[a] = Pending], a, Pending)
      BY <1>6, MakingWorld, Zenon
    <3> QED
      BY <1>3, <3>1 DEF Making
  <2>2. Typed(w)
    BY <1>3, <1>5, <1>6, MadeGoes, WorldFields DEF OrderInv, Goes, Order
  <2> QED
    BY <2>1, <2>2
<1>8. Places(asked, cb) = {}
  BY <1>5, <1>6, UnmadeAsksNothing DEF FateInv
<1>9. CASE \/ fs = <<>> /\ Become(FutureCallback(w, a, Undefined, <<>>))
           \/ Become([World EXCEPT !.state[a] = Thrown])
  <2>1. PICK s : /\ FateOK(s)
                 /\ asked' = asked
                 /\ \A g \in Futures : state'[g] = IF g = a THEN s ELSE state[g]
    <3>1. CASE fs = <<>> /\ Become(FutureCallback(w, a, Undefined, <<>>))
      <4>1. Only(w, FutureCallback(w, a, Undefined, <<>>), a, EndOf(Undefined, <<>>))
        BY <1>6, <1>7, FutureCallbackOnly
      <4>2. ~IsSettled(w.state[a])
        BY <1>6, <1>7, FatesSettle
      <4>3. <<>> \notin Futures
        <5>1. <<>> \in Seq({})
          BY EmptySeq
        <5> QED
          BY <5>1 DEF FuturesAreNoLists
      <4>4. FateOK(EndOf(Undefined, <<>>))
        BY <4>3, EndIsFate
      <4>5. asked' = asked /\ \A g \in Futures : state'[g] = IF g = a THEN EndOf(Undefined, <<>>) ELSE state[g]
        BY <3>1, <4>1, <4>2, <1>7 DEF Become, Only
      <4> QED
        BY <4>4, <4>5
    <3>2. CASE Become([World EXCEPT !.state[a] = Thrown])
      <4>1. PICK v : v = [World EXCEPT !.state[a] = Thrown]
        OBVIOUS
      <4>2. v.asked = asked /\ \A g \in Futures : v.state[g] = IF g = a THEN Thrown ELSE state[g]
        <5>1. Making([World EXCEPT !.state[a] = Thrown], a, Thrown)
          BY <1>6, MakingWorld, Zenon
        <5> QED
          BY <4>1, <5>1 DEF Making
      <4> QED
        BY <3>2, <4>1, <4>2 DEF Become, FateOK
    <3> QED
      BY <1>9, <3>1, <3>2
  <2>2. Keeps /\ FatesOK'
    BY <2>1, <1>5, MakingKeeps DEF FateInv
  <2>3. /\ \A other : other \notin {cb} => SameAsked(other) /\ SameToRun(other)
        /\ Known(state', asked', cb)
    BY <2>1, <2>2, <1>5, <1>6, NoneAsked
  <2>4. \A g \in Futures : g \notin {a} => state'[g] = state[g]
    BY <2>1
  <2>5. IsFiniteSet(Places(asked', cb)) /\ Cardinality(Places(asked', cb)) <= Cardinality(these)
    <3>1. these \in SUBSET Nat /\ IsFiniteSet(these)
      BY <1>6, PositionsOfFutures
    <3>2. Cardinality(these) \in Nat
      BY <3>1, FS_CardinalityType
    <3>3. PICK P : P = Places(asked', cb)
      OBVIOUS
    <3>4. IsFiniteSet(P) /\ Cardinality(P) = 0
      BY <3>3, <2>1, <1>8, FS_EmptySet
    <3>5. IsFiniteSet(P) /\ Cardinality(P) <= Cardinality(these)
      BY <3>2, <3>4
    <3> QED
      BY <3>3, <3>5
  <2> QED
    BY <1>2, <1>5, <1>6, <2>2, <2>3, <2>4, <2>5, AllMade
<1>10. CASE Become(Waiting(w, fs, these, cb))
  <2>1. WaitingTo(w, Waiting(w, fs, these, cb), fs, these, cb)
    BY <1>7, WaitingFields DEF Typed
  <2>2. /\ asked' = [x \in Futures |-> asked[x] \o Again(fs, these, x, cb)]
        /\ \A g \in Futures : state'[g] = IF g = a THEN Pending ELSE state[g]
    BY <1>7, <1>10, <2>1 DEF WaitingTo, Become
  <2>3. Keeps /\ FatesOK'
    <3>1. FateOK(Pending)
      BY DEF FateOK
    <3>2. FatesOK /\ state[a] = Unmade
      BY <1>5 DEF FateInv
    <3> QED
      BY <2>2, <3>1, <3>2, MakingKeeps
  <2>4. \A i \in these : fs[i] \in Futures /\ IsMade(state[fs[i]])
    BY <1>1, <1>5, PositionsOfFutures DEF Made, IsMade
  <2>5. IsMade(state'[cb.to])
    BY <2>2, <1>6 DEF IsMade, Pending
  <2>6. /\ \A other : other \notin {cb} => SameAsked(other) /\ SameToRun(other)
        /\ Known(state', asked', cb)
        /\ IsFiniteSet(Places(asked', cb))
        /\ Cardinality(Places(asked', cb)) <= Cardinality(these)
    BY <1>5, <1>6, <1>8, <2>2, <2>3, <2>4, <2>5, WaitingAsked DEF FateInv
  <2>7. \A g \in Futures : g \notin {a} => state'[g] = state[g]
    BY <2>2
  <2> QED
    BY <1>2, <1>5, <1>6, <2>3, <2>6, <2>7, AllMade
<1> QED
  BY <1>5, <1>9, <1>10

\* race keeps it.
LEMMA RaceKeeps ==
  ASSUME OrderInv, FateInv, NEW fs \in Lists, NEW x \in Races, Race(x, fs)
  PROVE  FateInv'
<1>1. PICK these : these = {i \in DOMAIN fs : \A j \in 1 .. i : fs[j] # Plain}
  OBVIOUS
<1>2. PICK cb : cb = Callback("race", x)
  OBVIOUS
<1>3. PICK w : w = [World EXCEPT !.state[x] = Pending]
  OBVIOUS
<1>4. PICK u : u = Waiting(w, fs, these, cb)
  OBVIOUS
<1>5. /\ state[x] = Unmade
      /\ \A y \in ToSet(fs) \ {Plain} : Made(y)
      /\ UNCHANGED <<source, count, loop, ran>>
      /\ Become(FutureCallback(u, x, Undefined, Plain)) \/ Become(u)
      /\ \E at : list' = [list EXCEPT ![x] = [of |-> fs, at |-> at]]
  BY <1>1, <1>2, <1>3, <1>4 DEF Race, RaceBegun, New
<1>6. /\ x \in Futures /\ Typed(World) /\ cb \in CallbackSet /\ cb.to = x /\ these \in SUBSET DOMAIN fs
      /\ \A i \in these : i \in DOMAIN fs /\ fs[i] # Plain
  <2>1. \A i \in these : i \in DOMAIN fs /\ fs[i] # Plain
    <3>1. ASSUME NEW i \in these PROVE fs[i] # Plain
      <4>1. i \in 1 .. Len(fs) /\ Len(fs) \in Nat /\ \A j \in 1 .. i : fs[j] # Plain
        BY <1>1, PositionsOfFutures
      <4>2. i \in 1 .. i
        BY <4>1
      <4> QED
        BY <4>1, <4>2
    <3> QED
      BY <3>1, <1>1
  <2> QED
    BY <1>1, <1>2, <2>1, CallbacksTyped DEF Futures, OrderInv, Order, Callback
<1>7. /\ w.asked = asked /\ Typed(w)
      /\ \A g \in Futures : w.state[g] = IF g = x THEN Pending ELSE state[g]
  <2>1. w.asked = asked /\ \A g \in Futures : w.state[g] = IF g = x THEN Pending ELSE state[g]
    BY <1>3, <1>6, MadeDoes, WorldFields
  <2>2. Typed(w)
    BY <1>3, <1>5, <1>6, MadeGoes, WorldFields DEF OrderInv, Goes, Order
  <2> QED
    BY <2>1, <2>2
<1>8. WaitingTo(w, u, fs, these, cb)
  BY <1>4, <1>7, WaitingFields DEF Typed
<1>9. Typed(u)
  <2>1. Goes(World, w, ran)
    BY <1>3, <1>5, <1>6, MadeGoes, WorldFields DEF OrderInv
  <2> QED
    BY <1>4, <1>6, <2>1, WaitingGoes DEF Goes, Order
<1>10. PICK s : /\ FateOK(s) /\ IsMade(s)
                /\ asked' = [y \in Futures |-> asked[y] \o Again(fs, these, y, cb)]
                /\ \A g \in Futures : state'[g] = IF g = x THEN s ELSE state[g]
  <2>1. u.asked = [y \in Futures |-> asked[y] \o Again(fs, these, y, cb)] /\ u.state = w.state
    BY <1>7, <1>8 DEF WaitingTo
  <2>2. CASE Become(u)
    BY <2>1, <2>2, <1>7 DEF Become, FateOK, IsMade, Pending
  <2>3. CASE Become(FutureCallback(u, x, Undefined, Plain))
    <3>1. Only(u, FutureCallback(u, x, Undefined, Plain), x, EndOf(Undefined, Plain))
      BY <1>6, <1>9, FutureCallbackOnly
    <3>2. ~IsSettled(u.state[x])
      BY <1>6, <1>7, <2>1, FatesSettle
    <3>3. FateOK(EndOf(Undefined, Plain)) /\ IsMade(EndOf(Undefined, Plain))
      BY EndIsFate, SettledIsMade, ValuesAreNoFutures
    <3>4. /\ asked' = [y \in Futures |-> asked[y] \o Again(fs, these, y, cb)]
          /\ \A g \in Futures : state'[g] = IF g = x THEN EndOf(Undefined, Plain) ELSE state[g]
      BY <2>1, <2>3, <3>1, <3>2, <1>7 DEF Become, Only
    <3> QED
      BY <3>3, <3>4
  <2> QED
    BY <1>5, <2>2, <2>3
<1>11. Keeps /\ FatesOK'
  BY <1>5, <1>10, MakingKeeps DEF FateInv
<1>12. \A i \in these : fs[i] \in Futures /\ IsMade(state[fs[i]])
  <2>1. \A i \in these : fs[i] \in ToSet(fs)
    BY <1>6 DEF ToSet
  <2> QED
    BY <1>5, <1>6, <2>1, PositionsOfFutures DEF Made, IsMade
<1>13. /\ \A other : other \notin {cb} => SameAsked(other) /\ SameToRun(other)
       /\ Known(state', asked', cb)
  BY <1>5, <1>6, <1>10, <1>11, <1>12, WaitingAsked DEF FateInv
<1>14. /\ \A other : other \notin {cb} /\ other \notin {cb} => SameToRun(other)
       /\ \A g \in Futures : g \notin {x} => state'[g] = state[g]
  BY <1>10, <1>13
<1>15. /\ \A d \in Alls : list'[d] = list[d]
       /\ \A d : /\ Callback("then", d) \notin {cb} /\ Callback("adopt", d) \notin {cb}
                 /\ Callback("loop", d) \notin {cb} /\ Callback("all", d) \notin {cb}
       /\ \A d \in Children \cup Loops : d \notin {x}
  <2>1. \A d \in Alls : d # x
    BY NamesAssumption
  <2> QED
    BY <1>2, <1>5, <2>1, CallbacksDiffer, NamesAssumption DEF FateInv, AllsOK
<1>16. /\ \A d \in Children : ChildOK(state', asked', ran', source'[d], d)
       /\ \A l \in Loops : LoopOK(state', asked', ran', loop'[l], l)
       /\ \A a \in Alls : AllOK(asked', ran', list'[a], count'[a], a)
       /\ \A other \in CallbackSet : other \notin {cb} => Known(state', asked', other)
  BY <1>5, <1>11, <1>13, <1>14, <1>15, Rest
<1>17. list' = [y \in Alls \cup Races |-> list'[y]]
  BY <1>5 DEF FateInv, AllsOK
<1> QED
  BY <1>5, <1>11, <1>13, <1>16, <1>17 DEF FateInv, ChildrenOK, LoopsOK, AllsOK, KnownOK

-----------------------------------------------------------------------------
(* The loops.                                                                *)

\* The fields of a loop.
LoopIs(s, pc, called, frames, body, end) ==
  /\ s = [pc |-> s.pc, called |-> s.called, frames |-> s.frames, rounds |-> s.rounds,
          body |-> s.body, end |-> s.end]
  /\ s.pc = pc /\ s.called = called /\ s.frames = frames /\ s.body = body /\ s.end = end

\* The four ways in which func returns leave the loop so.
LEMMA LoopRuns ==
  ASSUME NEW s, LoopIs(s, "run", TRUE, 1, s.body, s.end), NEW t,
         t = [s EXCEPT !.called = FALSE, !.pc = "wait", !.rounds = @ + 1]
  PROVE  /\ \A f : LoopIs(Returned([t EXCEPT !.body = f]), "wait", TRUE, 0, f, s.end)
         /\ \A f : LoopIs(Returned(Outer([t EXCEPT !.body = f])), "run", TRUE, 1, f, s.end)
         /\ \A f, e : LoopIs(Returned([t EXCEPT !.pc = "ended", !.body = f, !.end = e]), "ended", TRUE, 0, f, e)
         /\ \A f : LoopIs([t EXCEPT !.pc = "thrown", !.body = f], "thrown", FALSE, 1, f, s.end)
<1>0. ASSUME NEW u, NEW pc, NEW f, NEW e, LoopIs(u, pc, FALSE, 1, f, e)
      PROVE  LoopIs([u EXCEPT !.called = TRUE, !.frames = @ - 1], pc, TRUE, 0, f, e)
  <2>1. [u EXCEPT !.called = TRUE, !.frames = @ - 1] = [u EXCEPT !.called = TRUE, !.frames = 0]
    <3>1. u.frames - 1 = 0
      BY <1>0 DEF LoopIs
    <3> QED
      BY <3>1, Zenon
  <2>2. PICK v : v = [u EXCEPT !.called = TRUE, !.frames = 0]
    OBVIOUS
  <2>3. v = [pc |-> u.pc, called |-> TRUE, frames |-> 0, rounds |-> u.rounds, body |-> u.body, end |-> u.end]
    BY <1>0, <2>2 DEF LoopIs
  <2>4. LoopIs(v, pc, TRUE, 0, f, e)
    BY <1>0, <2>3 DEF LoopIs
  <2> QED
    BY <2>1, <2>2, <2>4
<1>1. LoopIs(t, "wait", FALSE, 1, s.body, s.end)
  BY DEF LoopIs
<1>2. ASSUME NEW f PROVE LoopIs(Returned([t EXCEPT !.body = f]), "wait", TRUE, 0, f, s.end)
  <2>1. PICK u : u = [t EXCEPT !.body = f]
    OBVIOUS
  <2>2. LoopIs(u, "wait", FALSE, 1, f, s.end)
    BY <1>1, <2>1 DEF LoopIs
  <2>3. PICK v : v = Returned(u)
    OBVIOUS
  <2>4. v = [u EXCEPT !.called = TRUE, !.frames = @ - 1]
    BY <2>2, <2>3 DEF LoopIs, Returned
  <2>5. LoopIs(v, "wait", TRUE, 0, f, s.end)
    BY <1>0, <2>2, <2>4
  <2> QED
    BY <2>1, <2>3, <2>5
<1>3. ASSUME NEW f PROVE LoopIs(Returned(Outer([t EXCEPT !.body = f])), "run", TRUE, 1, f, s.end)
  <2>1. PICK u : u = [t EXCEPT !.body = f]
    OBVIOUS
  <2>2. LoopIs(u, "wait", FALSE, 1, f, s.end)
    BY <1>1, <2>1 DEF LoopIs
  <2>3. PICK v : v = Outer(u)
    OBVIOUS
  <2>4. v = [u EXCEPT !.called = TRUE, !.pc = "run"]
    BY <2>2, <2>3 DEF LoopIs, Outer
  <2>5. LoopIs(v, "run", TRUE, 1, f, s.end)
    <3>1. v = [pc |-> "run", called |-> TRUE, frames |-> u.frames, rounds |-> u.rounds,
               body |-> u.body, end |-> u.end]
      BY <2>2, <2>4 DEF LoopIs
    <3> QED
      BY <2>2, <3>1 DEF LoopIs
  <2>6. Returned(v) = v
    BY <2>5 DEF LoopIs, Returned
  <2> QED
    BY <2>1, <2>3, <2>5, <2>6
<1>4. ASSUME NEW f, NEW e
      PROVE  LoopIs(Returned([t EXCEPT !.pc = "ended", !.body = f, !.end = e]), "ended", TRUE, 0, f, e)
  <2>1. PICK u : u = [t EXCEPT !.pc = "ended", !.body = f, !.end = e]
    OBVIOUS
  <2>2. LoopIs(u, "ended", FALSE, 1, f, e)
    BY <1>1, <2>1 DEF LoopIs
  <2>3. PICK v : v = Returned(u)
    OBVIOUS
  <2>4. v = [u EXCEPT !.called = TRUE, !.frames = @ - 1]
    BY <2>2, <2>3 DEF LoopIs, Returned
  <2>5. LoopIs(v, "ended", TRUE, 0, f, e)
    BY <1>0, <2>2, <2>4
  <2> QED
    BY <2>1, <2>3, <2>5
<1>5. ASSUME NEW f PROVE LoopIs([t EXCEPT !.pc = "thrown", !.body = f], "thrown", FALSE, 1, f, s.end)
  <2>1. PICK v : v = [t EXCEPT !.pc = "thrown", !.body = f]
    OBVIOUS
  <2>2. v = [pc |-> "thrown", called |-> t.called, frames |-> t.frames, rounds |-> t.rounds,
             body |-> f, end |-> t.end]
    BY <1>1, <2>1 DEF LoopIs
  <2>3. LoopIs(v, "thrown", FALSE, 1, f, s.end)
    BY <1>1, <2>2 DEF LoopIs
  <2> QED
    BY <2>1, <2>3
<1> QED
  BY <1>2, <1>3, <1>4, <1>5

\* A step that changes one loop, its future and its callback at most.
LEMMA LoopMoves ==
  ASSUME FateInv, Keeps, FatesOK', NEW l \in Loops, NEW s, loop' = [loop EXCEPT ![l] = s],
         LoopOK(state', asked', ran', s, l), UNCHANGED <<source, list, count>>,
         \A g \in Futures : g \notin {l} => state'[g] = state[g],
         NEW cb, cb = Callback("loop", l),
         \A other : other \notin {cb} => SameAsked(other) /\ SameToRun(other),
         Known(state', asked', cb)
  PROVE  FateInv'
<1>1. /\ \A d \in Loops : d # l => loop'[d] = loop[d] /\ Callback("loop", d) \notin {cb}
      /\ \A d : /\ Callback("then", d) \notin {cb} /\ Callback("adopt", d) \notin {cb}
                /\ Callback("all", d) \notin {cb}
      /\ \A d \in Children : d \notin {l}
      /\ loop'[l] = s
      /\ loop' = [d \in Loops |-> loop'[d]]
  BY CallbacksDiffer, NamesAssumption DEF FateInv, LoopsOK
<1>2. \A other : other \notin {cb} /\ other \notin {cb} => SameToRun(other)
  OBVIOUS
<1>3. /\ \A d \in Children : ChildOK(state', asked', ran', source'[d], d)
      /\ \A d \in Loops : d # l => LoopOK(state', asked', ran', loop'[d], d)
      /\ \A a \in Alls : AllOK(asked', ran', list'[a], count'[a], a)
      /\ \A other \in CallbackSet : other \notin {cb} => Known(state', asked', other)
  BY <1>1, <1>2, Rest
<1>4. LoopOK(state', asked', ran', loop'[l], l)
  BY <1>1
<1> QED
  BY <1>1, <1>3, <1>4 DEF FateInv, ChildrenOK, LoopsOK, AllsOK, KnownOK

\* What is known of a loop that is about to run its body.
LEMMA RunningLoop ==
  ASSUME FateInv, NEW l \in Loops, loop[l].pc = "run"
  PROVE  /\ LoopIs(loop[l], "run", TRUE, 1, loop[l].body, loop[l].end)
         /\ l \in Futures /\ IsMade(state[l]) /\ ~IsSettled(state[l])
         /\ Open(asked, ran, Callback("loop", l)) = {}
         /\ Callback("loop", l) \in CallbackSet /\ Callback("loop", l).to = l
<1>1. PICK s : s = loop[l]
  OBVIOUS
<1>2. LoopOK(state, asked, ran, s, l) /\ s.pc = "run"
  BY <1>1 DEF FateInv, LoopsOK
<1>3. LoopIs(s, "run", TRUE, 1, s.body, s.end)
  BY <1>2 DEF LoopOK, LoopIs
<1>4. s # NoLoop
  BY <1>2 DEF NoLoop
<1>5. IsMade(state[l]) /\ ~IsSettled(state[l]) /\ Open(asked, ran, Callback("loop", l)) = {}
  BY <1>2, <1>4 DEF LoopOK
<1> QED
  BY <1>1, <1>3, <1>5, CallbacksTyped DEF Futures, Callback

\* A loop that is started keeps whom a fate is for.
LEMMA StartLoopKeeps ==
  ASSUME OrderInv, FateInv, NEW l \in Loops, StartLoop(l)
  PROVE  FateInv'
<1>1. l \in Futures /\ state[l] = Unmade
  BY DEF Futures, StartLoop, New
<1>2. /\ asked' = asked /\ ran' = ran
      /\ \A g \in Futures : state'[g] = IF g = l THEN Pending ELSE state[g]
  <2>1. Making([World EXCEPT !.state[l] = Pending], l, Pending)
    BY <1>1, MakingWorld, Zenon
  <2> QED
    BY <2>1 DEF StartLoop, Become, Making
<1>3. Keeps /\ FatesOK'
  <2>1. FateOK(Pending) /\ FatesOK
    BY DEF FateOK, FateInv
  <2> QED
    BY <1>1, <1>2, <2>1, MakingKeeps
<1>4. PICK cb : cb = Callback("loop", l)
  OBVIOUS
<1>5. cb \in CallbackSet /\ cb.to = l
  BY <1>4, CallbacksTyped DEF Callback
<1>6. (\A other : SameAsked(other) /\ SameToRun(other)) /\ Known(state', asked', cb)
  BY <1>2, <1>3, <1>5, NoneAsked
<1>7. PICK s : s = Outer(NoLoop)
  OBVIOUS
<1>8. LoopIs(s, "run", TRUE, 1, Undefined, Pending)
  <2>1. s = [NoLoop EXCEPT !.pc = "run", !.frames = @ + 1]
    BY <1>7 DEF Outer, NoLoop
  <2>2. s = [pc |-> "run", called |-> TRUE, frames |-> 1, rounds |-> 0, body |-> Undefined, end |-> Pending]
    <3>1. PICK one : one = 1
      OBVIOUS
    <3>2. NoLoop.frames + 1 = one
      BY <3>1 DEF NoLoop
    <3>3. s = [NoLoop EXCEPT !.pc = "run", !.frames = one]
      BY <2>1, <3>2, Zenon
    <3> QED
      BY <3>1, <3>3 DEF NoLoop
  <2> QED
    BY <2>2 DEF LoopIs
<1>9. LoopOK(state', asked', ran', s, l)
  <2>1. Open(asked', ran', cb) = {}
    BY <1>1, <1>5, <1>6, UnmadeAsksNothing DEF FateInv, SameToRun
  <2>2. state'[l] = Pending /\ ~IsSettled(state'[l]) /\ IsMade(state'[l])
    BY <1>1, <1>2, FatesSettle, SettledIsMade
  <2> QED
    BY <1>4, <1>8, <2>1, <2>2 DEF LoopOK, LoopIs
<1>10. loop' = [loop EXCEPT ![l] = s] /\ UNCHANGED <<source, list, count>>
  BY <1>7 DEF StartLoop
<1>11. \A g \in Futures : g \notin {l} => state'[g] = state[g]
  BY <1>2
<1> QED
  BY <1>3, <1>4, <1>6, <1>9, <1>10, <1>11, LoopMoves

\* The body of a loop keeps it, however it returns.
LEMMA BodyKeeps ==
  ASSUME OrderInv, FateInv, NEW l \in Loops, BodyWaits(l) \/ BodyGoesOn(l) \/ BodyEnds(l) \/ BodyThrows(l)
  PROVE  FateInv'
<1>1. PICK s, t : s = loop[l] /\ t = [s EXCEPT !.called = FALSE, !.pc = "wait", !.rounds = @ + 1]
  OBVIOUS
<1>2. s.pc = "run" /\ UNCHANGED <<source, list, count, ran>> /\ Body(l) = t
  BY <1>1 DEF BodyWaits, BodyGoesOn, BodyEnds, BodyThrows, Running, Body
<1>3. PICK cb : cb = Callback("loop", l)
  OBVIOUS
<1>4. /\ LoopIs(s, "run", TRUE, 1, s.body, s.end)
      /\ l \in Futures /\ IsMade(state[l]) /\ ~IsSettled(state[l])
      /\ Open(asked, ran, cb) = {} /\ cb \in CallbackSet /\ cb.to = l
  BY <1>1, <1>2, <1>3, RunningLoop
<1>5. Typed(World) /\ FatesOK
  BY DEF OrderInv, Order, FateInv
<1>6. CASE BodyWaits(l)
  <2>1. PICK f \in Natives \cup Children :
          /\ Made(f)
          /\ loop' = [loop EXCEPT ![l] = Returned([t EXCEPT !.body = f])]
          /\ Become(Added(World, f, cb))
    BY <1>2, <1>3, <1>6 DEF BodyWaits
  <2>2. f \in Futures /\ IsMade(state[f])
    BY <2>1 DEF Futures, Made, IsMade
  <2>3. Adds(World, Added(World, f, cb), f, cb)
    BY <1>5, AddedAdds
  <2>4. /\ asked' = [asked EXCEPT ![f] = Append(@, cb)]
        /\ \A g \in Futures : state'[g] = state[g]
    BY <2>1, <2>3, WorldFields DEF Become, Adds
  <2>5. Keeps /\ FatesOK'
    BY <1>5, <2>4 DEF Keeps, FatesOK
  <2>6. PICK n \in Nat : OneMore(asked, asked', ran', f, cb, n)
    BY <1>2, <1>4, <2>2, <2>4, OneAsked
  <2>7. \A other : other \notin {cb} => SameAsked(other) /\ SameToRun(other)
    BY <1>2, <1>4, <2>2, <2>4, OneAsked
  <2>8. IsMade(state'[l]) /\ ~IsSettled(state'[l])
    BY <1>4, <2>4
  <2>9. Known(state', asked', cb)
    BY <1>4, <2>2, <2>5, <2>6, <2>8, KnownAdded DEF FateInv
  <2>10. PICK u : u = Returned([t EXCEPT !.body = f])
    OBVIOUS
  <2>11. LoopIs(u, "wait", TRUE, 0, f, s.end)
    BY <1>1, <1>4, <2>10, LoopRuns
  <2>12. Open(asked', ran', cb) = {<<f, n>>}
    BY <1>2, <1>4, <2>6 DEF OneMore
  <2>13. LoopOK(state', asked', ran', u, l)
    BY <1>3, <2>8, <2>11, <2>12 DEF LoopOK, LoopIs
  <2> QED
    BY <1>2, <1>3, <2>1, <2>4, <2>5, <2>7, <2>9, <2>10, <2>13, LoopMoves
<1>7. CASE BodyGoesOn(l) \/ BodyThrows(l)
  <2>1. asked' = asked /\ state' = state
    BY <1>7 DEF BodyGoesOn, BodyThrows, coreVars
  <2>2. Keeps /\ FatesOK'
    BY <1>5, <2>1 DEF Keeps, FatesOK
  <2>3. (\A other : SameAsked(other) /\ SameToRun(other)) /\ Known(state', asked', cb)
    BY <1>2, <1>4, <2>1, <2>2, NoneAsked
  <2>4. PICK u : /\ loop' = [loop EXCEPT ![l] = u]
                 /\ \/ LoopIs(u, "run", TRUE, 1, Undefined, s.end)
                    \/ LoopIs(u, "thrown", FALSE, 1, Undefined, s.end)
    <3>1. \/ loop' = [loop EXCEPT ![l] = Returned(Outer([t EXCEPT !.body = Undefined]))]
          \/ loop' = [loop EXCEPT ![l] = [t EXCEPT !.pc = "thrown", !.body = Undefined]]
      BY <1>2, <1>7, Zenon DEF BodyGoesOn, BodyThrows
    <3>2. /\ LoopIs(Returned(Outer([t EXCEPT !.body = Undefined])), "run", TRUE, 1, Undefined, s.end)
          /\ LoopIs([t EXCEPT !.pc = "thrown", !.body = Undefined], "thrown", FALSE, 1, Undefined, s.end)
      BY <1>1, <1>4, LoopRuns, Zenon
    <3> QED
      BY <3>1, <3>2, Zenon
  <2>5. Open(asked', ran', cb) = {}
    BY <1>4, <2>3 DEF SameToRun
  <2>6. LoopOK(state', asked', ran', u, l)
    BY <1>3, <1>4, <2>1, <2>4, <2>5 DEF LoopOK, LoopIs
  <2>7. \A g \in Futures : g \notin {l} => state'[g] = state[g]
    BY <2>1
  <2> QED
    BY <1>2, <1>3, <2>2, <2>3, <2>4, <2>6, <2>7, LoopMoves
<1>8. CASE BodyEnds(l)
  <2>1. PICK how \in {<<Error, Undefined>>, <<Undefined, Plain>>} :
          /\ loop' = [loop EXCEPT ![l] = Returned([t EXCEPT !.pc = "ended", !.body = Undefined,
                                                            !.end = EndOf(how[1], how[2])])]
          /\ Become(FutureCallback(World, l, how[1], how[2]))
    BY <1>2, <1>8 DEF BodyEnds, LoopEnds
  <2>2. PICK e : e = EndOf(how[1], how[2])
    OBVIOUS
  <2>3. FateOK(e) /\ IsSettled(e)
    <3>1. how[2] = Undefined \/ how[2] = Plain
      BY <2>1
    <3> QED
      BY <2>2, <3>1, EndIsFate, ValuesAreNoFutures
  <2>4. asked' = asked /\ \A g \in Futures : state'[g] = IF g = l THEN e ELSE state[g]
    <3>1. Only(World, FutureCallback(World, l, how[1], how[2]), l, EndOf(how[1], how[2]))
      BY <1>4, <1>5, FutureCallbackOnly
    <3> QED
      BY <1>4, <2>1, <2>2, <3>1, WorldFields DEF Only, Become
  <2>5. Keeps /\ FatesOK'
    <3>1. \A g \in Futures : state'[g] = IF g = l /\ ~IsSettled(state[l]) THEN e ELSE state[g]
      BY <1>4, <2>4
    <3> QED
      BY <1>5, <2>3, <3>1, SettlingKeeps
  <2>6. (\A other : SameAsked(other) /\ SameToRun(other)) /\ Known(state', asked', cb)
    BY <1>2, <1>4, <2>4, <2>5, NoneAsked
  <2>7. PICK u : u = Returned([t EXCEPT !.pc = "ended", !.body = Undefined, !.end = e])
    OBVIOUS
  <2>8. LoopIs(u, "ended", TRUE, 0, Undefined, e)
    BY <1>1, <1>4, <2>7, LoopRuns
  <2>9. LoopOK(state', asked', ran', u, l)
    <3>1. Open(asked', ran', cb) = {}
      BY <1>4, <2>6 DEF SameToRun
    <3>2. state'[l] = e /\ IsSettled(state'[l]) /\ IsMade(state'[l])
      BY <1>4, <2>3, <2>4, SettledIsMade
    <3> QED
      BY <1>3, <2>8, <3>1, <3>2 DEF LoopOK, LoopIs
  <2>10. \A g \in Futures : g \notin {l} => state'[g] = state[g]
    BY <2>4
  <2>11. loop' = [loop EXCEPT ![l] = u]
    BY <2>1, <2>2, <2>7
  <2> QED
    BY <1>2, <1>3, <2>5, <2>6, <2>9, <2>10, <2>11, LoopMoves
<1> QED
  BY <1>6, <1>7, <1>8

-----------------------------------------------------------------------------
(* The ticks.                                                                *)

\* The tick that runs callback cb of f, the n-th that was asked of f, in the world w.
Ticking(w, f, cb, n) ==
  /\ Order(w, ran') /\ w.state = state /\ w.asked = asked
  /\ f \in Futures /\ cb \in CallbackSet /\ IsSettled(state[f])
  /\ <<f, n>> \in Open(asked, ran, cb)
  /\ \A other : Open(asked, ran', other) = Open(asked, ran, other) \ {<<f, n>>}
  /\ \A other : other # cb => Open(asked, ran', other) = Open(asked, ran, other)

\* A tick begins so.
LEMMA TickStarts ==
  ASSUME OrderInv, ticks # <<>>, NEW f, f = Head(ticks).of, NEW cb, cb = Head(ticks).cb,
         ran' = Noted(World, ran)
  PROVE  \E n : Ticking(Popped(World), f, cb, n)
<1>1. Order(World, ran) /\ World.ticks = ticks /\ World.state = state /\ World.asked = asked
  BY WorldFields DEF OrderInv
<1>2. /\ Order(Popped(World), ran')
      /\ f \in Futures /\ cb \in CallbackSet
      /\ IsSettled(state[f])
      /\ Len(ran[f]) + 1 \in 1 .. Len(asked[f])
      /\ asked[f][Len(ran[f]) + 1] = cb
  BY <1>1, PoppedKeepsOrder
<1>3. Popped(World).state = state /\ Popped(World).asked = asked
  BY <1>1, WorldFields DEF Popped, IsWorld
<1>4. PICK n : n = Len(ran[f]) + 1
  OBVIOUS
<1>5. /\ Len(ran[f]) \in Nat /\ Len(ran'[f]) = Len(ran[f]) + 1
      /\ \A x \in Futures : x # f => ran'[x] = ran[x]
  <2>1. PICK S : ran \in [Futures -> Seq(S)]
    BY <1>1 DEF Order, HistoryTyped
  <2>2. PICK note : note = [cb |-> cb, fate |-> state[f]]
    OBVIOUS
  <2>3. ran' = [ran EXCEPT ![f] = Append(@, note)]
    BY <1>1, <2>2 DEF Noted
  <2>4. PICK old \in Seq(S \cup {note}) : old = ran[f]
    <3>1. ran[f] \in Seq(S)
      BY <1>2, <2>1
    <3>2. Seq(S) \subseteq Seq(S \cup {note})
      OBVIOUS
    <3> QED
      BY <3>1, <3>2
  <2>5. Len(Append(old, note)) = Len(old) + 1 /\ Len(old) \in Nat
    BY <2>4, AppendProperties, LenProperties
  <2> QED
    BY <1>2, <2>1, <2>3, <2>4, <2>5
<1>6. \A other : Open(asked, ran', other) = Open(asked, ran, other) \ {<<f, n>>}
  <2>1. PICK h : h = ran'
    OBVIOUS
  <2>2. /\ Len(ran[f]) \in Nat /\ Len(h[f]) = Len(ran[f]) + 1
        /\ \A x \in Futures : x # f => h[x] = ran[x]
    BY <1>5, <2>1
  <2>3. ASSUME NEW other
        PROVE  Open(asked, h, other) = Open(asked, ran, other) \ {<<f, Len(ran[f]) + 1>>}
    BY <1>2, <2>2, NotedOpen
  <2> QED
    BY <1>4, <2>1, <2>3
<1>7. n \in Nat /\ n \in 1 .. Len(asked[f]) /\ asked[f][n] = cb /\ Len(ran[f]) < n
  BY <1>2, <1>4, <1>5
<1>8. <<f, n>> \in Open(asked, ran, cb)
  BY <1>2, <1>7 DEF Open, Places
<1>9. \A other : other # cb => <<f, n>> \notin Open(asked, ran, other)
  BY <1>7 DEF Open, Places
<1>10. ASSUME NEW other, other # cb PROVE Open(asked, ran', other) = Open(asked, ran, other)
  <2>1. PICK S, p : S = Open(asked, ran, other) /\ p = <<f, n>>
    OBVIOUS
  <2>2. p \notin S
    BY <1>9, <1>10, <2>1
  <2>3. S \ {p} = S
    BY <2>2
  <2> QED
    BY <1>6, <2>1, <2>3
<1>11. Ticking(Popped(World), f, cb, n)
  BY <1>2, <1>3, <1>6, <1>8, <1>10, Zenon DEF Ticking
<1> QED
  BY <1>11

\* A tick that asks for nothing.
LEMMA TickRest ==
  ASSUME FateInv, Keeps, NEW w, NEW f, NEW cb, NEW n, Ticking(w, f, cb, n), asked' = asked, NEW X,
         \A g \in Futures : g \notin X => state'[g] = state[g]
  PROVE  /\ \A c \in Children :
              source'[c] = source[c] /\ c \notin X /\ Callback("then", c) # cb /\ Callback("adopt", c) # cb
              => ChildOK(state', asked', ran', source'[c], c)
         /\ \A l \in Loops :
              loop'[l] = loop[l] /\ l \notin X /\ Callback("loop", l) # cb
              => LoopOK(state', asked', ran', loop'[l], l)
         /\ \A a \in Alls :
              list'[a] = list[a] /\ count'[a] = count[a] /\ Callback("all", a) # cb
              => AllOK(asked', ran', list'[a], count'[a], a)
         /\ \A other \in CallbackSet : Known(state', asked', other)
<1>1. PICK N, P : N = {} /\ P = {cb}
  OBVIOUS
<1>2. /\ \A other : other \notin N => SameAsked(other)
      /\ \A other : other \notin N /\ other \notin P => SameToRun(other)
      /\ \A other : other \notin N /\ (other \notin P <=> other # cb)
  BY <1>1 DEF SameAsked, SameToRun, Ticking
<1>3. /\ \A c \in Children :
           source'[c] = source[c] /\ c \notin X
             /\ Callback("then", c) \notin N /\ Callback("then", c) \notin P
             /\ Callback("adopt", c) \notin N /\ Callback("adopt", c) \notin P
           => ChildOK(state', asked', ran', source'[c], c)
      /\ \A l \in Loops :
           loop'[l] = loop[l] /\ l \notin X /\ Callback("loop", l) \notin N /\ Callback("loop", l) \notin P
           => LoopOK(state', asked', ran', loop'[l], l)
      /\ \A a \in Alls :
           list'[a] = list[a] /\ count'[a] = count[a] /\ Callback("all", a) \notin N /\ Callback("all", a) \notin P
           => AllOK(asked', ran', list'[a], count'[a], a)
      /\ \A other \in CallbackSet : other \notin N => Known(state', asked', other)
  BY <1>2, Rest
<1> HIDE <1>1
<1> QED
  BY <1>2, <1>3

\* A tick that settles x with what f has been settled with, or with nothing.
LEMMA TickSettles ==
  ASSUME FateInv, NEW w, NEW f, NEW cb, NEW n, Ticking(w, f, cb, n), NEW x \in Futures, NEW fate, NEW v,
         Become(v), FateOK(fate), IsSettled(fate), Only(w, v, x, fate) \/ v = w
  PROVE  /\ Keeps /\ FatesOK' /\ asked' = asked
         /\ \A g \in Futures : g \notin {x} => state'[g] = state[g]
         /\ Only(w, v, x, fate) => state'[x] = IF IsSettled(state[x]) THEN state[x] ELSE fate
<1>1. w.state = state /\ w.asked = asked /\ FatesOK
  BY DEF Ticking, FateInv
<1>2. CASE v = w
  <2>1. asked' = asked /\ state' = state
    BY <1>1, <1>2 DEF Become
  <2>2. Keeps /\ FatesOK'
    BY <1>1, <2>1 DEF Keeps, FatesOK
  <2>3. Only(w, v, x, fate) => state'[x] = IF IsSettled(state[x]) THEN state[x] ELSE fate
    BY <1>1, <1>2, <2>1 DEF Only
  <2> QED
    BY <2>1, <2>2, <2>3
<1>3. CASE Only(w, v, x, fate)
  <2>1. asked' = asked /\ \A g \in Futures : state'[g] = IF g = x /\ ~IsSettled(state[x]) THEN fate ELSE state[g]
    BY <1>1, <1>3 DEF Become, Only
  <2>2. Keeps /\ FatesOK'
    BY <1>1, <2>1, SettlingKeeps
  <2> QED
    BY <2>1, <2>2
<1> QED
  BY <1>2, <1>3

\* What is called back with the fate of a future is no future.
LEMMA CalledBackIsFate ==
  ASSUME FatesOK, NEW f \in Futures
  PROVE  FateOK(AsCalledBack(state[f])) /\ IsSettled(AsCalledBack(state[f]))
<1>1. Val(state[f]) \notin Futures
  BY SettledFate DEF FatesOK
<1> QED
  BY <1>1, EndIsFate DEF AsCalledBack

\* The tick of race or of a node-style callback keeps whom a fate is for.
LEMMA RaceTickKeeps ==
  ASSUME FateInv, NEW w, NEW f, NEW cb, NEW n, Ticking(w, f, cb, n), cb.kind \in {"race", "node"},
         RunRace(w, f, cb.to) \/ RunNode(w), cb.kind = "race" => RunRace(w, f, cb.to), cb.kind = "node" => RunNode(w)
  PROVE  FateInv'
<1>1. UNCHANGED <<source, list, count, loop>>
  BY DEF RunRace, RunNode, Quiet
<1>2. /\ \A d : /\ Callback("then", d) # cb /\ Callback("adopt", d) # cb
                /\ Callback("loop", d) # cb /\ Callback("all", d) # cb
  BY DEF Callback
<1>3. f \in Futures /\ FatesOK /\ cb \in CallbackSet /\ Typed(w) /\ w.state = state
  BY DEF Ticking, FateInv, Order
<1>4. PICK X : /\ Keeps /\ FatesOK' /\ asked' = asked
               /\ \A g \in Futures : g \notin X => state'[g] = state[g]
               /\ \A d \in Children \cup Loops : d \notin X
  <2>1. CASE cb.kind = "race"
    <3>1. PICK x : x = cb.to
      OBVIOUS
    <3>2. x \in Races /\ x \in Futures
      BY <1>3, <2>1, <3>1 DEF CallbackSet, Futures
    <3>3. PICK v : v = FutureCallback(w, x, Reason(state[f]), Val(state[f]))
      OBVIOUS
    <3>4. Become(v)
      BY <2>1, <3>1, <3>3 DEF RunRace, Fate
    <3>5. Only(w, v, x, AsCalledBack(state[f]))
      BY <1>3, <3>2, <3>3, FutureCallbackOnly DEF AsCalledBack
    <3>6. FateOK(AsCalledBack(state[f])) /\ IsSettled(AsCalledBack(state[f]))
      BY <1>3, CalledBackIsFate
    <3>7. /\ Keeps /\ FatesOK' /\ asked' = asked
          /\ \A g \in Futures : g \notin {x} => state'[g] = state[g]
      BY <3>2, <3>4, <3>5, <3>6, TickSettles
    <3>8. \A d \in Children \cup Loops : d \notin {x}
      BY <3>2, NamesAssumption
    <3> QED
      BY <3>7, <3>8
  <2>2. CASE cb.kind = "node"
    <3>1. asked' = asked /\ state' = state
      BY <2>2 DEF RunNode, Become, Ticking
    <3>2. Keeps /\ FatesOK'
      BY <1>3, <3>1 DEF Keeps, FatesOK
    <3>3. PICK X : X = {}
      OBVIOUS
    <3>4. \A d : d \notin X
      BY <3>3
    <3> QED
      BY <3>1, <3>2, <3>4
  <2> QED
    BY <2>1, <2>2
<1>5. /\ \A c \in Children : ChildOK(state', asked', ran', source'[c], c)
      /\ \A l \in Loops : LoopOK(state', asked', ran', loop'[l], l)
      /\ \A a \in Alls : AllOK(asked', ran', list'[a], count'[a], a)
      /\ \A other \in CallbackSet : Known(state', asked', other)
  BY <1>1, <1>2, <1>4, TickRest
<1> QED
  BY <1>1, <1>4, <1>5 DEF FateInv, ChildrenOK, LoopsOK, AllsOK, KnownOK

\* The values of the elements of a list.
LEMMA ValuesAreNoFuture ==
  ASSUME FuturesAreNoLists, AllsOK, NEW a \in Alls
  PROVE  Values(a) \notin Futures
<1>1. PICK of : of = list[a].of
  OBVIOUS
<1>2. Len(of) \in Nat /\ DOMAIN of = 1 .. Len(of)
  BY <1>1 DEF AllsOK, AllOK
<1>3. PICK m \in Nat : m = Len(of)
  BY <1>2
<1>4. PICK S : S = {Val(state[of[i]]) : i \in 1 .. m}
  OBVIOUS
<1>5. PICK vs : vs = [i \in 1 .. m |-> Val(state[of[i]])]
  OBVIOUS
<1>6. vs \in [1 .. m -> S]
  BY <1>4, <1>5
<1>7. vs \in UNION {[1 .. k -> S] : k \in Nat}
  BY <1>3, <1>6
<1>8. vs \in Seq(S)
  BY <1>7, SeqDef, Zenon
<1>9. Values(a) = vs
  BY <1>1, <1>2, <1>3, <1>5 DEF Values
<1> QED
  BY <1>8, <1>9 DEF FuturesAreNoLists

\* The tick of all keeps it: it counts one less where one less has to run.
LEMMA AllTickKeeps ==
  ASSUME FuturesAreNoLists, FateInv, NEW w, NEW f, NEW cb, NEW n, Ticking(w, f, cb, n), cb.kind = "all",
         RunAll(w, f, cb.to)
  PROVE  FateInv'
<1>1. PICK a : a = cb.to
  OBVIOUS
<1>2. a \in Alls /\ a \in Futures /\ cb = Callback("all", a)
  BY <1>1 DEF Ticking, CallbackSet, Futures, Callback
<1>3. UNCHANGED <<source, list, loop>>
  BY DEF RunAll
<1>4. /\ \A d : /\ Callback("then", d) # cb /\ Callback("adopt", d) # cb
                /\ Callback("loop", d) # cb
      /\ \A d : d # a => Callback("all", d) # cb
  BY <1>1 DEF Callback
<1>5. f \in Futures /\ FatesOK /\ AllsOK /\ Typed(w)
  BY DEF Ticking, FateInv, Order
<1>6. PICK v, fate : /\ Become(v) /\ (Only(w, v, a, fate) \/ v = w)
                     /\ FateOK(fate) /\ IsSettled(fate)
  <2>1. CASE Become(w)
    <3>1. FateOK(AsCalledBack(state[f])) /\ IsSettled(AsCalledBack(state[f]))
      BY <1>5, CalledBackIsFate
    <3> QED
      BY <2>1, <3>1
  <2>2. CASE Become(FutureCallback(w, a, Reason(state[f]), Undefined))
    <3>1. Only(w, FutureCallback(w, a, Reason(state[f]), Undefined), a, EndOf(Reason(state[f]), Undefined))
      BY <1>2, <1>5, FutureCallbackOnly
    <3>2. FateOK(EndOf(Reason(state[f]), Undefined)) /\ IsSettled(EndOf(Reason(state[f]), Undefined))
      BY EndIsFate, ValuesAreNoFutures
    <3> QED
      BY <2>2, <3>1, <3>2
  <2>3. CASE Become(FutureCallback(w, a, Undefined, Values(a)))
    <3>1. Only(w, FutureCallback(w, a, Undefined, Values(a)), a, EndOf(Undefined, Values(a)))
      BY <1>2, <1>5, FutureCallbackOnly
    <3>2. FateOK(EndOf(Undefined, Values(a))) /\ IsSettled(EndOf(Undefined, Values(a)))
      BY <1>2, <1>5, EndIsFate, ValuesAreNoFuture
    <3> QED
      BY <2>3, <3>1, <3>2
  <2>4. \/ Become(w) \/ Become(FutureCallback(w, a, Reason(state[f]), Undefined))
        \/ Become(FutureCallback(w, a, Undefined, Values(a)))
    BY <1>1 DEF RunAll, Fate
  <2> QED
    BY <2>1, <2>2, <2>3, <2>4
<1>7. /\ Keeps /\ FatesOK' /\ asked' = asked
      /\ \A g \in Futures : g \notin {a} => state'[g] = state[g]
  BY <1>2, <1>6, TickSettles
<1>8. /\ \A d \in Alls : d # a => count'[d] = count[d]
      /\ count'[a] = count[a] \/ count'[a] = count[a] - 1
      /\ count' = [d \in Alls |-> count'[d]]
  BY <1>1, <1>2, <1>5 DEF RunAll, AllsOK
<1>9. \A d \in Children \cup Loops : d \notin {a}
  BY <1>2, NamesAssumption
<1>10. /\ \A c \in Children : ChildOK(state', asked', ran', source'[c], c)
       /\ \A l \in Loops : LoopOK(state', asked', ran', loop'[l], l)
       /\ \A d \in Alls : d # a => AllOK(asked', ran', list'[d], count'[d], d)
       /\ \A other \in CallbackSet : Known(state', asked', other)
  <2>1. PICK X : X = {a}
    OBVIOUS
  <2>2. /\ \A g \in Futures : g \notin X => state'[g] = state[g]
        /\ \A d \in Children \cup Loops : d \notin X
    BY <1>7, <1>9, <2>1
  <2>3. /\ \A c \in Children : source'[c] = source[c]
        /\ \A l \in Loops : loop'[l] = loop[l]
        /\ \A d \in Alls : d # a => list'[d] = list[d] /\ count'[d] = count[d] /\ Callback("all", d) # cb
    BY <1>3, <1>4, <1>8
  <2> HIDE <2>1
  <2> QED
    BY <1>4, <1>7, <2>2, <2>3, TickRest
<1>11. AllOK(asked', ran', list'[a], count'[a], a)
  <2>1. PICK s, S, T, m, k : /\ s = list[a] /\ S = Open(asked, ran, cb) /\ T = Open(asked', ran', cb)
                             /\ m = count[a] /\ k = count'[a]
    OBVIOUS
  <2>2. /\ s = [of |-> s.of, at |-> s.at] /\ Len(s.of) \in Nat /\ DOMAIN s.of = 1 .. Len(s.of)
        /\ m \in 0 .. Len(s.of) /\ IsFiniteSet(S) /\ Cardinality(S) <= m
    BY <1>2, <1>5, <2>1 DEF AllsOK, AllOK
  <2>3. T = S \ {<<f, n>>} /\ <<f, n>> \in S
    BY <1>7, <2>1 DEF Ticking
  <2>4. IsFiniteSet(T) /\ Cardinality(T) = Cardinality(S) - 1
    BY <2>2, <2>3, FS_RemoveElement
  <2>5. k \in 0 .. Len(s.of) /\ Cardinality(T) <= k
    <3>1. PICK c, d, z : c = Cardinality(S) /\ d = Cardinality(T) /\ z = Len(s.of)
      OBVIOUS
    <3>2. c \in Nat /\ d \in Nat
      BY <2>2, <2>4, <3>1, FS_CardinalityType
    <3>3. z \in Nat /\ m \in 0 .. z /\ c <= m /\ d = c - 1 /\ (k = m \/ k = m - 1)
      BY <1>8, <2>1, <2>2, <2>4, <3>1
    <3>4. k \in 0 .. z /\ d <= k
      BY <3>2, <3>3
    <3> QED
      BY <3>1, <3>4
  <2>6. AllOK(asked', ran', s, k, a)
    BY <1>2, <2>1, <2>2, <2>4, <2>5 DEF AllOK
  <2> QED
    BY <1>3, <2>1, <2>6
<1> QED
  BY <1>3, <1>5, <1>7, <1>8, <1>10, <1>11 DEF FateInv, ChildrenOK, LoopsOK, AllsOK, KnownOK

\* A tick that changes one child, its future and its callbacks at most, and asks for
\* nothing.
LEMMA ChildMoves ==
  ASSUME FateInv, Keeps, FatesOK', NEW w, NEW f, NEW cb, NEW n, Ticking(w, f, cb, n), asked' = asked,
         NEW c \in Children, cb = Callback("then", c) \/ cb = Callback("adopt", c),
         \A g \in Futures : g \notin {c} => state'[g] = state[g],
         \A d \in Children : d # c => source'[d] = source[d], source' = [d \in Children |-> source'[d]],
         UNCHANGED <<list, count, loop>>,
         ChildOK(state', asked', ran', source'[c], c)
  PROVE  FateInv'
<1>1. PICK X : X = {c}
  OBVIOUS
<1>2. /\ \A g \in Futures : g \notin X => state'[g] = state[g]
      /\ \A d \in Children : d # c => d \notin X
      /\ \A l \in Loops : l \notin X
  BY <1>1, NamesAssumption
<1>3. /\ \A d : d # c => Callback("then", d) # cb /\ Callback("adopt", d) # cb
      /\ \A d : Callback("loop", d) # cb /\ Callback("all", d) # cb
  BY DEF Callback
<1>4. /\ \A l \in Loops : loop'[l] = loop[l]
      /\ \A a \in Alls : list'[a] = list[a] /\ count'[a] = count[a]
  OBVIOUS
<1> HIDE <1>1
<1>5. /\ \A d \in Children : d # c => ChildOK(state', asked', ran', source'[d], d)
      /\ \A l \in Loops : LoopOK(state', asked', ran', loop'[l], l)
      /\ \A a \in Alls : AllOK(asked', ran', list'[a], count'[a], a)
      /\ \A other \in CallbackSet : Known(state', asked', other)
  BY <1>2, <1>3, <1>4, TickRest
<1> QED
  BY <1>5 DEF FateInv, ChildrenOK, LoopsOK, AllsOK, KnownOK

\* What resolvePromise makes of a value.
LEMMA ResolvedWithValue ==
  ASSUME NEW w, NEW r, Order(w, r), NEW c \in Children, NEW x, x \notin Futures
  PROVE  Only(w, Resolved(w, c, x), c, Fulfilled(x))
<1>1. PICK v : v = Resolved(w, c, x)
  OBVIOUS
<1>2. Only(w, v, c, Fulfilled(x))
  BY <1>1, ResolvedDoes
<1> QED
  BY <1>1, <1>2

\* A future that has waited for another takes its fate.
LEMMA AdoptKeeps ==
  ASSUME FateInv, NEW w, NEW f, NEW cb, NEW n, Ticking(w, f, cb, n), cb.kind = "adopt",
         RunAdopt(w, f, cb.to)
  PROVE  FateInv'
<1>1. PICK c : c = cb.to
  OBVIOUS
<1>2. c \in Children /\ c \in Futures /\ cb = Callback("adopt", c)
  BY <1>1 DEF Ticking, CallbackSet, Futures, Callback
<1>3. UNCHANGED <<source, list, count, loop>>
  BY DEF RunAdopt, Quiet
<1>4. f \in Futures /\ FatesOK /\ ChildrenOK /\ Order(w, ran') /\ IsSettled(state[f]) /\ FateOK(state[f])
  BY DEF Ticking, FateInv, FatesOK
<1>5. PICK v : Become(v) /\ Only(w, v, c, state[f])
  <2>1. CASE state[f].is = "rejected"
    <3>1. Become(Settled(w, c, state[f]))
      BY <1>1, <2>1 DEF RunAdopt, Fate
    <3> QED
      BY <1>2, <1>4, <3>1, SettledOnly DEF Order
  <2>2. CASE state[f].is # "rejected"
    <3>1. state[f].is = "fulfilled" /\ state[f] = Fulfilled(state[f].value) /\ state[f].value \notin Futures
      BY <1>4, <2>2, SettledFate
    <3>2. PICK x : x = state[f].value
      OBVIOUS
    <3>3. Val(state[f]) = x /\ state[f] = Fulfilled(x) /\ x \notin Futures
      BY <3>1, <3>2 DEF Val
    <3>4. Become(Resolved(w, c, x))
      BY <1>1, <2>2, <3>3 DEF RunAdopt, Fate
    <3>5. Only(w, Resolved(w, c, x), c, Fulfilled(x))
      BY <1>2, <1>4, <3>3, ResolvedWithValue
    <3> QED
      BY <3>3, <3>4, <3>5
  <2> QED
    BY <2>1, <2>2
<1>6. /\ Keeps /\ FatesOK' /\ asked' = asked
      /\ \A g \in Futures : g \notin {c} => state'[g] = state[g]
      /\ state'[c] = IF IsSettled(state[c]) THEN state[c] ELSE state[f]
  BY <1>2, <1>4, <1>5, TickSettles
<1>7. ChildOK(state', asked', ran', source'[c], c)
  <2>1. PICK s : s = source[c]
    OBVIOUS
  <2>2. ChildOK(state, asked, ran, s, c)
    BY <1>2, <1>4, <2>1 DEF ChildrenOK
  <2>3. <<f, n>> \in Open(asked, ran, cb)
    BY DEF Ticking
  <2>4. s.got = Fulfilled(f)
    BY <1>2, <2>2, <2>3 DEF ChildOK
  <2>5. state'[f] = state[f]
    BY <1>4, <1>6 DEF Keeps
  <2>6. FateTaken(state', c, Fulfilled(f))
    <3>1. PICK got : got = Fulfilled(f)
      OBVIOUS
    <3>2. got.is = "fulfilled" /\ got.value = f /\ got # Pending /\ got.value \in Futures
      BY <1>4, <3>1 DEF Fulfilled, Pending
    <3>3. FateTaken(state, c, got)
      BY <2>2, <2>4, <3>1 DEF ChildOK
    <3>4. CASE f = c
      <4>1. state[c] = Rejected(SelfError)
        BY <3>2, <3>3, <3>4 DEF FateTaken
      <4>2. state'[c] = Rejected(SelfError)
        BY <2>5, <3>4, <4>1
      <4> QED
        BY <3>1, <3>2, <3>4, <4>2 DEF FateTaken
    <3>5. CASE f # c
      <4>1. state[c] = Pending \/ state[c] = state[f]
        BY <3>2, <3>3, <3>5 DEF FateTaken
      <4>2. state'[c] = state'[f]
        BY <1>6, <2>5, <4>1, FatesSettle
      <4> QED
        BY <3>1, <3>2, <3>5, <4>2 DEF FateTaken
    <3> QED
      BY <3>4, <3>5
  <2>7. /\ Open(asked', ran', Callback("then", c)) = Open(asked, ran, Callback("then", c))
        /\ Open(asked', ran', Callback("adopt", c)) \subseteq Open(asked, ran, Callback("adopt", c))
        /\ Places(asked', Callback("then", c)) = Places(asked, Callback("then", c))
    <3>1. Callback("then", c) # cb
      BY <1>2, CallbacksDiffer
    <3> QED
      BY <1>6, <3>1 DEF Ticking
  <2>8. s.got # Pending => IsMade(state'[c])
    BY <1>2, <1>6, <2>2 DEF ChildOK, Keeps
  <2>9. ChildOK(state', asked', ran', s, c)
    BY <2>2, <2>4, <2>6, <2>7, <2>8 DEF ChildOK
  <2> QED
    BY <1>3, <2>1, <2>9
<1>8. source' = [d \in Children |-> source'[d]] /\ \A d \in Children : d # c => source'[d] = source[d]
  BY <1>3, <1>4 DEF ChildrenOK
<1> QED
  BY <1>2, <1>3, <1>6, <1>7, <1>8, ChildMoves

\* A tick of a loop's callback: its body has been settled, and the loop goes on or ends.
LEMMA LoopTickKeeps ==
  ASSUME FateInv, NEW w, NEW f, NEW cb, NEW n, Ticking(w, f, cb, n), cb.kind = "loop",
         RunLoop(w, f, cb.to)
  PROVE  FateInv'
<1>1. PICK l : l = cb.to
  OBVIOUS
<1>2. l \in Loops /\ l \in Futures /\ cb = Callback("loop", l)
  BY <1>1 DEF Ticking, CallbackSet, Futures, Callback
<1>3. UNCHANGED <<source, list, count>>
  BY DEF RunLoop
<1>4. f \in Futures /\ FatesOK /\ LoopsOK /\ Typed(w) /\ IsSettled(state[f]) /\ w.state = state /\ w.asked = asked
  BY DEF Ticking, FateInv, Order
<1>5. PICK s : s = loop[l]
  OBVIOUS
<1>6. LoopOK(state, asked, ran, s, l)
  BY <1>2, <1>4, <1>5 DEF LoopsOK
<1>7. <<f, n>> \in Open(asked, ran, cb)
  BY DEF Ticking
<1>8. s.pc = "wait"
  BY <1>2, <1>6, <1>7 DEF LoopOK
<1>9. PICK i : Open(asked, ran, cb) = {<<s.body, i>>}
  BY <1>2, <1>6, <1>8 DEF LoopOK
<1>10. s.body = f /\ Open(asked, ran', cb) = {}
  <2>1. <<s.body, i>> = <<f, n>>
    BY <1>7, <1>9
  <2>2. Open(asked, ran', cb) = Open(asked, ran, cb) \ {<<f, n>>}
    BY DEF Ticking
  <2> QED
    BY <1>9, <2>1, <2>2
<1>11. LoopIs(s, "wait", TRUE, 0, f, s.end)
  BY <1>6, <1>8, <1>10 DEF LoopOK, LoopIs
<1>12. IsMade(state[l]) /\ ~IsSettled(state[l])
  <2>1. s # NoLoop
    BY <1>8 DEF NoLoop
  <2> QED
    BY <1>6, <1>8, <2>1 DEF LoopOK
<1>13. PICK e : e = AsCalledBack(state[f])
  OBVIOUS
<1>14. FateOK(e) /\ IsSettled(e)
  BY <1>4, <1>13, CalledBackIsFate
<1>15. PICK u, v :
         /\ loop' = [loop EXCEPT ![l] = u] /\ Become(v)
         /\ \/ v = w /\ LoopIs(u, "run", TRUE, 1, f, s.end)
            \/ Only(w, v, l, e) /\ LoopIs(u, "ended", TRUE, 0, f, e)
  <2>1. CASE loop' = [loop EXCEPT ![l] = Outer(@)] /\ Become(w)
    <3>1. PICK u : u = Outer(s)
      OBVIOUS
    <3>2. loop' = [loop EXCEPT ![l] = u]
      BY <1>5, <2>1, <3>1, Zenon
    <3>3. LoopIs(u, "run", TRUE, 1, f, s.end)
      <4>1. u = [s EXCEPT !.pc = "run", !.frames = @ + 1]
        BY <1>11, <3>1 DEF Outer, LoopIs
      <4>2. PICK one : one = 1
        OBVIOUS
      <4>3. s.frames + 1 = one
        BY <1>11, <4>2 DEF LoopIs
      <4>4. u = [s EXCEPT !.pc = "run", !.frames = one]
        BY <4>1, <4>3, Zenon
      <4>5. u = [pc |-> "run", called |-> s.called, frames |-> one, rounds |-> s.rounds,
                 body |-> s.body, end |-> s.end]
        BY <1>11, <4>4 DEF LoopIs
      <4> QED
        BY <1>11, <4>2, <4>5 DEF LoopIs
    <3> QED
      BY <2>1, <3>2, <3>3
  <2>2. CASE /\ loop' = [loop EXCEPT ![l].pc = "ended", ![l].end = EndOf(Reason(state[f]), Val(state[f]))]
             /\ Become(FutureCallback(w, l, Reason(state[f]), Val(state[f])))
    <3>1. e = EndOf(Reason(state[f]), Val(state[f]))
      BY <1>13 DEF AsCalledBack
    <3>2. Only(w, FutureCallback(w, l, Reason(state[f]), Val(state[f])), l, e)
      BY <1>2, <1>4, <3>1, FutureCallbackOnly
    <3>3. PICK u : u = [s EXCEPT !.pc = "ended", !.end = e]
      OBVIOUS
    <3>4. loop' = [loop EXCEPT ![l] = u]
      <4>1. loop' = [loop EXCEPT ![l].pc = "ended", ![l].end = e]
        BY <2>2, <3>1
      <4> QED
        BY <1>4, <1>5, <3>3, <4>1 DEF LoopsOK
    <3>5. u = [pc |-> "ended", called |-> s.called, frames |-> s.frames, rounds |-> s.rounds,
               body |-> s.body, end |-> e]
      BY <1>11, <3>3 DEF LoopIs
    <3>6. LoopIs(u, "ended", TRUE, 0, f, e)
      BY <1>11, <3>5 DEF LoopIs
    <3> QED
      BY <2>2, <3>2, <3>4, <3>6
  <2>3. \/ loop' = [loop EXCEPT ![l] = Outer(@)] /\ Become(w)
        \/ /\ loop' = [loop EXCEPT ![l].pc = "ended", ![l].end = EndOf(Reason(state[f]), Val(state[f]))]
           /\ Become(FutureCallback(w, l, Reason(state[f]), Val(state[f])))
    BY <1>1, Zenon DEF RunLoop, LoopEnds, Fate
  <2> QED
    BY <2>1, <2>2, <2>3
<1>16. /\ Keeps /\ FatesOK' /\ asked' = asked
       /\ \A g \in Futures : g \notin {l} => state'[g] = state[g]
       /\ Only(w, v, l, e) => state'[l] = e
       /\ v = w => state'[l] = state[l]
  <2>1. /\ Keeps /\ FatesOK' /\ asked' = asked
        /\ \A g \in Futures : g \notin {l} => state'[g] = state[g]
        /\ Only(w, v, l, e) => state'[l] = IF IsSettled(state[l]) THEN state[l] ELSE e
    BY <1>2, <1>14, <1>15, TickSettles
  <2>2. v = w => state'[l] = state[l]
    BY <1>4, <1>15 DEF Become
  <2> QED
    BY <1>12, <2>1, <2>2
<1>17. LoopOK(state', asked', ran', u, l)
  <2>1. Open(asked', ran', cb) = {}
    BY <1>10, <1>16
  <2>2. CASE v = w /\ LoopIs(u, "run", TRUE, 1, f, s.end)
    <3>1. IsMade(state'[l]) /\ ~IsSettled(state'[l])
      BY <1>12, <1>16, <2>2
    <3> QED
      BY <1>2, <2>1, <2>2, <3>1 DEF LoopOK, LoopIs
  <2>3. CASE Only(w, v, l, e) /\ LoopIs(u, "ended", TRUE, 0, f, e)
    <3>1. state'[l] = e /\ IsMade(state'[l]) /\ IsSettled(state'[l])
      BY <1>14, <1>16, <2>3, SettledIsMade
    <3>2. f \in Futures /\ IsSettled(state'[f]) /\ e = AsCalledBack(state'[f])
      BY <1>4, <1>13, <1>16 DEF Keeps
    <3> QED
      BY <1>2, <2>1, <2>3, <3>1, <3>2 DEF LoopOK, LoopIs
  <2> QED
    BY <1>15, <2>2, <2>3
<1>18. PICK X : X = {l}
  OBVIOUS
<1>19. /\ \A g \in Futures : g \notin X => state'[g] = state[g]
       /\ \A d \in Children : d \notin X
       /\ \A d \in Loops : d # l => d \notin X /\ loop'[d] = loop[d] /\ Callback("loop", d) # cb
       /\ \A d : Callback("then", d) # cb /\ Callback("adopt", d) # cb /\ Callback("all", d) # cb
       /\ \A d \in Children : source'[d] = source[d]
       /\ \A a \in Alls : list'[a] = list[a] /\ count'[a] = count[a]
       /\ loop'[l] = u /\ loop' = [d \in Loops |-> loop'[d]]
  BY <1>2, <1>3, <1>4, <1>15, <1>16, <1>18, CallbacksDiffer, NamesAssumption DEF LoopsOK
<1> HIDE <1>18
<1>20. /\ \A d \in Children : ChildOK(state', asked', ran', source'[d], d)
       /\ \A d \in Loops : d # l => LoopOK(state', asked', ran', loop'[d], d)
       /\ \A a \in Alls : AllOK(asked', ran', list'[a], count'[a], a)
       /\ \A other \in CallbackSet : Known(state', asked', other)
  BY <1>16, <1>19, TickRest
<1> QED
  BY <1>3, <1>16, <1>17, <1>19, <1>20 DEF FateInv, ChildrenOK, LoopsOK, AllsOK, KnownOK

\* Before its handler runs a child is pending and waits for no other future; afterwards
\* its handler has run for good.
LEMMA HandlerRunsOnce ==
  ASSUME FateInv, NEW w, NEW f, NEW c \in Children, NEW cb, cb = Callback("then", c), NEW n, Ticking(w, f, cb, n)
  PROVE  /\ source[c] = [of |-> source[c].of, has |-> source[c].has, got |-> Pending]
         /\ state[c] = Pending
         /\ Open(asked, ran', cb) = {} /\ Open(asked, ran', Callback("adopt", c)) = {}
         /\ \A p, o \in Places(asked, cb) : p = o
<1>1. PICK s : s = source[c]
  OBVIOUS
<1>2. ChildOK(state, asked, ran, s, c) /\ Known(state, asked, cb) /\ FateOK(state[c])
  BY <1>1, CallbacksTyped DEF FateInv, ChildrenOK, KnownOK, FatesOK, Futures
<1>3. /\ <<f, n>> \in Open(asked, ran, cb)
      /\ Open(asked, ran', cb) = Open(asked, ran, cb) \ {<<f, n>>}
      /\ \A other : other # cb => Open(asked, ran', other) = Open(asked, ran, other)
  BY DEF Ticking
<1>4. s.got = Pending /\ \A p, o \in Places(asked, cb) : p = o
  BY <1>2, <1>3 DEF ChildOK
<1>5. s = [of |-> s.of, has |-> s.has, got |-> Pending]
  BY <1>2, <1>4 DEF ChildOK
<1>6. state[c] = Pending
  <2>1. ~IsSettled(state[c])
    BY <1>2, <1>4 DEF ChildOK, FateTaken, Pending
  <2>2. <<f, n>> \in Places(asked, cb)
    BY <1>3, Asking
  <2>3. cb.to = c /\ c \notin Nodes
    BY NamesAssumption DEF Callback, Futures
  <2>4. IsMade(state[c])
    BY <1>2, <2>2, <2>3 DEF Known
  <2> QED
    BY <1>2, <2>1, <2>4, SettledFate
<1>7. Open(asked, ran', cb) = {}
  BY <1>3, <1>4, Asking
<1>8. Open(asked, ran', Callback("adopt", c)) = {}
  <2>1. Callback("adopt", c) # cb
    BY CallbacksDiffer
  <2>2. \A p \in Open(asked, ran, Callback("adopt", c)) : s.got = Fulfilled(p[1])
    BY <1>2 DEF ChildOK
  <2>3. \A x : Fulfilled(x) # Pending
    BY FatesSettle
  <2> QED
    BY <1>3, <1>4, <2>1, <2>2, <2>3
<1> QED
  BY <1>1, <1>4, <1>5, <1>6, <1>7, <1>8

\* What the tick of a handler does: it settles the child with what the handler gives it,
\* or has it wait for a future.
LEMMA HandlerGives ==
  ASSUME FatesOK, NEW w, NEW r, Order(w, r), NEW f \in Futures, NEW c \in Children, IsSettled(state[f]),
         RunThen(w, f, c)
  PROVE  \E got, v :
           /\ source' = [source EXCEPT ![c].got = got] /\ Become(v)
           /\ \/ FateOK(got) /\ IsSettled(got) /\ Only(w, v, c, got)
              \/ \E x \in Futures : IsMade(state[x]) /\ got = Fulfilled(x) /\ v = Resolved(w, c, x)
<1>1. c \in Futures /\ Typed(w) /\ FateOK(state[f])
  BY DEF Futures, Order, FatesOK
<1>2. ASSUME NEW got, FateOK(got), IsSettled(got), source' = [source EXCEPT ![c].got = got],
             Become(Settled(w, c, got))
      PROVE  \E v : Become(v) /\ Only(w, v, c, got)
  BY <1>1, <1>2, SettledOnly
<1>3. ASSUME NEW x, x \notin Futures
      PROVE  Only(w, Resolved(w, c, x), c, Fulfilled(x)) /\ FateOK(Fulfilled(x)) /\ IsSettled(Fulfilled(x))
  BY <1>3, ResolvedWithValue, FatesSettle DEF FateOK, Fulfilled
<1>4. CASE \E x \in {Plain, Undefined} \cup {g \in uses \cap Futures : Made(g)} :
             source' = [source EXCEPT ![c].got = Fulfilled(x)] /\ Become(Resolved(w, c, x))
  <2>1. PICK x \in {Plain, Undefined} \cup {g \in uses \cap Futures : Made(g)} :
          source' = [source EXCEPT ![c].got = Fulfilled(x)] /\ Become(Resolved(w, c, x))
    BY <1>4
  <2>2. CASE x \in Futures
    <3>1. IsMade(state[x])
      BY <2>2, ValuesAreNoFutures DEF Made, IsMade
    <3> QED
      BY <2>1, <2>2, <3>1
  <2>3. CASE x \notin Futures
    BY <2>1, <2>3, <1>3
  <2> QED
    BY <2>2, <2>3
<1>5. CASE \E e : source' = [source EXCEPT ![c].got = Rejected(e)] /\ Become(Settled(w, c, Rejected(e)))
  <2>1. PICK e : source' = [source EXCEPT ![c].got = Rejected(e)] /\ Become(Settled(w, c, Rejected(e)))
    BY <1>5
  <2>2. FateOK(Rejected(e)) /\ IsSettled(Rejected(e))
    BY FatesSettle DEF FateOK, Rejected
  <2> QED
    BY <1>2, <2>1, <2>2
<1>6. CASE source' = [source EXCEPT ![c].got = state[f]] /\ Become(Settled(w, c, state[f]))
  BY <1>1, <1>2, <1>6
<1>7. CASE /\ source' = [source EXCEPT ![c].got = state[f]] /\ state[f].is # "rejected"
           /\ Become(Resolved(w, c, Val(state[f])))
  <2>1. PICK x : x = state[f].value
    OBVIOUS
  <2>2. state[f] = Fulfilled(x) /\ x \notin Futures /\ Val(state[f]) = x
    BY <1>1, <1>7, <2>1, SettledFate DEF Val
  <2>3. source' = [source EXCEPT ![c].got = Fulfilled(x)] /\ Become(Resolved(w, c, x))
    BY <1>7, <2>2
  <2> QED
    BY <2>2, <2>3, <1>3
<1>8. \/ \E x \in {Plain, Undefined} \cup {g \in uses \cap Futures : Made(g)} :
           source' = [source EXCEPT ![c].got = Fulfilled(x)] /\ Become(Resolved(w, c, x))
      \/ \E e : source' = [source EXCEPT ![c].got = Rejected(e)] /\ Become(Settled(w, c, Rejected(e)))
      \/ source' = [source EXCEPT ![c].got = state[f]] /\ Become(Settled(w, c, state[f]))
      \/ /\ source' = [source EXCEPT ![c].got = state[f]] /\ state[f].is # "rejected"
         /\ Become(Resolved(w, c, Val(state[f])))
  BY Zenon DEF RunThen, Fate
<1> QED
  BY <1>4, <1>5, <1>6, <1>7, <1>8

\* The fields of what is known of a child.
LEMMA ChildGets ==
  ASSUME NEW st, NEW as, NEW r, NEW of, NEW has, NEW got, NEW s, s = [of |-> of, has |-> has, got |-> got],
         NEW c \in Futures,
         \/ got.is = "rejected" /\ st[c] = got
         \/ got.is = "fulfilled" /\ got = Fulfilled(got.value) /\ got.value \notin Futures /\ st[c] = got
         \/ got.is = "fulfilled" /\ got = Fulfilled(got.value) /\ got.value = c /\ st[c] = Rejected(SelfError)
         \/ /\ got.is = "fulfilled" /\ got = Fulfilled(got.value) /\ got.value # c /\ got.value \in Futures
            /\ st[c] = Pending,
         \A p, o \in Places(as, Callback("then", c)) : p = o,
         Open(as, r, Callback("then", c)) = {},
         \A p \in Open(as, r, Callback("adopt", c)) : got = Fulfilled(p[1])
  PROVE  ChildOK(st, as, r, s, c)
<1>1. s.got = got /\ s = [of |-> s.of, has |-> s.has, got |-> s.got]
  OBVIOUS
<1>2. got # Pending
  BY DEF Pending
<1>3. FateTaken(st, c, got)
  <2>1. CASE got.is = "rejected" /\ st[c] = got
    BY <1>2, <2>1 DEF FateTaken
  <2>2. CASE got.is = "fulfilled" /\ got.value \notin Futures /\ st[c] = got
    BY <1>2, <2>2 DEF FateTaken
  <2>3. CASE got.is = "fulfilled" /\ got.value = c /\ st[c] = Rejected(SelfError)
    BY <1>2, <2>3 DEF FateTaken
  <2>4. CASE got.is = "fulfilled" /\ got.value # c /\ got.value \in Futures /\ st[c] = Pending
    BY <1>2, <2>4 DEF FateTaken
  <2> QED
    BY <2>1, <2>2, <2>3, <2>4
<1>4. IsMade(st[c])
  BY FatesSettle, SettledIsMade DEF IsSettled
<1> QED
  BY <1>1, <1>2, <1>3, <1>4 DEF ChildOK

\* The tick of a handler keeps it.
LEMMA ThenTickKeeps ==
  ASSUME FateInv, NEW w, NEW f, NEW cb, NEW n, Ticking(w, f, cb, n), cb.kind = "then",
         RunThen(w, f, cb.to)
  PROVE  FateInv'
<1>1. PICK c : c = cb.to
  OBVIOUS
<1>2. c \in Children /\ c \in Futures /\ cb = Callback("then", c)
  BY <1>1 DEF Ticking, CallbackSet, Futures, Callback
<1>3. UNCHANGED <<list, count, loop>>
  BY DEF RunThen
<1>4. f \in Futures /\ FatesOK /\ ChildrenOK /\ Order(w, ran') /\ IsSettled(state[f])
      /\ w.state = state /\ w.asked = asked
  BY DEF Ticking, FateInv
<1>5. /\ source[c] = [of |-> source[c].of, has |-> source[c].has, got |-> Pending]
      /\ state[c] = Pending
      /\ Open(asked, ran', cb) = {} /\ Open(asked, ran', Callback("adopt", c)) = {}
      /\ \A p, o \in Places(asked, cb) : p = o
  BY <1>2, HandlerRunsOnce
<1>6. PICK got, v :
        /\ source' = [source EXCEPT ![c].got = got] /\ Become(v)
        /\ \/ FateOK(got) /\ IsSettled(got) /\ Only(w, v, c, got)
           \/ \E x \in Futures : IsMade(state[x]) /\ got = Fulfilled(x) /\ v = Resolved(w, c, x)
  BY <1>1, <1>2, <1>4, HandlerGives
<1>7. PICK s : s = source'[c]
  OBVIOUS
<1>8. s = [of |-> source[c].of, has |-> source[c].has, got |-> got]
  BY <1>2, <1>4, <1>5, <1>6, <1>7 DEF ChildrenOK
<1>9. /\ source' = [d \in Children |-> source'[d]]
      /\ \A d \in Children : d # c => source'[d] = source[d]
  BY <1>4, <1>6 DEF ChildrenOK
<1>10. CASE FateOK(got) /\ IsSettled(got) /\ Only(w, v, c, got)
  <2>1. /\ Keeps /\ FatesOK' /\ asked' = asked
        /\ \A g \in Futures : g \notin {c} => state'[g] = state[g]
        /\ state'[c] = got
    BY <1>2, <1>5, <1>6, <1>10, FatesSettle, TickSettles
  <2>2. ChildOK(state', asked', ran', s, c)
    <3>1. \/ got.is = "rejected" /\ state'[c] = got
          \/ got.is = "fulfilled" /\ got = Fulfilled(got.value) /\ got.value \notin Futures /\ state'[c] = got
      BY <1>10, <2>1, SettledFate
    <3>2. /\ \A p, o \in Places(asked', Callback("then", c)) : p = o
          /\ Open(asked', ran', Callback("then", c)) = {}
          /\ Open(asked', ran', Callback("adopt", c)) = {}
      BY <1>2, <1>5, <2>1
    <3> QED
      BY <1>2, <1>8, <3>1, <3>2, ChildGets
  <2> QED
    BY <1>2, <1>3, <1>7, <1>9, <2>1, <2>2, ChildMoves
<1>11. ASSUME NEW x \in Futures, IsMade(state[x]), got = Fulfilled(x), v = Resolved(w, c, x)
       PROVE  FateInv'
  <2>1. PICK cb2 : cb2 = Callback("adopt", c)
    OBVIOUS
  <2>2. cb2 \in CallbackSet /\ cb2.to = c /\ cb2 # cb
    BY <1>2, <2>1, CallbacksTyped, CallbacksDiffer DEF Callback
  <2>3. PICK fate : fate = IF x = c THEN Rejected(SelfError) ELSE Pending
    OBVIOUS
  <2>4. /\ asked' = [asked EXCEPT ![x] = Append(@, cb2)]
        /\ \A g \in Futures : state'[g] = IF g = c THEN fate ELSE state[g]
    <3>1. /\ v.asked = [w.asked EXCEPT ![x] = Append(@, cb2)]
          /\ \A g \in Futures :
               v.state[g] = IF g = c /\ x = c /\ ~IsSettled(w.state[c]) THEN Rejected(SelfError) ELSE w.state[g]
      <4>1. PICK u : u = Resolved(w, c, x)
        OBVIOUS
      <4>2. /\ u.asked = [w.asked EXCEPT ![x] = Append(@, Callback("adopt", c))]
            /\ \A g \in Futures :
                 u.state[g] = IF g = c /\ x = c /\ ~IsSettled(w.state[c]) THEN Rejected(SelfError) ELSE w.state[g]
        BY <1>2, <1>4, <1>11, <4>1, ResolvedDoes
      <4> QED
        BY <1>11, <2>1, <4>1, <4>2
    <3>2. ~IsSettled(state[c])
      BY <1>5, FatesSettle
    <3> QED
      BY <1>4, <1>5, <1>6, <2>3, <3>1, <3>2 DEF Become
  <2>5. FateOK(fate) /\ IsMade(fate)
    BY <2>3, FatesSettle, SettledIsMade DEF FateOK, Rejected
  <2>6. Keeps /\ FatesOK'
    <3>1. ASSUME NEW g \in Futures
          PROVE  /\ IsSettled(state[g]) => state'[g] = state[g]
                 /\ IsMade(state[g]) => IsMade(state'[g])
                 /\ FateOK(state'[g])
      <4>1. CASE g = c
        BY <4>1, <1>5, <2>4, <2>5, FatesSettle
      <4>2. CASE g # c
        BY <4>2, <1>4, <2>4 DEF FatesOK
      <4> QED
        BY <4>1, <4>2
    <3> QED
      BY <3>1 DEF Keeps, FatesOK
  <2>7. PICK m \in Nat : OneMore(asked, asked', ran', x, cb2, m)
    <3>1. asked \in [Futures -> Seq(CallbackSet)]
      BY <1>4 DEF Order, Typed
    <3>2. PICK r : r = ran'
      OBVIOUS
    <3>3. Len(r[x]) \in Nat /\ Len(r[x]) <= Len(asked[x])
      BY <1>4, <3>2, OrderLens
    <3>4. PICK bs : bs = asked'
      OBVIOUS
    <3>5. bs[x] = Append(asked[x], cb2) /\ \A y \in Futures : y # x => bs[y] = asked[y]
      BY <2>4, <3>1, <3>4
    <3>6. \E m \in Nat : OneMore(asked, bs, r, x, cb2, m)
      BY <2>2, <3>1, <3>3, <3>5, OpenAdded
    <3> QED
      BY <3>2, <3>4, <3>6
  <2>8. /\ Open(asked', ran', cb2) = {<<x, m>>}
        /\ Open(asked', ran', cb) = {}
        /\ Places(asked', cb) = Places(asked, cb)
    BY <1>5, <2>1, <2>2, <2>7 DEF OneMore
  <2>9. Known(state', asked', cb2)
    BY <1>11, <2>2, <2>4, <2>5, <2>6, <2>7, <1>2, KnownAdded DEF FateInv
  <2>10. ChildOK(state', asked', ran', s, c)
    <3>1. got.is = "fulfilled" /\ got.value = x /\ got = Fulfilled(got.value)
      BY <1>11 DEF Fulfilled
    <3>2. \/ got.value = c /\ state'[c] = Rejected(SelfError)
          \/ got.value # c /\ got.value \in Futures /\ state'[c] = Pending
      BY <1>2, <2>3, <2>4, <3>1
    <3>3. /\ \A p, o \in Places(asked', Callback("then", c)) : p = o
          /\ Open(asked', ran', Callback("then", c)) = {}
          /\ \A p \in Open(asked', ran', Callback("adopt", c)) : got = Fulfilled(p[1])
      <4>1. \A p \in {<<x, m>>} : got = Fulfilled(p[1])
        BY <1>11
      <4> QED
        BY <1>2, <1>5, <2>1, <2>8, <4>1
    <3> QED
      BY <1>2, <1>8, <3>1, <3>2, <3>3, ChildGets
  <2>11. PICK X, N, P : X = {c} /\ N = {cb2} /\ P = {cb}
    OBVIOUS
  <2>12. /\ \A g \in Futures : g \notin X => state'[g] = state[g]
         /\ \A other : other \notin N => SameAsked(other)
         /\ \A other : other \notin N /\ other \notin P => SameToRun(other)
    <3>1. ASSUME NEW other, other # cb2
          PROVE  SameAsked(other) /\ (other # cb => SameToRun(other))
      BY <3>1, <2>7 DEF OneMore, SameAsked, SameToRun, Ticking
    <3> QED
      BY <2>4, <2>11, <3>1
  <2>13. /\ \A d \in Children : /\ d # c => d \notin X
                                /\ d # c => Callback("then", d) \notin N /\ Callback("then", d) \notin P
                                /\ d # c => Callback("adopt", d) \notin N /\ Callback("adopt", d) \notin P
         /\ \A l \in Loops : l \notin X /\ Callback("loop", l) \notin N /\ Callback("loop", l) \notin P
         /\ \A a : Callback("all", a) \notin N /\ Callback("all", a) \notin P
         /\ \A other : other # cb2 => other \notin N
    BY <1>2, <2>1, <2>11, CallbacksDiffer, NamesAssumption
  <2>14. /\ \A l \in Loops : loop'[l] = loop[l]
         /\ \A a \in Alls : list'[a] = list[a] /\ count'[a] = count[a]
    BY <1>3
  <2> HIDE <2>11
  <2>15. /\ \A d \in Children : d # c => ChildOK(state', asked', ran', source'[d], d)
         /\ \A l \in Loops : LoopOK(state', asked', ran', loop'[l], l)
         /\ \A a \in Alls : AllOK(asked', ran', list'[a], count'[a], a)
         /\ \A other \in CallbackSet : other # cb2 => Known(state', asked', other)
    BY <1>9, <2>6, <2>12, <2>13, <2>14, Rest
  <2>16. ChildOK(state', asked', ran', source'[c], c)
    BY <1>7, <2>10
  <2> QED
    BY <1>3, <1>9, <2>6, <2>9, <2>15, <2>16 DEF FateInv, ChildrenOK, LoopsOK, AllsOK, KnownOK
<1> QED
  BY <1>6, <1>10, <1>11

\* Every tick keeps it.
LEMMA TickKeeps ==
  ASSUME FuturesAreNoLists, OrderInv, FateInv, RunTick
  PROVE  FateInv'
<1>1. World.ticks = ticks /\ World.state = state
  BY WorldFields
<1>2. PICK f, cb, w : f = Head(ticks).of /\ cb = Head(ticks).cb /\ w = Popped(World)
  OBVIOUS
<1>3. /\ ran' = Noted(World, ran) /\ ticks # <<>>
      /\ CASE cb.kind = "then" -> RunThen(w, f, cb.to)
           [] cb.kind = "adopt" -> RunAdopt(w, f, cb.to)
           [] cb.kind = "all" -> RunAll(w, f, cb.to)
           [] cb.kind = "race" -> RunRace(w, f, cb.to)
           [] cb.kind = "node" -> RunNode(w)
           [] cb.kind = "loop" -> RunLoop(w, f, cb.to)
  BY <1>1, <1>2 DEF RunTick, Noted, Popped, Fate
<1>4. PICK n : Ticking(w, f, cb, n)
  BY <1>2, <1>3, TickStarts
<1>5. cb.kind \in {"then", "adopt", "all", "race", "node", "loop"}
  BY <1>4 DEF Ticking, CallbackSet
<1>6. CASE cb.kind = "then"
  BY <1>3, <1>4, <1>6, ThenTickKeeps
<1>7. CASE cb.kind = "adopt"
  BY <1>3, <1>4, <1>7, AdoptKeeps
<1>8. CASE cb.kind = "all"
  BY <1>3, <1>4, <1>8, AllTickKeeps
<1>9. CASE cb.kind \in {"race", "node"}
  BY <1>3, <1>4, <1>9, RaceTickKeeps
<1>10. CASE cb.kind = "loop"
  BY <1>3, <1>4, <1>10, LoopTickKeeps
<1> QED
  BY <1>5, <1>6, <1>7, <1>8, <1>9, <1>10

\* Every step keeps whom a fate is for.
LEMMA StepKeepsFates ==
  ASSUME FuturesAreNoLists, OrderInv, FateInv, [Next]_vars
  PROVE  FateInv'
<1>1. CASE \E f \in Natives : Native(f)
  BY <1>1, NativeKeeps
<1>2. CASE UserCode
  BY <1>2, ThenKeeps, NodeStyleKeeps, AllKeeps, RaceKeeps, StartLoopKeeps DEF UserCode
<1>3. CASE RunTick
  BY <1>3, TickKeeps
<1>4. CASE RunBody
  BY <1>4, BodyKeeps DEF RunBody
<1>5. CASE UNCHANGED vars
  BY <1>5 DEF vars, coreVars, FateInv, FatesOK, KnownOK, ChildrenOK, LoopsOK, AllsOK
<1> QED
  BY <1>1, <1>2, <1>3, <1>4, <1>5 DEF Next, Native

\* The order and whom a fate is for are an invariant.
LEMMA FateInvariant ==
  ASSUME FuturesAreNoLists
  PROVE  Spec => [](OrderInv /\ FateInv)
<1>1. Init => OrderInv /\ FateInv
  BY InitOrder, InitFates
<1>2. (OrderInv /\ FateInv) /\ [Next]_vars => (OrderInv /\ FateInv)'
  BY StepKeepsOrder, StepKeepsFates
<1> QED
  BY <1>1, <1>2, PTL DEF Spec

-----------------------------------------------------------------------------
(* What follows.                                                             *)

\* The ticks of a future stand for the places where its callbacks have still to run.
LEMMA PlacesOfTicks ==
  ASSUME NEW w, NEW r, Order(w, r), NEW f \in Futures, IsSettled(w.state[f])
  PROVE  /\ \E at :
              /\ \A k \in DOMAIN w.ticks :
                   w.ticks[k].of = f => \E m \in Nat : at[m] = k /\ <<f, m>> \in Open(w.asked, r, w.ticks[k].cb)
              /\ \A cb : \A m \in Nat :
                   <<f, m>> \in Open(w.asked, r, cb) => at[m] \in DOMAIN w.ticks /\ w.ticks[at[m]] = Tick(f, cb)
         /\ \A cb : \A p \in Open(w.asked, r, cb) : p[1] = f => \E k \in DOMAIN w.ticks : w.ticks[k] = Tick(f, cb)
<1>1. Typed(w) /\ HistoryTyped(r) /\ InOrder(w, r, f)
  BY DEF Order
<1>2. PICK q : InTurn(f, w.ticks, w.asked[f], Len(r[f]), q)
  BY <1>1 DEF InOrder
<1>3. PICK d, len, ts, of : d = Len(r[f]) /\ len = Len(w.asked[f]) /\ ts = w.ticks /\ of = w.asked[f]
  OBVIOUS
<1>4. d \in Nat /\ len \in Nat /\ d <= len
  BY <1>3, OrderLens
<1>5. /\ q \in [1 .. len - d -> DOMAIN ts] /\ DOMAIN q = 1 .. len - d
      /\ \A k \in DOMAIN ts : ts[k].of = f => \E n \in 1 .. len - d : q[n] = k
      /\ \A n \in 1 .. len - d : ts[q[n]] = Tick(f, of[d + n])
  BY <1>2, <1>3 DEF InTurn
<1>6. PICK at : at = [m \in Nat |-> q[m - d]]
  OBVIOUS
<1>7. \A cb : \A m \in Nat : <<f, m>> \in Open(w.asked, r, cb) <=> (m \in 1 .. len /\ of[m] = cb /\ d < m)
  BY <1>3 DEF Open, Places
<1>8. ASSUME NEW k \in DOMAIN ts, ts[k].of = f
      PROVE  \E m \in Nat : at[m] = k /\ <<f, m>> \in Open(w.asked, r, ts[k].cb)
  <2>1. PICK n \in 1 .. len - d : q[n] = k
    BY <1>5, <1>8
  <2>2. PICK m : m = d + n
    OBVIOUS
  <2>3. m \in Nat /\ m \in 1 .. len /\ d < m /\ m - d = n
    BY <1>4, <2>1, <2>2
  <2>4. at[m] = k
    BY <1>6, <2>1, <2>3
  <2>5. ts[k].cb = of[m]
    <3>1. ts[q[n]] = Tick(f, of[d + n])
      BY <1>5, <2>1
    <3>2. ts[k] = Tick(f, of[m])
      BY <2>1, <2>2, <3>1, Zenon
    <3> QED
      BY <3>2 DEF Tick
  <2> QED
    BY <1>7, <2>3, <2>4, <2>5
<1>9. ASSUME NEW cb, NEW m \in Nat, <<f, m>> \in Open(w.asked, r, cb)
      PROVE  at[m] \in DOMAIN ts /\ ts[at[m]] = Tick(f, cb)
  <2>1. m \in 1 .. len /\ of[m] = cb /\ d < m
    BY <1>7, <1>9
  <2>2. PICK n : n = m - d
    OBVIOUS
  <2>3. n \in 1 .. len - d /\ d + n = m
    BY <1>4, <2>1, <2>2
  <2>4. at[m] = q[n]
    BY <1>6, <2>2
  <2> QED
    BY <1>5, <2>1, <2>3, <2>4
<1>10. ASSUME NEW cb, NEW p \in Open(w.asked, r, cb), p[1] = f
       PROVE  \E k \in DOMAIN ts : ts[k] = Tick(f, cb)
  <2>1. p \in Futures \X Nat
    BY Asking
  <2>2. p = <<f, p[2]>> /\ p[2] \in Nat
    BY <1>10, <2>1
  <2> QED
    BY <1>9, <1>10, <2>2
<1>11. \A cb : \A p \in Open(w.asked, r, cb) : p[1] = f => \E k \in DOMAIN w.ticks : w.ticks[k] = Tick(f, cb)
  BY <1>3, <1>10
<1>12. /\ \A k \in DOMAIN w.ticks :
            w.ticks[k].of = f => \E m \in Nat : at[m] = k /\ <<f, m>> \in Open(w.asked, r, w.ticks[k].cb)
       /\ \A cb : \A m \in Nat :
            <<f, m>> \in Open(w.asked, r, cb) => at[m] \in DOMAIN w.ticks /\ w.ticks[at[m]] = Tick(f, cb)
  BY <1>3, <1>8, <1>9
<1> QED
  BY <1>11, <1>12, Zenon

\* A tick is of a future that has been settled, and for a callback that has to run.
LEMMA TickDue ==
  ASSUME NEW w, NEW r, Order(w, r), NEW k \in DOMAIN w.ticks, NEW f, f = w.ticks[k].of
  PROVE  /\ w.ticks[k] \in TickSet /\ f \in Futures /\ IsSettled(w.state[f])
         /\ \E m \in Nat : <<f, m>> \in Open(w.asked, r, w.ticks[k].cb)
<1>1. Typed(w) /\ w.ticks \in Seq(TickSet)
  BY DEF Order, Typed
<1>2. w.ticks[k] \in TickSet
  BY <1>1, LenProperties
<1>3. f \in Futures /\ InOrder(w, r, f)
  BY <1>2 DEF TickSet, Order
<1>4. IsSettled(w.state[f])
  BY <1>3 DEF InOrder, NoTick
<1> QED
  BY <1>2, <1>3, <1>4, PlacesOfTicks

\* The ticks of a future stand for the places where its callbacks have still to run.
LEMMA TicksArePlaces ==
  ASSUME OrderInv, NEW f \in Futures, IsSettled(state[f])
  PROVE  \E at :
           /\ \A k \in DOMAIN ticks :
                ticks[k].of = f => \E m \in Nat : at[m] = k /\ <<f, m>> \in Open(asked, ran, ticks[k].cb)
           /\ \A cb : \A m \in Nat :
                <<f, m>> \in Open(asked, ran, cb) => at[m] \in DOMAIN ticks /\ ticks[at[m]] = Tick(f, cb)
<1>1. Typed(World) /\ HistoryTyped(ran) /\ InOrder(World, ran, f)
  BY DEF OrderInv, Order
<1>2. PICK q : InTurn(f, ticks, asked[f], Len(ran[f]), q)
  BY <1>1, WorldFields DEF InOrder
<1>3. PICK d, len : d = Len(ran[f]) /\ len = Len(asked[f])
  OBVIOUS
<1>4. d \in Nat /\ len \in Nat /\ d <= len
  BY <1>3, OrderLens, WorldFields DEF OrderInv
<1>5. /\ q \in [1 .. len - d -> DOMAIN ticks] /\ DOMAIN q = 1 .. len - d
      /\ \A k \in DOMAIN ticks : ticks[k].of = f => \E n \in 1 .. len - d : q[n] = k
      /\ \A n \in 1 .. len - d : ticks[q[n]] = Tick(f, asked[f][d + n])
  BY <1>2, <1>3 DEF InTurn
<1>6. PICK at : at = [m \in Nat |-> q[m - d]]
  OBVIOUS
<1>7. \A cb : \A m \in Nat : <<f, m>> \in Open(asked, ran, cb) <=> (m \in 1 .. len /\ asked[f][m] = cb /\ d < m)
  BY <1>3 DEF Open, Places
<1>8. ASSUME NEW k \in DOMAIN ticks, ticks[k].of = f
      PROVE  \E m \in Nat : at[m] = k /\ <<f, m>> \in Open(asked, ran, ticks[k].cb)
  <2>1. PICK n \in 1 .. len - d : q[n] = k
    BY <1>5, <1>8
  <2>2. PICK m : m = d + n
    OBVIOUS
  <2>3. m \in Nat /\ m \in 1 .. len /\ d < m /\ m - d = n
    BY <1>4, <2>1, <2>2
  <2>4. at[m] = k
    BY <1>6, <2>1, <2>3
  <2>5. ticks[k].cb = asked[f][m]
    <3>1. ticks[q[n]] = Tick(f, asked[f][d + n])
      BY <1>5, <2>1
    <3>2. ticks[k] = Tick(f, asked[f][m])
      BY <2>1, <2>2, <3>1, Zenon
    <3> QED
      BY <3>2 DEF Tick
  <2> QED
    BY <1>7, <2>3, <2>4, <2>5
<1>9. ASSUME NEW cb, NEW m \in Nat, <<f, m>> \in Open(asked, ran, cb)
      PROVE  at[m] \in DOMAIN ticks /\ ticks[at[m]] = Tick(f, cb)
  <2>1. m \in 1 .. len /\ asked[f][m] = cb /\ d < m
    BY <1>7, <1>9
  <2>2. PICK n : n = m - d
    OBVIOUS
  <2>3. n \in 1 .. len - d /\ d + n = m
    BY <1>4, <2>1, <2>2
  <2>4. at[m] = q[n]
    BY <1>6, <2>2
  <2> QED
    BY <1>5, <2>1, <2>3, <2>4
<1> QED
  BY <1>8, <1>9

\* A tick is of a future that has been settled, and for a callback that has to run.
LEMMA TickIsDue ==
  ASSUME OrderInv, NEW k \in DOMAIN ticks
  PROVE  /\ ticks[k] \in TickSet /\ IsSettled(state[ticks[k].of])
         /\ \E m \in Nat : <<ticks[k].of, m>> \in Open(asked, ran, ticks[k].cb)
<1>1. World.ticks = ticks /\ World.state = state /\ World.asked = asked /\ Order(World, ran)
  BY WorldFields DEF OrderInv
<1> QED
  BY <1>1, TickDue

\* A callback that waits for a future has to run, and the other way round until the future
\* is settled.
LEMMA WaitsArePlaces ==
  ASSUME OrderInv, NEW f \in Futures, NEW cb
  PROVE  cb \in ToSet(callbacks[f]) <=> ~IsSettled(state[f]) /\ \E m \in Nat : <<f, m>> \in Open(asked, ran, cb)
<1>1. Typed(World) /\ InOrder(World, ran, f)
  BY DEF OrderInv, Order
<1>2. CASE IsSettled(state[f])
  <2>1. callbacks[f] = <<>>
    BY <1>1, <1>2, WorldFields DEF InOrder
  <2> QED
    BY <1>2, <2>1, EmptySeq DEF ToSet
<1>3. CASE ~IsSettled(state[f])
  <2>1. callbacks[f] = asked[f] /\ ran[f] = <<>> /\ asked[f] \in Seq(CallbackSet)
    BY <1>1, <1>3, WorldFields DEF InOrder, Typed
  <2>2. Len(ran[f]) = 0
    BY <2>1, EmptySeq
  <2>3. DOMAIN asked[f] = 1 .. Len(asked[f]) /\ Len(asked[f]) \in Nat
    BY <2>1, LenProperties
  <2>4. \A m \in Nat : <<f, m>> \in Open(asked, ran, cb) <=> (m \in 1 .. Len(asked[f]) /\ asked[f][m] = cb)
    <3>1. \A m \in Nat : m \in 1 .. Len(asked[f]) => 0 < m
      OBVIOUS
    <3> QED
      BY <2>2, <3>1 DEF Open, Places
  <2>5. cb \in ToSet(callbacks[f]) <=> \E m \in 1 .. Len(asked[f]) : asked[f][m] = cb
    BY <2>1, <2>3 DEF ToSet
  <2>6. 1 .. Len(asked[f]) \subseteq Nat
    BY <2>3
  <2> QED
    BY <1>3, <2>4, <2>5, <2>6
<1> QED
  BY <1>2, <1>3

\* TypeOK for any futures, lists and settings: only a pending future keeps callbacks, a tick
\* is of a settled future and for one that has been made, and all never counts below none.
THEOREM TypeCorrect ==
  ASSUME FuturesAreNoLists
  PROVE  Spec => []TypeOK
<1>1. ASSUME OrderInv, FateInv
      PROVE  TypeOK
  <2>1. ASSUME NEW f \in Futures
        PROVE  /\ state[f].is \in {"unmade", "thrown", "pending", "fulfilled", "rejected"}
               /\ callbacks[f] # <<>> => state[f] = Pending
    <3>1. FateOK(state[f])
      BY <1>1 DEF FateInv, FatesOK
    <3>2. ASSUME callbacks[f] # <<>>
          PROVE  state[f] = Pending
      <4>1. callbacks[f] \in Seq(CallbackSet)
        BY <1>1, WorldFields DEF OrderInv, Order, Typed
      <4>2. PICK cb \in CallbackSet : cb \in ToSet(callbacks[f])
        <5>1. 1 \in DOMAIN callbacks[f] /\ callbacks[f][1] \in CallbackSet
          BY <3>2, <4>1, EmptySeq, LenProperties
        <5> QED
          BY <5>1 DEF ToSet
      <4>3. PICK m \in Nat : ~IsSettled(state[f]) /\ <<f, m>> \in Open(asked, ran, cb)
        BY <1>1, <4>2, WaitsArePlaces
      <4>4. IsMade(state[f])
        <5>1. <<f, m>> \in Places(asked, cb)
          BY <4>3, Asking
        <5> QED
          BY <1>1, <5>1 DEF FateInv, KnownOK, Known
      <4> QED
        BY <3>1, <4>3, <4>4, SettledFate
    <3> QED
      BY <3>1, <3>2, SettledFate
  <2>2. ASSUME NEW k \in DOMAIN ticks
        PROVE  /\ IsSettled(state[ticks[k].of])
               /\ ticks[k].cb.to \in Nodes \/ Made(ticks[k].cb.to)
    <3>1. PICK cb : cb = ticks[k].cb
      OBVIOUS
    <3>2. cb \in CallbackSet /\ IsSettled(state[ticks[k].of]) /\ Places(asked, cb) # {}
      BY <1>1, <3>1, TickIsDue, Asking DEF TickSet
    <3>3. Known(state, asked, cb)
      BY <1>1, <3>2 DEF FateInv, KnownOK
    <3> QED
      BY <3>1, <3>2, <3>3 DEF Known, Made, IsMade
  <2>3. \A a \in Alls : count[a] \in 0 .. Len(list[a].of)
    BY <1>1 DEF FateInv, AllsOK, AllOK
  <2>4. \A l \in Loops : loop[l].pc \in {"none", "run", "wait", "ended", "thrown"}
    BY <1>1 DEF FateInv, LoopsOK, LoopOK
  <2> QED
    BY <2>1, <2>2, <2>3, <2>4 DEF TypeOK
<1> QED
  BY <1>1, FateInvariant, PTL

\* ChildTakesFate for any futures, lists and settings: the future that then has returned takes
\* what its handler has given it, the fate of a future it waits for, or SelfError.
THEOREM HandlersSettle ==
  ASSUME FuturesAreNoLists
  PROVE  Spec => []ChildTakesFate
<1>1. ASSUME OrderInv, FateInv
      PROVE  ChildTakesFate
  <2> SUFFICES ASSUME NEW c \in Children PROVE FateTaken(state, c, source[c].got)
    BY DEF ChildTakesFate, FateTaken
  <2> QED
    BY <1>1 DEF FateInv, ChildrenOK, ChildOK
<1> QED
  BY <1>1, FateInvariant, PTL

\* LoopIsExact for any futures, lists and settings: a loop waits for one body at a time, on one
\* frame, and is settled with what has ended it.
THEOREM OneBodyAtATime ==
  ASSUME FuturesAreNoLists
  PROVE  Spec => []LoopIsExact
<1>1. ASSUME OrderInv, FateInv
      PROVE  LoopIsExact
  <2> SUFFICES ASSUME NEW l \in Loops, NEW cb, cb = Callback("loop", l),
                      NEW waits, waits = {f \in Futures : cb \in ToSet(callbacks[f])},
                      NEW due, due = {k \in DOMAIN ticks : ticks[k].cb = cb}
               PROVE  /\ Cardinality(waits) + Cardinality(due) = IF loop[l].pc = "wait" THEN 1 ELSE 0
                      /\ loop[l].frames <= 1
                      /\ IsSettled(state[l]) <=> loop[l].pc = "ended"
                      /\ loop[l].pc = "ended" =>
                           /\ state[l] = loop[l].end
                           /\ loop[l].body # Undefined => loop[l].end = AsCalledBack(state[loop[l].body])
    BY DEF LoopIsExact
  <2>1. PICK s : s = loop[l]
    OBVIOUS
  <2>2. LoopOK(state, asked, ran, s, l)
    BY <1>1, <2>1 DEF FateInv, LoopsOK
  <2>3. /\ s.frames <= 1
        /\ IsSettled(state[l]) <=> s.pc = "ended"
        /\ s.pc = "ended" => /\ state[l] = s.end
                             /\ s.body # Undefined => s.end = AsCalledBack(state[s.body])
    BY <2>2 DEF LoopOK
  <2>4. \A f : f \in waits <=> f \in Futures /\ ~IsSettled(state[f]) /\ \E m \in Nat : <<f, m>> \in Open(asked, ran, cb)
    BY <1>1, WaitsArePlaces
  <2>5. \A k \in due : /\ k \in DOMAIN ticks /\ ticks[k].of \in Futures /\ IsSettled(state[ticks[k].of])
                       /\ \E m \in Nat : <<ticks[k].of, m>> \in Open(asked, ran, cb)
    BY <1>1, TickIsDue DEF TickSet
  <2>6. Cardinality({}) = 0 /\ \A x : Cardinality({x}) = 1
    BY FS_EmptySet, FS_Singleton
  <2>7. CASE s.pc # "wait"
    <3>1. Open(asked, ran, cb) = {}
      BY <2>2, <2>7 DEF LoopOK
    <3>2. waits = {} /\ due = {}
      BY <2>4, <2>5, <3>1
    <3>3. Cardinality(waits) = 0 /\ Cardinality(due) = 0
      BY <2>6, <3>2
    <3> QED
      BY <2>1, <2>3, <2>7, <3>3
  <2>8. CASE s.pc = "wait"
    <3>1. PICK b, i : i \in Nat /\ Open(asked, ran, cb) = {<<b, i>>}
      BY <2>2, <2>8 DEF LoopOK
    <3>2. b \in Futures
      <4>1. <<b, i>> \in Futures \X Nat
        BY <3>1, Asking
      <4> QED
        BY <4>1
    <3>3. \A f, m : <<f, m>> \in Open(asked, ran, cb) <=> f = b /\ m = i
      BY <3>1
    <3>4. CASE ~IsSettled(state[b])
      <4>1. waits = {b} /\ due = {}
        BY <2>4, <2>5, <3>1, <3>2, <3>3, <3>4
      <4>2. Cardinality(waits) = 1 /\ Cardinality(due) = 0
        BY <2>6, <4>1
      <4> QED
        BY <2>1, <2>3, <2>8, <4>2
    <3>5. CASE IsSettled(state[b])
      <4>1. PICK at :
              /\ \A k \in DOMAIN ticks :
                   ticks[k].of = b => \E m \in Nat : at[m] = k /\ <<b, m>> \in Open(asked, ran, ticks[k].cb)
              /\ \A other : \A m \in Nat :
                   <<b, m>> \in Open(asked, ran, other) => at[m] \in DOMAIN ticks /\ ticks[at[m]] = Tick(b, other)
        BY <1>1, <3>2, <3>5, TicksArePlaces
      <4>2. waits = {}
        BY <2>4, <3>3, <3>5
      <4>3. at[i] \in due
        <5>1. at[i] \in DOMAIN ticks /\ ticks[at[i]] = Tick(b, cb)
          BY <3>1, <3>3, <4>1
        <5> QED
          BY <5>1 DEF Tick
      <4>4. \A k \in due : k = at[i]
        <5>1. ASSUME NEW k \in due PROVE k = at[i]
          <6>1. ticks[k].of = b /\ k \in DOMAIN ticks /\ ticks[k].cb = cb
            BY <2>5, <3>3
          <6> QED
            <7>1. PICK m \in Nat : at[m] = k /\ <<b, m>> \in Open(asked, ran, ticks[k].cb)
              BY <4>1, <6>1, Zenon
            <7>2. m = i
              BY <3>3, <6>1, <7>1
            <7> QED
              BY <7>1, <7>2
        <5> QED
          BY <5>1
      <4>5. due = {at[i]}
        BY <4>3, <4>4
      <4>6. Cardinality(waits) = 0 /\ Cardinality(due) = 1
        BY <2>6, <4>2, <4>5
      <4> QED
        BY <2>1, <2>3, <2>8, <4>6
    <3> QED
      BY <3>4, <3>5
  <2> QED
    BY <2>7, <2>8
<1> QED
  BY <1>1, FateInvariant, PTL

-----------------------------------------------------------------------------
(* First of several.                                                         *)

\* Where f stands first in s.
Pos(s, f) == IF {i \in 1 .. Len(s) : s[i] = f} # {} THEN Min({i \in 1 .. Len(s) : s[i] = f}) ELSE 0

\* A finite set of numbers has a least.
LEMMA LeastOf ==
  ASSUME NEW these \in SUBSET Nat, IsFiniteSet(these), these # {}
  PROVE  Min(these) \in these /\ \A i \in these : Min(these) <= i
<1>1. /\ Cardinality(these) \in Nat
      /\ \A i \in these : Rank(these, i) \in 1 .. Cardinality(these)
      /\ \A i, k \in these : i < k => Rank(these, i) < Rank(these, k)
      /\ \A n \in 1 .. Cardinality(these) : Nth(these, n) \in these /\ Rank(these, Nth(these, n)) = n
  BY Ranked
<1>2. PICK m : m = Nth(these, 1)
  OBVIOUS
<1>3. m \in these /\ Rank(these, m) = 1
  <2>1. 1 \in 1 .. Cardinality(these)
    <3>1. PICK i \in these : TRUE
      OBVIOUS
    <3>2. PICK c \in Nat : c = Cardinality(these)
      BY <1>1
    <3>3. Rank(these, i) \in 1 .. c
      BY <1>1, <3>2
    <3> QED
      BY <3>2, <3>3
  <2> QED
    BY <1>1, <1>2, <2>1
<1>4. \A i \in these : m <= i
  <2> SUFFICES ASSUME NEW i \in these, ~(m <= i) PROVE FALSE
    OBVIOUS
  <2>1. i < m
    BY <1>3
  <2>2. Rank(these, i) < 1 /\ Rank(these, i) \in 1 .. Cardinality(these)
    BY <1>1, <1>3, <2>1
  <2> QED
    BY <1>1, <2>2
<1> QED
  BY <1>3, <1>4 DEF Min

\* The first of those in a sequence with a property.
LEMMA SelectedIs ==
  ASSUME NEW n \in Nat, NEW these, these \subseteq 1 .. n,
         NEW k, k = IF these # {} THEN Min(these) ELSE 0
  PROVE  /\ k \in 0 .. n
         /\ these # {} => k \in these /\ \A i \in these : k <= i
         /\ these = {} => k = 0
<1>1. these \in SUBSET Nat /\ IsFiniteSet(these)
  <2>1. IsFiniteSet(1 .. n)
    BY FS_Interval
  <2>2. IsFiniteSet(these)
    BY <2>1, FS_Subset
  <2> QED
    BY <2>2
<1>2. CASE these = {}
  BY <1>2
<1>3. CASE these # {}
  <2>1. Min(these) \in these /\ \A i \in these : Min(these) <= i
    BY <1>1, <1>3, LeastOf
  <2>2. k \in these /\ \A i \in these : k <= i
    BY <1>3, <2>1, Zenon
  <2>3. k \in 1 .. n
    BY <2>2
  <2>4. k \in 0 .. n
    BY <2>3
  <2> QED
    BY <1>3, <2>2, <2>4
<1> QED
  BY <1>2, <1>3

\* Where f first stands in a sequence, if it does.
LEMMA PosIs ==
  ASSUME NEW S, NEW s \in Seq(S), NEW f
  PROVE  /\ Pos(s, f) \in 0 .. Len(s) /\ Pos(s, f) \in Nat
         /\ f \in ToSet(s) => /\ Pos(s, f) \in 1 .. Len(s) /\ s[Pos(s, f)] = f
                              /\ \A i \in 1 .. Len(s) : s[i] = f => Pos(s, f) <= i
         /\ f \notin ToSet(s) => Pos(s, f) = 0
<1>1. Len(s) \in Nat /\ DOMAIN s = 1 .. Len(s)
  BY LenProperties
<1>2. PICK these : these = {i \in 1 .. Len(s) : s[i] = f}
  OBVIOUS
<1>3. Pos(s, f) = IF these # {} THEN Min(these) ELSE 0
  BY <1>2 DEF Pos, SelectInSeq
<1>4. f \in ToSet(s) <=> these # {}
  BY <1>1, <1>2 DEF ToSet
<1>5. PICK k : k = Pos(s, f)
  OBVIOUS
<1>6. /\ k \in 0 .. Len(s)
      /\ these # {} => k \in these /\ \A i \in these : k <= i
      /\ these = {} => k = 0
  <2>1. these \subseteq 1 .. Len(s)
    BY <1>2
  <2> HIDE DEF Pos
  <2> QED
    BY <1>1, <1>3, <1>5, <2>1, SelectedIs
<1> QED
  BY <1>1, <1>2, <1>4, <1>5, <1>6

-----------------------------------------------------------------------------
(* Which element of the list l of all or race comes first, s being the       *)
(* futures in the order they were settled.                                   *)

Of(l) == ToSet(l.of) \ {Plain}
When(s, l, f) == IF Pos(s, f) < l.at THEN l.at ELSE Pos(s, f)
Better(s, l, f, g) ==
  \/ When(s, l, f) < When(s, l, g)
  \/ When(s, l, f) = When(s, l, g) /\ Pos(l.of, f) < Pos(l.of, g)

\* g comes first of these.
Winner(s, l, these, g) == g \in these /\ \A f \in these : ~Better(s, l, f, g)

ListOK(l, n) == l.of \in Seq(Natives \cup Children \cup {Plain}) /\ l.at \in Nat /\ l.at <= n

\* The ranks are numbers, and no element comes before itself.
LEMMA Whens ==
  ASSUME NEW s \in Seq(Futures), NEW l, ListOK(l, Len(s))
  PROVE  \A f : /\ When(s, l, f) \in Nat /\ When(s, l, f) <= Len(s) /\ Pos(l.of, f) \in Nat
                /\ ~Better(s, l, f, f)
<1> SUFFICES ASSUME NEW f
             PROVE  /\ When(s, l, f) \in Nat /\ When(s, l, f) <= Len(s) /\ Pos(l.of, f) \in Nat
                    /\ ~Better(s, l, f, f)
  OBVIOUS
<1>1. PICK k, m, at, w, p : k = Pos(s, f) /\ m = Len(s) /\ at = l.at /\ w = When(s, l, f) /\ p = Pos(l.of, f)
  OBVIOUS
<1>2. k \in 0 .. m /\ m \in Nat /\ at \in Nat /\ at <= m /\ p \in Nat
  BY <1>1, PosIs, LenProperties DEF ListOK
<1>3. w = IF k < at THEN at ELSE k
  BY <1>1 DEF When
<1>4. w \in Nat /\ w <= m
  BY <1>2, <1>3
<1>5. ~(w < w) /\ ~(p < p)
  BY <1>2, <1>4
<1> QED
  BY <1>1, <1>2, <1>4, <1>5 DEF Better

\* t has x after all of s.
Longer(s, t, x) == t = Append(s, x)

\* What has stood in a sequence stands where it stood when something new is appended.
LEMMA PosAppended ==
  ASSUME NEW S, NEW s \in Seq(S), NEW x \in S, x \notin ToSet(s), NEW t, Longer(s, t, x)
  PROVE  /\ t \in Seq(S) /\ Len(t) = Len(s) + 1 /\ Len(s) \in Nat
         /\ ToSet(t) = ToSet(s) \cup {x}
         /\ \A f \in ToSet(s) : Pos(t, f) = Pos(s, f)
         /\ Pos(t, x) = Len(s) + 1
<1>1. PICK m \in Nat : m = Len(s)
  BY LenProperties
<1>2. /\ t \in Seq(S) /\ Len(t) = m + 1
      /\ \A i \in 1 .. m : t[i] = s[i]
      /\ t[m + 1] = x
  BY <1>1, AppendProperties DEF Longer
<1>3. DOMAIN s = 1 .. m /\ DOMAIN t = 1 .. m + 1
  BY <1>1, <1>2, LenProperties
<1>4. 1 .. m + 1 = 1 .. m \cup {m + 1} /\ m + 1 \notin 1 .. m
  OBVIOUS
<1>5. ToSet(t) = ToSet(s) \cup {x}
  <2>1. ToSet(s) = {s[i] : i \in 1 .. m}
    BY <1>3 DEF ToSet
  <2>2. ToSet(t) = {t[i] : i \in 1 .. m + 1}
    BY <1>3 DEF ToSet
  <2> QED
    BY <1>2, <1>4, <2>1, <2>2
<1>6. ASSUME NEW f \in ToSet(s)
      PROVE  Pos(t, f) = Pos(s, f)
  <2>1. PICK j, k : j = Pos(t, f) /\ k = Pos(s, f)
    OBVIOUS
  <2>2. /\ k \in 1 .. m /\ s[k] = f
        /\ \A i \in 1 .. m : s[i] = f => k <= i
    BY <1>1, <2>1, PosIs
  <2>3. /\ j \in 1 .. m + 1 /\ t[j] = f
        /\ \A i \in 1 .. m + 1 : t[i] = f => j <= i
    BY <1>2, <1>5, <2>1, PosIs
  <2>4. j <= k
    BY <1>2, <1>4, <2>2, <2>3
  <2>5. j \in 1 .. m
    BY <2>2, <2>3, <2>4
  <2>6. k <= j
    BY <1>2, <2>2, <2>3, <2>5
  <2> QED
    BY <2>1, <2>2, <2>4, <2>5, <2>6
<1>7. Pos(t, x) = m + 1
  <2>1. PICK j : j = Pos(t, x)
    OBVIOUS
  <2>2. j \in 1 .. m + 1 /\ t[j] = x
    BY <1>2, <1>5, <2>1, PosIs
  <2>3. j \notin 1 .. m
    <3>1. \A i \in 1 .. m : s[i] \in ToSet(s)
      BY <1>3 DEF ToSet
    <3> QED
      BY <1>2, <2>2, <3>1
  <2> QED
    BY <1>4, <2>1, <2>2, <2>3
<1> QED
  BY <1>1, <1>2, <1>5, <1>6, <1>7

\* What is settled later comes later, and changes nothing between those before it.
LEMMA LaterIsWorse ==
  ASSUME NEW s \in Seq(Futures), NEW l, ListOK(l, Len(s)), NEW x \in Futures, x \notin ToSet(s),
         NEW t, Longer(s, t, x)
  PROVE  /\ \A f, g \in ToSet(s) : Better(t, l, f, g) <=> Better(s, l, f, g)
         /\ \A g \in ToSet(s) : ~Better(t, l, x, g)
         /\ ListOK(l, Len(t))
<1>1. PICK m \in Nat : m = Len(s)
  BY LenProperties
<1>2. /\ t \in Seq(Futures) /\ Len(t) = m + 1
      /\ \A f \in ToSet(s) : Pos(t, f) = Pos(s, f)
      /\ Pos(t, x) = m + 1
  BY <1>1, PosAppended
<1>3. \A f \in ToSet(s) : When(t, l, f) = When(s, l, f)
  BY <1>2 DEF When
<1>4. l.at \in Nat /\ l.at <= m
  BY <1>1 DEF ListOK
<1>5. When(t, l, x) = m + 1
  BY <1>2, <1>4 DEF When
<1>6. ASSUME NEW g \in ToSet(s)
      PROVE  ~Better(t, l, x, g)
  <2>1. PICK w : w = When(s, l, g)
    OBVIOUS
  <2>2. w \in Nat /\ w <= m
    BY <1>1, <2>1, Whens
  <2>3. ~(m + 1 < w) /\ m + 1 # w
    BY <2>2
  <2> QED
    BY <1>3, <1>5, <2>1, <2>3 DEF Better
<1>7. \A f, g \in ToSet(s) : Better(t, l, f, g) <=> Better(s, l, f, g)
  BY <1>3 DEF Better
<1>8. l.at <= m + 1
  BY <1>4
<1>9. ListOK(l, Len(t))
  BY <1>2, <1>8 DEF ListOK
<1> QED
  BY <1>6, <1>7, <1>9

\* The winner is what First finds.
LEMMA WinnerIsFirst ==
  ASSUME NEW x, ListOK(list[x], Len(settled)), settled \in Seq(Futures),
         NEW these, these \subseteq Of(list[x]), NEW g, Winner(settled, list[x], these, g)
  PROVE  First(x, these) = g
<1>1. PICK l : l = list[x]
  OBVIOUS
<1>2. PICK of, m : of = l.of /\ m = Len(of)
  OBVIOUS
<1>3. /\ of \in Seq(Natives \cup Children \cup {Plain})
      /\ m \in Nat /\ DOMAIN of = 1 .. m
  BY <1>1, <1>2, LenProperties DEF ListOK
<1>4. PICK best : best = {f \in these : \A h \in these : When(settled, l, f) <= When(settled, l, h)}
  OBVIOUS
<1>5. PICK at : at = {i \in 1 .. m : of[i] \in best}
  OBVIOUS
<1>6. PICK k : k = IF at # {} THEN Min(at) ELSE 0
  OBVIOUS
<1>7. First(x, these) = of[k]
  <2>1. PICK these_at :
          /\ these_at = {i \in 1 .. Len(list[x].of) : list[x].of[i] \in
               {h \in these : \A g_2 \in these : When(settled, list[x], h) <= When(settled, list[x], g_2)}}
          /\ First(x, these) = list[x].of[IF these_at # {} THEN Min(these_at) ELSE 0]
    BY DEF First, SelectInSeq, When, Pos
  <2>2. these_at = at
    BY <1>1, <1>2, <1>4, <1>5, <2>1
  <2> QED
    BY <1>1, <1>2, <1>6, <2>1, <2>2
<1>8. \A f : When(settled, l, f) \in Nat /\ Pos(of, f) \in Nat
  BY <1>1, <1>2, Whens
<1>9. g \in these /\ \A f \in these : ~Better(settled, l, f, g)
  BY <1>1 DEF Winner
<1>10. \A f \in these : When(settled, l, g) <= When(settled, l, f)
  BY <1>8, <1>9 DEF Better
<1>11. g \in best
  BY <1>4, <1>9, <1>10
<1>12. \A f \in these : f \in ToSet(of) /\ Pos(of, f) \in 1 .. m /\ of[Pos(of, f)] = f
  <2>1. \A f \in these : f \in ToSet(of)
    BY <1>1, <1>2 DEF Of
  <2> QED
    BY <1>2, <1>3, <2>1, PosIs
<1>13. at # {} /\ at \subseteq 1 .. m
  BY <1>5, <1>9, <1>11, <1>12
<1>14. k \in at /\ \A i \in at : k <= i
  BY <1>3, <1>6, <1>13, SelectedIs
<1>15. PICK f \in best : f = of[k]
  BY <1>5, <1>14
<1>16. f \in these /\ When(settled, l, f) <= When(settled, l, g)
  BY <1>4, <1>9, <1>15
<1>17. When(settled, l, f) = When(settled, l, g)
  BY <1>8, <1>10, <1>16
<1>18. Pos(of, f) <= k /\ k <= Pos(of, g)
  <2>1. k \in 1 .. m /\ of[k] = f
    BY <1>5, <1>14, <1>15
  <2>2. Pos(of, f) <= k
    BY <1>2, <1>3, <1>12, <1>16, <2>1, PosIs
  <2>3. Pos(of, g) \in at
    BY <1>5, <1>9, <1>11, <1>12
  <2> QED
    BY <1>14, <2>2, <2>3
<1>19. ~(Pos(of, f) < Pos(of, g))
  BY <1>2, <1>9, <1>16, <1>17 DEF Better
<1>20. Pos(of, f) = Pos(of, g)
  <2>1. k \in Nat
    BY <1>14, <1>5
  <2> QED
    BY <1>8, <1>18, <1>19, <2>1
<1>21. f = g
  BY <1>9, <1>12, <1>16, <1>20
<1> QED
  BY <1>7, <1>15, <1>21

-----------------------------------------------------------------------------
(* What all and race wait for, and what has decided them.                    *)

Combiners == Alls \cup Races
Cb(y) == Callback(IF y \in Alls THEN "all" ELSE "race", y)

\* The fates that decide y at once: rejections for all, any fate for race.
Counts(st, y, f) == IF y \in Alls THEN st[f].is = "rejected" ELSE IsSettled(st[f])
Leading(st, l, y) == {f \in Of(l) : Counts(st, y, f)}

ValuesOf(st, l) == [i \in DOMAIN l.of |-> Val(st[l.of[i]])]
Decided(st, s, l, y, fate) ==
  \/ /\ y \in Races => Plain \notin ToSet(l.of)
     /\ \E g : Winner(s, l, Leading(st, l, y), g) /\ fate = AsCalledBack(st[g])
  \/ y \in Races /\ Plain \in ToSet(l.of) /\ fate = Fulfilled(Plain)
  \/ /\ y \in Alls /\ \A f \in ToSet(l.of) : f # Plain /\ st[f].is = "fulfilled"
     /\ fate = Fulfilled(ValuesOf(st, l))

\* Before the tick of an element stand those of the elements that come before it and count.
InRank(w, l, y) ==
  \A j \in DOMAIN w.ticks : \A f \in Leading(w.state, l, y) :
    w.ticks[j].cb = Cb(y) /\ Better(w.settled, l, f, w.ticks[j].of)
      => \E i \in 1 .. j - 1 : w.ticks[i] = Tick(f, Cb(y))

\* y waits for its elements and for nothing else, and none that counts has been heard.
Waits(w, r, l, y) ==
  /\ y \in Races => Plain \notin ToSet(l.of)
  /\ \A f \in Of(l) : \E p \in Places(w.asked, Cb(y)) : p[1] = f
  /\ \A p \in Places(w.asked, Cb(y)) : p[1] \in Of(l)
  /\ \A p \in Places(w.asked, Cb(y)) : Counts(w.state, y, p[1]) => p \in Open(w.asked, r, Cb(y))
  /\ InRank(w, l, y)

Sound(w, r) ==
  /\ Order(w, r)
  /\ w.settled \in Seq(Futures)
  /\ \A f \in Futures : IsSettled(w.state[f]) <=> f \in ToSet(w.settled)

Tidy(w, r, l, y) ==
  /\ Sound(w, r)
  /\ ListOK(l, Len(w.settled))
  /\ w.state[y] = Pending => Waits(w, r, l, y)
  /\ IsSettled(w.state[y]) => Decided(w.state, w.settled, l, y, w.state[y])

\* From w to v nothing is settled, or x.
Grown(w, v, x) ==
  /\ Later(w, v)
  /\ \/ v.settled = w.settled /\ \A f \in Futures : IsSettled(v.state[f]) <=> IsSettled(w.state[f])
     \/ /\ x \in Futures /\ ~IsSettled(w.state[x]) /\ Longer(w.settled, v.settled, x)
        /\ \A f \in Futures : IsSettled(v.state[f]) <=> IsSettled(w.state[f]) \/ f = x

\* The elements of a list are futures.
LEMMA Elems ==
  ASSUME NEW l, NEW n, ListOK(l, n)
  PROVE  Of(l) \subseteq Natives \cup Children /\ Of(l) \subseteq Futures
<1>1. l.of \in Seq(Natives \cup Children \cup {Plain})
  BY DEF ListOK
<1>2. DOMAIN l.of = 1 .. Len(l.of) /\ \A i \in DOMAIN l.of : l.of[i] \in Natives \cup Children \cup {Plain}
  BY <1>1, LenProperties
<1>3. ToSet(l.of) \subseteq Natives \cup Children \cup {Plain}
  BY <1>2 DEF ToSet
<1> QED
  BY <1>3 DEF Of, Futures

\* The list of the settled futures stays what it is.
LEMMA GrownSound ==
  ASSUME NEW w, NEW r, Sound(w, r), NEW v, NEW h, Order(v, h), NEW x, Grown(w, v, x)
  PROVE  /\ Sound(v, h)
         /\ \A l : ListOK(l, Len(w.settled)) => ListOK(l, Len(v.settled))
<1>1. CASE v.settled = w.settled /\ \A f \in Futures : IsSettled(v.state[f]) <=> IsSettled(w.state[f])
  BY <1>1 DEF Sound
<1>2. CASE /\ x \in Futures /\ ~IsSettled(w.state[x]) /\ Longer(w.settled, v.settled, x)
           /\ \A f \in Futures : IsSettled(v.state[f]) <=> IsSettled(w.state[f]) \/ f = x
  <2>1. PICK s, t : s = w.settled /\ t = v.settled
    OBVIOUS
  <2>2. s \in Seq(Futures) /\ x \in Futures /\ x \notin ToSet(s) /\ Longer(s, t, x)
    BY <1>2, <2>1 DEF Sound
  <2>3. /\ t \in Seq(Futures) /\ Len(t) = Len(s) + 1 /\ Len(s) \in Nat
        /\ ToSet(t) = ToSet(s) \cup {x}
    BY <2>2, PosAppended
  <2>4. \A l : ListOK(l, Len(s)) => ListOK(l, Len(t))
    BY <2>2, LaterIsWorse
  <2>5. \A f \in Futures : IsSettled(v.state[f]) <=> f \in ToSet(t)
    BY <1>2, <2>1, <2>3 DEF Sound
  <2> QED
    BY <2>1, <2>3, <2>4, <2>5 DEF Sound
<1> QED
  BY <1>1, <1>2 DEF Grown

\* What has been settled keeps its rank, and what is settled now comes last.
LEMMA GrownRanks ==
  ASSUME NEW w, NEW r, Sound(w, r), NEW v, NEW x, Grown(w, v, x), NEW l, ListOK(l, Len(w.settled)),
         NEW f \in Futures, NEW g \in Futures, IsSettled(v.state[f]), IsSettled(v.state[g])
  PROVE  /\ IsSettled(w.state[f]) /\ IsSettled(w.state[g])
              => (Better(v.settled, l, f, g) <=> Better(w.settled, l, f, g))
         /\ ~IsSettled(w.state[f]) => ~Better(v.settled, l, f, g)
<1>1. CASE v.settled = w.settled /\ \A h \in Futures : IsSettled(v.state[h]) <=> IsSettled(w.state[h])
  BY <1>1
<1>2. CASE /\ x \in Futures /\ ~IsSettled(w.state[x]) /\ Longer(w.settled, v.settled, x)
           /\ \A h \in Futures : IsSettled(v.state[h]) <=> IsSettled(w.state[h]) \/ h = x
  <2>1. PICK s, t : s = w.settled /\ t = v.settled
    OBVIOUS
  <2>2. s \in Seq(Futures) /\ x \in Futures /\ x \notin ToSet(s) /\ Longer(s, t, x) /\ ListOK(l, Len(s))
    BY <1>2, <2>1 DEF Sound
  <2>3. /\ \A a, b \in ToSet(s) : Better(t, l, a, b) <=> Better(s, l, a, b)
        /\ \A b \in ToSet(s) : ~Better(t, l, x, b)
        /\ ListOK(l, Len(t))
    BY <2>2, LaterIsWorse
  <2>4. t \in Seq(Futures)
    BY <2>2, PosAppended
  <2>5. ~Better(t, l, x, x)
    BY <2>3, <2>4, Whens
  <2>6. \A h \in Futures : IsSettled(w.state[h]) <=> h \in ToSet(s)
    BY <2>1 DEF Sound
  <2> QED
    BY <1>2, <2>1, <2>3, <2>5, <2>6
<1> QED
  BY <1>1, <1>2 DEF Grown

\* Which fates count does not change.
LEMMA GrownCounts ==
  ASSUME NEW w, NEW v, Later(w, v), NEW y, NEW f \in Futures
  PROVE  /\ Counts(w.state, y, f) => Counts(v.state, y, f) /\ IsSettled(w.state[f]) /\ IsSettled(v.state[f])
         /\ Counts(v.state, y, f) => IsSettled(v.state[f])
         /\ Counts(v.state, y, f) /\ IsSettled(w.state[f]) => Counts(w.state, y, f)
<1>1. PICK s, t : s = w.state[f] /\ t = v.state[f]
  OBVIOUS
<1>2. IsSettled(s) => t = s
  BY <1>1 DEF Later
<1>3. (s.is = "rejected" => IsSettled(s)) /\ (t.is = "rejected" => IsSettled(t))
  BY DEF IsSettled
<1> QED
  BY <1>1, <1>2, <1>3 DEF Counts

\* What has decided y stays what decides it.
LEMMA DecidedStays ==
  ASSUME NEW w, NEW r, Sound(w, r), NEW v, NEW x, Grown(w, v, x), NEW l, ListOK(l, Len(w.settled)),
         NEW y, NEW fate, Decided(w.state, w.settled, l, y, fate)
  PROVE  Decided(v.state, v.settled, l, y, fate)
<1>1. Later(w, v) /\ Of(l) \subseteq Futures
  BY Elems DEF Grown
<1>2. ASSUME NEW g, y \in Races => Plain \notin ToSet(l.of),
             Winner(w.settled, l, Leading(w.state, l, y), g), fate = AsCalledBack(w.state[g])
      PROVE  Decided(v.state, v.settled, l, y, fate)
  <2>1. /\ g \in Of(l) /\ Counts(w.state, y, g)
        /\ \A f \in Of(l) : Counts(w.state, y, f) => ~Better(w.settled, l, f, g)
    BY <1>2 DEF Winner, Leading
  <2>2. IsSettled(w.state[g]) /\ Counts(v.state, y, g) /\ IsSettled(v.state[g]) /\ v.state[g] = w.state[g]
    BY <1>1, <2>1, GrownCounts DEF Later
  <2>3. ASSUME NEW f \in Of(l), Counts(v.state, y, f)
        PROVE  ~Better(v.settled, l, f, g)
    <3>1. IsSettled(v.state[f]) /\ f \in Futures /\ g \in Futures
      BY <1>1, <2>1, <2>3, GrownCounts
    <3>2. IsSettled(w.state[f]) => Counts(w.state, y, f)
      BY <1>1, <2>3, GrownCounts
    <3> QED
      BY <2>1, <2>2, <2>3, <3>1, <3>2, GrownRanks
  <2>4. Winner(v.settled, l, Leading(v.state, l, y), g)
    BY <2>1, <2>2, <2>3 DEF Winner, Leading
  <2> QED
    BY <1>2, <2>2, <2>4 DEF Decided
<1>3. ASSUME y \in Alls, \A f \in ToSet(l.of) : f # Plain /\ w.state[f].is = "fulfilled",
             fate = Fulfilled(ValuesOf(w.state, l))
      PROVE  Decided(v.state, v.settled, l, y, fate)
  <2>1. \A f \in ToSet(l.of) : f \in Futures /\ IsSettled(w.state[f]) /\ v.state[f] = w.state[f]
    BY <1>1, <1>3 DEF Of, IsSettled, Later
  <2>2. \A i \in DOMAIN l.of : l.of[i] \in ToSet(l.of)
    BY DEF ToSet
  <2>3. ValuesOf(v.state, l) = ValuesOf(w.state, l)
    BY <2>1, <2>2 DEF ValuesOf
  <2>4. \A f \in ToSet(l.of) : f # Plain /\ v.state[f].is = "fulfilled"
    BY <1>3, <2>1
  <2> QED
    BY <1>3, <2>3, <2>4 DEF Decided
<1> QED
  BY <1>2, <1>3 DEF Decided

-----------------------------------------------------------------------------
(* What the operations do to what a future of all or race waits for.         *)

\* What has to run on a settled future has a tick.
LEMMA DueTick ==
  ASSUME NEW w, NEW r, Order(w, r), NEW cb, NEW p \in Open(w.asked, r, cb), IsSettled(w.state[p[1]])
  PROVE  \E k \in DOMAIN w.ticks : w.ticks[k] = Tick(p[1], cb)
<1>1. p[1] \in Futures
  BY Asking
<1> QED
  BY <1>1, PlacesOfTicks

\* vs are the ticks ts and then us.
Followed(ts, us, vs) == vs = ts \o us

\* Each tick of those that follow is one or the other.
LEMMA FollowedBy ==
  ASSUME NEW T, NEW ts \in Seq(T), NEW us \in Seq(T), NEW vs, Followed(ts, us, vs)
  PROVE  /\ Len(ts) \in Nat /\ DOMAIN ts = 1 .. Len(ts) /\ DOMAIN ts \subseteq DOMAIN vs
         /\ \A i \in DOMAIN ts : vs[i] = ts[i]
         /\ \A j \in DOMAIN vs : j \in Nat /\ (j \in DOMAIN ts \/ (Len(ts) < j /\ \E k \in DOMAIN us : vs[j] = us[k]))
<1>1. PICK m, n : m = Len(ts) /\ n = Len(us) /\ m \in Nat /\ n \in Nat
  BY LenProperties
<1>2. DOMAIN ts = 1 .. m /\ DOMAIN us = 1 .. n
  BY <1>1, LenProperties
<1>3. /\ vs \in Seq(T) /\ Len(vs) = m + n
      /\ \A i \in 1 .. m + n : vs[i] = IF i <= m THEN ts[i] ELSE us[i - m]
  BY <1>1, ConcatProperties DEF Followed
<1>4. DOMAIN vs = 1 .. m + n
  BY <1>3, LenProperties
<1>5. \A i \in 1 .. m : i \in 1 .. m + n /\ i <= m
  BY <1>1
<1>6. ASSUME NEW j \in DOMAIN vs
      PROVE  j \in Nat /\ (j \in DOMAIN ts \/ (m < j /\ \E k \in DOMAIN us : vs[j] = us[k]))
  <2>1. j \in 1 .. m + n
    BY <1>4
  <2>2. CASE j <= m
    BY <1>2, <2>1, <2>2
  <2>3. CASE ~(j <= m)
    <3>1. j - m \in 1 .. n /\ m < j
      BY <1>1, <2>1, <2>3
    <3> QED
      BY <1>2, <1>3, <2>1, <2>3, <3>1
  <2> QED
    BY <2>2, <2>3
<1> QED
  BY <1>1, <1>2, <1>3, <1>4, <1>5, <1>6

\* A step that settles x at most, and not y, and asks for no more on behalf of y, keeps it.
LEMMA Grows ==
  ASSUME NEW w, NEW r, NEW l, NEW y, Tidy(w, r, l, y), NEW v, Order(v, r), NEW x, Grown(w, v, x),
         v.state[y] = w.state[y], Places(v.asked, Cb(y)) = Places(w.asked, Cb(y)),
         NEW us \in Seq(TickSet), Followed(w.ticks, us, v.ticks)
  PROVE  Tidy(v, r, l, y)
<1>1. Sound(w, r) /\ Order(w, r) /\ ListOK(l, Len(w.settled)) /\ Later(w, v)
  BY DEF Tidy, Sound, Grown
<1>2. Sound(v, r) /\ ListOK(l, Len(v.settled)) /\ Of(l) \subseteq Futures
  BY <1>1, GrownSound, Elems
<1>3. IsSettled(v.state[y]) => Decided(v.state, v.settled, l, y, v.state[y])
  BY <1>1, DecidedStays DEF Tidy
<1>4. PICK cb : cb = Cb(y)
  OBVIOUS
<1>5. ASSUME v.state[y] = Pending
      PROVE  Waits(v, r, l, y)
  <2>1. Waits(w, r, l, y)
    BY <1>5 DEF Tidy
  <2>2. w.ticks \in Seq(TickSet)
    BY <1>1 DEF Order, Typed
  <2>3. /\ Len(w.ticks) \in Nat /\ DOMAIN w.ticks = 1 .. Len(w.ticks) /\ DOMAIN w.ticks \subseteq DOMAIN v.ticks
        /\ \A i \in DOMAIN w.ticks : v.ticks[i] = w.ticks[i]
        /\ \A j \in DOMAIN v.ticks :
             j \in Nat /\ (j \in DOMAIN w.ticks \/ (Len(w.ticks) < j /\ \E k \in DOMAIN us : v.ticks[j] = us[k]))
    BY <2>2, FollowedBy
  <2>4. Open(v.asked, r, cb) = Open(w.asked, r, cb)
    BY <1>4 DEF Open
  <2>5. ASSUME NEW p \in Places(w.asked, cb), Counts(v.state, y, p[1])
        PROVE  p \in Open(v.asked, r, cb)
    <3>1. p[1] \in Futures
      BY Asking
    <3>2. CASE IsSettled(w.state[p[1]])
      BY <1>1, <1>4, <2>1, <2>4, <2>5, <3>1, <3>2, GrownCounts DEF Waits
    <3>3. CASE ~IsSettled(w.state[p[1]])
      <4>1. r[p[1]] = <<>>
        BY <1>1, <3>1, <3>3 DEF Order, InOrder
      <4>2. Len(r[p[1]]) = 0
        BY <4>1, EmptySeq
      <4>3. p[2] \in Nat /\ p[2] \in 1 .. Len(w.asked[p[1]])
        BY Asking DEF Places
      <4>4. 0 < p[2]
        BY <4>3
      <4> QED
        BY <2>4, <4>2, <4>4 DEF Open
    <3> QED
      BY <3>2, <3>3
  <2>6. ASSUME NEW j \in DOMAIN v.ticks, NEW f \in Leading(v.state, l, y), NEW g, g = v.ticks[j].of,
               v.ticks[j].cb = cb, Better(v.settled, l, f, g)
        PROVE  \E i \in 1 .. j - 1 : v.ticks[i] = Tick(f, cb)
    <3>1. f \in Of(l) /\ f \in Futures /\ Counts(v.state, y, f) /\ IsSettled(v.state[f])
      BY <1>1, <1>2, <2>6, GrownCounts DEF Leading
    <3>2. g \in Futures /\ IsSettled(v.state[g])
      BY <2>6, TickDue
    <3>3. IsSettled(w.state[f])
      <4>1. ~IsSettled(w.state[f]) => ~Better(v.settled, l, f, g)
        BY <1>1, <3>1, <3>2, GrownRanks, Zenon
      <4> QED
        BY <2>6, <4>1
    <3>4. Counts(w.state, y, f) /\ f \in Leading(w.state, l, y)
      BY <1>1, <3>1, <3>3, GrownCounts DEF Leading
    <3>5. CASE j \in DOMAIN w.ticks
      <4>1. w.ticks[j] = v.ticks[j]
        BY <2>3, <3>5
      <4>2. IsSettled(w.state[g])
        BY <1>1, <2>6, <3>5, <4>1, TickDue
      <4>3. Better(w.settled, l, f, g)
        <5>1. Better(v.settled, l, f, g) <=> Better(w.settled, l, f, g)
          BY <1>1, <3>1, <3>2, <3>3, <4>2, GrownRanks, Zenon
        <5> QED
          BY <2>6, <5>1
      <4>4. PICK i \in 1 .. j - 1 : w.ticks[i] = Tick(f, cb)
        BY <1>4, <2>1, <2>6, <3>4, <3>5, <4>1, <4>3 DEF Waits, InRank
      <4>5. i \in DOMAIN w.ticks
        BY <2>3, <3>5
      <4> QED
        BY <2>3, <4>4, <4>5
    <3>6. CASE Len(w.ticks) < j
      <4>1. PICK p \in Places(w.asked, cb) : p[1] = f
        BY <1>4, <2>1, <3>1 DEF Waits
      <4>2. p \in Open(w.asked, r, cb)
        BY <1>4, <2>1, <3>4, <4>1 DEF Waits
      <4>3. PICK k \in DOMAIN w.ticks : w.ticks[k] = Tick(f, cb)
        BY <1>1, <3>3, <4>1, <4>2, DueTick
      <4>4. k \in 1 .. j - 1
        BY <2>3, <3>6
      <4> QED
        BY <2>3, <4>3, <4>4
    <3> QED
      BY <2>3, <3>5, <3>6
  <2>7. InRank(v, l, y)
    BY <1>4, <2>6 DEF InRank
  <2> QED
    BY <1>4, <2>1, <2>4, <2>5, <2>7 DEF Waits
<1> QED
  BY <1>2, <1>3, <1>5 DEF Tidy

\* To settle x grows the world by x at most, and asks for nothing.
LEMMA SettledGrows ==
  ASSUME NEW w, NEW r, Order(w, r), NEW x \in Futures, NEW fate, IsSettled(fate), NEW v, v = Settled(w, x, fate)
  PROVE  /\ Grown(w, v, x) /\ Order(v, r) /\ v.asked = w.asked
         /\ \A y : y # x \/ IsSettled(w.state[x]) => v.state[y] = w.state[y]
         /\ \E us \in Seq(TickSet) : Followed(w.ticks, us, v.ticks)
         /\ ~IsSettled(w.state[x]) => v.state[x] = fate
<1>1. Typed(w) /\ Order(v, r) /\ Later(w, v)
  BY SettledKeepsOrder, SettledGoes DEF Order, Goes
<1>2. CASE IsSettled(w.state[x])
  <2>1. v = w
    BY <1>2 DEF Settled
  <2>2. Followed(w.ticks, <<>>, v.ticks) /\ <<>> \in Seq(TickSet)
    <3>1. w.ticks \in Seq(TickSet)
      BY <1>1 DEF Typed
    <3> QED
      BY <2>1, <3>1, ConcatEmptySeq, EmptySeq DEF Followed
  <2> QED
    BY <1>1, <1>2, <2>1, <2>2 DEF Grown
<1>3. CASE ~IsSettled(w.state[x])
  <2>1. SettledTo(w, v, x, fate)
    BY <1>1, <1>3, SettledFields DEF Typed
  <2>2. /\ v.state = [w.state EXCEPT ![x] = fate] /\ v.asked = w.asked
        /\ v.ticks = w.ticks \o Triggered(x, w.callbacks[x])
        /\ Longer(w.settled, v.settled, x)
    BY <2>1 DEF SettledTo, Longer
  <2>3. w.state = [f \in Futures |-> w.state[f]]
    BY <1>1 DEF Typed
  <2>4. v.state[x] = fate /\ \A y : y # x => v.state[y] = w.state[y]
    <3>1. PICK st : st = w.state
      OBVIOUS
    <3>2. DOMAIN st = Futures
      BY <2>3, <3>1
    <3> QED
      BY <2>2, <3>1, <3>2
  <2>5. \A f \in Futures : IsSettled(v.state[f]) <=> IsSettled(w.state[f]) \/ f = x
    BY <1>3, <2>4
  <2>6. Triggered(x, w.callbacks[x]) \in Seq(TickSet)
    <3>1. PICK cbs \in Seq(CallbackSet) : cbs = w.callbacks[x]
      BY <1>1 DEF Typed
    <3>2. Triggered(x, cbs) \in Seq([of : {x}, cb : CallbackSet])
      BY AllInTurn
    <3>3. [of : {x}, cb : CallbackSet] \subseteq TickSet
      BY DEF TickSet
    <3> QED
      BY <3>1, <3>2, <3>3, SeqMonotonic
  <2>7. Followed(w.ticks, Triggered(x, w.callbacks[x]), v.ticks)
    BY <2>2, Zenon DEF Followed
  <2> QED
    BY <1>1, <1>3, <2>2, <2>4, <2>5, <2>6, <2>7 DEF Grown
<1> QED
  BY <1>2, <1>3

\* fulfill and reject, of another future than y or in vain, keep it.
LEMMA TidySettled ==
  ASSUME NEW w, NEW r, NEW l, NEW y, Tidy(w, r, l, y), NEW x \in Futures, NEW fate, IsSettled(fate),
         x # y \/ IsSettled(w.state[x])
  PROVE  Tidy(Settled(w, x, fate), r, l, y)
<1>1. PICK v : v = Settled(w, x, fate)
  OBVIOUS
<1>2. Order(w, r)
  BY DEF Tidy, Sound
<1>3. /\ Grown(w, v, x) /\ Order(v, r) /\ v.asked = w.asked
      /\ \A z : z # x \/ IsSettled(w.state[x]) => v.state[z] = w.state[z]
      /\ \E us \in Seq(TickSet) : Followed(w.ticks, us, v.ticks)
  BY <1>1, <1>2, SettledGrows
<1>4. v.state[y] = w.state[y] /\ Places(v.asked, Cb(y)) = Places(w.asked, Cb(y))
  BY <1>3
<1>5. Tidy(v, r, l, y)
  BY <1>3, <1>4, Grows
<1> QED
  BY <1>1, <1>5

\* The futures that a step adds nothing to are settled as they were.
\* addCallback for another future than y keeps it.
LEMMA TidyAdded ==
  ASSUME NEW w, NEW r, NEW l, NEW y, Tidy(w, r, l, y), NEW f \in Futures, NEW cb \in CallbackSet, cb # Cb(y)
  PROVE  Tidy(Added(w, f, cb), r, l, y)
<1>1. PICK v : v = Added(w, f, cb)
  OBVIOUS
<1>2. Order(w, r) /\ Typed(w)
  BY DEF Tidy, Sound, Order
<1>3. Order(v, r) /\ Later(w, v)
  BY <1>1, <1>2, AddedKeepsOrder, AddedGoes DEF Goes
<1>4. AddedTo(w, v, f, cb)
  BY <1>1, <1>2, AddedFields DEF Typed
<1>5. v.state = w.state /\ v.settled = w.settled /\ v.asked = [w.asked EXCEPT ![f] = Append(@, cb)]
  BY <1>4 DEF AddedTo
<1>6. Grown(w, v, f)
  BY <1>3, <1>5 DEF Grown
<1>7. Places(v.asked, Cb(y)) = Places(w.asked, Cb(y))
  <2>1. w.asked \in [Futures -> Seq(CallbackSet)]
    BY <1>2 DEF Typed
  <2>2. v.asked[f] = Append(w.asked[f], cb) /\ \A x \in Futures : x # f => v.asked[x] = w.asked[x]
    BY <1>5, <2>1
  <2>3. PICK as, bs, other : as = w.asked /\ bs = v.asked /\ other = Cb(y)
    OBVIOUS
  <2>4. /\ as \in [Futures -> Seq(CallbackSet)] /\ bs[f] = Append(as[f], cb)
        /\ \A x \in Futures : x # f => bs[x] = as[x]
    BY <2>1, <2>2, <2>3, Zenon
  <2>5. /\ \A o : o # cb => Places(bs, o) = Places(as, o)
        /\ Places(bs, cb) = Places(as, cb) \cup {<<f, Len(as[f]) + 1>>}
        /\ Len(as[f]) \in Nat
    BY <2>4, AppendPlaces
  <2> QED
    BY <2>3, <2>5
<1>8. \E us \in Seq(TickSet) : Followed(w.ticks, us, v.ticks)
  <2>1. w.ticks \in Seq(TickSet)
    BY <1>2 DEF Typed
  <2>2. CASE IsSettled(w.state[f])
    <3>1. v.ticks = Append(w.ticks, Tick(f, cb)) /\ Tick(f, cb) \in TickSet
      BY <1>4, <2>2 DEF AddedTo, Tick, TickSet
    <3>2. <<Tick(f, cb)>> \in Seq(TickSet) /\ Append(w.ticks, Tick(f, cb)) = w.ticks \o <<Tick(f, cb)>>
      BY <2>1, <3>1, AppendIsConcat
    <3> QED
      BY <3>1, <3>2 DEF Followed
  <2>3. CASE ~IsSettled(w.state[f])
    <3>1. v.ticks = w.ticks
      BY <1>4, <2>3 DEF AddedTo
    <3>2. Followed(w.ticks, <<>>, v.ticks) /\ <<>> \in Seq(TickSet)
      BY <2>1, <3>1, ConcatEmptySeq, EmptySeq DEF Followed
    <3> QED
      BY <3>2
  <2> QED
    BY <2>2, <2>3
<1>9. Tidy(v, r, l, y)
  BY <1>3, <1>5, <1>6, <1>7, <1>8, Grows
<1> QED
  BY <1>1, <1>9

\* To make a future settles nothing.
LEMMA MadeGrows ==
  ASSUME NEW w, NEW r, Order(w, r), NEW f \in Futures, w.state[f] = Unmade, NEW s, s \in {Pending, Thrown},
         NEW v, v = [w EXCEPT !.state[f] = s]
  PROVE  /\ Grown(w, v, f) /\ Order(v, r) /\ v.asked = w.asked /\ v.ticks = w.ticks /\ v.settled = w.settled
         /\ v.state[f] = s /\ \A y : y # f => v.state[y] = w.state[y]
<1>1. Typed(w)
  BY DEF Order
<1>2. Order(v, r) /\ Later(w, v)
  <2>1. Goes(w, [w EXCEPT !.state[f] = s], r)
    BY MadeGoes
  <2> QED
    BY <2>1 DEF Goes
<1>3. MadeTo(w, v, f, s)
  BY <1>1, MadeFields DEF Typed
<1>4. /\ v.state = [w.state EXCEPT ![f] = s]
      /\ v.asked = w.asked /\ v.ticks = w.ticks /\ v.settled = w.settled
  BY <1>3 DEF MadeTo
<1>5. v.state[f] = s /\ \A y : y # f => v.state[y] = w.state[y]
  <2>1. w.state = [g \in Futures |-> w.state[g]]
    BY <1>1 DEF Typed
  <2>2. PICK st : st = w.state
    OBVIOUS
  <2>3. DOMAIN st = Futures
    BY <2>1, <2>2
  <2> QED
    BY <1>4, <2>2, <2>3
<1>6. \A g \in Futures : IsSettled(v.state[g]) <=> IsSettled(w.state[g])
  BY <1>5, FatesSettle
<1> QED
  BY <1>2, <1>4, <1>5, <1>6 DEF Grown

\* To make another future keeps it.
LEMMA TidyMade ==
  ASSUME NEW w, NEW r, NEW l, NEW y, Tidy(w, r, l, y), NEW f \in Futures, w.state[f] = Unmade, f # y,
         NEW s, s \in {Pending, Thrown}
  PROVE  Tidy([w EXCEPT !.state[f] = s], r, l, y)
<1>1. PICK v : v = [w EXCEPT !.state[f] = s]
  OBVIOUS
<1>2. Order(w, r) /\ Typed(w)
  BY DEF Tidy, Sound, Order
<1>3. /\ Grown(w, v, f) /\ Order(v, r) /\ v.asked = w.asked /\ v.ticks = w.ticks
      /\ \A z : z # f => v.state[z] = w.state[z]
  BY <1>1, <1>2, MadeGrows
<1>4. Followed(w.ticks, <<>>, v.ticks) /\ <<>> \in Seq(TickSet)
  <2>1. w.ticks \in Seq(TickSet)
    BY <1>2 DEF Typed
  <2> QED
    BY <1>3, <2>1, ConcatEmptySeq, EmptySeq DEF Followed
<1>5. Tidy(v, r, l, y)
  BY <1>3, <1>4, Grows
<1> QED
  BY <1>1, <1>5

\* The elements that have been settled before they are waited for.
Late(w, fs, these) == {i \in these : IsSettled(w.state[fs[i]])}

\* What all and race ask for settles nothing.
LEMMA WaitingGrows ==
  ASSUME NEW w, NEW r, Order(w, r), NEW fs \in Lists, NEW these \in SUBSET DOMAIN fs,
         \A i \in these : fs[i] # Plain, NEW cb \in CallbackSet, NEW v, v = Waiting(w, fs, these, cb),
         NEW late, late = Late(w, fs, these)
  PROVE  /\ \A x : Grown(w, v, x)
         /\ Order(v, r) /\ v.state = w.state /\ v.settled = w.settled
         /\ \A f \in Futures : v.asked[f] = w.asked[f] \o Again(fs, these, f, cb)
         /\ LateTicks(fs, late, cb) \in Seq(TickSet)
         /\ Followed(w.ticks, LateTicks(fs, late, cb), v.ticks)
<1>1. Typed(w)
  BY DEF Order
<1>2. Order(v, r) /\ Later(w, v)
  <2>1. Goes(w, Waiting(w, fs, these, cb), r)
    BY WaitingGoes
  <2> QED
    BY <2>1 DEF Goes
<1>9. late = {i \in these : IsSettled(w.state[fs[i]])}
  BY DEF Late
<1>3. WaitingTo(w, v, fs, these, cb)
  BY <1>1, WaitingFields DEF Typed
<1>4. /\ v.state = w.state /\ v.settled = w.settled
      /\ v.asked = [f \in Futures |-> w.asked[f] \o Again(fs, these, f, cb)]
      /\ v.ticks = w.ticks \o LateTicks(fs, late, cb)
  BY <1>3, <1>9 DEF WaitingTo
<1>5. \A f \in Futures : v.asked[f] = w.asked[f] \o Again(fs, these, f, cb)
  BY <1>4, Zenon
<1>6. LateTicks(fs, late, cb) \in Seq(TickSet)
  <2>1. these \in SUBSET Nat /\ IsFiniteSet(these) /\ \A i \in these : fs[i] \in Futures
    BY PositionsOfFutures
  <2>2. late \in SUBSET these /\ late \in SUBSET Nat /\ IsFiniteSet(late)
    BY <2>1, <1>9, FS_Subset
  <2>3. \A n \in 1 .. Cardinality(late) : Nth(late, n) \in late
    BY <2>2, Ranked
  <2>4. \A n \in 1 .. Cardinality(late) : Tick(fs[Nth(late, n)], cb) \in TickSet
    BY <2>1, <2>2, <2>3 DEF Tick, TickSet
  <2>5. LateTicks(fs, late, cb) \in [1 .. Cardinality(late) -> TickSet]
    BY <2>4 DEF LateTicks
  <2>6. Cardinality(late) \in Nat
    BY <2>2, FS_CardinalityType
  <2>7. LateTicks(fs, late, cb) \in UNION {[1 .. n -> TickSet] : n \in Nat}
    BY <2>5, <2>6
  <2> QED
    BY <2>7, SeqDef, Zenon
<1>7. \A x : Grown(w, v, x)
  BY <1>2, <1>4 DEF Grown
<1>8. Followed(w.ticks, LateTicks(fs, late, cb), v.ticks)
  BY <1>4, Zenon DEF Followed
<1> QED
  BY <1>2, <1>4, <1>5, <1>6, <1>7, <1>8

\* What another future of all or race asks for keeps it.
LEMMA TidyWaiting ==
  ASSUME NEW w, NEW r, NEW l, NEW y, Tidy(w, r, l, y), NEW fs \in Lists, NEW these \in SUBSET DOMAIN fs,
         \A i \in these : fs[i] # Plain, NEW cb \in CallbackSet, cb # Cb(y)
  PROVE  Tidy(Waiting(w, fs, these, cb), r, l, y)
<1>1. PICK v, late, other : /\ v = Waiting(w, fs, these, cb) /\ late = Late(w, fs, these)
                            /\ other = Cb(y)
  OBVIOUS
<1>2. Order(w, r) /\ Typed(w)
  BY DEF Tidy, Sound, Order
<1>3. /\ \A x : Grown(w, v, x)
      /\ Order(v, r) /\ v.state = w.state /\ v.settled = w.settled
      /\ \A f \in Futures : v.asked[f] = w.asked[f] \o Again(fs, these, f, cb)
      /\ LateTicks(fs, late, cb) \in Seq(TickSet)
      /\ Followed(w.ticks, LateTicks(fs, late, cb), v.ticks)
  BY <1>1, <1>2, WaitingGrows
<1>4. Places(v.asked, other) = Places(w.asked, other)
  <2>1. w.asked \in [Futures -> Seq(CallbackSet)]
    BY <1>2 DEF Typed
  <2>2. these \in SUBSET Nat /\ IsFiniteSet(these)
    BY PositionsOfFutures
  <2>3. PICK as, bs : as = w.asked /\ bs = v.asked
    OBVIOUS
  <2>4. as \in [Futures -> Seq(CallbackSet)] /\ \A x \in Futures : bs[x] = as[x] \o Again(fs, these, x, cb)
    BY <1>3, <2>1, <2>3, Zenon
  <2>5. /\ \A o : o # cb => Places(bs, o) = Places(as, o)
        /\ \A p \in Places(bs, cb) : p \in Places(as, cb) \/ \E i \in these : fs[i] = p[1]
        /\ Places(as, cb) = {} => /\ IsFiniteSet(Places(bs, cb))
                                  /\ Cardinality(Places(bs, cb)) <= Cardinality(these)
    <3>1. MoreIsAsked(as, bs, fs, these, cb)
      BY <2>4, Zenon DEF MoreIsAsked
    <3>2. PlacesGained(as, bs, fs, these, cb)
      BY <2>2, <2>4, <3>1, WaitingGains
    <3> QED
      BY <3>2, Zenon DEF PlacesGained
  <2> QED
    BY <1>1, <2>3, <2>5
<1>5. Tidy(v, r, l, y)
  BY <1>1, <1>3, <1>4, Grows
<1> QED
  BY <1>1, <1>5

\* The callbacks of all and race, apart from each other and from the rest.
LEMMA Cbs ==
  ASSUME NEW y \in Combiners
  PROVE  /\ y \in Futures /\ y \notin Natives \cup Children \cup Loops
         /\ Cb(y) \in CallbackSet /\ Cb(y).to = y /\ Cb(y).kind = IF y \in Alls THEN "all" ELSE "race"
         /\ y \in Alls => Cb(y) = Callback("all", y)
         /\ y \in Races => Cb(y) = Callback("race", y) /\ y \notin Alls
         /\ \A cb \in CallbackSet : cb = Cb(y) <=> cb.kind \in {"all", "race"} /\ cb.to = y
<1>1. y \in Futures /\ y \notin Natives \cup Children \cup Loops /\ ~(y \in Alls /\ y \in Races)
  BY NamesAssumption DEF Combiners, Futures
<1>2. PICK k : k = IF y \in Alls THEN "all" ELSE "race"
  OBVIOUS
<1>3. Cb(y) = [kind |-> k, to |-> y]
  BY <1>2 DEF Cb, Callback
<1>4. Cb(y) \in CallbackSet
  <2>1. CASE y \in Alls
    BY <1>2, <1>3, <2>1 DEF CallbackSet
  <2>2. CASE y \notin Alls
    <3>1. y \in Races
      BY <2>2 DEF Combiners
    <3> QED
      BY <1>2, <1>3, <2>2, <3>1 DEF CallbackSet
  <2> QED
    BY <2>1, <2>2
<1>5. ASSUME NEW cb \in CallbackSet
      PROVE  cb = Cb(y) <=> cb.kind \in {"all", "race"} /\ cb.to = y
  <2>1. cb = [kind |-> cb.kind, to |-> cb.to]
    BY DEF CallbackSet
  <2>2. cb.kind = "all" => cb.to \in Alls
    BY DEF CallbackSet
  <2>3. cb.kind = "race" => cb.to \in Races
    BY DEF CallbackSet
  <2>4. (k = "all" <=> y \in Alls) /\ k \in {"all", "race"}
    BY <1>2
  <2> QED
    BY <1>1, <1>3, <2>1, <2>2, <2>3, <2>4
<1> QED
  BY <1>1, <1>2, <1>3, <1>4, <1>5 DEF Cb

\* resolvePromise of a child keeps it.
LEMMA TidyResolved ==
  ASSUME NEW w, NEW r, NEW l, NEW y \in Combiners, Tidy(w, r, l, y), NEW c \in Children, NEW x
  PROVE  Tidy(Resolved(w, c, x), r, l, y)
<1>1. c \in Futures /\ c # y
  BY Cbs DEF Futures
<1>2. CASE x \notin Futures
  <2>1. Tidy(Settled(w, c, Fulfilled(x)), r, l, y)
    BY <1>1, FatesSettle, TidySettled
  <2> QED
    BY <1>2, <2>1 DEF Resolved
<1>3. CASE x \in Futures
  <2>1. PICK v : v = IF x = c THEN Settled(w, c, Rejected(SelfError)) ELSE w
    OBVIOUS
  <2>2. Tidy(v, r, l, y)
    <3>1. Tidy(Settled(w, c, Rejected(SelfError)), r, l, y)
      BY <1>1, FatesSettle, TidySettled
    <3> QED
      BY <2>1, <3>1
  <2>3. Callback("adopt", c) \in CallbackSet /\ Callback("adopt", c) # Cb(y)
    BY CallbacksTyped, Cbs DEF Callback
  <2>4. Tidy(Added(v, x, Callback("adopt", c)), r, l, y)
    BY <1>3, <2>2, <2>3, TidyAdded
  <2>5. Resolved(w, c, x) = Added(v, x, Callback("adopt", c))
    BY <1>3, <2>1 DEF Resolved
  <2> QED
    BY <2>4, <2>5
<1> QED
  BY <1>2, <1>3

\* getFutureCallback of another future keeps it.
LEMMA TidyFutureCallback ==
  ASSUME NEW w, NEW r, NEW l, NEW y, Tidy(w, r, l, y), NEW x \in Futures, NEW err, NEW val,
         x # y \/ IsSettled(w.state[x])
  PROVE  Tidy(FutureCallback(w, x, err, val), r, l, y)
<1>1. PICK fate : fate = IF err \notin {Falsy, Undefined} THEN Rejected(err) ELSE Fulfilled(val)
  OBVIOUS
<1>2. IsSettled(fate)
  BY <1>1, FatesSettle
<1>3. Tidy(Settled(w, x, fate), r, l, y)
  BY <1>2, TidySettled
<1> QED
  BY <1>1, <1>3 DEF FutureCallback

\* The places in a queue, without its first.
LEMMA Behind ==
  ASSUME NEW T, NEW ts \in Seq(T), ts # <<>>
  PROVE  /\ 1 \in DOMAIN ts /\ ts[1] = Head(ts)
         /\ \A j \in DOMAIN Tail(ts) : j \in Nat /\ j + 1 \in DOMAIN ts /\ Tail(ts)[j] = ts[j + 1]
         /\ \A j \in DOMAIN ts : j \in Nat /\ (j = 1 \/ (j - 1 \in DOMAIN Tail(ts) /\ Tail(ts)[j - 1] = ts[j]))
<1>0. PICK rest : rest = Tail(ts)
  OBVIOUS
<1>1. PICK n : n = Len(ts)
  OBVIOUS
<1>2. n \in Nat /\ n # 0 /\ DOMAIN ts = 1 .. n /\ Head(ts) = ts[1]
  BY <1>1, LenProperties, EmptySeq
<1>3. /\ DOMAIN rest = 1 .. n - 1
      /\ \A i \in 1 .. n - 1 : rest[i] = ts[i + 1]
  <2>1. Tail(ts) \in Seq(T) /\ Len(Tail(ts)) = Len(ts) - 1 /\ \A i \in 1 .. Len(Tail(ts)) : Tail(ts)[i] = ts[i + 1]
    BY HeadTailProperties
  <2>2. DOMAIN Tail(ts) = 1 .. Len(Tail(ts))
    BY <2>1, LenProperties
  <2> QED
    BY <1>0, <1>1, <2>1, <2>2
<1>4. \A j \in 1 .. n - 1 : j \in Nat /\ j + 1 \in 1 .. n
  BY <1>2
<1>5. \A j \in 1 .. n : j \in Nat /\ (j = 1 \/ (j - 1 \in 1 .. n - 1 /\ (j - 1) + 1 = j))
  BY <1>2
<1>6. 1 \in 1 .. n
  BY <1>2
<1> QED
  BY <1>0, <1>2, <1>3, <1>4, <1>5, <1>6

\* A tick that is not of an element that counts is taken without harm.
LEMMA TidyPopped ==
  ASSUME NEW l, NEW y, Tidy(World, ran, l, y), ticks # <<>>, NEW f, f = Head(ticks).of, NEW cb, cb = Head(ticks).cb,
         NEW v, v = Popped(World), NEW n, Ticking(v, f, cb, n),
         state[y] = Pending => cb # Cb(y) \/ ~Counts(state, y, f)
  PROVE  Tidy(v, ran', l, y)
<1>1. /\ World.state = state /\ World.ticks = ticks /\ World.asked = asked /\ IsWorld(World)
      /\ Order(World, ran) /\ ticks \in Seq(TickSet)
  BY WorldFields DEF Tidy, Sound, Order, Typed
<1>2. v.state = state /\ v.asked = asked /\ v.settled = World.settled /\ v.ticks = Tail(ticks) /\ Order(v, ran')
  BY <1>1 DEF Ticking, Popped, IsWorld
<1>3. Sound(v, ran') /\ ListOK(l, Len(v.settled))
  BY <1>1, <1>2 DEF Tidy, Sound
<1>4. IsSettled(v.state[y]) => Decided(v.state, v.settled, l, y, v.state[y])
  BY <1>1, <1>2 DEF Tidy
<1>5. ASSUME v.state[y] = Pending
      PROVE  Waits(v, ran', l, y)
  <2>1. Waits(World, ran, l, y) /\ (cb # Cb(y) \/ ~Counts(state, y, f))
    BY <1>1, <1>2, <1>5 DEF Tidy
  <2>2. PICK mine, rest : mine = Cb(y) /\ rest = v.ticks
    OBVIOUS
  <2>3. ASSUME NEW p \in Places(asked, mine), Counts(state, y, p[1])
        PROVE  p \in Open(asked, ran', mine)
    <3>1. p \in Open(asked, ran, mine)
      BY <1>1, <2>1, <2>2, <2>3 DEF Waits
    <3>2. CASE cb # mine
      BY <3>1, <3>2 DEF Ticking
    <3>3. CASE cb = mine
      <4>1. p # <<f, n>>
        BY <2>1, <2>2, <2>3, <3>3
      <4> QED
        BY <3>1, <4>1 DEF Ticking
    <3> QED
      BY <3>2, <3>3
  <2>4. /\ 1 \in DOMAIN ticks /\ ticks[1] = Head(ticks)
        /\ \A j \in DOMAIN rest : j \in Nat /\ j + 1 \in DOMAIN ticks /\ rest[j] = ticks[j + 1]
        /\ \A j \in DOMAIN ticks : j \in Nat /\ (j = 1 \/ (j - 1 \in DOMAIN rest /\ rest[j - 1] = ticks[j]))
    <3>1. /\ 1 \in DOMAIN ticks /\ ticks[1] = Head(ticks)
          /\ \A j \in DOMAIN Tail(ticks) : j \in Nat /\ j + 1 \in DOMAIN ticks /\ Tail(ticks)[j] = ticks[j + 1]
          /\ \A j \in DOMAIN ticks :
               j \in Nat /\ (j = 1 \/ (j - 1 \in DOMAIN Tail(ticks) /\ Tail(ticks)[j - 1] = ticks[j]))
      BY <1>1, Behind
    <3>2. rest = Tail(ticks)
      BY <1>2, <2>2
    <3> QED
      BY <3>1, <3>2, Zenon
  <2>5. ASSUME NEW j \in DOMAIN rest, NEW g \in Leading(state, l, y), rest[j].cb = mine,
               Better(World.settled, l, g, rest[j].of)
        PROVE  \E i \in 1 .. j - 1 : rest[i] = Tick(g, mine)
    <3>1. PICK m : m = j + 1
      OBVIOUS
    <3>2. m \in DOMAIN ticks /\ rest[j] = ticks[m] /\ j \in Nat
      BY <2>4, <3>1
    <3>3. PICK i \in 1 .. m - 1 : ticks[i] = Tick(g, mine)
      BY <1>1, <2>1, <2>2, <2>5, <3>2 DEF Waits, InRank
    <3>4. i \in DOMAIN ticks
      <4>1. DOMAIN ticks = 1 .. Len(ticks) /\ Len(ticks) \in Nat
        BY <1>1, LenProperties
      <4> QED
        BY <3>2, <4>1
    <3>5. i # 1
      <4>1. ASSUME i = 1 PROVE FALSE
        <5>1. Head(ticks) = Tick(g, mine)
          BY <2>4, <3>3, <4>1
        <5>2. f = g /\ cb = mine
          BY <5>1 DEF Tick
        <5> QED
          BY <2>1, <2>2, <2>5, <5>2 DEF Leading
      <4> QED
        BY <4>1
    <3>6. i - 1 \in DOMAIN rest /\ rest[i - 1] = ticks[i] /\ i \in Nat
      BY <2>4, <3>4, <3>5
    <3>7. i - 1 \in 1 .. j - 1
      BY <3>1, <3>2, <3>5, <3>6
    <3> QED
      BY <3>3, <3>6, <3>7
  <2>6. InRank(v, l, y)
    BY <1>2, <2>2, <2>5 DEF InRank
  <2> QED
    BY <1>1, <1>2, <2>1, <2>2, <2>3, <2>6 DEF Waits
<1> QED
  BY <1>3, <1>4, <1>5 DEF Tidy

\* The element that counts whose tick is taken is the first of those that count.
LEMMA HeadWins ==
  ASSUME NEW l, NEW y, Tidy(World, ran, l, y), state[y] = Pending, ticks # <<>>, NEW f, f = Head(ticks).of,
         Head(ticks).cb = Cb(y), Counts(state, y, f), NEW v, NEW n, Ticking(v, f, Cb(y), n)
  PROVE  Winner(World.settled, l, Leading(state, l, y), f)
<1>1. /\ World.state = state /\ World.ticks = ticks /\ World.asked = asked
      /\ ticks \in Seq(TickSet) /\ Waits(World, ran, l, y)
  BY WorldFields DEF Tidy, Sound, Order, Typed
<1>2. f \in Leading(state, l, y)
  <2>1. <<f, n>> \in Places(asked, Cb(y))
    BY Asking DEF Ticking
  <2>2. \A p \in Places(asked, Cb(y)) : p[1] \in Of(l)
    BY <1>1 DEF Waits
  <2>3. f \in Of(l)
    <3>1. <<f, n>>[1] = f
      OBVIOUS
    <3> QED
      BY <2>1, <2>2, <3>1, Zenon
  <2> QED
    BY <2>3 DEF Leading
<1>3. 1 \in DOMAIN ticks /\ ticks[1] = Head(ticks)
  BY <1>1, Behind
<1>4. ASSUME NEW g \in Leading(state, l, y), Better(World.settled, l, g, f)
      PROVE  FALSE
  <2>1. ticks[1].cb = Cb(y) /\ ticks[1].of = f
    BY <1>3
  <2>2. \E i \in 1 .. 1 - 1 : ticks[i] = Tick(g, Cb(y))
    BY <1>1, <1>3, <1>4, <2>1 DEF Waits, InRank
  <2> QED
    BY <2>2
<1> QED
  BY <1>2, <1>4 DEF Winner

\* Where the ticks that follow stand.
LEMMA FollowedAt ==
  ASSUME NEW T, NEW ts \in Seq(T), NEW us \in Seq(T), NEW vs, Followed(ts, us, vs)
  PROVE  /\ vs \in Seq(T) /\ Len(ts) \in Nat /\ DOMAIN ts = 1 .. Len(ts) /\ DOMAIN us \subseteq Nat
         /\ \A k \in DOMAIN us : Len(ts) + k \in DOMAIN vs /\ vs[Len(ts) + k] = us[k]
         /\ \A j \in DOMAIN vs : \/ j \in DOMAIN ts /\ vs[j] = ts[j]
                                 \/ \E k \in DOMAIN us : j = Len(ts) + k /\ vs[j] = us[k]
<1>1. PICK m, n : m = Len(ts) /\ n = Len(us) /\ m \in Nat /\ n \in Nat
  BY LenProperties
<1>2. DOMAIN ts = 1 .. m /\ DOMAIN us = 1 .. n
  BY <1>1, LenProperties
<1>3. /\ vs \in Seq(T) /\ Len(vs) = m + n
      /\ \A i \in 1 .. m + n : vs[i] = IF i <= m THEN ts[i] ELSE us[i - m]
  BY <1>1, ConcatProperties DEF Followed
<1>4. DOMAIN vs = 1 .. m + n
  BY <1>3, LenProperties
<1>5. ASSUME NEW k \in 1 .. n
      PROVE  m + k \in 1 .. m + n /\ vs[m + k] = us[k]
  <2>1. m + k \in 1 .. m + n /\ ~(m + k <= m) /\ (m + k) - m = k
    BY <1>1
  <2> QED
    BY <1>3, <2>1
<1>6. ASSUME NEW j \in 1 .. m + n
      PROVE  \/ j \in 1 .. m /\ vs[j] = ts[j]
             \/ \E k \in 1 .. n : j = m + k /\ vs[j] = us[k]
  <2>1. CASE j <= m
    <3>1. j \in 1 .. m
      BY <1>1, <2>1
    <3> QED
      BY <1>3, <2>1, <3>1
  <2>2. CASE ~(j <= m)
    <3>1. j - m \in 1 .. n /\ j = m + (j - m)
      BY <1>1, <2>2
    <3> QED
      BY <1>3, <2>2, <3>1
  <2> QED
    BY <2>1, <2>2
<1>7. 1 .. n \subseteq Nat
  BY <1>1
<1>8. vs \in Seq(T) /\ Len(ts) \in Nat /\ DOMAIN ts = 1 .. Len(ts) /\ DOMAIN us \subseteq Nat
  BY <1>1, <1>2, <1>3, <1>7
<1>9. \A k \in DOMAIN us : Len(ts) + k \in DOMAIN vs /\ vs[Len(ts) + k] = us[k]
  BY <1>1, <1>2, <1>4, <1>5
<1>10. \A j \in DOMAIN vs : \/ j \in DOMAIN ts /\ vs[j] = ts[j]
                           \/ \E k \in DOMAIN us : j = Len(ts) + k /\ vs[j] = us[k]
  BY <1>1, <1>2, <1>4, <1>6
<1> QED
  BY ONLY <1>8, <1>9, <1>10

Stands(fs, these, x) == \E i \in these : fs[i] = x

\* t is s with cb asked for once more, if x stands at one of the positions.
AskedMore(s, t, fs, these, x, cb) ==
  /\ \A i \in DOMAIN s : t[i] = s[i]
  /\ Stands(fs, these, x) => Len(s) + 1 \in 1 .. Len(t) /\ t[Len(s) + 1] = cb

\* A future that stands at one of the positions is asked at least once more.
LEMMA AskedAgain ==
  ASSUME NEW s \in Seq(CallbackSet), NEW fs, NEW these \in SUBSET Nat, IsFiniteSet(these), NEW x,
         NEW cb \in CallbackSet, NEW t, Followed(s, Again(fs, these, x, cb), t)
  PROVE  AskedMore(s, t, fs, these, x, cb)
<1>1. PICK n, more : n = Cardinality({i \in these : fs[i] = x}) /\ more = Again(fs, these, x, cb)
  OBVIOUS
<1>2. n \in Nat /\ (Stands(fs, these, x) => n # 0)
  <2>1. PICK at : at = {i \in these : fs[i] = x}
    OBVIOUS
  <2>2. IsFiniteSet(at) /\ n = Cardinality(at)
    BY <1>1, <2>1, FS_Subset
  <2>3. n \in Nat /\ (n = 0 <=> at = {})
    BY <2>2, FS_CardinalityType, FS_EmptySet
  <2> QED
    BY <2>1, <2>3 DEF Stands
<1>3. more \in [1 .. n -> CallbackSet] /\ \A i \in 1 .. n : more[i] = cb
  BY <1>1 DEF Again
<1>4. more \in Seq(CallbackSet)
  <2>1. more \in UNION {[1 .. k -> CallbackSet] : k \in Nat}
    BY <1>2, <1>3
  <2> QED
    BY <2>1, SeqDef, Zenon
<1>5. DOMAIN more = 1 .. n
  BY <1>3
<1>6. PICK m : m = Len(s)
  OBVIOUS
<1>7. /\ t \in Seq(CallbackSet) /\ m \in Nat /\ DOMAIN s = 1 .. m
      /\ \A k \in DOMAIN more : m + k \in DOMAIN t /\ t[m + k] = more[k]
  <2>1. Followed(s, more, t)
    BY <1>1
  <2> QED
    BY <1>4, <1>6, <2>1, FollowedAt
<1>8. \A i \in DOMAIN s : t[i] = s[i]
  <2>1. Followed(s, more, t)
    BY <1>1
  <2> QED
    BY <1>4, <2>1, FollowedBy
<1>9. ASSUME Stands(fs, these, x)
      PROVE  m + 1 \in 1 .. Len(t) /\ t[m + 1] = cb
  <2>1. 1 \in 1 .. n
    BY <1>2, <1>9
  <2>2. m + 1 \in DOMAIN t /\ t[m + 1] = cb
    BY <1>3, <1>5, <1>7, <2>1
  <2> QED
    BY <1>7, <2>2, LenProperties
<1> QED
  BY <1>6, <1>8, <1>9 DEF AskedMore

\* The elements that have been settled before a list is given to all or race all come at
\* once, in the order of the list.
LEMMA LateInRank ==
  ASSUME NEW s \in Seq(Futures), NEW fs \in Lists, NEW l, l.of = fs, l.at = Len(s),
         NEW f, NEW i \in DOMAIN fs, f \in ToSet(fs), Better(s, l, f, fs[i])
  PROVE  \E b \in DOMAIN fs : b < i /\ fs[b] = f
<1>1. PICK T : T = Natives \cup Children \cup {Plain}
  OBVIOUS
<1>2. fs \in Seq(T) /\ DOMAIN fs = 1 .. Len(fs) /\ Len(fs) \in Nat
  BY <1>1, PositionsOfFutures, ListsAssumption
<1>3. \A g : When(s, l, g) = Len(s)
  <2> SUFFICES ASSUME NEW g PROVE When(s, l, g) = Len(s)
    OBVIOUS
  <2>1. PICK k, m : k = Pos(s, g) /\ m = Len(s)
    OBVIOUS
  <2>2. m \in Nat /\ k \in 0 .. m
    BY <2>1, PosIs, LenProperties
  <2>3. (IF k < m THEN m ELSE k) = m
    BY <2>2
  <2> QED
    BY <2>1, <2>3 DEF When
<1>4. PICK n : n = Len(s) /\ n \in Nat
  BY LenProperties
<1>5. PICK g, b, c : g = fs[i] /\ b = Pos(fs, f) /\ c = Pos(fs, g)
  OBVIOUS
<1>6. b < c
  <2>1. When(s, l, f) = n /\ When(s, l, g) = n /\ ~(n < n)
    BY <1>3, <1>4
  <2> QED
    BY <1>5, <2>1 DEF Better
<1>7. g \in ToSet(fs)
  BY <1>5 DEF ToSet
<1>8. b \in 1 .. Len(fs) /\ fs[b] = f
  BY <1>2, <1>5, PosIs
<1>9. c \in 1 .. Len(fs) /\ c <= i
  BY <1>2, <1>5, <1>7, PosIs
<1>10. b < i
  BY <1>2, <1>6, <1>8, <1>9
<1> QED
  BY <1>2, <1>8, <1>10

-----------------------------------------------------------------------------
(* How a future of all or race begins.                                       *)

\* The list l is fs, whose futures stand at these positions.
Held(l, n, fs, these) ==
  /\ fs \in Lists /\ l.of = fs /\ l.at = n
  /\ these \in SUBSET DOMAIN fs /\ \A i \in DOMAIN fs : i \in these <=> fs[i] # Plain
Positions(fs, these) ==
  fs \in Lists /\ these \in SUBSET DOMAIN fs /\ \A i \in these : fs[i] # Plain
NoPlain(y, fs) == y \in Races => Plain \notin ToSet(fs)

AsksThese(w, v, r, fs, these, cb, late) ==
  /\ \A x : Grown(w, v, x)
  /\ Order(v, r) /\ v.state = w.state /\ v.settled = w.settled
  /\ \A f \in Futures : v.asked[f] = w.asked[f] \o Again(fs, these, f, cb)
  /\ LateTicks(fs, late, cb) \in Seq(TickSet)
  /\ Followed(w.ticks, LateTicks(fs, late, cb), v.ticks)

\* What is asked of the elements at some positions.
LEMMA PositionsGrow ==
  ASSUME NEW w, NEW r, Order(w, r), NEW fs, NEW these, Positions(fs, these),
         NEW cb \in CallbackSet, NEW v, v = Waiting(w, fs, these, cb), NEW late, late = Late(w, fs, these)
  PROVE  AsksThese(w, v, r, fs, these, cb, late)
<1>1. fs \in Lists /\ these \in SUBSET DOMAIN fs /\ \A i \in these : fs[i] # Plain
  BY DEF Positions
<1> QED
  BY <1>1, WaitingGrows DEF AsksThese

\* What a list that is held consists of.
LEMMA HeldIs ==
  ASSUME NEW l, NEW n, NEW fs, NEW these, Held(l, n, fs, these)
  PROVE  /\ fs \in Lists /\ l.of = fs /\ l.at = n
         /\ DOMAIN fs = 1 .. Len(fs) /\ fs \in Seq(Natives \cup Children \cup {Plain})
         /\ \A i \in DOMAIN fs : i \in these <=> fs[i] # Plain
<1>1. fs \in Lists /\ these \in SUBSET DOMAIN fs
  BY DEF Held
<1> QED
  BY <1>1, PositionsOfFutures, ListsAssumption DEF Held

\* The elements of a list that is held.
LEMMA HeldOf ==
  ASSUME NEW l, NEW n, NEW fs, NEW these, Held(l, n, fs, these)
  PROVE  \A f : f \in Of(l) <=> Stands(fs, these, f)
  BY DEF Held, Of, ToSet, Stands

\* y that has just begun to wait for all its elements.
LEMMA Begun ==
  ASSUME NEW w, NEW r, Sound(w, r), NEW y \in Combiners, w.state[y] = Pending,
         Places(w.asked, Cb(y)) = {}, NEW fs, NEW these \in SUBSET Nat, IsFiniteSet(these),
         NEW l, Held(l, Len(w.settled), fs, these), NoPlain(y, fs),
         NEW v, v = Waiting(w, fs, these, Cb(y))
  PROVE  Tidy(v, r, l, y)
<1>1. PICK cb, late, us : cb = Cb(y) /\ late = Late(w, fs, these) /\ us = LateTicks(fs, late, cb)
  OBVIOUS
<1>2. Order(w, r) /\ Typed(w) /\ cb \in CallbackSet
  BY <1>1, Cbs DEF Sound, Order
<1>3. /\ \A x : Grown(w, v, x)
      /\ Order(v, r) /\ v.state = w.state /\ v.settled = w.settled
      /\ \A f \in Futures : v.asked[f] = w.asked[f] \o Again(fs, these, f, cb)
      /\ us \in Seq(TickSet) /\ Followed(w.ticks, us, v.ticks)
  <2>1. v = Waiting(w, fs, these, cb) /\ Order(w, r) /\ cb \in CallbackSet /\ Positions(fs, these)
    BY <1>1, <1>2 DEF Positions, Held
  <2>2. /\ \A x : Grown(w, v, x)
        /\ Order(v, r) /\ v.state = w.state /\ v.settled = w.settled
        /\ \A f \in Futures : v.asked[f] = w.asked[f] \o Again(fs, these, f, cb)
        /\ LateTicks(fs, late, cb) \in Seq(TickSet)
        /\ Followed(w.ticks, LateTicks(fs, late, cb), v.ticks)
    <3>1. AsksThese(w, v, r, fs, these, cb, late)
      BY <1>1, <2>1, PositionsGrow
    <3> QED
      BY <3>1 DEF AsksThese
  <2> QED
    BY <1>1, <2>2, Zenon
<1>4. ListOK(l, Len(w.settled)) /\ Sound(v, r)
  <2>1. Len(w.settled) \in Nat
    BY LenProperties DEF Sound
  <2> QED
    BY <1>2, <1>3, <2>1, HeldIs, GrownSound DEF ListOK
<1>5. \A f : f \in Of(l) <=> Stands(fs, these, f)
  BY HeldOf
<1>6. Of(l) \subseteq Futures
  BY <1>4, Elems
<1>7. ASSUME NEW f \in Futures
      PROVE  /\ w.asked[f] \in Seq(CallbackSet) /\ Len(w.asked[f]) \in Nat /\ DOMAIN w.asked[f] = 1 .. Len(w.asked[f])
             /\ \A i \in DOMAIN w.asked[f] : v.asked[f][i] = w.asked[f][i]
             /\ Stands(fs, these, f)
                  => Len(w.asked[f]) + 1 \in 1 .. Len(v.asked[f]) /\ v.asked[f][Len(w.asked[f]) + 1] = cb
  <2>1. w.asked[f] \in Seq(CallbackSet)
    BY <1>2 DEF Typed
  <2>2. Followed(w.asked[f], Again(fs, these, f, cb), v.asked[f])
    BY <1>3, Zenon DEF Followed
  <2>3. PICK s, t : s = w.asked[f] /\ t = v.asked[f]
    OBVIOUS
  <2>4. /\ \A i \in DOMAIN s : t[i] = s[i]
        /\ Stands(fs, these, f) => Len(s) + 1 \in 1 .. Len(t) /\ t[Len(s) + 1] = cb
    <3>1. /\ s \in Seq(CallbackSet) /\ Followed(s, Again(fs, these, f, cb), t)
          /\ cb \in CallbackSet
      BY <1>2, <2>1, <2>2, <2>3
    <3>2. AskedMore(s, t, fs, these, f, cb)
      BY <3>1, AskedAgain
    <3> QED
      BY <3>2 DEF AskedMore
  <2> QED
    BY <2>1, <2>3, <2>4, LenProperties
<1>8. ASSUME NEW f \in Of(l)
      PROVE  \E p \in Places(v.asked, cb) : p[1] = f
  <2>1. PICK n : n = Len(w.asked[f]) + 1
    OBVIOUS
  <2>2. n \in Nat /\ n \in 1 .. Len(v.asked[f]) /\ v.asked[f][n] = cb /\ f \in Futures
    BY <1>5, <1>6, <1>7, <2>1
  <2>3. <<f, n>> \in Places(v.asked, cb) /\ <<f, n>>[1] = f
    BY <2>2 DEF Places
  <2> QED
    BY <2>3
<1>9. ASSUME NEW p \in Places(v.asked, cb)
      PROVE  p[1] \in Of(l) /\ p \in Open(v.asked, r, cb)
  <2>1. PICK as, bs : as = w.asked /\ bs = v.asked
    OBVIOUS
  <2>2. as \in [Futures -> Seq(CallbackSet)] /\ \A x \in Futures : bs[x] = as[x] \o Again(fs, these, x, cb)
    BY <1>2, <1>3, <2>1, Zenon DEF Typed
  <2>3. /\ \A o : o # cb => Places(bs, o) = Places(as, o)
        /\ \A q \in Places(bs, cb) : q \in Places(as, cb) \/ \E i \in these : fs[i] = q[1]
        /\ Places(as, cb) = {} => /\ IsFiniteSet(Places(bs, cb))
                                  /\ Cardinality(Places(bs, cb)) <= Cardinality(these)
    <3>1. cb \in CallbackSet
      BY <1>2
    <3>2. MoreIsAsked(as, bs, fs, these, cb)
      BY <2>2, Zenon DEF MoreIsAsked
    <3>3. PlacesGained(as, bs, fs, these, cb)
      BY <2>2, <3>1, <3>2, WaitingGains
    <3> QED
      BY <3>3, Zenon DEF PlacesGained
  <2>4. p[1] \in Of(l)
    BY <1>1, <1>5, <2>1, <2>3 DEF Stands
  <2>5. PICK f, m : f = p[1] /\ m = p[2] /\ p = <<f, m>> /\ f \in Futures /\ m \in Nat
    <3>1. p \in Futures \X Nat
      BY Asking
    <3> QED
      BY <3>1
  <2>6. m \in 1 .. Len(v.asked[f]) /\ v.asked[f][m] = cb
    BY <2>5 DEF Places
  <2>7. m \notin 1 .. Len(w.asked[f])
    <3>1. ASSUME m \in 1 .. Len(w.asked[f]) PROVE FALSE
      <4>1. w.asked[f][m] = cb
        BY <1>7, <2>5, <2>6, <3>1
      <4>2. p \in Places(w.asked, cb)
        BY <2>5, <3>1, <4>1 DEF Places
      <4> QED
        BY <1>1, <4>2
    <3> QED
      BY <3>1
  <2>8. PICK k, n : k = Len(r[f]) /\ n = Len(w.asked[f]) /\ k \in Nat /\ n \in Nat /\ k <= n
    BY <1>2, <2>5, OrderLens
  <2>9. k < m
    <3>1. 1 <= m
      <4>1. PICK e : e = Len(v.asked[f])
        OBVIOUS
      <4>2. m \in 1 .. e
        BY <2>6, <4>1
      <4> QED
        BY <2>5, <4>2
    <3>2. ~(m <= n)
      BY <2>5, <2>7, <2>8, <3>1
    <3> QED
      BY <2>5, <2>8, <3>2
  <2> QED
    BY <2>4, <2>5, <2>8, <2>9 DEF Open
<1>10. ASSUME NEW j \in DOMAIN v.ticks, NEW f \in Leading(v.state, l, y), v.ticks[j].cb = cb,
              Better(v.settled, l, f, v.ticks[j].of)
       PROVE  \E i \in 1 .. j - 1 : v.ticks[i] = Tick(f, cb)
  <2>1. PICK ts, vs : ts = w.ticks /\ vs = v.ticks /\ ts \in Seq(TickSet)
    BY <1>2 DEF Typed
  <2>2. PICK m : m = Len(ts)
    OBVIOUS
  <2>3. /\ vs \in Seq(TickSet) /\ m \in Nat /\ DOMAIN ts = 1 .. m /\ DOMAIN us \subseteq Nat
        /\ \A k \in DOMAIN us : m + k \in DOMAIN vs /\ vs[m + k] = us[k]
        /\ \A i \in DOMAIN vs : \/ i \in DOMAIN ts /\ vs[i] = ts[i]
                                \/ \E k \in DOMAIN us : i = m + k /\ vs[i] = us[k]
    BY <1>3, <2>1, <2>2, FollowedAt
  <2>4. ~(j \in DOMAIN ts /\ vs[j] = ts[j])
    <3>1. ASSUME j \in DOMAIN ts, vs[j] = ts[j] PROVE FALSE
      <4>1. \E e \in Nat : <<ts[j].of, e>> \in Open(w.asked, r, ts[j].cb)
        BY <1>2, <2>1, <3>1, TickDue
      <4>2. ts[j].cb = cb
        BY <1>10, <2>1, <3>1
      <4> QED
        BY <1>1, <4>1, <4>2, Asking
    <3> QED
      BY <3>1
  <2>5. PICK k \in DOMAIN us : j = m + k /\ vs[j] = us[k]
    BY <2>1, <2>3, <2>4
  <2>6. late \in SUBSET these /\ late \in SUBSET Nat /\ IsFiniteSet(late)
        /\ \A i : i \in late <=> i \in these /\ IsSettled(w.state[fs[i]])
    <3>1. late \in SUBSET these
      BY <1>1 DEF Late
    <3>2. IsFiniteSet(late)
      BY <1>2, <3>1, FS_Subset
    <3> QED
      BY <1>1, <1>2, <3>1, <3>2 DEF Late
  <2>7. PICK c : c = Cardinality(late)
    OBVIOUS
  <2>8. /\ c \in Nat
        /\ \A i \in late : Rank(late, i) \in 1 .. c
        /\ \A i, e \in late : i < e => Rank(late, i) < Rank(late, e)
        /\ \A e \in 1 .. c : Nth(late, e) \in late /\ Rank(late, Nth(late, e)) = e
        /\ \A i \in late : Nth(late, Rank(late, i)) = i
    BY <2>6, <2>7, Ranked
  <2>9. DOMAIN us = 1 .. c /\ \A e \in 1 .. c : us[e] = Tick(fs[Nth(late, e)], cb)
    BY <1>1, <2>7 DEF LateTicks
  <2>10. PICK a : a = Nth(late, k)
    OBVIOUS
  <2>11. a \in late /\ Rank(late, a) = k /\ vs[j].of = fs[a]
    <3>1. us[k] = Tick(fs[a], cb)
      BY <2>9, <2>10
    <3> QED
      BY <2>5, <2>8, <2>9, <2>10, <3>1 DEF Tick
  <2>12. f \in Of(l) /\ IsSettled(w.state[f])
    <3>1. f \in Of(l) /\ f \in Futures /\ Counts(w.state, y, f)
      BY <1>3, <1>6 DEF Leading
    <3> QED
      BY <3>1, GrownCounts DEF Later
  <2>13. PICK b \in DOMAIN fs : b < a /\ fs[b] = f
    <3>1. f \in ToSet(fs) /\ a \in DOMAIN fs
      BY <2>6, <2>11, <2>12, HeldIs DEF Of, Held
    <3>2. Better(w.settled, l, f, fs[a]) /\ w.settled \in Seq(Futures)
      BY <1>3, <1>10, <2>1, <2>11 DEF Sound
    <3> QED
      BY <3>1, <3>2, HeldIs, LateInRank
  <2>14. b \in late
    <3>1. f # Plain
      BY <2>12 DEF Of
    <3>2. b \in these
      BY <2>13, <3>1, HeldIs
    <3> QED
      BY <2>6, <2>12, <2>13, <3>2
  <2>15. PICK n : n = Rank(late, b)
    OBVIOUS
  <2>16. n \in 1 .. c /\ n < k /\ Nth(late, n) = b
    BY <2>8, <2>11, <2>13, <2>14, <2>15
  <2>17. us[n] = Tick(f, cb)
    BY <2>9, <2>13, <2>16
  <2>18. vs[m + n] = Tick(f, cb)
    BY <2>3, <2>9, <2>16, <2>17
  <2>19. m + n \in 1 .. j - 1
    <3>1. k \in Nat /\ n \in Nat /\ 1 <= n
      BY <2>3, <2>8, <2>16
    <3> QED
      BY <2>3, <2>5, <2>16, <3>1
  <2> QED
    BY <2>1, <2>18, <2>19
<1>11. Waits(v, r, l, y)
  <2>1. InRank(v, l, y)
    BY <1>1, <1>10 DEF InRank
  <2> QED
    BY <1>1, <1>8, <1>9, <2>1, HeldIs DEF Waits, NoPlain
<1>12. ~IsSettled(v.state[y])
  BY <1>3, FatesSettle
<1> QED
  BY <1>3, <1>4, <1>11, <1>12 DEF Tidy

\* y is settled with a fate that its elements decide.
LEMMA TidyDecided ==
  ASSUME NEW w, NEW r, Sound(w, r), NEW l, ListOK(l, Len(w.settled)), NEW y \in Combiners,
         ~IsSettled(w.state[y]), NEW fate, IsSettled(fate), Decided(w.state, w.settled, l, y, fate),
         NEW v, v = Settled(w, y, fate)
  PROVE  Tidy(v, r, l, y)
<1>1. Grown(w, v, y) /\ Order(v, r) /\ v.state[y] = fate
  <2>1. y \in Futures /\ Order(w, r)
    BY Cbs DEF Sound
  <2> QED
    BY <2>1, SettledGrows
<1>2. Sound(v, r) /\ ListOK(l, Len(v.settled))
  BY <1>1, GrownSound
<1>3. Decided(v.state, v.settled, l, y, fate)
  BY <1>1, DecidedStays
<1>4. fate # Pending
  BY FatesSettle
<1> QED
  BY <1>1, <1>2, <1>3, <1>4 DEF Tidy

\* getFutureCallback settles so.
LEMMA CallbackSettles ==
  \A w, x, err, val : FutureCallback(w, x, err, val) = Settled(w, x, EndOf(err, val))
  BY DEF FutureCallback, EndOf

\* The list of the future that is being made.
Given(l, fs, n) == l.of = fs /\ l.at = n

\* It is a list of elements, and it was given now.
LEMMA GivenIs ==
  ASSUME NEW l, NEW fs \in Lists, NEW n \in Nat, Given(l, fs, n)
  PROVE  l.of = fs /\ l.at = n /\ ListOK(l, n)
  BY ListsAssumption DEF Given, ListOK

\* The world v in which f has just been made.
Newly(w, v, f, s) == v = [w EXCEPT !.state[f] = s]
Fresh(w, v, r, f, s) ==
  /\ Sound(v, r) /\ Order(v, r) /\ v.state[f] = s
  /\ v.settled = w.settled /\ v.asked = w.asked

\* To make a future settles nothing and asks for nothing.
LEMMA NewlyFresh ==
  ASSUME NEW w, NEW r, Sound(w, r), NEW f \in Futures, w.state[f] = Unmade, NEW s, s \in {Pending, Thrown},
         NEW v, Newly(w, v, f, s)
  PROVE  Fresh(w, v, r, f, s)
<1>1. PICK u : u = [w EXCEPT !.state[f] = s]
  OBVIOUS
<1>2. Order(w, r)
  BY DEF Sound
<1>3. Grown(w, u, f) /\ Order(u, r) /\ u.asked = w.asked /\ u.settled = w.settled /\ u.state[f] = s
  <2>1. /\ Grown(w, u, f) /\ Order(u, r) /\ u.asked = w.asked /\ u.ticks = w.ticks
        /\ \A z : z # f => u.state[z] = w.state[z]
    BY <1>1, <1>2, MadeGrows
  <2>2. MadeTo(w, u, f, s)
    BY <1>1, <1>2, MadeFields DEF Order, Typed
  <2>3. f \in DOMAIN w.state
    BY <1>2 DEF Order, Typed
  <2> QED
    BY <2>1, <2>2, <2>3 DEF MadeTo
<1>4. Sound(u, r)
  BY <1>3, GrownSound
<1>5. u = v
  BY <1>1 DEF Newly
<1> QED
  BY <1>3, <1>4, <1>5 DEF Fresh

\* A future of all that is made keeps its list.
LEMMA AllBegins ==
  ASSUME OrderInv, FateInv, Sound(World, ran), NEW fs \in Lists, NEW a \in Alls, All(a, fs),
         NEW l, Given(l, fs, Len(settled))
  PROVE  \E v : Become(v) /\ Tidy(v, ran, l, a)
<1>1. PICK these, w : these = {i \in DOMAIN fs : fs[i] # Plain} /\ w = [World EXCEPT !.state[a] = Pending]
  OBVIOUS
<1>2. /\ state[a] = Unmade
      /\ \/ fs = <<>> /\ Become(FutureCallback(w, a, Undefined, <<>>))
         \/ Become([World EXCEPT !.state[a] = Thrown])
         \/ Become(Waiting(w, fs, these, Callback("all", a)))
  BY <1>1 DEF All, New
<1>3. /\ a \in Combiners /\ a \in Futures /\ a \notin Races
      /\ Cb(a) = Callback("all", a) /\ Cb(a) \in CallbackSet /\ Cb(a).to = a
  <2>1. a \in Combiners
    BY DEF Combiners
  <2>2. a \notin Races
    BY <2>1, Cbs
  <2> QED
    BY <2>1, <2>2, Cbs
<1>4. /\ Order(World, ran) /\ World.state[a] = Unmade /\ World.settled = settled /\ World.asked = asked
      /\ settled \in Seq(Futures) /\ Len(settled) \in Nat
  <2>1. World.settled = settled
    BY DEF World
  <2> QED
    BY <1>2, <2>1, WorldFields, LenProperties DEF Sound
<1>5. ListOK(l, Len(settled)) /\ l.of = fs
  BY <1>4, GivenIs
<1>6. ASSUME NEW s \in {Pending, Thrown}, NEW v, v = [World EXCEPT !.state[a] = s]
      PROVE  /\ Sound(v, ran) /\ ListOK(l, Len(v.settled)) /\ v.state[a] = s
             /\ v.settled = settled /\ v.asked = asked
  <2>1. Newly(World, v, a, s)
    BY <1>6 DEF Newly
  <2>2. Fresh(World, v, ran, a, s)
    BY <1>3, <1>4, <1>6, <2>1, NewlyFresh
  <2> QED
    BY <2>2, <1>4, <1>5 DEF Fresh
<1>7. CASE fs = <<>> /\ Become(FutureCallback(w, a, Undefined, <<>>))
  <2>1. Sound(w, ran) /\ ListOK(l, Len(w.settled)) /\ w.state[a] = Pending
    BY <1>1, <1>6
  <2>2. FutureCallback(w, a, Undefined, <<>>) = Settled(w, a, Fulfilled(<<>>))
    BY CallbackSettles DEF EndOf
  <2>3. Decided(w.state, w.settled, l, a, Fulfilled(<<>>))
    <3>1. l.of = <<>>
      BY <1>5, <1>7
    <3>2. ToSet(l.of) = {}
      BY <3>1 DEF ToSet
    <3>3. ValuesOf(w.state, l) = <<>>
      BY <3>1 DEF ValuesOf
    <3> QED
      BY <3>2, <3>3 DEF Decided
  <2>4. Tidy(Settled(w, a, Fulfilled(<<>>)), ran, l, a)
    BY <1>3, <2>1, <2>3, TidyDecided, FatesSettle
  <2> QED
    BY <1>7, <2>2, <2>4
<1>8. CASE Become([World EXCEPT !.state[a] = Thrown])
  <2>1. PICK v : v = [World EXCEPT !.state[a] = Thrown]
    OBVIOUS
  <2>2. Sound(v, ran) /\ ListOK(l, Len(v.settled)) /\ v.state[a] = Thrown
    BY <2>1, <1>6
  <2>3. Thrown # Pending
    BY DEF Thrown, Pending
  <2> QED
    BY <1>8, <2>1, <2>2, <2>3, FatesSettle DEF Tidy
<1>9. CASE Become(Waiting(w, fs, these, Callback("all", a)))
  <2>1. Sound(w, ran) /\ w.state[a] = Pending /\ w.settled = settled /\ w.asked = asked
    BY <1>1, <1>6
  <2>2. these \in SUBSET Nat /\ IsFiniteSet(these)
    BY <1>1, PositionsOfFutures
  <2>3. Places(w.asked, Cb(a)) = {}
    BY <1>2, <1>3, <2>1, UnmadeAsksNothing DEF FateInv
  <2>4. Held(l, Len(w.settled), fs, these)
    BY <1>1, <2>1 DEF Held, Given
  <2>5. NoPlain(a, fs)
    BY <1>3 DEF NoPlain
  <2>6. Tidy(Waiting(w, fs, these, Cb(a)), ran, l, a)
    BY <1>3, <2>1, <2>2, <2>3, <2>4, <2>5, Begun
  <2> QED
    BY <1>3, <1>9, <2>6
<1> QED
  BY <1>2, <1>7, <1>8, <1>9

\* A future of race that is made keeps its list.
LEMMA RaceBegins ==
  ASSUME OrderInv, FateInv, Sound(World, ran), NEW fs \in Lists, NEW x \in Races, Race(x, fs),
         NEW l, Given(l, fs, Len(settled))
  PROVE  \E v : Become(v) /\ Tidy(v, ran, l, x)
<1>1. PICK these, w : /\ these = {i \in DOMAIN fs : \A j \in 1 .. i : fs[j] # Plain}
                      /\ w = [World EXCEPT !.state[x] = Pending]
  OBVIOUS
<1>2. PICK u : u = Waiting(w, fs, these, Cb(x))
  OBVIOUS
<1>3. /\ x \in Combiners /\ x \in Futures /\ x \notin Alls
      /\ Cb(x) = Callback("race", x) /\ Cb(x) \in CallbackSet /\ Cb(x).to = x
  <2>1. x \in Combiners
    BY DEF Combiners
  <2> QED
    BY <2>1, Cbs
<1>4. /\ state[x] = Unmade
      /\ Plain \in ToSet(fs) => Become(FutureCallback(u, x, Undefined, Plain))
      /\ Plain \notin ToSet(fs) => Become(u)
  BY <1>1, <1>2, <1>3 DEF Race, RaceBegun, New
<1>5. /\ Order(World, ran) /\ World.state[x] = Unmade /\ World.settled = settled /\ World.asked = asked
      /\ settled \in Seq(Futures) /\ Len(settled) \in Nat
  <2>1. World.settled = settled
    BY DEF World
  <2> QED
    BY <1>4, <2>1, WorldFields, LenProperties DEF Sound
<1>6. ListOK(l, Len(settled)) /\ l.of = fs
  BY <1>5, GivenIs
<1>7. Sound(w, ran) /\ Order(w, ran) /\ w.state[x] = Pending /\ w.settled = settled /\ w.asked = asked
  <2>1. Newly(World, w, x, Pending)
    BY <1>1 DEF Newly
  <2>2. Fresh(World, w, ran, x, Pending)
    BY <1>3, <1>5, <2>1, NewlyFresh
  <2> QED
    BY <2>2, <1>5 DEF Fresh
<1>8. /\ these \in SUBSET DOMAIN fs /\ these \in SUBSET Nat /\ IsFiniteSet(these)
      /\ \A i \in these : fs[i] # Plain
  <2>1. ASSUME NEW i \in these PROVE fs[i] # Plain
    <3>1. i \in 1 .. Len(fs) /\ Len(fs) \in Nat /\ \A j \in 1 .. i : fs[j] # Plain
      BY <1>1, PositionsOfFutures
    <3>2. i \in 1 .. i
      BY <3>1
    <3> QED
      BY <3>1, <3>2
  <2> QED
    BY <1>1, <2>1, PositionsOfFutures
<1>9. CASE Plain \in ToSet(fs)
  <2>1. Grown(w, u, x) /\ Order(u, ran) /\ u.state = w.state /\ u.settled = w.settled
    <3>1. PICK late : late = Late(w, fs, these)
      OBVIOUS
    <3>2. Positions(fs, these)
      BY <1>8 DEF Positions
    <3>3. AsksThese(w, u, ran, fs, these, Cb(x), late)
      BY <1>2, <1>3, <1>7, <3>1, <3>2, PositionsGrow
    <3> QED
      BY <3>3 DEF AsksThese
  <2>2. Sound(u, ran)
    BY <1>7, <2>1, GrownSound
  <2>3. FutureCallback(u, x, Undefined, Plain) = Settled(u, x, Fulfilled(Plain))
    BY CallbackSettles DEF EndOf
  <2>4. Decided(u.state, u.settled, l, x, Fulfilled(Plain))
    BY <1>6, <1>9 DEF Decided
  <2>5. ListOK(l, Len(u.settled)) /\ ~IsSettled(u.state[x])
    BY <1>6, <1>7, <2>1, FatesSettle
  <2>6. Tidy(Settled(u, x, Fulfilled(Plain)), ran, l, x)
    BY <1>3, <2>2, <2>4, <2>5, TidyDecided, FatesSettle
  <2> QED
    BY <1>4, <1>9, <2>3, <2>6
<1>10. CASE Plain \notin ToSet(fs)
  <2>1. \A i \in DOMAIN fs : fs[i] # Plain /\ i \in these
    <3>1. \A i \in DOMAIN fs : fs[i] # Plain
      BY <1>10 DEF ToSet
    <3>2. ASSUME NEW i \in DOMAIN fs PROVE i \in these
      <4>1. DOMAIN fs = 1 .. Len(fs) /\ Len(fs) \in Nat
        BY PositionsOfFutures
      <4>2. \A j \in 1 .. i : j \in DOMAIN fs
        BY <4>1
      <4> QED
        BY <1>1, <3>1, <4>2
    <3> QED
      BY <3>1, <3>2
  <2>2. Places(w.asked, Cb(x)) = {}
    BY <1>3, <1>4, <1>7, UnmadeAsksNothing DEF FateInv
  <2>3. Held(l, Len(w.settled), fs, these)
    BY <1>7, <1>8, <2>1 DEF Held, Given
  <2>4. NoPlain(x, fs)
    BY <1>10 DEF NoPlain
  <2>5. Tidy(u, ran, l, x)
    BY <1>2, <1>3, <1>7, <1>8, <2>2, <2>3, <2>4, Begun
  <2> QED
    BY <1>4, <1>10, <2>5
<1> QED
  BY <1>9, <1>10

-----------------------------------------------------------------------------
(* Every step, for all and race.                                             *)

\* A step that becomes a world in which y is what it has to be.
StaysTidy(r, l, y) == \E v : Become(v) /\ Tidy(v, r, l, y)
Stays(y) == StaysTidy(ran', list'[y], y)

\* What the list of y is after a step of all or race.
LEMMA ListGiven ==
  ASSUME AllsOK, NEW x \in Combiners, NEW y \in Combiners, NEW fs, NEW n,
         list' = [list EXCEPT ![x] = [of |-> fs, at |-> n]]
  PROVE  /\ x = y => Given(list'[y], fs, n)
         /\ x # y => list'[y] = list[y]
<1>1. list = [z \in Combiners |-> list[z]]
  BY DEF AllsOK, Combiners
<1>2. x \in DOMAIN list /\ y \in DOMAIN list
  BY <1>1
<1> QED
  BY <1>2 DEF Given

\* Native code, then, node-style callbacks and loops keep the lists.
LEMMA SimpleStays ==
  ASSUME OrderInv, NEW y \in Combiners, Tidy(World, ran, list[y], y),
         \/ \E f \in Natives : Native(f)
         \/ \E f \in Futures, c \in Children : Then(f, c)
         \/ \E f \in Futures, n \in Nodes : NodeStyle(f, n)
         \/ \E l \in Loops : StartLoop(l)
  PROVE  Stays(y)
<1>1. PICK l, r : l = list[y] /\ r = ran
  OBVIOUS
<1>2. Tidy(World, r, l, y) /\ y \in Futures /\ y \notin Natives \cup Children \cup Loops
  BY <1>1, Cbs
<1>3. ASSUME NEW f \in Natives, Native(f)
      PROVE  ran' = r /\ list' = list /\ StaysTidy(r, l, y)
  <2>1. PICK fate : IsSettled(fate) /\ Become(Settled(World, f, fate)) /\ UNCHANGED <<list, ran>>
    BY <1>3, NativeSettles
  <2>2. f \in Futures /\ f # y /\ ran' = r /\ list' = list
    BY <1>1, <1>2, <2>1 DEF Futures
  <2>3. Tidy(Settled(World, f, fate), r, l, y)
    BY <1>2, <2>1, <2>2, TidySettled
  <2> QED
    BY <2>1, <2>2, <2>3 DEF StaysTidy
<1>4. ASSUME NEW f \in Futures, NEW c \in Children, Then(f, c)
      PROVE  ran' = r /\ list' = list /\ StaysTidy(r, l, y)
  <2>1. PICK w : w = [World EXCEPT !.state[c] = Pending]
    OBVIOUS
  <2>2. /\ Become(Added(w, f, Callback("then", c))) /\ ran' = r /\ list' = list
        /\ c \in Futures /\ World.state[c] = Unmade /\ c # y
    BY <1>1, <1>2, <1>4, <2>1, WorldFields DEF Then, New, Futures
  <2>3. Tidy([World EXCEPT !.state[c] = Pending], r, l, y)
    BY <1>2, <2>2, TidyMade
  <2>4. Callback("then", c) \in CallbackSet /\ Callback("then", c) # Cb(y)
    BY CallbacksTyped, CallbacksDiffer DEF Cb
  <2>5. Tidy(Added(w, f, Callback("then", c)), r, l, y)
    BY <2>1, <2>3, <2>4, TidyAdded
  <2> QED
    BY <2>2, <2>5 DEF StaysTidy
<1>5. ASSUME NEW f \in Futures, NEW n \in Nodes, NodeStyle(f, n)
      PROVE  ran' = r /\ list' = list /\ StaysTidy(r, l, y)
  <2>1. Become(Added(World, f, Callback("node", n))) /\ ran' = r /\ list' = list
    BY <1>1, <1>5 DEF NodeStyle
  <2>2. Callback("node", n) \in CallbackSet /\ Callback("node", n) # Cb(y)
    BY CallbacksTyped, CallbacksDiffer DEF Cb
  <2>3. Tidy(Added(World, f, Callback("node", n)), r, l, y)
    BY <1>2, <2>2, TidyAdded
  <2> QED
    BY <2>1, <2>3 DEF StaysTidy
<1>6. ASSUME NEW k \in Loops, StartLoop(k)
      PROVE  ran' = r /\ list' = list /\ StaysTidy(r, l, y)
  <2>1. /\ Become([World EXCEPT !.state[k] = Pending]) /\ ran' = r /\ list' = list
        /\ k \in Futures /\ World.state[k] = Unmade /\ k # y
    BY <1>1, <1>2, <1>6, WorldFields DEF StartLoop, New, Futures
  <2>2. Tidy([World EXCEPT !.state[k] = Pending], r, l, y)
    BY <1>2, <2>1, TidyMade
  <2> QED
    BY <2>1, <2>2 DEF StaysTidy
<1>7. ran' = r /\ list' = list /\ StaysTidy(r, l, y)
  BY <1>3, <1>4, <1>5, <1>6
<1> QED
  BY <1>1, <1>7 DEF Stays

\* all keeps the lists.
LEMMA AllStays ==
  ASSUME OrderInv, FateInv, NEW y \in Combiners, Tidy(World, ran, list[y], y),
         NEW fs \in Lists, NEW a \in Alls, All(a, fs)
  PROVE  Stays(y)
<1>1. PICK l, r, m : l = list[y] /\ r = ran /\ m = list'[y]
  OBVIOUS
<1>2. Tidy(World, r, l, y) /\ a \in Combiners /\ a \in Futures
  <2>1. a \in Combiners
    BY DEF Combiners
  <2> QED
    BY <1>1, <2>1, Cbs
<1>3. ran' = r /\ World.state[a] = Unmade /\ list' = [list EXCEPT ![a] = [of |-> fs, at |-> Len(settled)]]
  BY <1>1, WorldFields DEF All, New
<1>4. CASE a = y
  <2>1. Given(m, fs, Len(settled))
    BY <1>1, <1>2, <1>3, <1>4, ListGiven DEF FateInv
  <2>2. Sound(World, ran)
    BY DEF Tidy
  <2>3. \E v : Become(v) /\ Tidy(v, ran, m, a)
    BY <2>1, <2>2, AllBegins
  <2> QED
    BY <1>1, <1>3, <1>4, <2>3 DEF Stays, StaysTidy
<1>5. CASE a # y
  <2>1. m = l
    BY <1>1, <1>2, <1>3, <1>5, ListGiven DEF FateInv
  <2>2. PICK these, w : these = {i \in DOMAIN fs : fs[i] # Plain} /\ w = [World EXCEPT !.state[a] = Pending]
    OBVIOUS
  <2>3. \/ Become(FutureCallback(w, a, Undefined, <<>>))
        \/ Become([World EXCEPT !.state[a] = Thrown])
        \/ Become(Waiting(w, fs, these, Callback("all", a)))
    BY <2>2 DEF All
  <2>4. Tidy([World EXCEPT !.state[a] = Pending], r, l, y) /\ Tidy([World EXCEPT !.state[a] = Thrown], r, l, y)
    BY <1>2, <1>3, <1>5, TidyMade
  <2>5. Tidy(w, r, l, y)
    BY <2>2, <2>4
  <2>6. Tidy(FutureCallback(w, a, Undefined, <<>>), r, l, y)
    BY <1>2, <1>5, <2>5, TidyFutureCallback
  <2>7. Tidy(Waiting(w, fs, these, Callback("all", a)), r, l, y)
    <3>1. Callback("all", a) \in CallbackSet /\ Callback("all", a) # Cb(y)
      BY <1>5, CallbacksTyped, CallbacksDiffer DEF Cb
    <3>2. these \in SUBSET DOMAIN fs /\ \A i \in these : fs[i] # Plain
      BY <2>2
    <3> QED
      BY <2>5, <3>1, <3>2, TidyWaiting
  <2> QED
    BY <1>1, <1>3, <2>1, <2>3, <2>4, <2>6, <2>7 DEF Stays, StaysTidy
<1> QED
  BY <1>4, <1>5

\* race keeps the lists.
LEMMA RaceStays ==
  ASSUME OrderInv, FateInv, NEW y \in Combiners, Tidy(World, ran, list[y], y),
         NEW fs \in Lists, NEW x \in Races, Race(x, fs)
  PROVE  Stays(y)
<1>1. PICK l, r, m : l = list[y] /\ r = ran /\ m = list'[y]
  OBVIOUS
<1>2. Tidy(World, r, l, y) /\ x \in Combiners /\ x \in Futures
  <2>1. x \in Combiners
    BY DEF Combiners
  <2> QED
    BY <1>1, <2>1, Cbs
<1>3. ran' = r /\ World.state[x] = Unmade /\ list' = [list EXCEPT ![x] = [of |-> fs, at |-> Len(settled)]]
  BY <1>1, WorldFields DEF Race, New
<1>4. CASE x = y
  <2>1. Given(m, fs, Len(settled))
    BY <1>1, <1>2, <1>3, <1>4, ListGiven DEF FateInv
  <2>2. Sound(World, ran)
    BY DEF Tidy
  <2>3. \E v : Become(v) /\ Tidy(v, ran, m, x)
    BY <2>1, <2>2, RaceBegins
  <2> QED
    BY <1>1, <1>3, <1>4, <2>3 DEF Stays, StaysTidy
<1>5. CASE x # y
  <2>1. m = l
    BY <1>1, <1>2, <1>3, <1>5, ListGiven DEF FateInv
  <2>2. PICK these, w : /\ these = {i \in DOMAIN fs : \A j \in 1 .. i : fs[j] # Plain}
                        /\ w = [World EXCEPT !.state[x] = Pending]
    OBVIOUS
  <2>3. PICK u : u = Waiting(w, fs, these, Callback("race", x))
    OBVIOUS
  <2>4. Become(u) \/ Become(FutureCallback(u, x, Undefined, Plain))
    BY <2>2, <2>3 DEF Race, RaceBegun
  <2>5. Tidy([World EXCEPT !.state[x] = Pending], r, l, y)
    BY <1>2, <1>3, <1>5, TidyMade
  <2>6. Tidy(w, r, l, y)
    BY <2>2, <2>5
  <2>7. Tidy(Waiting(w, fs, these, Callback("race", x)), r, l, y)
    <3>1. Callback("race", x) \in CallbackSet /\ Callback("race", x) # Cb(y)
      BY <1>5, CallbacksTyped, CallbacksDiffer DEF Cb
    <3>2. these \in SUBSET DOMAIN fs
      BY <2>2
    <3>3. ASSUME NEW i \in these PROVE fs[i] # Plain
      <4>1. i \in 1 .. Len(fs) /\ Len(fs) \in Nat /\ \A j \in 1 .. i : fs[j] # Plain
        BY <2>2, PositionsOfFutures
      <4>2. i \in 1 .. i
        BY <4>1
      <4> QED
        BY <4>1, <4>2
    <3> QED
      BY <2>6, <3>1, <3>2, <3>3, TidyWaiting
  <2>8. Tidy(u, r, l, y)
    BY <2>3, <2>7
  <2>9. Tidy(FutureCallback(u, x, Undefined, Plain), r, l, y)
    BY <1>2, <1>5, <2>8, TidyFutureCallback
  <2> QED
    BY <1>1, <1>3, <2>1, <2>4, <2>8, <2>9 DEF Stays, StaysTidy
<1> QED
  BY <1>4, <1>5

\* The body of a loop keeps the lists.
LEMMA BodyStays ==
  ASSUME OrderInv, NEW y \in Combiners, Tidy(World, ran, list[y], y), RunBody
  PROVE  Stays(y)
<1>1. PICK l, r : l = list[y] /\ r = ran
  OBVIOUS
<1>2. Tidy(World, r, l, y) /\ y \in Futures /\ y \notin Natives \cup Children \cup Loops
  BY <1>1, Cbs
<1>3. PICK k \in Loops : BodyWaits(k) \/ BodyGoesOn(k) \/ BodyEnds(k) \/ BodyThrows(k)
  BY DEF RunBody
<1>4. k \in Futures /\ k # y /\ ran' = r /\ list' = list
  BY <1>1, <1>2, <1>3 DEF Futures, BodyWaits, BodyGoesOn, BodyEnds, BodyThrows, Running
<1>5. CASE BodyWaits(k)
  <2>1. PICK f \in Natives \cup Children : Become(Added(World, f, Callback("loop", k)))
    BY <1>5 DEF BodyWaits
  <2>2. f \in Futures /\ Callback("loop", k) \in CallbackSet /\ Callback("loop", k) # Cb(y)
    BY CallbacksTyped, CallbacksDiffer DEF Cb, Futures
  <2>3. Tidy(Added(World, f, Callback("loop", k)), r, l, y)
    BY <1>2, <2>2, TidyAdded
  <2> QED
    BY <1>1, <1>4, <2>1, <2>3 DEF Stays, StaysTidy
<1>6. CASE BodyGoesOn(k) \/ BodyThrows(k)
  <2>1. Become(World)
    BY <1>6, WorldFields DEF BodyGoesOn, BodyThrows, Running, coreVars, Become, World
  <2> QED
    BY <1>1, <1>2, <1>4, <2>1 DEF Stays, StaysTidy
<1>7. CASE BodyEnds(k)
  <2>1. PICK how : Become(LoopEnds(World, k, how[1], how[2]))
    BY <1>7 DEF BodyEnds
  <2>2. Tidy(FutureCallback(World, k, how[1], how[2]), r, l, y)
    BY <1>2, <1>4, TidyFutureCallback
  <2> QED
    BY <1>1, <1>4, <2>1, <2>2 DEF Stays, StaysTidy, LoopEnds
<1> QED
  BY <1>3, <1>5, <1>6, <1>7

\* What the tick runs.
Runs(w, f, cb) ==
  CASE cb.kind = "then" -> RunThen(w, f, cb.to)
    [] cb.kind = "adopt" -> RunAdopt(w, f, cb.to)
    [] cb.kind = "all" -> RunAll(w, f, cb.to)
    [] cb.kind = "race" -> RunRace(w, f, cb.to)
    [] cb.kind = "node" -> RunNode(w)
    [] cb.kind = "loop" -> RunLoop(w, f, cb.to)

\* The tick of a callback that is not for y, or comes too late for it.
LEMMA OtherTick ==
  ASSUME NEW y \in Combiners, NEW w, NEW r, NEW l, Tidy(w, r, l, y), NEW f, IsSettled(state[f]),
         NEW cb \in CallbackSet, Runs(w, f, cb), cb.to # y \/ IsSettled(w.state[y])
  PROVE  StaysTidy(r, l, y) /\ list' = list
<1>1. y \in Futures /\ y \notin Natives \cup Children \cup Loops
  BY Cbs
<1>2. CASE cb.kind = "then"
  <2>1. PICK c \in Children : c = cb.to /\ c \in Futures /\ c # y
    BY <1>1, <1>2 DEF CallbackSet, Futures
  <2>2. RunThen(w, f, c)
    BY <1>2, <2>1 DEF Runs
  <2>3. list' = list /\ \/ \E x : Become(Resolved(w, c, x))
                        \/ \E e : Become(Settled(w, c, Rejected(e)))
                        \/ Become(Settled(w, c, state[f]))
    BY <2>2 DEF RunThen, Fate
  <2>4. \A x : Tidy(Resolved(w, c, x), r, l, y)
    BY TidyResolved
  <2>5. \A e : Tidy(Settled(w, c, Rejected(e)), r, l, y)
    BY <2>1, FatesSettle, TidySettled
  <2>6. Tidy(Settled(w, c, state[f]), r, l, y)
    BY <2>1, TidySettled
  <2> QED
    BY <2>3, <2>4, <2>5, <2>6 DEF StaysTidy
<1>3. CASE cb.kind = "adopt"
  <2>1. PICK c \in Children : c = cb.to /\ c \in Futures /\ c # y
    BY <1>1, <1>3 DEF CallbackSet, Futures
  <2>2. RunAdopt(w, f, c)
    BY <1>3, <2>1 DEF Runs
  <2>3. list' = list /\ \/ \E x : Become(Resolved(w, c, x))
                        \/ Become(Settled(w, c, state[f]))
    BY <2>2 DEF RunAdopt, Fate, Quiet
  <2>4. \A x : Tidy(Resolved(w, c, x), r, l, y)
    BY TidyResolved
  <2>5. Tidy(Settled(w, c, state[f]), r, l, y)
    BY <2>1, TidySettled
  <2> QED
    BY <2>3, <2>4, <2>5 DEF StaysTidy
<1>4. ASSUME cb.kind \in {"all", "race", "loop"}, NEW err, NEW val
      PROVE  Tidy(FutureCallback(w, cb.to, err, val), r, l, y)
  <2>1. cb.to \in Futures
    BY <1>4 DEF CallbackSet, Futures
  <2> QED
    BY <2>1, TidyFutureCallback
<1>5. CASE cb.kind = "all"
  <2>1. RunAll(w, f, cb.to)
    BY <1>5 DEF Runs
  <2>2. list' = list /\ (Become(w) \/ \E err, val : Become(FutureCallback(w, cb.to, err, val)))
    BY <2>1 DEF RunAll, Fate
  <2> QED
    BY <1>4, <1>5, <2>2 DEF StaysTidy
<1>6. CASE cb.kind = "race"
  <2>1. RunRace(w, f, cb.to)
    BY <1>6 DEF Runs
  <2>2. list' = list /\ \E err, val : Become(FutureCallback(w, cb.to, err, val))
    BY <2>1 DEF RunRace, Quiet
  <2> QED
    BY <1>4, <1>6, <2>2 DEF StaysTidy
<1>7. CASE cb.kind = "node"
  <2>1. list' = list /\ Become(w)
    BY <1>7 DEF Runs, RunNode, Quiet
  <2> QED
    BY <2>1 DEF StaysTidy
<1>8. CASE cb.kind = "loop"
  <2>1. RunLoop(w, f, cb.to)
    BY <1>8 DEF Runs
  <2>2. list' = list /\ (Become(w) \/ \E err, val : Become(FutureCallback(w, cb.to, err, val)))
    BY <2>1 DEF RunLoop, LoopEnds
  <2> QED
    BY <1>4, <1>8, <2>2 DEF StaysTidy
<1> QED
  BY <1>2, <1>3, <1>5, <1>6, <1>7, <1>8 DEF CallbackSet

\* The tick of an element that decides y.
LEMMA DecidingTick ==
  ASSUME NEW y \in Combiners, NEW l, Tidy(World, ran, l, y), state[y] = Pending, ticks # <<>>,
         NEW f, f = Head(ticks).of, Head(ticks).cb = Cb(y), Counts(state, y, f),
         NEW w, w = Popped(World), NEW n, Ticking(w, f, Cb(y), n), Runs(w, f, Cb(y))
  PROVE  StaysTidy(ran', l, y) /\ list' = list
<1>1. PICK fate : fate = AsCalledBack(state[f])
  OBVIOUS
<1>2. Become(Settled(w, y, fate)) /\ list' = list
  <2>1. CASE y \in Alls
    <3>1. Cb(y).kind = "all" /\ Cb(y).to = y
      BY <2>1, Cbs
    <3>2. RunAll(w, f, y) /\ state[f].is = "rejected"
      BY <2>1, <3>1 DEF Runs, Counts
    <3>3. Become(FutureCallback(w, y, Reason(state[f]), Undefined)) /\ list' = list
      BY <3>2 DEF RunAll, Fate
    <3>4. EndOf(Reason(state[f]), Undefined) = fate
      BY <1>1, <3>2 DEF AsCalledBack, Val
    <3> QED
      BY <3>3, <3>4, CallbackSettles
  <2>2. CASE y \notin Alls
    <3>1. Cb(y).kind = "race" /\ Cb(y).to = y
      BY <2>2, Cbs
    <3>2. RunRace(w, f, y)
      BY <3>1 DEF Runs
    <3>3. Become(FutureCallback(w, y, Reason(state[f]), Val(state[f]))) /\ list' = list
      BY <3>2 DEF RunRace, Fate, Quiet
    <3> QED
      BY <1>1, <3>3, CallbackSettles DEF AsCalledBack
  <2> QED
    BY <2>1, <2>2
<1>3. World.state = state /\ IsWorld(World)
  BY WorldFields
<1>4. w.state = state /\ w.settled = World.settled /\ Order(w, ran')
  BY <1>3 DEF Ticking, Popped, IsWorld
<1>5. Sound(w, ran') /\ ListOK(l, Len(w.settled)) /\ Waits(World, ran, l, y)
  BY <1>3, <1>4 DEF Tidy, Sound
<1>6. Decided(w.state, w.settled, l, y, fate)
  <2>1. Winner(World.settled, l, Leading(state, l, y), f)
    BY HeadWins
  <2>2. y \in Races => Plain \notin ToSet(l.of)
    BY <1>5 DEF Waits
  <2> QED
    BY <1>1, <1>4, <2>1, <2>2 DEF Decided
<1>7. ~IsSettled(w.state[y]) /\ IsSettled(fate)
  <2>1. IsSettled(fate)
    BY <1>1, FatesSettle DEF AsCalledBack, EndOf
  <2> QED
    BY <1>4, <2>1, FatesSettle
<1>8. Tidy(Settled(w, y, fate), ran', l, y)
  BY <1>5, <1>6, <1>7, TidyDecided
<1> QED
  BY <1>2, <1>8 DEF StaysTidy

\* Where nothing has to run for y all its elements have been settled.
LEMMA AllHeard ==
  ASSUME NEW y \in Alls, NEW l, Tidy(World, ran, l, y), state[y] = Pending, Plain \notin ToSet(l.of),
         NEW f, NEW w, NEW n, Ticking(w, f, Cb(y), n), state[f].is # "rejected",
         Open(asked, ran', Cb(y)) = {}, FatesOK
  PROVE  \A g \in ToSet(l.of) : g # Plain /\ state[g].is = "fulfilled"
<1>1. PICK mine : mine = Cb(y)
  OBVIOUS
<1>2. /\ World.state = state /\ World.asked = asked /\ Waits(World, ran, l, y) /\ Order(World, ran)
      /\ IsSettled(state[f])
  BY WorldFields DEF Tidy, Sound, Ticking
<1>3. SUFFICES ASSUME NEW g \in ToSet(l.of) PROVE state[g].is = "fulfilled"
  BY <1>3
<1>4. g \in Of(l) /\ g \in Futures
  <2>1. g \in Of(l)
    BY <1>3 DEF Of
  <2>2. Of(l) \subseteq Futures
    BY Elems DEF Tidy
  <2> QED
    BY <2>1, <2>2
<1>5. PICK p \in Places(asked, mine) : p[1] = g
  BY <1>1, <1>2, <1>4 DEF Waits
<1>6. CASE p = <<f, n>>
  <2>1. g = f
    BY <1>5, <1>6
  <2> QED
    BY <1>2, <2>1 DEF IsSettled
<1>7. CASE p # <<f, n>>
  <2>1. p \notin Open(asked, ran, mine)
    BY <1>1, <1>7 DEF Ticking
  <2>2. state[g].is # "rejected"
    <3>1. Counts(state, y, p[1]) => p \in Open(asked, ran, mine)
      BY <1>1, <1>2, <1>5 DEF Waits
    <3> QED
      BY <1>5, <2>1, <3>1 DEF Counts
  <2>3. IsSettled(state[g])
    <3>1. ASSUME ~IsSettled(state[g]) PROVE FALSE
      <4>1. ran[g] = <<>>
        BY <1>2, <1>4, <3>1 DEF Order, InOrder
      <4>2. Len(ran[g]) = 0
        BY <4>1
      <4>3. p[2] \in Nat /\ p[2] \in 1 .. Len(asked[g])
        BY <1>5 DEF Places
      <4>4. Len(asked[g]) \in Nat
        BY <1>2, <1>4, OrderLens
      <4>5. 0 < p[2]
        BY <4>3, <4>4
      <4> QED
        BY <1>5, <2>1, <4>2, <4>5 DEF Open
    <3> QED
      BY <3>1
  <2> QED
    BY <2>2, <2>3 DEF IsSettled
<1> QED
  BY <1>6, <1>7

\* The tick of an element that has been fulfilled, for all: it may be the last.
LEMMA CountingTick ==
  ASSUME FatesOK, AllsOK', NEW y \in Alls, NEW l, l = list[y], Tidy(World, ran, l, y), state[y] = Pending, ticks # <<>>,
         NEW f, f = Head(ticks).of, Head(ticks).cb = Cb(y), state[f].is # "rejected",
         NEW w, w = Popped(World), NEW n, Ticking(w, f, Cb(y), n), Runs(w, f, Cb(y))
  PROVE  StaysTidy(ran', l, y) /\ list' = list
<1>1. y \in Combiners /\ Cb(y).kind = "all" /\ Cb(y).to = y /\ Cb(y) = Callback("all", y)
  <2>1. y \in Combiners
    BY DEF Combiners
  <2> QED
    BY <2>1, Cbs
<1>2. RunAll(w, f, y)
  BY <1>1 DEF Runs
<1>3. /\ list' = list
      /\ Become(IF count'[y] = 0 /\ Plain \notin ToSet(l.of)
                  THEN FutureCallback(w, y, Undefined, Values(y)) ELSE w)
  BY <1>2 DEF RunAll, Fate, Elements
<1>4. Tidy(w, ran', l, y)
  <2>1. ~Counts(state, y, f)
    BY DEF Counts
  <2> QED
    BY <2>1, TidyPopped
<1>5. CASE ~(count'[y] = 0 /\ Plain \notin ToSet(l.of))
  <2>1. Become(w)
    BY <1>3, <1>5
  <2> QED
    BY <1>3, <1>4, <2>1 DEF StaysTidy
<1>6. CASE count'[y] = 0 /\ Plain \notin ToSet(l.of)
  <2>1. PICK v, fate : v = FutureCallback(w, y, Undefined, Values(y)) /\ fate = Fulfilled(Values(y))
    OBVIOUS
  <2>2. Become(v) /\ v = Settled(w, y, fate)
    BY <1>3, <1>6, <2>1, CallbackSettles DEF EndOf
  <2>3. w.state = state /\ w.asked = asked /\ Order(w, ran')
    BY DEF Ticking
  <2>4. asked' = asked
    <3>1. Only(w, v, y, fate)
      BY <1>1, <2>2, <2>3, SettledOnly, Cbs DEF Order
    <3> QED
      BY <2>2, <2>3, <3>1 DEF Become, Only
  <2>5. Open(asked, ran', Cb(y)) = {}
    <3>1. AllOK(asked', ran', list'[y], count'[y], y)
      BY DEF AllsOK
    <3>2. PICK O : O = Open(asked', ran', Callback("all", y))
      OBVIOUS
    <3>3. IsFiniteSet(O) /\ Cardinality(O) <= 0
      BY <1>6, <3>1, <3>2 DEF AllOK
    <3>4. Cardinality(O) \in Nat /\ (Cardinality(O) = 0 <=> O = {})
      BY <3>3, FS_CardinalityType, FS_EmptySet
    <3> QED
      BY <1>1, <2>4, <3>2, <3>3, <3>4
  <2>6. \A g \in ToSet(l.of) : g # Plain /\ state[g].is = "fulfilled"
    BY <1>6, <2>5, AllHeard
  <2>7. Values(y) = ValuesOf(state, l)
    BY DEF Values, ValuesOf
  <2>8. Decided(w.state, w.settled, l, y, fate)
    BY <2>1, <2>3, <2>6, <2>7 DEF Decided
  <2>9. Tidy(Settled(w, y, fate), ran', l, y)
    <3>1. Sound(w, ran') /\ ListOK(l, Len(w.settled)) /\ ~IsSettled(w.state[y]) /\ IsSettled(fate)
      BY <1>4, <2>1, <2>3, FatesSettle DEF Tidy
    <3> QED
      BY <1>1, <2>8, <3>1, TidyDecided
  <2> QED
    BY <1>3, <2>2, <2>9 DEF StaysTidy
<1> QED
  BY <1>5, <1>6

\* A tick keeps the lists.
LEMMA TickStays ==
  ASSUME OrderInv, FateInv, AllsOK', NEW y \in Combiners, Tidy(World, ran, list[y], y), RunTick
  PROVE  Stays(y)
<1>1. World.ticks = ticks /\ World.state = state
  BY WorldFields
<1>2. PICK f, cb, w : f = Head(ticks).of /\ cb = Head(ticks).cb /\ w = Popped(World)
  OBVIOUS
<1>3. ran' = Noted(World, ran) /\ ticks # <<>> /\ Runs(w, f, cb)
  BY <1>1, <1>2 DEF RunTick, Noted, Popped, Fate, Runs
<1>4. PICK n : Ticking(w, f, cb, n)
  BY <1>2, <1>3, TickStarts
<1>5. PICK l, r : l = list[y] /\ r = ran'
  OBVIOUS
<1>6. Tidy(World, ran, l, y) /\ cb \in CallbackSet /\ IsSettled(state[f]) /\ w.state = state
  BY <1>4, <1>5 DEF Ticking
<1>7. CASE cb = Cb(y) /\ state[y] = Pending /\ Counts(state, y, f)
  <2>1. StaysTidy(ran', l, y) /\ list' = list
    BY <1>2, <1>3, <1>4, <1>6, <1>7, DecidingTick
  <2> QED
    BY <1>5, <2>1 DEF Stays
<1>8. CASE cb = Cb(y) /\ state[y] = Pending /\ ~Counts(state, y, f)
  <2>1. y \in Alls /\ state[f].is # "rejected"
    BY <1>6, <1>8 DEF Counts
  <2>2. StaysTidy(ran', l, y) /\ list' = list
    BY <1>2, <1>3, <1>4, <1>5, <1>6, <1>8, <2>1, CountingTick DEF FateInv
  <2> QED
    BY <1>5, <2>2 DEF Stays
<1>9. CASE ~(cb = Cb(y) /\ state[y] = Pending)
  <2>1. Tidy(w, ran', l, y)
    BY <1>2, <1>3, <1>4, <1>6, <1>9, TidyPopped
  <2>2. cb.to # y \/ IsSettled(w.state[y])
    <3>1. CASE cb = Cb(y)
      <4>1. <<f, n>> \in Places(asked, cb)
        BY <1>4, Asking DEF Ticking
      <4>2. y \in Futures /\ cb.to = y
        BY <3>1, Cbs
      <4>3. y \notin Nodes
        BY <4>2, NamesAssumption
      <4>4. Known(state, asked, cb)
        BY <1>6 DEF FateInv, KnownOK
      <4>5. IsMade(state[y])
        BY <4>1, <4>2, <4>3, <4>4 DEF Known
      <4>6. FateOK(state[y])
        BY <4>2 DEF FateInv, FatesOK
      <4> QED
        BY <1>6, <1>9, <3>1, <4>5, <4>6, SettledFate
    <3>2. CASE cb # Cb(y)
      <4>1. ~(cb.kind \in {"all", "race"} /\ cb.to = y)
        BY <1>6, <3>2, Cbs
      <4>2. y \notin Natives \cup Children \cup Loops \cup Nodes
        BY Cbs, NamesAssumption
      <4> QED
        BY <1>6, <4>1, <4>2 DEF CallbackSet
    <3> QED
      BY <3>1, <3>2
  <2>3. StaysTidy(r, l, y) /\ list' = list
    BY <1>3, <1>5, <1>6, <2>1, <2>2, OtherTick
  <2> QED
    BY <1>5, <2>3 DEF Stays
<1> QED
  BY <1>7, <1>8, <1>9

\* Every future of all and race is what it has to be for its list.
CombInv == \A y \in Combiners : Tidy(World, ran, list[y], y)

\* At the beginning there are no lists.
LEMMA InitTidy == Init => CombInv
<1> SUFFICES ASSUME Init, NEW y \in Combiners PROVE Tidy(World, ran, list[y], y)
  BY DEF CombInv
<1>1. Order(World, ran)
  BY InitOrder DEF OrderInv
<1>2. PICK l, s : l = list[y] /\ s = settled
  OBVIOUS
<1>3. World.state = state /\ World.settled = s
  BY <1>2, WorldFields DEF World
<1>4. l.of = <<>> /\ l.at = 0 /\ s = <<>>
  BY <1>2 DEF Init, Combiners
<1>5. s \in Seq(Futures) /\ Len(s) = 0 /\ ToSet(s) = {}
  BY <1>4 DEF ToSet
<1>6. \A f \in Futures : ~IsSettled(state[f])
  BY FatesSettle DEF Init
<1>7. state[y] = Unmade /\ y \in Futures
  BY Cbs DEF Init
<1>8. Unmade # Pending
  BY DEF Unmade, Pending
<1>9. ListOK(l, Len(s))
  BY <1>4, <1>5, EmptySeq DEF ListOK
<1>10. Tidy(World, ran, l, y)
  BY <1>1, <1>3, <1>5, <1>6, <1>7, <1>8, <1>9 DEF Tidy, Sound
<1> QED
  BY <1>2, <1>10

\* Every step keeps the lists.
LEMMA StepKeepsLists ==
  ASSUME FuturesAreNoLists, OrderInv, FateInv, CombInv, [Next]_vars
  PROVE  CombInv'
<1>1. ASSUME NEW y \in Combiners PROVE Tidy(World', ran', list'[y], y)
  <2>1. Tidy(World, ran, list[y], y)
    BY DEF CombInv
  <2>2. AllsOK'
    BY StepKeepsFates DEF FateInv
  <2>3. CASE Next
    <3>1. Stays(y)
      <4>1. CASE \E f \in Natives : Native(f)
        BY <2>1, <4>1, SimpleStays
      <4>2. CASE UserCode
        <5>1. CASE \E fs \in Lists : \E a \in Alls : All(a, fs)
          BY <2>1, <5>1, AllStays
        <5>2. CASE \E fs \in Lists : \E x \in Races : Race(x, fs)
          BY <2>1, <5>2, RaceStays
        <5>3. CASE \/ \E f \in Futures, c \in Children : Then(f, c)
                   \/ \E f \in Futures, n \in Nodes : NodeStyle(f, n)
                   \/ \E l \in Loops : StartLoop(l)
          BY <2>1, <5>3, SimpleStays
        <5> QED
          BY <4>2, <5>1, <5>2, <5>3 DEF UserCode
      <4>3. CASE RunTick
        BY <2>1, <2>2, <4>3, TickStays
      <4>4. CASE RunBody
        BY <2>1, <4>4, BodyStays
      <4> QED
        BY <2>3, <4>1, <4>2, <4>3, <4>4 DEF Next, Native
    <3>2. PICK r, l : r = ran' /\ l = list'[y]
      OBVIOUS
    <3>3. PICK v : Become(v) /\ Tidy(v, r, l, y)
      BY <3>1, <3>2 DEF Stays, StaysTidy
    <3>4. IsWorld(v)
      BY <3>3 DEF Tidy, Sound, Order, Typed
    <3>5. World' = v
      BY <3>3, <3>4, WorldNext
    <3> QED
      BY <3>2, <3>3, <3>5
  <2>4. CASE UNCHANGED vars
    <3>1. World' = World /\ ran' = ran /\ list' = list
      BY <2>4 DEF vars, coreVars, World
    <3> QED
      BY <2>1, <3>1
  <2> QED
    BY <2>3, <2>4
<1> QED
  BY <1>1 DEF CombInv

\* What has decided a future of all or race is what First names.
LEMMA DecidedIsFirst ==
  ASSUME CombInv
  PROVE  CombinedFate
<1>1. ASSUME NEW y \in Combiners, IsSettled(state[y])
      PROVE  /\ settled \in Seq(Futures) /\ ListOK(list[y], Len(settled))
             /\ Decided(state, settled, list[y], y, state[y])
  <2>1. World.state = state /\ World.settled = settled
    BY WorldFields DEF World
  <2>2. Tidy(World, ran, list[y], y)
    BY DEF CombInv
  <2> QED
    BY <1>1, <2>1, <2>2 DEF Tidy, Sound
<1>2. ASSUME NEW y \in Combiners, IsSettled(state[y]), NEW these, these = Leading(state, list[y], y),
             NEW g, Winner(settled, list[y], these, g)
      PROVE  First(y, these) = g
  <2>1. these \subseteq Of(list[y])
    BY <1>2 DEF Leading
  <2> QED
    BY <1>1, <1>2, <2>1, WinnerIsFirst
<1>3. ASSUME NEW a \in Alls, IsSettled(state[a])
      PROVE  LET rejected == {f \in Elements(a) \ {Plain} : state[f].is = "rejected"}
             IN IF rejected # {} THEN state[a] = AsCalledBack(state[First(a, rejected)])
                ELSE /\ \A f \in Elements(a) : f # Plain /\ state[f].is = "fulfilled"
                     /\ state[a] = Fulfilled(Values(a))
  <2>1. a \in Combiners /\ a \notin Races
    <3>1. a \in Combiners
      BY DEF Combiners
    <3> QED
      BY <3>1, Cbs
  <2>2. PICK rejected : rejected = {f \in Elements(a) \ {Plain} : state[f].is = "rejected"}
    OBVIOUS
  <2>3. rejected = Leading(state, list[a], a)
    BY <2>2 DEF Leading, Of, Elements, Counts
  <2>4. \/ \E g : Winner(settled, list[a], rejected, g) /\ state[a] = AsCalledBack(state[g])
        \/ /\ \A f \in Elements(a) : f # Plain /\ state[f].is = "fulfilled"
           /\ state[a] = Fulfilled(ValuesOf(state, list[a]))
    BY <1>1, <1>3, <2>1, <2>3 DEF Decided, Elements
  <2>5. Values(a) = ValuesOf(state, list[a])
    BY DEF Values, ValuesOf
  <2>6. IF rejected # {} THEN state[a] = AsCalledBack(state[First(a, rejected)])
        ELSE /\ \A f \in Elements(a) : f # Plain /\ state[f].is = "fulfilled"
             /\ state[a] = Fulfilled(Values(a))
    <3>1. CASE \E g : Winner(settled, list[a], rejected, g) /\ state[a] = AsCalledBack(state[g])
      <4>1. PICK g : Winner(settled, list[a], rejected, g) /\ state[a] = AsCalledBack(state[g])
        BY <3>1
      <4>2. First(a, rejected) = g
        BY <1>2, <1>3, <2>1, <2>3, <4>1
      <4>3. rejected # {}
        BY <4>1 DEF Winner
      <4> QED
        BY <4>1, <4>2, <4>3
    <3>2. CASE /\ \A f \in Elements(a) : f # Plain /\ state[f].is = "fulfilled"
               /\ state[a] = Fulfilled(ValuesOf(state, list[a]))
      <4>1. rejected = {}
        BY <2>2, <3>2
      <4> QED
        BY <2>5, <3>2, <4>1
    <3> QED
      BY <2>4, <3>1, <3>2
  <2> QED
    BY <2>2, <2>6
<1>4. ASSUME NEW x \in Races, IsSettled(state[x])
      PROVE  state[x] = IF Plain \in Elements(x) THEN Fulfilled(Plain)
                        ELSE AsCalledBack(state[First(x, {f \in Elements(x) : IsSettled(state[f])})])
  <2>1. x \in Combiners /\ x \notin Alls
    <3>1. x \in Combiners
      BY DEF Combiners
    <3> QED
      BY <3>1, Cbs
  <2>2. PICK these : these = {f \in Elements(x) : IsSettled(state[f])}
    OBVIOUS
  <2>3. \/ /\ Plain \notin Elements(x)
           /\ \E g : Winner(settled, list[x], Leading(state, list[x], x), g) /\ state[x] = AsCalledBack(state[g])
        \/ Plain \in Elements(x) /\ state[x] = Fulfilled(Plain)
    BY <1>1, <1>4, <2>1 DEF Decided, Elements
  <2>4. CASE Plain \in Elements(x)
    BY <2>3, <2>4
  <2>5. CASE Plain \notin Elements(x)
    <3>1. these = Leading(state, list[x], x)
      BY <2>1, <2>2, <2>5 DEF Leading, Of, Elements, Counts
    <3>2. PICK g : Winner(settled, list[x], these, g) /\ state[x] = AsCalledBack(state[g])
      BY <2>3, <2>5, <3>1
    <3>3. First(x, these) = g
      BY <1>2, <1>4, <2>1, <3>1, <3>2
    <3> QED
      BY <2>2, <2>5, <3>2, <3>3
  <2> QED
    BY <2>4, <2>5
<1> QED
  BY <1>3, <1>4 DEF CombinedFate

\* CombinedFate for any futures, lists and settings: all is settled by the element that is
\* rejected first or, when none is, with the values of all; race is settled by the element
\* that is settled first, or with the first plain value.  An element that is rejected with
\* a falsy reason settles it as fulfilled with undefined.
THEOREM FirstDecides ==
  ASSUME FuturesAreNoLists
  PROVE  Spec => []CombinedFate
<1>1. Init => OrderInv /\ FateInv /\ CombInv
  BY InitOrder, InitFates, InitTidy
<1>2. (OrderInv /\ FateInv /\ CombInv) /\ [Next]_vars => (OrderInv /\ FateInv /\ CombInv)'
  BY StepKeepsOrder, StepKeepsFates, StepKeepsLists
<1>3. CombInv => CombinedFate
  BY DecidedIsFirst
<1> QED
  BY <1>1, <1>2, <1>3, PTL DEF Spec

=============================================================================
