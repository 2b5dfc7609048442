------------------------------ MODULE LocalityProofs ------------------------------
(***************************************************************************)
(* Proofs about Locality: what the consumers of getBoundaryKeys are given, *)
(* and that no fetcher spins, for any range of keys, any consumers and any *)
(* number of moved boundaries and failed reads.                            *)
(***************************************************************************)
EXTENDS Locality, TLAPS, FiniteSetTheorems

Given(f) == {got[f][i] : i \in DOMAIN got[f]}

-----------------------------------------------------------------------------
(* The inductive invariant.                                                *)

Versions == (SUBSET Keys) \cup {Unread, Undefined}

FetcherType ==
  [tr : Versions, begin : Nat, lastBegin : Nat \cup {Undefined},
   more : BOOLEAN, at : InFetch \cup {"none", "new", "paused", "ended", "failed"}]

TypeInv ==
  /\ bounds \in SUBSET Keys
  /\ fetcher \in [Fetchers -> FetcherType]
  /\ got \in [Fetchers -> Seq(Keys)]
  /\ hurried \in [Fetchers -> Nat]

\* Every version that is read has the boundaries that are always there, and none
\* that has never been.
VersionInv ==
  /\ stable \subseteq bounds /\ bounds \subseteq ever
  /\ \A f \in Fetchers :
       fetcher[f].tr \notin {Unread, Undefined} =>
         stable \subseteq fetcher[f].tr /\ fetcher[f].tr \subseteq ever

\* begin separates what has been given from what has not: this is what a change
\* of transactions has to keep.
GivenInv ==
  \A f \in Fetchers :
    /\ \A i, j \in DOMAIN got[f] : i < j => got[f][i] < got[f][j]
    /\ \A i \in DOMAIN got[f] : got[f][i] \in ever /\ got[f][i] < fetcher[f].begin
    /\ \A k \in stable : k < fetcher[f].begin => k \in Given(f)

\* Before the end, and after the last batch, nothing is left.
EndInv ==
  \A f \in Fetchers :
    fetcher[f].at = "ended" \/ (fetcher[f].at = "paused" /\ ~fetcher[f].more) =>
      stable \subseteq Given(f)

\* A fetcher that has changed transactions since its last batch, or has had none,
\* has not moved on since it began to read.
HurryInv ==
  \A f \in Fetchers :
    /\ hurried[f] <= 1
    /\ hurried[f] = 1 /\ fetcher[f].at = "reading" => fetcher[f].begin = fetcher[f].lastBegin
    /\ fetcher[f].at = "paused" => hurried[f] = 0

Inv == TypeInv /\ VersionInv /\ GivenInv /\ EndInv /\ HurryInv

LEMMA InitInv == Init => Inv
<1> SUFFICES ASSUME Init PROVE Inv
  OBVIOUS
<1>1. NewFetcher \in FetcherType
  BY DEF NewFetcher, FetcherType, Versions
<1>2. PICK first \in {ReadKeys(NewFetcher), [NewFetcher EXCEPT !.at = "version"]} :
        fetcher = [f \in Fetchers |-> IF f = First THEN first ELSE NewFetcher]
  BY DEF Init
<1>3. /\ first \in FetcherType /\ first.tr = Unread /\ first.begin = 0
      /\ first.at = "version" \/ (first.at = "reading" /\ first.lastBegin = 0)
  BY <1>1, <1>2 DEF ReadKeys, NewFetcher, FetcherType, InFetch
<1>4. \A f \in Fetchers :
        /\ fetcher[f] \in FetcherType /\ fetcher[f].tr = Unread /\ fetcher[f].begin = 0
        /\ fetcher[f].at \in {"none", "version"} \/ (fetcher[f].at = "reading" /\ fetcher[f].lastBegin = 0)
  BY <1>1, <1>2, <1>3 DEF NewFetcher
<1>5. TypeInv
  BY <1>2, <1>4 DEF Init, TypeInv
<1>6. VersionInv
  BY <1>4 DEF Init, VersionInv
<1>7. GivenInv
  <2>1. \A f \in Fetchers : got[f] = <<>>
    BY DEF Init
  <2>2. \A k \in stable : ~(k < 0)
    BY SizesAssumption DEF Init, Keys
  <2> QED  BY <1>4, <2>1, <2>2 DEF GivenInv
<1>8. EndInv /\ HurryInv
  BY <1>4 DEF Init, EndInv, HurryInv
<1> QED  BY <1>5, <1>6, <1>7, <1>8 DEF Inv

-----------------------------------------------------------------------------
(* Facts about the reads.                                                  *)

\* A set of keys has a size.
LEMMA KeysFinite ==
  ASSUME NEW S, S \subseteq Keys
  PROVE  IsFiniteSet(S) /\ Cardinality(S) \in Nat
<1>1. IsFiniteSet(Keys)
  BY FS_Interval, SizesAssumption DEF Keys
<1> QED  BY <1>1, FS_Subset, FS_CardinalityType

\* What a fetcher can see has the boundaries that are always there, and none that
\* has never been.
LEMMA SeenIsSound ==
  ASSUME Inv, NEW f \in Fetchers, fetcher[f].tr # Undefined
  PROVE  stable \subseteq Seen(f) /\ Seen(f) \subseteq ever /\ Seen(f) \in SUBSET Keys
<1>1. fetcher[f].tr \in Versions /\ bounds \in SUBSET Keys
  BY DEF Inv, TypeInv, FetcherType
<1>2. CASE fetcher[f].tr = Unread
  BY <1>1, <1>2 DEF Inv, VersionInv, Seen
<1>3. CASE fetcher[f].tr # Unread
  <2>1. fetcher[f].tr \in SUBSET Keys
    BY <1>1, <1>3 DEF Versions
  <2> QED  BY <1>3, <2>1 DEF Inv, VersionInv, Seen
<1> QED  BY <1>2, <1>3

\* A batch is a sequence of the keys it stands for.
LEMMA BatchType ==
  ASSUME NEW S, S \subseteq Keys, NEW last \in S, NEW batch \in UpTo(S, last)
  PROVE  /\ batch \in Seq(Keys)
         /\ \A i \in DOMAIN batch : batch[i] \in S /\ batch[i] <= last
         /\ \A i, j \in DOMAIN batch : i < j => batch[i] < batch[j]
         /\ \A k \in S : k <= last => \E i \in DOMAIN batch : batch[i] = k
<1> DEFINE keys == {k \in S : k <= last}
           n == Cardinality(keys)
<1>1. n \in Nat
  BY KeysFinite
<1>2. batch \in [1 .. n -> keys]
  BY DEF UpTo
<1>3. keys \subseteq Keys
  OBVIOUS
<1>4. batch \in Seq(Keys)
  <2> HIDE DEF n, keys
  <2> QED  BY <1>1, <1>2, <1>3
<1>5. /\ \A i, j \in DOMAIN batch : i < j => batch[i] < batch[j]
      /\ \A k \in keys : \E i \in DOMAIN batch : batch[i] = k
  BY DEF UpTo
<1>6. \A i \in DOMAIN batch : batch[i] \in keys
  BY <1>2
<1> QED  BY <1>4, <1>5, <1>6

-----------------------------------------------------------------------------
(* Steps of a fetcher that give nothing to its consumer.                   *)

\* From "it" to "to": begin stays, and the counter of a fetcher that hurries stays
\* one, since it has to start reading where it last did.
Goes(f, to) ==
  LET it == fetcher[f] IN
  /\ to \in FetcherType /\ to.begin = it.begin /\ Set(f, to)
  /\ to.tr \in {it.tr, Unread, Undefined, bounds} \/ (CanRead(f) /\ to.tr = Seen(f))
  /\ to.at \notin {"paused", "none"}
  /\ to.at = "ended" => (it.at = "paused" /\ ~it.more) \/ (CanRead(f) /\ Left(f) = {})
  /\ \/ UNCHANGED hurried /\ (to.at = "reading" => to.lastBegin = to.begin \/ it.at = "paused")
     \/ /\ hurried' = [hurried EXCEPT ![f] = @ + 1]
        /\ it.at = "reading" /\ it.begin # it.lastBegin /\ to.lastBegin = to.begin
  /\ UNCHANGED <<store, got>>

LEMMA ReadKeysType ==
  ASSUME NEW it \in FetcherType
  PROVE  /\ ReadKeys(it) \in FetcherType /\ ReadKeys(NewTransaction(it)) \in FetcherType
         /\ ReadKeys(it).begin = it.begin /\ ReadKeys(it).lastBegin = it.begin
         /\ ReadKeys(it).tr = it.tr /\ ReadKeys(it).at = "reading"
         /\ ReadKeys(NewTransaction(it)).begin = it.begin
         /\ ReadKeys(NewTransaction(it)).lastBegin = it.begin
         /\ ReadKeys(NewTransaction(it)).tr = Unread
         /\ ReadKeys(NewTransaction(it)).at = "reading"
<1>1. Unread \in Versions
  BY DEF Versions
<1> QED  BY <1>1 DEF ReadKeys, NewTransaction, FetcherType, InFetch

LEMMA FetcherSteps ==
  ASSUME Inv, NEW f \in Fetchers,
         \/ Fetch(f) \/ (GetReadVersion /\ f = First) \/ EmptyBatch(f)
         \/ PastVersion(f) \/ CallOnError(f) \/ OnErrorRetries(f) \/ OnErrorFails(f)
  PROVE  \E to \in FetcherType : Goes(f, to)
<1> DEFINE it == fetcher[f]
<1>1. it \in FetcherType /\ bounds \in SUBSET Keys
  BY DEF Inv, TypeInv
<1>2. CanRead(f) => Seen(f) \in SUBSET Keys
  BY SeenIsSound DEF CanRead
<1> HIDE DEF it
<1>3. CASE Fetch(f)
  <2>1. CASE it.at = "new" /\ Set(f, ReadKeys(it))
    BY <1>1, <1>3, <2>1, ReadKeysType DEF Goes, it, Fetch
  <2>2. CASE it.at = "paused" /\ it.more /\ Set(f, [it EXCEPT !.at = "reading"])
    <3>1. /\ [it EXCEPT !.at = "reading"] \in FetcherType /\ [it EXCEPT !.at = "reading"].begin = it.begin
          /\ [it EXCEPT !.at = "reading"].tr = it.tr /\ [it EXCEPT !.at = "reading"].at = "reading"
      BY <1>1 DEF FetcherType, InFetch
    <3> QED  BY <1>3, <2>2, <3>1 DEF Goes, it, Fetch
  <2>3. CASE it.at = "paused" /\ ~it.more /\ Set(f, [it EXCEPT !.at = "ended"])
    <3> DEFINE to == [it EXCEPT !.at = "ended"]
    <3>1. to \in FetcherType /\ to.begin = it.begin /\ to.tr = it.tr /\ to.at = "ended"
      BY <1>1 DEF FetcherType
    <3>2. Set(f, to) /\ UNCHANGED <<store, got, hurried>>
      BY <1>3, <2>3 DEF Fetch
    <3> HIDE DEF to
    <3>3. to.at = "ended" => (it.at = "paused" /\ ~it.more) \/ (CanRead(f) /\ Left(f) = {})
      BY <2>3
    <3>4. Goes(f, to)
      BY <3>1, <3>2, <3>3 DEF Goes, it
    <3> QED  BY <3>1, <3>4
  <2> QED  BY <1>3, <2>1, <2>2, <2>3 DEF Fetch, it
<1>4. CASE GetReadVersion /\ f = First
  <2>1. PICK v \in {bounds, Undefined} : Set(f, ReadKeys([it EXCEPT !.tr = v]))
    BY <1>4 DEF GetReadVersion, it
  <2>2. [it EXCEPT !.tr = v] \in FetcherType /\ [it EXCEPT !.tr = v].begin = it.begin /\ [it EXCEPT !.tr = v].tr = v
    <3>1. v \in Versions
      BY <1>1, <2>1 DEF Versions
    <3> QED  BY <1>1, <3>1 DEF FetcherType
  <2>3. /\ ReadKeys([it EXCEPT !.tr = v]) \in FetcherType
        /\ ReadKeys([it EXCEPT !.tr = v]).begin = it.begin
        /\ ReadKeys([it EXCEPT !.tr = v]).lastBegin = it.begin
        /\ ReadKeys([it EXCEPT !.tr = v]).tr = v /\ ReadKeys([it EXCEPT !.tr = v]).at = "reading"
    BY ONLY <2>2, ReadKeysType, Zenon
  <2>4. PICK to \in FetcherType : Set(f, to) /\ to.begin = it.begin /\ to.lastBegin = it.begin
                                  /\ to.tr = v /\ to.at = "reading"
    BY <2>1, <2>3, Zenon
  <2>5. UNCHANGED <<store, got, hurried>>
    BY <1>4 DEF GetReadVersion
  <2>6. Goes(f, to)
    BY <2>1, <2>4, <2>5 DEF Goes, it
  <2> QED  BY <2>6
<1>5. CASE EmptyBatch(f)
  <2> DEFINE to == [it EXCEPT !.tr = Seen(f), !.at = "ended"]
  <2>1. to \in FetcherType /\ to.begin = it.begin /\ to.tr = Seen(f) /\ to.at = "ended"
    <3>1. Seen(f) \in Versions
      BY <1>2, <1>5 DEF EmptyBatch, Versions
    <3> QED  BY <1>1, <3>1 DEF FetcherType
  <2>2. Set(f, to)
    BY <1>5 DEF EmptyBatch, it
  <2> HIDE DEF to
  <2> QED  BY <1>5, <2>1, <2>2 DEF Goes, it, EmptyBatch
<1>6. CASE PastVersion(f)
  BY <1>1, <1>6, ReadKeysType DEF Goes, it, PastVersion, Fault
<1>7. CASE CallOnError(f) \/ OnErrorFails(f)
  <2>1. PICK where \in {"onError", "failed"} : Set(f, [it EXCEPT !.at = where])
    BY <1>7 DEF CallOnError, OnErrorFails, it
  <2>2. /\ [it EXCEPT !.at = where] \in FetcherType /\ [it EXCEPT !.at = where].begin = it.begin
        /\ [it EXCEPT !.at = where].tr = it.tr /\ [it EXCEPT !.at = where].at = where
    BY <1>1, <2>1 DEF FetcherType, InFetch
  <2> QED  BY <1>7, <2>1, <2>2 DEF Goes, it, CallOnError, OnErrorFails, Fault
<1>8. CASE OnErrorRetries(f)
  BY <1>1, <1>8, ReadKeysType DEF Goes, it, OnErrorRetries
<1> QED  BY <1>3, <1>4, <1>5, <1>6, <1>7, <1>8

LEMMA GoesInv ==
  ASSUME Inv, NEW f \in Fetchers, NEW to \in FetcherType, Goes(f, to)
  PROVE  Inv'
<1>0. /\ fetcher' = [fetcher EXCEPT ![f] = to] /\ fetcher \in [Fetchers -> FetcherType]
      /\ to.begin = fetcher[f].begin /\ hurried \in [Fetchers -> Nat]
      /\ UNCHANGED <<bounds, stable, ever, got>>
  BY DEF Goes, Set, store, Inv, TypeInv
<1>1. TypeInv'
  <2>1. hurried' \in [Fetchers -> Nat]
    <3>1. CASE UNCHANGED hurried  BY <1>0, <3>1
    <3>2. CASE hurried' = [hurried EXCEPT ![f] = @ + 1]  BY <1>0, <3>2
    <3> QED  BY <3>1, <3>2 DEF Goes
  <2>2. fetcher' \in [Fetchers -> FetcherType]
    BY <1>0
  <2> QED  BY <1>0, <2>1, <2>2 DEF Inv, TypeInv
<1>2. VersionInv'
  <2>1. to.tr \in {Unread, Undefined} \/ (stable \subseteq to.tr /\ to.tr \subseteq ever)
    BY SeenIsSound DEF Goes, Inv, VersionInv, CanRead
  <2> QED  BY <1>0, <2>1 DEF Inv, VersionInv
<1>3. GivenInv'
  <2>1. \A g \in Fetchers : fetcher'[g].begin = fetcher[g].begin /\ Given(g)' = Given(g)
    BY <1>0 DEF Given
  <2> QED  BY <1>0, <2>1 DEF Inv, GivenInv
<1>4. EndInv'
  <2>1. ASSUME CanRead(f), Left(f) = {} PROVE stable \subseteq Given(f)
    <3>1. stable \subseteq Seen(f) /\ Seen(f) \subseteq Keys
      BY <2>1, SeenIsSound DEF CanRead
    <3>2. fetcher[f].begin \in Nat
      BY <1>0 DEF FetcherType
    <3>3. \A k \in stable : k \in Int /\ ~(k >= fetcher[f].begin)
      BY <2>1, <3>1 DEF Left, Keys
    <3>4. \A k \in stable : k < fetcher[f].begin
      BY <3>2, <3>3
    <3> QED  BY <3>4 DEF Inv, GivenInv
  <2>2. to.at = "ended" => stable \subseteq Given(f)
    BY <2>1 DEF Goes, Inv, EndInv
  <2>3. \A g \in Fetchers : Given(g)' = Given(g)
    BY <1>0 DEF Given
  <2> QED  BY <1>0, <2>2, <2>3 DEF Inv, EndInv, Goes
<1>5. HurryInv'
  BY <1>0 DEF Inv, HurryInv, Goes
<1> QED  BY <1>1, <1>2, <1>3, <1>4, <1>5 DEF Inv

-----------------------------------------------------------------------------
(* A batch, a clone, and the store.                                        *)

LEMMA BatchInv ==
  ASSUME Inv, NEW f \in Fetchers, Batch(f)
  PROVE  Inv'
<1>1. PICK last \in Left(f), more \in BOOLEAN :
        /\ ~more => \A k \in Left(f) : k <= last
        /\ Set(f, [fetcher[f] EXCEPT !.tr = Seen(f), !.begin = After(last), !.more = more, !.at = "paused"])
        /\ \E batch \in UpTo(Left(f), last) : got' = [got EXCEPT ![f] = @ \o batch]
  BY DEF Batch
<1>2. PICK batch \in UpTo(Left(f), last) : got' = [got EXCEPT ![f] = @ \o batch]
  BY <1>1
<1> DEFINE it == fetcher[f]
           to == [it EXCEPT !.tr = Seen(f), !.begin = After(last), !.more = more, !.at = "paused"]
           before == got[f]
           after == before \o batch
<1>3. /\ it \in FetcherType /\ it.begin \in Nat /\ before \in Seq(Keys)
      /\ fetcher \in [Fetchers -> FetcherType] /\ got \in [Fetchers -> Seq(Keys)]
  BY DEF Inv, TypeInv, FetcherType
<1>4. stable \subseteq Seen(f) /\ Seen(f) \subseteq ever /\ Seen(f) \in SUBSET Keys
  BY SeenIsSound DEF Batch, CanRead
<1>5. Left(f) \subseteq Keys /\ last \in Nat /\ last >= it.begin
  BY <1>4, SizesAssumption DEF Left, Keys
<1>6. After(last) \in Nat /\ After(last) = last + 1
  BY <1>5 DEF After
<1>7. /\ to \in FetcherType /\ to.tr = Seen(f) /\ to.begin = last + 1
      /\ to.more = more /\ to.at = "paused"
  <2>1. Seen(f) \in Versions
    BY <1>4 DEF Versions
  <2> QED  BY <1>3, <1>6, <2>1 DEF FetcherType
<1>8. /\ fetcher' = [fetcher EXCEPT ![f] = to] /\ got' = [got EXCEPT ![f] = after]
      /\ hurried' = [hurried EXCEPT ![f] = 0] /\ UNCHANGED <<bounds, stable, ever>>
  BY <1>1, <1>2 DEF Batch, Set, store
<1>9. /\ batch \in Seq(Keys)
      /\ \A i \in DOMAIN batch : batch[i] \in Left(f) /\ batch[i] <= last
      /\ \A i, j \in DOMAIN batch : i < j => batch[i] < batch[j]
      /\ \A k \in Left(f) : k <= last => \E i \in DOMAIN batch : batch[i] = k
  BY <1>5, BatchType
<1> HIDE DEF to
<1>10. /\ after \in Seq(Keys) /\ Len(after) = Len(before) + Len(batch)
       /\ \A i \in 1 .. Len(before) : after[i] = before[i]
       /\ \A i \in Len(before) + 1 .. Len(after) :
            after[i] = batch[i - Len(before)] /\ i - Len(before) \in DOMAIN batch
  BY <1>3, <1>9
<1>11. /\ \A i, j \in DOMAIN before : i < j => before[i] < before[j]
       /\ \A i \in DOMAIN before : before[i] \in ever /\ before[i] < it.begin /\ before[i] \in Int
       /\ DOMAIN before = 1 .. Len(before) /\ Len(before) \in Nat
       /\ \A k \in stable : k < it.begin => \E i \in DOMAIN before : before[i] = k
  BY <1>3, SizesAssumption DEF Inv, GivenInv, Given, Keys
<1>12. /\ \A i \in DOMAIN batch : batch[i] \in ever /\ batch[i] >= it.begin /\ batch[i] < last + 1
                                  /\ batch[i] \in Int
       /\ DOMAIN batch = 1 .. Len(batch) /\ Len(batch) \in Nat
  BY <1>4, <1>5, <1>9 DEF Left, Keys
<1> HIDE DEF after, before, it
<1>13. DOMAIN after = 1 .. Len(after)
  BY <1>10
<1>14. \A i \in DOMAIN after : i \in 1 .. Len(before) \/ i \in Len(before) + 1 .. Len(after)
  BY <1>10, <1>11, <1>13
<1>15. \A i, j \in DOMAIN after : i < j => after[i] < after[j]
  <2> SUFFICES ASSUME NEW i \in DOMAIN after, NEW j \in DOMAIN after, i < j
               PROVE  after[i] < after[j]
    OBVIOUS
  <2>1. CASE j \in 1 .. Len(before)
    <3>1. i \in 1 .. Len(before)
      BY <1>11, <1>13, <1>10, <1>12, <2>1
    <3> QED  BY <1>10, <1>11, <2>1, <3>1
  <2>2. CASE i \in Len(before) + 1 .. Len(after)
    <3>1. j \in Len(before) + 1 .. Len(after)
      BY <1>10, <1>11, <1>12, <1>13, <2>2
    <3>2. i - Len(before) < j - Len(before)
      BY <1>11, <2>2, <3>1
    <3> QED  BY <1>9, <1>10, <2>2, <3>1, <3>2
  <2>3. CASE i \in 1 .. Len(before) /\ j \in Len(before) + 1 .. Len(after)
    <3>1. after[i] < it.begin /\ after[i] \in Int
      BY <1>10, <1>11, <2>3
    <3>2. after[j] >= it.begin /\ after[j] \in Int
      BY <1>10, <1>12, <2>3
    <3> QED  BY <1>3, <3>1, <3>2 DEF it
  <2> QED  BY <1>14, <2>1, <2>2, <2>3
<1>16. \A i \in DOMAIN after : after[i] \in ever /\ after[i] < last + 1
  <2> SUFFICES ASSUME NEW i \in DOMAIN after PROVE after[i] \in ever /\ after[i] < last + 1
    OBVIOUS
  <2>1. CASE i \in 1 .. Len(before)
    <3>1. after[i] \in ever /\ after[i] < it.begin /\ after[i] \in Int
      BY <1>10, <1>11, <2>1
    <3> QED  BY <1>3, <1>5, <3>1 DEF it
  <2>2. CASE i \in Len(before) + 1 .. Len(after)
    BY <1>10, <1>12, <2>2
  <2> QED  BY <1>14, <2>1, <2>2
<1>17. ASSUME NEW k \in stable, k < last + 1
       PROVE  \E i \in DOMAIN after : after[i] = k
  <2>0. k \in Seen(f) /\ k \in Int
    BY <1>4, <1>17 DEF Keys
  <2>1. CASE k < it.begin
    <3>1. PICK i \in DOMAIN before : before[i] = k
      BY <1>11, <1>17, <2>1
    <3> QED  BY <1>10, <1>11, <1>12, <1>13, <3>1
  <2>2. CASE k >= it.begin
    <3>1. k \in Left(f) /\ k <= last
      BY <1>5, <1>17, <2>0, <2>2 DEF Left, it
    <3>2. PICK i \in DOMAIN batch : batch[i] = k
      BY <1>9, <3>1
    <3>3. i + Len(before) \in Len(before) + 1 .. Len(after) /\ (i + Len(before)) - Len(before) = i
      BY <1>10, <1>11, <1>12, <3>2
    <3>4. after[i + Len(before)] = k
      BY <1>10, <3>2, <3>3
    <3> QED  BY <1>10, <1>11, <1>12, <1>13, <3>3, <3>4
  <2> QED  BY <1>3, <2>0, <2>1, <2>2 DEF it
<1>18. \A g \in Fetchers \ {f} : fetcher'[g] = fetcher[g] /\ got'[g] = got[g] /\ Given(g)' = Given(g)
  BY <1>3, <1>8 DEF Given
<1>19. fetcher'[f] = to /\ got'[f] = after /\ Given(f)' = {after[i] : i \in DOMAIN after}
  BY <1>3, <1>8 DEF Given
<1>20. TypeInv'
  BY <1>3, <1>7, <1>8, <1>10 DEF Inv, TypeInv
<1>21. VersionInv'
  BY <1>4, <1>7, <1>8, <1>18, <1>19 DEF Inv, VersionInv
<1>22. GivenInv'
  BY <1>7, <1>8, <1>15, <1>16, <1>17, <1>18, <1>19 DEF Inv, GivenInv
<1>23. EndInv'
  <2>1. ASSUME ~more, NEW k \in stable PROVE k < last + 1
    <3>1. k \in Int /\ it.begin \in Nat /\ k \in Seen(f)
      BY <1>3, <1>4 DEF Keys, it
    <3>2. CASE k < it.begin  BY <1>5, <3>1, <3>2 DEF it
    <3>3. CASE k >= it.begin
      <4>1. k \in Left(f)
        BY <3>1, <3>3 DEF Left, it
      <4>2. k <= last
        BY <1>1, <2>1, <4>1
      <4> QED  BY <1>5, <3>1, <4>2
    <3> QED  BY <3>1, <3>2, <3>3
  <2>2. ASSUME ~more PROVE stable \subseteq {after[i] : i \in DOMAIN after}
    BY <1>17, <2>1, <2>2
  <2> QED  BY <1>7, <1>8, <1>18, <1>19, <2>2 DEF Inv, EndInv
<1>24. HurryInv'
  BY <1>7, <1>8, <1>18, <1>19 DEF Inv, TypeInv, HurryInv
<1> QED  BY <1>20, <1>21, <1>22, <1>23, <1>24 DEF Inv

LEMMA CloneInv ==
  ASSUME Inv, NEW c \in Consumers, Clone(c)
  PROVE  Inv'
<1> DEFINE to == [NewFetcher EXCEPT !.begin = fetcher[First].begin,
                                    !.lastBegin = fetcher[First].lastBegin, !.at = "new"]
<1>1. First \in Fetchers /\ c \in Fetchers /\ c # First
  BY FirstAssumption DEF Fetchers
<1>2. /\ fetcher' = [fetcher EXCEPT ![c] = to] /\ got' = [got EXCEPT ![c] = got[First]]
      /\ UNCHANGED <<bounds, stable, ever, hurried>>
      /\ fetcher \in [Fetchers -> FetcherType] /\ got \in [Fetchers -> Seq(Keys)]
  BY DEF Clone, Set, store, Inv, TypeInv
<1>3. to \in FetcherType /\ to.tr = Unread /\ to.begin = fetcher[First].begin /\ to.at = "new"
  <2>1. fetcher[First] \in FetcherType
    BY <1>1, <1>2
  <2>2. Unread \in Versions
    BY DEF Versions
  <2> QED  BY <2>1, <2>2 DEF NewFetcher, FetcherType
<1> HIDE DEF to
<1>4. Given(c)' = Given(First) /\ \A g \in Fetchers \ {c} : Given(g)' = Given(g)
  BY <1>1, <1>2 DEF Given
<1>5. TypeInv'
  BY <1>1, <1>2, <1>3 DEF Inv, TypeInv
<1>6. VersionInv'
  BY <1>2, <1>3 DEF Inv, VersionInv
<1>7. GivenInv'
  BY <1>1, <1>2, <1>3, <1>4 DEF Inv, GivenInv
<1>8. EndInv' /\ HurryInv'
  BY <1>1, <1>2, <1>3, <1>4 DEF Inv, EndInv, HurryInv
<1> QED  BY <1>5, <1>6, <1>7, <1>8 DEF Inv

LEMMA MoveInv ==
  ASSUME Inv, NEW k \in Keys, Move(k)
  PROVE  Inv'
<1>1. /\ stable' \subseteq stable /\ stable' \subseteq bounds' /\ bounds' \subseteq ever' /\ ever \subseteq ever'
      /\ bounds' \in SUBSET Keys /\ UNCHANGED <<fetcher, got, hurried>>
  BY DEF Move, Inv, TypeInv
<1>2. \A f \in Fetchers : Given(f)' = Given(f)
  BY <1>1 DEF Given
<1>3. TypeInv' /\ VersionInv' /\ HurryInv'
  BY <1>1 DEF Inv, TypeInv, VersionInv, HurryInv
<1>4. GivenInv' /\ EndInv'
  BY <1>1, <1>2 DEF Inv, GivenInv, EndInv
<1> QED  BY <1>3, <1>4 DEF Inv

-----------------------------------------------------------------------------
(* The theorems.                                                           *)

LEMMA StepInv == Inv /\ [Next]_vars => Inv'
<1> SUFFICES ASSUME Inv, [Next]_vars PROVE Inv'
  OBVIOUS
<1>1. CASE UNCHANGED vars
  BY <1>1 DEF vars, Inv, TypeInv, VersionInv, GivenInv, EndInv, HurryInv, Given
<1>2. ASSUME NEW f \in Fetchers, Answer(f) PROVE Inv'
  BY <1>2, FetcherSteps, GoesInv, BatchInv DEF Answer
<1>3. CASE GetReadVersion
  <2>1. First \in Fetchers
    BY DEF Fetchers
  <2>2. \E to \in FetcherType : Goes(First, to)
    BY <1>3, <2>1, FetcherSteps
  <2> QED  BY <2>1, <2>2, GoesInv
<1>4. ASSUME NEW c \in Consumers, Clone(c) \/ Fetch(c) PROVE Inv'
  <2>1. c \in Fetchers
    BY DEF Fetchers
  <2>2. CASE Clone(c)  BY <2>2, CloneInv
  <2>3. CASE Fetch(c)
    <3>1. \E to \in FetcherType : Goes(c, to)
      BY <2>1, <2>3, FetcherSteps
    <3> QED  BY <2>1, <3>1, GoesInv
  <2> QED  BY <1>4, <2>2, <2>3
<1> QED  BY <1>1, <1>2, <1>3, <1>4, MoveInv DEF Next

\* The inductive invariant holds in every reachable state.
LEMMA Invariance == Spec => []Inv
<1> QED  BY InitInv, StepInv, PTL DEF Spec

\* A consumer is given boundaries in their order and each once, across every change
\* of transactions and every clone.
THEOREM GivenInOrderOnce == Spec => []InOrderOnce
<1>1. Inv => InOrderOnce
  BY DEF Inv, GivenInv, InOrderOnce
<1> QED  BY <1>1, Invariance, PTL

\* A consumer that ends has been given every boundary that was always there.
THEOREM NothingMissed == Spec => []NoneMissed
<1>1. Inv => NoneMissed
  BY DEF Inv, EndInv, NoneMissed, Given
<1> QED  BY <1>1, Invariance, PTL

\* No fetcher asks for new transactions one after the other without a batch or the
\* delay of onError between them.
THEOREM NeverHurries == Spec => []NoHotLoop
<1>1. Inv => NoHotLoop
  BY DEF Inv, HurryInv, NoHotLoop
<1> QED  BY <1>1, Invariance, PTL
=============================================================================
