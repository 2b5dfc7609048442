-------------------------------- MODULE Locality --------------------------------
(***************************************************************************)
(* getBoundaryKeys of lib/locality.js: an iterator over the boundaries of  *)
(* the shards in a range, whose BoundaryFetcher reads them from the system *)
(* keys and goes on in a new transaction when its own has become too old.  *)
(*                                                                         *)
(* The LazyIterator around it (see the module of that name) fetches once   *)
(* with the fetcher it starts with, and each consumer goes on from there   *)
(* with a clone.  The iterator inside it, over the range of system keys,   *)
(* stops in the function of forEachBatch until the next fetch.             *)
(*                                                                         *)
(* External: the store, which moves boundaries and answers reads.          *)
(***************************************************************************)
EXTENDS Integers, Sequences, FiniteSets

CONSTANTS
  NumKeys,     \* the keys of the range are 0 .. NumKeys - 1
  Consumers,   \* clones of the first fetcher
  First,       \* the fetcher that the iterator is made with
  MaxMoves,    \* bound: boundaries that come or go
  MaxFaults,   \* bound: reads that fail
  Unread,      \* the read version of a transaction that has not read
  Undefined

ASSUME SizesAssumption == {NumKeys, MaxMoves, MaxFaults} \subseteq Nat
ASSUME FirstAssumption == First \notin Consumers

Keys == 0 .. NumKeys - 1
Fetchers == Consumers \cup {First}

VARIABLES
  bounds,     \* the boundaries that the store has
  moves, faults,
  fetcher,    \* the fields of the fetchers, and where the fetch of each is
  got,        \* consumer -> what its iterator has been given
  stable,     \* history: boundaries that have been there all the time
  ever,       \* history: boundaries that have been there at some time
  hurried     \* history: new transactions at once since the last batch; one if there is none

vars == <<bounds, moves, faults, fetcher, got, stable, ever, hurried>>
store == <<bounds, moves, stable, ever>>

\* What "at" may be: "none" and "new", not made or not fetched from yet; waiting for
\* a read version, the range read or onError; "paused", stopped in forEachBatch;
\* and the two ways to end, "ended" and "failed".
InFetch == {"version", "reading", "onError"}

\* tr is its read version, as the boundaries of that version.
NewFetcher == [tr |-> Unread, begin |-> 0, lastBegin |-> Undefined, more |-> TRUE, at |-> "none"]

-----------------------------------------------------------------------------
(* The fetcher.                                                            *)

AfterStrinc(k) == k + 2  \* mutant: strinc(last), beyond the keys that begin with it
\* fetcher.begin after a batch: last + '\x00'.
After(k) == k + 1

ReadKeys(f) == [f EXCEPT !.lastBegin = f.begin, !.more = TRUE, !.at = "reading"]

\* fetcher.tr = fetcher.tr.db.createTransaction()
NewTransaction(f) == [f EXCEPT !.tr = Unread]

Set(f, to) == fetcher' = [fetcher EXCEPT ![f] = to]

\* fetch: start to read, or let the iterator inside go on, which ends at once if its
\* last batch has been the last.
Fetch(f) ==
  LET it == fetcher[f] IN
  /\ \/ it.at = "new" /\ Set(f, ReadKeys(it))
     \/ it.at = "paused" /\ it.more /\ Set(f, [it EXCEPT !.at = "reading"])
     \/ it.at = "paused" /\ ~it.more /\ Set(f, [it EXCEPT !.at = "ended"])
  /\ UNCHANGED <<store, faults, got, hurried>>

CloneFromStart(c) ==  \* mutant: begin is not copied
  /\ fetcher[c].at = "none" /\ fetcher[First].at \notin InFetch
  /\ Set(c, [NewFetcher EXCEPT !.at = "new"])
  /\ got' = [got EXCEPT ![c] = got[First]]
  /\ UNCHANGED <<store, faults, hurried>>

\* clone, when a consumer copies the state of the iterator, with what that has been
\* given and not by way of a fetch that is under way.
Clone(c) ==
  /\ fetcher[c].at = "none" /\ fetcher[First].at \notin InFetch
  /\ Set(c, [NewFetcher EXCEPT !.begin = fetcher[First].begin,
                               !.lastBegin = fetcher[First].lastBegin, !.at = "new"])
  /\ got' = [got EXCEPT ![c] = got[First]]
  /\ UNCHANGED <<store, faults, hurried>>

\* getBoundaryKeys of a Transaction: the error of getReadVersion is not looked at,
\* and the undefined version that is set instead makes the first read fail.
GetReadVersion ==
  /\ fetcher[First].at = "version"
  /\ \/ Set(First, ReadKeys([fetcher[First] EXCEPT !.tr = bounds])) /\ UNCHANGED faults
     \/ /\ faults < MaxFaults
        /\ faults' = faults + 1
        /\ Set(First, ReadKeys([fetcher[First] EXCEPT !.tr = Undefined]))
  /\ UNCHANGED <<store, got, hurried>>

-----------------------------------------------------------------------------
(* What the read of system keys comes to.                                  *)

Seen(f) == IF fetcher[f].tr = Unread THEN bounds ELSE fetcher[f].tr
Left(f) == {k \in Seen(f) : k >= fetcher[f].begin}

CanRead(f) == fetcher[f].at = "reading" /\ fetcher[f].tr # Undefined

\* The keys of S up to last, in their order: the one sequence of this set.
UpTo(S, last) ==
  LET keys == {k \in S : k <= last} IN
  {s \in [1 .. Cardinality(keys) -> keys] :
     /\ \A i, j \in DOMAIN s : i < j => s[i] < s[j]
     /\ \A k \in keys : \E i \in DOMAIN s : s[i] = k}

\* A batch; that there may be more is certain if it stops short of the end.
Batch(f) ==
  /\ CanRead(f)
  /\ \E last \in Left(f), more \in BOOLEAN :
       /\ ~more => \A k \in Left(f) : k <= last
       /\ Set(f, [fetcher[f] EXCEPT !.tr = Seen(f), !.begin = After(last), !.more = more, !.at = "paused"])
       /\ \E batch \in UpTo(Left(f), last) : got' = [got EXCEPT ![f] = @ \o batch]
  /\ hurried' = [hurried EXCEPT ![f] = 0]
  /\ UNCHANGED <<store, faults>>

EmptyBatch(f) ==
  /\ CanRead(f) /\ Left(f) = {}
  /\ Set(f, [fetcher[f] EXCEPT !.tr = Seen(f), !.at = "ended"])
  /\ UNCHANGED <<store, faults, got, hurried>>

Fault(f) ==
  /\ fetcher[f].at = "reading"
  /\ \/ fetcher[f].tr = Undefined /\ UNCHANGED faults
     \/ fetcher[f].tr # Undefined /\ faults < MaxFaults /\ faults' = faults + 1
  /\ UNCHANGED <<store, got>>

PastVersionAlways(f) ==  \* mutant: whether begin has moved or not
  /\ Fault(f)
  /\ Set(f, ReadKeys(NewTransaction(fetcher[f])))
  /\ hurried' = [hurried EXCEPT ![f] = @ + 1]

\* past_version, since begin has moved: read on in a new transaction at once.
PastVersion(f) ==
  /\ Fault(f)
  /\ fetcher[f].begin # fetcher[f].lastBegin
  /\ Set(f, ReadKeys(NewTransaction(fetcher[f])))
  /\ hurried' = [hurried EXCEPT ![f] = @ + 1]

\* Another error, or past_version again: onError.
CallOnError(f) ==
  /\ Fault(f)
  /\ Set(f, [fetcher[f] EXCEPT !.at = "onError"])
  /\ UNCHANGED hurried

\* onError has reset the transaction, or gives the error back.
OnErrorRetries(f) ==
  /\ fetcher[f].at = "onError"
  /\ Set(f, ReadKeys(NewTransaction(fetcher[f])))
  /\ UNCHANGED <<store, faults, got, hurried>>

OnErrorUnanswered(f) ==  \* mutant: the error is not given to fetchCb
  /\ fetcher[f].at = "onError"
  /\ Set(f, [fetcher[f] EXCEPT !.at = "forgotten"])
  /\ UNCHANGED <<store, faults, got, hurried>>

OnErrorFails(f) ==
  /\ fetcher[f].at = "onError"
  /\ Set(f, [fetcher[f] EXCEPT !.at = "failed"])
  /\ UNCHANGED <<store, faults, got, hurried>>

-----------------------------------------------------------------------------

\* A shard is split, or two are merged.
Move(k) ==
  /\ moves < MaxMoves
  /\ moves' = moves + 1
  /\ bounds' = IF k \in bounds THEN bounds \ {k} ELSE bounds \cup {k}
  /\ stable' = stable \cap bounds'
  /\ ever' = ever \cup bounds'
  /\ UNCHANGED <<faults, fetcher, got, hurried>>

\* getBoundaryKeys of a Database, where the iterator starts to fetch when it is
\* made, and of a Transaction, where the read version comes first.
Init ==
  /\ bounds \in SUBSET Keys
  /\ stable = bounds /\ ever = bounds
  /\ moves = 0 /\ faults = 0
  /\ \E first \in {ReadKeys(NewFetcher), [NewFetcher EXCEPT !.at = "version"]} :
       fetcher = [f \in Fetchers |-> IF f = First THEN first ELSE NewFetcher]
  /\ got = [f \in Fetchers |-> <<>>]
  /\ hurried = [f \in Fetchers |-> 1]

Answer(f) ==
  \/ Batch(f) \/ EmptyBatch(f)
  \/ PastVersion(f) \/ CallOnError(f)
  \/ OnErrorRetries(f) \/ OnErrorFails(f)

Next ==
  \/ GetReadVersion
  \/ \E f \in Fetchers : Answer(f)
  \/ \E c \in Consumers : Clone(c) \/ Fetch(c)
  \/ \E k \in Keys : Move(k)

Spec == Init /\ [][Next]_vars

\* Requests are answered, and onError calls back.
FairSpec == Spec /\ WF_vars(GetReadVersion) /\ \A f \in Fetchers : WF_vars(Answer(f))

-----------------------------------------------------------------------------
(* Properties.                                                             *)

\* A consumer is given boundaries that there are or have been, in their order and
\* each once, however often its fetcher changed transactions on the way.
InOrderOnce ==
  \A f \in Fetchers :
    /\ \A i, j \in DOMAIN got[f] : i < j => got[f][i] < got[f][j]
    /\ \A i \in DOMAIN got[f] : got[f][i] \in ever

\* A consumer that comes to the end has been given every boundary that was there
\* all the time, although it has read the range in several versions.
NoneMissed ==
  \A f \in Fetchers :
    fetcher[f].at = "ended" => stable \subseteq {got[f][i] : i \in DOMAIN got[f]}

\* A fetcher never asks for new transactions one after the other: without the
\* delay of onError there is a batch of its own before each.
NoHotLoop == \A f \in Fetchers : hurried[f] <= 1

\* Every fetch is answered, however the reads fail.
FetchesAnswered ==
  \A f \in Fetchers : fetcher[f].at \in InFetch ~> fetcher[f].at \in {"paused", "ended", "failed"}
=============================================================================
