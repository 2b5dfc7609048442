# Verification of node-fdb

node-fdb is the JavaScript binding of FoundationDB: a native module over `fdb_c`, a retry
loop around optimistic transactions, lazy range iterators, an allocator of short prefixes and
a directory layer that keeps a tree of named key spaces in the database. This project models
the parts of it in which an interleaving, a retry or a callback can do damage that a test
would hardly reach. FoundationDB itself is external: every module models as much of it as the
code relies on (snapshots, conflict ranges, the order of keys), from how the code uses it.

## 1. Inventory

All paths are under `src/`; `lib/` is the JavaScript, `src/` the native layer.

| component | source | state it keeps | operations | correct when |
|---|---|---|---|---|
| HighContentionAllocator | `lib/directory.js` 85-135 | in the database: a counter per window, the *recent* prefixes; per call: start, count, candidate | `allocate` | no prefix is handed out twice; the search for a free candidate ends |
| DirectoryLayer, Node | `lib/directory.js` 39-79, 137-594, 747-804 | in the database: per node its subdirectories and its layer, a version per layer | createOrOpen, open, create, move, remove, removeIfExists, list, exists | directories form one tree whatever runs concurrently; contents never mix; a removal leaves nothing |
| DirectorySubspace, DirectoryPartition | `lib/directory.js` 596-745 | a path, a prefix, a layer; a partition has a layer of its own | the same through an object, moveTo | the operation reaches the layer that keeps the directory |
| LazyIterator, RangeFetcher | `lib/lazyIterator.js`, `lib/rangeIterator.js` | start state, a copy per consumer; per copy: results, index, fetching, finished, waiting callbacks; position and remaining limit | next, forEach, forEachBatch, toArray | every consumer sees the range in order from its first row; every consumer is called back |
| Database.doTransaction, Transaction | `lib/database.js`, `lib/transaction.js`, `lib/retryDecorator.js` | one native transaction reused by all attempts of a call | doTransaction, onError, commit, reads, watches | a call takes effect atomically, once, and its caller is told the truth |
| Future | `lib/future.js` | state, value, callbacks | then, all, race, cancel | settled once; every callback runs once |
| whileLoop | `lib/fdbUtil.js` 47-67, `lib/directory.js` 39-45 | whether the loop body is in a synchronous call | whileLoop | neither recursion without end nor a lost iteration |
| Locality | `lib/locality.js` | a fetcher with a transaction of its own, the begin key | getBoundaryKeys, getAddressesForKey | boundaries in order, none twice, through past_version |
| NodeCallback, Transaction, Watch | `src/NodeCallback.h`, `src/Transaction.cpp` | references, cancelled flag, uv handles | start, the callback on the event loop, cancel, destructor | freed once, after the last use; called back once |
| API selection, `open`, network thread | `lib/fdb.js`, `lib/cluster.js`, `src/FdbV8Wrapper.cpp`, `src/Cluster.cpp`, `src/Database.cpp` | caches of clusters and databases, the API version | apiVersion, init, open, stopNetwork | one network thread; one database per cluster file |
| Tuple, Subspace, KeySelector, strinc | `lib/tuple.js`, `lib/subspace.js`, `lib/keySelector.js`, `lib/fdbUtil.js` 29-45 | none | pack, unpack, range, strinc | order preserving, invertible |
| Buffers, errors, options | `lib/bufferConversion.js`, `lib/error.js`, `src/FdbError.cpp`, `src/FdbOptions*.cpp` | none | conversions, tables | generated or pure |

How they interact. Every operation of the directory layer is a function run by
`doTransaction` (`retryDecorator`) or inside a transaction it is given; it reads through
`tr.get` and range iterators, allocates prefixes in the same transaction, and is retried as a
whole. `tr.getRange` returns a LazyIterator whose RangeFetcher issues native reads. Every
native call returns through a NodeCallback, which posts from the network thread to the event
loop. All JavaScript runs in one thread: the concurrency is that of callbacks, of transactions
of this and of other processes on one store, and of overlapping calls inside one transaction.

What is hard:

- transactions that interleave and read *without* being checked (`tr.snapshot`), in the
  allocator and in `isPrefixFree`;
- retries that run a function again after part of it, or all of it (commit_unknown_result),
  took effect;
- consumers of one iterator that share a fetch in flight, in callbacks that call back into
  the iterator;
- operations on the tree that meet: a creation under a directory that is being removed, two
  moves into one another, a write into a removed directory;
- overlapping calls inside one transaction, which the store does not protect from each other;
- crossing from a layer into the layer of a partition, for one path or for two, and asking
  an object which layer of two it means;
- futures whose settling, ticks and subscriptions come from native code, from ticks and from
  user code in any order, because native code calls back without draining the ticks;
- native callbacks that the network thread, the event loop and the garbage collector let go of
  in any order;
- encodings whose order and inverse depend on boundaries of bytes, signs and doubles.

PROJECT.json lists each of these at its line.

## 2. Modules

| module | models | used by |
|---|---|---|
| `HighContentionAllocator` | `allocate` in transactions under the retry loop | the runs `hca_*`, the proofs |
| `HighContentionAllocatorProofs` | types, unique prefixes, exact counters, room in the window, proved | - |
| `DirectoryTree` | abstract: one tree, one step per operation | `DirectoryLayer` (`ImplementsTree`) |
| `DirectoryLayer` | `lib/directory.js` on the keys it keeps | the runs `dir_*`, the proofs |
| `DirectoryLayerProofs` | types, no orphans, contents apart, nothing left behind, proved | - |
| `RangeScan` | abstract: every consumer sees the rows in order | `LazyIterator` (`ImplementsScan`) |
| `LazyIterator` | the iterator with the range fetcher | the run `iterator`, the proofs |
| `LazyIteratorProofs` | types, order of rows, empty batches, `ImplementsScan`, proved | - |
| `AtomicTransactions` | abstract: a call is one step | `RetryLoop` (`ImplementsAtomic`) |
| `RetryLoop` | `doTransaction`, `retryLoop`, `onError` | the run `retry`, the proofs |
| `RetryLoopProofs` | types, true outcomes, no lost update, `ImplementsAtomic`, proved | - |
| `Future` | `lib/future.js` and both `whileLoop`s | the run `future`, the proofs |
| `FutureProofs` | order of callbacks, settled once, types, children, all and race, loops, proved | - |
| `NativeCallback` | `NodeCallback.h`, the Watch of `Transaction.cpp` | the run `native`, the proofs |
| `NativeCallbackProofs` | types and four safety properties, proved | - |
| `Locality` | `getBoundaryKeys` and its fetcher | the run `locality`, the proofs |
| `LocalityProofs` | order, completeness and pace of what is given, proved | - |
| `TupleLayer` | `lib/tuple.js`, `lib/subspace.js`, `strinc` | the run `tuple`, the proofs |
| `TupleLayerProofs` | order of keys, ranges, what is unpacked, proved | - |
| `MC*` | constants, symmetry and small instances | TLC |

Several modules take a set of `Settings` (or `Uses`), each a small instance: which calls are
made, of which operations, with which bounds. `Init` picks one and a variable (`setting`,
`use`, `uses`) keeps it, so that one run covers instances that would be too large together.

### HighContentionAllocator

A call of `allocate` is four actions, one for each turn of the event loop: `ReadCounter`
(the snapshot `getRange` of the last counter), `OpenWindow` (its callback: move the window if
it is half full, count, first candidate), `PickAgain` (the candidate is taken, the loop body
runs again) and `Take` (it is free, the key is set). `Commit`, `CommitConflict`,
`CommitUnknown` and `Fault` are the ends of an attempt; `Reset` is `onError`.

A transaction has a snapshot (`snapC`, `snapR`), the writes it has buffered (`clearedC`,
`addC`, `clearedR`, `setR`, in the order clear and then add or set), the keys others have
written since its snapshot (`dirty`) and the keys whose reads the store checks (`checked`).
Only reads of `recent[candidate]` get into `checked`, and only when the transaction has not
written the key itself. `issued` is history. `Concurrent` lets the calls of one transaction
overlap; `SnapshotRYW` is the option snapshot_ryw_enable or snapshot_ryw_disable. The window
sizes 64, 1024, 8192 and their limits 255, 65535 are constants, so that TLC meets the moves of
the window with 4, 6, 6 and the proof holds for any.

### DirectoryLayer

The database is a function from keys to values. Keys are tuples: the subdirectories and the
layer of a node, the version of a layer, the numbers its allocator has handed out, and the
contents of a prefix. A prefix is a sequence of numbers, a number standing for what one
allocation packs to; a directory layer is named by its content prefix (the root is `<<>>`),
and its nodes are under that prefix and the byte FE (`RootPrefix`), which comes after every
allocated number, so that what `clearRangeStartsWith` of a partition's prefix takes with it
(nodes, version and allocator of the partition) follows from the keys (`StartsWith`).

All reads of an attempt are of one snapshot, so that an attempt is one action: `Attempt`
works out what the operation reads with a check (`reads`), writes (`puts`), clears (`clears`)
and answers, with one operator for each function of the source: `Find`, `Enter` (the chain of
calls into partitions' layers), `TooNew` and `Versions` (`checkVersion`), `isPrefixFree`,
`CreateWith`, `createOrOpen`, `removeInternal` with `Subtree`, `Move`, `List`, `Exists`. An
attempt that fails or has nothing to write ends there. `Commit` applies it if no other call
has written into its reads since, `CommitConflict` makes it run again, and `CommitUnknown`
applies it, or not, and makes it run again in any case. Reads through `tr.snapshot` are not in
`reads`. The walks are recursive functions with an operator for their step: `Walk` along the
names of a path, `Entering` from layer to layer, `Descent` down the subdirectories of what is
removed.

`Names` is the set of directory names; `WellFormed` says what can be asked for (a move has a
second path, what is asked of a directory goes on from its path), and `OpsAssumption` that the
`Settings` ask for nothing else. `NoneAssumption` tells a missing key from what is stored.

An operation with a `via` is one of the DirectorySubspace or DirectoryPartition at that path:
the function opens it and goes on in the same transaction. `Contents` is what
`contentsOfNode` makes of the directory: the layer that keeps it, and for a partition the
layer inside it too; `LayerForPath` is the choice between the two, which `remove`,
`removeIfExists`, `exists` and `moveTo` make and the other methods do not; `Subpath` and
`LayerPath` are the paths that the layer is given.

The allocator is represented by what is shown of it: `Create` takes any number whose *recent*
key is absent, and reads that key with a check. In `DirectoryLayer` *recent* keys are not
forgotten; `PrefixIssuedOnce` is the reason why this loses nothing.

`DirectoryTree` knows of no keys: a function from paths to an identity and a layer, and the
set of identities that have contents. `ImplementsTree` maps `tree` to what is reachable from
the root (`Places`, a walk by levels that enters partitions; the variable `places` is derived
from `db` by it at every commit) and `full` to the content
keys. It lets an operation be refused only for the reasons the operation has, so that a
refusal that only a race could produce ("keys at prefix", "prefix in use") violates it. A
call whose commit is of unknown outcome may take its step a second time, and only then
(`unknown`); what it is answered is what the second step is answered. A partition that is
asked to open or create itself answers as a root does (`OwnRoot`), because those methods do
not look which layer is meant.

### LazyIterator

`iter` holds the start state, the state of the calls of `next` and one state per loop, with
the fields of `iterState`. `Respond` and `RespondError` are native reads that come back;
the callbacks of that turn are in `run`, a stack that is run depth first
(`RunCallback`), and user code that is called back may call back into the iterator before it
returns (`Reentrant`). `CallNext`, `StartLoop`, `Continue` and `Stop` are what a user does.
`toArray` is a loop whose function only appends, and is continued in the same turn.

### RetryLoop

`pc` says where the loop of a call is. A function reads the keys `Reads[t]` one after another
and adds one to the keys `Writes[t]`: by setting a key it has read to the value it saw plus
one, or by the atomic operation. `GetReadVersion`, `ReadReturns`, `ReadFails`, `FuncFails` and
the `Throw*` actions are how a function goes and ends, `CommitOk`, `CommitConflict`,
`CommitUnknown` and `CommitFails` how a commit does, and `Retry`, `RetryThrows` and `GiveUp`
are `onError`, on the transaction object all attempts share. What is thrown in a callback is
printed by the native code and ends in `lost`. The option retry_limit is the same in every
attempt of a call: functions are assumed to set it in each, as the native reset forgets it.

### Future

A future is pending or has a fate, and a list of callbacks. Callbacks are data: "then of
child c", "adopt for p", "element of a", "node-style callback n", "body of loop l". `Settled`
and `Added` are `fulfill`/`reject` and `addCallback` on a record of the state, so that one turn
can do several of them in order; `Resolved` is `resolvePromise`. `ticks` is node's queue, and
`RunTick` runs its head. `NativeCallback` (native code calls the callback of a future, perhaps
twice), `Reject` (a future that `reject(reason)` has made: a native one, rejected before it is
used), user code (`Then`, `NodeStyle`, `All`, `Race`, `StartLoop`) and ticks are the steps,
which mix in any order but inside a turn of a loop. `all` and `race` subscribe to the
elements of their list in one turn, and a future may stand in the list more than once; what
that loop adds up to is given at once: `Waiting` appends to the callbacks of each future one
callback per position it has in the list (`these`, `Nth`), and to the queue one tick for each
position of an element that is settled. A loop has the two variables of
`fdbUtil.whileLoop`: whether its body has called back, and how many of its `while` statements
are on the stack. What the code does with falsy reasons, with plain values in the list of
`all`, and with bodies that throw is in the model as it is in the code, and the properties
state it. A native callback takes a falsy error for none, so that no future is rejected with
one by it; a handler that throws a falsy value, and `Reject`, do make such futures, and `then`
and `resolvePromise` hand their fate on, while `all`, `race` and loops take it for success.

### NativeCallback

A NodeCallback has a native future (`fut`), a uv handle (`handle`, from `open` over `sent`,
`calling` and `closing` to `closed`), a count of references and perhaps a Watch object. The
network thread's step is `FutureReadyCallback`; the event loop's are `NodeThreadCallback` (up
to the call into JavaScript), `Return` (the handle is closed), `CloseCallback` and those of
node (`RunTicks`, `Timer`, `EndOfLoop`); the collector's is `Collect`, which takes a Watch that
neither the program nor a waiting function reaches. The program makes requests and watches,
waits, cancels and lets go of them, in its script or in a callback. A watch becomes ready when
its transaction has committed and the database says so, or when the transaction is reset.

### Locality

A fetcher is a record of its transaction (by the version it reads, as the set of boundaries of
that version), `begin`, `lastBegin`, whether the iterator inside it has more, and where its
fetch is. `Batch`, `EmptyBatch`, `PastVersion`, `CallOnError` and the two ends of `onError` are
the callback `iteratorCb` and the function of `forEachBatch`; `Clone` copies `begin` and
`lastBegin` and not the transaction. `Move` is the database, which splits and merges shards
between any two steps. The LazyIterator around the fetcher is the module of that name; only
what it asks of a fetcher is here.

### TupleLayer

A key is a sequence of bytes. The state is a subspace, a key that was packed in it or beside
it, and where `unpack` of the key is; one step decodes one item. Bytes have four bits,
integers up to three bytes and doubles nine bits of mantissa in the run, in place of eight,
seven and 53: the relations between them that matter (the longest integers are not exact,
those of other bindings are a byte longer, codes do not collide) are the named assumptions.
What takes a loop in the code (`Power`, `Rest`, `Sum`, `Unescaped`) is a recursive function.

## 3. Runs

| run | bounds | what it shows |
|---|---|---|
| `hca_safety` | 3 transactions, 1 call each, windows 4 and 6, prefixes 0..15, 1 fault | unique prefixes (`PrefixIssuedOnce`), exact live counter (`CounterExact`), windows never more than half full (`HalfFree`) |
| `hca_liveness` | 2 transactions, 2 calls each, windows 3 and 4 | when a transaction moves the window and reads its own writes, every call of doTransaction ends |
| `hca_concurrent` | overlapping calls | *violation*: one commit hands out a prefix twice |
| `dir_tree` | 2 calls of any of 21 operations on paths of at most 2 names, from 5 databases; 3 calls of 9 that change the tree, from 2; 2 calls of 17 most of which ask an object, from 3 with nested partitions; 5 numbers; a commit of unknown outcome in the first and the last | one tree; no orphans, no shared contents, nothing left behind |
| `dir_manual` | 2 calls, manual prefixes | *violation*: an allocated prefix and one given by hand are the same |
| `dir_version` | a database left by version 1.1 | *violation*: it is not read-only but unreadable |
| `iterator` | 3 rows or none, batches of at most 2, 1 error; a forEach, a forEachBatch, a toArray, calls of next, or re-entrant ones with limit 2 | rows in order for everyone (`RowsInOrder`, `ImplementsScan`), empty batches only where the code gives one, every consumer served although answers may be out of order |
| `retry` | 3 calls of which two conflict both ways and one uses the atomic operation, 1 fault, limit 1; two that conflict, 2 faults, limit 2; a reader beside two that conflict, limit 9 | each call is one step, no update is lost, callers are told the truth, every call calls back |
| `future` | 2 native futures with two calls of then, a node-style callback, all, race over lists of up to 3, or a loop of 3 rounds | settled once, callbacks once and in order, the right fate for every child, all, race and loop, no fate lost |
| `native` | a request, a watch and a timer; two watches | no use after free, no watch cancelled unasked, no waiter left when the loop ends, garbage freed, outcomes delivered |
| `locality` | 3 keys, a first fetcher and a clone, 2 moves of boundaries, 3 failing reads | boundaries in order and once, none that stayed missed, no hot loop, every fetch answered |
| `tuple` | all items at the edges of lengths, signs and doubles, strings of null, FF and another byte, all pairs of a few, 3 raw prefixes | `unpack` inverts `pack` or refuses, order of keys is order of tuples, ranges hold what they are meant to |

Why the bounds are enough. The allocator's windows are small so that two calls already make a
window half full and three transactions meet every kind of stale counter: one window behind,
two windows behind, and cleared. The prefixes end at 15, two windows after the first; an
attempt that would go further is cut off. A conflict in the directory layer is between two
calls; three show chains, in which the second retry meets a third. Five numbers are more than
the directories any of these runs creates, so that allocation is never what stops a call.
Iterators meet their corner cases (a batch that ends on the limit, `more` with nothing behind
it, an error on the first or on a later fetch) within three rows and batches of two. Futures
meet theirs when one that waits for another is settled before, between and after it, which
two native ones and two children do; the settings of `MCFuture` leave out combinations whose
parts share no future. A NodeCallback touches no other but through the loop and the queue of
ticks, which two are enough to mix; the proof is for any number. Three keys give a fetcher a
batch before and after a change of transaction, and an end.

Deadlock checking is off in all runs: each call happens once and the models really stop when
all are answered. That nothing stops earlier is what `AllFinish`, `ConsumersServed`,
`EveryCallEnds`, `FatesArrive`, `WaitersServed` and `FetchesAnswered` say. The directory layer
has no liveness run: that calls which only conflict with one another end is `EveryCallEnds`.

Fairness. Callbacks are run and native requests answered (weak fairness: the event loop is
FIFO and the client library answers or fails every request). The random candidate is not for
ever one of those in use (strong fairness on picking a free one, `Math.random`). No fault, no
user's call and no throw is forced. A function of a loop is assumed to call back. In `Future`
the queue of ticks is run, and nothing forces native code to call back. In `NativeCallback`
the network thread reports, the loop serves its handles and the collector runs, but a watch
need never fire, and the queue of ticks is sure to be run only when the loop has nothing left,
since `nodeThreadCallback` does not drain it. In `Locality` reads, `getReadVersion` and
`onError` are answered.

`TupleLayer` and `Locality` have no type invariant among what is checked: their variables are
sequences and records whose sets would say nothing that the other properties do not. The
proofs have one each.

## 4. Proofs

Every theorem holds for all values of the constants that the named assumptions allow: any
number of transactions, calls, futures, rows and faults, where a run has two or three. Where
a theorem needs more than that it says so in its `ASSUME`; each such hypothesis is discussed
below. All of them have one shape: an invariant `Inv`, that `Init` establishes it (`InitInv`),
that each action keeps it (a lemma per action, or per kind of action), and that it implies the
property.

### Allocator

`HighContentionAllocatorProofs!TypeCorrect`: `Spec => []TypeOK`. Its invariant `TypeInv` adds
to `TypeOK` that the window of a call that has picked lies in the modelled prefixes.

`HighContentionAllocatorProofs!IssuedOnce`: if the calls of a transaction do not overlap
(`~Concurrent`; the run `hca_concurrent` shows that they must not), no prefix is issued twice,
in both snapshot modes. `PrefixIssuedOnce` is far from inductive, because `recent` forgets
prefixes when the window moves. What is true (`Remembered`) is that a prefix which was
issued and is not in `recent` lies before a window that is counted; a transaction that
clears does count something behind what it clears (`ClearedIsCounted`); and what was issued
before or since a transaction's snapshot is in its snapshot, in its `dirty` set, or before a
window its snapshot counts (`SeenOrDirty`). The rest of `Inv` says that a call only picks
candidates from the last window of its snapshot or a later one, so that a free candidate can
only have been issued by someone who made it dirty, and then the checked read of it fails the
commit (`CommitIsNew`); calls of one attempt pick different candidates because they see each
other's keys (`TakenOnce`). The lemmas follow this order: a step of one transaction leaves the
others' invariants (`OthersKept`), each action keeps its own (`*Own`), a commit keeps
everybody's (`ApplyStore`).

`CountedExactly` (`CounterExact`), with the same hypothesis. The invariant (`CountInv`) is that
the last window of the store counts exactly the taken prefixes from its start on (`Counting`),
that this is so of every snapshot (`SnapshotInv`), and that an attempt has written nothing or
has reached one window, in which it has counted each prefix it has taken and the one it is
choosing (`Reached`). A commit then leaves the later of two windows: its own, or the store's
if the attempt is stale, and in the second case everything it clears, counts or takes ends
before the store's window begins. This needs windows not to overlap although their size grows
with their start; the starts are therefore the least set that has 0 and, with a start, the
end of its window (`Starts`), and two of them are a window apart (`StartsApart`). Prefixes
that two attempts take in one window are different because each was read with a check, so
that the counts add up.

`SearchHasRoom` (`HalfFree`) has two more hypotheses. Windows are larger than 2; the code's
have 64 at least, and with a window of 1 or 2 a window just opened would be half full.
Snapshot reads see the writes of their own transaction (`SnapshotRYW`): otherwise the code counts
without the prefixes that the attempt itself has taken, and nothing is claimed.

### Native callbacks

`NativeCallbackProofs`: `TypeCorrect`, `NeverUsedAfterFree` (`NoUseAfterFree`),
`NeverCancelledUnasked` (`OnlyAskedCancels`) and `LoopOutlivesWaiters` (`NobodyLeftWaiting`),
all from one inductive invariant `IInv`. None of the properties is inductive. That nothing is
freed early needs the count to be exact (`RefCountExact`: one for the loop until the handle is
closed, one for the Watch until it is collected) and what is not made yet to be clean
(`UnmadeIsClean`). That nobody is told of a cancellation he has not asked for needs that a
future which was cancelled by its collected Watch is one that nobody reaches
(`UnaskedIsUnreachable`), and that functions in the queue of ticks are still counted as waiting
(`QueuedWaits`), so that the collector leaves their watch alone. That the loop does not end on
a waiter needs every waiter to have a handle that is still to call back, or a place in the
queue (`WaitersAreServed`), and such handles to hold the loop (`OpenHoldsLoop`).

### Retry loop

`RetryLoopProofs`: `TypeCorrect`, `CallersToldTheTruth` (`OutcomeIsTrue`), `NoUpdateIsLost`
(`NoLostUpdate`) and the refinement `CallsAreAtomic` (`ImplementsAtomic`). What an attempt has
read and may write is good because its snapshot is the database as it is, except in the keys
that are `dirty` (`SnapshotInv`), and a commit with a dirty read fails. The database and the
snapshot are both among those there have been since the call was made (`PastInv`), which is
what the abstract step of a call that only reads needs: it takes place at its snapshot, in the
past of its commit. No update is lost because a key is as large as the set of commits that
have added to it (`UpdatesInv`); a call commits again only after a fault (`AppliedInv`). The
steps that only move a call on (errors, conflicts, giving up, what throws) are treated as one
(`Parks`).

### Locality

`LocalityProofs`: `GivenInOrderOnce`, `NothingMissed`, `NeverHurries`. `begin` separates what
has been given from what has not, whichever transaction a fetcher reads in (`GivenInv`);
every version it reads has the boundaries that have always been there and none that never was
(`VersionInv`); before the last return of control nothing is left (`EndInv`). A fetcher that
has changed transactions without a batch since has `begin` where it began to read, which is
what makes the code wait on the next past_version (`HurryInv`).

### Iterator

`LazyIteratorProofs`: `TypeCorrect`, `InOrder` (`RowsInOrder`),
`NoLateEmptyBatch` (`EmptyBatchOnlyAtOnce`) and the refinement `ScansTheRange`
(`ImplementsScan`). The rows of a state are those just before its fetcher's position
(`ResultsOK`), the limit that is left is what the rows behind it have left of it (`FetcherOK`),
and `Consumed` counts what was taken; a loop has been given just that many rows (`LoopInv`),
and the calls of next share theirs (`NextInv`). A state fetches only when its rows are given.
What makes the proof long is the stack of callbacks of a turn: no two of its entries are the
same, and each finds the state it expects (`RunInv`), even when functions called before it in
the same turn call back into the iterator; a state that has been finished by an error has its
consumer on the top of that stack (`FinishedInv`). Calls of next are answered in order unless
they are made in callbacks (`OrderInv`). Every step is one of five kinds (`LoopMoves`,
`NextMoves`, `Awakes`, `StartAnswers`, `WaitsForStart`), and the invariant and the refinement
are proved for each kind. `NamesAssumption` and `UndefinedAssumption` say that the names of
states, the loops and `undefined` are different things, which the code has by types.

### Futures

`FutureProofs`, in three layers. `OrderInv` is about the queue: for each future that is settled,
its ticks stand in the queue in the order in which its callbacks were added and run what has
not run yet of them (`InTurn`), and one that is not settled has no tick and has run none.
Settling moves a list to the end of the queue, adding late appends to it, and a tick takes the
head; each keeps `InTurn` of its future and of the others. This gives `RunInOrder`
(`CallbacksInOrder`), and `SettledOnce` (`SettledForever`) follows from `Settled` alone.

`FateInv` is about whom a callback is for. `Places` are where a callback was asked for (a
future, and which of its callbacks it is) and `Open` those where it has still to run, whether
it waits at the future or in the queue; a step changes them for one callback only, which is
what makes each case small. A handler has one place and runs once, a child that adopts waits
for the very future it was given (`ChildOK`), a loop that waits has one open place and one
that does not has none (`LoopOK`), and `all` counts at least its open places (`AllOK`). This
gives `TypeCorrect`, `HandlersSettle` (`ChildTakesFate`) and `OneBodyAtATime` (`LoopIsExact`).

`CombInv` is about the order of ticks of *different* futures, which `CombinedFate` needs: that
the fate of `all` or `race` is the one that is heard first is plain, that it is the one that was
settled first is not. Elements come first by when they were settled, those that were settled
when the list was given by their position (`Better`); `LaterIsWorse` says that this order does
not change as more are settled. While such a future waits (`Waits`), each element that counts
for it (any settled one for `race`, a rejected one for `all`) is still to be heard, and before
the tick of an element stand the ticks of those that come before it and count (`InRank`). That
holds of a list just given because its late ticks are queued in the order of the list
(`Begun`), and stays because what is settled later goes to the end of the queue (`Grows`). So
the tick at the head that counts is of the first element (`HeadWins`), and once a fate is
decided it stays what decides (`DecidedStays`). When `all` counts none left, `FateInv` says that
no place is open, and then every element has been heard (`AllHeard`). This gives `FirstDecides`.

All but the first two of these theorems assume `FuturesAreNoLists`, since `all` of an empty
list is fulfilled with a sequence and the model's values are untyped; `NamesAssumption` is the
same for what different functions make.

### Directories

`DirectoryLayerProofs`: `TypeCorrect`, `NoDirectoryLost` (`NoOrphans`), `ContentsApart`
(`PrefixesDisjoint`) and `RemovedWhole` (`NothingLeft`), for any names, operations, calls and
depth of partitions in partitions. All four assume `~AllowManualPrefixes`, the default of the
options (`lib/directory.js` 151); with the option `PrefixesDisjoint` is false, as the run
`dir_manual` shows.

The properties are about `places`, which a walk from the root finds. The invariant is about
single keys instead and needs no path. `NodesOK` of a database says: an entry of a parent names
a node that exists (`ChildrenExist`) and stands in a node that exists and is no partition
(`ParentsExist`); a node has one entry (`OneParent`, `HasParent`); its number is recorded as
handed out (`Recorded`); a layer that has keys is the root's or that of a partition
(`LayersLive`); contents belong to a directory that is no partition (`ContentsOwned`); and no
set of nodes has all its parents in itself (`NoCycles`, which is what a move could break, and
is said of sets because a path would need a bound).

`TreeInv` says this of `db`, and of each attempt that it keeps `NodesOK` in every database that
agrees with what it has read (`Kept`, `Agree`), worked out from a snapshot that differs from
`db` only in `dirty` keys (`AttemptOK`). A commit with no dirty read is then correct whatever
others have done since (`CommitKeeps`), and it is here that the reads an operation makes
with a check have to be enough: those of the path for a creation, `ListedSubs` for a removal,
both paths for a move. There is a lemma for each kind of write (`VersionsKeep`, `ContentKeeps`,
`CreationKeeps`, `MoveKeeps`, `RemovalKeeps`) that starts from what is true of the database it is applied
to, and one for each operation that shows it writes just that (`CreateWrites`, `MoveWrites`,
`RemoveWrites`). The databases that a
behaviour starts from come about in the same way (`AfterIsOK`).

The second part goes from keys to places. `LevelsClose` is that a walk by levels in a finite
set finds everything within as many levels as there are nodes, which gives that a removal takes all that
is below (`Subtree`) and that `Places` misses nothing. By `PlacesFacts` a path leads to one
place, each place but the root has a parent, and every entry in a place leads to a place.
`AllReached` (every node is a place: else those that are not would be a cycle) gives
`NoOrphans`; `AllEnclosed` (a prefix that begins with another is of a directory inside the
partition that has the other) gives `PrefixesDisjoint`.

These proofs need induction over data: paths, levels, sequences of operations. The library's
induction theorems take an operator as a parameter, which no installed prover can instantiate,
but `WFMin` does not: with `NatLessThanWellFounded` it gives that a set of numbers that
is not empty has a least one (`Least`), and each induction looks at the least number for which
the claim fails. That a recursive function takes the values its definition says follows by
`Least` too, from the function that is cut off earlier (`WalkExists`, `DescentExists`, `LevelsExist`).

### Tuples

`TupleLayerProofs`: `OrderIsPreserved` (`OrderPreserved`), `RangesHoldWhatTheyMean`
(`RangesAreExact`) and `UnpackingReturnsThePacked` (`UnpackIsExact`), for tuples of any length of
nulls, strings of any bytes and integers of up to a byte more than this binding packs, any raw
prefixes, and any byte values, widths of integers and precisions of doubles. They rest on
`CodesAssumption` (the codes of integers collide neither with those of strings nor with FF),
`PrecisionAssumption` (integers shorter by a byte than the longest are exact in a double; those
longer than a double have at most twice its bits) and `TuplesAssumption`.

The first two are about single states, so that their invariant (`Typed`) is only that the tuples
are of items and the prefix of bytes. Two tuples are equal, part at an item, or one goes on from
the other. Where they part, the first item that differs decides (`Below`), whatever follows: by
its code, for integers by their length in the code and then by the bytes of the magnitude or
their complements, for strings by the first byte that differs. A string that goes on by a null byte is not decided
in itself: the key of the shorter has its terminator where that of the longer has 0 FF. It is
decided by what follows, since no item begins with FF (`Tame`). The same case is why a
range ends before FF (`RangeExact`).

`Unpacking` is the invariant of the third. Either the key is that of the items read and of others
that are still to come (`Reading`); or it is in the subspace by an accident of its bytes, no item
has been read and FF comes first (`Foreign`), which is refused. Each turn of the loop reads just
the next item: a terminator is found where the string has ended, because what follows does
not begin with FF; the null bytes come back without theirs; and the sum of an integer's bytes
is its magnitude, which is rounded to itself if a double holds it and to at least the power of
two that bounds the exact ones if not (`RoundedFacts`). Only the magnitude one above that power
is rounded onto it, which for a negative integer is the lowest that is exact; it is odd and the
lowest is even, and the test of `odd` tells them apart.

The recursive functions are shown to take the values their definitions say as in the directory
layer (`Recursion`, `SameValues`).

### What stays with TLC

- The refinement of the directory layer (`ImplementsTree`). Its invariant would be `TreeInv`, but
  each operation has to be compared with its abstract step on the places, after every pair of
  operations that can overlap.
- Directory layers with `AllowManualPrefixes`, of which only the run `dir_manual` speaks, and
  it refutes `PrefixesDisjoint`.
- All liveness: the prover has neither liveness under fairness nor ENABLED.
- Overlapping calls of `allocate`, for which the safety properties are false.

## 5. Findings

1. `hca_concurrent`: two calls of `allocate` that overlap in one transaction can get one
   prefix, since both read `recent[candidate]` before either sets it, and a transaction does
   not conflict with itself (`lib/directory.js` 117-120).
2. `dir_manual`: `isPrefixFree` of an allocated prefix reads through a snapshot
   (`lib/directory.js` 225), and the allocator's own checked reads are of contents and of
   *recent*, which a creation with a prefix given by hand does not write. If that one commits
   first, both commit, against the errors of lines 229 and 231. (A relative of it needs one
   call only: the prefix given by hand is tested before the missing parents are created and
   allocated theirs, lines 225 and 234, so a parent can be given the prefix of its child.)
3. `dir_version`: the error of line 435 says that a tree of a newer minor version is
   read-only, but it is thrown for operations that only read as well.

Properties that state what the code does where one might expect something else, and no doc
promises it: a future rejected with a falsy reason, by a handler that throws one or by `reject`,
reaches `all`, `race` and loops as a success (`CombinedFate`, `LoopIsExact`); `all` with a plain value in its list throws or is never
settled (`CombinedFate`); a partition's own `open` and `create` with an empty path answer as
for a root (`OwnRoot` in `DirectoryTree`).

## 6. Not modelled

- `DirectoryLayer`: objects kept after the transaction that opened them (a stale partition
  object writes nodes under a prefix that no path reaches); other combinations of operations in
  one transaction (two creations started together under a common missing parent can orphan a
  child); the conversion of paths (`toUnicodePath`); a content subspace chosen by the user.
- `RetryLoop`: functions whose reads run in parallel and that call back while some are under
  way; what an aborted attempt leaves running is the user's code, of which nothing is promised.
- `Future`: promises of other libraries, whose `then` may call back twice or at once.
- `NativeCallback`: the conversion of arguments, methods that only forward to `fdb_c`, and
  waiting again for a watch that has already told those who waited.
- `Locality`: `getAddressesForKey`, which is one native read in `doTransaction`.
- `TupleLayer`: truncated keys, strings that are no text (lone surrogates), items of other types.
- KeySelector (a record without behaviour), buffers, errors and the generated option tables.
- API selection, `open` and the network thread: synchronous start-up code. Below API version 23
  its caches are filled in callbacks, so that two calls of `open` at once make two clusters.

What would be proved next: `ImplementsTree` of the directory layer, from `TreeInv` and
`PlacesFacts`, one kind of write at a time.
