----------------------------- MODULE DirectoryLayer -----------------------------
(***************************************************************************)
(* The directory layer of lib/directory.js on the keys it keeps, with the  *)
(* directories of a partition in the node subspace of the partition.       *)
(*                                                                         *)
(* Every call is one operation in a transaction of its own, asked of the   *)
(* root layer, or of a directory that is opened first.  All reads of       *)
(* an attempt are of one snapshot, so the attempt is one action, which     *)
(* works out what it reads, writes and answers; its commit is another, and *)
(* fails if another call has written what was read without "snapshot".     *)
(* A call that does not get to know the outcome of its commit tries again. *)
(*                                                                         *)
(* A directory layer is named by its content prefix, <<>> for the root; a  *)
(* node by its layer and the prefix it stands for; a prefix is a sequence. *)
(* The allocator hands out any number that it has not handed out before,   *)
(* which is what HighContentionAllocator shows.                            *)
(***************************************************************************)
EXTENDS Integers, Sequences, FiniteSets, SequencesExt, Functions

CONSTANTS
  Txns,          \* the calls
  Settings,      \* what may go on, records of
                 \*   ops      the operations asked for: [kind, path, to, layer, prefix, via]
                 \*   callers  the calls that are made
                 \*   earlier  the sequences of operations that may have been done before
                 \*   unknowns bound: commits applied whose outcome is not known
  AllowManualPrefixes,   \* options.allowManualPrefixes of the root layer
  StoredVersion, \* the version another client has left, or None
  MaxAlloc,      \* bound: numbers one allocator hands out
  Names,         \* the names of directories
  Partition,     \* the layer 'partition'
  NoLayer, None, Pending

ASSUME AllocAssumption == MaxAlloc \in Nat \ {0}
ASSUME ManualAssumption == AllowManualPrefixes \in BOOLEAN
\* A missing key is told apart from what is stored, asked for or answered.
ASSUME NoneAssumption ==
  /\ None \notin Seq(Names) \cup Seq(Nat) \cup {Partition}
  /\ NoLayer # Partition

VARIABLES
  setting,   \* which of Settings this is; never changed
  db,        \* key -> value, for the keys present
  call,      \* call -> its operation, or None before its first attempt
  attempt,   \* call -> what its attempt has read, is to write and to answer, or None
  dirty,     \* call -> keys written by others since the attempt's snapshot
  places,    \* derived from db: the directories that can be reached, and the root
  outcome,   \* call -> Pending, or its operation and what it was answered
  unknown    \* call -> the operations it has done without knowing

vars == <<setting, db, call, attempt, dirty, places, outcome, unknown>>

VERSION == <<1, 0>>
Root == <<>>
Ops == UNION {s.ops \cup UNION {ToSet(ops) : ops \in s.earlier} : s \in Settings}

\* What can be asked for: a path for every operation, another for a move, and for an
\* operation of a directory the path of that one, which its own paths go on from.
WellFormed(op) ==
  /\ op.kind \in {"create", "createOrOpen", "open", "write", "remove", "removeIfExists",
                   "move", "moveTo", "list", "exists"}
  /\ op.path \in Seq(Names)
  /\ IF op.kind \in {"move", "moveTo"} THEN op.to \in Seq(Names) ELSE op.to = None
  /\ op.via # None =>
       /\ op.via \in Seq(Names) /\ IsPrefix(op.via, op.path)
       /\ op.kind = "move" => IsPrefix(op.via, op.to)
       /\ op.kind = "moveTo" => op.path = op.via

ASSUME OpsAssumption ==
  \A s \in Settings : /\ \A op \in s.ops : op # None /\ WellFormed(op)
                      /\ \A ops \in s.earlier :
                           ops \in Seq(ToSet(ops)) /\ \A op \in ToSet(ops) : WellFormed(op)

-----------------------------------------------------------------------------
(* Keys.  The byte of a node subspace comes after those of the allocator.  *)

RootPrefix(c) == Append(c, MaxAlloc + 1)
SubKey(c, p, name) == <<"sub", c, p, name>>
LayerKey(c, p) == <<"layer", c, p>>
VersionKey(c) == <<"version", c>>
RecentKey(c, n) == <<"recent", c, n>>
ContentKey(p) == <<"content", p>>

Get(d, key) == IF key \in DOMAIN d THEN d[key] ELSE None

\* What is put over what is there.
Over(f, g) == [k \in DOMAIN f \cup DOMAIN g |-> IF k \in DOMAIN f THEN f[k] ELSE g[k]]

\* The key, whatever it is for, begins with the prefix.
StartsWith(key, prefix) ==
  IsPrefix(prefix, IF key[1] = "content" THEN key[2] ELSE RootPrefix(key[2]))

\* The order of prefixes as byte strings.
Before(p, q) ==
  \/ IsStrictPrefix(p, q)
  \/ \E i \in DOMAIN p \cap DOMAIN q : p[i] < q[i] /\ \A j \in 1 .. i - 1 : p[j] = q[j]

\* The ranges that are read and cleared.
SubsOf(c, p) == <<"subs of", c, p>>
NodeOf(c, p) == <<"node", c, p>>
AllAt(prefix) == <<"all at", prefix>>
NodesFrom(c, p, q) == <<"nodes from", c, p, q>>  \* and those that begin with q

InRange(key, r) ==
  \/ key = r
  \/ r[1] = "all at" /\ StartsWith(key, r[2])
  \/ r[1] = "subs of" /\ key[1] = "sub" /\ key[2] = r[2] /\ key[3] = r[3]
  \/ r[1] = "node" /\ key[1] \in {"sub", "layer"} /\ key[2] = r[2] /\ key[3] = r[3]
  \/ /\ r[1] = "nodes from" /\ key[1] \in {"sub", "layer"} /\ key[2] = r[2]
     /\ key[3] = r[3] \/ (Before(r[3], key[3]) /\ ~Before(r[4], key[3])) \/ IsPrefix(r[4], key[3])

InSome(key, ranges) == \E r \in ranges : InRange(key, r)

-----------------------------------------------------------------------------
(* Finding a directory.                                                    *)

IsPartition(d, c, p) == Get(d, LayerKey(c, p)) = Partition

FindUnchecked(d, c, path) ==  \* mutant: the directories are looked up with tr.snapshot
  LET walk[i \in 0 .. Len(path)] ==
        IF i = 0 THEN [prefix |-> RootPrefix(c), depth |-> 0]
        ELSE LET node == walk[i - 1]
             IN IF node.prefix = None \/ IsPartition(d, c, node.prefix) THEN node
                ELSE [prefix |-> Get(d, SubKey(c, node.prefix, path[i])), depth |-> i]
  IN [prefix |-> walk[Len(path)].prefix, depth |-> walk[Len(path)].depth, reads |-> {}]

\* find and loadMetadata: the node of the path, or the partition the path leads
\* into, or None where the path breaks off; and how far along the path that is.
WalkStart(c) == [prefix |-> RootPrefix(c), depth |-> 0, reads |-> {}]
WalkStep(d, c, node, i, name) ==
  LET key == SubKey(c, node.prefix, name)
      found == Get(d, key)
  IN IF node.prefix = None \/ IsPartition(d, c, node.prefix) THEN node
     ELSE [prefix |-> found, depth |-> i, reads |-> node.reads \cup {key, LayerKey(c, found)}]
Walk(d, c, path) ==
  LET walk[i \in 0 .. Len(path)] ==
        IF i = 0 THEN WalkStart(c) ELSE WalkStep(d, c, walk[i - 1], i, path[i])
  IN walk
Find(d, c, path) == Walk(d, c, path)[Len(path)]

InPartition(d, c, node, path) ==
  node.prefix # None /\ IsPartition(d, c, node.prefix) /\ node.depth < Len(path)

From(path, depth) == SubSeq(path, depth + 1, Len(path))
Parent(path) == SubSeq(path, 1, Len(path) - 1)

\* An operation on a path into a partition is handed to the layer of the partition,
\* with what remains of the path, and of the second path of a move if it leads there too.
EnterStart(c, path, to) ==
  [c |-> c, path |-> path, to |-> to, layers |-> {c}, reads |-> {VersionKey(c)}]
EnterStep(d, here) ==
  LET node == Find(d, here.c, here.path)
      other == Find(d, here.c, here.to)
      both == \/ here.to = None
              \/ /\ InPartition(d, here.c, other, here.to)
                 /\ SubSeq(here.to, 1, other.depth) = SubSeq(here.path, 1, node.depth)
  IN IF InPartition(d, here.c, node, here.path) /\ both
     THEN [c |-> node.prefix, path |-> From(here.path, node.depth),
           to |-> IF here.to = None THEN None ELSE From(here.to, other.depth),
           layers |-> here.layers \cup {node.prefix},
           reads |-> here.reads \cup node.reads \cup {VersionKey(node.prefix)}
                     \cup (IF here.to = None THEN {} ELSE other.reads)]
     ELSE here
Entering(d, c, path, to) ==
  LET at[i \in 0 .. Len(path)] ==
        IF i = 0 THEN EnterStart(c, path, to) ELSE EnterStep(d, at[i - 1])
  IN at
Enter(d, c, path, to) == Entering(d, c, path, to)[Len(path)]

\* checkVersion: an older major or minor version is refused.
TooNew(d, c) ==
  LET v == Get(d, VersionKey(c)) IN v # None /\ (v[1] > VERSION[1] \/ v[2] > VERSION[2])

\* initializeDirectory, in every layer that is about to be written to.
Versions(d, layers) == [k \in {VersionKey(c) : c \in layers} \ DOMAIN d |-> VERSION]

-----------------------------------------------------------------------------
(* What an attempt comes to.                                               *)

NoWrites == <<>>
Reply(result, reads) == [result |-> result, reads |-> reads, puts |-> NoWrites, clears |-> {}]
Fail(why) == Reply([error |-> why], {})

\* isPrefixFree, in two reads: the last node before the prefix, whose prefix it may
\* begin with, and the nodes that begin with the prefix.
Nodes(d, c) == {k[3] : k \in {l \in DOMAIN d : l[1] \in {"sub", "layer"} /\ l[2] = c}}
Previous(d, c, prefix) ==
  {p \in Nodes(d, c) : Before(p, prefix) /\ \A q \in Nodes(d, c) : Before(q, prefix) => ~Before(p, q)}

isPrefixFree(d, c, prefix) ==
  /\ prefix # <<>>
  /\ ~IsPrefix(RootPrefix(c), prefix)
  /\ \A p \in Previous(d, c, prefix) : ~IsPrefix(p, prefix)
  /\ \A q \in Nodes(d, c) : ~IsPrefix(prefix, q)

NodesRead(d, c, prefix) ==
  {NodesFrom(c, IF Previous(d, c, prefix) = {} THEN <<>> ELSE p, prefix) :
     p \in Previous(d, c, prefix) \cup {<<>>}}

\* getPrefix: the number is recorded, and the keys under it are read.
AllocatedUnchecked(c, n) == {AllAt(Append(c, n))}  \* mutant: recent[n] is not checked
Allocated(c, n) == {RecentKey(c, n), AllAt(Append(c, n))}

\* createDirectory: the directory, and its missing parents by createOrOpen of each.
\* The allocator of layer c has handed out a number for each of them, or for all but
\* the last, which is given the prefix asked for.
NewPrefix(at, op, n, i) == IF i \in DOMAIN n THEN Append(at.c, n[i]) ELSE op.prefix
NewParent(d, at, op, node, n, i) ==
  IF i = node.depth THEN Find(d, at.c, SubSeq(at.path, 1, i - 1)).prefix ELSE NewPrefix(at, op, n, i - 1)
NewSub(d, at, op, node, n, i) == SubKey(at.c, NewParent(d, at, op, node, n, i), at.path[i])
NewKeys(d, at, op, node, n) ==
  LET depths == node.depth .. Len(at.path)
  IN [k \in {NewSub(d, at, op, node, n, i) : i \in depths}
            \cup {LayerKey(at.c, NewPrefix(at, op, n, i)) : i \in depths}
            \cup {RecentKey(at.c, n[i]) : i \in DOMAIN n} |->
        CASE k[1] = "sub" -> NewPrefix(at, op, n, CHOOSE i \in depths : NewSub(d, at, op, node, n, i) = k)
          [] k[1] = "layer" -> IF k[3] = NewPrefix(at, op, n, Len(at.path)) THEN op.layer ELSE NoLayer
          [] OTHER -> TRUE]

CreateWith(d, at, op, node, n) ==
  LET c == at.c
      depths == node.depth .. Len(at.path)
      prefix(i) == NewPrefix(at, op, n, i)
  IN IF \E i \in DOMAIN n : \E k \in DOMAIN d : StartsWith(k, prefix(i)) THEN Fail("keys at prefix")
     ELSE IF \E i \in depths : ~isPrefixFree(d, c, prefix(i)) THEN Fail("prefix in use")
     ELSE [result |-> [directory |-> prefix(Len(at.path))],
           reads |-> at.reads \cup node.reads
                     \cup UNION {Allocated(c, n[i]) : i \in DOMAIN n}
                     \cup UNION {NodesRead(d, c, prefix(i)) : i \in depths \ DOMAIN n},
           puts |-> Over(NewKeys(d, at, op, node, n), Versions(d, {c})),
           clears |-> {}]

Create(d, at, op, node) ==
  LET depths == IF op.prefix = None THEN node.depth .. Len(at.path) ELSE node.depth .. Len(at.path) - 1
      free == {n \in 1 .. MaxAlloc : RecentKey(at.c, n) \notin DOMAIN d}
  IN {CreateWith(d, at, op, node, n) : n \in {f \in [depths -> free] : IsInjective(f)}}

\* Every operation is given the layer it is handed to (at), and the node its path
\* leads to there.
createOrOpen(d, op, at, node) ==
  LET mayCreate == op.kind \in {"create", "createOrOpen"}
      manual == op.prefix # None
      layer == Get(d, LayerKey(at.c, node.prefix))
  IN IF manual /\ (op.kind = "createOrOpen" \/ ~AllowManualPrefixes \/ at.c # Root) THEN {Fail("manual prefix")}
     ELSE IF at.path = <<>> THEN {Fail("root")}
     ELSE IF node.prefix = None THEN IF mayCreate THEN Create(d, at, op, node) ELSE {Fail("missing")}
     ELSE IF op.kind = "create" THEN {Fail("exists")}
     ELSE IF op.layer \notin {NoLayer, layer} THEN {Fail("layer")}
     ELSE {Reply([directory |-> node.prefix], at.reads \cup node.reads)}

\* A transaction that opens a directory and sets the key pack([]) of it, which the
\* object of a partition refuses.
Write(d, op, at, node) ==
  IF node.prefix # None /\ at.path # <<>> /\ IsPartition(d, at.c, node.prefix) THEN {Fail("partition")}
  ELSE {IF "error" \in DOMAIN r.result THEN r
        ELSE [r EXCEPT !.puts = [k \in {ContentKey(node.prefix)} |-> TRUE]] :
          r \in createOrOpen(d, op, at, node)}

\* removeRecursive: the directories under a node, those of a partition being under
\* its contents and not under its node.
SubsIn(d, c) == {k \in DOMAIN d : k[1] = "sub" /\ k[2] = c}
Children(d, c, ps) == {d[k] : k \in {l \in SubsIn(d, c) : l[3] \in ps}}
Descent(d, c, p) ==
  LET under[i \in 0 .. Cardinality(SubsIn(d, c))] == IF i = 0 THEN {p} ELSE Children(d, c, under[i - 1])
  IN under
Subtree(d, c, p) == LET under == Descent(d, c, p) IN UNION {under[i] : i \in DOMAIN under}

RemovedNodeOnly(c, doomed) == {NodeOf(c, p) : p \in doomed}  \* mutant: the contents are left
Removed(c, doomed) == {NodeOf(c, p) : p \in doomed} \cup {AllAt(p) : p \in doomed}

RemovedSubs(c, doomed) == {}  \* mutant: the subdirectories are listed with tr.snapshot
ListedSubs(c, doomed) == {SubsOf(c, p) : p \in doomed}

\* removeFromParent
LeftInParent(c, parent, name) == {}  \* mutant: it is forgotten
ClearedFromParent(c, parent, name) == {SubKey(c, parent, name)}

removeInternal(d, op, at, node) ==
  LET parent == Find(d, at.c, Parent(at.path))
      doomed == Subtree(d, at.c, node.prefix)
  IN IF at.path = <<>> THEN {Fail("root")}
     ELSE IF node.prefix = None
     THEN IF op.kind = "remove" THEN {Fail("missing")}
          ELSE {[Reply([done |-> FALSE], at.reads \cup node.reads) EXCEPT !.puts = Versions(d, at.layers)]}
     ELSE {[result |-> [done |-> TRUE],
            reads |-> at.reads \cup node.reads \cup ListedSubs(at.c, doomed),
            puts |-> Versions(d, at.layers),
            clears |-> Removed(at.c, doomed)
                       \cup ClearedFromParent(at.c, parent.prefix, Last(at.path))]}

MovedNewNode(old, new) == new.prefix  \* mutant: the wrong node is unpacked
MovedPrefix(old, new) == old.prefix

Move(d, op, at, old) ==
  LET new == Find(d, at.c, at.to)
      oldParent == Find(d, at.c, Parent(at.path))
      newParent == Find(d, at.c, Parent(at.to))
  IN IF IsPrefix(op.path, op.to) THEN {Fail("subdirectory")}
     ELSE IF old.prefix = None THEN {Fail("missing")}
     ELSE IF InPartition(d, at.c, old, at.path) \/ InPartition(d, at.c, new, at.to) THEN {Fail("between")}
     ELSE IF new.prefix # None THEN {Fail("destination")}
     ELSE IF newParent.prefix = None THEN {Fail("parent")}
     ELSE {[result |-> [directory |-> old.prefix],
            reads |-> at.reads \cup old.reads \cup new.reads,
            puts |-> Over([k \in {SubKey(at.c, newParent.prefix, Last(at.to))} |-> MovedPrefix(old, new)],
                          Versions(d, at.layers)),
            clears |-> ClearedFromParent(at.c, oldParent.prefix, Last(at.path))]}

\* list: a path that is a partition leads into it, and its layer is asked for its root.
List(d, at, node) ==
  LET inside == node.prefix # None /\ IsPartition(d, at.c, node.prefix)
      layer == IF inside THEN node.prefix ELSE at.c
      parent == IF inside THEN RootPrefix(layer) ELSE node.prefix
      subs == {k \in DOMAIN d : k[1] = "sub" /\ k[2] = layer /\ k[3] = parent}
  IN IF node.prefix = None THEN {Fail("missing")}
     ELSE IF TooNew(d, layer) THEN {Fail("version")}
     ELSE {Reply([names |-> {k[4] : k \in subs}],
                 at.reads \cup node.reads \cup {VersionKey(layer), SubsOf(layer, parent)})}

Exists(at, node) == {Reply([done |-> node.prefix # None], at.reads \cup node.reads)}

Dispatch(d, op, at, node) ==
  IF \E l \in at.layers : TooNew(d, l) THEN {Fail("version")}
  ELSE CASE op.kind \in {"create", "createOrOpen", "open"} -> createOrOpen(d, op, at, node)
         [] op.kind = "write" -> Write(d, op, at, node)
         [] op.kind \in {"remove", "removeIfExists"} -> removeInternal(d, op, at, node)
         [] op.kind \in {"move", "moveTo"} -> Move(d, op, at, node)
         [] op.kind = "list" -> List(d, at, node)
         [] op.kind = "exists" -> Exists(at, node)

AttemptsAt(d, op, c, path, to) ==
  LET at == Enter(d, c, path, to) IN Dispatch(d, op, at, Find(d, at.c, at.path))

-----------------------------------------------------------------------------
(* Operations of a DirectorySubspace or a DirectoryPartition.              *)

\* contentsOfNode: the layer that the object of the directory at an absolute path uses,
\* and the path it has there.  A partition uses its own, and that of its parent too.
Contents(d, path) ==
  LET at == Enter(d, Root, path, None)
      node == Find(d, at.c, at.path)
      parent == [c |-> at.c, path |-> at.path]
  IN [parent |-> parent,
      own |-> IF IsPartition(d, at.c, node.prefix) THEN [c |-> node.prefix, path |-> <<>>] ELSE parent]

\* getLayerForPath: what is asked of a partition itself is for the parent's layer;
\* only some of the operations look.
LayerForPath(dir, op) ==
  IF op.kind \in {"remove", "removeIfExists", "exists", "moveTo"} /\ op.path = op.via
    THEN dir.parent ELSE dir.own

\* partitionSubpath, and moveTo's path, which is absolute and has to be in the layer.
Subpath(layer, op, path) == layer.path \o From(path, Len(op.via))
LayerPath(layer, op) == SubSeq(op.via, 1, Len(op.via) - Len(layer.path))

AttemptsVia(d, op, layer) ==
  LET path == Subpath(layer, op, op.path)
      base == LayerPath(layer, op)
  IN IF op.to = None THEN AttemptsAt(d, op, layer.c, path, None)
     ELSE IF op.kind = "move" THEN AttemptsAt(d, op, layer.c, path, Subpath(layer, op, op.to))
     ELSE IF ~IsPrefix(base, op.to) THEN {Fail("between")}
     ELSE AttemptsAt(d, op, layer.c, path, From(op.to, Len(base)))

\* The function opens the directory, if the operation is one of a directory's, and
\* goes on in the same transaction.
Attempts(d, op) ==
  IF op.via = None THEN AttemptsAt(d, op, Root, op.path, op.to)
  ELSE LET open == [kind |-> "open", path |-> op.via, to |-> None, layer |-> NoLayer,
                    prefix |-> None, via |-> None]
       IN UNION {IF "error" \in DOMAIN r.result THEN {r}
                 ELSE {[a EXCEPT !.reads = @ \cup r.reads] :
                         a \in AttemptsVia(d, op, LayerForPath(Contents(d, op.via), op))} :
                   r \in AttemptsAt(d, open, Root, op.via, None)}

-----------------------------------------------------------------------------
(* The tree.                                                               *)

\* The directories there are, each with its path, and the layer and the prefix of
\* its node, and the root.
Place(path, c, p) == [path |-> path, c |-> c, prefix |-> p]
Inside(d, x) == IF IsPartition(d, x.c, x.prefix) THEN [c |-> x.prefix, prefix |-> RootPrefix(x.prefix)]
                ELSE [c |-> x.c, prefix |-> x.prefix]
Subs(d) == {k \in DOMAIN d : k[1] = "sub"}
Within(d, x) == {k \in Subs(d) : k[2] = Inside(d, x).c /\ k[3] = Inside(d, x).prefix}
Below(d, x) == {Place(Append(x.path, k[4]), k[2], d[k]) : k \in Within(d, x)}

RootPlace == Place(<<>>, Root, RootPrefix(Root))
Levels(d) ==
  LET level[i \in 0 .. Cardinality(Subs(d))] ==
        IF i = 0 THEN {RootPlace} ELSE UNION {Below(d, x) : x \in level[i - 1]}
  IN level
Places(d) == LET level == Levels(d) IN UNION {level[i] : i \in DOMAIN level}

-----------------------------------------------------------------------------
(* Transactions.                                                           *)

ReadOnly(a) == a.puts = NoWrites /\ a.clears = {}

Cleared(d, ranges) == Restrict(d, {k \in DOMAIN d : ~InSome(k, ranges)})
Written(d, a) == Over(a.puts, Cleared(d, a.clears))
Changed(d, a) == DOMAIN a.puts \cup {k \in DOMAIN d : InSome(k, a.clears)}

Finish(t, result) == outcome' = [outcome EXCEPT ![t] = [op |-> call'[t], result |-> result]]

\* An attempt: its reads and what the function makes of them.  An error, and an
\* attempt with nothing to write, end the call here.
Attempt(t) ==
  /\ t \in setting.callers
  /\ outcome[t] = Pending /\ attempt[t] = None
  /\ \E op \in setting.ops :
       /\ call[t] \in {None, op}
       /\ call' = [call EXCEPT ![t] = op]
       /\ \E a \in Attempts(db, op) :
            IF ReadOnly(a)
            THEN Finish(t, a.result) /\ UNCHANGED <<db, attempt, dirty, places, unknown>>
            ELSE /\ attempt' = [attempt EXCEPT ![t] = a]
                 /\ UNCHANGED <<db, dirty, places, outcome, unknown>>

Conflict(t) == \E k \in dirty[t] : InSome(k, attempt[t].reads)

EndAttempt(t) == attempt' = [attempt EXCEPT ![t] = None]

Apply(t) ==
  /\ db' = Written(db, attempt[t])
  /\ places' = Places(db')
  /\ dirty' = [u \in Txns |-> IF u = t \/ attempt[u] = None THEN {}
                              ELSE dirty[u] \cup Changed(db, attempt[t])]

Commit(t) ==
  /\ attempt[t] # None /\ ~Conflict(t)
  /\ Apply(t)
  /\ UNCHANGED <<call, unknown>>
  /\ Finish(t, attempt[t].result)
  /\ EndAttempt(t)

\* commit_unknown_result: applied or not, the function is run again.
CommitUnknown(t) ==
  /\ attempt[t] # None /\ ~Conflict(t)
  /\ \/ /\ MapThenSumSet(LAMBDA u : Len(unknown[u]), Txns) < setting.unknowns
        /\ Apply(t)
        /\ unknown' = [unknown EXCEPT ![t] = Append(@, call[t])]
     \/ dirty' = [dirty EXCEPT ![t] = {}] /\ UNCHANGED <<db, places, unknown>>
  /\ EndAttempt(t)
  /\ UNCHANGED <<call, outcome>>

CommitConflict(t) ==
  /\ attempt[t] # None /\ Conflict(t)
  /\ dirty' = [dirty EXCEPT ![t] = {}]
  /\ EndAttempt(t)
  /\ UNCHANGED <<db, call, places, outcome, unknown>>

-----------------------------------------------------------------------------

\* The databases left by operations done one after the other; one for which the
\* allocator has no number left is not done.
EmptyDb == IF StoredVersion = None THEN <<>> ELSE [k \in {VersionKey(Root)} |-> StoredVersion]
Done(d, op) == IF Attempts(d, op) = {} THEN d ELSE Written(d, CHOOSE a \in Attempts(d, op) : TRUE)
After(ops) ==
  LET after[i \in 0 .. Len(ops)] == IF i = 0 THEN EmptyDb ELSE Done(after[i - 1], ops[i])
  IN after[Len(ops)]

Init ==
  /\ setting \in Settings
  /\ db \in {After(ops) : ops \in setting.earlier}
  /\ places = Places(db)
  /\ call = [t \in Txns |-> None]
  /\ attempt = [t \in Txns |-> None]
  /\ dirty = [t \in Txns |-> {}]
  /\ outcome = [t \in Txns |-> Pending]
  /\ unknown = [t \in Txns |-> <<>>]

Next ==
  /\ \E t \in Txns : Attempt(t) \/ Commit(t) \/ CommitConflict(t) \/ CommitUnknown(t)
  /\ UNCHANGED setting

Spec == Init /\ [][Next]_vars

-----------------------------------------------------------------------------
(* Properties.                                                             *)

Directories == {x \in places : x.path # <<>>}
Partitions == {x \in Directories : IsPartition(db, x.c, x.prefix)}
NodesAt(these) == {<<x.c, x.prefix>> : x \in these}

\* Type correctness: what is stored where, and an attempt that has something to commit.
TypeOK ==
  /\ \A k \in DOMAIN db :
       /\ k[1] \in {"sub", "layer", "version", "recent", "content"}
       /\ k[1] = "sub" => db[k] \in Seq(1 .. MaxAlloc)
       /\ k[1] = "layer" => db[k] \in {NoLayer, Partition} \cup {op.layer : op \in Ops}
  /\ \A t \in Txns :
       /\ call[t] \in setting.ops \cup {None}
       /\ attempt[t] # None => call[t] # None /\ outcome[t] = Pending /\ ~ReadOnly(attempt[t])
       /\ dirty[t] # {} => attempt[t] # None
       /\ outcome[t] # Pending => outcome[t].op = call[t]

\* The nodes that are stored are those of the directories that can be reached from
\* the root, and each is reached by one path: neither a removal beside a creation
\* under it nor two moves lose a directory or give it two names.
NoOrphans ==
  LET dirs == Directories
  IN /\ {<<k[2], k[3]>> : k \in {l \in DOMAIN db : l[1] = "layer"}} = NodesAt(dirs)
     /\ \A x, y \in dirs : x.prefix = y.prefix => x = y
     /\ \A k \in DOMAIN db : k[1] = "sub" => \/ <<k[2], k[3]>> \in NodesAt(places)
                                            \/ k[3] = RootPrefix(k[2])

\* The contents of two directories cannot mix (createDirectory, "already in use"
\* and "conflict with the automatic prefix allocator"): no prefix begins with that
\* of another directory, unless that is a partition it lies in.
PrefixesDisjoint ==
  \A x, y \in Directories :
    (x # y /\ IsPrefix(x.prefix, y.prefix)) => x \in Partitions /\ IsStrictPrefix(x.path, y.path)

\* A removal leaves nothing of what it removes, whoever writes to it meanwhile:
\* contents are those of a directory, and nodes, versions and the allocator's
\* records those of the root layer or of a partition there is.
NothingLeft ==
  LET partitions == {x.prefix : x \in Partitions}
      prefixes == {x.prefix : x \in Directories}
  IN \A k \in DOMAIN db : IF k[1] = "content" THEN k[2] \in prefixes \ partitions
                         ELSE k[2] \in partitions \cup {Root}

\* Every operation is one step on one tree of directories with contents of their
\* own, whatever runs beside it, and is answered as that step would have it.
Tree ==
  [q \in {x.path : x \in Directories} |->
     LET x == CHOOSE y \in places : y.path = q
     IN [id |-> x.prefix, layer |-> Get(db, LayerKey(x.c, x.prefix))]]

T == INSTANCE DirectoryTree WITH
       tree <- Tree, full <- {k[2] : k \in {l \in DOMAIN db : l[1] = "content"}}

ImplementsTree == T!TreeSpec

\* "Directory with version ... is read-only when opened using directory layer ...":
\* a newer minor version refuses no operation that only reads.
ReadOnlyIsReadable ==
  \A t \in Txns : (/\ outcome[t] # Pending
                   /\ outcome[t].op.kind \in {"open", "list", "exists"}
                   /\ Get(db, VersionKey(Root)) # None
                   /\ Get(db, VersionKey(Root))[1] = VERSION[1])
                  => outcome[t].result # [error |-> "version"]
=============================================================================
