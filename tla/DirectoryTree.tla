----------------------------- MODULE DirectoryTree -----------------------------
(***************************************************************************)
(* What the directory layer promises: directories form one tree of paths,  *)
(* every operation reads or changes the whole tree in one step, and every  *)
(* directory has contents of its own, which follow it when it is moved and *)
(* vanish when it, or a directory above it, is removed.  A partition is a  *)
(* directory out of which, and into which, nothing can be moved.           *)
(*                                                                         *)
(* An identity is what a directory's contents are found by: its prefix.    *)
(***************************************************************************)
EXTENDS Sequences, SequencesExt

CONSTANTS
  Txns,       \* the calls, one operation each
  Ops,        \* the operations they may ask for: [kind, path, to, layer, via]
  Partition,  \* the layer of partitions
  NoLayer, None, Pending

VARIABLES
  tree,     \* path -> [id, layer], for every directory there is
  full,     \* the identities something has been written under
  outcome,  \* call -> Pending, or its operation and what it was answered
  unknown   \* call -> the operations it has done without knowing

tvars == <<tree, full, outcome, unknown>>

Exists(path) == path \in DOMAIN tree
IsRoot(path) == path = <<>>
Below(path) == {q \in DOMAIN tree : IsPrefix(path, q)}
Above(path) == {SubSeq(path, 1, i) : i \in 1 .. Len(path) - 1}
Parent(path) == SubSeq(path, 1, Len(path) - 1)
Ids(paths) == {tree[q].id : q \in paths}

\* The partitions a path lies in.
PartitionsOf(path) == {q \in Above(path) : Exists(q) /\ tree[q].layer = Partition}

\* The path at which what was at q is found when "from" has become "to".
Renamed(q, from, to) == to \o SubSeq(q, Len(from) + 1, Len(q))

IsMove(op) == op.kind \in {"move", "moveTo"}

\* Whatever there is already is one tree.
TInit ==
  /\ \A q \in DOMAIN tree :
       /\ ~IsRoot(q) /\ (Len(q) > 1 => Exists(Parent(q)))
       /\ \A r \in DOMAIN tree \ {q} : tree[r].id # tree[q].id
  /\ full \subseteq Ids(DOMAIN tree)
  /\ outcome = [t \in Txns |-> Pending]
  /\ unknown = [t \in Txns |-> <<>>]

\* A call is answered in the step it takes, unless it does not get to know the outcome
\* of its commit: then it asks for the same again.
Answer(t, op, result) ==
  \/ outcome' = [outcome EXCEPT ![t] = [op |-> op, result |-> result]] /\ UNCHANGED unknown
  \/ unknown' = [unknown EXCEPT ![t] = Append(@, op)] /\ UNCHANGED outcome

-----------------------------------------------------------------------------
(* The steps that change the tree.                                         *)

\* The directory, and every missing one above it, appears empty.
Create(t, op) ==
  LET missing == {q \in Above(op.path) \cup {op.path} : ~Exists(q)}
  IN /\ op.kind \in {"create", "createOrOpen"}
     /\ ~IsRoot(op.path) /\ ~Exists(op.path)
     /\ DOMAIN tree' = DOMAIN tree \cup missing
     /\ \A q \in DOMAIN tree : tree'[q] = tree[q]
     /\ \A q \in missing :
          /\ tree'[q].layer = IF q = op.path THEN op.layer ELSE NoLayer
          /\ tree'[q].id \notin Ids(DOMAIN tree) \cup full
          /\ \A r \in missing \ {q} : tree'[r].id # tree'[q].id
     /\ Answer(t, op, [directory |-> tree'[op.path].id])
     /\ UNCHANGED full

\* A transaction opens the directory and writes under its prefix.
Write(t, op) ==
  /\ op.kind = "write"
  /\ Exists(op.path) /\ tree[op.path].layer # Partition
  /\ full' = full \cup {tree[op.path].id}
  /\ Answer(t, op, [directory |-> tree[op.path].id])
  /\ UNCHANGED tree

RemoveAll(t, op) ==
  /\ op.kind \in {"remove", "removeIfExists"}
  /\ Exists(op.path)
  /\ tree' = [q \in DOMAIN tree \ Below(op.path) |-> tree[q]]
  /\ full' = full \ Ids(Below(op.path))
  /\ Answer(t, op, [done |-> TRUE])

Move(t, op) ==
  LET moved == {Renamed(q, op.path, op.to) : q \in Below(op.path)}
      old(q) == IF q \in moved THEN Renamed(q, op.to, op.path) ELSE q
  IN /\ IsMove(op)
     /\ Exists(op.path) /\ ~Exists(op.to) /\ ~IsPrefix(op.path, op.to)
     /\ ~IsRoot(op.to) /\ (Len(op.to) > 1 => Exists(Parent(op.to)))
     /\ PartitionsOf(op.path) = PartitionsOf(op.to)
     /\ tree' = [q \in (DOMAIN tree \ Below(op.path)) \cup moved |-> tree[old(q)]]
     /\ Answer(t, op, [directory |-> tree[op.path].id])
     /\ UNCHANGED full

-----------------------------------------------------------------------------
(* The steps that only read it.                                            *)

\* An operation on a directory below another, "via", needs that one to be there.  A
\* partition is, for those who ask the partition itself to open or create, a root.
Reached(op) == op.via = None \/ Exists(op.via)
OwnRoot(op) == op.via = op.path /\ Exists(op.path) /\ tree[op.path].layer = Partition

Compatible(op) == op.layer \in {NoLayer, tree[op.path].layer}

Open(t, op) ==
  /\ op.kind \in {"open", "createOrOpen"} /\ ~OwnRoot(op)
  /\ Exists(op.path) /\ Compatible(op)
  /\ Answer(t, op, [directory |-> tree[op.path].id])

List(t, op) ==
  /\ op.kind = "list"
  /\ IsRoot(op.path) \/ Exists(op.path)
  /\ LET inside == {q \in DOMAIN tree : Len(q) = Len(op.path) + 1 /\ IsPrefix(op.path, q)}
     IN Answer(t, op, [names |-> {Last(q) : q \in inside}])

Ask(t, op) ==
  /\ op.kind = "exists"
  /\ Answer(t, op, [done |-> IsRoot(op.path) \/ Exists(op.path)])

NothingToRemove(t, op) ==
  /\ op.kind = "removeIfExists"
  /\ ~IsRoot(op.path) /\ ~Exists(op.path)
  /\ Answer(t, op, [done |-> FALSE])

\* What an operation may be refused for.
Refused(op, why) ==
  CASE ~Reached(op) -> why = "missing"
    [] why = "root" -> \/ IsRoot(op.path) /\ op.kind \notin {"move", "list", "exists"}
                       \/ OwnRoot(op) /\ op.kind \in {"create", "createOrOpen", "open"}
    [] why = "missing" -> /\ ~IsRoot(op.path) /\ ~Exists(op.path)
                          /\ op.kind \notin {"create", "createOrOpen", "removeIfExists", "exists"}
    [] why = "exists" -> Exists(op.path) /\ op.kind = "create"
    [] why = "layer" -> Exists(op.path) /\ op.kind \in {"open", "createOrOpen"} /\ ~Compatible(op)
    [] why = "partition" -> op.kind = "write" /\ Exists(op.path) /\ tree[op.path].layer = Partition
    [] why = "subdirectory" -> IsMove(op) /\ IsPrefix(op.path, op.to)
    [] why = "destination" -> IsMove(op) /\ (IsRoot(op.to) \/ Exists(op.to))
    [] why = "parent" -> IsMove(op) /\ Len(op.to) > 1 /\ ~Exists(Parent(op.to))
    [] why = "between" -> IsMove(op) /\ PartitionsOf(op.path) # PartitionsOf(op.to)
    [] OTHER -> FALSE

Refuse(t, op) ==
  \E why \in {"root", "missing", "exists", "layer", "partition", "subdirectory",
              "destination", "parent", "between"} :
    Refused(op, why) /\ Answer(t, op, [error |-> why]) /\ UNCHANGED <<tree, full>>

Reading(t, op) ==
  /\ Open(t, op) \/ List(t, op) \/ Ask(t, op) \/ NothingToRemove(t, op)
  /\ UNCHANGED <<tree, full>>

\* The step is for this call and operation.
For(t, op) ==
  /\ outcome[t] = Pending /\ ToSet(unknown[t]) \subseteq {op}
  /\ IF unknown' = unknown THEN outcome'[t] # Pending /\ outcome'[t].op = op
                           ELSE unknown'[t] = Append(unknown[t], op)

TNext ==
  \E t \in Txns, op \in Ops :
    /\ For(t, op)
    /\ \/ Refuse(t, op)
       \/ /\ Reached(op)
          /\ Create(t, op) \/ Write(t, op) \/ RemoveAll(t, op) \/ Move(t, op) \/ Reading(t, op)

TreeSpec == TInit /\ [][TNext]_tvars
=============================================================================
