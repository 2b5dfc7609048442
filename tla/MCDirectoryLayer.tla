---------------------------- MODULE MCDirectoryLayer ----------------------------
(* Small instances of DirectoryLayer: the operations, and the databases they start *)
(* from, of each run.                                                              *)
EXTENDS DirectoryLayer

CONSTANTS
  a, b, leaf, Other,  \* three names and a layer
  t1, t2, t3          \* the calls

Op(kind, path) == [kind |-> kind, path |-> path, to |-> None, layer |-> NoLayer, prefix |-> None, via |-> None]
Layered(op, layer) == [op EXCEPT !.layer = layer]
Prefixed(op, prefix) == [op EXCEPT !.prefix = prefix]
MoveTo(path, to) == [Op("moveTo", path) EXCEPT !.to = to]
Via(op, via) == [op EXCEPT !.via = via]
MoveOp(path, to) == [Op("move", path) EXCEPT !.to = to]

\* Every operation, on paths of at most two names, without partitions and with one at a.
PairOps ==
  {Op(kind, path) : kind \in {"createOrOpen", "write", "remove"}, path \in {<<a>>, <<a, leaf>>}}
  \cup {Layered(Op("create", <<b>>), Other), Layered(Op("create", <<a>>), Partition),
        Op("createOrOpen", <<leaf>>), Op("createOrOpen", <<a, b>>), Op("open", <<b>>),
        Layered(Op("open", <<b>>), Partition), Op("removeIfExists", <<a, leaf>>),
        Op("list", <<a>>), Op("list", <<>>), Op("exists", <<a, leaf>>),
        MoveOp(<<a>>, <<b>>), MoveOp(<<a>>, <<b, leaf>>), MoveOp(<<b>>, <<a, leaf>>),
        MoveOp(<<a, leaf>>, <<b, leaf>>), MoveOp(<<a, leaf>>, <<a, b>>)}
PairEarlier ==
  {<<>>, <<Op("createOrOpen", <<b>>)>>,
   <<Op("createOrOpen", <<b>>), Op("createOrOpen", <<a, leaf>>), Op("write", <<a, leaf>>)>>,
   <<Layered(Op("create", <<a>>), Partition)>>,
   <<Layered(Op("create", <<a>>), Partition), Op("createOrOpen", <<b>>),
     Op("createOrOpen", <<a, leaf>>), Op("write", <<a, leaf>>)>>}

\* Operations that change the tree, for three calls at a time.
ThreeOps ==
  {Op("createOrOpen", <<a, leaf>>), Op("createOrOpen", <<b, leaf>>), Op("write", <<a, leaf>>),
   Op("remove", <<a>>), Op("remove", <<b>>), Layered(Op("createOrOpen", <<a>>), Partition),
   MoveOp(<<a>>, <<b, leaf>>), MoveOp(<<b>>, <<a, leaf>>), MoveOp(<<a, leaf>>, <<b, leaf>>)}
ThreeEarlier ==
  {<<Op("createOrOpen", <<b>>), Op("createOrOpen", <<a>>)>>,
   <<Op("createOrOpen", <<b>>), Layered(Op("create", <<a>>), Partition)>>}

\* Operations of directories, ordinary ones and partitions, one inside the other too.
ViaOps ==
  {Via(op, <<a>>) : op \in {Op("open", <<a>>), Op("remove", <<a>>), Op("list", <<a>>), Op("exists", <<a>>),
                            Op("createOrOpen", <<a, b>>), Op("exists", <<a, leaf>>),
                            MoveOp(<<a, leaf>>, <<a, b>>), MoveTo(<<a>>, <<b, leaf>>), MoveTo(<<a>>, <<b>>)}}
  \cup {Via(op, <<a, leaf>>) : op \in {Op("removeIfExists", <<a, leaf>>), Op("create", <<a, leaf, b>>),
                                       MoveTo(<<a, leaf>>, <<b>>), MoveTo(<<a, leaf>>, <<a, b>>)}}
  \cup {Op("createOrOpen", <<a>>), Op("write", <<a, leaf>>), Op("remove", <<a>>), MoveOp(<<a>>, <<b>>)}
ViaEarlier ==
  {<<Op("createOrOpen", <<a, leaf>>), Op("createOrOpen", <<b>>)>>,
   <<Layered(Op("create", <<a>>), Partition), Op("createOrOpen", <<a, leaf>>), Op("createOrOpen", <<b>>)>>,
   <<Layered(Op("create", <<a>>), Partition), Layered(Op("create", <<a, leaf>>), Partition)>>}

AllSettings ==
  {[ops |-> PairOps, callers |-> {t1, t2}, earlier |-> PairEarlier, unknowns |-> 1],
   [ops |-> ThreeOps, callers |-> {t1, t2, t3}, earlier |-> ThreeEarlier, unknowns |-> 0],
   [ops |-> ViaOps, callers |-> {t1, t2}, earlier |-> ViaEarlier, unknowns |-> 1]}

\* Allocated and manual prefixes at once.
RaceOps == {Op("create", <<a>>), Prefixed(Op("create", <<b>>), <<2>>), Op("write", <<a>>)}
RaceEarlier == {<<Op("createOrOpen", <<leaf>>)>>}
RaceSettings == {[ops |-> RaceOps, callers |-> {t1, t2}, earlier |-> RaceEarlier, unknowns |-> 0]}

VersionOps == {Op("createOrOpen", <<a>>), Op("open", <<a>>), Op("list", <<>>), Op("exists", <<a>>)}
VersionSettings == {[ops |-> VersionOps, callers |-> {t1}, earlier |-> RaceEarlier, unknowns |-> 0]}
MinorNewer == <<1, 1>>
=============================================================================
