------------------------------ MODULE StageGraph ------------------------------
(***************************************************************************)
(* The dependency graph of a pipeline's stages, as pure operators: the     *)
(* order topoSort computes and the levels computeLevels computes.  A graph *)
(* is a list of stage names in input order and a function from names to    *)
(* the sets of names they depend on.                                       *)
(***************************************************************************)
EXTENDS Listing

\* Every element comes after all its dependencies.
Respects(list, deps) ==
  \A k \in DOMAIN list : deps[list[k]] \subseteq {list[j] : j \in 1 .. k - 1}

\* One pass of topoSort over the input: append what has become ready so far.
Pass(list, deps, start) ==
  LET upto[k \in 0 .. Len(list)] ==
        IF k = 0 THEN start
        ELSE LET prev == upto[k - 1]
                 n    == list[k]
             IN  IF n \notin MemberOf(prev) /\ deps[n] \subseteq MemberOf(prev)
                 THEN Append(prev, n)
                 ELSE prev
  IN  upto[Len(list)]

\* Passes until nothing is added; Len(list) of them are enough.
TopoOrder(list, deps) ==
  LET after[k \in 0 .. Len(list)] ==
        IF k = 0 THEN <<>>
        ELSE LET prev == after[k - 1] IN Pass(list, deps, prev)
  IN  after[Len(list)]

\* One level more than those in lvls of a stage's dependencies.
Above(lvls) == 1 + (CHOOSE b \in {0} \union lvls : \A c \in lvls : c <= b)

\* The levels of the stages of an order, counted from one.
LevelMap(order, deps) ==
  LET lvl[k \in 1 .. Len(order)] ==
        Above({lvl[j] : j \in {j \in 1 .. k - 1 : order[j] \in deps[order[k]]}})
  IN  lvl

\* The levels: each lists its stages in the run order.
LevelsOf(order, deps) ==
  LET lvl    == LevelMap(order, deps)
      height == Above(MemberOf(lvl)) - 1
      at(n)  == lvl[FirstIndex(order, {n})]
  IN  [l \in 1 .. height |-> Kept(order, {n \in MemberOf(order) : at(n) = l})]

\* A pipeline that a run can start from: the order respects the dependencies;
\* the levels, unless it is sequential, partition its stages, none of them empty,
\* and put what a stage depends on in earlier ones.
WellFormed(q, names) ==
  /\ q.ordered \in Seq(names) /\ NoRepeats(q.ordered)
  /\ q.deps \in [names -> SUBSET names] /\ Respects(q.ordered, q.deps)
  /\ q.maxParallel \in Int
  /\ q.levels \in Seq(Seq(names))
  /\ q.maxParallel # 0 =>
       /\ \A l \in DOMAIN q.levels :
            /\ q.levels[l] # <<>> /\ NoRepeats(q.levels[l])
            /\ \A n \in MemberOf(q.levels[l]) :
                 q.deps[n] \subseteq UNION {MemberOf(q.levels[m]) : m \in 1 .. l - 1}
       /\ \A l, m \in DOMAIN q.levels :
            l # m => MemberOf(q.levels[l]) \cap MemberOf(q.levels[m]) = {}
       /\ MemberOf(q.ordered) = UNION {MemberOf(q.levels[l]) : l \in DOMAIN q.levels}
=============================================================================
