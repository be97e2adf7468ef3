---------------------------- MODULE MCPipelineRun ----------------------------
(* Small instances of PipelineRun: every pipeline of three stages.           *)
EXTENDS PipelineRun

Built(list, deps, n) ==
  LET order == TopoOrder(list, deps)
  IN  [ordered |-> order, deps |-> deps, maxParallel |-> n,
       levels |-> IF n = 0 THEN <<>> ELSE LevelsOf(order, deps)]

Three == {"a", "b", "c"}
ThreeList == <<"a", "b", "c">>

\* Names are interchangeable: up to renaming, every pipeline of three stages has
\* the run order a, b, c and one of these dependency graphs.
ThreeGraphs == {deps \in [Three -> SUBSET Three] : Respects(ThreeList, deps)}

MCThree ==
  {Built(ThreeList, deps, n) : deps \in ThreeGraphs, n \in {0, -1, 1, 2}}
    \union {Built(<<>>, [s \in Three |-> {}], n) : n \in {0, -1}}
=============================================================================
