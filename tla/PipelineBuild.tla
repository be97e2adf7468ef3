---------------------------- MODULE PipelineBuild ----------------------------
(***************************************************************************)
(* pipe.NewPipeline: the construction of a Pipeline from a slice of        *)
(* stages.  It validates the options, the names and the dependencies, then *)
(* sorts the stages topologically (topoSort), reports a concrete cycle     *)
(* when it cannot (findCycle), and groups the sorted stages into levels    *)
(* for the wave runner (computeLevels).                                    *)
(*                                                                         *)
(* One step of the model is one iteration of one of the code's loops.      *)
(***************************************************************************)
EXTENDS StageGraph, FiniteSets

CONSTANTS
  Names,        \* stage names, and the names a DependsOn may mention
  StageLists,   \* the slices of stage names NewPipeline is called with
  DepLists,     \* the values DependsOn() may return
  Bounds        \* the arguments of WithMaxParallel

ASSUME BuildAssumption ==
  /\ IsFiniteSet(Names)
  /\ StageLists \subseteq Seq(Names)
  /\ DepLists \subseteq Seq(Names)
  /\ Bounds \subseteq Int

Modes == {"sequential", "unbounded", "bounded"}

VARIABLES
  stages,     \* the argument: names of the stages, in input order
  deps,       \* deps[n] is DependsOn() of the stage named n
  mode,       \* pipelineConfig.mode
  boundN,     \* pipelineConfig.boundN
  pc,         \* the loop NewPipeline is in
  i,          \* index of that loop
  index,      \* keys of the index map
  emitted,    \* topoSort: names with emitted[name] set
  ordered,    \* topoSort: the result so far
  progressed, \* topoSort: something was emitted in this pass
  cur,        \* findCycle: the stage being followed
  path,       \* findCycle: the stages followed so far
  lvlOf,      \* computeLevels: level of each stage already placed
  levels,     \* computeLevels: the levels so far
  err         \* the error returned, as a record with a kind

args == <<stages, deps, mode, boundN>>
sort == <<emitted, ordered, progressed>>
walk == <<cur, path>>
wave == <<lvlOf, levels>>
vars == <<args, pc, i, index, sort, walk, wave, err>>

NoErr == [kind |-> "nil"]

\* The value cur is declared with.
NoName == ""

DepSet(n) == MemberOf(deps[n])
DepGraph == [n \in Names |-> DepSet(n)]

\* Pipeline.maxParallel: 0 is sequential, -1 unbounded, n > 0 bounded at n.
MaxParallel == CASE mode = "sequential" -> 0
                 [] mode = "unbounded"  -> -1
                 [] mode = "bounded"    -> boundN

\* Pipeline.wide: some level really runs stages at the same time.
Wide == MaxParallel \notin {0, 1} /\ \E l \in DOMAIN levels : Len(levels[l]) > 1

Init ==
  /\ stages \in StageLists
  /\ deps \in [Names -> DepLists]
  /\ mode \in Modes
  /\ boundN \in (IF mode = "bounded" THEN Bounds ELSE {0})
  /\ pc = "options"
  /\ i = 1
  /\ index = {}
  /\ emitted = {} /\ ordered = <<>> /\ progressed = FALSE
  /\ cur = NoName /\ path = <<>>
  /\ lvlOf = <<>> /\ levels = <<>>
  /\ err = NoErr


Goto(l) == pc' = l /\ i' = 1

\* Mutant: a loop that misses the last element.
Exhausted_Early(list) == i >= Len(list)

\* The loop over list is over.
Exhausted(list) == i > Len(list)

Fail(e) == Goto("failed") /\ err' = e

CheckOptions ==
  /\ pc = "options"
  /\ IF mode = "bounded" /\ boundN < 1
     THEN Fail([kind |-> "InvalidMaxParallel", n |-> boundN])
     ELSE Goto("duplicates") /\ UNCHANGED err
  /\ UNCHANGED <<args, index, sort, walk, wave>>

CheckDuplicate ==
  /\ pc = "duplicates"
  /\ IF Exhausted(stages)
     THEN Goto("dependencies") /\ UNCHANGED <<index, err>>
     ELSE IF stages[i] \in index
     THEN Fail([kind |-> "DuplicateStage", name |-> stages[i]]) /\ UNCHANGED index
     ELSE /\ index' = index \union {stages[i]}
          /\ i' = i + 1
          /\ UNCHANGED <<pc, err>>
  /\ UNCHANGED <<args, sort, walk, wave>>

CheckDependencies ==
  /\ pc = "dependencies"
  /\ IF Exhausted(stages)
     THEN Goto("sort") /\ UNCHANGED err
     ELSE IF DepSet(stages[i]) \subseteq index
     THEN i' = i + 1 /\ UNCHANGED <<pc, err>>
     ELSE LET ds == deps[stages[i]]
          IN  Fail([kind |-> "UnknownDependency", name |-> stages[i],
                    dep |-> ds[FirstIndex(ds, Names \ index)]])
  /\ UNCHANGED <<args, index, sort, walk, wave>>

\* Mutants: dependencies ignored; and Kahn's algorithm by rounds, where a stage
\* that becomes ready within a pass waits for the next one.
Ready_ByRounds(n) ==
  n \notin emitted /\ DepSet(n) \subseteq emitted /\ (progressed => DepSet(n) = {})

Ready(n) == n \notin emitted /\ DepSet(n) \subseteq emitted

Emit(n) ==
  /\ emitted' = emitted \union {n}
  /\ ordered' = Append(ordered, n)
  /\ progressed' = TRUE

\* One iteration of topoSort's inner loop: the pass goes on after an emission.
Visit ==
  /\ pc = "sort" /\ ~Exhausted(stages)
  /\ IF Ready(stages[i]) THEN Emit(stages[i]) ELSE UNCHANGED sort
  /\ i' = i + 1
  /\ UNCHANGED <<args, pc, index, walk, wave, err>>

\* Mutant: a pass that emitted nothing is followed by another one.
Stalled_Never == FALSE
Stalled == ~progressed

\* The end of a pass: done, stalled on a cycle, or another pass.
EndPass ==
  /\ pc = "sort" /\ Exhausted(stages)
  /\ \/ /\ Len(ordered) = Len(stages)
        /\ Goto(IF MaxParallel = 0 THEN "built" ELSE "levels")
        /\ UNCHANGED <<progressed, cur>>
     \/ /\ Len(ordered) < Len(stages) /\ Stalled
        /\ Goto("cycle")
        /\ cur' = stages[FirstIndex(stages, Names \ emitted)]
        /\ UNCHANGED progressed
     \/ /\ Len(ordered) < Len(stages) /\ ~Stalled
        /\ Goto("sort")
        /\ progressed' = FALSE
        /\ UNCHANGED cur
  /\ UNCHANGED <<args, index, emitted, ordered, path, wave, err>>

\* Mutant: the tail that leads to the cycle is kept.
Loop_WithTail == Append(path, cur)
Loop == Append(SubSeq(path, FirstIndex(path, {cur}), Len(path)), cur)

\* One iteration of findCycle: close the loop, or follow the first dependency
\* that was not emitted.  With none of those, cur stays and the loop closes on it.
FollowCycle ==
  /\ pc = "cycle"
  /\ IF cur \in MemberOf(path)
     THEN Fail([kind |-> "Cycle", loop |-> Loop]) /\ UNCHANGED walk
     ELSE /\ path' = Append(path, cur)
          /\ cur' = IF DepSet(cur) \subseteq emitted THEN cur
                    ELSE deps[cur][FirstIndex(deps[cur], Names \ emitted)]
          /\ UNCHANGED <<pc, i, err>>
  /\ UNCHANGED <<args, index, sort, wave>>

\* Mutant: the last dependency decides, not the deepest.
LevelFor_LastDependency(n) ==
  IF deps[n] = <<>> THEN 0 ELSE lvlOf[deps[n][Len(deps[n])]] + 1

\* One more than the deepest dependency, zero without dependencies.
LevelFor(n) ==
  LET depths == {0} \union {lvlOf[d] + 1 : d \in DepSet(n)}
  IN  CHOOSE l \in depths : \A m \in depths : m <= l


\* levels[l + 1] gets n; computeLevels numbers levels from zero.
PlaceInLevel(n, l) ==
  IF l < Len(levels)
  THEN [levels EXCEPT ![l + 1] = Append(@, n)]
  ELSE Append(levels, <<n>>)

Place ==
  /\ pc = "levels"
  /\ IF Exhausted(ordered)
     THEN Goto("built") /\ UNCHANGED wave
     ELSE LET n == ordered[i]
              l == LevelFor(n)
          IN  /\ lvlOf' = [m \in DOMAIN lvlOf \union {n} |-> IF m = n THEN l ELSE lvlOf[m]]
              /\ levels' = PlaceInLevel(n, l)
              /\ i' = i + 1
              /\ UNCHANGED pc
  /\ UNCHANGED <<args, index, sort, walk, err>>

Returned == pc \in {"built", "failed"} /\ UNCHANGED vars

Next ==
  \/ CheckOptions
  \/ CheckDuplicate
  \/ CheckDependencies
  \/ Visit
  \/ EndPass
  \/ FollowCycle
  \/ Place
  \/ Returned

\* NewPipeline is straight-line code: it takes its next step.
Spec == Init /\ [][Next]_vars /\ WF_vars(Next)
-----------------------------------------------------------------------------
TypeOK ==
  /\ stages \in Seq(Names)
  /\ deps \in [Names -> Seq(Names)]
  /\ mode \in Modes /\ boundN \in Int
  /\ pc \in {"options", "duplicates", "dependencies", "sort", "cycle",
             "levels", "built", "failed"}
  /\ i \in Nat \ {0}
  /\ index \subseteq Names /\ emitted \subseteq Names
  /\ ordered \in Seq(Names) /\ path \in Seq(Names)
  /\ progressed \in BOOLEAN /\ cur \in Names \union {NoName}
  /\ err.kind \in {"nil", "InvalidMaxParallel", "DuplicateStage",
                   "UnknownDependency", "Cycle"}

\* A built pipeline runs exactly the stages it was given, each one once and
\* after all its dependencies (NewPipeline's promise, pipeline.go:111-115); and a
\* slice that already respects the dependencies runs as it was written.
BuiltOrder ==
  pc \in {"levels", "built"} =>
    /\ MemberOf(ordered) = MemberOf(stages)
    /\ NoRepeats(ordered)
    /\ Respects(ordered, DepGraph)
    /\ Respects(stages, DepGraph) => ordered = stages

\* The path in a CycleError is a cycle of the declared dependencies, closed on
\* its first stage and without the tail that leads to it (findCycle's comment).
CycleIsReal ==
  err.kind = "Cycle" =>
    LET n == Len(err.loop)
    IN  /\ n >= 2 /\ err.loop[n] = err.loop[1]
        /\ \A k \in 1 .. n - 1 : err.loop[k + 1] \in DepSet(err.loop[k])
        /\ \A j, k \in 1 .. n - 1 : err.loop[j] = err.loop[k] => j = k

\* Stages that wait for one another: each has a dependency among them.
Deadlocked(S) == S # {} /\ \A n \in S : DepSet(n) \cap S # {}

\* The outcome is the one the argument deserves, errors in the documented order:
\* a bad bound, then a repeated name, then an unknown dependency, then a cycle.
Verdict ==
  CASE mode = "bounded" /\ boundN < 1                              -> "InvalidMaxParallel"
    [] OTHER ->
  CASE \E j, k \in DOMAIN stages : j # k /\ stages[j] = stages[k]  -> "DuplicateStage"
    [] OTHER ->
  CASE \E n \in MemberOf(stages) : ~(DepSet(n) \subseteq MemberOf(stages)) -> "UnknownDependency"
    [] OTHER ->
  CASE \E S \in SUBSET MemberOf(stages) : Deadlocked(S)            -> "Cycle"
    [] OTHER -> "nil"

\* NewPipeline rejects exactly the stage sets it must, and says why.
VerdictIsRight == pc \in {"built", "failed"} => err.kind = Verdict

\* computeLevels puts every stage in one level, one past its deepest
\* dependency, and keeps the run order inside a level.
ByDepth ==
  pc = "built" /\ MaxParallel # 0 =>
    LET at(n) == {l \in DOMAIN levels : n \in MemberOf(levels[l])}
        pos(n) == FirstIndex(ordered, {n})
    IN  /\ \A n \in MemberOf(stages) :
             \E l \in DOMAIN levels :
               /\ at(n) = {l}
               /\ \A d \in DepSet(n) : \A k \in at(d) : k < l
               /\ l > 1 => \E d \in DepSet(n) : l - 1 \in at(d)
        /\ \A l \in DOMAIN levels : \A j, k \in DOMAIN levels[l] :
             j < k => pos(levels[l][j]) < pos(levels[l][k])

\* The loops compute what the operators of StageGraph define, with which
\* PipelineRun's instances are built.
AsDefined ==
  pc = "built" =>
    /\ ordered = TopoOrder(stages, DepGraph)
    /\ MaxParallel # 0 => levels = LevelsOf(ordered, DepGraph)

\* The Pipeline that NewPipeline returns.
Built == [ordered |-> ordered, deps |-> DepGraph, levels |-> levels,
          maxParallel |-> MaxParallel]

BuiltWellFormed == pc = "built" => WellFormed(Built, Names)

\* The run order and the levels are what PipelineRun starts from: all of a stage's
\* dependencies are in earlier levels and nothing else is between two levels.
LevelsByDepth == TypeOK /\ ByDepth /\ AsDefined /\ BuiltWellFormed

\* NewPipeline returns, with a pipeline or an error.
Terminates == <>(pc \in {"built", "failed"})
=============================================================================
