----------------------------- MODULE PipelineRun -----------------------------
(***************************************************************************)
(* One Pipeline.Run against one Scope: sequential (runSequential), or in   *)
(* waves (runWaves, runLevel), one goroutine per stage of a level, behind  *)
(* a semaphore when the pipeline is bounded.  The caller may cancel the    *)
(* context at any moment.                                                  *)
(*                                                                         *)
(* What a stage computes is abstracted: its Execute ends as fate says, and *)
(* the data in the Scope is the set of stages whose output has landed.     *)
(***************************************************************************)
EXTENDS StageGraph, FiniteSets

CONSTANTS
  Stage,      \* stage names
  Pipelines   \* what NewPipeline built: [ordered, deps, levels, maxParallel]

\* BuiltWellFormed of PipelineBuild: what NewPipeline builds is well formed.
ASSUME RunAssumption == IsFiniteSet(Stage) /\ \A q \in Pipelines : WellFormed(q, Stage)

Fates == {"ok", "err", "panic"}

VARIABLES
  p,          \* the pipeline, never changed by a run
  fate,       \* how each stage's Execute ends, when it is not canceled
  cancelled,  \* ctx is done
  pc,         \* where Run's own goroutine is
  lvl,        \* runWaves: the current level
  nxt,        \* the next stage: of ordered, or of the level being launched
  stg,        \* where each stage's execution is
  outcome,    \* what each Execute ended with
  slots,      \* tokens in the semaphore channel
  errs,       \* runLevel's maps of errors and of recovered panics,
  panics,     \*   as the sets of their keys
  outputs,    \* stages whose output is in the Scope
  seen,       \* outputs in the Snapshot a stage evaluates against
  concurrent, \* Scope.concurrent
  stageOrder, \* Scope.stageOrder; its members are the keys of stageTimes
  result      \* what Run returned, or the panic it raised

input  == <<p, fate>>
scope  == <<outputs, seen, stageOrder>>
mapsv  == <<errs, panics>>
vars   == <<input, cancelled, pc, lvl, nxt, stg, outcome, slots, mapsv, scope,
            concurrent, result>>

Sequential == p.maxParallel = 0
Bounded    == p.maxParallel > 0
\* Mutant: only a bounded pipeline counts as wide.
Wide_BoundedOnly == p.maxParallel > 1 /\ \E l \in DOMAIN p.levels : Len(p.levels[l]) > 1
Wide       == p.maxParallel \notin {0, 1} /\ \E l \in DOMAIN p.levels : Len(p.levels[l]) > 1
Running    == {s \in Stage : stg[s] = "running"}
Failed     == {s \in Stage : outcome[s] \in {"err", "ctx", "panic"}}
Succeeded  == {s \in Stage : outcome[s] = "ok"}

NoResult == [kind |-> "none"]

Init ==
  /\ p \in Pipelines
  /\ fate \in [Stage -> Fates]
  /\ cancelled = FALSE
  /\ pc = "begin" /\ lvl = 1 /\ nxt = 1
  /\ stg = [s \in Stage |-> "idle"]
  /\ outcome = [s \in Stage |-> "none"]
  /\ slots = 0 /\ errs = {} /\ panics = {}
  /\ outputs = {} /\ seen = [s \in Stage |-> {}]
  /\ concurrent = FALSE
  /\ stageOrder = <<>>
  /\ result = NoResult
-----------------------------------------------------------------------------
\* Run's own goroutine.

Begin ==
  /\ pc = "begin"
  /\ pc' = IF Sequential THEN "seq" ELSE "level"
  /\ concurrent' = (concurrent \/ (~Sequential /\ Wide))
  /\ UNCHANGED <<input, cancelled, lvl, nxt, stg, outcome, slots, mapsv, scope, result>>

\* Mutant: the stages stay in the order they completed in.
Return_KeepsCompletionOrder(r) == pc' = "returned" /\ result' = r /\ UNCHANGED stageOrder

\* The deferred reorderStages of runWaves is part of its return.
Return(r) ==
  /\ pc' = "returned"
  /\ result' = r
  /\ stageOrder' = IF Sequential THEN stageOrder
                   ELSE Kept(p.ordered, MemberOf(stageOrder))

\* Mutant: the loop variable is not advanced.
Advance_Missing == UNCHANGED nxt
Advance == nxt' = nxt + 1

StartStage(s) == stg' = [stg EXCEPT ![s] = "spawned"]

\* The head of runSequential's loop.
SeqStep ==
  /\ pc = "seq"
  /\ \/ /\ nxt > Len(p.ordered)
        /\ Return([kind |-> "nil"])
        /\ UNCHANGED stg
     \/ /\ nxt <= Len(p.ordered) /\ cancelled
        /\ Return([kind |-> "ctx"])
        /\ UNCHANGED stg
     \/ /\ nxt <= Len(p.ordered) /\ ~cancelled
        /\ StartStage(p.ordered[nxt])
        /\ pc' = "seqwait"
        /\ UNCHANGED <<result, stageOrder>>
  /\ UNCHANGED <<input, cancelled, lvl, nxt, outcome, slots, mapsv, outputs, seen,
                 concurrent>>

Passed(s) == outcome[s] = "ok"

\* Run's goroutine is back from the stage: next stage, or return its failure.
SeqBack ==
  /\ pc = "seqwait"
  /\ LET s == p.ordered[nxt] IN
       /\ stg[s] \in {"returned", "panicking"}
       /\ IF Passed(s)
          THEN /\ Advance
               /\ pc' = "seq"
               /\ UNCHANGED <<result, stageOrder>>
          ELSE /\ Return([kind |-> outcome[s], stage |-> s])
               /\ UNCHANGED nxt
  /\ UNCHANGED <<input, cancelled, lvl, stg, outcome, slots, mapsv, outputs, seen,
                 concurrent>>

LevelsDone == lvl > Len(p.levels)

\* The head of runWaves' loop, and the fresh maps and semaphore of runLevel.
LevelStep ==
  /\ pc = "level"
  /\ \/ /\ LevelsDone
        /\ Return([kind |-> "nil"])
        /\ UNCHANGED <<nxt, mapsv, slots>>
     \/ /\ ~LevelsDone /\ cancelled
        /\ Return([kind |-> "ctx"])
        /\ UNCHANGED <<nxt, mapsv, slots>>
     \/ /\ ~LevelsDone /\ ~cancelled
        /\ pc' = "launch" /\ nxt' = 1
        /\ errs' = {} /\ panics' = {} /\ slots' = 0
        /\ UNCHANGED <<result, stageOrder>>
  /\ UNCHANGED <<input, cancelled, lvl, stg, outcome, outputs, seen, concurrent>>

\* Mutant: no wait for a token.
TokenFree_Always == TRUE
TokenFree == Bounded => slots < p.maxParallel

\* One iteration of runLevel's loop; the send on the semaphore may block.
Launch ==
  /\ pc = "launch" /\ nxt <= Len(p.levels[lvl])
  /\ TokenFree
  /\ slots' = IF Bounded THEN slots + 1 ELSE slots
  /\ StartStage(p.levels[lvl][nxt])
  /\ Advance
  /\ UNCHANGED <<input, cancelled, pc, lvl, outcome, mapsv, scope, concurrent, result>>

\* Mutants: no barrier, and one that a goroutine passes before its deferred calls.
WaitOver_AtOnce == TRUE
WaitOver_BeforeRelease ==
  \A s \in MemberOf(p.levels[lvl]) : stg[s] \in {"unwinding", "leaving", "exited"}
WaitOver == \A s \in MemberOf(p.levels[lvl]) : stg[s] = "exited"

\* Mutant: panics are not failures.
Failures_OnlyErrors == errs
Failures == errs \union panics

\* Mutant: the failure latest in the run order.
Reported_Latest ==
  p.ordered[CHOOSE k \in DOMAIN p.ordered :
              /\ p.ordered[k] \in Failures
              /\ \A j \in k + 1 .. Len(p.ordered) : p.ordered[j] \notin Failures]
Reported == p.ordered[FirstIndex(p.ordered, Failures)]

\* wg.Wait returns; then the next level, or the topo-earliest failure.
Join ==
  /\ pc = "launch" /\ nxt > Len(p.levels[lvl])
  /\ WaitOver
  /\ IF Failures = {}
     THEN /\ lvl' = lvl + 1
          /\ pc' = "level"
          /\ UNCHANGED <<result, stageOrder>>
     ELSE /\ Return([kind  |-> IF Reported \in panics THEN "panic" ELSE outcome[Reported],
                     stage |-> Reported])
          /\ UNCHANGED lvl
  /\ UNCHANGED <<input, cancelled, nxt, stg, outcome, slots, mapsv, outputs, seen,
                 concurrent>>
-----------------------------------------------------------------------------
\* A stage: on Run's goroutine when sequential, on its own in a wave.

\* Execute begins.  A built-in stage checks ctx itself; another Stage need not.
Enter(s) ==
  /\ stg[s] = "spawned"
  /\ \/ /\ cancelled
        /\ outcome' = [outcome EXCEPT ![s] = "ctx"]
        /\ stg' = [stg EXCEPT ![s] = "timing"]
        /\ UNCHANGED seen
     \/ /\ seen' = [seen EXCEPT ![s] = outputs]
        /\ stg' = [stg EXCEPT ![s] = "running"]
        /\ UNCHANGED outcome
  /\ UNCHANGED <<input, cancelled, pc, lvl, nxt, slots, mapsv, outputs, stageOrder,
                 concurrent, result>>

\* Execute ends: the output is written, or an error or a panic comes out.
Finish(s) ==
  /\ stg[s] = "running"
  /\ outcome' = [outcome EXCEPT ![s] = fate[s]]
  /\ stg' = [stg EXCEPT ![s] = IF fate[s] = "panic" THEN "panicking" ELSE "timing"]
  /\ outputs' = IF fate[s] = "ok" THEN outputs \union {s} ELSE outputs
  /\ UNCHANGED <<input, cancelled, pc, lvl, nxt, slots, mapsv, seen, stageOrder,
                 concurrent, result>>

\* timeStage records the duration; a panic has skipped it.
TimeStage(s) ==
  /\ stg[s] = "timing"
  /\ stg' = [stg EXCEPT ![s] = "returned"]
  /\ stageOrder' = IF s \in MemberOf(stageOrder) THEN stageOrder ELSE Append(stageOrder, s)
  /\ UNCHANGED <<input, cancelled, pc, lvl, nxt, outcome, slots, mapsv, outputs, seen,
                 concurrent, result>>

\* Mutant: a stage stopped by ctx has no error.
Errored_NotByCtx(s) == outcome[s] = "err"
Errored(s) == outcome[s] \in {"err", "ctx"}

\* A wave goroutine notes its error, or recovers its panic, under mu.
Record(s) ==
  /\ ~Sequential
  /\ stg[s] \in {"returned", "panicking"}
  /\ stg' = [stg EXCEPT ![s] = "unwinding"]
  /\ errs' = IF Errored(s) THEN errs \union {s} ELSE errs
  /\ panics' = IF stg[s] = "panicking" THEN panics \union {s} ELSE panics
  /\ UNCHANGED <<input, cancelled, pc, lvl, nxt, outcome, slots, scope, concurrent, result>>

\* Its deferred calls: give the token back, then wg.Done.
Release(s) ==
  /\ stg[s] = "unwinding"
  /\ stg' = [stg EXCEPT ![s] = "leaving"]
  /\ slots' = IF Bounded THEN slots - 1 ELSE slots
  /\ UNCHANGED <<input, cancelled, pc, lvl, nxt, outcome, mapsv, scope, concurrent, result>>

Done(s) ==
  /\ stg[s] = "leaving"
  /\ stg' = [stg EXCEPT ![s] = "exited"]
  /\ UNCHANGED <<input, cancelled, pc, lvl, nxt, outcome, slots, mapsv, scope, concurrent,
                 result>>

\* The caller cancels ctx, or its deadline passes.
Cancel ==
  /\ ~cancelled /\ pc # "returned"
  /\ cancelled' = TRUE
  /\ UNCHANGED <<input, pc, lvl, nxt, stg, outcome, slots, mapsv, scope, concurrent, result>>

Returned == pc = "returned" /\ UNCHANGED vars

RunStep == Begin \/ SeqStep \/ SeqBack \/ LevelStep \/ Launch \/ Join

StageStep(s) == Enter(s) \/ Finish(s) \/ TimeStage(s) \/ Record(s) \/ Release(s) \/ Done(s)

Next == RunStep \/ (\E s \in Stage : StageStep(s)) \/ Cancel \/ Returned

\* The Go scheduler runs every goroutine that can run; every Execute ends.
Fairness == WF_vars(RunStep) /\ \A s \in Stage : WF_vars(StageStep(s))

Spec == Init /\ [][Next]_vars /\ Fairness
-----------------------------------------------------------------------------
ControlTypes ==
  /\ pc \in {"begin", "seq", "seqwait", "level", "launch", "returned"}
  /\ lvl \in Nat \ {0} /\ nxt \in Nat \ {0} /\ slots \in Int
  /\ cancelled \in BOOLEAN /\ concurrent \in BOOLEAN

StageTypes ==
  /\ fate \in [Stage -> Fates]
  /\ stg \in [Stage -> {"idle", "spawned", "running", "timing", "returned", "panicking",
                        "unwinding", "leaving", "exited"}]
  /\ outcome \in [Stage -> Fates \union {"none", "ctx"}]
  /\ seen \in [Stage -> SUBSET Stage]

SetTypes == errs \subseteq Stage /\ panics \subseteq Stage /\ outputs \subseteq Stage

ResultType == result.kind \in {"none", "nil", "ctx", "err", "panic"}

\* The values the variables range over; stageOrder is ReportedOrder's.
TypeOK == ControlTypes /\ StageTypes /\ SetTypes /\ ResultType

\* A stage evaluates against a Scope that already holds the output of every
\* stage it depends on (runWaves' comment, pipeline.go:306-309).
DepsVisible == \A s \in Stage : stg[s] = "running" => p.deps[s] \subseteq seen[s]

\* WithMaxParallel(n): at most n stages are between start and end of Execute.
SemaphoreBound ==
  Bounded => Cardinality({s \in Stage : stg[s] \in {"spawned", "running", "timing"}})
               <= p.maxParallel

\* Whenever two stages evaluate at the same time the Scope is marked concurrent,
\* so each reads an isolated Snapshot (pipeline.go:156-168 and 282-288).
IsolatedOverlap == Cardinality(Running) > 1 => concurrent

\* Run does not return while a goroutine it started is alive.
NoLeak ==
  pc = "returned" =>
    /\ \A s \in Stage : stg[s] \notin {"spawned", "running", "timing"}
    /\ ~Sequential => \A s \in Stage : stg[s] \in {"idle", "exited"}

\* After a failure nothing of a later level starts (of the later run order, when
\* sequential), so nothing that depends on the failure does.
NothingPastFailure ==
  \A f \in Failed :
    /\ Sequential =>
         \A k \in DOMAIN p.ordered :
           k > FirstIndex(p.ordered, {f}) => stg[p.ordered[k]] = "idle"
    /\ ~Sequential =>
         \A l, m \in DOMAIN p.levels : l < m /\ f \in MemberOf(p.levels[l]) =>
           \A s \in MemberOf(p.levels[m]) : stg[s] = "idle"

\* The reported stage order is the run order of the stages that returned, never
\* the order they completed in; a stage that panicked is not reported.
ReportedOrder ==
  /\ TypeOK
  /\ pc = "returned" =>
       /\ MemberOf(stageOrder) = {s \in Stage : outcome[s] \in {"ok", "err", "ctx"}}
       /\ \A j, k \in DOMAIN stageOrder :
            j < k => FirstIndex(p.ordered, {stageOrder[j]}) < FirstIndex(p.ordered, {stageOrder[k]})

SequentialFailure ==
  LET failing == {k \in DOMAIN p.ordered : fate[p.ordered[k]] # "ok"}
  IN  IF failing = {} THEN [kind |-> "nil"]
      ELSE LET s == p.ordered[CHOOSE k \in failing : \A j \in failing : k <= j]
           IN  [kind |-> fate[s], stage |-> s]

\* The levels, one after the other, list the stages in the run order.
Aligned ==
  \A l, m \in DOMAIN p.levels : l < m =>
    \A x \in MemberOf(p.levels[l]), y \in MemberOf(p.levels[m]) :
      FirstIndex(p.ordered, {x}) < FirstIndex(p.ordered, {y})

\* Without a cancellation, a run whose levels follow the run order returns what
\* a sequential run returns, failures and panics included; any other run at least
\* fails when it does, and one that returns nil has all outputs in the Scope.
SameErrorIfAligned ==
  pc = "returned" /\ ~cancelled =>
    /\ Sequential \/ Aligned => result = SequentialFailure
    /\ result.kind = "nil" <=> SequentialFailure.kind = "nil"
    /\ result.kind = "nil" => outputs = MemberOf(p.ordered)

\* Run keeps the promise of PipelineContract under every interleaving.
Promise == INSTANCE PipelineContract WITH done <- Succeeded, failed <- Failed
KeepsContract == Promise!Spec

\* Run returns once every Execute does: nothing waits on a token or on the
\* wait group for ever.
Terminates == <>(pc = "returned")

\* runWaves' comment (pipeline.go:309-311) and ADR-0052, point 4: the failure a
\* wave run returns is the one a sequential run would.
SameErrorAsSequential ==
  pc = "returned" /\ ~cancelled => result = SequentialFailure
=============================================================================
