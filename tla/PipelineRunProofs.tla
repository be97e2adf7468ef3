-------------------------- MODULE PipelineRunProofs --------------------------
(***************************************************************************)
(* Proofs about PipelineRun, for every set of stages and every set of      *)
(* well-formed pipelines: what a stage sees, what a failure stops, which   *)
(* stages are isolated, that a run implements PipelineContract, and that   *)
(* its result is the one a sequential run would return.                    *)
(***************************************************************************)
EXTENDS PipelineRun, StageGraphProofs, FiniteSetTheorems, TLAPS

\* The stages of a level.
LevelSet(l) == MemberOf(p.levels[l])

\* An execution has an outcome exactly once its Execute has ended.
OutcomeInv ==
  \A s \in Stage :
    /\ stg[s] \in {"idle", "spawned", "running"} <=> outcome[s] = "none"
    /\ stg[s] = "panicking" => outcome[s] = "panic"
    /\ stg[s] \in {"timing", "returned"} => outcome[s] # "panic"

\* Only stages of the pipeline start.
MemberInv == \A s \in Stage : stg[s] # "idle" => s \in MemberOf(p.ordered)

\* Nothing ahead of Run's goroutine has started.
AheadInv ==
  /\ pc = "begin" => \A s \in Stage : stg[s] = "idle"
  /\ pc = "begin" => lvl = 1 /\ nxt = 1
  /\ Sequential => pc \in {"begin", "seq", "seqwait", "returned"}
  /\ ~Sequential => pc \in {"begin", "level", "launch", "returned"}
  /\ pc = "seq" => \A k \in DOMAIN p.ordered : k >= nxt => stg[p.ordered[k]] = "idle"
  /\ pc = "seqwait" =>
       /\ nxt \in DOMAIN p.ordered
       /\ \A k \in DOMAIN p.ordered : k > nxt => stg[p.ordered[k]] = "idle"
  /\ pc \in {"level", "launch"} =>
       \A l \in DOMAIN p.levels : l > lvl => \A s \in LevelSet(l) : stg[s] = "idle"
  /\ pc = "level" /\ lvl \in DOMAIN p.levels => \A s \in LevelSet(lvl) : stg[s] = "idle"
  /\ pc = "launch" =>
       /\ lvl \in DOMAIN p.levels
       /\ \A k \in DOMAIN p.levels[lvl] : k >= nxt => stg[p.levels[lvl][k]] = "idle"

\* Everything behind it succeeded.
BehindInv ==
  /\ pc \in {"seq", "seqwait"} =>
       \A k \in DOMAIN p.ordered : k < nxt => outcome[p.ordered[k]] = "ok"
  /\ pc \in {"level", "launch"} =>
       \A l \in DOMAIN p.levels : l < lvl => \A s \in LevelSet(l) : outcome[s] = "ok"

\* A wave goroutine past Record has left its failure in errs or panics.
RecordInv ==
  /\ pc = "launch" =>
       \A s \in Stage : stg[s] \in {"unwinding", "leaving", "exited"} =>
         /\ outcome[s] \in {"err", "ctx"} => s \in errs
         /\ outcome[s] = "panic" => s \in panics
  /\ \A s \in errs \union panics : outcome[s] \in {"err", "ctx", "panic"}

\* A stage that started has only successful dependencies, whose output it sees.
StartedInv ==
  /\ \A s \in Stage : stg[s] # "idle" => \A d \in p.deps[s] : outcome[d] = "ok"
  /\ \A s \in Stage : outcome[s] = "ok" => s \in outputs

BaseTypes == ControlTypes /\ StageTypes /\ SetTypes /\ p \in Pipelines

IInv ==
  /\ BaseTypes
  /\ OutcomeInv /\ MemberInv /\ AheadInv /\ BehindInv /\ RecordInv /\ StartedInv
  /\ DepsVisible
-----------------------------------------------------------------------------
\* The pipeline that runs is one NewPipeline built.
LEMMA WellFormedPipeline == p \in Pipelines => WellFormed(p, Stage)
  BY RunAssumption

\* The stage a wave launches next is idle, and of the current level.
LEMMA LaunchedStage ==
  ASSUME IInv, Launch
  PROVE  /\ p.levels[lvl][nxt] \in Stage
         /\ stg[p.levels[lvl][nxt]] = "idle"
         /\ lvl \in DOMAIN p.levels /\ nxt \in DOMAIN p.levels[lvl]
         /\ p.levels[lvl][nxt] \in LevelSet(lvl)
         /\ StartStage(p.levels[lvl][nxt])
         /\ pc = "launch" /\ nxt' = nxt + 1
         /\ UNCHANGED <<p, fate, cancelled, pc, lvl, outcome, errs, panics, outputs,
                        seen, stageOrder, concurrent, result>>
<1>1. pc = "launch" /\ nxt <= Len(p.levels[lvl]) /\ nxt \in Nat \ {0}
  BY DEF IInv, BaseTypes, ControlTypes, Launch, TokenFree, Advance
<1>2. p.levels \in Seq(Seq(Stage))
  BY WellFormedPipeline DEF WellFormed, IInv, BaseTypes
<1>3. lvl \in DOMAIN p.levels
  BY <1>1 DEF IInv, AheadInv
<1>4. p.levels[lvl] \in Seq(Stage)
  BY <1>2, <1>3
<1>5. nxt \in DOMAIN p.levels[lvl] /\ p.levels[lvl][nxt] \in Stage
  BY <1>1, <1>4
<1>6. stg[p.levels[lvl][nxt]] = "idle"
  BY <1>1, <1>5 DEF IInv, AheadInv
<1>7. UNCHANGED <<p, fate, cancelled, pc, lvl, outcome, errs, panics, outputs,
                  seen, stageOrder, concurrent, result>>
  BY DEF Launch, TokenFree, Advance, input, mapsv, scope
<1>. QED
  BY <1>1, <1>3, <1>5, <1>6, <1>7 DEF Launch, TokenFree, Advance, LevelSet, MemberOf

\* The stage a sequential run starts next is idle.
LEMMA StartedStage ==
  ASSUME IInv, SeqStep, pc' = "seqwait"
  PROVE  /\ nxt \in DOMAIN p.ordered /\ p.ordered[nxt] \in Stage
         /\ stg[p.ordered[nxt]] = "idle"
         /\ StartStage(p.ordered[nxt])
         /\ pc = "seq"
         /\ UNCHANGED <<p, fate, cancelled, lvl, nxt, outcome, slots, errs, panics, outputs,
                        seen, stageOrder, concurrent, result>>
<1>1. pc = "seq" /\ nxt <= Len(p.ordered) /\ nxt \in Nat \ {0}
  BY DEF IInv, BaseTypes, ControlTypes, SeqStep, Return
<1>2. p.ordered \in Seq(Stage)
  BY WellFormedPipeline DEF WellFormed, IInv, BaseTypes
<1>3. nxt \in DOMAIN p.ordered /\ p.ordered[nxt] \in Stage
  BY <1>1, <1>2
<1>4. stg[p.ordered[nxt]] = "idle"
  BY <1>1, <1>3 DEF IInv, AheadInv
<1>. QED
  BY <1>1, <1>3, <1>4 DEF SeqStep, Return, input, mapsv, scope

\* Otherwise runSequential's loop head returns.
LEMMA SeqReturns ==
  ASSUME SeqStep, pc' # "seqwait"
  PROVE  pc' = "returned" /\ UNCHANGED <<p, fate, cancelled, lvl, nxt, stg, outcome, slots, errs,
                                         panics, outputs, seen, concurrent>>
  BY DEF SeqStep, Return, input, mapsv

\* A stage's step moves that stage only, which has started and stays started.
LEMMA StageFrame ==
  ASSUME IInv, NEW s \in Stage, StageStep(s)
  PROVE  /\ UNCHANGED <<p, fate, cancelled, pc, lvl, nxt, concurrent, result>>
         /\ stg[s] # "idle" /\ stg'[s] # "idle"
         /\ \A t \in Stage \ {s} : stg'[t] = stg[t] /\ outcome'[t] = outcome[t]
         /\ \A t \in Stage : outcome[t] # "none" => outcome'[t] = outcome[t]
<1>. USE DEF IInv, BaseTypes, StageTypes, OutcomeInv, input, scope, mapsv
<1>1. CASE Enter(s)
  BY <1>1 DEF Enter
<1>2. CASE Finish(s)
  BY <1>2 DEF Finish
<1>3. CASE TimeStage(s)
  BY <1>3 DEF TimeStage
<1>4. CASE Record(s)
  BY <1>4 DEF Record, Errored
<1>5. CASE Release(s)
  BY <1>5 DEF Release
<1>6. CASE Done(s)
  BY <1>6 DEF Done
<1>. QED
  BY <1>1, <1>2, <1>3, <1>4, <1>5, <1>6 DEF StageStep

\* After a join without failure, the whole level succeeded.
LEMMA JoinedLevel ==
  ASSUME IInv, Join, Failures = {}
  PROVE  /\ pc = "launch" /\ pc' = "level" /\ lvl' = lvl + 1
         /\ lvl \in DOMAIN p.levels
         /\ \A s \in LevelSet(lvl) : outcome[s] = "ok"
         /\ UNCHANGED <<p, fate, cancelled, nxt, stg, outcome, errs, panics, outputs, seen,
                        stageOrder, concurrent, result>>
<1>1. pc = "launch" /\ lvl \in DOMAIN p.levels
  BY DEF Join, WaitOver, Failures, Reported, IInv, AheadInv
<1>2. LevelSet(lvl) \subseteq Stage
  <2>1. p.levels[lvl] \in Seq(Stage)
    BY <1>1, WellFormedPipeline DEF WellFormed, IInv, BaseTypes
  <2>. QED
    BY <2>1 DEF LevelSet, MemberOf
<1>3. ASSUME NEW s \in LevelSet(lvl) PROVE outcome[s] = "ok"
  <2>1. s \in Stage /\ stg[s] = "exited"
    BY <1>2 DEF Join, WaitOver, Failures, Reported, LevelSet
  <2>2. outcome[s] \notin {"none", "err", "ctx", "panic"}
    BY <1>1, <2>1 DEF IInv, OutcomeInv, RecordInv, Failures
  <2>. QED
    BY <2>1, <2>2 DEF IInv, BaseTypes, StageTypes, Fates
<1>. QED
  BY <1>1, <1>3 DEF Join, WaitOver, Failures, Reported, input, mapsv

\* After a join with a failure, Run returns.
LEMMA JoinReturns ==
  ASSUME Join, Failures # {}
  PROVE  /\ pc' = "returned"
         /\ UNCHANGED <<p, fate, cancelled, lvl, nxt, stg, outcome, errs, panics, outputs, seen,
                        concurrent>>
  BY DEF Join, WaitOver, Failures, Reported, Return, input, mapsv
-----------------------------------------------------------------------------
\* Every step keeps the values of the variables in their sets.
LEMMA TypesKept == IInv /\ [Next]_vars => BaseTypes'
<1>. SUFFICES ASSUME IInv, [Next]_vars PROVE BaseTypes'
  OBVIOUS
<1>. USE DEF IInv, BaseTypes, ControlTypes, StageTypes, SetTypes, input, scope, mapsv
<1>1. CASE Begin
  BY <1>1 DEF Begin
<1>2. CASE SeqStep
  <2>1. CASE pc' = "seqwait"
    BY <1>2, <2>1, StartedStage DEF StartStage
  <2>2. CASE pc' # "seqwait"
    BY <1>2, <2>2, SeqReturns
  <2>. QED
    BY <2>1, <2>2
<1>3. CASE SeqBack
  BY <1>3 DEF SeqBack, Passed, Advance, Return
<1>4. CASE LevelStep
  BY <1>4 DEF LevelStep, LevelsDone, Return
<1>5. CASE Launch
  <2>1. ControlTypes' /\ SetTypes' /\ p' = p
    BY <1>5, LaunchedStage DEF Launch, TokenFree, Advance
  <2>2. StageTypes'
    BY <1>5, LaunchedStage DEF StartStage
  <2>. QED
    BY <2>1, <2>2
<1>6. CASE Join
  BY <1>6 DEF Join, WaitOver, Failures, Reported, Return
<1>7. ASSUME NEW s \in Stage, StageStep(s) PROVE BaseTypes'
  <2>1. CASE Enter(s)
    BY <2>1 DEF Enter
  <2>2. CASE Finish(s)
    BY <2>2 DEF Finish
  <2>3. CASE TimeStage(s)
    BY <2>3 DEF TimeStage
  <2>4. CASE Record(s)
    BY <2>4 DEF Record, Errored
  <2>5. CASE Release(s)
    BY <2>5 DEF Release
  <2>6. CASE Done(s)
    BY <2>6 DEF Done
  <2>. QED
    BY <1>7, <2>1, <2>2, <2>3, <2>4, <2>5, <2>6 DEF StageStep
<1>8. CASE Cancel
  BY <1>8 DEF Cancel
<1>9. CASE UNCHANGED vars
  BY <1>9 DEF vars
<1>. QED
  BY <1>1, <1>2, <1>3, <1>4, <1>5, <1>6, <1>7, <1>8, <1>9 DEF Next, RunStep, Returned

\* An Execute that ends sets its stage's outcome; no other step changes one.
LEMMA OutcomeKept == IInv /\ [Next]_vars => OutcomeInv'
<1>. SUFFICES ASSUME IInv, [Next]_vars PROVE OutcomeInv'
  OBVIOUS
<1>. USE DEF IInv, BaseTypes, StageTypes, OutcomeInv, input, scope, mapsv
<1>1. CASE Begin
  BY <1>1 DEF Begin
<1>2. CASE SeqStep
  <2>1. CASE pc' = "seqwait"
    BY <1>2, <2>1, StartedStage DEF StartStage
  <2>2. CASE pc' # "seqwait"
    BY <1>2, <2>2, SeqReturns
  <2>. QED
    BY <2>1, <2>2
<1>3. CASE SeqBack
  BY <1>3 DEF SeqBack, Passed, Advance
<1>4. CASE LevelStep
  BY <1>4 DEF LevelStep, LevelsDone
<1>5. CASE Launch
  BY <1>5, LaunchedStage DEF StartStage
<1>6. CASE Join
  BY <1>6 DEF Join, WaitOver, Failures, Reported
<1>7. ASSUME NEW s \in Stage, StageStep(s) PROVE OutcomeInv'
  <2>1. CASE Enter(s)
    BY <2>1 DEF Enter
  <2>2. CASE Finish(s)
    BY <2>2 DEF Finish, Fates
  <2>3. CASE TimeStage(s)
    BY <2>3 DEF TimeStage
  <2>4. CASE Record(s)
    BY <2>4 DEF Record, Errored
  <2>5. CASE Release(s)
    BY <2>5 DEF Release
  <2>6. CASE Done(s)
    BY <2>6 DEF Done
  <2>. QED
    BY <1>7, <2>1, <2>2, <2>3, <2>4, <2>5, <2>6 DEF StageStep
<1>8. CASE Cancel
  BY <1>8 DEF Cancel
<1>9. CASE UNCHANGED vars
  BY <1>9 DEF vars
<1>. QED
  BY <1>1, <1>2, <1>3, <1>4, <1>5, <1>6, <1>7, <1>8, <1>9 DEF Next, RunStep, Returned

\* Nothing ahead of Run's goroutine is started by another step than its own,
\* because the stages of an order, and of the levels, do not repeat.
LEMMA AheadKept == IInv /\ [Next]_vars => AheadInv'
<1>. SUFFICES ASSUME IInv, [Next]_vars PROVE AheadInv'
  OBVIOUS
<1>0. WellFormed(p, Stage) /\ lvl \in Nat /\ nxt \in Nat
  BY WellFormedPipeline DEF IInv, BaseTypes, ControlTypes
<1>00. /\ \A k \in DOMAIN p.ordered : p.ordered[k] \in Stage
       /\ \A l \in DOMAIN p.levels : LevelSet(l) \subseteq Stage
       /\ \A l \in DOMAIN p.levels : \A k \in DOMAIN p.levels[l] : p.levels[l][k] \in LevelSet(l)
  BY <1>0 DEF WellFormed, LevelSet, MemberOf
<1>1. CASE Begin
  BY <1>00, <1>1 DEF Begin, AheadInv, IInv, Sequential, LevelSet, MemberOf, input, scope, mapsv
<1>2. CASE SeqStep
  <2>1. CASE pc' = "seqwait"
    <3>1. Sequential
      BY <1>2, <2>1, StartedStage DEF AheadInv, IInv
    <3>2. ASSUME NEW k \in DOMAIN p.ordered, k > nxt PROVE stg'[p.ordered[k]] = "idle"
      <4>1. p.ordered[k] # p.ordered[nxt] /\ stg[p.ordered[k]] = "idle"
        BY <1>0, <1>2, <2>1, <3>2, StartedStage DEF AheadInv, IInv, WellFormed, NoRepeats
      <4>. QED
        BY <1>00, <1>2, <2>1, <4>1, StartedStage DEF StartStage, IInv, BaseTypes, StageTypes
    <3>. QED
      BY <1>2, <2>1, <3>1, <3>2, StartedStage DEF AheadInv, IInv, Sequential
  <2>2. CASE pc' # "seqwait"
    BY <1>2, <2>2, SeqReturns DEF AheadInv, Sequential
  <2>. QED
    BY <2>1, <2>2
<1>3. CASE SeqBack
  <2>1. /\ pc = "seqwait" /\ nxt \in DOMAIN p.ordered /\ Sequential
        /\ UNCHANGED <<p, stg>>
        /\ pc' = "returned" \/ (pc' = "seq" /\ nxt' = nxt + 1)
    BY <1>3 DEF SeqBack, Passed, Advance, Return, AheadInv, IInv, input
  <2>2. \A k \in DOMAIN p.ordered : k >= nxt + 1 => k > nxt
    BY <1>0 DEF WellFormed
  <2>. QED
    BY <2>1, <2>2 DEF AheadInv, IInv, Sequential
<1>4. CASE LevelStep
  <2>1. CASE pc' = "launch"
    <3>1. /\ pc = "level" /\ lvl \in DOMAIN p.levels /\ lvl' = lvl /\ p' = p /\ stg' = stg
          /\ nxt' = 1
      BY <1>0, <1>4, <2>1 DEF LevelStep, LevelsDone, Return, WellFormed, input, IInv, BaseTypes, ControlTypes
    <3>. QED
      BY <1>00, <2>1, <3>1 DEF AheadInv, IInv, Sequential, LevelSet, MemberOf
  <2>2. CASE pc' # "launch"
    BY <1>4, <2>2 DEF LevelStep, LevelsDone, Return, AheadInv, IInv, Sequential, input
  <2>. QED
    BY <2>1, <2>2
<1>5. CASE Launch
  <2> DEFINE t == p.levels[lvl][nxt]
  <2>1. /\ t \in LevelSet(lvl) /\ lvl \in DOMAIN p.levels /\ nxt \in DOMAIN p.levels[lvl]
        /\ pc = "launch" /\ pc' = "launch" /\ lvl' = lvl /\ nxt' = nxt + 1 /\ p' = p
        /\ ~Sequential
    BY <1>5, LaunchedStage DEF AheadInv, IInv
  <2>2. \A x \in Stage \ {t} : stg'[x] = stg[x]
    BY <1>5, LaunchedStage DEF StartStage, IInv, BaseTypes, StageTypes
  <2>3. ASSUME NEW l \in DOMAIN p.levels, l > lvl, NEW x \in LevelSet(l)
        PROVE  stg'[x] = "idle"
    <3>1. t \notin LevelSet(l)
      <4>1. l \in Nat /\ l # lvl
        BY <1>0, <2>3 DEF WellFormed
      <4>2. LevelSet(l) \cap LevelSet(lvl) = {}
        BY <1>0, <2>1, <2>3, <4>1 DEF WellFormed, LevelSet, Sequential
      <4>. QED
        BY <2>1, <4>2
    <3>. QED
      BY <1>00, <2>1, <2>2, <2>3, <3>1 DEF AheadInv, IInv
  <2>4. ASSUME NEW k \in DOMAIN p.levels[lvl], k >= nxt + 1
        PROVE  stg'[p.levels[lvl][k]] = "idle"
    <3>1. NoRepeats(p.levels[lvl]) /\ nxt # k /\ k >= nxt
      BY <1>0, <2>1, <2>4 DEF WellFormed, Sequential
    <3>2. p.levels[lvl][k] # t /\ p.levels[lvl][k] \in Stage
      BY <1>00, <2>1, <3>1 DEF NoRepeats
    <3>3. stg[p.levels[lvl][k]] = "idle"
      BY <2>1, <3>1 DEF AheadInv, IInv
    <3>. QED
      BY <2>2, <3>2, <3>3
  <2> HIDE DEF t
  <2>. QED
    BY <2>1, <2>3, <2>4 DEF AheadInv, Sequential, LevelSet
<1>6. CASE Join
  <2>1. CASE Failures = {}
    <3>1. /\ pc' = "level" /\ lvl' = lvl + 1 /\ p' = p /\ stg' = stg /\ pc = "launch"
          /\ ~Sequential
      BY <1>6, <2>1, JoinedLevel DEF AheadInv, IInv
    <3>2. ASSUME NEW l \in DOMAIN p.levels, l >= lvl + 1, NEW s \in LevelSet(l)
          PROVE  stg[s] = "idle"
      <4>1. l \in Nat /\ l > lvl
        BY <1>0, <3>2 DEF WellFormed
      <4>. QED
        BY <3>1, <3>2, <4>1 DEF AheadInv, IInv
    <3>3. /\ \A l \in DOMAIN p.levels : l > lvl + 1 => \A s \in LevelSet(l) : stg[s] = "idle"
          /\ lvl + 1 \in DOMAIN p.levels => \A s \in LevelSet(lvl + 1) : stg[s] = "idle"
      <4>1. \A l \in DOMAIN p.levels : l > lvl + 1 => l >= lvl + 1
        BY <1>0 DEF WellFormed
      <4>. QED
        BY <1>0, <3>2, <4>1
    <3>. QED
      BY <3>1, <3>3 DEF AheadInv, Sequential, LevelSet
  <2>2. CASE Failures # {}
    BY <1>6, <2>2, JoinReturns DEF AheadInv, IInv, Sequential, Join, WaitOver, Failures, Reported
  <2>. QED
    BY <2>1, <2>2
<1>7. ASSUME NEW s \in Stage, StageStep(s) PROVE AheadInv'
  <2>1. /\ UNCHANGED <<p, pc, lvl, nxt>> /\ stg[s] # "idle"
        /\ \A t \in Stage \ {s} : stg'[t] = stg[t]
    BY <1>7, StageFrame
  <2>2. \A t \in Stage : stg[t] = "idle" => stg'[t] = "idle"
    BY <2>1
  <2>. QED
    BY <1>00, <2>1, <2>2 DEF AheadInv, IInv, Sequential, LevelSet
<1>8. CASE Cancel
  BY <1>8 DEF Cancel, AheadInv, IInv, Sequential, LevelSet, input
<1>9. CASE UNCHANGED vars
  BY <1>9 DEF vars, AheadInv, IInv, Sequential, LevelSet, input
<1>. QED
  BY <1>1, <1>2, <1>3, <1>4, <1>5, <1>6, <1>7, <1>8, <1>9 DEF Next, RunStep, Returned

\* Run's goroutine starts stages of its order, or of a level, and both list the
\* same stages.
LEMMA MemberKept == IInv /\ [Next]_vars => MemberInv'
<1>. SUFFICES ASSUME IInv, [Next]_vars PROVE MemberInv'
  OBVIOUS
<1>. USE DEF MemberInv
<1>0. WellFormed(p, Stage)
  BY WellFormedPipeline DEF IInv, BaseTypes
<1>1. ASSUME UNCHANGED <<p, stg>> PROVE MemberInv'
  BY <1>1 DEF IInv
<1>2. CASE Begin \/ SeqBack \/ LevelStep \/ Join \/ Cancel \/ UNCHANGED vars
  <2>1. UNCHANGED <<p, stg>>
    BY <1>2 DEF Begin, SeqBack, LevelStep, Join, Cancel, vars, input
  <2>. QED
    BY <1>1, <2>1
<1>3. CASE SeqStep
  <2>1. CASE pc' = "seqwait"
    <3>1. p.ordered[nxt] \in MemberOf(p.ordered) /\ UNCHANGED p
      BY <1>3, <2>1, StartedStage DEF MemberOf
    <3>2. \A x \in Stage : x # p.ordered[nxt] => stg'[x] = stg[x]
      BY <1>3, <2>1, StartedStage DEF StartStage, IInv, BaseTypes, StageTypes
    <3>. QED
      BY <3>1, <3>2 DEF IInv
  <2>2. CASE pc' # "seqwait"
    BY <1>1, <1>3, <2>2, SeqReturns
  <2>. QED
    BY <2>1, <2>2
<1>4. CASE Launch
  <2>1. ~Sequential
    BY <1>4, LaunchedStage DEF IInv, AheadInv
  <2>2. p.levels[lvl][nxt] \in MemberOf(p.ordered) /\ UNCHANGED p
    BY <1>0, <1>4, <2>1, LaunchedStage DEF WellFormed, Sequential, LevelSet
  <2>3. \A x \in Stage : x # p.levels[lvl][nxt] => stg'[x] = stg[x]
    BY <1>4, LaunchedStage DEF StartStage, IInv, BaseTypes, StageTypes
  <2>. QED
    BY <2>2, <2>3 DEF IInv
<1>5. ASSUME NEW s \in Stage, StageStep(s) PROVE MemberInv'
  BY <1>5, StageFrame DEF IInv
<1>. QED
  BY <1>2, <1>3, <1>4, <1>5 DEF Next, RunStep, Returned

\* Run's goroutine moves on from a stage, or a level, only past a success.
LEMMA BehindKept == IInv /\ [Next]_vars => BehindInv'
<1>. SUFFICES ASSUME IInv, [Next]_vars PROVE BehindInv'
  OBVIOUS
<1>0. WellFormed(p, Stage) /\ lvl \in Nat \ {0} /\ nxt \in Nat \ {0}
  BY WellFormedPipeline DEF IInv, BaseTypes, ControlTypes
<1>00. /\ \A k \in DOMAIN p.ordered : p.ordered[k] \in Stage /\ k \in Nat \ {0}
       /\ \A l \in DOMAIN p.levels : LevelSet(l) \subseteq Stage /\ l \in Nat \ {0}
  BY <1>0 DEF WellFormed, LevelSet, MemberOf
<1>1. CASE Begin
  BY <1>00, <1>1 DEF Begin, BehindInv, AheadInv, IInv, LevelSet, input
<1>2. CASE SeqStep
  <2>1. CASE pc' = "seqwait"
    BY <1>2, <2>1, StartedStage DEF BehindInv, IInv
  <2>2. CASE pc' # "seqwait"
    BY <1>2, <2>2, SeqReturns DEF BehindInv
  <2>. QED
    BY <2>1, <2>2
<1>3. CASE SeqBack
  <2>1. CASE outcome[p.ordered[nxt]] = "ok"
    <3>1. /\ pc = "seqwait" /\ pc' = "seq" /\ nxt' = nxt + 1
          /\ UNCHANGED <<p, outcome>>
      BY <1>3, <2>1 DEF SeqBack, Passed, Advance, input
    <3>2. \A k \in DOMAIN p.ordered : k < nxt + 1 => k < nxt \/ k = nxt
      BY <1>0, <1>00
    <3>. QED
      BY <2>1, <3>1, <3>2 DEF BehindInv, IInv
  <2>2. CASE outcome[p.ordered[nxt]] # "ok"
    BY <1>3, <2>2 DEF SeqBack, Passed, Advance, Return, BehindInv
  <2>. QED
    BY <2>1, <2>2
<1>4. CASE LevelStep
  <2>1. pc = "level" /\ pc' \in {"launch", "returned"} /\ UNCHANGED <<p, lvl, outcome>>
    BY <1>4 DEF LevelStep, LevelsDone, Return, input
  <2>. QED
    BY <2>1 DEF BehindInv, IInv, LevelSet
<1>5. CASE Launch
  BY <1>5, LaunchedStage DEF BehindInv, IInv, LevelSet
<1>6. CASE Join
  <2>1. CASE Failures = {}
    <3>1. \A l \in DOMAIN p.levels : l < lvl + 1 => l < lvl \/ l = lvl
      BY <1>0, <1>00
    <3>2. /\ pc = "launch" /\ pc' = "level" /\ lvl' = lvl + 1 /\ UNCHANGED <<p, outcome>>
          /\ \A s \in LevelSet(lvl) : outcome[s] = "ok"
      BY <1>6, <2>1, JoinedLevel
    <3>. QED
      BY <3>1, <3>2 DEF BehindInv, IInv, LevelSet
  <2>2. CASE Failures # {}
    BY <1>6, <2>2, JoinReturns DEF BehindInv
  <2>. QED
    BY <2>1, <2>2
<1>7. ASSUME NEW s \in Stage, StageStep(s) PROVE BehindInv'
  <2>1. /\ UNCHANGED <<p, pc, lvl, nxt>>
        /\ \A t \in Stage : outcome[t] = "ok" => outcome'[t] = "ok"
    BY <1>7, StageFrame
  <2>. QED
    BY <1>00, <2>1 DEF BehindInv, IInv, LevelSet
<1>8. CASE Cancel
  BY <1>8 DEF Cancel, BehindInv, IInv, LevelSet, input
<1>9. CASE UNCHANGED vars
  BY <1>9 DEF vars, BehindInv, IInv, LevelSet, input
<1>. QED
  BY <1>1, <1>2, <1>3, <1>4, <1>5, <1>6, <1>7, <1>8, <1>9 DEF Next, RunStep, Returned

\* When a level begins, no stage of it has run and all before it succeeded, so
\* empty maps are right; each goroutine then fills them before it leaves.
LEMMA RecordKept == IInv /\ [Next]_vars => RecordInv'
<1>. SUFFICES ASSUME IInv, [Next]_vars PROVE RecordInv'
  OBVIOUS
<1>0. WellFormed(p, Stage) /\ lvl \in Nat \ {0}
  BY WellFormedPipeline DEF IInv, BaseTypes, ControlTypes
<1>1. CASE Begin
  BY <1>1 DEF Begin, RecordInv, IInv, mapsv
<1>2. CASE SeqStep
  <2>1. pc' # "launch" /\ UNCHANGED <<outcome, errs, panics>>
    BY <1>2 DEF SeqStep, Return, mapsv
  <2>. QED
    BY <2>1 DEF RecordInv, IInv
<1>3. CASE SeqBack
  <2>1. pc' # "launch" /\ UNCHANGED <<outcome, errs, panics>>
    BY <1>3 DEF SeqBack, Passed, Advance, Return, mapsv
  <2>. QED
    BY <2>1 DEF RecordInv, IInv
<1>4. CASE LevelStep
  <2>1. CASE pc' = "launch"
    <3>1. pc = "level" /\ UNCHANGED <<p, lvl, stg, outcome>> /\ errs' = {} /\ panics' = {}
      BY <1>4, <2>1 DEF LevelStep, LevelsDone, Return, input
    <3>2. ASSUME NEW s \in Stage, stg[s] # "idle" PROVE outcome[s] = "ok"
      <4>1. ~Sequential /\ s \in MemberOf(p.ordered)
        BY <3>1, <3>2 DEF IInv, AheadInv, MemberInv
      <4>2. PICK l \in DOMAIN p.levels : s \in LevelSet(l)
        BY <1>0, <4>1 DEF WellFormed, Sequential, LevelSet
      <4>3. l \in Nat /\ (l < lvl \/ l = lvl \/ l > lvl)
        BY <1>0 DEF WellFormed
      <4>4. l < lvl
        BY <3>1, <3>2, <4>2, <4>3 DEF IInv, AheadInv
      <4>. QED
        BY <3>1, <4>2, <4>4 DEF IInv, BehindInv
    <3>. QED
      BY <3>1, <3>2 DEF RecordInv
  <2>2. CASE pc' # "launch"
    BY <1>4, <2>2 DEF LevelStep, LevelsDone, Return, RecordInv, IInv, mapsv
  <2>. QED
    BY <2>1, <2>2
<1>5. CASE Launch
  <2>1. \A x \in Stage : stg'[x] \in {"unwinding", "leaving", "exited"} =>
          stg[x] \in {"unwinding", "leaving", "exited"}
    BY <1>5, LaunchedStage DEF StartStage, IInv, BaseTypes, StageTypes
  <2>. QED
    BY <1>5, <2>1, LaunchedStage DEF RecordInv, IInv
<1>6. CASE Join
  BY <1>6 DEF Join, WaitOver, Failures, Reported, Return, RecordInv, IInv, mapsv
<1>7. ASSUME NEW s \in Stage, StageStep(s) PROVE RecordInv'
  <2>. USE DEF RecordInv, IInv, OutcomeInv, BaseTypes, StageTypes, SetTypes, scope, mapsv
  <2>0. /\ \A t \in Stage : outcome[t] # "none" => outcome'[t] = outcome[t]
        /\ \A t \in Stage \ {s} : stg'[t] = stg[t] /\ outcome'[t] = outcome[t]
        /\ pc' = pc
    BY <1>7, StageFrame
  <2>1. CASE Enter(s) \/ Finish(s) \/ TimeStage(s)
    <3>1. UNCHANGED <<errs, panics>> /\ stg'[s] \notin {"unwinding", "leaving", "exited"}
      BY <2>1 DEF Enter, Finish, TimeStage
    <3>. QED
      BY <2>0, <3>1
  <2>2. CASE Record(s)
    BY <2>2 DEF Record, Errored
  <2>3. CASE Release(s)
    BY <2>3 DEF Release
  <2>4. CASE Done(s)
    BY <2>4 DEF Done
  <2>. QED
    BY <1>7, <2>1, <2>2, <2>3, <2>4 DEF StageStep
<1>8. CASE Cancel
  BY <1>8 DEF Cancel, RecordInv, IInv, mapsv
<1>9. CASE UNCHANGED vars
  BY <1>9 DEF vars, RecordInv, IInv, mapsv
<1>. QED
  BY <1>1, <1>2, <1>3, <1>4, <1>5, <1>6, <1>7, <1>8, <1>9 DEF Next, RunStep, Returned

\* A stage starts only when its dependencies, which come before it in the order
\* and in earlier levels, have succeeded; its own output lands as it succeeds.
LEMMA StartedKept == IInv /\ [Next]_vars => StartedInv'
<1>. SUFFICES ASSUME IInv, [Next]_vars PROVE StartedInv'
  OBVIOUS
<1>0. WellFormed(p, Stage) /\ lvl \in Nat \ {0} /\ nxt \in Nat \ {0}
  BY WellFormedPipeline DEF IInv, BaseTypes, ControlTypes
<1>1. ASSUME UNCHANGED <<p, stg, outcome, outputs>> PROVE StartedInv'
  BY <1>1 DEF StartedInv, IInv
<1>2. CASE Begin \/ SeqBack \/ LevelStep \/ Join \/ Cancel \/ UNCHANGED vars
  <2>1. UNCHANGED <<p, stg, outcome, outputs>>
    BY <1>2 DEF Begin, SeqBack, LevelStep, Join, Cancel, vars, input, scope
  <2>. QED
    BY <1>1, <2>1
<1>3. CASE SeqStep
  <2>1. CASE pc' = "seqwait"
    <3> DEFINE t == p.ordered[nxt]
    <3>1. /\ nxt \in DOMAIN p.ordered /\ pc = "seq" /\ UNCHANGED <<p, outcome, outputs>>
          /\ \A x \in Stage : x # t => stg'[x] = stg[x]
      BY <1>3, <2>1, StartedStage DEF StartStage, IInv, BaseTypes, StageTypes
    <3>2. ASSUME NEW d \in p.deps[t] PROVE outcome[d] = "ok"
      <4>1. PICK j \in 1 .. nxt - 1 : d = p.ordered[j]
        BY <1>0, <3>1 DEF WellFormed, Respects
      <4>2. j \in DOMAIN p.ordered /\ j < nxt
        BY <1>0, <3>1 DEF WellFormed
      <4>. QED
        BY <3>1, <4>1, <4>2 DEF IInv, BehindInv
    <3> HIDE DEF t
    <3>. QED
      BY <3>1, <3>2 DEF StartedInv, IInv
  <2>2. CASE pc' # "seqwait"
    BY <1>1, <1>3, <2>2, SeqReturns
  <2>. QED
    BY <2>1, <2>2
<1>4. CASE Launch
  <2> DEFINE t == p.levels[lvl][nxt]
  <2>1. /\ t \in LevelSet(lvl) /\ lvl \in DOMAIN p.levels /\ pc = "launch"
        /\ UNCHANGED <<p, outcome, outputs>>
        /\ \A x \in Stage : x # t => stg'[x] = stg[x]
    BY <1>4, LaunchedStage DEF StartStage, IInv, BaseTypes, StageTypes
  <2>2. ~Sequential
    BY <2>1 DEF IInv, AheadInv
  <2>3. ASSUME NEW d \in p.deps[t] PROVE outcome[d] = "ok"
    <3>1. PICK m \in 1 .. lvl - 1 : d \in LevelSet(m)
      BY <1>0, <2>1, <2>2 DEF WellFormed, Sequential, LevelSet
    <3>2. m \in DOMAIN p.levels /\ m < lvl
      BY <1>0, <2>1 DEF WellFormed
    <3>. QED
      BY <2>1, <3>1, <3>2 DEF IInv, BehindInv
  <2> HIDE DEF t
  <2>. QED
    BY <2>1, <2>3 DEF StartedInv, IInv
<1>5. ASSUME NEW s \in Stage, StageStep(s) PROVE StartedInv'
  <2>1. /\ UNCHANGED p /\ stg[s] # "idle"
        /\ \A t \in Stage \ {s} : stg'[t] = stg[t] /\ outcome'[t] = outcome[t]
        /\ \A t \in Stage : outcome[t] # "none" => outcome'[t] = outcome[t]
    BY <1>5, StageFrame
  <2>2. ASSUME NEW t \in Stage, stg'[t] # "idle", NEW d \in p.deps[t]
        PROVE  outcome'[d] = "ok"
    <3>1. outcome[d] = "ok"
      BY <2>1, <2>2 DEF StartedInv, IInv
    <3>2. d \in Stage
      BY <1>0, <2>2 DEF WellFormed
    <3>. QED
      BY <2>1, <3>1, <3>2
  <2>3. ASSUME NEW t \in Stage, outcome'[t] = "ok" PROVE t \in outputs'
    <3>1. CASE Finish(s)
      BY <2>1, <2>3, <3>1 DEF Finish, StartedInv, IInv, BaseTypes, StageTypes
    <3>2. CASE Enter(s)
      BY <2>1, <2>3, <3>2 DEF Enter, StartedInv, IInv, BaseTypes, StageTypes
    <3>3. CASE TimeStage(s) \/ Record(s) \/ Release(s) \/ Done(s)
      <4>1. UNCHANGED <<outcome, outputs>>
        BY <3>3 DEF TimeStage, Record, Errored, Release, Done, scope
      <4>. QED
        BY <2>3, <4>1 DEF StartedInv, IInv
    <3>. QED
      BY <1>5, <3>1, <3>2, <3>3 DEF StageStep
  <2>. QED
    BY <2>1, <2>2, <2>3 DEF StartedInv
<1>. QED
  BY <1>2, <1>3, <1>4, <1>5 DEF Next, RunStep, Returned

\* Execute takes its snapshot of outputs after its dependencies' have landed.
LEMMA VisibleKept == IInv /\ [Next]_vars => DepsVisible'
<1>. SUFFICES ASSUME IInv, [Next]_vars PROVE DepsVisible'
  OBVIOUS
<1>. USE DEF DepsVisible
<1>1. ASSUME UNCHANGED <<p, seen>>,
             \A t \in Stage : stg'[t] = "running" => stg[t] = "running"
      PROVE  DepsVisible'
  BY <1>1 DEF IInv
<1>2. CASE Begin \/ SeqBack \/ LevelStep \/ Join \/ Cancel \/ UNCHANGED vars
  <2>1. UNCHANGED <<p, seen, stg>>
    BY <1>2 DEF Begin, SeqBack, LevelStep, Join, Cancel, vars, input, scope
  <2>. QED
    BY <1>1, <2>1
<1>3. CASE SeqStep
  <2>1. CASE pc' = "seqwait"
    BY <1>1, <1>3, <2>1, StartedStage DEF StartStage, IInv, BaseTypes, StageTypes
  <2>2. CASE pc' # "seqwait"
    BY <1>1, <1>3, <2>2, SeqReturns DEF SeqStep
  <2>. QED
    BY <2>1, <2>2
<1>4. CASE Launch
  BY <1>1, <1>4, LaunchedStage DEF StartStage, IInv, BaseTypes, StageTypes
<1>5. ASSUME NEW s \in Stage, StageStep(s) PROVE DepsVisible'
  <2>. USE DEF IInv, BaseTypes, StageTypes, input, scope
  <2>1. CASE Enter(s)
    <3>1. CASE stg'[s] = "running"
      <4>1. /\ UNCHANGED p /\ stg[s] # "idle" /\ seen'[s] = outputs
            /\ \A t \in Stage \ {s} : stg'[t] = stg[t] /\ seen'[t] = seen[t]
        BY <2>1, <3>1 DEF Enter
      <4>2. p.deps[s] \subseteq Stage
        BY WellFormedPipeline DEF WellFormed
      <4>3. p.deps[s] \subseteq outputs
        BY <4>1, <4>2 DEF StartedInv
      <4>. QED
        BY <4>1, <4>3
    <3>2. CASE stg'[s] # "running"
      BY <1>1, <2>1, <3>2 DEF Enter
    <3>. QED
      BY <3>1, <3>2
  <2>2. CASE Finish(s)
    BY <1>1, <2>2 DEF Finish
  <2>3. CASE TimeStage(s) \/ Record(s) \/ Release(s) \/ Done(s)
    BY <1>1, <2>3 DEF TimeStage, Record, Errored, Release, Done
  <2>. QED
    BY <1>5, <2>1, <2>2, <2>3 DEF StageStep
<1>. QED
  BY <1>2, <1>3, <1>4, <1>5 DEF Next, RunStep, Returned
-----------------------------------------------------------------------------
\* The inductive invariant holds before Run begins.
LEMMA InitIInv == Init => IInv
<1>. SUFFICES ASSUME Init PROVE IInv
  OBVIOUS
<1>1. pc = "begin" /\ lvl = 1 /\ nxt = 1 /\ slots = 0 /\ cancelled = FALSE /\ concurrent = FALSE
  BY DEF Init
<1>2. ControlTypes
  <2>1. cancelled \in BOOLEAN /\ concurrent \in BOOLEAN
    BY <1>1
  <2>2. lvl \in Nat \ {0} /\ nxt \in Nat \ {0} /\ slots \in Int
    BY <1>1
  <2>. QED
    BY <1>1, <2>1, <2>2 DEF ControlTypes
<1>. USE DEF Init
<1>3. StageTypes
  BY DEF StageTypes, Fates
<1>4. SetTypes /\ p \in Pipelines
  BY DEF SetTypes
<1>5. OutcomeInv /\ MemberInv /\ RecordInv /\ DepsVisible
  BY DEF OutcomeInv, MemberInv, RecordInv, DepsVisible
<1>6. AheadInv /\ BehindInv
  BY <1>1 DEF AheadInv, BehindInv
<1>7. StartedInv
  BY DEF StartedInv
<1>. QED
  BY <1>2, <1>3, <1>4, <1>5, <1>6, <1>7 DEF IInv, BaseTypes

\* The inductive invariant: where Run's goroutine is, what is behind it and what
\* a wave has recorded.
THEOREM InductiveInvariant == Spec => []IInv
<1>1. IInv /\ [Next]_vars => IInv'
  BY TypesKept, OutcomeKept, MemberKept, AheadKept, BehindKept, RecordKept, StartedKept,
     VisibleKept
  DEF IInv
<1>. QED
  BY <1>1, InitIInv, PTL DEF Spec

\* A stage evaluates only once its dependencies' outputs are in the Scope, for
\* every graph, every bound and every interleaving of its goroutines.
THEOREM SeesDependencies == Spec => []DepsVisible
<1>1. IInv => DepsVisible
  BY DEF IInv
<1>. QED
  BY <1>1, InductiveInvariant, PTL

\* The stage a failed join names is a stage of the run order that failed.
LEMMA JoinedFailure ==
  ASSUME IInv, Join, Failures # {}
  PROVE  LET i == FirstIndex(p.ordered, errs \union panics)
         IN  /\ i \in DOMAIN p.ordered
             /\ p.ordered[i] \in errs \union panics
             /\ outcome[p.ordered[i]] \in {"err", "ctx", "panic"}
<1>1. p.ordered \in Seq(Stage)
  BY WellFormedPipeline DEF WellFormed, IInv, BaseTypes
<1>2. PICK f \in errs \union panics : TRUE
  BY DEF Failures
<1>3. f \in Stage /\ stg[f] # "idle"
  BY <1>2 DEF IInv, BaseTypes, SetTypes, RecordInv, OutcomeInv
<1>4. \E k \in DOMAIN p.ordered : p.ordered[k] \in errs \union panics
  BY <1>2, <1>3 DEF IInv, MemberInv, MemberOf
<1> DEFINE i == FirstIndex(p.ordered, errs \union panics)
<1>5. i \in DOMAIN p.ordered /\ p.ordered[i] \in errs \union panics
  BY <1>1, <1>4, FirstIndexIs
<1>6. outcome[p.ordered[i]] \in {"err", "ctx", "panic"}
  BY <1>5 DEF IInv, RecordInv
<1>. QED
  BY <1>5, <1>6

\* Every value Run returns is nil, ctx's error, a stage's error or its panic.
THEOREM TypeCorrect == Spec => []TypeOK
<1>1. Init => ResultType
  BY DEF Init, ResultType, NoResult
<1>2. ASSUME IInv, ResultType, [Next]_vars PROVE ResultType'
  <2>. USE DEF ResultType
  <2>1. ASSUME UNCHANGED result PROVE ResultType'
    BY <1>2, <2>1
  <2>2. CASE SeqStep
    BY <1>2, <2>2 DEF SeqStep, Return
  <2>3. CASE SeqBack
    <3>1. CASE outcome[p.ordered[nxt]] = "ok"
      BY <2>1, <2>3, <3>1 DEF SeqBack, Passed, Advance
    <3>2. CASE outcome[p.ordered[nxt]] # "ok"
      <4> DEFINE s == p.ordered[nxt]
      <4>1. s \in Stage /\ stg[s] \in {"returned", "panicking"}
        <5>1. nxt \in DOMAIN p.ordered /\ stg[s] \in {"returned", "panicking"}
          BY <1>2, <2>3 DEF SeqBack, Passed, Advance, IInv, AheadInv
        <5>2. p.ordered \in Seq(Stage)
          BY <1>2, WellFormedPipeline DEF WellFormed, IInv, BaseTypes
        <5>. QED
          BY <5>1, <5>2
      <4>2. outcome[s] \in {"err", "ctx", "panic"}
        BY <1>2, <3>2, <4>1 DEF IInv, OutcomeInv, BaseTypes, StageTypes, Fates
      <4>3. result' = [kind |-> outcome[s], stage |-> s]
        BY <2>3, <3>2 DEF SeqBack, Passed, Advance, Return
      <4>. QED
        BY <4>2, <4>3
    <3>. QED
      BY <3>1, <3>2
  <2>4. CASE LevelStep
    BY <1>2, <2>4 DEF LevelStep, LevelsDone, Return
  <2>5. CASE Join
    <3>1. CASE Failures = {}
      BY <1>2, <2>1, <2>5, <3>1, JoinedLevel
    <3>2. CASE Failures # {}
      <4> DEFINE s == p.ordered[FirstIndex(p.ordered, errs \union panics)]
      <4>1. outcome[s] \in {"err", "ctx", "panic"}
        BY <1>2, <2>5, <3>2, JoinedFailure
      <4>2. result' = [kind |-> IF s \in panics THEN "panic" ELSE outcome[s], stage |-> s]
        BY <2>5, <3>2 DEF Join, WaitOver, Failures, Reported, Return
      <4> HIDE DEF s
      <4>. QED
        BY <4>1, <4>2
    <3>. QED
      BY <3>1, <3>2
  <2>6. ASSUME NEW s \in Stage, StageStep(s) PROVE ResultType'
    BY <1>2, <2>1, <2>6, StageFrame
  <2>7. CASE Begin \/ Launch \/ Cancel \/ UNCHANGED vars
    BY <2>1, <2>7 DEF Begin, Launch, TokenFree, Advance, Cancel, vars
  <2>. QED
    BY <1>2, <2>2, <2>3, <2>4, <2>5, <2>6, <2>7 DEF Next, RunStep, Returned
<1>3. IInv /\ ResultType => TypeOK
  BY DEF IInv, BaseTypes, TypeOK
<1>. QED
  BY <1>1, <1>2, <1>3, InductiveInvariant, PTL DEF Spec
-----------------------------------------------------------------------------
\* Execution is over behind Run's goroutine, and everywhere once Run returned.
QuietInv ==
  /\ Sequential => \A s \in Stage : stg[s] \notin {"unwinding", "leaving", "exited"}
  /\ pc \in {"seq", "seqwait"} =>
       \A k \in DOMAIN p.ordered : k < nxt => stg[p.ordered[k]] = "returned"
  /\ pc \in {"level", "launch"} =>
       \A l \in DOMAIN p.levels : l < lvl => \A s \in LevelSet(l) : stg[s] = "exited"
  /\ NoLeak

\* Where a stage of the pipeline is, relative to Run's goroutine.
LEMMA SeqPlaces ==
  ASSUME IInv, Sequential, pc \in {"seq", "seqwait"}, NEW s \in Stage, stg[s] # "idle"
  PROVE  \E k \in DOMAIN p.ordered : s = p.ordered[k] /\ k <= nxt /\ (pc = "seq" => k < nxt)
<1>1. PICK k \in DOMAIN p.ordered : s = p.ordered[k]
  BY DEF IInv, MemberInv, MemberOf
<1>2. k \in Nat /\ nxt \in Nat
  BY WellFormedPipeline DEF WellFormed, IInv, BaseTypes, ControlTypes
<1>3. k <= nxt /\ (pc = "seq" => k < nxt)
  BY <1>1, <1>2 DEF IInv, AheadInv
<1>. QED
  BY <1>1, <1>3

\* The same of a wave run.
LEMMA WavePlaces ==
  ASSUME IInv, ~Sequential, pc \in {"level", "launch"}, NEW s \in Stage, stg[s] # "idle"
  PROVE  \E l \in DOMAIN p.levels : s \in LevelSet(l) /\ l <= lvl /\ (pc = "level" => l < lvl)
<1>1. PICK l \in DOMAIN p.levels : s \in LevelSet(l)
  BY WellFormedPipeline DEF WellFormed, IInv, BaseTypes, MemberInv, Sequential, LevelSet
<1>2. l \in Nat /\ lvl \in Nat
  BY WellFormedPipeline DEF WellFormed, IInv, BaseTypes, ControlTypes
<1>3. l <= lvl /\ (pc = "level" => l < lvl)
  BY <1>1, <1>2 DEF IInv, AheadInv
<1>. QED
  BY <1>1, <1>3

\* A stage that is over does not move.
LEMMA StageMoves ==
  ASSUME IInv, QuietInv, NEW s \in Stage, StageStep(s)
  PROVE  /\ stg[s] \notin {"idle", "exited"}
         /\ Sequential => /\ stg[s] \in {"spawned", "running", "timing"}
                          /\ stg'[s] \notin {"unwinding", "leaving", "exited"}
<1>. USE DEF IInv, BaseTypes, StageTypes, QuietInv
<1>1. CASE Enter(s)
  BY <1>1 DEF Enter
<1>2. CASE Finish(s)
  BY <1>2 DEF Finish
<1>3. CASE TimeStage(s)
  BY <1>3 DEF TimeStage
<1>4. CASE Record(s)
  BY <1>4 DEF Record, Errored
<1>5. CASE Release(s)
  BY <1>5 DEF Release
<1>6. CASE Done(s)
  BY <1>6 DEF Done
<1>. QED
  BY <1>1, <1>2, <1>3, <1>4, <1>5, <1>6 DEF StageStep

\* No step leaves a goroutine of an earlier level, or of a run that is over, alive.
LEMMA QuietKept == IInv /\ QuietInv /\ [Next]_vars => QuietInv'
<1>. SUFFICES ASSUME IInv, QuietInv, [Next]_vars PROVE QuietInv'
  OBVIOUS
<1>0. WellFormed(p, Stage) /\ lvl \in Nat \ {0} /\ nxt \in Nat \ {0}
  BY WellFormedPipeline DEF IInv, BaseTypes, ControlTypes
<1>00. /\ \A k \in DOMAIN p.ordered : p.ordered[k] \in Stage /\ k \in Nat \ {0}
       /\ \A l \in DOMAIN p.levels : LevelSet(l) \subseteq Stage /\ l \in Nat \ {0}
  BY <1>0 DEF WellFormed, LevelSet, MemberOf
<1>1. CASE Begin
  BY <1>00, <1>1 DEF Begin, QuietInv, AheadInv, IInv, NoLeak, Sequential, LevelSet, input
<1>2. CASE SeqStep
  <2>1. CASE pc' = "seqwait"
    <3> DEFINE t == p.ordered[nxt]
    <3>1. /\ Sequential /\ pc = "seq" /\ nxt \in DOMAIN p.ordered /\ UNCHANGED <<p, nxt>>
          /\ t \in Stage /\ stg[t] = "idle"
          /\ stg'[t] = "spawned" /\ \A x \in Stage \ {t} : stg'[x] = stg[x]
      BY <1>2, <2>1, StartedStage DEF StartStage, IInv, BaseTypes, StageTypes, AheadInv
    <3>2. ASSUME NEW k \in DOMAIN p.ordered, k < nxt PROVE stg'[p.ordered[k]] = "returned"
      <4>1. stg[p.ordered[k]] = "returned"
        BY <3>1, <3>2 DEF QuietInv
      <4>. QED
        BY <1>00, <3>1, <4>1
    <3> HIDE DEF t
    <3>. QED
      BY <2>1, <3>1, <3>2 DEF QuietInv, NoLeak, Sequential
  <2>2. CASE pc' # "seqwait"
    <3>1. /\ Sequential /\ pc = "seq" /\ pc' = "returned" /\ UNCHANGED <<p, stg>>
      BY <1>2, <2>2, SeqReturns DEF SeqStep, IInv, AheadInv
    <3>2. ASSUME NEW s \in Stage, stg[s] # "idle" PROVE stg[s] = "returned"
      BY <3>1, <3>2, SeqPlaces DEF QuietInv
    <3>. QED
      BY <3>1, <3>2 DEF QuietInv, NoLeak, Sequential
  <2>. QED
    BY <2>1, <2>2
<1>3. CASE SeqBack
  <2> DEFINE t == p.ordered[nxt]
  <2>1. /\ Sequential /\ pc = "seqwait" /\ UNCHANGED <<p, stg>>
        /\ nxt \in DOMAIN p.ordered /\ t \in Stage /\ stg[t] \in {"returned", "panicking"}
    BY <1>00, <1>3 DEF SeqBack, Passed, Advance, IInv, AheadInv, input
  <2>2. CASE outcome[t] = "ok"
    <3>1. pc' = "seq" /\ nxt' = nxt + 1 /\ stg[t] = "returned"
      BY <1>3, <2>1, <2>2 DEF SeqBack, Passed, Advance, IInv, OutcomeInv
    <3>2. \A k \in DOMAIN p.ordered : k < nxt + 1 => k < nxt \/ k = nxt
      BY <1>0, <1>00
    <3>3. \A k \in DOMAIN p.ordered : k < nxt + 1 => stg[p.ordered[k]] = "returned"
      BY <2>1, <3>1, <3>2 DEF QuietInv
    <3>. QED
      BY <2>1, <3>1, <3>3 DEF QuietInv, NoLeak, Sequential
  <2>3. CASE outcome[t] # "ok"
    <3>1. pc' = "returned"
      BY <1>3, <2>3 DEF SeqBack, Passed, Advance, Return
    <3>2. ASSUME NEW s \in Stage, stg[s] # "idle" PROVE stg[s] \in {"returned", "panicking"}
      <4>1. PICK k \in DOMAIN p.ordered : s = p.ordered[k] /\ k <= nxt
        BY <2>1, <3>2, SeqPlaces
      <4>2. k < nxt \/ k = nxt
        BY <1>0, <1>00, <4>1
      <4>. QED
        BY <2>1, <4>1, <4>2 DEF QuietInv
    <3>. QED
      BY <2>1, <3>1, <3>2 DEF QuietInv, NoLeak, Sequential
  <2>. QED
    BY <2>2, <2>3
<1>4. CASE LevelStep
  <2>1. ~Sequential /\ pc = "level" /\ pc' \in {"launch", "returned"} /\ UNCHANGED <<p, stg, lvl>>
    BY <1>4 DEF LevelStep, LevelsDone, Return, IInv, AheadInv, input
  <2>2. ASSUME NEW s \in Stage, stg[s] # "idle" PROVE stg[s] = "exited"
    BY <2>1, <2>2, WavePlaces DEF QuietInv
  <2>. QED
    BY <2>1, <2>2 DEF QuietInv, NoLeak, Sequential, LevelSet
<1>5. CASE Launch
  <2> DEFINE t == p.levels[lvl][nxt]
  <2>1. /\ ~Sequential /\ pc = "launch" /\ UNCHANGED <<p, pc, lvl>>
        /\ t \in Stage /\ stg[t] = "idle"
        /\ \A x \in Stage \ {t} : stg'[x] = stg[x]
    BY <1>5, LaunchedStage DEF StartStage, IInv, BaseTypes, StageTypes, AheadInv
  <2>2. ASSUME NEW x \in Stage, stg[x] = "exited" PROVE stg'[x] = "exited"
    BY <2>1, <2>2
  <2> HIDE DEF t
  <2>. QED
    BY <1>00, <2>1, <2>2 DEF QuietInv, NoLeak, Sequential, LevelSet
<1>6. CASE Join
  <2>1. ~Sequential /\ pc = "launch" /\ lvl \in DOMAIN p.levels /\ UNCHANGED <<p, stg>>
        /\ \A s \in LevelSet(lvl) : stg[s] = "exited"
    BY <1>6 DEF Join, WaitOver, Failures, Reported, IInv, AheadInv, LevelSet, input
  <2>2. \A l \in DOMAIN p.levels : l <= lvl => \A s \in LevelSet(l) : stg[s] = "exited"
    <3>1. \A l \in DOMAIN p.levels : l <= lvl => l < lvl \/ l = lvl
      BY <1>0, <1>00
    <3>. QED
      BY <2>1, <3>1 DEF QuietInv
  <2>3. CASE Failures = {}
    <3>1. pc' = "level" /\ lvl' = lvl + 1
      BY <1>6, <2>3, JoinedLevel
    <3>2. \A l \in DOMAIN p.levels : l < lvl + 1 => l <= lvl
      BY <1>0, <1>00
    <3>. QED
      BY <2>1, <2>2, <3>1, <3>2 DEF QuietInv, NoLeak, Sequential, LevelSet
  <2>4. CASE Failures # {}
    <3>1. pc' = "returned"
      BY <1>6, <2>4, JoinReturns
    <3>2. ASSUME NEW s \in Stage, stg[s] # "idle" PROVE stg[s] = "exited"
      BY <2>1, <2>2, <3>2, WavePlaces
    <3>. QED
      BY <2>1, <3>1, <3>2 DEF QuietInv, NoLeak, Sequential
  <2>. QED
    BY <2>3, <2>4
<1>7. ASSUME NEW s \in Stage, StageStep(s) PROVE QuietInv'
  <2>1. /\ UNCHANGED <<p, pc, lvl, nxt>>
        /\ \A t \in Stage \ {s} : stg'[t] = stg[t]
        /\ stg[s] \notin {"idle", "exited"}
        /\ Sequential => /\ stg[s] \in {"spawned", "running", "timing"}
                         /\ stg'[s] \notin {"unwinding", "leaving", "exited"}
    BY <1>7, StageFrame, StageMoves
  <2>2. pc # "returned"
    BY <2>1 DEF QuietInv, NoLeak
  <2>3. \A t \in Stage : stg[t] = "exited" => stg'[t] = "exited"
    BY <2>1
  <2>4. Sequential => \A t \in Stage : stg[t] = "returned" => stg'[t] = "returned"
    BY <2>1
  <2>5. pc \in {"seq", "seqwait"} => Sequential
    BY DEF IInv, AheadInv
  <2>. QED
    BY <1>00, <2>1, <2>2, <2>3, <2>4, <2>5 DEF QuietInv, NoLeak, Sequential, LevelSet
<1>8. CASE Cancel
  BY <1>8 DEF Cancel, QuietInv, NoLeak, Sequential, LevelSet, input
<1>9. CASE UNCHANGED vars
  BY <1>9 DEF vars, QuietInv, NoLeak, Sequential, LevelSet, input
<1>. QED
  BY <1>1, <1>2, <1>3, <1>4, <1>5, <1>6, <1>7, <1>8, <1>9 DEF Next, RunStep, Returned

\* Run waits for what it starts, at every moment of a run.
LEMMA QuietInvariant == Spec => []QuietInv
<1>1. Init => QuietInv
  <2>1. ASSUME Init PROVE pc = "begin" /\ \A s \in Stage : stg[s] = "idle"
    BY <2>1 DEF Init
  <2>. QED
    BY <2>1 DEF QuietInv, NoLeak
<1>. QED
  BY <1>1, QuietKept, InductiveInvariant, PTL DEF Spec

\* Whatever fails, panics or is canceled, Run outlives every goroutine it
\* started.
THEOREM NothingLeaks == Spec => []NoLeak
<1>1. QuietInv => NoLeak
  BY DEF QuietInv
<1>. QED
  BY <1>1, QuietInvariant, PTL
-----------------------------------------------------------------------------
\* The tokens in the semaphore are those of the goroutines from launch until
\* their deferred release.
Holding == {s \in Stage : stg[s] \in {"spawned", "running", "timing", "returned", "panicking",
                                      "unwinding"}}

SlotsInv == Bounded => slots = Cardinality(Holding) /\ slots <= p.maxParallel

\* The tokens in the channel stay those of the goroutines that hold one.
LEMMA SlotsKept == IInv /\ QuietInv /\ SlotsInv /\ [Next]_vars => SlotsInv'
<1>. SUFFICES ASSUME IInv, QuietInv, SlotsInv, [Next]_vars, Bounded' PROVE SlotsInv'
  BY DEF SlotsInv
<1>0. UNCHANGED p /\ Bounded /\ ~Sequential /\ p.maxParallel \in Int /\ slots \in Int
  <2>1. UNCHANGED p
    BY StageFrame DEF Next, RunStep, Returned, Begin, SeqStep, SeqBack, LevelStep, Launch,
       Join, Cancel, vars, input
  <2>. QED
    BY <2>1, WellFormedPipeline DEF Bounded, Sequential, WellFormed, IInv, BaseTypes, ControlTypes
<1>1. Holding \subseteq Stage /\ IsFiniteSet(Holding)
  BY RunAssumption, FS_Subset DEF Holding
<1>2. ASSUME UNCHANGED <<Holding, slots>> PROVE SlotsInv'
  BY <1>0, <1>2 DEF SlotsInv
<1>3. CASE Begin \/ Join \/ Cancel \/ UNCHANGED vars
  <2>1. UNCHANGED <<stg, slots>>
    BY <1>3 DEF Begin, Join, WaitOver, Failures, Reported, Cancel, vars
  <2>. QED
    BY <1>2, <2>1 DEF Holding
<1>4. CASE SeqStep \/ SeqBack
  BY <1>0, <1>4 DEF SeqStep, SeqBack, Passed, Advance, IInv, AheadInv
<1>5. CASE LevelStep
  <2>1. CASE pc' = "launch"
    <3>1. slots' = 0 /\ UNCHANGED stg /\ pc = "level"
      BY <1>5, <2>1 DEF LevelStep, LevelsDone, Return
    <3>2. ASSUME NEW s \in Stage, stg[s] # "idle" PROVE stg[s] = "exited"
      BY <1>0, <3>1, <3>2, WavePlaces DEF QuietInv
    <3>3. Holding' = {}
      BY <3>1, <3>2 DEF Holding
    <3>4. Cardinality(Holding') = 0
      BY <3>3, FS_EmptySet
    <3>. QED
      BY <1>0, <3>1, <3>4 DEF SlotsInv, Bounded
  <2>2. CASE pc' # "launch"
    <3>1. UNCHANGED <<stg, slots>>
      BY <1>5, <2>2 DEF LevelStep, LevelsDone
    <3>. QED
      BY <1>2, <3>1 DEF Holding
  <2>. QED
    BY <2>1, <2>2
<1>6. CASE Launch
  <2> DEFINE t == p.levels[lvl][nxt]
  <2>1. /\ t \in Stage /\ stg[t] = "idle" /\ stg'[t] = "spawned"
        /\ \A x \in Stage \ {t} : stg'[x] = stg[x]
    BY <1>6, LaunchedStage DEF StartStage, IInv, BaseTypes, StageTypes
  <2>2. slots' = slots + 1 /\ slots < p.maxParallel
    BY <1>0, <1>6 DEF Launch, TokenFree, Advance
  <2> HIDE DEF t
  <2>3. t \notin Holding /\ Holding' = Holding \union {t}
    BY <2>1 DEF Holding
  <2>4. Cardinality(Holding') = Cardinality(Holding) + 1
    BY <1>1, <2>3, FS_AddElement
  <2>. QED
    BY <1>0, <2>2, <2>4 DEF SlotsInv
<1>7. ASSUME NEW s \in Stage, StageStep(s) PROVE SlotsInv'
  <2>. USE DEF IInv, BaseTypes, StageTypes
  <2>1. CASE Enter(s) \/ Finish(s) \/ TimeStage(s) \/ Record(s)
    <3>1. /\ UNCHANGED slots /\ s \in Holding
          /\ \A x \in Stage \ {s} : stg'[x] = stg[x]
          /\ stg'[s] \in {"running", "timing", "returned", "panicking", "unwinding"}
      BY <2>1 DEF Enter, Finish, TimeStage, Record, Errored, Holding
    <3>2. Holding' = Holding
      BY <3>1 DEF Holding
    <3>. QED
      BY <1>2, <3>1, <3>2
  <2>2. CASE Release(s)
    <3>1. /\ slots' = slots - 1 /\ s \in Holding
          /\ \A x \in Stage \ {s} : stg'[x] = stg[x]
          /\ stg'[s] = "leaving"
      BY <1>0, <2>2 DEF Release, Holding
    <3>2. Holding' = Holding \ {s}
      BY <3>1 DEF Holding
    <3>3. Cardinality(Holding') = Cardinality(Holding) - 1
      BY <1>1, <3>1, <3>2, FS_RemoveElement
    <3>. QED
      BY <1>0, <3>1, <3>3 DEF SlotsInv
  <2>3. CASE Done(s)
    <3>1. /\ UNCHANGED slots /\ stg[s] = "leaving" /\ stg'[s] = "exited"
          /\ \A x \in Stage \ {s} : stg'[x] = stg[x]
      BY <2>3 DEF Done
    <3>2. Holding' = Holding
      BY <3>1 DEF Holding
    <3>. QED
      BY <1>2, <3>1, <3>2
  <2>. QED
    BY <1>7, <2>1, <2>2, <2>3 DEF StageStep
<1>. QED
  BY <1>3, <1>4, <1>5, <1>6, <1>7 DEF Next, RunStep, Returned

\* The tokens are counted at every moment of a run.
LEMMA SlotsInvariant == Spec => []SlotsInv
<1>1. Init => SlotsInv
  <2>1. ASSUME Init PROVE slots = 0 /\ Holding = {} /\ p \in Pipelines
    BY <2>1 DEF Init, Holding
  <2>2. ASSUME Init, Bounded PROVE slots <= p.maxParallel
    BY <2>1, <2>2, WellFormedPipeline DEF WellFormed, Bounded
  <2>. QED
    BY <2>1, <2>2, FS_EmptySet DEF SlotsInv
<1>. QED
  BY <1>1, SlotsKept, InductiveInvariant, QuietInvariant, PTL DEF Spec

\* WithMaxParallel(n) never lets more than n stages execute at the same time.
THEOREM BoundHolds == Spec => []SemaphoreBound
<1>2. IInv /\ SlotsInv => SemaphoreBound
  <2>. SUFFICES ASSUME IInv, SlotsInv, Bounded
                PROVE  Cardinality({s \in Stage : stg[s] \in {"spawned", "running", "timing"}})
                         <= p.maxParallel
    BY DEF SemaphoreBound
  <2> DEFINE Executing == {s \in Stage : stg[s] \in {"spawned", "running", "timing"}}
  <2>1. Executing \subseteq Holding /\ IsFiniteSet(Holding)
    BY RunAssumption, FS_Subset DEF Holding
  <2>2. Cardinality(Executing) <= Cardinality(Holding)
    BY <2>1, FS_Subset
  <2>3. Cardinality(Executing) \in Nat /\ Cardinality(Holding) \in Nat
    BY <2>1, FS_Subset, FS_CardinalityType
  <2>4. Cardinality(Holding) <= p.maxParallel /\ p.maxParallel \in Int
    BY WellFormedPipeline DEF SlotsInv, WellFormed, IInv, BaseTypes
  <2> HIDE DEF Executing
  <2>5. Cardinality(Executing) <= p.maxParallel
    BY <2>2, <2>3, <2>4
  <2>. QED
    BY <2>5 DEF Executing
<1>. QED
  BY <1>2, SlotsInvariant, InductiveInvariant, PTL
-----------------------------------------------------------------------------
\* A stage whose Execute is under way is the one, or of the level, Run is at.
LEMMA SeqMover ==
  ASSUME IInv, QuietInv, Sequential, NEW s \in Stage, stg[s] \in {"spawned", "running", "timing"}
  PROVE  pc = "seqwait" /\ nxt \in DOMAIN p.ordered /\ s = p.ordered[nxt]
<1>1. pc \in {"seq", "seqwait"}
  BY DEF IInv, AheadInv, QuietInv, NoLeak
<1>2. PICK k \in DOMAIN p.ordered : s = p.ordered[k] /\ k <= nxt /\ (pc = "seq" => k < nxt)
  BY <1>1, SeqPlaces
<1>3. ~(k < nxt)
  BY <1>1, <1>2 DEF QuietInv
<1>4. k = nxt
  BY <1>2, <1>3, WellFormedPipeline DEF WellFormed, IInv, BaseTypes, ControlTypes
<1>. QED
  BY <1>1, <1>2, <1>3, <1>4

\* The same of a wave run.
LEMMA WaveMover ==
  ASSUME IInv, QuietInv, ~Sequential, NEW s \in Stage, stg[s] \notin {"idle", "exited"}
  PROVE  pc = "launch" /\ lvl \in DOMAIN p.levels /\ s \in LevelSet(lvl)
<1>1. pc \in {"level", "launch"}
  BY DEF IInv, AheadInv, QuietInv, NoLeak
<1>2. PICK l \in DOMAIN p.levels : s \in LevelSet(l) /\ l <= lvl /\ (pc = "level" => l < lvl)
  BY <1>1, WavePlaces
<1>3. ~(l < lvl)
  BY <1>1, <1>2 DEF QuietInv
<1>4. l = lvl
  BY <1>2, <1>3, WellFormedPipeline DEF WellFormed, IInv, BaseTypes, ControlTypes
<1>. QED
  BY <1>1, <1>2, <1>3, <1>4

\* Only a stage that is under way fails.
LEMMA NewFailure ==
  ASSUME IInv, [Next]_vars, NEW f \in Failed', f \notin Failed
  PROVE  /\ StageStep(f) /\ f \in Stage /\ stg[f] \in {"spawned", "running"}
         /\ UNCHANGED <<p, pc, lvl, nxt>>
         /\ \A t \in Stage \ {f} : stg'[t] = stg[t]
<1>1. f \in Stage /\ outcome'[f] # outcome[f]
  BY DEF Failed
<1>2. PICK s \in Stage : StageStep(s)
  BY <1>1 DEF Next, RunStep, Returned, Begin, SeqStep, SeqBack, LevelStep, Launch, Join,
     Cancel, vars
<1>3. s = f
  BY <1>1, <1>2, StageFrame
<1>4. stg[f] \in {"spawned", "running"}
  BY <1>1, <1>2, <1>3 DEF StageStep, Enter, Finish, TimeStage, Record, Errored, Release, Done
<1>. QED
  BY <1>1, <1>2, <1>3, <1>4, StageFrame

\* Only Run's own goroutine makes a stage leave "idle".
LEMMA NewStart ==
  ASSUME IInv, [Next]_vars, NEW s \in Stage, stg[s] = "idle", stg'[s] # "idle"
  PROVE  \/ SeqStep /\ pc' = "seqwait" /\ s = p.ordered[nxt]
         \/ Launch /\ s = p.levels[lvl][nxt]
<1>1. CASE SeqStep
  <2>1. pc' = "seqwait"
    BY <1>1, SeqReturns
  <2>2. s = p.ordered[nxt]
    BY <1>1, <2>1, StartedStage DEF StartStage, IInv, BaseTypes, StageTypes
  <2>. QED
    BY <1>1, <2>1, <2>2
<1>2. CASE Launch
  BY <1>2, LaunchedStage DEF StartStage, IInv, BaseTypes, StageTypes
<1>3. ASSUME NEW t \in Stage, StageStep(t) PROVE FALSE
  BY <1>3, StageFrame
<1>. QED
  BY <1>1, <1>2, <1>3 DEF Next, RunStep, Returned, Begin, SeqBack, LevelStep, Join, Cancel, vars

\* Nothing of a later level starts once a stage has failed.
LEMMA PastFailureKept ==
  IInv /\ QuietInv /\ NothingPastFailure /\ [Next]_vars => NothingPastFailure'
<1>. SUFFICES ASSUME IInv, QuietInv, NothingPastFailure, [Next]_vars
              PROVE  NothingPastFailure'
  OBVIOUS
<1>0. UNCHANGED p /\ (Sequential' <=> Sequential)
  BY StageFrame DEF Next, RunStep, Returned, Begin, SeqStep, SeqBack, LevelStep, Launch, Join,
     Cancel, vars, input, Sequential
<1>00. WellFormed(p, Stage) /\ nxt \in Nat /\ lvl \in Nat
  BY WellFormedPipeline DEF IInv, BaseTypes, ControlTypes
<1>000. /\ \A k \in DOMAIN p.ordered : p.ordered[k] \in Stage /\ k \in Nat
        /\ \A l \in DOMAIN p.levels : LevelSet(l) \subseteq Stage /\ l \in Nat
  BY <1>00 DEF WellFormed, LevelSet, MemberOf
<1>1. ASSUME Sequential, NEW f \in Failed', NEW k \in DOMAIN p.ordered,
             k > FirstIndex(p.ordered, {f})
      PROVE  stg'[p.ordered[k]] = "idle"
  <2>1. CASE f \in Failed
    <3>1. stg[p.ordered[k]] = "idle"
      BY <1>1, <2>1 DEF NothingPastFailure
    <3>2. SUFFICES ASSUME SeqStep, stg'[p.ordered[k]] # "idle" PROVE FALSE
      <4>1. ASSUME Launch PROVE FALSE
        BY <1>1, <4>1, LaunchedStage DEF IInv, AheadInv
      <4>. QED
        BY <1>000, <3>1, <4>1, NewStart
    <3>3. pc = "seq" /\ f \in Stage /\ stg[f] # "idle"
      BY <2>1, <3>2 DEF SeqStep, Failed, IInv, OutcomeInv
    <3>4. outcome[f] = "ok"
      BY <1>1, <3>3, SeqPlaces DEF IInv, BehindInv
    <3>. QED
      BY <2>1, <3>4 DEF Failed
  <2>2. CASE f \notin Failed
    <3>1. /\ f = p.ordered[nxt] /\ nxt \in DOMAIN p.ordered /\ pc = "seqwait" /\ f \in Stage
          /\ \A t \in Stage \ {f} : stg'[t] = stg[t]
      BY <1>1, <2>2, NewFailure, SeqMover
    <3>2. FirstIndex(p.ordered, {f}) = nxt
      <4>1. p.ordered \in Seq(Stage) /\ \E j \in DOMAIN p.ordered : p.ordered[j] \in {f}
        BY <1>00, <3>1 DEF WellFormed
      <4>2. /\ FirstIndex(p.ordered, {f}) \in DOMAIN p.ordered
            /\ p.ordered[FirstIndex(p.ordered, {f})] \in {f}
        BY <4>1, FirstIndexIs
      <4>. QED
        BY <1>00, <3>1, <4>2 DEF WellFormed, NoRepeats
    <3>3. k > nxt /\ k # nxt
      BY <1>000, <1>00, <1>1, <3>2
    <3>4. stg[p.ordered[k]] = "idle" /\ p.ordered[k] # f
      BY <1>00, <3>1, <3>3 DEF IInv, AheadInv, WellFormed, NoRepeats
    <3>. QED
      BY <1>000, <3>1, <3>4
  <2>. QED
    BY <2>1, <2>2
<1>2. ASSUME ~Sequential, NEW f \in Failed', NEW l \in DOMAIN p.levels,
             NEW m \in DOMAIN p.levels, l < m, f \in LevelSet(l), NEW s \in LevelSet(m)
      PROVE  stg'[s] = "idle"
  <2>0. s \in Stage /\ f \in Stage
    BY <1>000, <1>2
  <2>1. CASE f \in Failed
    <3>1. stg[s] = "idle"
      BY <1>2, <2>1 DEF NothingPastFailure, LevelSet
    <3>2. SUFFICES ASSUME Launch, s = p.levels[lvl][nxt] PROVE FALSE
      <4>1. ASSUME SeqStep PROVE FALSE
        BY <1>2, <4>1 DEF SeqStep, IInv, AheadInv
      <4>. QED
        BY <2>0, <3>1, <4>1, NewStart
    <3>3. pc = "launch" /\ lvl \in DOMAIN p.levels /\ s \in LevelSet(lvl)
      BY <3>2, LaunchedStage
    <3>4. m = lvl
      BY <1>00, <1>2, <3>3 DEF WellFormed, Sequential, LevelSet
    <3>5. outcome[f] = "ok"
      BY <1>2, <3>3, <3>4 DEF IInv, BehindInv
    <3>. QED
      BY <2>1, <3>5 DEF Failed
  <2>2. CASE f \notin Failed
    <3>1. /\ pc = "launch" /\ lvl \in DOMAIN p.levels /\ f \in LevelSet(lvl)
          /\ \A t \in Stage \ {f} : stg'[t] = stg[t]
      BY <1>2, <2>0, <2>2, NewFailure, WaveMover
    <3>2. l = lvl
      BY <1>00, <1>2, <3>1 DEF WellFormed, Sequential, LevelSet
    <3>3. stg[s] = "idle"
      BY <1>000, <1>2, <3>1, <3>2 DEF IInv, AheadInv
    <3>4. s # f
      BY <2>0, <2>2, <3>3, NewFailure
    <3>. QED
      BY <2>0, <3>1, <3>3, <3>4
  <2>. QED
    BY <2>1, <2>2
<1>. QED
  BY <1>0, <1>1, <1>2 DEF NothingPastFailure, LevelSet

\* A failure, a panic or a cancellation stops everything that comes later.
THEOREM StopsAtFailure == Spec => []NothingPastFailure
<1>1. Init => NothingPastFailure
  <2>1. ASSUME Init PROVE Failed = {}
    BY <2>1 DEF Init, Failed
  <2>. QED
    BY <2>1 DEF NothingPastFailure
<1>. QED
  BY <1>1, PastFailureKept, InductiveInvariant, QuietInvariant, PTL DEF Spec
-----------------------------------------------------------------------------
\* Run marks the Scope before it starts a stage of a wide pipeline.
ConcInv == pc # "begin" /\ ~Sequential /\ Wide => concurrent

\* Run's own steps leave the pipeline, the fates and what a stage computes alone.
LEMMA RunFrame ==
  ASSUME RunStep
  PROVE  /\ UNCHANGED <<p, fate, cancelled, outcome, outputs>>
         /\ pc' # "begin" /\ pc # "returned"
         /\ pc # "begin" => concurrent' = concurrent
<1>. USE DEF input, scope, mapsv, Return
<1>1. CASE Begin
  BY <1>1 DEF Begin
<1>2. CASE SeqStep
  BY <1>2 DEF SeqStep
<1>3. CASE SeqBack
  BY <1>3 DEF SeqBack, Passed, Advance
<1>4. CASE LevelStep
  BY <1>4 DEF LevelStep, LevelsDone
<1>5. CASE Launch
  BY <1>5 DEF Launch, TokenFree, Advance
<1>6. CASE Join
  BY <1>6 DEF Join, WaitOver, Failures, Reported
<1>. QED
  BY <1>1, <1>2, <1>3, <1>4, <1>5, <1>6 DEF RunStep

\* Nothing unmarks the Scope.
LEMMA ConcInvariant == Spec => []ConcInv
<1>1. ASSUME IInv, ConcInv, [Next]_vars PROVE ConcInv'
  <2>1. CASE Begin
    BY <2>1 DEF Begin, ConcInv, Sequential, Wide, input
  <2>2. CASE RunStep /\ pc # "begin"
    BY <1>1, <2>2, RunFrame DEF ConcInv, Sequential, Wide
  <2>3. ASSUME NEW s \in Stage, StageStep(s) PROVE ConcInv'
    BY <1>1, <2>3, StageFrame DEF ConcInv, Sequential, Wide
  <2>4. CASE Cancel \/ UNCHANGED vars
    BY <1>1, <2>4 DEF Cancel, vars, ConcInv, Sequential, Wide, input
  <2>5. RunStep /\ pc = "begin" => Begin
    BY DEF RunStep, SeqStep, SeqBack, LevelStep, Launch, Join
  <2>. QED
    BY <1>1, <2>1, <2>2, <2>3, <2>4, <2>5 DEF Next, Returned
<1>2. Init => ConcInv
  BY DEF Init, ConcInv
<1>. QED
  BY <1>1, <1>2, InductiveInvariant, PTL DEF Spec

\* A set with more than one element has two that differ.
LEMMA TwoOf ==
  ASSUME NEW S, IsFiniteSet(S), Cardinality(S) > 1
  PROVE  \E x, y \in S : x # y
<1>1. PICK x : x \in S
  BY FS_EmptySet
<1>2. Cardinality(S \ {x}) = Cardinality(S) - 1 /\ IsFiniteSet(S \ {x})
  BY <1>1, FS_RemoveElement
<1>3. Cardinality(S) \in Nat
  BY FS_CardinalityType
<1>4. Cardinality(S \ {x}) # 0
  BY <1>2, <1>3
<1>5. S \ {x} # {}
  BY <1>4, FS_EmptySet
<1>. QED
  BY <1>1, <1>5

\* Two stages evaluate at the same time only against a Scope marked concurrent: they
\* are of one level, which is wider than one, of a pipeline that is not bounded at
\* one.
THEOREM OverlapIsIsolated == Spec => []IsolatedOverlap
<1>1. ASSUME IInv, QuietInv, SlotsInv, ConcInv PROVE IsolatedOverlap
  <2>. SUFFICES ASSUME Cardinality(Running) > 1 PROVE concurrent
    BY DEF IsolatedOverlap
  <2>1. Running \subseteq Stage /\ IsFiniteSet(Running)
    BY RunAssumption, FS_Subset DEF Running
  <2>2. PICK s \in Running, t \in Running : s # t
    BY <2>1, TwoOf
  <2>3. s \in Stage /\ t \in Stage /\ stg[s] = "running" /\ stg[t] = "running"
    BY <2>2 DEF Running
  <2>4. ~Sequential
    BY <1>1, <2>2, <2>3, SeqMover
  <2>5. /\ pc = "launch" /\ lvl \in DOMAIN p.levels
        /\ s \in LevelSet(lvl) /\ t \in LevelSet(lvl)
    BY <1>1, <2>3, <2>4, WaveMover
  <2>6. WellFormed(p, Stage)
    BY <1>1, WellFormedPipeline DEF IInv, BaseTypes
  <2>7. Len(p.levels[lvl]) > 1
    <3>1. p.levels[lvl] \in Seq(Stage)
      BY <2>5, <2>6 DEF WellFormed
    <3>2. PICK j \in DOMAIN p.levels[lvl], k \in DOMAIN p.levels[lvl] :
            s = p.levels[lvl][j] /\ t = p.levels[lvl][k]
      BY <2>5 DEF LevelSet, MemberOf
    <3>3. j # k /\ j \in 1 .. Len(p.levels[lvl]) /\ k \in 1 .. Len(p.levels[lvl])
      BY <2>2, <3>1, <3>2
    <3>. QED
      BY <3>1, <3>3
  <2>8. p.maxParallel # 1
    <3>. SUFFICES ASSUME p.maxParallel = 1 PROVE FALSE
      OBVIOUS
    <3>1. Cardinality(Holding) <= 1
      BY <1>1 DEF SlotsInv, Bounded
    <3>2. Running \subseteq Holding /\ IsFiniteSet(Holding)
      BY RunAssumption, FS_Subset DEF Running, Holding
    <3>3. Cardinality(Running) <= Cardinality(Holding)
      BY <3>2, FS_Subset
    <3>4. Cardinality(Running) \in Nat /\ Cardinality(Holding) \in Nat
      BY <2>1, <3>2, FS_CardinalityType
    <3>. QED
      BY <3>1, <3>3, <3>4
  <2>9. Wide
    BY <2>4, <2>5, <2>7, <2>8 DEF Wide, Sequential
  <2>. QED
    BY <1>1, <2>4, <2>5, <2>9 DEF ConcInv
<1>. QED
  BY <1>1, InductiveInvariant, QuietInvariant, SlotsInvariant, ConcInvariant, PTL
-----------------------------------------------------------------------------
\* What is known of an execution that has ended, and of a run that has not: the
\* outcome is the stage's fate unless ctx was done, and there is no result yet.
EndInv ==
  /\ pc # "returned" => result = NoResult
  /\ \A s \in panics : outcome[s] = "panic"
  /\ \A s \in Stage : outcome[s] = "ctx" => cancelled
  /\ \A s \in Stage : outcome[s] \notin {"none", "ctx"} => outcome[s] = fate[s]
  /\ \A s \in outputs : outcome[s] = "ok"

\* Of what EndInv speaks of, Run's goroutine changes the result, when it returns, and
\* empties the map of panics, when a level begins.
LEMMA RunEnds ==
  ASSUME RunStep
  PROVE  panics' \subseteq panics /\ (pc' # "returned" => result' = result)
<1>. USE DEF input, scope, mapsv, Return
<1>1. CASE Begin
  BY <1>1 DEF Begin
<1>2. CASE SeqStep
  BY <1>2 DEF SeqStep
<1>3. CASE SeqBack
  BY <1>3 DEF SeqBack, Passed, Advance
<1>4. CASE LevelStep
  BY <1>4 DEF LevelStep, LevelsDone
<1>5. CASE Launch
  BY <1>5 DEF Launch, TokenFree, Advance
<1>6. CASE Join
  BY <1>6 DEF Join, WaitOver, Failures, Reported
<1>. QED
  BY <1>1, <1>2, <1>3, <1>4, <1>5, <1>6 DEF RunStep

\* An execution ends as EndInv says.
LEMMA EndKept == IInv /\ EndInv /\ [Next]_vars => EndInv'
<1>. SUFFICES ASSUME IInv, EndInv, [Next]_vars PROVE EndInv'
  OBVIOUS
<1>1. CASE RunStep
  BY <1>1, RunFrame, RunEnds DEF EndInv
<1>2. ASSUME NEW s \in Stage, StageStep(s) PROVE EndInv'
  <2>. USE DEF IInv, BaseTypes, StageTypes, SetTypes, Fates, OutcomeInv, StartedInv, EndInv, input,
               scope, mapsv
  <2>1. CASE Enter(s)
    BY <2>1 DEF Enter
  <2>2. CASE Finish(s)
    BY <2>2 DEF Finish
  <2>3. CASE TimeStage(s)
    BY <2>3 DEF TimeStage
  <2>4. CASE Record(s)
    BY <2>4 DEF Record, Errored
  <2>5. CASE Release(s)
    BY <2>5 DEF Release
  <2>6. CASE Done(s)
    BY <2>6 DEF Done
  <2>. QED
    BY <1>2, <2>1, <2>2, <2>3, <2>4, <2>5, <2>6 DEF StageStep
<1>3. CASE Cancel \/ UNCHANGED vars
  BY <1>3 DEF Cancel, vars, EndInv, input, scope, mapsv
<1>. QED
  BY <1>1, <1>2, <1>3 DEF Next, Returned

LEMMA EndInvariant == Spec => []EndInv
<1>1. Init => EndInv
  BY DEF Init, EndInv
<1>. QED
  BY <1>1, EndKept, InductiveInvariant, PTL DEF Spec

\* Once Run has returned nothing moves.
LEMMA ReturnedStays ==
  ASSUME IInv, QuietInv, pc = "returned", [Next]_vars
  PROVE  UNCHANGED vars
<1>1. ASSUME NEW s \in Stage, StageStep(s) PROVE FALSE
  <2>1. stg[s] \notin {"idle", "exited"} /\ (Sequential => stg[s] \in {"spawned", "running", "timing"})
    BY <1>1, StageMoves
  <2>. QED
    BY <2>1 DEF QuietInv, NoLeak
<1>2. ~RunStep /\ ~Cancel
  BY RunFrame DEF Cancel
<1>. QED
  BY <1>1, <1>2 DEF Next, Returned
-----------------------------------------------------------------------------
\* The stages that have succeeded or failed are stages of the pipeline that ended.
LEMMA EndedStages ==
  ASSUME IInv
  PROVE  /\ Succeeded \subseteq MemberOf(p.ordered) /\ Failed \subseteq MemberOf(p.ordered)
         /\ \A s \in Succeeded \union Failed : s \in Stage /\ stg[s] # "idle"
  BY DEF IInv, MemberInv, OutcomeInv, Succeeded, Failed

\* A sequential run has no failure but that of the stage it is at.
LEMMA SeqFailed ==
  ASSUME IInv, Sequential, pc \in {"seq", "seqwait"}, NEW f \in Failed
  PROVE  pc = "seqwait" /\ f = p.ordered[nxt]
<1>1. f \in Stage /\ stg[f] # "idle" /\ outcome[f] # "ok"
  BY EndedStages DEF Failed
<1>2. PICK k \in DOMAIN p.ordered : f = p.ordered[k] /\ k <= nxt /\ (pc = "seq" => k < nxt)
  BY <1>1, SeqPlaces
<1>3. ~(k < nxt)
  BY <1>1, <1>2 DEF IInv, BehindInv
<1>4. k = nxt
  BY <1>2, <1>3, WellFormedPipeline DEF WellFormed, IInv, BaseTypes, ControlTypes
<1>. QED
  BY <1>2, <1>3, <1>4

\* A wave run has no failure but those of the level it is at.
LEMMA WaveFailed ==
  ASSUME IInv, ~Sequential, pc \in {"level", "launch"}, NEW f \in Failed
  PROVE  pc = "launch" /\ lvl \in DOMAIN p.levels /\ f \in LevelSet(lvl)
<1>1. f \in Stage /\ stg[f] # "idle" /\ outcome[f] # "ok"
  BY EndedStages DEF Failed
<1>2. PICK l \in DOMAIN p.levels : f \in LevelSet(l) /\ l <= lvl /\ (pc = "level" => l < lvl)
  BY <1>1, WavePlaces
<1>3. ~(l < lvl)
  BY <1>1, <1>2 DEF IInv, BehindInv
<1>4. l = lvl
  BY <1>2, <1>3, WellFormedPipeline DEF WellFormed, IInv, BaseTypes, ControlTypes
<1>. QED
  BY <1>2, <1>3, <1>4

\* When the waves join, errs and panics hold exactly the stages that failed.
LEMMA JoinedFailures ==
  ASSUME IInv, QuietInv, Join
  PROVE  Failures = Failed /\ ~Sequential /\ pc = "launch" /\ lvl \in DOMAIN p.levels
<1>1. pc = "launch" /\ ~Sequential
  BY DEF Join, WaitOver, Failures, Reported, IInv, AheadInv
<1>2. lvl \in DOMAIN p.levels
  BY <1>1 DEF IInv, AheadInv
<1>3. Failures \subseteq Failed
  BY DEF Failures, Failed, IInv, RecordInv, BaseTypes, SetTypes
<1>4. ASSUME NEW f \in Failed PROVE f \in Failures
  <2>1. f \in LevelSet(lvl) /\ f \in Stage
    BY <1>1, <1>4, WaveFailed, EndedStages
  <2>2. stg[f] = "exited"
    BY <2>1 DEF Join, WaitOver, Failures, Reported, LevelSet
  <2>. QED
    BY <1>1, <1>4, <2>1, <2>2 DEF IInv, RecordInv, Failed, Failures
<1>. QED
  BY <1>1, <1>2, <1>3, <1>4

\* The three ways to return: with nothing, everything having succeeded; with ctx's
\* error, nothing having failed; or with the first failure of the run order.
ReturnsNil == result' = [kind |-> "nil"] /\ Succeeded = MemberOf(p.ordered)

ReturnsCtx ==
  /\ result' = [kind |-> "ctx"] /\ cancelled
  /\ Failed = {} /\ Succeeded # MemberOf(p.ordered)

First == FirstIndex(p.ordered, Failed)

ReturnsFailure ==
  /\ First \in DOMAIN p.ordered /\ p.ordered[First] \in Failed
  /\ result' = [kind |-> outcome[p.ordered[First]], stage |-> p.ordered[First]]
  /\ Sequential \/ Aligned =>
       \A k \in DOMAIN p.ordered : k < First => outcome[p.ordered[k]] = "ok"

\* The first failure is there if any is.
LEMMA FirstFailure ==
  ASSUME IInv, Failed # {}
  PROVE  /\ First \in DOMAIN p.ordered /\ p.ordered[First] \in Failed
         /\ \A k \in DOMAIN p.ordered : p.ordered[k] \in Failed => First <= k
<1>1. p.ordered \in Seq(Stage)
  BY WellFormedPipeline DEF WellFormed, IInv, BaseTypes
<1>2. \E k \in DOMAIN p.ordered : p.ordered[k] \in Failed
  BY EndedStages DEF MemberOf
<1>. QED
  BY <1>1, <1>2, FirstIndexIs DEF First

\* How runSequential returns.
LEMMA SeqReturn ==
  ASSUME IInv, QuietInv, SeqStep \/ SeqBack, pc' = "returned"
  PROVE  ReturnsNil \/ ReturnsCtx \/ ReturnsFailure
<1>0. /\ WellFormed(p, Stage) /\ p.ordered \in Seq(Stage)
      /\ nxt \in Nat \ {0} /\ pc \in {"seq", "seqwait"}
  BY WellFormedPipeline DEF WellFormed, IInv, BaseTypes, ControlTypes, SeqStep, SeqBack
<1>1. Sequential
  BY <1>0 DEF IInv, AheadInv
<1>2. \A k \in DOMAIN p.ordered : k < nxt => outcome[p.ordered[k]] = "ok"
  BY <1>0 DEF IInv, BehindInv
<1>3. CASE SeqStep /\ nxt > Len(p.ordered)
  <2>1. result' = [kind |-> "nil"]
    BY <1>0, <1>3 DEF SeqStep, Return
  <2>2. \A k \in DOMAIN p.ordered : p.ordered[k] \in Stage /\ k < nxt
    BY <1>0, <1>3
  <2>3. MemberOf(p.ordered) \subseteq Succeeded
    BY <1>2, <2>2 DEF MemberOf, Succeeded
  <2>. QED
    BY <2>1, <2>3, EndedStages DEF ReturnsNil
<1>4. CASE SeqStep /\ ~(nxt > Len(p.ordered))
  <2>1. result' = [kind |-> "ctx"] /\ cancelled /\ pc = "seq"
    BY <1>0, <1>4 DEF SeqStep, Return
  <2>2. Failed = {}
    BY <1>0, <1>1, <2>1, SeqFailed
  <2>3. nxt \in DOMAIN p.ordered /\ nxt >= nxt
    BY <1>0, <1>4
  <2>4. stg[p.ordered[nxt]] = "idle"
    BY <2>1, <2>3 DEF IInv, AheadInv
  <2>5. p.ordered[nxt] \in MemberOf(p.ordered) /\ p.ordered[nxt] \notin Succeeded
    BY <2>3, <2>4, EndedStages DEF MemberOf
  <2>. QED
    BY <2>1, <2>2, <2>5 DEF ReturnsCtx
<1>5. CASE SeqBack
  <2> DEFINE s == p.ordered[nxt]
  <2>1. /\ pc = "seqwait" /\ stg[s] \in {"returned", "panicking"} /\ ~Passed(s)
        /\ result' = [kind |-> outcome[s], stage |-> s]
    BY <1>5 DEF SeqBack, Passed, Advance, Return
  <2>2. nxt \in DOMAIN p.ordered /\ s \in Stage
    BY <1>0, <2>1 DEF IInv, AheadInv
  <2>3. outcome[s] \in {"err", "ctx", "panic"}
    BY <2>1, <2>2 DEF Passed, IInv, OutcomeInv, BaseTypes, StageTypes, Fates
  <2>4. s \in Failed
    BY <2>2, <2>3 DEF Failed
  <2>5. /\ First \in DOMAIN p.ordered /\ p.ordered[First] \in Failed
        /\ p.ordered[First] = s
    BY <1>0, <1>1, <2>4, FirstFailure, SeqFailed
  <2>6. First = nxt
    BY <1>0, <2>2, <2>5 DEF WellFormed, NoRepeats
  <2>. HIDE DEF s
  <2>. QED
    BY <1>2, <2>1, <2>5, <2>6 DEF ReturnsFailure
<1>. QED
  BY <1>3, <1>4, <1>5

\* How runWaves returns.
LEMMA WaveReturn ==
  ASSUME IInv, QuietInv, EndInv, LevelStep \/ Join, pc' = "returned"
  PROVE  ReturnsNil \/ ReturnsCtx \/ ReturnsFailure
<1>0. /\ WellFormed(p, Stage) /\ p.levels \in Seq(Seq(Stage)) /\ p.ordered \in Seq(Stage)
      /\ lvl \in Nat \ {0} /\ pc \in {"level", "launch"}
  BY WellFormedPipeline
     DEF WellFormed, IInv, BaseTypes, ControlTypes, LevelStep, LevelsDone, Join, WaitOver, Failures,
         Reported
<1>1. ~Sequential
  BY <1>0 DEF IInv, AheadInv
<1>2. /\ \A l \in DOMAIN p.levels : l < lvl => \A s \in LevelSet(l) : outcome[s] = "ok"
      /\ MemberOf(p.ordered) = UNION {LevelSet(l) : l \in DOMAIN p.levels}
  BY <1>0, <1>1 DEF IInv, BehindInv, WellFormed, Sequential, LevelSet
<1>20. MemberOf(p.ordered) \subseteq Stage
  BY <1>0, MembersIn
<1>3. CASE LevelStep /\ LevelsDone
  <2>1. result' = [kind |-> "nil"]
    BY <1>0, <1>3 DEF LevelStep, Return
  <2>2. \A l \in DOMAIN p.levels : l < lvl
    BY <1>0, <1>3 DEF LevelsDone
  <2>3. MemberOf(p.ordered) \subseteq Succeeded
    BY <1>2, <1>20, <2>2 DEF Succeeded
  <2>. QED
    BY <2>1, <2>3, EndedStages DEF ReturnsNil
<1>4. CASE LevelStep /\ ~LevelsDone
  <2>1. result' = [kind |-> "ctx"] /\ cancelled /\ pc = "level"
    BY <1>0, <1>4 DEF LevelStep, Return
  <2>2. Failed = {}
    BY <1>0, <1>1, <2>1, WaveFailed
  <2>3. lvl \in DOMAIN p.levels
    BY <1>0, <1>4 DEF LevelsDone
  <2>4. p.levels[lvl] # <<>> /\ p.levels[lvl] \in Seq(Stage)
    BY <1>0, <1>1, <2>3 DEF WellFormed, Sequential
  <2>5. PICK s : s \in LevelSet(lvl)
    <3>1. 1 \in DOMAIN p.levels[lvl]
      BY <2>4
    <3>. QED
      BY <3>1 DEF LevelSet, MemberOf
  <2>6. stg[s] = "idle" /\ s \in MemberOf(p.ordered)
    BY <1>2, <2>1, <2>3, <2>5 DEF IInv, AheadInv
  <2>7. s \notin Succeeded
    BY <2>6, EndedStages
  <2>. QED
    BY <2>1, <2>2, <2>6, <2>7 DEF ReturnsCtx
<1>5. CASE Join
  <2>1. /\ Failures = Failed /\ lvl \in DOMAIN p.levels /\ pc = "launch" /\ Failures # {}
        /\ result' = [kind |-> IF Reported \in panics THEN "panic" ELSE outcome[Reported],
                      stage |-> Reported]
    <3>1. Failures = Failed /\ lvl \in DOMAIN p.levels /\ pc = "launch"
      BY <1>5, JoinedFailures
    <3>2. Failures # {}
      BY <1>5, JoinedLevel
    <3>. QED
      BY <1>5, <3>1, <3>2 DEF Join, Return
  <2>2. /\ First \in DOMAIN p.ordered /\ p.ordered[First] \in Failed
        /\ \A k \in DOMAIN p.ordered : p.ordered[k] \in Failed => First <= k
    BY <2>1, FirstFailure
  <2>3. Reported = p.ordered[First]
    BY <2>1 DEF Reported, First
  <2>4. result' = [kind |-> outcome[p.ordered[First]], stage |-> p.ordered[First]]
    <3>1. Reported \in panics => outcome[Reported] = "panic"
      BY DEF EndInv
    <3>. QED
      BY <2>1, <2>3, <3>1
  <2>5. ASSUME Aligned, NEW k \in DOMAIN p.ordered, k < First
        PROVE  outcome[p.ordered[k]] = "ok"
    <3> DEFINE s == p.ordered[k]
               f == p.ordered[First]
    <3>1. s \in Stage /\ s \in MemberOf(p.ordered) /\ k \in Nat /\ First \in Nat
      BY <1>0, <2>2 DEF MemberOf
    <3>2. s \notin Failed
      BY <2>2, <2>5, <3>1
    <3>3. PICK m \in DOMAIN p.levels : s \in LevelSet(m)
      BY <1>2, <3>1
    <3>4. f \in LevelSet(lvl)
      BY <1>0, <1>1, <2>2, WaveFailed
    <3>5. FirstIndex(p.ordered, {s}) = k /\ FirstIndex(p.ordered, {f}) = First
      BY <1>0, <2>2, PlaceOf DEF WellFormed
    <3>. HIDE DEF s, f
    <3>6. ~(lvl < m)
      <4>. SUFFICES ASSUME lvl < m PROVE FALSE
        OBVIOUS
      <4>1. FirstIndex(p.ordered, {f}) < FirstIndex(p.ordered, {s})
        BY <2>1, <2>5, <3>3, <3>4 DEF Aligned, LevelSet
      <4>. QED
        BY <2>5, <3>1, <3>5, <4>1
    <3>7. CASE m < lvl
      BY <1>2, <3>3, <3>7 DEF s
    <3>8. CASE m = lvl
      <4>1. stg[s] = "exited"
        BY <1>5, <3>3, <3>8 DEF Join, WaitOver, Failures, Reported, LevelSet
      <4>2. outcome[s] \in {"ok", "err", "ctx", "panic"}
        BY <3>1, <4>1 DEF IInv, OutcomeInv, BaseTypes, StageTypes, Fates
      <4>3. outcome[s] = "ok"
        BY <3>1, <3>2, <4>2 DEF Failed
      <4>. QED
        BY <4>3 DEF s
    <3>9. m \in Nat /\ lvl \in Nat
      BY <1>0
    <3>. QED
      BY <3>6, <3>7, <3>8, <3>9
  <2>. QED
    BY <1>1, <2>2, <2>4, <2>5 DEF ReturnsFailure
<1>. QED
  BY <1>3, <1>4, <1>5

\* How Run returns.
LEMMA HowRunReturns ==
  ASSUME IInv, QuietInv, EndInv, RunStep, pc' = "returned"
  PROVE  ReturnsNil \/ ReturnsCtx \/ ReturnsFailure
<1>1. ~Begin /\ ~Launch
  BY DEF Begin, Launch
<1>. QED
  BY <1>1, SeqReturn, WaveReturn DEF RunStep
-----------------------------------------------------------------------------
\* A stage whose Execute ends may do so by the contract.
LEMMA MayEnd ==
  ASSUME IInv, QuietInv, EndInv, NEW s \in Stage, stg[s] \in {"spawned", "running"}
  PROVE  Promise!CanEnd(s)
<1>1. outcome[s] = "none" /\ s \in MemberOf(p.ordered)
  BY DEF IInv, OutcomeInv, MemberInv
<1>2. s \notin Succeeded \union Failed
  BY <1>1 DEF Succeeded, Failed
<1>3. p.deps[s] \subseteq Succeeded
  <2>1. p.deps[s] \subseteq Stage
    BY WellFormedPipeline DEF WellFormed, IInv, BaseTypes
  <2>. QED
    BY <2>1 DEF IInv, StartedInv, Succeeded
<1>4. result.kind = "none"
  BY DEF EndInv, NoResult, QuietInv, NoLeak
<1>5. Sequential => Failed = {}
  <2>. SUFFICES ASSUME Sequential, NEW f \in Failed PROVE FALSE
    OBVIOUS
  <2>1. pc = "seqwait" /\ s = p.ordered[nxt]
    BY SeqMover
  <2>. QED
    BY <1>2, <2>1, SeqFailed
<1>. QED
  BY <1>1, <1>2, <1>3, <1>4, <1>5 DEF Promise!CanEnd, Promise!Pending, Promise!MemberOf, MemberOf,
     Sequential

\* A step of a stage is a success, a failure, or nothing the contract sees.
LEMMA StagePromise ==
  ASSUME IInv, QuietInv, EndInv, NEW s \in Stage, StageStep(s)
  PROVE  [Promise!Next]_(Promise!vars)
<1>1. /\ UNCHANGED <<p, result>>
      /\ \A t \in Stage \ {s} : outcome'[t] = outcome[t]
  BY StageFrame
<1>2. CASE outcome'[s] = outcome[s]
  <2>1. Succeeded' = Succeeded /\ Failed' = Failed
    BY <1>1, <1>2 DEF Succeeded, Failed
  <2>. QED
    BY <1>1, <2>1 DEF Promise!vars
<1>3. CASE outcome'[s] # outcome[s]
  <2>1. stg[s] \in {"spawned", "running"}
    BY <1>3 DEF StageStep, Enter, Finish, TimeStage, Record, Errored, Release, Done
  <2>2. Promise!CanEnd(s)
    BY <2>1, MayEnd
  <2>3. outcome[s] = "none"
    BY <2>1 DEF IInv, OutcomeInv
  <2>4. outcome'[s] \in {"ok", "err", "ctx", "panic"}
    BY <1>3, TypesKept, <2>3 DEF BaseTypes, StageTypes, Fates, Next
  <2>5. CASE outcome'[s] = "ok"
    <3>1. Succeeded' = Succeeded \union {s} /\ Failed' = Failed
      BY <1>1, <2>3, <2>5 DEF Succeeded, Failed
    <3>. QED
      BY <1>1, <2>2, <3>1 DEF Promise!Next, Promise!Succeed
  <2>6. CASE outcome'[s] \in {"err", "ctx", "panic"}
    <3>1. Failed' = Failed \union {s} /\ Succeeded' = Succeeded
      BY <1>1, <2>3, <2>6 DEF Succeeded, Failed
    <3>. QED
      BY <1>1, <2>2, <3>1 DEF Promise!Next, Promise!Fail
  <2>. QED
    BY <2>4, <2>5, <2>6
<1>. QED
  BY <1>2, <1>3

\* A step of Run's goroutine is a return the contract allows, or nothing it sees.
LEMMA RunPromise ==
  ASSUME IInv, QuietInv, EndInv, RunStep
  PROVE  [Promise!Next]_(Promise!vars)
<1>1. UNCHANGED <<p, outcome>> /\ pc # "returned"
  BY RunFrame
<1>2. Succeeded' = Succeeded /\ Failed' = Failed
  BY <1>1 DEF Succeeded, Failed
<1>3. CASE pc' # "returned"
  BY <1>1, <1>2, <1>3, RunEnds DEF Promise!vars
<1>4. CASE pc' = "returned"
  <2>1. Promise!Pending
    BY <1>1 DEF Promise!Pending, EndInv, NoResult
  <2>2. CASE ReturnsNil
    BY <1>1, <1>2, <2>1, <2>2
       DEF ReturnsNil, Promise!Next, Promise!ReturnNil, Promise!MemberOf, MemberOf
  <2>3. CASE ReturnsCtx
    BY <1>1, <1>2, <2>1, <2>3
       DEF ReturnsCtx, Promise!Next, Promise!ReturnCtx, Promise!MemberOf, MemberOf
  <2>4. CASE ReturnsFailure
    <3>1. outcome[p.ordered[First]] \in {"err", "ctx", "panic"} /\ Failed # {}
      BY <2>4 DEF ReturnsFailure, Failed
    <3>2. First = Promise!FirstIndex(p.ordered, Failed)
      BY DEF First, FirstIndex, Promise!FirstIndex
    <3>3. Promise!ReturnFailure
      BY <1>1, <1>2, <2>1, <2>4, <3>1, <3>2 DEF ReturnsFailure, Promise!ReturnFailure
    <3>. QED
      BY <3>3 DEF Promise!Next
  <2>. QED
    BY <1>4, <2>2, <2>3, <2>4, HowRunReturns
<1>. QED
  BY <1>3, <1>4

\* Every run, sequential, unbounded or bounded, under every interleaving of its
\* goroutines and with a cancellation at any moment, does what Run promises.
THEOREM ContractKept == Spec => KeepsContract
<1>1. Init => Promise!Init
  BY DEF Init, NoResult, Promise!Init, Succeeded, Failed
<1>2. ASSUME IInv, QuietInv, EndInv, [Next]_vars PROVE [Promise!Next]_(Promise!vars)
  <2>1. CASE Cancel \/ UNCHANGED vars
    <3>1. UNCHANGED <<p, outcome, result>>
      BY <2>1 DEF Cancel, vars, input
    <3>2. Succeeded' = Succeeded /\ Failed' = Failed
      BY <3>1 DEF Succeeded, Failed
    <3>. QED
      BY <3>1, <3>2 DEF Promise!vars
  <2>. QED
    BY <1>2, <2>1, RunPromise, StagePromise DEF Next, Returned
<1>. QED
  BY <1>1, <1>2, InductiveInvariant, QuietInvariant, EndInvariant, PTL
     DEF Spec, KeepsContract, Promise!Spec
-----------------------------------------------------------------------------
\* The failure of a sequential run, as SequentialFailure finds it.
LEMMA FatesAllOk ==
  ASSUME \A k \in DOMAIN p.ordered : fate[p.ordered[k]] = "ok"
  PROVE  SequentialFailure = [kind |-> "nil"]
<1>1. {k \in DOMAIN p.ordered : fate[p.ordered[k]] # "ok"} = {}
  OBVIOUS
<1>. QED
  BY <1>1 DEF SequentialFailure

LEMMA FirstBadFate ==
  ASSUME p.ordered \in Seq(Stage), NEW n \in DOMAIN p.ordered, fate[p.ordered[n]] # "ok",
         \A k \in DOMAIN p.ordered : k < n => fate[p.ordered[k]] = "ok"
  PROVE  SequentialFailure = [kind |-> fate[p.ordered[n]], stage |-> p.ordered[n]]
<1> DEFINE failing == {k \in DOMAIN p.ordered : fate[p.ordered[k]] # "ok"}
<1>1. n \in failing /\ n \in Nat /\ failing \subseteq Nat
  OBVIOUS
<1>2. \A j \in failing : n <= j
  BY <1>1
<1>. HIDE DEF failing
<1>3. (CHOOSE k \in failing : \A j \in failing : k <= j) = n
  BY <1>1, <1>2
<1>. QED
  BY <1>1, <1>3 DEF SequentialFailure, failing

\* If some fate is bad, a sequential run fails.
LEMMA SomeBadFate ==
  ASSUME p.ordered \in Seq(Stage), fate \in [Stage -> Fates],
         NEW n \in DOMAIN p.ordered, fate[p.ordered[n]] # "ok"
  PROVE  SequentialFailure.kind # "nil"
<1> DEFINE failing == {k \in DOMAIN p.ordered : fate[p.ordered[k]] # "ok"}
<1>1. failing # {} /\ failing \subseteq Nat
  OBVIOUS
<1>2. PICK k \in failing : \A j \in failing : k <= j
  <2>. HIDE DEF failing
  <2>. QED
    BY <1>1, LeastOfNats
<1>3. k \in DOMAIN p.ordered /\ p.ordered[k] \in Stage /\ fate[p.ordered[k]] # "ok"
  BY <1>2
<1>4. \A j \in DOMAIN p.ordered : j < k => fate[p.ordered[j]] = "ok"
  BY <1>1, <1>2
<1>5. SequentialFailure = [kind |-> fate[p.ordered[k]], stage |-> p.ordered[k]]
  BY <1>3, <1>4, FirstBadFate
<1>. QED
  BY <1>3, <1>5 DEF Fates

\* A run that was not canceled returns, when its levels follow the run order, what
\* a sequential run returns; in any case it fails when that one would, and returns
\* nil only with all outputs in the Scope.
THEOREM SameFailure == Spec => []SameErrorIfAligned
<1>1. Init => SameErrorIfAligned
  BY DEF Init, SameErrorIfAligned
<1>2. ASSUME IInv, QuietInv, EndInv, EndInv', SameErrorIfAligned, [Next]_vars
      PROVE  SameErrorIfAligned'
  <2>1. CASE pc = "returned"
    <3>1. UNCHANGED vars
      BY <1>2, <2>1, ReturnedStays
    <3>2. UNCHANGED <<p, fate, pc, cancelled, result, outputs>>
      BY <3>1 DEF vars, input, scope
    <3>. QED
      BY <1>2, <3>2 DEF SameErrorIfAligned, SequentialFailure, Sequential, Aligned
  <2>2. CASE pc # "returned" /\ ~(pc' = "returned" /\ ~cancelled')
    BY <2>2 DEF SameErrorIfAligned
  <2>3. CASE pc # "returned" /\ pc' = "returned" /\ ~cancelled'
    <3>1. RunStep
      BY <1>2, <2>3, StageFrame DEF Next, Returned, Cancel, vars
    <3>2. UNCHANGED <<p, fate, cancelled, outcome, outputs>> /\ ~cancelled
      BY <2>3, <3>1, RunFrame
    <3>3. SequentialFailure' = SequentialFailure /\ Sequential' = Sequential /\ Aligned' = Aligned
      BY <3>2 DEF SequentialFailure, Sequential, Aligned
    <3>4. /\ p.ordered \in Seq(Stage) /\ fate \in [Stage -> Fates]
          /\ MemberOf(p.ordered) \subseteq Stage /\ outputs \subseteq Stage
      BY <1>2, WellFormedPipeline, MembersIn
         DEF WellFormed, IInv, BaseTypes, StageTypes, SetTypes
    <3>5. \A s \in Stage : /\ outcome[s] = "ok" => fate[s] = "ok"
                           /\ outcome[s] # "ctx"
                           /\ outcome[s] \in {"err", "panic"} => fate[s] = outcome[s]
      BY <1>2, <3>2 DEF EndInv
    <3>6. CASE ReturnsNil
      <4>1. \A k \in DOMAIN p.ordered : fate[p.ordered[k]] = "ok"
        BY <3>4, <3>5, <3>6 DEF ReturnsNil, Succeeded, MemberOf
      <4>2. SequentialFailure = [kind |-> "nil"] /\ result' = [kind |-> "nil"]
        BY <3>6, <4>1, FatesAllOk DEF ReturnsNil
      <4>3. outputs = Succeeded
        BY <1>2, <3>4 DEF Succeeded, EndInv, IInv, StartedInv
      <4>. QED
        BY <3>2, <3>3, <3>6, <4>2, <4>3 DEF SameErrorIfAligned, ReturnsNil
    <3>7. CASE ReturnsCtx
      BY <3>2, <3>7 DEF ReturnsCtx
    <3>8. CASE ReturnsFailure
      <4> DEFINE f == p.ordered[First]
      <4>1. /\ First \in DOMAIN p.ordered /\ f \in Stage
            /\ outcome[f] \in {"err", "panic"}
            /\ result' = [kind |-> outcome[f], stage |-> f]
        BY <3>4, <3>5, <3>8 DEF ReturnsFailure, Failed
      <4>2. fate[f] = outcome[f]
        BY <3>5, <4>1
      <4>3. SequentialFailure.kind # "nil"
        BY <3>4, <4>1, <4>2, SomeBadFate
      <4>4. ASSUME Sequential \/ Aligned
            PROVE  SequentialFailure = [kind |-> fate[f], stage |-> f]
        <5>1. \A k \in DOMAIN p.ordered : k < First => fate[p.ordered[k]] = "ok"
          BY <3>4, <3>5, <3>8, <4>4 DEF ReturnsFailure
        <5>. QED
          BY <3>4, <4>1, <4>2, <5>1, FirstBadFate
      <4>. HIDE DEF f
      <4>5. result'.kind # "nil"
        BY <4>1
      <4>. QED
        BY <3>3, <4>1, <4>2, <4>3, <4>4, <4>5 DEF SameErrorIfAligned
    <3>. QED
      BY <1>2, <2>3, <3>1, <3>6, <3>7, <3>8, HowRunReturns
  <2>. QED
    BY <2>1, <2>2, <2>3
<1>. QED
  BY <1>1, <1>2, InductiveInvariant, QuietInvariant, EndInvariant, PTL DEF Spec
-----------------------------------------------------------------------------
\* The stages whose duration has been recorded, which are those that returned.
Timed == {s \in Stage : outcome[s] \in {"ok", "err", "ctx"} /\ stg[s] # "timing"}

InRunOrder(list) ==
  \A j, k \in DOMAIN list :
    j < k => FirstIndex(p.ordered, {list[j]}) < FirstIndex(p.ordered, {list[k]})

\* They are the reported stages, in the run order whenever Run promises it.
TimesInv ==
  /\ stageOrder \in Seq(Stage) /\ MemberOf(stageOrder) = Timed
  /\ Sequential \/ pc = "returned" => InRunOrder(stageOrder)

\* Run's goroutine records no duration, and reorders what is recorded when it returns.
LEMMA RunTimes ==
  ASSUME IInv, RunStep
  PROVE  /\ Timed' = Timed
         /\ pc' # "returned" => stageOrder' = stageOrder
         /\ pc' = "returned" =>
              stageOrder' = IF Sequential THEN stageOrder
                            ELSE Kept(p.ordered, MemberOf(stageOrder))
<1>. USE DEF input, scope, mapsv, Return
<1>1. UNCHANGED outcome
  BY RunFrame
<1>2. ASSUME UNCHANGED stg PROVE Timed' = Timed
  BY <1>1, <1>2 DEF Timed
<1>3. ASSUME NEW s \in Stage, stg[s] = "idle", StartStage(s) PROVE Timed' = Timed
  <2>1. /\ stg'[s] = "spawned" /\ outcome[s] = "none"
        /\ \A t \in Stage \ {s} : stg'[t] = stg[t]
    BY <1>3 DEF StartStage, IInv, BaseTypes, StageTypes, OutcomeInv
  <2>. QED
    BY <1>1, <2>1 DEF Timed
<1>4. CASE Begin
  BY <1>2, <1>4 DEF Begin
<1>5. CASE SeqStep
  <2>1. CASE pc' = "seqwait"
    BY <1>3, <1>5, <2>1, StartedStage
  <2>2. CASE pc' # "seqwait"
    <3>1. Timed' = Timed
      BY <1>2, <1>5, <2>2, SeqReturns
    <3>. QED
      BY <1>5, <2>2, <3>1 DEF SeqStep
  <2>. QED
    BY <2>1, <2>2
<1>6. CASE SeqBack
  BY <1>2, <1>6 DEF SeqBack, Passed, Advance
<1>7. CASE LevelStep
  BY <1>2, <1>7 DEF LevelStep, LevelsDone
<1>8. CASE Launch
  <2>1. Timed' = Timed /\ pc' = "launch" /\ stageOrder' = stageOrder
    BY <1>3, <1>8, LaunchedStage
  <2>. QED
    BY <2>1
<1>9. CASE Join
  BY <1>2, <1>9 DEF Join, WaitOver, Failures, Reported
<1>. QED
  BY <1>4, <1>5, <1>6, <1>7, <1>8, <1>9 DEF RunStep

\* A stage is recorded when timeStage says so, and not before.
LEMMA StageTimes ==
  ASSUME IInv, TimesInv, NEW s \in Stage, StageStep(s)
  PROVE  \/ Timed' = Timed /\ stageOrder' = stageOrder
         \/ /\ stg[s] = "timing" /\ s \notin Timed /\ Timed' = Timed \union {s}
            /\ stageOrder' = Append(stageOrder, s)
<1>. USE DEF input, scope, mapsv
<1>1. /\ \A t \in Stage \ {s} : stg'[t] = stg[t] /\ outcome'[t] = outcome[t]
      /\ stg \in [Stage -> {"idle", "spawned", "running", "timing", "returned", "panicking",
                            "unwinding", "leaving", "exited"}]
      /\ outcome \in [Stage -> Fates \union {"none", "ctx"}]
      /\ fate \in [Stage -> Fates]
  BY StageFrame DEF IInv, BaseTypes, StageTypes
<1>2. ASSUME s \in Timed <=> s \in Timed' PROVE Timed' = Timed
  BY <1>1, <1>2 DEF Timed
<1>3. CASE Enter(s)
  <2>1. UNCHANGED stageOrder /\ s \notin Timed
    BY <1>3 DEF Enter, Timed, IInv, OutcomeInv
  <2>2. s \notin Timed'
    <3>1. CASE cancelled /\ stg'[s] = "timing"
      BY <3>1 DEF Timed
    <3>2. CASE UNCHANGED outcome
      BY <1>3, <3>2 DEF Enter, Timed, IInv, OutcomeInv
    <3>. QED
      BY <1>1, <1>3, <3>1, <3>2 DEF Enter
  <2>. QED
    BY <1>2, <2>1, <2>2
<1>4. CASE Finish(s)
  <2>1. UNCHANGED stageOrder /\ s \notin Timed
    BY <1>4 DEF Finish, Timed, IInv, OutcomeInv
  <2>2. s \notin Timed'
    BY <1>1, <1>4 DEF Finish, Timed
  <2>. QED
    BY <1>2, <2>1, <2>2
<1>5. CASE TimeStage(s)
  <2>1. stg[s] = "timing" /\ stg'[s] = "returned" /\ UNCHANGED outcome
    BY <1>1, <1>5 DEF TimeStage
  <2>2. outcome[s] \in {"ok", "err", "ctx"}
    BY <1>1, <2>1 DEF IInv, OutcomeInv, Fates
  <2>3. s \notin Timed /\ Timed' = Timed \union {s}
    BY <1>1, <2>1, <2>2 DEF Timed
  <2>4. stageOrder' = Append(stageOrder, s)
    BY <1>5, <2>3 DEF TimeStage, TimesInv
  <2>. QED
    BY <2>1, <2>3, <2>4
<1>6. CASE Record(s) \/ Release(s) \/ Done(s)
  <2>1. /\ UNCHANGED <<stageOrder, outcome>>
        /\ stg[s] # "timing" /\ stg'[s] # "timing"
    BY <1>1, <1>6 DEF Record, Errored, Release, Done
  <2>. QED
    BY <1>2, <2>1 DEF Timed
<1>. QED
  BY <1>3, <1>4, <1>5, <1>6 DEF StageStep

\* What is reported are the recorded stages, and their order is the run order where
\* nothing runs concurrently, and where reorderStages has put it right.
LEMMA TimesKept == IInv /\ QuietInv /\ TimesInv /\ [Next]_vars => TimesInv'
<1>. SUFFICES ASSUME IInv, QuietInv, TimesInv, [Next]_vars PROVE TimesInv'
  OBVIOUS
<1>0. /\ WellFormed(p, Stage) /\ p.ordered \in Seq(Stage) /\ NoRepeats(p.ordered)
      /\ Timed \subseteq MemberOf(p.ordered) /\ Timed \subseteq Stage
  BY WellFormedPipeline DEF WellFormed, IInv, BaseTypes, Timed, OutcomeInv, MemberInv
<1>1. CASE RunStep
  <2>1. UNCHANGED p /\ Sequential' = Sequential /\ pc # "returned" /\ Timed' = Timed
    BY <1>1, RunFrame, RunTimes DEF Sequential
  <2>2. CASE pc' # "returned" \/ Sequential
    <3>1. stageOrder' = stageOrder
      BY <1>1, <2>2, RunTimes
    <3>. QED
      BY <2>1, <2>2, <3>1 DEF TimesInv, InRunOrder
  <2>3. CASE pc' = "returned" /\ ~Sequential
    <3>1. stageOrder' = Kept(p.ordered, Timed)
      BY <1>1, <2>3, RunTimes DEF TimesInv
    <3>2. /\ Kept(p.ordered, Timed) \in Seq(Stage)
          /\ MemberOf(Kept(p.ordered, Timed)) = MemberOf(p.ordered) \cap Timed
          /\ InRunOrder(Kept(p.ordered, Timed))
      BY <1>0, KeptIs DEF InRunOrder
    <3>3. MemberOf(p.ordered) \cap Timed = Timed
      BY <1>0
    <3>. HIDE DEF InRunOrder
    <3>4. InRunOrder(stageOrder)'
      BY <2>1, <3>1, <3>2 DEF InRunOrder
    <3>. QED
      BY <2>1, <3>1, <3>2, <3>3, <3>4 DEF TimesInv
  <2>. QED
    BY <2>2, <2>3
<1>2. ASSUME NEW s \in Stage, StageStep(s) PROVE TimesInv'
  <2>1. UNCHANGED <<p, pc>> /\ Sequential' = Sequential
    BY <1>2, StageFrame DEF Sequential
  <2>2. CASE Timed' = Timed /\ stageOrder' = stageOrder
    BY <2>1, <2>2 DEF TimesInv, InRunOrder
  <2>3. CASE /\ stg[s] = "timing" /\ s \notin Timed /\ Timed' = Timed \union {s}
             /\ stageOrder' = Append(stageOrder, s)
    <3>1. /\ stageOrder \in Seq(Stage) /\ MemberOf(stageOrder) = Timed
          /\ Len(stageOrder) \in Nat /\ DOMAIN stageOrder = 1 .. Len(stageOrder)
      BY DEF TimesInv
    <3>2. stageOrder' \in Seq(Stage) /\ MemberOf(stageOrder') = Timed'
      BY <2>3, <3>1, AppendMembers
    <3>3. pc # "returned"
      BY <2>3 DEF QuietInv, NoLeak
    <3>4. ASSUME Sequential PROVE InRunOrder(stageOrder)'
      <4>1. nxt \in DOMAIN p.ordered /\ s = p.ordered[nxt] /\ pc = "seqwait"
        BY <2>3, <3>4, SeqMover
      <4>2. ASSUME NEW t \in Timed
            PROVE  FirstIndex(p.ordered, {t}) < FirstIndex(p.ordered, {s})
        <5>1. t \in Stage /\ stg[t] # "idle" /\ t # s
          BY <2>3, <4>2 DEF Timed, IInv, OutcomeInv
        <5>2. PICK k \in DOMAIN p.ordered : t = p.ordered[k] /\ k <= nxt
          BY <3>4, <4>1, <5>1, SeqPlaces
        <5>3. k # nxt /\ k \in Nat /\ nxt \in Nat
          BY <1>0, <4>1, <5>1, <5>2
        <5>4. FirstIndex(p.ordered, {t}) = k /\ FirstIndex(p.ordered, {s}) = nxt
          BY <1>0, <4>1, <5>2, PlaceOf
        <5>. QED
          BY <5>2, <5>3, <5>4
      <4>3. /\ DOMAIN stageOrder' = 1 .. Len(stageOrder) + 1
            /\ stageOrder'[Len(stageOrder) + 1] = s
            /\ \A x \in 1 .. Len(stageOrder) : /\ stageOrder'[x] = stageOrder[x]
                                               /\ stageOrder[x] \in Timed
        BY <2>3, <3>1 DEF MemberOf
      <4>4. ASSUME NEW j \in DOMAIN stageOrder', NEW k \in DOMAIN stageOrder', j < k
            PROVE  FirstIndex(p.ordered, {stageOrder'[j]}) < FirstIndex(p.ordered, {stageOrder'[k]})
        <5>1. j \in 1 .. Len(stageOrder)
          BY <3>1, <4>3, <4>4
        <5>2. CASE k = Len(stageOrder) + 1
          BY <4>2, <4>3, <5>1, <5>2
        <5>3. CASE k # Len(stageOrder) + 1
          <6>1. k \in 1 .. Len(stageOrder)
            BY <3>1, <4>3, <5>3
          <6>. QED
            BY <3>1, <3>4, <4>3, <4>4, <5>1, <6>1 DEF TimesInv, InRunOrder
        <5>. QED
          BY <5>2, <5>3
      <4>. QED
        BY <2>1, <4>4 DEF InRunOrder
    <3>. QED
      BY <2>1, <3>2, <3>3, <3>4 DEF TimesInv
  <2>. QED
    BY <1>2, <2>2, <2>3, StageTimes
<1>3. CASE Cancel \/ UNCHANGED vars
  <2>1. UNCHANGED <<p, pc, stg, outcome, stageOrder>>
    BY <1>3 DEF Cancel, vars, input, scope
  <2>. QED
    BY <2>1 DEF TimesInv, Timed, InRunOrder, Sequential
<1>. QED
  BY <1>1, <1>2, <1>3 DEF Next, Returned

\* The stages reported are those that returned, in the run order, whatever order they
\* completed in and however Run ends.
THEOREM OrderReported == Spec => []ReportedOrder
<1>1. Init => TimesInv
  <2>1. ASSUME Init PROVE Timed = {} /\ stageOrder = <<>>
    BY <2>1 DEF Init, Timed
  <2>. QED
    BY <2>1 DEF TimesInv, MemberOf, InRunOrder
<1>2. ASSUME QuietInv, TimesInv, TypeOK PROVE ReportedOrder
  <2>1. ASSUME pc = "returned" PROVE Timed = {s \in Stage : outcome[s] \in {"ok", "err", "ctx"}}
    BY <1>2, <2>1 DEF QuietInv, NoLeak, Timed
  <2>. QED
    BY <1>2, <2>1 DEF TimesInv, InRunOrder, ReportedOrder
<1>. QED
  BY <1>1, <1>2, TimesKept, TypeCorrect, InductiveInvariant, QuietInvariant, PTL DEF Spec
=============================================================================
