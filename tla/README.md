# A TLA+ model of rlng

rlng is a Go library that evaluates rulesets: *stages* (expressions, decision
tables, loops over a collection) run in dependency order against a *Scope*, a
tree of maps that accumulates their outputs and, on request, where each value
came from. This directory models the parts of it that carry the logic, checks
them with TLC on small instances, and proves some of the results with TLAPS for
every instance.

- [The system](#the-system): its components, their state and what is hard
- [The modules](#the-modules): what models what
- [The runs](#the-runs): what TLC checks, within which bounds
- [The proofs](#the-proofs)
- [Where the code and its documents differ](#where-the-code-and-its-documents-differ)
- [What is not modelled](#what-is-not-modelled)
- [The plan](#the-plan)

## The system

| component | state | operations | what makes it correct |
| --- | --- | --- | --- |
| Pipeline construction (`pipe/pipeline.go`) | stages, run order, levels, `maxParallel`, `wide` | `NewPipeline`, `topoSort`, `findCycle`, `computeLevels` | accepts exactly the acyclic, closed sets of stages; the order respects the dependencies and otherwise the input; a reported cycle is one; each stage is one level past its deepest dependency |
| Pipeline run (`pipe/pipeline.go`, `timing.go`) | the goroutines of a level, the semaphore, the maps of errors and panics, the reported order | `Run`, `runSequential`, `runWaves`, `runLevel`, `timeStage`, `reorderStages` | a stage sees what it depends on; at most `n` in flight; nothing outlives `Run`; the failure returned does not depend on timing |
| Scope (`pipe/scope.go`) | `data`, a tree of maps, behind a lock; `strict`, `concurrent` | `NewScope`, `Set`, `Get`, `Snapshot` | the caller's maps are never written; stages of a level do not see each other; strict mode replaces nothing |
| Provenance (`pipe/provenance.go`) | `derivations` by path | `Derive`, `recordElementDerivations`, `Lineage`, `Explain` | each value's record is the one of the value that is there; lineage lists inputs first |
| Decision table (`pipe/table.go`, `firing.go`) | compiled rules; `Scope.firing` | `Execute` under four hit policies, `recordFirings` | the rules that fire, the outputs and the record agree with each other |
| Aggregation (`pipe/table.go`, `numeric.go`) | none | `aggregate`, `classify`, the folds | sums are exact or refused; min and max give an element of the list |
| Expression stages (`pipe/single.go`, `multi.go`) | compiled expressions | `Execute` | a MultiExpr's expressions see the earlier ones |
| ForEach (`pipe/foreach.go`) | inner pipeline, rollups | `Execute`, `applyRollup` | elements are isolated; records are kept per element |
| Ruleset identity (`pipe/ruleset.go`, `config/hash.go`) | `Scope.ruleset`, the definition's memo | `Hash`, `MatchesRuleset`, `stampRuleset` | equal content, equal hash; a decision names the ruleset that made it |
| Scope JSON and getters (`pipe/json.go`, `valuejson.go`, `get.go`) | none | `MarshalJSON`, `UnmarshalJSON`, the getters | a value comes back with its kind and magnitude |
| Config (`config/`) | definitions | `Parse`, `Build`, `Lint`, providers, URL source | bad definitions are refused, naming the field |
| Expressions (`expr/`) | compiled programs | `Function.Apply`, `Predicate.Test` | fallback, coercion and truthiness follow their rules |
| Engine and mapper (root) | the pipeline and its seed options | `Evaluate`, `EvaluateScope`, `Map` | inputs are validated and flattened; a mapping has no collisions |

How they interact. `config.Build` turns a definition into stages and calls
`NewPipeline`. The engine flattens the caller's input, makes a Scope and calls
`Pipeline.Run`. `Run` stamps the Scope and executes each stage, on its own
goroutine or on one per stage of a level; each stage takes a `Snapshot`,
evaluates expressions against it without the Scope's lock, and writes with
`Derive` or `Set`. A ForEach runs an inner pipeline once per element against a
Scope of its own and merges that Scope's records into the outer one. The mapper
and the getters read the Scope that is left.

What is hard. Stages of one level interleave freely, share nested maps unless
they were copied, fail and panic while others are running, and are cut short by
the caller's context at any moment. Nothing is persisted while a run is going
on, so there is no crash recovery to speak of; there is partial failure (a rule
half applied), stale state (a Scope that is run again, live maps in records) and
a good deal of arithmetic at its limits. `PROJECT.json` lists each hazard at its
line with the properties that watch it.

## The modules

| module | models | remarks |
| --- | --- | --- |
| `StageGraph` | the order of `topoSort` and the levels of `computeLevels`, as functions | no state; shared by the next two |
| `PipelineBuild` | `NewPipeline` | one step per iteration of the code's loops |
| `PipelineContract` | what `Run` promises | abstract: which stages are done and which have failed |
| `PipelineRun` | `Run` | implements `PipelineContract`; its pipelines are those `StageGraph` gives |
| `ScopeHeap` | the Scope's data in memory, and the write path of provenance | maps are nodes of a heap, so aliasing shows |
| `DecisionTable` | `DecisionTable.Execute` and the firing record | expressions yield any outcome |
| `ForEach` | `ForEach.Execute`, its roll-ups and merged records | the inner pipeline is abstract, a sibling stage interleaves |
| `Aggregate` | `aggregate` and its folds | int64 wraps, float64 rounds |
| `Lineage` | what provenance records, and the queries `Lineage` and `Explain` | one step per call of the recursion |
| `ScopeJSON` | `MarshalJSON`, `UnmarshalJSON`, the tagged encoding, the getters | a Scope makes several trips |
| `ConfigSource` | `Parse` and its providers | what is opened, read and closed |
| `ConfigBuild` | `Build`, `Lint`, the content hash | recursion over nested definitions, with a stack |
| `Config` | composes the two with runs on a Scope: identity and reported stages | |
| `Expression` | defaults, `Predicate.Test`, the fallback of `Function.Apply` | operators, no state |
| `Engine` | a `TypedEngine`'s call: flatten, one stage, template, decoding | uses `Expression` |
| `Listing` | the members and the repetitions of a sequence | operators, no state |
| `DotPath` | paths, prefixes and overlaps | operators, no state; shared by `ScopeHeap` and `Lineage` |
| `MC*` | the instances for TLC | |
| `StageGraphProofs`, `PipelineBuildProofs`, `PipelineRunProofs`, `ForEachProofs`, `DecisionTableProofs`, `ConfigProofs`, `EngineProofs`, `ScopeProofs` | the proofs | each EXTENDS what it is about; `ForEachProofs` covers `Aggregate` too, `ScopeProofs` both `ScopeHeap` and `Lineage` |

**PipelineBuild.** `pc` names the loop `NewPipeline` is in and `i` its index;
`stages`, `deps`, `mode` and `boundN` are the arguments; the other variables are
the code's locals (`index`, `emitted`, `ordered`, `progressed`, `path`, `lvlOf`,
`levels`). `CheckOptions`, `CheckDuplicate` and `CheckDependencies` are the
validations in the code's order, `Visit` and `EndPass` are the two loops of
`topoSort`, `FollowCycle` one step of `findCycle`, `Place` one of
`computeLevels`.

**PipelineRun.** `pc`, `lvl` and `nxt` say where `Run`'s own goroutine is, `stg`
where each stage's is: *spawned* (the goroutine exists and, if the run is
bounded, holds a token), *running* (past its `Snapshot`), *timing* (Execute has
returned, `timeStage` has not recorded it), *returned* or *panicking*,
*unwinding* (the error or panic is noted), *leaving* (the token is back),
*exited* (`wg.Done`). A stage's work is abstract: `Enter` takes what the Scope
holds, `Finish` ends as `fate` says, in an output, an error or a panic. A stage
may also find the context done on entry; the built-in stages look, others need
not, so both are allowed. `Cancel` may happen at any moment.

**PipelineContract.** Stages start to be *done* or *failed* one at a time, never
before what they depend on is done, and never again. `PipelineRun` maps `done`
and `failed` to the stages whose Execute ended without and with a failure, and
TLC checks the implementation as a property (`KeepsContract`).

**ScopeHeap.** A map is a node, named by who allocated it and where, so that a
copy can be told from a reference. `Snapshot` copies the top level, or the whole
spine when the Scope is concurrent; `SetPath` walks and extends the maps in
place, and stores the value as it is. A program is a Scope's options and, per
stage, a script: the paths it writes and, for each, the path its expression
yields (or a new value). `Evaluate`, `Write` and `Record` are separate steps
because the code takes the lock twice and evaluates outside it. `Sequentially` is the
run that pipe/pipeline.go:72-74 compares a wave with: one stage after the other, with
the shallow snapshots of a Scope that is not concurrent. A wave keeps to it for
`Independent` programs, which need more than the caller's duty of disjoint writes
(pipeline.go:86-92): nothing that is written is read, and nothing is written below an
output that may be a map. Records agree with the data in every program, on paths that are
not contested (`Uncontested`).

**DecisionTable.** One step is one condition, one decision or one write. The
conditions and decisions are expressions over the Snapshot, and each yields any
outcome once per call; two calls run against one Scope, so the second meets what
the first recorded and wrote. `valuesAgree` and `aggregate` are parameters of the
module; the instance has two values that agree across kinds and one that cannot
be summed.

**ForEach.** `pc` says whether the stage is at the head of its loop, inside the
inner pipeline, at a roll-up or at the write of the results; `esc` is the
element's Scope, `items` the results so far. `header` is what the outer Scope
holds under the stage's name, `firing` and `derived` what it has recorded for
each element. An inner run fails or gives an output or none, and fires a rule or
none. The sibling is an independent stage that writes once, before or after the
stage or, in a wave, at any time. `Replace` is the caller, who writes another
collection between two runs on one Scope; `ran` and `before` are history, for the
properties only.

**Aggregate.** Numbers are integers. `Wrap` is int64 arithmetic at width
`Half`, `Round` is float64 arithmetic with integers exact up to `Exact` and a
unit of two beyond, and `Shortest` is the decimal a float converts to. Infinity
is positive only, and floats do not overflow to it.

**Lineage.** A path is a sequence of keys; `inputs` is `Scope.derivations` without
the values. `Set` and `Single` are writes without and with a record; `Begin`,
`Expression` and `End` are a MultiExpr, whose aliases are local names in its
environment and paths in its records; `Merge` is the end of a ForEach element. Two
stages may overlap: `Single` reads what was there when the stage began.
`References` is `expr/refs.go`: of a name and a path below it, only the path is
recorded. A query is a stack, `agenda`, of the calls of `collectLineage` or
`explain` that are still to be made, so that the depth limit and the order in
which `visited` fills are the code's. The history variables `from`, `writer`,
`tidy` and `settled` say where a value really came from and whether the
conditions of `LineageIsDataflow` hold: `tidy`, that no value, record or element
lies at, above or below another (`Alone`) and that no input went unrecorded;
`settled`, that nothing was written where an expression had already read
(`Unread`), and that the records an element brings along are not circular.

**ScopeJSON.** A value is its kind and magnitude, floats in halves so that some
have a fraction. `EncodeValue` and `DecodeValue` are the tagged encoding with its
depth limit and its refusals, `BareJSON` and `FromJSON` the untagged one that
records and old envelopes use. `Marshal`, `Reload`, `LoadForeign` and `Resume` move a
Scope along; a Scope may be restored into a new one or into one that has data.

**ConfigSource, ConfigBuild, Config.** A text is a sequence of documents. A decoder takes
a buffer and not a document, so what it leaves in a caller's reader is any of
`Leavings`: the text after some document, or after a part of one (`Fragments`, what such a
part decodes to). `Limit` wraps at `MaxInt`, the greatest int64.

A definition is a sequence of stages in the order they are written, each with its parent
and what `Build` looks at. An expression is what compiling it gives, with its field, the
name it is bound to (`key`) and its row: the priority of an entry of a multi-expression, or
the rule it belongs to. `ConfigBuild` takes the checks in `Build`'s order, one step per
stage and phase, and notes the fault; `Verdict` is what the stage's own function and its
constructor in `pipe` refuse, entry by entry in the order they are compiled (`Precedes`,
`EntryErr`). `Faults` is the reference, everything that is wrong anywhere; for a stage by
itself that is `Amiss`, which knows no order of entries. The hash is the canonical content
itself: two contents have one hash exactly if they are the same. `Config` parses,
loads, builds, edits, builds again and runs, and the Scope keeps `stamp`, `times`
and `reported`. `Timed` is every set of stages a run that may end early can have
timed.

**Expression, Engine.** `Identifier` patches the `Literal` of a default into a name, if it
has one: an integer beyond int has none, and a list or a map has none. `Test` is a
condition with and without coercion, `FallsBack` and `FallbackEnv` say when a
fallback runs and what it sees. `Engine` goes through the phases of one call:
construction checks, `flatten` and `restoreDecimals`, the stage's condition,
expression and fallback, the template field by field with `SetNested`, the
decoding. A field of an input has the key of the struct it is nested in, which may be
squashed into the top level (`Level`), or have the tag "-"; mapstructure leaves some out
(`LeftOut`) and empties decimals (`Emptied`), and `PutBack` says which of them
`restoreDecimals` finds. A decimal is decoded in two steps: `Narrow`, the code's hook, checks
it against the 64-bit kind of the sign, and `Assigned`, the library, cuts the integer to the
width of the field. Maps have references, so that a template that writes into a map of the
Scope shows.

## The runs

Ten runs pass. Type invariants are conjuncts of one property each (`ReportedOrder`,
`LevelsByDepth`, `CallerUntouched`, `ElementIsExtreme`, `FailuresLeaveAPrefix`,
`ElementsApart`, `LineageIsReachable`, `RefusesExactly`, `AcceptsExactly`,
`DefaultsByPrecedence`).

- `Build` (489,000 states): every slice of at most three of three names with at
  most two dependencies each, repeated and unknown names included, and every
  mode. Three names are enough for a cycle with a tail, a stage
  that becomes ready within a pass, and levels that differ from the run order.
- `Run` (423,000 states): every acyclic graph of three stages, all four values
  of the bound that differ, every combination of ends, and a cancellation
  anywhere. Three stages give a level with two, a bound that bites, and a
  failure next to a stage that still runs.
- `Scope` (57,000 states): two stages with up to two outputs each over paths two
  deep, sequential and concurrent, strict and not.
- `Aggregate` (44,000 states): every list of at most three values of every kind
  in four-bit integers, with the extremes and their neighbours.
- `Table` (1.06 million states): two calls of every table of two rules over two
  keys, and of three rules over one, under each policy, with and without
  defaults, strict and not.
- `ForEach` (1.8 million states): two calls over every list of at most two
  elements, a path that is missing or no list, and two sets of two roll-ups, one
  of which shares the key of the results; with provenance and without, strict and
  not, in a wave and not.
- `Lineage` (1.31 million states): every three writes over a seed, four names and
  two aliases, each reading one of the sets in `MCReads`, then every query. Three
  writes make a chain, a diamond, a name that is read before something is written
  below it, and, with the depth limit at four, chains through an element that are
  cut.
- `ScopeJSON` (124,000 states): up to three trips of a value of each kind,
  at the edges of four-bit integers, of the exact range of floats and of
  the years that JSON can hold, nested to one level past the limit; and foreign
  envelopes of both versions, well formed and not.
- `Config` (328,000 states): texts with no, one and two documents, from each
  kind of provider, parsed twice, under limits up to `MaxInt`; definitions with one fault
  of each kind, those the constructors refuse included, and
  with nested ForEach stages that shadow and do not; two builds around an edit;
  three runs, in sequence and in waves.
- `Engine` (142,000 states): stages with defaults of each kind at all three layers, with
  conditions of each type and fallbacks that work, fail or answer to a nil; inputs that
  nest, squash and leave out fields; templates that nest, and that collide; decimals at
  both ends of signed and unsigned targets, of the widest kind (an int holds -16 to 15, a
  uint 0 to 31) and of a narrow one (an int8 -4 to 3, a uint8 0 to 7).

Two expect a violation, `RunError` and `Collision`; see below.

Fairness: `NewPipeline` is one goroutine and takes its next step; in a run the
Go scheduler runs every goroutine that can run, and every `Execute` ends (a
stage that never returns keeps `Run` from returning, as in the code). Nothing
forces a cancellation. The other modules claim no liveness.

Bounds that are not in the code: `MaxCalls` in `DecisionTable` and in `ForEach`,
since two calls are what it takes to meet the leavings of an earlier one;
`MaxWrites` in `Lineage`; `MaxTrips` in `ScopeJSON` (the second trip is of what
the first left); `MaxParses`, `MaxBuilds`, `MaxRuns` and `Edits` in `Config` (two
builds around an edit, and a third run after two of different pipelines). Bounds
of the code at a smaller size: `CloneDepth` for `maxCloneDepth`, which no path of
the instance reaches; `MaxLineageDepth` and `MaxDepth`, which the
instances exceed; `MaxInt`, `IntMax`, `UintMax`, `SignedMax` and `UnsignedMax` for the
ranges of the integers, which values reach and exceed.

## The proofs

Each module of proofs EXTENDS the module it is about. What it proves holds for
every value of the constants that satisfies the assumptions named in the modules:
any number of stages, rules, elements, calls and runs, any width of integers.
`PROJECT.json` lists the theorems; this section gives their arguments.

**Construction** (`StageGraphProofs`, `PipelineBuildProofs`). `IInv` says what the
position in each loop means. `SortInv`: what is emitted is in a legal
order, and a pass that has made no progress has found every stage it went by
emitted or unready, so a pass without progress is a deadlock
(`StallIsDeadlock`), and the walk of `findCycle` stays in the rest, where it
always has a step to take, and closes (`WalkInv`, `LoopIsCycle`).
`InputOrderInv`: stages given in a legal order are emitted as they stand. From these follow `BuiltOrder`, `CycleIsReal` and `VerdictIsRight`. For
the levels, `LevelsInv` (`ShapeInv`, `DepthInv`, `RowsInv`) says that each
stage placed is one past its deepest dependency and stands in the row of its
level, in the run order. `SortedInv` then relates the loops to `TopoOrder` and
`LevelsOf`, the same computations as recursive functions: `LevelsByDepth`. Last,
`BuiltCanRun`: what is built satisfies `WellFormed`, which the proofs about a run
assume of a pipeline.

**Run** (`PipelineRunProofs`). `DepsVisible` is not
inductive: it must be known that stages before the current position have all
succeeded and written, and that stages after it have not started. `IInv` says so.
`AheadInv`: nothing past the current position of the order or the current level
has started. `BehindInv`: everything before it has ended well. `OutcomeInv`: the
place of a stage and its outcome agree, and a stage that ended well has its
output in the Scope. `RecordInv`: the maps of `runLevel` hold the failures of the
stages that have unwound. `QuietInv` (what is quiet once `Run` has returned) and
`SlotsInv` (the tokens in use are those of the stages that hold one, with the
cardinality facts of the library) give `NoLeak` and `SemaphoreBound`.
`IsolatedOverlap` needs that the Scope is concurrent as soon as a wave starts
(`ConcInv`); `SameErrorIfAligned` what `Run` returns for which failures
(`EndInv`); `ReportedOrder` which stages are timed at each position
(`TimesInv`). `ContractKept` is the refinement: an initial state of the run maps to
one of `PipelineContract`, and each step of a stage or of `Run` to a step of the
contract or to none. `KeepsContract` is stated without fairness, so this is
all of it.

**Aggregation** (`ForEachProofs`). The overflow test of `foldInt` is exact for
every width, hence sums without floats are exact or refused, and nothing is
refused whose running total fits. `FoldInv` adds to the two properties that a fold in
int64 has only values classified as integers. `BestInv` says that the candidate
for an extreme is an element that none seen so far beats, in the number class the
classification chose.

**ForEach** (`ForEachProofs`). `LoopInv` says that the loop is at the element
after those that have ended, whose Scope is its own, and that each result
gathered holds its own element and its own run's output; `HeaderWaits` that
the outer Scope still holds what it held; `HeaderInv` that it holds what the
roll-ups written so far, one by one, make of that.

**Decision table** (`DecisionTableProofs`). `TypeInv`, and for each phase of
`Execute` a conjunct of `PhaseInv`: while conditions are tested (`Gathered`) the
rules matched are those whose condition yielded true; under `first` and `unique`
(`Applying`) and `collect` and `any` (`InAll`, `Pending`, `Writing`) what has been evaluated is
the cells of the rules that fired, in the order of the rules and within
a rule of the keys, up to the position, and the keys not yet written come after those that
are. `Outcomes` is what these leave when a call ends, and the three properties
follow from it.

**Configuration** (`ConfigProofs`). `SourceInv`: in each phase of a parse what is open,
and what may be left in a caller's reader: the whole text until it is decoded, and
afterwards documents of `Later`, or nothing if the text is one document. `BuiltInv`: what is parsed and built is a
definition, and a pipeline lists each of its stages once. `ListsInv`: `reported` has the members of `times` where the
condition of the property holds, sequential runs of one pipeline have timed and
list a prefix of its order, and a run in waves lists again what has been timed;
the merge of `Scope.reportStages` is `Kept` on two lists, for which `KeptStretch` and
`ConcatMembers` are the lemmas. `LintFindsTheGaps` holds in every state, from
what a catch-all shadows (`AfterCatchAll`, `NotAfterCatchAll`). `ReplayInv`: the memo is
the hash of the content unless the definition was edited since, and the stamp on
the Scope is of what ran last. Two contents have one hash exactly if their rules are
the same, which rests on `SameDecimals`: two decimals are equal exactly
if trimming their zeros gives the same digits and scale, for every scale.

`AcceptsExactly` compares what Build does, which stops at the first thing it
dislikes, with the set of all that is wrong anywhere in the tree (`FaultsAre` takes
that set apart). `AcceptInv` is its invariant: `ClearedInv`, each part of Build
that is over has left nothing of its kind; `VerdictInv`, what it has returned; and
`StepInv`, where it is. The last is the hard one, since two parts walk the
tree with a stack. `Standing` says that all stages around the one at hand are on
that stack, and that these are foreach stages which Build has come by; every other
stage before it has been verified (`Verified`). It is kept when the walk enters
a stage, skips one with what it holds, and leaves a foreach (`StandingInside`,
`StandingAfter`), because what is within a stage follows it without a gap
(`WithinIsStretch`). `ReportInv` is the part of `TypeOK` about `reported`.

**Engine** (`EngineProofs`). `MappedAsEvaluated` compares what the Mapper put
together with what the template evaluates to at the end, so the invariant has to
say that nothing an expression can see changes on the way. `DataInv`: a map that a
value of the Scope refers to is one of the input's (`Good`), and what an expression
evaluates to is such a value or a scalar (`EvalGood`). `OutInv`: a value of the
output is one of these, or a map that the Mapper made at its own key. `FaithInv`:
without an alias the input's maps are as they were seeded, and each path written
holds what it evaluates to. The paths come in their order, so that one below another
comes after it, and what is written at a key disturbs no path written before
(`EarlierDiffer`, `SetNestedIs`). `MainInv` says in which of three ways a stage has left
the Scope: it was skipped (`Skipped`), its expression took effect (`Ran`), or its
fallback did (`FellBack`), which sees no variables and hence comes to what it comes to
alone (`InsteadIs`); that, `GivenIs`, what an input gives for a name after both walks over
it, and `LookupSplit`, the order in which the three layers of
defaults are looked at, give the first two properties. `NarrowingExact` rests on
`NarrowIs`: the quotient by a power of ten without a remainder is the one
integer that stands for the decimal; and on `WrapIs` and `AssignedIs`: cutting an integer
to a width leaves it as it is if it fits, and its low bits if not.

**Scope data** (`ScopeProofs`). Whether the caller's maps stay as they are
depends on every map that is ever written, so the invariant is one of separation.
`ScopeInv`: outside the caller's maps nothing refers to one of them (`Separate`), and
no stage holds one as its value. `NewScopeSeparates` gets this from the copy of the
seed, which is where the assumption on its depth is used; a Snapshot copies maps that are separate
(`SnapshotSeparates`), what a stage evaluates to is found below its environment
(`Outside`, `LookupStays`), and the walk of `setPath` starts at the Scope's root, so it stays among
maps that are not the caller's, those it makes itself included (`DescendKeeps`,
`ReachedKeeps`, `SetPathKeeps`). Hence `CallerUntouched`.

`SiblingIsolation` is about two stages of a wave, so what each can reach has to be told
apart. `Layout` divides the Scope's maps in three: those with one path to them, which is
the one in their address; those of the stage that is looked at; and those of the others.
No way leads out of the second or the third part (`Inner`), and none into them except at
the outputs of the stages that own them (`Edge`). This is kept when a Snapshot copies
(`CopyLaidOut`, `NewLaidOut`) and when `setPath` walks and writes (`DescendLaidOut`,
`SetLaidOut`): a write that ends in the maps of the stage has come through one of
its outputs, which the property excludes. `WaveInv` adds that the environments of stages
that evaluate are in their own parts, and `Numbered` that the maps a stage will make have
addresses not in use. In an initial state the Scope is all there is (`WaveStarts`), each
step of a stage keeps or extends the three parts (`WaveKept`), and `StepUnseen` gives
the property. The hypothesis `[]WaveCopiesWhole` says that no map of a
concurrent Scope is deeper than a Snapshot copies. The code shares maps below that
depth, where the claim is not true, and a script can nest maps as deep as
it likes; so this is a condition on the run and not one on the constants.

**Lineage** (`ScopeProofs`). `RecordsInv`: the records are a graph over the names there
are. `Reach` is the least set that holds what the path stands for and is
closed under the needs of a derivation (`ClosureIs`, `ReachIs`): as many steps as
there are records are enough. The walk keeps four things. `Walk`: what is on the stack
is about what can be reached, below a call at some depth the ends of one iteration
of each lesser depth are left, and no two of these are of one derivation. `Cover`: all that can be reached has been met, or
is below a call that is left (`CoverKept`); with an empty stack this is
completeness (`CoverEnds`). It is lost when a call is cut off, but a call that
deep stands on as many derivations, all different and all met, as the depth limit, so
that where they fit nothing is left to meet (`DeepMeetsAll`, by cardinality). `Listed`:
the answer has what was met and is not on the stack, without repetition.
`Traced`: where the walk stands after a number of steps is a function of the graph
and the path, so that Explain, which walks after Lineage, ends with the same
derivations (`TraceEnds`), cut or not. These are `WalkInv`, `ListInv`, `ExplainInv` and `RestInv`, and
`LineageIsReachable` follows.

`LineageIsDataflow` compares the records, which are names, with the history of
the reads. `FlowInv` says how far they agree. In a tidy Scope a value that a
derivation wrote lies at its path or below, and every record is an
element's or has such a value (`OwnInv`); so the records that a name which was read stands for are
those that wrote what is there (`ForWritten`). An element's records are in the outer
Scope as they were in its own, under its prefix, and nothing else overlaps them
(`ElementInv`), so a name stands for the same in both (`ForBehind`). Hence `from` is
within `Needs`, and a later write keeps it so, since a name can only come to stand for more
(`ForGrows`). While the Scope is settled it cannot even do that (`ForStays`); then
the two are equal, and there are no circles (`Grounded`), as a new record needs older ones
only. The two closures then agree too (`SourcesReached`, `ElementReached`). That
inputs come first is about the order of the walk. `OrderInv`: what is on the stack above
the end of an iteration is behind its derivation, and what that needs has been
met or is above (`Nested`). When the end is on top all it needs has been met, and
nothing of that can still be on the stack, or the derivation would be behind itself
(`NotBelowItself`); so it has been listed (`Ordered`). Here too a cut is harmless where
the depth is enough, by `DeepMeetsAll`.

Recursion over data is within reach where it is written as a recursive function
or a fold over a sequence: `LeastOfNats` and `UptoInduction` of
`StageGraphProofs` stand for induction on an index, from the order of the
naturals alone, and `Iterates` gives the existence of a function that is defined by
such a recursion (`KeptLoop`, `PassLoop`, `SortLoop`, `LevelMapIs`, `TensLoop`,
`TrimLoop`, `FlattenLoop`, `AroundIs`, `PowerIs`, `LookupLoop`, `ReachedLoop`, `ClosureLoop`).

**What is assumed.** The constants' ASSUMEs, which TLC evaluates on every run, and
for `SiblingIsolation` that `WaveCopiesWhole` holds throughout, which is checked in
run `Scope` as a part of `Deterministic`. The constants are the sets their comments
say, and the lists the code takes from a map, such as the keys of a table, have no
repetitions (DecisionTable, ForEach, Config). A definition's stages are the nodes of
a tree, numbered as they are written (`InTree`), which is what nested lists of
stages in a text are. In `Engine` the entries of an input, and the paths of a
template, are the keys of maps: no two are the same at one level, that of a squashed
struct being the one it is in, and a template's are sorted, so
that a path comes before those below it (`IsInput`, `IsTemplate`); each integer kind has
its greatest value, within that of the widest. In `ScopeHeap` no
map of the caller lies deeper than the code copies (1000 levels), and below that the
code does share, as its comment says; a path has a segment and a script a write. In
`Lineage` there is a name, in the order of their texts, for every path that may be
written or recorded, a path is a sequence of strings, and a seed has a scalar.

**Only model-checked.** Liveness (`Terminates`) and the three properties of `ScopeJSON`,
whose encoding is RECURSIVE over values, are out of the prover's reach. One
statement is within it and not proved: `Deterministic` of `ScopeHeap`, which compares
the heap of a wave with that of a sequential run, up to a renaming of their nodes. TLC
checks it within the bounds above.

## Where the code and its documents differ

Two runs show a statement of a comment that the code does not keep, quoted under
"findings" in `PROJECT.json`. `RunError`: a wave run may return another failure
than a sequential one; `SameErrorIfAligned` says when it cannot. `Collision`: a
path mapped below another path is not refused when the value there is a map, and
then it is written into that map, which may be the Scope's own; `MappedAsEvaluated`
is stated for the other templates.

Further differences met on the way. Those of the first list follow from the
definitions named and can be seen by stating the document's claim as a property.

- Order of the sort (`Visit`): docs/specs/003-dag-orchestration.md:91 emits the
  first ready stage in input order each time; the code goes on through the pass,
  so `[a (needs b), b, c]` gives b, c, a and not b, a, c.
- Isolation (`SetPath`): pipe/scope.go:213-215 says a sibling's `Set` can never
  mutate a map a stage is reading. `Set` stores a map without a copy, so it can, when
  a stage stores a map of its own environment; `SiblingIsolation` has the condition.
- One rule's decisions: pipe/table.go:121-123 says they are evaluated against the
  same pre-rule snapshot. Each is written before the next is evaluated, and a plain
  Snapshot shares nested maps.
- Order of the levels (`LevelsOf`): pipe/pipeline.go:172-175 says that the levels
  concatenated equal the run order. `[a, b (needs a), c]` runs as a, b, c and has the levels
  a, c and b; `LevelsByDepth` asks for depths only, and this is what run `RunError` shows.
- Overflow (`Overflows`): pipe/table.go:49-51 speaks of the sum. The verdict is on
  each prefix, so it depends on the order of the rules.
- The final Scope (`StartElement`, `Snapshot`): pipe/pipeline.go:72-74 says it is the
  sequential one. The results of a ForEach's elements hold an independent sibling's output
  from the element on that started after it was written. And one stage alone that writes a
  map it has read and then below it, `x <- o` and `x.m` in one rule, writes `o.m` as well
  in a sequence, where its Snapshot shares the map, and not in a wave, where it is a copy;
  `Independent` excludes this in `Deterministic`.
- Narrow integers (`Assigned`): mapper.go:80-93 promises an explicit conversion of a decimal
  "instead of letting mapstructure's generic numeric conversion silently truncate". The hook
  checks 64 bits for every integer kind, and mapstructure then truncates: 300 becomes 44 in
  an int8, without an error. `NarrowingExact` says so.
- Keys of an input (`PutBack`): engine.go:177-179 calls the tag, or the name, the key that
  mapstructure uses. It uses none for a field tagged "-", which `restoreDecimals` writes
  under "-", nor for a squashed struct, whose decimals stay empty maps.
- Order of lineage (`DerivationsFor`): pipe/provenance.go:141-144 promises that a
  value appears after every input. Names are resolved when the query is made, so
  records can form a cycle: h reads g, then g.x is written reading h;
  `LineageIsDataflow` has the condition.

What comments leave out, or say too broadly:

- `FiringIsWhatMatched`, `RecordsFollowElements`: a record of firing outlives a later
  call that fires nothing; `RollupsMatchItems`: so does the sum, minimum or maximum
  of a ForEach, next to new results.
- `ReportedCoversTimes`: after a run of another pipeline in waves, `StageTimings`
  omits the stages before it, even when they run again in sequence.
- Identity: a rule that is changed between `Build` and `Hash` does not change the
  hash (config/hash.go:163 says a changed rule does), since the memo is kept; 1 and
  1.0 hash alike.
- Definitions: `condition: ""` is no condition; Lint does not look into tables below
  a ForEach, and under `unique` does not report the rules before a catch-all; an
  empty schema that is given as an option replaces the definition's; documents
  after the first in a text are ignored; an empty name together with a bad
  expression is blamed on the expression, with the cause of the name.
- JSON: a sub-minute zone offset shifts a time; a year past 9999 saves and does
  not load; provenance without derivations is lost; a decimal with a positive
  exponent loses it; `GetFloat64` on a `json.Number` that is an integer fails
  after a trip.
- Lineage: an expression that reads a map and a member of it records the member only.
- Sources: under `WithMaxBytes(math.MaxInt64)` nothing of a response is read, and any is
  accepted as an empty definition (config/urlsource.go:133); a second Parse of a caller's
  reader finds what the decoder's buffer has left, which may be a later document, a part
  of one, or nothing (`SourcesKeepFaith`).
- Engine: a fallback does not see an input's value for a constant, only the
  constant.

## What is not modelled

- Messages, rendering and logging; the YAML, JSON, HTTP and mapstructure libraries;
  the compilation and evaluation of expressions (external: expr-lang). Where a
  module needs their outcome it is a parameter or a choice.
- `toEnv` for structs as environments, and the overloaded operators on decimals:
  conversions without state.
- The clock's values and durations; a Scope that two runs share at the same time,
  which its comments exclude (two runs one after the other are in `Config`).
- The copies of input values in a derivation; `maxCloneDepth` being exceeded; slices
  in the Scope's data, which copies share.
- Narrower integer kinds than 64 bits in the getters (the fields of a result have them), and `GetBool`, `GetSlice` and
  `GetMap`, which are type assertions.
- In `ConfigBuild`: which of several malformed literals in one rule is named, since the map
  of its decisions is ranged over; a field is named without the ".globals" that follows
  it in messages; a SingleExpr without an expression is one with an empty list, and
  an empty condition is none. The hash is injective.
- In `Lineage`: keys whose text contains a dot.
- In `Engine`: failures of the decoding library other than lossy narrowing and a value of
  the wrong kind; pointers in the input, to a decimal or to a struct.
- In `ScopeHeap`: which of two stages of a wave prevails that write to one path, which the
  caller has to exclude (pipe/pipeline.go:86-92).
- Error types: wording, except for the field and cause that `AcceptsExactly` states.

There is no crash recovery, persistence, retry or network protocol in this code;
the one request (`urlsource.go`) is tried once.

## The plan

The modules are written. Of the properties that the runs check all invariants but
four, every action property and the refinement of the contract are proved. Of those four
the three of `ScopeJSON` would need its encoding as a function over trees. What is left:

1. `ScopeHeap`: `Deterministic`, from a relation between a heap and the sequential one
   that forgets the names of nodes, and from `Layout` for what concurrent stages write.
