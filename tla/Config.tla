-------------------------------- MODULE Config --------------------------------
(***************************************************************************)
(* A definition from its text to the decisions made with it: parsed from a *)
(* Provider, built, run on a Scope, changed and built again, run on the    *)
(* same Scope again, and matched against the identity that a Scope was     *)
(* stamped with.  Of a run, this module keeps what it records about        *)
(* itself: the identity, and which stages were timed in what order.        *)
(***************************************************************************)
EXTENDS ConfigSource, ConfigBuild

CONSTANTS
  Edits,     \* bound: the changes made, as pairs of definitions
  MaxBuilds, \* bound: how often Build is called
  MaxRuns    \* bound: the runs on the Scope

\* A constant as it is parsed, assigned or hydrated.
IsConstant(v) ==
  \/ v \in {<<"absent">>, <<"malformed">>, <<"chan">>}
  \/ v[1] \in {"int", "float"} /\ v = <<v[1], v[2]>> /\ v[2] \in Int
  \/ v[1] \in {"$dec", "decimal"} /\ v = <<v[1], v[2], v[3]>> /\ v[2] \in Int /\ v[3] \in Nat

\* The stages of a stage follow it, with nothing else among them.
InTree(d) ==
  \A k \in DOMAIN d.stages :
    LET p == d.stages[k].parent IN p \in 0 .. k - 1 /\ \A j \in p + 1 .. k - 1 : d.stages[j].parent >= p

\* A stage: each of its rules has a condition, and a priority is an int.
IsStage(s) ==
  /\ s.rules \in Seq(BOOLEAN) /\ s.collection \in BOOLEAN /\ s.exprs \in Seq(MemberOf(s.exprs))
  /\ \A j \in DOMAIN s.exprs : s.exprs[j].row \in -MaxInt - 1 .. MaxInt
  /\ {s.exprs[j].row : j \in {j \in DOMAIN s.exprs : s.exprs[j].field = "rules"}} = DOMAIN s.rules

\* A definition, its stages in the order they are written.
IsDefinition(d) ==
  /\ d = [stages |-> d.stages, const |-> d.const, schema |-> d.schema, version |-> d.version]
  /\ IsConstant(d.const)
  /\ d.stages \in Seq(MemberOf(d.stages))
  /\ \A k \in DOMAIN d.stages : IsStage(d.stages[k])
  /\ InTree(d)

ASSUME ConfigAssumption ==
  /\ {MaxBuilds, MaxRuns} \subseteq Nat /\ EmptyDef = NoStages
  /\ \A t \in {p.text : p \in Providers} : \A j \in DOMAIN t : t[j] # Bad => IsDefinition(t[j][1])
  /\ \A f \in Fragments \ {Bad} : IsDefinition(f[1])
  /\ \A e \in Edits : IsDefinition(e[2])

VARIABLES
  stamp,     \* Scope.ruleset, in a sequence
  times,     \* the stages in Scope.stageTimes
  reported,  \* Scope.stageOrder
  content,   \* history: the definitions built last and run last, and the builds
  runs       \* history: the pipelines that were run, as [order, wave]

scope == <<stamp, times, reported, runs>>
vars == <<source, build, scope, content>>

Init ==
  /\ SourceInit /\ BuildInit
  /\ stamp = <<>> /\ times = {} /\ reported = <<>> /\ runs = <<>>
  /\ content = [built |-> NoStages, ran |-> NoStages, builds |-> 0]

\* A definition is taken as it was parsed; the memo is unexported and not in it.
Load ==
  /\ phase = "parsed" /\ failure = "nil" /\ phase' = "loaded"
  /\ def' = parsed[1] /\ memo' = <<>> /\ edited' = FALSE
  /\ UNCHANGED <<provider, rest, handles, size, parsed, failure, parses,
                 opts, step, at, stack, fault, built, scope, content>>

Parsing == (SourceNext \/ ParseAgain) /\ UNCHANGED <<build, scope, content>>

\* The content is noted before constants are hydrated.
StartBuild(o) ==
  /\ phase = "loaded" /\ content.builds < MaxBuilds /\ Begin(o)
  /\ content' = [content EXCEPT !.built = def, !.builds = @ + 1]
  /\ UNCHANGED <<source, scope>>

Building == BuildNext /\ UNCHANGED <<source, scope, content>>

Change(d) == phase = "loaded" /\ <<content.built, d>> \in Edits /\ Edit(d) /\ UNCHANGED <<source, scope, content>>
-----------------------------------------------------------------------------
\* Pipeline.Run, which may end early.

\* timeStage: of the stages that ran, those are listed that were not timed before.
Listed(topo, ran) == Kept(topo, ran \ times)

\* Mutant: what has been timed is not looked at.
Reordered_All(topo, timed) == topo
\* reorderStages: the run order, of what has been timed on this Scope, ever.
Reordered(topo, timed) == Kept(topo, timed)

\* The stages that are timed: a prefix in sequence, or whole levels and some of
\* the next, when a stage fails or the context is cancelled.
Timed(p) ==
  IF p.wave
  THEN UNION {{(UNION {MemberOf(p.levels[j]) : j \in 1 .. l - 1}) \union S : S \in SUBSET MemberOf(p.levels[l])} :
              l \in DOMAIN p.levels}
  ELSE {{p.order[j] : j \in 1 .. k} : k \in 0 .. Len(p.order)}

Run ==
  /\ step = "built" /\ phase = "loaded" /\ ~edited /\ Len(runs) < MaxRuns
  /\ LET p == built[1] IN
       \E ran \in Timed(p) :
         /\ stamp' = <<p.ruleset>> /\ times' = times \union ran
         /\ reported' = IF p.wave
                        THEN IF times' = {} THEN reported ELSE Reordered(p.order, times')
                        ELSE reported \o Listed(p.order, ran)
         /\ runs' = Append(runs, [order |-> p.order, wave |-> p.wave])
  /\ content' = [content EXCEPT !.ran = content.built]
  /\ UNCHANGED <<source, build>>

Done ==
  /\ phase \in {"parsed", "loaded"} /\ step \in {"idle", "refused", "built"}
  /\ UNCHANGED vars

Next ==
  \/ Parsing \/ Load \/ \E o \in Options : StartBuild(o)
  \/ Building \/ \E e \in Edits : Change(e[2]) \/ Run \/ Done

Spec == Init /\ [][Next]_vars
-----------------------------------------------------------------------------
TypeOK ==
  /\ phase \in {"ready", "fetched", "opened", "parsed", "loaded"}
  /\ step \in {"idle", "hydrate", "globals", "chains", "lint", "stages", "hash", "assemble", "built", "refused"}
  /\ at \in 1 .. Len(def.stages) + 1 /\ \A j \in DOMAIN stack : stack[j] \in Stages(def)
  /\ (step = "built" <=> built # <<>>) /\ (step = "refused" <=> fault # NoFault)
  /\ step \in {"assemble", "built"} => memo # <<>>
  /\ NoRepeats(reported) /\ MemberOf(reported) \subseteq times

\* Build accepts a definition exactly if nothing is wrong with it anywhere in its
\* tree, and blames a stage and a field that something is wrong with.
AcceptsExactly ==
  /\ TypeOK
  /\ step = "built" => Faults(content.built, opts) = {}
  /\ step = "refused" => fault \in Faults(content.built, opts)

\* The n-th power of ten.
Tens(n) == LET t[k \in 0 .. n] == IF k = 0 THEN 1 ELSE 10 * t[k - 1] IN t[n]

\* Two constants are the same rule: equal numbers of one kind, however spelled.
SameValue(v, w) ==
  LET Dec(x) == x[1] \in {"$dec", "decimal"}
      Num(x) == x[1] \in {"int", "float"}
  IN  \/ v = w
      \/ Dec(v) /\ Dec(w) /\ v[2] * Tens(w[3]) = w[2] * Tens(v[3])
      \/ Num(v) /\ Num(w) /\ v[2] = w[2]
SameRules(d, e) == d.stages = e.stages /\ d.schema = e.schema /\ SameValue(d.const, e.const)

Texts == {p.text : p \in Providers}
Parseable == {Head(t)[1] : t \in {t \in Texts : t # <<>> /\ Head(t) # Bad}}

\* Hash answers for the definition as it is, hydrated or not, unless its fields
\* were assigned since it was last built.
HashIsCurrent ==
  (~edited /\ Marshalable(def)) => Hash(def, memo) = Canonical(def)

\* A decision is replayed: a definition that is parsed anew matches the identity on
\* the Scope exactly if it has the rules of the run that came last, whatever its
\* label, its spelling of decimals, and whether it was built meanwhile.
ReplayDetected ==
  /\ HashIsCurrent
  /\ stamp # <<>> =>
       \A d \in Parseable : MatchesRuleset(d, <<>>, stamp[1]) <=> SameRules(d, content.ran)

\* What the rules of s may come to, by the outcomes of their conditions.
Outcomes(s) == {v \in [DOMAIN s.rules -> BOOLEAN] : \A c \in CatchAlls(s) : v[c]}
Fires(s, v) ==
  LET matched == {j \in DOMAIN s.rules : v[j]}
  IN  IF matched = {} \/ (s.hit = "unique" /\ Cardinality(matched) > 1) THEN {} ELSE {FirstOf(matched)}

\* A rule that Lint reports fires for no outcome of the conditions, and where the
\* first match wins it reports every such rule; a table it reports for its default
\* has an outcome that writes nothing, and a table it does not report has none.
LintFindsTheGaps ==
  step = "lint" =>
    \A k \in {k \in Tables(def) : FirstMatch(def.stages[k])} :
      LET s == def.stages[k]
          never == DOMAIN s.rules \ UNION {Fires(s, v) : v \in Outcomes(s)}
      IN  /\ Unreachable(s) \subseteq never
          /\ s.hit # "unique" => Unreachable(s) = never
          /\ MissingDefault(s) <=> (~HasDefault(s) /\ \E v \in Outcomes(s) : \A j \in DOMAIN s.rules : ~v[j])

\* StageTimings lists each stage that was timed once; none is missing as long as no
\* concurrent run was of another pipeline than the runs before it, and the list is
\* in the run order if that run was the last, or all runs were sequential.
ReportedCoversTimes ==
  LET before(k) == {j \in DOMAIN runs : j < k}
      oneOrder == \A j, k \in DOMAIN runs : runs[j].order = runs[k].order
  IN  (\A k \in DOMAIN runs : runs[k].wave => \A j \in before(k) : runs[j].order = runs[k].order) =>
        /\ MemberOf(reported) = times
        /\ (runs # <<>> /\ oneOrder /\ (runs[Len(runs)].wave \/ \A k \in DOMAIN runs : ~runs[k].wave)) =>
             reported = Kept(runs[1].order, times)
==============================================================================
