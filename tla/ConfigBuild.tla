------------------------------ MODULE ConfigBuild ------------------------------
(***************************************************************************)
(* PipelineDef.Build: a definition becomes a Pipeline, or an error that    *)
(* names the stage and the field.  Decimal literals are hydrated in place, *)
(* the element bindings of nested foreach stages are compared, the tables  *)
(* are linted if asked for, each stage is compiled, an inner pipeline      *)
(* after its stages, and the content is hashed and remembered.             *)
(*                                                                         *)
(* The stages of a definition, nested ones included, are one sequence in   *)
(* the order they are written, each with the index of the stage it is in.  *)
(* An expression is what compiling it gives; its field is where it stands, *)
(* its key the name it is bound to, and its row the priority of an entry,  *)
(* or the rule it belongs to, the default's being the one after the last.  *)
(* Those of a rule are its condition and its decisions, by their keys.     *)
(***************************************************************************)
EXTENDS StageGraph, FiniteSets

CONSTANT Options   \* [lint, strict: BOOLEAN, schema, version, parallel]

NoName == ""
NoStages == [stages |-> <<>>, const |-> <<"absent">>, schema |-> FALSE, version |-> ""]
NoFault == [stage |-> NoName, field |-> NoName, cause |-> "nil"]

ASSUME OptionsAssumption ==
  \A o \in Options : o.lint \in BOOLEAN /\ o.strict \in BOOLEAN /\ o.schema \in {"nil", "empty", "given"}

VARIABLES
  def,      \* the PipelineDef: stages, const, schema, version
  memo,     \* its hashMemo, in a sequence
  edited,   \* history: it was changed since the memo was set
  opts,     \* the BuildOptions
  step,     \* the part of Build that runs
  at,       \* the next stage, in the order they are written
  stack,    \* the foreach stages that enclose it, innermost last
  fault,    \* the error returned
  built     \* the Pipeline returned, in a sequence: order, hash, version, wave

build == <<def, memo, edited, opts, step, at, stack, fault, built>>

Stages(d) == DOMAIN d.stages
St(k) == def.stages[k]
Inside(d, p) == {k \in Stages(d) : d.stages[k].parent = p}

\* The stages around each, which come before it, and whether p is one around k.
Around(d) ==
  LET up[k \in 0 .. Len(d.stages)] ==
        IF k = 0 THEN {} ELSE {d.stages[k].parent} \union up[d.stages[k].parent]
  IN  up
Within(d, k, p) == p \in Around(d)[k]
AfterSubtree(k) ==
  CHOOSE j \in k + 1 .. Len(def.stages) + 1 :
    /\ j \in Stages(def) => ~Within(def, j, k)
    /\ \A x \in k + 1 .. j - 1 : Within(def, x, k)

BuildInit ==
  /\ def = NoStages /\ memo = <<>> /\ edited = FALSE /\ opts = CHOOSE o \in Options : TRUE
  /\ step = "idle" /\ at = 1 /\ stack = <<>> /\ fault = NoFault /\ built = <<>>

FirstOf(S) == CHOOSE j \in S : \A k \in S : j <= k
When(holds, f) == IF holds THEN {f} ELSE {}

Fault(stage, field, cause) == [stage |-> stage, field |-> field, cause |-> cause]
TopFault(field, cause) == Fault(NoName, field, cause)
Refuse(f) == step' = "refused" /\ fault' = f /\ stack' = <<>> /\ at' = 1
GoOn(next) == step' = next /\ at' = 1 /\ stack' = <<>> /\ UNCHANGED fault

Begin(o) ==
  /\ step \in {"idle", "refused", "built"} /\ opts' = o /\ built' = <<>>
  /\ UNCHANGED <<def, memo, edited>>
  /\ fault' = IF def.stages = <<>> THEN TopFault(NoName, "NoStages") ELSE NoFault
  /\ step' = IF def.stages = <<>> THEN "refused" ELSE "hydrate"
  /\ at' = 1 /\ stack' = <<>>
-----------------------------------------------------------------------------
\* hydrateConstants.  A literal is <<"$dec", coef, scale>>, a number that became
\* one <<"decimal", coef, scale>>.

Malformed(v) == v = <<"malformed">>
Hydrated(v) == IF v[1] = "$dec" THEN <<"decimal", v[2], v[3]>> ELSE v

Constants ==
  /\ step = "hydrate" /\ at = 1 /\ stack = <<>>
  /\ UNCHANGED <<memo, edited, opts, built>>
  /\ IF Malformed(def.const)
     THEN Refuse(TopFault("constants", "DecimalLiteral")) /\ UNCHANGED def
     ELSE def' = [def EXCEPT !.const = Hydrated(@)] /\ step' = "globals" /\ UNCHANGED <<at, stack, fault>>

\* hydrateGlobals: all expressions, nested stages included.
Globals ==
  /\ step = "globals" /\ UNCHANGED <<def, memo, edited, opts, built>>
  /\ IF at > Len(def.stages) THEN GoOn("chains")
     ELSE LET wrong == {j \in DOMAIN St(at).exprs : St(at).exprs[j].code = "malformed"} IN
          IF wrong = {} THEN at' = at + 1 /\ UNCHANGED <<step, stack, fault>>
          ELSE Refuse(Fault(St(at).name, St(at).exprs[FirstOf(wrong)].field, "DecimalLiteral"))
-----------------------------------------------------------------------------
\* validateForEachAsChains.

\* NewForEach's default binding.
As(s) == IF s.as = "" THEN "item" ELSE s.as

\* Mutant: a chain that ends stays, so that siblings share it.
Unwound_Kept(chain, k) == chain
\* The chain without the foreach stages that k is not in.
Unwound(chain, k) == Kept(chain, {c \in Stages(def) : Within(def, k, c)})

Chains ==
  /\ step = "chains" /\ UNCHANGED <<def, memo, edited, opts, built>>
  /\ IF at > Len(def.stages) THEN GoOn("lint")
     ELSE LET chain == Unwound(stack, at) IN
          IF St(at).type # "foreach"
          THEN at' = AfterSubtree(at) /\ stack' = chain /\ UNCHANGED <<step, fault>>
          ELSE IF \E j \in DOMAIN chain : As(St(chain[j])) = As(St(at))
          THEN Refuse(Fault(St(at).name, "as", "ForEachAsCollision"))
          ELSE at' = at + 1 /\ stack' = Append(chain, at) /\ UNCHANGED <<step, fault>>
-----------------------------------------------------------------------------
\* Lint.

\* isFirstMatch.
FirstMatch(s) == s.hit \in {"", "single", "unique"}
CatchAlls(s) == {j \in DOMAIN s.rules : s.rules[j]}

\* Mutant: the last catch-all counts, and not the first.
Unreachable_AfterLast(s) ==
  {j \in DOMAIN s.rules : FirstMatch(s) /\ CatchAlls(s) # {} /\ \A c \in CatchAlls(s) : c < j}
\* The rules after a catch-all, in a table where the first match decides.
Unreachable(s) == {j \in DOMAIN s.rules : FirstMatch(s) /\ \E c \in CatchAlls(s) : c < j}

HasDefault(s) == \E j \in DOMAIN s.exprs : s.exprs[j].field = "default"
MissingDefault(s) == FirstMatch(s) /\ CatchAlls(s) = {} /\ ~HasDefault(s)

Tables(d) == {k \in Inside(d, 0) : d.stages[k].type = "table"}
Findings(d) == {k \in Tables(d) : Unreachable(d.stages[k]) # {} \/ MissingDefault(d.stages[k])}

\* A schema option that is not nil takes precedence, also if it declares nothing.
HasSchema(d, o) == IF o.schema = "nil" THEN d.schema ELSE o.schema = "given"

LintAndSchema ==
  /\ step = "lint" /\ UNCHANGED <<def, memo, edited, opts, built>>
  /\ CASE opts.lint /\ Findings(def) # {} -> Refuse(TopFault(NoName, "Lint"))
       [] ~(opts.lint /\ Findings(def) # {}) /\ opts.strict /\ ~HasSchema(def, opts) ->
            Refuse(TopFault("schema", "StrictWithoutSchema"))
       [] OTHER -> GoOn("stages")
-----------------------------------------------------------------------------
\* StageDef.build.

\* The environment is strict whenever there is a schema.
Checked(d, o) == HasSchema(d, o)

\* NewFunction, NewPredicate: a name that is not declared fails in a strict one.
Compiles(e, checked) == e.code = "ok" \/ (e.code = "undeclared" /\ ~checked)

\* The expressions that count in a stage of this type; others are ignored.
FieldsOf(type) ==
  CASE type = "single" -> {"expr", "condition"} [] type = "multi" -> {"exprs"}
    [] type = "table" -> {"rules", "decisions", "default"} [] OTHER -> {}
Exprs(s) == {j \in DOMAIN s.exprs : s.exprs[j].field \in FieldsOf(s.type)}
In(s, field) == {j \in Exprs(s) : s.exprs[j].field = field}

\* The order they are compiled in: by row, and as they are listed.
Precedes(s, j, k) ==
  s.exprs[j].row < s.exprs[k].row \/ (s.exprs[j].row = s.exprs[k].row /\ j < k)
Foremost(s, S) == CHOOSE j \in S : \A k \in S \ {j} : Precedes(s, j, k)

\* NewMultiExpr: an entry without a name, or with that of an earlier one.
\* NewDecisionTable: a rule without decisions; compileDecisions: an empty output key.
Misnamed(s, j) ==
  LET e == s.exprs[j] IN
    \/ e.field \in {"exprs", "decisions", "default"} /\ e.key = ""
    \/ e.field = "exprs" /\ \E k \in In(s, "exprs") : Precedes(s, k, j) /\ s.exprs[k].key = e.key
    \/ e.field = "rules" /\ \A k \in In(s, "decisions") : s.exprs[k].row # e.row
EntryErr(s, j, checked) ==
  CASE Misnamed(s, j) -> "shape"
    [] ~Misnamed(s, j) /\ ~Compiles(s.exprs[j], checked) -> "expr"
    [] OTHER -> "nil"
Wrong(s, checked) == {j \in Exprs(s) : EntryErr(s, j, checked) # "nil"}

Policies == {"", "single", "collect", "unique", "any"}
Aggregations == {"", "list", "sum", "min", "max", "count"}
UnknownRollup(s) == \E j \in DOMAIN s.rollups : s.rollups[j].agg \notin Aggregations
EmptyRollup(s) == \E j \in DOMAIN s.rollups : s.rollups[j].key = "" \/ s.rollups[j].as = ""

\* What building s alone returns; an inner pipeline is another matter.
Verdict(s, checked) ==
  LET wrong == Wrong(s, checked)
      Of(field, cause) == Fault(s.name, field, cause)
      \* An error of the constructor, without stage and field of its own.
      stageErr == CASE s.name = "" -> TopFault(NoName, "EmptyStageName")
                    [] s.name # "" /\ wrong # {} -> TopFault(NoName, EntryErr(s, Foremost(s, wrong), checked))
                    [] OTHER -> NoFault
  IN  CASE s.type \notin {"single", "multi", "table", "foreach"} -> Of("type", "shape")
        [] s.type = "single" ->
             CASE In(s, "expr") = {} -> Of("expr", "shape")
               [] In(s, "expr") # {} /\ wrong # {} ->
                    Of(s.exprs[FirstOf(wrong)].field, IF s.name = "" THEN "EmptyStageName" ELSE "expr")
               [] OTHER -> stageErr
        [] s.type = "multi" -> IF Exprs(s) = {} THEN Of("exprs", "shape") ELSE stageErr
        [] s.type = "table" ->
             CASE s.rules = <<>> -> Of("rules", "shape")
               [] s.rules # <<>> /\ s.hit \notin Policies -> Of("hit_policy", "shape")
               [] s.rules # <<>> /\ s.hit \in Policies /\ s.agg \notin Aggregations -> Of("aggregation", "shape")
               [] OTHER -> stageErr
        [] OTHER ->
             CASE UnknownRollup(s) -> Of("rollups", "shape")
               [] ~UnknownRollup(s) /\ s.name # "" /\ ~s.collection -> TopFault(NoName, "collection")
               [] ~UnknownRollup(s) /\ s.name # "" /\ s.collection /\ EmptyRollup(s) -> TopFault(NoName, "EmptyRollup")
               [] OTHER -> stageErr

\* pipe.NewPipeline, as StageGraph and PipelineBuild have it.
NamesIn(d, p) ==
  LET own == Kept([k \in Stages(d) |-> k], Inside(d, p))
  IN  [j \in DOMAIN own |-> d.stages[own[j]].name]
DepsIn(d, p) ==
  [n \in MemberOf(NamesIn(d, p)) |->
     UNION {d.stages[k].deps : k \in {k \in Inside(d, p) : d.stages[k].name = n}}]
Sound(d, p) ==
  /\ NoRepeats(NamesIn(d, p))
  /\ \A n \in MemberOf(NamesIn(d, p)) : DepsIn(d, p)[n] \subseteq MemberOf(NamesIn(d, p))
  /\ Len(TopoOrder(NamesIn(d, p), DepsIn(d, p))) = Len(NamesIn(d, p))

\* The innermost foreach has had all its stages built.
InnerDone == stack # <<>> /\ (at \in Stages(def) => ~Within(def, at, stack[Len(stack)]))

\* A stage that holds no others, or the entry to a foreach.
BuildStage ==
  /\ step = "stages" /\ at <= Len(def.stages) /\ ~InnerDone
  /\ UNCHANGED <<def, memo, edited, opts, built>>
  /\ LET s == St(at) IN
       IF s.type = "foreach"
       THEN IF Inside(def, at) = {}
            THEN Refuse(Fault(s.name, "stages", "shape"))
            ELSE at' = at + 1 /\ stack' = Append(stack, at) /\ UNCHANGED <<step, fault>>
       ELSE IF Verdict(s, Checked(def, opts)) # NoFault
            THEN Refuse(Verdict(s, Checked(def, opts)))
            ELSE at' = AfterSubtree(at) /\ UNCHANGED <<step, stack, fault>>

\* buildForEach, once its stages are there.
FinishForEach ==
  /\ step = "stages" /\ InnerDone /\ UNCHANGED <<def, memo, edited, opts, built>>
  /\ LET k == stack[Len(stack)] IN
       CASE ~Sound(def, k) -> Refuse(Fault(St(k).name, NoName, "pipeline"))
         [] Sound(def, k) /\ Verdict(St(k), Checked(def, opts)) # NoFault -> Refuse(Verdict(St(k), Checked(def, opts)))
         [] OTHER -> stack' = SubSeq(stack, 1, Len(stack) - 1) /\ UNCHANGED <<step, at, fault>>

StagesDone ==
  /\ step = "stages" /\ at > Len(def.stages) /\ stack = <<>>
  /\ GoOn("hash") /\ UNCHANGED <<def, memo, edited, opts, built>>
-----------------------------------------------------------------------------
\* The ruleset's identity.

Trim(coef, scale) ==
  LET t[n \in 0 .. scale] ==
        IF n = 0 THEN <<coef, scale>>
        ELSE LET p == t[n - 1] IN IF p[2] > 0 /\ p[1] % 10 = 0 THEN <<p[1] \div 10, p[2] - 1>> ELSE p
  IN  t[scale]

\* Mutant: a hydrated constant is marshalled as the decimal it is.
CanonicalizeValue_AsIs(v) == IF v[1] = "float" THEN <<"int", v[2]>> ELSE v
\* canonicalizeValue, and what encoding/json does to a float without a fraction.
CanonicalizeValue(v) ==
  CASE v[1] \in {"$dec", "decimal"} -> <<"$dec", Trim(v[2], v[3])[1], Trim(v[2], v[3])[2]>>
    [] v[1] = "float" -> <<"int", v[2]>>
    [] OTHER -> v

\* hashCanonical: equal hashes stand for equal canonical JSON; the label is not in it.
Canonical(d) == [stages |-> d.stages, const |-> CanonicalizeValue(d.const), schema |-> d.schema]
Marshalable(d) == d.const # <<"chan">>

Memoize(h) == <<h>>

HashContent ==
  /\ step = "hash" /\ UNCHANGED <<def, opts, built>>
  /\ IF Marshalable(def)
     THEN memo' = Memoize(Canonical(def)) /\ edited' = FALSE /\ GoOn("assemble")
     ELSE Refuse(TopFault(NoName, "UnhashableDef")) /\ UNCHANGED <<memo, edited>>

\* The option takes precedence over the author's label.
Version == IF opts.version # "" THEN opts.version ELSE def.version

\* The pipeline, with its identity; WithMaxParallel may be refused only now.
Assemble ==
  /\ step = "assemble" /\ UNCHANGED <<def, memo, edited, opts>>
  /\ IF opts.parallel = "invalid" \/ ~Sound(def, 0)
     THEN Refuse(TopFault(NoName, "pipeline")) /\ UNCHANGED built
     ELSE LET order == TopoOrder(NamesIn(def, 0), DepsIn(def, 0)) IN
          /\ built' = <<[order |-> order, ruleset |-> <<memo[1], Version>>, wave |-> opts.parallel = "wave",
                         levels |-> LevelsOf(order, DepsIn(def, 0))]>>
          /\ GoOn("built")

\* Hash: the memo if there is one, else the content's, else a constant.
Hash(d, m) ==
  IF m # <<>> THEN m[1] ELSE IF Marshalable(d) THEN Canonical(d) ELSE Canonical(NoStages)
MatchesRuleset(d, m, ruleset) == Hash(d, m) = ruleset[1]

\* The caller assigns the fields of the definition; the memo stays.
Edit(d) ==
  /\ step \in {"idle", "refused", "built"} /\ d # def
  /\ def' = d /\ edited' = TRUE
  /\ UNCHANGED <<memo, opts, step, at, stack, fault, built>>

BuildNext ==
  \/ Constants \/ Globals \/ Chains \/ LintAndSchema
  \/ BuildStage \/ FinishForEach \/ StagesDone \/ HashContent \/ Assemble
-----------------------------------------------------------------------------
\* The reference: all that is wrong with a definition, wherever it stands.

\* The stages Build comes to: what a stage holds counts in a foreach only.
Reached(d) ==
  {k \in Stages(d) : \A p \in Stages(d) : Within(d, k, p) => d.stages[p].type = "foreach"}
ForEaches(d) == {k \in Reached(d) : d.stages[k].type = "foreach"}

\* What is wrong with a stage by itself, in whatever order it is looked at.
Amiss(s, checked) ==
  LET Of(field, cause) == Fault(s.name, field, cause)
      broken == {j \in Exprs(s) : ~Compiles(s.exprs[j], checked)}
      named == Exprs(s) \ In(s, "rules")
      bare == {r \in DOMAIN s.rules : \A j \in In(s, "decisions") : s.exprs[j].row # r}
      nameless == When(s.name = "", TopFault(NoName, "EmptyStageName"))
      failing == When(broken # {}, TopFault(NoName, "expr"))
      unnamed == When(\E j \in named : s.exprs[j].key = "", TopFault(NoName, "shape"))
  IN  CASE s.type = "single" ->
             nameless \union When(In(s, "expr") = {}, Of("expr", "shape"))
             \union {Of(s.exprs[j].field, IF s.name = "" THEN "EmptyStageName" ELSE "expr") : j \in broken}
        [] s.type = "multi" ->
             nameless \union failing \union unnamed \union When(named = {}, Of("exprs", "shape"))
             \union When(\E j, k \in named : j # k /\ s.exprs[j].key = s.exprs[k].key, TopFault(NoName, "shape"))
        [] s.type = "table" ->
             nameless \union failing \union unnamed \union When(bare # {}, TopFault(NoName, "shape"))
             \union When(s.rules = <<>>, Of("rules", "shape"))
             \union When(s.hit \notin Policies, Of("hit_policy", "shape"))
             \union When(s.agg \notin Aggregations, Of("aggregation", "shape"))
        [] s.type = "foreach" ->
             nameless \union When(UnknownRollup(s), Of("rollups", "shape"))
             \union When(~s.collection, TopFault(NoName, "collection"))
             \union When(EmptyRollup(s), TopFault(NoName, "EmptyRollup"))
        [] OTHER -> {Of("type", "shape")}

Faults(d, o) ==
  LET Of(k, field, cause) == Fault(d.stages[k].name, field, cause)
  IN  When(d.stages = <<>>, TopFault(NoName, "NoStages"))
      \union When(Malformed(d.const), TopFault("constants", "DecimalLiteral"))
      \union (UNION {{Of(k, d.stages[k].exprs[j].field, "DecimalLiteral") :
                      j \in {j \in DOMAIN d.stages[k].exprs : d.stages[k].exprs[j].code = "malformed"}} :
                     k \in Stages(d)})
      \union {Of(k, "as", "ForEachAsCollision") :
               k \in {k \in ForEaches(d) : \E p \in ForEaches(d) : Within(d, k, p) /\ As(d.stages[p]) = As(d.stages[k])}}
      \union When(o.lint /\ Findings(d) # {}, TopFault(NoName, "Lint"))
      \union When(o.strict /\ ~HasSchema(d, o), TopFault("schema", "StrictWithoutSchema"))
      \union {Of(k, "stages", "shape") : k \in {k \in ForEaches(d) : Inside(d, k) = {}}}
      \union {Of(k, NoName, "pipeline") : k \in {k \in ForEaches(d) : ~Sound(d, k)}}
      \union (UNION {Amiss(d.stages[k], Checked(d, o)) : k \in Reached(d)})
      \union When(~Marshalable(d), TopFault(NoName, "UnhashableDef"))
      \union When(o.parallel = "invalid" \/ ~Sound(d, 0), TopFault(NoName, "pipeline"))
==============================================================================
