-------------------------------- MODULE Engine --------------------------------
(***************************************************************************)
(* A TypedEngine over a pipeline of one SingleExpr stage: construction,    *)
(* the input flattened into a seed, the condition, the expression and its  *)
(* fallback, and the Mapper, which evaluates the template against the      *)
(* Scope in the order of its paths and decodes what it assembled.          *)
(*                                                                         *)
(* Maps are one level deep, but for the levels above them: a map is known  *)
(* by where it was made, in the seed or in the Mapper's output, at a key.  *)
(***************************************************************************)
EXTENDS Expression, FiniteSets

CONSTANTS
  Services,     \* [how, pipeline, mapper, concurrent, stage, template]
  Inputs,       \* [shape, fields, squash]; the fields of a struct, or the entries of a map
  UintMax,      \* a uint64 holds 0 .. UintMax
  SignedMax,    \* the largest value of int, int8, ...
  UnsignedMax   \* and of uint, uint8, ...

TopLevel == ""
Untaken == "-"  \* the tag of a field that mapstructure leaves out

\* A value as it is given or declared: a decimal is its coefficient and its scale.
IsPlain(v) ==
  /\ v[1] # "map"
  /\ v[1] = "bool" => v \in {<<"bool", b>> : b \in BOOLEAN}
  /\ v[1] = "int" => v[2] \in -IntMax - 1 .. UintMax
  /\ v[1] = "float" => v[2] \in {"num", "nan", "inf"} /\ v[3] \in Int
  /\ v[1] = "list" => v[2] \in Nat
  /\ v[1] = "dec" => v[2] \in Int /\ v[3] \in Nat

IsProgram(e) ==
  /\ e.op \in {"lit", "var", "member", "sum"}
  /\ e.op = "lit" => IsPlain(e.value)
  /\ e.op = "sum" => e.value \in {<<"int", n>> : n \in -IntMax - 1 .. IntMax}

IsStage(s) ==
  /\ IsProgram(s.expr)
  /\ s.condition # <<>> => IsProgram(s.condition[1])
  /\ s.fallback # <<>> => IsProgram(s.fallback[1])
  /\ \A d \in {s.constants, s.globals, s.locals} : \A n \in DOMAIN d :
       d[n][1] \in Scalars \union {"nil", "list", "map"} /\ (d[n][1] \in Scalars => IsPlain(d[n]))

\* The paths of a template are the keys of a map, in their order.
Integral == DOMAIN SignedMax \union DOMAIN UnsignedMax
IsTemplate(t) ==
  /\ t \in Seq({t[k] : k \in DOMAIN t})
  /\ \A k \in DOMAIN t : t[k].kind \in Integral \union {"float", "str", "any"}
  /\ \A k \in DOMAIN t : t[k].path \in Seq(STRING) /\ Len(t[k].path) <= 2 /\ IsProgram(t[k].expr)
  /\ \A j, k \in DOMAIN t :
       /\ t[j].path = t[k].path => j = k
       /\ Len(t[j].path) = 1 /\ Len(t[k].path) = 2 /\ t[j].path[1] = t[k].path[1] => j < k

\* So are those of an input.  The name of a struct whose fields are squashed into
\* those of the top level is the key of no other field.
Level(i, f) == IF f.in \in i.squash THEN TopLevel ELSE f.in
IsInput(i) ==
  /\ i.shape \in {"map", "struct", "nil"} /\ TopLevel \notin i.squash /\ Untaken \notin i.squash
  /\ i.shape # "struct" => i.squash = {}
  /\ \A f \in i.fields : IsPlain(f.value) /\ (i.shape = "struct" => f.key # TopLevel)
  /\ \A f, g \in i.fields :
       /\ Level(i, f) = Level(i, g) /\ f.key = g.key => f = g
       /\ f.in # TopLevel /\ Level(i, g) = TopLevel => g.key # f.in

ASSUME EngineAssumption ==
  /\ IntMax \in Nat /\ UintMax \in Nat /\ IntMax < UintMax
  /\ \A k \in DOMAIN SignedMax : SignedMax[k] \in 0 .. IntMax /\ k \notin DOMAIN UnsignedMax \union {"float", "str", "any"}
  /\ \A k \in DOMAIN UnsignedMax : UnsignedMax[k] \in 0 .. UintMax /\ k \notin {"float", "str", "any"}
  /\ \A v \in Services : IsStage(v.stage) /\ IsTemplate(v.template)
  /\ \A i \in Inputs : IsInput(i)

VARIABLES
  service,   \* the TypedEngine
  input,     \* of Evaluate
  phase,     \* what comes next
  data,      \* Scope.data
  maps,      \* the maps in it and in out
  main,      \* history: what the stage's expression came to
  observed,  \* the calls of the fallback observer
  out,       \* what the Mapper has assembled
  next,      \* the field of the template that comes next
  result,    \* what Evaluate returned, by output path
  error      \* the causes of the error

vars == <<service, input, phase, data, maps, main, observed, out, next, result, error>>
Stage == service.stage
Template == service.template

Init ==
  /\ service \in Services /\ input \in Inputs /\ phase = "construct"
  /\ data = NoVars /\ maps = NoVars /\ main = <<>> /\ observed = 0
  /\ out = NoVars /\ next = 1 /\ result = NoVars /\ error = {}

Fails(causes) == phase' = "failed" /\ error' = causes

\* NewTypedEngine, NewTypedFromProvider; NewMapper comes before them.
Construct ==
  /\ phase = "construct" /\ UNCHANGED <<service, input, data, maps, main, observed, out, next, result>>
  /\ CASE \E k \in DOMAIN Template : Template[k].path = <<>> -> Fails({"ErrEmptyMappingKey"})
       [] service.how = "pipeline" /\ ~service.pipeline -> Fails({"ErrNilPipeline"})
       [] ~service.mapper /\ (service.how = "pipeline" => service.pipeline) -> Fails({"ErrNilMapper"})
       [] service.how = "pipeline" /\ service.pipeline /\ service.mapper /\ service.concurrent ->
            Fails({"ErrConcurrencyRequiresConfig"})
       [] OTHER -> phase' = "flatten" /\ UNCHANGED error
-----------------------------------------------------------------------------
\* flatten.  A field of a struct is [in, key, value]: in is the key of the struct
\* it is nested in, or TopLevel, or a member of squash.

\* mapstructure.Decode leaves these out.
LeftOut(f) == input.shape = "struct" /\ Untaken \in {f.key, f.in}

\* Mutant: the decimals of a nested struct are not put back.
PutBack_TopOnly(f) == f.value[1] = "dec" /\ f.in = TopLevel
\* restoreDecimals: it finds a field by its tag, whatever the tag says, and the
\* fields of a struct if there is a map by that tag.
PutBack(f) == f.value[1] = "dec" /\ f.in \notin input.squash \union {Untaken}

\* mapstructure.Decode: a decimal has no exported fields, and becomes an empty map.
Emptied(f) == input.shape = "struct" /\ f.value[1] = "dec" /\ ~PutBack(f)
SeedMap(key) == <<"map", <<"seed", key>>>>
SeedValue(f) == IF Emptied(f) THEN SeedMap(f.key) ELSE f.value

FieldsIn(at) == {f \in input.fields : Level(input, f) = at /\ (LeftOut(f) => PutBack(f))}
Record(fields) == [n \in {f.key : f \in fields} |-> SeedValue(CHOOSE f \in fields : f.key = n)]
Nested(f) == f.in \notin input.squash \union {TopLevel} /\ ~(input.shape = "struct" /\ f.in = Untaken)
NestedAt == {f.in : f \in {g \in input.fields : Nested(g)}}
EmptiedAt == {f.key : f \in {g \in FieldsIn(TopLevel) : Emptied(g)}}
MapsAt == NestedAt \union EmptiedAt
Seeded == Over(Record(FieldsIn(TopLevel)), [n \in NestedAt |-> SeedMap(n)])
SeededMaps == [r \in {<<"seed", n>> : n \in MapsAt} |-> Record(FieldsIn(r[2]))]

\* flatten and NewScope, which takes a copy.
Seed ==
  /\ phase = "flatten" /\ UNCHANGED <<service, input, main, observed, out, next, result>>
  /\ IF input.shape = "nil" THEN Fails({"ErrNilInput"}) /\ UNCHANGED <<data, maps>>
     ELSE /\ data' = Seeded
          /\ maps' = SeededMaps
          /\ phase' = "condition" /\ UNCHANGED error
-----------------------------------------------------------------------------
\* SingleExpr.Execute.

StageDefaults == Defaults(Stage.constants, Stage.globals, Stage.locals)

Condition ==
  /\ phase = "condition" /\ UNCHANGED <<service, input, data, maps, main, observed, out, next, result>>
  /\ LET holds == IF Stage.condition = <<>> THEN <<TRUE>>
                  ELSE Test(Stage.condition[1], Stage.coerce, data, maps, Defaults(Stage.constants, NoVars, NoVars))
     IN  IF holds = <<>> THEN Fails({"condition"})
         ELSE phase' = (IF holds[1] THEN "apply" ELSE "map") /\ UNCHANGED error

\* deriveOrSet: the output is written.
Writes(v) == data' = Over(Bind(Stage.output, v), data) /\ phase' = "map" /\ UNCHANGED error

Apply ==
  /\ phase = "apply" /\ UNCHANGED <<service, input, maps, out, next, result>>
  /\ main' = Eval(Stage.expr, data, maps, StageDefaults)
  /\ IF FallsBack(Stage, main')
     THEN phase' = "fallback" /\ observed' = observed + (IF main' = <<>> THEN 1 ELSE 0) /\ UNCHANGED <<data, error>>
     ELSE /\ UNCHANGED observed
          /\ IF main' = <<>> THEN Fails({"expression"}) /\ UNCHANGED data ELSE Writes(main'[1])

\* errors.Join.
Causes == {"fallback"} \union (IF main = <<>> THEN {"expression"} ELSE {})

Fallback ==
  /\ phase = "fallback" /\ UNCHANGED <<service, input, maps, main, observed, out, next, result>>
  /\ LET v == Eval(Stage.fallback[1], FallbackEnv(data), maps, StageDefaults)
     IN  IF v = <<>> THEN Fails(Causes) /\ UNCHANGED data ELSE Writes(v[1])
-----------------------------------------------------------------------------
\* Mapper.Map.

Made(path) == <<"out", path[1]>>

\* Mutant: the value at the prefix is replaced by a map.
Blocked_Never(path) == FALSE
\* setNested: the value at the prefix is not a map.
Blocked(path) == Len(path) = 2 /\ path[1] \in DOMAIN out /\ out[path[1]][1] # "map"

\* setNested.  A map that an expression returned is written into as it stands.
SetNested(path, v) ==
  IF Len(path) = 1 THEN out' = Over(Bind(path[1], v), out) /\ UNCHANGED maps
  ELSE IF path[1] \in DOMAIN out /\ out[path[1]][1] = "map"
  THEN UNCHANGED out /\ maps' = [maps EXCEPT ![out[path[1]][2]] = Over(Bind(path[2], v), @)]
  ELSE out' = Over(Bind(path[1], <<"map", Made(path)>>), out) /\ maps' = Over(Bind(Made(path), Bind(path[2], v)), maps)

MapField ==
  /\ phase = "map" /\ UNCHANGED <<service, input, data, main, observed, result>>
  /\ IF next > Len(Template) THEN phase' = "decode" /\ UNCHANGED <<maps, out, next, error>>
     ELSE LET f == Template[next]
              v == Eval(f.expr, data, maps, Defaults(NoVars, NoVars, NoVars))
          IN  IF v = <<>> \/ Blocked(f.path)
              THEN Fails({"mapping"}) /\ UNCHANGED <<maps, out, next>>
              ELSE SetNested(f.path, v[1]) /\ next' = next + 1 /\ UNCHANGED <<phase, error>>

Power(s) == LET t[k \in 0 .. s] == IF k = 0 THEN 1 ELSE 10 * t[k - 1] IN t[s]

\* Mutant: one range for both, as if every integer were an int64.
Holds_Signed(kind) == -IntMax - 1 .. IntMax
\* IsInt64, IsUint64, whatever the width of the kind.
Holds(kind) == IF kind \in DOMAIN UnsignedMax THEN 0 .. UintMax ELSE -IntMax - 1 .. IntMax

\* decimalNarrowHook: IsInteger, then the range; other kinds take any decimal.
Narrow(v, kind) ==
  IF v[1] # "dec" THEN <<v>>
  ELSE CASE kind \in Integral ->
              IF v[2] % Power(v[3]) # 0 \/ v[2] \div Power(v[3]) \notin Holds(kind) THEN <<>>
              ELSE <<<<"int", v[2] \div Power(v[3])>>>>
         [] kind = "float" -> <<<<"float", "nearest", v>>>>
         [] kind = "str" -> <<<<"str", v>>>>
         [] OTHER -> <<v>>

\* mapstructure, after the hook: SetInt and SetUint keep the low bits.
Assigned(v, kind) ==
  CASE kind = "any" -> <<v>>
    [] kind # "any" /\ v = Nil -> <<<<"zero">>>>
    [] v[1] = "int" /\ kind \in DOMAIN SignedMax -> <<<<"int", Wrap(v[2], -SignedMax[kind] - 1, SignedMax[kind])>>>>
    [] v[1] = "int" /\ kind \in DOMAIN UnsignedMax ->
         IF v[2] < 0 THEN <<>> ELSE <<<<"int", Wrap(v[2], 0, UnsignedMax[kind])>>>>
    [] v[1] = "float" /\ kind \in Integral -> <<<<"truncated", v>>>>
    [] v[1] \in {"int", "float"} /\ kind = "float" -> <<v>>
    [] v[1] = "str" /\ kind = "str" -> <<v>>
    [] OTHER -> <<>>

OutAt(path) == IF Len(path) = 1 THEN out[path[1]] ELSE maps[out[path[1]][2]][path[2]]

\* The errors of all fields are joined.
Decode ==
  /\ phase = "decode" /\ UNCHANGED <<service, input, data, maps, main, observed, out, next>>
  /\ LET narrowed == [k \in DOMAIN Template |-> Narrow(OutAt(Template[k].path), Template[k].kind)]
         decoded == [k \in DOMAIN Template |->
                       IF narrowed[k] = <<>> THEN <<>> ELSE Assigned(narrowed[k][1], Template[k].kind)]
         failed == {k \in DOMAIN Template : decoded[k] = <<>>}
     IN  IF failed # {}
         THEN /\ Fails({IF narrowed[k] = <<>> THEN "ErrLossyResultNarrowing" ELSE "mismatch" : k \in failed})
              /\ UNCHANGED result
         ELSE /\ phase' = "returned" /\ UNCHANGED error
              /\ result' = [p \in {Template[k].path : k \in DOMAIN Template} |->
                              decoded[CHOOSE k \in DOMAIN Template : Template[k].path = p][1]]

Done == phase \in {"returned", "failed"} /\ UNCHANGED vars

Next == Construct \/ Seed \/ Condition \/ Apply \/ Fallback \/ MapField \/ Decode \/ Done

Spec == Init /\ [][Next]_vars
-----------------------------------------------------------------------------
TypeOK ==
  /\ phase \in {"construct", "flatten", "condition", "apply", "fallback", "map", "decode", "returned", "failed"}
  /\ next \in 1 .. Len(Template) + 1 /\ observed \in {0, 1}
  /\ (phase = "failed" <=> error # {})
  /\ \A n \in DOMAIN data : data[n][1] = "map" => data[n][2] \in DOMAIN maps

\* The reference: a variable is the input's if it has one, else the local declared
\* for it, else the expression's own global, else the pipeline's constant.
Declared(n) ==
  CASE n \in DOMAIN Stage.locals -> Stage.locals[n]
    [] n \notin DOMAIN Stage.locals /\ n \in DOMAIN Stage.globals -> Stage.globals[n]
    [] n \notin DOMAIN Stage.locals \union DOMAIN Stage.globals -> VarIn(Stage.constants, n)
\* One that is out of the range of int counts as none, and so does one that is no scalar.
Usable(v) == IF v[1] \in {"nil", "list", "map"} \/ (v[1] = "int" /\ v[2] \notin -IntMax - 1 .. IntMax) THEN Nil ELSE v

AtTheTop == {f \in input.fields : f.in \in input.squash \union {TopLevel}}
Given ==
  {f \in AtTheTop : /\ f.value # Nil
                    /\ input.shape = "struct" /\ f.key = "-" => f.in = TopLevel /\ f.value[1] = "dec"}
Meant(n, declared) ==
  IF \E f \in Given : f.key = n
  THEN LET f == CHOOSE f \in Given : f.key = n
       IN  IF f.in # TopLevel /\ f.value[1] = "dec" THEN SeedMap(n) ELSE f.value
  ELSE IF \E f \in input.fields \ AtTheTop : f.in = n /\ ~(input.shape = "struct" /\ n = "-") THEN SeedMap(n)
  ELSE Usable(declared)

\* Decimals reach the Scope as they were given, at the top and in nested structs: one
\* in a squashed struct becomes an empty map, unless mapstructure leaves the field out.
DecimalsReachTheScope ==
  phase = "condition" =>
    \A f \in {g \in input.fields : g.value[1] = "dec"} :
      CASE f.in = TopLevel -> data[f.key] = f.value
        [] f.in \in input.squash -> f.key = "-" \/ maps[data[f.key][2]] = NoVars
        [] f \notin AtTheTop /\ (input.shape = "struct" => f.in # "-") -> maps[<<"seed", f.in>>][f.key] = f.value
        [] OTHER -> "-" \notin DOMAIN data

\* A stage whose condition is not met leaves the Scope as it was seeded, and a
\* condition that is not a boolean is never taken for one that is not met.
GateHolds ==
  LET c == Stage.condition[1] IN
      (phase \in {"map", "decode", "returned"} /\ main = <<>> /\ observed = 0) =>
        /\ data = Seeded /\ Stage.condition # <<>>
        /\ (~Stage.coerce /\ c.op = "var") => Meant(c.name, VarIn(Stage.constants, c.name)) = <<"bool", FALSE>>

\* The value of a variable is the most specific one that was declared for it, for a
\* nil of the input too, if it is a scalar that an int can hold, and the input's own in
\* all other cases; decimals in it have survived the flattening, but for those of a
\* squashed struct; and the condition goes by it.
DefaultsByPrecedence ==
  /\ TypeOK /\ DecimalsReachTheScope /\ GateHolds
  /\ (main # <<>> /\ Stage.expr.op = "var") => main[1] = Meant(Stage.expr.name, Declared(Stage.expr.name))

\* A fallback takes over from an error, from a nil only where that was asked for;
\* what it returns is the same for every input; the observer is told of the error
\* that it masks, and a failure of both reports both.
FallbackMasksErrorsOnly ==
  LET e == Stage.fallback[1]
      own == Usable(Declared(e.name))
      alone == CASE e.op = "lit" -> e.value [] e.op = "var" -> own [] OTHER -> Plus(own, e.value[2])[1]
      wrote == Stage.condition = <<>> /\ phase = "map" /\ next = 1
  IN  /\ observed = 1 => main = <<>> /\ Stage.fallback # <<>>
      /\ (wrote /\ main = <<>>) => observed = 1 /\ data[Stage.output] = alone
      /\ (wrote /\ main = <<Nil>> /\ ~Stage.onNil) => data[Stage.output] = Nil
      /\ "fallback" \in error => ("expression" \in error <=> main = <<>>)

Prefixed == \E j, k \in DOMAIN Template : Len(Template[j].path) = 1 /\ Len(Template[k].path) = 2
                                          /\ Template[j].path[1] = Template[k].path[1]

\* What a template's expression comes to on the Scope as the stage left it.
Evaluated(k) == Eval(Template[k].expr, data, SeededMaps, Defaults(NoVars, NoVars, NoVars))
Aliased ==
  Prefixed /\ \E k \in DOMAIN Template : Len(Template[k].path) = 1 /\ Evaluated(k) # <<>> /\ Evaluated(k)[1][1] = "map"

\* Once the template has been gone through, each of its paths holds what its
\* expression evaluates to on the Scope, and the Scope is what it was: a path that
\* lies below another was refused, unless the other's value is a map.
MappedAsEvaluated ==
  (phase \in {"decode", "returned"} /\ ~Aliased) =>
    /\ \A k \in DOMAIN Template : <<OutAt(Template[k].path)>> = Evaluated(k)
    /\ \A r \in DOMAIN SeededMaps : maps[r] = SeededMaps[r]

\* What an integer kind holds, what the widest of its sign holds, and the integers of
\* that one that a decimal equals.
Least(kind) == IF kind \in DOMAIN SignedMax THEN -SignedMax[kind] - 1 ELSE 0
Most(kind) == IF kind \in DOMAIN SignedMax THEN SignedMax[kind] ELSE UnsignedMax[kind]
Widest(kind) == IF kind \in DOMAIN SignedMax THEN -IntMax - 1 .. IntMax ELSE 0 .. UintMax
Whole(v, kind) == {n \in Widest(kind) : n * Power(v[3]) = v[2]}

\* r is n if its kind can hold n, and has the low bits of n if not.
LowBits(r, n, kind) ==
  /\ r \in Least(kind) .. Most(kind)
  /\ n \in Least(kind) .. Most(kind) => r = n
  /\ (r - n) % (Most(kind) - Least(kind) + 1) = 0

\* An integer in the result equals the decimal it came from if its kind can hold it, and
\* has that decimal's low bits if only the widest of the sign can; a decimal is refused
\* only if it has a fraction, or if that widest kind cannot hold it either.
NarrowingExact ==
  LET Decimals == {k \in DOMAIN Template : OutAt(Template[k].path)[1] = "dec" /\ Template[k].kind \in Integral}
      Wholes(k) == Whole(OutAt(Template[k].path), Template[k].kind)
  IN  /\ phase = "returned" =>
           \A k \in Decimals : \E n \in Wholes(k) : LowBits(result[Template[k].path][2], n, Template[k].kind)
      /\ "ErrLossyResultNarrowing" \in error => \E k \in Decimals : Wholes(k) = {}

\* mapper.go:135-138 of setNested: "It returns an error when an output path collides
\* with a value already written at a shorter prefix (e.g. both "a" and "a.b" are
\* mapped), rather than silently overwriting".
CollisionRefused == phase = "returned" => ~Prefixed
==============================================================================
