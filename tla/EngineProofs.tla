----------------------------- MODULE EngineProofs -----------------------------
(***************************************************************************)
(* Proofs about Engine, for every stage, template and input, and every     *)
(* width of the integers.                                                  *)
(***************************************************************************)
EXTENDS Engine, StageGraphProofs

\* One map over another.
LEMMA OverIs ==
  ASSUME NEW f, NEW g
  PROVE  /\ DOMAIN Over(f, g) = DOMAIN f \union DOMAIN g
         /\ \A n \in DOMAIN f : Over(f, g)[n] = f[n]
         /\ \A n \in DOMAIN g : n \notin DOMAIN f => Over(f, g)[n] = g[n]
BY DEF Over

LEMMA BindIs ==
  ASSUME NEW n, NEW v, NEW g
  PROVE  /\ DOMAIN Over(Bind(n, v), g) = DOMAIN g \union {n}
         /\ Over(Bind(n, v), g)[n] = v
         /\ \A m \in DOMAIN g : m # n => Over(Bind(n, v), g)[m] = g[m]
BY DEF Over, Bind

\* What the assumptions say of the service and the input at hand.
ServiceInv == IsStage(Stage) /\ IsTemplate(Template) /\ IsInput(input)

\* A decimal has a value, and a map is one of the input's.
Good(v) ==
  /\ v[1] = "dec" => v[2] \in Int /\ v[3] \in Nat
  /\ v[1] = "map" => \E n \in MapsAt : v = <<"map", <<"seed", n>>>>

LEMMA PlainIsGood == \A v : IsPlain(v) => Good(v)
BY DEF IsPlain, Good

LEMMA NilIsPlain == IsPlain(Nil) /\ Nil[1] = "nil"
BY DEF IsPlain, Nil

\* A member or a variable of good values is good, and so is what is declared.
GoodVars(env) == \A n \in DOMAIN env : Good(env[n])

Kinds == Scalars \union {"nil", "list", "map"}
PlainVars(d) == \A n \in DOMAIN d : d[n][1] \in Kinds /\ (d[n][1] \in Scalars => IsPlain(d[n]))

LEMMA LookupIs ==
  ASSUME NEW d, PlainVars(d.locals), PlainVars(d.globals), NEW n
  PROVE  /\ Lookup(d, n)[1] \in Kinds /\ (Lookup(d, n)[1] \in Scalars => IsPlain(Lookup(d, n)))
         /\ IsPlain(Literal(Lookup(d, n))) /\ Literal(Lookup(d, n)) = Usable(Lookup(d, n))
<1> DEFINE f == d.locals
           g == d.globals
<1>1. /\ DOMAIN Over(f, g) = DOMAIN f \union DOMAIN g
      /\ \A k \in DOMAIN f : Over(f, g)[k] = f[k]
      /\ \A k \in DOMAIN g : k \notin DOMAIN f => Over(f, g)[k] = g[k]
  <2>. HIDE DEF f, g
  <2>. QED
    BY OverIs
<1>2. \A k \in DOMAIN Over(f, g) : Over(f, g)[k][1] \in Kinds /\ (Over(f, g)[k][1] \in Scalars => IsPlain(Over(f, g)[k]))
  BY <1>1 DEF PlainVars
<1>3. Lookup(d, n) = VarIn(Over(f, g), n)
  BY DEF Lookup
<1>. HIDE DEF f, g
<1> DEFINE v == Lookup(d, n)
<1>4. v[1] \in Kinds /\ (v[1] \in Scalars => IsPlain(v))
  BY <1>2, <1>3, NilIsPlain DEF VarIn, Kinds
<1>. HIDE DEF v
<1>5. IsPlain(Literal(v))
  BY <1>4, NilIsPlain DEF Literal
<1>6. ASSUME v[1] = "int" PROVE Literal(v) = Usable(v)
  <2>1. v[1] \in Scalars /\ v[2] \in -IntMax - 1 .. UintMax
    BY <1>4, <1>6 DEF Scalars, IsPlain
  <2>2. v[2] <= IntMax <=> v[2] \in -IntMax - 1 .. IntMax
    BY <2>1, EngineAssumption
  <2>3. v[1] \notin {"nil", "list", "map"}
    BY <1>6
  <2>. QED
    BY <1>6, <2>1, <2>2, <2>3 DEF Literal, Usable
<1>7. ASSUME v[1] # "int" PROVE Literal(v) = Usable(v)
  <2>1. v[1] \in Scalars <=> v[1] \notin {"nil", "list", "map"}
    BY <1>4 DEF Scalars, Kinds
  <2>. QED
    BY <1>7, <2>1 DEF Literal, Usable
<1>. QED
  BY <1>4, <1>5, <1>6, <1>7 DEF v

\* A sum is a number.
LEMMA PlusIs ==
  ASSUME NEW v, NEW n
  PROVE  Plus(v, n) = <<>> \/ \E s : Plus(v, n) = <<s>> /\ Good(s)
<1> DEFINE i == <<"int", Wrap(v[2] + n, -IntMax - 1, IntMax)>>
           f == IF v[2] = "num" THEN <<"float", "num", v[3] + n>> ELSE v
<1>1. Good(i)
  BY DEF Good
<1>2. v[1] = "float" => Good(f)
  BY DEF Good
<1>. HIDE DEF i, f
<1>3. Plus(v, n) = CASE v[1] = "int" -> <<i>> [] v[1] = "float" -> <<f>> [] OTHER -> <<>>
  BY DEF Plus, i, f
<1>. QED
  BY <1>1, <1>2, <1>3

LEMMA EvalIs ==
  ASSUME NEW e, IsProgram(e), NEW env, GoodVars(env), NEW m,
         \A n \in MapsAt : GoodVars(m[<<"seed", n>>]),
         NEW d, PlainVars(d.locals), PlainVars(d.globals)
  PROVE  \/ Eval(e, env, m, d) = <<>>
         \/ \E v : Eval(e, env, m, d) = <<v>> /\ Good(v)
<1> DEFINE v == Identifier(e.name, env, d)
<1>1. Good(v)
  <2>1. Good(Literal(Lookup(d, e.name)))
    BY LookupIs, PlainIsGood
  <2>. QED
    BY <2>1 DEF Identifier, VarIn, GoodVars
<1>. HIDE DEF v
<1>2. CASE e.op = "lit"
  BY <1>2, PlainIsGood DEF Eval, IsProgram
<1>3. CASE e.op = "var"
  BY <1>1, <1>3 DEF Eval, v
<1>4. CASE e.op = "member"
  <2>1. Eval(e, env, m, d) = IF v[1] = "map" THEN <<VarIn(m[v[2]], e.key)>> ELSE <<>>
    BY <1>4 DEF Eval, v
  <2>2. ASSUME v[1] = "map" PROVE Good(VarIn(m[v[2]], e.key))
    <3>1. PICK n \in MapsAt : v = <<"map", <<"seed", n>>>>
      BY <1>1, <2>2 DEF Good
    <3>2. v[2] = <<"seed", n>>
      BY <3>1
    <3>3. GoodVars(m[v[2]]) /\ Good(Nil)
      BY <3>2, PlainIsGood, NilIsPlain
    <3>. QED
      BY <3>3 DEF VarIn, GoodVars
  <2>. QED
    BY <2>1, <2>2
<1>5. CASE e.op = "sum"
  <2>1. Eval(e, env, m, d) = Plus(v, e.value[2])
    BY <1>5 DEF Eval, v
  <2>. QED
    BY <2>1, PlusIs
<1>. QED
  BY <1>2, <1>3, <1>4, <1>5 DEF IsProgram

\* The library's copy of a struct loses decimals, and they are put back, but for those
\* of a squashed struct, which stay empty maps.
LEMMA SeedValueIs ==
  ASSUME IsInput(input), NEW at, NEW f \in FieldsIn(at)
  PROVE  /\ SeedValue(f) = f.value \/ (SeedValue(f) = SeedMap(f.key) /\ f.key \in EmptiedAt)
         /\ Good(SeedValue(f))
<1>1. Good(f.value)
  BY PlainIsGood DEF IsInput, FieldsIn
<1>2. CASE ~Emptied(f)
  BY <1>1, <1>2 DEF SeedValue
<1>3. CASE Emptied(f)
  <2>1. f.in \in input.squash
    BY <1>3 DEF Emptied, PutBack, FieldsIn, LeftOut
  <2>2. f \in FieldsIn(TopLevel)
    BY <2>1 DEF FieldsIn, Level
  <2>3. f.key \in EmptiedAt
    BY <1>3, <2>2 DEF EmptiedAt
  <2>4. Good(SeedMap(f.key))
    BY <2>3 DEF Good, SeedMap, MapsAt
  <2>. QED
    BY <1>3, <2>3, <2>4 DEF SeedValue
<1>. QED
  BY <1>2, <1>3

LEMMA RecordIs ==
  ASSUME IsInput(input), NEW at
  PROVE  /\ DOMAIN Record(FieldsIn(at)) = {f.key : f \in FieldsIn(at)}
         /\ \A f \in FieldsIn(at) : Record(FieldsIn(at))[f.key] = SeedValue(f)
         /\ GoodVars(Record(FieldsIn(at)))
<1> DEFINE F == FieldsIn(at)
<1>1. \A f, g \in F : f.key = g.key => f = g
  BY DEF IsInput, FieldsIn
<1>0. \A f \in F : Good(SeedValue(f))
  BY SeedValueIs
<1>. HIDE DEF F
<1>2. DOMAIN Record(F) = {f.key : f \in F}
  BY DEF Record
<1>3. ASSUME NEW f \in F PROVE Record(F)[f.key] = SeedValue(f)
  <2>1. (CHOOSE g \in F : g.key = f.key) = f
    BY <1>1
  <2>2. Record(F)[f.key] = SeedValue(CHOOSE g \in F : g.key = f.key)
    BY DEF Record
  <2>. QED
    BY <2>1, <2>2
<1>4. GoodVars(Record(F))
  BY <1>0, <1>2, <1>3 DEF GoodVars
<1>. QED
  BY <1>2, <1>3, <1>4 DEF F

LEMMA SeededIs ==
  ASSUME IsInput(input)
  PROVE  /\ DOMAIN Seeded = {f.key : f \in FieldsIn(TopLevel)} \union NestedAt
         /\ \A f \in FieldsIn(TopLevel) : Seeded[f.key] = SeedValue(f)
         /\ \A n \in NestedAt : Seeded[n] = SeedMap(n)
         /\ GoodVars(Seeded)
         /\ \A n \in MapsAt : <<"seed", n>> \in DOMAIN SeededMaps /\ SeededMaps[<<"seed", n>>] = Record(FieldsIn(n))
         /\ \A r \in DOMAIN SeededMaps : GoodVars(SeededMaps[r])
<1> DEFINE nested == [n \in NestedAt |-> SeedMap(n)]
           top == Record(FieldsIn(TopLevel))
<1>1. /\ DOMAIN top = {f.key : f \in FieldsIn(TopLevel)}
      /\ \A f \in FieldsIn(TopLevel) : top[f.key] = SeedValue(f)
      /\ GoodVars(top)
  BY RecordIs
<1>2. DOMAIN nested = NestedAt /\ \A n \in NestedAt : nested[n] = SeedMap(n)
  OBVIOUS
<1>3. \A n \in NestedAt : n \notin DOMAIN top
  BY <1>1 DEF NestedAt, Nested, FieldsIn, IsInput
<1>. HIDE DEF nested, top
<1>4. Seeded = Over(top, nested)
  BY DEF Seeded, top, nested
<1>5. /\ DOMAIN Seeded = DOMAIN top \union NestedAt
      /\ \A n \in DOMAIN top : Seeded[n] = top[n]
      /\ \A n \in NestedAt : Seeded[n] = SeedMap(n)
  <2>1. /\ DOMAIN Over(top, nested) = DOMAIN top \union DOMAIN nested
        /\ \A n \in DOMAIN top : Over(top, nested)[n] = top[n]
        /\ \A n \in DOMAIN nested : n \notin DOMAIN top => Over(top, nested)[n] = nested[n]
    BY OverIs
  <2>. QED
    BY <1>2, <1>3, <1>4, <2>1
<1>7. GoodVars(Seeded)
  <2>1. \A n \in NestedAt : Good(SeedMap(n))
    BY DEF Good, SeedMap, MapsAt
  <2>. QED
    BY <1>1, <1>5, <2>1 DEF GoodVars
<1>8. \A n \in MapsAt : <<"seed", n>> \in DOMAIN SeededMaps /\ SeededMaps[<<"seed", n>>] = Record(FieldsIn(n))
  <2>. SUFFICES ASSUME NEW n \in MapsAt
                PROVE  <<"seed", n>> \in DOMAIN SeededMaps /\ SeededMaps[<<"seed", n>>] = Record(FieldsIn(n))
    OBVIOUS
  <2> DEFINE r == <<"seed", n>>
  <2>1. r \in {<<"seed", k>> : k \in MapsAt} /\ r[2] = n
    OBVIOUS
  <2>. HIDE DEF r
  <2>2. r \in DOMAIN SeededMaps /\ SeededMaps[r] = Record(FieldsIn(n))
    BY <2>1 DEF SeededMaps
  <2>. QED
    BY <2>2 DEF r
<1>9. \A r \in DOMAIN SeededMaps : GoodVars(SeededMaps[r])
  BY RecordIs DEF SeededMaps
<1>. QED
  BY <1>1, <1>5, <1>7, <1>8, <1>9

LEMMA NothingIsGood == GoodVars(NoVars) /\ DOMAIN NoVars = {}
BY DEF GoodVars, NoVars

LEMMA PlainOver ==
  ASSUME NEW f, NEW g, PlainVars(f), PlainVars(g)
  PROVE  PlainVars(Over(g, f))
<1>1. /\ DOMAIN Over(g, f) = DOMAIN g \union DOMAIN f
      /\ \A n \in DOMAIN g : Over(g, f)[n] = g[n]
      /\ \A n \in DOMAIN f : n \notin DOMAIN g => Over(g, f)[n] = f[n]
  BY OverIs
<1>. QED
  BY <1>1 DEF PlainVars

LEMMA DefaultsArePlain ==
  ASSUME IsStage(Stage)
  PROVE  /\ PlainVars(StageDefaults.locals) /\ PlainVars(StageDefaults.globals)
         /\ PlainVars(Defaults(NoVars, NoVars, NoVars).locals)
         /\ PlainVars(Defaults(NoVars, NoVars, NoVars).globals)
         /\ PlainVars(Defaults(Stage.constants, NoVars, NoVars).locals)
         /\ PlainVars(Defaults(Stage.constants, NoVars, NoVars).globals)
<1>1. PlainVars(NoVars)
  BY NothingIsGood DEF PlainVars
<1>2. PlainVars(Stage.constants) /\ PlainVars(Stage.globals) /\ PlainVars(Stage.locals)
  BY DEF IsStage, PlainVars, Kinds
<1>3. ASSUME NEW c, NEW g, NEW l
      PROVE  Defaults(c, g, l).locals = l /\ Defaults(c, g, l).globals = Over(g, c)
  BY DEF Defaults, Merged
<1>4. /\ PlainVars(Over(Stage.globals, Stage.constants)) /\ PlainVars(Over(NoVars, NoVars))
      /\ PlainVars(Over(NoVars, Stage.constants))
  BY <1>1, <1>2, PlainOver
<1>. QED
  BY <1>1, <1>2, <1>3, <1>4 DEF StageDefaults

\* An expression comes to a good value, or to none, and sees only the input's maps.
LEMMA EvalGood ==
  ASSUME IsStage(Stage), NEW e, IsProgram(e), NEW env, GoodVars(env), NEW m,
         \A n \in MapsAt : GoodVars(m[<<"seed", n>>]),
         NEW d \in {StageDefaults, Defaults(NoVars, NoVars, NoVars), Defaults(Stage.constants, NoVars, NoVars)}
  PROVE  \/ Eval(e, env, m, d) = <<>>
         \/ \E v : Eval(e, env, m, d) = <<v>> /\ Good(v)
<1>1. PlainVars(d.locals) /\ PlainVars(d.globals)
  BY DefaultsArePlain
<1>. QED
  BY <1>1, EvalIs

LEMMA EvalSees ==
  ASSUME NEW e, IsProgram(e), NEW env, GoodVars(env), NEW d, PlainVars(d.locals), PlainVars(d.globals),
         NEW m, NEW h, \A n \in MapsAt : m[<<"seed", n>>] = h[<<"seed", n>>]
  PROVE  Eval(e, env, m, d) = Eval(e, env, h, d)
<1> DEFINE v == Identifier(e.name, env, d)
<1>1. Good(v)
  <2>1. Good(Literal(Lookup(d, e.name)))
    BY LookupIs, PlainIsGood
  <2>. QED
    BY <2>1 DEF Identifier, VarIn, GoodVars
<1>. HIDE DEF v
<1>2. v[1] = "map" => m[v[2]] = h[v[2]]
  <2>. SUFFICES ASSUME v[1] = "map" PROVE m[v[2]] = h[v[2]]
    OBVIOUS
  <2>1. PICK n \in MapsAt : v = <<"map", <<"seed", n>>>>
    BY <1>1 DEF Good
  <2>. QED
    BY <2>1
<1>3. CASE e.op \in {"lit", "var", "sum"}
  BY <1>3 DEF Eval, IsProgram
<1>4. CASE e.op = "member"
  BY <1>2, <1>4 DEF Eval, v
<1>. QED
  BY <1>3, <1>4 DEF IsProgram
-----------------------------------------------------------------------------
\* Phases of a call, in their order.
Before == {"construct", "flatten"}
Execution == {"condition", "apply", "fallback"}
Mapping == {"map", "decode", "returned"}
Phases == Before \union Execution \union Mapping \union {"failed"}

PathOf(k) == Template[k].path
Written == 1 .. next - 1

\* What is in memory: nothing before there is a Scope, and good values then.
DataInv ==
  /\ ServiceInv
  /\ phase \in Phases /\ (phase = "failed" <=> error # {})
  /\ phase \in Before => data = NoVars /\ maps = NoVars
  /\ phase \in Before \union Execution => out = NoVars /\ next = 1
  /\ phase \in Execution => data = Seeded /\ maps = SeededMaps
  /\ data # NoVars \/ phase \in Mapping => \A n \in MapsAt : <<"seed", n>> \in DOMAIN maps
  /\ GoodVars(data) /\ \A r \in DOMAIN maps : GoodVars(maps[r])
  /\ phase \notin {"construct", "failed"} => \A k \in DOMAIN Template : PathOf(k) # <<>>

\* What the stage's expression and its fallback come to, and its condition.
Own == Eval(Stage.expr, Seeded, SeededMaps, StageDefaults)
Instead == Eval(Stage.fallback[1], NoVars, SeededMaps, StageDefaults)
Gate == Test(Stage.condition[1], Stage.coerce, Seeded, SeededMaps, Defaults(Stage.constants, NoVars, NoVars))

Told == IF main = <<>> THEN 1 ELSE 0

\* How a stage that has not failed may have left the Scope.
Skipped == main = <<>> /\ observed = 0 /\ data = Seeded /\ Stage.condition # <<>> /\ Gate # <<>> /\ ~Gate[1]
Ran == /\ main = Own /\ main # <<>> /\ ~FallsBack(Stage, main) /\ observed = 0
       /\ data = Over(Bind(Stage.output, main[1]), Seeded)
FellBack == /\ main = Own /\ FallsBack(Stage, main) /\ observed = Told
            /\ Instead # <<>> /\ data = Over(Bind(Stage.output, Instead[1]), Seeded)

MainInv ==
  /\ main # <<>> => main = Own
  /\ observed \in {0, 1} /\ (observed = 1 => main = <<>> /\ Stage.fallback # <<>>)
  /\ phase \in Before \union {"condition", "apply"} => main = <<>> /\ observed = 0
  /\ phase = "fallback" => main = Own /\ FallsBack(Stage, main) /\ observed = Told
  /\ phase \in Mapping => Skipped \/ Ran \/ FellBack
  /\ "fallback" \in error => ("expression" \in error <=> main = <<>>)

\* What the template has put together so far.
OutInv ==
  /\ next \in 1 .. Len(Template) + 1
  /\ phase \in {"decode", "returned"} \/ "ErrLossyResultNarrowing" \in error => next = Len(Template) + 1
  /\ \A k \in Written : PathOf(k) # <<>>
  /\ \A x \in DOMAIN out : Good(out[x]) \/ out[x] = <<"map", <<"out", x>>>>
  /\ \A x \in DOMAIN out : out[x][1] = "map" => out[x][2] \in DOMAIN maps
  /\ \A k \in Written : PathOf(k)[1] \in DOMAIN out
  /\ \A k \in Written : Len(PathOf(k)) = 2 =>
       out[PathOf(k)[1]][1] = "map" /\ PathOf(k)[2] \in DOMAIN maps[out[PathOf(k)[1]][2]]

\* Without an alias, the fields written are what they evaluate to.
FaithInv ==
  (phase \in Mapping /\ ~Aliased) =>
    /\ \A r \in DOMAIN SeededMaps : maps[r] = SeededMaps[r]
    /\ \A x \in DOMAIN out : (\E k \in Written : PathOf(k) = <<x>>) \/ out[x] = <<"map", <<"out", x>>>>
    /\ \A k \in Written : <<OutAt(PathOf(k))>> = Evaluated(k)

Narrowed(k) == Narrow(OutAt(PathOf(k)), Template[k].kind)
Decoded(k) == IF Narrowed(k) = <<>> THEN <<>> ELSE Assigned(Narrowed(k)[1], Template[k].kind)

ResultInv ==
  /\ phase = "returned" => \A k \in DOMAIN Template : Decoded(k) # <<>> /\ result[PathOf(k)] = Decoded(k)[1]
  /\ "ErrLossyResultNarrowing" \in error => \E k \in DOMAIN Template : Narrowed(k) = <<>>

IInv == DataInv /\ MainInv /\ OutInv /\ FaithInv /\ ResultInv

-----------------------------------------------------------------------------
\* The variables of the stage.

LEMMA LookupSplit ==
  ASSUME NEW l, NEW g, NEW c, NEW n
  PROVE  Lookup(Defaults(c, g, l), n) =
           IF n \in DOMAIN l THEN l[n] ELSE IF n \in DOMAIN g THEN g[n] ELSE VarIn(c, n)
<1> DEFINE gc == Over(g, c)
<1>1. /\ DOMAIN gc = DOMAIN g \union DOMAIN c
      /\ \A k \in DOMAIN g : gc[k] = g[k]
      /\ \A k \in DOMAIN c : k \notin DOMAIN g => gc[k] = c[k]
  BY OverIs
<1>2. Defaults(c, g, l).locals = l /\ Defaults(c, g, l).globals = gc
  BY DEF Defaults, Merged
<1>. HIDE DEF gc
<1>3. /\ DOMAIN Over(l, gc) = DOMAIN l \union DOMAIN gc
      /\ \A k \in DOMAIN l : Over(l, gc)[k] = l[k]
      /\ \A k \in DOMAIN gc : k \notin DOMAIN l => Over(l, gc)[k] = gc[k]
  BY OverIs
<1>4. Lookup(Defaults(c, g, l), n) = VarIn(Over(l, gc), n)
  BY <1>2 DEF Lookup
<1>. QED
  BY <1>1, <1>3, <1>4 DEF VarIn

LEMMA LookupIsDeclared ==
  ASSUME NEW n
  PROVE  /\ Lookup(StageDefaults, n) = Declared(n)
         /\ Lookup(Defaults(Stage.constants, NoVars, NoVars), n) = VarIn(Stage.constants, n)
<1>1. Lookup(StageDefaults, n) =
        IF n \in DOMAIN Stage.locals THEN Stage.locals[n]
        ELSE IF n \in DOMAIN Stage.globals THEN Stage.globals[n] ELSE VarIn(Stage.constants, n)
  BY LookupSplit DEF StageDefaults
<1>2. Lookup(Defaults(Stage.constants, NoVars, NoVars), n) = VarIn(Stage.constants, n)
  BY LookupSplit, NothingIsGood
<1>. QED
  BY <1>1, <1>2 DEF Declared

\* What the reference calls given is what the seed has at the top.
LEMMA GivenIs ==
  ASSUME IsInput(input), NEW f \in input.fields
  PROVE  /\ f \in Given <=> f \in FieldsIn(TopLevel) /\ f.value # Nil
         /\ f \in Given => SeedValue(f) = IF f.in # TopLevel /\ f.value[1] = "dec" THEN SeedMap(f.key) ELSE f.value
         /\ f.value = Nil => SeedValue(f) = Nil
<1>1. TopLevel \notin input.squash /\ Untaken \notin input.squash /\ (input.shape # "struct" => input.squash = {})
  BY DEF IsInput
<1>2. TopLevel # Untaken
  BY DEF TopLevel, Untaken
<1>3. Level(input, f) = TopLevel <=> f \in AtTheTop
  BY DEF Level, AtTheTop
<1>4. f \in AtTheTop => (LeftOut(f) <=> input.shape = "struct" /\ f.key = "-")
  BY <1>1, <1>2 DEF AtTheTop, LeftOut, Untaken
<1>5. f \in AtTheTop => (PutBack(f) <=> f.value[1] = "dec" /\ f.in = TopLevel)
  BY <1>1, <1>2 DEF AtTheTop, PutBack
<1>6. f \in Given <=> f \in FieldsIn(TopLevel) /\ f.value # Nil
  BY <1>3, <1>4, <1>5 DEF FieldsIn, Given, AtTheTop
<1>7. ASSUME f \in Given
      PROVE  SeedValue(f) = IF f.in # TopLevel /\ f.value[1] = "dec" THEN SeedMap(f.key) ELSE f.value
  BY <1>1, <1>5, <1>7 DEF SeedValue, Emptied, Given, AtTheTop
<1>8. f.value = Nil => SeedValue(f) = Nil
  BY NilIsPlain DEF SeedValue, Emptied
<1>. QED
  BY <1>6, <1>7, <1>8

LEMMA MeantIs ==
  ASSUME IsInput(input), NEW d, PlainVars(d.locals), PlainVars(d.globals), NEW n
  PROVE  Identifier(n, Seeded, d) = Meant(n, Lookup(d, n))
<1>0. SeedMap(n) # Nil
  BY DEF Nil, SeedMap
<1>1. CASE \E f \in Given : f.key = n
  <2>1. PICK f \in Given : f.key = n
    BY <1>1
  <2> DEFINE meant == IF f.in # TopLevel /\ f.value[1] = "dec" THEN SeedMap(f.key) ELSE f.value
  <2>2. \A g \in Given : g \in FieldsIn(TopLevel)
    BY GivenIs DEF Given, AtTheTop
  <2>3. \A g \in Given : g.key = n => g = f
    BY <2>1, <2>2 DEF IsInput, FieldsIn
  <2>4. (CHOOSE g \in Given : g.key = n) = f
    BY <2>1, <2>3
  <2>5. f \in FieldsIn(TopLevel) /\ f.value # Nil /\ SeedValue(f) = meant
    BY GivenIs DEF Given, AtTheTop
  <2>6. n \in DOMAIN Seeded /\ Seeded[n] = meant
    BY <2>1, <2>5, SeededIs
  <2>7. meant # Nil
    BY <1>0, <2>1, <2>5
  <2>8. Meant(n, Lookup(d, n)) = meant
    BY <1>1, <2>1, <2>4 DEF Meant
  <2>. HIDE DEF meant
  <2>. QED
    BY <2>6, <2>7, <2>8 DEF Identifier, VarIn
<1> DEFINE below == \E f \in input.fields \ AtTheTop : f.in = n /\ ~(input.shape = "struct" /\ n = "-")
<1>2. n \in NestedAt <=> below
  BY DEF NestedAt, Nested, AtTheTop, Untaken
<1>3. CASE ~(\E f \in Given : f.key = n) /\ n \in NestedAt
  <2>1. Seeded[n] = SeedMap(n) /\ n \in DOMAIN Seeded
    BY <1>3, SeededIs
  <2>2. Meant(n, Lookup(d, n)) = SeedMap(n)
    BY <1>2, <1>3 DEF Meant
  <2>. QED
    BY <1>0, <2>1, <2>2 DEF Identifier, VarIn
<1>4. CASE ~(\E f \in Given : f.key = n) /\ n \notin NestedAt
  <2>1. VarIn(Seeded, n) = Nil
    <3>1. n \in DOMAIN Seeded => \E f \in FieldsIn(TopLevel) : n = f.key
      BY <1>4, SeededIs
    <3>2. \A f \in FieldsIn(TopLevel) : n = f.key => Seeded[n] = Nil
      BY <1>4, SeededIs, GivenIs DEF FieldsIn
    <3>. QED
      BY <3>1, <3>2 DEF VarIn
  <2>2. Meant(n, Lookup(d, n)) = Usable(Lookup(d, n))
    BY <1>2, <1>4 DEF Meant
  <2>. QED
    BY <2>1, <2>2, LookupIs DEF Identifier
<1>. QED
  BY <1>1, <1>3, <1>4

\* What the stage's expression comes to if it is a variable, its condition, and its
\* fallback, which sees nothing of the input.
LEMMA VariableIs ==
  ASSUME ServiceInv, Stage.expr.op = "var"
  PROVE  Own = <<Meant(Stage.expr.name, Declared(Stage.expr.name))>>
<1>1. Own = <<Identifier(Stage.expr.name, Seeded, StageDefaults)>>
  BY DEF Own, Eval
<1>. QED
  BY <1>1, MeantIs, LookupIsDeclared, DefaultsArePlain DEF ServiceInv

LEMMA GateIs ==
  ASSUME ServiceInv, Stage.condition # <<>>, Gate # <<>>, ~Gate[1], ~Stage.coerce, Stage.condition[1].op = "var"
  PROVE  Meant(Stage.condition[1].name, VarIn(Stage.constants, Stage.condition[1].name)) = <<"bool", FALSE>>
<1> DEFINE n == Stage.condition[1].name
           d == Defaults(Stage.constants, NoVars, NoVars)
           v == Identifier(n, Seeded, d)
<1>1. v = Meant(n, VarIn(Stage.constants, n))
  BY MeantIs, LookupIsDeclared, DefaultsArePlain DEF ServiceInv
<1>2. Gate = Strictly(v)
  BY DEF Gate, Test, Eval
<1>3. v[1] = "bool" => v \in {<<"bool", b>> : b \in BOOLEAN}
  <2>1. IsPlain(Literal(Lookup(d, n)))
    BY DefaultsArePlain, LookupIs DEF ServiceInv
  <2>2. n \in DOMAIN Seeded => IsPlain(Seeded[n]) \/ Seeded[n][1] = "map"
    <3>1. \A f \in FieldsIn(TopLevel) : IsPlain(f.value) /\ (SeedValue(f) = f.value \/ SeedValue(f) = SeedMap(f.key))
      BY SeedValueIs DEF ServiceInv, IsInput, FieldsIn
    <3>2. \A k : SeedMap(k)[1] = "map"
      BY DEF SeedMap
    <3>. QED
      BY <3>1, <3>2, SeededIs DEF ServiceInv
  <2>3. v = Literal(Lookup(d, n)) \/ (n \in DOMAIN Seeded /\ v = Seeded[n])
    <3>. HIDE DEF n, d
    <3>. QED
      BY DEF Identifier, VarIn, v
  <2>. HIDE DEF v, d, n
  <2>. QED
    BY <2>1, <2>2, <2>3 DEF IsPlain
<1>. HIDE DEF v
<1>4. v[1] = "bool" /\ Gate = <<v[2]>>
  BY <1>2 DEF Strictly
<1>5. v = <<"bool", TRUE>> \/ v = <<"bool", FALSE>>
  BY <1>3, <1>4
<1>6. v # <<"bool", TRUE>>
  <2>. SUFFICES ASSUME v = <<"bool", TRUE>> PROVE FALSE
    OBVIOUS
  <2>1. Gate[1] = v[2] /\ v[2] = TRUE
    BY <1>4
  <2>. QED
    BY <2>1
<1>. QED
  BY <1>1, <1>5, <1>6

Alone ==
  LET e == Stage.fallback[1]
      own == Usable(Declared(e.name))
  IN  CASE e.op = "lit" -> e.value [] e.op = "var" -> own [] OTHER -> Plus(own, e.value[2])[1]

LEMMA InsteadIs ==
  ASSUME ServiceInv, Stage.fallback # <<>>, Instead # <<>>
  PROVE  Instead = <<Alone>>
<1> DEFINE e == Stage.fallback[1]
           own == Usable(Declared(e.name))
<1>1. /\ Identifier(e.name, NoVars, StageDefaults) = Literal(Lookup(StageDefaults, e.name))
      /\ IsPlain(Literal(Lookup(StageDefaults, e.name)))
      /\ Literal(Lookup(StageDefaults, e.name)) = Usable(Lookup(StageDefaults, e.name))
      /\ Lookup(StageDefaults, e.name) = Declared(e.name)
  BY LookupIs, DefaultsArePlain, LookupIsDeclared, NothingIsGood DEF Identifier, VarIn, ServiceInv
<1>2. own[1] # "map"
  BY <1>1 DEF IsPlain
<1>3. e.op \in {"lit", "var", "member", "sum"}
  BY DEF ServiceInv, IsStage, IsProgram
<1>4. Instead = CASE e.op = "lit" -> <<e.value>>
                  [] e.op = "var" -> <<own>>
                  [] e.op = "member" -> IF own[1] = "map" THEN <<VarIn(SeededMaps[own[2]], e.key)>> ELSE <<>>
                  [] e.op = "sum" -> Plus(own, e.value[2])
  BY <1>1 DEF Instead, Eval
<1>5. Alone = CASE e.op = "lit" -> e.value [] e.op = "var" -> own [] OTHER -> Plus(own, e.value[2])[1]
  BY DEF Alone
<1>6. Plus(own, e.value[2]) = <<>> \/ \E s : Plus(own, e.value[2]) = <<s>>
  BY PlusIs
<1>. HIDE DEF own, e
<1>. QED
  BY <1>2, <1>3, <1>4, <1>5, <1>6

-----------------------------------------------------------------------------
\* The invariant is kept.

\* The engine and its input stay as they are, and all that depends on them alone.
LEMMA Fixed ==
  ASSUME UNCHANGED <<service, input>>
  PROVE  /\ Stage' = Stage /\ Template' = Template /\ MapsAt' = MapsAt
         /\ StageDefaults' = StageDefaults /\ Seeded' = Seeded /\ SeededMaps' = SeededMaps
         /\ Own' = Own /\ Instead' = Instead /\ Gate' = Gate
         /\ ServiceInv' = ServiceInv
         /\ \A v : Good(v)' = Good(v)
         /\ \A k : PathOf(k)' = PathOf(k)
<1>1. Stage' = Stage /\ Template' = Template
  BY DEF Stage, Template
<1>3. StageDefaults' = StageDefaults
  BY <1>1 DEF StageDefaults
<1>4. /\ \A f : SeedValue(f)' = SeedValue(f) /\ Emptied(f)' = Emptied(f)
      /\ \A at : FieldsIn(at)' = FieldsIn(at)
  BY DEF SeedValue, Emptied, FieldsIn, LeftOut, PutBack
<1>5. NestedAt' = NestedAt
  BY DEF NestedAt, Nested
<1>2. MapsAt' = MapsAt
  BY <1>4, <1>5 DEF MapsAt, EmptiedAt
<1>6. \A F : Record(F)' = Record(F)
  BY <1>4 DEF Record
<1>7. Seeded' = Seeded
  BY <1>4, <1>5, <1>6 DEF Seeded
<1>8. SeededMaps' = SeededMaps
  BY <1>2, <1>4, <1>6 DEF SeededMaps
<1>9. Own' = Own /\ Instead' = Instead /\ Gate' = Gate
  BY <1>1, <1>3, <1>7, <1>8 DEF Own, Instead, Gate
<1>10. ServiceInv' = ServiceInv
  BY <1>1 DEF ServiceInv
<1>11. \A v : Good(v)' = Good(v)
  BY <1>2 DEF Good
<1>12. \A k : PathOf(k)' = PathOf(k)
  BY <1>1 DEF PathOf
<1>. QED
  BY <1>1, <1>2, <1>3, <1>7, <1>8, <1>9, <1>10, <1>11, <1>12

LEMMA Started == Init => IInv
<1>. SUFFICES ASSUME Init PROVE IInv
  OBVIOUS
<1>1. ServiceInv
  BY EngineAssumption DEF Init, ServiceInv, Stage, Template
<1>2. Written = {}
  BY DEF Init, Written
<1>3. Len(Template) \in Nat
  BY <1>1 DEF ServiceInv, IsTemplate
<1>4. DataInv
  BY <1>1, NothingIsGood DEF Init, DataInv, Phases, Before, Execution, Mapping
<1>5. MainInv
  BY DEF Init, MainInv, Before, Execution, Mapping
<1>6. OutInv
  BY <1>2, <1>3, NothingIsGood DEF Init, OutInv
<1>7. FaithInv
  BY DEF Init, FaithInv, Mapping
<1>8. ResultInv
  BY DEF Init, ResultInv
<1>. QED
  BY <1>4, <1>5, <1>6, <1>7, <1>8 DEF IInv

\* A step that fails without having changed anything.
LEMMA FailingKeeps ==
  ASSUME IInv, UNCHANGED <<service, input, data, maps, main, observed, out, next, result>>,
         NEW causes, Fails(causes), causes # {}, "ErrLossyResultNarrowing" \notin causes,
         "fallback" \in causes => ("expression" \in causes <=> main = <<>>)
  PROVE  IInv'
<1>. USE DEF IInv
<1>1. phase' = "failed" /\ error' = causes
  BY DEF Fails
<1>2. DataInv'
  <2>1. /\ ServiceInv' /\ GoodVars(data)' /\ (\A r \in DOMAIN maps : GoodVars(maps[r]))'
        /\ data # NoVars => \A n \in MapsAt' : <<"seed", n>> \in DOMAIN maps
    BY Fixed DEF DataInv, GoodVars, Good
  <2>. QED
    BY <1>1, <2>1 DEF DataInv, Phases, Before, Execution, Mapping
<1>3. MainInv'
  BY <1>1, Fixed DEF MainInv, Before, Mapping
<1>4. OutInv'
  BY <1>1, Fixed DEF OutInv, Written, PathOf, Good
<1>5. FaithInv'
  BY <1>1 DEF FaithInv, Mapping
<1>6. ResultInv'
  BY <1>1 DEF ResultInv
<1>. QED
  BY <1>2, <1>3, <1>4, <1>5, <1>6

LEMMA NothingWritten ==
  ASSUME IInv, phase \in Before \union Execution
  PROVE  Written = {} /\ DOMAIN out = {} /\ next = 1
BY NothingIsGood DEF IInv, DataInv, Written

LEMMA ConstructKeeps == IInv /\ Construct => IInv'
<1>. SUFFICES ASSUME IInv, Construct PROVE IInv'
  OBVIOUS
<1>1. UNCHANGED <<service, input, data, maps, main, observed, out, next, result>>
  BY DEF Construct
<1>2. CASE Fails({"ErrEmptyMappingKey"}) \/ Fails({"ErrNilPipeline"}) \/ Fails({"ErrNilMapper"})
           \/ Fails({"ErrConcurrencyRequiresConfig"})
  <2>1. \A c \in {"ErrEmptyMappingKey", "ErrNilPipeline", "ErrNilMapper", "ErrConcurrencyRequiresConfig"} :
          {c} # {} /\ "ErrLossyResultNarrowing" \notin {c} /\ "fallback" \notin {c}
    OBVIOUS
  <2>. QED
    BY <1>1, <1>2, <2>1, FailingKeeps
<1>3. CASE phase' = "flatten" /\ UNCHANGED error /\ ~\E k \in DOMAIN Template : Template[k].path = <<>>
  <2>1. phase = "construct"
    BY DEF Construct
  <2>2. Written = {} /\ DOMAIN out = {} /\ next = 1
    BY <2>1, NothingWritten DEF Before
  <2>3. DataInv'
    <3>1. /\ ServiceInv' /\ GoodVars(data)' /\ (\A r \in DOMAIN maps : GoodVars(maps[r]))'
          /\ data # NoVars => \A n \in MapsAt' : <<"seed", n>> \in DOMAIN maps
      BY <1>1, Fixed DEF IInv, DataInv, GoodVars, Good
    <3>2. data = NoVars /\ maps = NoVars /\ out = NoVars /\ error = {}
      BY <2>1 DEF IInv, DataInv, Before
    <3>3. (\A k \in DOMAIN Template : PathOf(k) # <<>>)'
      BY <1>1, <1>3, Fixed DEF PathOf
    <3>. QED
      BY <1>1, <1>3, <2>1, <2>2, <3>1, <3>2, <3>3 DEF DataInv, Phases, Before, Execution, Mapping
  <2>4. MainInv'
    BY <1>1, <1>3, <2>1, Fixed DEF IInv, MainInv, Before, Mapping
  <2>5. OutInv'
    BY <1>1, <1>3, <2>1, Fixed DEF IInv, OutInv, Written, PathOf, Good
  <2>6. FaithInv' /\ ResultInv'
    BY <1>1, <1>3, <2>1 DEF IInv, FaithInv, ResultInv, Mapping, DataInv
  <2>. QED
    BY <2>3, <2>4, <2>5, <2>6 DEF IInv
<1>. QED
  BY <1>2, <1>3 DEF Construct

LEMMA SeedKeeps == IInv /\ Seed => IInv'
<1>. SUFFICES ASSUME IInv, Seed PROVE IInv'
  OBVIOUS
<1>1. phase = "flatten" /\ UNCHANGED <<service, input, main, observed, out, next, result>>
  BY DEF Seed
<1>2. CASE Fails({"ErrNilInput"}) /\ UNCHANGED <<data, maps>>
  <2>1. {"ErrNilInput"} # {} /\ "ErrLossyResultNarrowing" \notin {"ErrNilInput"} /\ "fallback" \notin {"ErrNilInput"}
    OBVIOUS
  <2>. QED
    BY <1>1, <1>2, <2>1, FailingKeeps
<1>3. CASE data' = Seeded /\ maps' = SeededMaps /\ phase' = "condition" /\ UNCHANGED error
  <2>1. Written = {} /\ DOMAIN out = {} /\ next = 1
    BY <1>1, NothingWritten DEF Before
  <2>2. ServiceInv /\ out = NoVars /\ error = {} /\ \A k \in DOMAIN Template : PathOf(k) # <<>>
    BY <1>1 DEF IInv, DataInv, Before
  <2>3. DataInv'
    <3>1. ServiceInv' /\ (\A k \in DOMAIN Template : PathOf(k) # <<>>)'
      BY <1>1, <2>2, Fixed
    <3>2. data' = Seeded' /\ maps' = SeededMaps'
      BY <1>1, <1>3, Fixed
    <3>3. GoodVars(Seeded) /\ (\A n \in MapsAt : <<"seed", n>> \in DOMAIN SeededMaps)
          /\ \A r \in DOMAIN SeededMaps : GoodVars(SeededMaps[r])
      BY <2>2, SeededIs DEF ServiceInv
    <3>4. GoodVars(data)' /\ (\A n \in MapsAt : <<"seed", n>> \in DOMAIN maps)'
          /\ (\A r \in DOMAIN maps : GoodVars(maps[r]))'
      BY <1>1, <1>3, <3>3, Fixed DEF GoodVars, Good
    <3>. QED
      BY <1>1, <1>3, <2>1, <2>2, <3>1, <3>2, <3>4 DEF DataInv, Phases, Before, Execution, Mapping
  <2>4. MainInv'
    BY <1>1, <1>3, Fixed DEF IInv, MainInv, Before, Mapping
  <2>5. OutInv'
    BY <1>1, <1>3, <2>1, Fixed DEF IInv, OutInv, Written, PathOf, Good
  <2>6. FaithInv' /\ ResultInv'
    BY <1>1, <1>3, <2>2 DEF FaithInv, ResultInv, Mapping
  <2>. QED
    BY <2>3, <2>4, <2>5, <2>6 DEF IInv
<1>. QED
  BY <1>2, <1>3 DEF Seed

LEMMA ConditionKeeps == IInv /\ Condition => IInv'
<1>. SUFFICES ASSUME IInv, Condition PROVE IInv'
  OBVIOUS
<1>1. phase = "condition" /\ UNCHANGED <<service, input, data, maps, main, observed, out, next, result>>
  BY DEF Condition
<1>2. data = Seeded /\ maps = SeededMaps /\ out = NoVars /\ error = {} /\ ServiceInv
      /\ (\A k \in DOMAIN Template : PathOf(k) # <<>>) /\ main = <<>> /\ observed = 0
  BY <1>1 DEF IInv, DataInv, MainInv, Execution
<1>3. Written = {} /\ DOMAIN out = {} /\ next = 1
  BY <1>1, NothingWritten DEF Execution
<1>4. CASE Fails({"condition"})
  <2>1. {"condition"} # {} /\ "ErrLossyResultNarrowing" \notin {"condition"} /\ "fallback" \notin {"condition"}
    OBVIOUS
  <2>. QED
    BY <1>1, <1>4, <2>1, FailingKeeps
<1>5. CASE UNCHANGED error /\ (phase' = "apply" \/ (phase' = "map" /\ Stage.condition # <<>> /\ Gate # <<>> /\ ~Gate[1]))
  <2>1. DataInv'
    <3>1. ServiceInv' /\ (\A k \in DOMAIN Template : PathOf(k) # <<>>)'
      BY <1>1, <1>2, Fixed
    <3>2. data' = Seeded' /\ maps' = SeededMaps'
      BY <1>1, <1>2, Fixed
    <3>3. /\ GoodVars(data)' /\ (\A r \in DOMAIN maps : GoodVars(maps[r]))'
          /\ (\A n \in MapsAt : <<"seed", n>> \in DOMAIN maps)'
      BY <1>1, <1>2, SeededIs, Fixed DEF GoodVars, Good, ServiceInv, IInv, DataInv
    <3>. QED
      BY <1>1, <1>2, <1>3, <1>5, <3>1, <3>2, <3>3 DEF DataInv, Phases, Before, Execution, Mapping
  <2>2. MainInv'
    <3>1. phase' = "map" => Skipped'
      BY <1>1, <1>2, <1>5, Fixed DEF Skipped
    <3>. QED
      BY <1>1, <1>2, <1>5, <3>1 DEF MainInv, Before, Mapping
  <2>3. OutInv'
    BY <1>1, <1>2, <1>3, <1>5, Fixed DEF IInv, OutInv, Written, PathOf, Good
  <2>4. FaithInv'
    BY <1>1, <1>2, <1>3, Fixed DEF FaithInv, Written
  <2>5. ResultInv'
    BY <1>1, <1>2, <1>5 DEF ResultInv
  <2>. QED
    BY <2>1, <2>2, <2>3, <2>4, <2>5 DEF IInv
<1>6. Fails({"condition"})
      \/ (UNCHANGED error /\ (phase' = "apply" \/ (phase' = "map" /\ Stage.condition # <<>> /\ Gate # <<>> /\ ~Gate[1])))
  <2>1. CASE Stage.condition = <<>>
    BY <2>1 DEF Condition
  <2>2. CASE Stage.condition # <<>>
    BY <1>2, <2>2 DEF Condition, Gate
  <2>. QED
    BY <2>1, <2>2
<1>. QED
  BY <1>4, <1>5, <1>6

\* The stage has written its output, a good value, and the Mapper comes next.
LEMMA WritingKeeps ==
  ASSUME IInv, phase \in Execution, UNCHANGED <<service, input, maps, out, next, result>>,
         NEW v, Good(v), Writes(v), main' # <<>> => main' = Own, observed' \in {0, 1},
         observed' = 1 => main' = <<>> /\ Stage.fallback # <<>>, Ran' \/ FellBack'
  PROVE  IInv'
<1>1. data = Seeded /\ maps = SeededMaps /\ out = NoVars /\ error = {} /\ ServiceInv
      /\ (\A k \in DOMAIN Template : PathOf(k) # <<>>)
  BY DEF IInv, DataInv, Execution
<1>2. Written = {} /\ DOMAIN out = {} /\ next = 1
  BY NothingWritten
<1>3. phase' = "map" /\ error' = {} /\ data' = Over(Bind(Stage.output, v), data)
  BY <1>1 DEF Writes
<1>4. DataInv'
  <2>1. GoodVars(data')
    <3> DEFINE o == Stage.output
    <3>. HIDE DEF o
    <3>1. /\ DOMAIN Over(Bind(o, v), data) = DOMAIN data \union {o}
          /\ Over(Bind(o, v), data)[o] = v
          /\ \A m \in DOMAIN data : m # o => Over(Bind(o, v), data)[m] = data[m]
      BY DEF Over, Bind
    <3>2. \A m \in DOMAIN data : Good(data[m])
      BY DEF IInv, DataInv, GoodVars
    <3>. QED
      BY <1>3, <3>1, <3>2 DEF GoodVars, o
  <2>2. GoodVars(data)'
    BY <2>1, Fixed DEF GoodVars, Good
  <2>3. /\ (\A r \in DOMAIN maps : GoodVars(maps[r]))'
        /\ (\A n \in MapsAt : <<"seed", n>> \in DOMAIN maps)'
    BY <1>1, SeededIs, Fixed DEF GoodVars, Good, ServiceInv, IInv, DataInv
  <2>4. ServiceInv' /\ (\A k \in DOMAIN Template : PathOf(k) # <<>>)'
    BY <1>1, Fixed
  <2>. QED
    BY <1>3, <2>2, <2>3, <2>4 DEF DataInv, Phases, Before, Execution, Mapping
<1>5. MainInv'
  BY <1>3, Fixed DEF MainInv, Before, Mapping
<1>6. OutInv'
  BY <1>1, <1>2, <1>3, Fixed DEF IInv, OutInv, Written, PathOf, Good
<1>7. FaithInv'
  BY <1>1, <1>2, <1>3, Fixed DEF FaithInv, Written
<1>8. ResultInv'
  BY <1>3 DEF ResultInv
<1>. QED
  BY <1>4, <1>5, <1>6, <1>7, <1>8 DEF IInv

LEMMA ApplyKeeps == IInv /\ Apply => IInv'
<1>. SUFFICES ASSUME IInv, Apply PROVE IInv'
  OBVIOUS
<1>1. phase = "apply" /\ UNCHANGED <<service, input, maps, out, next, result>>
  BY DEF Apply
<1>2. data = Seeded /\ maps = SeededMaps /\ out = NoVars /\ error = {} /\ ServiceInv
      /\ (\A k \in DOMAIN Template : PathOf(k) # <<>>) /\ main = <<>> /\ observed = 0
  BY <1>1 DEF IInv, DataInv, MainInv, Execution, Before
<1>3. Written = {} /\ DOMAIN out = {} /\ next = 1
  BY <1>1, NothingWritten DEF Execution
<1>4. main' = Own
  BY <1>2 DEF Apply, Own
<1>5. Own = <<>> \/ \E v : Own = <<v>> /\ Good(v)
  <2>1. IsStage(Stage) /\ IsProgram(Stage.expr) /\ GoodVars(Seeded)
    BY <1>2, SeededIs DEF ServiceInv, IsStage
  <2>2. \A n \in MapsAt : GoodVars(SeededMaps[<<"seed", n>>])
    BY <1>2, SeededIs DEF ServiceInv
  <2>. QED
    BY <2>1, <2>2, EvalGood DEF Own
<1>6. CASE FallsBack(Stage, main')
  <2>1. phase' = "fallback" /\ observed' = Told' /\ UNCHANGED <<data, error>>
    BY <1>2, <1>6 DEF Apply, Told
  <2>2. DataInv'
    <3>1. ServiceInv' /\ (\A k \in DOMAIN Template : PathOf(k) # <<>>)'
      BY <1>1, <1>2, Fixed
    <3>2. data' = Seeded' /\ maps' = SeededMaps'
      BY <1>1, <1>2, <2>1, Fixed
    <3>3. /\ GoodVars(data)' /\ (\A r \in DOMAIN maps : GoodVars(maps[r]))'
          /\ (\A n \in MapsAt : <<"seed", n>> \in DOMAIN maps)'
      BY <1>1, <1>2, <2>1, SeededIs, Fixed DEF GoodVars, Good, ServiceInv, IInv, DataInv
    <3>. QED
      BY <1>1, <1>2, <1>3, <2>1, <3>1, <3>2, <3>3 DEF DataInv, Phases, Before, Execution, Mapping
  <2>3. MainInv'
    <3>1. main' = Own' /\ FallsBack(Stage, main)'
      BY <1>1, <1>4, <1>6, Fixed
    <3>2. Stage.fallback # <<>> /\ Stage' = Stage
      BY <1>1, <1>6, Fixed DEF FallsBack
    <3>. QED
      BY <1>2, <2>1, <3>1, <3>2 DEF MainInv, Before, Mapping, Told
  <2>4. OutInv'
    BY <1>1, <1>2, <1>3, <2>1, Fixed DEF IInv, OutInv, Written, PathOf, Good
  <2>5. FaithInv' /\ ResultInv'
    BY <1>1, <1>2, <2>1 DEF FaithInv, ResultInv, Mapping
  <2>. QED
    BY <2>2, <2>3, <2>4, <2>5 DEF IInv
<1>7. CASE ~FallsBack(Stage, main') /\ main' = <<>>
  <2>1. UNCHANGED <<data, main, observed>> /\ Fails({"expression"})
    BY <1>2, <1>7 DEF Apply
  <2>2. {"expression"} # {} /\ "ErrLossyResultNarrowing" \notin {"expression"} /\ "fallback" \notin {"expression"}
    OBVIOUS
  <2>. QED
    BY <1>1, <2>1, <2>2, FailingKeeps
<1>8. CASE ~FallsBack(Stage, main') /\ main' # <<>>
  <2>1. UNCHANGED observed /\ Writes(main'[1])
    BY <1>8 DEF Apply
  <2>2. PICK v : main' = <<v>> /\ Good(v)
    BY <1>4, <1>5, <1>8
  <2>3. v = main'[1]
    BY <2>2
  <2>4. Ran'
    BY <1>1, <1>2, <1>4, <1>8, <2>1, Fixed DEF Ran, Writes
  <2>5. Good(main'[1])
    BY <2>2, <2>3
  <2>. QED
    BY <1>1, <1>2, <1>4, <2>1, <2>4, <2>5, WritingKeeps DEF Execution
<1>. QED
  BY <1>6, <1>7, <1>8

LEMMA FallbackKeeps == IInv /\ Fallback => IInv'
<1>. SUFFICES ASSUME IInv, Fallback PROVE IInv'
  OBVIOUS
<1>1. phase = "fallback" /\ UNCHANGED <<service, input, maps, main, observed, out, next, result>>
  BY DEF Fallback
<1>2. /\ data = Seeded /\ maps = SeededMaps /\ ServiceInv
      /\ main = Own /\ FallsBack(Stage, main) /\ observed = Told /\ Stage.fallback # <<>>
  BY <1>1 DEF IInv, DataInv, MainInv, Execution, FallsBack
<1>3. Instead = Eval(Stage.fallback[1], FallbackEnv(data), maps, StageDefaults)
  BY <1>2 DEF Instead, FallbackEnv
<1>4. Instead = <<>> \/ \E v : Instead = <<v>> /\ Good(v)
  <2>1. IsStage(Stage) /\ IsProgram(Stage.fallback[1]) /\ GoodVars(NoVars)
    BY <1>2, NothingIsGood DEF ServiceInv, IsStage
  <2>2. \A n \in MapsAt : GoodVars(SeededMaps[<<"seed", n>>])
    BY <1>2, SeededIs DEF ServiceInv
  <2>. QED
    BY <2>1, <2>2, EvalGood DEF Instead
<1>5. CASE Instead = <<>>
  <2>1. UNCHANGED data /\ Fails(Causes)
    BY <1>3, <1>5 DEF Fallback
  <2>2. Causes # {} /\ "ErrLossyResultNarrowing" \notin Causes
    BY DEF Causes
  <2>3. "expression" \in Causes <=> main = <<>>
    BY DEF Causes
  <2>. QED
    BY <1>1, <2>1, <2>2, <2>3, FailingKeeps
<1>6. CASE Instead # <<>>
  <2>1. Writes(Instead[1])
    BY <1>3, <1>6 DEF Fallback
  <2>2. PICK v : Instead = <<v>> /\ Good(v)
    BY <1>4, <1>6
  <2>3. v = Instead[1]
    BY <2>2
  <2>4. FellBack'
    BY <1>1, <1>2, <1>6, <2>1, Fixed DEF FellBack, Writes, Told
  <2>5. Good(Instead[1])
    BY <2>2, <2>3
  <2>6. observed \in {0, 1} /\ (observed = 1 => main = <<>>)
    BY <1>2 DEF Told
  <2>. QED
    BY <1>1, <1>2, <2>1, <2>4, <2>5, <2>6, WritingKeeps DEF Execution
<1>. QED
  BY <1>5, <1>6

-----------------------------------------------------------------------------
\* The template, field by field.

\* Paths are lists of one or two names, and those of a field past the others differ.
LEMMA PathsAre ==
  ASSUME ServiceInv, NEW k \in DOMAIN Template, PathOf(k) # <<>>
  PROVE  /\ PathOf(k) \in Seq(STRING) /\ Len(PathOf(k)) \in {1, 2}
         /\ Len(PathOf(k)) = 1 => PathOf(k) = <<PathOf(k)[1]>>
         /\ Len(PathOf(k)) = 2 => PathOf(k) = <<PathOf(k)[1], PathOf(k)[2]>>
         /\ IsProgram(Template[k].expr)
<1>1. PathOf(k) \in Seq(STRING) /\ Len(PathOf(k)) <= 2 /\ IsProgram(Template[k].expr)
  BY DEF ServiceInv, IsTemplate, PathOf
<1> DEFINE p == PathOf(k)
<1>. HIDE DEF p
<1>2. p \in Seq(STRING) /\ Len(p) \in Nat /\ Len(p) <= 2 /\ p # <<>>
  BY <1>1 DEF p
<1>3. Len(p) \in {1, 2}
  <2>1. \A S, s : s \in Seq(S) /\ Len(s) = 0 => s = <<>>
    OBVIOUS
  <2>2. Len(p) # 0
    BY <1>2, <2>1
  <2> DEFINE l == Len(p)
  <2>3. l \in Nat /\ l <= 2 /\ l # 0
    BY <1>2, <2>2
  <2>. HIDE DEF l
  <2>4. l \in {1, 2}
    BY <2>3
  <2>. QED
    BY <2>4 DEF l
<1>4. (Len(p) = 1 => p = <<p[1]>>) /\ (Len(p) = 2 => p = <<p[1], p[2]>>)
  BY <1>2
<1>. QED
  BY <1>1, <1>3, <1>4 DEF p

LEMMA TemplateIs ==
  ASSUME ServiceInv
  PROVE  Len(Template) \in Nat /\ DOMAIN Template = 1 .. Len(Template)
BY DEF ServiceInv, IsTemplate

LEMMA EarlierDiffer ==
  ASSUME ServiceInv, NEW j \in DOMAIN Template, NEW k \in DOMAIN Template, j < k,
         PathOf(j) # <<>>, PathOf(k) # <<>>, PathOf(j)[1] = PathOf(k)[1]
  PROVE  /\ Len(PathOf(k)) = 2
         /\ Len(PathOf(j)) = 2 => PathOf(j)[2] # PathOf(k)[2]
<1>1. PathOf(j) # PathOf(k)
  BY TemplateIs DEF ServiceInv, IsTemplate, PathOf
<1>2. ~(Len(PathOf(k)) = 1 /\ Len(PathOf(j)) = 2)
  <2>1. \A a, b \in DOMAIN Template :
          Len(PathOf(a)) = 1 /\ Len(PathOf(b)) = 2 /\ PathOf(a)[1] = PathOf(b)[1] => a < b
    BY DEF ServiceInv, IsTemplate, PathOf
  <2>2. j \in Int /\ k \in Int
    BY TemplateIs
  <2>3. ~(k < j)
    BY <2>2
  <2>. QED
    BY <2>1, <2>3
<1>3. /\ Len(PathOf(j)) \in {1, 2} /\ Len(PathOf(k)) \in {1, 2}
      /\ Len(PathOf(j)) = 1 => PathOf(j) = <<PathOf(j)[1]>>
      /\ Len(PathOf(k)) = 1 => PathOf(k) = <<PathOf(k)[1]>>
      /\ Len(PathOf(j)) = 2 => PathOf(j) = <<PathOf(j)[1], PathOf(j)[2]>>
      /\ Len(PathOf(k)) = 2 => PathOf(k) = <<PathOf(k)[1], PathOf(k)[2]>>
  BY PathsAre
<1> DEFINE p == PathOf(j)
           q == PathOf(k)
<1>. HIDE DEF p, q
<1>4. p # q /\ p[1] = q[1] /\ ~(Len(q) = 1 /\ Len(p) = 2) /\ Len(p) \in {1, 2} /\ Len(q) \in {1, 2}
  BY <1>1, <1>2, <1>3 DEF p, q
<1>5. /\ Len(p) = 1 => p = <<p[1]>>
      /\ Len(q) = 1 => q = <<q[1]>>
      /\ Len(p) = 2 => p = <<p[1], p[2]>>
      /\ Len(q) = 2 => q = <<q[1], q[2]>>
  BY <1>3 DEF p, q
<1>6. Len(q) = 2 /\ (Len(p) = 2 => p[2] # q[2])
  BY <1>4, <1>5
<1>. QED
  BY <1>6 DEF p, q

\* What setNested does at p, in out and in the map it finds or makes there.
Target(p) == out'[p[1]][2]

Sets(p, w) ==
  /\ DOMAIN out' = DOMAIN out \union {p[1]}
  /\ \A y \in DOMAIN out : y # p[1] => out'[y] = out[y]
  /\ Len(p) = 1 => out'[p[1]] = w /\ maps' = maps
  /\ Len(p) = 2 =>
       /\ out'[p[1]] = IF p[1] \in DOMAIN out THEN out[p[1]] ELSE <<"map", Made(p)>>
       /\ out'[p[1]][1] = "map"
       /\ DOMAIN maps' = DOMAIN maps \union {Target(p)}
       /\ \A s \in DOMAIN maps : s # Target(p) => maps'[s] = maps[s]
       /\ p[2] \in DOMAIN maps'[Target(p)] /\ maps'[Target(p)][p[2]] = w
       /\ \A q \in DOMAIN maps'[Target(p)] : q # p[2] =>
            p[1] \in DOMAIN out /\ q \in DOMAIN maps[Target(p)] /\ maps'[Target(p)][q] = maps[Target(p)][q]
       /\ p[1] \in DOMAIN out => DOMAIN maps[Target(p)] \subseteq DOMAIN maps'[Target(p)]

LEMMA SetNestedIs ==
  ASSUME IInv, NEW p, Len(p) \in {1, 2}, NEW w, ~Blocked(p), SetNested(p, w)
  PROVE  Sets(p, w)
<1> DEFINE x == p[1]
<1>1. \A y \in DOMAIN out : out[y][1] = "map" => out[y][2] \in DOMAIN maps
  BY DEF IInv, OutInv
<1>2. CASE Len(p) = 1
  <2>1. out' = Over(Bind(x, w), out) /\ maps' = maps
    BY <1>2 DEF SetNested
  <2>. HIDE DEF x
  <2>2. /\ DOMAIN Over(Bind(x, w), out) = DOMAIN out \union {x}
        /\ Over(Bind(x, w), out)[x] = w
        /\ \A y \in DOMAIN out : y # x => Over(Bind(x, w), out)[y] = out[y]
    BY DEF Over, Bind
  <2>. QED
    BY <1>2, <2>1, <2>2 DEF x, Sets
<1>3. CASE Len(p) = 2 /\ x \in DOMAIN out
  <2> DEFINE r == out[x][2]
             key == p[2]
             m == maps[r]
  <2>1. out[x][1] = "map" /\ r \in DOMAIN maps
    BY <1>1, <1>3 DEF Blocked
  <2>2. out' = out /\ maps' = [maps EXCEPT ![r] = Over(Bind(key, w), m)]
    BY <1>3, <2>1 DEF SetNested
  <2>3. Target(p) = r
    BY <2>2 DEF Target
  <2>. HIDE DEF key, m
  <2>4. /\ DOMAIN Over(Bind(key, w), m) = DOMAIN m \union {key}
        /\ Over(Bind(key, w), m)[key] = w
        /\ \A q \in DOMAIN m : q # key => Over(Bind(key, w), m)[q] = m[q]
    BY DEF Over, Bind
  <2>. HIDE DEF r
  <2>5. /\ DOMAIN maps' = DOMAIN maps /\ maps'[r] = Over(Bind(key, w), m)
        /\ \A s \in DOMAIN maps : s # r => maps'[s] = maps[s]
    BY <2>1, <2>2
  <2>6. Len(p) # 1 /\ Len(p) = 2 /\ p[1] \in DOMAIN out /\ out'[p[1]] = out[p[1]] /\ out'[p[1]][1] = "map"
    BY <1>3, <2>1, <2>2
  <2>7. DOMAIN out' = DOMAIN out \union {p[1]} /\ \A y \in DOMAIN out : out'[y] = out[y]
    BY <2>2, <2>6
  <2>8. p[2] \in DOMAIN maps'[r] /\ maps'[r][p[2]] = w
    BY <2>4, <2>5 DEF key
  <2>9. \A q \in DOMAIN maps'[r] : q # p[2] => q \in DOMAIN maps[r] /\ maps'[r][q] = maps[r][q]
    BY <2>4, <2>5 DEF key, m
  <2>10. DOMAIN maps[r] \subseteq DOMAIN maps'[r]
    BY <2>4, <2>5 DEF key, m
  <2>11. DOMAIN maps' = DOMAIN maps \union {r}
    BY <2>1, <2>5
  <2>. QED
    BY <2>3, <2>5, <2>6, <2>7, <2>8, <2>9, <2>10, <2>11 DEF Sets
<1>4. CASE Len(p) = 2 /\ x \notin DOMAIN out
  <2> DEFINE r == Made(p)
             key == p[2]
             m == Bind(key, w)
             o == <<"map", r>>
  <2>1. out' = Over(Bind(x, o), out) /\ maps' = Over(Bind(r, m), maps)
    BY <1>4 DEF SetNested
  <2>. HIDE DEF x, key, m
  <2>2. o[1] = "map" /\ o[2] = r
    OBVIOUS
  <2>. HIDE DEF o, r
  <2>3. /\ DOMAIN Over(Bind(x, o), out) = DOMAIN out \union {x}
        /\ Over(Bind(x, o), out)[x] = o
        /\ \A y \in DOMAIN out : y # x => Over(Bind(x, o), out)[y] = out[y]
    BY DEF Over, Bind
  <2>4. /\ DOMAIN Over(Bind(r, m), maps) = DOMAIN maps \union {r}
        /\ Over(Bind(r, m), maps)[r] = m
        /\ \A s \in DOMAIN maps : s # r => Over(Bind(r, m), maps)[s] = maps[s]
    BY DEF Over, Bind
  <2>5. DOMAIN m = {key} /\ m[key] = w
    BY DEF Bind, m
  <2>6. Target(p) = r
    BY <2>1, <2>2, <2>3 DEF Target, x
  <2>7. Len(p) # 1 /\ Len(p) = 2 /\ p[1] \notin DOMAIN out /\ out'[p[1]] = <<"map", Made(p)>>
    BY <1>4, <2>1, <2>3 DEF x, o, r
  <2>8. out'[p[1]][1] = "map" /\ DOMAIN out' = DOMAIN out \union {p[1]}
        /\ \A y \in DOMAIN out : y # p[1] => out'[y] = out[y]
    BY <2>1, <2>2, <2>3 DEF x
  <2>9. /\ DOMAIN maps' = DOMAIN maps \union {r} /\ \A s \in DOMAIN maps : s # r => maps'[s] = maps[s]
        /\ p[2] \in DOMAIN maps'[r] /\ maps'[r][p[2]] = w
        /\ \A q \in DOMAIN maps'[r] : q = p[2]
    BY <2>1, <2>4, <2>5 DEF key
  <2>. QED
    BY <2>6, <2>7, <2>8, <2>9 DEF Sets
<1>. QED
  BY <1>2, <1>3, <1>4

LEMMA NextField ==
  ASSUME IInv, phase = "map", next <= Len(Template)
  PROVE  /\ next \in DOMAIN Template /\ next \in Nat /\ PathOf(next) # <<>>
         /\ Written \subseteq DOMAIN Template /\ \A k \in Written : k \in Nat /\ k < next
         /\ \A k \in DOMAIN Template : PathOf(k) # <<>>
         /\ ServiceInv /\ error = {}
         /\ next' = next + 1 => Written' = Written \union {next}
<1>1. /\ ServiceInv /\ error = {} /\ next \in 1 .. Len(Template) + 1
      /\ \A k \in DOMAIN Template : PathOf(k) # <<>>
  BY DEF IInv, DataInv, OutInv
<1>2. Len(Template) \in Nat /\ DOMAIN Template = 1 .. Len(Template)
  BY <1>1, TemplateIs
<1>3. next \in DOMAIN Template /\ next \in Nat
  BY <1>1, <1>2
<1>. HIDE DEF Template
<1>4. /\ Written \subseteq DOMAIN Template /\ \A k \in Written : k \in Nat /\ k < next
      /\ next' = next + 1 => Written' = Written \union {next}
  BY <1>2, <1>3 DEF Written
<1>. QED
  BY <1>1, <1>3, <1>4

\* The maps are the input's, and those out is made of.
LEMMA MapFieldEval ==
  ASSUME IInv, phase = "map", next <= Len(Template)
  PROVE  LET v == Eval(Template[next].expr, data, maps, Defaults(NoVars, NoVars, NoVars))
         IN  v = <<>> \/ \E w : v = <<w>> /\ Good(w)
<1>1. IsStage(Stage) /\ IsProgram(Template[next].expr) /\ GoodVars(data)
  BY NextField, PathsAre DEF IInv, DataInv, ServiceInv
<1>2. \A n \in MapsAt : GoodVars(maps[<<"seed", n>>])
  BY DEF IInv, DataInv, Mapping
<1>. QED
  BY <1>1, <1>2, EvalGood

LEMMA FieldKeepsData ==
  ASSUME IInv, phase = "map", next <= Len(Template), UNCHANGED <<service, input, data, main, observed, result, phase, error>>,
         NEW w, Good(w), ~Blocked(PathOf(next)), SetNested(PathOf(next), w), next' = next + 1
  PROVE  DataInv'
<1> DEFINE p == PathOf(next)
<1>1. Len(p) \in {1, 2} /\ ~Blocked(p) /\ SetNested(p, w)
  BY NextField, PathsAre
<1>. HIDE DEF p
<1>s. Sets(p, w)
  BY <1>1, SetNestedIs
<1>2. /\ Len(p) = 1 => maps' = maps
      /\ Len(p) = 2 =>
           /\ DOMAIN maps' = DOMAIN maps \union {Target(p)}
           /\ \A s \in DOMAIN maps : s # Target(p) => maps'[s] = maps[s]
           /\ maps'[Target(p)][p[2]] = w
           /\ \A q \in DOMAIN maps'[Target(p)] : q # p[2] =>
                p[1] \in DOMAIN out /\ q \in DOMAIN maps[Target(p)] /\ maps'[Target(p)][q] = maps[Target(p)][q]
           /\ p[1] \in DOMAIN out => out'[p[1]] = out[p[1]] /\ out'[p[1]][1] = "map"
  BY <1>s DEF Sets
<1>3. /\ \A r \in DOMAIN maps : GoodVars(maps[r])
      /\ \A x \in DOMAIN out : out[x][1] = "map" => out[x][2] \in DOMAIN maps
  BY DEF IInv, DataInv, OutInv
<1>4. \A r \in DOMAIN maps' : GoodVars(maps'[r])
  <2>1. CASE Len(p) = 1
    BY <1>2, <1>3, <2>1
  <2>2. CASE Len(p) = 2
    <3>1. ASSUME NEW q \in DOMAIN maps'[Target(p)] PROVE Good(maps'[Target(p)][q])
      <4>1. CASE q = p[2]
        BY <1>2, <2>2, <4>1
      <4>2. CASE q # p[2]
        <5>1. p[1] \in DOMAIN out /\ Target(p) = out[p[1]][2] /\ Target(p) \in DOMAIN maps
          BY <1>2, <1>3, <2>2, <4>2 DEF Target
        <5>. QED
          BY <1>2, <1>3, <2>2, <4>2, <5>1 DEF GoodVars
      <4>. QED
        BY <4>1, <4>2
    <3>2. GoodVars(maps'[Target(p)])
      BY <3>1 DEF GoodVars
    <3>. QED
      BY <1>2, <1>3, <2>2, <3>2
  <2>. QED
    BY <1>1, <2>1, <2>2
<1>5. \A n \in MapsAt : <<"seed", n>> \in DOMAIN maps'
  <2>1. \A n \in MapsAt : <<"seed", n>> \in DOMAIN maps
    BY DEF IInv, DataInv, Mapping
  <2>. QED
    BY <1>1, <1>2, <2>1
<1>6. (\A r \in DOMAIN maps : GoodVars(maps[r]))' /\ (\A n \in MapsAt : <<"seed", n>> \in DOMAIN maps)'
  BY <1>4, <1>5, Fixed DEF GoodVars, Good
<1>7. ServiceInv' /\ GoodVars(data)' /\ (\A k \in DOMAIN Template : PathOf(k) # <<>>)'
  BY Fixed, NextField DEF GoodVars, Good, IInv, DataInv
<1>. QED
  BY <1>6, <1>7, NextField DEF DataInv, Phases, Before, Execution, Mapping

LEMMA FieldKeepsOut ==
  ASSUME IInv, phase = "map", next <= Len(Template), UNCHANGED <<service, input, data, main, observed, result, phase, error>>,
         NEW w, Good(w), ~Blocked(PathOf(next)), SetNested(PathOf(next), w), next' = next + 1,
         w[1] = "map" => w[2] \in DOMAIN maps
  PROVE  OutInv'
<1> DEFINE p == PathOf(next)
           x == p[1]
<1>1. Len(p) \in {1, 2} /\ ~Blocked(p) /\ SetNested(p, w)
  BY NextField, PathsAre
<1>. HIDE DEF p
<1>s. Sets(p, w)
  BY <1>1, SetNestedIs
<1>2. /\ DOMAIN out' = DOMAIN out \union {x}
      /\ \A y \in DOMAIN out : y # x => out'[y] = out[y]
      /\ Len(p) = 1 => out'[x] = w /\ maps' = maps
      /\ Len(p) = 2 =>
           /\ out'[x] = IF x \in DOMAIN out THEN out[x] ELSE <<"map", Made(p)>>
           /\ out'[x][1] = "map"
           /\ DOMAIN maps' = DOMAIN maps \union {Target(p)}
           /\ \A s \in DOMAIN maps : s # Target(p) => maps'[s] = maps[s]
           /\ p[2] \in DOMAIN maps'[Target(p)]
           /\ x \in DOMAIN out => DOMAIN maps[Target(p)] \subseteq DOMAIN maps'[Target(p)]
  BY <1>s DEF Sets, x
<1>3. /\ \A y \in DOMAIN out : Good(out[y]) \/ out[y] = <<"map", <<"out", y>>>>
      /\ \A y \in DOMAIN out : out[y][1] = "map" => out[y][2] \in DOMAIN maps
      /\ \A k \in Written : PathOf(k)[1] \in DOMAIN out
      /\ \A k \in Written : Len(PathOf(k)) = 2 =>
           out[PathOf(k)[1]][1] = "map" /\ PathOf(k)[2] \in DOMAIN maps[out[PathOf(k)[1]][2]]
  BY DEF IInv, OutInv
<1>4. /\ next \in DOMAIN Template /\ next \in Nat
      /\ Written \subseteq DOMAIN Template /\ \A k \in Written : k \in Nat /\ k < next
      /\ \A k \in DOMAIN Template : PathOf(k) # <<>>
      /\ ServiceInv /\ error = {} /\ Written' = Written \union {next}
  BY NextField
<1>5. Made(p) = <<"out", x>> /\ Target(p) = out'[x][2]
  BY DEF Made, Target
<1>6. Template' = Template /\ (\A k : PathOf(k)' = PathOf(k)) /\ \A v : Good(v)' = Good(v)
  BY Fixed
<1>. HIDE DEF p, x
<1>7. ASSUME NEW y \in DOMAIN out' PROVE Good(out'[y]) \/ out'[y] = <<"map", <<"out", y>>>>
  <2>1. CASE y # x
    BY <1>2, <1>3, <2>1
  <2>2. CASE y = x
    BY <1>1, <1>2, <1>3, <1>5, <2>2
  <2>. QED
    BY <2>1, <2>2
<1>8. ASSUME NEW y \in DOMAIN out', out'[y][1] = "map" PROVE out'[y][2] \in DOMAIN maps'
  <2>1. CASE y # x
    BY <1>1, <1>2, <1>3, <1>8, <2>1
  <2>2. CASE y = x
    BY <1>1, <1>2, <1>5, <1>8, <2>2
  <2>. QED
    BY <2>1, <2>2
<1>9. ASSUME NEW k \in Written' PROVE PathOf(k)[1] \in DOMAIN out' /\ PathOf(k) # <<>>
  BY <1>2, <1>3, <1>4 DEF p, x
<1>10. ASSUME NEW k \in Written', Len(PathOf(k)) = 2
       PROVE  out'[PathOf(k)[1]][1] = "map" /\ PathOf(k)[2] \in DOMAIN maps'[out'[PathOf(k)[1]][2]]
  <2>1. CASE k = next
    BY <1>2, <1>5, <1>10, <2>1 DEF p, x
  <2>2. CASE k \in Written
    <3> DEFINE y == PathOf(k)[1]
               q == PathOf(k)[2]
    <3>1. y \in DOMAIN out /\ out[y][1] = "map" /\ q \in DOMAIN maps[out[y][2]] /\ out[y][2] \in DOMAIN maps
      BY <1>3, <1>10, <2>2
    <3>2. y = x => Len(p) = 2
      BY <1>4, <2>2, EarlierDiffer DEF p, x
    <3>3. \A n : <<"seed", n>> # <<"out", x>>
      OBVIOUS
    <3>4. y # x => <<"out", y>> # <<"out", x>>
      OBVIOUS
    <3>5. \E n : out[y] = <<"map", <<"seed", n>>>> \/ out[y] = <<"map", <<"out", y>>>>
      BY <1>3, <3>1 DEF Good
    <3>6. y # x /\ x \notin DOMAIN out /\ Len(p) = 2 => out[y][2] # Target(p)
      <4>. SUFFICES ASSUME y # x, x \notin DOMAIN out, Len(p) = 2 PROVE out[y][2] # Target(p)
        OBVIOUS
      <4>1. Target(p) = <<"out", x>>
        BY <1>2, <1>5
      <4>2. PICK n : out[y] = <<"map", <<"seed", n>>>> \/ out[y] = <<"map", <<"out", y>>>>
        BY <3>5
      <4>3. out[y][2] = <<"seed", n>> \/ out[y][2] = <<"out", y>>
        BY <4>2
      <4>. QED
        BY <3>3, <3>4, <4>1, <4>3
    <3>. HIDE DEF y, q
    <3>7. out'[y] = out[y]
      BY <1>2, <3>1, <3>2
    <3>8. q \in DOMAIN maps'[out[y][2]]
      <4>1. CASE Len(p) = 1
        BY <1>2, <3>1, <4>1
      <4>2. CASE Len(p) = 2 /\ out[y][2] # Target(p)
        BY <1>2, <3>1, <4>2
      <4>3. CASE Len(p) = 2 /\ out[y][2] = Target(p)
        <5>1. x \in DOMAIN out
          BY <3>1, <3>6, <4>3
        <5>. QED
          BY <1>2, <3>1, <4>3, <5>1
      <4>. QED
        BY <1>1, <4>1, <4>2, <4>3
    <3>. QED
      BY <3>1, <3>7, <3>8 DEF y, q
  <2>. QED
    BY <1>4, <2>1, <2>2
<1>11. (next \in 1 .. Len(Template) + 1)'
  <2>1. next \in 1 .. Len(Template)
    BY <1>4, TemplateIs
  <2>2. Len(Template) \in Nat
    BY <1>4, TemplateIs
  <2>. QED
    BY <1>4, <1>6, <2>1, <2>2
<1>. QED
  BY <1>4, <1>6, <1>7, <1>8, <1>9, <1>10, <1>11 DEF OutInv

LEMMA FieldKeepsFaith ==
  ASSUME IInv, phase = "map", next <= Len(Template), UNCHANGED <<service, input, data, main, observed, result, phase, error>>,
         NEW w, Good(w), ~Blocked(PathOf(next)), SetNested(PathOf(next), w), next' = next + 1,
         Eval(Template[next].expr, data, maps, Defaults(NoVars, NoVars, NoVars)) = <<w>>
  PROVE  FaithInv'
<1> DEFINE p == PathOf(next)
           x == p[1]
<1>1. Template' = Template /\ SeededMaps' = SeededMaps /\ (\A k : PathOf(k)' = PathOf(k))
  BY Fixed
<1>2. (\A k : Evaluated(k)' = Evaluated(k)) /\ Aliased' = Aliased
  <2>1. \A k : Evaluated(k)' = Evaluated(k)
    BY <1>1 DEF Evaluated
  <2>. QED
    BY <1>1, <2>1 DEF Aliased, Prefixed
<1>. SUFFICES ASSUME ~Aliased
              PROVE  /\ \A r \in DOMAIN SeededMaps : maps'[r] = SeededMaps[r]
                     /\ \A y \in DOMAIN out' : (\E k \in Written' : PathOf(k) = <<y>>) \/ out'[y] = <<"map", <<"out", y>>>>
                     /\ \A k \in Written' : <<OutAt(PathOf(k))'>> = Evaluated(k)
  BY <1>1, <1>2 DEF FaithInv
<1>3. Len(p) \in {1, 2} /\ ~Blocked(p) /\ SetNested(p, w) /\ (Len(p) = 1 => p = <<p[1]>>)
  BY NextField, PathsAre
<1>4. /\ \A r \in DOMAIN SeededMaps : maps[r] = SeededMaps[r]
      /\ \A y \in DOMAIN out : (\E k \in Written : PathOf(k) = <<y>>) \/ out[y] = <<"map", <<"out", y>>>>
      /\ \A k \in Written : <<OutAt(PathOf(k))>> = Evaluated(k)
  BY DEF IInv, FaithInv, Mapping
<1>5. /\ \A y \in DOMAIN out : Good(out[y]) \/ out[y] = <<"map", <<"out", y>>>>
      /\ \A y \in DOMAIN out : out[y][1] = "map" => out[y][2] \in DOMAIN maps
      /\ \A k \in Written : PathOf(k)[1] \in DOMAIN out
      /\ \A k \in Written : Len(PathOf(k)) = 2 =>
           out[PathOf(k)[1]][1] = "map" /\ PathOf(k)[2] \in DOMAIN maps[out[PathOf(k)[1]][2]]
      /\ \A r \in DOMAIN SeededMaps : r \in DOMAIN maps
      /\ GoodVars(data)
  BY DEF IInv, OutInv, DataInv, Mapping, SeededMaps
<1>6. /\ next \in DOMAIN Template /\ next \in Nat
      /\ Written \subseteq DOMAIN Template /\ \A k \in Written : k \in Nat /\ k < next
      /\ \A k \in DOMAIN Template : PathOf(k) # <<>>
      /\ ServiceInv /\ Written' = Written \union {next}
  BY NextField
<1>7. Evaluated(next) = <<w>>
  <2>1. \A n \in MapsAt : maps[<<"seed", n>>] = SeededMaps[<<"seed", n>>]
    BY <1>4, <1>6, SeededIs DEF ServiceInv
  <2>2. IsProgram(Template[next].expr) /\ IsStage(Stage)
    BY <1>6, PathsAre DEF ServiceInv
  <2> DEFINE d == Defaults(NoVars, NoVars, NoVars)
  <2>3. PlainVars(d.locals) /\ PlainVars(d.globals)
    BY <2>2, DefaultsArePlain
  <2>. HIDE DEF d
  <2>4. Eval(Template[next].expr, data, maps, d) = Eval(Template[next].expr, data, SeededMaps, d)
    BY <1>5, <2>1, <2>2, <2>3, EvalSees
  <2>. QED
    BY <2>4 DEF Evaluated, d
\* A map that a longer path goes into was made for it.
<1>8. Len(p) = 2 /\ x \in DOMAIN out => out[x] = <<"map", <<"out", x>>>>
  <2>. SUFFICES ASSUME Len(p) = 2, x \in DOMAIN out, NEW k \in Written, PathOf(k) = <<x>>
                PROVE  FALSE
    BY <1>4
  <2>1. Len(PathOf(k)) = 1 /\ PathOf(k)[1] = x
    OBVIOUS
  <2>2. Evaluated(k) = <<out[x]>> /\ out[x][1] = "map"
    BY <1>3, <1>4, <2>1 DEF OutAt, Blocked
  <2>3. Prefixed
    BY <1>6, <2>1 DEF Prefixed, PathOf
  <2>4. Evaluated(k) # <<>> /\ Evaluated(k)[1][1] = "map"
    BY <2>2
  <2>. QED
    BY <1>6, <2>1, <2>3, <2>4 DEF Aliased, PathOf
<1>. HIDE DEF p
<1>9. Sets(p, w)
  BY <1>3, SetNestedIs
<1>10. /\ DOMAIN out' = DOMAIN out \union {x}
       /\ \A y \in DOMAIN out : y # x => out'[y] = out[y]
       /\ Len(p) = 1 => out'[x] = w /\ maps' = maps
       /\ Len(p) = 2 =>
            /\ out'[x] = IF x \in DOMAIN out THEN out[x] ELSE <<"map", Made(p)>>
            /\ \A s \in DOMAIN maps : s # Target(p) => maps'[s] = maps[s]
            /\ p[2] \in DOMAIN maps'[Target(p)] /\ maps'[Target(p)][p[2]] = w
            /\ \A q \in DOMAIN maps'[Target(p)] : q # p[2] =>
                 x \in DOMAIN out /\ q \in DOMAIN maps[Target(p)] /\ maps'[Target(p)][q] = maps[Target(p)][q]
            /\ x \in DOMAIN out => DOMAIN maps[Target(p)] \subseteq DOMAIN maps'[Target(p)]
  BY <1>9 DEF Sets
<1>11. Made(p) = <<"out", x>> /\ Target(p) = out'[x][2]
  BY DEF Made, Target
<1>. HIDE DEF x
<1>12. Len(p) = 2 => out'[x] = <<"map", <<"out", x>>>> /\ Target(p) = <<"out", x>>
  BY <1>8, <1>10, <1>11
<1>13. ASSUME NEW r \in DOMAIN SeededMaps PROVE maps'[r] = SeededMaps[r]
  <2>1. r # <<"out", x>>
    BY DEF SeededMaps
  <2>2. r \in DOMAIN maps /\ maps[r] = SeededMaps[r]
    BY <1>4, <1>5
  <2>. QED
    BY <1>3, <1>10, <1>12, <2>1, <2>2
<1>14. ASSUME NEW y \in DOMAIN out'
       PROVE  (\E k \in Written' : PathOf(k) = <<y>>) \/ out'[y] = <<"map", <<"out", y>>>>
  <2>1. CASE y # x
    BY <1>4, <1>6, <1>10, <2>1
  <2>2. CASE y = x /\ Len(p) = 1
    <3>1. PathOf(next) = <<y>>
      BY <1>3, <2>2 DEF p, x
    <3>. QED
      BY <1>6, <3>1
  <2>3. CASE y = x /\ Len(p) = 2
    BY <1>12, <2>3
  <2>. QED
    BY <1>3, <2>1, <2>2, <2>3
<1>15. ASSUME NEW k \in Written' PROVE <<OutAt(PathOf(k))'>> = Evaluated(k)
  <2>0. OutAt(PathOf(k))' = IF Len(PathOf(k)) = 1 THEN out'[PathOf(k)[1]]
                            ELSE maps'[out'[PathOf(k)[1]][2]][PathOf(k)[2]]
    BY <1>1 DEF OutAt
  <2>1. CASE k = next
    <3>1. OutAt(PathOf(k))' = w
      BY <1>3, <1>10, <1>11, <2>0, <2>1 DEF p, x
    <3>. QED
      BY <1>7, <2>1, <3>1
  <2>2. CASE k \in Written
    <3> DEFINE y == PathOf(k)[1]
               q == PathOf(k)[2]
    <3>1. y \in DOMAIN out /\ Len(PathOf(k)) \in {1, 2}
      BY <1>5, <1>6, <2>2, PathsAre
    <3>2. y = x => Len(p) = 2 /\ (Len(PathOf(k)) = 2 => q # p[2])
      BY <1>6, <2>2, EarlierDiffer DEF p, x
    <3>3. out'[y] = out[y]
      <4>1. CASE y # x
        BY <1>10, <3>1, <4>1
      <4>2. CASE y = x
        BY <1>10, <3>1, <3>2, <4>2
      <4>. QED
        BY <4>1, <4>2
    <3>4. Len(PathOf(k)) = 2 => maps'[out[y][2]][q] = maps[out[y][2]][q]
      <4>. SUFFICES ASSUME Len(PathOf(k)) = 2 PROVE maps'[out[y][2]][q] = maps[out[y][2]][q]
        OBVIOUS
      <4>1. out[y][1] = "map" /\ q \in DOMAIN maps[out[y][2]] /\ out[y][2] \in DOMAIN maps
        BY <1>5, <2>2
      <4>2. CASE Len(p) = 1
        BY <1>10, <4>2
      <4>3. CASE Len(p) = 2 /\ y # x
        <5>1. \E n : out[y] = <<"map", <<"seed", n>>>> \/ out[y] = <<"map", <<"out", y>>>>
          BY <1>5, <3>1, <4>1 DEF Good
        <5>. HIDE DEF y
        <5>2. PICK n : out[y] = <<"map", <<"seed", n>>>> \/ out[y] = <<"map", <<"out", y>>>>
          BY <5>1
        <5>3. out[y][2] = <<"seed", n>> \/ out[y][2] = <<"out", y>>
          BY <5>2
        <5>4. <<"seed", n>> # <<"out", x>> /\ <<"out", y>> # <<"out", x>>
          BY <4>3
        <5>. QED
          BY <1>10, <1>12, <4>1, <4>3, <5>3, <5>4
      <4>4. CASE Len(p) = 2 /\ y = x
        <5>1. x \in DOMAIN out /\ out[x][2] = Target(p) /\ q # p[2]
          BY <1>10, <1>11, <3>1, <3>2, <4>4
        <5>. HIDE DEF y, q
        <5>2. q \in DOMAIN maps'[Target(p)]
          BY <1>10, <4>1, <4>4, <5>1
        <5>. QED
          BY <1>10, <4>4, <5>1, <5>2
      <4>. QED
        BY <1>3, <4>2, <4>3, <4>4
    <3>5. OutAt(PathOf(k))' = OutAt(PathOf(k))
      <4>1. OutAt(PathOf(k)) = IF Len(PathOf(k)) = 1 THEN out[y] ELSE maps[out[y][2]][q]
        BY DEF OutAt
      <4>. QED
        BY <2>0, <3>1, <3>3, <3>4, <4>1
    <3>. QED
      BY <1>4, <2>2, <3>5
  <2>. QED
    BY <1>6, <2>1, <2>2
<1>. QED
  BY <1>13, <1>14, <1>15

LEMMA MapFieldKeeps == IInv /\ MapField => IInv'
<1>. SUFFICES ASSUME IInv, MapField PROVE IInv'
  OBVIOUS
<1>1. phase = "map" /\ UNCHANGED <<service, input, data, main, observed, result>>
  BY DEF MapField
<1>2. ServiceInv /\ error = {} /\ next \in 1 .. Len(Template) + 1 /\ Len(Template) \in Nat
  BY <1>1, TemplateIs DEF IInv, DataInv, OutInv
<1>3. CASE next > Len(Template)
  <2>1. phase' = "decode" /\ UNCHANGED <<maps, out, next, error>>
    BY <1>3 DEF MapField
  <2>2. next = Len(Template) + 1
    BY <1>2, <1>3
  <2>3. DataInv'
    <3>1. /\ ServiceInv' /\ GoodVars(data)' /\ (\A r \in DOMAIN maps : GoodVars(maps[r]))'
          /\ (\A n \in MapsAt : <<"seed", n>> \in DOMAIN maps)'
          /\ (\A k \in DOMAIN Template : PathOf(k) # <<>>)'
      BY <1>1, <2>1, Fixed DEF IInv, DataInv, GoodVars, Good, Mapping
    <3>. QED
      BY <1>2, <2>1, <3>1 DEF DataInv, Phases, Before, Execution, Mapping
  <2>4. MainInv'
    BY <1>1, <2>1, Fixed DEF IInv, MainInv, Before, Mapping, Skipped, Ran, FellBack, Told
  <2>5. OutInv'
    BY <1>1, <2>1, <2>2, Fixed DEF IInv, OutInv, Written, PathOf, Good
  <2>6. FaithInv'
    <3>1. Template' = Template /\ SeededMaps' = SeededMaps /\ (\A k : PathOf(k)' = PathOf(k))
      BY <1>1, Fixed
    <3>2. (\A k : Evaluated(k)' = Evaluated(k)) /\ \A k : OutAt(PathOf(k))' = OutAt(PathOf(k))
      BY <1>1, <2>1, <3>1 DEF Evaluated, OutAt
    <3>3. Aliased' = Aliased /\ Written' = Written
      BY <2>1, <3>1, <3>2 DEF Aliased, Prefixed, Written
    <3>. QED
      BY <1>1, <2>1, <3>1, <3>2, <3>3 DEF IInv, FaithInv, Mapping
  <2>7. ResultInv'
    BY <1>2, <2>1 DEF ResultInv
  <2>. QED
    BY <2>3, <2>4, <2>5, <2>6, <2>7 DEF IInv
<1>4. CASE ~(next > Len(Template))
  <2> DEFINE v == Eval(Template[next].expr, data, maps, Defaults(NoVars, NoVars, NoVars))
  <2>1. next <= Len(Template)
    BY <1>2, <1>4
  <2>2. v = <<>> \/ \E w : v = <<w>> /\ Good(w)
    BY <1>1, <2>1, MapFieldEval
  <2>3. CASE v = <<>> \/ Blocked(PathOf(next))
    <3>1. Fails({"mapping"}) /\ UNCHANGED <<maps, out, next>>
      BY <1>4, <2>3 DEF MapField, PathOf
    <3>2. {"mapping"} # {} /\ "ErrLossyResultNarrowing" \notin {"mapping"} /\ "fallback" \notin {"mapping"}
      OBVIOUS
    <3>. QED
      BY <1>1, <3>1, <3>2, FailingKeeps
  <2>4. CASE v # <<>> /\ ~Blocked(PathOf(next))
    <3>1. SetNested(PathOf(next), v[1]) /\ next' = next + 1 /\ UNCHANGED <<phase, error>>
      BY <1>4, <2>4 DEF MapField, PathOf
    <3>2. PICK w : v = <<w>> /\ Good(w)
      BY <2>2, <2>4
    <3>3. SetNested(PathOf(next), w) /\ Eval(Template[next].expr, data, maps, Defaults(NoVars, NoVars, NoVars)) = <<w>>
      <4>1. v[1] = w
        BY <3>2
      <4>. QED
        BY <3>1, <3>2, <4>1
    <3>. HIDE DEF v
    <3>4. w[1] = "map" => w[2] \in DOMAIN maps
      <4>. SUFFICES ASSUME w[1] = "map" PROVE w[2] \in DOMAIN maps
        OBVIOUS
      <4>1. PICK n \in MapsAt : w = <<"map", <<"seed", n>>>>
        BY <3>2 DEF Good
      <4>2. <<"seed", n>> \in DOMAIN maps
        BY <1>1 DEF IInv, DataInv, Mapping
      <4>. QED
        BY <4>1, <4>2
    <3>5. DataInv'
      BY <1>1, <2>1, <2>4, <3>1, <3>2, <3>3, FieldKeepsData
    <3>6. OutInv'
      BY <1>1, <2>1, <2>4, <3>1, <3>2, <3>3, <3>4, FieldKeepsOut
    <3>7. FaithInv'
      BY <1>1, <2>1, <2>4, <3>1, <3>2, <3>3, FieldKeepsFaith
    <3>8. MainInv'
      BY <1>1, <3>1, Fixed DEF IInv, MainInv, Before, Mapping, Skipped, Ran, FellBack, Told
    <3>9. ResultInv'
      BY <1>1, <1>2, <3>1 DEF ResultInv
    <3>. QED
      BY <3>5, <3>6, <3>7, <3>8, <3>9 DEF IInv
  <2>. QED
    BY <2>3, <2>4
<1>. QED
  BY <1>3, <1>4

-----------------------------------------------------------------------------
\* The decoding.

LEMMA DecodeKeeps == IInv /\ Decode => IInv'
<1>. SUFFICES ASSUME IInv, Decode PROVE IInv'
  OBVIOUS
<1>1. phase = "decode" /\ UNCHANGED <<service, input, data, maps, main, observed, out, next>>
  BY DEF Decode
<1>2. /\ ServiceInv /\ error = {} /\ next = Len(Template) + 1
      /\ \A k \in DOMAIN Template : PathOf(k) # <<>>
  BY <1>1 DEF IInv, DataInv, OutInv
<1>3. Template' = Template /\ SeededMaps' = SeededMaps /\ (\A k : PathOf(k)' = PathOf(k))
  BY <1>1, Fixed
<1>4. (\A k : Evaluated(k)' = Evaluated(k)) /\ \A k : OutAt(PathOf(k))' = OutAt(PathOf(k))
  BY <1>1, <1>3 DEF Evaluated, OutAt
<1>5. \A k : Narrowed(k)' = Narrowed(k) /\ Decoded(k)' = Decoded(k)
  BY <1>3, <1>4 DEF Narrowed, Decoded
<1>6. /\ phase' \in {"failed", "returned"}
      /\ phase' = "failed" =>
           /\ error' # {} /\ "fallback" \notin error'
           /\ "ErrLossyResultNarrowing" \in error' => \E k \in DOMAIN Template : Narrowed(k) = <<>>
      /\ phase' = "returned" =>
           /\ error' = error
           /\ \A k \in DOMAIN Template : Decoded(k) # <<>> /\ result'[PathOf(k)] = Decoded(k)[1]
  <2> DEFINE narrowed == [k \in DOMAIN Template |-> Narrow(OutAt(Template[k].path), Template[k].kind)]
             decoded == [k \in DOMAIN Template |->
                           IF narrowed[k] = <<>> THEN <<>> ELSE Assigned(narrowed[k][1], Template[k].kind)]
             failed == {k \in DOMAIN Template : decoded[k] = <<>>}
             R == [p \in {Template[k].path : k \in DOMAIN Template} |->
                     decoded[CHOOSE k \in DOMAIN Template : Template[k].path = p][1]]
             C == {IF narrowed[k] = <<>> THEN "ErrLossyResultNarrowing" ELSE "mismatch" : k \in failed}
  <2>1. \A k \in DOMAIN Template : narrowed[k] = Narrowed(k)
    BY DEF Narrowed, PathOf
  <2>0. \A k \in DOMAIN Template : decoded[k] = Decoded(k)
    <3>. HIDE DEF narrowed
    <3>. QED
      BY <2>1 DEF Decoded
  <2>2. CASE failed # {}
    <3>1. phase' = "failed" /\ error' = C
      BY <2>2 DEF Decode, Fails
    <3>. HIDE DEF narrowed, decoded
    <3>2. C # {} /\ "fallback" \notin C
      BY <2>2
    <3>3. "ErrLossyResultNarrowing" \in C => \E k \in DOMAIN Template : narrowed[k] = <<>>
      OBVIOUS
    <3>. QED
      BY <2>1, <3>1, <3>2, <3>3
  <2>3. CASE failed = {}
    <3>1. phase' = "returned" /\ error' = error /\ result' = R
      BY <2>3 DEF Decode
    <3>0. \A k \in DOMAIN Template : decoded[k] # <<>>
      BY <2>3
    <3>2. ASSUME NEW k \in DOMAIN Template PROVE R[PathOf(k)] = Decoded(k)[1]
      <4>1. \A j \in DOMAIN Template : Template[j].path = PathOf(k) => j = k
        BY <1>2 DEF ServiceInv, IsTemplate, PathOf
      <4>2. (CHOOSE j \in DOMAIN Template : Template[j].path = PathOf(k)) = k
        BY <4>1 DEF PathOf
      <4>3. PathOf(k) \in {Template[j].path : j \in DOMAIN Template}
        BY DEF PathOf
      <4>. HIDE DEF decoded
      <4>4. R[PathOf(k)] = decoded[CHOOSE j \in DOMAIN Template : Template[j].path = PathOf(k)][1]
        BY <4>3
      <4>. QED
        BY <2>0, <4>2, <4>4
    <3>. HIDE DEF decoded, R
    <3>. QED
      BY <2>0, <3>0, <3>1, <3>2
  <2>. QED
    BY <2>2, <2>3
<1>7. DataInv'
  <2>1. /\ ServiceInv' /\ GoodVars(data)' /\ (\A r \in DOMAIN maps : GoodVars(maps[r]))'
        /\ (\A n \in MapsAt : <<"seed", n>> \in DOMAIN maps)'
        /\ (\A k \in DOMAIN Template : PathOf(k) # <<>>)'
    BY <1>1, Fixed DEF IInv, DataInv, GoodVars, Good, Mapping
  <2>. QED
    BY <1>2, <1>6, <2>1 DEF DataInv, Phases, Before, Execution, Mapping
<1>8. MainInv'
  BY <1>1, <1>2, <1>6, Fixed DEF IInv, MainInv, Before, Mapping, Skipped, Ran, FellBack, Told
<1>9. OutInv'
  BY <1>1, <1>2, <1>6, Fixed DEF IInv, OutInv, Written, PathOf, Good
<1>10. FaithInv'
  <2>1. Aliased' = Aliased /\ Written' = Written
    BY <1>1, <1>3, <1>4 DEF Aliased, Prefixed, Written
  <2>. QED
    BY <1>1, <1>3, <1>4, <1>6, <2>1 DEF IInv, FaithInv, Mapping
<1>11. ResultInv'
  BY <1>2, <1>3, <1>5, <1>6 DEF ResultInv
<1>. QED
  BY <1>7, <1>8, <1>9, <1>10, <1>11 DEF IInv

LEMMA StutterKeeps == IInv /\ UNCHANGED vars => IInv'
<1>. SUFFICES ASSUME IInv, UNCHANGED vars PROVE IInv'
  OBVIOUS
<1>1. UNCHANGED <<service, input, phase, data, maps, main, observed, out, next, result, error>>
  BY DEF vars
<1>2. /\ Template' = Template /\ SeededMaps' = SeededMaps /\ Seeded' = Seeded /\ MapsAt' = MapsAt
      /\ ServiceInv' = ServiceInv /\ Stage' = Stage /\ Own' = Own /\ Instead' = Instead /\ Gate' = Gate
      /\ \A k : PathOf(k)' = PathOf(k)
  BY <1>1, Fixed
<1>3. (\A k : Evaluated(k)' = Evaluated(k)) /\ \A k : OutAt(PathOf(k))' = OutAt(PathOf(k))
  BY <1>1, <1>2 DEF Evaluated, OutAt
<1>4. Aliased' = Aliased /\ Written' = Written /\ \A k : Narrowed(k)' = Narrowed(k) /\ Decoded(k)' = Decoded(k)
  BY <1>1, <1>2, <1>3 DEF Aliased, Prefixed, Written, Narrowed, Decoded
<1>5. DataInv' /\ OutInv'
  BY <1>1, <1>2, <1>4 DEF IInv, DataInv, OutInv, GoodVars, Good
<1>6. MainInv'
  BY <1>1, <1>2 DEF IInv, MainInv, Skipped, Ran, FellBack, Told
<1>7. FaithInv' /\ ResultInv'
  BY <1>1, <1>2, <1>3, <1>4 DEF IInv, FaithInv, ResultInv
<1>. QED
  BY <1>5, <1>6, <1>7 DEF IInv

LEMMA Invariant == Spec => []IInv
<1>1. ASSUME IInv, [Next]_vars PROVE IInv'
  <2>1. CASE Next
    BY <1>1, <2>1, ConstructKeeps, SeedKeeps, ConditionKeeps, ApplyKeeps, FallbackKeeps, MapFieldKeeps,
       DecodeKeeps, StutterKeeps DEF Next, Done
  <2>2. CASE UNCHANGED vars
    BY <1>1, <2>2, StutterKeeps
  <2>. QED
    BY <1>1, <2>1, <2>2
<1>. QED
  BY <1>1, Started, PTL DEF Spec
-----------------------------------------------------------------------------
\* The theorems.

\* The powers of ten by which decimals are scaled are positive integers.
LEMMA PowerIs == \A n \in Nat : Power(n) \in Nat /\ Power(n) > 0
<1>. SUFFICES ASSUME NEW n \in Nat PROVE Power(n) \in Nat /\ Power(n) > 0
  OBVIOUS
<1> DEFINE Body(f) == [k \in 0 .. n |-> IF k = 0 THEN 1 ELSE 10 * f[k - 1]]
           tens == [k \in 1 .. n |-> [x \in Nat |-> 10 * x]]
<1>1. PICK f : Iterated(f, n, Nat, 1, tens)
  <2>1. tens \in [1 .. n -> [Nat -> Nat]]
    OBVIOUS
  <2>. HIDE DEF tens
  <2>. QED
    BY <2>1, Iterates
<1>2. f \in [0 .. n -> Nat] /\ f[0] = 1 /\ \A k \in 1 .. n : f[k] = 10 * f[k - 1]
  <2>1. f \in [0 .. n -> Nat] /\ f[0] = 1 /\ \A k \in 1 .. n : f[k] = tens[k][f[k - 1]]
    BY <1>1 DEF Iterated
  <2>2. \A k \in 1 .. n : k - 1 \in 0 .. n
    OBVIOUS
  <2>. QED
    BY <2>1, <2>2
<1>3. f = Body(f)
  <2>1. \A k \in 0 .. n : f[k] = IF k = 0 THEN 1 ELSE 10 * f[k - 1]
    <3>1. \A k \in 0 .. n : k = 0 \/ k \in 1 .. n
      OBVIOUS
    <3>. QED
      BY <1>2, <3>1
  <2>2. f = [k \in 0 .. n |-> f[k]]
    BY <1>2
  <2>. QED
    BY <2>1, <2>2
<1> DEFINE h == CHOOSE g : g = Body(g)
<1>4. h = Body(h)
  BY <1>3
<1>5. Power(n) = h[n]
  BY DEF Power
<1>. HIDE DEF h
<1>6. DOMAIN h = 0 .. n /\ h[0] = 1 /\ \A k \in 1 .. n : h[k] = 10 * h[k - 1]
  <2>1. DOMAIN h = 0 .. n /\ 0 \in 0 .. n
    BY <1>4
  <2>2. \A k \in 0 .. n : h[k] = IF k = 0 THEN 1 ELSE 10 * h[k - 1]
    BY <1>4
  <2>3. \A k \in 1 .. n : k \in 0 .. n /\ k # 0
    OBVIOUS
  <2>. QED
    BY <2>1, <2>2, <2>3
<1> DEFINE G == {k \in 0 .. n : h[k] \in Nat /\ h[k] > 0}
<1>7. 0 \in G /\ \A k \in 1 .. n : k - 1 \in G => k \in G
  BY <1>6
<1>8. 0 .. n \subseteq G
  <2>. HIDE DEF G
  <2>. QED
    BY <1>7, UptoInduction
<1>9. n \in G
  <2>. HIDE DEF G
  <2>. QED
    BY <1>8
<1>. QED
  BY <1>5, <1>9

LEMMA Division ==
  ASSUME NEW v \in Int, NEW P \in Nat, P > 0
  PROVE  v = P * (v \div P) + (v % P) /\ v % P \in 0 .. P - 1 /\ v \div P \in Int
OBVIOUS

LEMMA Divisor ==
  ASSUME NEW n \in Int, NEW q \in Int, NEW P \in Nat, P > 0, NEW r \in 0 .. P - 1, n * P = P * q + r
  PROVE  n = q /\ r = 0
<1> DEFINE d == n - q
<1>1. d \in Int /\ P * d = r
  OBVIOUS
<1>2. ~(d >= 1)
  <2>. SUFFICES ASSUME d >= 1 PROVE FALSE
    OBVIOUS
  <2>. HIDE DEF d
  <2>1. P * d >= P
    BY <1>1
  <2>. QED
    BY <1>1, <2>1
<1>3. ~(d <= -1)
  <2>. SUFFICES ASSUME d <= -1 PROVE FALSE
    OBVIOUS
  <2>. HIDE DEF d
  <2>1. P * d <= -P
    BY <1>1
  <2>. QED
    BY <1>1, <2>1
<1>. QED
  BY <1>1, <1>2, <1>3

\* The number of a range that has the low bits of another.
LEMMA WrapIs ==
  ASSUME NEW n \in Int, NEW lo \in Int, NEW hi \in Int, lo <= hi
  PROVE  /\ Wrap(n, lo, hi) \in lo .. hi
         /\ n \in lo .. hi => Wrap(n, lo, hi) = n
         /\ (Wrap(n, lo, hi) - n) % (hi - lo + 1) = 0
<1> DEFINE s == hi - lo + 1
           d == n - lo
           q == d \div s
           r == d % s
           m == Wrap(n, lo, hi) - n
<1>1. s \in Nat /\ s > 0 /\ d \in Int
  OBVIOUS
<1>2. Wrap(n, lo, hi) = lo + r
  BY DEF Wrap
<1>. HIDE DEF s, d
<1>3. d = s * q + r /\ r \in 0 .. s - 1 /\ q \in Int
  BY <1>1, Division
<1>. HIDE DEF q, r
<1>4. Wrap(n, lo, hi) \in lo .. hi
  BY <1>1, <1>2, <1>3 DEF s
<1>5. ASSUME n \in lo .. hi PROVE Wrap(n, lo, hi) = n
  <2>1. d \in 0 .. s - 1
    BY <1>5 DEF d, s
  <2>4. q = 0
    <3>1. ~(q >= 1)
      <4>. SUFFICES ASSUME q >= 1 PROVE FALSE
        OBVIOUS
      <4>1. s * q >= s
        BY <1>1, <1>3
      <4>. QED
        BY <1>1, <1>3, <2>1, <4>1
    <3>2. ~(q <= -1)
      <4>. SUFFICES ASSUME q <= -1 PROVE FALSE
        OBVIOUS
      <4>1. s * q <= -s
        BY <1>1, <1>3
      <4>. QED
        BY <1>1, <1>3, <2>1, <4>1
    <3>. QED
      BY <1>3, <3>1, <3>2
  <2>5. d = r
    BY <1>1, <1>3, <2>4
  <2>. QED
    BY <1>2, <2>5 DEF d
<1>6. m % s = 0
  <2> DEFINE k == -q
  <2>1. m = lo + r - n /\ m \in Int
    BY <1>2, <1>3
  <2>2. m = -(s * q)
    BY <1>1, <1>3, <2>1 DEF d
  <2>3. k \in Int /\ m = k * s
    BY <1>1, <1>3, <2>2
  <2>. HIDE DEF k, m
  <2>4. m = s * (m \div s) + (m % s) /\ m % s \in 0 .. s - 1 /\ m \div s \in Int
    BY <1>1, <2>1, Division
  <2>5. k * s = s * (m \div s) + (m % s)
    BY <2>3, <2>4
  <2>. QED
    BY <1>1, <2>3, <2>4, <2>5, Divisor
<1>. QED
  BY <1>4, <1>5, <1>6 DEF s

\* Narrowing to an integer kind keeps the value, and refuses those that no integer of
\* 64 bits equals.
LEMMA NarrowIs ==
  ASSUME NEW v, v[1] = "dec", v[2] \in Int, v[3] \in Nat, NEW kind \in Integral
  PROVE  /\ Narrow(v, kind) # <<>> => \E n \in Holds(kind) : Narrow(v, kind) = <<<<"int", n>>>> /\ n * Power(v[3]) = v[2]
         /\ Narrow(v, kind) = <<>> => ~\E n \in Holds(kind) : n * Power(v[3]) = v[2]
<1> DEFINE x == v[2]
           P == Power(v[3])
           q == x \div P
           r == x % P
<1>1. x \in Int /\ P \in Nat /\ P > 0
  BY PowerIs
<1>. HIDE DEF x, P
<1>2. x = P * q + r /\ r \in 0 .. P - 1 /\ q \in Int
  BY <1>1, Division
<1>3. Narrow(v, kind) = IF r # 0 \/ q \notin Holds(kind) THEN <<>> ELSE <<<<"int", q>>>>
  <2>1. kind \notin {"float", "str"}
    BY EngineAssumption DEF Integral
  <2>. QED
    BY <2>1 DEF Narrow, x, P, q, r
<1>. HIDE DEF q, r
<1>4. Holds(kind) \subseteq Int
  BY EngineAssumption DEF Holds
<1>5. ASSUME r = 0, q \in Holds(kind)
      PROVE  Narrow(v, kind) = <<<<"int", q>>>> /\ Narrow(v, kind) # <<>> /\ q * P = x
  <2>1. Narrow(v, kind) = <<<<"int", q>>>> /\ Narrow(v, kind) # <<>>
    BY <1>3, <1>5
  <2>2. q * P = x
    BY <1>1, <1>2, <1>5
  <2>. QED
    BY <1>5, <2>1, <2>2
<1>6. ASSUME r # 0 \/ q \notin Holds(kind)
      PROVE  Narrow(v, kind) = <<>> /\ ~\E n \in Holds(kind) : n * P = x
  <2>1. ASSUME NEW n \in Holds(kind), n * P = x PROVE FALSE
    <3>1. n \in Int /\ n * P = P * q + r
      BY <1>2, <1>4, <2>1
    <3>2. n = q /\ r = 0
      BY <1>1, <1>2, <3>1, Divisor
    <3>. QED
      BY <1>6, <2>1, <3>2
  <2>. QED
    BY <1>3, <1>6, <2>1
<1>. QED
  BY <1>5, <1>6 DEF x, P

\* What a path of the output holds is a value.
LEMMA OutIsGood ==
  ASSUME IInv, NEW k \in Written
  PROVE  LET v == OutAt(PathOf(k)) IN v[1] = "dec" => v[2] \in Int /\ v[3] \in Nat
<1> DEFINE p == PathOf(k)
           x == p[1]
<1>1. k \in DOMAIN Template /\ p # <<>>
  BY TemplateIs DEF IInv, DataInv, OutInv, Written
<1>2. Len(p) \in {1, 2}
  BY <1>1, PathsAre DEF IInv, DataInv
<1>3. x \in DOMAIN out /\ (Good(out[x]) \/ out[x] = <<"map", <<"out", x>>>>)
  BY DEF IInv, OutInv
<1>4. CASE Len(p) = 1
  <2>1. OutAt(p) = out[x]
    BY <1>4 DEF OutAt
  <2>2. out[x] = <<"map", <<"out", x>>>> => out[x][1] = "map"
    OBVIOUS
  <2>. HIDE DEF x, p
  <2>. QED
    BY <1>3, <2>1, <2>2 DEF Good, p
<1>5. CASE Len(p) = 2
  <2>1. OutAt(p) = maps[out[x][2]][p[2]]
    BY <1>5 DEF OutAt
  <2>2. out[x][2] \in DOMAIN maps /\ p[2] \in DOMAIN maps[out[x][2]]
    BY <1>3, <1>5 DEF IInv, OutInv
  <2>3. Good(OutAt(p))
    BY <2>1, <2>2 DEF IInv, DataInv, GoodVars
  <2>. QED
    BY <2>3 DEF Good
<1>. QED
  BY <1>2, <1>4, <1>5

\* Memory is as it should be: a map that a variable of the Scope refers to is there.
LEMMA TypesHold == IInv => TypeOK
<1>. SUFFICES ASSUME IInv PROVE TypeOK
  OBVIOUS
<1>1. \A n \in DOMAIN data : data[n][1] = "map" => data[n][2] \in DOMAIN maps
  <2>. SUFFICES ASSUME NEW n \in DOMAIN data, data[n][1] = "map" PROVE data[n][2] \in DOMAIN maps
    OBVIOUS
  <2>1. Good(data[n])
    BY DEF IInv, DataInv, GoodVars
  <2>2. PICK k \in MapsAt : data[n] = <<"map", <<"seed", k>>>>
    BY <2>1 DEF Good
  <2>3. data # NoVars
    BY NothingIsGood
  <2>4. <<"seed", k>> \in DOMAIN maps
    BY <2>3 DEF IInv, DataInv
  <2>. QED
    BY <2>2, <2>4
<1>2. phase \in {"construct", "flatten", "condition", "apply", "fallback", "map", "decode", "returned", "failed"}
  BY DEF IInv, DataInv, Phases, Before, Execution, Mapping
<1>3. next \in 1 .. Len(Template) + 1 /\ observed \in {0, 1} /\ (phase = "failed" <=> error # {})
  BY DEF IInv, DataInv, MainInv, OutInv
<1>. QED
  BY <1>1, <1>2, <1>3 DEF TypeOK

\* The Scope that the condition sees has each decimal as it was given, but for those of
\* a squashed struct, which are empty maps there.
LEMMA DecimalsHold == IInv => DecimalsReachTheScope
<1>. SUFFICES ASSUME IInv, phase = "condition", NEW f \in input.fields, f.value[1] = "dec"
              PROVE  /\ f.in = TopLevel => data[f.key] = f.value
                     /\ f.in \in input.squash => f.key = "-" \/ maps[data[f.key][2]] = NoVars
                     /\ f \notin AtTheTop /\ (input.shape = "struct" => f.in # "-") => maps[<<"seed", f.in>>][f.key] = f.value
                     /\ f.in # TopLevel /\ input.shape = "struct" /\ f.in = "-" => "-" \notin DOMAIN data
  BY DEF DecimalsReachTheScope, AtTheTop
<1>1. IsInput(input) /\ data = Seeded /\ maps = SeededMaps
  BY DEF IInv, DataInv, ServiceInv, Execution
<1>2. TopLevel \notin input.squash /\ Untaken \notin input.squash /\ (input.shape # "struct" => input.squash = {})
  BY <1>1 DEF IsInput
<1>3. ASSUME f.in = TopLevel PROVE data[f.key] = f.value
  <2>1. PutBack(f) /\ f \in FieldsIn(TopLevel)
    BY <1>2, <1>3 DEF FieldsIn, PutBack, Level, TopLevel, Untaken
  <2>2. SeedValue(f) = f.value
    BY <2>1 DEF SeedValue, Emptied
  <2>. QED
    BY <1>1, <2>1, <2>2, SeededIs
<1>4. ASSUME f.in \in input.squash, f.key # "-" PROVE maps[data[f.key][2]] = NoVars
  <2>1. ~PutBack(f) /\ ~LeftOut(f) /\ Emptied(f) /\ f.in # TopLevel
    BY <1>2, <1>4 DEF PutBack, LeftOut, Emptied, Untaken
  <2>2. f \in FieldsIn(TopLevel) /\ f.key \in MapsAt
    BY <1>4, <2>1 DEF FieldsIn, Level, EmptiedAt, MapsAt
  <2>3. data[f.key] = SeedMap(f.key)
    BY <1>1, <2>1, <2>2, SeededIs DEF SeedValue
  <2>4. FieldsIn(f.key) = {}
    <3>1. f.key # TopLevel /\ \A g \in input.fields : g.in # TopLevel => g.in # f.key
      <4>1. Level(input, f) = TopLevel
        BY <1>4 DEF Level
      <4>. QED
        BY <1>1, <1>2, <1>4, <4>1 DEF IsInput
    <3>. QED
      BY <3>1 DEF FieldsIn, Level
  <2>5. Record(FieldsIn(f.key)) = NoVars
    <3>1. {g.key : g \in FieldsIn(f.key)} = {}
      BY <2>4
    <3>. QED
      BY <3>1 DEF Record, NoVars
  <2>6. SeedMap(f.key)[2] = <<"seed", f.key>>
    BY DEF SeedMap
  <2>. QED
    BY <1>1, <2>2, <2>3, <2>5, <2>6, SeededIs
<1>5. ASSUME f \notin AtTheTop, input.shape = "struct" => f.in # "-" PROVE maps[<<"seed", f.in>>][f.key] = f.value
  <2>1. f.in \in MapsAt
    BY <1>5 DEF AtTheTop, Nested, NestedAt, MapsAt, Untaken
  <2>2. f \in FieldsIn(f.in)
    BY <1>5 DEF FieldsIn, Level, AtTheTop, LeftOut, PutBack, Untaken
  <2>3. SeedValue(f) = f.value
    BY <1>5 DEF SeedValue, Emptied, PutBack, AtTheTop, Untaken
  <2>4. SeededMaps[<<"seed", f.in>>] = Record(FieldsIn(f.in))
    BY <1>1, <2>1, SeededIs
  <2>5. Record(FieldsIn(f.in))[f.key] = f.value
    BY <1>1, <2>2, <2>3, RecordIs
  <2>. QED
    BY <1>1, <2>4, <2>5
<1>6. ASSUME f.in # TopLevel, input.shape = "struct", f.in = "-" PROVE "-" \notin DOMAIN data
  <2>1. "-" \notin NestedAt
    BY <1>6 DEF NestedAt, Nested, Untaken
  <2>2. \A g \in FieldsIn(TopLevel) : g.key # "-"
    BY <1>1, <1>6 DEF IsInput, FieldsIn
  <2>. QED
    BY <1>1, <2>1, <2>2, SeededIs
<1>. QED
  BY <1>3, <1>4, <1>5, <1>6

\* A stage that was skipped had a condition that came to false.
LEMMA GateIsHeld == IInv => GateHolds
<1>. SUFFICES ASSUME IInv, phase \in Mapping, main = <<>>, observed = 0
              PROVE  /\ data = Seeded /\ Stage.condition # <<>>
                     /\ (~Stage.coerce /\ Stage.condition[1].op = "var") =>
                          Meant(Stage.condition[1].name, VarIn(Stage.constants, Stage.condition[1].name)) = <<"bool", FALSE>>
  BY DEF GateHolds, Mapping
<1>1. Skipped
  <2>1. Skipped \/ Ran \/ FellBack
    BY DEF IInv, MainInv
  <2>2. ~Ran /\ ~FellBack
    BY DEF Ran, FellBack, Told
  <2>. QED
    BY <2>1, <2>2
<1>. QED
  BY <1>1, GateIs DEF Skipped, IInv, DataInv

\* The value of a variable is the most specific one that is declared for it, or the
\* input's own; decimals survive the flattening; the condition goes by both
\* (variablePatcher.Visit, flatten's restoreDecimals, SingleExpr.Execute).
THEOREM DefaultsAreByPrecedence == Spec => []DefaultsByPrecedence
<1>1. IInv => DefaultsByPrecedence
  <2>. SUFFICES ASSUME IInv PROVE DefaultsByPrecedence
    OBVIOUS
  <2>1. ASSUME main # <<>>, Stage.expr.op = "var"
        PROVE  main[1] = Meant(Stage.expr.name, Declared(Stage.expr.name))
    <3>1. main = Own /\ ServiceInv
      BY <2>1 DEF IInv, DataInv, MainInv
    <3>2. Own = <<Meant(Stage.expr.name, Declared(Stage.expr.name))>>
      BY <2>1, <3>1, VariableIs
    <3>. QED
      BY <3>1, <3>2
  <2>. QED
    BY <2>1, TypesHold, DecimalsHold, GateIsHeld DEF DefaultsByPrecedence
<1>. QED
  BY <1>1, Invariant, PTL

\* A fallback takes over from an error, or from a nil where that was asked for, sees
\* nothing of the input, and reports the error it masks (Function.Apply, runFallback).
THEOREM FallbackMasks == Spec => []FallbackMasksErrorsOnly
<1>1. IInv => FallbackMasksErrorsOnly
  <2>. SUFFICES ASSUME IInv PROVE FallbackMasksErrorsOnly
    OBVIOUS
  <2> DEFINE wrote == Stage.condition = <<>> /\ phase = "map" /\ next = 1
             into == Stage.output
  <2>1. ServiceInv
    BY DEF IInv, DataInv
  <2>2. wrote => Ran \/ FellBack
    BY DEF IInv, MainInv, Mapping, Skipped
  <2>3. \A v : Over(Bind(into, v), Seeded)[into] = v
    <3>. HIDE DEF into
    <3>. QED
      BY BindIs
  <2>4. FellBack => data[into] = Alone
    <3>. SUFFICES ASSUME FellBack PROVE data[into] = Alone
      OBVIOUS
    <3>1. Stage.fallback # <<>> /\ Instead # <<>>
      BY DEF FellBack, FallsBack
    <3>2. Instead[1] = Alone
      BY <2>1, <3>1, InsteadIs
    <3>. HIDE DEF into
    <3>. QED
      BY <2>3, <3>2 DEF FellBack, into
  <2>5. (wrote /\ main = <<>>) => observed = 1 /\ data[into] = Alone
    <3>. SUFFICES ASSUME wrote, main = <<>> PROVE observed = 1 /\ data[into] = Alone
      OBVIOUS
    <3>1. FellBack
      BY <2>2 DEF Ran
    <3>2. observed = 1
      BY <3>1 DEF FellBack, Told
    <3>. QED
      BY <2>4, <3>1, <3>2
  <2>6. (wrote /\ main = <<Nil>> /\ ~Stage.onNil) => data[into] = Nil
    <3>. SUFFICES ASSUME wrote, main = <<Nil>>, ~Stage.onNil PROVE data[into] = Nil
      OBVIOUS
    <3>1. ~FellBack
      BY DEF FellBack, FallsBack
    <3>2. data = Over(Bind(into, main[1]), Seeded)
      BY <2>2, <3>1 DEF Ran
    <3>. HIDE DEF into
    <3>. QED
      BY <2>3, <3>2
  <2>7. /\ observed = 1 => main = <<>> /\ Stage.fallback # <<>>
        /\ "fallback" \in error => ("expression" \in error <=> main = <<>>)
    BY DEF IInv, MainInv
  <2>. QED
    BY <2>5, <2>6, <2>7 DEF FallbackMasksErrorsOnly, Alone
<1>. QED
  BY <1>1, Invariant, PTL

\* Once the Mapper has gone through the template, each path holds what its expression
\* evaluates to on the Scope, and the Scope's maps are what they were (Mapper.Map,
\* setNested).
THEOREM MappedIsEvaluated == Spec => []MappedAsEvaluated
<1>1. IInv => MappedAsEvaluated
  <2>. SUFFICES ASSUME IInv, phase \in {"decode", "returned"}, ~Aliased
                PROVE  /\ \A k \in DOMAIN Template : <<OutAt(Template[k].path)>> = Evaluated(k)
                       /\ \A r \in DOMAIN SeededMaps : maps[r] = SeededMaps[r]
    BY DEF MappedAsEvaluated
  <2>1. Written = DOMAIN Template
    <3>1. Len(Template) \in Nat /\ DOMAIN Template = 1 .. Len(Template)
      BY TemplateIs DEF IInv, DataInv
    <3>2. next = Len(Template) + 1
      BY DEF IInv, OutInv
    <3>3. next - 1 = Len(Template)
      BY <3>1, <3>2
    <3>. QED
      BY <3>1, <3>3 DEF Written
  <2>. QED
    BY <2>1 DEF IInv, FaithInv, Mapping, PathOf
<1>. QED
  BY <1>1, Invariant, PTL

\* What is assigned after the hook.
LEMMA AssignedIs ==
  ASSUME NEW kind \in Integral, NEW n \in Holds(kind)
  PROVE  Assigned(<<"int", n>>, kind) # <<>> /\ LowBits(Assigned(<<"int", n>>, kind)[1][2], n, kind)
<1> DEFINE v == <<"int", n>>
<1>1. kind \notin {"any", "float", "str"} /\ v # Nil /\ v[1] = "int" /\ v[2] = n
  BY EngineAssumption DEF Integral, Nil
<1>. HIDE DEF v
<1>2. CASE kind \in DOMAIN SignedMax
  <2>1. kind \notin DOMAIN UnsignedMax /\ SignedMax[kind] \in Nat /\ n \in Int
    BY <1>2, EngineAssumption DEF Holds
  <2> DEFINE w == Wrap(n, -SignedMax[kind] - 1, SignedMax[kind])
  <2>2. /\ w \in -SignedMax[kind] - 1 .. SignedMax[kind]
        /\ n \in -SignedMax[kind] - 1 .. SignedMax[kind] => w = n
        /\ (w - n) % (SignedMax[kind] - (-SignedMax[kind] - 1) + 1) = 0
    <3> DEFINE lo == -SignedMax[kind] - 1
               hi == SignedMax[kind]
    <3>1. lo \in Int /\ hi \in Int /\ lo <= hi
      BY <2>1
    <3>. HIDE DEF lo, hi
    <3>2. /\ Wrap(n, lo, hi) \in lo .. hi /\ (n \in lo .. hi => Wrap(n, lo, hi) = n)
          /\ (Wrap(n, lo, hi) - n) % (hi - lo + 1) = 0
      BY <2>1, <3>1, WrapIs
    <3>. QED
      BY <3>2 DEF lo, hi
  <2>. HIDE DEF w
  <2>3. Assigned(v, kind) = <<<<"int", w>>>>
    BY <1>1, <1>2, <2>1 DEF Assigned, w
  <2>. QED
    BY <1>2, <2>2, <2>3 DEF LowBits, Least, Most, v
<1>3. CASE kind \notin DOMAIN SignedMax
  <2>1. kind \in DOMAIN UnsignedMax /\ UnsignedMax[kind] \in Nat /\ n \in Nat /\ ~(n < 0)
    BY <1>3, EngineAssumption DEF Holds, Integral
  <2> DEFINE w == Wrap(n, 0, UnsignedMax[kind])
  <2>2. /\ w \in 0 .. UnsignedMax[kind]
        /\ n \in 0 .. UnsignedMax[kind] => w = n
        /\ (w - n) % (UnsignedMax[kind] - 0 + 1) = 0
    <3> DEFINE lo == 0
               hi == UnsignedMax[kind]
    <3>1. lo \in Int /\ hi \in Int /\ lo <= hi /\ n \in Int
      BY <2>1
    <3>. HIDE DEF lo, hi
    <3>2. /\ Wrap(n, lo, hi) \in lo .. hi /\ (n \in lo .. hi => Wrap(n, lo, hi) = n)
          /\ (Wrap(n, lo, hi) - n) % (hi - lo + 1) = 0
      BY <3>1, WrapIs
    <3>. QED
      BY <3>2 DEF lo, hi
  <2>. HIDE DEF w
  <2>3. Assigned(v, kind) = <<<<"int", w>>>>
    BY <1>1, <1>3, <2>1 DEF Assigned, w
  <2>. QED
    BY <1>3, <2>2, <2>3 DEF LowBits, Least, Most, v
<1>. QED
  BY <1>2, <1>3

\* An integer in the result equals the decimal it came from, or has its low bits if the
\* field is too narrow for it; Evaluate refuses no decimal that the widest integer of
\* the field's sign can hold (decimalNarrowHook, and mapstructure's SetInt and SetUint).
THEOREM NarrowingIsExact == Spec => []NarrowingExact
<1>1. IInv => NarrowingExact
  <2>. SUFFICES ASSUME IInv PROVE NarrowingExact
    OBVIOUS
  <2> DEFINE v(k) == OutAt(Template[k].path)
             kind(k) == Template[k].kind
             Decimals == {k \in DOMAIN Template : v(k)[1] = "dec" /\ kind(k) \in Integral}
             last == phase = "returned" \/ "ErrLossyResultNarrowing" \in error
  <2>1. last => Written = DOMAIN Template
    <3>. SUFFICES ASSUME last PROVE Written = DOMAIN Template
      OBVIOUS
    <3>1. Len(Template) \in Nat /\ DOMAIN Template = 1 .. Len(Template)
      BY TemplateIs DEF IInv, DataInv
    <3>2. next = Len(Template) + 1
      BY DEF IInv, OutInv
    <3>3. next - 1 = Len(Template)
      BY <3>1, <3>2
    <3>. QED
      BY <3>1, <3>3 DEF Written
  <2>2. ASSUME last, NEW k \in DOMAIN Template, v(k)[1] = "dec"
        PROVE  v(k)[2] \in Int /\ v(k)[3] \in Nat
    <3>1. k \in Written
      BY <2>1, <2>2
    <3>. QED
      BY <2>2, <3>1, OutIsGood DEF PathOf
  <2>3. ASSUME NEW k PROVE Narrowed(k) = Narrow(v(k), kind(k))
    BY DEF Narrowed, PathOf
  <2>4. \A e \in Integral : Widest(e) = Holds(e)
    BY EngineAssumption DEF Widest, Holds, Integral
  <2>5. ASSUME phase = "returned", NEW k \in Decimals
        PROVE  \E n \in Whole(v(k), kind(k)) : LowBits(result[Template[k].path][2], n, kind(k))
    <3> DEFINE w == v(k)
               d == kind(k)
    <3>1. w[1] = "dec" /\ w[2] \in Int /\ w[3] \in Nat /\ d \in Integral
      BY <2>2, <2>5
    <3>2. /\ Narrowed(k) # <<>> /\ Narrowed(k) = Narrow(w, d)
          /\ result[Template[k].path] = Assigned(Narrowed(k)[1], d)[1]
      BY <2>3, <2>5 DEF IInv, ResultInv, PathOf, Decoded
    <3>. HIDE DEF w, d
    <3>3. PICK n \in Holds(d) : Narrow(w, d) = <<<<"int", n>>>> /\ n * Power(w[3]) = w[2]
      BY <3>1, <3>2, NarrowIs
    <3>4. Narrowed(k)[1] = <<"int", n>>
      BY <3>2, <3>3
    <3>5. LowBits(result[Template[k].path][2], n, d)
      BY <3>1, <3>2, <3>4, AssignedIs
    <3>6. n \in Whole(w, d)
      BY <2>4, <3>1, <3>3 DEF Whole
    <3>. QED
      BY <3>5, <3>6 DEF w, d
  <2>6. ASSUME "ErrLossyResultNarrowing" \in error
        PROVE  \E k \in Decimals : Whole(v(k), kind(k)) = {}
    <3>1. PICK k \in DOMAIN Template : Narrow(v(k), kind(k)) = <<>>
      BY <2>3, <2>6 DEF IInv, ResultInv
    <3> DEFINE w == v(k)
               d == kind(k)
    <3>2. w[1] = "dec" /\ d \in Integral
      <4>. HIDE DEF w, d
      <4>1. Narrow(w, d) = <<>>
        BY <3>1 DEF w, d
      <4>. QED
        BY <4>1 DEF Narrow
    <3>3. w[2] \in Int /\ w[3] \in Nat
      BY <2>2, <2>6, <3>2
    <3>4. Whole(w, d) = {}
      <4>. HIDE DEF w, d
      <4>1. Narrow(w, d) = <<>>
        BY <3>1 DEF w, d
      <4>2. ~\E n \in Holds(d) : n * Power(w[3]) = w[2]
        BY <3>2, <3>3, <4>1, NarrowIs
      <4>. QED
        BY <2>4, <3>2, <4>2 DEF Whole
    <3>. QED
      BY <3>2, <3>4
  <2>. HIDE DEF v, kind
  <2>. QED
    BY <2>5, <2>6 DEF NarrowingExact, v, kind
<1>. QED
  BY <1>1, Invariant, PTL
=============================================================================
