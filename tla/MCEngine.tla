------------------------------- MODULE MCEngine -------------------------------
(* Small instances of Engine: integers of five bits stand for those of 64,    *)
(* and integers of three for the narrower ones.                               *)
EXTENDS Engine

MCSignedMax == [int |-> 15, int8 |-> 3]
MCUnsignedMax == [uint |-> 31, uint8 |-> 7]

I(n) == <<"int", n>>
D(coef, scale) == <<"dec", coef, scale>>
Float(class, n) == <<"float", class, n>>
Str(class) == <<"str", class>>
Var(n) == [op |-> "var", name |-> n]
Lit(v) == [op |-> "lit", name |-> "", value |-> v]
Member(n, k) == [op |-> "member", name |-> n, key |-> k]
Sum(n, v) == [op |-> "sum", name |-> n, value |-> v]

MCStage ==
  [expr |-> Var("x"), fallback |-> <<>>, onNil |-> FALSE, condition |-> <<>>, coerce |-> FALSE,
   constants |-> NoVars, globals |-> NoVars, locals |-> NoVars, output |-> "s"]

Falling ==
  {[MCStage EXCEPT !.expr = e, !.fallback = f, !.onNil = onNil, !.constants = c] :
     e \in {Var("x"), Member("g", "y"), Sum("x", I(1))}, f \in {<<>>, <<Lit(I(7))>>, <<Var("x")>>, <<Sum("x", I(1))>>},
     onNil \in BOOLEAN, c \in {NoVars, Bind("x", I(15)), Bind("x", Float("num", 5))}}

Declaring ==
  {[MCStage EXCEPT !.constants = c, !.globals = g, !.locals = l] :
     c \in {NoVars, Bind("x", I(1)), Bind("y", I(9))},
     g \in {NoVars, Bind("x", I(2)), Bind("x", I(16)), Bind("x", <<"list", 1>>)},
     l \in {NoVars, Bind("x", D(3, 0)), Bind("x", Float("num", 2)), Bind("x", Float("nan", 0)), Bind("x", <<"list", 1>>)}}

Gated ==
  {[MCStage EXCEPT !.expr = Lit(I(1)), !.condition = <<e>>, !.coerce = coerce, !.constants = c] :
     e \in {Var("x"), Var("g"), Member("x", "y")}
           \union {Lit(v) : v \in {Str("false"), Str("other"), Float("nan", 0), Float("num", 0)}},
     coerce \in BOOLEAN, c \in {NoVars, Bind("x", <<"bool", FALSE>>), Bind("x", Float("num", 1))}}

T(path, e, kind) == [path |-> path, expr |-> e, kind |-> kind]
Amounts(kind) == <<T(<<"a">>, Var("x"), kind), T(<<"b", "c">>, Member("g", "y"), kind), T(<<"b", "d">>, Var("s"), "any")>>
Plain == <<T(<<"a">>, Var("s"), "any")>>

Service(how, pipeline, mapper, concurrent, stage, template) ==
  [how |-> how, pipeline |-> pipeline, mapper |-> mapper, concurrent |-> concurrent, stage |-> stage, template |-> template]
Runs(stage, template) == Service("pipeline", TRUE, TRUE, FALSE, stage, template)

Overlapping ==
  {<<T(<<"a">>, Var("g"), "any"), T(<<"a", "y">>, Lit(I(0)), "any")>>,
   <<T(<<"a">>, Var("x"), "any"), T(<<"a", "y">>, Lit(I(0)), "any"), T(<<"b">>, Var("g"), "any")>>}

MCServices ==
  {Runs(s, Plain) : s \in Falling \union Declaring \union Gated}
  \union {Runs([MCStage EXCEPT !.expr = Lit(I(1))], t) :
            t \in {Amounts(k) : k \in Integral \union {"float", "str", "any"}} \union Overlapping}
  \union {Service(how, p, m, c, MCStage, Plain) : how \in {"pipeline", "provider"}, p, m, c \in BOOLEAN}
  \union {Runs(MCStage, <<T(<<>>, Var("x"), "any")>>)}

F(in, key, value) == [in |-> in, key |-> key, value |-> value]
In(shape, fields) == [shape |-> shape, fields |-> fields, squash |-> {}]
Squashed(fields) == [shape |-> "struct", fields |-> fields, squash |-> {"g"}]
Values ==
  {Nil, <<"bool", TRUE>>, <<"bool", FALSE>>, Str(""), Str("other"), I(0), I(2), I(-1), I(15), I(16), I(31)}
  \union {Float("num", 0), Float("num", 3), Float("inf", 0)}
  \union {D(15, 1), D(20, 1), D(3, 0), D(4, 0), D(-4, 0), D(-5, 0), D(-10, 1), D(7, 0), D(8, 0), D(9, 0)}
  \union {D(15, 0), D(16, 0), D(-16, 0), D(-17, 0), D(31, 0), D(32, 0), D(250, 2)}
MCInputs ==
  {In("nil", {}), In("map", {})}
  \union {In(shape, {F("", "x", v)}) : shape \in {"map", "struct"}, v \in Values}
  \union {In(shape, {F("", "x", v), F("g", "y", w)}) :
            shape \in {"map", "struct"}, v \in {Nil, I(2), D(20, 1)}, w \in {D(15, 1), D(-10, 1), D(7, 0), D(16, 0), Nil}}
  \union {In(shape, {F("", "-", v), F("g", "-", v), F("g", "y", I(1))}) : shape \in {"map", "struct"}, v \in {I(2), D(3, 0)}}
  \union {In(shape, {F("", "x", I(2)), F("-", "y", D(3, 0))}) : shape \in {"map", "struct"}}
  \union {Squashed({F("g", "x", v), F("g", "-", D(3, 0)), F("", "y", I(1))}) : v \in {Nil, I(2), D(20, 1)}}
==============================================================================
