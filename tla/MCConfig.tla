------------------------------- MODULE MCConfig -------------------------------
(* Small definitions for Config: one for each way to be refused, and some to  *)
(* be refused for two reasons; spellings of the same constant; three that are *)
(* run on one Scope, and changes between them.                                *)
EXTENDS Config

Entry(field, row, key, code) == [field |-> field, row |-> row, key |-> key, code |-> code]
E(field, code) == Entry(field, 0, "", code)
N(key, priority, code) == Entry("exprs", priority, key, code)
S(name, type, parent) ==
  [name |-> name, type |-> type, parent |-> parent, as |-> "", deps |-> {}, exprs |-> <<>>,
   rules |-> <<>>, hit |-> "", agg |-> "", rollups |-> <<>>, collection |-> TRUE]
With(s, exprs) == [s EXCEPT !.exprs = exprs]
Multi(name, parent) == With(S(name, "multi", parent), <<N("x", 0, "ok")>>)
After(name, parent, deps) == [Multi(name, parent) EXCEPT !.deps = deps]
Each(name, parent, as) == [S(name, "foreach", parent) EXCEPT !.as = as]
Rolling(key, as, agg) == [key |-> key, as |-> as, agg |-> agg]

Default(n) == <<Entry("default", n + 1, "y", "ok")>>
Decisions(rules) ==
  [i \in 1 .. 2 * Len(rules) |-> Entry(IF i % 2 = 1 THEN "rules" ELSE "decisions", (i + 1) \div 2,
                                       IF i % 2 = 1 THEN "" ELSE "y", "ok")]
Table(name, hit, rules, default) ==
  [With(S(name, "table", 0), Decisions(rules) \o IF default THEN Default(Len(rules)) ELSE <<>>)
   EXCEPT !.hit = hit, !.rules = rules]
Single(name, value, condition) == With(S(name, "single", 0), <<E("expr", value), E("condition", condition)>>)

D(stages) == [stages |-> stages, const |-> <<"absent">>, schema |-> FALSE, version |-> ""]
WithConst(v) == [D(<<Multi("a", 0)>>) EXCEPT !.const = v]

MCTables ==
  {D(<<Table("t", hit, rules, default)>>) :
     hit \in {"", "unique", "any", "last"}, default \in BOOLEAN,
     rules \in {<<FALSE>>, <<TRUE>>, <<TRUE, FALSE>>, <<FALSE, TRUE>>, <<TRUE, FALSE, TRUE>>, <<FALSE, TRUE, FALSE>>}}

MCForEaches ==
  {D(<<Each("f", 0, as), Each("g", 1, inner), Multi("x", 2), Each("h", 1, other), Multi("y", 4), After("z", 0, {"f"})>>) :
     as \in {"", "e"}, inner \in {"item", "e"}, other \in {"e", "d"}}
  \union {D(<<Each("f", 0, ""), Multi("x", 1), Multi("x", 1)>>),
          D(<<Each("f", 0, ""), Each("g", 1, "e")>>),
          D(<<Each("f", 0, ""), Each("", 1, "e"), Multi("x", 2)>>),
          D(<<Each("f", 0, ""), With(Multi("x", 1), <<N("x", 0, "undeclared")>>), Multi("y", 0)>>),
          D(<<[Each("f", 0, "") EXCEPT !.collection = FALSE], Multi("x", 1)>>),
          D(<<Multi("m", 0), Each("f", 1, ""), Each("g", 2, "")>>)}
  \union {D(<<[Each(name, 0, "") EXCEPT !.rollups = <<Rolling("x", "n", "count"), Rolling(key, as, agg)>>], Multi("x", 1)>>) :
             name \in {"f", ""}, key \in {"", "x"}, as \in {"", "m"}, agg \in {"sum", "avg"}}

MCSingles ==
  {D(<<Single(name, value, condition)>>) :
     name \in {"s", ""}, value \in {"ok", "bad"}, condition \in {"ok", "undeclared", "malformed"}}

E1(code) == Entry("rules", 1, "", code)
E2(code) == Entry("rules", 2, "", code)
D1(key, code) == Entry("decisions", 1, key, code)
D2(key, code) == Entry("decisions", 2, key, code)
MCPlain ==
  {D(<<>>), D(<<Multi("", 0)>>), D(<<S("a", "script", 0)>>),
   D(<<With(Multi("a", 0), <<>>)>>), D(<<With(S("a", "single", 0), <<E("condition", "ok")>>)>>),
   D(<<With(Multi("a", 0), <<E("expr", "bad"), N("x", 0, "ok")>>)>>),
   D(<<Table("t", "", <<>>, FALSE)>>), D(<<[Table("t", "any", <<FALSE>>, FALSE) EXCEPT !.agg = "avg"]>>),
   D(<<After("a", 0, {"b"}), After("b", 0, {"a"})>>), D(<<After("a", 0, {"c"})>>),
   [D(<<With(Multi("a", 0), <<N("x", 0, "undeclared")>>)>>) EXCEPT !.schema = TRUE]}
  \union {D(<<With(Multi("a", 0), <<N("x", priority, code), N(key, 1, "ok")>>)>>) :
             priority \in 0 .. 2, code \in {"ok", "bad"}, key \in {"", "x", "y"}}
  \union {D(<<With(Table("t", "any", <<FALSE, TRUE>>, FALSE), exprs)>>) :
             exprs \in {<<E1("ok"), D1("y", "ok"), E2("ok")>>, <<E1("bad"), E2("ok"), D2("y", "ok")>>,
                        <<E1("bad"), D1("y", "ok"), E2("ok")>>, <<E1("ok"), D1("", "ok"), D1("y", "bad"), E2("ok"), D2("y", "ok")>>,
                        <<E1("ok"), D1("y", "bad"), E2("ok"), D2("", "ok")>>,
                        <<E1("ok"), D1("y", "ok"), E2("ok"), D2("y", "ok"), Entry("default", 3, "", "ok")>>}}

Dec(coef, scale) == <<"$dec", coef, scale>>
MCConsts ==
  {WithConst(v) : v \in {<<"malformed">>, Dec(15, 1), Dec(150, 2), Dec(1, 0), Dec(10, 1), <<"int", 1>>, <<"float", 1>>}}

A == D(<<Multi("a", 0), Multi("b", 0), After("c", 0, {"a", "b"})>>)
B == D(<<Multi("d", 0), Multi("b", 0)>>)
Labelled == [A EXCEPT !.version = "v1"]
Hand == WithConst(<<"chan">>)

MCEmptyDef == NoStages
From(how, kind, max, text) == [how |-> how, kind |-> kind, text |-> text, max |-> max]
InMemory(d) == From("bytes", "yaml", 2, <<<<d>>>>)
MCProviders ==
  {InMemory(d) : d \in MCTables \union MCForEaches \union MCSingles \union MCPlain \union MCConsts \union {A, B, Labelled}}
  \union {From(how, kind, 2, text) : how \in {"reader", "file", "url"}, kind \in {"json", "other"},
                                    text \in {<<>>, <<Bad>>, <<<<B>>>>}}
  \union {From("reader", "yaml", 2, text) : text \in {<<<<B>>, <<A>>>>, <<Bad, <<B>>, Bad>>}}
  \union {From("url", "json", MaxInt, <<<<B>>, <<A>>>>), From("nil", "json", 2, <<>>)}
MCFragments == {Bad, <<Labelled>>}

Edited(d, e) == <<d, e>>
MCEdits ==
  {Edited(A, B), Edited(A, Labelled), Edited(B, A), Edited(WithConst(Dec(150, 2)), Hand),
   Edited(WithConst(<<"int", 1>>), WithConst(Dec(1, 0)))}

O(lint, strict, schema, version, parallel) ==
  [lint |-> lint, strict |-> strict, schema |-> schema, version |-> version, parallel |-> parallel]
MCOptions ==
  {O(FALSE, FALSE, "nil", "", "none"), O(FALSE, FALSE, "nil", "r2", "wave"), O(TRUE, FALSE, "nil", "", "invalid"),
   O(TRUE, TRUE, "given", "", "none"), O(FALSE, TRUE, "empty", "", "none"), O(FALSE, TRUE, "nil", "", "wave")}
==============================================================================
