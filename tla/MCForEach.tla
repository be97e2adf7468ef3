------------------------------ MODULE MCForEach ------------------------------
(* Lists of up to two elements, a path that is missing or no list, and two    *)
(* roll-ups, one of which may share the name of the results.                  *)
EXTENDS ForEach

Lists == {<<>>, <<"a">>, <<"a", "b">>}
MCCollections == {<<"list", l>> : l \in Lists} \union {NoCollection, <<"text", "t">>}

MCRules == {<<"rule", 1>>, <<"rule", 2>>}

Num(n) == <<"num", n>>
Text == <<"text", 0>>
MCValues == {Num(1), Text}

MCReduce(agg, vs) ==
  CASE agg = "count" -> Num(Len(vs))
    [] agg = "list"  -> <<"list", vs>>
    [] OTHER         -> IF Text \in MemberOf(vs) THEN Error ELSE Num(Len(vs))

R(agg, as) == [agg |-> agg, as |-> as]
MCRollups ==
  {<<R("count", "n"), R("sum", "t")>>, <<R("list", "items"), R("max", "t")>>}
==============================================================================
