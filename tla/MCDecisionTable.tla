---------------------------- MODULE MCDecisionTable ----------------------------
(* Small instances of DecisionTable: two or three rules over two keys, values *)
(* of which two agree across kinds (10 and 10.0) and one is no number.        *)
EXTENDS DecisionTable

Ten == <<"10">>
TenFloat == <<"10.0">>
Text == <<"text">>

MCAgree(a, b) == a = b \/ {a, b} = {Ten, TenFloat}

MCReduce(agg, vs) ==
  IF agg = "sum" /\ Text \in ToSet(vs) THEN Error
  ELSE <<agg>> \o [j \in DOMAIN vs |-> vs[j][1]]

Decisions == {<<"x">>, <<"y">>, <<"x", "y">>}
TwoRules == [1 .. 2 -> Decisions]
Defaults == {<<>>, <<"x", "y">>}

TablesOf(rules, defaults) ==
  {[policy |-> p, agg |-> "list", rules |-> r, defaults |-> d] :
     p \in Policies, r \in rules, d \in defaults}
  \union {[policy |-> "collect", agg |-> "sum", rules |-> r, defaults |-> d] :
     r \in rules, d \in defaults}

MCValues == {Ten, TenFloat, Text}
MCTables == TablesOf(TwoRules, Defaults) \union TablesOf([1 .. 3 -> {<<"x">>}], {<<>>})
================================================================================
