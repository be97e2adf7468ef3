------------------------------ MODULE MCAggregate ------------------------------
(* Every list of up to three values, of every kind, in four-bit integers. *)
EXTENDS Aggregate

\* 9 rounds to the float 8.
MCShortest(x) == IF x = 8 THEN 9 ELSE x

V(kind, ns) == {[kind |-> kind, n |-> n] : n \in ns}

Values ==
  V("int", {-8, -7, -1, 1, 7}) \union V("uint", {0, 9}) \union V("float", {4, 8})
    \union V("nan", {0}) \union V("inf", {0}) \union V("decimal", {2}) \union V("text", {0})

UpToThree == UNION {[1 .. len -> Values] : len \in 1 .. 3}
===============================================================================
