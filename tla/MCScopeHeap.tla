------------------------------ MODULE MCScopeHeap ------------------------------
(* Small instances of ScopeHeap: two stages, the first with two outputs, over *)
(* a seed of nested maps, order.limits.max (o.l.m).                            *)
EXTENDS ScopeHeap

TwoStages == <<"a", "b">>

OrderSeed ==
  LET limits == <<"caller", 0, <<"o", "l">>>>
      order  == <<"caller", 0, <<"o">>>>
      root   == <<"caller", 0, <<>>>>
  IN  [x \in {root, order, limits} |->
         IF x = root THEN [k \in {"o"} |-> order]
         ELSE IF x = order THEN [k \in {"l"} |-> limits]
         ELSE [k \in {"m"} |-> <<"seed", 0, <<>>>>]]

\* The paths the seed and the outputs below can give a value to.
Below == {<<>>, <<"l">>, <<"m">>, <<"x">>, <<"l", "m">>, <<"l", "x">>}
Under(root) == {root \o path : path \in Below}
AllPaths == Under(<<"o">>) \union {<<"a">>} \union Under(<<"a", "l">>) \union Under(<<"a", "x">>)
              \union {<<"a", "x", "y">>} \union Under(<<"b">>)

Reads == {<<>>, <<"o">>, <<"o", "l">>, <<"o", "l", "m">>}
Outputs(tos, froms) == {[to |-> t, from |-> f] : t \in tos, f \in froms}

\* A rule of the table a: decisions under its name, in the order of their keys.
\* A map is not stored below itself, so that AllPaths names every node.
Rules ==
  LET l  == Outputs({<<"a", "l">>}, Reads)
      lm == Outputs({<<"a", "l", "m">>}, {<<>>, <<"o", "l", "m">>})
      x  == Outputs({<<"a", "x">>}, Reads)
  IN  {<<p, q>> : p \in l, q \in lm} \union {<<p, q>> : p \in l, q \in x}
        \union {<<p, q>> : p \in lm, q \in x}

\* A single-expr stage b: at its own name, at a path with an empty segment, at a
\* path of the seed's, and at paths it must not write, below those of a.
Singles ==
  {<<p>> : p \in Outputs({<<"b">>}, Reads \union {<<"a", "l">>})
             \union Outputs({<<"b", "", "x">>, <<"o", "l", "m">>, <<"o", "l", "x">>,
                            <<"a", "l", "m">>, <<"a", "x", "y">>}, {<<>>})}

Program(conc, strict, first, second) ==
  [conc |-> conc, strict |-> strict, script |-> [s \in {"a", "b"} |-> IF s = "a" THEN first ELSE second]]

\* In a sequence also the other way round, when the second can write what the first
\* has written through a map that it stored.
MCPrograms ==
  {Program(c, t, p, q) : c \in BOOLEAN, t \in BOOLEAN, p \in Rules, q \in Singles}
  \union {Program(FALSE, t, q, p) : t \in BOOLEAN, p \in Rules, q \in {q \in Singles : q[1].to[1] = "o"}}
=============================================================================
