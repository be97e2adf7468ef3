------------------------------ MODULE MCLineage ------------------------------
(* A seed that is a map and one that is a scalar, a namespace g that a        *)
(* MultiExpr and single stages write under, and one ForEach element.          *)
EXTENDS Lineage

S == <<"s">>
SX == <<"s", "x">>
G == <<"g">>
GX == <<"g", "x">>
GY == <<"g", "y">>
H == <<"h">>
X == <<"x">>
L == <<"l[0]">>

MCSeeds == [k \in {"s"} |-> {SX}]
MCOutputs == {GX, GY, H, S}
MCReads == {{}, {SX}, {G, GX}, {G}, {GX}, {S, X}, {H, GY}, {<<"h", "z">>}}
MCElements == {L}
MCElementGraphs ==
  {[p \in {S, GX, H} |-> IF p = S THEN {} ELSE IF p = GX THEN {SX} ELSE {G}]}
MCRestored ==
  {[p \in {S, GX, GY, H, X, L} |->
      CASE p = S -> {} [] p = GX -> {GY} [] p = GY -> {H} [] p = H -> {L, GX}
        [] p = L -> {S, X} [] OTHER -> {L}]}
MCOrder ==
  <<G, GX, GY, H, <<"h", "z">>, L, L \o G, L \o GX, L \o H, L \o S, L \o SX, S, SX, X>>
==============================================================================
