--------------------------- MODULE MCPipelineBuild ---------------------------
(* Small instances of PipelineBuild.  Names are interchangeable, so a slice  *)
(* without repetition is one of the prefixes of <<"a", "b", "c">>.           *)
EXTENDS PipelineBuild

MCNames == {"a", "b", "c"}

MCStageLists ==
  {<<>>, <<"a">>, <<"a", "b">>, <<"a", "b", "c">>,
   <<"a", "a">>, <<"a", "b", "a">>, <<"a", "b", "b">>}

\* Up to two dependencies, in either order; a name not in the slice is unknown.
MCDepLists ==
  {<<>>} \union {<<x>> : x \in MCNames}
         \union {<<x, y>> : x, y \in MCNames}

MCBounds == {0, 1, 2}
=============================================================================
