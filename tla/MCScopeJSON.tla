----------------------------- MODULE MCScopeJSON -----------------------------
(* One value or more of each kind, at and around the limits of its width, and *)
(* envelopes that MarshalJSON would not write.                                *)
EXTENDS ScopeJSON, TLC

Str(c) == <<"string", c>>
Num(h, i) == <<"number", h, i>>
Fl(h) == <<"float64", Finite(h)>>
List(s) == <<"list", s>>

Numbers ==
  {<<"int", 3>>, <<"int8", -2>>, <<"int64", Half - 1>>, <<"int64", -Half>>, <<"uint8", 2>>,
   <<"uint64", Half>>, <<"uint", Half - 1>>, <<"uint64", 2 * Half - 1>>, <<"named", 1>>}
Floats ==
  {Fl(5), Fl(6), Fl(2 * Half), Fl(-2 * Half), Fl(2 * Half - 4), <<"float32", Finite(1)>>, <<"float64", <<"nan">>>>, <<"float64", <<"inf">>>>}
Texts ==
  {Str(<<"word", "int64">>), Str(<<"invalid">>), Str(<<"digits", Half>>), Str(<<"digits", 5>>), Str(<<"dec", 15, 1>>)}
JSONNumbers ==
  {Num(4, TRUE), Num(4, FALSE), Num(2 * Half, TRUE), Num(2 * Exact + 2, TRUE), Num(2 * Exact + 1, FALSE), Num(FloatMax + 1, FALSE)}
Others ==
  {<<"nil">>, <<"bool", TRUE>>, <<"decimal", 150, 2>>, <<"decimal", 5, -1>>, <<"time", 6, 4>>, <<"time", 6, 3>>, <<"time", MaxYear + 1, 0>>}
Nested ==
  {List(<<>>), List(<<<<"int", 1>>, Str(<<"digits", 5>>)>>), List(<<List(<<<<"nil">>>>)>>), List(<<List(<<List(<<>>)>>)>>),
   List(<<List(<<List(<<<<"nil">>>>)>>)>>),
   <<"map", "a" :> <<"uint8", 2>>>>, <<"map", "a" :> <<"uint64", Half>>>>,
   <<"map", "$k" :> Str(<<"word", "int64">>) @@ "v" :> Str(<<"word", "x">>)>>,
   <<"map", "$k" :> Str(<<"word", "null">>)>>}

MCValues == Numbers \union Floats \union Texts \union JSONNumbers \union Others \union Nested

Data(j) == Key :> j
Env(v, data) == [v |-> v, data |-> data, started |-> 0, ruleset |-> <<>>, firing |-> {}, derived |-> <<>>]
J(h, i) == <<"jnum", h, i>>
K(kind) == <<"jobj", "$k" :> Word(kind)>>

MCForeign ==
  {Env(0, Data(J(4, TRUE))), Env(0, Data(J(2 * Half, TRUE))), Env(0, Data(J(3, FALSE))),
   Env(0, Data(Tagged("int64", J(4, TRUE)))), Env(2, Data(J(4, TRUE))), Env(2, <<>>),
   [Env(0, Data(J(4, TRUE))) EXCEPT !.derived = Data(J(4, TRUE)), !.ruleset = <<9>>],
   Env(2, Data(K("int64"))), Env(2, Data(Tagged("uint", J(4, TRUE)))),
   Env(2, Data(Tagged("int64", J(2 * Half, TRUE)))), Env(2, Data(Tagged("int64", J(3, FALSE)))),
   Env(2, Data(Tagged("time", Word("x")))), Env(2, Data(Tagged("decimal", J(4, TRUE)))),
   Env(2, Data(Tagged("list", <<"jlist", <<J(4, TRUE), K("bool")>>>>))),
   Env(2, Data(<<"jobj", "$k" :> J(4, TRUE) @@ "v" :> J(4, TRUE)>>))}
==============================================================================
