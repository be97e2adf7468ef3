------------------------------ MODULE Expression ------------------------------
(***************************************************************************)
(* Package expr around the library that compiles and runs the expressions: *)
(* the declared defaults that are patched into identifiers, the truth of a *)
(* value that is not a boolean, and when a fallback takes over.            *)
(*                                                                         *)
(* A value is a tuple that begins with its kind.  An integer is its number *)
(* whatever its type in Go, and one above IntMax takes a uint64; a float   *)
(* is <<"float", "num", n>>, <<"float", "nan", 0>> or <<"float", "inf",    *)
(* 0>>; a list is <<"list", length>>; a map is <<"map", ref>>, and         *)
(* maps[ref] is what it holds.                                             *)
(* A program is a literal, an identifier, a member of one or a sum with    *)
(* one; running it gives the sequence of its value, which is empty if it   *)
(* fails.                                                                  *)
(***************************************************************************)
EXTENDS Integers, Sequences

CONSTANT IntMax  \* an int, as an int64, holds -IntMax - 1 .. IntMax

Nil == <<"nil">>
Scalars == {"bool", "str", "float", "int", "dec"}
NoVars == [n \in {} |-> Nil]
Bind(n, v) == [x \in {n} |-> v]

\* f, and g where f has nothing.
Over(f, g) == [n \in DOMAIN f \union DOMAIN g |-> IF n \in DOMAIN f THEN f[n] ELSE g[n]]

\* A variable that is not there is nil.
VarIn(env, n) == IF n \in DOMAIN env THEN env[n] ELSE Nil
-----------------------------------------------------------------------------
\* mergeInto: what is declared later takes precedence.
Merged(dst, src) == Over(src, dst)

\* exprEnvOpts: the constants of the pipeline come before an expression's globals.
Defaults(constants, globals, locals) == [globals |-> Merged(constants, globals), locals |-> locals]

\* Mutant: the globals are looked at first.
Lookup_GlobalsFirst(defaults, n) == VarIn(Over(defaults.globals, defaults.locals), n)
\* variablePatcher.lookup.
Lookup(defaults, n) == VarIn(Over(defaults.locals, defaults.globals), n)

\* Visit: the literal of a default.  There is none for a value that is not a scalar,
\* nor for an integer that is out of the range of int.
Literal(v) == IF v[1] \in Scalars /\ (v[1] = "int" => v[2] <= IntMax) THEN v ELSE Nil

\* Visit: an identifier is patched to `identifier ?? literal`.
Identifier(n, env, defaults) == IF VarIn(env, n) = Nil THEN Literal(Lookup(defaults, n)) ELSE VarIn(env, n)

\* The number in lo .. hi that differs from n by a multiple of the range's size.
Wrap(n, lo, hi) == lo + ((n - lo) % (hi - lo + 1))

\* The library's sum of v and the int n: an int, which wraps, or a float.
Plus(v, n) ==
  CASE v[1] = "int" -> <<<<"int", Wrap(v[2] + n, -IntMax - 1, IntMax)>>>>
    [] v[1] = "float" -> <<IF v[2] = "num" THEN <<"float", "num", v[3] + n>> ELSE v>>
    [] OTHER -> <<>>

\* exprlang.Run.
Eval(e, env, maps, defaults) ==
  LET v == Identifier(e.name, env, defaults) IN
  CASE e.op = "lit" -> <<e.value>>
    [] e.op = "var" -> <<v>>
    [] e.op = "member" -> IF v[1] = "map" THEN <<VarIn(maps[v[2]], e.key)>> ELSE <<>>
    [] e.op = "sum" -> Plus(v, e.value[2])
-----------------------------------------------------------------------------
\* Predicate.Test.

\* truthy.  A string is "true" or "false" if strconv.ParseBool says so.
Truthy(v, maps) ==
  CASE v[1] = "nil" -> <<FALSE>>
    [] v[1] = "bool" -> <<v[2]>>
    [] v[1] = "str" -> <<v[2] \notin {"false", ""}>>
    [] v[1] = "int" -> <<v[2] # 0>>
    [] v[1] = "float" -> <<v[2] = "num" /\ v[3] # 0>>
    [] v[1] = "list" -> <<v[2] > 0>>
    [] v[1] = "map" -> <<maps[v[2]] # NoVars>>
    [] OTHER -> <<>>      \* a decimal is a struct

\* Without WithCoerce only a boolean will do.
Strictly(v) == IF v[1] = "bool" THEN <<v[2]>> ELSE <<>>

Test(cond, coerce, env, maps, defaults) ==
  LET result == Eval(cond, env, maps, defaults)
  IN  IF result = <<>> THEN <<>>
      ELSE IF coerce THEN Truthy(result[1], maps) ELSE Strictly(result[1])
-----------------------------------------------------------------------------
\* Function.Apply, up to the fallback.

FallsBack(fn, result) == fn.fallback # <<>> /\ (result = <<>> \/ (result = <<Nil>> /\ fn.onNil))

\* Mutant: the fallback sees what the expression saw.
FallbackEnv_Same(env) == env
\* runFallback: the fallback sees no variables, but the defaults patched into it.
FallbackEnv(env) == NoVars
==============================================================================
