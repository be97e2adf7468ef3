------------------------------- MODULE Aggregate -------------------------------
(***************************************************************************)
(* aggregate, the reducer behind collect tables and ForEach roll-ups:      *)
(* classify finds the widest numeric kind, and foldInt, foldFloat or       *)
(* foldDecimal folds the values in it.  int64 arithmetic wraps, float64    *)
(* arithmetic rounds, decimal arithmetic is exact.                         *)
(*                                                                         *)
(* Numbers are integers: a float is a multiple of its unit in the last     *)
(* place, which is 1 up to Exact and 2 beyond, or NaN, or +Inf.  A float   *)
(* becomes a decimal by its shortest digits, which are others than its own *)
(* beyond Exact.                                                           *)
(***************************************************************************)
EXTENDS Integers, Sequences

CONSTANTS
  Half,     \* 2^63: int64 is -Half .. Half - 1
  Exact,    \* 2^53: float64 has every integer up to it
  Shortest(_),  \* decimal.NewFromFloat: the shortest digits that round to a float
  Lists     \* the values a key collects, as sequences of [kind, n]

Int64 == -Half .. Half - 1
Kinds == {"int", "uint", "float", "nan", "inf", "decimal", "text"}
Ops == {"list", "count", "sum", "min", "max"}

ASSUME AggregateAssumption ==
  /\ Half \in Nat \ {0} /\ Exact \in Nat
  /\ \A vs \in Lists :
       /\ vs \in Seq([kind : Kinds, n : Int]) /\ vs # <<>>
       /\ \A k \in DOMAIN vs : /\ vs[k].kind = "int" => vs[k].n \in Int64
                               /\ vs[k].kind = "uint" => vs[k].n \in 0 .. 2 * Half - 1
                               /\ vs[k].kind = "float" => Shortest(vs[k].n) \in Int
                               /\ vs[k].kind = "float" /\ vs[k].n \in -Exact .. Exact =>
                                    Shortest(vs[k].n) = vs[k].n

VARIABLES
  vals, op,   \* the arguments
  phase,      \* "classify", "first", "fold" or "done"
  idx,        \* index of the loop
  widest,     \* foldNumeric: the widest kind
  acc,        \* the running sum, in the widest kind
  bestIdx,    \* the index of the winner so far; best is its value
  exact,      \* history: the running sum in unbounded integers
  reduced     \* what aggregate returned

args == <<vals, op>>
foldVars == <<args, phase, idx, widest, acc, bestIdx, exact, reduced>>
-----------------------------------------------------------------------------
\* Numbers of a fold: [c, n], with c "num", "nan" or "inf".
Number(n) == [c |-> "num", n |-> n]


\* classify.
Classify(v) ==
  CASE v.kind = "uint" -> IF v.n < Half THEN "int" ELSE "decimal"
    [] v.kind \in {"nan", "inf"} -> "float"
    [] OTHER -> v.kind

Widest(vs) ==
  LET kinds == {Classify(vs[k]) : k \in DOMAIN vs}
  IN  IF "decimal" \in kinds THEN "decimal" ELSE IF "float" \in kinds THEN "float" ELSE "int"

\* int64 arithmetic.
Wrap(x) == IF x >= Half THEN x - 2 * Half ELSE IF x < -Half THEN x + 2 * Half ELSE x

\* float64 rounding, to the nearest and, of two, to the even one.
Round(x) ==
  IF x \in -Exact .. Exact \/ x % 2 = 0 THEN x ELSE IF (x - 1) % 4 = 0 THEN x - 1 ELSE x + 1

\* toInt64, toFloat64 and asDecimal.
Convert(v) ==
  CASE v.kind \in {"nan", "inf"} -> [c |-> v.kind, n |-> 0]
    [] widest = "float" /\ v.kind \in {"int", "uint", "float"} -> Number(Round(v.n))
    [] widest = "decimal" /\ v.kind = "float" -> Number(Shortest(v.n))
    [] widest = "int" -> Number(IF v.n \in Int64 THEN v.n ELSE 0)
    [] OTHER -> Number(v.n)

\* asDecimal has no value for a float that is not finite.
HasValue(v) == widest = "decimal" => v.kind \notin {"nan", "inf"}

Add(x, y) ==
  CASE "nan" \in {x.c, y.c} -> [c |-> "nan", n |-> 0]
    [] "nan" \notin {x.c, y.c} /\ "inf" \in {x.c, y.c} -> [c |-> "inf", n |-> 0]
    [] OTHER -> Number(CASE widest = "int" -> Wrap(x.n + y.n)
                         [] widest = "float" -> Round(x.n + y.n)
                         [] OTHER -> x.n + y.n)

\* A comparison with NaN is false.
Less(x, y) ==
  \/ x.c = "num" /\ y.c = "num" /\ x.n < y.n
  \/ x.c = "num" /\ y.c = "inf"

\* Mutants: operands of one sign whose sum has another; and a test that is not strict.
Overflows_SameSign(total, n) ==
  \/ total > 0 /\ n > 0 /\ Wrap(total + n) < 0
  \/ total < 0 /\ n < 0 /\ Wrap(total + n) > 0
Overflows_OrEqual(total, n) ==
  LET sum == Wrap(total + n) IN (n >= 0 /\ sum <= total) \/ (n < 0 /\ sum > total)

\* foldInt's overflow test.
Overflows(total, n) ==
  LET sum == Wrap(total + n) IN (n > 0 /\ sum < total) \/ (n < 0 /\ sum > total)

\* Mutant: an equal element replaces the winner.
Beats_OrTies(x, y) == IF op = "min" THEN ~Less(y, x) ELSE ~Less(x, y)

\* x replaces the winner y.
Beats(x, y) == IF op = "min" THEN Less(x, y) ELSE Less(y, x)


\* bestIdx once x has been seen at idx.
Winner(x) == IF Beats(x, Convert(vals[bestIdx])) THEN idx ELSE bestIdx
-----------------------------------------------------------------------------
FoldInit ==
  /\ vals \in Lists /\ op \in Ops
  /\ phase = "classify" /\ idx = 1
  /\ widest = "int" /\ acc = Number(0) /\ bestIdx = 1
  /\ exact = 0
  /\ reduced = [kind |-> "none"]

Give(r) == phase' = "done" /\ reduced' = r

\* aggregate's switch, and the classification of every value.
Dispatch ==
  /\ phase = "classify"
  /\ \/ op = "count" /\ Give([kind |-> "ok", n |-> Len(vals)]) /\ UNCHANGED widest
     \/ op = "list" /\ Give([kind |-> "list"]) /\ UNCHANGED widest
     \/ /\ op \in {"sum", "min", "max"}
        /\ \E k \in DOMAIN vals : Classify(vals[k]) = "text"
        /\ Give([kind |-> "NonNumericAggregate"])
        /\ UNCHANGED widest
     \/ /\ op \in {"sum", "min", "max"}
        /\ \A k \in DOMAIN vals : Classify(vals[k]) # "text"
        /\ phase' = "first" /\ widest' = Widest(vals)
        /\ UNCHANGED reduced
  /\ UNCHANGED <<args, idx, acc, bestIdx, exact>>

\* The fold starts from the first value.
First ==
  /\ phase = "first"
  /\ IF HasValue(vals[1])
     THEN /\ phase' = "fold" /\ idx' = 2
          /\ acc' = Convert(vals[1]) /\ exact' = vals[1].n
          /\ UNCHANGED reduced
     ELSE /\ Give([kind |-> "NonFiniteAggregate"])
          /\ UNCHANGED <<idx, acc, exact>>
  /\ UNCHANGED <<args, widest, bestIdx>>

Step ==
  /\ phase = "fold" /\ idx <= Len(vals)
  /\ LET x == Convert(vals[idx]) IN
     \/ /\ ~HasValue(vals[idx])
        /\ Give([kind |-> "NonFiniteAggregate"])
        /\ UNCHANGED <<idx, acc, bestIdx, exact>>
     \/ /\ HasValue(vals[idx]) /\ op = "sum" /\ widest = "int" /\ Overflows(acc.n, x.n)
        /\ Give([kind |-> "AggregateOverflow"])
        /\ exact' = exact + vals[idx].n
        /\ UNCHANGED <<idx, acc, bestIdx>>
     \/ /\ HasValue(vals[idx]) /\ op = "sum" /\ ~(widest = "int" /\ Overflows(acc.n, x.n))
        /\ acc' = Add(acc, x) /\ exact' = exact + vals[idx].n
        /\ idx' = idx + 1
        /\ UNCHANGED <<phase, bestIdx, reduced>>
     \/ /\ HasValue(vals[idx]) /\ op \in {"min", "max"}
        /\ bestIdx' = Winner(x)
        /\ idx' = idx + 1
        /\ UNCHANGED <<phase, acc, exact, reduced>>
  /\ UNCHANGED <<args, widest>>

\* A sum is the accumulator; min and max give the element itself.
Finish ==
  /\ phase = "fold" /\ idx > Len(vals)
  /\ Give(IF op = "sum" THEN [kind |-> "sum", x |-> acc] ELSE [kind |-> "element", at |-> bestIdx])
  /\ UNCHANGED <<args, idx, widest, acc, bestIdx, exact>>

Done == phase = "done" /\ UNCHANGED foldVars

FoldNext == Dispatch \/ First \/ Step \/ Finish \/ Done

FoldSpec == FoldInit /\ [][FoldNext]_foldVars
-----------------------------------------------------------------------------
FoldTypeOK ==
  /\ op \in Ops /\ phase \in {"classify", "first", "fold", "done"}
  /\ idx \in 1 .. Len(vals) + 1 /\ bestIdx \in DOMAIN vals
  /\ widest \in {"int", "float", "decimal"}
  /\ acc.c \in {"num", "nan", "inf"} /\ acc.n \in Int
  /\ exact \in Int

NoFloats == \A k \in DOMAIN vals : vals[k].kind \notin {"float", "nan", "inf"}
ExactFold == widest = "int" \/ (widest = "decimal" /\ NoFloats)

\* A sum without floats is the true one, and so is its running total: the test of
\* foldInt lets no wrapped sum through, MinInt64 + MinInt64 = 0 included, and an
\* unsigned value beyond MaxInt64 moves the fold to decimals (classify's comment).
SumExact ==
  op = "sum" /\ phase \in {"fold", "done"} /\ reduced.kind \in {"none", "sum"} /\ ExactFold =>
    acc = Number(exact) /\ (widest = "int" => exact \in Int64)

\* The test flags no running total that fits in int64.
OverflowIsReal == reduced.kind = "AggregateOverflow" => exact \notin Int64

\* min and max return an element nothing in the list beats, the first of its
\* equals, by the order of the widest kind.
ElementIsExtreme ==
  /\ FoldTypeOK
  /\ reduced.kind = "element" =>
       LET best == Convert(vals[reduced.at]) IN
       /\ \A k \in DOMAIN vals : ~(op = "min" /\ Less(Convert(vals[k]), best))
       /\ \A k \in DOMAIN vals : ~(op = "max" /\ Less(best, Convert(vals[k])))
       /\ \A k \in 1 .. reduced.at - 1 : Convert(vals[k]) # best
=============================================================================
