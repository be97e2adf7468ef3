---------------------------- MODULE ForEachProofs ----------------------------
(* What an aggregate returns, for every width of the integers, every         *)
(* precision of the floats and every list of values.  What a ForEach stage   *)
(* leaves in its results, in the outer Scope's records and under its own     *)
(* name, for every collection, roll-up and inner pipeline.                   *)
EXTENDS Aggregate, ForEach, StageGraphProofs

\* Nothing is returned before the fold ends.
ResultInv == phase # "done" => reduced.kind = "none"

\* An integer fold folds values of int64 only.
IntegersInv ==
  phase \in {"first", "fold"} /\ widest = "int" => \A k \in DOMAIN vals : Classify(vals[k]) = "int"

\* Where the loop is, and the argument it reads.
RunningInv ==
  /\ vals \in Lists /\ op \in Ops /\ exact \in Int
  /\ phase \in {"classify", "first", "fold", "done"}
  /\ idx \in Nat \ {0} /\ (phase = "fold" => idx > 1)
  /\ widest \in {"int", "float", "decimal"}

FoldInv == RunningInv /\ ResultInv /\ IntegersInv /\ SumExact /\ OverflowIsReal
--------------------------------------------------------------------------------
\* The test of foldInt is exact: it flags the additions whose sum is outside
\* int64, and no other (table.go:542-549).
LEMMA OverflowTestExact ==
  ASSUME NEW total \in Int64, NEW n \in Int64
  PROVE  Overflows(total, n) <=> total + n \notin Int64
BY AggregateAssumption DEF Overflows, Wrap, Int64

\* An addition that is not flagged does not wrap.
LEMMA UnflaggedIsExact ==
  ASSUME NEW total \in Int64, NEW n \in Int64, ~Overflows(total, n)
  PROVE  Wrap(total + n) = total + n
BY OverflowTestExact, AggregateAssumption DEF Wrap, Int64

\* The list is not empty, and its values are integers.
LEMMA ListValues ==
  ASSUME RunningInv
  PROVE  /\ vals \in Seq([kind : Kinds, n : Int]) /\ Len(vals) \in Nat \ {0}
         /\ \A k \in DOMAIN vals : vals[k].kind \in Kinds /\ vals[k].n \in Int
<1>1. vals \in Seq([kind : Kinds, n : Int]) /\ vals # <<>>
  BY AggregateAssumption DEF RunningInv
<1>2. Len(vals) \in Nat /\ DOMAIN vals = 1 .. Len(vals) /\ Len(vals) # 0
  BY <1>1
<1>3. \A k \in DOMAIN vals : vals[k] \in [kind : Kinds, n : Int]
  <2>. DEFINE T == [kind : Kinds, n : Int]
  <2>. SUFFICES \A k \in DOMAIN vals : vals[k] \in T
    OBVIOUS
  <2>1. vals \in Seq(T)
    BY <1>1
  <2>. HIDE DEF T
  <2>. QED
    BY <2>1
<1>. QED
  BY <1>1, <1>2, <1>3

\* A value of an integer fold is of int64, and so is what toInt64 makes of it.
LEMMA IntegerValue ==
  ASSUME RunningInv, IntegersInv, phase \in {"first", "fold"}, widest = "int", NEW k \in DOMAIN vals
  PROVE  vals[k].n \in Int64 /\ Convert(vals[k]) = Number(vals[k].n)
<1>1. Classify(vals[k]) = "int"
  BY DEF IntegersInv
<1>2. vals[k].kind \in Kinds /\ vals[k].n \in Int
  BY ListValues
<1>3. vals[k].kind \in {"int", "uint"}
  BY <1>1, <1>2 DEF Classify, Kinds
<1>4. vals[k].n \in Int64
  <2>1. CASE vals[k].kind = "int"
    BY <2>1, AggregateAssumption DEF RunningInv
  <2>2. CASE vals[k].kind = "uint"
    <3>1. vals[k].n \in 0 .. 2 * Half - 1
      BY <2>2, AggregateAssumption DEF RunningInv
    <3>2. vals[k].n < Half
      BY <1>1, <2>2 DEF Classify
    <3>. QED
      BY <3>1, <3>2, AggregateAssumption DEF Int64
  <2>. QED
    BY <1>3, <2>1, <2>2
<1>. QED
  BY <1>3, <1>4 DEF Convert

\* asDecimal keeps the magnitude of everything but a float.
LEMMA DecimalValue ==
  ASSUME RunningInv, widest = "decimal", NoFloats, NEW k \in DOMAIN vals
  PROVE  Convert(vals[k]) = Number(vals[k].n)
BY DEF Convert, NoFloats

\* A fold by int64 finds only values classified int.
LEMMA WidestInt ==
  ASSUME RunningInv, Widest(vals) = "int",
         \A k \in DOMAIN vals : Classify(vals[k]) # "text",
         NEW k \in DOMAIN vals
  PROVE  Classify(vals[k]) = "int"
<1>1. Classify(vals[k]) \notin {"decimal", "float"}
  BY DEF Widest
<1>2. vals[k].kind \in Kinds
  BY ListValues
<1>. QED
  BY <1>1, <1>2 DEF Classify, Kinds
--------------------------------------------------------------------------------
\* The invariant holds before the fold.
LEMMA FoldStarts == FoldInit => FoldInv
BY DEF FoldInit, FoldInv, RunningInv, ResultInv, IntegersInv, SumExact, OverflowIsReal, Number

\* Every step keeps it.
LEMMA FoldKept == FoldInv /\ [FoldNext]_foldVars => FoldInv'
<1>. SUFFICES ASSUME FoldInv, [FoldNext]_foldVars PROVE FoldInv'
  OBVIOUS
<1>. USE DEF FoldInv
<1>1. CASE Dispatch
  <2>1. RunningInv' /\ ResultInv'
    BY <1>1 DEF Dispatch, Give, args, RunningInv, ResultInv, Widest
  <2>2. IntegersInv'
    BY <1>1, WidestInt DEF Dispatch, Give, args, IntegersInv, Classify
  <2>3. SumExact' /\ OverflowIsReal'
    BY <1>1 DEF Dispatch, Give, args, SumExact, OverflowIsReal, ResultInv
  <2>. QED
    BY <2>1, <2>2, <2>3
<1>2. CASE First
  <2>0. 1 \in DOMAIN vals /\ vals[1].n \in Int
    BY ListValues
  <2>1. RunningInv' /\ ResultInv' /\ IntegersInv' /\ OverflowIsReal'
    BY <1>2, <2>0 DEF First, Give, args, RunningInv, ResultInv, IntegersInv, OverflowIsReal, Classify
  <2>2. SumExact'
    <3>1. CASE HasValue(vals[1]) /\ ExactFold
      <4>1. acc' = Convert(vals[1]) /\ exact' = vals[1].n /\ UNCHANGED <<vals, op, widest, reduced>>
        BY <1>2, <3>1 DEF First, args
      <4>2. Convert(vals[1]) = Number(vals[1].n) /\ (widest = "int" => vals[1].n \in Int64)
        BY <1>2, <2>0, <3>1, IntegerValue, DecimalValue DEF First, RunningInv, ExactFold
      <4>. QED
        BY <4>1, <4>2 DEF SumExact, Number, Int64, ExactFold, NoFloats
    <3>2. CASE ~HasValue(vals[1])
      BY <1>2, <3>2 DEF First, Give, SumExact
    <3>3. CASE ~ExactFold
      BY <1>2, <3>3 DEF First, args, SumExact, ExactFold, NoFloats
    <3>. QED
      BY <3>1, <3>2, <3>3
  <2>. QED
    BY <2>1, <2>2
<1>3. CASE Step
  <2>0. idx \in DOMAIN vals /\ vals[idx].n \in Int
    BY <1>3, ListValues DEF Step, RunningInv
  <2>1. RunningInv' /\ ResultInv' /\ IntegersInv'
    BY <1>3, <2>0 DEF Step, Give, args, RunningInv, ResultInv, IntegersInv, Classify
  <2>2. SumExact' /\ OverflowIsReal'
    <3>1. CASE UNCHANGED <<acc, exact>> /\ reduced'.kind \notin {"sum", "AggregateOverflow"}
      BY <1>3, <3>1 DEF Step, args, SumExact, OverflowIsReal, ResultInv, Int64, ExactFold, NoFloats
    <3>2. CASE HasValue(vals[idx]) /\ op = "sum" /\ widest = "int"
      <4>0. phase = "fold" /\ reduced.kind = "none"
        BY <1>3 DEF Step, ResultInv
      <4>1. acc = Number(exact) /\ exact \in Int64
        BY <3>2, <4>0 DEF SumExact, ExactFold
      <4>2. vals[idx].n \in Int64 /\ Convert(vals[idx]) = Number(vals[idx].n)
        BY <2>0, <3>2, <4>0, IntegerValue
      <4>3. acc.n = exact /\ Convert(vals[idx]).n = vals[idx].n
        BY <4>1, <4>2 DEF Number
      <4>4. CASE Overflows(exact, vals[idx].n)
        <5>1. reduced'.kind = "AggregateOverflow" /\ exact' = exact + vals[idx].n
          BY <1>3, <3>2, <4>3, <4>4 DEF Step, Give
        <5>2. exact' \notin Int64
          BY <4>1, <4>2, <4>4, <5>1, OverflowTestExact
        <5>. QED
          BY <5>1, <5>2 DEF SumExact, OverflowIsReal, Int64
      <4>5. CASE ~Overflows(exact, vals[idx].n)
        <5>1. acc' = Add(acc, Convert(vals[idx])) /\ exact' = exact + vals[idx].n
              /\ UNCHANGED <<op, widest, reduced>>
          BY <1>3, <3>2, <4>3, <4>5 DEF Step, args
        <5>2. Add(acc, Convert(vals[idx])) = Number(Wrap(exact + vals[idx].n))
          BY <3>2, <4>1, <4>2 DEF Add, Number
        <5>3. Wrap(exact + vals[idx].n) = exact + vals[idx].n
          BY <4>1, <4>2, <4>5, UnflaggedIsExact
        <5>4. exact + vals[idx].n \in Int64
          BY <4>1, <4>2, <4>5, OverflowTestExact
        <5>5. acc' = Number(exact') /\ exact' \in Int64
          BY <5>1, <5>2, <5>3, <5>4
        <5>. QED
          BY <4>0, <5>1, <5>5 DEF SumExact, OverflowIsReal, Number, Int64
      <4>. QED
        BY <4>4, <4>5
    <3>3. CASE HasValue(vals[idx]) /\ op = "sum" /\ widest = "decimal" /\ NoFloats
      <4>0. phase = "fold" /\ reduced.kind = "none"
        BY <1>3 DEF Step, ResultInv
      <4>1. acc = Number(exact) /\ Convert(vals[idx]) = Number(vals[idx].n)
        BY <2>0, <3>3, <4>0, DecimalValue DEF SumExact, ExactFold
      <4>2. acc' = Add(acc, Convert(vals[idx])) /\ exact' = exact + vals[idx].n
            /\ UNCHANGED <<op, widest, reduced>>
        BY <1>3, <3>3 DEF Step, args
      <4>3. Add(acc, Convert(vals[idx])) = Number(exact + vals[idx].n)
        BY <3>3, <4>1 DEF Add, Number
      <4>. QED
        BY <3>3, <4>0, <4>2, <4>3 DEF SumExact, OverflowIsReal, Number
    <3>4. CASE op = "sum" /\ ~ExactFold
      BY <1>3, <3>4 DEF Step, Give, args, SumExact, OverflowIsReal, ResultInv, ExactFold, NoFloats
    <3>. QED
      BY <1>3, <3>1, <3>2, <3>3, <3>4 DEF Step, Give, RunningInv, Ops, ResultInv, ExactFold
  <2>. QED
    BY <2>1, <2>2
<1>4. CASE Finish
  <2>1. RunningInv' /\ ResultInv' /\ IntegersInv' /\ OverflowIsReal'
    BY <1>4 DEF Finish, Give, args, RunningInv, ResultInv, IntegersInv, OverflowIsReal
  <2>2. SumExact'
    BY <1>4 DEF Finish, Give, args, SumExact, ResultInv, Number, Int64, ExactFold, NoFloats
  <2>. QED
    BY <2>1, <2>2
<1>5. CASE UNCHANGED foldVars
  BY <1>5 DEF foldVars, args, RunningInv, ResultInv, IntegersInv, SumExact, OverflowIsReal, Classify,
     Number, Int64, ExactFold, NoFloats
<1>. QED
  BY <1>1, <1>2, <1>3, <1>4, <1>5 DEF FoldNext, Done

\* The inductive invariant, at every moment of every fold.
THEOREM FoldInvariant == FoldSpec => []FoldInv
BY FoldStarts, FoldKept, PTL DEF FoldSpec

\* A sum without floats is the sum in unbounded integers, for every width.
THEOREM SumIsExact == FoldSpec => []SumExact
<1>1. FoldInv => SumExact
  BY DEF FoldInv
<1>. QED
  BY <1>1, FoldInvariant, PTL

\* ErrAggregateOverflow is never returned for a running total that fits.
THEOREM OverflowFound == FoldSpec => []OverflowIsReal
<1>1. FoldInv => OverflowIsReal
  BY DEF FoldInv
<1>. QED
  BY <1>1, FoldInvariant, PTL
--------------------------------------------------------------------------------
\* The value at bestIdx is beaten by none of the first m, and the first of its equals.
BestOf(m) ==
  /\ bestIdx \in 1 .. m
  /\ \A k \in 1 .. m : ~Beats(Convert(vals[k]), Convert(vals[bestIdx]))
  /\ \A k \in 1 .. bestIdx - 1 : Convert(vals[k]) # Convert(vals[bestIdx])

BestInv ==
  /\ phase \in {"classify", "first"} => idx = 1 /\ bestIdx = 1
  /\ phase \in {"first", "fold"} => op \in {"sum", "min", "max"}
  /\ phase = "fold" /\ op \in {"min", "max"} => BestOf(idx - 1)
  /\ reduced.kind = "element" =>
       phase = "done" /\ op \in {"min", "max"} /\ reduced.at = bestIdx /\ BestOf(Len(vals))

\* Numbers of a fold.
NumberSet == [c : {"num", "nan", "inf"}, n : Int]

\* Every value has a number, in each of the kinds.
LEMMA ConvertIsNumber ==
  ASSUME RunningInv, NEW k \in DOMAIN vals
  PROVE  Convert(vals[k]) \in NumberSet
<1>1. vals[k].kind \in Kinds /\ vals[k].n \in Int
  BY ListValues
<1>2. vals[k].kind = "float" => Shortest(vals[k].n) \in Int
  BY AggregateAssumption DEF RunningInv
<1>3. Round(vals[k].n) \in Int
  BY <1>1 DEF Round
<1>4. (IF vals[k].n \in Int64 THEN vals[k].n ELSE 0) \in Int
  BY <1>1
<1>5. CASE vals[k].kind \in {"nan", "inf"}
  BY <1>1, <1>4, <1>5 DEF Convert, Number, NumberSet
<1>6. CASE vals[k].kind \notin {"nan", "inf"}
  <2>1. Convert(vals[k]) \in {Number(Round(vals[k].n)), Number(Shortest(vals[k].n)),
                              Number(IF vals[k].n \in Int64 THEN vals[k].n ELSE 0),
                              Number(vals[k].n)}
    BY <1>6 DEF Convert
  <2>2. CASE Convert(vals[k]) = Number(Shortest(vals[k].n)) /\ vals[k].kind = "float"
    BY <1>2, <2>2 DEF Number, NumberSet
  <2>3. CASE vals[k].kind # "float"
    <3>1. Convert(vals[k]) \in {Number(Round(vals[k].n)), Number(vals[k].n),
                                Number(IF vals[k].n \in Int64 THEN vals[k].n ELSE 0)}
      BY <1>6, <2>3 DEF Convert
    <3>. QED
      BY <1>1, <1>3, <1>4, <3>1 DEF Number, NumberSet
  <2>4. CASE Convert(vals[k]) # Number(Shortest(vals[k].n))
    BY <1>1, <1>3, <1>4, <2>1, <2>4 DEF Number, NumberSet
  <2>. QED
    BY <2>2, <2>3, <2>4
<1>. QED
  BY <1>5, <1>6

\* Beats is a strict order: NaN neither beats nor is beaten.
LEMMA BeatsIsStrict ==
  ASSUME NEW x \in NumberSet, NEW y \in NumberSet, NEW z \in NumberSet
  PROVE  /\ ~Beats(x, x)
         /\ Beats(x, y) /\ Beats(y, z) => Beats(x, z)
BY DEF Beats, Less, NumberSet

\* A sum of numbers is a number.
LEMMA AddIsNumber ==
  ASSUME NEW x \in NumberSet, NEW y \in NumberSet
  PROVE  Add(x, y) \in NumberSet
<1>1. x.n + y.n \in Int
  BY DEF NumberSet
<1>2. Wrap(x.n + y.n) \in Int /\ Round(x.n + y.n) \in Int
  BY <1>1, AggregateAssumption DEF Wrap, Round
<1>. QED
  BY <1>1, <1>2 DEF Add, Number, NumberSet

\* The winner of one more value is the best of one more.
LEMMA WinnerIsBest ==
  ASSUME RunningInv, phase = "fold", idx <= Len(vals), BestOf(idx - 1), bestIdx' = Winner(Convert(vals[idx])),
         idx' = idx + 1, UNCHANGED <<vals, op, widest>>
  PROVE  BestOf(idx - 1)'
<1> DEFINE best == Convert(vals[bestIdx])
           x    == Convert(vals[idx])
<1>1. /\ idx \in Nat /\ idx > 1 /\ idx \in DOMAIN vals /\ bestIdx \in 1 .. idx - 1
      /\ Len(vals) \in Nat /\ DOMAIN vals = 1 .. Len(vals)
  BY ListValues DEF RunningInv, BestOf
<1>2. \A k \in 1 .. idx : k \in DOMAIN vals
  BY <1>1
<1>3. \A k \in 1 .. idx : Convert(vals[k]) \in NumberSet
  BY <1>2, ConvertIsNumber
<1>4. best \in NumberSet /\ x \in NumberSet
  BY <1>1, <1>2, <1>3
<1>5. \A k \in 1 .. idx : k # idx => k \in 1 .. idx - 1
  BY <1>1
<1>6. \A v : Convert(v)' = Convert(v)
  BY DEF Convert
<1>7. (\A y, z : Beats(y, z)' <=> Beats(y, z)) /\ idx' - 1 = idx
  BY <1>1 DEF Beats
<1>8. CASE Beats(x, best)
  <2>1. bestIdx' = idx
    BY <1>8 DEF Winner
  <2>2. ASSUME NEW k \in 1 .. idx PROVE ~Beats(Convert(vals[k]), x)
    <3>1. CASE k = idx
      BY <1>4, <3>1, BeatsIsStrict
    <3>2. CASE k # idx
      <4>1. ~Beats(Convert(vals[k]), best)
        BY <1>5, <3>2 DEF BestOf
      <4>. HIDE DEF x, best
      <4>. QED
        BY <1>3, <1>4, <1>8, <4>1, BeatsIsStrict
    <3>. QED
      BY <3>1, <3>2
  <2>3. ASSUME NEW k \in 1 .. idx - 1 PROVE Convert(vals[k]) # x
    <3>1. ~Beats(Convert(vals[k]), best)
      BY DEF BestOf
    <3>. HIDE DEF x, best
    <3>. QED
      BY <1>8, <3>1
  <2>4. idx \in 1 .. idx
    BY <1>1
  <2>. HIDE DEF best
  <2>. QED
    BY <1>6, <1>7, <2>1, <2>2, <2>3, <2>4 DEF BestOf
<1>9. CASE ~Beats(x, best)
  <2>1. bestIdx' = bestIdx
    BY <1>9 DEF Winner
  <2>2. ASSUME NEW k \in 1 .. idx PROVE ~Beats(Convert(vals[k]), best)
    <3>1. CASE k = idx
      BY <1>9, <3>1
    <3>2. CASE k # idx
      BY <1>5, <3>2 DEF BestOf
    <3>. QED
      BY <3>1, <3>2
  <2>3. \A k \in 1 .. bestIdx - 1 : Convert(vals[k]) # best
    BY DEF BestOf
  <2>4. bestIdx \in 1 .. idx
    BY <1>1
  <2>. QED
    BY <1>6, <1>7, <2>1, <2>2, <2>3, <2>4 DEF BestOf
<1>. QED
  BY <1>8, <1>9

\* The variables keep their types.
LEMMA TypesKept ==
  ASSUME FoldInv, BestInv, FoldTypeOK, acc \in NumberSet, [FoldNext]_foldVars
  PROVE  FoldTypeOK' /\ acc' \in NumberSet
<1>0. RunningInv /\ Len(vals) \in Nat \ {0} /\ DOMAIN vals = 1 .. Len(vals)
  BY ListValues DEF FoldInv
<1>1. \A v \in NumberSet : v.c \in {"num", "nan", "inf"} /\ v.n \in Int
  BY DEF NumberSet
<1>2. RunningInv'
  BY FoldKept DEF FoldInv
<1>3. SUFFICES /\ acc' \in NumberSet /\ idx' \in 1 .. Len(vals') + 1
               /\ bestIdx' \in DOMAIN vals'
  BY <1>1, <1>2 DEF FoldTypeOK, RunningInv
<1>4. CASE Dispatch \/ Finish \/ UNCHANGED foldVars
  BY <1>4 DEF Dispatch, Finish, Give, foldVars, args, FoldTypeOK
<1>5. CASE First
  <2>1. UNCHANGED <<vals, bestIdx>> /\ idx' \in {idx, 2} /\ acc' \in {acc, Convert(vals[1])}
    BY <1>5 DEF First, Give, args
  <2>2. Convert(vals[1]) \in NumberSet
    BY <1>0, ConvertIsNumber
  <2>. QED
    BY <1>0, <2>1, <2>2 DEF FoldTypeOK
<1>6. CASE Step
  <2>1. /\ UNCHANGED vals /\ idx' \in {idx, idx + 1} /\ idx <= Len(vals) /\ idx \in DOMAIN vals
        /\ acc' \in {acc, Add(acc, Convert(vals[idx]))} /\ bestIdx' \in {bestIdx, idx}
    BY <1>0, <1>6 DEF Step, Give, args, FoldTypeOK, Winner
  <2>2. Add(acc, Convert(vals[idx])) \in NumberSet
    BY <1>0, <2>1, ConvertIsNumber, AddIsNumber
  <2>. QED
    BY <1>0, <2>1, <2>2 DEF FoldTypeOK
<1>. QED
  BY <1>4, <1>5, <1>6 DEF FoldNext, Done

\* The winner so far is the best of what has been seen.
LEMMA BestKept ==
  ASSUME FoldInv, BestInv, FoldTypeOK, [FoldNext]_foldVars
  PROVE  BestInv'
<1>0. RunningInv /\ ResultInv /\ Len(vals) \in Nat \ {0} /\ DOMAIN vals = 1 .. Len(vals)
  BY ListValues DEF FoldInv
<1>1. ASSUME UNCHANGED <<vals, op, widest, bestIdx>>
      PROVE  \A m : BestOf(m)' <=> BestOf(m')
  BY <1>1 DEF BestOf, Convert, Beats
<1>2. CASE Dispatch
  BY <1>0, <1>2 DEF Dispatch, Give, args, BestInv, ResultInv
<1>3. CASE First
  <2>1. CASE HasValue(vals[1])
    <3>1. /\ phase = "first" /\ phase' = "fold" /\ idx' = 2 /\ bestIdx' = 1
          /\ UNCHANGED <<vals, op, widest, reduced>>
      BY <1>3, <2>1 DEF First, args, BestInv
    <3>2. Convert(vals[1]) \in NumberSet
      BY <1>0, ConvertIsNumber
    <3>3. BestOf(1)
      <4>1. ~Beats(Convert(vals[1]), Convert(vals[1]))
        BY <3>2, BeatsIsStrict
      <4>. QED
        BY <3>1, <4>1 DEF BestOf, BestInv
    <3>4. \A v : Convert(v)' = Convert(v)
      BY <3>1 DEF Convert
    <3>5. BestOf(idx - 1)'
      BY <3>1, <3>3, <3>4 DEF BestOf, BestInv, Beats
    <3>. QED
      BY <1>0, <3>1, <3>5 DEF BestInv, ResultInv
  <2>2. CASE ~HasValue(vals[1])
    BY <1>3, <2>2 DEF First, Give, BestInv
  <2>. QED
    BY <2>1, <2>2
<1>4. CASE Step
  <2>0. phase = "fold" /\ idx <= Len(vals) /\ UNCHANGED <<vals, op, widest>> /\ reduced.kind = "none"
    BY <1>0, <1>4 DEF Step, args, ResultInv
  <2>1. CASE op \in {"min", "max"} /\ HasValue(vals[idx])
    <3>1. bestIdx' = Winner(Convert(vals[idx])) /\ idx' = idx + 1 /\ UNCHANGED <<phase, reduced>>
      BY <1>4, <2>1 DEF Step
    <3>2. BestOf(idx - 1)'
      BY <1>0, <2>0, <2>1, <3>1, WinnerIsBest DEF BestInv
    <3>. QED
      BY <2>0, <2>1, <3>1, <3>2 DEF BestInv
  <2>2. CASE op = "sum" \/ ~HasValue(vals[idx])
    <3>1. /\ phase' = "done" => reduced'.kind \in {"NonFiniteAggregate", "AggregateOverflow"}
          /\ phase' # "done" => op = "sum" /\ UNCHANGED <<phase, reduced>>
      BY <1>4, <2>2 DEF Step, Give
    <3>. QED
      BY <2>0, <3>1 DEF BestInv
  <2>. QED
    BY <2>0, <2>1, <2>2 DEF BestInv
<1>5. CASE Finish
  <2>1. /\ phase = "fold" /\ phase' = "done" /\ idx > Len(vals)
        /\ UNCHANGED <<vals, op, widest, bestIdx>>
        /\ reduced' = IF op = "sum" THEN [kind |-> "sum", x |-> acc]
                     ELSE [kind |-> "element", at |-> bestIdx]
    BY <1>5 DEF Finish, Give, args
  <2>2. CASE op = "sum"
    BY <2>1, <2>2 DEF BestInv
  <2>3. CASE op \in {"min", "max"}
    <3>1. idx - 1 = Len(vals)
      BY <1>0, <2>1 DEF FoldTypeOK
    <3>2. BestOf(Len(vals))
      BY <2>1, <2>3, <3>1 DEF BestInv
    <3>3. BestOf(Len(vals))'
      BY <2>1, <3>2 DEF BestOf, Convert, Beats
    <3>. QED
      BY <2>1, <2>3, <3>3 DEF BestInv
  <2>. QED
    BY <2>1, <2>2, <2>3 DEF BestInv
<1>6. CASE UNCHANGED foldVars
  <2>1. UNCHANGED <<vals, op, phase, idx, widest, bestIdx, reduced>>
    BY <1>6 DEF foldVars, args
  <2>2. BestOf(idx - 1)' = BestOf(idx - 1) /\ BestOf(Len(vals))' = BestOf(Len(vals))
    BY <2>1 DEF BestOf, Convert, Beats
  <2>. QED
    BY <2>1, <2>2 DEF BestInv
<1>. QED
  BY <1>2, <1>3, <1>4, <1>5, <1>6 DEF FoldNext, Done

\* min and max return the first of the extreme elements, whatever kinds the list
\* mixes: a NaN is neither displaced nor displaces.
THEOREM ExtremeReturned == FoldSpec => []ElementIsExtreme
<1>1. FoldInit => BestInv /\ FoldTypeOK /\ acc \in NumberSet
  <2>. SUFFICES ASSUME FoldInit PROVE BestInv /\ FoldTypeOK /\ acc \in NumberSet
    OBVIOUS
  <2>1. RunningInv
    BY FoldStarts DEF FoldInv
  <2>2. 1 \in DOMAIN vals /\ 1 \in 1 .. Len(vals) + 1
    BY <2>1, ListValues
  <2>. QED
    BY <2>2 DEF FoldInit, BestInv, FoldTypeOK, Number, NumberSet
<1>2. ASSUME FoldInv, BestInv, FoldTypeOK PROVE ElementIsExtreme
  <2>. SUFFICES ASSUME reduced.kind = "element"
                PROVE  LET best == Convert(vals[reduced.at]) IN
                       /\ \A k \in DOMAIN vals : ~(op = "min" /\ Less(Convert(vals[k]), best))
                       /\ \A k \in DOMAIN vals : ~(op = "max" /\ Less(best, Convert(vals[k])))
                       /\ \A k \in 1 .. reduced.at - 1 : Convert(vals[k]) # best
    BY <1>2 DEF ElementIsExtreme
  <2>1. op \in {"min", "max"} /\ reduced.at = bestIdx /\ BestOf(Len(vals))
    BY <1>2 DEF BestInv
  <2>2. DOMAIN vals = 1 .. Len(vals)
    BY <1>2, ListValues DEF FoldInv
  <2>. QED
    BY <2>1, <2>2 DEF BestOf, Beats
<1>3. FoldInv /\ BestInv /\ FoldTypeOK /\ acc \in NumberSet /\ [FoldNext]_foldVars
        => BestInv' /\ FoldTypeOK' /\ (acc \in NumberSet)'
  BY TypesKept, BestKept
<1>. QED
  BY <1>1, <1>2, <1>3, FoldInvariant, PTL DEF FoldSpec
-----------------------------------------------------------------------------
\* A list, whatever its elements.
IsList(s) == s \in Seq(MemberOf(s))

\* Appending to a list gives a list, with one element more.
LEMMA AppendIs ==
  ASSUME NEW s, IsList(s), NEW e
  PROVE  /\ IsList(Append(s, e)) /\ Len(s) \in Nat /\ DOMAIN s = 1 .. Len(s)
         /\ Len(Append(s, e)) = Len(s) + 1 /\ DOMAIN Append(s, e) = 1 .. Len(s) + 1
         /\ Append(s, e)[Len(s) + 1] = e
         /\ \A k \in DOMAIN s : Append(s, e)[k] = s[k]
<1> DEFINE S == MemberOf(s) \union {e}
           t == Append(s, e)
<1>1. s \in Seq(S) /\ e \in S
  BY DEF IsList
<1>2. /\ t \in Seq(S) /\ Len(s) \in Nat /\ DOMAIN s = 1 .. Len(s)
      /\ Len(t) = Len(s) + 1 /\ DOMAIN t = 1 .. Len(s) + 1
      /\ t[Len(s) + 1] = e /\ \A k \in 1 .. Len(s) : t[k] = s[k]
  BY <1>1
<1>3. \A k \in 1 .. Len(t) : t[k] \in MemberOf(t)
  BY <1>2 DEF MemberOf
<1>4. t \in Seq(MemberOf(t))
  <2>. HIDE DEF t, S
  <2>1. t = [k \in 1 .. Len(t) |-> t[k]] /\ Len(t) \in Nat
    BY <1>2
  <2>. QED
    BY <1>3, <2>1
<1>. QED
  BY <1>2, <1>4 DEF IsList

LEMMA EmptyIs == IsList(<<>>) /\ Len(<<>>) = 0 /\ DOMAIN <<>> = {}
  BY DEF IsList

\* What the constants are.
LEMMA Constants ==
  /\ MaxCalls \in Nat /\ Nothing \notin Values /\ Nothing \notin Rules /\ Error \notin Values
  /\ \A c \in Collections : c[1] = "list" => c[2] \in Seq(Elements) /\ DOMAIN c[2] \subseteq Indices
  /\ Rollups \subseteq Seq([agg : {"list", "count", "sum", "min", "max"}, as : Headers])
  /\ Items \in Headers
  BY ForEachAssumption DEF Indices, Headers

\* The list of a collection, or none, is a list of elements.
LEMMA ListsAre ==
  ASSUME NEW c \in Collections, NEW l, l = <<>> \/ (c[1] = "list" /\ l = c[2])
  PROVE  l \in Seq(Elements)
<1>1. CASE l = <<>>
  BY <1>1
<1>2. CASE c[1] = "list" /\ l = c[2]
  <2>1. c[1] = "list" => c[2] \in Seq(Elements)
    BY Constants
  <2>. QED
    BY <1>2, <2>1
<1>. QED
  BY <1>1, <1>2

\* What an ended element left: its own element, and its own output or none.
OwnItem(k) ==
  /\ items[k]["item"] = list[k]
  /\ IF ran[k].out = Nothing THEN "out" \notin DOMAIN items[k]
     ELSE "out" \in DOMAIN items[k] /\ items[k]["out"] = ran[k].out

\* The loop is at the element after those that ended, whose Scope is its own.
LoopInv ==
  /\ rollups \in Rollups /\ collection \in Collections
  /\ list \in Seq(Elements) /\ IsList(items) /\ IsList(ran)
  /\ pc \in {"loop", "inner"} => i = Len(items) + 1
  /\ pc = "inner" => /\ i <= Len(list)
                     /\ "item" \in DOMAIN esc /\ esc["item"] = list[i] /\ "out" \notin DOMAIN esc
  /\ \A k \in DOMAIN items :
       /\ OwnItem(k)
       /\ ran[k].out \in Values \union {Nothing} /\ ran[k].rule \in Rules \union {Nothing}
  /\ pc \in {"rollup", "write"} \/ result = "ok" => Len(items) = Len(list)

IInv == TypeOK /\ LoopInv

LEMMA Initially == Init => IInv
<1>. SUFFICES ASSUME Init PROVE IInv
  OBVIOUS
<1>1. TypeOK
  BY Constants, EmptyIs DEF Init, TypeOK, outer
<1>2. LoopInv
  BY Constants, EmptyIs DEF Init, LoopInv
<1>. QED
  BY <1>1, <1>2 DEF IInv

LEMMA TypeKept == IInv /\ [Next]_vars => TypeOK'
<1>. SUFFICES ASSUME IInv, [Next]_vars PROVE TypeOK'
  OBVIOUS
<1>. USE DEF IInv, TypeOK
<1>1. CASE Sibling
  BY <1>1 DEF Sibling, outer, loop
<1>2. CASE Replace
  BY <1>2 DEF Replace, outer, loop
<1>3. CASE Call
  <2>1. /\ pc' \in {"idle", "loop"} /\ calls' = calls + 1 /\ calls' \in 0 .. MaxCalls /\ i' = 1
        /\ pc' = "idle" <=> result' # "none"
        /\ firing' = firing /\ derived' = derived /\ header' = header
        /\ ran' = <<>> /\ items' = <<>>
    BY <1>3, Constants DEF Call, Return, outer
  <2>2. list' \in Seq(Elements)
    <3>1. list' = <<>> \/ (collection[1] = "list" /\ list' = collection[2])
      BY <1>3 DEF Call
    <3>2. collection \in Collections
      BY DEF LoopInv
    <3>. QED
      BY <3>1, <3>2, ListsAre
  <2>3. Len(list') \in Nat /\ \A k \in DOMAIN list' : list'[k] \in Elements
    BY <2>2
  <2>4. Len(ran') = 0 /\ Len(items') = 0
    BY <2>1, EmptyIs
  <2>5. calls \in Nat
    BY Constants
  <2>. QED
    BY <2>1, <2>3, <2>4, <2>5
<1>4. CASE StartElement
  BY <1>4 DEF StartElement, Abort, Return
<1>5. CASE EndElement
  <2>0. UNCHANGED <<calls, list, before, header>>
    BY <1>5 DEF EndElement, Abort
  <2>1. PICK out \in Values \union {Nothing}, rule \in Rules \union {Nothing} :
          \/ Abort("inner") /\ UNCHANGED <<i, esc, items, ran, firing, derived>>
          \/ LET end == IF out = Nothing THEN esc ELSE Join(esc, Entry("out", out)) IN
             /\ MergeFirings(rule) /\ MergeDerivations(end)
             /\ items' = Append(items, end)
             /\ ran' = Append(ran, [out |-> out, rule |-> rule])
             /\ i' = i + 1 /\ pc' = "loop"
             /\ UNCHANGED result
    BY <1>5 DEF EndElement
  <2>2. pc = "inner"
    BY <1>5 DEF EndElement
  <2>3. CASE Abort("inner") /\ UNCHANGED <<i, esc, items, ran, firing, derived>>
    BY <2>0, <2>2, <2>3 DEF Abort, Return
  <2>4. CASE /\ MergeFirings(rule) /\ i' = i + 1 /\ pc' = "loop" /\ UNCHANGED result
             /\ \E end : MergeDerivations(end) /\ items' = Append(items, end)
             /\ ran' = Append(ran, [out |-> out, rule |-> rule])
    <3>1. firing' \in [Indices -> Rules \union {Nothing}]
      BY <2>4 DEF MergeFirings
    <3>2. DOMAIN derived' = Indices
      BY <2>4 DEF MergeDerivations
    <3>3. Len(ran') = Len(ran) + 1 /\ Len(items') = Len(items) + 1 /\ Len(items) \in Nat
      BY <2>4, AppendIs DEF LoopInv
    <3>4. Len(items) + 1 <= Len(list)
      BY <2>2 DEF LoopInv
    <3>. QED
      BY <2>0, <2>2, <2>4, <3>1, <3>2, <3>3, <3>4
  <2>. QED
    BY <2>1, <2>3, <2>4
<1>6. CASE Rollup
  <2>1. UNCHANGED <<calls, list, items, ran, firing, derived>>
    BY <1>6 DEF Rollup, loop
  <2>2. DOMAIN header' = Headers
    BY <1>6 DEF Rollup, Set
  <2>3. i' \in Nat \ {0}
    BY <1>6 DEF Rollup
  <2>4. pc = "rollup" /\ pc' \in {"idle", "rollup", "write"} /\ (pc' = "idle" <=> result' # "none")
    BY <1>6 DEF Rollup, Return
  <2>. QED
    BY <2>1, <2>2, <2>3, <2>4
<1>7. CASE WriteItems
  <2>1. UNCHANGED <<calls, list, items, ran, firing, derived, i>>
    BY <1>7 DEF WriteItems, loop
  <2>2. DOMAIN header' = Headers
    BY <1>7 DEF WriteItems, Set
  <2>3. pc = "write" /\ pc' = "idle" /\ result' # "none"
    BY <1>7 DEF WriteItems, Return
  <2>. QED
    BY <2>1, <2>2, <2>3
<1>8. CASE UNCHANGED vars
  BY <1>8 DEF vars, loop, outer
<1>. QED
  BY <1>1, <1>2, <1>3, <1>4, <1>5, <1>6, <1>7, <1>8 DEF Next, Idle

\* The Scope of an element holds the element, and nothing under the key of an output.
LEMMA SeedIs ==
  ASSUME NEW el
  PROVE  "item" \in DOMAIN Seed(el) /\ Seed(el)["item"] = el /\ "out" \notin DOMAIN Seed(el)
  BY DEF Seed, Snapshot, Join, Entry, Empty

\* The output is added to it, and nothing else.
LEMMA EndIs ==
  ASSUME NEW out
  PROVE  /\ DOMAIN Join(esc, Entry("out", out)) = DOMAIN esc \union {"out"}
         /\ Join(esc, Entry("out", out))["out"] = out
         /\ "item" \in DOMAIN esc => Join(esc, Entry("out", out))["item"] = esc["item"]
  BY DEF Join, Entry

\* What EndElement leaves when the inner run went well.
Ended(out, rule, end) ==
  /\ end = IF out = Nothing THEN esc ELSE Join(esc, Entry("out", out))
  /\ MergeFirings(rule) /\ MergeDerivations(end)
  /\ items' = Append(items, end)
  /\ ran' = Append(ran, [out |-> out, rule |-> rule])
  /\ i' = i + 1 /\ pc' = "loop"
  /\ UNCHANGED <<header, result>>

LEMMA ElementEnds ==
  ASSUME EndElement
  PROVE  /\ pc = "inner" /\ UNCHANGED <<config, collection, calls, list, sibling, before>>
         /\ \/ Abort("inner") /\ UNCHANGED <<i, esc, items, ran, firing, derived>>
            \/ \E out \in Values \union {Nothing}, rule \in Rules \union {Nothing} :
                 \E end : Ended(out, rule, end)
<1>1. PICK out \in Values \union {Nothing}, rule \in Rules \union {Nothing} :
        \/ Abort("inner") /\ UNCHANGED <<i, esc, items, ran, firing, derived>>
        \/ Ended(out, rule, IF out = Nothing THEN esc ELSE Join(esc, Entry("out", out)))
  BY DEF EndElement, Ended
<1>. QED
  BY <1>1 DEF EndElement

LEMMA LoopKept == IInv /\ [Next]_vars => LoopInv'
<1>. SUFFICES ASSUME IInv, [Next]_vars PROVE LoopInv'
  OBVIOUS
<1>. USE DEF IInv
<1>1. CASE Sibling
  BY <1>1 DEF Sibling, LoopInv, OwnItem, loop, config
<1>2. CASE Replace
  BY <1>2 DEF Replace, LoopInv, OwnItem, loop, config
<1>3. CASE Call
  <2>1. /\ items' = <<>> /\ ran' = <<>> /\ i' = 1 /\ pc' \in {"idle", "loop"} /\ result' # "ok"
        /\ rollups' = rollups /\ collection' = collection
    BY <1>3 DEF Call, Return, config
  <2>2. list' = <<>> \/ (collection[1] = "list" /\ list' = collection[2])
    BY <1>3 DEF Call
  <2>3. collection \in Collections /\ rollups \in Rollups
    BY DEF LoopInv
  <2>4. list' \in Seq(Elements)
    BY <2>2, <2>3, ListsAre
  <2>. QED
    BY <2>1, <2>3, <2>4, EmptyIs DEF LoopInv
<1>4. CASE StartElement
  <2>0. /\ pc = "loop" /\ UNCHANGED <<config, collection, calls, list, items, ran>>
        /\ result = "none" /\ result' # "ok"
    BY <1>4 DEF StartElement, TypeOK, Abort, Return
  <2>1. IsList(items) /\ Len(items) \in Nat /\ i = Len(items) + 1 /\ Len(items) <= Len(list)
    BY <2>0, AppendIs DEF LoopInv, TypeOK
  <2>5. Len(list) \in Nat
    BY DEF LoopInv
  <2>2. CASE i > Len(list) /\ pc' = "rollup"
    <3>1. Len(items) = Len(list)
      BY <2>1, <2>2, <2>5
    <3>. QED
      BY <2>0, <2>2, <3>1 DEF LoopInv, OwnItem, config
  <2>3. CASE pc' = "idle"
    BY <2>0, <2>3 DEF LoopInv, OwnItem, config
  <2>4. CASE i <= Len(list) /\ esc' = Seed(list[i]) /\ pc' = "inner" /\ i' = i
    <3>1. "item" \in DOMAIN esc' /\ esc'["item"] = list[i] /\ "out" \notin DOMAIN esc'
      BY <2>4, SeedIs
    <3>. QED
      BY <2>0, <2>1, <2>4, <3>1 DEF LoopInv, OwnItem, config
  <2>. QED
    BY <1>4, <2>2, <2>3, <2>4 DEF StartElement, Abort, Return
<1>5. CASE EndElement
  <2>1. /\ pc = "inner" /\ UNCHANGED <<config, collection, calls, list, sibling, before>>
        /\ result = "none"
    BY <1>5, ElementEnds DEF TypeOK
  <2>2. CASE Abort("inner") /\ UNCHANGED <<i, esc, items, ran, firing, derived>>
    BY <2>1, <2>2 DEF LoopInv, OwnItem, config, Abort, Return
  <2>3. ASSUME NEW out \in Values \union {Nothing}, NEW rule \in Rules \union {Nothing}, NEW end,
               Ended(out, rule, end)
        PROVE  LoopInv'
    <3>1. /\ IsList(items) /\ IsList(ran) /\ i = Len(items) + 1 /\ Len(ran) = Len(items)
          /\ "item" \in DOMAIN esc /\ esc["item"] = list[i] /\ "out" \notin DOMAIN esc
      BY <2>1 DEF LoopInv, TypeOK
    <3>2. /\ IsList(items') /\ Len(items) \in Nat /\ DOMAIN items = 1 .. Len(items)
          /\ Len(items') = Len(items) + 1 /\ DOMAIN items' = 1 .. Len(items) + 1
          /\ items'[Len(items) + 1] = end /\ \A k \in DOMAIN items : items'[k] = items[k]
      BY <2>3, <3>1, AppendIs DEF Ended
    <3>3. /\ IsList(ran') /\ DOMAIN ran = 1 .. Len(ran)
          /\ ran'[Len(ran) + 1] = [out |-> out, rule |-> rule]
          /\ \A k \in DOMAIN ran : ran'[k] = ran[k]
      BY <2>3, <3>1, AppendIs DEF Ended
    <3>4. /\ end["item"] = list[i]
          /\ IF out = Nothing THEN "out" \notin DOMAIN end
             ELSE "out" \in DOMAIN end /\ end["out"] = out
      BY <2>3, <3>1, EndIs DEF Ended
    <3>5. ASSUME NEW k \in DOMAIN items'
          PROVE  /\ OwnItem(k)' /\ ran'[k].out \in Values \union {Nothing}
                 /\ ran'[k].rule \in Rules \union {Nothing}
      <4>1. CASE k = Len(items) + 1
        BY <2>1, <3>1, <3>2, <3>3, <3>4, <4>1 DEF OwnItem
      <4>2. CASE k # Len(items) + 1
        <5>1. k \in DOMAIN items /\ k \in DOMAIN ran
          BY <3>1, <3>2, <3>3, <4>2
        <5>2. OwnItem(k) /\ ran[k].out \in Values \union {Nothing}
              /\ ran[k].rule \in Rules \union {Nothing}
          BY <5>1 DEF LoopInv
        <5>. QED
          BY <2>1, <3>2, <3>3, <5>1, <5>2 DEF OwnItem
      <4>. QED
        BY <4>1, <4>2
    <3>6. i' = Len(items') + 1 /\ pc' = "loop" /\ result' = "none"
      BY <2>1, <2>3, <3>1, <3>2 DEF Ended
    <3>. QED
      BY <2>1, <3>2, <3>3, <3>5, <3>6 DEF LoopInv, config
  <2>. QED
    BY <1>5, <2>2, <2>3, ElementEnds
<1>6. CASE Rollup
  <2>1. /\ UNCHANGED <<config, collection, calls, loop, sibling, firing, derived, before>>
        /\ pc = "rollup" /\ pc' \in {"idle", "rollup", "write"} /\ result = "none" /\ result' # "ok"
    BY <1>6 DEF Rollup, Return, TypeOK
  <2>. QED
    BY <2>1 DEF LoopInv, OwnItem, loop, config
<1>7. CASE WriteItems
  <2>1. /\ UNCHANGED <<config, collection, calls, loop, i, sibling, firing, derived, before>>
        /\ pc = "write" /\ pc' = "idle"
    BY <1>7 DEF WriteItems, Return
  <2>. QED
    BY <2>1 DEF LoopInv, OwnItem, loop, config
<1>8. CASE UNCHANGED vars
  BY <1>8 DEF vars, LoopInv, OwnItem, loop, config
<1>. QED
  BY <1>1, <1>2, <1>3, <1>4, <1>5, <1>6, <1>7, <1>8 DEF Next, Idle

\* The type invariant and the loop's hold in every reachable state.
THEOREM InductiveInvariant == Spec => []IInv
<1>1. IInv /\ [Next]_vars => IInv'
  BY TypeKept, LoopKept DEF IInv
<1>. QED
  BY Initially, <1>1, PTL DEF Spec

\* Of every element that came to an end the result is its own: its element and its
\* own output, never that of another element's Scope (ForEach.Execute, foreach.go:185-202).
THEOREM ResultsApart == Spec => []ElementsApart
<1>1. IInv => ElementsApart
  BY DEF IInv, LoopInv, OwnItem, ElementsApart
<1>. QED
  BY InductiveInvariant, <1>1, PTL

LEMMA RecordsKept == IInv /\ RecordsFollowElements /\ [Next]_vars => RecordsFollowElements'
<1>. SUFFICES ASSUME IInv, RecordsFollowElements, [Next]_vars PROVE RecordsFollowElements'
  OBVIOUS
<1>. USE DEF IInv
<1>1. CASE UNCHANGED <<ran, items, provenance, before, firing, derived>>
  BY <1>1 DEF RecordsFollowElements
<1>2. CASE Call
  <2>1. ran' = <<>> /\ before' = <<header, firing, derived>> /\ firing' = firing /\ derived' = derived
    BY <1>2 DEF Call, outer
  <2>. QED
    BY <2>1, EmptyIs DEF RecordsFollowElements
<1>3. CASE EndElement
  <2>1. /\ pc = "inner" /\ UNCHANGED <<config, collection, calls, list, sibling, before>>
    BY <1>3, ElementEnds
  <2>2. CASE Abort("inner") /\ UNCHANGED <<i, esc, items, ran, firing, derived>>
    BY <1>1, <2>1, <2>2 DEF config
  <2>3. ASSUME NEW out \in Values \union {Nothing}, NEW rule \in Rules \union {Nothing}, NEW end,
               Ended(out, rule, end)
        PROVE  RecordsFollowElements'
    <3>1. /\ IsList(items) /\ IsList(ran) /\ i = Len(items) + 1 /\ Len(ran) = Len(items)
      BY <2>1 DEF LoopInv, TypeOK
    <3>2. /\ i \in Nat /\ i \notin DOMAIN ran
          /\ items'[i] = end /\ \A k \in DOMAIN items : items'[k] = items[k]
          /\ DOMAIN ran' = DOMAIN ran \union {i} /\ DOMAIN items = DOMAIN ran
          /\ ran'[i] = [out |-> out, rule |-> rule] /\ \A k \in DOMAIN ran : ran'[k] = ran[k]
      BY <2>3, <3>1, AppendIs DEF Ended
    <3>3. DOMAIN firing = Indices /\ DOMAIN derived = Indices
      BY DEF TypeOK
    <3>4. /\ provenance' = provenance /\ before' = before
          /\ \A k \in Indices : firing'[k] = IF k = i /\ rule # Nothing THEN rule ELSE firing[k]
          /\ \A k \in Indices :
               derived'[k] = IF k = i /\ provenance THEN Join(derived[k], end) ELSE derived[k]
      BY <2>1, <2>3, <3>3 DEF Ended, MergeFirings, MergeDerivations, config
    <3>5. ASSUME NEW k \in Indices
          PROVE  /\ firing'[k] = IF k \in DOMAIN ran' /\ ran'[k].rule # Nothing THEN ran'[k].rule
                                 ELSE before'[2][k]
                 /\ derived'[k] = IF k \in DOMAIN ran' /\ provenance' THEN Join(before'[3][k], items'[k])
                                  ELSE before'[3][k]
      <4>0. /\ firing[k] = IF k \in DOMAIN ran /\ ran[k].rule # Nothing THEN ran[k].rule ELSE before[2][k]
            /\ derived[k] = IF k \in DOMAIN ran /\ provenance THEN Join(before[3][k], items[k])
                            ELSE before[3][k]
        BY DEF RecordsFollowElements
      <4>1. CASE k = i
        BY <3>2, <3>4, <4>0, <4>1
      <4>2. CASE k # i
        BY <3>2, <3>4, <4>0, <4>2
      <4>. QED
        BY <4>1, <4>2
    <3>. QED
      BY <3>5 DEF RecordsFollowElements
  <2>. QED
    BY <1>3, <2>2, <2>3, ElementEnds
<1>. QED
  BY <1>1, <1>2, <1>3 DEF Next, Idle, Sibling, Replace, StartElement, Rollup, WriteItems,
     vars, loop, outer, config

\* The firings and derivations below the stage's prefixes are those of the elements
\* that ended in this call, whether the stage went on to fail or not, and else of
\* the call before (recordElementFirings and recordElementDerivations merge).
THEOREM RecordsFollow == Spec => []RecordsFollowElements
<1>1. Init => RecordsFollowElements
  BY EmptyIs DEF Init, RecordsFollowElements, outer
<1>2. IInv /\ RecordsFollowElements /\ [Next]_vars => RecordsFollowElements'
  BY RecordsKept
<1>. QED
  BY <1>1, <1>2, InductiveInvariant, PTL DEF Spec

\* While the elements run, and when the stage ends among them, its name is untouched.
LEMMA WaitKept == IInv /\ HeaderWaits /\ [Next]_vars => HeaderWaits'
<1>. SUFFICES ASSUME IInv, HeaderWaits, [Next]_vars PROVE HeaderWaits'
  OBVIOUS
<1>1. CASE Call
  BY <1>1 DEF Call, HeaderWaits, outer
<1>2. CASE StartElement
  BY <1>2 DEF StartElement, HeaderWaits, Abort
<1>3. CASE EndElement
  BY <1>3 DEF EndElement, HeaderWaits, Abort
<1>4. CASE Rollup
  <2>1. pc' \in {"rollup", "write"} \/ (pc' = "idle" /\ result' \in {"aggregate", "set"})
    BY <1>4 DEF Rollup, Return
  <2>. QED
    BY <2>1 DEF HeaderWaits
<1>5. CASE WriteItems
  BY <1>5 DEF WriteItems, Return, HeaderWaits
<1>6. CASE UNCHANGED <<pc, result, header, before>>
  BY <1>6 DEF HeaderWaits
<1>. QED
  BY <1>1, <1>2, <1>3, <1>4, <1>5, <1>6 DEF Next, Idle, Sibling, Replace, vars, outer

\* What the n-th roll-up makes of the header h.
Written(n, h) ==
  LET v == Reduced(rollups[n].agg, Outputs)
  IN  IF v = Nothing THEN h ELSE [h EXCEPT ![rollups[n].as] = v]

\* HeaderAfter adds the roll-ups one by one.
LEMMA HeaderSteps ==
  ASSUME Len(rollups) \in Nat
  PROVE  /\ HeaderAfter(0) = before[1]
         /\ \A n \in 1 .. Len(rollups) : HeaderAfter(n) = Written(n, HeaderAfter(n - 1))
<1> DEFINE N == Len(rollups)
           Run(f, n) == /\ f = [k \in 0 .. n |-> f[k]] /\ f[0] = before[1]
                        /\ \A k \in 1 .. n : f[k] = Written(k, f[k - 1])
           Body(f) == [k \in 0 .. N |->
                        IF k = 0 THEN before[1]
                        ELSE LET v == Reduced(rollups[k].agg, Outputs)
                             IN  IF v = Nothing THEN f[k - 1] ELSE [f[k - 1] EXCEPT ![rollups[k].as] = v]]
<1>0. N \in Nat
  OBVIOUS
<1>1. \A n \in Nat : \E f : Run(f, n)
  <2> DEFINE bad == {n \in Nat : ~\E f : Run(f, n)}
  <2>. SUFFICES ASSUME bad # {} PROVE FALSE
    OBVIOUS
  <2>1. PICK n \in bad : \A m \in bad : n <= m
    <3>1. bad \subseteq Nat
      OBVIOUS
    <3>. HIDE DEF bad
    <3>. QED
      BY <3>1, LeastOfNats
  <2>2. CASE n = 0
    <3> DEFINE g == [k \in 0 .. 0 |-> before[1]]
    <3>1. Run(g, 0)
      OBVIOUS
    <3>. QED
      BY <2>1, <2>2, <3>1
  <2>3. CASE n # 0
    <3>1. n \in Nat /\ n - 1 \in Nat /\ n - 1 \notin bad
      BY <2>1, <2>3
    <3>2. PICK f : Run(f, n - 1)
      BY <3>1
    <3> DEFINE g == [k \in 0 .. n |-> IF k = n THEN Written(n, f[n - 1]) ELSE f[k]]
    <3>3. g = [k \in 0 .. n |-> g[k]] /\ g[0] = before[1]
      BY <2>3, <3>1, <3>2
    <3>4. ASSUME NEW k \in 1 .. n PROVE g[k] = Written(k, g[k - 1])
      <4>1. g[k - 1] = f[k - 1] /\ k - 1 \in 0 .. n - 1
        BY <3>1
      <4>2. CASE k = n
        BY <3>1, <4>1, <4>2
      <4>3. CASE k # n
        <5>1. k \in 1 .. n - 1 /\ g[k] = f[k]
          BY <3>1, <4>3
        <5>. QED
          BY <3>2, <4>1, <5>1
      <4>. QED
        BY <4>2, <4>3
    <3>5. Run(g, n)
      BY <3>3, <3>4
    <3>. QED
      BY <2>1, <3>5
  <2>. QED
    BY <2>2, <2>3
<1>2. PICK f : Run(f, N)
  BY <1>0, <1>1
<1>3. f = Body(f)
  <2>1. ASSUME NEW k \in 0 .. N PROVE f[k] = Body(f)[k]
    <3>1. CASE k = 0
      BY <1>2, <3>1
    <3>2. CASE k # 0
      <4>1. k \in 1 .. N
        BY <1>0, <3>2
      <4>2. f[k] = Written(k, f[k - 1])
        BY <1>2, <4>1
      <4>. QED
        BY <3>2, <4>2 DEF Written
    <3>. QED
      BY <3>1, <3>2
  <2>. QED
    BY <1>2, <2>1
<1> DEFINE h == CHOOSE g : g = Body(g)
<1>4. h = Body(h)
  BY <1>3
<1>5. \A n : HeaderAfter(n) = h[n]
  BY DEF HeaderAfter
<1>. HIDE DEF h
<1>6. h[0] = before[1]
  BY <1>0, <1>4
<1>7. ASSUME NEW k \in 1 .. N PROVE h[k] = Written(k, h[k - 1])
  <2>1. k \in 0 .. N /\ k # 0
    BY <1>0
  <2>2. h[k] = Body(h)[k]
    BY <1>4
  <2>. QED
    BY <2>1, <2>2 DEF Written
<1>. QED
  BY <1>5, <1>6, <1>7

\* The roll-ups see the outputs of the elements: of the results, what each one gave.
LEMMA GivenIsOutputs == IInv => Given(items) = Outputs
<1>. SUFFICES ASSUME IInv PROVE Given(items) = Outputs
  OBVIOUS
<1>1. DOMAIN items = DOMAIN ran
  <2>1. IsList(items) /\ IsList(ran) /\ Len(items) = Len(ran)
    BY DEF IInv, LoopInv, TypeOK
  <2>2. DOMAIN items = 1 .. Len(items) /\ DOMAIN ran = 1 .. Len(ran)
    BY <2>1, AppendIs
  <2>. QED
    BY <2>1, <2>2
<1>2. ASSUME NEW k \in DOMAIN items PROVE Lookup(items[k]) = ran[k].out
  BY DEF IInv, LoopInv, OwnItem, Lookup
<1>3. [k \in DOMAIN items |-> Lookup(items[k])] = [k \in DOMAIN ran |-> ran[k].out]
  BY <1>1, <1>2
<1>. QED
  BY <1>3 DEF Given, Outputs

\* HeaderAfter depends on the roll-ups, the outputs and the header before alone.
LEMMA HeaderAfterStays ==
  UNCHANGED <<rollups, ran, before>> => \A n : HeaderAfter(n)' = HeaderAfter(n)
BY DEF HeaderAfter, Outputs

\* The header is what the roll-ups done so far make of the one before.
HeaderInv ==
  /\ pc = "rollup" => i \in 1 .. Len(rollups) + 1 /\ header = HeaderAfter(i - 1)
  /\ pc = "write" => header = HeaderAfter(Len(rollups))
  /\ RollupsMatchItems

LEMMA RollupWrites ==
  ASSUME IInv, HeaderInv, Rollup
  PROVE  HeaderInv'
<1>1. /\ UNCHANGED <<rollups, ran, before, items>> /\ pc = "rollup" /\ Len(rollups) \in Nat
      /\ i \in 1 .. Len(rollups) + 1 /\ header = HeaderAfter(i - 1)
  BY Constants DEF Rollup, loop, config, HeaderInv, IInv, LoopInv
<1>2. /\ HeaderAfter(0) = before[1]
      /\ \A n \in 1 .. Len(rollups) : HeaderAfter(n) = Written(n, HeaderAfter(n - 1))
  BY <1>1, HeaderSteps
<1>3. \A n : HeaderAfter(n)' = HeaderAfter(n)
  BY <1>1, HeaderAfterStays
<1>4. HeaderWaits'
  BY WaitKept DEF HeaderInv, RollupsMatchItems, Next
<1>5. CASE i > Len(rollups) /\ pc' = "write" /\ header' = header
  <2>1. header' = HeaderAfter(Len(rollups))
    BY <1>1, <1>5
  <2>2. header' = HeaderAfter(Len(rollups))'
    BY <1>1, <1>3, <2>1
  <2>. QED
    BY <1>4, <1>5, <2>2 DEF HeaderInv, RollupsMatchItems
<1>6. CASE i <= Len(rollups)
  <2> DEFINE r == rollups[i]
             v == Reduced(r.agg, Given(items))
  <2>1. i \in 1 .. Len(rollups) /\ HeaderAfter(i) = Written(i, header)
    BY <1>1, <1>2, <1>6
  <2>2. v = Reduced(rollups[i].agg, Outputs)
    BY GivenIsOutputs
  <2>3. \/ pc' = "idle" /\ result' \in {"aggregate", "set"} /\ header' = header
        \/ v = Nothing /\ i' = i + 1 /\ UNCHANGED <<pc, header, result>>
        \/ v # Nothing /\ Set(r.as, v) /\ i' = i + 1 /\ UNCHANGED <<pc, result>>
    BY <1>1, <1>6 DEF Rollup, Return
  <2>. HIDE DEF r, v
  <2>4. CASE pc' = "idle" /\ result' \in {"aggregate", "set"} /\ header' = header
    <3>1. i - 1 \in 0 .. Len(rollups) /\ rollups' = rollups /\ header' = HeaderAfter(i - 1)
      BY <1>1, <2>1, <2>4
    <3>2. \E n \in 0 .. Len(rollups') : header' = HeaderAfter(n)'
      BY <1>3, <3>1
    <3>. QED
      BY <1>4, <2>4, <3>2 DEF HeaderInv, RollupsMatchItems
  <2>5. CASE i' = i + 1 /\ pc' = pc /\ header' = Written(i, header)
    <3>1. /\ i' \in 1 .. Len(rollups) + 1 /\ i' - 1 = i /\ rollups' = rollups
          /\ header' = HeaderAfter(i' - 1)
      BY <1>1, <2>1, <2>5
    <3>2. header' = HeaderAfter(i - 1)'
      BY <1>3, <3>1
    <3>. QED
      BY <1>1, <1>4, <2>5, <3>1, <3>2 DEF HeaderInv, RollupsMatchItems
  <2>6. CASE v = Nothing /\ i' = i + 1 /\ UNCHANGED <<pc, header, result>>
    BY <2>2, <2>5, <2>6 DEF Written
  <2>7. CASE v # Nothing /\ Set(r.as, v) /\ i' = i + 1 /\ UNCHANGED <<pc, result>>
    BY <2>2, <2>5, <2>7 DEF Written, Set, r
  <2>. QED
    BY <2>3, <2>4, <2>6, <2>7
<1>. QED
  BY <1>1, <1>5, <1>6 DEF Rollup

LEMMA HeaderKept == IInv /\ HeaderInv /\ [Next]_vars => HeaderInv'
<1>. SUFFICES ASSUME IInv, HeaderInv, [Next]_vars PROVE HeaderInv'
  OBVIOUS
<1>0. HeaderWaits'
  BY WaitKept DEF HeaderInv, RollupsMatchItems
<1>1. CASE UNCHANGED <<rollups, ran, before, items, pc, i, header, result>>
  <2>1. \A n : HeaderAfter(n)' = HeaderAfter(n)
    BY <1>1, HeaderAfterStays
  <2>2. CASE pc = "rollup"
    BY <1>0, <1>1, <2>1, <2>2 DEF HeaderInv, RollupsMatchItems
  <2>3. CASE pc = "write"
    BY <1>0, <1>1, <2>1, <2>3 DEF HeaderInv, RollupsMatchItems
  <2>4. CASE pc = "idle"
    <3>1. CASE result \in {"aggregate", "set"}
      <4>1. PICK n \in 0 .. Len(rollups) : header = HeaderAfter(n)
        BY <2>4, <3>1 DEF HeaderInv, RollupsMatchItems
      <4>2. n \in 0 .. Len(rollups') /\ header' = HeaderAfter(n)'
        BY <1>1, <2>1, <4>1
      <4>. QED
        BY <1>0, <1>1, <2>4, <3>1, <4>2 DEF HeaderInv, RollupsMatchItems
    <3>2. CASE result = "ok"
      BY <1>0, <1>1, <2>1, <2>4, <3>2 DEF HeaderInv, RollupsMatchItems
    <3>3. CASE result \notin {"aggregate", "set", "ok"}
      BY <1>0, <1>1, <2>4, <3>3 DEF HeaderInv, RollupsMatchItems
    <3>. QED
      BY <3>1, <3>2, <3>3
  <2>5. CASE pc \notin {"rollup", "write", "idle"}
    BY <1>0, <1>1, <2>5 DEF HeaderInv, RollupsMatchItems
  <2>. QED
    BY <2>2, <2>3, <2>4, <2>5
<1>2. CASE Call
  BY <1>0, <1>2 DEF Call, Return, HeaderInv, RollupsMatchItems
<1>3. CASE StartElement
  <2>1. /\ pc = "loop" /\ UNCHANGED <<rollups, ran, before, header>>
        /\ header = before[1] /\ Len(rollups) \in Nat
    BY <1>3, Constants DEF StartElement, config, Abort, HeaderInv, RollupsMatchItems, HeaderWaits,
       IInv, LoopInv
  <2>2. \A n : HeaderAfter(n)' = HeaderAfter(n)
    BY <2>1, HeaderAfterStays
  <2>3. CASE pc' = "rollup" /\ i' = 1
    <3>1. header' = HeaderAfter(0)
      BY <2>1, HeaderSteps
    <3>2. i' - 1 = 0 /\ i' \in 1 .. Len(rollups') + 1 /\ header' = HeaderAfter(i - 1)'
      BY <2>1, <2>2, <2>3, <3>1
    <3>. QED
      BY <1>0, <2>3, <3>2 DEF HeaderInv, RollupsMatchItems
  <2>4. CASE (pc' = "idle" /\ result' = "ctx") \/ pc' = "inner"
    BY <1>0, <2>4 DEF HeaderInv, RollupsMatchItems
  <2>. QED
    BY <1>3, <2>3, <2>4 DEF StartElement, Abort, Return
<1>4. CASE EndElement
  <2>1. (pc' = "idle" /\ result' = "inner") \/ pc' = "loop"
    BY <1>4, ElementEnds DEF Abort, Return, Ended
  <2>. QED
    BY <1>0, <2>1 DEF HeaderInv, RollupsMatchItems
<1>5. CASE Rollup
  BY <1>5, RollupWrites
<1>6. CASE WriteItems
  <2>1. /\ UNCHANGED <<rollups, ran, before, items>> /\ pc' = "idle" /\ Len(rollups) \in Nat
        /\ header = HeaderAfter(Len(rollups))
    BY <1>6, Constants DEF WriteItems, Return, loop, config, HeaderInv, IInv, LoopInv
  <2>2. \A n : HeaderAfter(n)' = HeaderAfter(n)
    BY <2>1, HeaderAfterStays
  <2>3. CASE result' = "set" /\ header' = header
    <3>1. Len(rollups) \in 0 .. Len(rollups') /\ header' = HeaderAfter(Len(rollups))'
      BY <2>1, <2>2, <2>3
    <3>2. \E n \in 0 .. Len(rollups') : header' = HeaderAfter(n)'
      BY <2>1, <2>2, <2>3, <3>1
    <3>. QED
      BY <1>0, <2>1, <2>3, <3>2 DEF HeaderInv, RollupsMatchItems
  <2>4. CASE result' = "ok" /\ header' = [header EXCEPT ![Items] = <<"items", items>>]
    <3>1. header = HeaderAfter(Len(rollups))'
      BY <2>1, <2>2
    <3>2. header' = [HeaderAfter(Len(rollups))' EXCEPT ![Items] = <<"items", items'>>]
      BY <2>1, <2>4, <3>1
    <3>. QED
      BY <1>0, <2>1, <2>4, <3>2 DEF HeaderInv, RollupsMatchItems
  <2>. QED
    BY <1>6, <2>3, <2>4 DEF WriteItems, Return, Set
<1>. QED
  BY <1>1, <1>2, <1>3, <1>4, <1>5, <1>6 DEF Next, Idle, Sibling, Replace, vars, outer, loop, config

\* A call that succeeds leaves under the stage's name what its roll-ups make of its own
\* elements' outputs, and its results; one that fails on a roll-up leaves those before
\* it, and one that fails earlier leaves nothing (ForEach.applyRollup, foreach.go:204-213).
THEOREM RollupsWritten == Spec => []RollupsMatchItems
<1>1. Init => HeaderInv
  BY DEF Init, HeaderInv, RollupsMatchItems, HeaderWaits
<1>2. IInv /\ HeaderInv /\ [Next]_vars => HeaderInv'
  BY HeaderKept
<1>3. HeaderInv => RollupsMatchItems
  BY DEF HeaderInv
<1>. QED
  BY <1>1, <1>2, <1>3, InductiveInvariant, PTL DEF Spec
=============================================================================
