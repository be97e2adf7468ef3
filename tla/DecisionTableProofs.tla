-------------------------- MODULE DecisionTableProofs --------------------------
(* What a decision table records, writes and leaves behind, for every table, *)
(* every outcome of its expressions and every number of calls.               *)
EXTENDS DecisionTable, StageGraphProofs, FiniteSetTheorems

\* Moving the head of the second list to the end of the first.
LEMMA ShiftOne ==
  ASSUME NEW S, NEW s \in Seq(S), NEW t \in Seq(S), t # <<>>
  PROVE  /\ Append(s, Head(t)) \o Tail(t) = s \o t
         /\ Append(s, Head(t)) \in Seq(S) /\ Tail(t) \in Seq(S) /\ Head(t) \in S
  OBVIOUS

\* The loop of FlattenSeq.
LEMMA FlattenLoop ==
  ASSUME NEW A, NEW ss \in Seq(Seq(A)), ss # <<>>
  PROVE  \E f : /\ DOMAIN f = 1 .. Len(ss) /\ f[1] = ss[1]
                /\ \A k \in 2 .. Len(ss) : f[k] = f[k - 1] \o ss[k]
                /\ FlattenSeq(ss) = f[Len(ss)]
<1> DEFINE N == Len(ss)
           Run(f, n) == /\ f = [k \in 1 .. n |-> f[k]] /\ f[1] = ss[1]
                        /\ \A k \in 2 .. n : f[k] = f[k - 1] \o ss[k]
           Body(f) == [k \in 1 .. N |-> IF k = 1 THEN ss[k] ELSE f[k - 1] \o ss[k]]
<1>0. N \in Nat /\ N # 0
  OBVIOUS
<1>1. \A n \in Nat \ {0} : \E f : Run(f, n)
  <2> DEFINE bad == {n \in Nat \ {0} : ~\E f : Run(f, n)}
  <2>. SUFFICES ASSUME bad # {} PROVE FALSE
    OBVIOUS
  <2>1. PICK n \in bad : \A m \in bad : n <= m
    <3>1. bad \subseteq Nat
      OBVIOUS
    <3>. HIDE DEF bad
    <3>. QED
      BY <3>1, LeastOfNats
  <2>2. CASE n = 1
    <3> DEFINE g == [k \in 1 .. 1 |-> ss[1]]
    <3>1. Run(g, 1)
      OBVIOUS
    <3>. QED
      BY <2>1, <2>2, <3>1
  <2>3. CASE n # 1
    <3>0. n \in Nat /\ n > 1
      BY <2>1, <2>3
    <3>1. n - 1 \in Nat \ {0} /\ n - 1 \notin bad
      <4>1. n - 1 \in Nat \ {0} /\ n - 1 < n
        BY <3>0
      <4>. HIDE DEF bad
      <4>. QED
        BY <2>1, <3>0, <4>1
    <3>2. PICK f : Run(f, n - 1)
      BY <3>1
    <3> DEFINE g == [k \in 1 .. n |-> IF k = n THEN f[n - 1] \o ss[n] ELSE f[k]]
    <3>3. g = [k \in 1 .. n |-> g[k]] /\ g[1] = ss[1]
      <4>1. f[1] = ss[1]
        BY <3>2
      <4>2. 1 \in 1 .. n /\ 1 # n
        BY <2>3, <3>0
      <4>3. g[1] = f[1]
        BY <4>2
      <4>. QED
        BY <4>1, <4>3
    <3>4. ASSUME NEW k \in 2 .. n PROVE g[k] = g[k - 1] \o ss[k]
      <4>0. k \in 1 .. n /\ k - 1 \in 1 .. n - 1 /\ k - 1 \in 1 .. n /\ k - 1 # n
        BY <3>0
      <4>1. g[k - 1] = f[k - 1]
        BY <4>0
      <4>2. CASE k = n
        BY <4>0, <4>1, <4>2
      <4>3. CASE k # n
        <5>1. k \in 2 .. n - 1 /\ g[k] = f[k]
          BY <3>0, <4>0, <4>3
        <5>. QED
          BY <3>2, <4>1, <5>1
      <4>. QED
        BY <4>2, <4>3
    <3>5. Run(g, n)
      BY <3>3, <3>4
    <3>. QED
      BY <2>1, <3>5
  <2>. QED
    BY <2>2, <2>3
<1>2. PICK f : Run(f, N)
  BY <1>0, <1>1
<1>3. f = Body(f)
  <2>1. ASSUME NEW k \in 1 .. N PROVE f[k] = Body(f)[k]
    <3>1. CASE k = 1
      BY <1>2, <3>1
    <3>2. CASE k # 1
      <4>1. k \in 2 .. N
        BY <1>0, <3>2
      <4>. QED
        BY <1>2, <3>2, <4>1
    <3>. QED
      BY <3>1, <3>2
  <2>. QED
    BY <1>2, <2>1
<1> DEFINE h == CHOOSE g : g = Body(g)
<1>4. h = Body(h)
  BY <1>3
<1>5. FlattenSeq(ss) = h[N]
  BY <1>0 DEF FlattenSeq
<1>. HIDE DEF h
<1>6. DOMAIN h = 1 .. N /\ h[1] = ss[1]
  BY <1>0, <1>4
<1>7. ASSUME NEW k \in 2 .. N PROVE h[k] = h[k - 1] \o ss[k]
  <2>1. k \in 1 .. N /\ k # 1
    BY <1>0
  <2>2. h[k] = Body(h)[k]
    BY <1>4
  <2>. QED
    BY <2>1, <2>2
<1>. QED
  BY <1>5, <1>6, <1>7

\* What FlattenSeq gives for no list, for one, and for one list more; and that it
\* holds every element of every list.
LEMMA FlattenIs ==
  ASSUME NEW A, NEW ss \in Seq(Seq(A))
  PROVE  /\ FlattenSeq(ss) \in Seq(A)
         /\ \A j \in DOMAIN ss : MemberOf(ss[j]) \subseteq MemberOf(FlattenSeq(ss))
<1>1. CASE ss = <<>>
  BY <1>1 DEF FlattenSeq
<1>2. CASE ss # <<>>
  <2> DEFINE N == Len(ss)
  <2>0. N \in Nat /\ N # 0 /\ DOMAIN ss = 1 .. N /\ \A k \in 1 .. N : ss[k] \in Seq(A)
    BY <1>2
  <2>1. PICK f : /\ DOMAIN f = 1 .. N /\ f[1] = ss[1]
                 /\ \A k \in 2 .. N : f[k] = f[k - 1] \o ss[k]
                 /\ FlattenSeq(ss) = f[N]
    BY <1>2, FlattenLoop
  <2> DEFINE Good(k) == f[k] \in Seq(A) /\ \A j \in 1 .. k : MemberOf(ss[j]) \subseteq MemberOf(f[k])
             bad == {k \in 1 .. N : ~Good(k)}
  <2>. HIDE DEF N
  <2>2. bad = {}
    <3>. SUFFICES ASSUME bad # {} PROVE FALSE
      OBVIOUS
    <3>1. PICK k \in bad : \A m \in bad : k <= m
      <4>1. bad \subseteq Nat
        OBVIOUS
      <4>. HIDE DEF bad
      <4>. QED
        BY <4>1, LeastOfNats
    <3>2. CASE k = 1
      <4>1. Good(1)
        BY <2>0, <2>1
      <4>. HIDE DEF Good
      <4>. QED
        BY <3>1, <3>2, <4>1
    <3>3. CASE k # 1
      <4>1. k \in 2 .. N /\ k - 1 \in 1 .. N /\ k - 1 < k /\ k \in 1 .. N
        BY <2>0, <3>1, <3>3
      <4>2. k - 1 \notin bad
        <5>. HIDE DEF bad
        <5>. QED
          BY <3>1, <4>1
      <4>3. f[k - 1] \in Seq(A) /\ \A j \in 1 .. k - 1 : MemberOf(ss[j]) \subseteq MemberOf(f[k - 1])
        BY <4>1, <4>2
      <4>4. ss[k] \in Seq(A) /\ f[k] = f[k - 1] \o ss[k]
        BY <2>0, <2>1, <4>1
      <4>5. f[k] \in Seq(A) /\ MemberOf(f[k]) = MemberOf(f[k - 1]) \union MemberOf(ss[k])
        BY <4>3, <4>4, ConcatIs
      <4>6. ASSUME NEW j \in 1 .. k PROVE MemberOf(ss[j]) \subseteq MemberOf(f[k])
        <5>1. j = k \/ j \in 1 .. k - 1
          BY <4>1
        <5>. QED
          BY <4>3, <4>5, <5>1
      <4>7. Good(k)
        BY <4>5, <4>6
      <4>. HIDE DEF Good
      <4>. QED
        BY <3>1, <4>7
    <3>. QED
      BY <3>2, <3>3
  <2>3. N \in 1 .. N
    BY <2>0
  <2>4. Good(N)
    BY <2>2, <2>3
  <2>. QED
    BY <2>0, <2>1, <2>4
<1>. QED
  BY <1>1, <1>2

LEMMA FlattenOne ==
  ASSUME NEW A, NEW s \in Seq(A)
  PROVE  FlattenSeq(<<s>>) = s
<1>1. <<s>> \in Seq(Seq(A)) /\ <<s>> # <<>> /\ Len(<<s>>) = 1 /\ <<s>>[1] = s
  OBVIOUS
<1>2. PICK f : f[1] = <<s>>[1] /\ FlattenSeq(<<s>>) = f[Len(<<s>>)]
  BY <1>1, FlattenLoop
<1>. QED
  BY <1>1, <1>2

LEMMA FlattenAppend ==
  ASSUME NEW A, NEW ss \in Seq(Seq(A)), NEW s \in Seq(A)
  PROVE  FlattenSeq(Append(ss, s)) = FlattenSeq(ss) \o s
<1> DEFINE t == Append(ss, s)
           N == Len(ss)
<1>0. /\ t \in Seq(Seq(A)) /\ t # <<>> /\ N \in Nat /\ Len(t) = N + 1 /\ t[N + 1] = s
      /\ \A k \in 1 .. N : t[k] = ss[k]
  <2> DEFINE S == Seq(A)
  <2>1. ss \in Seq(S) /\ s \in S
    OBVIOUS
  <2>. HIDE DEF S
  <2>2. /\ t \in Seq(S) /\ t # <<>> /\ N \in Nat /\ Len(t) = N + 1 /\ t[N + 1] = s
        /\ \A k \in 1 .. N : t[k] = ss[k]
    BY <2>1
  <2>. QED
    BY <2>2 DEF S
<1>1. CASE ss = <<>>
  <2>1. t = <<s>> /\ FlattenSeq(ss) = <<>> /\ <<>> \o s = s
    BY <1>1 DEF FlattenSeq
  <2>. QED
    BY <2>1, FlattenOne
<1>2. CASE ss # <<>>
  <2>0. N # 0
    BY <1>2
  <2>1. PICK f : /\ DOMAIN f = 1 .. N /\ f[1] = ss[1]
                 /\ \A k \in 2 .. N : f[k] = f[k - 1] \o ss[k]
                 /\ FlattenSeq(ss) = f[N]
    BY <1>2, FlattenLoop
  <2>. HIDE DEF t, N
  <2>2. PICK g : /\ DOMAIN g = 1 .. Len(t) /\ g[1] = t[1]
                 /\ \A k \in 2 .. Len(t) : g[k] = g[k - 1] \o t[k]
                 /\ FlattenSeq(t) = g[Len(t)]
    BY <1>0, FlattenLoop
  <2> DEFINE bad == {k \in 1 .. N : f[k] # g[k]}
  <2>3. bad = {}
    <3>. SUFFICES ASSUME bad # {} PROVE FALSE
      OBVIOUS
    <3>1. PICK k \in bad : \A m \in bad : k <= m
      <4>1. bad \subseteq Nat
        OBVIOUS
      <4>. HIDE DEF bad
      <4>. QED
        BY <4>1, LeastOfNats
    <3>2. k \in 1 .. N /\ 1 \in 1 .. N
      BY <1>0, <2>0, <3>1
    <3>3. k # 1
      BY <1>0, <2>1, <2>2, <3>1, <3>2
    <3>4. k \in 2 .. N /\ k \in 2 .. Len(t) /\ k - 1 \in 1 .. N /\ k - 1 < k
      BY <1>0, <3>2, <3>3
    <3>5. f[k - 1] = g[k - 1]
      BY <3>1, <3>4
    <3>6. f[k] = g[k]
      BY <1>0, <2>1, <2>2, <3>2, <3>4, <3>5
    <3>. QED
      BY <3>1, <3>6
  <2>4. N \in 1 .. N /\ N + 1 \in 2 .. Len(t) /\ (N + 1) - 1 = N
    BY <1>0, <2>0
  <2>5. f[N] = g[N] /\ g[N + 1] = g[N] \o t[N + 1]
    BY <2>2, <2>3, <2>4
  <2>6. FlattenSeq(t) = FlattenSeq(ss) \o s
    BY <1>0, <2>1, <2>2, <2>5
  <2>. QED
    BY <2>6 DEF t
<1>. QED
  BY <1>1, <1>2

N == Len(tab.rules)
Cell == (0 .. N) \X Keys

\* What the constants are.
LEMMA Constants ==
  ASSUME tab \in Tables
  PROVE  /\ MaxCalls \in Nat /\ Error \notin Values /\ N \in Nat /\ tab.policy \in Policies
         /\ \A k \in 0 .. N : Rule(k) \in Seq(Keys) /\ NoRepeats(Rule(k))
<1>1. /\ tab.rules \in Seq(Seq(Keys)) /\ tab.defaults \in Seq(Keys) /\ NoRepeats(tab.defaults)
      /\ MaxCalls \in Nat /\ Error \notin Values /\ tab.policy \in Policies
      /\ \A k \in DOMAIN tab.rules : NoRepeats(tab.rules[k])
  BY TableAssumption
<1>2. N \in Nat /\ DOMAIN tab.rules = 1 .. N /\ \A k \in 1 .. N : tab.rules[k] \in Seq(Keys)
  BY <1>1 DEF N
<1>3. \A k \in 0 .. N : k = 0 \/ k \in 1 .. N
  BY <1>2
<1>. QED
  BY <1>1, <1>2, <1>3 DEF Rule

\* The decisions of one rule, of none, and of one rule more.
Row(r) == [k \in DOMAIN Rule(r) |-> <<r, Rule(r)[k]>>]

LEMMA RowIs ==
  ASSUME tab \in Tables, NEW r \in 0 .. N
  PROVE  /\ Row(r) \in Seq(Cell) /\ Len(Row(r)) = Len(Rule(r)) /\ DOMAIN Row(r) = DOMAIN Rule(r)
         /\ \A k \in DOMAIN Rule(r) : Row(r)[k] = <<r, Rule(r)[k]>>
<1>1. Rule(r) \in Seq(Keys)
  BY Constants
<1>2. Len(Rule(r)) \in Nat /\ DOMAIN Rule(r) = 1 .. Len(Rule(r)) /\ \A k \in DOMAIN Rule(r) : Rule(r)[k] \in Keys
  BY <1>1
<1>3. \A k \in DOMAIN Rule(r) : <<r, Rule(r)[k]>> \in Cell
  BY <1>2 DEF Cell
<1>. QED
  BY <1>2, <1>3 DEF Row

LEMMA RowsIs ==
  ASSUME tab \in Tables, NEW rs \in Seq(0 .. N)
  PROVE  [j \in DOMAIN rs |-> Row(rs[j])] \in Seq(Seq(Cell))
<1>1. \A j \in DOMAIN rs : rs[j] \in 0 .. N
  BY MembersIn DEF MemberOf
<1>2. \A j \in DOMAIN rs : Row(rs[j]) \in Seq(Cell)
  BY <1>1, RowIs
<1>3. DOMAIN rs = 1 .. Len(rs) /\ Len(rs) \in Nat
  OBVIOUS
<1> DEFINE S == Seq(Cell)
<1>. HIDE DEF S
<1>4. [j \in DOMAIN rs |-> Row(rs[j])] \in Seq(S)
  BY <1>2, <1>3 DEF S
<1>. QED
  BY <1>4 DEF S

LEMMA CellsIs ==
  ASSUME tab \in Tables, NEW rs \in Seq(0 .. N)
  PROVE  /\ Cells(rs) \in Seq(Cell)
         /\ \A j \in DOMAIN rs : \A key \in MemberOf(Rule(rs[j])) :
              \E m \in DOMAIN Cells(rs) : Cells(rs)[m] = <<rs[j], key>>
<1> DEFINE ss == [j \in DOMAIN rs |-> Row(rs[j])]
<1>1. ss \in Seq(Seq(Cell)) /\ Cells(rs) = FlattenSeq(ss)
  BY RowsIs DEF Cells, Row
<1>2. /\ Cells(rs) \in Seq(Cell)
      /\ \A j \in DOMAIN ss : MemberOf(ss[j]) \subseteq MemberOf(Cells(rs))
  BY <1>1, FlattenIs
<1>3. ASSUME NEW j \in DOMAIN rs, NEW key \in MemberOf(Rule(rs[j]))
      PROVE  <<rs[j], key>> \in MemberOf(Cells(rs))
  <2>1. rs[j] \in 0 .. N
    BY MembersIn DEF MemberOf
  <2>2. PICK k \in DOMAIN Rule(rs[j]) : key = Rule(rs[j])[k]
    BY DEF MemberOf
  <2>3. <<rs[j], key>> \in MemberOf(ss[j])
    BY <2>1, <2>2, RowIs DEF MemberOf
  <2>. QED
    BY <1>2, <2>3
<1>. QED
  BY <1>2, <1>3 DEF MemberOf

LEMMA CellsOne ==
  ASSUME tab \in Tables, NEW r \in 0 .. N
  PROVE  Cells(<<r>>) = Row(r)
<1>1. [j \in DOMAIN <<r>> |-> Row(<<r>>[j])] = <<Row(r)>>
  OBVIOUS
<1>2. Row(r) \in Seq(Cell)
  BY RowIs
<1>. QED
  BY <1>1, <1>2, FlattenOne DEF Cells, Row

LEMMA CellsAppend ==
  ASSUME tab \in Tables, NEW rs \in Seq(0 .. N), NEW r \in 0 .. N
  PROVE  Cells(Append(rs, r)) = Cells(rs) \o Cells(<<r>>)
<1> DEFINE ss == [j \in DOMAIN rs |-> Row(rs[j])]
           tt == [j \in DOMAIN Append(rs, r) |-> Row(Append(rs, r)[j])]
<1>1. ss \in Seq(Seq(Cell)) /\ Row(r) \in Seq(Cell)
  BY RowsIs, RowIs
<1>2. tt = Append(ss, Row(r))
  <2>1. Len(rs) \in Nat /\ DOMAIN rs = 1 .. Len(rs) /\ DOMAIN Append(rs, r) = 1 .. Len(rs) + 1
        /\ Append(rs, r)[Len(rs) + 1] = r /\ \A j \in 1 .. Len(rs) : Append(rs, r)[j] = rs[j]
    OBVIOUS
  <2>2. Len(ss) = Len(rs)
    BY <2>1
  <2>. QED
    BY <2>1, <2>2
<1>3. FlattenSeq(tt) = FlattenSeq(ss) \o Row(r)
  <2>. HIDE DEF ss, tt
  <2>. QED
    BY <1>1, <1>2, FlattenAppend
<1>. QED
  BY <1>3, CellsOne DEF Cells, Row

\* Matched lists the rules that matched, in rule order, and grows by one with a match.
LEMMA MatchedIs ==
  ASSUME tests \in Seq({"yes", "no", "error"})
  PROVE  /\ Matched \in Seq(1 .. Len(tests)) /\ Ascending(Matched, Yes)
         /\ Matched = <<>> <=> Yes = {}
<1> DEFINE A == 1 .. Len(tests)
           list == [k \in DOMAIN tests |-> k]
<1>1. Len(tests) \in Nat /\ DOMAIN tests = A
  OBVIOUS
<1>2. list = [k \in 1 .. Len(tests) |-> k] /\ Len(list) = Len(tests)
  BY <1>1
<1>3. list \in Seq(A) /\ NoRepeats(list) /\ MemberOf(list) = A
  BY <1>1, <1>2 DEF NoRepeats, MemberOf
<1>4. \A k \in A : FirstIndex(list, {k}) = k
  <2>. SUFFICES ASSUME NEW k \in A PROVE FirstIndex(list, {k}) = k
    OBVIOUS
  <2>1. k \in DOMAIN list /\ list[k] = k
    BY <1>1
  <2>. HIDE DEF A, list
  <2>. QED
    BY <1>3, <2>1, PlaceOf
<1>. HIDE DEF A, list
<1>5. /\ Kept(list, Yes) \in Seq(A)
      /\ MemberOf(Kept(list, Yes)) = MemberOf(list) \cap Yes
      /\ \A a, b \in DOMAIN Kept(list, Yes) :
           a < b => FirstIndex(list, {Kept(list, Yes)[a]}) < FirstIndex(list, {Kept(list, Yes)[b]})
  BY <1>3, KeptIs
<1>6. Matched = Kept(list, Yes)
  BY DEF Matched, list
<1>7. Yes \subseteq A
  BY <1>1 DEF Yes
<1>8. MemberOf(Matched) = Yes /\ Matched \in Seq(A)
  BY <1>3, <1>5, <1>6, <1>7
<1>9. \A a \in DOMAIN Matched : Matched[a] \in A
  BY <1>7, <1>8 DEF MemberOf
<1>10. \A a, b \in DOMAIN Matched : a < b => Matched[a] < Matched[b]
  BY <1>4, <1>5, <1>6, <1>9
<1>11. Matched = <<>> <=> Yes = {}
  <2>1. Matched = <<>> => MemberOf(Matched) = {}
    BY DEF MemberOf
  <2>2. Matched # <<>> => 1 \in DOMAIN Matched
    BY <1>8
  <2>3. Matched # <<>> => MemberOf(Matched) # {}
    BY <2>2 DEF MemberOf
  <2>. QED
    BY <1>8, <2>1, <2>3
<1>. QED
  BY <1>8, <1>10, <1>11 DEF Ascending, A

LEMMA MatchedGrows ==
  ASSUME tests \in Seq({"yes", "no", "error"}), NEW outcome \in {"yes", "no", "error"},
         tests' = Append(tests, outcome)
  PROVE  /\ Yes' = IF outcome = "yes" THEN Yes \union {Len(tests) + 1} ELSE Yes
         /\ Matched' = IF outcome = "yes" THEN Append(Matched, Len(tests) + 1) ELSE Matched
         /\ Len(tests') = Len(tests) + 1 /\ Len(tests) \in Nat
         /\ tests' \in Seq({"yes", "no", "error"})
<1> DEFINE n == Len(tests)
           A == 1 .. n + 1
           list == [k \in DOMAIN tests |-> k]
<1>1. /\ n \in Nat /\ DOMAIN tests = 1 .. n /\ DOMAIN tests' = 1 .. n + 1
      /\ tests'[n + 1] = outcome /\ \A k \in 1 .. n : tests'[k] = tests[k]
      /\ Len(tests') = n + 1 /\ tests' \in Seq({"yes", "no", "error"})
  OBVIOUS
<1>. HIDE DEF n
<1>2. Yes' = IF outcome = "yes" THEN Yes \union {n + 1} ELSE Yes
  <2>1. DOMAIN tests' = DOMAIN tests \union {n + 1} /\ n + 1 \notin DOMAIN tests
    BY <1>1
  <2>2. \A k \in DOMAIN tests : tests'[k] = tests[k]
    BY <1>1
  <2>. QED
    BY <1>1, <2>1, <2>2 DEF Yes
<1>3. list = [k \in 1 .. n |-> k] /\ n + 1 \in A /\ \A k \in 1 .. n : k \in A
  BY <1>1
<1>4. list \in Seq(A) /\ Len(list) = n /\ Append(list, n + 1) = [k \in DOMAIN tests' |-> k]
  <2>1. list \in [1 .. n -> A]
    BY <1>3
  <2>2. list \in Seq(A) /\ Len(list) = n
    BY <1>1, <2>1
  <2>3. Append(list, n + 1) = [k \in 1 .. n + 1 |-> k]
    BY <1>1, <1>3, <2>2
  <2>. QED
    BY <1>1, <2>2, <2>3
<1>. HIDE DEF list, A
<1>5. Kept(Append(list, n + 1), Yes') =
        IF n + 1 \in Yes' THEN Append(Kept(list, Yes'), n + 1) ELSE Kept(list, Yes')
  <2> DEFINE S == Yes'
  <2>. HIDE DEF S
  <2>1. Kept(Append(list, n + 1), S) =
          IF n + 1 \in S THEN Append(Kept(list, S), n + 1) ELSE Kept(list, S)
    <3>1. list \in Seq(A) /\ n + 1 \in A
      BY <1>3, <1>4
    <3> DEFINE e == n + 1
    <3>. HIDE DEF e
    <3>2. Kept(Append(list, e), S) = IF e \in S THEN Append(Kept(list, S), e) ELSE Kept(list, S)
      BY <3>1, KeptAppend DEF e
    <3>. QED
      BY <3>2 DEF e
  <2>. QED
    BY <2>1 DEF S
<1>6. n + 1 \notin Yes /\ (n + 1 \in Yes' <=> outcome = "yes")
  BY <1>1, <1>2 DEF Yes
<1>7. \A k \in DOMAIN list : list[k] \in Yes' <=> list[k] \in Yes
  <2>1. \A k \in DOMAIN list : list[k] # n + 1
    BY <1>1 DEF list
  <2>. QED
    BY <1>2, <2>1
<1>8. Kept(list, Yes') = Kept(list, Yes)
  <2> DEFINE S == Yes'
  <2>. HIDE DEF S
  <2>1. \A k \in DOMAIN list : list[k] \in S <=> list[k] \in Yes
    BY <1>7 DEF S
  <2>2. Kept(list, S) = Kept(list, Yes)
    BY <1>4, <2>1, KeptSame
  <2>. QED
    BY <2>2 DEF S
<1>9. Matched' = Kept(Append(list, n + 1), Yes') /\ Matched = Kept(list, Yes)
  BY <1>4 DEF Matched, list
<1>. QED
  BY <1>1, <1>2, <1>5, <1>6, <1>8, <1>9 DEF n

Evaluation == [cell : Cell, v : Values \union {Error}]

\* The values of a key are those it has been evaluated to.
LEMMA GivenIs ==
  ASSUME values \in Seq(Evaluation), NEW key \in Keys
  PROVE  /\ Given(key) \in Seq(Values)
         /\ Given(key) # <<>> <=> \E j \in DOMAIN values :
                                    values[j].cell[2] = key /\ values[j].v \in Values
<1> DEFINE own == Kept(values, Evaluations(key))
<1>1. own \in Seq(Evaluation) /\ MemberOf(own) = MemberOf(values) \cap Evaluations(key)
  BY KeptIn
<1>2. Given(key) = [j \in DOMAIN own |-> own[j].v]
  BY DEF Given
<1>. HIDE DEF own
<1>3. Len(own) \in Nat /\ DOMAIN own = 1 .. Len(own)
  BY <1>1
<1>4. \A j \in DOMAIN own : own[j] \in Evaluations(key) /\ own[j].v \in Values
  BY <1>1 DEF MemberOf, Evaluations
<1>5. Given(key) \in Seq(Values) /\ (Given(key) # <<>> <=> own # <<>>)
  <2> DEFINE G == Given(key)
  <2>1. G = [j \in 1 .. Len(own) |-> own[j].v] /\ \A j \in 1 .. Len(own) : own[j].v \in Values
    BY <1>2, <1>3, <1>4
  <2>. HIDE DEF G
  <2>2. G \in [1 .. Len(own) -> Values]
    BY <2>1
  <2>3. G \in Seq(Values) /\ Len(G) = Len(own)
    BY <1>3, <2>2
  <2>4. (G # <<>> <=> Len(G) # 0) /\ (own # <<>> <=> Len(own) # 0)
    BY <1>1, <2>3
  <2>. QED
    BY <2>3, <2>4 DEF G
<1>6. own # <<>> <=> MemberOf(own) # {}
  <2>1. own # <<>> <=> Len(own) # 0
    BY <1>1
  <2>2. Len(own) # 0 <=> DOMAIN own # {}
    <3> DEFINE n == Len(own)
    <3>1. n \in Nat /\ DOMAIN own = 1 .. n
      BY <1>3
    <3>. HIDE DEF n
    <3>2. n # 0 => 1 \in 1 .. n
      BY <3>1
    <3>3. n = 0 => 1 .. n = {}
      BY <3>1
    <3>. QED
      BY <3>1, <3>2, <3>3 DEF n
  <2>. QED
    BY <2>1, <2>2 DEF MemberOf
<1>7. MemberOf(own) # {} <=> \E j \in DOMAIN values : values[j] \in Evaluations(key)
  BY <1>1 DEF MemberOf
<1>8. ASSUME NEW j \in DOMAIN values
      PROVE  values[j] \in Evaluations(key) <=> values[j].cell[2] = key /\ values[j].v \in Values
  <2>1. values[j] \in Evaluation
    BY MembersIn DEF MemberOf
  <2>. QED
    BY <2>1 DEF Evaluation, Evaluations, Cell, N
<1>. QED
  BY <1>5, <1>6, <1>7, <1>8

\* An evaluation adds its value, unless it failed, to those of its key.
LEMMA GivenGrows ==
  ASSUME tab \in Tables, tab' = tab, values \in Seq(Evaluation),
         NEW c \in Cell, NEW w \in Values \union {Error},
         values' = Append(values, [cell |-> c, v |-> w])
  PROVE  /\ values' \in Seq(Evaluation)
         /\ \A key \in Keys :
              Given(key)' = IF c[2] = key /\ w \in Values THEN Append(Given(key), w) ELSE Given(key)
<1> DEFINE e == [cell |-> c, v |-> w]
<1>1. e \in Evaluation /\ values' \in Seq(Evaluation)
  BY DEF Evaluation
<1>2. ASSUME NEW key \in Keys
      PROVE  Given(key)' = IF c[2] = key /\ w \in Values THEN Append(Given(key), w) ELSE Given(key)
  <2> DEFINE own == Kept(values, Evaluations(key))
             now == Kept(values', Evaluations(key))
  <2>1. Given(key) = [j \in DOMAIN own |-> own[j].v] /\ Given(key)' = [j \in DOMAIN now |-> now[j].v]
    BY DEF Given, Evaluations
  <2>2. e \in Evaluations(key) <=> c[2] = key /\ w \in Values
    BY DEF Evaluations, Cell, N
  <2>3. now = IF e \in Evaluations(key) THEN Append(own, e) ELSE own
    BY <1>1, KeptAppend
  <2>4. own \in Seq(Evaluation)
    BY KeptIn
  <2>5. e.v = w
    OBVIOUS
  <2>. HIDE DEF own, now, e
  <2>6. CASE e \in Evaluations(key)
    <3>1. /\ now = Append(own, e) /\ Len(own) \in Nat /\ DOMAIN own = 1 .. Len(own)
          /\ DOMAIN now = 1 .. Len(own) + 1 /\ now[Len(own) + 1] = e
          /\ \A j \in 1 .. Len(own) : now[j] = own[j]
      BY <1>1, <2>3, <2>4, <2>6
    <3>2. Given(key) \in Seq(Values) /\ Len(Given(key)) = Len(own)
      BY <2>1, <3>1, GivenIs
    <3>3. w \in Values
      BY <2>2, <2>6
    <3>4. /\ Append(Given(key), w) = [j \in 1 .. Len(own) + 1 |-> Append(Given(key), w)[j]]
          /\ Append(Given(key), w)[Len(own) + 1] = w
          /\ \A j \in 1 .. Len(own) : Append(Given(key), w)[j] = Given(key)[j]
      <4> DEFINE G == Given(key)
      <4>. HIDE DEF G
      <4>1. G \in Seq(Values) /\ Len(G) = Len(own) /\ DOMAIN Append(G, w) = 1 .. Len(G) + 1
        BY <3>2, <3>3 DEF G
      <4>2. Append(G, w) = [j \in 1 .. Len(G) + 1 |-> Append(G, w)[j]]
        BY <3>3, <4>1, AppendIn
      <4>3. Append(G, w)[Len(G) + 1] = w
        BY <3>3, <4>1, AppendIn
      <4>4. \A j \in 1 .. Len(G) : Append(G, w)[j] = G[j]
        BY <3>3, <4>1, AppendIn
      <4>. QED
        BY <4>1, <4>2, <4>3, <4>4 DEF G
    <3>5. ASSUME NEW j \in 1 .. Len(own) + 1 PROVE now[j].v = Append(Given(key), w)[j]
      <4>1. CASE j = Len(own) + 1
        BY <2>5, <3>1, <3>4, <4>1
      <4>2. CASE j # Len(own) + 1
        <5>1. j \in 1 .. Len(own)
          BY <3>1, <4>2
        <5>. QED
          BY <2>1, <3>1, <3>4, <5>1
      <4>. QED
        BY <4>1, <4>2
    <3>6. [j \in DOMAIN now |-> now[j].v] = Append(Given(key), w)
      BY <3>1, <3>4, <3>5
    <3>. QED
      BY <2>1, <2>2, <2>6, <3>6
  <2>7. CASE e \notin Evaluations(key)
    BY <2>1, <2>2, <2>3, <2>7
  <2>. QED
    BY <2>6, <2>7
<1>. QED
  BY <1>1, <1>2

LEMMA GivenStays ==
  UNCHANGED <<tab, values>> => \A key : Given(key)' = Given(key)
BY DEF Given, Evaluations

LEMMA GivenNone ==
  (values = <<>>) => \A key : Given(key) = <<>>
BY KeptNone DEF Given

LEMMA CellsStay ==
  UNCHANGED tab => /\ \A rs : Cells(rs)' = Cells(rs)
                   /\ \A r : Rule(r)' = Rule(r)
BY DEF Cells, Rule
--------------------------------------------------------------------------------
\* Types, of the lists a call works through too.
TypeInv ==
  /\ tab \in Tables /\ TypeOK
  /\ todo \in Seq(Cell) /\ values \in Seq(Evaluation) /\ order \in Seq(Keys)
  /\ DOMAIN collected = Keys /\ DOMAIN data = Keys

\* What has been evaluated, and whether a key is among the first n of it.
Evaluated == [j \in DOMAIN values |-> values[j].cell]
Clean == \A j \in DOMAIN values : values[j].v \in Values
Seen(n, key) == \E j \in 1 .. n : values[j].cell[2] = key

\* Nothing is written or recorded yet.
Untouched == store = before

\* What any and collect have gathered is what was evaluated, key by key, and the keys
\* are in the order they came up.
Gathered ==
  /\ Clean
  /\ \A key \in Keys : collected[key] = Given(key)
  /\ tab.policy = "any" =>
       \A key \in Keys : \A j \in 2 .. Len(Given(key)) : Agree(Given(key)[1], Given(key)[j])
  /\ NoRepeats(order)
  /\ \A a, b \in DOMAIN order : a < b =>
       \E j \in DOMAIN values : Seen(j, order[a]) /\ ~Seen(j, order[b])

InAll == \A key \in Keys : key \in MemberOf(order) <=> Given(key) # <<>>

\* The decisions of the rules in rs are evaluated or to do, in their order.
Pending(rs) == Evaluated \o todo = Cells(rs)

\* The one rule that applies has its decisions written as they are evaluated.
Applying ==
  /\ Clean /\ Pending(firing)
  /\ tab.policy \in {"any", "collect"} => Yes = {}
  /\ \E r \in 0 .. N : firing = <<r>>
  /\ \A key \in Keys : Len(Given(key)) <= 1
  /\ \A key \in Keys : data[key] = IF Given(key) # <<>> THEN Given(key)[1] ELSE before[1][key]

\* The keys not written yet all come up after those that are.
Writing ==
  /\ tab.policy \in {"any", "collect"} /\ Yes # {} /\ Gathered /\ Evaluated = Cells(firing)
  /\ \A key \in MemberOf(order) : Given(key) # <<>>
  /\ \A key \in Keys : Given(key) # <<>> /\ key \notin MemberOf(order) =>
       \A b \in DOMAIN order : \E j \in DOMAIN values : Seen(j, key) /\ ~Seen(j, order[b])
  /\ \A key \in Keys :
       data[key] = IF Given(key) # <<>> /\ key \notin MemberOf(order) THEN Reduced(key)
                   ELSE before[1][key]

PhaseInv ==
  /\ pc = "test" =>
       /\ Untouched /\ todo = <<>> /\ Gathered /\ InAll
       /\ tab.policy = "single" => Yes = {}
       /\ IF tab.policy = "collect" THEN Pending(Matched) ELSE values = <<>>
  /\ pc = "collect" =>
       Untouched /\ tab.policy = "collect" /\ Yes # {} /\ Gathered /\ InAll /\ Pending(Matched)
  /\ pc = "agree" =>
       /\ Untouched /\ tab.policy = "any" /\ Yes # {} /\ Gathered /\ InAll /\ Pending(Matched)
       /\ Len(tests) = N
  /\ pc = "apply" => Recorded /\ Applying
  /\ pc = "write" => Recorded /\ Writing

Outcomes == FiringIsWhatMatched /\ OutputsAreDecided /\ RefusalsAreClean /\ FailuresLeaveAPrefix

IInv == TypeInv /\ PhaseInv /\ Outcomes

LEMMA EmptyFacts == /\ Len(<<>>) = 0 /\ DOMAIN <<>> = {} /\ MemberOf(<<>>) = {} /\ NoRepeats(<<>>)
                    /\ \A S : <<>> \in Seq(S)
BY DEF MemberOf, NoRepeats

LEMMA Initially == Init => IInv
<1>. SUFFICES ASSUME Init PROVE IInv
  OBVIOUS
<1>1. tab \in Tables
  BY DEF Init
<1>2. /\ MaxCalls \in Nat /\ Error \notin Values /\ N \in Nat /\ tab.policy \in Policies
  BY <1>1, Constants
<1>3. TypeOK
  BY <1>2, EmptyFacts DEF Init, TypeOK, N
<1>4. TypeInv
  BY <1>1, <1>3, EmptyFacts DEF Init, TypeInv
<1>5. PhaseInv
  BY DEF Init, PhaseInv
<1>6. Outcomes
  BY <1>3 DEF Init, Outcomes, FiringIsWhatMatched, OutputsAreDecided, Finished, RefusalsAreClean, FailuresLeaveAPrefix
<1>. QED
  BY <1>4, <1>5, <1>6 DEF IInv

LEMMA SeqWider ==
  ASSUME NEW S, NEW T, S \subseteq T, NEW s \in Seq(S)
  PROVE  s \in Seq(T)
  OBVIOUS

LEMMA MatchedRules ==
  ASSUME TypeInv
  PROVE  /\ Matched \in Seq(0 .. N) /\ Cells(Matched) \in Seq(Cell) /\ Cells(firing) \in Seq(Cell)
         /\ N \in Nat /\ Len(tests) \in Nat /\ Yes \subseteq 1 .. N
         /\ i \in Nat /\ (i <= Len(tab.rules) => i \in 0 .. N)
<1>1. /\ tests \in Seq({"yes", "no", "error"}) /\ Len(tests) = i - 1 /\ i \in 1 .. N + 1 /\ N \in Nat
      /\ firing \in Seq(0 .. N) /\ tab \in Tables
  BY Constants DEF TypeInv, TypeOK, N
<1>2. Len(tests) \in Nat /\ 1 .. Len(tests) \subseteq 0 .. N /\ 1 .. Len(tests) \subseteq 1 .. N
      /\ DOMAIN tests = 1 .. Len(tests)
  BY <1>1
<1>3. Matched \in Seq(1 .. Len(tests))
  BY <1>1, MatchedIs
<1>4. Matched \in Seq(0 .. N)
  BY <1>2, <1>3, SeqWider
<1>5. Yes \subseteq 1 .. N
  BY <1>2 DEF Yes
<1>. QED
  BY <1>1, <1>2, <1>4, <1>5, CellsIs DEF N

LEMMA TypeKept == TypeInv /\ [Next]_vars => TypeInv'
<1>. SUFFICES ASSUME TypeInv, [Next]_vars PROVE TypeInv'
  OBVIOUS
<1>0. /\ tab \in Tables /\ N \in Nat /\ Error \notin Values /\ i \in 1 .. N + 1
      /\ tests \in Seq({"yes", "no", "error"}) /\ Len(tests) = i - 1
      /\ calls \in 0 .. MaxCalls /\ MaxCalls \in Nat
  BY Constants DEF TypeInv, TypeOK, N
<1>1. ASSUME Call PROVE TypeInv'
  <2>1. /\ tab' = tab /\ calls' = calls + 1 /\ calls < MaxCalls /\ i' = 1 /\ tests' = <<>> /\ todo' = <<>>
        /\ values' = <<>> /\ order' = <<>> /\ collected' = [k \in Keys |-> <<>>]
        /\ data' = data /\ firing' = firing
        /\ pc' \in {"idle", "test"} /\ result' \in {"ctx", "none"}
    BY <1>1 DEF Call, Return, store
  <2>2. calls' \in 0 .. MaxCalls /\ i' \in 1 .. N + 1
    BY <1>0, <2>1
  <2>3. TypeOK'
    BY <1>0, <2>1, <2>2, EmptyFacts DEF TypeInv, TypeOK, N
  <2>. QED
    BY <2>1, <2>3, EmptyFacts DEF TypeInv, Cell, Evaluation, N
<1>2. ASSUME Test PROVE TypeInv'
  <2>1. /\ UNCHANGED <<tab, calls, values, order, collected, data>>
        /\ i <= Len(tab.rules) /\ i' = i + 1
    BY <1>2 DEF Test
  <2>2. PICK outcome \in {"yes", "no", "error"} : tests' = Append(tests, outcome)
    BY <1>2 DEF Test
  <2>3. tests' \in Seq({"yes", "no", "error"}) /\ Len(tests') = i' - 1 /\ i' \in 1 .. N + 1
    BY <1>0, <2>1, <2>2, MatchedGrows DEF N
  <2>4. i \in 0 .. N /\ <<i>> \in Seq(0 .. N) /\ Cells(<<i>>) \in Seq(Cell)
    <3>1. i \in 0 .. N
      BY <1>0, <2>1 DEF N
    <3>2. <<i>> \in Seq(0 .. N)
      BY <3>1
    <3>. QED
      BY <1>0, <3>1, <3>2, CellsIs
  <2>5. /\ pc' \in {"idle", "test", "apply", "collect"}
        /\ firing' = firing \/ firing' = <<i>>
        /\ todo' = todo \/ todo' = Cells(<<i>>)
        /\ result' = result \/ result' = "condition"
    BY <1>2 DEF Test, Refuse, Return, StartRule, Fire, RecordFirings
  <2>6. firing' \in Seq(0 .. N) /\ todo' \in Seq(Cell)
    BY <2>4, <2>5 DEF TypeInv, TypeOK, N
  <2>7. TypeOK'
    BY <2>1, <2>3, <2>5, <2>6 DEF TypeInv, TypeOK, N
  <2>. QED
    BY <2>1, <2>6, <2>7 DEF TypeInv, Cell, Evaluation, N
<1>3. ASSUME Tested PROVE TypeInv'
  <2>1. UNCHANGED <<tab, calls, i, tests, values, order, collected, data>>
    BY <1>3 DEF Tested
  <2>2. /\ pc' \in {"idle", "apply", "agree", "write"}
        /\ firing' = firing \/ firing' = <<0>> \/ firing' = Matched
           \/ (Matched # <<>> /\ firing' = <<Matched[1]>>)
        /\ todo' = todo \/ todo' = Cells(<<0>>) \/ todo' = Cells(Matched)
           \/ (Matched # <<>> /\ todo' = Cells(<<Matched[1]>>))
        /\ result' \in {result, "ok", "MultipleMatches"}
    BY <1>3 DEF Tested, Refuse, Return, StartRule, Fire, RecordFirings
  <2>3. Matched # <<>> => Matched[1] \in 0 .. N
    BY MatchedRules
  <2>4. \A r \in 0 .. N : <<r>> \in Seq(0 .. N)
    OBVIOUS
  <2>5. \A r \in 0 .. N : Cells(<<r>>) \in Seq(Cell)
    BY <1>0, <2>4, CellsIs
  <2>6. 0 \in 0 .. N
    BY <1>0
  <2>7. firing' \in Seq(0 .. N)
    BY <2>2, <2>3, <2>4, <2>6, MatchedRules DEF TypeInv, TypeOK, N
  <2>8. todo' \in Seq(Cell)
    BY <2>2, <2>3, <2>5, <2>6, MatchedRules DEF TypeInv
  <2>9. TypeOK'
    BY <2>1, <2>2, <2>7 DEF TypeInv, TypeOK, N
  <2>. QED
    BY <2>1, <2>8, <2>9 DEF TypeInv, Cell, Evaluation, N
<1>4. ASSUME Apply PROVE TypeInv'
  <2>1. UNCHANGED <<tab, calls, i, tests, order, collected, firing>>
    BY <1>4 DEF Apply
  <2>2. CASE todo = <<>>
    <3>1. pc' = "idle" /\ result' = "ok" /\ UNCHANGED <<todo, values, data>>
      BY <1>4, <2>2 DEF Apply, Return
    <3>2. TypeOK'
      BY <2>1, <3>1 DEF TypeInv, TypeOK
    <3>. QED
      BY <2>1, <3>1, <3>2 DEF TypeInv, Cell, Evaluation, N
  <2>3. CASE todo # <<>>
    <3>1. PICK v \in Values \union {Error} : Eval(v)
      BY <1>4, <2>3 DEF Apply
    <3>2. /\ todo' = todo \/ todo' = Tail(todo)
          /\ DOMAIN data' = DOMAIN data
          /\ pc' \in {"idle", "apply"} /\ result' \in {result, "decision", "set"}
      BY <1>4, <2>3 DEF Apply, Return, Set
    <3>3. todo' \in Seq(Cell) /\ Head(todo) \in Cell
      BY <2>3, <3>2, ShiftOne DEF TypeInv
    <3>4. values' \in Seq(Evaluation)
      BY <2>1, <3>1, <3>3, GivenGrows DEF TypeInv, Eval
    <3>5. TypeOK'
      BY <2>1, <3>2 DEF TypeInv, TypeOK
    <3>. QED
      BY <2>1, <3>2, <3>3, <3>4, <3>5 DEF TypeInv, Cell, Evaluation, N
  <2>. QED
    BY <2>2, <2>3
<1>5. ASSUME CheckAgreement \/ CollectDecision PROVE TypeInv'
  <2>1. UNCHANGED <<tab, calls, i, tests, data>>
    BY <1>5 DEF CheckAgreement, CollectDecision
  <2>2. CASE todo = <<>>
    <3>1. /\ UNCHANGED <<todo, values, order, collected>> /\ result' = result
          /\ pc' \in {"write", "test"} /\ (firing' = firing \/ firing' = Matched)
      BY <1>5, <2>2 DEF CheckAgreement, CollectDecision, RecordFirings, lists
    <3>2. firing' \in Seq(0 .. N)
      BY <3>1, MatchedRules DEF TypeInv, TypeOK, N
    <3>3. TypeOK'
      BY <2>1, <3>1, <3>2 DEF TypeInv, TypeOK, N
    <3>. QED
      BY <2>1, <3>1, <3>3 DEF TypeInv, Cell, Evaluation, N
  <2>3. CASE todo # <<>>
    <3>1. PICK v \in Values \union {Error} :
            /\ Eval(v) /\ firing' = firing /\ pc' \in {pc, "idle"}
            /\ result' \in {result, "decision", "ConflictingMatches"}
            /\ \/ UNCHANGED <<todo, order, collected>>
               \/ v # Error /\ Collect(Head(todo)[2], v) /\ todo' = Tail(todo)
      BY <1>5, <2>3 DEF CheckAgreement, CollectDecision, Refuse, Return
    <3>2. Tail(todo) \in Seq(Cell) /\ Head(todo) \in Cell
      BY <2>3, ShiftOne DEF TypeInv
    <3>3. values' \in Seq(Evaluation)
      BY <2>1, <3>1, <3>2, GivenGrows DEF TypeInv, Eval
    <3>4. /\ todo' \in Seq(Cell) /\ order' \in Seq(Keys) /\ DOMAIN collected' = Keys
          /\ \A k \in Keys : collected'[k] \in Seq(Values)
      <4>1. CASE UNCHANGED <<todo, order, collected>>
        BY <4>1 DEF TypeInv, TypeOK
      <4>2. CASE v # Error /\ Collect(Head(todo)[2], v) /\ todo' = Tail(todo)
        <5> DEFINE key == Head(todo)[2]
        <5>1. key \in Keys /\ v \in Values /\ order \in Seq(Keys)
              /\ collected[key] \in Seq(Values)
          BY <3>1, <3>2, <4>2 DEF Cell, TypeInv, TypeOK
        <5>. HIDE DEF key
        <5>2. Append(collected[key], v) \in Seq(Values) /\ Append(order, key) \in Seq(Keys)
          BY <5>1, AppendIn
        <5>3. /\ collected' = [collected EXCEPT ![key] = Append(collected[key], v)]
              /\ order' = IF collected[key] = <<>> THEN Append(order, key) ELSE order
          BY <4>2 DEF Collect, key
        <5>. QED
          BY <3>2, <4>2, <5>1, <5>2, <5>3 DEF TypeInv, TypeOK
      <4>. QED
        BY <3>1, <4>1, <4>2
    <3>5. TypeOK'
      BY <2>1, <3>1, <3>4 DEF TypeInv, TypeOK
    <3>. QED
      BY <2>1, <3>3, <3>4, <3>5 DEF TypeInv, Cell, Evaluation, N
  <2>. QED
    BY <2>2, <2>3
<1>6. ASSUME WriteKey PROVE TypeInv'
  <2>1. UNCHANGED <<tab, calls, i, tests, todo, values, collected, firing>>
    BY <1>6 DEF WriteKey
  <2>2. /\ pc' \in {"idle", "write"} /\ result' \in {result, "ok", "aggregate", "set"}
        /\ DOMAIN data' = DOMAIN data /\ (order' = order \/ (order # <<>> /\ order' = Tail(order)))
    BY <1>6 DEF WriteKey, Return, Set
  <2>3. order' \in Seq(Keys)
    BY <2>2, ShiftOne DEF TypeInv
  <2>4. TypeOK'
    BY <2>1, <2>2 DEF TypeInv, TypeOK
  <2>. QED
    BY <2>1, <2>2, <2>3, <2>4 DEF TypeInv, Cell, Evaluation, N
<1>7. ASSUME UNCHANGED vars PROVE TypeInv'
  BY <1>7 DEF vars, lists, store, TypeInv, TypeOK, Cell, Evaluation, N
<1>. QED
  BY <1>1, <1>2, <1>3, <1>4, <1>5, <1>6, <1>7 DEF Next, Idle
--------------------------------------------------------------------------------
\* Where a phase's state leaves off when it returns, the outcome is as stated.
LEMMA Running == TypeInv /\ pc # "idle" => Outcomes
BY DEF Outcomes, FiringIsWhatMatched, OutputsAreDecided, Finished, RefusalsAreClean,
   FailuresLeaveAPrefix, TypeInv

LEMMA Stopped == pc = "idle" => PhaseInv
BY DEF PhaseInv

LEMMA Refused == TypeInv /\ pc = "idle" /\ result # "ok" /\ Untouched => Outcomes
<1>. SUFFICES ASSUME TypeInv, pc = "idle", result # "ok", Untouched PROVE Outcomes
  OBVIOUS
<1>1. /\ data = before[1] /\ store = before
  BY DEF Untouched, store
<1>2. FiringIsWhatMatched /\ OutputsAreDecided /\ RefusalsAreClean /\ TypeOK
  BY <1>1 DEF FiringIsWhatMatched, OutputsAreDecided, Finished, RefusalsAreClean, TypeInv
<1>3. Len(Cells(firing)) \in Nat
  BY MatchedRules
<1>4. 0 \in 0 .. Len(Cells(firing)) /\ {Cells(firing)[j][2] : j \in 1 .. 0} = {}
  BY <1>3
<1>5. \E n \in 0 .. Len(Cells(firing)) :
        LET written == {Cells(firing)[j][2] : j \in 1 .. n}
        IN  \A key \in Keys : data[key] = IF key \in written THEN Decided(key) ELSE before[1][key]
  BY <1>1, <1>4
<1>6. FailuresLeaveAPrefix
  BY <1>2, <1>5 DEF FailuresLeaveAPrefix
<1>. QED
  BY <1>2, <1>6 DEF Outcomes

\* The keys of the rules on record have been evaluated.
LEMMA RecordedKeys ==
  ASSUME TypeInv, Clean, Evaluated = Cells(firing),
         NEW j \in DOMAIN firing, NEW key \in Keys, key \in MemberOf(Rule(firing[j]))
  PROVE  Given(key) # <<>>
<1>1. tab \in Tables /\ firing \in Seq(0 .. N) /\ values \in Seq(Evaluation)
  BY DEF TypeInv, TypeOK, N
<1>2. PICK m \in DOMAIN Cells(firing) : Cells(firing)[m] = <<firing[j], key>>
  BY <1>1, CellsIs
<1>3. m \in DOMAIN values /\ values[m].cell = <<firing[j], key>>
  BY <1>2 DEF Evaluated
<1>4. values[m].cell[2] = key /\ values[m].v \in Values
  BY <1>3 DEF Clean
<1>. QED
  BY <1>1, <1>3, <1>4, GivenIs

LEMMA EvaluatedIs ==
  ASSUME values \in Seq(Evaluation)
  PROVE  Evaluated \in Seq(Cell) /\ Len(Evaluated) = Len(values) /\ DOMAIN Evaluated = DOMAIN values
<1>1. \A j \in DOMAIN values : values[j] \in Evaluation
  BY MembersIn DEF MemberOf
<1>2. \A j \in DOMAIN values : values[j].cell \in Cell
  BY <1>1 DEF Evaluation
<1>3. Len(values) \in Nat /\ DOMAIN values = 1 .. Len(values)
  OBVIOUS
<1>. QED
  BY <1>2, <1>3 DEF Evaluated

LEMMA Applied == TypeInv /\ Recorded /\ Applying /\ todo = <<>> /\ pc = "idle" /\ result = "ok" => Outcomes
<1>. SUFFICES ASSUME TypeInv, Recorded, Applying, todo = <<>>, pc = "idle", result = "ok" PROVE Outcomes
  OBVIOUS
<1>1. Evaluated = Cells(firing)
  <2>1. Evaluated \in Seq(Cell) /\ Evaluated \o <<>> = Evaluated
    BY EvaluatedIs DEF TypeInv
  <2>. QED
    BY <2>1 DEF Applying, Pending
<1>2. ASSUME NEW key \in Keys
      PROVE  /\ Given(key) # <<>> => data[key] = Decided(key)
             /\ Given(key) = <<>> => data[key] = before[1][key]
             /\ \A j \in 2 .. Len(Given(key)) : Agree(Given(key)[1], Given(key)[j])
             /\ \A j \in DOMAIN firing : firing # before[2] /\ key \in MemberOf(Rule(firing[j])) => Given(key) # <<>>
  <2>1. data[key] = IF Given(key) # <<>> THEN Given(key)[1] ELSE before[1][key]
    BY DEF Applying
  <2>2. Decided(key) = Given(key)[1]
    BY DEF Applying, Decided
  <2>3. 2 .. Len(Given(key)) = {}
    <3>1. Given(key) \in Seq(Values) /\ Len(Given(key)) <= 1
      BY GivenIs DEF Applying, TypeInv
    <3>2. Len(Given(key)) \in Nat
      BY <3>1
    <3>. QED
      BY <3>1, <3>2
  <2>4. \A j \in DOMAIN firing : key \in MemberOf(Rule(firing[j])) => Given(key) # <<>>
    BY <1>1, RecordedKeys DEF Applying
  <2>. QED
    BY <2>1, <2>2, <2>3, <2>4
<1>3. OutputsAreDecided
  BY <1>2 DEF OutputsAreDecided
<1>4. FiringIsWhatMatched /\ RefusalsAreClean /\ FailuresLeaveAPrefix
  BY DEF FiringIsWhatMatched, RefusalsAreClean, FailuresLeaveAPrefix, TypeInv
<1>. QED
  BY <1>3, <1>4 DEF Outcomes

\* What is written for a key is what the rules decide.
LEMMA ReducedIs ==
  ASSUME Writing, NEW key \in Keys
  PROVE  Reduced(key) = Decided(key)
BY DEF Writing, Gathered, Reduced, Decided

LEMMA Written == TypeInv /\ Recorded /\ Writing /\ order = <<>> /\ pc = "idle" /\ result = "ok" => Outcomes
<1>. SUFFICES ASSUME TypeInv, Recorded, Writing, order = <<>>, pc = "idle", result = "ok" PROVE Outcomes
  OBVIOUS
<1>1. Evaluated = Cells(firing) /\ Clean
  BY DEF Writing, Gathered
<1>2. ASSUME NEW key \in Keys
      PROVE  /\ Given(key) # <<>> => data[key] = Decided(key)
             /\ Given(key) = <<>> => data[key] = before[1][key]
             /\ tab.policy = "any" => \A j \in 2 .. Len(Given(key)) : Agree(Given(key)[1], Given(key)[j])
             /\ \A j \in DOMAIN firing : firing # before[2] /\ key \in MemberOf(Rule(firing[j])) => Given(key) # <<>>
  <2>1. data[key] = IF Given(key) # <<>> THEN Reduced(key) ELSE before[1][key]
    BY EmptyFacts DEF Writing
  <2>2. \A j \in DOMAIN firing : key \in MemberOf(Rule(firing[j])) => Given(key) # <<>>
    BY <1>1, RecordedKeys
  <2>3. tab.policy = "any" => \A j \in 2 .. Len(Given(key)) : Agree(Given(key)[1], Given(key)[j])
    BY DEF Writing, Gathered
  <2>. QED
    BY <2>1, <2>2, <2>3, ReducedIs
<1>3. OutputsAreDecided
  BY <1>2 DEF OutputsAreDecided
<1>4. FiringIsWhatMatched /\ RefusalsAreClean /\ FailuresLeaveAPrefix
  BY DEF FiringIsWhatMatched, RefusalsAreClean, FailuresLeaveAPrefix, TypeInv
<1>. QED
  BY <1>3, <1>4 DEF Outcomes

\* A key is seen at the position where it is evaluated, and from then on.
LEMMA SeenLater ==
  ASSUME NEW m \in Nat, NEW n \in Nat, m <= n, NEW key, Seen(m, key)
  PROVE  Seen(n, key)
BY DEF Seen

\* When the writing stops at a key, the keys written are those before its first decision.
LEMMA WrittenInPart ==
  /\ TypeInv /\ Recorded /\ Writing /\ order # <<>> /\ pc = "idle" /\ result \in {"aggregate", "set"}
  => Outcomes
<1>. SUFFICES ASSUME TypeInv, Recorded, Writing, order # <<>>, pc = "idle", result \in {"aggregate", "set"}
     PROVE  Outcomes
  OBVIOUS
<1> DEFINE top == order[1]
           at(j) == values[j].cell[2]
           C == Cells(firing)
           done(n) == {C[j][2] : j \in 1 .. n}
<1>1. /\ values \in Seq(Evaluation) /\ Len(values) \in Nat /\ DOMAIN values = 1 .. Len(values)
      /\ Evaluated = C /\ Clean /\ order \in Seq(Keys)
      /\ DOMAIN C = DOMAIN values /\ Len(C) = Len(values)
  BY EvaluatedIs DEF TypeInv, Writing, Gathered
<1>2. \A j \in DOMAIN values : C[j][2] = at(j)
  BY <1>1 DEF Evaluated
<1>3. 1 \in DOMAIN order /\ top \in Keys /\ top \in MemberOf(order)
  BY <1>1 DEF MemberOf
<1>4. \A key \in Keys : Given(key) # <<>> <=> \E j \in DOMAIN values : at(j) = key
  BY <1>1, GivenIs DEF Clean
<1>5. PICK m \in DOMAIN values : at(m) = top /\ \A j \in DOMAIN values : at(j) = top => m <= j
  <2> DEFINE hits == {j \in DOMAIN values : at(j) = top}
  <2>1. hits # {} /\ hits \subseteq Nat
    BY <1>1, <1>3, <1>4 DEF Writing
  <2>2. PICK m \in hits : \A j \in hits : m <= j
    <3>. HIDE DEF hits
    <3>. QED
      BY <2>1, LeastOfNats
  <2>. QED
    BY <2>2
<1> DEFINE n == m - 1
<1>6. m \in Nat /\ n \in Nat /\ n \in 0 .. Len(C) /\ m <= Len(values) /\ n < m
  BY <1>1
<1>. HIDE DEF at, C, n, top
<1>7. ASSUME NEW key \in Keys
      PROVE  key \in done(n) <=> Given(key) # <<>> /\ key \notin MemberOf(order)
  <2>1. key \in done(n) <=> Seen(n, key)
    <3>1. \A j \in 1 .. n : C[j][2] = values[j].cell[2]
      BY <1>1, <1>2, <1>6 DEF at
    <3>. QED
      BY <3>1 DEF Seen
  <2>2. ASSUME Given(key) # <<>>, key \notin MemberOf(order) PROVE Seen(n, key)
    <3>1. PICK j \in DOMAIN values : Seen(j, key) /\ ~Seen(j, order[1])
      BY <1>3, <2>2 DEF Writing
    <3>2. j < m
      BY <1>1, <1>5, <1>6, <3>1 DEF Seen, at, top
    <3>3. j \in Nat /\ j <= n
      BY <1>1, <1>6, <3>2 DEF n
    <3>. QED
      BY <1>6, <3>1, <3>3, SeenLater
  <2>3. ASSUME Seen(n, key) PROVE Given(key) # <<>> /\ key \notin MemberOf(order)
    <3>1. PICK p \in 1 .. n : values[p].cell[2] = key
      BY <2>3 DEF Seen
    <3>2. p \in DOMAIN values /\ p < m /\ at(p) = key
      BY <1>1, <1>6, <3>1 DEF at, n
    <3>3. Given(key) # <<>>
      BY <1>4, <3>2
    <3>4. key # top
      BY <1>1, <1>5, <1>6, <3>2
    <3>5. ASSUME NEW b \in DOMAIN order, order[b] = key PROVE FALSE
      <4>1. b \in Nat /\ 1 < b
        <5>1. b \in Nat /\ 1 <= b
          BY <1>1
        <5>2. b # 1
          BY <3>4, <3>5 DEF top
        <5>. QED
          BY <5>1, <5>2
      <4>2. PICK j \in DOMAIN values : Seen(j, order[1]) /\ ~Seen(j, order[b])
        BY <1>3, <4>1 DEF Writing, Gathered
      <4>3. PICK q \in 1 .. j : values[q].cell[2] = order[1]
        BY <4>2 DEF Seen
      <4>4. j \in Nat /\ q \in DOMAIN values /\ q <= j /\ m <= q
        BY <1>1, <1>5, <4>3 DEF at, top
      <4>5. n <= j /\ j \in Nat
        BY <1>6, <4>4 
      <4>6. Seen(j, key)
        BY <1>6, <2>3, <4>5, SeenLater
      <4>. QED
        BY <3>5, <4>2, <4>6
    <3>. QED
      BY <3>3, <3>5 DEF MemberOf
  <2>. QED
    BY <2>1, <2>2, <2>3
<1>8. \A key \in Keys : data[key] = IF key \in done(n) THEN Decided(key) ELSE before[1][key]
  <2>. SUFFICES ASSUME NEW key \in Keys
       PROVE  data[key] = IF key \in done(n) THEN Decided(key) ELSE before[1][key]
    OBVIOUS
  <2>1. data[key] = IF Given(key) # <<>> /\ key \notin MemberOf(order) THEN Reduced(key)
                    ELSE before[1][key]
    BY DEF Writing
  <2>. QED
    BY <1>7, <2>1, ReducedIs
<1>9. \E k \in 0 .. Len(Cells(firing)) :
        LET written == {Cells(firing)[j][2] : j \in 1 .. k}
        IN  \A key \in Keys : data[key] = IF key \in written THEN Decided(key) ELSE before[1][key]
  BY <1>6, <1>8 DEF C
<1>10. RefusalsAreClean /\ TypeOK /\ FiringIsWhatMatched /\ OutputsAreDecided
  BY DEF RefusalsAreClean, TypeInv, FiringIsWhatMatched, OutputsAreDecided, Finished
<1>11. FailuresLeaveAPrefix
  BY <1>9, <1>10 DEF FailuresLeaveAPrefix
<1>. QED
  BY <1>10, <1>11 DEF Outcomes

\* The invariants' parts depend on what a step that only returns leaves alone.
LEMMA Stay ==
  UNCHANGED <<tab, tests, lists, before, store>> =>
    (Recorded => Recorded') /\ (Applying => Applying') /\ (Writing => Writing') /\ (Gathered => Gathered')
    /\ (InAll => InAll') /\ (Untouched => Untouched') /\ Matched' = Matched /\ Yes' = Yes
    /\ Evaluated' = Evaluated /\ (\A rs : Cells(rs)' = Cells(rs)) /\ (\A rs : Pending(rs) => Pending(rs)')
<1>. SUFFICES ASSUME UNCHANGED <<tab, tests, lists, before, store>>
     PROVE (Recorded => Recorded') /\ (Applying => Applying') /\ (Writing => Writing') /\ (Gathered => Gathered')
           /\ (InAll => InAll') /\ (Untouched => Untouched') /\ Matched' = Matched /\ Yes' = Yes
           /\ Evaluated' = Evaluated /\ (\A rs : Cells(rs)' = Cells(rs)) /\ (\A rs : Pending(rs) => Pending(rs)')
  OBVIOUS
<1>1. Yes' = Yes /\ Matched' = Matched
  BY DEF Yes, Matched
<1>2. (\A key : Given(key)' = Given(key)) /\ (\A rs : Cells(rs)' = Cells(rs))
  BY GivenStays, CellsStay DEF lists
<1>3. Evaluated' = Evaluated /\ (Clean => Clean') /\ (\A k, n : Seen(n, k)' <=> Seen(n, k))
  BY DEF Evaluated, Clean, Seen, lists
<1>4. Recorded => Recorded'
  BY <1>1 DEF Recorded, store
<1>5. Gathered => Gathered'
  BY <1>2, <1>3 DEF Gathered, lists
<1>6. InAll => InAll'
  BY <1>2 DEF InAll, lists
<1>7. \A rs : Pending(rs) => Pending(rs)'
  BY <1>2, <1>3 DEF Pending, lists
<1>8. Untouched => Untouched'
  BY DEF Untouched
<1>9. Applying => Applying'
  BY <1>1, <1>2, <1>3 DEF Applying, Pending, lists, store, N
<1>10. \A key : Reduced(key)' = Reduced(key)
  BY DEF Reduced, lists
<1>11. Writing => Writing'
  BY <1>1, <1>2, <1>3, <1>5, <1>10 DEF Writing, lists, store
<1>. QED
  BY <1>1, <1>2, <1>3, <1>4, <1>5, <1>6, <1>7, <1>8, <1>9, <1>11
--------------------------------------------------------------------------------
\* How the phases begin.
LEMMA CellsNone == Cells(<<>>) = <<>>
BY DEF Cells, FlattenSeq

LEMMA Fresh ==
  /\ TypeInv /\ tests = <<>> /\ values = <<>> /\ todo = <<>> /\ order = <<>>
  /\ \A key \in Keys : collected[key] = <<>>
  => Gathered /\ InAll /\ Yes = {} /\ Pending(Matched)
<1>. SUFFICES ASSUME TypeInv, tests = <<>>, values = <<>>, todo = <<>>, order = <<>>,
                     \A key \in Keys : collected[key] = <<>>
     PROVE  Gathered /\ InAll /\ Yes = {} /\ Pending(Matched)
  OBVIOUS
<1>1. \A key : Given(key) = <<>>
  BY GivenNone
<1>2. Yes = {}
  BY EmptyFacts DEF Yes
<1>3. Matched = <<>>
  BY <1>2, MatchedIs DEF TypeInv, TypeOK
<1>4. Evaluated = <<>>
  BY EmptyFacts DEF Evaluated
<1>5. Pending(Matched)
  BY <1>3, <1>4, CellsNone DEF Pending
<1>6. Clean /\ InAll
  BY <1>1, EmptyFacts DEF Clean, InAll
<1>7. Gathered
  BY <1>1, <1>6, EmptyFacts DEF Gathered
<1>. QED
  BY <1>2, <1>5, <1>6, <1>7

LEMMA ApplyStarts ==
  /\ TypeInv /\ values = <<>> /\ data = before[1] /\ todo = Cells(firing)
  /\ tab.policy \in {"any", "collect"} => Yes = {}
  /\ \E r \in 0 .. N : firing = <<r>>
  => Applying
<1>. SUFFICES ASSUME TypeInv, values = <<>>, data = before[1], todo = Cells(firing),
                     tab.policy \in {"any", "collect"} => Yes = {}, \E r \in 0 .. N : firing = <<r>>
     PROVE  Applying
  OBVIOUS
<1>1. \A key : Given(key) = <<>>
  BY GivenNone
<1>2. Clean /\ Evaluated = <<>>
  BY EmptyFacts DEF Clean, Evaluated
<1>3. Evaluated \o todo = todo
  <2>1. todo \in Seq(Cell)
    BY DEF TypeInv
  <2>. QED
    BY <1>2, <2>1
<1>. QED
  BY <1>1, <1>2, <1>3, EmptyFacts DEF Applying, Pending

LEMMA WriteStarts ==
  /\ TypeInv /\ tab.policy \in {"any", "collect"} /\ Yes # {} /\ Gathered /\ InAll
  /\ todo = <<>> /\ Pending(firing) /\ data = before[1]
  => Writing
<1>. SUFFICES ASSUME TypeInv, tab.policy \in {"any", "collect"}, Yes # {}, Gathered, InAll,
                     todo = <<>>, Pending(firing), data = before[1]
     PROVE  Writing
  OBVIOUS
<1>1. Evaluated = Cells(firing)
  <2>1. Evaluated \in Seq(Cell)
    BY EvaluatedIs DEF TypeInv
  <2>. QED
    BY <2>1 DEF Pending
<1>2. \A key \in MemberOf(order) : key \in Keys
  BY MembersIn DEF TypeInv
<1>. QED
  BY <1>1, <1>2 DEF Writing, InAll

LEMMA NothingMatched ==
  /\ TypeInv /\ Untouched /\ Yes = {} /\ values = <<>> /\ tab.defaults = <<>> /\ Len(tests) = N
  /\ pc = "idle" /\ result = "ok"
  => Outcomes
<1>. SUFFICES ASSUME TypeInv, Untouched, Yes = {}, values = <<>>, tab.defaults = <<>>, Len(tests) = N,
                     pc = "idle", result = "ok"
     PROVE  Outcomes
  OBVIOUS
<1>1. \A key : Given(key) = <<>>
  BY GivenNone
<1>2. data = before[1] /\ firing = before[2] /\ Cardinality(Yes) = 0
  BY FS_EmptySet DEF Untouched, store
<1>3. FiringIsWhatMatched
  BY <1>2 DEF FiringIsWhatMatched, Recorded, N
<1>4. OutputsAreDecided
  BY <1>1, <1>2, EmptyFacts DEF OutputsAreDecided
<1>5. RefusalsAreClean /\ FailuresLeaveAPrefix
  BY DEF RefusalsAreClean, FailuresLeaveAPrefix, TypeInv
<1>. QED
  BY <1>3, <1>4, <1>5 DEF Outcomes

\* The same of the state after a step.
LEMMA After ==
  /\ TypeInv' /\ pc' # "idle" => Outcomes'
  /\ pc' = "idle" => PhaseInv'
  /\ TypeInv' /\ pc' = "idle" /\ result' # "ok" /\ Untouched' => Outcomes'
  /\ TypeInv' /\ Recorded' /\ Applying' /\ todo' = <<>> /\ pc' = "idle" /\ result' = "ok" => Outcomes'
  /\ TypeInv' /\ Recorded' /\ Writing' /\ order' = <<>> /\ pc' = "idle" /\ result' = "ok" => Outcomes'
  /\ TypeInv' /\ Recorded' /\ Writing' /\ order' # <<>> /\ pc' = "idle" /\ result' \in {"aggregate", "set"}
     => Outcomes'
<1>1. (TypeInv /\ pc # "idle" => Outcomes)'
  BY Running, PTL
<1>2. (pc = "idle" => PhaseInv)'
  BY Stopped, PTL
<1>3. (TypeInv /\ pc = "idle" /\ result # "ok" /\ Untouched => Outcomes)'
  BY Refused, PTL
<1>4. (TypeInv /\ Recorded /\ Applying /\ todo = <<>> /\ pc = "idle" /\ result = "ok" => Outcomes)'
  BY Applied, PTL
<1>5. (TypeInv /\ Recorded /\ Writing /\ order = <<>> /\ pc = "idle" /\ result = "ok" => Outcomes)'
  BY Written, PTL
<1>6. (/\ TypeInv /\ Recorded /\ Writing /\ order # <<>> /\ pc = "idle" /\ result \in {"aggregate", "set"}
       => Outcomes)'
  BY WrittenInPart, PTL
<1>. QED
  BY <1>1, <1>2, <1>3, <1>4, <1>5, <1>6

LEMMA Begun ==
  /\ (/\ TypeInv' /\ tests' = <<>> /\ values' = <<>> /\ todo' = <<>> /\ order' = <<>>
      /\ \A key \in Keys : collected'[key] = <<>>
      => Gathered' /\ InAll' /\ Yes' = {} /\ Pending(Matched)')
  /\ (/\ TypeInv' /\ values' = <<>> /\ data' = before'[1] /\ todo' = Cells(firing)'
      /\ tab'.policy \in {"any", "collect"} => Yes' = {}
      /\ (\E r \in 0 .. N : firing = <<r>>)'
      => Applying')
  /\ (/\ TypeInv' /\ tab'.policy \in {"any", "collect"} /\ Yes' # {} /\ Gathered' /\ InAll'
      /\ todo' = <<>> /\ Pending(firing)' /\ data' = before'[1]
      => Writing')
  /\ (/\ TypeInv' /\ Untouched' /\ Yes' = {} /\ values' = <<>> /\ tab'.defaults = <<>> /\ Len(tests') = N'
      /\ pc' = "idle" /\ result' = "ok"
      => Outcomes')
<1>1. (/\ TypeInv /\ tests = <<>> /\ values = <<>> /\ todo = <<>> /\ order = <<>>
       /\ \A key \in Keys : collected[key] = <<>>
       => Gathered /\ InAll /\ Yes = {} /\ Pending(Matched))'
  BY Fresh, PTL
<1>2. (/\ TypeInv /\ values = <<>> /\ data = before[1] /\ todo = Cells(firing)
       /\ tab.policy \in {"any", "collect"} => Yes = {}
       /\ \E r \in 0 .. N : firing = <<r>>
       => Applying)'
  BY ApplyStarts, PTL
<1>3. (/\ TypeInv /\ tab.policy \in {"any", "collect"} /\ Yes # {} /\ Gathered /\ InAll
       /\ todo = <<>> /\ Pending(firing) /\ data = before[1]
       => Writing)'
  BY WriteStarts, PTL
<1>4. (/\ TypeInv /\ Untouched /\ Yes = {} /\ values = <<>> /\ tab.defaults = <<>> /\ Len(tests) = N
       /\ pc = "idle" /\ result = "ok"
       => Outcomes)'
  BY NothingMatched, PTL
<1>. QED
  BY <1>1, <1>2, <1>3, <1>4
--------------------------------------------------------------------------------
\* One lemma per action: the phase it leads to is as stated, or the outcome is.
LEMMA CallKeeps == TypeInv /\ TypeInv' /\ Call => PhaseInv' /\ Outcomes'
<1>. SUFFICES ASSUME TypeInv, TypeInv', Call PROVE PhaseInv' /\ Outcomes'
  OBVIOUS
<1>1. /\ tests' = <<>> /\ todo' = <<>> /\ values' = <<>> /\ order' = <<>>
      /\ collected' = [k \in Keys |-> <<>>] /\ Untouched'
      /\ (pc' = "idle" /\ result' = "ctx") \/ pc' = "test"
  BY DEF Call, Return, Untouched, store
<1>2. CASE pc' = "idle" /\ result' = "ctx"
  BY <1>1, <1>2, After
<1>3. CASE pc' = "test"
  <2>1. Gathered' /\ InAll' /\ Yes' = {} /\ Pending(Matched)'
    BY <1>1, Begun
  <2>2. PhaseInv'
    BY <1>1, <1>3, <2>1 DEF PhaseInv
  <2>. QED
    BY <1>3, <2>2, After
<1>. QED
  BY <1>1, <1>2, <1>3

LEMMA StayGathered ==
  UNCHANGED <<tab, values, order, collected>> =>
    (Gathered => Gathered') /\ (InAll => InAll') /\ Evaluated' = Evaluated
    /\ (\A rs : Cells(rs)' = Cells(rs)) /\ (\A key : Given(key)' = Given(key))
<1>. SUFFICES ASSUME UNCHANGED <<tab, values, order, collected>>
     PROVE (Gathered => Gathered') /\ (InAll => InAll') /\ Evaluated' = Evaluated
           /\ (\A rs : Cells(rs)' = Cells(rs)) /\ (\A key : Given(key)' = Given(key))
  OBVIOUS
<1>2. (\A key : Given(key)' = Given(key)) /\ (\A rs : Cells(rs)' = Cells(rs))
  BY GivenStays, CellsStay
<1>3. Evaluated' = Evaluated /\ (Clean => Clean') /\ (\A k, n : Seen(n, k)' <=> Seen(n, k))
  BY DEF Evaluated, Clean, Seen
<1>5. Gathered => Gathered'
  BY <1>2, <1>3 DEF Gathered
<1>6. InAll => InAll'
  BY <1>2 DEF InAll
<1>. QED
  BY <1>2, <1>3, <1>5, <1>6

\* What is evaluated, when nothing has to be.
LEMMA EvaluatedNone ==
  TypeInv /\ todo = <<>> /\ Pending(Matched) /\ Yes = {} => values = <<>>
<1>. SUFFICES ASSUME TypeInv, todo = <<>>, Pending(Matched), Yes = {} PROVE values = <<>>
  OBVIOUS
<1>1. Matched = <<>>
  BY MatchedIs DEF TypeInv, TypeOK
<1>2. Evaluated \in Seq(Cell) /\ Len(Evaluated) = Len(values)
  BY EvaluatedIs DEF TypeInv
<1>3. Evaluated = <<>>
  BY <1>1, <1>2, CellsNone DEF Pending
<1>4. Len(values) = 0
  BY <1>2, <1>3, EmptyFacts
<1>5. values \in Seq(Evaluation)
  BY DEF TypeInv
<1>. QED
  BY <1>4, <1>5

LEMMA TestKeeps == TypeInv /\ PhaseInv /\ TypeInv' /\ Test => PhaseInv' /\ Outcomes'
<1>. SUFFICES ASSUME TypeInv, PhaseInv, TypeInv', Test PROVE PhaseInv' /\ Outcomes'
  OBVIOUS
<1>1. /\ pc = "test" /\ i <= Len(tab.rules)
      /\ UNCHANGED <<tab, strict, calls, values, order, collected, before, data>>
      /\ Untouched /\ todo = <<>> /\ Gathered /\ InAll
      /\ tab.policy = "single" => Yes = {}
      /\ IF tab.policy = "collect" THEN Pending(Matched) ELSE values = <<>>
  BY DEF Test, PhaseInv
<1>2. PICK outcome \in {"yes", "no", "error"} :
       /\ tests' = Append(tests, outcome)
       /\ \/ outcome = "error" /\ Refuse("condition") /\ UNCHANGED todo
          \/ outcome = "yes" /\ tab.policy = "single" /\ StartRule(i)
          \/ /\ outcome = "yes" /\ tab.policy = "collect"
             /\ pc' = "collect" /\ todo' = Cells(<<i>>)
             /\ UNCHANGED <<firing, result>>
          \/ /\ \/ outcome = "no"
                \/ outcome = "yes" /\ tab.policy \in {"unique", "any"}
             /\ UNCHANGED <<pc, todo, firing, result>>
  BY DEF Test
<1>3. /\ tests \in Seq({"yes", "no", "error"}) /\ Len(tests) + 1 = i /\ i \in 0 .. N /\ N \in Nat
  <2>1. tests \in Seq({"yes", "no", "error"}) /\ Len(tests) = i - 1 /\ i \in 1 .. N + 1
    BY DEF TypeInv, TypeOK, N
  <2>2. i \in 0 .. N /\ N \in Nat
    BY <1>1, MatchedRules
  <2>. QED
    BY <2>1, <2>2
<1>4. /\ Yes' = IF outcome = "yes" THEN Yes \union {i} ELSE Yes
      /\ Matched' = IF outcome = "yes" THEN Append(Matched, i) ELSE Matched
  BY <1>2, <1>3, MatchedGrows
<1>5. /\ Gathered' /\ InAll' /\ Evaluated' = Evaluated /\ (\A rs : Cells(rs)' = Cells(rs))
      /\ (\A key : Given(key)' = Given(key))
  BY <1>1, StayGathered
<1>6. CASE outcome = "error" /\ Refuse("condition") /\ UNCHANGED todo
  <2>1. pc' = "idle" /\ result' = "condition" /\ Untouched'
    BY <1>1, <1>6 DEF Refuse, Return, Untouched, store
  <2>. QED
    BY <2>1, After
<1>7. CASE outcome = "yes" /\ tab.policy = "single" /\ StartRule(i)
  <2>1. /\ pc' = "apply" /\ firing' = <<i>> /\ todo' = Cells(<<i>>) /\ Yes' = {i} /\ values' = <<>>
        /\ data' = before'[1] /\ tab' = tab
    BY <1>1, <1>4, <1>7 DEF StartRule, Fire, RecordFirings, Untouched, store
  <2>2. todo' = Cells(firing)'
    BY <1>5, <2>1
  <2>3. (\E r \in 0 .. N : firing = <<r>>)'
    BY <1>3, <2>1 DEF N
  <2>4. Applying'
    BY <1>7, <2>1, <2>2, <2>3, Begun
  <2>5. Cardinality({i}) = 1 /\ Ascending(<<i>>, {i})
    <3>1. Cardinality({i}) = 1
      BY FS_Singleton
    <3>2. Ascending(<<i>>, {i})
      BY DEF Ascending, MemberOf
    <3>. QED
      BY <3>1, <3>2
  <2>6. Recorded'
    BY <1>7, <2>1, <2>5 DEF Recorded
  <2>7. PhaseInv'
    BY <2>1, <2>4, <2>6 DEF PhaseInv
  <2>. QED
    BY <2>1, <2>7, After
<1>8. CASE /\ outcome = "yes" /\ tab.policy = "collect"
           /\ pc' = "collect" /\ todo' = Cells(<<i>>)
           /\ UNCHANGED <<firing, result>>
  <2>1. Evaluated = Cells(Matched)
    <3>1. Evaluated \in Seq(Cell)
      BY EvaluatedIs DEF TypeInv
    <3>. QED
      BY <1>1, <1>8, <3>1 DEF Pending
  <2>2. Cells(Append(Matched, i)) = Cells(Matched) \o Cells(<<i>>)
    BY <1>3, CellsAppend, MatchedRules DEF TypeInv
  <2>3. Matched' = Append(Matched, i)
    BY <1>4, <1>8
  <2>4. Pending(Matched)'
    BY <1>5, <1>8, <2>1, <2>2, <2>3 DEF Pending
  <2>5. Yes' # {} /\ Untouched' /\ tab' = tab
    BY <1>1, <1>4, <1>8 DEF Untouched, store
  <2>6. PhaseInv'
    BY <1>5, <1>8, <2>4, <2>5 DEF PhaseInv
  <2>. QED
    BY <1>8, <2>6, After
<1>9. CASE /\ \/ outcome = "no"
              \/ outcome = "yes" /\ tab.policy \in {"unique", "any"}
           /\ UNCHANGED <<pc, todo, firing, result>>
  <2>1. Untouched' /\ tab' = tab /\ todo' = <<>> /\ values' = values /\ pc' = "test"
    BY <1>1, <1>9 DEF Untouched, store
  <2>2. tab.policy \in {"single", "collect"} => Yes' = Yes /\ Matched' = Matched
    BY <1>4, <1>9
  <2>3. tab.policy = "collect" => Pending(Matched)'
    BY <1>1, <1>5, <1>9, <2>2 DEF Pending
  <2>4. PhaseInv'
    BY <1>1, <1>5, <2>1, <2>2, <2>3 DEF PhaseInv
  <2>. QED
    BY <2>1, <2>4, After
<1>. QED
  BY <1>2, <1>6, <1>7, <1>8, <1>9

LEMMA TestedKeeps == TypeInv /\ PhaseInv /\ TypeInv' /\ Tested => PhaseInv' /\ Outcomes'
<1>. SUFFICES ASSUME TypeInv, PhaseInv, TypeInv', Tested PROVE PhaseInv' /\ Outcomes'
  OBVIOUS
<1>1. /\ pc = "test" /\ i > Len(tab.rules)
      /\ UNCHANGED <<tab, strict, calls, i, tests, values, order, collected, before, data>>
      /\ Untouched /\ todo = <<>> /\ Gathered /\ InAll
      /\ tab.policy = "single" => Yes = {}
      /\ IF tab.policy = "collect" THEN Pending(Matched) ELSE values = <<>>
  BY DEF Tested, PhaseInv
<1>2. /\ tests \in Seq({"yes", "no", "error"}) /\ Len(tests) = N /\ N \in Nat
      /\ tab.policy \in Policies /\ Len(tests)' = N'
  <2>1. tests \in Seq({"yes", "no", "error"}) /\ Len(tests) = i - 1 /\ i \in 1 .. N + 1 /\ tab \in Tables
    BY DEF TypeInv, TypeOK, N
  <2>2. N \in Nat /\ tab.policy \in Policies
    BY <2>1, Constants
  <2>3. Len(tests) = N
    BY <1>1, <2>1, <2>2 DEF N
  <2>. QED
    BY <1>1, <2>1, <2>2, <2>3 DEF N
<1>3. /\ Gathered' /\ InAll' /\ Evaluated' = Evaluated /\ (\A rs : Cells(rs)' = Cells(rs))
      /\ (\A key : Given(key)' = Given(key))
  BY <1>1, StayGathered
<1>4. Yes' = Yes /\ Matched' = Matched
  BY <1>1 DEF Yes, Matched
<1>5. /\ Ascending(Matched, Yes) /\ (Matched = <<>> <=> Yes = {}) /\ Matched \in Seq(1 .. Len(tests))
  BY <1>2, MatchedIs
<1>6. Yes = {} => values = <<>>
  BY <1>1, <1>5, EvaluatedNone
<1>7. data' = before'[1] /\ data = before[1] /\ tab' = tab /\ Len(tests') = Len(tab'.rules)
  BY <1>1, <1>2 DEF Untouched, store, N
<1>8. CASE Matched = <<>> /\ tab.defaults = <<>> /\ Return("ok") /\ UNCHANGED <<todo, firing>>
  <2>1. pc' = "idle" /\ result' = "ok" /\ Untouched' /\ Yes' = {} /\ values' = <<>> /\ tab'.defaults = <<>>
    BY <1>1, <1>4, <1>5, <1>6, <1>8 DEF Return, Untouched, store
  <2>2. Outcomes'
    BY <1>2, <2>1, Begun
  <2>. QED
    BY <2>1, <2>2, After
<1>9. ASSUME NEW r \in 0 .. N, StartRule(r), values = <<>>,
             tab.policy \in {"any", "collect"} => Yes = {},
             Recorded'
      PROVE  PhaseInv' /\ Outcomes'
  <2>1. pc' = "apply" /\ firing' = <<r>> /\ todo' = Cells(<<r>>) /\ values' = <<>>
    BY <1>1, <1>9 DEF StartRule, Fire, RecordFirings
  <2>2. todo' = Cells(firing)'
    BY <1>3, <2>1
  <2>3. (\E q \in 0 .. N : firing = <<q>>)'
    BY <1>7, <2>1 DEF N
  <2>4. Applying'
    BY <1>4, <1>7, <1>9, <2>1, <2>2, <2>3, Begun
  <2>5. PhaseInv'
    BY <1>9, <2>1, <2>4 DEF PhaseInv
  <2>. QED
    BY <2>1, <2>5, After
<1>10. CASE Matched = <<>> /\ tab.defaults # <<>> /\ StartRule(0)
  <2>1. Yes = {} /\ Cardinality(Yes) = 0 /\ firing' = <<0>> /\ 0 \in 0 .. N /\ values = <<>>
    <3>1. Yes = {} /\ values = <<>>
      BY <1>5, <1>6, <1>10
    <3>2. Cardinality(Yes) = 0
      BY <3>1, FS_EmptySet
    <3>3. firing' = <<0>> /\ 0 \in 0 .. N
      BY <1>2, <1>10 DEF StartRule, Fire, RecordFirings
    <3>. QED
      BY <3>1, <3>2, <3>3
  <2>2. Recorded'
    BY <1>4, <1>7, <1>10, <2>1 DEF Recorded
  <2>. QED
    BY <1>9, <1>10, <2>1, <2>2
<1>11. CASE Matched # <<>> /\ Ambiguous /\ Refuse("MultipleMatches") /\ UNCHANGED todo
  <2>1. pc' = "idle" /\ result' = "MultipleMatches" /\ Untouched'
    BY <1>1, <1>11 DEF Refuse, Return, Untouched, store
  <2>. QED
    BY <2>1, After
<1>12. CASE Matched # <<>> /\ tab.policy = "unique" /\ ~Ambiguous /\ StartRule(Matched[1])
  <2>1. Len(Matched) = 1 /\ DOMAIN Matched = {1} /\ Matched[1] \in 0 .. N
    <3>1. Len(Matched) \in Nat /\ DOMAIN Matched = 1 .. Len(Matched) /\ Len(Matched) # 0
      BY <1>5, <1>12
    <3>2. Len(Matched) = 1
      BY <1>12, <3>1 DEF Ambiguous
    <3>3. DOMAIN Matched = {1}
      BY <3>1, <3>2
    <3>4. Matched[1] \in 0 .. N
      BY <3>3, MatchedRules, MembersIn DEF MemberOf
    <3>. QED
      BY <3>2, <3>3, <3>4
  <2>2. Yes = {Matched[1]}
    BY <1>5, <2>1 DEF Ascending, MemberOf
  <2>3. Cardinality(Yes) = 1 /\ Ascending(<<Matched[1]>>, {Matched[1]})
    <3>1. Cardinality(Yes) = 1
      BY <2>2, FS_Singleton
    <3> DEFINE m == Matched[1]
    <3>. HIDE DEF m
    <3>2. Ascending(<<m>>, {m})
      BY DEF Ascending, MemberOf
    <3>. QED
      BY <3>1, <3>2 DEF m
  <2>4. firing' = <<Matched[1]>> /\ values = <<>>
    BY <1>1, <1>12 DEF StartRule, Fire, RecordFirings
  <2>5. Recorded'
    <3>1. Yes # {} /\ Yes' = Yes /\ Cardinality(Yes) <= 1 /\ Ascending(<<Matched[1]>>, Yes)
      BY <1>4, <2>2, <2>3
    <3>2. Yes' # {} /\ Cardinality(Yes)' <= 1 /\ Ascending(firing, Yes)'
      BY <2>4, <3>1
    <3>. QED
      BY <1>7, <3>2 DEF Recorded
  <2>. QED
    BY <1>9, <1>12, <2>1, <2>4, <2>5
<1>13. CASE /\ Matched # <<>> /\ tab.policy = "any"
            /\ pc' = "agree" /\ todo' = Cells(Matched)
            /\ UNCHANGED <<firing, result>>
  <2>1. Untouched' /\ tab'.policy = "any" /\ Yes' # {} /\ Evaluated' = <<>>
    <3>1. Evaluated = <<>>
      BY <1>1, <1>13, EmptyFacts DEF Evaluated
    <3>. QED
      BY <1>1, <1>3, <1>4, <1>5, <1>13, <3>1 DEF Untouched, store
  <2>2. <<>> \o todo' = todo'
    BY DEF TypeInv
  <2>3. Pending(Matched)'
    BY <1>3, <1>4, <1>13, <2>1, <2>2 DEF Pending
  <2>4. PhaseInv'
    BY <1>2, <1>3, <1>13, <2>1, <2>3 DEF PhaseInv
  <2>. QED
    BY <1>13, <2>4, After
<1>14. CASE /\ Matched # <<>> /\ tab.policy = "collect"
            /\ RecordFirings(Matched)
            /\ pc' = "write"
            /\ UNCHANGED <<todo, result>>
  <2>1. firing' = Matched /\ todo' = <<>> /\ tab'.policy = "collect" /\ Yes' # {}
    BY <1>1, <1>4, <1>5, <1>14 DEF RecordFirings
  <2>2. Pending(firing)'
    BY <1>1, <1>3, <1>14, <2>1 DEF Pending
  <2>3. Writing'
    BY <1>3, <1>7, <2>1, <2>2, Begun
  <2>4. Recorded'
    BY <1>4, <1>5, <1>7, <2>1 DEF Recorded
  <2>5. PhaseInv'
    BY <1>14, <2>3, <2>4 DEF PhaseInv
  <2>. QED
    BY <1>14, <2>5, After
<1>. QED
  BY <1>8, <1>10, <1>11, <1>12, <1>13, <1>14 DEF Tested

\* One decision more: its value is the last, and nothing before it changes.
LEMMA EvalIs ==
  ASSUME TypeInv, todo # <<>>, NEW v \in Values \union {Error}, Eval(v)
  PROVE  /\ Len(values) \in Nat /\ DOMAIN values = 1 .. Len(values)
         /\ DOMAIN values' = 1 .. Len(values) + 1
         /\ \A j \in 1 .. Len(values) : values'[j] = values[j]
         /\ values'[Len(values) + 1] = [cell |-> Head(todo), v |-> v]
         /\ Evaluated' = Append(Evaluated, Head(todo))
         /\ Evaluated' \o Tail(todo) = Evaluated \o todo
         /\ Head(todo) \in Cell /\ Head(todo)[2] \in Keys
<1> DEFINE e == [cell |-> Head(todo), v |-> v]
<1>1. todo \in Seq(Cell) /\ values \in Seq(Evaluation)
  BY DEF TypeInv
<1>2. Head(todo) \in Cell /\ Head(todo)[2] \in Keys
  BY <1>1, ShiftOne DEF Cell
<1>3. e \in Evaluation /\ values' = Append(values, e) /\ e.cell = Head(todo)
  BY <1>2 DEF Eval, Evaluation
<1>. HIDE DEF e
<1>4. /\ Len(values) \in Nat /\ DOMAIN values = 1 .. Len(values)
      /\ DOMAIN values' = 1 .. Len(values) + 1
      /\ \A j \in 1 .. Len(values) : values'[j] = values[j]
      /\ values'[Len(values) + 1] = e
  BY <1>1, <1>3
<1>5. Evaluated' = Append(Evaluated, Head(todo))
  <2>1. /\ Evaluated \in Seq(Cell) /\ Len(Evaluated) = Len(values)
        /\ \A j \in 1 .. Len(values) : Evaluated[j] = values[j].cell
    BY <1>1, <1>4, EvaluatedIs DEF Evaluated
  <2>2. Evaluated' = [j \in 1 .. Len(values) + 1 |-> values'[j].cell]
    BY <1>4 DEF Evaluated
  <2> DEFINE s == Evaluated
             c == Head(todo)
  <2>. HIDE DEF s, c
  <2>3. s \in Seq(Cell) /\ c \in Cell /\ Len(s) = Len(values)
    BY <1>2, <2>1 DEF s, c
  <2>4. /\ Append(s, c) = [j \in 1 .. Len(values) + 1 |-> Append(s, c)[j]]
        /\ Append(s, c)[Len(values) + 1] = c
        /\ \A j \in 1 .. Len(values) : Append(s, c)[j] = s[j]
    BY <1>4, <2>3, AppendIn
  <2>5. \A j \in 1 .. Len(values) + 1 : values'[j].cell = Append(s, c)[j]
    <3>. SUFFICES ASSUME NEW j \in 1 .. Len(values) + 1 PROVE values'[j].cell = Append(s, c)[j]
      OBVIOUS
    <3>1. CASE j = Len(values) + 1
      BY <1>3, <1>4, <2>4, <3>1 DEF c
    <3>2. CASE j # Len(values) + 1
      <4>1. j \in 1 .. Len(values)
        BY <1>4, <3>2
      <4>. QED
        BY <1>4, <2>1, <2>4, <4>1 DEF s
    <3>. QED
      BY <3>1, <3>2
  <2>6. [j \in 1 .. Len(values) + 1 |-> values'[j].cell] = Append(s, c)
    BY <2>4, <2>5
  <2>. QED
    BY <2>2, <2>6 DEF s, c
<1>6. Append(Evaluated, Head(todo)) \o Tail(todo) = Evaluated \o todo
  <2> DEFINE s == Evaluated
  <2>1. s \in Seq(Cell)
    BY <1>1, EvaluatedIs
  <2>. HIDE DEF s
  <2>2. Append(s, Head(todo)) \o Tail(todo) = s \o todo
    BY <1>1, <2>1, ShiftOne
  <2>. QED
    BY <2>2 DEF s
<1>. QED
  BY <1>2, <1>4, <1>5, <1>6 DEF e

\* Any and collect gather it with the values of its key.
LEMMA GatherStep ==
  ASSUME TypeInv, Gathered, InAll, todo # <<>>, UNCHANGED tab,
         NEW v \in Values, Eval(v), Collect(Head(todo)[2], v),
         tab.policy = "any" => ~Disagrees(Head(todo)[2], v)
  PROVE  Gathered' /\ InAll'
<1> DEFINE key == Head(todo)[2]
           n == Len(values)
<1>1. /\ n \in Nat /\ DOMAIN values = 1 .. n /\ DOMAIN values' = 1 .. n + 1
      /\ \A j \in 1 .. n : values'[j] = values[j]
      /\ values'[n + 1].v = v /\ values'[n + 1].cell[2] = key
      /\ Head(todo) \in Cell /\ key \in Keys
  <2>1. v \in Values \union {Error}
    OBVIOUS
  <2>2. /\ n \in Nat /\ DOMAIN values = 1 .. n /\ DOMAIN values' = 1 .. n + 1
        /\ \A j \in 1 .. n : values'[j] = values[j]
        /\ values'[n + 1] = [cell |-> Head(todo), v |-> v]
        /\ Head(todo) \in Cell /\ key \in Keys
    BY <2>1, EvalIs
  <2>. QED
    BY <2>2
<1>2. values \in Seq(Evaluation) /\ tab \in Tables /\ order \in Seq(Keys) /\ DOMAIN collected = Keys
  BY DEF TypeInv
<1>3. \A k \in Keys : Given(k)' = IF k = key THEN Append(Given(k), v) ELSE Given(k)
  BY <1>1, <1>2, GivenGrows DEF Eval
<1>4. \A k \in Keys : Given(k) \in Seq(Values) /\ collected[k] = Given(k)
  BY <1>2, GivenIs DEF Gathered
<1>5. \A k \in Keys : Given(k) # <<>> <=> \E j \in 1 .. n : values[j].cell[2] = k
  BY <1>1, <1>2, GivenIs DEF Gathered, Clean
<1>6. /\ collected' = [collected EXCEPT ![key] = Append(Given(key), v)]
      /\ order' = IF Given(key) = <<>> THEN Append(order, key) ELSE order
  BY <1>1, <1>4 DEF Collect
<1>7. \A j \in 1 .. n : \A k : Seen(j, k)' <=> Seen(j, k)
  <2>. SUFFICES ASSUME NEW j \in 1 .. n, NEW k PROVE Seen(j, k)' <=> Seen(j, k)
    OBVIOUS
  <2>1. \A p \in 1 .. j : p \in 1 .. n
    BY <1>1
  <2>. QED
    BY <1>1, <2>1 DEF Seen
<1>. HIDE DEF key, n
<1>8. Clean'
  <2>1. \A j \in 1 .. n + 1 : j \in 1 .. n \/ j = n + 1
    BY <1>1
  <2>. QED
    BY <1>1, <2>1 DEF Gathered, Clean
<1>9. \A k \in Keys : collected'[k] = Given(k)'
  BY <1>2, <1>3, <1>4, <1>6
<1>10. ASSUME tab.policy = "any", NEW k \in Keys, NEW j \in 2 .. Len(Given(k)')
       PROVE  Agree(Given(k)'[1], Given(k)'[j])
  <2> DEFINE G == Given(k)
  <2>1. /\ G \in Seq(Values) /\ \A m \in 2 .. Len(G) : Agree(G[1], G[m])
        /\ G # <<>> /\ k = key => Agree(G[1], v)
        /\ Given(k)' = IF k = key THEN Append(G, v) ELSE G
    BY <1>3, <1>4, <1>10 DEF Gathered, Disagrees, key
  <2>. HIDE DEF G
  <2>2. CASE k # key
    BY <2>1, <2>2
  <2>3. CASE k = key
    <3>1. /\ Len(G) \in Nat /\ Len(Append(G, v)) = Len(G) + 1 /\ Append(G, v)[Len(G) + 1] = v
          /\ \A m \in 1 .. Len(G) : Append(G, v)[m] = G[m]
      BY <2>1, AppendIn
    <3>2. j \in 2 .. Len(G) + 1 /\ Given(k)' = Append(G, v)
      BY <2>1, <2>3, <3>1
    <3>3. 1 \in 1 .. Len(G) /\ G # <<>>
      <4>1. Len(G) # 0 /\ Len(G) >= 1
        BY <3>1, <3>2
      <4>. QED
        BY <2>1, <3>1, <4>1, EmptyFacts
    <3>4. CASE j = Len(G) + 1
      BY <2>1, <2>3, <3>1, <3>2, <3>3, <3>4
    <3>5. CASE j # Len(G) + 1
      <4>1. j \in 2 .. Len(G) /\ j \in 1 .. Len(G)
        BY <3>1, <3>2, <3>5
      <4>. QED
        BY <2>1, <3>1, <3>2, <3>3, <4>1
    <3>. QED
      BY <3>4, <3>5
  <2>. QED
    BY <2>2, <2>3
<1>11. CASE Given(key) # <<>>
  <2>1. order' = order
    BY <1>6, <1>11
  <2>2. \A k \in Keys : Given(k)' # <<>> <=> Given(k) # <<>>
    <3>1. Append(Given(key), v) # <<>>
      BY <1>1, <1>4, AppendIn, EmptyFacts
    <3>. QED
      BY <1>3, <1>11, <3>1
  <2>3. \A a, b \in DOMAIN order : a < b => \E j \in 1 .. n + 1 : Seen(j, order[a])' /\ ~Seen(j, order[b])'
    <3>. SUFFICES ASSUME NEW a \in DOMAIN order, NEW b \in DOMAIN order, a < b
         PROVE  \E j \in 1 .. n + 1 : Seen(j, order[a])' /\ ~Seen(j, order[b])'
      OBVIOUS
    <3>1. PICK j \in 1 .. n : Seen(j, order[a]) /\ ~Seen(j, order[b])
      BY <1>1 DEF Gathered
    <3>2. Seen(j, order[a])' /\ ~Seen(j, order[b])'
      BY <1>7, <2>1, <3>1
    <3>3. j \in 1 .. n + 1
      BY <1>1
    <3>. QED
      BY <3>2, <3>3
  <2>4. InAll'
    BY <2>1, <2>2 DEF InAll
  <2>5. NoRepeats(order)'
    BY <2>1 DEF Gathered
  <2>6. Gathered'
    BY <1>1, <1>8, <1>9, <1>10, <2>1, <2>3, <2>5 DEF Gathered
  <2>. QED
    BY <2>4, <2>6
<1>12. CASE Given(key) = <<>>
  <2> DEFINE last == Len(order) + 1
  <2>1. /\ order' = Append(order, key) /\ Len(order) \in Nat /\ DOMAIN order = 1 .. Len(order)
        /\ DOMAIN order' = 1 .. last /\ order'[last] = key
        /\ \A a \in 1 .. Len(order) : order'[a] = order[a]
    BY <1>1, <1>2, <1>6, <1>12, AppendIn
  <2>2. \A a \in 1 .. last : a \in 1 .. Len(order) \/ a = last
    BY <2>1
  <2>3. key \notin MemberOf(order) /\ \A a \in 1 .. Len(order) : order[a] \in Keys /\ order[a] # key
    <3>1. key \notin MemberOf(order)
      BY <1>1, <1>12 DEF InAll
    <3>2. \A a \in 1 .. Len(order) : order[a] \in MemberOf(order)
      BY <2>1 DEF MemberOf
    <3>. QED
      BY <1>2, <3>1, <3>2, MembersIn
  <2>4. \A k \in Keys : Given(k)' # <<>> <=> Given(k) # <<>> \/ k = key
    <3>1. Append(Given(key), v) # <<>>
      BY <1>1, <1>4, AppendIn, EmptyFacts
    <3>. QED
      BY <1>3, <1>12, <3>1
  <2>5. MemberOf(order)' = MemberOf(order) \union {key}
    BY <2>1, <2>2 DEF MemberOf
  <2>6. InAll'
    BY <2>4, <2>5 DEF InAll
  <2>7. NoRepeats(order)'
    <3>1. \A a, b \in 1 .. Len(order) : order[a] = order[b] => a = b
      BY <2>1 DEF Gathered, NoRepeats
    <3>. QED
      BY <2>1, <2>2, <2>3, <3>1 DEF NoRepeats
  <2>8. ASSUME NEW a \in DOMAIN order', NEW b \in DOMAIN order', a < b
        PROVE  \E j \in DOMAIN values' : Seen(j, order[a])' /\ ~Seen(j, order[b])'
    <3>1. a \in 1 .. Len(order)
      BY <2>1, <2>2, <2>8
    <3>2. \E j \in 1 .. n : Seen(j, order[a]) /\ ~Seen(j, order'[b])
      <4>1. CASE b \in 1 .. Len(order)
        BY <1>1, <2>1, <2>8, <3>1, <4>1 DEF Gathered
      <4>2. CASE b = last
        <5>1. order[a] \in MemberOf(order) /\ order[a] \in Keys
          BY <2>1, <2>3, <3>1 DEF MemberOf
        <5>2. PICK j \in 1 .. n : values[j].cell[2] = order[a]
          BY <1>5, <5>1 DEF InAll
        <5>3. Seen(j, order[a])
          BY <1>1, <5>2 DEF Seen
        <5>4. ~Seen(j, key)
          <6>1. \A p \in 1 .. j : p \in 1 .. n
            BY <1>1
          <6>. QED
            BY <1>1, <1>5, <1>12, <6>1 DEF Seen
        <5>. QED
          BY <2>1, <4>2, <5>3, <5>4
      <4>. QED
        BY <2>1, <2>2, <4>1, <4>2
    <3>3. PICK j \in 1 .. n : Seen(j, order[a]) /\ ~Seen(j, order'[b])
      BY <3>2
    <3>4. Seen(j, order[a])' /\ ~Seen(j, order[b])'
      <4>1. order'[a] = order[a]
        BY <2>1, <3>1
      <4>2. \A p \in 1 .. j : values'[p] = values[p]
        BY <1>1
      <4>. QED
        BY <3>3, <4>1, <4>2 DEF Seen
    <3>5. j \in DOMAIN values'
      BY <1>1
    <3>. QED
      BY <3>4, <3>5
  <2>9. Gathered'
    BY <1>8, <1>9, <1>10, <2>7, <2>8 DEF Gathered
  <2>. QED
    BY <2>6, <2>9
<1>. QED
  BY <1>11, <1>12

LEMMA CheckAgreementKeeps == TypeInv /\ PhaseInv /\ TypeInv' /\ CheckAgreement => PhaseInv' /\ Outcomes'
<1>. SUFFICES ASSUME TypeInv, PhaseInv, TypeInv', CheckAgreement PROVE PhaseInv' /\ Outcomes'
  OBVIOUS
<1>1. /\ pc = "agree" /\ UNCHANGED <<tab, strict, calls, i, tests, before, data>>
      /\ Untouched /\ tab.policy = "any" /\ Yes # {} /\ Gathered /\ InAll /\ Pending(Matched)
      /\ Len(tests) = N
  BY DEF CheckAgreement, PhaseInv
<1>2. Yes' = Yes /\ Matched' = Matched /\ \A rs : Cells(rs)' = Cells(rs)
  BY <1>1, CellsStay DEF Yes, Matched
<1>3. data' = before'[1] /\ tab' = tab /\ Len(tests') = Len(tab'.rules)
  BY <1>1 DEF Untouched, store, N
<1>4. CASE todo = <<>>
  <2>1. firing' = Matched /\ pc' = "write" /\ UNCHANGED <<todo, values, order, collected>>
    BY <1>4 DEF CheckAgreement, RecordFirings, lists
  <2>2. Gathered' /\ InAll' /\ Evaluated' = Evaluated
    BY <1>1, <2>1, StayGathered
  <2>3. Pending(firing)'
    BY <1>1, <1>2, <2>1, <2>2 DEF Pending
  <2>4. Writing'
    BY <1>1, <1>2, <1>3, <1>4, <2>1, <2>2, <2>3, Begun
  <2>5. Ascending(firing, Yes)'
    <3>1. Ascending(Matched, Yes)
      BY MatchedIs DEF TypeInv, TypeOK
    <3>. QED
      BY <1>2, <2>1, <3>1
  <2>6. Recorded'
    BY <1>1, <1>2, <1>3, <2>5 DEF Recorded
  <2>7. PhaseInv'
    BY <2>1, <2>4, <2>6 DEF PhaseInv
  <2>. QED
    BY <2>1, <2>7, After
<1>5. CASE todo # <<>>
  <2>1. PICK v \in Values \union {Error} :
       LET key == Head(todo)[2] IN
       /\ Eval(v)
       /\ \/ v = Error /\ Refuse("decision") /\ UNCHANGED <<todo, order, collected>>
          \/ /\ v # Error /\ Disagrees(key, v)
             /\ Refuse("ConflictingMatches") /\ UNCHANGED <<todo, order, collected>>
          \/ /\ v # Error /\ ~Disagrees(key, v)
             /\ Collect(key, v) /\ todo' = Tail(todo) /\ UNCHANGED <<pc, firing, result>>
    BY <1>5 DEF CheckAgreement
  <2>2. CASE Refuse("decision") \/ Refuse("ConflictingMatches")
    <3>1. pc' = "idle" /\ result' # "ok" /\ Untouched'
      BY <1>1, <2>2 DEF Refuse, Return, Untouched, store
    <3>. QED
      BY <3>1, After
  <2>3. CASE /\ v # Error /\ ~Disagrees(Head(todo)[2], v)
             /\ Collect(Head(todo)[2], v) /\ todo' = Tail(todo) /\ UNCHANGED <<pc, firing, result>>
    <3>1. v \in Values
      BY <2>3
    <3>2. Gathered' /\ InAll'
      BY <1>1, <1>5, <2>1, <2>3, <3>1, GatherStep
    <3>3. Evaluated' \o todo' = Evaluated \o todo
      BY <1>5, <2>1, <2>3, EvalIs
    <3>4. Pending(Matched)'
      BY <1>1, <1>2, <3>3 DEF Pending
    <3>5. Untouched' /\ pc' = "agree" /\ Len(tests)' = N' /\ Yes' # {} /\ tab'.policy = "any"
      BY <1>1, <1>2, <2>3 DEF Untouched, store, N
    <3>6. PhaseInv'
      BY <3>2, <3>4, <3>5 DEF PhaseInv
    <3>. QED
      BY <3>5, <3>6, After
  <2>. QED
    BY <2>1, <2>2, <2>3
<1>. QED
  BY <1>4, <1>5

LEMMA CollectDecisionKeeps == TypeInv /\ PhaseInv /\ TypeInv' /\ CollectDecision => PhaseInv' /\ Outcomes'
<1>. SUFFICES ASSUME TypeInv, PhaseInv, TypeInv', CollectDecision PROVE PhaseInv' /\ Outcomes'
  OBVIOUS
<1>1. /\ pc = "collect" /\ UNCHANGED <<tab, strict, calls, i, tests, before, data>>
      /\ Untouched /\ tab.policy = "collect" /\ Yes # {} /\ Gathered /\ InAll /\ Pending(Matched)
  BY DEF CollectDecision, PhaseInv
<1>2. Yes' = Yes /\ Matched' = Matched /\ \A rs : Cells(rs)' = Cells(rs)
  BY <1>1, CellsStay DEF Yes, Matched
<1>4. CASE todo = <<>>
  <2>1. pc' = "test" /\ UNCHANGED <<todo, values, order, collected, firing>>
    BY <1>4 DEF CollectDecision, lists
  <2>2. Gathered' /\ InAll' /\ Evaluated' = Evaluated
    BY <1>1, <2>1, StayGathered
  <2>3. Pending(Matched)' /\ Untouched'
    BY <1>1, <1>2, <2>1, <2>2 DEF Pending, Untouched, store
  <2>4. PhaseInv'
    BY <1>1, <1>4, <2>1, <2>2, <2>3 DEF PhaseInv
  <2>. QED
    BY <2>1, <2>4, After
<1>5. CASE todo # <<>>
  <2>1. PICK v \in Values \union {Error} :
       /\ Eval(v)
       /\ IF v = Error
          THEN Refuse("decision") /\ UNCHANGED <<todo, order, collected>>
          ELSE /\ Collect(Head(todo)[2], v) /\ todo' = Tail(todo)
               /\ UNCHANGED <<pc, firing, result>>
    BY <1>5 DEF CollectDecision
  <2>2. CASE v = Error
    <3>1. pc' = "idle" /\ result' # "ok" /\ Untouched'
      BY <1>1, <2>1, <2>2 DEF Refuse, Return, Untouched, store
    <3>. QED
      BY <3>1, After
  <2>3. CASE v # Error
    <3>1. /\ v \in Values /\ Collect(Head(todo)[2], v) /\ todo' = Tail(todo)
          /\ UNCHANGED <<pc, firing, result>>
      BY <2>1, <2>3
    <3>2. Gathered' /\ InAll'
      BY <1>1, <1>5, <2>1, <3>1, GatherStep
    <3>3. Evaluated' \o todo' = Evaluated \o todo
      BY <1>5, <2>1, <3>1, EvalIs
    <3>4. Pending(Matched)'
      BY <1>1, <1>2, <3>3 DEF Pending
    <3>5. Untouched' /\ pc' = "collect" /\ Yes' # {} /\ tab'.policy = "collect"
      BY <1>1, <1>2, <3>1 DEF Untouched, store
    <3>6. PhaseInv'
      BY <3>2, <3>4, <3>5 DEF PhaseInv
    <3>. QED
      BY <3>5, <3>6, After
  <2>. QED
    BY <2>2, <2>3
<1>. QED
  BY <1>4, <1>5

LEMMA WriteKeyKeeps == TypeInv /\ PhaseInv /\ TypeInv' /\ WriteKey => PhaseInv' /\ Outcomes'
<1>. SUFFICES ASSUME TypeInv, PhaseInv, TypeInv', WriteKey PROVE PhaseInv' /\ Outcomes'
  OBVIOUS
<1>1. /\ pc = "write" /\ Recorded /\ Writing
      /\ UNCHANGED <<tab, strict, calls, i, tests, todo, values, collected, before, firing>>
  BY DEF WriteKey, PhaseInv
<1>2. CASE UNCHANGED <<order, data>>
  <2>1. UNCHANGED <<tab, tests, lists, before, store>>
    BY <1>1, <1>2 DEF lists, store
  <2>2. Recorded' /\ Writing'
    BY <1>1, <2>1, Stay
  <2>3. CASE pc' = "idle" /\ result' = "ok" /\ order = <<>>
    BY <1>2, <2>2, <2>3, After
  <2>4. CASE pc' = "idle" /\ result' \in {"aggregate", "set"} /\ order # <<>>
    BY <1>2, <2>2, <2>4, After
  <2>5. (pc' = "idle" /\ result' = "ok" /\ order = <<>>)
        \/ (pc' = "idle" /\ result' \in {"aggregate", "set"} /\ order # <<>>)
    <3>1. CASE order = <<>>
      BY <3>1 DEF WriteKey, Return
    <3>2. CASE order # <<>>
      <4>1. Len(order) \in Nat /\ Len(Tail(order)) # Len(order)
        BY <3>2 DEF TypeInv
      <4>2. order' # Tail(order)
        BY <1>2, <4>1
      <4>. QED
        BY <3>2, <4>2 DEF WriteKey, Return
    <3>. QED
      BY <3>1, <3>2
  <2>. QED
    BY <2>3, <2>4, <2>5
<1>3. ASSUME order # <<>>, order' = Tail(order), Set(Head(order), Reduced(Head(order))),
             UNCHANGED <<pc, result>>
      PROVE  PhaseInv' /\ Outcomes'
  <2> DEFINE top == order[1]
             n == Len(order)
  <2>1. /\ n \in Nat \ {0} /\ DOMAIN order = 1 .. n /\ DOMAIN order' = 1 .. n - 1
        /\ \A b \in 1 .. n - 1 : order'[b] = order[b + 1]
        /\ Head(order) = top
    BY <1>3 DEF TypeInv
  <2>2. /\ \A b \in 1 .. n - 1 : b + 1 \in 1 .. n /\ b \in Nat /\ 1 < b + 1
        /\ \A b \in 1 .. n : b = 1 \/ (b - 1 \in 1 .. n - 1 /\ (b - 1) + 1 = b)
        /\ 1 \in 1 .. n
    BY <2>1
  <2>3. /\ tab.policy \in {"any", "collect"} /\ Yes # {} /\ Gathered /\ Evaluated = Cells(firing)
        /\ NoRepeats(order)
    BY <1>1 DEF Writing, Gathered
  <2>. HIDE DEF n
  <2>4. top \in MemberOf(order) /\ top \in Keys
    <3>1. top \in MemberOf(order)
      BY <2>1, <2>2 DEF MemberOf
    <3>2. MemberOf(order) \subseteq Keys
      BY MembersIn DEF TypeInv
    <3>. QED
      BY <3>1, <3>2
  <2>5. \A k \in Keys : k \in MemberOf(order') <=> k \in MemberOf(order) /\ k # top
    <3>. SUFFICES ASSUME NEW k \in Keys
         PROVE  k \in MemberOf(order') <=> k \in MemberOf(order) /\ k # top
      OBVIOUS
    <3>1. ASSUME NEW b \in 1 .. n - 1, order'[b] = k PROVE k \in MemberOf(order) /\ k # top
      <4>1. b + 1 \in 1 .. n /\ order[b + 1] = k /\ b + 1 # 1
        BY <2>1, <2>2, <3>1
      <4>. QED
        BY <2>1, <2>2, <2>3, <4>1 DEF MemberOf, NoRepeats
    <3>2. ASSUME NEW b \in 1 .. n, order[b] = k, k # top PROVE k \in MemberOf(order')
      <4>1. b - 1 \in 1 .. n - 1 /\ (b - 1) + 1 = b
        BY <2>2, <3>2
      <4>2. order'[b - 1] = k
        BY <2>1, <3>2, <4>1
      <4>. QED
        BY <2>1, <4>1, <4>2 DEF MemberOf
    <3>. QED
      BY <2>1, <3>1, <3>2 DEF MemberOf
  <2>6. /\ (\A key : Given(key)' = Given(key)) /\ (\A rs : Cells(rs)' = Cells(rs))
        /\ Yes' = Yes /\ Evaluated' = Evaluated /\ (Clean => Clean')
        /\ (\A k, j : Seen(j, k)' <=> Seen(j, k))
    BY <1>1, GivenStays, CellsStay DEF Yes, Evaluated, Clean, Seen
  <2>7. \A k : Reduced(k)' = Reduced(k)
    BY <1>1 DEF Reduced
  <2>8. NoRepeats(order)'
    <3>1. ASSUME NEW a \in 1 .. n - 1, NEW b \in 1 .. n - 1, order'[a] = order'[b] PROVE a = b
      <4>1. order[a + 1] = order[b + 1] /\ a + 1 \in 1 .. n /\ b + 1 \in 1 .. n /\ a \in Nat /\ b \in Nat
        BY <2>1, <2>2, <3>1
      <4>2. a + 1 = b + 1
        BY <2>1, <2>3, <4>1 DEF NoRepeats
      <4>. QED
        BY <4>1, <4>2
    <3>. QED
      BY <2>1, <3>1 DEF NoRepeats
  <2>9. ASSUME NEW a \in DOMAIN order', NEW b \in DOMAIN order', a < b
        PROVE  \E j \in DOMAIN values' : Seen(j, order[a])' /\ ~Seen(j, order[b])'
    <3>1. /\ a + 1 \in DOMAIN order /\ b + 1 \in DOMAIN order /\ a + 1 < b + 1
          /\ order'[a] = order[a + 1] /\ order'[b] = order[b + 1]
      BY <2>1, <2>2, <2>9
    <3>2. PICK j \in DOMAIN values : Seen(j, order[a + 1]) /\ ~Seen(j, order[b + 1])
      BY <2>3, <3>1 DEF Gathered
    <3>3. values' = values
      BY <1>1
    <3>4. Seen(j, order[a])' /\ ~Seen(j, order[b])'
      BY <3>1, <3>2, <3>3 DEF Seen
    <3>. QED
      BY <3>2, <3>3, <3>4
  <2>10. Gathered'
    <3>1. Clean' /\ (\A key \in Keys : collected'[key] = Given(key)')
      BY <1>1, <2>3, <2>6 DEF Gathered
    <3>2. tab'.policy = "any" =>
            \A key \in Keys : \A j \in 2 .. Len(Given(key)') : Agree(Given(key)'[1], Given(key)'[j])
      BY <1>1, <2>3, <2>6 DEF Gathered
    <3>. QED
      BY <2>8, <2>9, <3>1, <3>2 DEF Gathered
  <2>11. \A key \in MemberOf(order') : Given(key)' # <<>>
    <3>1. \A key \in MemberOf(order') : key \in Keys
      BY MembersIn DEF TypeInv
    <3>. QED
      BY <1>1, <2>5, <2>6, <3>1 DEF Writing
  <2>12. ASSUME NEW key \in Keys, Given(key)' # <<>>, key \notin MemberOf(order'), NEW b \in DOMAIN order'
         PROVE  \E j \in DOMAIN values' : Seen(j, key)' /\ ~Seen(j, order[b])'
    <3>1. b + 1 \in DOMAIN order /\ 1 \in DOMAIN order /\ 1 < b + 1 /\ order'[b] = order[b + 1]
      BY <2>1, <2>2
    <3>2. values' = values /\ Given(key) # <<>>
      BY <1>1, <2>6, <2>12
    <3>3. \E j \in DOMAIN values : Seen(j, key) /\ ~Seen(j, order[b + 1])
      <4>1. CASE key = top
        BY <2>3, <3>1, <4>1 DEF Gathered
      <4>2. CASE key # top
        <5>1. key \notin MemberOf(order)
          BY <2>5, <2>12, <4>2
        <5>. QED
          BY <1>1, <3>1, <3>2, <5>1 DEF Writing
      <4>. QED
        BY <4>1, <4>2
    <3>4. PICK j \in DOMAIN values : Seen(j, key) /\ ~Seen(j, order[b + 1])
      BY <3>3
    <3>5. Seen(j, key)' /\ ~Seen(j, order[b])'
      BY <3>1, <3>2, <3>4 DEF Seen
    <3>. QED
      BY <3>2, <3>4, <3>5
  <2>13. ASSUME NEW key \in Keys
         PROVE  data'[key] = IF Given(key)' # <<>> /\ key \notin MemberOf(order') THEN Reduced(key)'
                             ELSE before'[1][key]
    <3>1. /\ data' = [data EXCEPT ![top] = Reduced(top)] /\ DOMAIN data = Keys
          /\ data[key] = IF Given(key) # <<>> /\ key \notin MemberOf(order) THEN Reduced(key)
                         ELSE before[1][key]
          /\ before' = before
      BY <1>1, <1>3, <2>1 DEF Set, Writing, TypeInv
    <3>2. CASE key = top
      <4>1. Given(key)' # <<>> /\ key \notin MemberOf(order')
        BY <1>1, <2>4, <2>5, <2>6, <3>2 DEF Writing
      <4>. QED
        BY <2>4, <2>7, <3>1, <3>2, <4>1
    <3>3. CASE key # top
      <4>1. data'[key] = data[key] /\ (key \in MemberOf(order') <=> key \in MemberOf(order))
        BY <2>5, <3>1, <3>3
      <4>. QED
        BY <2>6, <2>7, <3>1, <4>1
    <3>. QED
      BY <3>2, <3>3
  <2>14. Writing'
    <3>1. tab'.policy \in {"any", "collect"} /\ Yes' # {} /\ Evaluated' = Cells(firing)'
      BY <1>1, <2>3, <2>6
    <3>. QED
      BY <2>10, <2>11, <2>12, <2>13, <3>1 DEF Writing
  <2>15. Recorded'
    BY <1>1, <2>6 DEF Recorded
  <2>16. PhaseInv' /\ pc' # "idle"
    BY <1>1, <1>3, <2>14, <2>15 DEF PhaseInv
  <2>. QED
    BY <2>16, After
<1>4. UNCHANGED <<order, data>>
      \/ (/\ order # <<>> /\ order' = Tail(order) /\ Set(Head(order), Reduced(Head(order)))
          /\ UNCHANGED <<pc, result>>)
  BY DEF WriteKey
<1>. QED
  BY <1>2, <1>3, <1>4

\* The first n decisions of the rule on record, and no others, are written.
WrittenTo(n) ==
  \A key \in Keys :
    data[key] = IF key \in {Cells(firing)[j][2] : j \in 1 .. n} THEN Given(key)[1] ELSE before[1][key]

LEMMA AppliedInPart ==
  /\ TypeInv /\ pc = "idle" /\ result \in {"decision", "set"}
  /\ tab.policy \in {"any", "collect"} => Yes = {}
  /\ \E n \in 0 .. Len(Cells(firing)) : WrittenTo(n)
  => Outcomes
<1>. SUFFICES ASSUME TypeInv, pc = "idle", result \in {"decision", "set"},
                     tab.policy \in {"any", "collect"} => Yes = {},
                     \E n \in 0 .. Len(Cells(firing)) : WrittenTo(n)
     PROVE  Outcomes
  OBVIOUS
<1>1. \A key \in Keys : Decided(key) = Given(key)[1]
  BY DEF Decided
<1>2. PICK n \in 0 .. Len(Cells(firing)) : WrittenTo(n)
  OBVIOUS
<1>3. \A key \in Keys :
        data[key] = IF key \in {Cells(firing)[j][2] : j \in 1 .. n} THEN Decided(key) ELSE before[1][key]
  BY <1>1, <1>2 DEF WrittenTo
<1>4. RefusalsAreClean /\ TypeOK /\ FiringIsWhatMatched /\ OutputsAreDecided
  BY DEF RefusalsAreClean, TypeInv, FiringIsWhatMatched, OutputsAreDecided, Finished
<1>5. FailuresLeaveAPrefix
  BY <1>3, <1>4 DEF FailuresLeaveAPrefix
<1>. QED
  BY <1>4, <1>5 DEF Outcomes

\* While the rule is applied, what is evaluated is what is written, and comes once.
LEMMA ApplyingIs ==
  ASSUME TypeInv, Applying
  PROVE  /\ Len(values) \in 0 .. Len(Cells(firing)) /\ WrittenTo(Len(values))
         /\ \A key \in Keys : key \in {Cells(firing)[j][2] : j \in 1 .. Len(values)} => Given(key) # <<>>
         /\ todo # <<>> => Given(Head(todo)[2]) = <<>>
<1> DEFINE n == Len(values)
           C == Cells(firing)
<1>1. /\ values \in Seq(Evaluation) /\ n \in Nat /\ DOMAIN values = 1 .. n
      /\ todo \in Seq(Cell) /\ tab \in Tables
  BY DEF TypeInv
<1>2. Evaluated \in Seq(Cell) /\ Len(Evaluated) = n /\ C = Evaluated \o todo
  BY <1>1, EvaluatedIs DEF Applying, Pending
<1>3. /\ n \in 0 .. Len(C) /\ DOMAIN C = 1 .. Len(C) /\ Len(C) \in Nat
      /\ \A j \in 1 .. n : C[j] = values[j].cell
      /\ todo # <<>> => n + 1 \in 1 .. Len(C) /\ C[n + 1] = Head(todo)
  <2> DEFINE s == Evaluated
  <2>1. s \in Seq(Cell) /\ Len(s) = n /\ C = s \o todo
    BY <1>2
  <2>2. \A j \in 1 .. n : s[j] = values[j].cell
    BY <1>1 DEF Evaluated
  <2>. HIDE DEF s, C, n
  <2>3. /\ Len(C) = n + Len(todo) /\ DOMAIN C = 1 .. Len(C) /\ Len(todo) \in Nat
        /\ \A j \in 1 .. n : C[j] = s[j]
    <3>0. s \in Seq(Cell) /\ todo \in Seq(Cell)
      BY <1>1, <2>1
    <3>1. /\ Len(s \o todo) = Len(s) + Len(todo) /\ DOMAIN (s \o todo) = 1 .. Len(s) + Len(todo)
          /\ Len(todo) \in Nat /\ \A j \in 1 .. Len(s) : (s \o todo)[j] = s[j]
      BY <3>0, ConcatIs
    <3>. QED
      BY <2>1, <3>1
  <2>4. ASSUME todo # <<>> PROVE n + 1 \in 1 .. Len(C) /\ C[n + 1] = Head(todo)
    <3>1. 1 \in 1 .. Len(todo) /\ Head(todo) = todo[1]
      BY <1>1, <2>4
    <3>2. C[n + 1] = todo[1]
      BY <1>1, <2>1, <3>1
    <3>. QED
      BY <1>1, <2>3, <3>1, <3>2
  <2>. QED
    BY <1>1, <2>2, <2>3, <2>4
<1>4. \A key \in Keys : Given(key) # <<>> <=> \E j \in 1 .. n : values[j].cell[2] = key
  BY <1>1, GivenIs DEF Applying, Clean
<1>. HIDE DEF n, C
<1>5. \A key \in Keys : key \in {C[j][2] : j \in 1 .. n} <=> Given(key) # <<>>
  BY <1>3, <1>4
<1>6. WrittenTo(n)
  BY <1>5 DEF WrittenTo, C, Applying
<1>7. ASSUME todo # <<>> PROVE Given(Head(todo)[2]) = <<>>
  <2>1. PICK r \in 0 .. N : firing = <<r>>
    BY DEF Applying
  <2>2. /\ C = Row(r) /\ DOMAIN C = DOMAIN Rule(r) /\ NoRepeats(Rule(r))
        /\ \A k \in DOMAIN C : C[k][2] = Rule(r)[k]
    BY <1>1, <2>1, CellsOne, RowIs, Constants DEF C
  <2>3. Head(todo)[2] \in Keys
    BY <1>1, <1>7, ShiftOne DEF Cell
  <2>4. ASSUME NEW j \in 1 .. n, values[j].cell[2] = Head(todo)[2] PROVE FALSE
    <3>1. j \in DOMAIN C /\ n + 1 \in DOMAIN C /\ j # n + 1
      BY <1>1, <1>3, <1>7 DEF n
    <3>2. C[j][2] = C[n + 1][2]
      BY <1>3, <1>7, <2>4
    <3>. QED
      BY <2>2, <3>1, <3>2 DEF NoRepeats
  <2>. QED
    BY <1>4, <2>3, <2>4
<1>. QED
  BY <1>3, <1>5, <1>6, <1>7 DEF n, C

LEMMA ApplyKeeps == TypeInv /\ PhaseInv /\ TypeInv' /\ Apply => PhaseInv' /\ Outcomes'
<1>. SUFFICES ASSUME TypeInv, PhaseInv, TypeInv', Apply PROVE PhaseInv' /\ Outcomes'
  OBVIOUS
<1>1. /\ pc = "apply" /\ Recorded /\ Applying
      /\ UNCHANGED <<tab, strict, calls, i, tests, order, collected, before, firing>>
  BY DEF Apply, PhaseInv
<1>10. (/\ TypeInv /\ pc = "idle" /\ result \in {"decision", "set"}
        /\ tab.policy \in {"any", "collect"} => Yes = {}
        /\ \E n \in 0 .. Len(Cells(firing)) : WrittenTo(n)
        => Outcomes)'
  BY AppliedInPart, PTL
<1>2. CASE todo = <<>>
  <2>1. /\ UNCHANGED <<tab, tests, lists, before, store>> /\ pc' = "idle" /\ result' = "ok" /\ todo' = <<>>
    BY <1>1, <1>2 DEF Apply, Return, lists, store
  <2>2. Recorded' /\ Applying'
    BY <1>1, <2>1, Stay
  <2>. QED
    BY <2>1, <2>2, After
<1>3. CASE todo # <<>>
  <2>0. PICK key \in Keys : key = Head(todo)[2]
    BY <1>3, ShiftOne DEF TypeInv, Cell
  <2>1. PICK v \in Values \union {Error} :
       /\ Eval(v)
       /\ \/ v = Error /\ Return("decision") /\ UNCHANGED <<todo, data>>
          \/ v # Error /\ Taken(key) /\ Return("set") /\ UNCHANGED <<todo, data>>
          \/ v # Error /\ Set(key, v) /\ todo' = Tail(todo) /\ UNCHANGED <<pc, result>>
    BY <1>3, <2>0 DEF Apply
  <2>2. /\ Head(todo) \in Cell /\ key \in Keys /\ Given(key) = <<>>
        /\ Evaluated' \o Tail(todo) = Evaluated \o todo
    BY <1>1, <1>3, <2>0, <2>1, EvalIs, ApplyingIs
  <2>3. /\ \A k \in Keys : Given(k)' = IF key = k /\ v \in Values THEN Append(Given(k), v) ELSE Given(k)
        /\ \A k \in Keys : Given(k) \in Seq(Values)
    BY <1>1, <2>0, <2>1, <2>2, GivenGrows, GivenIs DEF Eval, TypeInv
  <2>4. Yes' = Yes /\ \A rs : Cells(rs)' = Cells(rs)
    BY <1>1, CellsStay DEF Yes
  <2>5. CASE pc' = "idle" /\ result' \in {"decision", "set"} /\ UNCHANGED <<todo, data>>
    <3>1. PICK n \in 0 .. Len(Cells(firing)) : n = Len(values)
      BY <1>1, ApplyingIs
    <3>2. /\ WrittenTo(n)
          /\ \A k \in Keys : k \in {Cells(firing)[j][2] : j \in 1 .. n} => Given(k) # <<>>
      BY <1>1, <3>1, ApplyingIs
    <3>3. \A k \in Keys : Given(k) # <<>> => Given(k)'[1] = Given(k)[1]
      <4>. SUFFICES ASSUME NEW k \in Keys, Given(k) # <<>> PROVE Given(k)'[1] = Given(k)[1]
        OBVIOUS
      <4> DEFINE G == Given(k)
      <4>1. G \in Seq(Values) /\ G # <<>> /\ (Given(k)' = G \/ (v \in Values /\ Given(k)' = Append(G, v)))
        BY <2>3
      <4>. HIDE DEF G
      <4>2. v \in Values => Append(G, v)[1] = G[1]
        <5>. SUFFICES ASSUME v \in Values PROVE Append(G, v)[1] = G[1]
          OBVIOUS
        <5>1. 1 \in 1 .. Len(G)
          BY <4>1
        <5>. QED
          BY <4>1, <5>1, AppendIn
      <4>. QED
        BY <4>1, <4>2 DEF G
    <3>4. Cells(firing)' = Cells(firing) /\ data' = data /\ before' = before
      BY <1>1, <2>4, <2>5
    <3>5. ASSUME NEW k \in Keys
          PROVE  data'[k] = IF k \in {Cells(firing)[j][2] : j \in 1 .. n} THEN Given(k)'[1] ELSE before'[1][k]
      BY <3>2, <3>3, <3>4 DEF WrittenTo
    <3>6. WrittenTo(n)'
      BY <3>4, <3>5 DEF WrittenTo
    <3>7. (\E m \in 0 .. Len(Cells(firing)) : WrittenTo(m))'
      BY <3>4, <3>6
    <3>8. tab'.policy \in {"any", "collect"} => Yes' = {}
      BY <1>1, <2>4 DEF Applying
    <3>. QED
      BY <1>10, <2>5, <3>7, <3>8, After
  <2>6. CASE v # Error /\ Set(key, v) /\ todo' = Tail(todo) /\ UNCHANGED <<pc, result>>
    <3>1. v \in Values /\ data' = [data EXCEPT ![key] = v] /\ DOMAIN data = Keys
      BY <2>6 DEF Set, TypeInv
    <3>2. Given(key)' = Append(Given(key), v) /\ Given(key) = <<>> /\ Given(key) \in Seq(Values)
      BY <2>2, <2>3, <3>1
    <3>3. Len(Given(key)') = 1 /\ Given(key)'[1] = v /\ Given(key)' # <<>>
      <4> DEFINE G == Given(key)
      <4>. HIDE DEF G
      <4>1. G \in Seq(Values) /\ Len(G) = 0
        BY <3>2, EmptyFacts DEF G
      <4>2. Len(Append(G, v)) = 1 /\ Append(G, v)[1] = v
        BY <3>1, <4>1, AppendIn
      <4>. QED
        BY <3>2, <4>2, EmptyFacts DEF G
    <3>4. \A k \in Keys : k # key => Given(k)' = Given(k)
      BY <2>3
    <3>5. Clean'
      <4>1. /\ Len(values) \in Nat /\ DOMAIN values = 1 .. Len(values)
            /\ DOMAIN values' = 1 .. Len(values) + 1
            /\ \A j \in 1 .. Len(values) : values'[j] = values[j]
            /\ values'[Len(values) + 1] = [cell |-> Head(todo), v |-> v]
        BY <1>3, <2>1, EvalIs
      <4>2. \A j \in 1 .. Len(values) + 1 : j \in 1 .. Len(values) \/ j = Len(values) + 1
        BY <4>1
      <4>. QED
        BY <1>1, <3>1, <4>1, <4>2 DEF Clean, Applying
    <3>6. Pending(firing)'
      <4>1. Evaluated \o todo = Cells(firing)
        BY <1>1 DEF Applying, Pending
      <4>. QED
        BY <1>1, <2>2, <2>4, <2>6, <4>1 DEF Pending
    <3>7. \A k \in Keys : Len(Given(k)') <= 1
      <4>1. \A k \in Keys : Len(Given(k)) <= 1
        BY <1>1 DEF Applying
      <4>2. Len(Given(key)') <= 1
        BY <3>3
      <4>. QED
        BY <3>4, <4>1, <4>2
    <3>8. \A k \in Keys : data'[k] = IF Given(k)' # <<>> THEN Given(k)'[1] ELSE before'[1][k]
      BY <1>1, <3>1, <3>3, <3>4 DEF Applying
    <3>9. (\E r \in 0 .. N : firing = <<r>>)'
      BY <1>1 DEF Applying, N
    <3>10. tab'.policy \in {"any", "collect"} => Yes' = {}
      BY <1>1, <2>4 DEF Applying
    <3>11. Applying'
      BY <3>5, <3>6, <3>7, <3>8, <3>9, <3>10 DEF Applying
    <3>12. Recorded'
      BY <1>1, <2>4 DEF Recorded
    <3>13. PhaseInv' /\ pc' # "idle"
      BY <1>1, <2>6, <3>11, <3>12 DEF PhaseInv
    <3>. QED
      BY <3>13, After
  <2>. QED
    BY <2>1, <2>5, <2>6 DEF Return
<1>. QED
  BY <1>2, <1>3

\* A step that leaves the variables alone.
LEMMA IdleKeeps == TypeInv /\ PhaseInv /\ Outcomes /\ UNCHANGED vars => PhaseInv' /\ Outcomes'
<1>. SUFFICES ASSUME TypeInv, PhaseInv, Outcomes, UNCHANGED vars PROVE PhaseInv' /\ Outcomes'
  OBVIOUS
<1>1. /\ UNCHANGED <<tab, tests, lists, before, store>> /\ UNCHANGED <<tab, strict, calls, pc, i, result>>
      /\ UNCHANGED <<todo, values, order, collected, data, firing>>
  BY DEF vars, lists, store
<1>2. /\ (Recorded => Recorded') /\ (Applying => Applying') /\ (Writing => Writing') /\ (Gathered => Gathered')
      /\ (InAll => InAll') /\ (Untouched => Untouched') /\ Matched' = Matched /\ Yes' = Yes
      /\ (\A rs : Cells(rs)' = Cells(rs)) /\ (\A rs : Pending(rs) => Pending(rs)')
  BY <1>1, Stay
<1>3. PhaseInv'
  BY <1>1, <1>2 DEF PhaseInv, Pending, Evaluated, N
<1>4. (\A key : Given(key)' = Given(key)) /\ (\A key : Decided(key)' = Decided(key)) /\ (\A r : Rule(r)' = Rule(r))
  BY <1>1, <1>2, GivenStays, CellsStay DEF Decided
<1>5. FiringIsWhatMatched'
  BY <1>1, <1>2 DEF Outcomes, FiringIsWhatMatched, Finished
<1>6. OutputsAreDecided'
  BY <1>1, <1>4 DEF Outcomes, OutputsAreDecided, Finished
<1>7. RefusalsAreClean' /\ TypeOK'
  BY <1>1, <1>2 DEF Outcomes, RefusalsAreClean, TypeInv, TypeOK
<1>8. FailuresLeaveAPrefix'
  BY <1>1, <1>2, <1>4, <1>7 DEF Outcomes, FailuresLeaveAPrefix
<1>. QED
  BY <1>3, <1>5, <1>6, <1>7, <1>8 DEF Outcomes
--------------------------------------------------------------------------------
\* Every call, whatever its conditions and decisions evaluate to: the lists it works
\* through are what the phase it is in says, and what it returns is what the table promises.
THEOREM InductiveInvariant == Spec => []IInv
<1>1. Init => IInv
  BY Initially
<1>2. IInv /\ [Next]_vars => IInv'
  <2>. SUFFICES ASSUME IInv, [Next]_vars PROVE IInv'
    OBVIOUS
  <2>1. TypeInv /\ PhaseInv /\ Outcomes /\ TypeInv'
    BY TypeKept DEF IInv
  <2>2. PhaseInv' /\ Outcomes'
    BY <2>1, CallKeeps, TestKeeps, TestedKeeps, ApplyKeeps, CheckAgreementKeeps, CollectDecisionKeeps,
       WriteKeyKeeps, IdleKeeps DEF Next, Idle
  <2>. QED
    BY <2>1, <2>2 DEF IInv
<1>. QED
  BY <1>1, <1>2, PTL DEF Spec

\* FiringIsWhatMatched, of every table and every number of calls: a call that succeeds
\* leaves recorded the rules that matched, as its policy reads them (DecisionTable.Execute).
THEOREM FiringMatches == Spec => []FiringIsWhatMatched
<1>1. IInv => FiringIsWhatMatched
  BY DEF IInv, Outcomes
<1>. QED
  BY <1>1, InductiveInvariant, PTL

\* OutputsAreDecided, of every table: a call that succeeds has written, for every key, what
\* the rules that fired decided, reduced as the policy says, and touched no other key.
THEOREM OutputsDecided == Spec => []OutputsAreDecided
<1>1. IInv => OutputsAreDecided
  BY DEF IInv, Outcomes
<1>. QED
  BY <1>1, InductiveInvariant, PTL

\* FailuresLeaveAPrefix, of every table: a call that fails half way has written the first
\* few decisions of the rules on record, and a refused one nothing.
THEOREM FailuresPrefix == Spec => []FailuresLeaveAPrefix
<1>1. IInv => FailuresLeaveAPrefix
  BY DEF IInv, Outcomes
<1>. QED
  BY <1>1, InductiveInvariant, PTL
=============================================================================
