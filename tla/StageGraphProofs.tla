--------------------------- MODULE StageGraphProofs ---------------------------
(* Facts about the operators of StageGraph.                                  *)
EXTENDS StageGraph, WellFoundedInduction, TLAPS

\* A nonempty set of naturals has a least element.
LEMMA LeastOfNats ==
  ASSUME NEW T, T \subseteq Nat, T # {}
  PROVE  \E x \in T : \A y \in T : x <= y
<1> DEFINE R == OpToRel(<, Nat)
<1>1. IsWellFoundedOn(R, Nat)
  BY NatLessThanWellFounded
<1>3. \A x, y \in Nat : <<y, x>> \in R <=> y < x
  BY DEF OpToRel
<1> HIDE DEF R
<1>2. PICK x \in T : \A y \in T : ~ (<<y, x>> \in R)
  BY <1>1, WFMin
<1>4. \A y \in T : ~(y < x)
  BY <1>2, <1>3
<1>5. \A y \in T : x <= y
  BY <1>4
<1> QED
  BY <1>5

\* The members of a sequence over S are in S.
LEMMA MembersIn ==
  ASSUME NEW S, NEW s \in Seq(S)
  PROVE  MemberOf(s) \subseteq S
  BY DEF MemberOf

\* What Append gives.
LEMMA AppendIn ==
  ASSUME NEW S, NEW s \in Seq(S), NEW e \in S
  PROVE  /\ Append(s, e) \in Seq(S) /\ Len(s) \in Nat /\ DOMAIN s = 1 .. Len(s)
         /\ Len(Append(s, e)) = Len(s) + 1 /\ DOMAIN Append(s, e) = 1 .. Len(s) + 1
         /\ Append(s, e)[Len(s) + 1] = e
         /\ \A j \in 1 .. Len(s) : Append(s, e)[j] = s[j]
         /\ Append(s, e) = [j \in 1 .. Len(s) + 1 |-> Append(s, e)[j]]
<1> DEFINE t == Append(s, e)
<1>1. /\ t \in Seq(S) /\ Len(s) \in Nat /\ DOMAIN s = 1 .. Len(s)
      /\ Len(t) = Len(s) + 1 /\ DOMAIN t = 1 .. Len(s) + 1
      /\ t[Len(s) + 1] = e
      /\ \A j \in 1 .. Len(s) : t[j] = s[j]
  OBVIOUS
<1>. HIDE DEF t
<1>2. t = [j \in 1 .. Len(t) |-> t[j]]
  BY <1>1
<1>. QED
  BY <1>1, <1>2 DEF t

\* What concatenation gives.
LEMMA ConcatIs ==
  ASSUME NEW S, NEW s \in Seq(S), NEW t \in Seq(S)
  PROVE  /\ s \o t \in Seq(S) /\ Len(s) \in Nat /\ Len(t) \in Nat
         /\ Len(s \o t) = Len(s) + Len(t) /\ DOMAIN (s \o t) = 1 .. Len(s) + Len(t)
         /\ \A k \in 1 .. Len(s) : (s \o t)[k] = s[k]
         /\ \A k \in 1 .. Len(t) : (s \o t)[Len(s) + k] = t[k]
         /\ MemberOf(s \o t) = MemberOf(s) \union MemberOf(t)
<1> DEFINE c == s \o t
<1>1. /\ c \in Seq(S) /\ Len(s) \in Nat /\ Len(t) \in Nat
      /\ Len(c) = Len(s) + Len(t) /\ DOMAIN c = 1 .. Len(s) + Len(t)
      /\ DOMAIN s = 1 .. Len(s) /\ DOMAIN t = 1 .. Len(t)
  OBVIOUS
<1>2. ASSUME NEW k \in 1 .. Len(s) PROVE c[k] = s[k]
  OBVIOUS
<1>3. ASSUME NEW k \in 1 .. Len(t) PROVE c[Len(s) + k] = t[k]
  OBVIOUS
<1>. HIDE DEF c
<1>4. MemberOf(c) \subseteq MemberOf(s) \union MemberOf(t)
  <2>. SUFFICES ASSUME NEW k \in DOMAIN c PROVE c[k] \in MemberOf(s) \union MemberOf(t)
    BY DEF MemberOf
  <2>1. CASE k <= Len(s)
    BY <1>1, <1>2, <2>1 DEF MemberOf
  <2>2. CASE k > Len(s)
    <3>1. k - Len(s) \in 1 .. Len(t) /\ Len(s) + (k - Len(s)) = k
      BY <1>1, <2>2
    <3>. QED
      BY <1>1, <1>3, <3>1 DEF MemberOf
  <2>. QED
    BY <1>1, <2>1, <2>2
<1>5. MemberOf(s) \subseteq MemberOf(c)
  BY <1>1, <1>2 DEF MemberOf
<1>6. MemberOf(t) \subseteq MemberOf(c)
  <2>. SUFFICES ASSUME NEW k \in 1 .. Len(t) PROVE t[k] \in MemberOf(c)
    BY <1>1 DEF MemberOf
  <2>1. Len(s) + k \in DOMAIN c /\ c[Len(s) + k] = t[k]
    BY <1>1, <1>3
  <2>. QED
    BY <2>1 DEF MemberOf
<1>. QED
  BY <1>1, <1>2, <1>3, <1>4, <1>5, <1>6 DEF c

\* Appending adds one member, and no repetition when it is new.
LEMMA AppendMembers ==
  ASSUME NEW S, NEW s \in Seq(S), NEW e \in S
  PROVE  /\ MemberOf(Append(s, e)) = MemberOf(s) \union {e}
         /\ NoRepeats(s) /\ e \notin MemberOf(s) => NoRepeats(Append(s, e))
<1>1. Len(s) \in Nat /\ DOMAIN s = 1 .. Len(s) /\ DOMAIN Append(s, e) = 1 .. Len(s) + 1
      /\ Append(s, e)[Len(s) + 1] = e /\ \A j \in 1 .. Len(s) : Append(s, e)[j] = s[j]
  OBVIOUS
<1>2. DOMAIN Append(s, e) = DOMAIN s \union {Len(s) + 1}
  BY <1>1
<1>3. MemberOf(Append(s, e)) = MemberOf(s) \union {e}
  BY <1>1, <1>2 DEF MemberOf
<1>4. ASSUME NoRepeats(s), e \notin MemberOf(s) PROVE NoRepeats(Append(s, e))
  BY <1>1, <1>2, <1>4 DEF NoRepeats, MemberOf
<1>. QED
  BY <1>3, <1>4

\* FirstIndex finds the first position that holds an element of P, if any does.
LEMMA FirstIndexIs ==
  ASSUME NEW S, NEW s \in Seq(S), NEW P, \E k \in DOMAIN s : s[k] \in P
  PROVE  /\ FirstIndex(s, P) \in DOMAIN s
         /\ s[FirstIndex(s, P)] \in P
         /\ \A j \in DOMAIN s : s[j] \in P => FirstIndex(s, P) <= j
<1> DEFINE hits == {k \in DOMAIN s : s[k] \in P}
<1>1. hits # {} /\ hits \subseteq Nat
  OBVIOUS
<1>2. PICK k \in hits : \A j \in hits : k <= j
  <2> HIDE DEF hits
  <2> QED BY <1>1, LeastOfNats
<1>3. s[k] \in P /\ \A j \in 1 .. k - 1 : s[j] \notin P
  BY <1>2
<1> DEFINE First(m) == m \in DOMAIN s /\ s[m] \in P /\ \A j \in 1 .. m - 1 : s[j] \notin P
<1>4. First(FirstIndex(s, P))
  BY <1>3 DEF FirstIndex
<1> DEFINE f == FirstIndex(s, P)
<1>5. ASSUME NEW j \in DOMAIN s, s[j] \in P PROVE f <= j
  <2> HIDE DEF f
  <2>1. f \in Nat /\ j \in Nat /\ j >= 1 /\ (j < f => j \in 1 .. f - 1)
    BY <1>4 DEF f
  <2> QED BY <2>1, <1>4, <1>5 DEF f
<1> QED
  BY <1>4, <1>5

\* One step of Kept's loop.
Keeping(list, S, f, k) == IF list[k] \in S THEN Append(f[k - 1], list[k]) ELSE f[k - 1]

\* Kept's loop computes a sequence for each prefix of list.
LEMMA KeptLoop ==
  ASSUME NEW A, NEW list \in Seq(A), NEW S
  PROVE  \E f : /\ DOMAIN f = 0 .. Len(list) /\ f[0] = <<>>
                /\ \A k \in 1 .. Len(list) : f[k] = Keeping(list, S, f, k)
                /\ Kept(list, S) = f[Len(list)]
<1> DEFINE Run(f, n) == /\ f = [k \in 0 .. n |-> f[k]] /\ f[0] = <<>>
                        /\ \A k \in 1 .. n : f[k] = Keeping(list, S, f, k)
           Body(f) == [k \in 0 .. Len(list) |->
                         IF k = 0 THEN <<>>
                         ELSE IF list[k] \in S THEN Append(f[k - 1], list[k]) ELSE f[k - 1]]
<1>0. Len(list) \in Nat
  OBVIOUS
<1>1. \A n \in Nat : \E f : Run(f, n)
  <2> DEFINE bad == {n \in Nat : ~\E f : Run(f, n)}
  <2>. SUFFICES ASSUME bad # {} PROVE FALSE
    OBVIOUS
  <2>1. PICK n \in bad : \A m \in bad : n <= m
    <3>1. bad \subseteq Nat
      OBVIOUS
    <3>. HIDE DEF bad
    <3>. QED
      BY <3>1, LeastOfNats
  <2>2. CASE n = 0
    <3> DEFINE g == [k \in 0 .. 0 |-> <<>>]
    <3>1. Run(g, 0)
      OBVIOUS
    <3>. QED
      BY <2>1, <2>2, <3>1
  <2>3. CASE n # 0
    <3>1. n \in Nat /\ n - 1 \in Nat /\ n - 1 \notin bad
      BY <2>1, <2>3
    <3>2. PICK f : Run(f, n - 1)
      BY <3>1
    <3> DEFINE g == [k \in 0 .. n |-> IF k = n THEN Keeping(list, S, f, n) ELSE f[k]]
    <3>3. g = [k \in 0 .. n |-> g[k]] /\ g[0] = <<>>
      BY <2>3, <3>1, <3>2
    <3>4. ASSUME NEW k \in 1 .. n PROVE g[k] = Keeping(list, S, g, k)
      <4>1. g[k - 1] = f[k - 1] /\ k - 1 \in 0 .. n - 1
        BY <3>1
      <4>2. CASE k = n
        BY <3>1, <4>1, <4>2 DEF Keeping
      <4>3. CASE k # n
        <5>1. k \in 1 .. n - 1 /\ g[k] = f[k]
          BY <3>1, <4>3
        <5>. QED
          BY <3>2, <4>1, <5>1 DEF Keeping
      <4>. QED
        BY <4>2, <4>3
    <3>5. Run(g, n)
      BY <3>3, <3>4
    <3>. QED
      BY <2>1, <3>5
  <2>. QED
    BY <2>2, <2>3
<1>2. PICK f : Run(f, Len(list))
  BY <1>0, <1>1
<1>3. f = Body(f)
  <2>1. ASSUME NEW k \in 0 .. Len(list) PROVE f[k] = Body(f)[k]
    <3>1. CASE k = 0
      BY <1>2, <3>1
    <3>2. CASE k # 0
      <4>1. k \in 1 .. Len(list)
        BY <1>0, <3>2
      <4>2. f[k] = Keeping(list, S, f, k)
        BY <1>2, <4>1
      <4>. QED
        BY <3>2, <4>2 DEF Keeping
    <3>. QED
      BY <3>1, <3>2
  <2>. QED
    BY <1>2, <2>1
<1> DEFINE h == CHOOSE g : g = Body(g)
<1>4. h = Body(h)
  BY <1>3
<1>5. Kept(list, S) = h[Len(list)]
  BY DEF Kept
<1>. HIDE DEF h
<1>6. DOMAIN h = 0 .. Len(list) /\ h[0] = <<>>
  BY <1>0, <1>4
<1>7. ASSUME NEW k \in 1 .. Len(list) PROVE h[k] = Keeping(list, S, h, k)
  <2>1. k \in 0 .. Len(list) /\ k # 0
    BY <1>0
  <2>2. h[k] = Body(h)[k]
    BY <1>4
  <2>. QED
    BY <2>1, <2>2 DEF Keeping
<1>. QED
  BY <1>5, <1>6, <1>7

\* Kept's loop goes one element further when the list does.
LEMMA KeptAppend ==
  ASSUME NEW A, NEW list \in Seq(A), NEW e \in A, NEW S
  PROVE  Kept(Append(list, e), S) = IF e \in S THEN Append(Kept(list, S), e) ELSE Kept(list, S)
<1> DEFINE t == Append(list, e)
           n == Len(list)
<1>0. /\ t \in Seq(A) /\ n \in Nat /\ Len(t) = n + 1 /\ t[n + 1] = e
      /\ \A k \in 1 .. n : t[k] = list[k]
  OBVIOUS
<1>1. PICK f : /\ DOMAIN f = 0 .. n /\ f[0] = <<>>
               /\ \A k \in 1 .. n : f[k] = Keeping(list, S, f, k)
               /\ Kept(list, S) = f[n]
  BY KeptLoop
<1>. HIDE DEF t
<1>2. PICK g : /\ DOMAIN g = 0 .. Len(t) /\ g[0] = <<>>
               /\ \A k \in 1 .. Len(t) : g[k] = Keeping(t, S, g, k)
               /\ Kept(t, S) = g[Len(t)]
  BY <1>0, KeptLoop
<1> DEFINE bad == {k \in 0 .. n : f[k] # g[k]}
<1>. HIDE DEF n
<1>3. bad = {}
  <2>. SUFFICES ASSUME bad # {} PROVE FALSE
    OBVIOUS
  <2>1. PICK k \in bad : \A m \in bad : k <= m
    <3>1. bad \subseteq Nat
      BY <1>0
    <3>. HIDE DEF bad
    <3>. QED
      BY <3>1, LeastOfNats
  <2>2. k # 0 /\ k \in 1 .. n /\ k \in 1 .. Len(t) /\ k - 1 \in 0 .. n /\ k - 1 < k
    BY <1>0, <1>1, <1>2, <2>1
  <2>3. f[k - 1] = g[k - 1]
    BY <2>1, <2>2
  <2>4. f[k] = g[k]
    BY <1>0, <1>1, <1>2, <2>2, <2>3 DEF Keeping
  <2>. QED
    BY <2>1, <2>4
<1>4. f[n] = g[n] /\ n + 1 \in 1 .. Len(t) /\ (n + 1) - 1 = n
  BY <1>0, <1>3
<1>5. g[n + 1] = Keeping(t, S, g, n + 1)
  BY <1>2, <1>4
<1>. QED
  BY <1>0, <1>1, <1>2, <1>4, <1>5 DEF Keeping, t

\* Kept depends on which of the list's own elements are in the set.
LEMMA KeptSame ==
  ASSUME NEW A, NEW list \in Seq(A), NEW S, NEW T, \A k \in DOMAIN list : list[k] \in S <=> list[k] \in T
  PROVE  Kept(list, S) = Kept(list, T)
<1>0. Len(list) \in Nat /\ DOMAIN list = 1 .. Len(list)
  OBVIOUS
<1>1. PICK f : /\ DOMAIN f = 0 .. Len(list) /\ f[0] = <<>>
               /\ \A k \in 1 .. Len(list) : f[k] = Keeping(list, S, f, k)
               /\ Kept(list, S) = f[Len(list)]
  BY KeptLoop
<1>2. PICK g : /\ DOMAIN g = 0 .. Len(list) /\ g[0] = <<>>
               /\ \A k \in 1 .. Len(list) : g[k] = Keeping(list, T, g, k)
               /\ Kept(list, T) = g[Len(list)]
  BY KeptLoop
<1> DEFINE bad == {k \in 0 .. Len(list) : f[k] # g[k]}
<1>3. bad = {}
  <2>. SUFFICES ASSUME bad # {} PROVE FALSE
    OBVIOUS
  <2>1. PICK k \in bad : \A m \in bad : k <= m
    <3>1. bad \subseteq Nat
      BY <1>0
    <3>. HIDE DEF bad
    <3>. QED
      BY <3>1, LeastOfNats
  <2>2. k # 0 /\ k \in 1 .. Len(list) /\ k - 1 \in 0 .. Len(list) /\ k - 1 < k
    BY <1>0, <1>1, <1>2, <2>1
  <2>3. f[k - 1] = g[k - 1]
    BY <2>1, <2>2
  <2>4. f[k] = g[k]
    BY <1>0, <1>1, <1>2, <2>2, <2>3 DEF Keeping
  <2>. QED
    BY <2>1, <2>4
<1>. QED
  BY <1>0, <1>1, <1>2, <1>3

\* Of nothing, nothing is kept.
LEMMA KeptNone == \A S : Kept(<<>>, S) = <<>>
<1>. SUFFICES ASSUME NEW S PROVE Kept(<<>>, S) = <<>>
  OBVIOUS
<1>1. <<>> \in Seq({}) /\ Len(<<>>) = 0
  OBVIOUS
<1>2. PICK f : f[0] = <<>> /\ Kept(<<>>, S) = f[Len(<<>>)]
  BY <1>1, KeptLoop
<1>. QED
  BY <1>1, <1>2

\* Without repetition, an element is at the place it is found at.
LEMMA PlaceOf ==
  ASSUME NEW A, NEW list \in Seq(A), NoRepeats(list), NEW k \in DOMAIN list
  PROVE  FirstIndex(list, {list[k]}) = k
<1>1. \E j \in DOMAIN list : list[j] \in {list[k]}
  OBVIOUS
<1>2. /\ FirstIndex(list, {list[k]}) \in DOMAIN list
      /\ list[FirstIndex(list, {list[k]})] \in {list[k]}
  BY <1>1, FirstIndexIs
<1>. QED
  BY <1>2 DEF NoRepeats

\* Kept gives a list of what is in the set among what is listed.
LEMMA KeptIn ==
  ASSUME NEW A, NEW list \in Seq(A), NEW S
  PROVE  Kept(list, S) \in Seq(A) /\ MemberOf(Kept(list, S)) = MemberOf(list) \cap S
<1>1. PICK f : /\ DOMAIN f = 0 .. Len(list) /\ f[0] = <<>>
               /\ \A k \in 1 .. Len(list) : f[k] = Keeping(list, S, f, k)
               /\ Kept(list, S) = f[Len(list)]
  BY KeptLoop
<1> DEFINE Upto(k) == {list[j] : j \in 1 .. k} \cap S
           Good(k) == f[k] \in Seq(A) /\ MemberOf(f[k]) = Upto(k)
           bad == {k \in 0 .. Len(list) : ~Good(k)}
<1>2. Len(list) \in Nat /\ DOMAIN list = 1 .. Len(list) /\ bad \subseteq Nat
  OBVIOUS
<1>3. bad = {}
  <2>. SUFFICES ASSUME bad # {} PROVE FALSE
    OBVIOUS
  <2>1. PICK k \in bad : \A m \in bad : k <= m
    <3>. HIDE DEF bad
    <3>. QED
      BY <1>2, LeastOfNats
  <2>2. k # 0
    <3>1. Good(0)
      BY <1>1 DEF MemberOf
    <3>. HIDE DEF Good
    <3>. QED
      BY <2>1, <3>1
  <2>3. k \in 1 .. Len(list) /\ k - 1 \in 0 .. Len(list) /\ k - 1 < k /\ list[k] \in A
    BY <1>2, <2>1, <2>2
  <2>4. Good(k - 1)
    <3>. HIDE DEF Good
    <3>. QED
      BY <2>1, <2>3
  <2> DEFINE p == f[k - 1]
             x == list[k]
  <2>5. p \in Seq(A) /\ x \in A /\ MemberOf(p) = Upto(k - 1)
    BY <2>3, <2>4
  <2>6. f[k] = IF x \in S THEN Append(p, x) ELSE p
    BY <1>1, <2>3 DEF Keeping
  <2>7. Upto(k) = IF x \in S THEN Upto(k - 1) \union {x} ELSE Upto(k - 1)
    <3>1. 1 .. k = (1 .. k - 1) \union {k}
      BY <2>3
    <3>. QED
      BY <3>1
  <2>. HIDE DEF p, x, Upto
  <2>8. Append(p, x) \in Seq(A) /\ MemberOf(Append(p, x)) = MemberOf(p) \union {x}
    BY <2>5, AppendIn, AppendMembers
  <2>9. Good(k)
    BY <2>5, <2>6, <2>7, <2>8
  <2>. HIDE DEF Good
  <2>. QED
    BY <2>1, <2>9
<1>4. Good(Len(list))
  <2>1. Len(list) \in 0 .. Len(list)
    BY <1>2
  <2>. HIDE DEF Good
  <2>. QED
    BY <1>3, <2>1
<1>5. Upto(Len(list)) = MemberOf(list) \cap S
  BY <1>2 DEF MemberOf
<1>. QED
  BY <1>1, <1>4, <1>5

\* Kept keeps what is in S, in the order it is listed.
LEMMA KeptIs ==
  ASSUME NEW A, NEW list \in Seq(A), NoRepeats(list), NEW S
  PROVE  /\ Kept(list, S) \in Seq(A)
         /\ MemberOf(Kept(list, S)) = MemberOf(list) \cap S
         /\ \A a, b \in DOMAIN Kept(list, S) :
              a < b => FirstIndex(list, {Kept(list, S)[a]}) < FirstIndex(list, {Kept(list, S)[b]})
<1>1. PICK f : /\ DOMAIN f = 0 .. Len(list) /\ f[0] = <<>>
               /\ \A k \in 1 .. Len(list) : f[k] = Keeping(list, S, f, k)
               /\ Kept(list, S) = f[Len(list)]
  BY KeptLoop
<1> DEFINE Pos(x) == FirstIndex(list, {x})
           Good(k) == /\ f[k] \in Seq(A)
                      /\ MemberOf(f[k]) = {list[j] : j \in 1 .. k} \cap S
                      /\ \A a, b \in DOMAIN f[k] : a < b => Pos(f[k][a]) < Pos(f[k][b])
           bad == {k \in 0 .. Len(list) : ~Good(k)}
<1>2. Len(list) \in Nat /\ DOMAIN list = 1 .. Len(list) /\ bad \subseteq Nat
  OBVIOUS
<1>3. bad = {}
  <2>. SUFFICES ASSUME bad # {} PROVE FALSE
    OBVIOUS
  <2>1. PICK k \in bad : \A m \in bad : k <= m
    <3>. HIDE DEF bad
    <3>. QED
      BY <1>2, LeastOfNats
  <2>2. CASE k = 0
    <3>1. f[0] \in Seq(A) /\ MemberOf(f[0]) = {} /\ DOMAIN f[0] = {}
      BY <1>1 DEF MemberOf
    <3>2. {list[j] : j \in 1 .. 0} \cap S = {}
      OBVIOUS
    <3>3. Good(0)
      BY <3>1, <3>2
    <3>. HIDE DEF Good
    <3>. QED
      BY <2>1, <2>2, <3>3
  <2>3. CASE k # 0
    <3>0. k \in 0 .. Len(list)
      BY <2>1
    <3>1. k \in 1 .. Len(list) /\ k - 1 \in 0 .. Len(list) /\ k \in Nat /\ k - 1 < k
      BY <1>2, <2>3, <3>0
    <3>10. k - 1 \notin bad
      <4>. HIDE DEF bad
      <4>. QED
        BY <2>1, <3>1
    <3>2. /\ f[k - 1] \in Seq(A)
          /\ MemberOf(f[k - 1]) = {list[j] : j \in 1 .. k - 1} \cap S
          /\ \A a, b \in DOMAIN f[k - 1] : a < b => Pos(f[k - 1][a]) < Pos(f[k - 1][b])
      BY <3>1, <3>10
    <3>3. {list[j] : j \in 1 .. k} = {list[j] : j \in 1 .. k - 1} \union {list[k]}
      <4>1. 1 .. k = (1 .. k - 1) \union {k}
        BY <3>1
      <4>. QED
        BY <4>1
    <3>. HIDE DEF Pos
    <3>4. CASE list[k] \notin S
      <4>1. f[k] = f[k - 1]
        BY <1>1, <3>1, <3>4 DEF Keeping
      <4>2. Good(k)
        BY <3>2, <3>3, <3>4, <4>1
      <4>. QED
        BY <2>1, <4>2
    <3>5. CASE list[k] \in S
      <4>0. list[k] \in A
        BY <1>2, <3>1
      <4>1. f[k] = Append(f[k - 1], list[k])
        BY <1>1, <3>1, <3>5 DEF Keeping
      <4>2. f[k] \in Seq(A)
        BY <3>2, <4>0, <4>1
      <4>3. MemberOf(f[k]) = MemberOf(f[k - 1]) \union {list[k]}
        BY <3>2, <4>0, <4>1, AppendMembers
      <4>4. ASSUME NEW a \in DOMAIN f[k], NEW b \in DOMAIN f[k], a < b
            PROVE  Pos(f[k][a]) < Pos(f[k][b])
        <5>1. /\ Len(f[k - 1]) \in Nat /\ DOMAIN f[k - 1] = 1 .. Len(f[k - 1])
              /\ DOMAIN f[k] = 1 .. Len(f[k - 1]) + 1
              /\ f[k][Len(f[k - 1]) + 1] = list[k]
              /\ \A x \in 1 .. Len(f[k - 1]) : f[k][x] = f[k - 1][x]
          <6> DEFINE g == f[k - 1]
                     e == list[k]
          <6>1. g \in Seq(A) /\ e \in A
            BY <3>2, <4>0
          <6>2. f[k] = Append(g, e)
            BY <4>1
          <6>. HIDE DEF g, e
          <6>3. /\ Len(g) \in Nat /\ DOMAIN g = 1 .. Len(g) /\ DOMAIN Append(g, e) = 1 .. Len(g) + 1
                /\ Append(g, e)[Len(g) + 1] = e /\ \A x \in 1 .. Len(g) : Append(g, e)[x] = g[x]
            BY <6>1, AppendIn
          <6>. QED
            BY <6>2, <6>3 DEF g, e
        <5>2. a \in DOMAIN f[k - 1] /\ f[k][a] = f[k - 1][a]
          <6> DEFINE n == Len(f[k - 1])
          <6>1. a \in 1 .. n + 1 /\ b \in 1 .. n + 1 /\ a < b /\ n \in Nat
            BY <4>4, <5>1
          <6>. HIDE DEF n
          <6>2. a \in 1 .. n
            BY <6>1
          <6>. QED
            BY <5>1, <6>2 DEF n
        <5>3. CASE b = Len(f[k - 1]) + 1
          <6>1. PICK j \in 1 .. k - 1 : f[k - 1][a] = list[j]
            <7>1. f[k - 1][a] \in MemberOf(f[k - 1])
              BY <5>2 DEF MemberOf
            <7>. QED
              BY <3>2, <7>1
          <6>2. j \in DOMAIN list /\ k \in DOMAIN list /\ j < k
            BY <1>2, <3>1
          <6>3. Pos(list[j]) = j /\ Pos(list[k]) = k
            BY <6>2, PlaceOf DEF Pos
          <6>. QED
            BY <5>1, <5>2, <5>3, <6>1, <6>2, <6>3
        <5>4. CASE b # Len(f[k - 1]) + 1
          <6>1. b \in DOMAIN f[k - 1] /\ f[k][b] = f[k - 1][b]
            <7> DEFINE n == Len(f[k - 1])
            <7>1. b \in 1 .. n + 1 /\ b # n + 1 /\ n \in Nat
              BY <4>4, <5>1, <5>4
            <7>. HIDE DEF n
            <7>2. b \in 1 .. n
              BY <7>1
            <7>. QED
              BY <5>1, <7>2 DEF n
          <6>. QED
            BY <3>2, <4>4, <5>2, <6>1
        <5>. QED
          BY <5>3, <5>4
      <4>5. Good(k)
        BY <3>2, <3>3, <3>5, <4>2, <4>3, <4>4
      <4>. QED
        BY <2>1, <4>5
    <3>. QED
      BY <3>4, <3>5
  <2>. QED
    BY <2>2, <2>3
<1>4. Good(Len(list))
  <2>1. Len(list) \in 0 .. Len(list)
    BY <1>2
  <2>. HIDE DEF Good
  <2>. QED
    BY <1>3, <2>1
<1>5. {list[j] : j \in 1 .. Len(list)} = MemberOf(list)
  BY <1>2 DEF MemberOf
<1>. QED
  BY <1>1, <1>4, <1>5
-----------------------------------------------------------------------------
\* A set of naturals with an upper bound has a greatest element.
LEMMA GreatestOfNats ==
  ASSUME NEW T, T \subseteq Nat, T # {}, NEW b \in Nat, \A x \in T : x <= b
  PROVE  \E x \in T : \A y \in T : y <= x
<1> DEFINE above == {x \in Nat : \A y \in T : y <= x}
<1>1. above # {} /\ above \subseteq Nat
  OBVIOUS
<1>2. PICK u \in above : \A x \in above : u <= x
  <2>. HIDE DEF above
  <2>. QED
    BY <1>1, LeastOfNats
<1>3. u \in T
  <2>. SUFFICES ASSUME u \notin T PROVE FALSE
    OBVIOUS
  <2>1. u \in Nat /\ \A y \in T : y \in Nat /\ y < u
    BY <1>2
  <2>0. PICK t \in T : TRUE
    OBVIOUS
  <2>2. u - 1 \in Nat /\ \A y \in T : y <= u - 1
    BY <2>0, <2>1
  <2>3. u - 1 \in above
    BY <2>2
  <2>. QED
    BY <1>2, <2>1, <2>3
<1>. QED
  BY <1>2, <1>3

\* What holds at 0, and at each number up to n if it does at the one before, holds at
\* all of them.
LEMMA UptoInduction ==
  ASSUME NEW n \in Nat, NEW G, 0 \in G, \A k \in 1 .. n : k - 1 \in G => k \in G
  PROVE  0 .. n \subseteq G
<1> DEFINE bad == (0 .. n) \ G
<1>. SUFFICES ASSUME bad # {} PROVE FALSE
  OBVIOUS
<1>1. PICK k \in bad : \A j \in bad : k <= j
  <2>1. bad \subseteq Nat
    OBVIOUS
  <2>. HIDE DEF bad
  <2>. QED
    BY <2>1, LeastOfNats
<1>2. k \in 1 .. n /\ k - 1 \in 0 .. n
  BY <1>1
<1>. QED
  BY <1>1, <1>2

\* A recursion from a over 1 .. n, given by functions for its steps, has a solution.
Iterated(f, n, A, a, next) ==
  /\ f \in [0 .. n -> A] /\ f[0] = a
  /\ \A k \in 1 .. n : f[k] = next[k][f[k - 1]]

LEMMA Iterates ==
  ASSUME NEW n \in Nat, NEW A, NEW a \in A, NEW next \in [1 .. n -> [A -> A]]
  PROVE  \E f : Iterated(f, n, A, a, next)
<1> DEFINE Run(m) == \E f \in [0 .. m -> A] :
                       f[0] = a /\ \A k \in 1 .. m : f[k] = next[k][f[k - 1]]
           G == {m \in 0 .. n : Run(m)}
<1>1. 0 \in G
  <2> DEFINE f == [k \in 0 .. 0 |-> a]
  <2>1. f \in [0 .. 0 -> A] /\ f[0] = a
    OBVIOUS
  <2>2. \A k \in 1 .. 0 : f[k] = next[k][f[k - 1]]
    OBVIOUS
  <2>3. 0 \in 0 .. n
    OBVIOUS
  <2>. HIDE DEF f
  <2>. QED
    BY <2>1, <2>2, <2>3
<1>2. ASSUME NEW m \in 1 .. n, m - 1 \in G PROVE m \in G
  <2>1. PICK f \in [0 .. m - 1 -> A] :
          f[0] = a /\ \A k \in 1 .. m - 1 : f[k] = next[k][f[k - 1]]
    BY <1>2
  <2> DEFINE e == next[m][f[m - 1]]
             g == [k \in 0 .. m |-> IF k = m THEN e ELSE f[k]]
  <2>2. f[m - 1] \in A /\ next[m] \in [A -> A]
    BY <2>1
  <2>3. e \in A
    BY <2>2
  <2>4. g \in [0 .. m -> A] /\ g[0] = a
    BY <2>1, <2>3
  <2>5. ASSUME NEW k \in 1 .. m PROVE g[k] = next[k][g[k - 1]]
    <3>1. g[k - 1] = f[k - 1] /\ g[m] = e
      OBVIOUS
    <3>2. CASE k = m
      <4>1. g[m - 1] = f[m - 1]
        BY <3>1, <3>2
      <4>. HIDE DEF g
      <4>. QED
        BY <3>1, <3>2, <4>1
    <3>3. CASE k # m
      <4>1. k \in 1 .. m - 1 /\ g[k] = f[k]
        BY <3>3
      <4>. QED
        BY <2>1, <3>1, <4>1
    <3>. QED
      BY <3>2, <3>3
  <2>6. m \in 0 .. n
    OBVIOUS
  <2>. HIDE DEF g
  <2>. QED
    BY <2>4, <2>5, <2>6
<1>. HIDE DEF G
<1>3. 0 .. n \subseteq G
  BY <1>1, <1>2, UptoInduction
<1>4. n \in G
  BY <1>3
<1>. QED
  BY <1>4 DEF G, Iterated
-----------------------------------------------------------------------------
\* One step of a pass, and the pass: what it has after each stage.
PassStep(list, deps, prev, k) ==
  IF list[k] \notin MemberOf(prev) /\ deps[list[k]] \subseteq MemberOf(prev)
  THEN Append(prev, list[k]) ELSE prev
Passing(list, deps, start) ==
  CHOOSE f : f = [k \in 0 .. Len(list) |->
                    IF k = 0 THEN start
                    ELSE LET prev == f[k - 1]
                             n    == list[k]
                         IN  IF n \notin MemberOf(prev) /\ deps[n] \subseteq MemberOf(prev)
                             THEN Append(prev, n)
                             ELSE prev]

LEMMA PassLoop ==
  ASSUME NEW A, NEW list \in Seq(A), NEW start \in Seq(A), NEW deps
  PROVE  LET f == Passing(list, deps, start)
         IN  /\ f \in [0 .. Len(list) -> Seq(A)] /\ f[0] = start
             /\ \A k \in 1 .. Len(list) : f[k] = PassStep(list, deps, f[k - 1], k)
             /\ Pass(list, deps, start) = f[Len(list)]
<1> DEFINE N == Len(list)
           S == Seq(A)
           Body(f) == [k \in 0 .. N |->
                         IF k = 0 THEN start
                         ELSE LET prev == f[k - 1]
                                  n    == list[k]
                              IN  IF n \notin MemberOf(prev) /\ deps[n] \subseteq MemberOf(prev)
                                  THEN Append(prev, n)
                                  ELSE prev]
           next == [k \in 1 .. N |-> [prev \in S |-> PassStep(list, deps, prev, k)]]
<1>0. N \in Nat /\ \A k \in 1 .. N : list[k] \in A
  OBVIOUS
<1>1. next \in [1 .. N -> [S -> S]]
  <2>1. ASSUME NEW k \in 1 .. N, NEW prev \in S PROVE PassStep(list, deps, prev, k) \in S
    <3>1. prev \in Seq(A) /\ list[k] \in A
      BY <1>0
    <3>2. Append(prev, list[k]) \in Seq(A)
      BY <3>1, AppendIn
    <3>. QED
      BY <3>1, <3>2 DEF PassStep
  <2>. QED
    BY <2>1
<1>2. PICK f : Iterated(f, N, S, start, next)
  <2>1. start \in S /\ N \in Nat
    BY <1>0
  <2>. HIDE DEF N, S, next
  <2>. QED
    BY <1>1, <2>1, Iterates
<1>3. \A k \in 1 .. N : f[k] = PassStep(list, deps, f[k - 1], k)
  <2>. SUFFICES ASSUME NEW k \in 1 .. N PROVE f[k] = PassStep(list, deps, f[k - 1], k)
    OBVIOUS
  <2>1. f[k - 1] \in S
    <3>1. k - 1 \in 0 .. N
      BY <1>0
    <3>. HIDE DEF S, N
    <3>. QED
      BY <1>2, <3>1 DEF Iterated
  <2>. QED
    BY <1>2, <2>1 DEF Iterated
<1>4. f = Body(f)
  <2>1. ASSUME NEW k \in 0 .. N PROVE f[k] = Body(f)[k]
    <3>1. CASE k = 0
      BY <1>2, <3>1 DEF Iterated
    <3>2. CASE k # 0
      <4>1. k \in 1 .. N
        BY <1>0, <3>2
      <4>2. f[k] = PassStep(list, deps, f[k - 1], k)
        BY <1>3, <4>1
      <4>. QED
        BY <3>2, <4>2 DEF PassStep
    <3>. QED
      BY <3>1, <3>2
  <2>2. f = [k \in 0 .. N |-> f[k]]
    BY <1>2 DEF Iterated
  <2>. QED
    BY <2>1, <2>2
<1> DEFINE h == Passing(list, deps, start)
<1>5. h = Body(h)
  BY <1>4 DEF Passing
<1>6. Pass(list, deps, start) = h[N]
  BY DEF Pass, Passing
<1>. HIDE DEF h
<1>7. /\ DOMAIN h = 0 .. N /\ h[0] = start
  BY <1>0, <1>5
<1>8. ASSUME NEW k \in 1 .. N PROVE h[k] = PassStep(list, deps, h[k - 1], k)
  <2>1. k \in 0 .. N /\ k # 0
    BY <1>0
  <2>2. h[k] = Body(h)[k]
    BY <1>5
  <2>. QED
    BY <2>1, <2>2 DEF PassStep
<1> DEFINE G == {k \in 0 .. N : h[k] = f[k]}
<1>9. 0 .. N \subseteq G
  <2>1. 0 \in G
    BY <1>0, <1>2, <1>7 DEF Iterated
  <2>2. ASSUME NEW k \in 1 .. N, k - 1 \in G PROVE k \in G
    BY <1>3, <1>8, <2>2
  <2>. HIDE DEF G
  <2>. QED
    BY <1>0, <2>1, <2>2, UptoInduction
<1>10. h = f
  <2>1. h = [k \in 0 .. N |-> h[k]]
    BY <1>5
  <2>2. \A k \in 0 .. N : h[k] = f[k]
    BY <1>9
  <2>3. f = [k \in 0 .. N |-> f[k]]
    BY <1>2 DEF Iterated
  <2>4. [k \in 0 .. N |-> h[k]] = [k \in 0 .. N |-> f[k]]
    BY <2>2
  <2>. QED
    BY <2>1, <2>3, <2>4
<1>. QED
  BY <1>2, <1>6, <1>7, <1>8, <1>10 DEF h, Iterated

\* TopoOrder's loop: what there is after each pass.
Sorting(list, deps) ==
  CHOOSE f : f = [k \in 0 .. Len(list) |->
                    IF k = 0 THEN <<>>
                    ELSE LET prev == f[k - 1] IN Pass(list, deps, prev)]

LEMMA SortLoop ==
  ASSUME NEW A, NEW list \in Seq(A), NEW deps
  PROVE  LET f == Sorting(list, deps)
         IN  /\ f \in [0 .. Len(list) -> Seq(A)] /\ f[0] = <<>>
             /\ \A k \in 1 .. Len(list) : f[k] = Pass(list, deps, f[k - 1])
             /\ TopoOrder(list, deps) = f[Len(list)]
<1> DEFINE N == Len(list)
           S == Seq(A)
           Body(f) == [k \in 0 .. N |->
                         IF k = 0 THEN <<>>
                         ELSE LET prev == f[k - 1] IN Pass(list, deps, prev)]
           next == [k \in 1 .. N |-> [prev \in S |-> Pass(list, deps, prev)]]
           start == <<>>
<1>0. N \in Nat /\ start \in S
  OBVIOUS
<1>1. next \in [1 .. N -> [S -> S]]
  <2>1. ASSUME NEW prev \in S PROVE Pass(list, deps, prev) \in S
    <3>1. Len(list) \in 0 .. Len(list)
      BY <1>0
    <3>. QED
      BY <3>1, PassLoop
  <2>. QED
    BY <2>1
<1>2. PICK f : Iterated(f, N, S, start, next)
  <2>. HIDE DEF N, S, next, start
  <2>. QED
    BY <1>0, <1>1, Iterates
<1>3. ASSUME NEW k \in 1 .. N PROVE f[k] = Pass(list, deps, f[k - 1])
  <2>1. f[k - 1] \in S
    <3>1. k - 1 \in 0 .. N
      BY <1>0
    <3>. HIDE DEF S, N
    <3>. QED
      BY <1>2, <3>1 DEF Iterated
  <2>. QED
    BY <1>2, <2>1 DEF Iterated
<1>4. f = Body(f)
  <2>1. ASSUME NEW k \in 0 .. N PROVE f[k] = Body(f)[k]
    <3>1. CASE k = 0
      BY <1>2, <3>1 DEF Iterated
    <3>2. CASE k # 0
      <4>1. k \in 1 .. N
        BY <1>0, <3>2
      <4>. QED
        BY <1>3, <3>2, <4>1
    <3>. QED
      BY <3>1, <3>2
  <2>2. f = [k \in 0 .. N |-> f[k]]
    BY <1>2 DEF Iterated
  <2>. QED
    BY <2>1, <2>2
<1> DEFINE h == Sorting(list, deps)
<1>5. h = Body(h)
  BY <1>4 DEF Sorting
<1>6. TopoOrder(list, deps) = h[N]
  BY DEF TopoOrder, Sorting
<1>. HIDE DEF h
<1>7. DOMAIN h = 0 .. N /\ h[0] = <<>>
  BY <1>0, <1>5
<1>8. ASSUME NEW k \in 1 .. N PROVE h[k] = Pass(list, deps, h[k - 1])
  <2>1. k \in 0 .. N /\ k # 0
    BY <1>0
  <2>2. h[k] = Body(h)[k]
    BY <1>5
  <2>. QED
    BY <2>1, <2>2
<1> DEFINE G == {k \in 0 .. N : h[k] = f[k]}
<1>9. 0 .. N \subseteq G
  <2>1. 0 \in G
    BY <1>0, <1>2, <1>7 DEF Iterated
  <2>2. ASSUME NEW k \in 1 .. N, k - 1 \in G PROVE k \in G
    BY <1>3, <1>8, <2>2
  <2>. HIDE DEF G
  <2>. QED
    BY <1>0, <2>1, <2>2, UptoInduction
<1>10. h = f
  <2>1. h = [k \in 0 .. N |-> h[k]]
    BY <1>5
  <2>2. \A k \in 0 .. N : h[k] = f[k]
    BY <1>9
  <2>3. f = [k \in 0 .. N |-> f[k]]
    BY <1>2 DEF Iterated
  <2>. QED
    BY <2>1, <2>2, <2>3
<1>. QED
  BY <1>2, <1>6, <1>7, <1>8, <1>10 DEF h, Iterated

\* A pass over stages that are all there leaves the order as it is.
LEMMA PassFull ==
  ASSUME NEW A, NEW list \in Seq(A), NEW start \in Seq(A), NEW deps,
         MemberOf(list) \subseteq MemberOf(start)
  PROVE  Pass(list, deps, start) = start
<1> DEFINE N == Len(list)
           f == Passing(list, deps, start)
           G == {k \in 0 .. N : f[k] = start}
<1>0. N \in Nat /\ DOMAIN list = 1 .. N
  OBVIOUS
<1>1. /\ f[0] = start /\ Pass(list, deps, start) = f[N]
      /\ \A k \in 1 .. N : f[k] = PassStep(list, deps, f[k - 1], k)
  BY PassLoop
<1>. HIDE DEF f
<1>2. 0 \in G
  BY <1>0, <1>1
<1>3. ASSUME NEW k \in 1 .. N, k - 1 \in G PROVE k \in G
  <2>1. list[k] \in MemberOf(start)
    BY <1>0 DEF MemberOf
  <2>. QED
    BY <1>0, <1>1, <1>3, <2>1 DEF PassStep
<1>4. N \in G
  <2>. HIDE DEF G, N
  <2>1. 0 .. N \subseteq G
    BY <1>0, <1>2, <1>3, UptoInduction
  <2>. QED
    BY <1>0, <2>1
<1>. QED
  BY <1>1, <1>4
-----------------------------------------------------------------------------
\* Above is one more than the greatest of some naturals, and one if there are none.
LEMMA AboveIs ==
  ASSUME NEW T, T \subseteq Nat, NEW b \in Nat, \A x \in T : x <= b
  PROVE  /\ Above(T) \in Nat \ {0} /\ Above(T) <= b + 1
         /\ \A x \in T : x < Above(T)
         /\ Above(T) = 1 \/ Above(T) - 1 \in T
<1> DEFINE U == {0} \union T
           top == CHOOSE u \in U : \A x \in T : x <= u
<1>1. U \subseteq Nat /\ U # {} /\ \A x \in U : x <= b
  OBVIOUS
<1>2. PICK u \in U : \A x \in U : x <= u
  <2>. HIDE DEF U
  <2>. QED
    BY <1>1, GreatestOfNats
<1>3. \E u2 \in U : \A x \in T : x <= u2
  BY <1>2
<1>4. top \in U /\ \A x \in T : x <= top
  BY <1>3
<1>5. Above(T) = 1 + top
  BY DEF Above
<1>. HIDE DEF top
<1>6. top \in Nat /\ top <= b
  BY <1>1, <1>4
<1>7. Above(T) \in Nat \ {0} /\ Above(T) <= b + 1 /\ Above(T) - 1 = top
  BY <1>5, <1>6
<1>8. \A x \in T : x \in Nat /\ x < Above(T)
  BY <1>4, <1>5, <1>6
<1>9. top = 0 \/ top \in T
  BY <1>4
<1>. QED
  BY <1>5, <1>7, <1>8, <1>9

\* Above follows the greatest of them, if there is one.
LEMMA AboveOnly ==
  ASSUME NEW T, T \subseteq Nat, NEW p \in Nat, \A x \in T : x <= p, p = 0 \/ p \in T
  PROVE  Above(T) = p + 1
<1>1. /\ Above(T) \in Nat \ {0} /\ Above(T) <= p + 1
      /\ \A x \in T : x < Above(T)
  BY AboveIs
<1>. QED
  BY <1>1

\* The places before k that hold what the k-th stage depends on.
Needed(order, deps, k) == {j \in 1 .. k - 1 : order[j] \in deps[order[k]]}

\* LevelMap's recursion: a stage's level is one past the deepest level of what it
\* depends on, and at most its place.
LEMMA LevelMapIs ==
  ASSUME NEW A, NEW order \in Seq(A), NEW deps
  PROVE  LET lvl == LevelMap(order, deps)
         IN  /\ lvl \in [1 .. Len(order) -> Nat \ {0}]
             /\ \A k \in 1 .. Len(order) :
                  lvl[k] <= k /\ lvl[k] = Above({lvl[j] : j \in Needed(order, deps, k)})
<1> DEFINE N == Len(order)
           Level(f, k) == Above({f[j] : j \in Needed(order, deps, k)})
           Run(f, m) == /\ f \in [1 .. m -> Nat \ {0}]
                        /\ \A k \in 1 .. m : f[k] <= k /\ f[k] = Level(f, k)
           G == {m \in 0 .. N : \E f : Run(f, m)}
           Body(f) == [k \in 1 .. N |->
                         Above({f[j] : j \in {j \in 1 .. k - 1 : order[j] \in deps[order[k]]}})]
<1>0. N \in Nat
  OBVIOUS
<1>1. 0 \in G
  <2> DEFINE f == [k \in 1 .. 0 |-> 1]
  <2>1. f \in [1 .. 0 -> Nat \ {0}] /\ \A k \in 1 .. 0 : f[k] <= k /\ f[k] = Level(f, k)
    OBVIOUS
  <2>2. Run(f, 0)
    BY <2>1
  <2>. HIDE DEF Run, f
  <2>. QED
    BY <1>0, <2>2
<1>2. ASSUME NEW m \in 1 .. N, m - 1 \in G PROVE m \in G
  <2>1. PICK f : Run(f, m - 1)
    BY <1>2
  <2> DEFINE T == {f[j] : j \in Needed(order, deps, m)}
             e == Above(T)
             g == [k \in 1 .. m |-> IF k = m THEN e ELSE f[k]]
  <2>2. T \subseteq Nat /\ \A x \in T : x <= m - 1
    <3>1. ASSUME NEW j \in Needed(order, deps, m) PROVE f[j] \in Nat /\ f[j] <= m - 1
      <4>1. j \in 1 .. m - 1
        BY DEF Needed
      <4>2. f[j] \in Nat /\ f[j] <= j
        BY <2>1, <4>1
      <4>. QED
        BY <4>1, <4>2
    <3>. QED
      BY <3>1
  <2>3. e \in Nat \ {0} /\ e <= m
    <3>1. m - 1 \in Nat /\ m - 1 + 1 = m
      OBVIOUS
    <3>2. Above(T) \in Nat \ {0} /\ Above(T) <= m - 1 + 1
      <4>. HIDE DEF T
      <4>. QED
        BY <2>2, <3>1, AboveIs
    <3>. QED
      BY <3>1, <3>2
  <2>4. g \in [1 .. m -> Nat \ {0}] /\ g[m] = e /\ \A k \in 1 .. m - 1 : g[k] = f[k]
    <3>. HIDE DEF e
    <3>. QED
      BY <2>1, <2>3
  <2>5. ASSUME NEW k \in 1 .. m PROVE g[k] <= k /\ g[k] = Level(g, k)
    <3>1. \A j \in Needed(order, deps, k) : g[j] = f[j]
      <4>. HIDE DEF g
      <4>. QED
        BY <2>4 DEF Needed
    <3>2. Level(g, k) = Level(f, k)
      <4>1. {g[j] : j \in Needed(order, deps, k)} = {f[j] : j \in Needed(order, deps, k)}
        <5>. HIDE DEF g
        <5>. QED
          BY <3>1
      <4>. HIDE DEF g
      <4>. QED
        BY <4>1
    <3>. HIDE DEF g, Level
    <3>3. CASE k = m
      <4>1. Level(f, m) = e
        BY DEF Level
      <4>. HIDE DEF e
      <4>. QED
        BY <2>3, <2>4, <3>2, <3>3, <4>1
    <3>4. CASE k # m
      <4>1. k \in 1 .. m - 1
        BY <3>4
      <4>. QED
        BY <2>1, <2>4, <3>2, <4>1
    <3>. QED
      BY <3>3, <3>4
  <2>6. Run(g, m)
    <3>. HIDE DEF g, Level
    <3>. QED
      BY <2>4, <2>5
  <2>. HIDE DEF g, Run
  <2>. QED
    BY <2>6
<1>3. PICK f : Run(f, N)
  <2>. HIDE DEF Run, N
  <2>1. 0 .. N \subseteq G
    <3>. HIDE DEF G
    <3>. QED
      BY <1>0, <1>1, <1>2, UptoInduction
  <2>. QED
    BY <1>0, <2>1
<1>4. f = Body(f)
  BY <1>3 DEF Needed
<1> DEFINE h == CHOOSE g : g = Body(g)
<1>5. h = Body(h)
  BY <1>4
<1>6. LevelMap(order, deps) = h
  BY DEF LevelMap
<1>. HIDE DEF h
<1>7. h = [k \in 1 .. N |-> h[k]] /\ \A k \in 1 .. N : h[k] = Level(h, k)
  BY <1>5 DEF Needed
<1> DEFINE H == {m \in 0 .. N : \A k \in 1 .. m : h[k] = f[k]}
<1>8. ASSUME NEW m \in 1 .. N, m - 1 \in H PROVE m \in H
  <2>1. \A j \in Needed(order, deps, m) : h[j] = f[j]
    BY <1>8 DEF Needed
  <2>2. {h[j] : j \in Needed(order, deps, m)} = {f[j] : j \in Needed(order, deps, m)}
    BY <2>1
  <2>3. h[m] = Level(h, m) /\ f[m] = Level(f, m)
    BY <1>3, <1>7
  <2>4. h[m] = f[m]
    BY <2>2, <2>3
  <2>5. \A k \in 1 .. m : k = m \/ k \in 1 .. m - 1
    OBVIOUS
  <2>. QED
    BY <1>8, <2>4, <2>5
<1>9. \A k \in 1 .. N : h[k] = f[k]
  <2>1. 0 \in H
    BY <1>0
  <2>2. 0 .. N \subseteq H
    <3>. HIDE DEF H
    <3>. QED
      BY <1>0, <1>8, <2>1, UptoInduction
  <2>3. N \in H
    BY <1>0, <2>2
  <2>. QED
    BY <2>3
<1>10. h = f
  <2>1. f = [k \in 1 .. N |-> f[k]]
    BY <1>3
  <2>. QED
    BY <1>7, <1>9, <2>1
<1>11. f = LevelMap(order, deps)
  BY <1>6, <1>10
<1>12. /\ f \in [1 .. N -> Nat \ {0}]
       /\ \A k \in 1 .. N : f[k] <= k /\ f[k] = Above({f[j] : j \in Needed(order, deps, k)})
  BY <1>3
<1>. QED
  BY <1>11, <1>12

\* LevelsOf gives each level the stages that LevelMap has at it, as they are ordered.
AtLevel(order, lvl, l) == {order[k] : k \in {k \in 1 .. Len(order) : lvl[k] = l}}

LEMMA LevelsOfIs ==
  ASSUME NEW A, NEW order \in Seq(A), NEW deps, NoRepeats(order)
  PROVE  LET lvl == LevelMap(order, deps)
             h   == Above(MemberOf(lvl)) - 1
         IN  /\ h \in Nat
             /\ LevelsOf(order, deps) = [l \in 1 .. h |-> Kept(order, AtLevel(order, lvl, l))]
             /\ \A k \in 1 .. Len(order) : lvl[k] \in 1 .. h
<1> DEFINE N == Len(order)
           lvl == LevelMap(order, deps)
           h == Above(MemberOf(lvl)) - 1
           at(n) == lvl[FirstIndex(order, {n})]
<1>0. N \in Nat /\ DOMAIN order = 1 .. N
  OBVIOUS
<1>1. lvl \in [1 .. N -> Nat \ {0}] /\ \A k \in 1 .. N : lvl[k] <= k
  BY LevelMapIs
<1>2. \A k \in 1 .. N : at(order[k]) = lvl[k]
  BY <1>0, PlaceOf
<1>3. LevelsOf(order, deps) = [l \in 1 .. h |-> Kept(order, {n \in MemberOf(order) : at(n) = l})]
  BY DEF LevelsOf
<1>. HIDE DEF lvl, at
<1>4. \A l : {n \in MemberOf(order) : at(n) = l} = AtLevel(order, lvl, l)
  BY <1>0, <1>2 DEF MemberOf, AtLevel
<1>5. MemberOf(lvl) \subseteq Nat /\ \A x \in MemberOf(lvl) : x <= N
  <2>1. DOMAIN lvl = 1 .. N
    BY <1>1
  <2>2. \A k \in 1 .. N : lvl[k] \in Nat /\ lvl[k] <= k /\ k <= N
    BY <1>0, <1>1
  <2>3. \A k \in 1 .. N : lvl[k] <= N
    BY <1>0, <2>2
  <2>. QED
    BY <2>1, <2>2, <2>3 DEF MemberOf
<1>6. Above(MemberOf(lvl)) \in Nat \ {0} /\ \A x \in MemberOf(lvl) : x < Above(MemberOf(lvl))
  <2> DEFINE T == MemberOf(lvl)
  <2>. HIDE DEF T
  <2>1. T \subseteq Nat /\ \A x \in T : x <= N
    BY <1>5 DEF T
  <2>2. Above(T) \in Nat \ {0} /\ \A x \in T : x < Above(T)
    BY <1>0, <2>1, AboveIs
  <2>. QED
    BY <2>2 DEF T
<1>7. h \in Nat
  BY <1>6
<1>8. \A k \in 1 .. N : lvl[k] \in 1 .. h
  <2>. SUFFICES ASSUME NEW k \in 1 .. N PROVE lvl[k] \in 1 .. h
    OBVIOUS
  <2>1. lvl[k] \in MemberOf(lvl) /\ lvl[k] \in Nat \ {0}
    BY <1>1 DEF MemberOf
  <2>2. lvl[k] < Above(MemberOf(lvl))
    BY <1>6, <2>1
  <2>. QED
    BY <1>6, <2>1, <2>2
<1>9. LevelsOf(order, deps) = [l \in 1 .. h |-> Kept(order, AtLevel(order, lvl, l))]
  <2>. HIDE DEF h
  <2>. QED
    BY <1>3, <1>4
<1>. QED
  BY <1>7, <1>8, <1>9 DEF lvl

\* Two lists of the same stages, both as they are ordered, are the same.
InOrderOf(order, s) ==
  /\ MemberOf(s) \subseteq MemberOf(order)
  /\ \A j, k \in DOMAIN s : j < k => FirstIndex(order, {s[j]}) < FirstIndex(order, {s[k]})

LEMMA ListedNext ==
  ASSUME NEW A, NEW order \in Seq(A), NoRepeats(order),
         NEW s \in Seq(A), InOrderOf(order, s), NEW t \in Seq(A), InOrderOf(order, t),
         NEW j \in DOMAIN s, s[j] \in MemberOf(t),
         \A k \in 1 .. j - 1 : k \in DOMAIN t /\ s[k] = t[k]
  PROVE  j \in DOMAIN t /\ FirstIndex(order, {t[j]}) <= FirstIndex(order, {s[j]})
<1> DEFINE pos(x) == FirstIndex(order, {x})
<1>0. /\ DOMAIN s = 1 .. Len(s) /\ DOMAIN t = 1 .. Len(t) /\ Len(s) \in Nat /\ Len(t) \in Nat
      /\ DOMAIN order \subseteq Nat
  OBVIOUS
<1>1. \A x \in MemberOf(order) : pos(x) \in Nat
  BY <1>0, PlaceOf DEF MemberOf
<1>2. \A k \in DOMAIN s : pos(s[k]) \in Nat
  BY <1>1 DEF InOrderOf, MemberOf
<1>3. \A k \in DOMAIN t : pos(t[k]) \in Nat
  BY <1>1 DEF InOrderOf, MemberOf
<1>4. PICK k \in DOMAIN t : s[j] = t[k]
  BY DEF MemberOf
<1>5. /\ \A a, b \in DOMAIN s : a < b => pos(s[a]) < pos(s[b])
      /\ \A a, b \in DOMAIN t : a < b => pos(t[a]) < pos(t[b])
  BY DEF InOrderOf
<1>. HIDE DEF pos
<1>6. k >= j
  <2>. SUFFICES ASSUME k < j PROVE FALSE
    BY <1>0
  <2>1. k \in 1 .. j - 1 /\ k \in DOMAIN s
    BY <1>0
  <2>2. s[k] = s[j]
    BY <1>4, <2>1
  <2>3. pos(s[k]) < pos(s[j])
    BY <1>5, <2>1
  <2>. QED
    BY <1>2, <2>1, <2>2, <2>3
<1>7. j \in DOMAIN t
  BY <1>0, <1>6
<1>8. pos(t[j]) <= pos(t[k])
  <2>1. CASE j = k
    BY <1>3, <2>1
  <2>2. CASE j < k
    BY <1>3, <1>5, <1>7, <2>2
  <2>. QED
    BY <1>0, <1>6, <2>1, <2>2
<1>. QED
  BY <1>4, <1>7, <1>8 DEF pos

LEMMA SameListingHalf ==
  ASSUME NEW A, NEW order \in Seq(A), NoRepeats(order),
         NEW s \in Seq(A), InOrderOf(order, s), NEW t \in Seq(A), InOrderOf(order, t),
         MemberOf(s) = MemberOf(t)
  PROVE  \A k \in DOMAIN s : k \in DOMAIN t /\ s[k] = t[k]
<1> DEFINE N == Len(s)
           G == {j \in 0 .. N : \A k \in 1 .. j : k \in DOMAIN t /\ s[k] = t[k]}
<1>0. N \in Nat /\ DOMAIN s = 1 .. N
  OBVIOUS
<1>1. 0 \in G
  BY <1>0
<1>2. ASSUME NEW j \in 1 .. N, j - 1 \in G PROVE j \in G
  <2>1. j \in DOMAIN s /\ s[j] \in MemberOf(t) /\ \A k \in 1 .. j - 1 : k \in DOMAIN t /\ s[k] = t[k]
    BY <1>0, <1>2 DEF MemberOf
  <2>2. j \in DOMAIN t /\ FirstIndex(order, {t[j]}) <= FirstIndex(order, {s[j]})
    BY <2>1, ListedNext
  <2>3. t[j] \in MemberOf(s) /\ \A k \in 1 .. j - 1 : k \in DOMAIN s /\ t[k] = s[k]
    <3>1. t[j] \in MemberOf(t)
      BY <2>2 DEF MemberOf
    <3>2. \A k \in 1 .. j - 1 : k \in DOMAIN s
      BY <1>0
    <3>. QED
      BY <2>1, <3>1, <3>2
  <2>4. FirstIndex(order, {s[j]}) <= FirstIndex(order, {t[j]})
    BY <2>2, <2>3, ListedNext
  <2>5. s[j] \in MemberOf(order) /\ t[j] \in MemberOf(order)
    BY <2>1, <2>3 DEF InOrderOf
  <2>6. \A x \in MemberOf(order) :
          FirstIndex(order, {x}) \in Nat /\ x = order[FirstIndex(order, {x})]
    <3>1. DOMAIN order \subseteq Nat
      OBVIOUS
    <3>. QED
      BY <3>1, PlaceOf DEF MemberOf
  <2>7. s[j] = t[j]
    <3>1. FirstIndex(order, {s[j]}) = FirstIndex(order, {t[j]})
      BY <2>2, <2>4, <2>5, <2>6
    <3>. QED
      BY <2>5, <2>6, <3>1
  <2>8. \A k \in 1 .. j : k = j \/ k \in 1 .. j - 1
    OBVIOUS
  <2>. QED
    BY <2>1, <2>2, <2>7, <2>8
<1>3. N \in G
  <2>1. 0 .. N \subseteq G
    <3>. HIDE DEF G, N
    <3>. QED
      BY <1>0, <1>1, <1>2, UptoInduction
  <2>. QED
    BY <1>0, <2>1
<1>. QED
  BY <1>0, <1>3

LEMMA SameListing ==
  ASSUME NEW A, NEW order \in Seq(A), NoRepeats(order),
         NEW s \in Seq(A), InOrderOf(order, s), NEW t \in Seq(A), InOrderOf(order, t),
         MemberOf(s) = MemberOf(t)
  PROVE  s = t
<1>1. \A k \in DOMAIN s : k \in DOMAIN t /\ s[k] = t[k]
  BY SameListingHalf
<1>2. \A k \in DOMAIN t : k \in DOMAIN s
  BY SameListingHalf
<1>3. s = [k \in DOMAIN s |-> s[k]] /\ t = [k \in DOMAIN t |-> t[k]]
  OBVIOUS
<1>. QED
  BY <1>1, <1>2, <1>3
-----------------------------------------------------------------------------
\* A pass adds stages of the list, each once.
LEMMA PassKeeps ==
  ASSUME NEW A, NEW list \in Seq(A), NEW start \in Seq(A), NEW deps, NoRepeats(start)
  PROVE  Pass(list, deps, start) \in Seq(A) /\ NoRepeats(Pass(list, deps, start))
<1> DEFINE N == Len(list)
           f == Passing(list, deps, start)
           G == {k \in 0 .. N : NoRepeats(f[k])}
<1>0. N \in Nat /\ \A k \in 1 .. N : list[k] \in A
  OBVIOUS
<1>1. /\ f \in [0 .. N -> Seq(A)] /\ f[0] = start /\ Pass(list, deps, start) = f[N]
      /\ \A k \in 1 .. N : f[k] = PassStep(list, deps, f[k - 1], k)
  BY PassLoop
<1>. HIDE DEF f
<1>2. 0 \in G
  BY <1>0, <1>1
<1>3. ASSUME NEW k \in 1 .. N, k - 1 \in G PROVE k \in G
  <2>1. f[k - 1] \in Seq(A) /\ list[k] \in A /\ NoRepeats(f[k - 1])
    BY <1>0, <1>1, <1>3
  <2>2. list[k] \notin MemberOf(f[k - 1]) => NoRepeats(Append(f[k - 1], list[k]))
    BY <2>1, AppendMembers
  <2>3. NoRepeats(f[k])
    BY <1>1, <2>1, <2>2 DEF PassStep
  <2>. QED
    BY <2>3
<1>4. 0 .. N \subseteq G
  <2>. HIDE DEF G, N
  <2>. QED
    BY <1>0, <1>2, <1>3, UptoInduction
<1>5. N \in G
  BY <1>0, <1>4
<1>. QED
  BY <1>0, <1>1, <1>5

\* The order topoSort computes lists stages of the input, each once.
LEMMA TopoOrderLists ==
  ASSUME NEW A, NEW list \in Seq(A), NEW deps
  PROVE  /\ TopoOrder(list, deps) \in Seq(A) /\ NoRepeats(TopoOrder(list, deps))
         /\ MemberOf(TopoOrder(list, deps)) \subseteq MemberOf(list)
<1>1. ASSUME NEW B, list \in Seq(B)
      PROVE  TopoOrder(list, deps) \in Seq(B) /\ NoRepeats(TopoOrder(list, deps))
  <2> DEFINE N == Len(list)
             f == Sorting(list, deps)
             G == {k \in 0 .. N : NoRepeats(f[k])}
  <2>0. N \in Nat
    OBVIOUS
  <2>1. /\ f \in [0 .. N -> Seq(B)] /\ f[0] = <<>> /\ TopoOrder(list, deps) = f[N]
        /\ \A k \in 1 .. N : f[k] = Pass(list, deps, f[k - 1])
    BY <1>1, SortLoop
  <2>. HIDE DEF f
  <2>2. 0 \in G
    <3>1. NoRepeats(<<>>)
      BY DEF NoRepeats
    <3>. QED
      BY <2>0, <2>1, <3>1
  <2>3. ASSUME NEW k \in 1 .. N, k - 1 \in G PROVE k \in G
    <3>1. f[k - 1] \in Seq(B) /\ NoRepeats(f[k - 1])
      BY <2>0, <2>1, <2>3
    <3>2. NoRepeats(Pass(list, deps, f[k - 1]))
      BY <1>1, <3>1, PassKeeps
    <3>. QED
      BY <2>1, <3>2
  <2>4. 0 .. N \subseteq G
    <3>. HIDE DEF G, N
    <3>. QED
      BY <2>0, <2>2, <2>3, UptoInduction
  <2>5. N \in G
    BY <2>0, <2>4
  <2>. QED
    BY <2>0, <2>1, <2>5
<1>2. TopoOrder(list, deps) \in Seq(A) /\ NoRepeats(TopoOrder(list, deps))
  BY <1>1
<1>3. list \in Seq(MemberOf(list))
  <2>1. \A k \in 1 .. Len(list) : list[k] \in MemberOf(list)
    BY DEF MemberOf
  <2>. QED
    BY <2>1
<1>4. TopoOrder(list, deps) \in Seq(MemberOf(list))
  BY <1>1, <1>3
<1>. QED
  BY <1>2, <1>4, MembersIn
=============================================================================
