-------------------------- MODULE PipelineBuildProofs --------------------------
(***************************************************************************)
(* Proofs about PipelineBuild, for every finite set of names, every slice  *)
(* of stages, all lists of dependencies and every bound.                   *)
(***************************************************************************)
EXTENDS PipelineBuild, StageGraphProofs, FiniteSetTheorems, SequenceTheorems,
        TLAPS

\* The names have been checked; the dependencies have been checked too.
NamesChecked == pc \in {"dependencies", "sort", "cycle", "levels", "built"}
DepsChecked  == pc \in {"sort", "cycle", "levels", "built"}

\* The loop index is inside its loop or one past it.
CounterInv ==
  /\ pc \in {"duplicates", "dependencies", "sort"} => i <= Len(stages) + 1
  /\ pc = "levels" => i <= Len(ordered) + 1

\* What the validations have established so far.
CheckedInv ==
  /\ pc \notin {"options", "failed"} => ~(mode = "bounded" /\ boundN < 1)
  /\ pc = "options" => index = {}
  /\ pc = "duplicates" =>
       /\ index = {stages[k] : k \in 1 .. i - 1}
       /\ \A j, k \in 1 .. i - 1 : stages[j] = stages[k] => j = k
  /\ NamesChecked => index = MemberOf(stages) /\ NoRepeats(stages)
  /\ pc = "dependencies" => \A k \in 1 .. i - 1 : DepSet(stages[k]) \subseteq index
  /\ DepsChecked => \A n \in MemberOf(stages) : DepSet(n) \subseteq MemberOf(stages)

\* What topoSort has emitted is in a legal order; a pass that has emitted nothing
\* has passed stages that wait for others only.
Rest == MemberOf(stages) \ emitted

SortInv ==
  /\ emitted = MemberOf(ordered) /\ NoRepeats(ordered) /\ Respects(ordered, DepGraph)
  /\ emitted \subseteq MemberOf(stages)
  /\ pc \in {"options", "duplicates", "dependencies"} => ordered = <<>> /\ ~progressed
  /\ pc = "sort" /\ ~progressed =>
       \A k \in 1 .. i - 1 : stages[k] \in emitted \/ ~(DepSet(stages[k]) \subseteq emitted)
  /\ pc = "cycle" => Deadlocked(Rest)
  /\ pc \in {"levels", "built"} => emitted = MemberOf(stages)

\* A slice that respects the dependencies is emitted as it stands.
InputOrderInv ==
  DepsChecked /\ Respects(stages, DepGraph) =>
    /\ pc # "cycle"
    /\ pc = "sort" => ordered = SubSeq(stages, 1, i - 1)
    /\ pc \in {"levels", "built"} => ordered = stages

\* findCycle walks along dependencies inside the deadlocked rest.
WalkInv ==
  /\ pc \notin {"cycle", "failed"} => path = <<>>
  /\ pc = "cycle" =>
       /\ cur \in Rest /\ MemberOf(path) \subseteq Rest
       /\ NoRepeats(path)
       /\ \A k \in 1 .. Len(path) - 1 : path[k + 1] \in DepSet(path[k])
       /\ path # <<>> => cur \in DepSet(path[Len(path)])

\* An error is returned when, and only when, NewPipeline has failed; it is the
\* one the argument deserves, and a cycle is a cycle.
ErrInv ==
  /\ pc # "failed" => err = NoErr
  /\ pc = "failed" => err.kind # "nil" /\ err.kind = Verdict
  /\ CycleIsReal

IInv ==
  /\ TypeOK /\ CounterInv /\ CheckedInv /\ SortInv /\ InputOrderInv /\ WalkInv /\ ErrInv
-----------------------------------------------------------------------------
\* A sequence without repetition has as many elements as places.
LEMMA CountMembers ==
  ASSUME NEW S, NEW s \in Seq(S), NoRepeats(s)
  PROVE  IsFiniteSet(MemberOf(s)) /\ Cardinality(MemberOf(s)) = Len(s)
<1>0. Len(s) \in Nat /\ DOMAIN s = 1 .. Len(s) /\ s \in [1 .. Len(s) -> S]
  OBVIOUS
<1>1. s \in Bijection(1 .. Len(s), MemberOf(s))
  <2>1. s \in [1 .. Len(s) -> MemberOf(s)]
    BY <1>0 DEF MemberOf
  <2>2. \A a, b \in 1 .. Len(s) : s[a] = s[b] => a = b
    BY <1>0 DEF NoRepeats
  <2>3. \A b \in MemberOf(s) : \E a \in 1 .. Len(s) : s[a] = b
    BY <1>0 DEF MemberOf
  <2>. QED
    BY <2>1, <2>2, <2>3 DEF Bijection, Injection, Surjection, IsInjective
<1>2. ExistsBijection(1 .. Len(s), MemberOf(s))
  BY <1>1 DEF ExistsBijection
<1>3. IsFiniteSet(1 .. Len(s)) /\ Cardinality(1 .. Len(s)) = Len(s)
  BY <1>0, FS_Interval
<1>. QED
  BY <1>2, <1>3, FS_Bijection

\* Of two such sequences, one within the other: they have the same elements
\* exactly if they are equally long.
LEMMA SameMembers ==
  ASSUME NEW S, NEW s \in Seq(S), NEW t \in Seq(S), NoRepeats(s), NoRepeats(t),
         MemberOf(s) \subseteq MemberOf(t)
  PROVE  /\ Len(s) <= Len(t)
         /\ Len(s) = Len(t) <=> MemberOf(s) = MemberOf(t)
<1>1. /\ IsFiniteSet(MemberOf(t)) /\ Cardinality(MemberOf(t)) = Len(t)
      /\ Cardinality(MemberOf(s)) = Len(s)
  BY CountMembers
<1>2. MemberOf(s) \in SUBSET MemberOf(t)
  OBVIOUS
<1>. QED
  BY <1>1, <1>2, FS_Subset

\* The dependencies of a name are names.
LEMMA DepsAreNames ==
  ASSUME TypeOK, NEW n \in Names
  PROVE  deps[n] \in Seq(Names) /\ DepSet(n) \subseteq Names
         /\ DepGraph[n] = DepSet(n)
<1>1. deps[n] \in Seq(Names)
  BY DEF TypeOK
<1>2. DepSet(n) \subseteq Names
  BY <1>1 DEF DepSet, MemberOf
<1>. QED
  BY <1>1, <1>2 DEF DepGraph

\* The first element of a list outside E exists as soon as one does.
LEMMA FirstOutside ==
  ASSUME NEW s \in Seq(Names), NEW E, ~(MemberOf(s) \subseteq E)
  PROVE  /\ FirstIndex(s, Names \ E) \in DOMAIN s
         /\ s[FirstIndex(s, Names \ E)] \in MemberOf(s) \ E
<1>1. \E k \in DOMAIN s : s[k] \in Names \ E
  BY DEF MemberOf
<1>. QED
  BY <1>1, FirstIndexIs DEF MemberOf
-----------------------------------------------------------------------------
\* While the sort has not emitted every stage, one is left.
LEMMA SomeLeft ==
  ASSUME TypeOK, SortInv, NoRepeats(stages), Len(ordered) < Len(stages)
  PROVE  ~(MemberOf(stages) \subseteq emitted)
<1>1. SUFFICES ASSUME MemberOf(stages) \subseteq emitted PROVE FALSE
  OBVIOUS
<1>2. /\ ordered \in Seq(Names) /\ stages \in Seq(Names)
      /\ NoRepeats(ordered) /\ MemberOf(stages) = MemberOf(ordered)
  BY <1>1 DEF TypeOK, SortInv
<1>3. Len(ordered) = Len(stages)
  BY <1>2, SameMembers
<1>. QED
  BY <1>3 DEF TypeOK

\* And when the lengths agree, none is.
LEMMA NoneLeft ==
  ASSUME TypeOK, SortInv, NoRepeats(stages), Len(ordered) = Len(stages)
  PROVE  emitted = MemberOf(stages)
<1>1. /\ ordered \in Seq(Names) /\ stages \in Seq(Names)
      /\ NoRepeats(ordered) /\ MemberOf(ordered) \subseteq MemberOf(stages)
  BY DEF TypeOK, SortInv
<1>. QED
  BY <1>1, SameMembers DEF SortInv

\* A loop that is not over is at an element of its list.
LEMMA AtElement ==
  ASSUME TypeOK, NEW s \in Seq(Names), ~Exhausted(s)
  PROVE  i \in DOMAIN s /\ s[i] \in Names /\ s[i] \in MemberOf(s)
<1>1. i \in DOMAIN s
  BY DEF Exhausted, TypeOK
<1>. QED
  BY <1>1 DEF MemberOf

\* One iteration of a pass emits the stage it is at, or passes it over.
LEMMA VisitStep ==
  ASSUME IInv, Visit
  PROVE  /\ pc = "sort" /\ NoRepeats(stages)
         /\ i \in DOMAIN stages /\ stages[i] \in Names /\ stages[i] \in MemberOf(stages)
         /\ i' = i + 1
         /\ UNCHANGED <<stages, deps, mode, boundN, pc, index, cur, path, lvlOf, levels, err>>
         /\ \/ /\ Ready(stages[i])
               /\ emitted' = emitted \union {stages[i]}
               /\ ordered' = Append(ordered, stages[i]) /\ ordered' \in Seq(Names)
               /\ progressed' = TRUE
            \/ ~Ready(stages[i]) /\ UNCHANGED <<emitted, ordered, progressed>>
<1>1. pc = "sort" /\ ~Exhausted(stages) /\ NoRepeats(stages)
  BY DEF Visit, IInv, CheckedInv, NamesChecked
<1>2. i \in DOMAIN stages /\ stages[i] \in Names /\ stages[i] \in MemberOf(stages)
  BY <1>1, AtElement DEF IInv, TypeOK
<1>3. Append(ordered, stages[i]) \in Seq(Names)
  BY <1>2 DEF IInv, TypeOK
<1>4. /\ i' = i + 1
      /\ UNCHANGED <<stages, deps, mode, boundN, pc, index, cur, path, lvlOf, levels, err>>
  BY DEF Visit, args, walk, wave
<1>5. IF Ready(stages[i]) THEN Emit(stages[i]) ELSE UNCHANGED sort
  BY DEF Visit
<1>. QED
  BY <1>1, <1>2, <1>3, <1>4, <1>5 DEF Emit, sort

\* The end of a pass: everything is emitted, or a stage is left to start a cycle
\* from, or another pass begins.
LEMMA EndPassStep ==
  ASSUME IInv, EndPass
  PROVE  /\ pc = "sort" /\ NoRepeats(stages) /\ i = Len(stages) + 1 /\ i' = 1
         /\ UNCHANGED <<stages, deps, mode, boundN, index, emitted, ordered, path, lvlOf,
                        levels, err>>
         /\ \/ /\ pc' = IF MaxParallel = 0 THEN "built" ELSE "levels"
               /\ emitted = MemberOf(stages)
               /\ Len(ordered) = Len(stages)
               /\ UNCHANGED <<progressed, cur>>
            \/ /\ pc' = "cycle" /\ ~progressed
               /\ Len(ordered) < Len(stages)
               /\ cur' \in Rest /\ cur' \in Names
               /\ UNCHANGED progressed
            \/ /\ pc' = "sort" /\ progressed /\ progressed' = FALSE
               /\ Len(ordered) < Len(stages)
               /\ UNCHANGED cur
<1>1. pc = "sort" /\ Exhausted(stages) /\ NoRepeats(stages)
  BY DEF EndPass, IInv, CheckedInv, NamesChecked
<1>2. i = Len(stages) + 1
  BY <1>1 DEF Exhausted, IInv, CounterInv, TypeOK
<1>3. /\ i' = 1
      /\ UNCHANGED <<stages, deps, mode, boundN, index, emitted, ordered, path, lvlOf,
                     levels, err>>
  BY DEF EndPass, args, wave, Goto
<1>4. ASSUME Len(ordered) < Len(stages)
      PROVE  /\ stages[FirstIndex(stages, Names \ emitted)] \in Rest
             /\ stages[FirstIndex(stages, Names \ emitted)] \in Names
  <2>1. ~(MemberOf(stages) \subseteq emitted) /\ stages \in Seq(Names)
    BY <1>1, <1>4, SomeLeft DEF IInv, TypeOK
  <2>2. stages[FirstIndex(stages, Names \ emitted)] \in Rest
    BY <2>1, FirstOutside DEF Rest
  <2>. QED
    BY <2>1, <2>2, MembersIn DEF Rest
<1>5. Len(ordered) = Len(stages) => emitted = MemberOf(stages)
  BY <1>1, NoneLeft DEF IInv
<1>6. \/ /\ Len(ordered) = Len(stages)
         /\ pc' = IF MaxParallel = 0 THEN "built" ELSE "levels"
         /\ UNCHANGED <<progressed, cur>>
      \/ /\ Len(ordered) < Len(stages) /\ ~progressed /\ pc' = "cycle"
         /\ cur' = stages[FirstIndex(stages, Names \ emitted)]
         /\ UNCHANGED progressed
      \/ /\ Len(ordered) < Len(stages) /\ pc' = "sort" /\ progressed /\ progressed' = FALSE
         /\ UNCHANGED cur
  BY DEF EndPass, Stalled, Goto
<1>. QED
  BY <1>1, <1>2, <1>3, <1>4, <1>5, <1>6

\* findCycle always finds a dependency to follow: every stage of the rest has one
\* there (pipeline.go:260).
LEMMA FollowStep ==
  ASSUME IInv, FollowCycle
  PROVE  /\ pc = "cycle" /\ cur \in Rest /\ cur \in Names
         /\ UNCHANGED <<stages, deps, mode, boundN, index, emitted, ordered, progressed,
                        lvlOf, levels>>
         /\ \/ /\ cur \in MemberOf(path) /\ pc' = "failed" /\ i' = 1
               /\ err' = [kind |-> "Cycle", loop |-> Loop]
               /\ UNCHANGED <<cur, path>>
            \/ /\ cur \notin MemberOf(path) /\ UNCHANGED <<pc, i, err>>
               /\ path' = Append(path, cur) /\ path' \in Seq(Names)
               /\ cur' \in DepSet(cur) /\ cur' \in Rest /\ cur' \in Names
<1>1. pc = "cycle" /\ cur \in Rest /\ Rest \subseteq MemberOf(stages) /\ Deadlocked(Rest)
  BY DEF FollowCycle, IInv, WalkInv, SortInv, Rest
<1>2. cur \in Names
  BY <1>1, MembersIn DEF IInv, TypeOK
<1>3. UNCHANGED <<stages, deps, mode, boundN, index, emitted, ordered, progressed, lvlOf,
                  levels>>
  BY DEF FollowCycle, args, sort, wave
<1>4. CASE cur \in MemberOf(path)
  <2>1. pc' = "failed" /\ i' = 1 /\ err' = [kind |-> "Cycle", loop |-> Loop]
        /\ UNCHANGED <<cur, path>>
    BY <1>4 DEF FollowCycle, Fail, Goto, walk
  <2>. QED
    BY <1>1, <1>2, <1>3, <1>4, <2>1
<1>5. CASE cur \notin MemberOf(path)
  <2>1. DepSet(cur) \subseteq MemberOf(stages) /\ ~(DepSet(cur) \subseteq emitted)
    BY <1>1 DEF Deadlocked, Rest, IInv, CheckedInv, DepsChecked
  <2>2. /\ path' = Append(path, cur) /\ UNCHANGED <<pc, i, err>>
        /\ cur' = deps[cur][FirstIndex(deps[cur], Names \ emitted)]
    BY <1>5, <2>1 DEF FollowCycle
  <2>3. deps[cur] \in Seq(Names) /\ path \in Seq(Names)
    BY <1>2 DEF IInv, TypeOK
  <2>4. cur' \in DepSet(cur) \ emitted
    BY <2>1, <2>2, <2>3, FirstOutside DEF DepSet
  <2>5. cur' \in Rest
    BY <2>1, <2>4 DEF Rest
  <2>6. cur' \in Names
    BY <2>3, <2>4, MembersIn DEF DepSet
  <2>7. Append(path, cur) \in Seq(Names)
    BY <1>2, <2>3
  <2>. QED
    BY <1>1, <1>2, <1>3, <1>5, <2>2, <2>4, <2>5, <2>6, <2>7
<1>. QED
  BY <1>4, <1>5

\* Every step keeps the values of the variables in their sets.
LEMMA TypesKept == IInv /\ [Next]_vars => TypeOK'
<1>. SUFFICES ASSUME IInv, [Next]_vars PROVE TypeOK'
  OBVIOUS
<1>0. TypeOK
  BY DEF IInv
<1>. USE DEF TypeOK, args, sort, walk, wave, Goto, Fail
<1>1. CASE CheckOptions
  BY <1>0, <1>1 DEF CheckOptions
<1>2. CASE CheckDuplicate
  BY <1>0, <1>2, AtElement DEF CheckDuplicate
<1>3. CASE CheckDependencies
  BY <1>0, <1>3 DEF CheckDependencies
<1>4. CASE Visit
  <2>1. /\ i' = i + 1
        /\ UNCHANGED <<stages, deps, mode, boundN, pc, index, cur, path, err>>
    BY <1>4, VisitStep
  <2>2. ordered' \in Seq(Names) /\ emitted' \subseteq Names /\ progressed' \in BOOLEAN
    BY <1>0, <1>4, VisitStep
  <2>. QED
    BY <1>0, <2>1, <2>2
<1>5. CASE EndPass
  <2>1. /\ i' = 1
        /\ UNCHANGED <<stages, deps, mode, boundN, index, emitted, ordered, path, err>>
    BY <1>5, EndPassStep
  <2>2. pc' \in {"built", "levels", "cycle", "sort"}
    BY <1>5, EndPassStep
  <2>3. progressed' \in BOOLEAN /\ cur' \in Names \union {NoName}
    BY <1>0, <1>5, EndPassStep
  <2>. QED
    BY <1>0, <2>1, <2>2, <2>3
<1>6. CASE FollowCycle
  BY <1>0, <1>6, FollowStep
<1>7. CASE Place
  BY <1>0, <1>7 DEF Place
<1>8. CASE Returned \/ UNCHANGED vars
  BY <1>0, <1>8 DEF Returned, vars
<1>. QED
  BY <1>1, <1>2, <1>3, <1>4, <1>5, <1>6, <1>7, <1>8 DEF Next

\* The loops never run past their end.
LEMMA CounterKept == IInv /\ [Next]_vars => CounterInv'
<1>. SUFFICES ASSUME IInv, [Next]_vars PROVE CounterInv'
  OBVIOUS
<1>. USE DEF IInv, TypeOK, CounterInv, args, sort, walk, wave, Goto, Fail, Exhausted
<1>1. CASE CheckOptions
  BY <1>1 DEF CheckOptions
<1>2. CASE CheckDuplicate
  BY <1>2 DEF CheckDuplicate
<1>3. CASE CheckDependencies
  BY <1>3 DEF CheckDependencies
<1>4. CASE Visit
  BY <1>4 DEF Visit
<1>5. CASE EndPass
  BY <1>5 DEF EndPass
<1>6. CASE FollowCycle
  BY <1>6 DEF FollowCycle
<1>7. CASE Place
  BY <1>7 DEF Place
<1>8. CASE Returned \/ UNCHANGED vars
  BY <1>8 DEF Returned, vars
<1>. QED
  BY <1>1, <1>2, <1>3, <1>4, <1>5, <1>6, <1>7, <1>8 DEF Next

\* The validations establish what they look for.
LEMMA CheckedKept == IInv /\ [Next]_vars => CheckedInv'
<1>. SUFFICES ASSUME IInv, [Next]_vars PROVE CheckedInv'
  OBVIOUS
<1>0. TypeOK /\ CounterInv /\ CheckedInv
  BY DEF IInv
<1>. USE DEF CheckedInv, NamesChecked, DepsChecked, args, sort, walk, wave, Goto, Fail, NoRepeats,
             MemberOf, DepSet
<1>1. CASE CheckOptions
  BY <1>0, <1>1 DEF CheckOptions, TypeOK
<1>2. CASE CheckDuplicate
  <2>1. pc = "duplicates" /\ UNCHANGED <<stages, deps, mode, boundN>>
    BY <1>2 DEF CheckDuplicate
  <2>2. CASE Exhausted(stages)
    <3>1. i = Len(stages) + 1 /\ DOMAIN stages = 1 .. i - 1
      BY <1>0, <2>1, <2>2 DEF Exhausted, CounterInv, TypeOK
    <3>2. pc' = "dependencies" /\ i' = 1 /\ index' = index
      BY <1>2, <2>2 DEF CheckDuplicate
    <3>. QED
      BY <1>0, <2>1, <3>1, <3>2
  <2>3. CASE ~Exhausted(stages) /\ stages[i] \in index
    BY <1>2, <2>3 DEF CheckDuplicate
  <2>4. CASE ~Exhausted(stages) /\ stages[i] \notin index
    <3>1. pc' = pc /\ i' = i + 1 /\ index' = index \union {stages[i]}
      BY <1>2, <2>4 DEF CheckDuplicate
    <3>2. i \in Nat \ {0} /\ 1 .. i' - 1 = (1 .. i - 1) \union {i}
      BY <1>0, <3>1 DEF TypeOK
    <3>3. index' = {stages[k] : k \in 1 .. i' - 1}
      BY <1>0, <2>1, <3>1, <3>2
    <3>4. \A j, k \in 1 .. i' - 1 : stages[j] = stages[k] => j = k
      BY <1>0, <2>1, <2>4, <3>2
    <3>. QED
      BY <1>0, <2>1, <3>1, <3>3, <3>4
  <2>. QED
    BY <2>2, <2>3, <2>4
<1>3. CASE CheckDependencies
  <2>1. pc = "dependencies" /\ UNCHANGED <<stages, deps, mode, boundN, index>>
    BY <1>3 DEF CheckDependencies
  <2>2. CASE Exhausted(stages)
    <3>1. DOMAIN stages \subseteq 1 .. i - 1
      BY <1>0, <2>1, <2>2 DEF Exhausted, CounterInv, TypeOK
    <3>2. pc' = "sort"
      BY <1>3, <2>2 DEF CheckDependencies
    <3>. QED
      BY <1>0, <2>1, <3>1, <3>2
  <2>3. CASE ~Exhausted(stages) /\ DepSet(stages[i]) \subseteq index
    <3>1. pc' = pc /\ i' = i + 1
      BY <1>3, <2>3 DEF CheckDependencies
    <3>2. i \in Nat \ {0} /\ 1 .. i' - 1 = (1 .. i - 1) \union {i}
      BY <1>0, <3>1 DEF TypeOK
    <3>3. \A k \in 1 .. i - 1 : DepSet(stages[k]) \subseteq index
      BY <1>0, <2>1
    <3>4. \A k \in 1 .. i' - 1 : DepSet(stages[k]) \subseteq index
      BY <2>3, <3>2, <3>3
    <3>. QED
      BY <1>0, <2>1, <3>1, <3>4
  <2>4. CASE ~Exhausted(stages) /\ ~(DepSet(stages[i]) \subseteq index)
    <3>1. pc' = "failed"
      BY <1>3, <2>4 DEF CheckDependencies
    <3>. QED
      BY <3>1
  <2>. QED
    BY <2>2, <2>3, <2>4
<1>4. CASE Visit
  <2>1. pc = "sort" /\ UNCHANGED <<stages, deps, mode, boundN, pc, index>>
    BY <1>4, VisitStep
  <2>. QED
    BY <1>0, <2>1
<1>5. CASE EndPass
  <2>1. /\ pc = "sort" /\ pc' \in {"built", "levels", "cycle", "sort"}
        /\ UNCHANGED <<stages, deps, mode, boundN, index>>
    BY <1>5, EndPassStep
  <2>. QED
    BY <1>0, <2>1
<1>6. CASE FollowCycle
  <2>1. /\ pc = "cycle" /\ pc' \in {"cycle", "failed"}
        /\ UNCHANGED <<stages, deps, mode, boundN, index>>
    BY <1>6, FollowStep
  <2>. QED
    BY <1>0, <2>1
<1>7. CASE Place
  <2>1. /\ pc = "levels" /\ pc' \in {"levels", "built"}
        /\ UNCHANGED <<stages, deps, mode, boundN, index>>
    BY <1>7 DEF Place
  <2>. QED
    BY <1>0, <2>1
<1>8. CASE Returned \/ UNCHANGED vars
  BY <1>0, <1>8 DEF Returned, vars
<1>. QED
  BY <1>1, <1>2, <1>3, <1>4, <1>5, <1>6, <1>7, <1>8 DEF Next

\* What follows an order that respects the dependencies may be put at its end,
\* once its own dependencies are in it.
LEMMA RespectsAppend ==
  ASSUME NEW s \in Seq(Names), NEW e \in Names, NEW G,
         Respects(s, G), G[e] \subseteq MemberOf(s)
  PROVE  Respects(Append(s, e), G)
<1>. SUFFICES ASSUME NEW k \in DOMAIN Append(s, e), NEW d \in G[Append(s, e)[k]]
              PROVE  \E j \in 1 .. k - 1 : d = Append(s, e)[j]
  BY DEF Respects
<1>1. Len(s) \in Nat /\ DOMAIN s = 1 .. Len(s) /\ DOMAIN Append(s, e) = 1 .. Len(s) + 1
      /\ Append(s, e)[Len(s) + 1] = e /\ \A j \in 1 .. Len(s) : Append(s, e)[j] = s[j]
  OBVIOUS
<1>2. CASE k = Len(s) + 1
  <2>1. d \in MemberOf(s) /\ k - 1 = Len(s)
    BY <1>1, <1>2
  <2>. QED
    BY <1>1, <2>1 DEF MemberOf
<1>3. CASE k # Len(s) + 1
  <2>1. k \in DOMAIN s /\ Append(s, e)[k] = s[k]
    BY <1>1, <1>3
  <2>2. PICK j \in 1 .. k - 1 : d = s[j]
    BY <2>1 DEF Respects
  <2>. QED
    BY <1>1, <2>1, <2>2
<1>. QED
  BY <1>2, <1>3

\* A pass that emitted nothing has left stages that all wait for one another.
LEMMA StallIsDeadlock ==
  ASSUME TypeOK, CheckedInv, SortInv, pc = "sort", ~progressed, i = Len(stages) + 1,
         Rest # {}
  PROVE  Deadlocked(Rest)
<1>. SUFFICES ASSUME NEW n \in Rest PROVE DepSet(n) \cap Rest # {}
  BY DEF Deadlocked
<1>1. PICK k \in DOMAIN stages : n = stages[k]
  BY DEF Rest, MemberOf
<1>2. k \in 1 .. i - 1
  BY DEF TypeOK
<1>3. stages[k] \in emitted \/ ~(DepSet(stages[k]) \subseteq emitted)
  BY <1>2 DEF SortInv
<1>4. n \in MemberOf(stages) /\ n \notin emitted
  BY DEF Rest
<1>5. DepSet(n) \subseteq MemberOf(stages)
  BY <1>4 DEF CheckedInv, DepsChecked
<1>. QED
  BY <1>1, <1>3, <1>4, <1>5 DEF Rest

\* The sort keeps to legal orders.
LEMMA SortKept == IInv /\ [Next]_vars => SortInv'
<1>. SUFFICES ASSUME IInv, [Next]_vars PROVE SortInv'
  OBVIOUS
<1>0. TypeOK /\ SortInv /\ CheckedInv
  BY DEF IInv
<1>. USE DEF SortInv, Rest, Deadlocked, DepGraph, DepSet, args, sort, walk, wave, Goto, Fail
<1>1. CASE CheckOptions
  BY <1>0, <1>1 DEF CheckOptions
<1>2. CASE CheckDuplicate
  BY <1>0, <1>2 DEF CheckDuplicate
<1>3. CASE CheckDependencies
  <2>1. UNCHANGED <<stages, deps, emitted, ordered, progressed>> /\ pc = "dependencies"
    BY <1>3 DEF CheckDependencies
  <2>2. pc' = "sort" => i' = 1
    BY <1>3 DEF CheckDependencies
  <2>3. pc' \in {"sort", "dependencies", "failed"}
    BY <1>3 DEF CheckDependencies
  <2>. QED
    BY <1>0, <2>1, <2>2, <2>3
<1>4. CASE Visit
  <2>1. /\ pc = "sort" /\ pc' = pc /\ UNCHANGED <<stages, deps>> /\ i' = i + 1
        /\ stages[i] \in Names /\ stages[i] \in MemberOf(stages)
    BY <1>4, VisitStep
  <2>2. CASE Ready(stages[i])
    <3>1. /\ emitted' = emitted \union {stages[i]}
          /\ ordered' = Append(ordered, stages[i])
          /\ progressed' = TRUE
      BY <1>4, <2>2, VisitStep
    <3>2. stages[i] \notin emitted /\ DepGraph[stages[i]] \subseteq emitted
      BY <2>1, <2>2 DEF Ready
    <3>3. ordered \in Seq(Names) /\ emitted = MemberOf(ordered) /\ NoRepeats(ordered)
          /\ Respects(ordered, DepGraph)
      BY <1>0 DEF TypeOK
    <3>4. MemberOf(ordered') = emitted' /\ NoRepeats(ordered')
      BY <2>1, <3>1, <3>2, <3>3, AppendMembers
    <3>5. Respects(ordered', DepGraph)
      <4>. HIDE DEF DepGraph
      <4>. QED
        BY <2>1, <3>1, <3>2, <3>3, RespectsAppend
    <3>6. Respects(ordered', DepGraph')
      BY <2>1, <3>5
    <3>7. emitted' \subseteq MemberOf(stages)
      BY <1>0, <2>1, <3>1
    <3>. QED
      BY <2>1, <3>1, <3>4, <3>6, <3>7
  <2>3. CASE ~Ready(stages[i])
    <3>1. UNCHANGED <<emitted, ordered, progressed>>
      BY <1>4, <2>3, VisitStep
    <3>2. i \in Nat \ {0} /\ 1 .. i' - 1 = (1 .. i - 1) \union {i}
      BY <1>0, <2>1 DEF TypeOK
    <3>3. stages[i] \in emitted \/ ~(DepSet(stages[i]) \subseteq emitted)
      BY <2>3 DEF Ready
    <3>. QED
      BY <1>0, <2>1, <3>1, <3>2, <3>3
  <2>. QED
    BY <2>2, <2>3
<1>5. CASE EndPass
  <2>1. /\ pc = "sort" /\ i = Len(stages) + 1 /\ i' = 1
        /\ UNCHANGED <<stages, deps, emitted, ordered>>
    BY <1>5, EndPassStep
  <2>2. CASE pc' = "cycle"
    <3>1. ~progressed /\ Rest # {}
      BY <1>5, <2>2, EndPassStep
    <3>2. Deadlocked(Rest)
      BY <1>0, <2>1, <3>1, StallIsDeadlock
    <3>. QED
      BY <1>0, <2>1, <2>2, <3>2
  <2>3. CASE pc' = "sort"
    BY <1>0, <2>1, <2>3
  <2>4. CASE pc' \in {"levels", "built"}
    <3>1. emitted = MemberOf(stages)
      BY <1>5, <2>4, EndPassStep
    <3>. QED
      BY <1>0, <2>1, <2>4, <3>1
  <2>. QED
    <3>1. pc' \in {"cycle", "sort", "levels", "built"}
      BY <1>5, EndPassStep
    <3>. QED
      BY <2>2, <2>3, <2>4, <3>1
<1>6. CASE FollowCycle
  <2>1. /\ pc = "cycle" /\ pc' \in {"cycle", "failed"}
        /\ UNCHANGED <<stages, deps, emitted, ordered>>
    BY <1>6, FollowStep
  <2>. QED
    BY <1>0, <2>1
<1>7. CASE Place
  <2>1. /\ pc = "levels" /\ pc' \in {"levels", "built"}
        /\ UNCHANGED <<stages, deps, emitted, ordered>>
    BY <1>7 DEF Place
  <2>. QED
    BY <1>0, <2>1
<1>8. CASE Returned \/ UNCHANGED vars
  BY <1>0, <1>8 DEF Returned, vars
<1>. QED
  BY <1>1, <1>2, <1>3, <1>4, <1>5, <1>6, <1>7, <1>8 DEF Next

\* If every stage comes after its dependencies, a pass emits each as it meets it.
LEMMA InputOrderKept == IInv /\ [Next]_vars => InputOrderInv'
<1>. SUFFICES ASSUME IInv, [Next]_vars, Respects(stages, DepGraph)' PROVE InputOrderInv'
  BY DEF InputOrderInv
<1>0. TypeOK /\ SortInv /\ CheckedInv /\ InputOrderInv
  BY DEF IInv
<1>00. UNCHANGED <<stages, deps>>
  BY DEF Next, vars, args, CheckOptions, CheckDuplicate, CheckDependencies, Visit, EndPass,
     FollowCycle, Place, Returned
<1>000. Respects(stages, DepGraph) /\ stages \in Seq(Names)
  BY <1>0, <1>00 DEF DepGraph, DepSet, TypeOK
<1>. USE DEF InputOrderInv, DepsChecked
<1>1. CASE CheckOptions \/ CheckDuplicate
  BY <1>1 DEF CheckOptions, CheckDuplicate, Goto, Fail
<1>3. CASE CheckDependencies
  <2>1. ordered' = <<>> /\ (pc' = "sort" => i' = 1)
    BY <1>0, <1>3 DEF CheckDependencies, Goto, Fail, SortInv, sort
  <2>2. pc' \in {"sort", "dependencies", "failed"}
    BY <1>3 DEF CheckDependencies, Goto, Fail
  <2>3. SubSeq(stages, 1, 0) = <<>>
    BY <1>000, SubSeqEmpty
  <2>. QED
    BY <1>00, <2>1, <2>2, <2>3
<1>4. CASE Visit
  <2>1. /\ pc = "sort" /\ pc' = pc /\ i' = i + 1 /\ i \in DOMAIN stages
        /\ NoRepeats(stages) /\ stages[i] \in Names
    BY <1>4, VisitStep
  <2>2. ordered = SubSeq(stages, 1, i - 1) /\ i \in 1 .. Len(stages)
    BY <1>0, <1>000, <2>1
  <2>3. Len(ordered) = i - 1 /\ \A j \in 1 .. i - 1 : ordered[j] = stages[j]
    BY <1>000, <2>2
  <2>4. emitted = {stages[j] : j \in 1 .. i - 1}
    <3>1. DOMAIN ordered = 1 .. i - 1 /\ emitted = MemberOf(ordered)
      BY <1>0, <2>3 DEF SortInv, TypeOK
    <3>. QED
      BY <2>3, <3>1 DEF MemberOf
  <2>5. Ready(stages[i])
    <3>1. DepGraph[stages[i]] \subseteq emitted
      BY <1>000, <2>1, <2>4 DEF Respects
    <3>2. stages[i] \notin emitted
      BY <2>1, <2>2, <2>4 DEF NoRepeats
    <3>. QED
      BY <2>1, <3>1, <3>2 DEF Ready, DepGraph
  <2>6. ordered' = Append(ordered, stages[i])
    BY <1>4, <2>5, VisitStep
  <2>7. Append(SubSeq(stages, 1, i - 1), stages[i]) = SubSeq(stages, 1, i)
    BY <1>000, <2>2
  <2>. QED
    BY <1>00, <2>1, <2>2, <2>6, <2>7, <1>0 DEF TypeOK
<1>5. CASE EndPass
  <2>1. pc = "sort" /\ i = Len(stages) + 1 /\ ordered' = ordered
    BY <1>5, EndPassStep
  <2>2. ordered = stages
    BY <1>0, <1>000, <2>1, SubSeqFull
  <2>3. pc' \in {"levels", "built"}
    <3>1. ~(Len(ordered) < Len(stages))
      BY <1>000, <2>2
    <3>2. pc' = IF MaxParallel = 0 THEN "built" ELSE "levels"
      BY <1>5, <3>1, EndPassStep
    <3>. QED
      BY <3>2
  <2>. QED
    BY <1>00, <2>1, <2>2, <2>3
<1>6. CASE FollowCycle
  BY <1>0, <1>000, <1>6 DEF FollowCycle
<1>7. CASE Place
  <2>1. pc = "levels" /\ pc' \in {"levels", "built"} /\ ordered' = ordered
    BY <1>7 DEF Place, Goto, sort
  <2>. QED
    BY <1>0, <1>00, <1>000, <2>1
<1>8. CASE Returned \/ UNCHANGED vars
  BY <1>0, <1>00, <1>000, <1>8 DEF Returned, vars, sort
<1>. QED
  BY <1>1, <1>3, <1>4, <1>5, <1>6, <1>7, <1>8 DEF Next

\* findCycle's path stays a walk along dependencies, within the stages that wait.
LEMMA WalkKept == IInv /\ [Next]_vars => WalkInv'
<1>. SUFFICES ASSUME IInv, [Next]_vars PROVE WalkInv'
  OBVIOUS
<1>0. TypeOK /\ SortInv /\ WalkInv
  BY DEF IInv
<1>. USE DEF WalkInv, Rest, DepSet
<1>1. CASE CheckOptions \/ CheckDuplicate \/ CheckDependencies
  BY <1>0, <1>1 DEF CheckOptions, CheckDuplicate, CheckDependencies, Goto, Fail, walk
<1>4. CASE Visit
  <2>1. pc = "sort" /\ UNCHANGED <<pc, path>>
    BY <1>4, VisitStep
  <2>. QED
    BY <1>0, <2>1
<1>5. CASE EndPass
  <2>1. /\ pc = "sort" /\ pc' \in {"cycle", "sort", "levels", "built"}
        /\ UNCHANGED <<stages, deps, emitted, path>>
        /\ pc' = "cycle" => cur' \in Rest
    BY <1>5, EndPassStep
  <2>2. path = <<>>
    BY <1>0, <2>1
  <2>3. Len(path) = 0 /\ MemberOf(path) = {} /\ NoRepeats(path)
    BY <2>2 DEF MemberOf, NoRepeats
  <2>. QED
    BY <2>1, <2>2, <2>3
<1>6. CASE FollowCycle
  <2>1. CASE cur \in MemberOf(path)
    BY <1>6, <2>1, FollowStep
  <2>2. CASE cur \notin MemberOf(path)
    <3>1. /\ pc = "cycle" /\ cur \in Rest /\ cur \in Names
          /\ UNCHANGED <<stages, deps, emitted, pc>>
          /\ path' = Append(path, cur) /\ cur' \in DepSet(cur) /\ cur' \in Rest
      BY <1>6, <2>2, FollowStep
    <3>2. path \in Seq(Names) /\ Len(path) \in Nat /\ Len(path') = Len(path) + 1
          /\ path'[Len(path) + 1] = cur /\ \A k \in 1 .. Len(path) : path'[k] = path[k]
      BY <1>0, <3>1 DEF TypeOK
    <3>3. MemberOf(path') = MemberOf(path) \union {cur} /\ NoRepeats(path')
      BY <1>0, <2>2, <3>1, <3>2, AppendMembers
    <3>4. ASSUME NEW k \in 1 .. Len(path') - 1
          PROVE  path'[k + 1] \in DepSet(path'[k])
      <4>1. CASE k = Len(path)
        <5>1. path # <<>> /\ k \in 1 .. Len(path)
          BY <3>2, <3>4, <4>1
        <5>2. cur \in DepSet(path[k])
          BY <1>0, <3>1, <4>1, <5>1
        <5>. QED
          BY <3>2, <4>1, <5>1, <5>2
      <4>2. CASE k # Len(path)
        <5>1. k \in 1 .. Len(path) - 1 /\ k \in 1 .. Len(path) /\ k + 1 \in 1 .. Len(path)
          BY <3>2, <3>4, <4>2
        <5>2. path[k + 1] \in DepSet(path[k])
          BY <1>0, <3>1, <5>1
        <5>. QED
          BY <3>2, <5>1, <5>2
      <4>. QED
        BY <4>1, <4>2
    <3>5. cur' \in DepSet(path'[Len(path')])
      BY <3>1, <3>2
    <3>. QED
      BY <1>0, <3>1, <3>3, <3>4, <3>5
  <2>. QED
    BY <2>1, <2>2
<1>7. CASE Place
  BY <1>0, <1>7 DEF Place, Goto, walk
<1>8. CASE Returned \/ UNCHANGED vars
  BY <1>0, <1>8 DEF Returned, vars, walk, args, sort
<1>. QED
  BY <1>1, <1>4, <1>5, <1>6, <1>7, <1>8 DEF Next

\* A sequence of dependencies that is closed on its first stage and meets no other
\* twice.
IsCycle(loop) ==
  LET n == Len(loop)
  IN  /\ n >= 2 /\ loop[n] = loop[1]
      /\ \A k \in 1 .. n - 1 : loop[k + 1] \in DepSet(loop[k])
      /\ \A j, k \in 1 .. n - 1 : loop[j] = loop[k] => j = k

\* When the walk is back at a stage, what it has walked since is a cycle.
LEMMA LoopIsCycle ==
  ASSUME TypeOK, WalkInv, pc = "cycle", cur \in Names, cur \in MemberOf(path)
  PROVE  IsCycle(Loop)
<1> DEFINE f == FirstIndex(path, {cur})
           m == Len(path) - f + 1
           walked == SubSeq(path, f, Len(path))
<1>1. path \in Seq(Names) /\ Len(path) \in Nat /\ DOMAIN path = 1 .. Len(path)
  BY DEF TypeOK
<1>2. f \in 1 .. Len(path) /\ path[f] = cur
  <2>1. \E k \in DOMAIN path : path[k] \in {cur}
    BY DEF MemberOf
  <2>. QED
    BY <1>1, <2>1, FirstIndexIs
<1>. HIDE DEF f
<1>3. walked \in Seq(Names) /\ Len(walked) = m /\ \A k \in 1 .. m : walked[k] = path[f + k - 1]
  BY <1>1, <1>2
<1>. HIDE DEF walked
<1>4. m \in Nat /\ m >= 1 /\ f + m - 1 = Len(path)
  BY <1>1, <1>2
<1>5. Loop = Append(walked, cur)
  BY DEF Loop, walked, f
<1>6. /\ Len(Loop) = m + 1 /\ Loop[m + 1] = cur
      /\ \A k \in 1 .. m : Loop[k] = path[f + k - 1]
  BY <1>3, <1>4, <1>5
<1>7. Loop[m + 1] = Loop[1]
  BY <1>2, <1>4, <1>6
<1>8. ASSUME NEW k \in 1 .. m PROVE Loop[k + 1] \in DepSet(Loop[k])
  <2>1. CASE k = m
    <3>1. path # <<>> /\ Loop[k] = path[Len(path)] /\ Loop[k + 1] = cur
      BY <1>1, <1>2, <1>4, <1>6, <2>1
    <3>. QED
      BY <3>1 DEF WalkInv
  <2>2. CASE k # m
    <3>1. f + k - 1 \in 1 .. Len(path) - 1 /\ k + 1 \in 1 .. m
      BY <1>1, <1>2, <1>4, <2>2
    <3>2. Loop[k] = path[f + k - 1] /\ Loop[k + 1] = path[(f + k - 1) + 1]
      <4>1. f + (k + 1) - 1 = (f + k - 1) + 1
        BY <1>2, <1>4
      <4>2. Loop[k + 1] = path[f + (k + 1) - 1]
        BY <1>6, <3>1
      <4>. QED
        BY <1>6, <4>1, <4>2
    <3>3. path[(f + k - 1) + 1] \in DepSet(path[f + k - 1])
      BY <3>1 DEF WalkInv
    <3>. QED
      BY <3>2, <3>3
  <2>. QED
    BY <2>1, <2>2
<1>9. ASSUME NEW j \in 1 .. m, NEW k \in 1 .. m, Loop[j] = Loop[k] PROVE j = k
  <2>1. path[f + j - 1] = path[f + k - 1]
    BY <1>6, <1>9
  <2>2. f + j - 1 \in DOMAIN path /\ f + k - 1 \in DOMAIN path
    BY <1>1, <1>2, <1>4
  <2>3. f + j - 1 = f + k - 1
    BY <2>1, <2>2 DEF WalkInv, NoRepeats
  <2>. QED
    BY <1>2, <2>3
<1>. HIDE DEF m
<1>10. Len(Loop) >= 2 /\ Len(Loop) - 1 = m
  BY <1>4, <1>6
<1>. QED
  BY <1>6, <1>7, <1>8, <1>9, <1>10 DEF IsCycle

\* The four ways in which an argument can be refused, in the order of the checks.
BadBound == mode = "bounded" /\ boundN < 1
Repeated == \E j, k \in DOMAIN stages : j # k /\ stages[j] = stages[k]
Unknown  == \E n \in MemberOf(stages) : ~(DepSet(n) \subseteq MemberOf(stages))
Circular == \E S \in SUBSET MemberOf(stages) : Deadlocked(S)

LEMMA VerdictCases ==
  /\ BadBound => Verdict = "InvalidMaxParallel"
  /\ ~BadBound /\ Repeated => Verdict = "DuplicateStage"
  /\ ~BadBound /\ ~Repeated /\ Unknown => Verdict = "UnknownDependency"
  /\ ~BadBound /\ ~Repeated /\ ~Unknown /\ Circular => Verdict = "Cycle"
  /\ ~BadBound /\ ~Repeated /\ ~Unknown /\ ~Circular => Verdict = "nil"
  BY DEF Verdict, BadBound, Repeated, Unknown, Circular

\* Stages in an order that respects the dependencies do not wait for one another:
\* of those that would, the first in the order has a dependency before it.
LEMMA OrderedIsFree ==
  ASSUME TypeOK, SortInv, emitted = MemberOf(stages)
  PROVE  ~Circular
<1>. SUFFICES ASSUME NEW S \in SUBSET MemberOf(stages), Deadlocked(S) PROVE FALSE
  BY DEF Circular
<1>1. ordered \in Seq(Names) /\ MemberOf(ordered) = MemberOf(stages) /\ S # {}
  BY DEF TypeOK, SortInv, Deadlocked
<1>2. \E k \in DOMAIN ordered : ordered[k] \in S
  BY <1>1 DEF MemberOf
<1> DEFINE first == FirstIndex(ordered, S)
<1>3. /\ first \in DOMAIN ordered /\ ordered[first] \in S
      /\ \A j \in DOMAIN ordered : ordered[j] \in S => first <= j
  BY <1>1, <1>2, FirstIndexIs
<1>. HIDE DEF first
<1>4. PICK d \in DepSet(ordered[first]) : d \in S
  BY <1>3 DEF Deadlocked
<1>5. ordered[first] \in Names
  BY <1>1, <1>3
<1>6. DepGraph[ordered[first]] \subseteq {ordered[j] : j \in 1 .. first - 1}
  BY <1>3 DEF SortInv, Respects
<1>7. PICK j \in 1 .. first - 1 : d = ordered[j]
  BY <1>4, <1>5, <1>6 DEF DepGraph
<1>8. j \in DOMAIN ordered /\ j < first
  BY <1>1, <1>3
<1>. QED
  BY <1>3, <1>4, <1>7, <1>8, <1>1

\* Errors are returned where they are due.
LEMMA ErrKept == IInv /\ [Next]_vars => ErrInv'
<1>. SUFFICES ASSUME IInv, [Next]_vars PROVE ErrInv'
  OBVIOUS
<1>0. TypeOK /\ CheckedInv /\ SortInv /\ WalkInv /\ ErrInv /\ CounterInv
  BY DEF IInv
<1>00. UNCHANGED <<stages, deps, mode, boundN>>
  BY DEF Next, vars, args, CheckOptions, CheckDuplicate, CheckDependencies, Visit, EndPass,
     FollowCycle, Place, Returned
<1>000. Verdict' = Verdict
  BY <1>00 DEF Verdict, Deadlocked, DepSet
<1>1. ASSUME pc # "failed", pc' # "failed", err' = err PROVE ErrInv'
  BY <1>0, <1>1 DEF ErrInv, CycleIsReal, NoErr
<1>2. ASSUME pc' = "failed", err'.kind = Verdict, err'.kind \notin {"nil", "Cycle"}
      PROVE  ErrInv'
  BY <1>000, <1>2 DEF ErrInv, CycleIsReal
<1>3. CASE CheckOptions
  <2>1. CASE BadBound
    <3>1. pc' = "failed" /\ err' = [kind |-> "InvalidMaxParallel", n |-> boundN]
      BY <1>3, <2>1 DEF CheckOptions, Fail, Goto, BadBound
    <3>. QED
      BY <1>2, <2>1, <3>1, VerdictCases
  <2>2. CASE ~BadBound
    BY <1>1, <1>3, <2>2 DEF CheckOptions, Goto, BadBound
  <2>. QED
    BY <2>1, <2>2
<1>4. CASE CheckDuplicate
  <2>1. CASE ~Exhausted(stages) /\ stages[i] \in index
    <3>1. pc = "duplicates" /\ pc' = "failed"
          /\ err' = [kind |-> "DuplicateStage", name |-> stages[i]]
      BY <1>4, <2>1 DEF CheckDuplicate, Fail, Goto
    <3>2. i \in DOMAIN stages
      BY <1>0, <2>1, AtElement DEF TypeOK
    <3>3. PICK k \in 1 .. i - 1 : stages[k] = stages[i]
      BY <1>0, <2>1, <3>1 DEF CheckedInv
    <3>4. k \in DOMAIN stages /\ k # i
      BY <1>0, <3>2 DEF TypeOK
    <3>5. ~BadBound /\ Repeated
      BY <1>0, <3>1, <3>2, <3>3, <3>4 DEF CheckedInv, BadBound, Repeated
    <3>. QED
      BY <1>2, <3>1, <3>5, VerdictCases
  <2>2. CASE ~(~Exhausted(stages) /\ stages[i] \in index)
    BY <1>1, <1>4, <2>2 DEF CheckDuplicate, Goto
  <2>. QED
    BY <2>1, <2>2
<1>5. CASE CheckDependencies
  <2>1. CASE ~Exhausted(stages) /\ ~(DepSet(stages[i]) \subseteq index)
    <3>1. pc = "dependencies" /\ pc' = "failed" /\ err'.kind = "UnknownDependency"
      BY <1>5, <2>1 DEF CheckDependencies, Fail, Goto
    <3>2. stages[i] \in MemberOf(stages)
      BY <1>0, <2>1, AtElement DEF TypeOK
    <3>3. ~BadBound /\ ~Repeated /\ Unknown
      BY <1>0, <2>1, <3>1, <3>2
         DEF CheckedInv, NamesChecked, NoRepeats, BadBound, Repeated, Unknown
    <3>. QED
      BY <1>2, <3>1, <3>3, VerdictCases
  <2>2. CASE ~(~Exhausted(stages) /\ ~(DepSet(stages[i]) \subseteq index))
    BY <1>1, <1>5, <2>2 DEF CheckDependencies, Goto
  <2>. QED
    BY <2>1, <2>2
<1>6. CASE Visit
  BY <1>1, <1>6, VisitStep
<1>7. CASE EndPass
  <2>1. pc = "sort" /\ pc' \in {"built", "levels", "cycle", "sort"} /\ err' = err
    BY <1>7, EndPassStep
  <2>. QED
    BY <1>1, <2>1
<1>8. CASE FollowCycle
  <2>1. CASE cur \in MemberOf(path)
    <3>1. /\ pc = "cycle" /\ pc' = "failed" /\ cur \in Names
          /\ err' = [kind |-> "Cycle", loop |-> Loop]
      BY <1>8, <2>1, FollowStep
    <3>2. IsCycle(Loop)
      BY <1>0, <2>1, <3>1, LoopIsCycle
    <3>3. CycleIsReal'
      BY <1>00, <3>1, <3>2 DEF CycleIsReal, IsCycle, DepSet
    <3>4. ~BadBound /\ ~Repeated /\ ~Unknown
      BY <1>0, <3>1
         DEF CheckedInv, NamesChecked, DepsChecked, NoRepeats, BadBound, Repeated, Unknown
    <3>5. Circular
      BY <1>0, <3>1 DEF SortInv, Circular, Rest
    <3>6. Verdict = "Cycle"
      BY <3>4, <3>5, VerdictCases
    <3>. QED
      BY <1>000, <3>1, <3>3, <3>6 DEF ErrInv
  <2>2. CASE cur \notin MemberOf(path)
    <3>1. pc = "cycle" /\ pc' = pc /\ err' = err
      BY <1>8, <2>2, FollowStep
    <3>. QED
      BY <1>1, <3>1
  <2>. QED
    BY <2>1, <2>2
<1>9. CASE Place
  <2>1. pc = "levels" /\ pc' \in {"built", "levels"} /\ err' = err
    BY <1>9 DEF Place, Goto
  <2>. QED
    BY <1>1, <2>1
<1>10. CASE Returned \/ UNCHANGED vars
  BY <1>0, <1>00, <1>000, <1>10 DEF Returned, vars, ErrInv, CycleIsReal, DepSet
<1>. QED
  BY <1>3, <1>4, <1>5, <1>6, <1>7, <1>8, <1>9, <1>10 DEF Next

\* Nothing has been looked at when NewPipeline is called.
LEMMA InitHolds == Init => IInv
<1>. SUFFICES ASSUME Init PROVE IInv
  OBVIOUS
<1>1. TypeOK
  <2>1. stages \in Seq(Names) /\ deps \in [Names -> Seq(Names)]
    BY BuildAssumption DEF Init
  <2>2. boundN \in Int
    BY BuildAssumption DEF Init
  <2>3. ordered \in Seq(Names) /\ path \in Seq(Names)
    BY DEF Init
  <2>4. err.kind = "nil" /\ cur = NoName
    BY DEF Init, NoErr
  <2>5. /\ mode \in Modes /\ pc = "options" /\ i = 1 /\ index = {} /\ emitted = {}
        /\ progressed \in BOOLEAN
    BY DEF Init
  <2>. QED
    BY <2>1, <2>2, <2>3, <2>4, <2>5 DEF TypeOK
<1>2. CounterInv /\ CheckedInv /\ InputOrderInv /\ WalkInv
  BY DEF Init, CounterInv, CheckedInv, NamesChecked, DepsChecked, InputOrderInv, WalkInv
<1>3. SortInv
  BY DEF Init, SortInv, MemberOf, NoRepeats, Respects
<1>4. ErrInv
  BY DEF Init, ErrInv, NoErr, CycleIsReal
<1>. QED
  BY <1>1, <1>2, <1>3, <1>4 DEF IInv

\* What NewPipeline knows at each of its loops, up to the levels.
THEOREM InductiveInvariant == Spec => []IInv
<1>1. IInv /\ [Next]_vars => IInv'
  BY TypesKept, CounterKept, CheckedKept, SortKept, InputOrderKept, WalkKept, ErrKept DEF IInv
<1>. QED
  BY <1>1, InitHolds, PTL DEF Spec

\* The variables of NewPipeline keep their types.
THEOREM TypeCorrect == Spec => []TypeOK
<1>1. IInv => TypeOK
  BY DEF IInv
<1>. QED
  BY <1>1, InductiveInvariant, PTL

\* A pipeline that is built runs its stages, each once and after what it depends
\* on, and in the order given where that is legal already.
THEOREM OrderIsLegal == Spec => []BuiltOrder
<1>1. IInv => BuiltOrder
  BY DEF IInv, SortInv, InputOrderInv, DepsChecked, BuiltOrder
<1>. QED
  BY <1>1, InductiveInvariant, PTL

\* The path in a CycleError is a cycle of the dependencies as declared.
THEOREM ReportedCycle == Spec => []CycleIsReal
<1>1. IInv => CycleIsReal
  BY DEF IInv, ErrInv
<1>. QED
  BY <1>1, InductiveInvariant, PTL

\* NewPipeline refuses exactly the arguments it must, for the first reason there is
\* in the order of its checks; in particular, topoSort stalls exactly if some stages
\* wait for one another.
THEOREM RefusedRightly == Spec => []VerdictIsRight
<1>1. ASSUME IInv PROVE VerdictIsRight
  <2>1. CASE pc = "built"
    <3>1. err.kind = "nil"
      BY <1>1, <2>1 DEF IInv, ErrInv, NoErr
    <3>2. ~Circular
      BY <1>1, <2>1, OrderedIsFree DEF IInv, SortInv
    <3>3. ~BadBound /\ ~Repeated /\ ~Unknown
      BY <1>1, <2>1
         DEF IInv, CheckedInv, NamesChecked, DepsChecked, NoRepeats, BadBound, Repeated, Unknown
    <3>. QED
      BY <3>1, <3>2, <3>3, VerdictCases DEF VerdictIsRight
  <2>2. CASE pc = "failed"
    BY <1>1, <2>2 DEF IInv, ErrInv, VerdictIsRight
  <2>. QED
    BY <2>1, <2>2 DEF VerdictIsRight
<1>. QED
  BY <1>1, InductiveInvariant, PTL
-----------------------------------------------------------------------------
\* computeLevels: the stages placed so far, and where each is in the run order.
Leveled == pc = "levels" \/ (pc = "built" /\ MaxParallel # 0)
Placed  == IF pc = "levels" THEN {ordered[k] : k \in 1 .. i - 1} ELSE MemberOf(ordered)
Pos(n)  == FirstIndex(ordered, {n})

\* Every stage placed has a level that exists.
ShapeInv ==
  /\ lvlOf \in [Placed -> Nat] /\ levels \in Seq(Seq(Names))
  /\ \A n \in Placed : lvlOf[n] < Len(levels)

\* It is one past the deepest of its dependencies, which are placed.
DepthInv ==
  \A n \in Placed :
    /\ DepSet(n) \subseteq Placed
    /\ \A d \in DepSet(n) : lvlOf[d] < lvlOf[n]
    /\ lvlOf[n] > 0 => \E d \in DepSet(n) : lvlOf[d] = lvlOf[n] - 1

\* A level lists the stages that have it, in the run order, and some stage does.
RowsInv ==
  \A l \in DOMAIN levels :
    /\ levels[l] # <<>>
    /\ MemberOf(levels[l]) = {n \in Placed : lvlOf[n] = l - 1}
    /\ \A j, k \in DOMAIN levels[l] : j < k => Pos(levels[l][j]) < Pos(levels[l][k])

LevelsInv ==
  /\ pc \in {"options", "duplicates", "dependencies", "sort", "cycle"} =>
       lvlOf = <<>> /\ levels = <<>>
  /\ pc = "levels" => MaxParallel # 0
  /\ pc = "built" /\ MaxParallel = 0 => levels = <<>>
  /\ Leveled => ShapeInv /\ DepthInv /\ RowsInv

\* In an order without repetition, a stage is at the place it is found at.
LEMMA PosIs ==
  ASSUME TypeOK, SortInv, NEW k \in DOMAIN ordered
  PROVE  Pos(ordered[k]) = k
  BY PlaceOf DEF Pos, TypeOK, SortInv

\* The level of the next stage: one past its deepest dependency, and at most one
\* more than there are.
LEMMA LevelOfNext ==
  ASSUME IInv, LevelsInv, pc = "levels", i \in DOMAIN ordered
  PROVE  LET n == ordered[i]
             l == LevelFor(n)
         IN  /\ n \in Names /\ n \notin Placed /\ DepSet(n) \subseteq Placed
             /\ l \in Nat /\ l <= Len(levels)
             /\ \A d \in DepSet(n) : lvlOf[d] < l
             /\ l > 0 => \E d \in DepSet(n) : lvlOf[d] = l - 1
<1> DEFINE n == ordered[i]
           depths == {0} \union {lvlOf[d] + 1 : d \in DepSet(n)}
<1>1. /\ ordered \in Seq(Names) /\ NoRepeats(ordered) /\ Respects(ordered, DepGraph)
      /\ n \in Names /\ Placed = {ordered[k] : k \in 1 .. i - 1}
      /\ \A k \in 1 .. i - 1 : k \in DOMAIN ordered /\ k # i
  BY DEF IInv, TypeOK, SortInv, Placed
<1>2. n \notin Placed
  BY <1>1 DEF NoRepeats
<1>3. DepSet(n) \subseteq Placed
  BY <1>1 DEF Respects, DepGraph
<1>4. /\ lvlOf \in [Placed -> Nat] /\ Len(levels) \in Nat
      /\ \A d \in Placed : lvlOf[d] < Len(levels)
  BY DEF LevelsInv, Leveled, ShapeInv
<1>5. depths \subseteq Nat /\ depths # {} /\ \A x \in depths : x <= Len(levels)
  BY <1>3, <1>4
<1>6. \E x \in depths : \A y \in depths : y <= x
  <2>. HIDE DEF depths
  <2>. QED
    BY <1>4, <1>5, GreatestOfNats
<1>7. LevelFor(n) \in depths /\ \A y \in depths : y <= LevelFor(n)
  BY <1>6 DEF LevelFor
<1>8. LevelFor(n) \in Nat /\ LevelFor(n) <= Len(levels)
  BY <1>5, <1>7
<1>9. \A d \in DepSet(n) : lvlOf[d] < LevelFor(n)
  <2>. SUFFICES ASSUME NEW d \in DepSet(n) PROVE lvlOf[d] < LevelFor(n)
    OBVIOUS
  <2>1. lvlOf[d] + 1 \in depths /\ lvlOf[d] \in Nat
    BY <1>3, <1>4
  <2>. HIDE DEF depths
  <2>. QED
    BY <1>7, <1>8, <2>1
<1>10. LevelFor(n) > 0 => \E d \in DepSet(n) : lvlOf[d] = LevelFor(n) - 1
  <2>. SUFFICES ASSUME LevelFor(n) > 0 PROVE \E d \in DepSet(n) : lvlOf[d] = LevelFor(n) - 1
    OBVIOUS
  <2>1. PICK d \in DepSet(n) : LevelFor(n) = lvlOf[d] + 1
    BY <1>7, <1>8
  <2>. QED
    BY <1>3, <1>4, <2>1
<1>. HIDE DEF n
<1>. QED
  BY <1>1, <1>2, <1>3, <1>8, <1>9, <1>10 DEF n

\* What PlaceInLevel does: the level gets the stage at its end, and is a new one if
\* there was none.
LEMMA PlacedInLevel ==
  ASSUME levels \in Seq(Seq(Names)), NEW n \in Names, NEW l \in Nat, l <= Len(levels)
  PROVE  LET new == PlaceInLevel(n, l)
             old == IF l < Len(levels) THEN levels[l + 1] ELSE <<>>
         IN  /\ new \in Seq(Seq(Names)) /\ Len(levels) <= Len(new) /\ l < Len(new)
             /\ DOMAIN new = DOMAIN levels \union {l + 1}
             /\ old \in Seq(Names) /\ new[l + 1] = Append(old, n)
             /\ \A m \in DOMAIN levels \ {l + 1} : new[m] = levels[m]
<1>1. CASE l < Len(levels)
  <2>1. l + 1 \in DOMAIN levels /\ levels[l + 1] \in Seq(Names)
    BY <1>1
  <2>2. Append(levels[l + 1], n) \in Seq(Names)
    BY <2>1
  <2>3. PlaceInLevel(n, l) = [levels EXCEPT ![l + 1] = Append(levels[l + 1], n)]
    BY <1>1 DEF PlaceInLevel
  <2>4. /\ PlaceInLevel(n, l) \in Seq(Seq(Names))
        /\ Len(PlaceInLevel(n, l)) = Len(levels)
        /\ \A m \in 1 .. Len(levels) :
             PlaceInLevel(n, l)[m] = IF m = l + 1 THEN Append(levels[l + 1], n) ELSE levels[m]
    BY <2>1, <2>2, <2>3, ExceptSeq
  <2>5. DOMAIN levels = 1 .. Len(levels) /\ DOMAIN PlaceInLevel(n, l) = 1 .. Len(levels)
    BY <2>4
  <2>. HIDE DEF PlaceInLevel
  <2>. QED
    BY <1>1, <2>1, <2>4, <2>5
<1>2. CASE ~(l < Len(levels))
  <2>1. l = Len(levels) /\ <<n>> \in Seq(Names) /\ Append(<<>>, n) = <<n>>
    BY <1>2
  <2>2. PlaceInLevel(n, l) = Append(levels, <<n>>)
    BY <1>2 DEF PlaceInLevel
  <2>3. <<>> \in Seq(Names)
    OBVIOUS
  <2>. QED
    BY <1>2, <2>1, <2>2, <2>3
<1>. QED
  BY <1>1, <1>2

\* A step of computeLevels, in terms of the stage it places.
LEMMA PlaceStep ==
  ASSUME IInv, LevelsInv, Place, ~Exhausted(ordered)
  PROVE  LET n == ordered[i]
             l == LevelFor(n)
         IN  /\ pc = "levels" /\ pc' = "levels" /\ i \in DOMAIN ordered
             /\ UNCHANGED <<stages, deps, mode, boundN, emitted, ordered>>
             /\ n \notin Placed /\ Placed' = Placed \union {n}
             /\ lvlOf' \in [Placed' -> Nat] /\ lvlOf'[n] = l
             /\ \A m \in Placed : lvlOf'[m] = lvlOf[m]
             /\ levels' = PlaceInLevel(n, l)
<1> DEFINE n == ordered[i]
           l == LevelFor(n)
<1>1. /\ pc = "levels" /\ pc' = "levels" /\ i' = i + 1
      /\ UNCHANGED <<stages, deps, mode, boundN, emitted, ordered>>
      /\ lvlOf' = [m \in DOMAIN lvlOf \union {n} |-> IF m = n THEN l ELSE lvlOf[m]]
      /\ levels' = PlaceInLevel(n, l)
  BY DEF Place, args, sort
<1>2. i \in DOMAIN ordered /\ i \in Nat \ {0}
  BY AtElement DEF IInv, TypeOK
<1>3. n \notin Placed /\ l \in Nat
  BY <1>1, <1>2, LevelOfNext
<1>4. 1 .. i' - 1 = (1 .. i - 1) \union {i}
  BY <1>1, <1>2
<1>5. Placed' = Placed \union {n}
  BY <1>1, <1>4 DEF Placed
<1>6. lvlOf \in [Placed -> Nat]
  BY <1>1 DEF LevelsInv, Leveled, ShapeInv
<1>7. DOMAIN lvlOf = Placed
  BY <1>6
<1>. HIDE DEF n, l
<1>8. lvlOf' = [m \in Placed' |-> IF m = n THEN l ELSE lvlOf[m]]
  BY <1>1, <1>5, <1>7
<1>9. lvlOf' \in [Placed' -> Nat] /\ lvlOf'[n] = l /\ \A m \in Placed : lvlOf'[m] = lvlOf[m]
  BY <1>3, <1>5, <1>6, <1>8
<1>. QED
  BY <1>1, <1>2, <1>3, <1>5, <1>9 DEF n, l

\* What RowsInv says of one level.
LEMMA RowsAt ==
  ASSUME RowsInv, NEW at \in DOMAIN levels
  PROVE  /\ levels[at] # <<>>
         /\ MemberOf(levels[at]) = {m \in Placed : lvlOf[m] = at - 1}
         /\ \A j, k \in DOMAIN levels[at] : j < k => Pos(levels[at][j]) < Pos(levels[at][k])
BY DEF RowsInv

\* Placing a stage keeps the levels as they should be.
LEMMA PlaceKeepsLevels ==
  ASSUME IInv, LevelsInv, Place, ~Exhausted(ordered)
  PROVE  ShapeInv' /\ DepthInv' /\ RowsInv'
<1> DEFINE n == ordered[i]
           l == LevelFor(n)
           old == IF l < Len(levels) THEN levels[l + 1] ELSE <<>>
<1>1. /\ pc = "levels" /\ i \in DOMAIN ordered
      /\ UNCHANGED <<deps, emitted, ordered>>
      /\ n \notin Placed /\ Placed' = Placed \union {n}
      /\ lvlOf' \in [Placed' -> Nat] /\ lvlOf'[n] = l
      /\ \A m \in Placed : lvlOf'[m] = lvlOf[m]
      /\ levels' = PlaceInLevel(n, l)
  BY PlaceStep
<1>2. /\ n \in Names /\ DepSet(n) \subseteq Placed
      /\ l \in Nat /\ l <= Len(levels)
      /\ \A d \in DepSet(n) : lvlOf[d] < l
      /\ l > 0 => \E d \in DepSet(n) : lvlOf[d] = l - 1
  BY <1>1, LevelOfNext
<1>3. ShapeInv /\ DepthInv /\ RowsInv
  BY <1>1 DEF LevelsInv, Leveled
<1>4. levels \in Seq(Seq(Names)) /\ Len(levels) \in Nat /\ lvlOf \in [Placed -> Nat]
  BY <1>3 DEF ShapeInv
<1>5. /\ levels' \in Seq(Seq(Names)) /\ Len(levels) <= Len(levels') /\ l < Len(levels')
      /\ DOMAIN levels' = DOMAIN levels \union {l + 1}
      /\ old \in Seq(Names) /\ levels'[l + 1] = Append(old, n)
      /\ \A m \in DOMAIN levels \ {l + 1} : levels'[m] = levels[m]
  <2>. HIDE DEF n, l
  <2>1. n \in Names /\ l \in Nat /\ l <= Len(levels) /\ levels' = PlaceInLevel(n, l)
    BY <1>1, <1>2
  <2>. QED
    BY <1>4, <2>1, PlacedInLevel
<1>6. ShapeInv'
  <2>1. \A m \in Placed' : lvlOf'[m] < Len(levels')
    <3>1. \A m \in Placed : lvlOf[m] \in Nat /\ lvlOf[m] < Len(levels)
      BY <1>3, <1>4 DEF ShapeInv
    <3>2. Len(levels') \in Nat
      BY <1>5
    <3>. HIDE DEF n, l
    <3>. QED
      BY <1>1, <1>4, <1>5, <3>1, <3>2
  <2>. QED
    BY <1>1, <1>5, <2>1 DEF ShapeInv
<1>7. DepthInv'
  <2>1. ASSUME NEW m \in Placed'
        PROVE  /\ DepSet(m) \subseteq Placed'
               /\ \A d \in DepSet(m) : lvlOf'[d] < lvlOf'[m]
               /\ lvlOf'[m] > 0 => \E d \in DepSet(m) : lvlOf'[d] = lvlOf'[m] - 1
    <3>. HIDE DEF n, l
    <3>1. CASE m = n
      BY <1>1, <1>2, <3>1
    <3>2. CASE m \in Placed
      <4>1. /\ DepSet(m) \subseteq Placed
            /\ \A d \in DepSet(m) : lvlOf[d] < lvlOf[m]
            /\ lvlOf[m] > 0 => \E d \in DepSet(m) : lvlOf[d] = lvlOf[m] - 1
        BY <1>3, <3>2 DEF DepthInv
      <4>2. lvlOf'[m] = lvlOf[m] /\ \A d \in DepSet(m) : lvlOf'[d] = lvlOf[d]
        BY <1>1, <3>2, <4>1
      <4>. QED
        BY <1>1, <4>1, <4>2
    <3>. QED
      BY <1>1, <2>1, <3>1, <3>2
  <2>2. \A m : DepSet(m)' = DepSet(m)
    BY <1>1 DEF DepSet
  <2>. QED
    BY <2>1, <2>2 DEF DepthInv, DepSet
<1>8. RowsInv'
  <2>1. /\ MemberOf(old) = {m \in Placed : lvlOf[m] = l}
        /\ \A j, k \in DOMAIN old : j < k => Pos(old[j]) < Pos(old[k])
    <3>. HIDE DEF n, l
    <3>1. CASE l < Len(levels)
      <4>1. PICK at \in DOMAIN levels : at = l + 1
        BY <1>2, <1>4, <3>1
      <4>2. old = levels[at] /\ at - 1 = l
        BY <1>2, <3>1, <4>1
      <4>3. MemberOf(levels[at]) = {m \in Placed : lvlOf[m] = at - 1}
        BY <1>3, RowsAt
      <4>4. \A j, k \in DOMAIN levels[at] : j < k => Pos(levels[at][j]) < Pos(levels[at][k])
        BY <1>3, RowsAt
      <4>. HIDE DEF old
      <4>. QED
        BY <4>2, <4>3, <4>4
    <3>2. CASE ~(l < Len(levels))
      <4>1. {m \in Placed : lvlOf[m] = l} = {}
        BY <1>3, <1>4, <3>2, <1>2 DEF ShapeInv
      <4>. QED
        BY <3>2, <4>1 DEF MemberOf
    <3>. QED
      BY <3>1, <3>2
  <2>2. \A m \in Placed : Pos(m) < Pos(n)
    <3>1. Pos(n) = i /\ i \in Nat
      BY <1>1, PosIs DEF IInv, TypeOK
    <3>2. ASSUME NEW m \in Placed PROVE Pos(m) < i
      <4>1. PICK k \in 1 .. i - 1 : m = ordered[k]
        BY <1>1 DEF Placed
      <4>2. k \in DOMAIN ordered /\ k < i
        BY <1>1, <3>1 DEF IInv, TypeOK
      <4>3. Pos(m) = k
        BY <4>1, <4>2, PosIs DEF IInv
      <4>. QED
        BY <4>2, <4>3
    <3>. QED
      BY <3>1, <3>2
  <2>3. \A m : Pos(m)' = Pos(m)
    BY <1>1 DEF Pos
  <2>4. ASSUME NEW m \in DOMAIN levels'
        PROVE  /\ levels'[m] # <<>>
               /\ MemberOf(levels'[m]) = {x \in Placed' : lvlOf'[x] = m - 1}
               /\ \A j, k \in DOMAIN levels'[m] : j < k => Pos(levels'[m][j]) < Pos(levels'[m][k])
    <3>1. CASE m = l + 1
      <4>1. levels'[m] = Append(old, n) /\ m - 1 = l
        BY <1>2, <1>5, <3>1
      <4>2. MemberOf(levels'[m]) = MemberOf(old) \union {n}
        <5>1. n \in Names /\ old \in Seq(Names)
          BY <1>2, <1>5
        <5>. HIDE DEF n, old
        <5>. QED
          BY <4>1, <5>1, AppendMembers
      <4>3. {x \in Placed' : lvlOf'[x] = l} = {x \in Placed : lvlOf[x] = l} \union {n}
        <5>. HIDE DEF n, l
        <5>. QED
          BY <1>1
      <4>4. ASSUME NEW j \in DOMAIN levels'[m], NEW k \in DOMAIN levels'[m], j < k
            PROVE  Pos(levels'[m][j]) < Pos(levels'[m][k])
        <5>. HIDE DEF n, l, old
        <5>1. /\ Len(old) \in Nat /\ DOMAIN old = 1 .. Len(old)
              /\ DOMAIN levels'[m] = 1 .. Len(old) + 1
              /\ levels'[m][Len(old) + 1] = n
              /\ \A x \in 1 .. Len(old) : levels'[m][x] = old[x]
          BY <1>2, <1>5, <4>1
        <5>2. j \in DOMAIN old /\ levels'[m][j] = old[j]
          BY <4>4, <5>1
        <5>3. CASE k = Len(old) + 1
          <6>1. old[j] \in MemberOf(old)
            BY <5>2 DEF MemberOf
          <6>. QED
            BY <2>1, <2>2, <5>1, <5>2, <5>3, <6>1
        <5>4. CASE k # Len(old) + 1
          <6>1. k \in DOMAIN old /\ levels'[m][k] = old[k]
            BY <4>4, <5>1, <5>4
          <6>. QED
            BY <2>1, <4>4, <5>2, <6>1
        <5>. QED
          BY <5>3, <5>4
      <4>5. levels'[m] # <<>>
        BY <4>2 DEF MemberOf
      <4>. QED
        BY <2>1, <4>1, <4>2, <4>3, <4>4, <4>5
    <3>2. CASE m # l + 1
      <4>1. m \in DOMAIN levels /\ levels'[m] = levels[m] /\ m \in Nat
        BY <1>4, <1>5, <3>2
      <4>2. {x \in Placed' : lvlOf'[x] = m - 1} = {x \in Placed : lvlOf[x] = m - 1}
        <5>1. l # m - 1
          BY <1>2, <3>2, <4>1
        <5>. HIDE DEF n, l
        <5>. QED
          BY <1>1, <5>1
      <4>. QED
        BY <1>3, <4>1, <4>2 DEF RowsInv
    <3>. QED
      BY <3>1, <3>2
  <2>. QED
    BY <2>3, <2>4 DEF RowsInv, Pos
<1>. QED
  BY <1>6, <1>7, <1>8

\* No stage is placed when computeLevels begins.
LEMMA NonePlaced ==
  ASSUME pc' = "levels", i' = 1, lvlOf' = <<>>, levels' = <<>>
  PROVE  ShapeInv' /\ DepthInv' /\ RowsInv'
<1>1. Placed' = {}
  BY DEF Placed
<1>2. lvlOf' \in [{} -> Nat] /\ levels' \in Seq(Seq(Names)) /\ DOMAIN levels' = {}
  OBVIOUS
<1>. QED
  BY <1>1, <1>2 DEF ShapeInv, DepthInv, RowsInv

\* All stages are placed when it ends.
LEMMA AllPlaced ==
  ASSUME IInv, Place, Exhausted(ordered)
  PROVE  /\ pc = "levels" /\ pc' = "built" /\ UNCHANGED <<deps, ordered, lvlOf, levels>>
         /\ Placed' = Placed
<1>1. pc = "levels" /\ pc' = "built" /\ UNCHANGED <<deps, ordered, lvlOf, levels>>
  BY DEF Place, Goto, args, sort, wave
<1>2. 1 .. i - 1 = DOMAIN ordered
  BY <1>1 DEF IInv, TypeOK, CounterInv, Exhausted
<1>. QED
  BY <1>1, <1>2 DEF Placed, MemberOf

\* The levels are as they should be, level by level and stage by stage.
LEMMA LevelsKept == IInv /\ LevelsInv /\ [Next]_vars => LevelsInv'
<1>. SUFFICES ASSUME IInv, LevelsInv, [Next]_vars PROVE LevelsInv'
  OBVIOUS
<1>1. ASSUME pc \in {"options", "duplicates", "dependencies", "sort", "cycle"},
             pc' \in {"duplicates", "dependencies", "sort", "cycle", "failed"},
             UNCHANGED <<lvlOf, levels>>
      PROVE  LevelsInv'
  BY <1>1 DEF LevelsInv, Leveled
<1>2. CASE CheckOptions \/ CheckDuplicate \/ CheckDependencies
  <2>1. UNCHANGED <<lvlOf, levels>>
    BY <1>2 DEF CheckOptions, CheckDuplicate, CheckDependencies, wave
  <2>2. /\ pc \in {"options", "duplicates", "dependencies"}
        /\ pc' \in {"duplicates", "dependencies", "sort", "failed"}
    BY <1>2 DEF CheckOptions, CheckDuplicate, CheckDependencies, Goto, Fail
  <2>. QED
    BY <1>1, <2>1, <2>2
<1>3. CASE Visit
  BY <1>1, <1>3 DEF Visit, wave
<1>4. CASE EndPass
  <2>1. /\ pc = "sort" /\ i' = 1 /\ UNCHANGED <<mode, boundN, lvlOf, levels>>
        /\ pc' \in {IF MaxParallel = 0 THEN "built" ELSE "levels", "cycle", "sort"}
    BY <1>4, EndPassStep
  <2>2. MaxParallel' = MaxParallel /\ lvlOf' = <<>> /\ levels' = <<>>
    BY <2>1 DEF MaxParallel, LevelsInv
  <2>3. CASE pc' \in {"cycle", "sort"}
    BY <1>1, <2>1, <2>3
  <2>4. CASE pc' = "built" /\ MaxParallel = 0
    BY <2>2, <2>4 DEF LevelsInv, Leveled
  <2>5. CASE pc' = "levels" /\ MaxParallel # 0
    <3>1. ShapeInv' /\ DepthInv' /\ RowsInv'
      BY <2>1, <2>2, <2>5, NonePlaced
    <3>. QED
      BY <2>2, <2>5, <3>1 DEF LevelsInv
  <2>. QED
    BY <2>1, <2>3, <2>4, <2>5
<1>5. CASE FollowCycle
  <2>1. /\ pc = "cycle" /\ pc' \in {"cycle", "failed"} /\ UNCHANGED <<lvlOf, levels>>
    BY <1>5 DEF FollowCycle, wave, Goto, Fail
  <2>. QED
    BY <1>1, <2>1
<1>6. CASE Place
  <2>1. pc = "levels" /\ UNCHANGED <<mode, boundN>>
    BY <1>6 DEF Place, args
  <2>2. MaxParallel' = MaxParallel /\ MaxParallel # 0
    BY <2>1 DEF MaxParallel, LevelsInv
  <2>3. CASE Exhausted(ordered)
    <3>1. /\ pc = "levels" /\ pc' = "built" /\ UNCHANGED <<deps, ordered, lvlOf, levels>>
          /\ Placed' = Placed
      BY <1>6, <2>3, AllPlaced
    <3>2. ShapeInv /\ DepthInv /\ RowsInv
      BY <3>1 DEF LevelsInv, Leveled
    <3>3. \A m : DepSet(m)' = DepSet(m) /\ Pos(m)' = Pos(m)
      BY <3>1 DEF DepSet, Pos
    <3>4. ShapeInv'
      BY <3>1, <3>2 DEF ShapeInv
    <3>5. DepthInv'
      BY <3>1, <3>2, <3>3 DEF DepthInv, DepSet
    <3>6. RowsInv'
      BY <3>1, <3>2, <3>3 DEF RowsInv, Pos
    <3>. QED
      BY <2>2, <3>1, <3>4, <3>5, <3>6 DEF LevelsInv
  <2>4. CASE ~Exhausted(ordered)
    <3>1. pc' = "levels"
      BY <1>6, <2>4, PlaceStep
    <3>2. ShapeInv' /\ DepthInv' /\ RowsInv'
      BY <1>6, <2>4, PlaceKeepsLevels
    <3>. QED
      BY <2>2, <3>1, <3>2 DEF LevelsInv
  <2>. QED
    BY <2>3, <2>4
<1>7. CASE Returned \/ UNCHANGED vars
  <2>1. UNCHANGED <<deps, mode, boundN, pc, i, ordered, lvlOf, levels>>
    BY <1>7 DEF Returned, vars, args, sort, wave
  <2>2. MaxParallel' = MaxParallel /\ Placed' = Placed
    BY <2>1 DEF MaxParallel, Placed, MemberOf
  <2>3. ShapeInv' = ShapeInv
    BY <2>1, <2>2 DEF ShapeInv
  <2>4. DepthInv' = DepthInv
    BY <2>1, <2>2 DEF DepthInv, DepSet
  <2>5. RowsInv' = RowsInv
    BY <2>1, <2>2 DEF RowsInv, Pos
  <2>6. Leveled' = Leveled
    BY <2>1, <2>2 DEF Leveled
  <2>. QED
    BY <2>1, <2>2, <2>3, <2>4, <2>5, <2>6 DEF LevelsInv
<1>. QED
  BY <1>2, <1>3, <1>4, <1>5, <1>6, <1>7 DEF Next

\* What computeLevels knows at each of its steps.
THEOREM LevelsInvariant == Spec => [](IInv /\ LevelsInv)
<1>1. Init => LevelsInv
  BY DEF Init, LevelsInv, Leveled
<1>2. IInv /\ [Next]_vars => IInv'
  BY TypesKept, CounterKept, CheckedKept, SortKept, InputOrderKept, WalkKept, ErrKept DEF IInv
<1>. QED
  BY <1>1, <1>2, InitHolds, LevelsKept, PTL DEF Spec
-----------------------------------------------------------------------------
\* A stage that has been placed is in one level.
LEMMA OneLevel ==
  ASSUME ShapeInv, RowsInv, NEW n \in Placed
  PROVE  /\ lvlOf[n] \in Nat /\ lvlOf[n] + 1 \in DOMAIN levels
         /\ \A l \in DOMAIN levels : n \in MemberOf(levels[l]) <=> l = lvlOf[n] + 1
<1>1. lvlOf[n] \in Nat /\ lvlOf[n] < Len(levels) /\ levels \in Seq(Seq(Names))
  BY DEF ShapeInv
<1>2. ASSUME NEW l \in DOMAIN levels
      PROVE  n \in MemberOf(levels[l]) <=> l = lvlOf[n] + 1
  <2>1. MemberOf(levels[l]) = {m \in Placed : lvlOf[m] = l - 1} /\ l \in Nat
    BY <1>1, RowsAt
  <2>. QED
    BY <1>1, <2>1
<1>. QED
  BY <1>1, <1>2

\* What has been placed once NewPipeline has returned.
LEMMA BuiltLevels ==
  ASSUME IInv, LevelsInv, pc = "built", MaxParallel # 0
  PROVE  /\ ShapeInv /\ DepthInv /\ RowsInv
         /\ Placed = MemberOf(ordered) /\ Placed = MemberOf(stages)
<1>1. ShapeInv /\ DepthInv /\ RowsInv
  BY DEF LevelsInv, Leveled
<1>2. Placed = MemberOf(ordered)
  BY DEF Placed
<1>. QED
  BY <1>1, <1>2 DEF IInv, SortInv

\* A stage is in one level, one past the deepest of its dependencies, and a level
\* lists its stages in the run order.
THEOREM LevelsAreDepths == Spec => []ByDepth
<1>1. ASSUME IInv, LevelsInv PROVE ByDepth
  <2> DEFINE at(n) == {l \in DOMAIN levels : n \in MemberOf(levels[l])}
  <2>. SUFFICES ASSUME pc = "built", MaxParallel # 0
                PROVE  /\ \A n \in MemberOf(stages) :
                            \E l \in DOMAIN levels :
                              /\ at(n) = {l}
                              /\ \A d \in DepSet(n) : \A k \in at(d) : k < l
                              /\ l > 1 => \E d \in DepSet(n) : l - 1 \in at(d)
                       /\ \A l \in DOMAIN levels : \A j, k \in DOMAIN levels[l] :
                            j < k => FirstIndex(ordered, {levels[l][j]})
                                       < FirstIndex(ordered, {levels[l][k]})
    BY DEF ByDepth
  <2>1. ShapeInv /\ DepthInv /\ RowsInv /\ Placed = MemberOf(stages)
    BY <1>1, BuiltLevels
  <2>2. \A n \in Placed : /\ lvlOf[n] \in Nat /\ lvlOf[n] + 1 \in DOMAIN levels
                          /\ at(n) = {lvlOf[n] + 1}
    BY <2>1, OneLevel
  <2>. HIDE DEF at
  <2>3. ASSUME NEW n \in Placed
        PROVE  \E l \in DOMAIN levels :
                 /\ at(n) = {l}
                 /\ \A d \in DepSet(n) : \A k \in at(d) : k < l
                 /\ l > 1 => \E d \in DepSet(n) : l - 1 \in at(d)
    <3>1. PICK l \in DOMAIN levels : l = lvlOf[n] + 1 /\ at(n) = {l}
      BY <2>2
    <3>2. /\ DepSet(n) \subseteq Placed
          /\ \A d \in DepSet(n) : lvlOf[d] < lvlOf[n]
          /\ lvlOf[n] > 0 => \E d \in DepSet(n) : lvlOf[d] = lvlOf[n] - 1
      BY <2>1 DEF DepthInv
    <3>3. \A d \in DepSet(n) : \A k \in at(d) : k < l
      BY <2>2, <3>1, <3>2
    <3>4. l > 1 => \E d \in DepSet(n) : l - 1 \in at(d)
      BY <2>2, <3>1, <3>2
    <3>. QED
      BY <3>1, <3>3, <3>4
  <2>4. \A l \in DOMAIN levels : \A j, k \in DOMAIN levels[l] :
          j < k => Pos(levels[l][j]) < Pos(levels[l][k])
    BY <2>1 DEF RowsInv
  <2>. QED
    BY <2>1, <2>3, <2>4 DEF Pos
<1>. QED
  BY <1>1, LevelsInvariant, PTL

\* The Pipeline returned is one a run can start from: what PipelineRun assumes of the
\* pipelines it runs is what NewPipeline establishes.
THEOREM BuiltCanRun == Spec => []BuiltWellFormed
<1>1. ASSUME IInv, LevelsInv PROVE BuiltWellFormed
  <2>. SUFFICES ASSUME pc = "built" PROVE WellFormed(Built, Names)
    BY DEF BuiltWellFormed
  <2>1. /\ ordered \in Seq(Names) /\ NoRepeats(ordered) /\ Respects(ordered, DepGraph)
        /\ MaxParallel \in Int
    BY <1>1 DEF IInv, TypeOK, SortInv, MaxParallel, Modes
  <2>2. DepGraph \in [Names -> SUBSET Names] /\ \A n \in Names : DepGraph[n] = DepSet(n)
    BY <1>1, DepsAreNames DEF IInv, DepGraph
  <2>3. CASE MaxParallel = 0
    <3>1. levels = <<>>
      BY <1>1, <2>3 DEF LevelsInv
    <3>2. levels \in Seq(Seq(Names))
      BY <3>1
    <3>. QED
      BY <2>1, <2>2, <2>3, <3>2 DEF WellFormed, Built
  <2>4. CASE MaxParallel # 0
    <3>1. ShapeInv /\ DepthInv /\ RowsInv /\ Placed = MemberOf(ordered)
      BY <1>1, <2>4, BuiltLevels
    <3>2. levels \in Seq(Seq(Names)) /\ Placed \subseteq Names
      BY <2>1, <3>1, MembersIn DEF ShapeInv
    <3>3. \A l \in DOMAIN levels : MemberOf(levels[l]) = {n \in Placed : lvlOf[n] = l - 1}
      BY <3>1, RowsAt
    <3>4. ASSUME NEW l \in DOMAIN levels PROVE levels[l] # <<>> /\ NoRepeats(levels[l])
      <4>1. levels[l] \in Seq(Names)
        BY <3>2
      <4>2. \A j \in DOMAIN levels[l] : levels[l][j] \in Placed /\ j \in Nat
        BY <3>3, <4>1 DEF MemberOf
      <4>3. \A n \in Placed : Pos(n) \in Nat
        BY <1>1, <2>1, <3>1, PosIs DEF IInv, MemberOf
      <4>4. \A j, k \in DOMAIN levels[l] : j < k => Pos(levels[l][j]) < Pos(levels[l][k])
        BY <3>1, RowsAt
      <4>5. \A j, k \in DOMAIN levels[l] : j < k => levels[l][j] # levels[l][k]
        BY <4>2, <4>3, <4>4
      <4>6. levels[l] # <<>>
        BY <3>1, RowsAt
      <4>. QED
        BY <4>2, <4>5, <4>6 DEF NoRepeats
    <3>5. ASSUME NEW l \in DOMAIN levels, NEW n \in MemberOf(levels[l])
          PROVE  DepSet(n) \subseteq UNION {MemberOf(levels[m]) : m \in 1 .. l - 1}
      <4>1. n \in Placed /\ lvlOf[n] = l - 1 /\ l \in Nat
        BY <3>2, <3>3
      <4>2. ASSUME NEW d \in DepSet(n)
            PROVE  \E m \in 1 .. l - 1 : d \in MemberOf(levels[m])
        <5>1. d \in Placed /\ lvlOf[d] < lvlOf[n]
          BY <3>1, <4>1 DEF DepthInv
        <5>2. PICK m \in DOMAIN levels : m = lvlOf[d] + 1 /\ lvlOf[d] \in Nat
          BY <3>1, <5>1, OneLevel
        <5>3. d \in MemberOf(levels[m])
          BY <3>1, <5>1, <5>2, OneLevel
        <5>4. m \in 1 .. l - 1
          BY <3>2, <4>1, <5>1, <5>2
        <5>. QED
          BY <5>3, <5>4
      <4>. QED
        BY <4>2
    <3>6. \A l, m \in DOMAIN levels :
            l # m => MemberOf(levels[l]) \cap MemberOf(levels[m]) = {}
      <4>. SUFFICES ASSUME NEW l \in DOMAIN levels, NEW m \in DOMAIN levels,
                           NEW n, n \in MemberOf(levels[l]), n \in MemberOf(levels[m])
                    PROVE  l = m
        OBVIOUS
      <4>1. n \in Placed
        BY <3>3
      <4>. QED
        BY <3>1, <4>1, OneLevel
    <3>7. Placed = UNION {MemberOf(levels[l]) : l \in DOMAIN levels}
      <4>1. \A n \in Placed : \E l \in DOMAIN levels : n \in MemberOf(levels[l])
        BY <3>1, OneLevel
      <4>2. \A l \in DOMAIN levels : MemberOf(levels[l]) \subseteq Placed
        BY <3>3
      <4>. QED
        BY <4>1, <4>2
    <3>8. \A l \in DOMAIN levels : \A n \in MemberOf(levels[l]) :
            DepGraph[n] \subseteq UNION {MemberOf(levels[m]) : m \in 1 .. l - 1}
      BY <2>2, <3>2, <3>3, <3>5
    <3>9. /\ Built.ordered = ordered /\ Built.deps = DepGraph /\ Built.levels = levels
          /\ Built.maxParallel = MaxParallel
      BY DEF Built
    <3>10. MemberOf(ordered) = UNION {MemberOf(levels[l]) : l \in DOMAIN levels}
      BY <3>1, <3>7
    <3>. QED
      BY <2>1, <2>2, <3>2, <3>4, <3>6, <3>8, <3>9, <3>10 DEF WellFormed
  <2>. QED
    BY <2>3, <2>4
<1>. QED
  BY <1>1, LevelsInvariant, PTL
-----------------------------------------------------------------------------
\* The loops of topoSort against TopoOrder: after r passes that emitted something,
\* the present one has come as far as Pass does on the first i - 1 stages.
SortedAs(r) ==
  LET s == Sorting(stages, DepGraph)[r]
  IN  /\ ordered = Passing(stages, DepGraph, s)[i - 1]
      /\ r <= Len(s) /\ Len(s) <= Len(ordered)
      /\ progressed <=> Len(s) < Len(ordered)
      /\ r > 0 => Len(s) < Len(stages)

SortedInv ==
  /\ pc = "sort" => \E r \in 0 .. Len(stages) : SortedAs(r)
  /\ pc \in {"levels", "built"} => ordered = TopoOrder(stages, DepGraph)

\* The sort begins with nothing emitted.
LEMMA SortedFirst ==
  ASSUME TypeOK, ordered = <<>>, ~progressed, i = 1
  PROVE  \E r \in 0 .. Len(stages) : SortedAs(r)
<1> DEFINE st == stages
           g == DepGraph
           s == Sorting(st, g)[0]
<1>1. st \in Seq(Names) /\ Len(st) \in Nat /\ <<>> \in Seq(Names)
  BY DEF TypeOK
<1>. HIDE DEF st, g
<1>2. s = <<>>
  BY <1>1, SortLoop
<1>3. Passing(st, g, <<>>)[0] = <<>>
  <2> DEFINE start == <<>>
  <2>1. start \in Seq(Names)
    BY <1>1
  <2>. HIDE DEF start
  <2>2. Passing(st, g, start)[0] = start
    BY <1>1, <2>1, PassLoop
  <2>. QED
    BY <2>2 DEF start
<1>4. SortedAs(0)
  <2>1. Sorting(stages, DepGraph)[0] = <<>> /\ Passing(stages, DepGraph, <<>>)[0] = <<>>
    BY <1>2, <1>3 DEF st, g
  <2>2. Len(<<>>) = 0 /\ i - 1 = 0
    OBVIOUS
  <2>. QED
    BY <2>1, <2>2 DEF SortedAs
<1>5. 0 \in 0 .. Len(stages)
  BY <1>1 DEF st
<1>. QED
  BY <1>4, <1>5

\* An iteration of the pass is a step of Pass.
LEMMA SortedVisit ==
  ASSUME IInv, Visit, NEW r \in 0 .. Len(stages), SortedAs(r)
  PROVE  SortedAs(r)'
<1> DEFINE s == Sorting(stages, DepGraph)[r]
           f == Passing(stages, DepGraph, s)
           n == stages[i]
<1>1. /\ pc = "sort" /\ i \in DOMAIN stages /\ n \in Names /\ i' = i + 1
      /\ UNCHANGED <<stages, deps>>
      /\ \/ /\ Ready(n) /\ ordered' = Append(ordered, n) /\ progressed' = TRUE
         \/ ~Ready(n) /\ UNCHANGED <<ordered, progressed>>
  BY VisitStep
<1>2. DepGraph' = DepGraph
  BY <1>1 DEF DepGraph, DepSet
<1>3. stages \in Seq(Names) /\ ordered \in Seq(Names) /\ i \in 1 .. Len(stages) /\ progressed \in BOOLEAN
  BY <1>1 DEF IInv, TypeOK
<1>4. s \in Seq(Names)
  <2>1. Sorting(stages, DepGraph) \in [0 .. Len(stages) -> Seq(Names)]
    BY <1>3, SortLoop
  <2>. QED
    BY <2>1
<1>5. f[i] = PassStep(stages, DepGraph, f[i - 1], i)
  BY <1>3, <1>4, PassLoop
<1>6. ordered = f[i - 1] /\ r <= Len(s) /\ Len(s) <= Len(ordered)
      /\ (progressed <=> Len(s) < Len(ordered)) /\ (r > 0 => Len(s) < Len(stages))
  BY DEF SortedAs
<1>7. Ready(n) <=> n \notin MemberOf(ordered) /\ DepGraph[n] \subseteq MemberOf(ordered)
  BY <1>1, DepsAreNames DEF Ready, IInv, SortInv
<1>. HIDE DEF f, s
<1>8. ordered' = f[i]
  BY <1>1, <1>5, <1>6, <1>7 DEF PassStep
<1>9. Len(s) \in Nat /\ Len(ordered) \in Nat /\ Len(Append(ordered, n)) = Len(ordered) + 1
  BY <1>1, <1>3, <1>4
<1>10. Len(s) <= Len(ordered') /\ (progressed' <=> Len(s) < Len(ordered'))
  BY <1>1, <1>6, <1>9
<1>11. i' - 1 = i
  BY <1>1, <1>3
<1>12. s = Sorting(stages, DepGraph)[r] /\ f = Passing(stages, DepGraph, s)
  BY DEF s, f
<1>13. s = Sorting(stages', DepGraph')[r] /\ ordered' = Passing(stages', DepGraph', s)[i' - 1]
  BY <1>1, <1>2, <1>8, <1>11, <1>12
<1>14. r <= Len(s) /\ (r > 0 => Len(s) < Len(stages'))
  BY <1>1, <1>6
<1>. QED
  BY <1>10, <1>13, <1>14 DEF SortedAs

\* At the end of a pass that emitted something, there is what TopoOrder has after
\* one more pass; what is full then is what it ends with.
LEMMA SortedPass ==
  ASSUME IInv, pc = "sort", i = Len(stages) + 1, NEW r \in 0 .. Len(stages), SortedAs(r)
  PROVE  /\ progressed /\ r < Len(stages) =>
              ordered = Sorting(stages, DepGraph)[r + 1] /\ r < Len(ordered)
         /\ ~progressed /\ Len(ordered) = Len(stages) => r = 0
         /\ progressed /\ Len(ordered) <= Len(stages) => r < Len(stages)
<1> DEFINE s == Sorting(stages, DepGraph)[r]
           N == Len(stages)
<1>1. stages \in Seq(Names) /\ ordered \in Seq(Names) /\ N \in Nat /\ Len(ordered) \in Nat
  BY DEF IInv, TypeOK
<1>2. /\ Sorting(stages, DepGraph) \in [0 .. N -> Seq(Names)]
      /\ \A k \in 1 .. N :
           Sorting(stages, DepGraph)[k] = Pass(stages, DepGraph, Sorting(stages, DepGraph)[k - 1])
  BY <1>1, SortLoop
<1>3. s \in Seq(Names) /\ Len(s) \in Nat
  BY <1>2
<1>4. Pass(stages, DepGraph, s) = Passing(stages, DepGraph, s)[N]
  BY <1>1, <1>3, PassLoop
<1>5. ordered = Pass(stages, DepGraph, s)
  <2>1. i - 1 = N
    BY <1>1
  <2>. QED
    BY <1>4, <2>1 DEF SortedAs
<1>6. r <= Len(s) /\ (progressed <=> Len(s) < Len(ordered)) /\ Len(s) <= Len(ordered)
      /\ (r > 0 => Len(s) < N)
  BY DEF SortedAs
<1>7. ASSUME r < N PROVE Sorting(stages, DepGraph)[r + 1] = Pass(stages, DepGraph, s)
  <2>1. r + 1 \in 1 .. N /\ r + 1 - 1 = r
    BY <1>1, <1>7
  <2>. QED
    BY <1>2, <2>1
<1>. HIDE DEF s, N
<1>8. r \in Nat
  BY <1>1 DEF N
<1>. QED
  BY <1>1, <1>3, <1>5, <1>6, <1>7, <1>8 DEF N

LEMMA SortedFull ==
  ASSUME IInv, MemberOf(stages) \subseteq MemberOf(ordered), NEW r \in 0 .. Len(stages),
         ordered = Sorting(stages, DepGraph)[r]
  PROVE  ordered = TopoOrder(stages, DepGraph)
<1> DEFINE N == Len(stages)
           f == Sorting(stages, DepGraph)
           G == {m \in 0 .. N : m >= r => f[m] = ordered}
<1>1. stages \in Seq(Names) /\ ordered \in Seq(Names) /\ N \in Nat
  BY DEF IInv, TypeOK
<1>2. /\ \A k \in 1 .. N : f[k] = Pass(stages, DepGraph, f[k - 1])
      /\ TopoOrder(stages, DepGraph) = f[N] /\ f[r] = ordered
  BY <1>1, SortLoop
<1>3. Pass(stages, DepGraph, ordered) = ordered
  BY <1>1, PassFull
<1>. HIDE DEF f
<1>4. 0 \in G
  BY <1>1, <1>2
<1>5. ASSUME NEW k \in 1 .. N, k - 1 \in G PROVE k \in G
  <2>1. CASE k >= r + 1
    BY <1>1, <1>2, <1>3, <1>5, <2>1
  <2>2. CASE ~(k >= r + 1)
    BY <1>1, <1>2, <2>2
  <2>. QED
    BY <2>1, <2>2
<1>6. 0 .. N \subseteq G
  <2>. HIDE DEF G, N
  <2>. QED
    BY <1>1, <1>4, <1>5, UptoInduction
<1>7. N \in G
  BY <1>1, <1>6
<1>. QED
  BY <1>1, <1>2, <1>7

\* So topoSort's loops compute TopoOrder.
LEMMA SortedKept == IInv /\ SortedInv /\ [Next]_vars => SortedInv'
<1>. SUFFICES ASSUME IInv, SortedInv, [Next]_vars PROVE SortedInv'
  OBVIOUS
<1>0. TypeOK'
  BY TypesKept
<1>1. CASE CheckOptions \/ CheckDuplicate \/ FollowCycle
  <2>1. pc' \in {"options", "duplicates", "dependencies", "cycle", "failed"}
    BY <1>1 DEF CheckOptions, CheckDuplicate, FollowCycle, Goto, Fail
  <2>. QED
    BY <2>1 DEF SortedInv
<1>2. CASE CheckDependencies
  <2>1. pc = "dependencies" /\ pc' \in {"dependencies", "sort", "failed"} /\ (pc' = "sort" => i' = 1)
        /\ UNCHANGED <<ordered, progressed>>
    BY <1>2 DEF CheckDependencies, Goto, Fail, sort
  <2>2. ordered' = <<>> /\ ~progressed'
    BY <2>1 DEF IInv, SortInv
  <2>3. CASE pc' = "sort"
    <3>1. (TypeOK /\ ordered = <<>> /\ ~progressed /\ i = 1
            => \E r \in 0 .. Len(stages) : SortedAs(r))'
      BY SortedFirst, PTL
    <3>2. (\E r \in 0 .. Len(stages) : SortedAs(r))'
      BY <1>0, <2>1, <2>2, <2>3, <3>1
    <3>. QED
      BY <2>3, <3>2 DEF SortedInv
  <2>. QED
    BY <2>1, <2>3 DEF SortedInv
<1>3. CASE Visit
  <2>1. pc = "sort" /\ pc' = "sort" /\ UNCHANGED stages
    BY <1>3, VisitStep
  <2>2. PICK r \in 0 .. Len(stages) : SortedAs(r)
    BY <2>1 DEF SortedInv
  <2>3. SortedAs(r)' /\ r \in 0 .. Len(stages')
    BY <1>3, <2>1, <2>2, SortedVisit
  <2>. QED
    BY <2>1, <2>3 DEF SortedInv
<1>4. CASE EndPass
  <2>1. /\ pc = "sort" /\ i = Len(stages) + 1 /\ i' = 1 /\ UNCHANGED <<stages, deps, ordered, emitted>>
        /\ \/ /\ pc' \in {"built", "levels"} /\ emitted = MemberOf(stages)
              /\ Len(ordered) = Len(stages)
           \/ pc' = "cycle"
           \/ /\ pc' = "sort" /\ progressed /\ progressed' = FALSE
              /\ Len(ordered) < Len(stages)
    BY <1>4, EndPassStep
  <2>2. PICK r \in 0 .. Len(stages) : SortedAs(r)
    BY <2>1 DEF SortedInv
  <2>3. DepGraph' = DepGraph
    BY <2>1 DEF DepGraph, DepSet
  <2>4. /\ progressed /\ r < Len(stages) =>
              ordered = Sorting(stages, DepGraph)[r + 1] /\ r < Len(ordered)
        /\ ~progressed /\ Len(ordered) = Len(stages) => r = 0
        /\ progressed /\ Len(ordered) <= Len(stages) => r < Len(stages)
    BY <2>1, <2>2, SortedPass
  <2>5. /\ stages \in Seq(Names) /\ ordered \in Seq(Names) /\ Len(stages) \in Nat /\ Len(ordered) \in Nat
        /\ progressed \in BOOLEAN /\ emitted = MemberOf(ordered)
    BY DEF IInv, TypeOK, SortInv
  <2>6. CASE pc' \in {"built", "levels"} /\ emitted = MemberOf(stages) /\ Len(ordered) = Len(stages)
    <3>1. CASE progressed
      <4>1. r + 1 \in 0 .. Len(stages) /\ ordered = Sorting(stages, DepGraph)[r + 1]
        BY <2>4, <2>5, <2>6, <3>1
      <4>2. ordered = TopoOrder(stages, DepGraph)
        BY <2>5, <2>6, <4>1, SortedFull
      <4>. QED
        BY <2>1, <2>3, <2>6, <4>2 DEF SortedInv
    <3>2. CASE ~progressed
      <4>1. r = 0
        BY <2>4, <2>6, <3>2
      <4>2. Sorting(stages, DepGraph)[0] = <<>>
        BY <2>5, SortLoop
      <4>3. progressed <=> Len(<<>>) < Len(ordered)
        BY <2>2, <4>1, <4>2 DEF SortedAs
      <4>4. ordered = <<>>
        BY <2>5, <3>2, <4>3
      <4>5. 0 \in 0 .. Len(stages) /\ ordered = Sorting(stages, DepGraph)[0]
        BY <2>5, <4>2, <4>4
      <4>6. ordered = TopoOrder(stages, DepGraph)
        BY <2>5, <2>6, <4>5, SortedFull
      <4>. QED
        BY <2>1, <2>3, <2>6, <4>6 DEF SortedInv
    <3>. QED
      BY <3>1, <3>2
  <2>7. CASE pc' = "sort" /\ progressed /\ progressed' = FALSE /\ Len(ordered) < Len(stages)
    <3>1. r + 1 \in 0 .. Len(stages) /\ ordered = Sorting(stages, DepGraph)[r + 1] /\ r < Len(ordered)
      BY <2>4, <2>5, <2>7
    <3>2. Passing(stages, DepGraph, ordered)[0] = ordered
      BY <2>5, PassLoop
    <3>3. ordered' = Sorting(stages', DepGraph')[r + 1] /\ ordered' = Passing(stages', DepGraph', ordered')[i' - 1]
      BY <2>1, <2>3, <3>1, <3>2
    <3>4. r + 1 <= Len(ordered') /\ Len(ordered') <= Len(ordered') /\ (r + 1 > 0 => Len(ordered') < Len(stages'))
          /\ (progressed' <=> Len(ordered') < Len(ordered'))
      BY <2>1, <2>5, <2>7, <3>1
    <3>5. SortedAs(r + 1)'
      BY <3>3, <3>4 DEF SortedAs
    <3>6. r + 1 \in 0 .. Len(stages')
      BY <2>1, <3>1
    <3>. QED
      BY <2>7, <3>5, <3>6 DEF SortedInv
  <2>. QED
    BY <2>1, <2>6, <2>7 DEF SortedInv
<1>5. CASE Place
  <2>1. pc = "levels" /\ pc' \in {"levels", "built"} /\ UNCHANGED <<stages, deps, ordered>>
    BY <1>5 DEF Place, Goto, args, sort
  <2>2. DepGraph' = DepGraph
    BY <2>1 DEF DepGraph, DepSet
  <2>. QED
    BY <2>1, <2>2 DEF SortedInv
<1>6. CASE Returned \/ UNCHANGED vars
  <2>1. UNCHANGED <<stages, deps, ordered, progressed, pc, i>>
    BY <1>6 DEF Returned, vars, args, sort
  <2>2. DepGraph' = DepGraph
    BY <2>1 DEF DepGraph, DepSet
  <2>. QED
    BY <2>1, <2>2 DEF SortedInv, SortedAs
<1>. QED
  BY <1>1, <1>2, <1>3, <1>4, <1>5, <1>6 DEF Next

\* The levels of LevelMap are those computeLevels has found.
LEMMA MapOfLevels ==
  ASSUME IInv, LevelsInv, pc = "built", MaxParallel # 0
  PROVE  \A k \in DOMAIN ordered : LevelMap(ordered, DepGraph)[k] = lvlOf[ordered[k]] + 1
<1> DEFINE N == Len(ordered)
           lvl == LevelMap(ordered, DepGraph)
           G == {m \in 0 .. N : \A k \in 1 .. m : lvl[k] = lvlOf[ordered[k]] + 1}
<1>0. /\ ordered \in Seq(Names) /\ N \in Nat /\ DOMAIN ordered = 1 .. N
      /\ \A k \in 1 .. N : ordered[k] \in Names
      /\ NoRepeats(ordered) /\ Respects(ordered, DepGraph)
  BY DEF IInv, TypeOK, SortInv
<1>1. DepthInv /\ Placed = MemberOf(ordered) /\ \A n \in Placed : lvlOf[n] \in Nat
  BY BuiltLevels DEF ShapeInv
<1>2. /\ lvl \in [1 .. N -> Nat \ {0}]
      /\ \A k \in 1 .. N : lvl[k] = Above({lvl[j] : j \in Needed(ordered, DepGraph, k)})
  BY <1>0, LevelMapIs
<1>. HIDE DEF lvl
<1>3. 0 \in G
  BY <1>0
<1>4. ASSUME NEW m \in 1 .. N, m - 1 \in G PROVE m \in G
  <2> DEFINE n == ordered[m]
             T == {lvl[j] : j \in Needed(ordered, DepGraph, m)}
  <2>1. n \in Placed /\ n \in Names /\ lvlOf[n] \in Nat
    BY <1>0, <1>1 DEF MemberOf
  <2>2. DepGraph[n] = DepSet(n)
    BY <2>1, DepsAreNames DEF IInv
  <2>3. ASSUME NEW j \in Needed(ordered, DepGraph, m)
        PROVE  lvl[j] \in Nat /\ lvl[j] = lvlOf[ordered[j]] + 1 /\ lvl[j] < lvlOf[n] + 1
    <3>1. j \in 1 .. m - 1 /\ j \in 1 .. N /\ ordered[j] \in DepSet(n)
      BY <1>0, <2>2 DEF Needed
    <3>2. lvlOf[ordered[j]] < lvlOf[n] /\ lvlOf[ordered[j]] \in Nat
      BY <1>1, <2>1, <3>1 DEF DepthInv
    <3>3. lvl[j] = lvlOf[ordered[j]] + 1
      BY <1>4, <3>1
    <3>. QED
      BY <2>1, <3>2, <3>3
  <2>4. lvlOf[n] > 0 => lvlOf[n] \in T
    <3>. SUFFICES ASSUME lvlOf[n] > 0 PROVE lvlOf[n] \in T
      OBVIOUS
    <3>1. PICK d \in DepSet(n) : lvlOf[d] = lvlOf[n] - 1
      BY <1>1, <2>1 DEF DepthInv
    <3>2. PICK j \in 1 .. m - 1 : d = ordered[j]
      BY <1>0, <2>2 DEF Respects
    <3>3. j \in Needed(ordered, DepGraph, m)
      BY <2>2, <3>2 DEF Needed
    <3>4. lvl[j] = lvlOf[n]
      BY <2>1, <2>3, <3>1, <3>2, <3>3
    <3>. QED
      BY <3>3, <3>4
  <2>5. Above(T) = lvlOf[n] + 1
    <3> DEFINE p == lvlOf[n]
    <3>1. T \subseteq Nat /\ \A x \in T : x <= p
      BY <2>1, <2>3
    <3>2. p \in Nat /\ (p = 0 \/ p \in T)
      <4>. HIDE DEF T, n
      <4>. QED
        BY <2>1, <2>4
    <3>. HIDE DEF T, p
    <3>3. Above(T) = p + 1
      BY <3>1, <3>2, AboveOnly
    <3>. QED
      BY <3>3 DEF p
  <2>6. lvl[m] = lvlOf[ordered[m]] + 1
    BY <1>2, <2>5
  <2>7. \A k \in 1 .. m : k = m \/ k \in 1 .. m - 1
    OBVIOUS
  <2>. QED
    BY <1>4, <2>6, <2>7
<1>5. 0 .. N \subseteq G
  <2>. HIDE DEF G, N
  <2>. QED
    BY <1>0, <1>3, <1>4, UptoInduction
<1>6. N \in G
  BY <1>0, <1>5
<1>. QED
  BY <1>0, <1>6 DEF lvl

\* computeLevels computes LevelsOf.
LEMMA LevelsAsDefined ==
  ASSUME IInv, LevelsInv, pc = "built", MaxParallel # 0
  PROVE  levels = LevelsOf(ordered, DepGraph)
<1> DEFINE N == Len(ordered)
           lvl == LevelMap(ordered, DepGraph)
           h == Above(MemberOf(lvl)) - 1
<1>0. /\ ordered \in Seq(Names) /\ N \in Nat /\ DOMAIN ordered = 1 .. N /\ NoRepeats(ordered)
  BY DEF IInv, TypeOK, SortInv
<1>1. /\ ShapeInv /\ RowsInv /\ Placed = MemberOf(ordered)
      /\ levels \in Seq(Seq(Names)) /\ Len(levels) \in Nat /\ DOMAIN levels = 1 .. Len(levels)
      /\ \A n \in Placed : lvlOf[n] \in Nat /\ lvlOf[n] < Len(levels)
  BY BuiltLevels DEF ShapeInv
<1>2. lvl \in [1 .. N -> Nat \ {0}]
  BY <1>0, LevelMapIs
<1>3. \A k \in 1 .. N : lvl[k] = lvlOf[ordered[k]] + 1 /\ ordered[k] \in Placed
  BY <1>0, <1>1, MapOfLevels DEF MemberOf
<1>4. LevelsOf(ordered, DepGraph) = [l \in 1 .. h |-> Kept(ordered, AtLevel(ordered, lvl, l))]
  BY <1>0, LevelsOfIs
<1>. HIDE DEF lvl
<1>5. MemberOf(lvl) = {lvl[k] : k \in 1 .. N}
  BY <1>2 DEF MemberOf
<1>6. ASSUME NEW l \in DOMAIN levels
      PROVE  \E k \in 1 .. N : lvl[k] = l
  <2>1. /\ levels[l] # <<>> /\ MemberOf(levels[l]) = {n \in Placed : lvlOf[n] = l - 1}
        /\ levels[l] \in Seq(Names)
    BY <1>1, RowsAt
  <2>2. levels[l][1] \in MemberOf(levels[l])
    BY <2>1 DEF MemberOf
  <2>3. PICK k \in 1 .. N : levels[l][1] = ordered[k]
    BY <1>0, <1>1, <2>1, <2>2 DEF MemberOf
  <2>4. lvlOf[ordered[k]] = l - 1 /\ l \in Nat
    BY <1>1, <2>1, <2>2, <2>3
  <2>. QED
    BY <1>1, <1>3, <2>4
<1>7. h = Len(levels)
  <2> DEFINE T == MemberOf(lvl)
             p == Len(levels)
  <2>1. T \subseteq Nat /\ \A x \in T : x <= p
    <3>1. ASSUME NEW k \in 1 .. N PROVE lvl[k] \in Nat /\ lvl[k] <= p
      <4>1. lvlOf[ordered[k]] \in Nat /\ lvlOf[ordered[k]] < Len(levels)
        BY <1>1, <1>3
      <4>. QED
        BY <1>1, <1>3, <4>1
    <3>. QED
      BY <1>5, <3>1
  <2>2. p = 0 \/ p \in T
    <3>. SUFFICES ASSUME p # 0 PROVE p \in T
      BY <1>1
    <3>1. p \in DOMAIN levels
      BY <1>1
    <3>. QED
      BY <1>5, <1>6, <3>1
  <2>3. p \in Nat
    BY <1>1
  <2>4. Above(T) = p + 1
    <3>. HIDE DEF T, p
    <3>. QED
      BY <2>1, <2>2, <2>3, AboveOnly
  <2>. QED
    BY <1>1, <2>4
<1>8. ASSUME NEW l \in DOMAIN levels
      PROVE  levels[l] = Kept(ordered, AtLevel(ordered, lvl, l))
  <2> DEFINE S == AtLevel(ordered, lvl, l)
             t == Kept(ordered, S)
  <2>1. /\ MemberOf(levels[l]) = {n \in Placed : lvlOf[n] = l - 1} /\ levels[l] \in Seq(Names)
        /\ \A j, k \in DOMAIN levels[l] : j < k => Pos(levels[l][j]) < Pos(levels[l][k])
    BY <1>1, RowsAt
  <2>2. InOrderOf(ordered, levels[l])
    BY <1>1, <2>1 DEF InOrderOf, Pos
  <2>3. /\ t \in Seq(Names) /\ MemberOf(t) = MemberOf(ordered) \cap S
        /\ \A a, b \in DOMAIN t : a < b => FirstIndex(ordered, {t[a]}) < FirstIndex(ordered, {t[b]})
    <3>. HIDE DEF S
    <3>. QED
      BY <1>0, KeptIs
  <2>. HIDE DEF t
  <2>4. InOrderOf(ordered, t)
    BY <2>3 DEF InOrderOf
  <2>5. S = MemberOf(levels[l])
    <3>1. l \in Nat
      BY <1>1
    <3>2. \A k \in 1 .. N : lvl[k] = l <=> lvlOf[ordered[k]] = l - 1
      <4>. SUFFICES ASSUME NEW k \in 1 .. N
                    PROVE  lvl[k] = l <=> lvlOf[ordered[k]] = l - 1
        OBVIOUS
      <4>1. lvl[k] = lvlOf[ordered[k]] + 1 /\ lvlOf[ordered[k]] \in Nat
        BY <1>1, <1>3
      <4>. QED
        BY <3>1, <4>1
    <3>3. \A n \in Placed : \E k \in 1 .. N : n = ordered[k]
      BY <1>0, <1>1 DEF MemberOf
    <3>. QED
      BY <1>3, <2>1, <3>2, <3>3 DEF AtLevel
  <2>6. MemberOf(levels[l]) = MemberOf(t)
    BY <1>1, <2>1, <2>3, <2>5
  <2>7. levels[l] = t
    BY <1>0, <2>1, <2>2, <2>3, <2>4, <2>6, SameListing
  <2>. QED
    BY <2>7 DEF t
<1>9. levels = [l \in 1 .. Len(levels) |-> levels[l]]
  BY <1>1
<1>. QED
  BY <1>1, <1>4, <1>7, <1>8, <1>9

\* The run order and the levels of a Pipeline that NewPipeline has built are what the
\* definitions of StageGraph say, by depth, and what a run can start from.
THEOREM LevelsAreRight == Spec => []LevelsByDepth
<1>1. Init => SortedInv
  BY DEF Init, SortedInv
<1>2. Spec => []SortedInv
  BY <1>1, SortedKept, InductiveInvariant, PTL DEF Spec
<1>3. IInv /\ LevelsInv /\ SortedInv => AsDefined
  <2>. SUFFICES ASSUME IInv, LevelsInv, SortedInv, pc = "built" PROVE
         ordered = TopoOrder(stages, DepGraph) /\ (MaxParallel # 0 => levels = LevelsOf(ordered, DepGraph))
    BY DEF AsDefined
  <2>. QED
    BY LevelsAsDefined DEF SortedInv
<1>4. TypeOK /\ ByDepth /\ AsDefined /\ BuiltWellFormed => LevelsByDepth
  BY DEF LevelsByDepth
<1>. QED
  BY <1>2, <1>3, <1>4, TypeCorrect, LevelsInvariant, LevelsAreDepths, BuiltCanRun, PTL
=============================================================================
