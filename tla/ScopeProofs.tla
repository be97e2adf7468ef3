------------------------------ MODULE ScopeProofs ------------------------------
(* A Scope in memory: the caller's maps stay as they are, for every program,   *)
(* and the stages of a wave are isolated from one another.                     *)
(* Its records: Lineage and Explain answer with what can be reached, for every *)
(* graph that Derive and ForEach can record and every limit of the depth.      *)
EXTENDS ScopeHeap, Lineage, StageGraphProofs, FiniteSetTheorems

\* The walk of lookupPath: what is at each prefix of the path.
Walked(h, root, path, f) ==
  /\ DOMAIN f = 0 .. Len(path) /\ f[0] = root
  /\ \A i \in 1 .. Len(path) : f[i] = Child(h, f[i - 1], path[i])

LEMMA LookupLoop ==
  ASSUME NEW h, NEW root, NEW S, NEW path \in Seq(S)
  PROVE  \E f : Walked(h, root, path, f) /\ Lookup(h, root, path) = f[Len(path)]
<1> DEFINE n == Len(path)
           A == {root, Missing} \union UNION {{h[a][k] : k \in DOMAIN h[a]} : a \in DOMAIN h}
           down == [i \in 1 .. n |-> [v \in A |-> Child(h, v, path[i])]]
           Body(f) == [i \in 0 .. n |-> IF i = 0 THEN root ELSE Child(h, f[i - 1], path[i])]
<1>1. n \in Nat
  OBVIOUS
<1>2. PICK f : Iterated(f, n, A, root, down)
  <2>1. \A v \in A : \A k : Child(h, v, k) \in A
    BY DEF Child
  <2>2. down \in [1 .. n -> [A -> A]] /\ root \in A
    <3>1. root \in A
      OBVIOUS
    <3>. HIDE DEF A, n
    <3>2. \A i \in 1 .. n : [v \in A |-> Child(h, v, path[i])] \in [A -> A]
      BY <2>1
    <3>. QED
      BY <3>1, <3>2
  <2>. HIDE DEF down, A, n
  <2>. QED
    BY <1>1, <2>2, Iterates
<1>3. f \in [0 .. n -> A] /\ f[0] = root /\ \A i \in 1 .. n : f[i] = Child(h, f[i - 1], path[i])
  <2>. HIDE DEF A
  <2>1. f \in [0 .. n -> A] /\ f[0] = root /\ \A i \in 1 .. n : f[i] = down[i][f[i - 1]]
    BY <1>2 DEF Iterated
  <2>2. \A i \in 1 .. n : i - 1 \in 0 .. n
    BY <1>1
  <2>. QED
    BY <2>1, <2>2
<1>. HIDE DEF A, n
<1>4. f = Body(f)
  <2>1. \A i \in 0 .. n : f[i] = IF i = 0 THEN root ELSE Child(h, f[i - 1], path[i])
    <3>1. \A i \in 0 .. n : i = 0 \/ i \in 1 .. n
      BY <1>1
    <3>. QED
      BY <1>3, <3>1
  <2>2. f = [i \in 0 .. n |-> f[i]]
    BY <1>3
  <2>. QED
    BY <2>1, <2>2
<1> DEFINE g == CHOOSE x : x = Body(x)
<1>5. g = Body(g)
  BY <1>4
<1>6. Lookup(h, root, path) = g[n]
  BY DEF Lookup, n
<1>. HIDE DEF g
<1>7. DOMAIN g = 0 .. n /\ g[0] = root /\ \A i \in 1 .. n : g[i] = Child(h, g[i - 1], path[i])
  <2>1. DOMAIN g = 0 .. n /\ 0 \in 0 .. n
    BY <1>1, <1>5
  <2>2. \A i \in 0 .. n : g[i] = IF i = 0 THEN root ELSE Child(h, g[i - 1], path[i])
    BY <1>5
  <2>3. \A i \in 1 .. n : i \in 0 .. n /\ i # 0
    BY <1>1
  <2>. QED
    BY <2>1, <2>2, <2>3
<1>. QED
  BY <1>6, <1>7 DEF Walked, n

\* One segment more.
LEMMA LookupIs ==
  ASSUME NEW h, NEW root, NEW S
  PROVE  /\ Lookup(h, root, <<>>) = root
         /\ \A path \in Seq(S), k \in S :
              Lookup(h, root, Append(path, k)) = Child(h, Lookup(h, root, path), k)
<1>1. Lookup(h, root, <<>>) = root
  <2>1. <<>> \in Seq(S) /\ Len(<<>>) = 0
    OBVIOUS
  <2>2. PICK f : Walked(h, root, <<>>, f) /\ Lookup(h, root, <<>>) = f[Len(<<>>)]
    BY <2>1, LookupLoop
  <2>. QED
    BY <2>1, <2>2 DEF Walked
<1>2. ASSUME NEW path \in Seq(S), NEW k \in S
      PROVE  Lookup(h, root, Append(path, k)) = Child(h, Lookup(h, root, path), k)
  <2> DEFINE n == Len(path)
             q == Append(path, k)
  <2>1. n \in Nat /\ q \in Seq(S) /\ Len(q) = n + 1 /\ q[n + 1] = k /\ \A i \in 1 .. n : q[i] = path[i]
    BY AppendIn
  <2>2. PICK f : Walked(h, root, path, f) /\ Lookup(h, root, path) = f[n]
    BY LookupLoop
  <2>. HIDE DEF q
  <2>3. PICK g : Walked(h, root, q, g) /\ Lookup(h, root, q) = g[n + 1]
    BY <2>1, LookupLoop
  <2> DEFINE G == {i \in 0 .. n : f[i] = g[i]}
  <2>. HIDE DEF n
  <2>4. /\ f[0] = root /\ \A i \in 1 .. n : f[i] = Child(h, f[i - 1], path[i])
        /\ g[0] = root /\ \A i \in 1 .. n + 1 : g[i] = Child(h, g[i - 1], q[i])
    BY <2>1, <2>2, <2>3 DEF Walked, n
  <2>5. 0 \in G
    BY <2>1, <2>4
  <2>6. ASSUME NEW i \in 1 .. n, i - 1 \in G PROVE i \in G
    <3>1. i \in 1 .. n + 1 /\ i \in 0 .. n
      BY <2>1
    <3>. QED
      BY <2>1, <2>4, <2>6, <3>1
  <2>. HIDE DEF G
  <2>7. 0 .. n \subseteq G
    BY <2>1, <2>5, <2>6, UptoInduction
  <2>8. n \in G
    BY <2>1, <2>7
  <2>9. n + 1 \in 1 .. n + 1 /\ (n + 1) - 1 = n
    BY <2>1
  <2>10. g[n + 1] = Child(h, g[n], k)
    BY <2>1, <2>4, <2>9
  <2>. QED
    BY <2>2, <2>3, <2>8, <2>10 DEF G, q
<1>. QED
  BY <1>1, <1>2
-----------------------------------------------------------------------------
\* Who allocates maps besides the caller.
Owners == Stages \union {"scope"}

\* The caller's maps are as they were given, no other map refers to one of them,
\* and every other map is the Scope's or a stage's.
Separate(h) ==
  /\ \A a \in DOMAIN Seed : a \in DOMAIN h /\ h[a] = Seed[a]
  /\ \A a \in DOMAIN h \ DOMAIN Seed : a[1] \in Owners /\ \A k \in DOMAIN h[a] : h[a][k] \notin DOMAIN Seed

LEMMA Outside ==
  /\ Missing \notin DOMAIN Seed /\ Data \notin DOMAIN Seed
  /\ \A s \in Owners : \A k, path : <<s, k, path>> \notin DOMAIN Seed
<1>1. \A a \in DOMAIN Seed : a[1] = "caller"
  BY HeapAssumption
<1>2. "missing" # "caller" /\ "scope" # "caller" /\ Missing[1] = "missing" /\ Data[1] = "scope"
  BY DEF Missing, Data
<1>3. ASSUME NEW s \in Owners, NEW k, NEW path PROVE <<s, k, path>> \notin DOMAIN Seed
  <2>1. s # "caller"
    BY HeapAssumption DEF Owners
  <2>2. <<s, k, path>>[1] = s
    OBVIOUS
  <2>. QED
    BY <1>1, <2>1, <2>2
<1>. QED
  BY <1>1, <1>2, <1>3

\* From a map that is not the caller's no path leads to one that is.
LEMMA LookupStays ==
  ASSUME NEW h, Separate(h), NEW root, root \notin DOMAIN Seed, NEW path \in Seq(STRING)
  PROVE  Lookup(h, root, path) \notin DOMAIN Seed
<1> DEFINE n == Len(path)
<1>1. n \in Nat
  OBVIOUS
<1>2. PICK f : Walked(h, root, path, f) /\ Lookup(h, root, path) = f[n]
  BY LookupLoop
<1> DEFINE G == {i \in 0 .. n : f[i] \notin DOMAIN Seed}
<1>3. 0 \in G
  BY <1>1, <1>2 DEF Walked
<1>4. ASSUME NEW i \in 1 .. n, i - 1 \in G PROVE i \in G
  <2>1. f[i] = Child(h, f[i - 1], path[i]) /\ f[i - 1] \notin DOMAIN Seed /\ i \in 0 .. n
    BY <1>1, <1>2, <1>4 DEF Walked
  <2>2. f[i] \notin DOMAIN Seed
    BY <2>1, Outside DEF Child, Separate
  <2>. QED
    BY <2>1, <2>2
<1>5. n \in G
  <2>. HIDE DEF G, n
  <2>1. 0 .. n \subseteq G
    BY <1>1, <1>3, <1>4, UptoInduction
  <2>. QED
    BY <1>1, <2>1
<1>. QED
  BY <1>2, <1>5

\* What the caller sees in its own map is what it gave.
LEMMA CallerSees ==
  ASSUME NEW h, Separate(h), NEW path \in Seq(STRING)
  PROVE  LET v == Lookup(h, Caller, path)
         IN  v = Lookup(Seed, Caller, path) /\ (v \in DOMAIN h <=> v \in DOMAIN Seed)
<1> DEFINE n == Len(path)
           Fixed(v) == v \in DOMAIN h <=> v \in DOMAIN Seed
<1>1. n \in Nat
  OBVIOUS
<1>2. PICK f : Walked(h, Caller, path, f) /\ Lookup(h, Caller, path) = f[n]
  BY LookupLoop
<1>3. PICK g : Walked(Seed, Caller, path, g) /\ Lookup(Seed, Caller, path) = g[n]
  BY LookupLoop
<1>4. \A a \in DOMAIN h : a \in DOMAIN Seed \/ a[1] \in Owners
  BY DEF Separate
<1>5. Fixed(Missing) /\ \A a \in DOMAIN Seed : \A k \in DOMAIN Seed[a] : Fixed(Seed[a][k])
  <2>1. Missing[1] \notin Owners
    BY HeapAssumption DEF Missing, Owners
  <2>2. \A a \in DOMAIN Seed : \A k \in DOMAIN Seed[a] : Seed[a][k] \in DOMAIN Seed \/ Seed[a][k][1] \notin Owners
    BY HeapAssumption DEF Owners
  <2>. QED
    BY <1>4, <2>1, <2>2, Outside DEF Separate
<1> DEFINE G == {i \in 0 .. n : f[i] = g[i] /\ Fixed(f[i])}
<1>6. 0 \in G
  BY <1>1, <1>2, <1>3, HeapAssumption DEF Walked, Separate
<1>7. ASSUME NEW i \in 1 .. n, i - 1 \in G PROVE i \in G
  <2>1. f[i] = Child(h, f[i - 1], path[i]) /\ g[i] = Child(Seed, g[i - 1], path[i]) /\ i \in 0 .. n
    BY <1>1, <1>2, <1>3 DEF Walked
  <2>2. f[i - 1] = g[i - 1] /\ Fixed(g[i - 1])
    BY <1>7
  <2>3. f[i] = g[i]
    BY <2>1, <2>2 DEF Child, Separate
  <2>4. Fixed(g[i])
    <3>. HIDE DEF Fixed
    <3>. QED
      BY <1>5, <2>1 DEF Child
  <2>. QED
    BY <2>1, <2>3, <2>4
<1>8. n \in G
  <2>. HIDE DEF G, n
  <2>1. 0 .. n \subseteq G
    BY <1>1, <1>6, <1>7, UptoInduction
  <2>. QED
    BY <1>1, <2>1
<1>. QED
  BY <1>2, <1>3, <1>8
-----------------------------------------------------------------------------
\* Two heaps side by side.
LEMMA JoinIs ==
  ASSUME NEW f, NEW g
  PROVE  /\ DOMAIN Join(f, g) = DOMAIN f \union DOMAIN g
         /\ \A a \in DOMAIN g : Join(f, g)[a] = g[a]
         /\ \A a \in DOMAIN f : a \notin DOMAIN g => Join(f, g)[a] = f[a]
BY DEF Join

\* Maps that are a stage's or the Scope's, and do not refer to the caller's.
Foreign(nodes) ==
  \A a \in DOMAIN nodes :
    a \notin DOMAIN Seed /\ a[1] \in Owners /\ \A k \in DOMAIN nodes[a] : nodes[a][k] \notin DOMAIN Seed

LEMMA JoinKeeps ==
  ASSUME NEW h, Separate(h), NEW nodes, Foreign(nodes)
  PROVE  Separate(Join(h, nodes)) /\ DOMAIN h \subseteq DOMAIN Join(h, nodes)
<1> DEFINE j == Join(h, nodes)
<1>1. /\ DOMAIN j = DOMAIN h \union DOMAIN nodes
      /\ \A a \in DOMAIN nodes : j[a] = nodes[a]
      /\ \A a \in DOMAIN h : a \notin DOMAIN nodes => j[a] = h[a]
  BY JoinIs
<1>. HIDE DEF j
<1>2. \A a \in DOMAIN Seed : a \in DOMAIN j /\ j[a] = Seed[a]
  BY <1>1 DEF Separate, Foreign
<1>3. \A a \in DOMAIN j \ DOMAIN Seed : a[1] \in Owners /\ \A k \in DOMAIN j[a] : j[a][k] \notin DOMAIN Seed
  BY <1>1 DEF Separate, Foreign
<1>. QED
  BY <1>1, <1>2, <1>3 DEF Separate, j

\* What a copy allocates.
Copied(N, h, root, owner, maps) ==
  /\ DOMAIN N = {<<owner, 0, path>> : path \in maps}
  /\ \A path \in maps :
       LET node == h[Lookup(h, root, path)]
       IN  /\ DOMAIN N[<<owner, 0, path>>] = DOMAIN node
           /\ \A k \in DOMAIN node :
                N[<<owner, 0, path>>][k] = IF Append(path, k) \in maps THEN <<owner, 0, Append(path, k)>> ELSE node[k]

LEMMA CopyNodesIs ==
  ASSUME NEW h, NEW root, NEW owner, NEW depth
  PROVE  Copied(CopyNodes(h, root, owner, depth), h, root, owner, MapsBelow(h, root, depth))
<1> DEFINE N == CopyNodes(h, root, owner, depth)
           maps == MapsBelow(h, root, depth)
           Node(path) == [k \in DOMAIN h[Lookup(h, root, path)] |->
                            IF Append(path, k) \in maps THEN <<owner, 0, Append(path, k)>>
                            ELSE h[Lookup(h, root, path)][k]]
<1>1. N = [a \in {<<owner, 0, path>> : path \in maps} |-> Node(a[3])]
  BY DEF CopyNodes
<1>. HIDE DEF N, maps
<1>2. ASSUME NEW path \in maps PROVE N[<<owner, 0, path>>] = Node(path)
  <2> DEFINE a == <<owner, 0, path>>
  <2>1. a \in {<<owner, 0, x>> : x \in maps} /\ a[3] = path
    OBVIOUS
  <2>. HIDE DEF a, Node
  <2>. QED
    BY <1>1, <2>1 DEF a
<1>. QED
  BY <1>1, <1>2 DEF N, maps, Copied

LEMMA CopyDomain ==
  ASSUME NEW h, NEW root, NEW owner, NEW depth
  PROVE  \A path \in MapsBelow(h, root, depth) : <<owner, 0, path>> \in DOMAIN CopyNodes(h, root, owner, depth)
<1>1. DOMAIN CopyNodes(h, root, owner, depth) = {<<owner, 0, path>> : path \in MapsBelow(h, root, depth)}
  BY DEF CopyNodes
<1>. QED
  BY <1>1

LEMMA CopyIsForeign ==
  ASSUME NEW h, NEW root, NEW owner \in Owners, NEW depth,
         \A path \in MapsBelow(h, root, depth) : \A k \in DOMAIN h[Lookup(h, root, path)] :
           h[Lookup(h, root, path)][k] \in DOMAIN Seed => Append(path, k) \in MapsBelow(h, root, depth)
  PROVE  Foreign(CopyNodes(h, root, owner, depth))
<1> DEFINE N == CopyNodes(h, root, owner, depth)
           maps == MapsBelow(h, root, depth)
<1>1. Copied(N, h, root, owner, maps)
  BY CopyNodesIs
<1>. HIDE DEF N, maps
<1>2. SUFFICES ASSUME NEW path \in maps
               PROVE  LET a == <<owner, 0, path>>
                      IN  /\ a \notin DOMAIN Seed /\ a[1] \in Owners
                          /\ \A k \in DOMAIN N[a] : N[a][k] \notin DOMAIN Seed
  BY <1>1 DEF Foreign, N, Copied
<1>3. <<owner, 0, path>> \notin DOMAIN Seed /\ <<owner, 0, path>>[1] \in Owners
  BY Outside
<1>4. ASSUME NEW k \in DOMAIN N[<<owner, 0, path>>] PROVE N[<<owner, 0, path>>][k] \notin DOMAIN Seed
  <2>1. <<owner, 0, Append(path, k)>> \notin DOMAIN Seed
    BY Outside
  <2>. QED
    BY <1>1, <2>1 DEF maps, Copied
<1>. QED
  BY <1>3, <1>4

\* NewScope copies all there is of the caller's.
LEMMA NewScopeSeparates ==
  LET h == DeepCopy(Seed, Caller, "scope") IN Separate(h) /\ Data \in DOMAIN h
<1> DEFINE N == CopyNodes(Seed, Caller, "scope", CloneDepth)
           maps == MapsBelow(Seed, Caller, CloneDepth)
<1>1. Foreign(N)
  <2>1. "scope" \in Owners
    BY DEF Owners
  <2>2. CopiedWhole(Seed, Caller)
    BY HeapAssumption
  <2>. QED
    BY <2>1, <2>2, CopyIsForeign DEF CopiedWhole
<1>2. Data \in DOMAIN N
  <2>1. <<>> \in maps
    <3>1. Len(<<>>) <= CloneDepth
      BY HeapAssumption
    <3>2. Lookup(Seed, Caller, <<>>) \in DOMAIN Seed
      BY LookupIs, HeapAssumption
    <3>. QED
      BY <3>1, <3>2 DEF MapsBelow
  <2>2. \A path \in maps : <<"scope", 0, path>> \in DOMAIN N
    BY CopyDomain
  <2>. HIDE DEF N, maps
  <2>. QED
    BY <2>1, <2>2 DEF Data
<1>3. Separate(Seed)
  BY DEF Separate
<1>. HIDE DEF N
<1>4. Separate(Join(Seed, N)) /\ DOMAIN Join(Seed, N) = DOMAIN Seed \union DOMAIN N
  BY <1>1, <1>3, JoinKeeps, JoinIs
<1>. QED
  BY <1>2, <1>4 DEF DeepCopy, Copy, N

\* So does a Snapshot, deep or not: what the Scope holds is not the caller's.
LEMMA SnapshotSeparates ==
  ASSUME NEW h, Separate(h), Data \in DOMAIN h, NEW s \in Stages, NEW conc
  PROVE  LET g == Snapshot(h, s, conc)
         IN  Separate(g) /\ DOMAIN h \subseteq DOMAIN g /\ Env(s) \in DOMAIN g
<1>1. ASSUME NEW depth \in Nat
      PROVE  LET g == Join(h, CopyNodes(h, Data, s, depth))
             IN  Separate(g) /\ DOMAIN h \subseteq DOMAIN g /\ Env(s) \in DOMAIN g
  <2> DEFINE N == CopyNodes(h, Data, s, depth)
             maps == MapsBelow(h, Data, depth)
  <2>1. Foreign(N)
    <3>1. \A path \in maps : Lookup(h, Data, path) \notin DOMAIN Seed /\ Lookup(h, Data, path) \in DOMAIN h
      <4>1. ASSUME NEW path \in maps PROVE path \in Seq(STRING)
        <5>1. <<>> \in Seq(STRING)
          OBVIOUS
        <5>. QED
          BY <5>1, HeapAssumption DEF MapsBelow
      <4>. QED
        BY <4>1, LookupStays, Outside DEF MapsBelow
    <3>2. \A path \in maps : \A k \in DOMAIN h[Lookup(h, Data, path)] : h[Lookup(h, Data, path)][k] \notin DOMAIN Seed
      BY <3>1 DEF Separate
    <3>3. s \in Owners
      BY DEF Owners
    <3>. QED
      BY <3>2, <3>3, CopyIsForeign
  <2>2. Env(s) \in DOMAIN N
    <3>1. <<>> \in maps
      <4>1. Len(<<>>) <= depth
        OBVIOUS
      <4>. QED
        BY <4>1, LookupIs DEF MapsBelow
    <3>2. \A path \in maps : <<s, 0, path>> \in DOMAIN N
      BY CopyDomain
    <3>. HIDE DEF N, maps
    <3>. QED
      BY <3>1, <3>2 DEF Env
  <2>. HIDE DEF N
  <2>3. Separate(Join(h, N)) /\ DOMAIN Join(h, N) = DOMAIN h \union DOMAIN N
    BY <2>1, JoinKeeps, JoinIs
  <2>. QED
    BY <2>2, <2>3 DEF N
<1>2. CloneDepth \in Nat /\ 0 \in Nat
  BY HeapAssumption
<1>. QED
  BY <1>1, <1>2 DEF Snapshot, DeepCopy, Copy
-----------------------------------------------------------------------------
\* One entry of a map is set.
LEMMA PutKeeps ==
  ASSUME NEW h, Separate(h), NEW a \in DOMAIN h \ DOMAIN Seed, NEW key, NEW v, v \notin DOMAIN Seed
  PROVE  Separate(Put(h, a, key, v)) /\ DOMAIN Put(h, a, key, v) = DOMAIN h
<1> DEFINE g == Put(h, a, key, v)
           node == Join(h[a], Entry(key, v))
<1>1. \A k \in DOMAIN node : node[k] \notin DOMAIN Seed
  <2>1. \A k \in DOMAIN h[a] : h[a][k] \notin DOMAIN Seed
    BY DEF Separate
  <2>2. DOMAIN Entry(key, v) = {key} /\ Entry(key, v)[key] = v
    BY DEF Entry
  <2>. QED
    BY <2>1, <2>2 DEF Join
<1>. HIDE DEF node
<1>2. DOMAIN g = DOMAIN h /\ g[a] = node /\ \A b \in DOMAIN h : b # a => g[b] = h[b]
  BY DEF Put, node
<1>. HIDE DEF g
<1>3. Separate(g)
  BY <1>1, <1>2 DEF Separate
<1>. QED
  BY <1>2, <1>3 DEF g

\* Where the walk of setPath is: at a map that is not the caller's.
Walking(h, w) ==
  /\ w = [h |-> w.h, at |-> w.at, err |-> w.err]
  /\ Separate(w.h) /\ DOMAIN h \subseteq DOMAIN w.h
  /\ w.at \in DOMAIN w.h \ DOMAIN Seed

LEMMA DescendKeeps ==
  ASSUME NEW h, NEW w, Walking(h, w), NEW key, NEW owner \in Stages, NEW k, NEW path
  PROVE  Walking(h, Descend(w, key, <<owner, k, path>>))
<1> DEFINE new == <<owner, k, path>>
           d == Descend(w, key, new)
           g == Join(w.h, Entry(new, <<>>))
<1>1. \A e : [w EXCEPT !.err = e] = [h |-> w.h, at |-> w.at, err |-> e]
  BY DEF Walking
<1>2. \A a : [w EXCEPT !.at = a] = [h |-> w.h, at |-> a, err |-> w.err]
  BY DEF Walking
<1>4. new \notin DOMAIN Seed /\ new[1] \in Owners
  BY Outside DEF Owners
<1>5. \A e : Walking(h, [h |-> w.h, at |-> w.at, err |-> e])
  BY DEF Walking
<1>. HIDE DEF new
<1>6. CASE w.err # "nil"
  <2>1. d = w
    BY <1>6 DEF Descend
  <2>. QED
    BY <2>1 DEF new
<1>7. CASE w.err = "nil" /\ key = NoSegment
  <2>1. d = [w EXCEPT !.err = "EmptyPathSegment"]
    BY <1>7 DEF Descend
  <2>. QED
    BY <1>1, <1>5, <2>1 DEF new
<1>8. CASE w.err = "nil" /\ key # NoSegment /\ Absent(w.h, w.at, key)
  <2>1. d = [h |-> Put(g, w.at, key, new), at |-> new, err |-> "nil"]
    BY <1>8 DEF Descend
  <2>2. DOMAIN Entry(new, <<>>) = {new} /\ Entry(new, <<>>)[new] = <<>> /\ DOMAIN <<>> = {}
    BY DEF Entry
  <2>3. Foreign(Entry(new, <<>>))
    BY <1>4, <2>2 DEF Foreign
  <2>4. Separate(g) /\ DOMAIN w.h \subseteq DOMAIN g /\ new \in DOMAIN g
    <3>1. DOMAIN g = DOMAIN w.h \union {new}
      BY <2>2 DEF Join
    <3>. QED
      BY <2>3, <3>1, JoinKeeps DEF Walking
  <2>. HIDE DEF g
  <2>5. w.at \in DOMAIN g \ DOMAIN Seed
    BY <2>4 DEF Walking
  <2>6. Separate(Put(g, w.at, key, new)) /\ DOMAIN Put(g, w.at, key, new) = DOMAIN g
    BY <1>4, <2>4, <2>5, PutKeeps
  <2>. HIDE DEF d
  <2>8. DOMAIN h \subseteq DOMAIN g
    BY <2>4 DEF Walking
  <2>9. Walking(h, d)
    BY <1>4, <2>1, <2>4, <2>6, <2>8 DEF Walking
  <2>. QED
    BY <2>9 DEF d, new
<1>9. CASE w.err = "nil" /\ key # NoSegment /\ ~Absent(w.h, w.at, key)
  <2> DEFINE v == w.h[w.at][key]
  <2>1. d = IF v \in DOMAIN w.h THEN [w EXCEPT !.at = v] ELSE [w EXCEPT !.err = "PathNotMap"]
    BY <1>9 DEF Descend
  <2>2. v \notin DOMAIN Seed
    BY <1>9 DEF Walking, Separate, Absent
  <2>. HIDE DEF v, d
  <2>3. v \in DOMAIN w.h => Walking(h, [h |-> w.h, at |-> v, err |-> w.err])
    BY <2>2 DEF Walking
  <2>4. Walking(h, d)
    BY <1>1, <1>2, <1>5, <2>1, <2>3
  <2>. QED
    BY <2>4 DEF d, new
<1>. QED
  BY <1>6, <1>7, <1>8, <1>9

\* The walk segment by segment.
LEMMA ReachedLoop ==
  ASSUME NEW h, NEW path, Len(path) - 1 \in Nat, NEW owner, NEW k
  PROVE  LET n == Len(path) - 1
         IN  \E f : /\ f[0] = [h |-> h, at |-> Data, err |-> "nil"] /\ Reached(h, path, owner, k) = f[n]
                    /\ \A i \in 1 .. n : f[i] = Descend(f[i - 1], path[i], <<owner, k, SubSeq(path, 1, i)>>)
<1> DEFINE n == Len(path) - 1
           start == [h |-> h, at |-> Data, err |-> "nil"]
           Next1(w, i) == Descend(w, path[i], <<owner, k, SubSeq(path, 1, i)>>)
           Body(f, m) == [i \in 0 .. m |-> IF i = 0 THEN start ELSE Next1(f[i - 1], i)]
           R == {m \in 0 .. n : \E f : f = Body(f, m)}
<1>1. Reached(h, path, owner, k) = (CHOOSE f : f = Body(f, n))[n]
  BY DEF Reached
<1>. HIDE DEF n, start, Next1
<1>2. 0 \in R
  <2> DEFINE f == [i \in 0 .. 0 |-> start]
  <2>1. f = Body(f, 0)
    OBVIOUS
  <2>. HIDE DEF f
  <2>. QED
    BY <2>1 DEF n
<1>3. ASSUME NEW m \in 1 .. n, m - 1 \in R PROVE m \in R
  <2>1. PICK f : f = Body(f, m - 1)
    BY <1>3
  <2>2. DOMAIN f = 0 .. m - 1 /\ \A i \in 0 .. m - 1 : f[i] = IF i = 0 THEN start ELSE Next1(f[i - 1], i)
    BY <2>1
  <2> DEFINE g == [i \in 0 .. m |-> IF i < m THEN f[i] ELSE Next1(f[m - 1], m)]
  <2>3. \A i \in 0 .. m : g[i] = IF i = 0 THEN start ELSE Next1(g[i - 1], i)
    <3>. SUFFICES ASSUME NEW i \in 0 .. m PROVE g[i] = IF i = 0 THEN start ELSE Next1(g[i - 1], i)
      OBVIOUS
    <3>1. i = m \/ i \in 0 .. m - 1
      OBVIOUS
    <3>2. m # 0 /\ m - 1 \in 0 .. m /\ m - 1 < m
      OBVIOUS
    <3>3. CASE i = m
      BY <3>2, <3>3
    <3>4. CASE i \in 0 .. m - 1
      <4>1. g[i] = f[i]
        BY <3>4
      <4>2. i # 0 => g[i - 1] = f[i - 1]
        BY <3>4
      <4>. QED
        BY <2>2, <3>4, <4>1, <4>2
    <3>. QED
      BY <3>1, <3>3, <3>4
  <2>4. g = [i \in 0 .. m |-> g[i]]
    OBVIOUS
  <2>. HIDE DEF g
  <2>5. g = Body(g, m)
    BY <2>3, <2>4
  <2>6. \E x : x = Body(x, m)
    BY <2>5
  <2>. QED
    BY <2>6
<1>4. n \in R
  <2>. HIDE DEF R
  <2>1. n \in Nat
    BY DEF n
  <2>2. 0 .. n \subseteq R
    BY <1>2, <1>3, <2>1, UptoInduction
  <2>. QED
    BY <2>1, <2>2
<1> DEFINE f == CHOOSE x : x = Body(x, n)
<1>5. f = Body(f, n)
  BY <1>4
<1>. HIDE DEF f
<1>6. \A i \in 0 .. n : f[i] = IF i = 0 THEN start ELSE Next1(f[i - 1], i)
  BY <1>5
<1>7. f[0] = start /\ Reached(h, path, owner, k) = f[n] /\ \A i \in 1 .. n : f[i] = Next1(f[i - 1], i)
  <2>1. n \in Nat /\ 0 \in 0 .. n /\ \A i \in 1 .. n : i \in 0 .. n /\ i # 0
    BY DEF n
  <2>. QED
    BY <1>1, <1>6, <2>1 DEF f
<1>. QED
  BY <1>7 DEF n, start, Next1

\* The walk as far as it goes.
LEMMA ReachedKeeps ==
  ASSUME NEW h, Separate(h), Data \in DOMAIN h, NEW path, Len(path) - 1 \in Nat, NEW owner \in Stages, NEW k
  PROVE  Walking(h, Reached(h, path, owner, k))
<1> DEFINE n == Len(path) - 1
<1>1. PICK f : /\ f[0] = [h |-> h, at |-> Data, err |-> "nil"] /\ Reached(h, path, owner, k) = f[n]
               /\ \A i \in 1 .. n : f[i] = Descend(f[i - 1], path[i], <<owner, k, SubSeq(path, 1, i)>>)
  BY ReachedLoop
<1> DEFINE G == {i \in 0 .. n : Walking(h, f[i])}
<1>. HIDE DEF n
<1>2. n \in Nat
  BY DEF n
<1>3. 0 \in G
  <2>1. Walking(h, [h |-> h, at |-> Data, err |-> "nil"])
    BY Outside DEF Walking
  <2>. QED
    BY <1>1, <1>2, <2>1
<1>4. ASSUME NEW i \in 1 .. n, i - 1 \in G PROVE i \in G
  <2>1. Walking(h, f[i - 1]) /\ i \in 0 .. n
    BY <1>2, <1>4
  <2>2. Walking(h, Descend(f[i - 1], path[i], <<owner, k, SubSeq(path, 1, i)>>))
    BY <2>1, DescendKeeps
  <2>. QED
    BY <1>1, <2>1, <2>2
<1>5. n \in G
  <2>. HIDE DEF G
  <2>1. 0 .. n \subseteq G
    BY <1>2, <1>3, <1>4, UptoInduction
  <2>. QED
    BY <1>2, <2>1
<1>. QED
  BY <1>1, <1>5

LEMMA SetPathKeeps ==
  ASSUME NEW h, Separate(h), Data \in DOMAIN h, NEW path \in Seq(STRING), path # <<>>,
         NEW v, v \notin DOMAIN Seed, NEW owner \in Stages, NEW k
  PROVE  LET g == SetPath(h, path, v, owner, k).h IN Separate(g) /\ DOMAIN h \subseteq DOMAIN g
<1> DEFINE w == Reached(h, path, owner, k)
           leaf == path[Len(path)]
           g == SetPath(h, path, v, owner, k).h
<1>1. Len(path) - 1 \in Nat
  OBVIOUS
<1>2. Walking(h, w)
  BY <1>1, ReachedKeeps
<1>. HIDE DEF w, leaf
<1>3. \A e : [w EXCEPT !.err = e].h = w.h
  BY <1>2 DEF Walking
<1>4. \A x : [w EXCEPT !.h = x].h = x
  BY <1>2 DEF Walking
<1>5. g = w.h \/ g = Put(w.h, w.at, leaf, v)
  <2>1. CASE w.err # "nil"
    BY <2>1 DEF SetPath, w
  <2>2. CASE w.err = "nil" /\ leaf = NoSegment
    BY <1>3, <2>2 DEF SetPath, w, leaf
  <2>3. CASE w.err = "nil" /\ leaf # NoSegment /\ Conflict(w.h, w.at, leaf)
    BY <1>3, <2>3 DEF SetPath, w, leaf
  <2>4. CASE w.err = "nil" /\ leaf # NoSegment /\ ~Conflict(w.h, w.at, leaf)
    BY <1>4, <2>4 DEF SetPath, w, leaf
  <2>. QED
    BY <2>1, <2>2, <2>3, <2>4
<1>6. /\ Separate(w.h) /\ DOMAIN h \subseteq DOMAIN w.h
      /\ Separate(Put(w.h, w.at, leaf, v)) /\ DOMAIN Put(w.h, w.at, leaf, v) = DOMAIN w.h
  BY <1>2, PutKeeps DEF Walking
<1>. HIDE DEF g
<1>. QED
  BY <1>5, <1>6 DEF g
-----------------------------------------------------------------------------
Places == {"idle", "eval", "write", "record", "done", "failed"}

\* The maps of the caller stay apart: no stage holds one, and the Scope's and the
\* stages' maps refer to none.
ScopeInv ==
  /\ prog \in Programs /\ at \in [Stages -> Places]
  /\ DOMAIN step = Stages /\ \A s \in Stages : step[s] \in DOMAIN Script(s)
  /\ DOMAIN val = Stages /\ \A s \in Stages : val[s] \notin DOMAIN Seed
  /\ Separate(heap) /\ Data \in DOMAIN heap
  /\ \A s \in Stages : at[s] # "idle" => Env(s) \in DOMAIN heap

LEMMA ScriptIs ==
  ASSUME prog \in Programs, NEW s \in Stages
  PROVE  /\ DOMAIN Script(s) = 1 .. Len(Script(s)) /\ Len(Script(s)) \in Nat /\ 1 \in DOMAIN Script(s)
         /\ \A k \in DOMAIN Script(s) :
              Script(s)[k].to \in Seq(STRING) /\ Script(s)[k].to # <<>> /\ Script(s)[k].from \in Seq(STRING)
<1>1. IsScript(Script(s))
  BY HeapAssumption DEF Script
<1> DEFINE c == Script(s)
           S == {c[k] : k \in DOMAIN c}
<1>2. c \in Seq(S) /\ c # <<>>
  BY <1>1 DEF IsScript
<1>3. \A k \in DOMAIN c : c[k].to \in Seq(STRING) /\ c[k].to # <<>> /\ c[k].from \in Seq(STRING)
  BY <1>1 DEF IsScript
<1>. HIDE DEF c, S
<1>4. DOMAIN c = 1 .. Len(c) /\ Len(c) \in Nat
  BY <1>2
<1>5. 1 \in DOMAIN c
  BY <1>2, <1>4
<1>. QED
  BY <1>3, <1>4, <1>5 DEF c

LEMMA ScopeStarts == HeapInit => ScopeInv
<1>. SUFFICES ASSUME HeapInit PROVE ScopeInv
  OBVIOUS
<1>1. Separate(heap) /\ Data \in DOMAIN heap
  BY NewScopeSeparates DEF HeapInit
<1>2. \A s \in Stages : 1 \in DOMAIN Script(s)
  BY ScriptIs DEF HeapInit
<1>3. prog \in Programs /\ at = [s \in Stages |-> "idle"] /\ step = [s \in Stages |-> 1] /\ val = [s \in Stages |-> Missing]
  BY DEF HeapInit
<1>. QED
  BY <1>1, <1>2, <1>3, Outside DEF ScopeInv, Places

LEMMA StartKeeps == \A k \in DOMAIN Stage : ScopeInv /\ Start(k) => ScopeInv'
<1>. SUFFICES ASSUME NEW k \in DOMAIN Stage, ScopeInv, Start(k) PROVE ScopeInv'
  OBVIOUS
<1> DEFINE s == Stage[k]
<1>1. s \in Stages
  BY DEF Stages
<1>2. heap' = Snapshot(heap, s, prog.conc) /\ at' = [at EXCEPT ![s] = "eval"] /\ UNCHANGED <<prog, step, val>>
  BY DEF Start
<1>. HIDE DEF s
<1>3. Separate(heap') /\ DOMAIN heap \subseteq DOMAIN heap' /\ Env(s) \in DOMAIN heap'
  BY <1>1, <1>2, SnapshotSeparates DEF ScopeInv
<1>. QED
  BY <1>1, <1>2, <1>3 DEF ScopeInv, Places, Script

LEMMA EvaluateKeeps == \A s \in Stages : ScopeInv /\ Evaluate(s) => ScopeInv'
<1>. SUFFICES ASSUME NEW s \in Stages, ScopeInv, Evaluate(s) PROVE ScopeInv'
  OBVIOUS
<1> DEFINE v == Value(heap, s, step[s], prog.script)
<1>1. val' = [val EXCEPT ![s] = v] /\ at' = [at EXCEPT ![s] = "write"] /\ UNCHANGED <<prog, heap, step>> /\ at[s] = "eval"
  BY DEF Evaluate
<1>2. v \notin DOMAIN Seed
  <2> DEFINE read == Script(s)[step[s]].from
  <2>1. read \in Seq(STRING)
    BY ScriptIs DEF ScopeInv
  <2>2. v = IF read = None THEN <<s, step[s], <<>>>> ELSE Lookup(heap, Env(s), read)
    BY DEF Value, Script
  <2>. HIDE DEF read, v
  <2>3. <<s, step[s], <<>>>> \notin DOMAIN Seed /\ Env(s) \notin DOMAIN Seed
    BY Outside DEF Owners, Env
  <2>4. Lookup(heap, Env(s), read) \notin DOMAIN Seed
    BY <2>1, <2>3, LookupStays DEF ScopeInv
  <2>. QED
    BY <2>2, <2>3, <2>4
<1>. HIDE DEF v
<1>. QED
  BY <1>1, <1>2 DEF ScopeInv, Places, Script

LEMMA WriteKeeps == \A s \in Stages : ScopeInv /\ Write(s) => ScopeInv'
<1>. SUFFICES ASSUME NEW s \in Stages, ScopeInv, Write(s) PROVE ScopeInv'
  OBVIOUS
<1> DEFINE w == SetPath(heap, Output(s).to, val[s], s, step[s])
<1>1. heap' = w.h /\ at' = [at EXCEPT ![s] = AfterSet(w.err)] /\ UNCHANGED <<prog, step, val>> /\ at[s] = "write"
  BY DEF Write
<1>2. Separate(w.h) /\ DOMAIN heap \subseteq DOMAIN w.h
  <2>1. Output(s).to \in Seq(STRING) /\ Output(s).to # <<>>
    BY ScriptIs DEF ScopeInv, Output
  <2>. QED
    BY <2>1, SetPathKeeps DEF ScopeInv
<1>. HIDE DEF w
<1>3. AfterSet(w.err) \in Places
  BY DEF AfterSet, Places
<1>. QED
  BY <1>1, <1>2, <1>3 DEF ScopeInv, Script

LEMMA RecordKeeps == \A s \in Stages : ScopeInv /\ Record(s) => ScopeInv'
<1>. SUFFICES ASSUME NEW s \in Stages, ScopeInv, Record(s) PROVE ScopeInv'
  OBVIOUS
<1>1. UNCHANGED <<prog, heap, val>> /\ at[s] = "record"
  BY DEF Record
<1>2. CASE LastOutput(s)
  <2>1. at' = [at EXCEPT ![s] = "done"] /\ UNCHANGED step
    BY <1>2 DEF Record
  <2>. QED
    BY <1>1, <2>1 DEF ScopeInv, Places, Script
<1>3. CASE ~LastOutput(s)
  <2>1. at' = [at EXCEPT ![s] = "eval"] /\ step' = [step EXCEPT ![s] = @ + 1]
    BY <1>3 DEF Record
  <2>2. step[s] + 1 \in DOMAIN Script(s)
    BY <1>3, ScriptIs DEF ScopeInv, LastOutput
  <2>. QED
    BY <1>1, <2>1, <2>2 DEF ScopeInv, Places, Script
<1>. QED
  BY <1>2, <1>3

LEMMA ScopeInvariant == HeapSpec => []ScopeInv
<1>1. ScopeInv /\ UNCHANGED heapVars => ScopeInv'
  BY DEF ScopeInv, heapVars, Script
<1>2. ScopeInv /\ [HeapNext]_heapVars => ScopeInv'
  BY <1>1, StartKeeps, EvaluateKeeps, WriteKeeps, RecordKeeps DEF HeapNext, Finished
<1>. QED
  BY <1>2, ScopeStarts, PTL DEF HeapSpec

\* The maps that the caller passed to NewScope are never written, whatever stages
\* take out of the Scope, store and write below (NewScope's copy, scope.go).
THEOREM CallersMapsStay == HeapSpec => []CallerUntouched
<1>1. ScopeInv => CallerUntouched
  <2>. SUFFICES ASSUME ScopeInv PROVE CallerUntouched
    OBVIOUS
  <2>1. HeapTypeOK
    <3>1. Caller \in DOMAIN heap /\ Data \in DOMAIN heap
      BY HeapAssumption DEF ScopeInv, Separate
    <3>. QED
      BY <3>1 DEF ScopeInv, HeapTypeOK, Places
  <2>2. ASSUME NEW path \in Paths
        PROVE  /\ Lookup(heap, Caller, path) = Lookup(Seed, Caller, path)
               /\ Lookup(heap, Caller, path) \in DOMAIN heap <=> Lookup(heap, Caller, path) \in DOMAIN Seed
    BY HeapAssumption, CallerSees DEF ScopeInv
  <2>3. View(heap, Caller) = View(Seed, Caller)
    BY <2>2 DEF View
  <2>. QED
    BY <2>1, <2>3 DEF CallerUntouched
<1>. QED
  BY <1>1, ScopeInvariant, PTL
-----------------------------------------------------------------------------
\* The names are listed, so there are finitely many of them.
LEMMA NamesFinite == IsFiniteSet(Names)
<1>1. Order \in Seq(Names) /\ NoRepeats(Order)
  BY LineageAssumption
<1>2. DOMAIN Order = 1 .. Len(Order) /\ Len(Order) \in Nat
  BY <1>1
<1>3. IsFiniteSet(1 .. Len(Order))
  BY <1>2, FS_Interval
<1> DEFINE f == [k \in 1 .. Len(Order) |-> Order[k]]
<1>4. f \in Surjection(1 .. Len(Order), Names)
  BY <1>1, <1>2 DEF Surjection, Names, MemberOf
<1>. HIDE DEF f
<1>. QED
  BY <1>3, <1>4, FS_Surjection

\* sort.Strings loses nothing.
LEMMA SortedIs ==
  ASSUME NEW T \in SUBSET Names
  PROVE  Sorted(T) \in Seq(Names) /\ MemberOf(Sorted(T)) = T
<1>1. Order \in Seq(Names) /\ MemberOf(Order) = Names
  BY LineageAssumption DEF Names
<1>2. Kept(Order, T) \in Seq(Names) /\ MemberOf(Kept(Order, T)) = MemberOf(Order) \cap T
  BY <1>1, KeptIn
<1>. QED
  BY <1>1, <1>2 DEF Sorted

\* A name stands for derivations that are recorded.
LEMMA DerivationsAreRecords ==
  ASSUME NEW g, NEW key
  PROVE  DerivationsFor(g, key) \subseteq DOMAIN g
BY DEF DerivationsFor, Under, Nearer

LEMMA NeedsAreRecords ==
  ASSUME NEW g, NEW p
  PROVE  Needs(g, p) \subseteq DOMAIN g
BY DerivationsAreRecords DEF Needs
-----------------------------------------------------------------------------
\* What is within i steps of a set.
Wider(next, T) == T \union UNION {next[p] : p \in T}

Widened(f, D, next, start, n) ==
  /\ DOMAIN f = 0 .. n /\ f[0] = start
  /\ \A i \in 1 .. n : f[i] = Wider(next, f[i - 1])
  /\ f[n] = Closure(start, next, n)
  /\ \A i \in 0 .. n : f[i] \subseteq D

LEMMA ClosureLoop ==
  ASSUME NEW D, NEW next \in [D -> SUBSET D], NEW start \in SUBSET D, NEW n \in Nat
  PROVE  \E f : Widened(f, D, next, start, n)
<1> DEFINE A == SUBSET D
           grow == [i \in 1 .. n |-> [T \in A |-> Wider(next, T)]]
           Body(f) == [i \in 0 .. n |->
                         IF i = 0 THEN start ELSE f[i - 1] \union UNION {next[p] : p \in f[i - 1]}]
<1>1. \A T \in A : Wider(next, T) \in A
  BY DEF Wider
<1>2. grow \in [1 .. n -> [A -> A]] /\ start \in A
  <2>1. \A i \in 1 .. n : [T \in A |-> Wider(next, T)] \in [A -> A]
    <3>. HIDE DEF A
    <3>. QED
      BY <1>1
  <2>2. start \in A
    OBVIOUS
  <2>. HIDE DEF A
  <2>. QED
    BY <2>1, <2>2
<1>3. PICK f : Iterated(f, n, A, start, grow)
  <2>. HIDE DEF A, grow
  <2>. QED
    BY <1>2, Iterates
<1>4. f \in [0 .. n -> A] /\ f[0] = start /\ \A i \in 1 .. n : f[i] = Wider(next, f[i - 1])
  <2>. HIDE DEF A
  <2>1. f \in [0 .. n -> A] /\ f[0] = start /\ \A i \in 1 .. n : f[i] = grow[i][f[i - 1]]
    BY <1>3 DEF Iterated
  <2>2. \A i \in 1 .. n : i - 1 \in 0 .. n
    OBVIOUS
  <2>. QED
    BY <2>1, <2>2
<1>5. f = Body(f)
  <2>1. \A i \in 0 .. n : f[i] = IF i = 0 THEN start ELSE f[i - 1] \union UNION {next[p] : p \in f[i - 1]}
    <3>1. \A i \in 0 .. n : i = 0 \/ i \in 1 .. n
      OBVIOUS
    <3>. QED
      BY <1>4, <3>1 DEF Wider
  <2>2. f = [i \in 0 .. n |-> f[i]]
    BY <1>4
  <2>. QED
    BY <2>1, <2>2
<1> DEFINE g == CHOOSE x : x = Body(x)
<1>6. g = Body(g)
  BY <1>5
<1>7. Closure(start, next, n) = g[n]
  BY DEF Closure
<1>. HIDE DEF g
<1>8. DOMAIN g = 0 .. n /\ g[0] = start /\ \A i \in 1 .. n : g[i] = Wider(next, g[i - 1])
  <2>1. DOMAIN g = 0 .. n /\ 0 \in 0 .. n
    BY <1>6
  <2>2. \A i \in 0 .. n : g[i] = IF i = 0 THEN start ELSE g[i - 1] \union UNION {next[p] : p \in g[i - 1]}
    BY <1>6
  <2>3. \A i \in 1 .. n : i \in 0 .. n /\ i # 0
    OBVIOUS
  <2>. QED
    BY <2>1, <2>2, <2>3 DEF Wider
<1>9. \A i \in 0 .. n : g[i] \subseteq D
  <2> DEFINE G == {i \in 0 .. n : g[i] \in A}
  <2>1. 0 \in G
    BY <1>8
  <2>2. ASSUME NEW i \in 1 .. n, i - 1 \in G PROVE i \in G
    BY <1>1, <1>8, <2>2
  <2>. HIDE DEF G
  <2>3. 0 .. n \subseteq G
    BY <2>1, <2>2, UptoInduction
  <2>. QED
    BY <2>3 DEF G
<1>. QED
  BY <1>7, <1>8, <1>9 DEF Widened

\* A set is closed when its steps stay in it.
Closed(next, T) == \A p \in T : next[p] \subseteq T

\* In a finite graph as many steps as it has nodes are enough: the closure has the
\* start, is closed, and is in each closed set that has the start.
LEMMA ClosureIs ==
  ASSUME NEW D, IsFiniteSet(D), NEW next \in [D -> SUBSET D], NEW start \in SUBSET D
  PROVE  LET C == Closure(start, next, Cardinality(D))
         IN  /\ start \subseteq C /\ C \subseteq D /\ Closed(next, C)
             /\ \A T : start \subseteq T /\ (\A p \in T \cap D : next[p] \subseteq T) => C \subseteq T
<1> DEFINE n == Cardinality(D)
<1>1. n \in Nat
  BY FS_CardinalityType
<1>. HIDE DEF n
<1>2. PICK f : /\ DOMAIN f = 0 .. n /\ f[0] = start
               /\ \A i \in 1 .. n : f[i] = Wider(next, f[i - 1])
               /\ f[n] = Closure(start, next, n)
               /\ \A i \in 0 .. n : f[i] \subseteq D
  <2>1. PICK f : Widened(f, D, next, start, n)
    BY <1>1, ClosureLoop
  <2>. QED
    BY <2>1 DEF Widened
<1>3. start \subseteq f[n]
  <2> DEFINE G == {i \in 0 .. n : start \subseteq f[i]}
  <2>1. 0 \in G
    BY <1>1, <1>2
  <2>2. ASSUME NEW i \in 1 .. n, i - 1 \in G PROVE i \in G
    BY <1>1, <1>2, <2>2 DEF Wider
  <2>. HIDE DEF G
  <2>3. 0 .. n \subseteq G
    BY <1>1, <2>1, <2>2, UptoInduction
  <2>. QED
    BY <1>1, <2>3 DEF G
<1>4. ASSUME NEW T, start \subseteq T, \A p \in T \cap D : next[p] \subseteq T
      PROVE  f[n] \subseteq T
  <2> DEFINE G == {i \in 0 .. n : f[i] \subseteq T}
  <2>1. 0 \in G
    BY <1>1, <1>2, <1>4
  <2>2. ASSUME NEW i \in 1 .. n, i - 1 \in G PROVE i \in G
    <3>1. i \in 0 .. n /\ i - 1 \in 0 .. n
      BY <1>1
    <3>2. f[i - 1] \subseteq T \cap D
      BY <1>2, <2>2, <3>1
    <3>3. UNION {next[p] : p \in f[i - 1]} \subseteq T
      BY <1>4, <3>2
    <3>. QED
      BY <1>2, <3>1, <3>2, <3>3 DEF Wider
  <2>. HIDE DEF G
  <2>3. 0 .. n \subseteq G
    BY <1>1, <2>1, <2>2, UptoInduction
  <2>. QED
    BY <1>1, <2>3 DEF G
<1>5. Closed(next, f[n])
  <2> DEFINE G == {i \in 0 .. n : Closed(next, f[i]) \/ Cardinality(f[i]) >= i}
  <2>0. \A i \in 0 .. n : IsFiniteSet(f[i]) /\ Cardinality(f[i]) \in Nat /\ Cardinality(f[i]) <= n
    <3>1. \A i \in 0 .. n : f[i] \in SUBSET D
      BY <1>2
    <3>. QED
      BY <3>1, FS_Subset, FS_CardinalityType DEF n
  <2>1. 0 \in G
    BY <1>1, <2>0
  <2>2. ASSUME NEW i \in 1 .. n, i - 1 \in G PROVE i \in G
    <3>1. i \in 0 .. n /\ i - 1 \in 0 .. n /\ i \in Nat
      BY <1>1
    <3>2. f[i] = Wider(next, f[i - 1])
      BY <1>2
    <3>3. CASE Closed(next, f[i - 1])
      <4>1. f[i] = f[i - 1]
        BY <3>2, <3>3 DEF Wider, Closed
      <4>. QED
        BY <3>1, <3>3, <4>1
    <3>4. CASE ~Closed(next, f[i - 1])
      <4>1. PICK p \in f[i - 1] : ~(next[p] \subseteq f[i - 1])
        BY <3>4 DEF Closed
      <4>2. f[i - 1] \subseteq f[i] /\ f[i] # f[i - 1]
        BY <3>2, <4>1 DEF Wider
      <4>3. f[i - 1] \in SUBSET f[i] /\ IsFiniteSet(f[i])
        BY <2>0, <3>1, <4>2
      <4>4. Cardinality(f[i - 1]) <= Cardinality(f[i]) /\ Cardinality(f[i]) # Cardinality(f[i - 1])
        BY <4>2, <4>3, FS_Subset
      <4>5. Cardinality(f[i - 1]) >= i - 1
        BY <2>2, <3>4
      <4>6. Cardinality(f[i]) >= i
        BY <2>0, <3>1, <4>4, <4>5
      <4>. QED
        BY <3>1, <4>6
    <3>. QED
      BY <3>3, <3>4
  <2>. HIDE DEF G
  <2>3. 0 .. n \subseteq G
    BY <1>1, <2>1, <2>2, UptoInduction
  <2>4. n \in 0 .. n
    BY <1>1
  <2>5. Closed(next, f[n]) \/ Cardinality(f[n]) >= n
    BY <2>3, <2>4 DEF G
  <2>6. CASE Cardinality(f[n]) >= n
    <3>1. f[n] \in SUBSET D /\ Cardinality(f[n]) = n
      BY <1>1, <1>2, <2>0, <2>4, <2>6
    <3>2. f[n] = D
      BY <3>1, FS_Subset DEF n
    <3>. QED
      BY <3>2 DEF Closed
  <2>. QED
    BY <2>5, <2>6
<1>6. f[n] \subseteq D
  BY <1>1, <1>2
<1>. QED
  BY <1>2, <1>3, <1>4, <1>5, <1>6 DEF n
-----------------------------------------------------------------------------
\* Reach is the least closed set of records that has all the key stands for.
IsReach(g, key, R) ==
  /\ DerivationsFor(g, key) \subseteq R /\ R \subseteq DOMAIN g
  /\ \A p \in R : Needs(g, p) \subseteq R
  /\ \A T : DerivationsFor(g, key) \subseteq T /\ (\A p \in T \cap DOMAIN g : Needs(g, p) \subseteq T) => R \subseteq T

LEMMA ReachIs ==
  ASSUME NEW g, IsGraph(g), NEW key
  PROVE  IsReach(g, key, Reach(g, key)) /\ IsFiniteSet(Reach(g, key))
<1> DEFINE D == DOMAIN g
           next == [p \in D |-> Needs(g, p)]
           start == DerivationsFor(g, key)
<1>1. IsFiniteSet(D)
  <2>1. D \in SUBSET Names
    BY DEF IsGraph
  <2>. QED
    BY <2>1, NamesFinite, FS_Subset
<1>2. next \in [D -> SUBSET D] /\ start \in SUBSET D
  BY DerivationsAreRecords, NeedsAreRecords
<1>3. \A p \in D : next[p] = Needs(g, p)
  OBVIOUS
<1>4. Reach(g, key) = Closure(start, next, Cardinality(D))
  BY DEF Reach
<1>. HIDE DEF next, start, D
<1> DEFINE C == Closure(start, next, Cardinality(D))
<1>5. /\ start \subseteq C /\ C \subseteq D /\ Closed(next, C)
      /\ \A T : start \subseteq T /\ (\A p \in T \cap D : next[p] \subseteq T) => C \subseteq T
  BY <1>1, <1>2, ClosureIs
<1>. HIDE DEF C
<1>6. \A p \in C : Needs(g, p) \subseteq C
  BY <1>3, <1>5 DEF Closed
<1>7. ASSUME NEW T, start \subseteq T, \A p \in T \cap D : Needs(g, p) \subseteq T
      PROVE  C \subseteq T
  BY <1>3, <1>5, <1>7
<1>8. C \in SUBSET D
  BY <1>5
<1>9. IsFiniteSet(C)
  BY <1>1, <1>8, FS_Subset
<1>. QED
  BY <1>4, <1>5, <1>6, <1>7, <1>9 DEF IsReach, C, D, start
-----------------------------------------------------------------------------
\* The walk, as a function of the records g: what an item of the agenda gives way to,
\* the agenda after it, and the derivations met by then.
Items == {"enter", "visit", "emit"} \X Names \X (0 .. MaxLineageDepth)

Visits(ds, depth) == [k \in DOMAIN ds |-> <<"visit", ds[k], depth>>]
Enters(ids, depth) == [k \in DOMAIN ids |-> <<"enter", ids[k], depth>>]

Calls(g, x, v) ==
  IF x[1] = "enter" /\ ~TooDeep(x[3]) THEN Visits(Sorted(DerivationsFor(g, x[2])), x[3])
  ELSE IF x[1] = "visit" /\ x[2] \notin v
       THEN Enters(Sorted(g[x[2]]), x[3] + 1) \o <<<<"emit", x[2], x[3]>>>>
       ELSE <<>>

Rest(g, a, v) == Calls(g, a[1], v) \o Tail(a)
Met(a, v) == IF a[1][1] = "visit" THEN v \union {a[1][2]} ELSE v

LEMMA ItemIs ==
  ASSUME NEW x \in Items
  PROVE  /\ x[1] \in {"enter", "visit", "emit"} /\ x[2] \in Names /\ x[3] \in 0 .. MaxLineageDepth
         /\ x = <<x[1], x[2], x[3]>>
BY DEF Items

LEMMA DepthIs == MaxLineageDepth \in Nat
BY LineageAssumption

\* The items a sorted list gives.
LEMMA VisitsAre ==
  ASSUME NEW ds \in Seq(Names), NEW depth \in 0 .. MaxLineageDepth
  PROVE  /\ Visits(ds, depth) \in Seq(Items)
         /\ MemberOf(Visits(ds, depth)) = {<<"visit", p, depth>> : p \in MemberOf(ds)}
<1>1. DOMAIN ds = 1 .. Len(ds) /\ Len(ds) \in Nat /\ \A k \in DOMAIN ds : ds[k] \in Names
  OBVIOUS
<1>2. \A k \in DOMAIN ds : <<"visit", ds[k], depth>> \in Items
  BY <1>1 DEF Items
<1>3. Visits(ds, depth) \in [1 .. Len(ds) -> Items]
  BY <1>1, <1>2 DEF Visits
<1>. QED
  BY <1>1, <1>3 DEF Visits, MemberOf

LEMMA EntersAre ==
  ASSUME NEW ids \in Seq(Names), NEW depth \in 0 .. MaxLineageDepth
  PROVE  /\ Enters(ids, depth) \in Seq(Items)
         /\ MemberOf(Enters(ids, depth)) = {<<"enter", key, depth>> : key \in MemberOf(ids)}
<1>1. DOMAIN ids = 1 .. Len(ids) /\ Len(ids) \in Nat /\ \A k \in DOMAIN ids : ids[k] \in Names
  OBVIOUS
<1>2. \A k \in DOMAIN ids : <<"enter", ids[k], depth>> \in Items
  BY <1>1 DEF Items
<1>3. Enters(ids, depth) \in [1 .. Len(ids) -> Items]
  BY <1>1, <1>2 DEF Enters
<1>. QED
  BY <1>1, <1>3 DEF Enters, MemberOf

\* A list put in the place of the first item.
Replaced(a, c, b) ==
  /\ Len(b) = Len(c) + Len(a) - 1
  /\ \A k \in 1 .. Len(c) : b[k] = c[k]
  /\ \A k \in 2 .. Len(a) : b[Len(c) + k - 1] = a[k]

LEMMA ReplacedIs ==
  ASSUME NEW S, NEW a \in Seq(S), a # <<>>, NEW c \in Seq(S)
  PROVE  c \o Tail(a) \in Seq(S) /\ Replaced(a, c, c \o Tail(a))
<1> DEFINE t == Tail(a)
           b == c \o t
<1>1. /\ t \in Seq(S) /\ Len(a) \in Nat /\ Len(a) >= 1 /\ Len(t) = Len(a) - 1
      /\ \A k \in 1 .. Len(a) - 1 : t[k] = a[k + 1]
  OBVIOUS
<1>. HIDE DEF t
<1>2. /\ b \in Seq(S) /\ Len(c) \in Nat /\ Len(b) = Len(c) + Len(t)
      /\ \A k \in 1 .. Len(c) : b[k] = c[k]
      /\ \A k \in 1 .. Len(t) : b[Len(c) + k] = t[k]
  <2>1. t \in Seq(S)
    BY <1>1
  <2>2. Len(c \o t) = Len(c) + Len(t) /\ Len(c) \in Nat /\ c \o t \in Seq(S)
    BY <2>1, ConcatIs
  <2>3. \A k \in 1 .. Len(c) : (c \o t)[k] = c[k]
    BY <2>1, ConcatIs
  <2>4. \A k \in 1 .. Len(t) : (c \o t)[Len(c) + k] = t[k]
    BY <2>1, ConcatIs
  <2>. QED
    BY <2>2, <2>3, <2>4
<1>. HIDE DEF b
<1>3. ASSUME NEW k \in 2 .. Len(a) PROVE b[Len(c) + k - 1] = a[k]
  <2>1. k - 1 \in 1 .. Len(t) /\ k - 1 \in 1 .. Len(a) - 1 /\ (k - 1) + 1 = k /\ Len(c) + (k - 1) = Len(c) + k - 1
    BY <1>1, <1>2
  <2>2. b[Len(c) + (k - 1)] = t[k - 1] /\ t[k - 1] = a[(k - 1) + 1]
    BY <1>1, <1>2, <2>1
  <2>. QED
    BY <2>1, <2>2
<1>4. Len(b) = Len(c) + Len(a) - 1
  BY <1>1, <1>2
<1>. QED
  BY <1>2, <1>3, <1>4 DEF Replaced, b, t

\* Where the items of the new agenda come from.
LEMMA ReplacedPlaces ==
  ASSUME NEW S, NEW a \in Seq(S), a # <<>>, NEW c \in Seq(S), NEW b \in Seq(S), Replaced(a, c, b)
  PROVE  /\ \A k \in DOMAIN b : \/ k \in DOMAIN c /\ b[k] = c[k]
                                \/ /\ k - Len(c) + 1 \in DOMAIN a /\ k - Len(c) + 1 > 1 /\ k > Len(c)
                                   /\ b[k] = a[k - Len(c) + 1]
         /\ \A k \in DOMAIN c : k \in DOMAIN b /\ b[k] = c[k] /\ k <= Len(c)
         /\ \A k \in DOMAIN a : k > 1 => k + Len(c) - 1 \in DOMAIN b /\ k + Len(c) - 1 > Len(c) /\ b[k + Len(c) - 1] = a[k]
         /\ 1 \in DOMAIN a /\ DOMAIN a \subseteq Nat /\ DOMAIN b \subseteq Nat /\ DOMAIN c \subseteq Nat /\ Len(c) \in Nat
<1>1. /\ DOMAIN a = 1 .. Len(a) /\ DOMAIN b = 1 .. Len(b) /\ DOMAIN c = 1 .. Len(c)
      /\ Len(a) \in Nat /\ Len(b) \in Nat /\ Len(c) \in Nat /\ Len(a) >= 1
  OBVIOUS
<1>2. /\ Len(b) = Len(c) + Len(a) - 1
      /\ \A k \in 1 .. Len(c) : b[k] = c[k]
      /\ \A k \in 2 .. Len(a) : b[Len(c) + k - 1] = a[k]
  BY DEF Replaced
<1>3. ASSUME NEW k \in DOMAIN a, k > 1
      PROVE  k + Len(c) - 1 \in DOMAIN b /\ k + Len(c) - 1 > Len(c) /\ b[k + Len(c) - 1] = a[k]
  <2>1. k \in 2 .. Len(a) /\ k + Len(c) - 1 \in 1 .. Len(b) /\ k + Len(c) - 1 > Len(c)
        /\ k + Len(c) - 1 = Len(c) + k - 1
    BY <1>1, <1>2, <1>3
  <2>. QED
    BY <1>1, <1>2, <2>1
<1>4. ASSUME NEW k \in DOMAIN b, k > Len(c)
      PROVE  k - Len(c) + 1 \in DOMAIN a /\ k - Len(c) + 1 > 1 /\ b[k] = a[k - Len(c) + 1]
  <2>1. k - Len(c) + 1 \in 2 .. Len(a) /\ k - Len(c) + 1 \in 1 .. Len(a) /\ k - Len(c) + 1 > 1
        /\ Len(c) + (k - Len(c) + 1) - 1 = k
    BY <1>1, <1>2, <1>4
  <2>2. b[Len(c) + (k - Len(c) + 1) - 1] = a[k - Len(c) + 1]
    BY <1>2, <2>1
  <2>. QED
    BY <1>1, <2>1, <2>2
<1>5. \A k \in DOMAIN b : k \in DOMAIN c \/ k > Len(c)
  BY <1>1
<1>6. \A k \in DOMAIN c : k \in DOMAIN b /\ b[k] = c[k] /\ k <= Len(c)
  BY <1>1, <1>2
<1>. QED
  BY <1>1, <1>3, <1>4, <1>5, <1>6

LEMMA TailIs ==
  ASSUME NEW S, NEW a \in Seq(S), a # <<>>
  PROVE  /\ Tail(a) \in Seq(S) /\ a[1] \in S /\ Head(a) = a[1] /\ <<>> \o Tail(a) = Tail(a)
         /\ MemberOf(a) = {a[1]} \union MemberOf(Tail(a))
<1> DEFINE t == Tail(a)
<1>1. /\ t \in Seq(S) /\ Len(a) \in Nat /\ Len(a) >= 1 /\ Len(t) = Len(a) - 1
      /\ DOMAIN a = 1 .. Len(a) /\ DOMAIN t = 1 .. Len(t) /\ a[1] \in S
      /\ \A k \in 1 .. Len(a) - 1 : t[k] = a[k + 1]
  OBVIOUS
<1>2. Head(a) = a[1] /\ <<>> \o Tail(a) = Tail(a)
  OBVIOUS
<1>. HIDE DEF t
<1>3. ASSUME NEW k \in DOMAIN a PROVE a[k] \in {a[1]} \union MemberOf(t)
  <2>1. CASE k = 1
    BY <2>1
  <2>2. CASE k # 1
    <3>1. k - 1 \in DOMAIN t /\ t[k - 1] = a[k]
      <4>1. k - 1 \in 1 .. Len(a) - 1 /\ (k - 1) + 1 = k
        BY <1>1, <2>2
      <4>. QED
        BY <1>1, <4>1
    <3>. QED
      BY <3>1 DEF MemberOf
  <2>. QED
    BY <2>1, <2>2
<1>4. ASSUME NEW k \in DOMAIN t PROVE t[k] \in MemberOf(a)
  <2>1. k + 1 \in DOMAIN a /\ t[k] = a[k + 1]
    BY <1>1
  <2>. QED
    BY <2>1 DEF MemberOf
<1>5. a[1] \in MemberOf(a)
  BY <1>1 DEF MemberOf
<1>6. MemberOf(a) = {a[1]} \union MemberOf(t)
  <2>1. MemberOf(a) \subseteq {a[1]} \union MemberOf(t)
    BY <1>3 DEF MemberOf
  <2>2. MemberOf(t) \subseteq MemberOf(a)
    BY <1>4 DEF MemberOf
  <2>. QED
    BY <1>5, <2>1, <2>2
<1>. QED
  BY <1>1, <1>2, <1>6 DEF t

\* A call gives way to its derivations, a derivation not met before to its inputs and
\* itself, all else to nothing.
Entering(x) == x[1] = "enter" /\ ~TooDeep(x[3])
Visiting(x, v) == x[1] = "visit" /\ x[2] \notin v

Entered(g, x, c) == MemberOf(c) = {<<"visit", p, x[3]>> : p \in DerivationsFor(g, x[2])}
Visited(g, x, c) ==
  /\ Len(c) > 0 /\ c[Len(c)] = <<"emit", x[2], x[3]>>
  /\ \A k \in 1 .. Len(c) - 1 : c[k] \in {<<"enter", key, x[3] + 1>> : key \in g[x[2]]}
  /\ \A key \in g[x[2]] : <<"enter", key, x[3] + 1>> \in MemberOf(c)

\* What the walk relies on in an item: x[2] is a record, and a record is visited at
\* less than the greatest depth.
WellPlaced(g, x) == x[1] # "enter" => x[2] \in DOMAIN g /\ x[3] < MaxLineageDepth

LEMMA CallsAre ==
  ASSUME NEW g, IsGraph(g), NEW x \in Items, WellPlaced(g, x), NEW v
  PROVE  /\ Calls(g, x, v) \in Seq(Items)
         /\ Entering(x) => Entered(g, x, Calls(g, x, v))
         /\ Visiting(x, v) => Visited(g, x, Calls(g, x, v))
         /\ ~Entering(x) /\ ~Visiting(x, v) => Calls(g, x, v) = <<>>
<1>1. x[1] \in {"enter", "visit", "emit"} /\ x[2] \in Names /\ x[3] \in 0 .. MaxLineageDepth
  BY ItemIs
<1>2. CASE Entering(x)
  <2> DEFINE T == DerivationsFor(g, x[2])
             ds == Sorted(T)
  <2>1. T \in SUBSET Names
    BY DerivationsAreRecords DEF IsGraph
  <2>. HIDE DEF T
  <2>2. ds \in Seq(Names) /\ MemberOf(ds) = T
    BY <2>1, SortedIs
  <2>3. Calls(g, x, v) = Visits(ds, x[3])
    BY <1>2 DEF Calls, Entering, T
  <2>. HIDE DEF ds
  <2>4. Visits(ds, x[3]) \in Seq(Items) /\ MemberOf(Visits(ds, x[3])) = {<<"visit", p, x[3]>> : p \in MemberOf(ds)}
    BY <1>1, <2>2, VisitsAre
  <2>5. ~Visiting(x, v)
    BY <1>2 DEF Entering, Visiting
  <2>6. Entered(g, x, Calls(g, x, v))
    BY <2>2, <2>3, <2>4 DEF Entered, T
  <2>. QED
    BY <1>2, <2>3, <2>4, <2>5, <2>6
<1>3. CASE Visiting(x, v)
  <2> DEFINE ids == Sorted(g[x[2]])
             d == x[3] + 1
             last == <<"emit", x[2], x[3]>>
  <2>1. x[2] \in DOMAIN g /\ x[3] < MaxLineageDepth /\ x[1] = "visit" /\ x[2] \notin v
    BY <1>3 DEF Visiting, WellPlaced
  <2>2. g[x[2]] \in SUBSET Names
    BY <2>1 DEF IsGraph
  <2>3. ids \in Seq(Names) /\ MemberOf(ids) = g[x[2]]
    BY <2>2, SortedIs
  <2>4. Calls(g, x, v) = Enters(ids, d) \o <<last>>
    BY <2>1 DEF Calls, ids, d, last
  <2>5. d \in 0 .. MaxLineageDepth
    BY <1>1, <2>1, LineageAssumption
  <2>6. last \in Items
    BY <1>1 DEF Items
  <2>. HIDE DEF ids, d
  <2> DEFINE e == Enters(ids, d)
  <2>7. e \in Seq(Items) /\ MemberOf(e) = {<<"enter", key, d>> : key \in MemberOf(ids)}
    BY <2>3, <2>5, EntersAre
  <2>. HIDE DEF e, last
  <2>8. <<last>> \in Seq(Items) /\ Len(<<last>>) = 1 /\ <<last>>[1] = last
    BY <2>6
  <2>9. Len(e \o <<last>>) = Len(e) + Len(<<last>>) /\ Len(e) \in Nat /\ e \o <<last>> \in Seq(Items)
    BY <2>7, <2>8, ConcatIs
  <2>10. \A k \in 1 .. Len(e) : (e \o <<last>>)[k] = e[k]
    BY <2>7, <2>8, ConcatIs
  <2>11. \A k \in 1 .. Len(<<last>>) : (e \o <<last>>)[Len(e) + k] = <<last>>[k]
    BY <2>7, <2>8, ConcatIs
  <2>12. MemberOf(e \o <<last>>) = MemberOf(e) \union MemberOf(<<last>>)
    <3>1. \A t \in Seq(Items) : MemberOf(e \o t) = MemberOf(e) \union MemberOf(t)
      BY <2>7, ConcatIs
    <3>. QED
      BY <2>8, <3>1, Zenon
  <2> DEFINE c == e \o <<last>>
  <2>13. Len(c) = Len(e) + 1 /\ Len(e) \in Nat /\ c \in Seq(Items) /\ Len(c) > 0 /\ c[Len(c)] = last
    BY <2>8, <2>9, <2>11
  <2>14. \A k \in 1 .. Len(e) : c[k] \in MemberOf(e)
    BY <2>7, <2>10 DEF MemberOf
  <2>15. MemberOf(e) \subseteq MemberOf(c)
    BY <2>12
  <2>16. Calls(g, x, v) = c
    BY <2>4 DEF e
  <2>. HIDE DEF c
  <2>17. \A k \in 1 .. Len(c) - 1 : c[k] \in MemberOf(e)
    BY <2>13, <2>14
  <2>18. MemberOf(e) = {<<"enter", key, x[3] + 1>> : key \in g[x[2]]}
    BY <2>3, <2>7 DEF d
  <2>19. Visited(g, x, c)
    <3>1. c[Len(c)] = <<"emit", x[2], x[3]>>
      BY <2>13 DEF last
    <3>2. \A key \in g[x[2]] : <<"enter", key, x[3] + 1>> \in MemberOf(c)
      BY <2>15, <2>18
    <3>. QED
      BY <2>13, <2>17, <2>18, <3>1, <3>2 DEF Visited
  <2>20. ~Entering(x)
    BY <2>1 DEF Entering
  <2>. QED
    BY <1>3, <2>13, <2>16, <2>19, <2>20
<1>4. CASE ~Entering(x) /\ ~Visiting(x, v)
  <2>1. Calls(g, x, v) = <<>>
    BY <1>4 DEF Calls, Entering, Visiting
  <2>. QED
    BY <1>4, <2>1
<1>. QED
  BY <1>2, <1>3, <1>4
-----------------------------------------------------------------------------
\* The agenda is a stack of calls: below an item at depth d, the ends of one iteration
\* at each lesser depth are pending, and no two of the same derivation.
IsEnd(x) == x[1] = "emit"

Stacked(a) ==
  \A k \in DOMAIN a : \A i \in 0 .. a[k][3] - 1 :
    \E j \in DOMAIN a : j > k /\ IsEnd(a[j]) /\ a[j][3] = i

Distinct(a) ==
  \A j, k \in DOMAIN a : IsEnd(a[j]) /\ IsEnd(a[k]) /\ a[j][2] = a[k][2] => j = k

\* What is above the old rest of the stack has the ends it needs there, or above it.
Supported(a, c) ==
  \A k \in DOMAIN c : \A i \in 0 .. c[k][3] - 1 :
    i < a[1][3] \/ \E j \in DOMAIN c : j > k /\ IsEnd(c[j]) /\ c[j][3] = i

LEMMA StackKept ==
  ASSUME NEW a \in Seq(Items), a # <<>>, NEW c \in Seq(Items), NEW b \in Seq(Items),
         Replaced(a, c, b), Stacked(a), Supported(a, c)
  PROVE  Stacked(b)
<1> DEFINE m == Len(c)
<1>1. /\ \A k \in DOMAIN b : \/ k \in DOMAIN c /\ b[k] = c[k]
                             \/ /\ k - m + 1 \in DOMAIN a /\ k - m + 1 > 1 /\ k > m
                                /\ b[k] = a[k - m + 1]
      /\ \A k \in DOMAIN c : k \in DOMAIN b /\ b[k] = c[k] /\ k <= m
      /\ \A k \in DOMAIN a : k > 1 => k + m - 1 \in DOMAIN b /\ k + m - 1 > m /\ b[k + m - 1] = a[k]
      /\ 1 \in DOMAIN a /\ DOMAIN a \subseteq Nat /\ DOMAIN b \subseteq Nat /\ DOMAIN c \subseteq Nat /\ m \in Nat
  BY ReplacedPlaces
<1>. HIDE DEF m
\* An end below an item of the old agenda is there in the new one, below it too.
<1>2. ASSUME NEW k \in DOMAIN a, NEW i \in 0 .. a[k][3] - 1
      PROVE  \E j \in DOMAIN b : j > m /\ j > k + m - 1 /\ IsEnd(b[j]) /\ b[j][3] = i
  <2>1. PICK j \in DOMAIN a : j > k /\ IsEnd(a[j]) /\ a[j][3] = i
    BY DEF Stacked
  <2>2. j \in Nat /\ k \in Nat /\ k >= 1 /\ j > 1
    <3>1. DOMAIN a = 1 .. Len(a) /\ Len(a) \in Nat
      OBVIOUS
    <3>. QED
      BY <2>1, <3>1
  <2>3. j + m - 1 \in DOMAIN b /\ j + m - 1 > m /\ b[j + m - 1] = a[j] /\ j + m - 1 > k + m - 1
    BY <1>1, <2>1, <2>2
  <2>. QED
    BY <2>1, <2>3
<1>3. ASSUME NEW k \in DOMAIN b, NEW i \in 0 .. b[k][3] - 1
      PROVE  \E j \in DOMAIN b : j > k /\ IsEnd(b[j]) /\ b[j][3] = i
  <2>1. CASE k \in DOMAIN c /\ b[k] = c[k]
    <3>1. i \in 0 .. c[k][3] - 1 /\ k \in Nat /\ k <= m
      BY <1>1, <2>1
    <3>2. CASE i < a[1][3]
      <4>1. a[1] \in Items
        BY <1>1
      <4>2. a[1][3] \in Nat
        BY <4>1, ItemIs, DepthIs
      <4>3. i \in 0 .. a[1][3] - 1
        BY <3>1, <3>2, <4>2
      <4>4. PICK j \in DOMAIN b : j > m /\ IsEnd(b[j]) /\ b[j][3] = i
        BY <1>1, <1>2, <4>3
      <4>5. j > k
        BY <1>1, <3>1, <4>4
      <4>. QED
        BY <4>4, <4>5
    <3>3. CASE ~(i < a[1][3])
      <4>1. PICK j \in DOMAIN c : j > k /\ IsEnd(c[j]) /\ c[j][3] = i
        BY <2>1, <3>1, <3>3 DEF Supported
      <4>. QED
        BY <1>1, <4>1
    <3>. QED
      BY <3>2, <3>3
  <2>2. CASE k - m + 1 \in DOMAIN a /\ k > m /\ b[k] = a[k - m + 1]
    <3>1. PICK j \in DOMAIN b : j > (k - m + 1) + m - 1 /\ IsEnd(b[j]) /\ b[j][3] = i
      BY <1>2, <2>2
    <3>2. j \in Nat /\ k \in Nat /\ m \in Nat
      BY <1>1
    <3>3. j > k
      BY ONLY <3>1, <3>2
    <3>. QED
      BY <3>1, <3>3
  <2>. QED
    BY <1>1, <2>1, <2>2
<1>. QED
  BY <1>3 DEF Stacked

\* What is put on the stack has one end at most, of a derivation that has none there.
Fresh(a, c) ==
  /\ \A j, k \in DOMAIN c : IsEnd(c[j]) /\ IsEnd(c[k]) => j = k
  /\ \A j \in DOMAIN c, k \in DOMAIN a : IsEnd(c[j]) /\ IsEnd(a[k]) => c[j][2] # a[k][2]

LEMMA DistinctKept ==
  ASSUME NEW a \in Seq(Items), a # <<>>, NEW c \in Seq(Items), NEW b \in Seq(Items),
         Replaced(a, c, b), Distinct(a), Fresh(a, c)
  PROVE  Distinct(b)
<1> DEFINE m == Len(c)
<1>1. /\ \A k \in DOMAIN b : \/ k \in DOMAIN c /\ b[k] = c[k]
                             \/ /\ k - m + 1 \in DOMAIN a /\ k - m + 1 > 1 /\ k > m
                                /\ b[k] = a[k - m + 1]
      /\ \A k \in DOMAIN c : k \in DOMAIN b /\ b[k] = c[k] /\ k <= m
      /\ \A k \in DOMAIN a : k > 1 => k + m - 1 \in DOMAIN b /\ k + m - 1 > m /\ b[k + m - 1] = a[k]
      /\ 1 \in DOMAIN a /\ DOMAIN a \subseteq Nat /\ DOMAIN b \subseteq Nat /\ DOMAIN c \subseteq Nat /\ m \in Nat
  BY ReplacedPlaces
<1>. HIDE DEF m
<1>2. ASSUME NEW j \in DOMAIN b, NEW k \in DOMAIN b, IsEnd(b[j]), IsEnd(b[k]), b[j][2] = b[k][2]
      PROVE  j = k
  <2>1. CASE j \in DOMAIN c /\ b[j] = c[j] /\ k \in DOMAIN c /\ b[k] = c[k]
    BY <1>2, <2>1 DEF Fresh
  <2>2. CASE j \in DOMAIN c /\ b[j] = c[j] /\ k - m + 1 \in DOMAIN a /\ b[k] = a[k - m + 1]
    BY <1>2, <2>2 DEF Fresh
  <2>3. CASE k \in DOMAIN c /\ b[k] = c[k] /\ j - m + 1 \in DOMAIN a /\ b[j] = a[j - m + 1]
    BY <1>2, <2>3 DEF Fresh
  <2>4. CASE /\ j - m + 1 \in DOMAIN a /\ b[j] = a[j - m + 1]
             /\ k - m + 1 \in DOMAIN a /\ b[k] = a[k - m + 1]
    <3>1. j - m + 1 = k - m + 1
      BY <1>2, <2>4 DEF Distinct
    <3>2. j \in Nat /\ k \in Nat /\ m \in Nat
      BY <1>1
    <3>. QED
      BY ONLY <3>1, <3>2
  <2>5. /\ (j \in DOMAIN c /\ b[j] = c[j]) \/ (j - m + 1 \in DOMAIN a /\ b[j] = a[j - m + 1])
        /\ (k \in DOMAIN c /\ b[k] = c[k]) \/ (k - m + 1 \in DOMAIN a /\ b[k] = a[k - m + 1])
    BY <1>1
  <2>. QED
    BY <2>1, <2>2, <2>3, <2>4, <2>5
<1>. QED
  BY <1>2 DEF Distinct

\* An item of the agenda is about what can be reached.
Placed(g, R, x, v) ==
  IF x[1] = "enter" THEN DerivationsFor(g, x[2]) \subseteq R
  ELSE x[2] \in R /\ x[3] < MaxLineageDepth /\ (IsEnd(x) => x[2] \in v)

Walk(g, R, a, v) ==
  /\ a \in Seq(Items) /\ v \subseteq R
  /\ \A x \in MemberOf(a) : Placed(g, R, x, v)
  /\ Stacked(a) /\ Distinct(a)

\* A step of the walk on an agenda that is not empty.
LEMMA StepIs ==
  ASSUME NEW g, IsGraph(g), NEW key, NEW R, IsReach(g, key, R), NEW v, NEW a, Walk(g, R, a, v), a # <<>>
  PROVE  /\ a \in Seq(Items) /\ a[1] \in Items /\ WellPlaced(g, a[1]) /\ Placed(g, R, a[1], v)
         /\ Calls(g, a[1], v) \in Seq(Items)
         /\ Entering(a[1]) => Entered(g, a[1], Calls(g, a[1], v))
         /\ Visiting(a[1], v) => Visited(g, a[1], Calls(g, a[1], v))
         /\ ~Entering(a[1]) /\ ~Visiting(a[1], v) => Calls(g, a[1], v) = <<>>
         /\ Rest(g, a, v) \in Seq(Items) /\ Replaced(a, Calls(g, a[1], v), Rest(g, a, v))
         /\ MemberOf(Rest(g, a, v)) = MemberOf(Calls(g, a[1], v)) \union MemberOf(Tail(a))
         /\ MemberOf(a) = {a[1]} \union MemberOf(Tail(a))
<1>1. a \in Seq(Items)
  BY DEF Walk
<1>2. a[1] \in Items /\ Tail(a) \in Seq(Items) /\ MemberOf(a) = {a[1]} \union MemberOf(Tail(a))
  BY <1>1, TailIs
<1>3. Placed(g, R, a[1], v)
  BY <1>2 DEF Walk
<1>4. WellPlaced(g, a[1])
  BY <1>3 DEF Placed, WellPlaced, IsReach
<1> DEFINE x == a[1]
           c == Calls(g, x, v)
<1>5. x \in Items /\ WellPlaced(g, x)
  BY <1>2, <1>4
<1>. HIDE DEF x
<1>6. /\ c \in Seq(Items)
      /\ Entering(x) => Entered(g, x, c)
      /\ Visiting(x, v) => Visited(g, x, c)
      /\ ~Entering(x) /\ ~Visiting(x, v) => c = <<>>
  BY <1>5, CallsAre
<1>. HIDE DEF c
<1>7. c \o Tail(a) \in Seq(Items) /\ Replaced(a, c, c \o Tail(a))
  BY <1>1, <1>6, ReplacedIs
<1>8. MemberOf(c \o Tail(a)) = MemberOf(c) \union MemberOf(Tail(a))
  <2>1. \A t \in Seq(Items) : MemberOf(c \o t) = MemberOf(c) \union MemberOf(t)
    BY <1>6, ConcatIs
  <2>. QED
    BY <1>2, <2>1
<1>9. Rest(g, a, v) = c \o Tail(a)
  BY DEF Rest, c, x
<1>10. c = Calls(g, a[1], v) /\ x = a[1]
  BY DEF c, x
<1>. QED
  BY <1>1, <1>2, <1>3, <1>4, <1>6, <1>7, <1>8, <1>9, <1>10

LEMMA MetGrows ==
  ASSUME NEW a, NEW v
  PROVE  v \subseteq Met(a, v)
BY DEF Met

\* What is put on the stack decides.
Pushed(g, R, a, v, c, b, w) ==
  /\ a \in Seq(Items) /\ c \in Seq(Items) /\ b \in Seq(Items)
  /\ Replaced(a, c, b) /\ Stacked(a) /\ Distinct(a) /\ Supported(a, c) /\ Fresh(a, c)
  /\ v \subseteq w /\ w \subseteq R
  /\ MemberOf(b) = MemberOf(c) \union MemberOf(Tail(a)) /\ MemberOf(a) = {a[1]} \union MemberOf(Tail(a))
  /\ \A y \in MemberOf(a) : Placed(g, R, y, v)
  /\ \A y \in MemberOf(c) : Placed(g, R, y, w)

LEMMA WalkOf ==
  ASSUME NEW g, NEW R, NEW v, NEW w, NEW a, a # <<>>, NEW c, NEW b, Pushed(g, R, a, v, c, b, w)
  PROVE  Walk(g, R, b, w)
<1>1. Stacked(b) /\ Distinct(b)
  BY StackKept, DistinctKept DEF Pushed
<1>2. \A y \in MemberOf(Tail(a)) : Placed(g, R, y, w)
  BY DEF Pushed, Placed
<1>3. \A y \in MemberOf(b) : Placed(g, R, y, w)
  BY <1>2 DEF Pushed
<1>. QED
  BY <1>1, <1>3 DEF Pushed, Walk

LEMMA WalkKept ==
  ASSUME NEW g, IsGraph(g), NEW key, NEW R, IsReach(g, key, R), NEW v, NEW a, Walk(g, R, a, v), a # <<>>
  PROVE  Walk(g, R, Rest(g, a, v), Met(a, v))
<1> DEFINE x == a[1]
           c == Calls(g, x, v)
           b == Rest(g, a, v)
           w == Met(a, v)
<1>1. /\ a \in Seq(Items) /\ x \in Items /\ WellPlaced(g, x) /\ Placed(g, R, x, v)
      /\ c \in Seq(Items)
      /\ Entering(x) => Entered(g, x, c)
      /\ Visiting(x, v) => Visited(g, x, c)
      /\ ~Entering(x) /\ ~Visiting(x, v) => c = <<>>
      /\ b \in Seq(Items) /\ Replaced(a, c, b)
      /\ MemberOf(b) = MemberOf(c) \union MemberOf(Tail(a))
      /\ MemberOf(a) = {x} \union MemberOf(Tail(a))
  BY StepIs
<1>2. v \subseteq w /\ w \subseteq v \union (IF x[1] = "visit" THEN {x[2]} ELSE {}) /\ (x[1] = "visit" => x[2] \in w)
  BY DEF Met
<1>3. \A y \in MemberOf(a) : Placed(g, R, y, v)
  BY DEF Walk
<1>4. v \subseteq R /\ Stacked(a) /\ Distinct(a)
  BY DEF Walk
<1>5. DOMAIN c = 1 .. Len(c) /\ Len(c) \in Nat
  BY <1>1
<1>6. x[1] \in {"enter", "visit", "emit"} /\ x[2] \in Names /\ x[3] \in 0 .. MaxLineageDepth /\ x[3] \in Nat
  BY <1>1, ItemIs, DepthIs
<1>7. \A k \in DOMAIN a : a[k] \in MemberOf(a)
  BY DEF MemberOf
<1>8. x = a[1]
  OBVIOUS
<1>. HIDE DEF x, c, b, w
<1>9. w \subseteq R
  BY <1>1, <1>2, <1>4 DEF Placed
\* What c adds, by the kind of the item.
<1>10. CASE Entering(x)
  <2>1. x[1] = "enter" /\ x[3] < MaxLineageDepth /\ DerivationsFor(g, x[2]) \subseteq R
    BY <1>1, <1>6, <1>10, DepthIs DEF Entering, TooDeep, Placed
  <2>2. \A y \in MemberOf(c) : y[1] = "visit" /\ y[2] \in DerivationsFor(g, x[2]) /\ y[3] = x[3]
    BY <1>1, <1>10 DEF Entered
  <2>3. \A y \in MemberOf(c) : Placed(g, R, y, w)
    BY <2>1, <2>2 DEF Placed, IsEnd
  <2>4. \A k \in DOMAIN c : ~IsEnd(c[k]) /\ c[k][3] = x[3]
    BY <2>2 DEF MemberOf, IsEnd
  <2>5. Supported(a, c)
    BY <1>6, <1>8, <2>4 DEF Supported
  <2>6. Fresh(a, c)
    BY <2>4 DEF Fresh
  <2>20. Pushed(g, R, a, v, c, b, w)
    BY <1>1, <1>2, <1>3, <1>4, <1>8, <1>9, <2>3, <2>5, <2>6 DEF Pushed
  <2>. QED
    BY <2>20, WalkOf DEF b, w
<1>11. CASE Visiting(x, v)
  <2> DEFINE n == Len(c)
  <2>1. x[1] = "visit" /\ x[2] \notin v /\ x[2] \in R /\ x[3] < MaxLineageDepth
    BY <1>1, <1>11 DEF Visiting, Placed
  <2>2. /\ n > 0 /\ c[n] = <<"emit", x[2], x[3]>>
        /\ \A k \in 1 .. n - 1 : c[k] \in {<<"enter", id, x[3] + 1>> : id \in g[x[2]]}
    BY <1>1, <1>11 DEF Visited
  <2>3. \A k \in 1 .. n - 1 : c[k][1] = "enter" /\ c[k][2] \in g[x[2]] /\ c[k][3] = x[3] + 1
    BY <2>2
  <2>4. c[n][1] = "emit" /\ c[n][2] = x[2] /\ c[n][3] = x[3]
    BY <2>2
  <2>5. n \in DOMAIN c /\ \A k \in DOMAIN c : k = n \/ (k \in 1 .. n - 1 /\ k < n)
    BY <1>5, <2>2
  <2>. HIDE DEF n
  <2>6. \A id \in g[x[2]] : DerivationsFor(g, id) \subseteq R
    <3>1. Needs(g, x[2]) \subseteq R
      BY <2>1 DEF IsReach
    <3>. QED
      BY <3>1 DEF Needs
  <2>7. \A k \in DOMAIN c : Placed(g, R, c[k], w)
    <3>1. Placed(g, R, c[n], w)
      BY <1>2, <2>1, <2>4 DEF Placed
    <3>2. \A k \in 1 .. n - 1 : Placed(g, R, c[k], w)
      BY <2>3, <2>6 DEF Placed
    <3>. QED
      BY <2>5, <3>1, <3>2
  <2>8. \A y \in MemberOf(c) : Placed(g, R, y, w)
    BY <2>7 DEF MemberOf
  <2>9. \A k \in DOMAIN c : IsEnd(c[k]) => k = n
    BY <2>3, <2>5 DEF IsEnd
  <2>10. Supported(a, c)
    <3>. SUFFICES ASSUME NEW k \in DOMAIN c, NEW i \in 0 .. c[k][3] - 1, ~(i < x[3])
                  PROVE  \E j \in DOMAIN c : j > k /\ IsEnd(c[j]) /\ c[j][3] = i
      BY <1>8 DEF Supported
    <3>1. k # n
      BY <1>6, <2>4
    <3>2. k < n /\ c[k][3] = x[3] + 1
      BY <2>3, <2>5, <3>1
    <3>3. i = x[3]
      BY <1>6, <3>2
    <3>. QED
      BY <2>4, <2>5, <3>2, <3>3 DEF IsEnd
  <2>11. Fresh(a, c)
    <3>1. \A k \in DOMAIN a : IsEnd(a[k]) => a[k][2] \in v
      BY <1>3, <1>7 DEF Placed, IsEnd
    <3>. QED
      BY <2>1, <2>4, <2>9, <3>1 DEF Fresh
  <2>20. Pushed(g, R, a, v, c, b, w)
    BY <1>1, <1>2, <1>3, <1>4, <1>8, <1>9, <2>8, <2>10, <2>11 DEF Pushed
  <2>. QED
    BY <2>20, WalkOf DEF b, w
<1>12. CASE ~Entering(x) /\ ~Visiting(x, v)
  <2>1. c = <<>> /\ DOMAIN c = {}
    BY <1>1, <1>12
  <2>2. Supported(a, c) /\ Fresh(a, c) /\ \A y \in MemberOf(c) : Placed(g, R, y, w)
    BY <2>1 DEF Supported, Fresh, MemberOf
  <2>20. Pushed(g, R, a, v, c, b, w)
    BY <1>1, <1>2, <1>3, <1>4, <1>8, <1>9, <2>2 DEF Pushed
  <2>. QED
    BY <2>20, WalkOf DEF b, w
<1>. QED
  BY <1>10, <1>11, <1>12 DEF b, w
-----------------------------------------------------------------------------
\* What an item of the agenda will still meet.
Stands(g, x) ==
  IF x[1] = "enter" THEN DerivationsFor(g, x[2]) ELSE IF x[1] = "visit" THEN {x[2]} ELSE {}

Pending(g, a) == UNION {Stands(g, x) : x \in MemberOf(a)}

\* What the key stands for, and what is behind the derivations met, has been met or will be.
Cover(g, key, a, v) ==
  /\ DerivationsFor(g, key) \subseteq v \union Pending(g, a)
  /\ \A p \in v : Needs(g, p) \subseteq v \union Pending(g, a)

Cut(a) == a[1][1] = "enter" /\ TooDeep(a[1][3])

LEMMA CoverKept ==
  ASSUME NEW g, IsGraph(g), NEW key, NEW R, IsReach(g, key, R), NEW v, NEW a, Walk(g, R, a, v), a # <<>>,
         Cover(g, key, a, v), Cut(a) => DerivationsFor(g, a[1][2]) \subseteq v
  PROVE  Cover(g, key, Rest(g, a, v), Met(a, v))
<1> DEFINE x == a[1]
           c == Calls(g, x, v)
           b == Rest(g, a, v)
           w == Met(a, v)
           tail == Tail(a)
<1>1. /\ x \in Items
      /\ Entering(x) => Entered(g, x, c)
      /\ Visiting(x, v) => Visited(g, x, c)
      /\ MemberOf(b) = MemberOf(c) \union MemberOf(tail)
      /\ MemberOf(a) = {x} \union MemberOf(tail)
  BY StepIs
<1>2. v \subseteq w /\ w \subseteq v \union (IF x[1] = "visit" THEN {x[2]} ELSE {}) /\ (x[1] = "visit" => x[2] \in w)
  BY DEF Met
<1>3. x[1] \in {"enter", "visit", "emit"}
  BY <1>1, ItemIs
<1>4. Cut(a) = (x[1] = "enter" /\ TooDeep(x[3])) /\ (Cut(a) => DerivationsFor(g, x[2]) \subseteq v)
  BY DEF Cut
<1>. HIDE DEF x, c, b, w, tail
<1>5. Pending(g, a) = Stands(g, x) \union Pending(g, tail)
  BY <1>1 DEF Pending
<1>6. Pending(g, b) = Pending(g, c) \union Pending(g, tail)
  BY <1>1 DEF Pending
\* What the item stood for is not lost.
<1>7. Stands(g, x) \subseteq w \union Pending(g, c)
  <2>1. CASE x[1] = "visit"
    BY <1>2, <2>1 DEF Stands
  <2>2. CASE x[1] = "emit"
    BY <2>2 DEF Stands
  <2>3. CASE x[1] = "enter" /\ TooDeep(x[3])
    BY <1>2, <1>4, <2>3 DEF Stands
  <2>4. CASE x[1] = "enter" /\ ~TooDeep(x[3])
    <3>1. MemberOf(c) = {<<"visit", p, x[3]>> : p \in DerivationsFor(g, x[2])}
      BY <1>1, <2>4 DEF Entering, Entered
    <3>2. \A p \in DerivationsFor(g, x[2]) : p \in Pending(g, c)
      <4>. SUFFICES ASSUME NEW p \in DerivationsFor(g, x[2]) PROVE p \in Pending(g, c)
        OBVIOUS
      <4> DEFINE y == <<"visit", p, x[3]>>
      <4>1. y \in MemberOf(c) /\ y[1] = "visit" /\ y[2] = p
        BY <3>1
      <4>. HIDE DEF y
      <4>2. p \in Stands(g, y)
        BY <4>1 DEF Stands
      <4>. QED
        BY <4>1, <4>2 DEF Pending
    <3>. QED
      BY <2>4, <3>2 DEF Stands
  <2>. QED
    BY <1>3, <2>1, <2>2, <2>3, <2>4
\* What is behind a derivation met now is pending.
<1>8. \A p \in w \ v : Needs(g, p) \subseteq Pending(g, c)
  <2>. SUFFICES ASSUME NEW p \in w \ v PROVE Needs(g, p) \subseteq Pending(g, c)
    OBVIOUS
  <2>1. x[1] = "visit" /\ p = x[2] /\ Visiting(x, v)
    BY <1>2 DEF Visiting
  <2>2. \A id \in g[p] : <<"enter", id, x[3] + 1>> \in MemberOf(c)
    BY <1>1, <2>1 DEF Visited
  <2>3. ASSUME NEW id \in g[p] PROVE DerivationsFor(g, id) \subseteq Pending(g, c)
    <3> DEFINE y == <<"enter", id, x[3] + 1>>
    <3>1. y \in MemberOf(c) /\ y[1] = "enter" /\ y[2] = id
      BY <2>2
    <3>. HIDE DEF y
    <3>2. Stands(g, y) = DerivationsFor(g, id)
      BY <3>1 DEF Stands
    <3>. QED
      BY <3>1, <3>2 DEF Pending
  <2>. QED
    BY <2>3 DEF Needs
<1>9. v \union Pending(g, a) \subseteq w \union Pending(g, b)
  BY <1>2, <1>5, <1>6, <1>7
<1>10. DerivationsFor(g, key) \subseteq w \union Pending(g, b)
  BY <1>9 DEF Cover
<1>11. \A p \in w : Needs(g, p) \subseteq w \union Pending(g, b)
  BY <1>6, <1>8, <1>9 DEF Cover
<1>. QED
  BY <1>10, <1>11 DEF Cover, b, w

\* Once the agenda is empty, all that can be reached has been met.
LEMMA CoverEnds ==
  ASSUME NEW g, NEW key, NEW R, IsReach(g, key, R), NEW v, Cover(g, key, <<>>, v)
  PROVE  R \subseteq v
<1>1. Pending(g, <<>>) = {}
  BY DEF Pending, MemberOf
<1>2. DerivationsFor(g, key) \subseteq v /\ \A p \in v : Needs(g, p) \subseteq v
  BY <1>1 DEF Cover
<1>. QED
  BY <1>2 DEF IsReach

\* A call that is too deep has as many derivations under way as the depth, each another,
\* so that where no more can be reached all have been met.
LEMMA DeepMeetsAll ==
  ASSUME NEW g, NEW R, IsFiniteSet(R), Cardinality(R) <= MaxLineageDepth,
         NEW v, NEW a, Walk(g, R, a, v), a # <<>>, TooDeep(a[1][3])
  PROVE  R \subseteq v
<1> DEFINE Max == MaxLineageDepth
           Ends(i) == {j \in DOMAIN a : IsEnd(a[j]) /\ a[j][3] = i}
           end == [i \in 0 .. Max - 1 |-> CHOOSE j \in DOMAIN a : IsEnd(a[j]) /\ a[j][3] = i]
           path == [i \in 0 .. Max - 1 |-> a[end[i]][2]]
<1>1. a \in Seq(Items) /\ v \in SUBSET R /\ Stacked(a) /\ Distinct(a) /\ \A x \in MemberOf(a) : Placed(g, R, x, v)
  BY DEF Walk
<1>2. 1 \in DOMAIN a /\ a[1] \in Items
  BY <1>1
<1>3. a[1][3] \in 0 .. Max /\ Max \in Nat
  BY <1>2, ItemIs, DepthIs
<1>4. a[1][3] = Max
  BY <1>3 DEF TooDeep
<1>5. \A i \in 0 .. Max - 1 : \E j \in DOMAIN a : IsEnd(a[j]) /\ a[j][3] = i
  BY <1>1, <1>2, <1>4 DEF Stacked
<1>6. \A i \in 0 .. Max - 1 : end[i] \in DOMAIN a /\ IsEnd(a[end[i]]) /\ a[end[i]][3] = i
  BY <1>5
<1>7. DOMAIN path = 0 .. Max - 1 /\ \A i \in 0 .. Max - 1 : path[i] = a[end[i]][2]
  OBVIOUS
<1>8. path = [i \in 0 .. Max - 1 |-> path[i]]
  OBVIOUS
<1>. HIDE DEF end, path
<1>9. \A i \in 0 .. Max - 1 : path[i] \in v
  <2>. SUFFICES ASSUME NEW i \in 0 .. Max - 1 PROVE path[i] \in v
    OBVIOUS
  <2>1. a[end[i]] \in MemberOf(a) /\ IsEnd(a[end[i]])
    BY <1>6 DEF MemberOf
  <2>2. a[end[i]][2] \in v
    BY <1>1, <2>1 DEF Placed, IsEnd
  <2>. QED
    BY <1>7, <2>2
<1>10. \A i, j \in 0 .. Max - 1 : path[i] = path[j] => i = j
  <2>. SUFFICES ASSUME NEW i \in 0 .. Max - 1, NEW j \in 0 .. Max - 1, path[i] = path[j] PROVE i = j
    OBVIOUS
  <2>1. a[end[i]][2] = a[end[j]][2]
    BY <1>7
  <2>2. end[i] = end[j]
    BY <1>1, <1>6, <2>1 DEF Distinct
  <2>3. a[end[i]][3] = i /\ a[end[j]][3] = j
    BY <1>6
  <2>. QED
    BY <2>2, <2>3
<1>11. path \in Injection(0 .. Max - 1, v)
  <2>1. path \in [0 .. Max - 1 -> v]
    BY <1>8, <1>9
  <2>2. IsInjective(path)
    BY <1>7, <1>10 DEF IsInjective
  <2>. QED
    BY <2>1, <2>2 DEF Injection
<1>12. IsFiniteSet(v) /\ Cardinality(v) <= Cardinality(R) /\ (Cardinality(R) = Cardinality(v) => R = v)
  BY <1>1, FS_Subset
<1>13. Cardinality(0 .. Max - 1) <= Cardinality(v)
  BY <1>11, <1>12, FS_Injection
<1>14. Cardinality(0 .. Max - 1) = Max
  <2>1. 0 \in Int /\ Max - 1 \in Int
    BY <1>3
  <2>2. Cardinality(0 .. Max - 1) = IF 0 > Max - 1 THEN 0 ELSE (Max - 1) - 0 + 1
    BY <2>1, FS_Interval
  <2>. QED
    BY <1>3, <2>2
<1>15. Cardinality(R) \in Nat /\ Cardinality(v) \in Nat
  BY <1>12, FS_CardinalityType
<1>16. Cardinality(R) = Cardinality(v)
  BY <1>3, <1>12, <1>13, <1>14, <1>15
<1>. QED
  BY <1>12, <1>16
-----------------------------------------------------------------------------
\* The derivations met whose iteration has not ended.
Open(a) == {x[2] : x \in {y \in MemberOf(a) : IsEnd(y)}}

\* Lineage's answer has each derivation whose iteration has ended, once.
Listed(a, v, o) ==
  /\ NoRepeats(o) /\ v = MemberOf(o) \union Open(a) /\ Open(a) \cap MemberOf(o) = {}

Emitted(a, o) == IF IsEnd(a[1]) THEN Append(o, a[1][2]) ELSE o

LEMMA ListedKept ==
  ASSUME NEW g, IsGraph(g), NEW key, NEW R, IsReach(g, key, R), NEW v, NEW a, Walk(g, R, a, v), a # <<>>,
         NEW S, R \subseteq S, NEW o \in Seq(S), Listed(a, v, o)
  PROVE  Emitted(a, o) \in Seq(S) /\ Listed(Rest(g, a, v), Met(a, v), Emitted(a, o))
<1> DEFINE x == a[1]
           c == Calls(g, x, v)
           b == Rest(g, a, v)
           w == Met(a, v)
           tail == Tail(a)
<1>1. /\ a \in Seq(Items) /\ x \in Items /\ Placed(g, R, x, v)
      /\ Visiting(x, v) => Visited(g, x, c)
      /\ Entering(x) => Entered(g, x, c)
      /\ ~Entering(x) /\ ~Visiting(x, v) => c = <<>>
      /\ MemberOf(b) = MemberOf(c) \union MemberOf(tail)
      /\ MemberOf(a) = {x} \union MemberOf(tail)
      /\ c \in Seq(Items)
  BY StepIs
<1>2. w = IF x[1] = "visit" THEN v \union {x[2]} ELSE v
  BY DEF Met
<1>3. x[1] \in {"enter", "visit", "emit"} /\ v \subseteq R
  BY <1>1, ItemIs DEF Walk
<1>4. Emitted(a, o) = IF IsEnd(x) THEN Append(o, x[2]) ELSE o
  BY DEF Emitted
\* The first item is not below.
<1>5. IsEnd(x) => x[2] \notin Open(tail)
  <2>. SUFFICES ASSUME IsEnd(x), x[2] \in Open(tail) PROVE FALSE
    OBVIOUS
  <2>1. PICK y \in MemberOf(tail) : IsEnd(y) /\ y[2] = x[2]
    BY DEF Open
  <2>2. /\ DOMAIN a = 1 .. Len(a) /\ Len(a) \in Nat /\ Len(a) >= 1
        /\ DOMAIN tail = 1 .. Len(a) - 1 /\ \A k \in 1 .. Len(a) - 1 : tail[k] = a[k + 1]
    BY <1>1
  <2>3. PICK k \in 1 .. Len(a) - 1 : y = a[k + 1]
    BY <2>1, <2>2 DEF MemberOf
  <2>4. k + 1 \in DOMAIN a /\ 1 \in DOMAIN a /\ k + 1 # 1
    BY <2>2
  <2>5. IsEnd(a[k + 1]) /\ IsEnd(a[1]) /\ a[k + 1][2] = a[1][2]
    BY <2>1, <2>3
  <2>. QED
    BY <2>4, <2>5 DEF Walk, Distinct
<1>6. NoRepeats(o) /\ v = MemberOf(o) \union Open(a) /\ Open(a) \cap MemberOf(o) = {}
  BY DEF Listed
<1>. HIDE DEF x, c, b, w, tail
<1>7. Open(b) = Open(c) \union Open(tail)
  BY <1>1 DEF Open
<1>8. Open(a) = (IF IsEnd(x) THEN {x[2]} ELSE {}) \union Open(tail)
  BY <1>1 DEF Open
<1>9. CASE IsEnd(x)
  <2>1. x[1] = "emit" /\ c = <<>>
    BY <1>1, <1>9 DEF IsEnd, Entering, Visiting
  <2>2. Open(c) = {} /\ w = v
    BY <1>2, <2>1 DEF Open, MemberOf
  <2>3. x[2] \in R
    BY <1>1, <2>1 DEF Placed
  <2>4. x[2] \in S
    BY <2>3
  <2>5. /\ MemberOf(Append(o, x[2])) = MemberOf(o) \union {x[2]} /\ Append(o, x[2]) \in Seq(S)
        /\ x[2] \notin MemberOf(o) => NoRepeats(Append(o, x[2]))
    BY <1>6, <2>4, AppendIn, AppendMembers
  <2>6. x[2] \notin MemberOf(o) /\ Open(b) = Open(tail)
    BY <1>6, <1>7, <1>8, <1>9, <2>2
  <2>7. Emitted(a, o) = Append(o, x[2])
    BY <1>4, <1>9
  <2>8. Listed(b, w, Append(o, x[2]))
    BY <1>5, <1>6, <1>8, <1>9, <2>2, <2>5, <2>6 DEF Listed
  <2>. QED
    BY <2>5, <2>7, <2>8 DEF b, w
<1>10. CASE Visiting(x, v)
  <2>1. x[1] = "visit" /\ x[2] \notin v /\ ~IsEnd(x)
    BY <1>10 DEF Visiting, IsEnd
  <2>2. Open(c) = {x[2]}
    <3> DEFINE n == Len(c)
               last == <<"emit", x[2], x[3]>>
    <3> DEFINE Ids == {<<"enter", id, x[3] + 1>> : id \in g[x[2]]}
    <3>0. Visited(g, x, c)
      BY <1>1, <1>10
    <3>6. n > 0 /\ c[n] = last /\ \A k \in 1 .. n - 1 : c[k] \in Ids
      BY <3>0 DEF Visited
    <3>7. DOMAIN c = 1 .. n /\ n \in Nat
      <4>1. c \in Seq(Items)
        BY <1>1
      <4>. QED
        BY <4>1
    <3>8. \A y \in Ids : ~IsEnd(y)
      BY DEF IsEnd
    <3>. HIDE DEF Ids
    <3>1. /\ n > 0 /\ c[n] = last /\ DOMAIN c = 1 .. n /\ n \in Nat
          /\ \A k \in 1 .. n - 1 : c[k] \in Ids
      BY <3>6, <3>7
    <3>2. IsEnd(last) /\ last[2] = x[2]
      BY DEF IsEnd
    <3>3. \A k \in 1 .. n - 1 : ~IsEnd(c[k])
      BY <3>1, <3>8
    <3>. HIDE DEF n, last
    <3>4. n \in DOMAIN c /\ \A k \in DOMAIN c : k = n \/ k \in 1 .. n - 1
      BY <3>1
    <3>5. {y \in MemberOf(c) : IsEnd(y)} = {last}
      BY <3>1, <3>2, <3>3, <3>4 DEF MemberOf
    <3>. QED
      BY <3>2, <3>5 DEF Open
  <2>3. w = v \union {x[2]} /\ Open(b) = Open(a) \union {x[2]} /\ Emitted(a, o) = o
    BY <1>2, <1>4, <1>7, <1>8, <2>1, <2>2
  <2>4. Listed(b, w, o)
    BY <1>6, <2>1, <2>3 DEF Listed
  <2>. QED
    BY <2>3, <2>4 DEF b, w
<1>11. CASE ~IsEnd(x) /\ ~Visiting(x, v)
  <2>1. Open(c) = {}
    <3>1. CASE Entering(x)
      <4>1. \A y \in MemberOf(c) : ~IsEnd(y)
        BY <1>1, <3>1 DEF Entered, IsEnd
      <4>. QED
        BY <4>1 DEF Open
    <3>2. CASE ~Entering(x)
      BY <1>1, <1>11, <3>2 DEF Open, MemberOf
    <3>. QED
      BY <3>1, <3>2
  <2>2. w = v /\ Open(b) = Open(a) /\ Emitted(a, o) = o
    BY <1>2, <1>4, <1>7, <1>8, <1>11, <2>1 DEF Visiting
  <2>3. Listed(b, w, o)
    BY <1>6, <2>2 DEF Listed
  <2>. QED
    BY <2>2, <2>3 DEF b, w
<1>. QED
  BY <1>9, <1>10, <1>11
-----------------------------------------------------------------------------
\* The walk is deterministic: its steps from the query on, of which there are n.
Beginning(key) == <<<<<<"enter", key, 0>>>>, {}>>
After(g, s) == <<Rest(g, s[1], s[2]), Met(s[1], s[2])>>

Trace(g, key, f, n) ==
  /\ n \in Nat /\ f[0] = Beginning(key)
  /\ \A i \in 1 .. n : f[i - 1][1] # <<>> /\ f[i] = After(g, f[i - 1])

Traced(g, key, a, v) == \E f, n : Trace(g, key, f, n) /\ f[n] = <<a, v>>

LEMMA TraceBegins ==
  ASSUME NEW g, NEW key
  PROVE  Traced(g, key, <<<<"enter", key, 0>>>>, {})
<1> DEFINE s == Beginning(key)
           f == [i \in {0} |-> s]
<1>. HIDE DEF s
<1>1. f[0] = s
  OBVIOUS
<1>. HIDE DEF f
<1>2. Trace(g, key, f, 0)
  BY <1>1 DEF Trace, s
<1>3. f[0] = <<<<<<"enter", key, 0>>>>, {}>>
  BY <1>1 DEF s, Beginning
<1>. QED
  BY <1>2, <1>3 DEF Traced

LEMMA TraceGoesOn ==
  ASSUME NEW g, NEW key, NEW a, a # <<>>, NEW v, Traced(g, key, a, v)
  PROVE  Traced(g, key, Rest(g, a, v), Met(a, v))
<1>1. PICK f, n : Trace(g, key, f, n) /\ f[n] = <<a, v>>
  BY DEF Traced
<1>2. /\ n \in Nat /\ f[0] = Beginning(key)
      /\ \A i \in 1 .. n : f[i - 1][1] # <<>> /\ f[i] = After(g, f[i - 1])
  BY <1>1 DEF Trace
<1> DEFINE s == <<Rest(g, a, v), Met(a, v)>>
           h == [i \in 0 .. n + 1 |-> IF i = n + 1 THEN s ELSE f[i]]
<1>3. After(g, f[n]) = s /\ f[n][1] # <<>>
  <2>1. f[n][1] = a /\ f[n][2] = v
    BY <1>1
  <2>. QED
    BY <2>1 DEF After
<1>. HIDE DEF s
<1>4. h[n + 1] = s /\ \A i \in 0 .. n : h[i] = f[i]
  BY <1>2
<1>. HIDE DEF h
<1>5. h[0] = Beginning(key) /\ n + 1 \in Nat
  BY <1>2, <1>4
<1>6. ASSUME NEW i \in 1 .. n + 1 PROVE h[i - 1][1] # <<>> /\ h[i] = After(g, h[i - 1])
  <2>1. CASE i = n + 1
    <3>1. i - 1 = n /\ n \in 0 .. n
      BY <1>2, <2>1
    <3>2. h[i - 1] = f[n] /\ h[i] = s
      BY <1>4, <2>1, <3>1
    <3>. QED
      BY <1>3, <3>2
  <2>2. CASE i # n + 1
    <3>1. i \in 1 .. n /\ i \in 0 .. n /\ i - 1 \in 0 .. n
      BY <1>2, <2>2
    <3>2. h[i - 1] = f[i - 1] /\ h[i] = f[i]
      BY <1>4, <3>1
    <3>. QED
      BY <1>2, <3>1, <3>2
  <2>. QED
    BY <2>1, <2>2
<1>7. Trace(g, key, h, n + 1)
  BY <1>5, <1>6 DEF Trace
<1>. QED
  BY <1>4, <1>7 DEF Traced, s

\* The walk ends in one way.
LEMMA TraceEnds ==
  ASSUME NEW g, NEW key, NEW v, NEW w, Traced(g, key, <<>>, v), Traced(g, key, <<>>, w)
  PROVE  v = w
<1>1. ASSUME NEW f, NEW h, NEW n, NEW m, Trace(g, key, f, n), Trace(g, key, h, m),
             n <= m, f[n][1] = <<>>
      PROVE  f[n] = h[m]
  <2>1. /\ n \in Nat /\ m \in Nat /\ f[0] = h[0]
        /\ \A i \in 1 .. n : f[i] = After(g, f[i - 1])
        /\ \A i \in 1 .. m : h[i - 1][1] # <<>> /\ h[i] = After(g, h[i - 1])
    BY <1>1 DEF Trace
  <2> DEFINE G == {i \in 0 .. n : f[i] = h[i]}
  <2>2. 0 \in G
    BY <2>1
  <2>3. ASSUME NEW i \in 1 .. n, i - 1 \in G PROVE i \in G
    <3>1. i \in 1 .. m /\ i \in 0 .. n
      BY <1>1, <2>1
    <3>. QED
      BY <2>1, <2>3, <3>1
  <2>. HIDE DEF G
  <2>4. 0 .. n \subseteq G
    BY <2>1, <2>2, <2>3, UptoInduction
  <2>5. f[n] = h[n]
    BY <2>1, <2>4 DEF G
  <2>6. n = m
    <3>. SUFFICES ASSUME n < m PROVE FALSE
      BY <1>1, <2>1
    <3>1. n + 1 \in 1 .. m /\ (n + 1) - 1 = n
      BY <2>1
    <3>2. h[n][1] # <<>>
      BY <2>1, <3>1
    <3>. QED
      BY <1>1, <2>5, <3>2
  <2>. QED
    BY <2>5, <2>6
<1>2. PICK f, n : Trace(g, key, f, n) /\ f[n] = <<<<>>, v>>
  BY DEF Traced
<1>3. PICK h, m : Trace(g, key, h, m) /\ h[m] = <<<<>>, w>>
  BY DEF Traced
<1>4. n \in Nat /\ m \in Nat /\ f[n][1] = <<>> /\ h[m][1] = <<>>
  BY <1>2, <1>3 DEF Trace
<1>5. f[n] = h[m]
  <2>1. CASE n <= m
    <3>1. Trace(g, key, f, n) /\ Trace(g, key, h, m)
      BY <1>2, <1>3
    <3>. QED
      BY <1>1, <1>4, <2>1, <3>1
  <2>2. CASE m <= n
    <3>1. Trace(g, key, f, n) /\ Trace(g, key, h, m)
      BY <1>2, <1>3
    <3>2. h[m] = f[n]
      <4> DEFINE Same(p, q, i, j) == Trace(g, key, p, i) /\ Trace(g, key, q, j) /\ i <= j /\ p[i][1] = <<>> => p[i] = q[j]
      <4>1. \A p, q, i, j : Same(p, q, i, j)
        BY <1>1
      <4>2. Same(h, f, m, n)
        BY <4>1
      <4>. QED
        BY <1>4, <2>2, <3>1, <4>2
    <3>. QED
      BY <3>2
  <2>. QED
    BY <1>4, <2>1, <2>2
<1>. QED
  BY <1>2, <1>3, <1>5
-----------------------------------------------------------------------------
\* The records are graphs over the names, and what was read was recorded.
RecordsInv ==
  /\ IsGraph(inputs) /\ DOMAIN from = DOMAIN inputs
  /\ \A p \in DOMAIN from : from[p] \subseteq DOMAIN inputs
  /\ \A p \in DOMAIN writer : writer[p] \in DOMAIN inputs \union {NoPath}
  /\ stage = [tops |-> stage.tops, locals |-> stage.locals] /\ stage.locals \subseteq Locals
  /\ stage # NoStage => Namespace # NoPath

LEMMA RecordsStart == Init => RecordsInv
<1>. SUFFICES ASSUME Init PROVE RecordsInv
  OBVIOUS
<1>1. PICK g : Recorded(g) /\ IsGraph(g) /\ \A k \in DOMAIN Seeds : <<k>> \in DOMAIN g
  <2>1. CASE Recorded([p \in {<<k>> : k \in DOMAIN Seeds} |-> {}])
    <3> DEFINE g == [p \in {<<k>> : k \in DOMAIN Seeds} |-> {}]
    <3>1. IsGraph(g)
      <4>1. \A k \in DOMAIN Seeds : <<k>> \in Names
        BY LineageAssumption
      <4>2. DOMAIN g = {<<k>> : k \in DOMAIN Seeds} /\ \A p \in DOMAIN g : g[p] = {}
        OBVIOUS
      <4>. QED
        BY <4>1, <4>2 DEF IsGraph
    <3>2. \A k \in DOMAIN Seeds : <<k>> \in DOMAIN g
      OBVIOUS
    <3>. QED
      BY <2>1, <3>1, <3>2
  <2>2. CASE \E g \in Restored : Recorded(g)
    BY <2>2, LineageAssumption
  <2>. QED
    BY <2>1, <2>2 DEF Init
<1>2. /\ inputs = g /\ from = [p \in DOMAIN g |-> Needs(g, p)]
      /\ writer = [p \in UNION {Seeds[k] : k \in DOMAIN Seeds} |-> <<p[1]>>]
      /\ stage = NoStage
  BY <1>1 DEF Recorded
<1>3. DOMAIN from = DOMAIN inputs /\ \A p \in DOMAIN from : from[p] \subseteq DOMAIN inputs
  BY <1>2, NeedsAreRecords
<1>4. ASSUME NEW p \in DOMAIN writer PROVE writer[p] \in DOMAIN inputs
  <2>1. PICK k \in DOMAIN Seeds : p \in Seeds[k]
    BY <1>2
  <2>2. p[1] = k /\ writer[p] = <<p[1]>>
    BY <1>2, <2>1, LineageAssumption
  <2>. QED
    BY <1>1, <1>2, <2>1, <2>2
<1>5. stage = [tops |-> stage.tops, locals |-> stage.locals] /\ stage.locals = {}
  BY <1>2 DEF NoStage
<1>. QED
  BY <1>1, <1>2, <1>3, <1>4, <1>5 DEF RecordsInv

\* A write to p records what was read, of what has been written.
LEMMA DeriveKeeps ==
  ASSUME RecordsInv, NEW p \in Names, NEW keys \in SUBSET Names, NEW sources \in SUBSET DOMAIN inputs,
         NEW whole, Derive(p, keys, sources, whole)
  PROVE  /\ IsGraph(inputs)' /\ (DOMAIN from = DOMAIN inputs)'
         /\ (\A q \in DOMAIN from : from[q] \subseteq DOMAIN inputs)'
         /\ (\A q \in DOMAIN writer : writer[q] \in DOMAIN inputs \union {NoPath})'
<1>1. /\ inputs' = [q \in DOMAIN inputs \union {p} |-> IF q = p THEN keys ELSE inputs[q]]
      /\ from' = [q \in DOMAIN from \union {p} |-> IF q = p THEN sources ELSE from[q]]
      /\ Store(p, p, whole)
  BY DEF Derive
<1>2. writer' = [q \in {q \in DOMAIN writer : ~Prefix(p, q)} \union {p} |-> IF q = p THEN p ELSE writer[q]]
  BY <1>1 DEF Store
<1>3. /\ IsGraph(inputs) /\ DOMAIN from = DOMAIN inputs
      /\ \A q \in DOMAIN from : from[q] \subseteq DOMAIN inputs
      /\ \A q \in DOMAIN writer : writer[q] \in DOMAIN inputs \union {NoPath}
  BY DEF RecordsInv
<1>4. /\ DOMAIN inputs' = DOMAIN inputs \union {p} /\ DOMAIN from' = DOMAIN inputs \union {p}
      /\ \A q \in DOMAIN inputs' : inputs'[q] = IF q = p THEN keys ELSE inputs[q]
      /\ \A q \in DOMAIN from' : from'[q] = IF q = p THEN sources ELSE from[q]
  BY <1>1, <1>3
<1>5. \A q \in DOMAIN writer' : writer'[q] = p \/ (q \in DOMAIN writer /\ writer'[q] = writer[q])
  BY <1>2
<1>6. IsGraph(inputs')
  BY <1>3, <1>4 DEF IsGraph
<1>7. \A q \in DOMAIN from' : from'[q] \subseteq DOMAIN inputs'
  BY <1>3, <1>4
<1>8. \A q \in DOMAIN writer' : writer'[q] \in DOMAIN inputs' \union {NoPath}
  BY <1>3, <1>4, <1>5
<1>. QED
  BY <1>4, <1>6, <1>7, <1>8

LEMMA WritersAreRecords ==
  ASSUME RecordsInv, NEW p
  PROVE  Writers(p) \subseteq DOMAIN inputs
BY DEF RecordsInv, Writers

LEMMA SingleKeeps ==
  ASSUME RecordsInv, NEW p \in Outputs, NEW read \in Reads, Single(p, read)
  PROVE  RecordsInv'
<1>1. p \in Names /\ read \subseteq Names
  BY LineageAssumption
<1>2. Resolved(References(read)) \in SUBSET Names
  BY <1>1 DEF Resolved, References
<1>3. UNION {Writers(r) : r \in read} \in SUBSET DOMAIN inputs
  BY WritersAreRecords
<1>4. Derive(p, Resolved(References(read)), UNION {Writers(r) : r \in read}, References(read) = read) /\ stage' = stage
  BY DEF Single
<1> DEFINE whole == References(read) = read
<1>5. Derive(p, Resolved(References(read)), UNION {Writers(r) : r \in read}, whole)
  BY <1>4
<1>. HIDE DEF whole
<1>6. /\ IsGraph(inputs)' /\ (DOMAIN from = DOMAIN inputs)'
      /\ (\A q \in DOMAIN from : from[q] \subseteq DOMAIN inputs)'
      /\ (\A q \in DOMAIN writer : writer[q] \in DOMAIN inputs \union {NoPath})'
  BY <1>1, <1>2, <1>3, <1>5, DeriveKeeps
<1>. QED
  BY <1>4, <1>6 DEF RecordsInv

LEMMA ExpressionKeeps ==
  ASSUME RecordsInv, NEW e \in Locals, NEW names \in Reads, Expression(e, names)
  PROVE  RecordsInv'
<1> DEFINE read == {r \in names : Readable(r)}
           kept == References(names) \intersect read
           p == Namespace \o <<e>>
           keys == {QualifyLocal(r) : r \in kept}
           sources == UNION {Writers(InScope(r)) : r \in read}
           whole == kept = read
<1>1. stage # NoStage /\ Derive(p, keys, sources, whole) /\ stage' = [stage EXCEPT !.locals = @ \union {e}]
  BY DEF Expression
<1>2. Namespace # NoPath /\ stage = [tops |-> stage.tops, locals |-> stage.locals] /\ stage.locals \subseteq Locals
  BY <1>1 DEF RecordsInv
<1>3. p \in Names /\ names \subseteq Names /\ \A r \in names : r[1] \in Locals => Namespace \o r \in Names
  BY <1>2, LineageAssumption DEF NoPath
<1>4. keys \in SUBSET Names
  <2>. SUFFICES ASSUME NEW r \in kept PROVE QualifyLocal(r) \in Names
    OBVIOUS
  <2>1. r \in names
    OBVIOUS
  <2>2. CASE IsLocal(r)
    BY <1>2, <1>3, <2>1, <2>2 DEF IsLocal, QualifyLocal
  <2>3. CASE ~IsLocal(r)
    BY <1>3, <2>1, <2>3 DEF QualifyLocal
  <2>. QED
    BY <2>2, <2>3
<1>5. sources \in SUBSET DOMAIN inputs
  BY WritersAreRecords
<1>. HIDE DEF read, kept, p, keys, sources, whole
<1>6. /\ IsGraph(inputs)' /\ (DOMAIN from = DOMAIN inputs)'
      /\ (\A q \in DOMAIN from : from[q] \subseteq DOMAIN inputs)'
      /\ (\A q \in DOMAIN writer : writer[q] \in DOMAIN inputs \union {NoPath})'
  BY <1>1, <1>3, <1>4, <1>5, DeriveKeeps
<1>7. stage' = [tops |-> stage'.tops, locals |-> stage'.locals] /\ stage'.locals = stage.locals \union {e}
  BY <1>1, <1>2
<1>. QED
  BY <1>2, <1>6, <1>7 DEF RecordsInv

LEMMA SetKeeps ==
  ASSUME RecordsInv, NEW p \in Outputs, Set(p)
  PROVE  RecordsInv'
<1>1. Store(p, NoPath, TRUE) /\ inputs' = inputs /\ from' = from /\ stage' = stage
  BY DEF Set
<1>2. writer' = [q \in {q \in DOMAIN writer : ~Prefix(p, q)} \union {p} |-> IF q = p THEN NoPath ELSE writer[q]]
  BY <1>1 DEF Store
<1>3. \A q \in DOMAIN writer' : writer'[q] = NoPath \/ (q \in DOMAIN writer /\ writer'[q] = writer[q])
  BY <1>2
<1>4. \A q \in DOMAIN writer' : writer'[q] \in DOMAIN inputs \union {NoPath}
  BY <1>3 DEF RecordsInv
<1>. QED
  BY <1>1, <1>4 DEF RecordsInv

LEMMA MergeKeeps ==
  ASSUME RecordsInv, NEW e \in Elements, NEW g \in ElementGraphs, Merge(e, g)
  PROVE  RecordsInv'
<1> DEFINE new == [p \in {e \o q : q \in DOMAIN g} |-> CHOOSE q \in DOMAIN g : e \o q = p]
           All == DOMAIN inputs \union DOMAIN new
<1>1. /\ inputs' = [p \in All |-> IF p \in DOMAIN new THEN PrefixInputs(e, g[new[p]]) ELSE inputs[p]]
      /\ from' = [p \in All |-> IF p \in DOMAIN new THEN {e \o q : q \in Needs(g, new[p])} ELSE from[p]]
      /\ writer' = writer /\ stage' = stage
  BY DEF Merge
<1>2. DOMAIN new = {e \o q : q \in DOMAIN g} /\ \A p \in DOMAIN new : new[p] \in DOMAIN g
  OBVIOUS
<1>. HIDE DEF new
<1>3. \A p \in DOMAIN g : e \o p \in Names /\ \A key \in g[p] : e \o key \in Names
  BY LineageAssumption
<1>4. \A p \in DOMAIN new : p \in Names /\ PrefixInputs(e, g[new[p]]) \subseteq Names
  BY <1>2, <1>3 DEF PrefixInputs
<1>5. \A p \in DOMAIN new : {e \o q : q \in Needs(g, new[p])} \subseteq DOMAIN new
  BY <1>2, NeedsAreRecords
<1>6. /\ IsGraph(inputs) /\ DOMAIN from = DOMAIN inputs
      /\ \A q \in DOMAIN from : from[q] \subseteq DOMAIN inputs
      /\ \A q \in DOMAIN writer : writer[q] \in DOMAIN inputs \union {NoPath}
  BY DEF RecordsInv
<1>7. /\ DOMAIN inputs' = All /\ DOMAIN from' = All
      /\ \A p \in All : inputs'[p] = IF p \in DOMAIN new THEN PrefixInputs(e, g[new[p]]) ELSE inputs[p]
      /\ \A p \in All : from'[p] = IF p \in DOMAIN new THEN {e \o q : q \in Needs(g, new[p])} ELSE from[p]
  BY <1>1
<1>8. IsGraph(inputs')
  BY <1>4, <1>6, <1>7 DEF IsGraph
<1>9. \A p \in DOMAIN from' : from'[p] \subseteq DOMAIN inputs'
  BY <1>5, <1>6, <1>7
<1>10. \A q \in DOMAIN writer' : writer'[q] \in DOMAIN inputs' \union {NoPath}
  BY <1>1, <1>6, <1>7
<1>. QED
  BY <1>1, <1>7, <1>8, <1>9, <1>10 DEF RecordsInv

\* What a query leaves alone.
Querying ==
  \/ \E key \in Names : Lineage(key)
  \/ Explain \/ Return \/ Forget \/ Truncate \/ Enter \/ Skip \/ Visit \/ Emit

LEMMA QueriesOnlyRead == Querying => UNCHANGED scope
BY DEF Querying, Lineage, Ask, Explain, Return, Forget, Truncate, Enter, Skip, Visit, Emit

Writing ==
  \/ \E p \in Outputs : Set(p) \/ \E read \in Reads : Single(p, read)
  \/ Begin \/ End
  \/ \E e \in Locals, names \in Reads : Expression(e, names)
  \/ \E e \in Elements, g \in ElementGraphs : Merge(e, g)

LEMMA WritesWhileIdle == Writing => pc = "idle" /\ UNCHANGED query
<1>1. ASSUME NEW p, Set(p) PROVE pc = "idle" /\ UNCHANGED query
  BY <1>1 DEF Set
<1>2. ASSUME NEW p, NEW read, Single(p, read) PROVE pc = "idle" /\ UNCHANGED query
  BY <1>2 DEF Single
<1>3. Begin \/ End => pc = "idle" /\ UNCHANGED query
  BY DEF Begin, End
<1>4. ASSUME NEW e, NEW names, Expression(e, names) PROVE pc = "idle" /\ UNCHANGED query
  BY <1>4 DEF Expression
<1>5. ASSUME NEW e, NEW g, Merge(e, g) PROVE pc = "idle" /\ UNCHANGED query
  BY <1>5 DEF Merge
<1>. QED
  BY <1>1, <1>2, <1>3, <1>4, <1>5 DEF Writing

LEMMA NextIs == Next => Writing \/ Querying
BY DEF Next, Writing, Querying

LEMMA RecordsKept == RecordsInv /\ [Next]_vars => RecordsInv'
<1>. SUFFICES ASSUME RecordsInv, [Next]_vars PROVE RecordsInv'
  OBVIOUS
<1>1. CASE UNCHANGED scope
  BY <1>1 DEF scope, RecordsInv
<1>2. CASE Writing
  <2>1. CASE \E p \in Outputs : Set(p)
    BY <2>1, SetKeeps
  <2>2. CASE \E p \in Outputs, read \in Reads : Single(p, read)
    BY <2>2, SingleKeeps
  <2>3. CASE Begin
    <3>1. /\ Namespace # NoPath /\ stage' = [tops |-> {q[1] : q \in DOMAIN writer}, locals |-> {}]
          /\ UNCHANGED <<writer, inputs, from>>
      BY <2>3 DEF Begin
    <3>2. stage' = [tops |-> stage'.tops, locals |-> stage'.locals] /\ stage'.locals = {}
      BY <3>1
    <3>. QED
      BY <3>1, <3>2 DEF RecordsInv
  <2>4. CASE End
    <3>1. stage' = NoStage /\ UNCHANGED <<writer, inputs, from>>
      BY <2>4 DEF End
    <3>2. stage' = [tops |-> stage'.tops, locals |-> stage'.locals] /\ stage'.locals = {}
      BY <3>1 DEF NoStage
    <3>. QED
      BY <3>1, <3>2 DEF RecordsInv
  <2>5. CASE \E e \in Locals, names \in Reads : Expression(e, names)
    BY <2>5, ExpressionKeeps
  <2>6. CASE \E e \in Elements, g \in ElementGraphs : Merge(e, g)
    BY <2>6, MergeKeeps
  <2>. QED
    BY <1>2, <2>1, <2>2, <2>3, <2>4, <2>5, <2>6 DEF Writing
<1>. QED
  BY <1>1, <1>2, NextIs, QueriesOnlyRead DEF vars
-----------------------------------------------------------------------------
\* The five steps of the walk are one.
Stepping == Truncate \/ Enter \/ Skip \/ Visit \/ Emit

\* What Explain prints of the first item.
Shown(a) ==
  IF a[1][1] = "visit" THEN {a[1][2]} ELSE IF Cut(a) THEN {NoPath} ELSE {}

Walks ==
  /\ pc \in {"lineage", "explain"} /\ agenda # <<>>
  /\ agenda' = Rest(inputs, agenda, visited) /\ visited' = Met(agenda, visited)
  /\ out' = (IF pc = "lineage" THEN Emitted(agenda, out) ELSE out)
  /\ IF pc = "explain" /\ Shown(agenda) # {}
     THEN \E p \in Shown(agenda) : tree' = Append(tree, <<agenda[1][3], p>>)
     ELSE tree' = tree
  /\ UNCHANGED <<scope, pc, target>>

LEMMA WalksIs ==
  ASSUME agenda \in Seq(Items), Stepping
  PROVE  Walks
<1> DEFINE x == agenda[1]
<1>1. agenda # <<>> /\ pc \in {"lineage", "explain"} /\ UNCHANGED <<scope, pc, target>>
  BY DEF Stepping, Truncate, Enter, Skip, Visit, Emit, Asked
<1>2. x \in Items /\ Head(agenda) = x /\ <<>> \o Tail(agenda) = Tail(agenda)
  BY <1>1, TailIs
<1>3. Item = x
  BY <1>2 DEF Item
<1>4. \A c : Rest(inputs, agenda, visited) = c \o Tail(agenda) \/ c # Calls(inputs, x, visited)
  BY DEF Rest
<1>5. Met(agenda, visited) = IF x[1] = "visit" THEN visited \union {x[2]} ELSE visited
  BY DEF Met
<1>6. Emitted(agenda, out) = IF x[1] = "emit" THEN Append(out, x[2]) ELSE out
  BY DEF Emitted, IsEnd
<1>7. Shown(agenda) = IF x[1] = "visit" THEN {x[2]} ELSE IF x[1] = "enter" /\ TooDeep(x[3]) THEN {NoPath} ELSE {}
  BY DEF Shown, Cut
<1>8. Walks <=> /\ agenda' = Rest(inputs, agenda, visited) /\ visited' = Met(agenda, visited)
                /\ out' = (IF pc = "lineage" THEN Emitted(agenda, out) ELSE out)
                /\ IF pc = "explain" /\ Shown(agenda) # {}
                   THEN \E p \in Shown(agenda) : tree' = Append(tree, <<x[3], p>>)
                   ELSE tree' = tree
  BY <1>1 DEF Walks
<1>. HIDE DEF x
<1>9. CASE Truncate
  <2>1. /\ x[1] = "enter" /\ TooDeep(x[3]) /\ agenda' = Tail(agenda)
        /\ tree' = (IF pc = "explain" THEN Append(tree, <<x[3], NoPath>>) ELSE tree)
        /\ visited' = visited /\ out' = out
    BY <1>3, <1>9 DEF Truncate, Mark, Line
  <2>2. Calls(inputs, x, visited) = <<>>
    BY <2>1 DEF Calls
  <2>. QED
    BY <1>2, <1>4, <1>5, <1>6, <1>7, <1>8, <2>1, <2>2
<1>10. CASE Enter
  <2>1. /\ x[1] = "enter" /\ ~TooDeep(x[3]) /\ tree' = tree /\ visited' = visited /\ out' = out
        /\ agenda' = Visits(Sorted(DerivationsFor(inputs, x[2])), x[3]) \o Tail(agenda)
    BY <1>3, <1>10 DEF Enter, Visits
  <2>2. Calls(inputs, x, visited) = Visits(Sorted(DerivationsFor(inputs, x[2])), x[3])
    BY <2>1 DEF Calls
  <2>. QED
    BY <1>4, <1>5, <1>6, <1>7, <1>8, <2>1, <2>2
<1>11. CASE Skip
  <2>1. /\ x[1] = "visit" /\ x[2] \in visited /\ agenda' = Tail(agenda)
        /\ tree' = (IF pc = "explain" THEN Append(tree, <<x[3], x[2]>>) ELSE tree)
        /\ visited' = visited /\ out' = out
    BY <1>3, <1>11 DEF Skip, Seen, Line
  <2>2. Calls(inputs, x, visited) = <<>> /\ visited \union {x[2]} = visited
    BY <2>1 DEF Calls
  <2>. QED
    BY <1>2, <1>4, <1>5, <1>6, <1>7, <1>8, <2>1, <2>2
<1>12. CASE Visit
  <2>1. /\ x[1] = "visit" /\ x[2] \notin visited
        /\ tree' = (IF pc = "explain" THEN Append(tree, <<x[3], x[2]>>) ELSE tree)
        /\ visited' = visited \union {x[2]} /\ out' = out
        /\ agenda' = (Enters(Sorted(inputs[x[2]]), x[3] + 1) \o <<<<"emit", x[2], x[3]>>>>) \o Tail(agenda)
    BY <1>3, <1>12 DEF Visit, Seen, Line, Plan, Enters
  <2>2. Calls(inputs, x, visited) = Enters(Sorted(inputs[x[2]]), x[3] + 1) \o <<<<"emit", x[2], x[3]>>>>
    BY <2>1 DEF Calls
  <2>. QED
    BY <1>4, <1>5, <1>6, <1>7, <1>8, <2>1, <2>2
<1>13. CASE Emit
  <2>1. /\ x[1] = "emit" /\ agenda' = Tail(agenda) /\ tree' = tree /\ visited' = visited
        /\ out' = (IF pc = "lineage" THEN Append(out, x[2]) ELSE out)
    BY <1>3, <1>13 DEF Emit
  <2>2. Calls(inputs, x, visited) = <<>>
    BY <2>1 DEF Calls
  <2>. QED
    BY <1>2, <1>4, <1>5, <1>6, <1>7, <1>8, <2>1, <2>2
<1>. QED
  BY <1>9, <1>10, <1>11, <1>12, <1>13 DEF Stepping
-----------------------------------------------------------------------------
Reachable == Reach(inputs, target)
Lines == Nat \X (Names \union {NoPath})

\* While a query walks, and while nothing has been cut off, all that can be reached has
\* been met or will be.
WalkInv ==
  pc \in {"lineage", "explain"} =>
    /\ target \in Names /\ Walk(inputs, Reachable, agenda, visited) /\ Traced(inputs, target, agenda, visited)
    /\ Fits \/ (pc = "explain" /\ NoPath \notin Explained) => Cover(inputs, target, agenda, visited)

\* Lineage's answer, which Explain's walk ends at too.
Answer ==
  /\ out \in Seq(DOMAIN inputs) /\ NoRepeats(out) /\ MemberOf(out) \subseteq Reachable
  /\ Fits => Reachable \subseteq MemberOf(out)

ListInv ==
  pc = "lineage" => out \in Seq(DOMAIN inputs) /\ Listed(agenda, visited, out) /\ tree = <<>>

ExplainInv ==
  pc = "explain" =>
    /\ Answer /\ Traced(inputs, target, <<>>, MemberOf(out))
    /\ tree \in Seq(Lines) /\ Explained \ {NoPath} = visited

RestInv ==
  /\ pc \in {"idle", "lineage", "explain", "answered"}
  /\ pc \in {"idle", "answered"} => agenda = <<>>
  /\ pc = "idle" => visited = {} /\ out = <<>> /\ tree = <<>>
  /\ pc = "answered" => Answer /\ visited = MemberOf(out) /\ NothingLostSilently

QueryInv == WalkInv /\ ListInv /\ ExplainInv /\ RestInv

LEMMA ReachedNow ==
  ASSUME RecordsInv
  PROVE  IsReach(inputs, target, Reachable) /\ IsFiniteSet(Reachable) /\ Reachable \subseteq DOMAIN inputs
<1>1. IsGraph(inputs)
  BY DEF RecordsInv
<1>2. IsReach(inputs, target, Reachable) /\ IsFiniteSet(Reachable)
  BY <1>1, ReachIs DEF Reachable
<1>. QED
  BY <1>2 DEF IsReach

LEMMA QueryStarts == Init => QueryInv
<1>. SUFFICES ASSUME Init PROVE QueryInv
  OBVIOUS
<1>1. PICK g : Recorded(g)
  BY DEF Init
<1>2. pc = "idle" /\ agenda = <<>> /\ visited = {} /\ out = <<>> /\ tree = <<>>
  BY <1>1 DEF Recorded
<1>. QED
  BY <1>2 DEF QueryInv, WalkInv, ListInv, ExplainInv, RestInv

\* A query begins with one call.
LEMMA AskBegins ==
  ASSUME RecordsInv, NEW key \in Names, NEW mode \in {"lineage", "explain"}, Ask(mode, key)
  PROVE  WalkInv'
<1>1. pc' = mode /\ target' = key /\ agenda' = <<<<"enter", key, 0>>>> /\ visited' = {} /\ inputs' = inputs
  BY DEF Ask, scope
<1> DEFINE x == <<"enter", key, 0>>
           a == <<x>>
           Q == Reach(inputs, key)
<1>2. IsGraph(inputs)
  BY DEF RecordsInv
<1>3. IsReach(inputs, key, Q)
  BY <1>2, ReachIs
<1>4. x \in Items /\ x[1] = "enter" /\ x[2] = key /\ x[3] = 0
  BY DepthIs DEF Items
<1>. HIDE DEF x
<1>5. a \in Seq(Items) /\ DOMAIN a = {1} /\ a[1] = x /\ MemberOf(a) = {x}
  BY <1>4 DEF MemberOf
<1>. HIDE DEF a
<1>6. Walk(inputs, Q, a, {})
  <2>1. Stacked(a)
    BY <1>4, <1>5 DEF Stacked
  <2>2. Distinct(a)
    BY <1>5 DEF Distinct
  <2>3. Placed(inputs, Q, x, {})
    BY <1>3, <1>4 DEF Placed, IsReach
  <2>. QED
    BY <1>5, <2>1, <2>2, <2>3 DEF Walk
<1>7. Cover(inputs, key, a, {})
  <2>1. Pending(inputs, a) = DerivationsFor(inputs, key)
    BY <1>4, <1>5 DEF Pending, Stands
  <2>. QED
    BY <2>1 DEF Cover
<1>8. Traced(inputs, key, a, {})
  BY TraceBegins DEF a, x
<1>9. agenda' = a /\ Reachable' = Q
  BY <1>1 DEF a, x, Reachable
<1>. HIDE DEF Q
<1>. QED
  BY <1>1, <1>6, <1>7, <1>8, <1>9 DEF WalkInv

\* One more line.
PathsOf(s) == {s[k][2] : k \in DOMAIN s}

LEMMA LinesAre ==
  ASSUME NEW s \in Seq(Lines), NEW depth \in Nat, NEW p \in Names \union {NoPath}
  PROVE  /\ Append(s, <<depth, p>>) \in Seq(Lines)
         /\ PathsOf(Append(s, <<depth, p>>)) = PathsOf(s) \union {p}
<1> DEFINE x == <<depth, p>>
           t == Append(s, x)
<1>1. x \in Lines /\ x[2] = p
  BY DEF Lines
<1>. HIDE DEF x
<1>2. /\ t \in Seq(Lines) /\ Len(s) \in Nat /\ DOMAIN s = 1 .. Len(s) /\ DOMAIN t = 1 .. Len(s) + 1
      /\ t[Len(s) + 1] = x /\ \A j \in 1 .. Len(s) : t[j] = s[j]
  BY <1>1, AppendIn
<1>. HIDE DEF t
<1>3. DOMAIN t = DOMAIN s \union {Len(s) + 1}
  BY <1>2
<1>4. PathsOf(t) = PathsOf(s) \union {p}
  BY <1>1, <1>2, <1>3 DEF PathsOf
<1>. QED
  BY <1>2, <1>4 DEF t, x

\* A step of the walk.
LEMMA WalksKeepWalk ==
  ASSUME RecordsInv, QueryInv, Walks
  PROVE  /\ WalkInv' /\ inputs' = inputs /\ target' = target /\ Reachable' = Reachable /\ pc' = pc
         /\ Fits' = Fits
         /\ pc = "explain" => /\ tree' \in Seq(Lines) /\ Explained' = Explained \union Shown(agenda)
<1>1. /\ inputs' = inputs /\ target' = target /\ pc' = pc /\ pc \in {"lineage", "explain"} /\ agenda # <<>>
      /\ agenda' = Rest(inputs, agenda, visited) /\ visited' = Met(agenda, visited)
  BY DEF Walks, scope
<1>2. Reachable' = Reachable /\ Fits' = Fits
  BY <1>1 DEF Reachable, Fits
<1>3. /\ target \in Names /\ Walk(inputs, Reachable, agenda, visited) /\ Traced(inputs, target, agenda, visited)
      /\ Fits \/ (pc = "explain" /\ NoPath \notin Explained) => Cover(inputs, target, agenda, visited)
  BY <1>1 DEF QueryInv, WalkInv
<1>4. IsGraph(inputs) /\ IsReach(inputs, target, Reachable) /\ IsFiniteSet(Reachable)
  BY ReachedNow DEF RecordsInv
<1>. HIDE DEF Reachable
<1>5. Walk(inputs, Reachable, agenda', visited')
  BY <1>1, <1>3, <1>4, WalkKept
<1>6. Traced(inputs, target, agenda', visited')
  BY <1>1, <1>3, TraceGoesOn
<1>7. agenda[1] \in Items /\ Placed(inputs, Reachable, agenda[1], visited)
  BY <1>1, <1>3, <1>4, StepIs
<1>8. agenda[1][3] \in Nat /\ agenda[1][2] \in Names
  BY <1>7, ItemIs, DepthIs
<1>9. pc = "explain" => /\ tree' \in Seq(Lines) /\ Explained' = Explained \union Shown(agenda)
  <2>. SUFFICES ASSUME pc = "explain" PROVE tree' \in Seq(Lines) /\ Explained' = Explained \union Shown(agenda)
    OBVIOUS
  <2>1. tree \in Seq(Lines)
    BY DEF QueryInv, ExplainInv
  <2>2. CASE Shown(agenda) # {}
    <3>1. PICK p \in Shown(agenda) : tree' = Append(tree, <<agenda[1][3], p>>)
      BY <2>2 DEF Walks
    <3>2. Shown(agenda) = {p} /\ p \in Names \union {NoPath}
      BY <1>8, <3>1 DEF Shown
    <3>3. /\ Append(tree, <<agenda[1][3], p>>) \in Seq(Lines)
          /\ PathsOf(Append(tree, <<agenda[1][3], p>>)) = PathsOf(tree) \union {p}
      BY <1>8, <2>1, <3>2, LinesAre
    <3>. QED
      BY <3>1, <3>2, <3>3 DEF Explained, PathsOf
  <2>3. CASE Shown(agenda) = {}
    <3>1. tree' = tree
      BY <2>3 DEF Walks
    <3>. QED
      BY <2>1, <2>3, <3>1 DEF Explained
  <2>. QED
    BY <2>2, <2>3
<1>10. ASSUME Fits \/ (pc = "explain" /\ NoPath \notin Explained')
       PROVE  Cover(inputs, target, agenda', visited')
  <2>1. Fits \/ (pc = "explain" /\ NoPath \notin Explained)
    BY <1>9, <1>10
  <2>2. Cover(inputs, target, agenda, visited)
    BY <1>3, <2>1
  <2>3. Cut(agenda) => DerivationsFor(inputs, agenda[1][2]) \subseteq visited
    <3>. SUFFICES ASSUME Cut(agenda) PROVE DerivationsFor(inputs, agenda[1][2]) \subseteq visited
      OBVIOUS
    <3>1. agenda[1][1] = "enter" /\ TooDeep(agenda[1][3])
      BY DEF Cut
    <3>2. NoPath \in Shown(agenda)
      BY <3>1 DEF Shown, Cut
    <3>3. Fits
      BY <1>9, <1>10, <3>2
    <3>4. Cardinality(Reachable) <= MaxLineageDepth
      BY <3>3 DEF Fits, Reachable
    <3>5. Reachable \subseteq visited
      BY <1>1, <1>3, <1>4, <3>1, <3>4, DeepMeetsAll
    <3>. QED
      BY <1>7, <3>1, <3>5 DEF Placed
  <2>. QED
    BY <1>1, <1>3, <1>4, <2>2, <2>3, CoverKept
<1>11. WalkInv'
  <2>1. Fits' \/ (pc' = "explain" /\ NoPath \notin Explained') => Cover(inputs, target, agenda', visited')
    BY <1>1, <1>2, <1>10
  <2>. QED
    BY <1>1, <1>2, <1>3, <1>5, <1>6, <2>1 DEF WalkInv
<1>. QED
  BY <1>1, <1>2, <1>9, <1>11

LEMMA WalksKeepQuery ==
  ASSUME RecordsInv, QueryInv, Walks
  PROVE  QueryInv'
<1>1. /\ WalkInv' /\ inputs' = inputs /\ target' = target /\ Reachable' = Reachable /\ pc' = pc /\ Fits' = Fits
      /\ pc = "explain" => /\ tree' \in Seq(Lines) /\ Explained' = Explained \union Shown(agenda)
  BY WalksKeepWalk
<1>2. /\ pc \in {"lineage", "explain"} /\ agenda # <<>>
      /\ agenda' = Rest(inputs, agenda, visited) /\ visited' = Met(agenda, visited)
      /\ out' = (IF pc = "lineage" THEN Emitted(agenda, out) ELSE out)
      /\ pc = "lineage" => tree' = tree
  BY DEF Walks
<1>3. IsGraph(inputs) /\ IsReach(inputs, target, Reachable) /\ Reachable \subseteq DOMAIN inputs
  BY ReachedNow DEF RecordsInv
<1>4. Walk(inputs, Reachable, agenda, visited)
  BY <1>2 DEF QueryInv, WalkInv
<1>. HIDE DEF Reachable
<1>5. ListInv'
  <2>. SUFFICES ASSUME pc = "lineage"
                PROVE  out' \in Seq(DOMAIN inputs) /\ Listed(agenda', visited', out') /\ tree' = <<>>
    BY <1>1 DEF ListInv
  <2>1. out \in Seq(DOMAIN inputs) /\ Listed(agenda, visited, out) /\ tree = <<>>
    BY DEF QueryInv, ListInv
  <2> DEFINE S == DOMAIN inputs
  <2>2. out \in Seq(S) /\ Reachable \subseteq S
    BY <1>3, <2>1
  <2>. HIDE DEF S
  <2>3. Emitted(agenda, out) \in Seq(S) /\ Listed(Rest(inputs, agenda, visited), Met(agenda, visited), Emitted(agenda, out))
    BY <1>2, <1>3, <1>4, <2>1, <2>2, ListedKept
  <2>. QED
    BY <1>2, <2>1, <2>3 DEF S
<1>6. ExplainInv'
  <2>. SUFFICES ASSUME pc = "explain" PROVE ExplainInv'
    BY <1>1 DEF ExplainInv
  <2>1. out' = out
    BY <1>2
  <2>2. /\ Answer /\ Traced(inputs, target, <<>>, MemberOf(out))
        /\ tree \in Seq(Lines) /\ Explained \ {NoPath} = visited
    BY DEF QueryInv, ExplainInv
  <2>3. Answer'
    BY <1>1, <2>1, <2>2 DEF Answer
  <2>4. Explained' \ {NoPath} = visited'
    <3>1. agenda[1] \in Items /\ Placed(inputs, Reachable, agenda[1], visited)
      BY <1>2, <1>3, <1>4, StepIs
    <3>2. agenda[1][2] \in Names
      BY <3>1, ItemIs
    <3>3. agenda[1][2] # NoPath
      BY <3>2, LineageAssumption DEF NoPath
    <3>4. CASE agenda[1][1] = "visit"
      <4>1. Shown(agenda) = {agenda[1][2]} /\ visited' = visited \union {agenda[1][2]}
        BY <1>2, <3>4 DEF Shown, Met
      <4>. QED
        BY <1>1, <2>2, <3>3, <4>1
    <3>5. CASE agenda[1][1] # "visit"
      <4>1. Shown(agenda) \subseteq {NoPath} /\ visited' = visited
        BY <1>2, <3>5 DEF Shown, Met
      <4>. QED
        BY <1>1, <2>2, <4>1
    <3>. QED
      BY <3>4, <3>5
  <2>5. Traced(inputs, target, <<>>, MemberOf(out))'
    BY <1>1, <2>1, <2>2
  <2>. QED
    BY <1>1, <2>3, <2>4, <2>5 DEF ExplainInv
<1>7. RestInv'
  BY <1>1, <1>2 DEF RestInv
<1>. QED
  BY <1>1, <1>5, <1>6, <1>7 DEF QueryInv

LEMMA LineageKeeps ==
  ASSUME RecordsInv, QueryInv, NEW key \in Names, Lineage(key)
  PROVE  QueryInv'
<1>1. pc = "idle" /\ Ask("lineage", key) /\ out' = out /\ tree' = tree
  BY DEF Lineage
<1>2. pc' = "lineage" /\ agenda' = <<<<"enter", key, 0>>>> /\ visited' = {}
  BY <1>1 DEF Ask
<1>3. out' = <<>> /\ tree' = <<>>
  BY <1>1 DEF QueryInv, RestInv
<1>4. WalkInv'
  <2>1. "lineage" \in {"lineage", "explain"}
    OBVIOUS
  <2>. QED
    BY <1>1, <2>1, AskBegins
<1>5. Listed(<<<<"enter", key, 0>>>>, {}, <<>>)
  <2> DEFINE x == <<"enter", key, 0>>
             a == <<x>>
  <2>1. ~IsEnd(x)
    BY DEF IsEnd
  <2>. HIDE DEF x
  <2>2. MemberOf(a) = {x}
    BY DEF MemberOf
  <2>. HIDE DEF a
  <2>3. Open(a) = {}
    BY <2>1, <2>2 DEF Open
  <2>4. MemberOf(<<>>) = {} /\ NoRepeats(<<>>)
    BY DEF MemberOf, NoRepeats
  <2>5. Listed(a, {}, <<>>)
    BY <2>3, <2>4 DEF Listed
  <2>. QED
    BY <2>5 DEF a, x
<1>6. ListInv'
  <2>1. <<>> \in Seq(DOMAIN inputs')
    OBVIOUS
  <2>. QED
    BY <1>2, <1>3, <1>5, <2>1 DEF ListInv
<1>. QED
  BY <1>2, <1>4, <1>6 DEF QueryInv, ExplainInv, RestInv

\* Lineage's walk has ended.
LEMMA ExplainKeeps ==
  ASSUME RecordsInv, QueryInv, Explain
  PROVE  QueryInv'
<1>1. pc = "lineage" /\ agenda = <<>> /\ Ask("explain", target) /\ out' = out /\ tree' = tree
  BY DEF Explain
<1>2. pc' = "explain" /\ target' = target /\ visited' = {} /\ inputs' = inputs
  BY <1>1 DEF Ask, scope
<1>3. /\ target \in Names /\ Walk(inputs, Reachable, <<>>, visited) /\ Traced(inputs, target, <<>>, visited)
      /\ Fits => Cover(inputs, target, <<>>, visited)
      /\ out \in Seq(DOMAIN inputs) /\ Listed(<<>>, visited, out) /\ tree = <<>>
  BY <1>1 DEF QueryInv, WalkInv, ListInv
<1>4. WalkInv'
  <2>1. "explain" \in {"lineage", "explain"}
    OBVIOUS
  <2>. QED
    BY <1>1, <1>3, <2>1, AskBegins
<1>5. visited = MemberOf(out) /\ NoRepeats(out)
  <2>1. Open(<<>>) = {}
    BY DEF Open, MemberOf
  <2>. QED
    BY <1>3, <2>1 DEF Listed
<1>6. visited \subseteq Reachable
  BY <1>3 DEF Walk
<1>7. Fits => Reachable \subseteq visited
  BY <1>3, CoverEnds, ReachedNow
<1>8. Reachable' = Reachable /\ Fits' = Fits
  BY <1>2 DEF Reachable, Fits
<1>. HIDE DEF Reachable
<1>9. Answer'
  BY <1>1, <1>2, <1>3, <1>5, <1>6, <1>7, <1>8 DEF Answer
<1>10. Traced(inputs, target, <<>>, MemberOf(out))'
  BY <1>1, <1>2, <1>3, <1>5
<1>11. tree' \in Seq(Lines) /\ Explained' = {}
  <2>1. <<>> \in Seq(Lines) /\ DOMAIN <<>> = {}
    OBVIOUS
  <2>. QED
    BY <1>1, <1>3, <2>1 DEF Explained
<1>12. ExplainInv'
  BY <1>2, <1>9, <1>10, <1>11 DEF ExplainInv
<1>. QED
  BY <1>2, <1>4, <1>12 DEF QueryInv, ListInv, RestInv

\* Explain's walk has ended, where Lineage's did.
LEMMA ReturnKeeps ==
  ASSUME RecordsInv, QueryInv, Return
  PROVE  QueryInv'
<1>1. pc = "explain" /\ agenda = <<>> /\ pc' = "answered" /\ UNCHANGED <<inputs, target, agenda, visited, out, tree>>
  BY DEF Return, scope
<1>2. /\ Traced(inputs, target, <<>>, visited)
      /\ Fits \/ NoPath \notin Explained => Cover(inputs, target, <<>>, visited)
      /\ Answer /\ Traced(inputs, target, <<>>, MemberOf(out)) /\ Explained \ {NoPath} = visited
  BY <1>1 DEF QueryInv, WalkInv, ExplainInv
<1>3. visited = MemberOf(out)
  BY <1>2, TraceEnds
<1>4. NoPath \in Explained \/ Reachable = MemberOf(out)
  <2>1. NoPath \notin Explained => Reachable \subseteq visited
    BY <1>2, CoverEnds, ReachedNow
  <2>. QED
    BY <1>2, <1>3, <2>1 DEF Answer
<1>5. Answer' /\ Explained' = Explained /\ Reachable' = Reachable
  BY <1>1, <1>2 DEF Answer, Explained, Reachable, Fits
<1>6. NothingLostSilently'
  BY <1>1, <1>2, <1>3, <1>4, <1>5 DEF NothingLostSilently, Reachable
<1>7. RestInv'
  BY <1>1, <1>3, <1>5, <1>6 DEF RestInv
<1>. QED
  BY <1>1, <1>7 DEF QueryInv, WalkInv, ListInv, ExplainInv

LEMMA QueryKept == RecordsInv /\ QueryInv /\ [Next]_vars => QueryInv'
<1>. SUFFICES ASSUME RecordsInv, QueryInv, [Next]_vars PROVE QueryInv'
  OBVIOUS
<1>1. CASE UNCHANGED vars
  BY <1>1 DEF vars, scope, query, QueryInv, WalkInv, ListInv, ExplainInv, RestInv, Answer, NothingLostSilently,
              Explained, Fits, Reachable, Answered
<1>2. CASE Writing
  <2>1. pc = "idle" /\ UNCHANGED query
    BY <1>2, WritesWhileIdle
  <2>. QED
    BY <2>1 DEF query, QueryInv, WalkInv, ListInv, ExplainInv, RestInv
<1>3. CASE \E key \in Names : Lineage(key)
  BY <1>3, LineageKeeps
<1>4. CASE Explain
  BY <1>4, ExplainKeeps
<1>5. CASE Return
  BY <1>5, ReturnKeeps
<1>6. CASE Forget
  <2>1. pc' = "idle" /\ agenda = <<>> /\ agenda' = agenda /\ visited' = {} /\ out' = <<>> /\ tree' = <<>>
    BY <1>6 DEF Forget, QueryInv, RestInv
  <2>. QED
    BY <2>1 DEF QueryInv, WalkInv, ListInv, ExplainInv, RestInv
<1>7. CASE Stepping
  <2>1. pc \in {"lineage", "explain"}
    BY <1>7 DEF Stepping, Truncate, Enter, Skip, Visit, Emit, Asked
  <2>2. agenda \in Seq(Items)
    BY <2>1 DEF QueryInv, WalkInv, Walk
  <2>. QED
    BY <1>7, <2>2, WalksIs, WalksKeepQuery
<1>. QED
  BY <1>1, <1>2, <1>3, <1>4, <1>5, <1>6, <1>7, NextIs DEF Querying, Stepping

LEMMA ReachInvariant == Spec => [](RecordsInv /\ QueryInv)
<1>1. Init => RecordsInv /\ QueryInv
  BY RecordsStart, QueryStarts
<1>2. RecordsInv /\ QueryInv /\ [Next]_vars => (RecordsInv /\ QueryInv)'
  BY RecordsKept, QueryKept
<1>. QED
  BY <1>1, <1>2, PTL DEF Spec

\* Lineage answers with each derivation that can be reached, once, and no other, and cuts
\* its answer only where these are more than the depth; Explain shows the same derivations
\* and says where it stopped (Lineage, Explain and collectLineage, provenance.go).
THEOREM LineageReachesAll == Spec => []LineageIsReachable
<1>1. RecordsInv /\ QueryInv => LineageIsReachable
  <2>. SUFFICES ASSUME RecordsInv, QueryInv PROVE LineageIsReachable
    OBVIOUS
  <2>1. pc \in {"idle", "lineage", "explain", "answered"}
    BY DEF QueryInv, RestInv
  <2>2. TypeOK
    <3>1. visited \subseteq DOMAIN inputs /\ out \in Seq(DOMAIN inputs)
      <4>1. CASE pc = "idle"
        <5>1. visited = {} /\ out = <<>>
          BY <4>1 DEF QueryInv, RestInv
        <5>. QED
          BY <5>1
      <4>2. CASE pc \in {"lineage", "explain"}
        <5>1. visited \subseteq Reachable
          BY <4>2 DEF QueryInv, WalkInv, Walk
        <5>2. out \in Seq(DOMAIN inputs)
          BY <4>2 DEF QueryInv, ListInv, ExplainInv, Answer
        <5>. QED
          BY <5>1, <5>2, ReachedNow
      <4>3. CASE pc = "answered"
        <5>1. Answer /\ visited = MemberOf(out)
          BY <4>3 DEF QueryInv, RestInv
        <5>. QED
          BY <5>1, ReachedNow DEF Answer
      <4>. QED
        BY <2>1, <4>1, <4>2, <4>3
    <3>2. \A k \in DOMAIN agenda : agenda[k][2] \in Names /\ agenda[k][3] <= MaxLineageDepth
      <4>1. CASE pc \in {"lineage", "explain"}
        <5>1. agenda \in Seq(Items)
          BY <4>1 DEF QueryInv, WalkInv, Walk
        <5>2. ASSUME NEW k \in DOMAIN agenda PROVE agenda[k][2] \in Names /\ agenda[k][3] <= MaxLineageDepth
          <6>1. agenda[k] \in Items
            BY <5>1
          <6>. QED
            BY <6>1, ItemIs, DepthIs
        <5>. QED
          BY <5>2
      <4>2. CASE pc \in {"idle", "answered"}
        <5>1. agenda = <<>>
          BY <4>2 DEF QueryInv, RestInv
        <5>. QED
          BY <5>1
      <4>. QED
        BY <2>1, <4>1, <4>2
    <3>3. /\ DOMAIN inputs \subseteq Names /\ DOMAIN from = DOMAIN inputs
          /\ \A p \in DOMAIN from : inputs[p] \subseteq Names /\ from[p] \subseteq DOMAIN inputs
          /\ \A p \in DOMAIN writer : writer[p] \in DOMAIN inputs \union {NoPath}
      BY DEF RecordsInv, IsGraph
    <3>. QED
      BY <2>1, <3>1, <3>2, <3>3 DEF TypeOK
  <2>3. Answered => Answer /\ NothingLostSilently
    BY DEF Answered, QueryInv, RestInv
  <2>4. NothingLostSilently
    BY <2>3 DEF NothingLostSilently
  <2>. QED
    BY <2>2, <2>3, <2>4 DEF LineageIsReachable, Answer, Reachable
<1>. QED
  BY <1>1, ReachInvariant, PTL
-----------------------------------------------------------------------------
\* Paths.  A prefix is at most as long and agrees as far as it goes.
LEMMA PrefixIs ==
  ASSUME NEW x \in Seq(STRING), NEW y \in Seq(STRING)
  PROVE  Prefix(x, y) <=> Len(x) <= Len(y) /\ \A i \in 1 .. Len(x) : x[i] = y[i]
<1>1. Len(x) \in Nat /\ Len(y) \in Nat
  OBVIOUS
<1>2. CASE Len(x) <= Len(y)
  <2> DEFINE z == SubSeq(y, 1, Len(x))
  <2>1. z \in Seq(STRING) /\ Len(z) = Len(x) /\ \A i \in 1 .. Len(x) : z[i] = y[i]
    BY <1>1, <1>2
  <2>. HIDE DEF z
  <2>2. x = z <=> \A i \in 1 .. Len(x) : x[i] = z[i]
    <3>1. ASSUME \A i \in 1 .. Len(x) : x[i] = z[i] PROVE x = z
      BY <1>1, <2>1, <3>1
    <3>. QED
      BY <3>1
  <2>. QED
    BY <1>2, <2>1, <2>2 DEF Prefix, z
<1>3. CASE ~(Len(x) <= Len(y))
  BY <1>3 DEF Prefix
<1>. QED
  BY <1>2, <1>3

LEMMA PrefixSame ==
  ASSUME NEW x \in Seq(STRING)
  PROVE  Prefix(x, x) /\ Overlap(x, x)
BY PrefixIs DEF Overlap

LEMMA PrefixBoth ==
  ASSUME NEW x \in Seq(STRING), NEW y \in Seq(STRING), Prefix(x, y), Prefix(y, x)
  PROVE  x = y
<1>1. Len(x) = Len(y) /\ \A i \in 1 .. Len(x) : x[i] = y[i]
  BY PrefixIs
<1>. QED
  BY <1>1

LEMMA PrefixOfPrefix ==
  ASSUME NEW x \in Seq(STRING), NEW y \in Seq(STRING), NEW z \in Seq(STRING), Prefix(x, y), Prefix(y, z)
  PROVE  Prefix(x, z)
<1>1. Len(x) <= Len(y) /\ Len(y) <= Len(z) /\ Len(x) \in Nat /\ Len(y) \in Nat /\ Len(z) \in Nat
  BY PrefixIs
<1>2. \A i \in 1 .. Len(x) : x[i] = y[i] /\ y[i] = z[i]
  BY <1>1, PrefixIs
<1>. QED
  BY <1>1, <1>2, PrefixIs

\* Two prefixes of one path overlap.
LEMMA PrefixesMeet ==
  ASSUME NEW x \in Seq(STRING), NEW y \in Seq(STRING), NEW z \in Seq(STRING), Prefix(x, z), Prefix(y, z)
  PROVE  Overlap(x, y)
<1>1. /\ Len(x) <= Len(z) /\ Len(y) <= Len(z) /\ Len(x) \in Nat /\ Len(y) \in Nat
      /\ \A i \in 1 .. Len(x) : x[i] = z[i]
      /\ \A i \in 1 .. Len(y) : y[i] = z[i]
  BY PrefixIs
<1>2. CASE Len(x) <= Len(y)
  <2>1. \A i \in 1 .. Len(x) : x[i] = y[i]
    BY <1>1, <1>2
  <2>. QED
    BY <1>2, <2>1, PrefixIs DEF Overlap
<1>3. CASE Len(y) <= Len(x)
  <2>1. \A i \in 1 .. Len(y) : y[i] = x[i]
    BY <1>1, <1>3
  <2>. QED
    BY <1>3, <2>1, PrefixIs DEF Overlap
<1>. QED
  BY <1>1, <1>2, <1>3

LEMMA OverlapBoth ==
  ASSUME NEW x, NEW y
  PROVE  Overlap(x, y) <=> Overlap(y, x)
BY DEF Overlap

\* What is above a path, or at it, overlaps all that the path does above it.
LEMMA OverlapBelow ==
  ASSUME NEW x \in Seq(STRING), NEW y \in Seq(STRING), NEW z \in Seq(STRING), Prefix(x, y), Overlap(y, z)
  PROVE  Overlap(x, z)
BY PrefixesMeet, PrefixOfPrefix DEF Overlap

\* Behind one prefix paths compare as they do without it.
LEMMA BehindPrefix ==
  ASSUME NEW e \in Seq(STRING), NEW x \in Seq(STRING), NEW y \in Seq(STRING)
  PROVE  /\ e \o x \in Seq(STRING) /\ Len(e \o x) = Len(e) + Len(x) /\ Prefix(e, e \o x)
         /\ Prefix(e \o x, e \o y) <=> Prefix(x, y)
         /\ e \o x = e \o y => x = y
<1> DEFINE u == e \o x
           v == e \o y
<1>1. u \in Seq(STRING) /\ v \in Seq(STRING) /\ Len(u) = Len(e) + Len(x) /\ Len(v) = Len(e) + Len(y)
  BY ConcatIs
<1>2. Len(e) \in Nat /\ Len(x) \in Nat /\ Len(y) \in Nat
  OBVIOUS
<1>3. (\A i \in 1 .. Len(e) : u[i] = e[i]) /\ (\A i \in 1 .. Len(x) : u[Len(e) + i] = x[i])
  BY ConcatIs
<1>4. (\A i \in 1 .. Len(e) : v[i] = e[i]) /\ (\A i \in 1 .. Len(y) : v[Len(e) + i] = y[i])
  BY ConcatIs
<1>. HIDE DEF u, v
<1>5. Prefix(e, u)
  <2>1. Len(e) <= Len(u) /\ \A i \in 1 .. Len(e) : e[i] = u[i]
    BY <1>1, <1>2, <1>3
  <2>. QED
    BY <1>1, <2>1, PrefixIs
<1>6. ASSUME Prefix(u, v) PROVE Prefix(x, y)
  <2>1. Len(u) <= Len(v) /\ \A i \in 1 .. Len(u) : u[i] = v[i]
    BY <1>1, <1>6, PrefixIs
  <2>2. ASSUME NEW i \in 1 .. Len(x) PROVE x[i] = y[i]
    <3>1. Len(e) + i \in 1 .. Len(u) /\ i \in 1 .. Len(y)
      BY <1>1, <1>2, <2>1
    <3>. QED
      BY <1>3, <1>4, <2>1, <3>1
  <2>3. Len(x) <= Len(y)
    BY <1>1, <1>2, <2>1
  <2>. QED
    BY <2>2, <2>3, PrefixIs
<1>7. ASSUME Prefix(x, y) PROVE Prefix(u, v)
  <2>1. Len(x) <= Len(y) /\ \A i \in 1 .. Len(x) : x[i] = y[i]
    BY <1>7, PrefixIs
  <2>2. ASSUME NEW i \in 1 .. Len(u) PROVE u[i] = v[i]
    <3>1. CASE i \in 1 .. Len(e)
      BY <1>3, <1>4, <3>1
    <3>2. CASE i \notin 1 .. Len(e)
      <4>1. i - Len(e) \in 1 .. Len(x) /\ i - Len(e) \in 1 .. Len(y) /\ Len(e) + (i - Len(e)) = i
        BY <1>1, <1>2, <2>1, <3>2
      <4>2. u[i] = x[i - Len(e)] /\ v[i] = y[i - Len(e)]
        BY <1>3, <1>4, <4>1
      <4>. QED
        BY <2>1, <4>1, <4>2
    <3>. QED
      BY <3>1, <3>2
  <2>3. Len(u) <= Len(v)
    BY <1>1, <1>2, <2>1
  <2>. QED
    BY <1>1, <2>2, <2>3, PrefixIs
<1>8. ASSUME u = v PROVE x = y
  <2>1. Len(x) = Len(y)
    BY <1>1, <1>2, <1>8
  <2>2. ASSUME NEW i \in 1 .. Len(x) PROVE x[i] = y[i]
    BY <1>3, <1>4, <1>8, <2>1, <2>2
  <2>. QED
    BY <2>1, <2>2
<1>9. e \o x = u /\ e \o y = v
  BY DEF u, v
<1>. QED
  BY <1>1, <1>5, <1>6, <1>7, <1>8, <1>9
LEMMA NamesArePaths ==
  ASSUME NEW p \in Names
  PROVE  p \in Seq(STRING) /\ p # <<>>
BY LineageAssumption
-----------------------------------------------------------------------------
\* What a name stands for, as records are added.
Adds(g, h, N) == IsGraph(g) /\ IsGraph(h) /\ DOMAIN h = DOMAIN g \union N

\* What is neither at, above nor below a name makes no difference to it.
LEMMA ForStays ==
  ASSUME NEW g, NEW h, NEW N, Adds(g, h, N), NEW key \in Names, \A n \in N : ~Overlap(n, key)
  PROVE  DerivationsFor(h, key) = DerivationsFor(g, key)
<1>1. key \notin N
  BY NamesArePaths, PrefixSame
<1>2. Under(h, key) = Under(g, key) /\ Nearer(h, key) = Nearer(g, key)
  BY DEF Under, Nearer, Adds, Overlap
<1>3. key \in DOMAIN h <=> key \in DOMAIN g
  BY <1>1 DEF Adds
<1>. QED
  BY <1>2, <1>3 DEF DerivationsFor

\* What is neither at, above nor below a record takes nothing away.
LEMMA ForGrows ==
  ASSUME NEW g, NEW h, NEW N, Adds(g, h, N), NEW key \in Names, \A n \in N, d \in DOMAIN g : ~Overlap(n, d)
  PROVE  DerivationsFor(g, key) \subseteq DerivationsFor(h, key)
<1>. SUFFICES ASSUME NEW d \in DerivationsFor(g, key) PROVE d \in DerivationsFor(h, key)
  OBVIOUS
<1>1. d \in DOMAIN g /\ d \in DOMAIN h
  BY DerivationsAreRecords DEF Adds
<1>2. DOMAIN g \subseteq Names /\ DOMAIN h \subseteq Names /\ DOMAIN h = DOMAIN g \union N
  BY DEF Adds, IsGraph
<1>3. key \in Seq(STRING) /\ d \in Seq(STRING)
  BY <1>1, <1>2, NamesArePaths
<1>4. CASE key \in DOMAIN g
  BY <1>2, <1>4 DEF DerivationsFor
<1>5. CASE key \notin DOMAIN g /\ Under(g, key) # {}
  <2>1. d \in Under(g, key)
    BY <1>5 DEF DerivationsFor
  <2>2. Prefix(key, d) /\ d # key
    BY <2>1 DEF Under
  <2>3. key \notin N
    BY <1>1, <2>2 DEF Overlap
  <2>4. d \in Under(h, key)
    BY <1>1, <2>2 DEF Under
  <2>. QED
    BY <1>2, <1>5, <2>3, <2>4 DEF DerivationsFor
<1>6. CASE key \notin DOMAIN g /\ Under(g, key) = {}
  <2>1. d \in Nearer(g, key) /\ \A q \in Nearer(g, key) : Len(q) <= Len(d)
    BY <1>6 DEF DerivationsFor
  <2>2. Prefix(d, key) /\ d # key
    BY <2>1 DEF Nearer
  <2>3. key \notin N
    BY <1>1, <2>2 DEF Overlap
  <2>4. ASSUME NEW n \in N, Prefix(key, n) PROVE FALSE
    <3>1. n \in Seq(STRING)
      BY <1>2, NamesArePaths
    <3>2. Prefix(d, n)
      BY <1>3, <2>2, <2>4, <3>1, PrefixOfPrefix
    <3>. QED
      BY <1>1, <3>2 DEF Overlap
  <2>5. ASSUME NEW n \in N, Prefix(n, key) PROVE FALSE
    <3>1. n \in Seq(STRING)
      BY <1>2, NamesArePaths
    <3>2. Overlap(n, d)
      BY <1>3, <2>2, <2>5, <3>1, PrefixesMeet
    <3>. QED
      BY <1>1, <3>2
  <2>6. Under(h, key) = {}
    BY <1>2, <1>6, <2>4 DEF Under
  <2>7. Nearer(h, key) = Nearer(g, key)
    BY <1>2, <2>5 DEF Nearer
  <2>. QED
    BY <1>2, <1>6, <2>1, <2>3, <2>6, <2>7 DEF DerivationsFor
<1>. QED
  BY <1>4, <1>5, <1>6

Behind(e, T) == {e \o q : q \in T}

\* The records of g are those of h that overlap e, behind e.
Holder(h, e, g) ==
  /\ IsGraph(h) /\ IsGraph(g) /\ e \in Seq(STRING)
  /\ Behind(e, DOMAIN g) \subseteq DOMAIN h
  /\ \A d \in DOMAIN h : Overlap(e, d) => d \in Behind(e, DOMAIN g)

\* A name behind an element's prefix stands for what the name does in the element.
LEMMA ForBehind ==
  ASSUME NEW h, NEW e, NEW g, Holder(h, e, g), NEW key \in Names
  PROVE  DerivationsFor(h, e \o key) = Behind(e, DerivationsFor(g, key))
<1> DEFINE k == e \o key
<1>1. /\ DOMAIN g \subseteq Names /\ DOMAIN h \subseteq Names /\ e \in Seq(STRING) /\ key \in Seq(STRING)
      /\ \A q \in DOMAIN g : q \in Seq(STRING)
      /\ \A d \in DOMAIN h : d \in Seq(STRING)
  BY NamesArePaths DEF Holder, IsGraph
<1>2. k \in Seq(STRING) /\ Prefix(e, k) /\ Len(k) = Len(e) + Len(key)
  BY <1>1, BehindPrefix
<1>3. ASSUME NEW q \in DOMAIN g
      PROVE  /\ e \o q \in DOMAIN h /\ Len(e \o q) = Len(e) + Len(q)
             /\ Prefix(e \o q, k) <=> Prefix(q, key)
             /\ Prefix(k, e \o q) <=> Prefix(key, q)
             /\ e \o q = k <=> q = key
  <2>1. e \o q \in DOMAIN h
    BY DEF Holder, Behind
  <2>2. q \in Seq(STRING)
    BY <1>1
  <2>. QED
    BY <1>1, <2>1, <2>2, BehindPrefix
<1>4. ASSUME NEW d \in DOMAIN h, Overlap(k, d) PROVE d \in Behind(e, DOMAIN g)
  <2>1. Overlap(e, d)
    BY <1>1, <1>2, <1>4, OverlapBelow
  <2>. QED
    BY <2>1 DEF Holder
<1>5. Behind(e, Under(g, key)) = Under(h, k)
  <2>1. ASSUME NEW q \in Under(g, key) PROVE e \o q \in Under(h, k)
    BY <1>3 DEF Under
  <2>2. ASSUME NEW d \in Under(h, k) PROVE d \in Behind(e, Under(g, key))
    <3>1. d \in DOMAIN h /\ Prefix(k, d) /\ d # k
      BY DEF Under
    <3>2. PICK q \in DOMAIN g : d = e \o q
      BY <1>4, <3>1 DEF Behind, Overlap
    <3>3. q \in Under(g, key)
      BY <1>3, <3>1, <3>2 DEF Under
    <3>. QED
      BY <3>2, <3>3 DEF Behind
  <2>. QED
    BY <2>1, <2>2 DEF Behind
<1>6. Behind(e, Nearer(g, key)) = Nearer(h, k)
  <2>1. ASSUME NEW q \in Nearer(g, key) PROVE e \o q \in Nearer(h, k)
    BY <1>3 DEF Nearer
  <2>2. ASSUME NEW d \in Nearer(h, k) PROVE d \in Behind(e, Nearer(g, key))
    <3>1. d \in DOMAIN h /\ Prefix(d, k) /\ d # k
      BY DEF Nearer
    <3>2. PICK q \in DOMAIN g : d = e \o q
      BY <1>4, <3>1 DEF Behind, Overlap
    <3>3. q \in Nearer(g, key)
      BY <1>3, <3>1, <3>2 DEF Nearer
    <3>. QED
      BY <3>2, <3>3 DEF Behind
  <2>. QED
    BY <2>1, <2>2 DEF Behind
<1>7. key \in DOMAIN g <=> k \in DOMAIN h
  <2>1. ASSUME k \in DOMAIN h PROVE key \in DOMAIN g
    <3>1. Overlap(k, k)
      BY <1>2, PrefixSame
    <3>2. PICK q \in DOMAIN g : k = e \o q
      BY <1>4, <2>1, <3>1 DEF Behind
    <3>. QED
      BY <1>3, <3>2
  <2>. QED
    BY <1>3, <2>1
<1>8. CASE key \in DOMAIN g
  <2>1. DerivationsFor(g, key) = {key} /\ DerivationsFor(h, k) = {k}
    BY <1>7, <1>8 DEF DerivationsFor
  <2>. QED
    BY <2>1 DEF Behind
<1>9. CASE key \notin DOMAIN g /\ Under(g, key) # {}
  <2>1. Under(h, k) # {}
    BY <1>5, <1>9 DEF Behind
  <2>. QED
    BY <1>5, <1>7, <1>9, <2>1 DEF DerivationsFor
<1>10. CASE key \notin DOMAIN g /\ Under(g, key) = {}
  <2>1. Under(h, k) = {}
    BY <1>5, <1>10 DEF Behind
  <2> DEFINE A == Nearer(g, key)
             B == Nearer(h, k)
  <2>2. DerivationsFor(g, key) = {p \in A : \A q \in A : Len(q) <= Len(p)}
    BY <1>10 DEF DerivationsFor
  <2>3. DerivationsFor(h, k) = {p \in B : \A q \in B : Len(q) <= Len(p)}
    BY <1>7, <1>10, <2>1 DEF DerivationsFor
  <2>4. A \subseteq DOMAIN g
    BY DEF Nearer
  <2>5. \A q \in A : Len(e \o q) = Len(e) + Len(q) /\ Len(q) \in Nat
    BY <1>1, <1>3, <2>4
  <2>6. Len(e) \in Nat /\ B = Behind(e, A)
    BY <1>1, <1>6
  <2>. HIDE DEF A, B
  <2>7. \A p, q \in A : Len(e \o q) <= Len(e \o p) <=> Len(q) <= Len(p)
    BY <2>5, <2>6
  <2>8. ASSUME NEW d \in DerivationsFor(h, k) PROVE d \in Behind(e, DerivationsFor(g, key))
    <3>1. d \in B /\ \A q \in B : Len(q) <= Len(d)
      BY <2>3
    <3>2. PICK p \in A : d = e \o p
      BY <2>6, <3>1 DEF Behind
    <3>3. ASSUME NEW q \in A PROVE Len(q) <= Len(p)
      <4>1. e \o q \in B
        BY <2>6 DEF Behind
      <4>. QED
        BY <2>7, <3>1, <3>2, <4>1
    <3>. QED
      BY <2>2, <3>2, <3>3 DEF Behind
  <2>9. ASSUME NEW d \in Behind(e, DerivationsFor(g, key)) PROVE d \in DerivationsFor(h, k)
    <3>1. PICK p \in DerivationsFor(g, key) : d = e \o p
      BY DEF Behind
    <3>2. p \in A /\ \A q \in A : Len(q) <= Len(p)
      BY <2>2
    <3>3. d \in B
      BY <2>6, <3>1, <3>2 DEF Behind
    <3>4. ASSUME NEW b \in B PROVE Len(b) <= Len(d)
      <4>1. PICK q \in A : b = e \o q
        BY <2>6 DEF Behind
      <4>. QED
        BY <2>7, <3>1, <3>2, <4>1
    <3>. QED
      BY <2>3, <3>3, <3>4
  <2>. QED
    BY <2>8, <2>9
<1>. QED
  BY <1>8, <1>9, <1>10
-----------------------------------------------------------------------------
\* A record that an element left.
OfElement(d) == \E e \in DOMAIN merged : Prefix(e, d)

\* While all is tidy the writer of a scalar is the one record at or above it, a scalar
\* without a writer is apart from the records of stages, and each of these has its scalar.
OwnInv ==
  /\ \A q \in DOMAIN writer, d \in DOMAIN inputs :
       IF writer[q] = NoPath THEN Overlap(q, d) => OfElement(d) ELSE Overlap(writer[q], d) => d = writer[q]
  /\ \A q \in DOMAIN writer : Prefix(writer[q], q)
  /\ \A d \in DOMAIN inputs : OfElement(d) \/ \E q \in DOMAIN writer : writer[q] = d

\* An element's records stand behind its prefix, and no others.
Held(e, g) == Holder(inputs, e, g) /\ \A p \in DOMAIN g : inputs[e \o p] = PrefixInputs(e, g[p])

ElementInv == \A e \in DOMAIN merged : merged[e] \in ElementGraphs /\ Held(e, merged[e])

FlowInv ==
  /\ from = [p \in DOMAIN from |-> from[p]] /\ \A q \in DOMAIN writer : q \in Seq(STRING)
  /\ tidy => OwnInv /\ ElementInv /\ \A p \in DOMAIN inputs : from[p] \subseteq Needs(inputs, p)
  /\ tidy /\ settled => Grounded(inputs) /\ \A p \in DOMAIN inputs : Needs(inputs, p) \subseteq from[p]

LEMMA ElementPaths ==
  ASSUME ElementInv, NEW e \in DOMAIN merged
  PROVE  e \in Seq(STRING)
BY DEF ElementInv, Held, Holder

\* A writer of what an expression reads is among the derivations its name stands for.
LEMMA WrittenFor ==
  ASSUME RecordsInv, FlowInv, tidy, NEW r \in Names
  PROVE  Writers(r) \subseteq DerivationsFor(inputs, r)
<1>. SUFFICES ASSUME NEW w \in Writers(r) PROVE w \in DerivationsFor(inputs, r)
  OBVIOUS
<1>1. PICK q \in DOMAIN writer : Prefix(r, q) /\ w = writer[q] /\ w # NoPath
  BY DEF Writers
<1>2. w \in DOMAIN inputs /\ DOMAIN inputs \subseteq Names
  BY <1>1 DEF RecordsInv, IsGraph
<1>3. Prefix(w, q) /\ \A d \in DOMAIN inputs : Overlap(w, d) => d = w
  BY <1>1 DEF FlowInv, OwnInv
<1>4. w \in Seq(STRING) /\ q \in Seq(STRING) /\ r \in Seq(STRING) /\ \A d \in DOMAIN inputs : d \in Seq(STRING)
  BY <1>1, <1>2, NamesArePaths DEF FlowInv
<1>5. Overlap(w, r)
  BY <1>1, <1>3, <1>4, PrefixesMeet
<1>6. CASE r = w
  BY <1>2, <1>6 DEF DerivationsFor
<1>7. CASE r # w /\ Prefix(r, w)
  <2>1. r \notin DOMAIN inputs
    BY <1>3, <1>5, <1>7
  <2>2. w \in Under(inputs, r)
    BY <1>2, <1>7 DEF Under
  <2>. QED
    BY <2>1, <2>2 DEF DerivationsFor
<1>8. CASE r # w /\ Prefix(w, r)
  <2>1. r \notin DOMAIN inputs
    BY <1>3, <1>5, <1>8
  <2>2. ASSUME NEW d \in Under(inputs, r) PROVE FALSE
    <3>1. d \in DOMAIN inputs /\ Prefix(r, d)
      BY DEF Under
    <3>2. Prefix(w, d)
      BY <1>4, <1>8, <3>1, PrefixOfPrefix
    <3>3. d = w
      BY <1>3, <3>1, <3>2 DEF Overlap
    <3>. QED
      BY <1>4, <1>8, <3>1, <3>3, PrefixBoth
  <2>3. w \in Nearer(inputs, r)
    BY <1>2, <1>8 DEF Nearer
  <2>4. ASSUME NEW d \in Nearer(inputs, r) PROVE d = w
    <3>1. d \in DOMAIN inputs /\ Prefix(d, r)
      BY DEF Nearer
    <3>2. Overlap(w, d)
      BY <1>4, <1>8, <3>1, PrefixesMeet
    <3>. QED
      BY <1>3, <3>1, <3>2
  <2>5. \A d \in Nearer(inputs, r) : Len(d) <= Len(w)
    BY <1>4, <2>4
  <2>. QED
    BY <2>1, <2>2, <2>3, <2>5 DEF DerivationsFor
<1>. QED
  BY <1>5, <1>6, <1>7, <1>8 DEF Overlap

\* A name stands for derivations at it, below it or above it.
LEMMA ForOverlaps ==
  ASSUME NEW g, NEW r \in Names, NEW d \in DerivationsFor(g, r)
  PROVE  d \in DOMAIN g /\ Overlap(d, r)
<1>1. Overlap(r, r)
  BY NamesArePaths, PrefixSame
<1>. QED
  BY <1>1 DEF DerivationsFor, Under, Nearer, Overlap

\* Unless it has an element's records, a name that leads to a value stands for the
\* writers of what is there, and no others.
LEMMA ForWritten ==
  ASSUME RecordsInv, FlowInv, tidy, NEW r \in Names, Holds(r), \A e \in DOMAIN merged : ~Overlap(r, e)
  PROVE  DerivationsFor(inputs, r) \subseteq Writers(r)
<1>. SUFFICES ASSUME NEW d \in DerivationsFor(inputs, r) PROVE d \in Writers(r)
  OBVIOUS
<1>1. d \in DOMAIN inputs /\ Overlap(d, r)
  BY ForOverlaps
<1>2. d \in Names
  BY <1>1 DEF RecordsInv, IsGraph
<1>3. /\ d \in Seq(STRING) /\ d # NoPath /\ r \in Seq(STRING)
      /\ \A q \in DOMAIN writer : q \in Seq(STRING)
  BY <1>2, NamesArePaths DEF FlowInv, NoPath
<1>4. ~OfElement(d)
  <2>. SUFFICES ASSUME NEW e \in DOMAIN merged, Prefix(e, d) PROVE FALSE
    BY DEF OfElement
  <2>1. e \in Seq(STRING)
    BY ElementPaths DEF FlowInv
  <2>2. Overlap(e, r)
    BY <1>1, <1>3, <2>1, OverlapBelow
  <2>. QED
    BY <2>2, OverlapBoth
<1>5. OwnInv
  BY DEF FlowInv
<1>6. PICK q \in DOMAIN writer : writer[q] = d
  BY <1>1, <1>4, <1>5 DEF OwnInv
<1>7. Prefix(d, q)
  BY <1>5, <1>6 DEF OwnInv
<1>8. CASE Prefix(r, d)
  <2>1. Prefix(r, q)
    BY <1>3, <1>6, <1>7, <1>8, PrefixOfPrefix
  <2>. QED
    BY <1>3, <1>6, <2>1 DEF Writers
<1>9. CASE Prefix(d, r)
  <2>1. PICK s \in DOMAIN writer : Prefix(r, s)
    BY DEF Holds
  <2>2. Prefix(d, s)
    BY <1>3, <1>9, <2>1, PrefixOfPrefix
  <2>3. writer[s] # NoPath
    BY <1>1, <1>4, <1>5, <2>1, <2>2 DEF OwnInv, Overlap
  <2>4. writer[s] \in DOMAIN inputs /\ Prefix(writer[s], s)
    BY <1>5, <2>1, <2>3 DEF RecordsInv, OwnInv
  <2>5. writer[s] \in Seq(STRING)
    BY <2>4, NamesArePaths DEF RecordsInv, IsGraph
  <2>6. Overlap(writer[s], d)
    BY <1>3, <2>1, <2>2, <2>4, <2>5, PrefixesMeet
  <2>7. writer[s] = d
    BY <1>1, <1>5, <2>1, <2>3, <2>6 DEF OwnInv
  <2>. QED
    BY <1>3, <2>1, <2>7 DEF Writers
<1>. QED
  BY <1>1, <1>8, <1>9 DEF Overlap
-----------------------------------------------------------------------------
LEMMA GroundedOne ==
  ASSUME NEW g, NEW h, NEW p, DOMAIN h = DOMAIN g \union {p}, p \notin DOMAIN g, Grounded(g),
         \A q \in DOMAIN g : Needs(h, q) = Needs(g, q), \A q \in DOMAIN h : p \notin Needs(h, q)
  PROVE  Grounded(h)
<1>. SUFFICES ASSUME NEW T \in SUBSET DOMAIN h, T # {} PROVE \E q \in T : Needs(h, q) \cap T = {}
  BY DEF Grounded
<1>1. CASE T = {p}
  BY <1>1
<1>2. CASE T # {p}
  <2> DEFINE U == T \ {p}
  <2>1. U \in SUBSET DOMAIN g /\ U # {}
    BY <1>2
  <2>2. PICK q \in U : Needs(g, q) \cap U = {}
    BY <2>1 DEF Grounded
  <2>3. q \in DOMAIN g /\ q \in T
    BY <2>1, <2>2
  <2>4. Needs(h, q) \cap U = {} /\ p \notin Needs(h, q)
    BY <2>2, <2>3
  <2>5. Needs(h, q) \cap T = {}
    BY <2>4
  <2>. QED
    BY <2>3, <2>5
<1>. QED
  BY <1>1, <1>2

LEMMA DeriveFlows ==
  ASSUME RecordsInv, FlowInv, NEW p \in Names, NEW keys \in SUBSET Names, NEW sources \in SUBSET DOMAIN inputs,
         NEW whole, Derive(p, keys, sources, whole), merged' = merged,
         \A r \in keys : Holds(r), whole => sources = UNION {Writers(r) : r \in keys}
  PROVE  FlowInv'
<1>1. /\ inputs' = [q \in DOMAIN inputs \union {p} |-> IF q = p THEN keys ELSE inputs[q]]
      /\ from' = [q \in DOMAIN from \union {p} |-> IF q = p THEN sources ELSE from[q]]
      /\ Store(p, p, whole)
      /\ settled' = (settled /\ Unread(inputs', p) /\ \A key \in keys, e \in DOMAIN merged : ~Overlap(key, e))
  BY DEF Derive
<1>2. /\ writer' = [q \in {q \in DOMAIN writer : ~Prefix(p, q)} \union {p} |-> IF q = p THEN p ELSE writer[q]]
      /\ ~Blocked(p)
      /\ tidy' = (tidy /\ whole /\ ~Holds(p) /\ Alone(p))
  BY <1>1 DEF Store
<1>3. IsGraph(inputs) /\ DOMAIN from = DOMAIN inputs /\ \A q \in DOMAIN inputs : q \in Names /\ inputs[q] \subseteq Names
  BY DEF RecordsInv, IsGraph
<1>4. /\ DOMAIN inputs' = DOMAIN inputs \union {p} /\ DOMAIN from' = DOMAIN inputs'
      /\ \A q \in DOMAIN inputs' : inputs'[q] = (IF q = p THEN keys ELSE inputs[q])
      /\ \A q \in DOMAIN inputs' : from'[q] = (IF q = p THEN sources ELSE from[q])
  BY <1>1, <1>3
<1>5. IsGraph(inputs')
  BY <1>3, <1>4 DEF IsGraph
<1>6. p \in Seq(STRING) /\ p # NoPath /\ Overlap(p, p) /\ Prefix(p, p)
  BY NamesArePaths, PrefixSame DEF NoPath
<1>7. from' = [q \in DOMAIN from' |-> from'[q]] /\ \A q \in DOMAIN writer' : q \in Seq(STRING)
  <2>1. \A q \in DOMAIN writer' : q \in Seq(STRING)
    BY <1>2, <1>6 DEF FlowInv
  <2>2. from' = [q \in DOMAIN from' |-> from'[q]]
    BY <1>1
  <2>. QED
    BY <2>1, <2>2
<1>8. ASSUME tidy' PROVE /\ tidy /\ whole /\ ~Holds(p)
                         /\ \A d \in DOMAIN inputs \union DOMAIN merged : ~Overlap(p, d) /\ ~Overlap(d, p)
                         /\ p \notin DOMAIN inputs /\ Adds(inputs, inputs', {p})
                         /\ OwnInv /\ ElementInv /\ \A q \in DOMAIN inputs : from[q] \subseteq Needs(inputs, q)
  <2>1. tidy /\ whole /\ ~Holds(p) /\ Alone(p)
    BY <1>2, <1>8
  <2>2. \A d \in DOMAIN inputs \union DOMAIN merged : ~Overlap(p, d) /\ ~Overlap(d, p)
    BY <2>1, OverlapBoth DEF Alone
  <2>3. p \notin DOMAIN inputs
    BY <1>6, <2>2
  <2>4. Adds(inputs, inputs', {p})
    BY <1>3, <1>4, <1>5 DEF Adds
  <2>. QED
    BY <2>1, <2>2, <2>3, <2>4 DEF FlowInv
<1>9. ASSUME tidy' PROVE OwnInv'
  <2>1. \A q \in DOMAIN writer : ~Prefix(p, q)
    BY <1>8, <1>9 DEF Holds
  <2>2. p \notin DOMAIN writer
    BY <1>6, <2>1
  <2>3. DOMAIN writer' = DOMAIN writer \union {p} /\ writer'[p] = p /\ \A q \in DOMAIN writer : writer'[q] = writer[q]
    BY <1>2, <2>1, <2>2
  <2>4. \A d : OfElement(d)' <=> OfElement(d)
    BY DEF OfElement
  <2>5. OwnInv
    BY <1>8, <1>9
  <2>6. ASSUME NEW q \in DOMAIN writer', NEW d \in DOMAIN inputs'
        PROVE  IF writer'[q] = NoPath THEN Overlap(q, d) => OfElement(d)' ELSE Overlap(writer'[q], d) => d = writer'[q]
    <3>1. CASE q = p
      BY <1>4, <1>6, <1>8, <1>9, <2>3, <3>1
    <3>2. CASE q # p /\ d = p
      <4>1. q \in DOMAIN writer /\ writer'[q] = writer[q]
        BY <2>3, <3>2
      <4>2. ~Prefix(p, q) /\ ~Prefix(q, p)
        BY <1>2, <2>1, <3>2, <4>1 DEF Blocked
      <4>3. writer[q] # NoPath => ~Overlap(writer[q], p)
        BY <1>8, <1>9, <4>1 DEF RecordsInv
      <4>. QED
        BY <3>2, <4>1, <4>2, <4>3 DEF Overlap
    <3>3. CASE q # p /\ d # p
      <4>1. q \in DOMAIN writer /\ writer'[q] = writer[q] /\ d \in DOMAIN inputs
        BY <1>4, <2>3, <3>3
      <4>. QED
        BY <2>4, <2>5, <4>1 DEF OwnInv
    <3>. QED
      BY <3>1, <3>2, <3>3
  <2>7. ASSUME NEW q \in DOMAIN writer' PROVE Prefix(writer'[q], q)
    BY <1>6, <2>3, <2>5 DEF OwnInv
  <2>8. ASSUME NEW d \in DOMAIN inputs' PROVE OfElement(d)' \/ \E q \in DOMAIN writer' : writer'[q] = d
    BY <1>4, <2>3, <2>4, <2>5 DEF OwnInv
  <2>. QED
    BY <2>6, <2>7, <2>8 DEF OwnInv
<1>10. ASSUME tidy' PROVE ElementInv'
  <2>. SUFFICES ASSUME NEW e \in DOMAIN merged
                PROVE  merged[e] \in ElementGraphs /\ Held(e, merged[e])'
    BY DEF ElementInv
  <2> DEFINE g == merged[e]
  <2>1. g \in ElementGraphs /\ Held(e, g)
    BY <1>8, <1>10 DEF ElementInv
  <2>. HIDE DEF g
  <2>2. /\ Holder(inputs, e, g) /\ \A q \in DOMAIN g : inputs[e \o q] = PrefixInputs(e, g[q])
        /\ \A q \in DOMAIN g : e \o q \in DOMAIN inputs
    BY <2>1 DEF Held, Holder, Behind
  <2>3. ~Overlap(e, p)
    BY <1>8, <1>10
  <2>4. Holder(inputs', e, g)
    BY <1>4, <1>5, <2>2, <2>3 DEF Holder
  <2>5. \A q \in DOMAIN g : inputs'[e \o q] = PrefixInputs(e, g[q])
    BY <1>4, <1>8, <1>10, <2>2
  <2>. QED
    BY <2>1, <2>4, <2>5 DEF Held, g
<1>11. ASSUME tidy', NEW q \in DOMAIN inputs' PROVE from'[q] \subseteq Needs(inputs', q)
  <2>1. \A key \in Names : DerivationsFor(inputs, key) \subseteq DerivationsFor(inputs', key)
    BY <1>8, <1>11, ForGrows
  <2>2. CASE q = p
    <3>1. inputs'[q] = keys /\ from'[q] = UNION {Writers(r) : r \in keys}
      BY <1>4, <1>8, <1>11, <2>2
    <3>2. \A r \in keys : Writers(r) \subseteq DerivationsFor(inputs, r)
      BY <1>8, <1>11, WrittenFor
    <3>3. \A r \in keys : Writers(r) \subseteq DerivationsFor(inputs', r)
      BY <2>1, <3>2
    <3>. QED
      BY <3>1, <3>3 DEF Needs
  <2>3. CASE q # p
    <3>1. q \in DOMAIN inputs /\ inputs'[q] = inputs[q] /\ from'[q] = from[q] /\ inputs[q] \subseteq Names
      BY <1>3, <1>4, <2>3
    <3>2. from[q] \subseteq Needs(inputs, q)
      BY <1>8, <1>11, <3>1
    <3>3. Needs(inputs, q) \subseteq Needs(inputs', q)
      BY <2>1, <3>1 DEF Needs
    <3>. QED
      BY <3>1, <3>2, <3>3
  <2>. QED
    BY <2>2, <2>3
<1>12. ASSUME tidy', settled' PROVE /\ Grounded(inputs')
                                    /\ \A q \in DOMAIN inputs' : Needs(inputs', q) \subseteq from'[q]
  <2>1. /\ settled /\ \A q \in DOMAIN inputs' : \A key \in inputs'[q] : ~Overlap(key, p) /\ ~Overlap(p, key)
        /\ \A key \in keys, e \in DOMAIN merged : ~Overlap(key, e)
    BY <1>1, <1>12, OverlapBoth DEF Unread
  <2>2. Grounded(inputs) /\ \A q \in DOMAIN inputs : Needs(inputs, q) \subseteq from[q]
    BY <1>8, <1>12, <2>1 DEF FlowInv
  <2>3. \A q \in DOMAIN inputs' : inputs'[q] \subseteq Names
    BY <1>5 DEF IsGraph
  <2>4. ASSUME NEW q \in DOMAIN inputs', NEW key \in inputs'[q]
        PROVE  DerivationsFor(inputs', key) = DerivationsFor(inputs, key)
    <3>1. key \in Names /\ \A n \in {p} : ~Overlap(n, key)
      BY <2>1, <2>3
    <3>. QED
      BY <1>8, <1>12, <3>1, ForStays
  <2>5. ASSUME NEW q \in DOMAIN inputs' PROVE p \notin Needs(inputs', q)
    <3>1. \A key \in inputs'[q] : p \notin DerivationsFor(inputs', key)
      BY <1>8, <1>12, <2>4, DerivationsAreRecords
    <3>. QED
      BY <3>1 DEF Needs
  <2>6. ASSUME NEW q \in DOMAIN inputs PROVE Needs(inputs', q) = Needs(inputs, q)
    <3>1. q \in DOMAIN inputs' /\ inputs'[q] = inputs[q]
      BY <1>4, <1>8, <1>12
    <3>2. \A key \in inputs[q] : DerivationsFor(inputs', key) = DerivationsFor(inputs, key)
      BY <2>4, <3>1
    <3>. QED
      BY <3>1, <3>2 DEF Needs
  <2>7. Grounded(inputs')
    BY <1>4, <1>8, <1>12, <2>2, <2>5, <2>6, GroundedOne
  <2>8. ASSUME NEW q \in DOMAIN inputs' PROVE Needs(inputs', q) \subseteq from'[q]
    <3>1. CASE q = p
      <4>1. inputs'[q] = keys /\ from'[q] = UNION {Writers(r) : r \in keys}
        BY <1>4, <1>8, <1>12, <3>1
      <4>2. ASSUME NEW r \in keys PROVE DerivationsFor(inputs', r) \subseteq Writers(r)
        <5>1. DerivationsFor(inputs, r) \subseteq Writers(r)
          BY <1>8, <1>12, <2>1, ForWritten
        <5>. QED
          BY <2>4, <4>1, <5>1
      <4>. QED
        BY <4>1, <4>2 DEF Needs
    <3>2. CASE q # p
      <4>1. q \in DOMAIN inputs /\ from'[q] = from[q]
        BY <1>4, <3>2
      <4>. QED
        BY <2>2, <2>6, <4>1
    <3>. QED
      BY <3>1, <3>2
  <2>. QED
    BY <2>7, <2>8
<1>. QED
  BY <1>7, <1>8, <1>9, <1>10, <1>11, <1>12 DEF FlowInv
-----------------------------------------------------------------------------
LEMMA NoWriters ==
  ASSUME NEW r, ~Holds(r)
  PROVE  Writers(r) = {}
BY DEF Holds, Writers

LEMMA SingleFlows ==
  ASSUME RecordsInv, FlowInv, NEW p \in Outputs, NEW read \in Reads, Single(p, read)
  PROVE  FlowInv'
<1> DEFINE keys == Resolved(References(read))
           sources == UNION {Writers(r) : r \in read}
           whole == References(read) = read
<1>1. p \in Names /\ read \subseteq Names
  BY LineageAssumption
<1>2. keys \in SUBSET Names /\ \A r \in keys : Holds(r)
  BY <1>1 DEF Resolved, References
<1>3. sources \in SUBSET DOMAIN inputs
  BY WritersAreRecords
<1>4. Derive(p, keys, sources, whole) /\ merged' = merged
  BY DEF Single
<1>5. ASSUME whole PROVE sources = UNION {Writers(r) : r \in keys}
  <2>1. keys = {r \in read : Holds(r)}
    BY <1>5 DEF Resolved
  <2>2. \A r \in read : r \in keys \/ Writers(r) = {}
    BY <2>1, NoWriters
  <2>. QED
    BY <2>1, <2>2
<1>. HIDE DEF keys, sources, whole
<1>. QED
  BY <1>1, <1>2, <1>3, <1>4, <1>5, DeriveFlows

LEMMA ExpressionFlows ==
  ASSUME RecordsInv, FlowInv, NEW e \in Locals, NEW names \in Reads, Expression(e, names)
  PROVE  FlowInv'
<1> DEFINE read == {r \in names : Readable(r)}
           kept == References(names) \intersect read
           p == Namespace \o <<e>>
           keys == {QualifyLocal(r) : r \in kept}
           sources == UNION {Writers(InScope(r)) : r \in read}
           whole == kept = read
<1>1. stage # NoStage /\ Derive(p, keys, sources, whole) /\ merged' = merged
  BY DEF Expression
<1>2. Namespace # NoPath /\ stage.locals \subseteq Locals
  BY <1>1 DEF RecordsInv
<1>3. p \in Names /\ names \subseteq Names /\ \A r \in names : r[1] \in Locals => Namespace \o r \in Names
  BY <1>2, LineageAssumption DEF NoPath
<1>4. ASSUME NEW r \in kept PROVE QualifyLocal(r) \in Names /\ Holds(QualifyLocal(r))
  <2>1. r \in names /\ Readable(r)
    OBVIOUS
  <2>2. QualifyLocal(r) \in Names
    BY <1>2, <1>3, <2>1 DEF IsLocal, QualifyLocal
  <2>3. Holds(QualifyLocal(r))
    BY <2>1 DEF Readable, InScope, QualifyLocal
  <2>. QED
    BY <2>2, <2>3
<1>5. keys \in SUBSET Names /\ \A k \in keys : Holds(k)
  BY <1>4
<1>6. sources \in SUBSET DOMAIN inputs
  BY WritersAreRecords
<1>7. ASSUME whole PROVE sources = UNION {Writers(k) : k \in keys}
  <2>1. \A r : InScope(r) = QualifyLocal(r)
    BY DEF InScope, QualifyLocal
  <2>2. keys = {InScope(r) : r \in read}
    BY <1>7, <2>1
  <2>. QED
    BY <2>2
<1>. HIDE DEF read, kept, p, keys, sources, whole
<1>. QED
  BY <1>1, <1>3, <1>5, <1>6, <1>7, DeriveFlows

LEMMA SetFlows ==
  ASSUME RecordsInv, FlowInv, NEW p \in Outputs, Set(p)
  PROVE  FlowInv'
<1>1. Store(p, NoPath, TRUE) /\ UNCHANGED <<inputs, from, merged>> /\ (settled' => settled)
  BY DEF Set
<1>2. /\ writer' = [q \in {q \in DOMAIN writer : ~Prefix(p, q)} \union {p} |-> IF q = p THEN NoPath ELSE writer[q]]
      /\ tidy' = (tidy /\ TRUE /\ ~Holds(p) /\ Alone(p))
  BY <1>1 DEF Store
<1>3. p \in Seq(STRING) /\ Prefix(p, p)
  BY LineageAssumption, NamesArePaths, PrefixSame
<1>4. \A q \in DOMAIN writer' : q \in Seq(STRING)
  BY <1>2, <1>3 DEF FlowInv
<1>5. ASSUME tidy' PROVE OwnInv'
  <2>1. tidy /\ ~Holds(p) /\ \A d \in DOMAIN inputs : ~Overlap(p, d)
    BY <1>2, <1>5 DEF Alone
  <2>2. \A q \in DOMAIN writer : ~Prefix(p, q)
    BY <2>1 DEF Holds
  <2>3. p \notin DOMAIN writer
    BY <1>3, <2>2
  <2>4. DOMAIN writer' = DOMAIN writer \union {p} /\ writer'[p] = NoPath /\ \A q \in DOMAIN writer : writer'[q] = writer[q]
    BY <1>2, <2>2, <2>3
  <2>5. OwnInv /\ \A d : OfElement(d)' <=> OfElement(d)
    BY <1>1, <2>1 DEF FlowInv, OfElement
  <2>6. Prefix(NoPath, p)
    <3>1. NoPath \in Seq(STRING) /\ Len(NoPath) = 0 /\ Len(p) \in Nat
      BY <1>3 DEF NoPath
    <3>2. Len(NoPath) <= Len(p) /\ \A i \in 1 .. Len(NoPath) : NoPath[i] = p[i]
      BY <3>1
    <3>. QED
      BY <1>3, <3>1, <3>2, PrefixIs
  <2>7. ASSUME NEW q \in DOMAIN writer', NEW d \in DOMAIN inputs
        PROVE  IF writer'[q] = NoPath THEN Overlap(q, d) => OfElement(d)' ELSE Overlap(writer'[q], d) => d = writer'[q]
    BY <2>1, <2>4, <2>5 DEF OwnInv
  <2>8. \A q \in DOMAIN writer' : Prefix(writer'[q], q)
    BY <2>4, <2>5, <2>6 DEF OwnInv
  <2>9. \A d \in DOMAIN inputs : OfElement(d)' \/ \E q \in DOMAIN writer' : writer'[q] = d
    BY <2>4, <2>5 DEF OwnInv
  <2>. QED
    BY <1>1, <2>7, <2>8, <2>9 DEF OwnInv
<1>6. ElementInv => ElementInv'
  BY <1>1 DEF ElementInv, Held
<1>. QED
  BY <1>1, <1>2, <1>4, <1>5, <1>6 DEF FlowInv

\* What an element's records need they need behind its prefix.
LEMMA HeldNeeds ==
  ASSUME NEW h, NEW e, NEW g, Holder(h, e, g), NEW q \in DOMAIN g, h[e \o q] = PrefixInputs(e, g[q])
  PROVE  Needs(h, e \o q) = Behind(e, Needs(g, q))
<1>1. g[q] \subseteq Names
  BY DEF Holder, IsGraph
<1>2. \A key \in g[q] : DerivationsFor(h, e \o key) = Behind(e, DerivationsFor(g, key))
  BY <1>1, ForBehind
<1>3. ASSUME NEW d \in Needs(h, e \o q) PROVE d \in Behind(e, Needs(g, q))
  <2>1. PICK k \in PrefixInputs(e, g[q]) : d \in DerivationsFor(h, k)
    BY DEF Needs
  <2>2. PICK key \in g[q] : k = e \o key
    BY DEF PrefixInputs
  <2>3. d \in Behind(e, DerivationsFor(g, key))
    BY <1>2, <2>1, <2>2
  <2>. QED
    BY <2>3 DEF Behind, Needs
<1>4. ASSUME NEW d \in Behind(e, Needs(g, q)) PROVE d \in Needs(h, e \o q)
  <2>1. PICK x \in Needs(g, q) : d = e \o x
    BY DEF Behind
  <2>2. PICK key \in g[q] : x \in DerivationsFor(g, key)
    BY DEF Needs
  <2>3. d \in Behind(e, DerivationsFor(g, key))
    BY <2>1, <2>2 DEF Behind
  <2>4. d \in DerivationsFor(h, e \o key) /\ e \o key \in PrefixInputs(e, g[q])
    BY <1>2, <2>2, <2>3 DEF PrefixInputs
  <2>. QED
    BY <2>4 DEF Needs
<1>. QED
  BY <1>3, <1>4

LEMMA GroundedBehind ==
  ASSUME NEW f, NEW h, NEW e, NEW g, DOMAIN h = DOMAIN f \union Behind(e, DOMAIN g), Grounded(f), Grounded(g),
         \A q \in DOMAIN f : Needs(h, q) = Needs(f, q),
         \A d \in DOMAIN f : d \notin Behind(e, DOMAIN g),
         \A q \in DOMAIN g : Needs(h, e \o q) = Behind(e, Needs(g, q))
  PROVE  Grounded(h)
<1>. SUFFICES ASSUME NEW T \in SUBSET DOMAIN h, T # {} PROVE \E q \in T : Needs(h, q) \cap T = {}
  BY DEF Grounded
<1>1. CASE T \cap DOMAIN f # {}
  <2> DEFINE U == T \cap DOMAIN f
  <2>1. PICK q \in U : Needs(f, q) \cap U = {}
    BY <1>1 DEF Grounded
  <2>2. Needs(h, q) \subseteq DOMAIN f /\ Needs(h, q) = Needs(f, q)
    BY NeedsAreRecords
  <2>. QED
    BY <2>1, <2>2
<1>2. CASE T \cap DOMAIN f = {}
  <2> DEFINE U == {q \in DOMAIN g : e \o q \in T}
  <2>1. U # {}
    <3>1. PICK d \in T : d \in Behind(e, DOMAIN g)
      BY <1>2
    <3>2. PICK q \in DOMAIN g : d = e \o q
      BY <3>1 DEF Behind
    <3>3. q \in U
      BY <3>1, <3>2
    <3>. QED
      BY <3>3
  <2>2. PICK q \in U : Needs(g, q) \cap U = {}
    BY <2>1 DEF Grounded
  <2>3. ASSUME NEW d \in Needs(h, e \o q), d \in T PROVE FALSE
    <3>1. PICK y \in Needs(g, q) : d = e \o y
      BY DEF Behind
    <3>2. y \in U
      BY <2>3, <3>1, NeedsAreRecords
    <3>. QED
      BY <2>2, <3>2
  <2>. QED
    BY <2>3
<1>. QED
  BY <1>1, <1>2

LEMMA MergeFlows ==
  ASSUME RecordsInv, FlowInv, NEW e \in Elements, NEW g \in ElementGraphs, Merge(e, g)
  PROVE  FlowInv'
<1> DEFINE new == [p \in {e \o q : q \in DOMAIN g} |-> CHOOSE q \in DOMAIN g : e \o q = p]
           All == DOMAIN inputs \union DOMAIN new
           N == Behind(e, DOMAIN g)
<1>1. /\ inputs' = [p \in All |-> IF p \in DOMAIN new THEN PrefixInputs(e, g[new[p]]) ELSE inputs[p]]
      /\ from' = [p \in All |-> IF p \in DOMAIN new THEN {e \o q : q \in Needs(g, new[p])} ELSE from[p]]
      /\ merged' = [x \in DOMAIN merged \union {e} |-> IF x = e THEN g ELSE merged[x]]
      /\ tidy' = (tidy /\ Alone(e)) /\ settled' = (settled /\ Unread(inputs, e) /\ Grounded(g))
      /\ writer' = writer
  BY DEF Merge
<1>2. /\ e \in Seq(STRING) /\ IsGraph(g)
      /\ \A p \in DOMAIN g : e \o p \in Names /\ \A key \in g[p] : e \o key \in Names
  BY LineageAssumption
<1>3. \A q \in DOMAIN g : q \in Seq(STRING)
  BY <1>2, NamesArePaths DEF IsGraph
<1>4. DOMAIN new = N /\ \A q \in DOMAIN g : e \o q \in N /\ new[e \o q] = q
  <2>1. \A q \in DOMAIN g : e \o q \in DOMAIN new
    OBVIOUS
  <2>2. \A p \in DOMAIN new : new[p] \in DOMAIN g /\ e \o new[p] = p
    OBVIOUS
  <2>3. DOMAIN new = N
    BY DEF Behind
  <2>. HIDE DEF new
  <2>4. ASSUME NEW q \in DOMAIN g PROVE new[e \o q] = q
    <3>1. e \o new[e \o q] = e \o q /\ new[e \o q] \in DOMAIN g
      BY <2>1, <2>2
    <3>2. new[e \o q] \in Seq(STRING) /\ q \in Seq(STRING)
      BY <1>3, <3>1
    <3>. QED
      BY <1>2, <3>1, <3>2, BehindPrefix
  <2>. QED
    BY <2>1, <2>3, <2>4
<1>. HIDE DEF new
<1>5. IsGraph(inputs) /\ DOMAIN from = DOMAIN inputs /\ \A q \in DOMAIN inputs : q \in Names /\ inputs[q] \subseteq Names
  BY DEF RecordsInv, IsGraph
<1>6. DOMAIN inputs' = DOMAIN inputs \union N /\ DOMAIN from' = DOMAIN inputs'
  BY <1>1, <1>4
<1>7. \A q \in DOMAIN g : inputs'[e \o q] = PrefixInputs(e, g[q]) /\ from'[e \o q] = Behind(e, Needs(g, q))
  BY <1>1, <1>4 DEF Behind
<1>8. \A q \in DOMAIN inputs : q \notin N => inputs'[q] = inputs[q] /\ from'[q] = from[q]
  BY <1>1, <1>4
<1>9. IsGraph(inputs')
  <2>1. ASSUME NEW p \in N PROVE p \in Names /\ inputs'[p] \subseteq Names
    <3>1. PICK q \in DOMAIN g : p = e \o q
      BY DEF Behind
    <3>2. inputs'[p] = PrefixInputs(e, g[q]) /\ \A key \in g[q] : e \o key \in Names
      BY <1>2, <1>7, <3>1
    <3>3. PrefixInputs(e, g[q]) \subseteq Names
      BY <3>2 DEF PrefixInputs
    <3>. QED
      BY <1>2, <3>1, <3>2, <3>3
  <2>2. \A p \in DOMAIN inputs : p \notin N => inputs'[p] \subseteq Names
    BY <1>5, <1>8
  <2>. QED
    BY <1>5, <1>6, <2>1, <2>2 DEF IsGraph
<1>10. from' = [q \in DOMAIN from' |-> from'[q]] /\ \A q \in DOMAIN writer' : q \in Seq(STRING)
  <2>1. \A q \in DOMAIN writer' : q \in Seq(STRING)
    BY <1>1 DEF FlowInv
  <2>2. from' = [q \in DOMAIN from' |-> from'[q]]
    BY <1>1
  <2>. QED
    BY <2>1, <2>2
<1>11. ASSUME tidy' PROVE /\ tidy /\ \A d \in DOMAIN inputs \union DOMAIN merged : ~Overlap(e, d) /\ ~Overlap(d, e)
                          /\ OwnInv /\ ElementInv /\ \A q \in DOMAIN inputs : from[q] \subseteq Needs(inputs, q)
  BY <1>1, <1>11, OverlapBoth DEF Alone, FlowInv
<1>12. \A n \in N : n \in Seq(STRING) /\ Prefix(e, n)
  <2>1. ASSUME NEW q \in DOMAIN g PROVE e \o q \in Seq(STRING) /\ Prefix(e, e \o q)
    <3>1. e \in Seq(STRING) /\ q \in Seq(STRING)
      BY <1>2, <1>3
    <3>. QED
      BY ONLY <3>1, BehindPrefix
  <2>2. \A n \in N : \E q \in DOMAIN g : n = e \o q
    BY DEF Behind
  <2>. QED
    BY ONLY <2>1, <2>2
<1>13. ASSUME NEW d \in Seq(STRING), ~Overlap(e, d), NEW n \in N PROVE ~Overlap(n, d) /\ ~Overlap(d, n)
  BY <1>2, <1>12, <1>13, OverlapBelow, OverlapBoth
<1>14. ASSUME tidy' PROVE /\ \A d \in DOMAIN inputs : d \notin N /\ \A n \in N : ~Overlap(n, d) /\ ~Overlap(d, n)
                          /\ Adds(inputs, inputs', N) /\ Held(e, g)'
  <2>1. ASSUME NEW d \in DOMAIN inputs, NEW n \in N PROVE ~Overlap(n, d) /\ ~Overlap(d, n)
    BY <1>5, <1>11, <1>13, <1>14, NamesArePaths
  <2>2. ASSUME NEW d \in DOMAIN inputs PROVE d \notin N
    BY <1>12, <2>1, PrefixSame
  <2>3. Adds(inputs, inputs', N)
    BY <1>5, <1>6, <1>9 DEF Adds
  <2>4. Holder(inputs', e, g)
    BY <1>2, <1>6, <1>9, <1>11, <1>14 DEF Holder
  <2>. QED
    BY <1>7, <2>1, <2>2, <2>3, <2>4 DEF Held
<1>15. ASSUME tidy' PROVE OwnInv'
  <2>1. \A d \in DOMAIN inputs : OfElement(d) => OfElement(d)'
    BY <1>1 DEF OfElement
  <2>2. \A n \in N : OfElement(n)'
    BY <1>1, <1>12 DEF OfElement
  <2>3. ASSUME NEW q \in DOMAIN writer, NEW d \in DOMAIN inputs'
        PROVE  IF writer[q] = NoPath THEN Overlap(q, d) => OfElement(d)' ELSE Overlap(writer[q], d) => d = writer[q]
    <3>1. CASE d \in DOMAIN inputs
      BY <1>11, <1>15, <2>1, <3>1 DEF OwnInv
    <3>2. CASE d \in N
      <4>1. writer[q] # NoPath => writer[q] \in DOMAIN inputs
        BY DEF RecordsInv
      <4>. QED
        BY <1>14, <1>15, <2>2, <3>2, <4>1
    <3>. QED
      BY <1>6, <3>1, <3>2
  <2>4. \A q \in DOMAIN writer : Prefix(writer[q], q)
    BY <1>11, <1>15 DEF OwnInv
  <2>5. \A d \in DOMAIN inputs' : OfElement(d)' \/ \E q \in DOMAIN writer : writer[q] = d
    BY <1>6, <1>11, <1>15, <2>1, <2>2 DEF OwnInv
  <2>. QED
    BY <1>1, <2>3, <2>4, <2>5 DEF OwnInv
<1>16. ASSUME tidy' PROVE ElementInv'
  <2>. SUFFICES ASSUME NEW x \in DOMAIN merged'
                PROVE  merged'[x] \in ElementGraphs /\ Held(x, merged[x])'
    BY DEF ElementInv
  <2>1. CASE x = e
    BY <1>1, <1>14, <1>16, <2>1
  <2>2. CASE x # e
    <3>1. x \in DOMAIN merged /\ merged'[x] = merged[x]
      BY <1>1, <2>2
    <3> DEFINE m == merged[x]
    <3>2. m \in ElementGraphs /\ Held(x, m)
      BY <1>11, <1>16, <3>1 DEF ElementInv
    <3>. HIDE DEF m
    <3>3. Holder(inputs, x, m) /\ \A q \in DOMAIN m : x \o q \in DOMAIN inputs /\ inputs[x \o q] = PrefixInputs(x, m[q])
      BY <3>2 DEF Held, Holder, Behind
    <3>4. x \in Seq(STRING) /\ ~Overlap(e, x)
      BY <1>11, <1>16, <3>1, <3>3 DEF Holder
    <3>5. \A n \in N : ~Overlap(x, n)
      BY <1>13, <3>4
    <3>6. Holder(inputs', x, m)
      BY <1>6, <1>9, <3>3, <3>5 DEF Holder
    <3>7. \A q \in DOMAIN m : inputs'[x \o q] = PrefixInputs(x, m[q])
      BY <1>8, <1>14, <1>16, <3>3
    <3>. QED
      BY <3>1, <3>2, <3>6, <3>7 DEF Held, m
  <2>. QED
    BY <2>1, <2>2
<1>17. ASSUME tidy', NEW q \in DOMAIN g PROVE Needs(inputs', e \o q) = from'[e \o q]
  <2>1. Holder(inputs', e, g)
    BY <1>14, <1>17 DEF Held
  <2>. QED
    BY <1>7, <2>1, HeldNeeds
<1>18. ASSUME tidy', NEW q \in DOMAIN inputs' PROVE from'[q] \subseteq Needs(inputs', q)
  <2>1. CASE q \in N
    BY <1>17, <1>18, <2>1 DEF Behind
  <2>2. CASE q \in DOMAIN inputs
    <3>1. inputs'[q] = inputs[q] /\ from'[q] = from[q] /\ inputs[q] \subseteq Names /\ from[q] \subseteq Needs(inputs, q)
      BY <1>5, <1>8, <1>11, <1>14, <1>18, <2>2
    <3>2. \A key \in Names : DerivationsFor(inputs, key) \subseteq DerivationsFor(inputs', key)
      BY <1>14, <1>18, ForGrows
    <3>3. Needs(inputs, q) \subseteq Needs(inputs', q)
      BY <3>1, <3>2 DEF Needs
    <3>. QED
      BY <3>1, <3>3
  <2>. QED
    BY <1>6, <2>1, <2>2
<1>19. ASSUME tidy', settled' PROVE /\ Grounded(inputs')
                                    /\ \A q \in DOMAIN inputs' : Needs(inputs', q) \subseteq from'[q]
  <2>1. settled /\ Grounded(g) /\ \A q \in DOMAIN inputs : \A key \in inputs[q] : ~Overlap(e, key)
    BY <1>1, <1>19, OverlapBoth DEF Unread
  <2>2. Grounded(inputs) /\ \A q \in DOMAIN inputs : Needs(inputs, q) \subseteq from[q]
    BY <1>11, <1>19, <2>1 DEF FlowInv
  <2>3. ASSUME NEW q \in DOMAIN inputs PROVE Needs(inputs', q) = Needs(inputs, q)
    <3>1. inputs'[q] = inputs[q] /\ inputs[q] \subseteq Names
      BY <1>5, <1>8, <1>14, <1>19
    <3>2. ASSUME NEW key \in inputs[q] PROVE DerivationsFor(inputs', key) = DerivationsFor(inputs, key)
      <4>1. key \in Names /\ key \in Seq(STRING) /\ ~Overlap(e, key)
        BY <2>1, <3>1, NamesArePaths
      <4>2. \A n \in N : ~Overlap(n, key)
        BY <1>13, <4>1
      <4>. QED
        BY <1>14, <1>19, <4>1, <4>2, ForStays
    <3>. QED
      BY <3>1, <3>2 DEF Needs
  <2>4. \A q \in DOMAIN g : Needs(inputs', e \o q) = Behind(e, Needs(g, q))
    BY <1>7, <1>17, <1>19
  <2>5. \A d \in DOMAIN inputs : d \notin N
    BY <1>14, <1>19
  <2>6. Grounded(inputs')
    BY <1>6, <2>1, <2>2, <2>3, <2>4, <2>5, GroundedBehind
  <2>7. ASSUME NEW q \in DOMAIN inputs' PROVE Needs(inputs', q) \subseteq from'[q]
    <3>1. CASE q \in N
      BY <1>17, <1>19, <3>1 DEF Behind
    <3>2. CASE q \in DOMAIN inputs
      BY <1>8, <2>2, <2>3, <2>5, <3>2
    <3>. QED
      BY <1>6, <3>1, <3>2
  <2>. QED
    BY <2>6, <2>7
<1>. QED
  BY <1>10, <1>11, <1>15, <1>16, <1>18, <1>19 DEF FlowInv
-----------------------------------------------------------------------------
LEMMA FlowStarts == Init => FlowInv
<1>. SUFFICES ASSUME Init PROVE FlowInv
  OBVIOUS
<1> DEFINE bare == [p \in {<<k>> : k \in DOMAIN Seeds} |-> {}]
<1>1. PICK g : Recorded(g) /\ (tidy => g = bare)
  BY DEF Init
<1>2. /\ inputs = g /\ from = [p \in DOMAIN g |-> Needs(g, p)]
      /\ writer = [p \in UNION {Seeds[k] : k \in DOMAIN Seeds} |-> <<p[1]>>]
      /\ merged = <<>>
  BY <1>1 DEF Recorded
<1>3. ASSUME NEW q \in DOMAIN writer
      PROVE  q \in Seq(STRING) /\ q # <<>> /\ writer[q] = <<q[1]>> /\ q[1] \in DOMAIN Seeds
  <2>1. PICK k \in DOMAIN Seeds : q \in Seeds[k]
    BY <1>2
  <2>. QED
    BY <1>2, <2>1, LineageAssumption
<1>6. from = [p \in DOMAIN from |-> from[p]]
  BY <1>2
<1>4. CASE ~tidy
  BY <1>3, <1>4, <1>6 DEF FlowInv
<1>5. CASE tidy
  <2>1. DOMAIN inputs = {<<k>> : k \in DOMAIN Seeds} /\ \A p \in DOMAIN inputs : inputs[p] = {}
    BY <1>1, <1>2, <1>5
  <2>2. \A k \in DOMAIN Seeds : <<k>> \in Seq(STRING) /\ Len(<<k>>) = 1 /\ <<k>>[1] = k
    BY LineageAssumption, NamesArePaths
  <2>3. ASSUME NEW j \in DOMAIN Seeds, NEW k \in DOMAIN Seeds, Overlap(<<j>>, <<k>>) PROVE <<j>> = <<k>>
    <3>1. CASE Prefix(<<j>>, <<k>>)
      <4>1. \A i \in 1 .. Len(<<j>>) : <<j>>[i] = <<k>>[i]
        BY <2>2, <3>1, PrefixIs
      <4>. QED
        BY <2>2, <4>1
    <3>2. CASE Prefix(<<k>>, <<j>>)
      <4>1. \A i \in 1 .. Len(<<k>>) : <<k>>[i] = <<j>>[i]
        BY <2>2, <3>2, PrefixIs
      <4>. QED
        BY <2>2, <4>1
    <3>. QED
      BY <2>3, <3>1, <3>2 DEF Overlap
  <2>4. ASSUME NEW q \in DOMAIN writer PROVE Prefix(writer[q], q) /\ writer[q] # NoPath
    <3>1. Len(q) \in Nat /\ Len(q) >= 1 /\ q \in Seq(STRING)
      BY <1>3
    <3> DEFINE k == q[1]
    <3>5. writer[q] = <<k>> /\ k \in DOMAIN Seeds
      BY <1>3
    <3>. HIDE DEF k
    <3>6. writer[q] \in Seq(STRING) /\ Len(writer[q]) = 1 /\ writer[q][1] = k
      BY <2>2, <3>5
    <3>2. writer[q] \in Seq(STRING) /\ Len(writer[q]) = 1 /\ writer[q][1] = q[1]
      BY <3>6 DEF k
    <3>3. \A i \in 1 .. Len(writer[q]) : writer[q][i] = q[i]
      BY <3>2
    <3>4. writer[q] # NoPath
      <4>1. <<k>> # <<>>
        OBVIOUS
      <4>. QED
        BY <3>5, <4>1 DEF NoPath
    <3>. QED
      BY <3>1, <3>2, <3>3, <3>4, PrefixIs
  <2>5. \A q \in DOMAIN writer, d \in DOMAIN inputs : Overlap(writer[q], d) => d = writer[q]
    BY <1>3, <2>1, <2>3
  <2>6. ASSUME NEW d \in DOMAIN inputs PROVE \E q \in DOMAIN writer : writer[q] = d
    <3>1. PICK k \in DOMAIN Seeds : d = <<k>>
      BY <2>1
    <3>2. PICK q \in Seeds[k] : q[1] = k
      BY LineageAssumption
    <3>3. q \in DOMAIN writer
      BY <1>2, <3>2
    <3>. QED
      BY <1>3, <3>1, <3>2, <3>3
  <2>7. OwnInv
    BY <2>4, <2>5, <2>6 DEF OwnInv
  <2>8. ElementInv
    <3>1. DOMAIN merged = {}
      BY <1>2
    <3>. QED
      BY <3>1 DEF ElementInv
  <2>9. \A p \in DOMAIN inputs : Needs(inputs, p) = {} /\ from[p] = {}
    BY <1>2, <2>1 DEF Needs
  <2>10. Grounded(inputs)
    BY <2>9 DEF Grounded
  <2>. QED
    BY <1>3, <1>6, <2>7, <2>8, <2>9, <2>10 DEF FlowInv
<1>. QED
  BY <1>4, <1>5

LEMMA FlowKept == RecordsInv /\ FlowInv /\ [Next]_vars => FlowInv'
<1>. SUFFICES ASSUME RecordsInv, FlowInv, [Next]_vars PROVE FlowInv'
  OBVIOUS
<1>1. CASE UNCHANGED <<writer, inputs, from, tidy, settled, merged>>
  BY <1>1 DEF FlowInv, OwnInv, OfElement, ElementInv, Held
<1>2. CASE Writing
  <2>1. CASE \E p \in Outputs : Set(p)
    BY <2>1, SetFlows
  <2>2. CASE \E p \in Outputs, read \in Reads : Single(p, read)
    BY <2>2, SingleFlows
  <2>3. CASE Begin \/ End
    BY <1>1, <2>3 DEF Begin, End
  <2>4. CASE \E e \in Locals, names \in Reads : Expression(e, names)
    BY <2>4, ExpressionFlows
  <2>5. CASE \E e \in Elements, g \in ElementGraphs : Merge(e, g)
    BY <2>5, MergeFlows
  <2>. QED
    BY <1>2, <2>1, <2>2, <2>3, <2>4, <2>5 DEF Writing
<1>3. CASE UNCHANGED scope
  BY <1>1, <1>3 DEF scope
<1>. QED
  BY <1>2, <1>3, NextIs, QueriesOnlyRead DEF vars
-----------------------------------------------------------------------------
LEMMA FiniteRecords ==
  ASSUME RecordsInv
  PROVE  IsFiniteSet(DOMAIN from) /\ DOMAIN from = DOMAIN inputs
<1>1. DOMAIN inputs \in SUBSET Names /\ DOMAIN from = DOMAIN inputs
  BY DEF RecordsInv, IsGraph
<1>. QED
  BY <1>1, NamesFinite, FS_Subset

\* What went into a value can be reached from it, and while no name was read too early
\* nothing else can.
LEMMA SourcesReached ==
  ASSUME RecordsInv, FlowInv, tidy, target \in DOMAIN inputs
  PROVE  Sources(target) \subseteq Reachable /\ (settled => Reachable \subseteq Sources(target))
<1> DEFINE D == DOMAIN from
           start == {target}
           C == Closure(start, from, Cardinality(D))
<1>1. IsFiniteSet(D) /\ D = DOMAIN inputs
  BY FiniteRecords
<1>2. from \in [D -> SUBSET D] /\ start \in SUBSET D
  <2>1. from = [p \in D |-> from[p]]
    BY DEF FlowInv
  <2>2. \A p \in D : from[p] \in SUBSET D
    BY <1>1 DEF RecordsInv
  <2>. QED
    BY <1>1, <2>1, <2>2
<1>3. Sources(target) = C
  BY DEF Sources
<1>. HIDE DEF start, D
<1>4. /\ start \subseteq C /\ C \subseteq D /\ Closed(from, C)
      /\ \A T : start \subseteq T /\ (\A p \in T \cap D : from[p] \subseteq T) => C \subseteq T
  BY <1>1, <1>2, ClosureIs
<1>. HIDE DEF C
<1>5. DerivationsFor(inputs, target) = {target} /\ start = {target}
  BY DEF DerivationsFor, start
<1>6. IsReach(inputs, target, Reachable)
  BY ReachedNow
<1>7. C \subseteq Reachable
  <2>1. start \subseteq Reachable
    BY <1>5, <1>6 DEF IsReach
  <2>2. ASSUME NEW p \in Reachable \cap D PROVE from[p] \subseteq Reachable
    <3>1. from[p] \subseteq Needs(inputs, p)
      BY <1>1 DEF FlowInv
    <3>. QED
      BY <1>6, <3>1 DEF IsReach
  <2>. QED
    BY <1>4, <2>1, <2>2
<1>8. ASSUME settled PROVE Reachable \subseteq C
  <2>1. ASSUME NEW p \in C \cap DOMAIN inputs PROVE Needs(inputs, p) \subseteq C
    <3>1. Needs(inputs, p) \subseteq from[p]
      BY <1>8 DEF FlowInv
    <3>. QED
      BY <1>4, <3>1 DEF Closed
  <2>2. DerivationsFor(inputs, target) \subseteq C
    BY <1>4, <1>5
  <2>. QED
    BY <1>6, <2>1, <2>2 DEF IsReach
<1>. QED
  BY <1>3, <1>7, <1>8

\* From an element's record what can be reached is what could be in the element.
LEMMA ElementReached ==
  ASSUME RecordsInv, FlowInv, tidy, NEW e \in DOMAIN merged, NEW p \in DOMAIN merged[e], target = e \o p
  PROVE  Reachable = Behind(e, Reach(merged[e], p))
<1> DEFINE g == merged[e]
           R == Reach(g, p)
<1>1. Holder(inputs, e, g) /\ \A q \in DOMAIN g : inputs[e \o q] = PrefixInputs(e, g[q])
  BY DEF FlowInv, ElementInv, Held
<1>. HIDE DEF g
<1>2. IsGraph(g) /\ p \in DOMAIN g /\ p \in Names
  BY <1>1 DEF Holder, IsGraph, g
<1>3. IsReach(g, p, R)
  BY <1>2, ReachIs
<1>. HIDE DEF R
<1>4. IsReach(inputs, target, Reachable)
  BY ReachedNow
<1>5. DerivationsFor(inputs, target) = Behind(e, DerivationsFor(g, p))
  BY <1>1, <1>2, ForBehind
<1>6. \A q \in DOMAIN g : Needs(inputs, e \o q) = Behind(e, Needs(g, q))
  BY <1>1, HeldNeeds
<1>7. Reachable \subseteq Behind(e, R)
  <2> DEFINE T == Behind(e, R)
  <2>1. DerivationsFor(inputs, target) \subseteq T
    BY <1>3, <1>5 DEF IsReach, Behind
  <2>2. ASSUME NEW d \in T PROVE Needs(inputs, d) \subseteq T
    <3>1. PICK q \in R : d = e \o q
      BY DEF Behind
    <3>2. q \in DOMAIN g /\ Needs(g, q) \subseteq R
      BY <1>3 DEF IsReach
    <3>3. Needs(inputs, d) = Behind(e, Needs(g, q))
      BY <1>6, <3>1, <3>2
    <3>. QED
      BY <3>2, <3>3 DEF Behind
  <2>. HIDE DEF T
  <2>3. Reachable \subseteq T
    BY <1>4, <2>1, <2>2 DEF IsReach
  <2>. QED
    BY <2>3 DEF T
<1>8. Behind(e, R) \subseteq Reachable
  <2> DEFINE T == {q \in DOMAIN g : e \o q \in Reachable}
  <2>1. DerivationsFor(g, p) \subseteq T
    <3>1. \A q \in DerivationsFor(g, p) : q \in DOMAIN g /\ e \o q \in Reachable
      BY <1>4, <1>5, DerivationsAreRecords DEF IsReach, Behind
    <3>. QED
      BY <3>1
  <2>2. ASSUME NEW q \in T PROVE Needs(g, q) \subseteq T
    <3>1. q \in DOMAIN g /\ e \o q \in Reachable
      OBVIOUS
    <3>2. Behind(e, Needs(g, q)) \subseteq Reachable
      BY <1>4, <1>6, <3>1 DEF IsReach
    <3>3. \A y \in Needs(g, q) : y \in DOMAIN g /\ e \o y \in Reachable
      BY <3>2, NeedsAreRecords DEF Behind
    <3>. QED
      BY <3>3
  <2>. HIDE DEF T
  <2>3. R \subseteq T
    BY <1>3, <2>1, <2>2 DEF IsReach
  <2>. QED
    BY <2>3 DEF T, Behind
<1>. QED
  BY <1>7, <1>8 DEF g, R
-----------------------------------------------------------------------------
\* All that is behind a derivation: the records in each closed set that has what it needs.
Below(g, p) ==
  {q \in DOMAIN g : \A T \in SUBSET DOMAIN g :
                      Needs(g, p) \subseteq T /\ (\A r \in T : Needs(g, r) \subseteq T) => q \in T}

LEMMA BelowIs ==
  ASSUME NEW g, NEW p
  PROVE  /\ Needs(g, p) \subseteq Below(g, p)
         /\ \A q \in Below(g, p) : Needs(g, q) \subseteq Below(g, p)
         /\ \A q \in Needs(g, p) : Below(g, q) \subseteq Below(g, p)
<1>1. \A q : Needs(g, q) \subseteq DOMAIN g
  BY NeedsAreRecords
<1>. QED
  BY <1>1 DEF Below

\* Where no derivations need each other in a circle, none is behind itself.
LEMMA NotBelowItself ==
  ASSUME NEW g, Grounded(g), NEW p \in DOMAIN g
  PROVE  p \notin Below(g, p)
<1>. SUFFICES ASSUME p \in Below(g, p) PROVE FALSE
  OBVIOUS
<1> DEFINE U == {q \in DOMAIN g : p \in Below(g, q) \/ p = q}
           T == DOMAIN g \ U
<1>1. PICK q \in U : Needs(g, q) \cap U = {}
  <2>1. U \in SUBSET DOMAIN g /\ p \in U
    OBVIOUS
  <2>. HIDE DEF U
  <2>. QED
    BY <2>1 DEF Grounded
<1>2. p \in Below(g, q)
  OBVIOUS
<1>3. \A r \in T : Needs(g, r) \subseteq T
  <2>. SUFFICES ASSUME NEW r \in T, NEW s \in Needs(g, r), s \in U PROVE FALSE
    BY NeedsAreRecords
  <2>1. p \in Below(g, s) \/ p = s
    OBVIOUS
  <2>2. p \in Below(g, r)
    BY <2>1, BelowIs
  <2>3. r \in DOMAIN g /\ r \notin U
    OBVIOUS
  <2>. QED
    BY <2>2, <2>3
<1>4. Needs(g, q) \subseteq T /\ T \in SUBSET DOMAIN g /\ p \notin T
  BY <1>1, NeedsAreRecords
<1>. HIDE DEF T, U
<1>5. p \in T
  BY <1>2, <1>3, <1>4 DEF Below
<1>. QED
  BY <1>4, <1>5
-----------------------------------------------------------------------------
\* What an item of the agenda is about.
About(g, x) == IF x[1] = "enter" THEN DerivationsFor(g, x[2]) ELSE {x[2]}

\* What an item above the end of an iteration is about is behind its derivation, and
\* what that needs has been met or will be by the items above.
Nested(g, a, v) ==
  \A k \in DOMAIN a : IsEnd(a[k]) =>
    /\ \A j \in 1 .. k - 1 : About(g, a[j]) \subseteq Below(g, a[k][2])
    /\ \A q \in Needs(g, a[k][2]) : q \in v \/ \E j \in 1 .. k - 1 : q \in Stands(g, a[j])

LEMMA NestedKept ==
  ASSUME NEW g, IsGraph(g), NEW key, NEW R, IsReach(g, key, R), NEW v, NEW a, Walk(g, R, a, v), a # <<>>,
         Nested(g, a, v), Cut(a) => DerivationsFor(g, a[1][2]) \subseteq v
  PROVE  Nested(g, Rest(g, a, v), Met(a, v))
<1> DEFINE x == a[1]
           c == Calls(g, x, v)
           b == Rest(g, a, v)
           w == Met(a, v)
           m == Len(c)
<1>1. /\ a \in Seq(Items) /\ x \in Items /\ c \in Seq(Items) /\ b \in Seq(Items)
      /\ Entering(x) => Entered(g, x, c)
      /\ Visiting(x, v) => Visited(g, x, c)
      /\ ~Entering(x) /\ ~Visiting(x, v) => c = <<>>
      /\ Replaced(a, c, b)
  BY StepIs
<1>2. /\ \A k \in DOMAIN b : \/ k \in DOMAIN c /\ b[k] = c[k]
                             \/ /\ k - m + 1 \in DOMAIN a /\ k - m + 1 > 1 /\ k > m
                                /\ b[k] = a[k - m + 1]
      /\ \A k \in DOMAIN c : k \in DOMAIN b /\ b[k] = c[k] /\ k <= m
      /\ \A k \in DOMAIN a : k > 1 => k + m - 1 \in DOMAIN b /\ k + m - 1 > m /\ b[k + m - 1] = a[k]
      /\ 1 \in DOMAIN a /\ DOMAIN a \subseteq Nat /\ DOMAIN b \subseteq Nat /\ DOMAIN c \subseteq Nat /\ m \in Nat
  BY <1>1, ReplacedPlaces
<1>3. /\ DOMAIN a = 1 .. Len(a) /\ DOMAIN b = 1 .. Len(b) /\ DOMAIN c = 1 .. m
      /\ Len(a) \in Nat /\ Len(b) \in Nat
  BY <1>1
<1>4. v \subseteq w /\ (x[1] = "visit" => x[2] \in w)
  BY MetGrows DEF Met
<1>5. x[1] \in {"enter", "visit", "emit"}
  BY <1>1, ItemIs
<1>6. x[1] = "enter" /\ TooDeep(x[3]) => DerivationsFor(g, x[2]) \subseteq v
  BY DEF Cut
<1>7. x = a[1]
  OBVIOUS
<1>8. \A k \in DOMAIN c : c[k] \in MemberOf(c)
  BY DEF MemberOf
<1>. HIDE DEF x, c, b, w, m
\* What is put on the stack is about what the item was about, or what that needs, and
\* all that the item stood for is met or in it.
<1>9. ASSUME NEW T, About(g, x) \subseteq T, \A q \in T : Needs(g, q) \subseteq T
      PROVE  \A k \in DOMAIN c : About(g, c[k]) \subseteq T
  <2>. SUFFICES ASSUME NEW k \in DOMAIN c PROVE About(g, c[k]) \subseteq T
    OBVIOUS
  <2>1. CASE Entering(x)
    <3>1. PICK p \in DerivationsFor(g, x[2]) : c[k] = <<"visit", p, x[3]>>
      BY <1>1, <1>8, <2>1 DEF Entered
    <3>2. About(g, c[k]) = {p}
      BY <3>1 DEF About
    <3>. QED
      BY <1>9, <2>1, <3>2 DEF About, Entering
  <2>2. CASE Visiting(x, v)
    <3>1. x[2] \in T
      BY <1>9, <2>2 DEF About, Visiting
    <3>2. CASE c[k] = <<"emit", x[2], x[3]>>
      <4>1. About(g, c[k]) = {x[2]}
        BY <3>2 DEF About
      <4>. QED
        BY <3>1, <4>1
    <3>3. CASE c[k] \in {<<"enter", id, x[3] + 1>> : id \in g[x[2]]}
      <4>1. PICK id \in g[x[2]] : c[k] = <<"enter", id, x[3] + 1>>
        BY <3>3
      <4>2. About(g, c[k]) = DerivationsFor(g, id)
        BY <4>1 DEF About
      <4>3. DerivationsFor(g, id) \subseteq Needs(g, x[2])
        BY DEF Needs
      <4>. QED
        BY <1>9, <3>1, <4>2, <4>3
    <3>4. k = m \/ k \in 1 .. m - 1
      BY <1>2, <1>3
    <3>. QED
      BY <1>1, <2>2, <3>2, <3>3, <3>4 DEF Visited, m
  <2>3. CASE ~Entering(x) /\ ~Visiting(x, v)
    BY <1>1, <2>3
  <2>. QED
    BY <2>1, <2>2, <2>3
<1>10. ASSUME NEW q \in Stands(g, x)
       PROVE  q \in w \/ \E j \in DOMAIN c : q \in Stands(g, c[j])
  <2>1. CASE x[1] = "visit"
    BY <1>4, <2>1 DEF Stands
  <2>2. CASE x[1] = "emit"
    BY <2>2 DEF Stands
  <2>3. CASE x[1] = "enter" /\ TooDeep(x[3])
    BY <1>4, <1>6, <2>3 DEF Stands
  <2>4. CASE x[1] = "enter" /\ ~TooDeep(x[3])
    <3>1. MemberOf(c) = {<<"visit", p, x[3]>> : p \in DerivationsFor(g, x[2])}
      BY <1>1, <2>4 DEF Entering, Entered
    <3>2. q \in DerivationsFor(g, x[2])
      BY <2>4 DEF Stands
    <3>3. <<"visit", q, x[3]>> \in MemberOf(c)
      BY <3>1, <3>2
    <3>4. PICK j \in DOMAIN c : c[j] = <<"visit", q, x[3]>>
      BY <3>3 DEF MemberOf
    <3>5. q \in Stands(g, c[j])
      BY <3>4 DEF Stands
    <3>. QED
      BY <3>5
  <2>. QED
    BY <1>5, <2>1, <2>2, <2>3, <2>4
\* An end that was below.
<1>11. ASSUME NEW k \in DOMAIN b, k - m + 1 \in DOMAIN a, k - m + 1 > 1, k > m, b[k] = a[k - m + 1], IsEnd(b[k])
       PROVE  /\ \A j \in 1 .. k - 1 : About(g, b[j]) \subseteq Below(g, b[k][2])
              /\ \A q \in Needs(g, b[k][2]) : q \in w \/ \E j \in 1 .. k - 1 : q \in Stands(g, b[j])
  <2> DEFINE i == k - m + 1
             p == b[k][2]
             B == Below(g, p)
  <2>1. i \in DOMAIN a /\ i \in Nat /\ k \in Nat /\ i > 1 /\ k = i + m - 1
    BY <1>2, <1>11
  <2>2. /\ \A j \in 1 .. i - 1 : About(g, a[j]) \subseteq B
        /\ \A q \in Needs(g, p) : q \in v \/ \E j \in 1 .. i - 1 : q \in Stands(g, a[j])
    <3>1. a[i] = b[k]
      BY <1>11
    <3>2. a[i][2] = p /\ IsEnd(a[i])
      BY <1>11, <3>1
    <3>. HIDE DEF i, p
    <3>. QED
      BY <2>1, <3>2 DEF Nested
  <2>3. \A q \in B : Needs(g, q) \subseteq B
    BY BelowIs
  <2>. HIDE DEF i, p, B
  <2>4. About(g, x) \subseteq B
    <3>1. 1 \in 1 .. i - 1
      BY <2>1
    <3>. QED
      BY <1>7, <2>2, <3>1
  <2>5. \A j \in DOMAIN c : About(g, c[j]) \subseteq B
    BY <1>9, <2>3, <2>4
  <2>6. ASSUME NEW j \in 1 .. k - 1 PROVE About(g, b[j]) \subseteq B
    <3>1. j \in DOMAIN b
      BY <1>3, <2>1
    <3>2. CASE j \in DOMAIN c /\ b[j] = c[j]
      BY <2>5, <3>2
    <3>3. CASE j - m + 1 \in DOMAIN a /\ j - m + 1 > 1 /\ b[j] = a[j - m + 1]
      <4>1. j - m + 1 \in 1 .. i - 1
        BY <1>2, <2>1, <3>3
      <4>. QED
        BY <2>2, <3>3, <4>1
    <3>. QED
      BY <1>2, <3>1, <3>2, <3>3
  <2>7. ASSUME NEW q \in Needs(g, p) PROVE q \in w \/ \E j \in 1 .. k - 1 : q \in Stands(g, b[j])
    <3>1. CASE q \in v
      BY <1>4, <3>1
    <3>2. CASE q \in Stands(g, x)
      <4>1. CASE q \in w
        BY <4>1
      <4>2. CASE \E j \in DOMAIN c : q \in Stands(g, c[j])
        <5>1. PICK j \in DOMAIN c : q \in Stands(g, c[j])
          BY <4>2
        <5>2. j \in 1 .. k - 1 /\ b[j] = c[j]
          <6>1. j \in 1 .. m /\ b[j] = c[j]
            BY <1>2, <1>3
          <6>2. m \in Nat /\ k \in Nat /\ k > m
            BY <1>2, <1>11
          <6>3. j \in 1 .. k - 1
            BY ONLY <6>1, <6>2
          <6>. QED
            BY <6>1, <6>3
        <5>. QED
          BY <5>1, <5>2
      <4>. QED
        BY <1>10, <3>2, <4>1, <4>2
    <3>3. ASSUME NEW j \in 1 .. i - 1, j # 1, q \in Stands(g, a[j])
          PROVE  \E n \in 1 .. k - 1 : q \in Stands(g, b[n])
      <4>1. j \in DOMAIN a /\ j > 1 /\ j \in Nat
        BY <1>3, <2>1, <3>3
      <4>2. j + m - 1 \in 1 .. k - 1 /\ b[j + m - 1] = a[j]
        BY <1>2, <2>1, <4>1
      <4>. QED
        BY <3>3, <4>2
    <3>. QED
      BY <1>7, <2>2, <3>1, <3>2, <3>3
  <2>. QED
    BY <2>6, <2>7 DEF p, B
\* The end of what is visited now.
<1>12. ASSUME NEW k \in DOMAIN b, k \in DOMAIN c, b[k] = c[k], IsEnd(b[k])
       PROVE  /\ \A j \in 1 .. k - 1 : About(g, b[j]) \subseteq Below(g, b[k][2])
              /\ \A q \in Needs(g, b[k][2]) : q \in w \/ \E j \in 1 .. k - 1 : q \in Stands(g, b[j])
  <2> DEFINE Ids == {<<"enter", id, x[3] + 1>> : id \in g[x[2]]}
  <2>1. Visiting(x, v)
    <3>1. CASE Entering(x)
      <4>1. c[k][1] = "visit"
        BY <1>1, <1>8, <1>12, <3>1 DEF Entered
      <4>. QED
        BY <1>12, <4>1 DEF IsEnd
    <3>. QED
      BY <1>1, <1>12, <3>1
  <2>2. /\ m > 0 /\ c[m] = <<"emit", x[2], x[3]>> /\ \A j \in 1 .. m - 1 : c[j] \in Ids
        /\ \A id \in g[x[2]] : <<"enter", id, x[3] + 1>> \in MemberOf(c)
    BY <1>1, <2>1 DEF Visited, m
  <2>3. \A y \in Ids : y[1] = "enter"
    OBVIOUS
  <2>4. k = m
    <3>1. c[k] \notin Ids
      BY <1>12, <2>3 DEF IsEnd
    <3>. HIDE DEF Ids
    <3>2. k = m \/ k \in 1 .. m - 1
      BY <1>2, <1>3, <1>12
    <3>3. \A j \in 1 .. m - 1 : c[j] \in Ids
      BY <2>2
    <3>. QED
      BY <3>1, <3>2, <3>3
  <2>5. b[k][2] = x[2]
    BY <1>12, <2>2, <2>4
  <2>6. ASSUME NEW j \in 1 .. k - 1 PROVE About(g, b[j]) \subseteq Below(g, x[2])
    <3>1. j \in DOMAIN c /\ j \in 1 .. m - 1
      BY <1>2, <1>3, <2>4
    <3>2. b[j] = c[j]
      BY <1>2, <3>1
    <3>3. PICK id \in g[x[2]] : b[j] = <<"enter", id, x[3] + 1>>
      BY <2>2, <3>1, <3>2
    <3>4. About(g, b[j]) = DerivationsFor(g, id)
      BY <3>3 DEF About
    <3>5. DerivationsFor(g, id) \subseteq Needs(g, x[2])
      BY DEF Needs
    <3>. QED
      BY <3>4, <3>5, BelowIs
  <2>7. ASSUME NEW q \in Needs(g, x[2]) PROVE \E j \in 1 .. k - 1 : q \in Stands(g, b[j])
    <3>1. PICK id \in g[x[2]] : q \in DerivationsFor(g, id)
      BY DEF Needs
    <3> DEFINE y == <<"enter", id, x[3] + 1>>
    <3>2. y \in MemberOf(c) /\ y[1] = "enter" /\ y[2] = id
      BY <2>2
    <3>. HIDE DEF y
    <3>3. PICK j \in DOMAIN c : c[j] = y
      BY <3>2 DEF MemberOf
    <3>4. j # m
      BY <2>2, <3>2, <3>3
    <3>5. j \in 1 .. k - 1 /\ b[j] = y
      BY <1>2, <1>3, <2>4, <3>3, <3>4
    <3>6. q \in Stands(g, b[j])
      BY <3>1, <3>2, <3>5 DEF Stands
    <3>. QED
      BY <3>5, <3>6
  <2>. QED
    BY <2>5, <2>6, <2>7
<1>13. Nested(g, b, w)
  <2>. SUFFICES ASSUME NEW k \in DOMAIN b, IsEnd(b[k])
                PROVE  /\ \A j \in 1 .. k - 1 : About(g, b[j]) \subseteq Below(g, b[k][2])
                       /\ \A q \in Needs(g, b[k][2]) : q \in w \/ \E j \in 1 .. k - 1 : q \in Stands(g, b[j])
    BY DEF Nested
  <2>1. CASE k \in DOMAIN c /\ b[k] = c[k]
    BY <1>12, <2>1
  <2>2. CASE k - m + 1 \in DOMAIN a /\ k - m + 1 > 1 /\ k > m /\ b[k] = a[k - m + 1]
    BY <1>11, <2>2
  <2>. QED
    BY <1>2, <2>1, <2>2
<1>. QED
  BY <1>13 DEF b, w
-----------------------------------------------------------------------------
\* What a derivation needs comes before it in the answer.
Ordered(g, o) == \A k \in DOMAIN o : \A q \in Needs(g, o[k]) : \E j \in 1 .. k - 1 : o[j] = q

LEMMA OrderedKept ==
  ASSUME NEW g, IsGraph(g), Grounded(g), NEW key, NEW R, IsReach(g, key, R), NEW v, NEW a, Walk(g, R, a, v), a # <<>>,
         Nested(g, a, v), NEW S, R \subseteq S, NEW o \in Seq(S), Listed(a, v, o), Ordered(g, o)
  PROVE  Ordered(g, Emitted(a, o))
<1>. SUFFICES ASSUME IsEnd(a[1]) PROVE Ordered(g, Append(o, a[1][2]))
  BY DEF Emitted
<1> DEFINE p == a[1][2]
           t == Append(o, p)
<1>1. a \in Seq(Items) /\ v = MemberOf(o) \union Open(a) /\ R \subseteq DOMAIN g
  BY DEF Walk, Listed, IsReach
<1>2. 1 \in DOMAIN a /\ DOMAIN a = 1 .. Len(a) /\ Len(a) \in Nat
  BY <1>1
<1>3. p \in R
  <2>1. a[1] \in MemberOf(a)
    BY <1>2 DEF MemberOf
  <2>. QED
    BY <2>1 DEF Walk, Placed, IsEnd
<1>4. p \in S /\ p \in DOMAIN g
  BY <1>1, <1>3
<1>5. /\ DOMAIN o = 1 .. Len(o) /\ DOMAIN t = 1 .. Len(o) + 1 /\ Len(o) \in Nat
      /\ t[Len(o) + 1] = p /\ \A j \in 1 .. Len(o) : t[j] = o[j]
  BY <1>4, AppendIn
<1>6. ASSUME NEW q \in Needs(g, p) PROVE q \in MemberOf(o)
  <2>1. q \in v
    <3>1. 1 .. 1 - 1 = {}
      OBVIOUS
    <3>. QED
      BY <1>2, <3>1 DEF Nested
  <2>2. q \notin Open(a)
    <3>. SUFFICES ASSUME q \in Open(a) PROVE FALSE
      OBVIOUS
    <3>1. PICK k \in DOMAIN a : IsEnd(a[k]) /\ a[k][2] = q
      BY DEF Open, MemberOf
    <3>2. CASE k = 1
      <4>1. p \in Below(g, p)
        BY <3>1, <3>2, BelowIs
      <4>. QED
        BY <1>4, <4>1, NotBelowItself
    <3>3. CASE k # 1
      <4>1. 1 \in 1 .. k - 1
        BY <1>2, <3>3
      <4>2. About(g, a[1]) \subseteq Below(g, q)
        BY <3>1, <4>1 DEF Nested
      <4>3. p \in Below(g, q)
        BY <4>2 DEF About, IsEnd
      <4>4. q \in Below(g, q)
        BY <4>3, BelowIs
      <4>5. q \in DOMAIN g
        BY NeedsAreRecords
      <4>. QED
        BY <4>4, <4>5, NotBelowItself
    <3>. QED
      BY <3>2, <3>3
  <2>. QED
    BY <1>1, <2>1, <2>2
<1>. HIDE DEF p, t
<1>7. ASSUME NEW k \in DOMAIN t, NEW q \in Needs(g, t[k]) PROVE \E j \in 1 .. k - 1 : t[j] = q
  <2>1. CASE k \in 1 .. Len(o)
    <3>1. t[k] = o[k] /\ k \in DOMAIN o
      BY <1>5, <2>1
    <3>2. PICK j \in 1 .. k - 1 : o[j] = q
      BY <1>7, <3>1 DEF Ordered
    <3>3. j \in 1 .. Len(o)
      BY <1>5, <2>1
    <3>. QED
      BY <1>5, <3>2, <3>3
  <2>2. CASE k = Len(o) + 1
    <3>1. q \in MemberOf(o)
      BY <1>5, <1>6, <1>7, <2>2
    <3>2. PICK j \in DOMAIN o : o[j] = q
      BY <3>1 DEF MemberOf
    <3>3. j \in 1 .. k - 1 /\ t[j] = q
      BY <1>5, <2>2, <3>2
    <3>. QED
      BY <3>3
  <2>. QED
    BY <1>5, <2>1, <2>2
<1>8. Ordered(g, t)
  BY <1>7 DEF Ordered
<1>. QED
  BY <1>8 DEF p, t
-----------------------------------------------------------------------------
\* While outputs do not overlap, no name is read too early and the depth is enough,
\* the walk meets what a derivation needs before its end, and lists it before it.
OrderInv ==
  tidy /\ settled /\ Fits =>
    /\ pc = "lineage" => Nested(inputs, agenda, visited)
    /\ pc \in {"lineage", "explain", "answered"} => Ordered(inputs, out)

LEMMA WalksKeepOrder ==
  ASSUME RecordsInv, FlowInv, QueryInv, OrderInv, Walks
  PROVE  OrderInv'
<1>1. /\ inputs' = inputs /\ tidy' = tidy /\ settled' = settled /\ pc' = pc /\ target' = target
      /\ agenda # <<>>
      /\ agenda' = Rest(inputs, agenda, visited) /\ visited' = Met(agenda, visited)
      /\ out' = (IF pc = "lineage" THEN Emitted(agenda, out) ELSE out)
  BY DEF Walks, scope
<1>2. Fits' = Fits
  BY <1>1 DEF Fits
<1>. SUFFICES ASSUME tidy, settled, Fits, pc = "lineage"
              PROVE  Nested(inputs, agenda, visited)' /\ Ordered(inputs, out)'
  BY <1>1, <1>2 DEF OrderInv, Walks
<1>3. Nested(inputs, agenda, visited) /\ Ordered(inputs, out) /\ Grounded(inputs) /\ IsGraph(inputs)
  BY DEF OrderInv, FlowInv, RecordsInv
<1>4. Walk(inputs, Reachable, agenda, visited) /\ out \in Seq(DOMAIN inputs) /\ Listed(agenda, visited, out)
  BY DEF QueryInv, WalkInv, ListInv
<1>5. IsReach(inputs, target, Reachable) /\ IsFiniteSet(Reachable) /\ Reachable \subseteq DOMAIN inputs
  BY ReachedNow
<1>6. Cardinality(Reachable) <= MaxLineageDepth
  BY DEF Fits, Reachable
<1>. HIDE DEF Reachable
<1>7. Cut(agenda) => DerivationsFor(inputs, agenda[1][2]) \subseteq visited
  <2>. SUFFICES ASSUME Cut(agenda) PROVE DerivationsFor(inputs, agenda[1][2]) \subseteq visited
    OBVIOUS
  <2>1. agenda[1][1] = "enter" /\ TooDeep(agenda[1][3])
    BY DEF Cut
  <2>2. Reachable \subseteq visited
    BY <1>1, <1>4, <1>5, <1>6, <2>1, DeepMeetsAll
  <2>3. Placed(inputs, Reachable, agenda[1], visited)
    BY <1>1, <1>3, <1>4, <1>5, StepIs
  <2>. QED
    BY <2>1, <2>2, <2>3 DEF Placed
<1>8. Nested(inputs, agenda', visited')
  BY <1>1, <1>3, <1>4, <1>5, <1>7, NestedKept
<1>9. Ordered(inputs, out')
  <2> DEFINE S == DOMAIN inputs
  <2>1. out \in Seq(S) /\ Reachable \subseteq S
    BY <1>4, <1>5
  <2>. HIDE DEF S
  <2>2. Ordered(inputs, Emitted(agenda, out))
    BY <1>1, <1>3, <1>4, <1>5, <2>1, OrderedKept
  <2>. QED
    BY <1>1, <2>2
<1>. QED
  BY <1>1, <1>8, <1>9

LEMMA OrderKept == RecordsInv /\ FlowInv /\ QueryInv /\ OrderInv /\ [Next]_vars => OrderInv'
<1>. SUFFICES ASSUME RecordsInv, FlowInv, QueryInv, OrderInv, [Next]_vars PROVE OrderInv'
  OBVIOUS
<1>1. CASE UNCHANGED vars
  BY <1>1 DEF vars, scope, query, OrderInv, Fits
<1>2. CASE Writing
  <2>1. pc' = "idle"
    BY <1>2, WritesWhileIdle DEF query
  <2>. QED
    BY <2>1 DEF OrderInv
<1>3. CASE \E key \in Names : Lineage(key)
  <2>1. PICK key \in Names : pc = "idle" /\ Ask("lineage", key) /\ out' = out
    BY <1>3 DEF Lineage
  <2>2. pc' = "lineage" /\ agenda' = <<<<"enter", key, 0>>>>
    BY <2>1 DEF Ask
  <2>3. out' = <<>>
    BY <2>1 DEF QueryInv, RestInv
  <2>4. Nested(inputs', agenda', visited')
    <3> DEFINE x == <<"enter", key, 0>>
               a == <<x>>
    <3>1. ~IsEnd(x)
      BY DEF IsEnd
    <3>. HIDE DEF x
    <3>2. \A k \in DOMAIN a : a[k] = x
      OBVIOUS
    <3>3. agenda' = a
      BY <2>2 DEF x
    <3>. HIDE DEF a
    <3>. QED
      BY <3>1, <3>2, <3>3 DEF Nested
  <2>5. Ordered(inputs', out')
    <3>1. DOMAIN <<>> = {}
      OBVIOUS
    <3>. QED
      BY <2>3, <3>1 DEF Ordered
  <2>. QED
    BY <2>4, <2>5 DEF OrderInv
<1>4. CASE Explain
  <2>1. /\ pc = "lineage" /\ pc' = "explain" /\ out' = out /\ target' = target
        /\ inputs' = inputs /\ tidy' = tidy /\ settled' = settled
    BY <1>4 DEF Explain, Ask, scope
  <2>. QED
    BY <2>1 DEF OrderInv, Fits
<1>5. CASE Return
  <2>1. /\ pc = "explain" /\ pc' = "answered" /\ out' = out /\ target' = target
        /\ inputs' = inputs /\ tidy' = tidy /\ settled' = settled
    BY <1>5 DEF Return, scope
  <2>. QED
    BY <2>1 DEF OrderInv, Fits
<1>6. CASE Forget
  <2>1. pc' = "idle"
    BY <1>6 DEF Forget
  <2>. QED
    BY <2>1 DEF OrderInv
<1>7. CASE Stepping
  <2>1. pc \in {"lineage", "explain"}
    BY <1>7 DEF Stepping, Truncate, Enter, Skip, Visit, Emit, Asked
  <2>2. agenda \in Seq(Items)
    BY <2>1 DEF QueryInv, WalkInv, Walk
  <2>. QED
    BY <1>7, <2>2, WalksIs, WalksKeepOrder
<1>. QED
  BY <1>1, <1>2, <1>3, <1>4, <1>5, <1>6, <1>7, NextIs DEF Querying, Stepping

LEMMA FlowInvariant == Spec => [](RecordsInv /\ FlowInv /\ QueryInv /\ OrderInv)
<1>1. Init => RecordsInv /\ FlowInv /\ QueryInv
  BY RecordsStart, FlowStarts, QueryStarts
<1>2. Init => OrderInv
  <2>. SUFFICES ASSUME Init PROVE OrderInv
    OBVIOUS
  <2>1. PICK g : Recorded(g)
    BY DEF Init
  <2>2. pc = "idle"
    BY <2>1 DEF Recorded
  <2>. QED
    BY <2>2 DEF OrderInv
<1> DEFINE All == RecordsInv /\ FlowInv /\ QueryInv /\ OrderInv
<1>3. Init => All
  BY <1>1, <1>2
<1>4. All /\ [Next]_vars => All'
  BY RecordsKept, FlowKept, QueryKept, OrderKept
<1>5. All => RecordsInv /\ FlowInv /\ QueryInv /\ OrderInv
  OBVIOUS
<1>. HIDE DEF All
<1>6. Spec => []All
  BY <1>3, <1>4, PTL DEF Spec
<1>. QED
  BY <1>5, <1>6, PTL

\* Names are resolved when the query is made, and while outputs do not overlap and no
\* expression reads a map besides a member of it this loses nothing: all that went into
\* a value is in its lineage, and nothing else is while no name was read too early; what
\* was read comes first; and an element's values keep the lineage they had in it
\* (derivationsFor and collectLineage, provenance.go, and recordElementDerivations, foreach.go).
THEOREM LineageKeepsDataflow == Spec => []LineageIsDataflow
<1>1. ASSUME RecordsInv, FlowInv, QueryInv, OrderInv PROVE LineageIsDataflow
  <2>1. Answered => Answer
    BY <1>1 DEF Answered, QueryInv, RestInv
  <2>2. Answered /\ Fits => MemberOf(out) = Reachable /\ out \in Seq(DOMAIN inputs) /\ NoRepeats(out)
    BY <2>1 DEF Answer
  <2>. HIDE DEF Reachable
  <2>3. InputsFirst
    <3>. SUFFICES ASSUME Answered, tidy, settled, Fits,
                         NEW j \in DOMAIN out, NEW k \in DOMAIN out, out[k] \in from[out[j]]
                  PROVE  k < j
      BY DEF InputsFirst
    <3>1. Ordered(inputs, out)
      BY <1>1 DEF OrderInv, Answered
    <3>2. out[j] \in DOMAIN inputs /\ DOMAIN out = 1 .. Len(out) /\ Len(out) \in Nat
      BY <2>2
    <3>3. out[k] \in Needs(inputs, out[j])
      BY <1>1, <3>2, FiniteRecords DEF FlowInv
    <3>4. PICK i \in 1 .. j - 1 : out[i] = out[k]
      BY <3>1, <3>3 DEF Ordered
    <3>5. i \in DOMAIN out
      BY <3>2
    <3>6. i = k
      BY <2>2, <3>4, <3>5 DEF NoRepeats
    <3>. QED
      BY <3>2, <3>6
  <2>4. ElementsKeepLineage
    <3>. SUFFICES ASSUME Answered, tidy, Fits, NEW e \in DOMAIN merged, NEW p \in DOMAIN merged[e], target = e \o p
                  PROVE  MemberOf(out) = {e \o q : q \in Reach(merged[e], p)}
      BY DEF ElementsKeepLineage
    <3>1. Reachable = Behind(e, Reach(merged[e], p))
      BY <1>1, ElementReached
    <3>. QED
      BY <2>2, <3>1 DEF Behind
  <2>5. ASSUME Answered, tidy, Fits, target \in DOMAIN inputs
        PROVE  Sources(target) \subseteq MemberOf(out) /\ (settled => MemberOf(out) \subseteq Sources(target))
    BY <1>1, <2>2, <2>5, SourcesReached
  <2>. QED
    BY <2>3, <2>4, <2>5 DEF LineageIsDataflow
<1>2. RecordsInv /\ FlowInv /\ QueryInv /\ OrderInv => LineageIsDataflow
  BY <1>1
<1>. QED
  BY <1>2, FlowInvariant, PTL
-----------------------------------------------------------------------------
\* What no map is, now or later: a value that an expression made, or one of the
\* seed's.
Scalar(v) == v \notin DOMAIN Seed /\ (v[1] \in Owners => v[2] # 0 /\ v[3] = <<>>)
Addressed(h) == \A a \in DOMAIN h : ~Scalar(a)

LEMMA ScalarsAre ==
  /\ Scalar(Missing)
  /\ \A s \in Stages : \A k : k # 0 => Scalar(<<s, k, <<>>>>)
  /\ \A s \in Owners : \A k, path : k = 0 \/ path # <<>> => ~Scalar(<<s, k, path>>)
<1>1. Missing[1] \notin Owners
  BY HeapAssumption DEF Missing, Owners
<1>2. \A s, k, path : <<s, k, path>>[1] = s /\ <<s, k, path>>[2] = k /\ <<s, k, path>>[3] = path
  OBVIOUS
<1>3. \A s \in Owners : \A k : <<s, k, <<>>>> \notin DOMAIN Seed
  BY Outside
<1>4. Stages \subseteq Owners
  BY DEF Owners
<1>5. Scalar(Missing)
  BY <1>1, Outside DEF Scalar
<1>6. \A s \in Stages : \A k : k # 0 => Scalar(<<s, k, <<>>>>)
  BY <1>2, <1>3, <1>4 DEF Scalar
<1>7. \A s \in Owners : \A k, path : k = 0 \/ path # <<>> => ~Scalar(<<s, k, path>>)
  BY <1>2 DEF Scalar
<1>. QED
  BY <1>5, <1>6, <1>7

\* Maps that refer to each other only.
Inner(h, P) == \A a \in P : \A k \in DOMAIN h[a] : h[a][k] \in P \/ Scalar(h[a][k])

\* No path leads out of them, and a heap that differs elsewhere looks the same
\* from them.
LEMMA StaysInner ==
  ASSUME NEW h, Addressed(h), NEW P, Inner(h, P), NEW root \in P, NEW path \in Seq(STRING)
  PROVE  /\ Lookup(h, root, path) \in P \/ Scalar(Lookup(h, root, path))
         /\ \A g : Addressed(g) /\ P \subseteq DOMAIN h /\ P \subseteq DOMAIN g /\ (\A a \in P : g[a] = h[a])
                   => Lookup(g, root, path) = Lookup(h, root, path)
<1> DEFINE n == Len(path)
<1>1. n \in Nat
  OBVIOUS
<1>2. PICK f : Walked(h, root, path, f) /\ Lookup(h, root, path) = f[n]
  BY LookupLoop
<1> DEFINE G == {i \in 0 .. n : f[i] \in P \/ Scalar(f[i])}
<1>3. f[0] = root /\ \A i \in 1 .. n : f[i] = Child(h, f[i - 1], path[i])
  BY <1>2 DEF Walked
<1>. HIDE DEF n
<1>4. \A v : v \in P => \A k : Child(h, v, k) \in P \/ Scalar(Child(h, v, k))
  BY ScalarsAre DEF Child, Inner
<1>5. \A v : Scalar(v) => \A k : Child(h, v, k) = Missing
  BY DEF Child, Addressed
<1>6. \A i \in 1 .. n : i - 1 \in 0 .. n /\ i \in 0 .. n
  BY <1>1
<1>7. 0 .. n \subseteq G
  <2>1. 0 \in G
    BY <1>1, <1>3
  <2>2. \A i \in 1 .. n : i - 1 \in G => i \in G
    BY <1>3, <1>4, <1>5, <1>6, ScalarsAre
  <2>. HIDE DEF G
  <2>. QED
    BY <1>1, <2>1, <2>2, UptoInduction
<1>8. \A i \in 0 .. n : f[i] \in P \/ Scalar(f[i])
  BY <1>7
<1>. HIDE DEF G
<1>9. ASSUME NEW g, Addressed(g), P \subseteq DOMAIN h, P \subseteq DOMAIN g, \A a \in P : g[a] = h[a]
      PROVE  Lookup(g, root, path) = Lookup(h, root, path)
  <2>1. PICK e : Walked(g, root, path, e) /\ Lookup(g, root, path) = e[n]
    BY LookupLoop DEF n
  <2>2. e[0] = root /\ \A i \in 1 .. n : e[i] = Child(g, e[i - 1], path[i])
    BY <2>1 DEF Walked, n
  <2> DEFINE E == {i \in 0 .. n : e[i] = f[i]}
  <2>3. \A v : v \in P \/ Scalar(v) => \A k : Child(g, v, k) = Child(h, v, k)
    <3>1. \A v : Scalar(v) => v \notin DOMAIN g /\ v \notin DOMAIN h
      BY <1>9 DEF Addressed
    <3>2. \A v \in P : v \in DOMAIN g /\ v \in DOMAIN h /\ g[v] = h[v]
      BY <1>9
    <3>. QED
      BY <3>1, <3>2 DEF Child
  <2>4. 0 .. n \subseteq E
    <3>1. 0 \in E
      BY <1>1, <1>3, <2>2
    <3>2. \A i \in 1 .. n : i - 1 \in E => i \in E
      BY <1>3, <1>6, <1>8, <2>2, <2>3
    <3>. HIDE DEF E
    <3>. QED
      BY <1>1, <3>1, <3>2, UptoInduction
  <2>5. n \in 0 .. n
    BY <1>1
  <2>. QED
    BY <1>2, <2>1, <2>4, <2>5
<1>10. n \in 0 .. n
  BY <1>1
<1>. QED
  BY <1>2, <1>8, <1>9, <1>10

\* The Scope's maps in three parts: S, each of which one path leads to, the one in
\* its address; P, which the writers of the paths X hold; and Q, which the writers of
\* Y hold.  From S the way into P is a path in X, the way into Q one in Y.
Edge(v, p, S, P, Q, X, Y) == Scalar(v) \/ (v \in S /\ v[3] = p) \/ (v \in P /\ p \in X) \/ (v \in Q /\ p \in Y)

Disjoint(S, P, Q) == S \intersect P = {} /\ S \intersect Q = {} /\ P \intersect Q = {}

Layout(h, S, P, Q, X, Y) ==
  /\ Addressed(h) /\ S \union P \union Q \subseteq DOMAIN h /\ Disjoint(S, P, Q)
  /\ Data \in S
  /\ Inner(h, P) /\ Inner(h, Q)
  /\ \A a \in S : \A k \in DOMAIN h[a] : Edge(h[a][k], Append(a[3], k), S, P, Q, X, Y)

LEMMA LayoutTurned ==
  ASSUME NEW h, NEW S, NEW P, NEW Q, NEW X, NEW Y
  PROVE  Layout(h, S, P, Q, X, Y) => Layout(h, S, Q, P, Y, X)
<1>. SUFFICES ASSUME Layout(h, S, P, Q, X, Y) PROVE Layout(h, S, Q, P, Y, X)
  OBVIOUS
<1>1. \A v, p : Edge(v, p, S, P, Q, X, Y) => Edge(v, p, S, Q, P, Y, X)
  BY DEF Edge
<1>2. Disjoint(S, Q, P)
  BY DEF Layout, Disjoint
<1>3. S \union Q \union P \subseteq DOMAIN h
  BY DEF Layout
<1>4. \A a \in S : \A k \in DOMAIN h[a] : Edge(h[a][k], Append(a[3], k), S, Q, P, Y, X)
  BY <1>1 DEF Layout
<1>. QED
  BY <1>2, <1>3, <1>4 DEF Layout

\* More maps, of one side.
LEMMA EdgeGrows ==
  ASSUME NEW S, NEW P, NEW Q, NEW X, NEW Y, NEW S2, NEW P2, S \subseteq S2, P \subseteq P2, NEW v, NEW p
  PROVE  Edge(v, p, S, P, Q, X, Y) => Edge(v, p, S2, P2, Q, X, Y)
BY DEF Edge

\* A stage that starts gets maps of its own.
LEMMA CopyLaidOut ==
  ASSUME NEW h, NEW S, NEW P, NEW Q, NEW X, NEW Y, Layout(h, S, P, Q, X, Y),
         CopiedWhole(h, Data), NEW t \in Stages, \A path : <<t, 0, path>> \notin DOMAIN h
  PROVE  LET g == DeepCopy(h, Data, t)
         IN  /\ \E P2 : Layout(g, S, P2, Q, X, Y) /\ P \subseteq P2 /\ Env(t) \in P2
             /\ DOMAIN h \subseteq DOMAIN g /\ \A a \in DOMAIN h : g[a] = h[a]
             /\ \A a \in DOMAIN g \ DOMAIN h : \E path : a = <<t, 0, path>>
<1> DEFINE N == CopyNodes(h, Data, t, CloneDepth)
           maps == MapsBelow(h, Data, CloneDepth)
<1>1. Copied(N, h, Data, t, maps)
  BY CopyNodesIs
<1> DEFINE g == Join(h, N)
           A == DOMAIN N
<1>2. /\ DOMAIN g = DOMAIN h \union DOMAIN N
      /\ \A a \in DOMAIN N : g[a] = N[a]
      /\ \A a \in DOMAIN h : a \notin DOMAIN N => g[a] = h[a]
  BY JoinIs
<1>3. g = DeepCopy(h, Data, t)
  BY DEF DeepCopy, Copy
<1>4. ASSUME NEW path \in maps
      PROVE  Lookup(h, Data, path) \in S \union P \union Q /\ path \in Seq(STRING)
  <2>1. path \in Seq(STRING) /\ Lookup(h, Data, path) \in DOMAIN h
    <3>1. <<>> \in Seq(STRING)
      OBVIOUS
    <3>. QED
      BY <3>1, HeapAssumption DEF MapsBelow
  <2>2. Inner(h, S \union P \union Q) /\ Data \in S \union P \union Q
    BY DEF Inner, Layout, Edge
  <2>3. Lookup(h, Data, path) \in S \union P \union Q \/ Scalar(Lookup(h, Data, path))
    BY <2>1, <2>2, StaysInner DEF Layout
  <2>. QED
    BY <2>1, <2>3 DEF Layout, Addressed
<1>5. \A path \in maps : \A k \in DOMAIN h[Lookup(h, Data, path)] :
        h[Lookup(h, Data, path)][k] \in DOMAIN h => Append(path, k) \in maps
  BY DEF CopiedWhole
<1>6. Env(t) \in A
  <2>1. <<>> \in maps
    <3>1. Len(<<>>) <= CloneDepth
      BY HeapAssumption
    <3>2. Lookup(h, Data, <<>>) \in DOMAIN h
      BY LookupIs DEF Layout
    <3>. QED
      BY <3>1, <3>2 DEF MapsBelow
  <2>. HIDE DEF maps, N
  <2>. QED
    BY <1>1, <2>1 DEF Env, Copied
<1>. HIDE DEF N, maps, g
<1>7. A \intersect DOMAIN h = {} /\ \A a \in A : \E path \in maps : a = <<t, 0, path>>
  BY <1>1 DEF Copied
<1>8. \A a \in A : ~Scalar(a)
  BY <1>7, ScalarsAre DEF Owners
<1>9. Inner(g, A)
  <2>. SUFFICES ASSUME NEW a \in A, NEW k \in DOMAIN g[a] PROVE g[a][k] \in A \/ Scalar(g[a][k])
    BY DEF Inner
  <2>1. PICK path \in maps : a = <<t, 0, path>>
    BY <1>7
  <2> DEFINE b == Lookup(h, Data, path)
  <2>2. b \in S \union P \union Q
    BY <1>4
  <2>. HIDE DEF b
  <2>3. k \in DOMAIN h[b] /\ g[a][k] = IF Append(path, k) \in maps THEN <<t, 0, Append(path, k)>> ELSE h[b][k]
    BY <1>1, <1>2, <2>1 DEF b, Copied, A
  <2>4. CASE Append(path, k) \in maps
    BY <1>1, <2>3, <2>4 DEF Copied, A
  <2>5. CASE Append(path, k) \notin maps
    <3>1. g[a][k] = h[b][k] /\ h[b][k] \notin DOMAIN h
      BY <1>5, <2>3, <2>5 DEF b
    <3>2. h[b][k] \in S \union P \union Q \/ Scalar(h[b][k])
      BY <2>2, <2>3 DEF Layout, Inner, Edge
    <3>. QED
      BY <3>1, <3>2 DEF Layout
  <2>. QED
    BY <2>4, <2>5
<1> DEFINE P2 == P \union A
<1>. HIDE DEF A
<1>10. \A a \in DOMAIN h : a \in DOMAIN g /\ g[a] = h[a]
  BY <1>2, <1>7 DEF A
<1>11. Layout(g, S, P2, Q, X, Y)
  <2>1. Addressed(g)
    BY <1>2, <1>8 DEF Addressed, A, Layout
  <2>2. S \union P2 \union Q \subseteq DOMAIN g /\ Disjoint(S, P2, Q)
    <3>1. S \union P \union Q \subseteq DOMAIN h /\ A \subseteq DOMAIN g
      BY <1>2 DEF A, Layout
    <3>2. Disjoint(S, P, Q)
      BY DEF Layout
    <3>. QED
      BY <1>7, <1>10, <3>1, <3>2 DEF Disjoint
  <2>3. Inner(g, P2) /\ Inner(g, Q)
    BY <1>9, <1>10 DEF Inner, Layout
  <2>4. \A a \in S : \A k \in DOMAIN g[a] : Edge(g[a][k], Append(a[3], k), S, P2, Q, X, Y)
    <3>1. \A a \in S : g[a] = h[a]
      BY <1>10 DEF Layout
    <3>2. \A v, p : Edge(v, p, S, P, Q, X, Y) => Edge(v, p, S, P2, Q, X, Y)
      BY EdgeGrows
    <3>. QED
      BY <3>1, <3>2 DEF Layout
  <2>5. Data \in S
    BY DEF Layout
  <2>. QED
    BY <2>1, <2>2, <2>3, <2>4, <2>5 DEF Layout
<1>12. \A a \in DOMAIN g \ DOMAIN h : \E path : a = <<t, 0, path>>
  BY <1>2, <1>7 DEF A
<1>13. P \subseteq P2 /\ Env(t) \in P2
  BY <1>6
<1>14. \E P3 : Layout(g, S, P3, Q, X, Y) /\ P \subseteq P3 /\ Env(t) \in P3
  BY <1>11, <1>13
<1>. QED
  BY <1>3, <1>10, <1>12, <1>14

\* Segment by segment, a prefix grows by one.
LEMMA Segments ==
  ASSUME NEW path \in Seq(STRING), NEW i \in 1 .. Len(path)
  PROVE  /\ SubSeq(path, 1, i) \in Seq(STRING) /\ Len(SubSeq(path, 1, i)) = i
         /\ Append(SubSeq(path, 1, i - 1), path[i]) = SubSeq(path, 1, i)
         /\ Prefix(SubSeq(path, 1, i), path)
<1>1. Len(path) \in Nat /\ i \in 1 .. Len(path)
  OBVIOUS
<1> DEFINE p == SubSeq(path, 1, i)
           q == SubSeq(path, 1, i - 1)
<1>2. p \in Seq(STRING) /\ Len(p) = i /\ \A j \in 1 .. i : p[j] = path[j]
  OBVIOUS
<1>3. q \in Seq(STRING) /\ Len(q) = i - 1 /\ \A j \in 1 .. i - 1 : q[j] = path[j]
  OBVIOUS
<1>4. path[i] \in STRING
  OBVIOUS
<1> DEFINE r == Append(q, path[i])
<1>. HIDE DEF p, q
<1>5. r \in Seq(STRING) /\ Len(r) = i /\ \A j \in 1 .. i : r[j] = path[j]
  BY <1>1, <1>3, <1>4
<1>. HIDE DEF r
<1>6. r = p
  BY <1>2, <1>5
<1>7. Prefix(p, path)
  BY <1>1, <1>2 DEF Prefix, p
<1>. QED
  BY <1>2, <1>6, <1>7 DEF p, q, r

\* An entry is set in a map of the writer's side, or where only its path leads.
LEMMA PutLaidOut ==
  ASSUME NEW h, NEW S, NEW P, NEW Q, NEW X, NEW Y, Layout(h, S, P, Q, X, Y),
         NEW a \in S \union P, NEW key, NEW v,
         a \in P => v \in P \/ Scalar(v),
         a \in S => Edge(v, Append(a[3], key), S, P, Q, X, Y)
  PROVE  LET g == Put(h, a, key, v)
         IN  Layout(g, S, P, Q, X, Y) /\ DOMAIN g = DOMAIN h /\ \A b \in Q : g[b] = h[b]
<1> DEFINE g == Put(h, a, key, v)
           node == Join(h[a], Entry(key, v))
<1>1. DOMAIN node = DOMAIN h[a] \union {key} /\ \A k \in DOMAIN node : node[k] = IF k = key THEN v ELSE h[a][k]
  <2>1. DOMAIN Entry(key, v) = {key} /\ Entry(key, v)[key] = v
    BY DEF Entry
  <2>. QED
    BY <2>1 DEF Join
<1>. HIDE DEF node
<1>2. a \in DOMAIN h
  BY DEF Layout
<1>3. DOMAIN g = DOMAIN h /\ g[a] = node /\ \A b \in DOMAIN h : b # a => g[b] = h[b]
  BY <1>2 DEF Put, node
<1>. HIDE DEF g
<1>4. Addressed(g) /\ S \union P \union Q \subseteq DOMAIN g /\ Disjoint(S, P, Q) /\ Data \in S
  BY <1>3 DEF Layout, Addressed
<1>5. \A b \in Q : b # a /\ g[b] = h[b]
  BY <1>3 DEF Layout, Disjoint
<1>6. Inner(g, Q)
  BY <1>5 DEF Layout, Inner
<1>7. Inner(g, P)
  <2>. SUFFICES ASSUME NEW b \in P, NEW k \in DOMAIN g[b] PROVE g[b][k] \in P \/ Scalar(g[b][k])
    BY DEF Inner
  <2>1. CASE b = a
    <3>1. v \in P \/ Scalar(v)
      BY <2>1
    <3>2. k \in DOMAIN node /\ g[b][k] = IF k = key THEN v ELSE h[b][k]
      BY <1>1, <1>3, <2>1
    <3>3. k # key => k \in DOMAIN h[b]
      BY <1>1, <2>1, <3>2
    <3>. QED
      BY <3>1, <3>2, <3>3 DEF Layout, Inner
  <2>2. CASE b # a
    BY <1>3, <2>2 DEF Layout, Inner
  <2>. QED
    BY <2>1, <2>2
<1>8. \A b \in S : \A k \in DOMAIN g[b] : Edge(g[b][k], Append(b[3], k), S, P, Q, X, Y)
  <2>. SUFFICES ASSUME NEW b \in S, NEW k \in DOMAIN g[b] PROVE Edge(g[b][k], Append(b[3], k), S, P, Q, X, Y)
    OBVIOUS
  <2>1. k \in DOMAIN h[b] => Edge(h[b][k], Append(b[3], k), S, P, Q, X, Y)
    BY DEF Layout
  <2>2. CASE b = a
    <3>2. k \in DOMAIN node /\ g[b][k] = IF k = key THEN v ELSE h[b][k]
      BY <1>1, <1>3, <2>2
    <3>3. k # key => k \in DOMAIN h[b]
      BY <1>1, <2>2, <3>2
    <3>. QED
      BY <2>1, <2>2, <3>2, <3>3
  <2>3. CASE b # a
    BY <1>3, <2>1, <2>3 DEF Layout
  <2>. QED
    BY <2>2, <2>3
<1>9. Layout(g, S, P, Q, X, Y)
  BY <1>4, <1>6, <1>7, <1>8 DEF Layout
<1>. QED
  BY <1>3, <1>5, <1>9 DEF g

\* A new map, that nothing refers to yet.
LEMMA NewLaidOut ==
  ASSUME NEW h, NEW S, NEW P, NEW Q, NEW X, NEW Y, Layout(h, S, P, Q, X, Y),
         NEW new, new \notin DOMAIN h, ~Scalar(new), NEW g, g = Join(h, Entry(new, <<>>))
  PROVE  /\ Layout(g, S \union {new}, P, Q, X, Y) /\ Layout(g, S, P \union {new}, Q, X, Y)
         /\ DOMAIN g = DOMAIN h \union {new} /\ \A b \in DOMAIN h : g[b] = h[b]
<1> DEFINE S2 == S \union {new}
           P2 == P \union {new}
<1>1. DOMAIN Entry(new, <<>>) = {new} /\ Entry(new, <<>>)[new] = <<>> /\ DOMAIN <<>> = {}
  BY DEF Entry
<1>2. DOMAIN g = DOMAIN h \union {new} /\ DOMAIN g[new] = {} /\ \A b \in DOMAIN h : g[b] = h[b]
  BY <1>1 DEF Join
<1>3. Addressed(g) /\ Data \in S /\ S \union P \union Q \subseteq DOMAIN h /\ Disjoint(S, P, Q)
  BY <1>2 DEF Layout, Addressed
<1>4. Inner(g, P) /\ Inner(g, Q)
  BY <1>2, <1>3 DEF Layout, Inner
<1>5. \A b \in S : \A k \in DOMAIN g[b] : Edge(g[b][k], Append(b[3], k), S, P, Q, X, Y)
  BY <1>2, <1>3 DEF Layout
<1>6. Layout(g, S2, P, Q, X, Y)
  <2>1. S2 \union P \union Q \subseteq DOMAIN g /\ Disjoint(S2, P, Q)
    BY <1>2, <1>3 DEF Disjoint
  <2>2. \A v, p : Edge(v, p, S, P, Q, X, Y) => Edge(v, p, S2, P, Q, X, Y)
    BY EdgeGrows
  <2>3. \A b \in S2 : \A k \in DOMAIN g[b] : Edge(g[b][k], Append(b[3], k), S2, P, Q, X, Y)
    BY <1>2, <1>5, <2>2
  <2>. QED
    BY <1>3, <1>4, <2>1, <2>3 DEF Layout
<1>7. Layout(g, S, P2, Q, X, Y)
  <2>1. S \union P2 \union Q \subseteq DOMAIN g /\ Disjoint(S, P2, Q)
    BY <1>2, <1>3 DEF Disjoint
  <2>2. \A v, p : Edge(v, p, S, P, Q, X, Y) => Edge(v, p, S, P2, Q, X, Y)
    BY EdgeGrows
  <2>3. \A b \in S : \A k \in DOMAIN g[b] : Edge(g[b][k], Append(b[3], k), S, P2, Q, X, Y)
    BY <1>5, <2>2
  <2>4. Inner(g, P2)
    BY <1>2, <1>4 DEF Inner
  <2>. QED
    BY <1>3, <1>4, <2>1, <2>3, <2>4 DEF Layout
<1>. QED
  BY <1>2, <1>6, <1>7

\* Where the walk to path is after i segments: still on the writer's side, or where
\* no other path leads.  It has made maps of its own only, and left the others' be.
Along(h, w, P, Q, X, Y, owner, k, path, i) ==
  /\ w = [h |-> w.h, at |-> w.at, err |-> w.err]
  /\ DOMAIN h \subseteq DOMAIN w.h
  /\ \A a \in DOMAIN w.h \ DOMAIN h : \E j \in 1 .. i : a = <<owner, k, SubSeq(path, 1, j)>>
  /\ \A a \in Q : w.h[a] = h[a]
  /\ \E S2, P2 :
       /\ Layout(w.h, S2, P2, Q, X, Y) /\ P \subseteq P2
       /\ w.err = "nil" => w.at \in P2 \/ (w.at \in S2 /\ w.at[3] = SubSeq(path, 1, i))

LEMMA DescendLaidOut ==
  ASSUME NEW h, NEW w, NEW P, NEW Q, NEW X, NEW Y, Q \subseteq DOMAIN h,
         NEW owner \in Stages, NEW k, \A p : <<owner, k, p>> \notin DOMAIN h,
         NEW path \in Seq(STRING), \A y \in Y : ~Overlap(path, y),
         NEW i \in 1 .. Len(path), Along(h, w, P, Q, X, Y, owner, k, path, i - 1)
  PROVE  Along(h, Descend(w, path[i], <<owner, k, SubSeq(path, 1, i)>>), P, Q, X, Y, owner, k, path, i)
<1> DEFINE p == SubSeq(path, 1, i)
           new == <<owner, k, p>>
           d == Descend(w, path[i], new)
           key == path[i]
<1>1. /\ p \in Seq(STRING) /\ Len(p) = i /\ Prefix(p, path)
      /\ Append(SubSeq(path, 1, i - 1), key) = p
  BY Segments
<1>2. p \notin Y /\ p # <<>>
  BY <1>1 DEF Overlap
<1>3. new \notin DOMAIN w.h
  <2>1. ASSUME NEW j \in 1 .. i - 1, new = <<owner, k, SubSeq(path, 1, j)>> PROVE FALSE
    <3>1. j \in 1 .. Len(path) /\ j # i
      OBVIOUS
    <3>2. Len(SubSeq(path, 1, j)) = j
      BY <3>1, Segments
    <3>3. p = SubSeq(path, 1, j)
      BY <2>1
    <3>. QED
      BY <1>1, <3>1, <3>2, <3>3
  <2>. HIDE DEF new
  <2>2. new \notin DOMAIN h
    BY DEF new
  <2>. QED
    BY <2>1, <2>2 DEF Along
<1>4. ~Scalar(new) /\ new[3] = p
  <2>1. owner \in Owners
    BY DEF Owners
  <2>. QED
    BY <1>2, <2>1, ScalarsAre
<1>5. /\ w = [h |-> w.h, at |-> w.at, err |-> w.err] /\ DOMAIN h \subseteq DOMAIN w.h
      /\ \A a \in DOMAIN w.h \ DOMAIN h : \E j \in 1 .. i : a = <<owner, k, SubSeq(path, 1, j)>>
      /\ \A a \in Q : w.h[a] = h[a]
  <2>1. 1 .. i - 1 \subseteq 1 .. i
    OBVIOUS
  <2>. QED
    BY <2>1 DEF Along
<1>6. PICK S2, P2 :
        /\ Layout(w.h, S2, P2, Q, X, Y) /\ P \subseteq P2
        /\ w.err = "nil" => w.at \in P2 \/ (w.at \in S2 /\ w.at[3] = SubSeq(path, 1, i - 1))
  BY DEF Along
<1>7. \A e : [w EXCEPT !.err = e] = [h |-> w.h, at |-> w.at, err |-> e]
  BY <1>5
<1>8. \A a : [w EXCEPT !.at = a] = [h |-> w.h, at |-> a, err |-> w.err]
  BY <1>5
<1>9. \A a, e : e # "nil" => Along(h, [h |-> w.h, at |-> a, err |-> e], P, Q, X, Y, owner, k, path, i)
  BY <1>5, <1>6 DEF Along
<1>. HIDE DEF new, p, key
<1>10. CASE w.err # "nil"
  <2>1. d = [h |-> w.h, at |-> w.at, err |-> w.err]
    BY <1>5, <1>10 DEF Descend
  <2>. QED
    BY <1>9, <1>10, <2>1 DEF d, new, p, key
<1>11. CASE w.err = "nil" /\ key = NoSegment
  <2>1. d = [h |-> w.h, at |-> w.at, err |-> "EmptyPathSegment"]
    BY <1>7, <1>11 DEF Descend, key
  <2>. QED
    BY <1>9, <2>1 DEF d, new, p, key
<1>12. CASE w.err = "nil" /\ key # NoSegment /\ Absent(w.h, w.at, key)
  <2> DEFINE j == Join(w.h, Entry(new, <<>>))
             g == Put(j, w.at, key, new)
  <2>1. d = [h |-> g, at |-> new, err |-> "nil"]
    BY <1>12 DEF Descend, key
  <2>2. /\ Layout(j, S2 \union {new}, P2, Q, X, Y) /\ Layout(j, S2, P2 \union {new}, Q, X, Y)
        /\ DOMAIN j = DOMAIN w.h \union {new} /\ \A b \in DOMAIN w.h : j[b] = w.h[b]
    <3>1. Layout(w.h, S2, P2, Q, X, Y) /\ j = Join(w.h, Entry(new, <<>>))
      BY <1>6
    <3>. HIDE DEF j
    <3>2. Layout(j, S2 \union {new}, P2, Q, X, Y)
      BY <1>3, <1>4, <3>1, NewLaidOut
    <3>3. Layout(j, S2, P2 \union {new}, Q, X, Y)
      BY <1>3, <1>4, <3>1, NewLaidOut
    <3>4. DOMAIN j = DOMAIN w.h \union {new} /\ \A b \in DOMAIN w.h : j[b] = w.h[b]
      <4> DEFINE e == Entry(new, <<>>)
      <4>1. DOMAIN e = {new}
        BY DEF Entry
      <4>2. j = Join(w.h, e)
        BY <3>1
      <4>. HIDE DEF e
      <4>3. /\ DOMAIN Join(w.h, e) = DOMAIN w.h \union DOMAIN e
            /\ \A a \in DOMAIN w.h : a \notin DOMAIN e => Join(w.h, e)[a] = w.h[a]
        BY JoinIs
      <4>. QED
        BY <1>3, <4>1, <4>2, <4>3
    <3>. QED
      BY <3>2, <3>3, <3>4
  <2>. HIDE DEF j, d
  <2>3. \E S3, P3 : /\ Layout(g, S3, P3, Q, X, Y) /\ P \subseteq P3 /\ DOMAIN g = DOMAIN j
                    /\ \A b \in Q : g[b] = j[b]
                    /\ new \in P3 \/ (new \in S3 /\ new[3] = p)
    <3>1. CASE w.at \in P2
      <4> DEFINE P3 == P2 \union {new}
      <4>1. Layout(j, S2, P3, Q, X, Y) /\ w.at \in S2 \union P3 /\ w.at \notin S2
        BY <1>6, <2>2, <3>1 DEF Layout, Disjoint
      <4>2. new \in P3 /\ P \subseteq P3
        BY <1>6
      <4>. HIDE DEF P3, g
      <4>3. Layout(g, S2, P3, Q, X, Y) /\ DOMAIN g = DOMAIN j /\ \A b \in Q : g[b] = j[b]
        BY <4>1, <4>2, PutLaidOut DEF g
      <4>. QED
        BY <4>2, <4>3
    <3>2. CASE w.at \in S2 /\ w.at[3] = SubSeq(path, 1, i - 1)
      <4> DEFINE S3 == S2 \union {new}
      <4>1. Layout(j, S3, P2, Q, X, Y) /\ w.at \in S3 \union P2 /\ w.at \notin P2
        BY <1>6, <2>2, <3>2 DEF Layout, Disjoint
      <4>2. new \in S3 /\ Append(w.at[3], key) = p
        BY <1>1, <3>2 DEF p, key
      <4>. HIDE DEF S3, g
      <4>3. Edge(new, Append(w.at[3], key), S3, P2, Q, X, Y)
        BY <1>4, <4>2 DEF Edge
      <4>4. Layout(g, S3, P2, Q, X, Y) /\ DOMAIN g = DOMAIN j /\ \A b \in Q : g[b] = j[b]
        BY <4>1, <4>3, PutLaidOut DEF g
      <4>. QED
        BY <1>4, <1>6, <4>2, <4>4
    <3>. QED
      BY <1>6, <1>12, <3>1, <3>2
  <2>. HIDE DEF g
  <2>4. \A a \in DOMAIN g \ DOMAIN h : \E m \in 1 .. i : a = <<owner, k, SubSeq(path, 1, m)>>
    <3>1. DOMAIN g = DOMAIN w.h \union {new}
      BY <2>2, <2>3
    <3>2. i \in 1 .. i /\ new = <<owner, k, SubSeq(path, 1, i)>>
      BY DEF new, p
    <3>. QED
      BY <1>5, <3>1, <3>2
  <2>5. DOMAIN h \subseteq DOMAIN g /\ \A a \in Q : g[a] = h[a]
    BY <1>5, <2>2, <2>3
  <2>6. Along(h, d, P, Q, X, Y, owner, k, path, i)
    BY <2>1, <2>3, <2>4, <2>5 DEF Along, p
  <2>. QED
    BY <2>6 DEF d, new, p, key
<1>13. CASE w.err = "nil" /\ key # NoSegment /\ ~Absent(w.h, w.at, key)
  <2> DEFINE v == w.h[w.at][key]
  <2>1. d = IF v \in DOMAIN w.h THEN [w EXCEPT !.at = v] ELSE [w EXCEPT !.err = "PathNotMap"]
    BY <1>13 DEF Descend, key
  <2>2. key \in DOMAIN w.h[w.at]
    BY <1>13 DEF Absent
  <2>3. v \in P2 \/ (v \in S2 /\ v[3] = p) \/ Scalar(v)
    <3>1. CASE w.at \in P2
      BY <1>6, <2>2, <3>1 DEF Layout, Inner
    <3>2. CASE w.at \in S2 /\ w.at[3] = SubSeq(path, 1, i - 1)
      <4>1. Append(w.at[3], key) = p
        BY <1>1, <3>2 DEF p, key
      <4>2. Edge(v, p, S2, P2, Q, X, Y)
        BY <1>6, <2>2, <3>2, <4>1 DEF Layout
      <4>. QED
        BY <1>2, <4>2 DEF Edge
    <3>. QED
      BY <1>6, <1>13, <3>1, <3>2
  <2>4. Addressed(w.h)
    BY <1>6 DEF Layout
  <2>. HIDE DEF v, d
  <2>5. CASE v \in DOMAIN w.h
    <3>1. d = [h |-> w.h, at |-> v, err |-> "nil"]
      BY <1>8, <1>13, <2>1, <2>5
    <3>2. v \in P2 \/ (v \in S2 /\ v[3] = SubSeq(path, 1, i))
      BY <2>3, <2>4, <2>5 DEF Addressed, p
    <3>3. Along(h, d, P, Q, X, Y, owner, k, path, i)
      BY <1>5, <1>6, <3>1, <3>2 DEF Along
    <3>. QED
      BY <3>3 DEF d, new, p, key
  <2>6. CASE v \notin DOMAIN w.h
    <3>1. d = [h |-> w.h, at |-> w.at, err |-> "PathNotMap"]
      BY <1>7, <2>1, <2>6
    <3>. QED
      BY <1>9, <3>1 DEF d, new, p, key
  <2>. QED
    BY <2>5, <2>6
<1>. QED
  BY <1>10, <1>11, <1>12, <1>13

\* From one heap to another only the writer's side grows, by maps made for output k.
Extends(h, g, P, Q, X, Y, owner, k) ==
  /\ \E S2, P2 : Layout(g, S2, P2, Q, X, Y) /\ P \subseteq P2
  /\ DOMAIN h \subseteq DOMAIN g /\ \A a \in Q : g[a] = h[a]
  /\ \A a \in DOMAIN g \ DOMAIN h : \E p : a = <<owner, k, p>>

\* A stage writes at a path of its own.
LEMMA SetLaidOut ==
  ASSUME NEW h, NEW S, NEW P, NEW Q, NEW X, NEW Y, Layout(h, S, P, Q, X, Y),
         NEW owner \in Stages, NEW k, \A p : <<owner, k, p>> \notin DOMAIN h,
         NEW path \in Seq(STRING), path # <<>>, path \in X, \A y \in Y : ~Overlap(path, y),
         NEW v, v \in P \/ Scalar(v)
  PROVE  Extends(h, SetPath(h, path, v, owner, k).h, P, Q, X, Y, owner, k)
<1> DEFINE n == Len(path) - 1
           leaf == path[Len(path)]
           w == Reached(h, path, owner, k)
           g == SetPath(h, path, v, owner, k).h
<1>1. n \in Nat /\ Len(path) \in 1 .. Len(path) /\ n = Len(path) - 1 /\ \A i \in 1 .. n : i \in 1 .. Len(path)
  OBVIOUS
<1>2. Along(h, w, P, Q, X, Y, owner, k, path, n)
  <2>1. PICK f : /\ f[0] = [h |-> h, at |-> Data, err |-> "nil"] /\ w = f[n]
                 /\ \A i \in 1 .. n : f[i] = Descend(f[i - 1], path[i], <<owner, k, SubSeq(path, 1, i)>>)
    BY <1>1, ReachedLoop
  <2> DEFINE G == {i \in 0 .. n : Along(h, f[i], P, Q, X, Y, owner, k, path, i)}
  <2>. HIDE DEF w, n
  <2>2. 0 \in G
    <3>1. SubSeq(path, 1, 0) = <<>> /\ Data[3] = <<>>
      BY DEF Data
    <3>2. Along(h, [h |-> h, at |-> Data, err |-> "nil"], P, Q, X, Y, owner, k, path, 0)
      BY <3>1 DEF Along, Layout
    <3>. QED
      BY <1>1, <2>1, <3>2
  <2>3. ASSUME NEW i \in 1 .. n, i - 1 \in G PROVE i \in G
    <3>1. Along(h, f[i - 1], P, Q, X, Y, owner, k, path, i - 1) /\ i \in 0 .. n /\ i \in 1 .. Len(path)
      BY <1>1, <2>3
    <3>2. Q \subseteq DOMAIN h
      BY DEF Layout
    <3>3. Along(h, f[i], P, Q, X, Y, owner, k, path, i)
      BY <2>1, <3>1, <3>2, DescendLaidOut
    <3>. QED
      BY <3>1, <3>3
  <2>4. n \in G
    <3>. HIDE DEF G
    <3>1. 0 .. n \subseteq G
      BY <1>1, <2>2, <2>3, UptoInduction
    <3>. QED
      BY <1>1, <3>1
  <2>. QED
    BY <2>1, <2>4
<1>3. /\ w = [h |-> w.h, at |-> w.at, err |-> w.err] /\ DOMAIN h \subseteq DOMAIN w.h
      /\ \A a \in DOMAIN w.h \ DOMAIN h : \E p : a = <<owner, k, p>>
      /\ \A a \in Q : w.h[a] = h[a]
  BY <1>2 DEF Along
<1>4. PICK S2, P2 :
        /\ Layout(w.h, S2, P2, Q, X, Y) /\ P \subseteq P2
        /\ w.err = "nil" => w.at \in P2 \/ (w.at \in S2 /\ w.at[3] = SubSeq(path, 1, n))
  BY <1>2 DEF Along
<1>5. Append(SubSeq(path, 1, n), leaf) = path
  <2>1. SubSeq(path, 1, Len(path)) = path
    OBVIOUS
  <2>2. Append(SubSeq(path, 1, Len(path) - 1), path[Len(path)]) = SubSeq(path, 1, Len(path))
    BY <1>1, Segments
  <2>. QED
    BY <2>1, <2>2
<1>. HIDE DEF w, leaf, n
<1>6. \A e : [w EXCEPT !.err = e].h = w.h
  BY <1>3
<1>7. \A x : [w EXCEPT !.h = x].h = x
  BY <1>3
<1>8. g = w.h \/ (w.err = "nil" /\ g = Put(w.h, w.at, leaf, v))
  <2>1. CASE w.err # "nil"
    BY <2>1 DEF SetPath, w
  <2>2. CASE w.err = "nil" /\ leaf = NoSegment
    BY <1>6, <2>2 DEF SetPath, w, leaf
  <2>3. CASE w.err = "nil" /\ leaf # NoSegment /\ Conflict(w.h, w.at, leaf)
    BY <1>6, <2>3 DEF SetPath, w, leaf
  <2>4. CASE w.err = "nil" /\ leaf # NoSegment /\ ~Conflict(w.h, w.at, leaf)
    BY <1>7, <2>4 DEF SetPath, w, leaf
  <2>. QED
    BY <2>1, <2>2, <2>3, <2>4
<1>. HIDE DEF g
<1>9. CASE g = w.h
  BY <1>3, <1>4, <1>9 DEF g, Extends
<1>10. CASE w.err = "nil" /\ g = Put(w.h, w.at, leaf, v)
  <2>1. v \in P2 \/ Scalar(v)
    BY <1>4
  <2>2. w.at \in S2 \union P2
    BY <1>4, <1>10
  <2>3. w.at \in S2 => Edge(v, Append(w.at[3], leaf), S2, P2, Q, X, Y)
    <3>1. w.at \in S2 => w.at \notin P2
      BY <1>4 DEF Layout, Disjoint
    <3>2. w.at \in S2 => Append(w.at[3], leaf) = path
      BY <1>4, <1>5, <1>10, <3>1
    <3>. QED
      BY <2>1, <3>2 DEF Edge
  <2>4. Layout(g, S2, P2, Q, X, Y) /\ DOMAIN g = DOMAIN w.h /\ \A b \in Q : g[b] = w.h[b]
    BY <1>4, <1>10, <2>1, <2>2, <2>3, PutLaidOut
  <2>. QED
    BY <1>3, <1>4, <2>4 DEF g, Extends
<1>. QED
  BY <1>8, <1>9, <1>10
-----------------------------------------------------------------------------
\* The outputs of a stage, and those of all others.
To(s) == {Script(s)[j].to : j \in DOMAIN Script(s)}
ToOthers(s) == UNION {To(t) : t \in Stages \ {s}}

\* A stage that has started, or takes part with a value, keeps to its side.
Keeps(s, P) == (at[s] # "idle" => Env(s) \in P) /\ (val[s] \in P \/ Scalar(val[s]))

Sides(s, S, P, Q) ==
  /\ Layout(heap, S, P, Q, To(s), ToOthers(s))
  /\ Keeps(s, P) /\ \A t \in Stages \ {s} : Keeps(t, Q)

\* The maps of a stage bear the number of the output they were made for.
Numbered ==
  \A s \in Stages : \A k, path :
    <<s, k, path>> \in DOMAIN heap =>
      /\ at[s] # "idle" /\ k \in 0 .. step[s]
      /\ at[s] \in {"eval", "write"} => k # step[s]

\* In a wave, a stage whose outputs no other stage's touches has maps of its own,
\* which its environment does not lead out of, and which the others reach at most
\* through an output of its own.
WaveInv ==
  prog.conc => \A s \in Stages : OutputsApart(s) => Numbered /\ \E S, P, Q : Sides(s, S, P, Q)

LEMMA ApartIs ==
  ASSUME ScopeInv, NEW s \in Stages, OutputsApart(s)
  PROVE  /\ \A x \in To(s), y \in ToOthers(s) : ~Overlap(x, y) /\ ~Overlap(y, x)
         /\ \A t \in Stages : Output(t).to \in To(t) /\ (t # s => Output(t).to \in ToOthers(s))
         /\ \A t \in Stages : Output(t).to \in Seq(STRING) /\ Output(t).to # <<>> /\ Output(t).from \in Seq(STRING)
<1>1. \A x \in To(s), y \in ToOthers(s) : ~Overlap(x, y)
  BY DEF OutputsApart, To, ToOthers
<1>2. \A x, y : Overlap(x, y) <=> Overlap(y, x)
  BY DEF Overlap
<1>3. \A t \in Stages : step[t] \in DOMAIN Script(t)
  BY DEF ScopeInv
<1>4. \A t \in Stages : Output(t).to \in To(t)
  BY <1>3 DEF To, Output
<1>5. \A t \in Stages : t # s => To(t) \subseteq ToOthers(s)
  BY DEF ToOthers
<1>6. ASSUME NEW t \in Stages
      PROVE  Output(t).to \in Seq(STRING) /\ Output(t).to # <<>> /\ Output(t).from \in Seq(STRING)
  BY <1>3, ScriptIs DEF ScopeInv, Output
<1>. QED
  BY <1>1, <1>2, <1>4, <1>5, <1>6

\* What the outputs are does not change.
LEMMA ScriptsStay ==
  ASSUME prog' = prog
  PROVE  \A s : To(s)' = To(s) /\ ToOthers(s)' = ToOthers(s) /\ (OutputsApart(s)' <=> OutputsApart(s))
BY DEF To, ToOthers, OutputsApart, Script

LEMMA WaveStarts == HeapInit => WaveInv
<1>. SUFFICES ASSUME HeapInit PROVE WaveInv
  OBVIOUS
<1> DEFINE N == CopyNodes(Seed, Caller, "scope", CloneDepth)
           maps == MapsBelow(Seed, Caller, CloneDepth)
<1>1. Copied(N, Seed, Caller, "scope", maps)
  BY CopyNodesIs
<1>2. heap = Join(Seed, N)
  BY DEF HeapInit, DeepCopy, Copy
<1>3. \A path \in maps : \A k \in DOMAIN Seed[Lookup(Seed, Caller, path)] :
        Seed[Lookup(Seed, Caller, path)][k] \in DOMAIN Seed => Append(path, k) \in maps
  BY HeapAssumption DEF CopiedWhole
<1>4. \A path \in maps : Lookup(Seed, Caller, path) \in DOMAIN Seed
  BY DEF MapsBelow
<1>5. Data \in DOMAIN N
  <2>1. <<>> \in maps
    <3>1. Len(<<>>) <= CloneDepth
      BY HeapAssumption
    <3>2. Lookup(Seed, Caller, <<>>) \in DOMAIN Seed
      BY LookupIs, HeapAssumption
    <3>. QED
      BY <3>1, <3>2 DEF MapsBelow
  <2>. HIDE DEF maps, N
  <2>. QED
    BY <1>1, <2>1 DEF Data, Copied
<1>. HIDE DEF N, maps
<1>6. \A a \in DOMAIN N : \E path \in maps : a = <<"scope", 0, path>>
  BY <1>1 DEF Copied
<1>7. \A a \in DOMAIN Seed : a \notin DOMAIN N
  BY <1>6, Outside DEF Owners
<1>8. /\ DOMAIN heap = DOMAIN Seed \union DOMAIN N
      /\ \A a \in DOMAIN N : heap[a] = N[a]
      /\ \A a \in DOMAIN Seed : heap[a] = Seed[a]
  <2>1. /\ DOMAIN Join(Seed, N) = DOMAIN Seed \union DOMAIN N
        /\ \A a \in DOMAIN N : Join(Seed, N)[a] = N[a]
        /\ \A a \in DOMAIN Seed : a \notin DOMAIN N => Join(Seed, N)[a] = Seed[a]
    BY JoinIs
  <2>. QED
    BY <1>2, <1>7, <2>1
<1>9. Addressed(heap)
  <2>1. \A a \in DOMAIN Seed : ~Scalar(a)
    BY DEF Scalar
  <2>2. "scope" \in Owners
    BY DEF Owners
  <2>3. \A a \in DOMAIN N : ~Scalar(a)
    BY <1>6, <2>2, ScalarsAre
  <2>. QED
    BY <1>8, <2>1, <2>3 DEF Addressed
<1>10. \A s \in Stages : \A k, path : <<s, k, path>> \notin DOMAIN heap
  <2>. SUFFICES ASSUME NEW s \in Stages, NEW k, NEW path, <<s, k, path>> \in DOMAIN heap PROVE FALSE
    OBVIOUS
  <2>1. <<s, k, path>> \notin DOMAIN Seed /\ s # "scope"
    BY Outside, HeapAssumption DEF Owners
  <2>2. PICK p \in maps : <<s, k, path>> = <<"scope", 0, p>>
    BY <1>6, <1>8, <2>1
  <2>. QED
    BY <2>1, <2>2
<1>11. Numbered
  BY <1>10 DEF Numbered
<1> DEFINE S == DOMAIN N
<1>12. ASSUME NEW X, NEW Y PROVE Layout(heap, S, {}, {}, X, Y)
  <2>1. ASSUME NEW a \in S, NEW k \in DOMAIN heap[a]
        PROVE  Edge(heap[a][k], Append(a[3], k), S, {}, {}, X, Y)
    <3>1. PICK path \in maps : a = <<"scope", 0, path>>
      BY <1>6
    <3>2. a[3] = path
      BY <3>1
    <3> DEFINE b == Lookup(Seed, Caller, path)
    <3>3. b \in DOMAIN Seed
      BY <1>4
    <3>4. k \in DOMAIN Seed[b] /\ heap[a][k] = IF Append(path, k) \in maps THEN <<"scope", 0, Append(path, k)>> ELSE Seed[b][k]
      BY <1>1, <1>8, <3>1 DEF Copied
    <3>5. CASE Append(path, k) \in maps
      <4>1. <<"scope", 0, Append(path, k)>> \in S
        BY <1>1, <3>5 DEF Copied
      <4>2. heap[a][k] \in S /\ heap[a][k][3] = Append(a[3], k)
        BY <3>2, <3>4, <3>5, <4>1
      <4>. QED
        BY <4>2 DEF Edge
    <3>6. CASE Append(path, k) \notin maps
      <4>1. heap[a][k] = Seed[b][k] /\ Seed[b][k] \notin DOMAIN Seed
        BY <1>3, <3>4, <3>6
      <4>. HIDE DEF b
      <4>2. Seed[b][k][1] \notin Owners
        BY <3>3, <3>4, <4>1, HeapAssumption DEF Owners
      <4>. QED
        BY <4>1, <4>2 DEF Edge, Scalar
    <3>. QED
      BY <3>5, <3>6
  <2>2. S \union {} \union {} \subseteq DOMAIN heap /\ Disjoint(S, {}, {})
    BY <1>8 DEF Disjoint
  <2>3. Inner(heap, {})
    BY DEF Inner
  <2>. QED
    BY <1>5, <1>9, <2>1, <2>2, <2>3 DEF Layout
<1>13. \A s \in Stages : Keeps(s, {})
  <2>1. \A s \in Stages : at[s] = "idle" /\ val[s] = Missing
    BY DEF HeapInit
  <2>. QED
    BY <2>1, ScalarsAre DEF Keeps
<1>14. \A s \in Stages : Sides(s, S, {}, {})
  BY <1>12, <1>13 DEF Sides
<1>. QED
  BY <1>11, <1>14 DEF WaveInv

\* A step of one stage that its side takes: Sides stay whichever side that is.
Moves(t) ==
  /\ t \in Stages /\ prog' = prog
  /\ \A u \in Stages \ {t} : at'[u] = at[u] /\ val'[u] = val[u]

\* The number of the output that a step of t makes maps for.
For(t) == IF at[t] = "idle" THEN 0 ELSE step[t]

\* The side of t grows, by maps made for its output, and the others' maps are as
\* they were.
Grows(t, S, P, Q, X, Y) ==
  /\ \A a \in Q : heap'[a] = heap[a]
  /\ DOMAIN heap \subseteq DOMAIN heap'
  /\ \A a \in DOMAIN heap' \ DOMAIN heap : \E path : a = <<t, For(t), path>>
  /\ \E S2, P2 : Layout(heap', S2, P2, Q, X, Y) /\ P \subseteq P2 /\ Keeps(t, P2)'

LEMMA SidesGrow ==
  ASSUME NEW t \in Stages, NEW s \in Stages, ScopeInv, Moves(t), OutputsApart(s),
         NEW S, NEW P, NEW Q, Sides(s, S, P, Q),
         t = s => Grows(t, S, P, Q, To(s), ToOthers(s)),
         t # s => Grows(t, S, Q, P, ToOthers(s), To(s))
  PROVE  \E S2, P2, Q2 : Sides(s, S2, P2, Q2)'
<1>1. To(s)' = To(s) /\ ToOthers(s)' = ToOthers(s)
  BY ScriptsStay DEF Moves
<1>2. \A u \in Stages \ {t} : \A A, B : A \subseteq B /\ Keeps(u, A) => Keeps(u, B)'
  BY DEF Keeps, Moves, Env
<1>3. CASE t = s
  <2>1. PICK S2, P2 : Layout(heap', S2, P2, Q, To(s), ToOthers(s)) /\ P \subseteq P2 /\ Keeps(t, P2)'
    BY <1>3 DEF Sides, Grows
  <2>2. \A u \in Stages \ {s} : Keeps(u, Q)'
    BY <1>2, <1>3 DEF Sides
  <2>3. Sides(s, S2, P2, Q)'
    BY <1>1, <1>3, <2>1, <2>2 DEF Sides
  <2>. QED
    BY <2>3
<1>4. CASE t # s
  <2>1. Layout(heap, S, Q, P, ToOthers(s), To(s))
    BY LayoutTurned DEF Sides
  <2>2. PICK S2, Q2 : Layout(heap', S2, Q2, P, ToOthers(s), To(s)) /\ Q \subseteq Q2 /\ Keeps(t, Q2)'
    BY <1>4, <2>1 DEF Sides, Grows
  <2>3. Layout(heap', S2, P, Q2, To(s), ToOthers(s))
    BY <2>2, LayoutTurned
  <2>4. Keeps(s, P)'
    BY <1>2, <1>4 DEF Sides
  <2>5. \A u \in Stages \ {s} : Keeps(u, Q2)'
    BY <1>2, <2>2 DEF Sides
  <2>6. Sides(s, S2, P, Q2)'
    BY <1>1, <2>3, <2>4, <2>5 DEF Sides
  <2>. QED
    BY <2>6
<1>. QED
  BY <1>3, <1>4

StepOf(t) == (\E k \in DOMAIN Stage : Stage[k] = t /\ Start(k)) \/ Evaluate(t) \/ Write(t) \/ Record(t)

\* Each step of a stage leaves it on its side.
LEMMA StepGrows ==
  ASSUME NEW t \in Stages, ScopeInv, Numbered, prog.conc, WaveCopiesWhole, StepOf(t),
         NEW S, NEW P, NEW Q, NEW X, NEW Y, Layout(heap, S, P, Q, X, Y), Keeps(t, P),
         Output(t).to \in X, \A y \in Y : ~Overlap(Output(t).to, y)
  PROVE  Moves(t) /\ Grows(t, S, P, Q, X, Y)
<1>1. /\ DOMAIN at = Stages /\ DOMAIN val = Stages /\ step[t] \in Nat \ {0}
      /\ Output(t).to \in Seq(STRING) /\ Output(t).to # <<>> /\ Output(t).from \in Seq(STRING)
  <2>1. step[t] \in DOMAIN Script(t)
    BY DEF ScopeInv
  <2>. QED
    BY <2>1, ScriptIs DEF ScopeInv, Output
<1>2. Q \subseteq DOMAIN heap /\ Addressed(heap)
  BY DEF Layout
<1>3. Env(t)' = Env(t)
  BY DEF Env
<1>4. CASE \E k \in DOMAIN Stage : Stage[k] = t /\ Start(k)
  <2>1. /\ at[t] = "idle" /\ heap' = Snapshot(heap, t, prog.conc) /\ at' = [at EXCEPT ![t] = "eval"]
        /\ UNCHANGED <<prog, step, val, derivations>>
    BY <1>4 DEF Start
  <2>2. heap' = DeepCopy(heap, Data, t)
    BY <2>1 DEF Snapshot
  <2>3. CopiedWhole(heap, Data) /\ \A path : <<t, 0, path>> \notin DOMAIN heap
    BY <2>1 DEF WaveCopiesWhole, Numbered
  <2>4. /\ \E P2 : Layout(heap', S, P2, Q, X, Y) /\ P \subseteq P2 /\ Env(t) \in P2
        /\ DOMAIN heap \subseteq DOMAIN heap' /\ \A a \in DOMAIN heap : heap'[a] = heap[a]
        /\ \A a \in DOMAIN heap' \ DOMAIN heap : \E path : a = <<t, 0, path>>
    BY <2>2, <2>3, CopyLaidOut
  <2>5. \E S2, P2 : Layout(heap', S2, P2, Q, X, Y) /\ P \subseteq P2 /\ Keeps(t, P2)'
    BY <1>3, <2>1, <2>4 DEF Keeps
  <2>6. Moves(t)
    BY <1>1, <2>1 DEF Moves
  <2>7. Grows(t, S, P, Q, X, Y)
    BY <1>2, <2>1, <2>4, <2>5 DEF Grows, For
  <2>. QED
    BY <2>6, <2>7
<1>5. CASE Evaluate(t)
  <2> DEFINE v == Value(heap, t, step[t], prog.script)
  <2>1. /\ at[t] = "eval" /\ val' = [val EXCEPT ![t] = v] /\ at' = [at EXCEPT ![t] = "write"]
        /\ UNCHANGED <<prog, heap, step, derivations>>
    BY <1>5 DEF Evaluate
  <2>2. v = IF Output(t).from = None THEN <<t, step[t], <<>>>> ELSE Lookup(heap, Env(t), Output(t).from)
    BY DEF Value, Output, Script
  <2>3. Env(t) \in P
    BY <2>1 DEF Keeps
  <2>. HIDE DEF v
  <2>4. v \in P \/ Scalar(v)
    <3>1. Scalar(<<t, step[t], <<>>>>)
      BY <1>1, ScalarsAre
    <3>2. Inner(heap, P)
      BY DEF Layout
    <3>3. Lookup(heap, Env(t), Output(t).from) \in P \/ Scalar(Lookup(heap, Env(t), Output(t).from))
      BY <1>1, <1>2, <2>3, <3>2, StaysInner
    <3>. QED
      BY <2>2, <3>1, <3>3
  <2>5. Keeps(t, P)'
    BY <1>1, <1>3, <2>1, <2>3, <2>4 DEF Keeps
  <2>6. Moves(t)
    BY <1>1, <2>1 DEF Moves
  <2>7. Grows(t, S, P, Q, X, Y)
    BY <2>1, <2>5 DEF Grows
  <2>. QED
    BY <2>6, <2>7
<1>6. CASE Write(t)
  <2> DEFINE w == SetPath(heap, Output(t).to, val[t], t, step[t])
  <2>1. /\ at[t] = "write" /\ heap' = w.h /\ at' = [at EXCEPT ![t] = AfterSet(w.err)]
        /\ UNCHANGED <<prog, step, val, derivations>>
    BY <1>6 DEF Write
  <2>2. \A path : <<t, step[t], path>> \notin DOMAIN heap
    BY <2>1 DEF Numbered
  <2>3. (val[t] \in P \/ Scalar(val[t])) /\ Env(t) \in P
    BY <2>1 DEF Keeps
  <2>4. /\ \E S2, P2 : Layout(w.h, S2, P2, Q, X, Y) /\ P \subseteq P2
        /\ DOMAIN heap \subseteq DOMAIN w.h /\ \A a \in Q : w.h[a] = heap[a]
        /\ \A a \in DOMAIN w.h \ DOMAIN heap : \E path : a = <<t, step[t], path>>
    <3> DEFINE to == Output(t).to
               v == val[t]
               n == step[t]
    <3>1. to \in Seq(STRING) /\ to # <<>> /\ to \in X /\ \A y \in Y : ~Overlap(to, y)
      BY <1>1
    <3>2. (v \in P \/ Scalar(v)) /\ \A path : <<t, n, path>> \notin DOMAIN heap
      BY <2>2, <2>3
    <3>3. w = SetPath(heap, to, v, t, n)
      OBVIOUS
    <3>. HIDE DEF to, v, n, w
    <3>4. Extends(heap, SetPath(heap, to, v, t, n).h, P, Q, X, Y, t, n)
      BY <3>1, <3>2, SetLaidOut
    <3>. QED
      BY <3>3, <3>4 DEF n, Extends
  <2>. HIDE DEF w
  <2>5. Env(t)' = Env(t) /\ val'[t] = val[t]
    BY <1>3, <2>1
  <2>6. \A A : P \subseteq A => Keeps(t, A)'
    BY <2>3, <2>5 DEF Keeps
  <2>7. \E S2, P2 : Layout(heap', S2, P2, Q, X, Y) /\ P \subseteq P2 /\ Keeps(t, P2)'
    BY <2>1, <2>4, <2>6
  <2>8. Moves(t)
    BY <1>1, <2>1 DEF Moves
  <2>9. Grows(t, S, P, Q, X, Y)
    BY <2>1, <2>4, <2>7 DEF Grows, For
  <2>. QED
    BY <2>8, <2>9
<1>7. CASE Record(t)
  <2>1. /\ at[t] = "record" /\ UNCHANGED <<prog, heap, val>>
        /\ at' = [at EXCEPT ![t] = IF LastOutput(t) THEN "done" ELSE "eval"]
    BY <1>7 DEF Record
  <2>2. Keeps(t, P)'
    BY <1>3, <2>1 DEF Keeps
  <2>3. Moves(t)
    BY <1>1, <2>1 DEF Moves
  <2>4. Grows(t, S, P, Q, X, Y)
    BY <2>1, <2>2 DEF Grows
  <2>. QED
    BY <2>3, <2>4
<1>. QED
  BY <1>4, <1>5, <1>6, <1>7 DEF StepOf

\* So do the numbers.
LEMMA StaysNumbered ==
  ASSUME NEW t \in Stages, ScopeInv, Numbered, StepOf(t),
         \A a \in DOMAIN heap' \ DOMAIN heap : \E path : a = <<t, For(t), path>>
  PROVE  Numbered'
<1>. SUFFICES ASSUME NEW s \in Stages, NEW k, NEW path, <<s, k, path>> \in DOMAIN heap'
              PROVE  /\ at'[s] # "idle" /\ k \in 0 .. step'[s]
                     /\ at'[s] \in {"eval", "write"} => k # step'[s]
  BY DEF Numbered
<1>1. DOMAIN at = Stages /\ DOMAIN step = Stages /\ step[s] \in Nat \ {0} /\ step[t] \in Nat \ {0}
  <2>1. step[s] \in DOMAIN Script(s) /\ step[t] \in DOMAIN Script(t)
    BY DEF ScopeInv
  <2>. QED
    BY <2>1, ScriptIs DEF ScopeInv
<1>2. <<s, k, path>> \in DOMAIN heap \/ (s = t /\ k = For(t))
  OBVIOUS
<1>3. <<s, k, path>> \in DOMAIN heap =>
        at[s] # "idle" /\ k \in 0 .. step[s] /\ (at[s] \in {"eval", "write"} => k # step[s])
  BY DEF Numbered
<1>4. CASE \E j \in DOMAIN Stage : Stage[j] = t /\ Start(j)
  <2>1. at[t] = "idle" /\ at' = [at EXCEPT ![t] = "eval"] /\ step' = step
    BY <1>4 DEF Start
  <2>. QED
    BY <1>1, <1>2, <1>3, <2>1 DEF For
<1>5. CASE Evaluate(t)
  <2>1. at[t] = "eval" /\ at' = [at EXCEPT ![t] = "write"] /\ step' = step /\ heap' = heap
    BY <1>5 DEF Evaluate
  <2>. QED
    BY <1>1, <1>3, <2>1
<1>6. CASE Write(t)
  <2>1. at[t] = "write" /\ at'[t] \in {"record", "failed"} /\ step' = step /\ \A u \in Stages \ {t} : at'[u] = at[u]
    BY <1>1, <1>6 DEF Write, AfterSet
  <2>. QED
    BY <1>1, <1>2, <1>3, <2>1 DEF For
<1>7. CASE Record(t)
  <2>1. heap' = heap /\ \A u \in Stages \ {t} : at'[u] = at[u] /\ step'[u] = step[u]
    BY <1>1, <1>7 DEF Record
  <2>2. (at'[t] = "done" /\ step'[t] = step[t]) \/ (at'[t] = "eval" /\ step'[t] = step[t] + 1)
    BY <1>1, <1>7 DEF Record
  <2>. QED
    BY <1>1, <1>3, <2>1, <2>2
<1>. QED
  BY <1>4, <1>5, <1>6, <1>7 DEF StepOf

LEMMA WaveKept == ScopeInv /\ WaveInv /\ WaveCopiesWhole /\ [HeapNext]_heapVars => WaveInv'
<1>. SUFFICES ASSUME ScopeInv, WaveInv, WaveCopiesWhole, [HeapNext]_heapVars PROVE WaveInv'
  OBVIOUS
<1>1. CASE UNCHANGED heapVars
  <2>1. prog' = prog /\ heap' = heap /\ at' = at /\ step' = step /\ val' = val
    BY <1>1 DEF heapVars
  <2>2. Numbered' <=> Numbered
    BY <2>1 DEF Numbered
  <2>3. \A s, A : Keeps(s, A)' <=> Keeps(s, A)
    BY <2>1 DEF Keeps, Env
  <2>4. \A s : To(s)' = To(s) /\ ToOthers(s)' = ToOthers(s) /\ (OutputsApart(s)' <=> OutputsApart(s))
    BY <2>1, ScriptsStay
  <2>5. \A s, S, P, Q : Sides(s, S, P, Q) => Sides(s, S, P, Q)'
    BY <2>1, <2>3, <2>4 DEF Sides
  <2>. QED
    BY <2>1, <2>2, <2>4, <2>5 DEF WaveInv
<1>2. ASSUME NEW t \in Stages, StepOf(t) PROVE WaveInv'
  <2>. SUFFICES ASSUME prog'.conc, NEW s \in Stages, OutputsApart(s)'
                PROVE  Numbered' /\ \E S, P, Q : Sides(s, S, P, Q)'
    BY DEF WaveInv
  <2>1. prog' = prog
    BY <1>2 DEF StepOf, Start, Evaluate, Write, Record
  <2>2. OutputsApart(s) /\ prog.conc
    BY <2>1, ScriptsStay
  <2>3. Numbered
    BY <2>2 DEF WaveInv
  <2>4. PICK S, P, Q : Sides(s, S, P, Q)
    BY <2>2 DEF WaveInv
  <2>5. /\ \A x \in To(s), y \in ToOthers(s) : ~Overlap(x, y) /\ ~Overlap(y, x)
        /\ Output(t).to \in To(t) /\ (t # s => Output(t).to \in ToOthers(s))
    BY <2>2, ApartIs
  <2>6. t = s => Moves(t) /\ Grows(t, S, P, Q, To(s), ToOthers(s))
    BY <1>2, <2>2, <2>3, <2>4, <2>5, StepGrows DEF Sides
  <2>7. t # s => Moves(t) /\ Grows(t, S, Q, P, ToOthers(s), To(s))
    <3>1. Layout(heap, S, Q, P, ToOthers(s), To(s))
      BY <2>4, LayoutTurned DEF Sides
    <3>. QED
      BY <1>2, <2>2, <2>3, <2>4, <2>5, <3>1, StepGrows DEF Sides
  <2>8. Numbered'
    BY <1>2, <2>3, <2>6, <2>7, StaysNumbered DEF Grows
  <2>9. \E S2, P2, Q2 : Sides(s, S2, P2, Q2)'
    BY <2>2, <2>4, <2>6, <2>7, SidesGrow
  <2>. QED
    BY <2>8, <2>9
<1>. QED
  BY <1>1, <1>2 DEF HeapNext, Finished, StepOf, Stages

\* What another stage's step does, a stage of a wave does not see.
LEMMA StepUnseen ==
  ASSUME ScopeInv, WaveInv, WaveCopiesWhole, NEW t \in Stages, StepOf(t),
         NEW s \in Stages, prog.conc, StandsStill(s), OutputsApart(s)
  PROVE  SameView(heap, heap', Env(s))
<1>1. Numbered
  BY DEF WaveInv
<1>2. PICK S, P, Q : Sides(s, S, P, Q)
  BY DEF WaveInv
<1>3. t # s
  <2>. SUFFICES ASSUME t = s PROVE FALSE
    OBVIOUS
  <2>1. at[t] \in {"eval", "write", "record"} /\ at'[t] = at[t]
    BY DEF StandsStill, Evaluating
  <2>2. t \in DOMAIN at
    BY DEF ScopeInv
  <2>3. CASE \E k \in DOMAIN Stage : Stage[k] = t /\ Start(k)
    BY <2>1, <2>3 DEF Start
  <2>4. CASE Evaluate(t)
    BY <2>1, <2>2, <2>4 DEF Evaluate
  <2>5. CASE Write(t)
    BY <2>1, <2>2, <2>5 DEF Write, AfterSet
  <2>6. CASE Record(t)
    BY <2>1, <2>2, <2>6 DEF Record
  <2>. QED
    BY <2>3, <2>4, <2>5, <2>6 DEF StepOf
<1>4. /\ \A x \in To(s), y \in ToOthers(s) : ~Overlap(y, x)
      /\ Output(t).to \in ToOthers(s)
  BY <1>3, ApartIs
<1>5. Layout(heap, S, Q, P, ToOthers(s), To(s)) /\ Keeps(t, Q)
  BY <1>2, <1>3, LayoutTurned DEF Sides
<1>6. Grows(t, S, Q, P, ToOthers(s), To(s))
  BY <1>1, <1>4, <1>5, StepGrows
<1>7. /\ Addressed(heap) /\ Inner(heap, P) /\ P \subseteq DOMAIN heap
      /\ Addressed(heap') /\ P \subseteq DOMAIN heap' /\ \A a \in P : heap'[a] = heap[a]
  <2>1. PICK S2, Q2 : Layout(heap', S2, Q2, P, ToOthers(s), To(s))
    BY <1>6 DEF Grows
  <2>. QED
    BY <1>5, <1>6, <2>1 DEF Layout, Grows
<1>8. Env(s) \in P
  BY <1>2 DEF Sides, Keeps, StandsStill, Evaluating
<1>9. ASSUME NEW path \in Paths
      PROVE  LET v == Lookup(heap, Env(s), path)
             IN  Lookup(heap', Env(s), path) = v /\ (v \in DOMAIN heap' <=> v \in DOMAIN heap)
  <2>1. path \in Seq(STRING)
    BY HeapAssumption
  <2> DEFINE v == Lookup(heap, Env(s), path)
  <2>2. v \in P \/ Scalar(v)
    BY <1>7, <1>8, <2>1, StaysInner
  <2>3. Lookup(heap', Env(s), path) = v
    BY <1>7, <1>8, <2>1, StaysInner
  <2>. HIDE DEF v
  <2>4. v \in DOMAIN heap' <=> v \in DOMAIN heap
    BY <1>7, <2>2 DEF Addressed
  <2>. QED
    BY <2>3, <2>4 DEF v
<1>10. View(heap, Env(s)) = View(heap', Env(s))
  BY <1>9 DEF View
<1>. QED
  BY <1>10 DEF SameView

\* While a stage of a wave evaluates, whatever the others store and write, it sees
\* what it saw when it started, as long as a Snapshot copies all there is and no
\* other writes at, above or below its outputs (Scope.Snapshot and setPath, scope.go).
THEOREM StagesOfAWaveAreIsolated == HeapSpec /\ []WaveCopiesWhole => SiblingIsolation
<1> DEFINE Unseen == \A s \in Stages :
                       prog.conc /\ StandsStill(s) /\ OutputsApart(s) => SameView(heap, heap', Env(s))
<1>1. ScopeInv /\ WaveInv /\ WaveCopiesWhole /\ [HeapNext]_heapVars => [Unseen]_heapVars
  <2>. SUFFICES ASSUME ScopeInv, WaveInv, WaveCopiesWhole, HeapNext PROVE Unseen \/ UNCHANGED heapVars
    OBVIOUS
  <2>1. ASSUME NEW t \in Stages, StepOf(t) PROVE Unseen
    BY <2>1, StepUnseen
  <2>. HIDE DEF Unseen
  <2>. QED
    BY <2>1 DEF HeapNext, Finished, StepOf, Stages
<1>2. HeapInit => WaveInv
  BY WaveStarts
<1>3. ScopeInv /\ WaveInv /\ WaveCopiesWhole /\ [HeapNext]_heapVars => WaveInv'
  BY WaveKept
<1>4. SiblingIsolation <=> [][Unseen]_heapVars
  BY DEF SiblingIsolation
<1>. HIDE DEF Unseen
<1>. QED
  BY <1>1, <1>2, <1>3, <1>4, ScopeInvariant, PTL DEF HeapSpec
================================================================================
