------------------------------- MODULE ScopeHeap -------------------------------
(***************************************************************************)
(* The data of a Scope as what it is in memory: maps that refer to maps.   *)
(* NewScope and a concurrent Snapshot copy the spine of maps, a plain      *)
(* Snapshot copies one level, Set walks and extends the spine in place,    *)
(* and Set stores the value it is given, which may be a map the stage's    *)
(* expression took out of its environment.  Derive is Set and then, under  *)
(* a second lock, the record of the derivation.                            *)
(*                                                                         *)
(* Stages are scripts: a Snapshot, then, once per output, an evaluation    *)
(* against it and a Derive, as a rule of DecisionTable does and, with one  *)
(* output, a SingleExpr.  An expression yields a new scalar, or the value  *)
(* at a path of its environment.                                           *)
(***************************************************************************)
EXTENDS DotPath

CONSTANTS
  Stage,      \* the stages, as a sequence in run order
  Seed,       \* the caller's map: a tree of maps, as a heap with root Caller
  Programs,   \* [conc, strict: BOOLEAN, script: stage -> Seq([to: path, from: path])]
  Paths,      \* the paths that may have a value
  CloneDepth  \* maxCloneDepth: the spine is shared beyond it

None == <<>>           \* the path an expression that reads nothing reads
Missing == <<"missing", 0, <<>>>>
Caller == <<"caller", 0, <<>>>>
Data == <<"scope", 0, <<>>>>    \* s.data

Stages == {Stage[k] : k \in DOMAIN Stage}

VARIABLES
  prog,        \* the program that runs, and the options of its Scope
  heap,        \* map nodes: address -> key -> scalar or address
  at,          \* where each stage is: idle, eval, write, record, done or failed
  step,        \* the output of its script it is at
  val,         \* the value its last evaluation yielded
  derivations  \* path -> the Value of its Derivation

heapVars == <<prog, heap, at, step, val, derivations>>

Env(s) == <<s, 0, <<>>>>
Script(s) == prog.script[s]
Output(s) == Script(s)[step[s]]
-----------------------------------------------------------------------------
\* Maps.  An address names who allocated the node, and where.

Child(h, v, key) == IF v \in DOMAIN h /\ key \in DOMAIN h[v] THEN h[v][key] ELSE Missing

\* lookupPath, without its error: Missing when there is nothing at path.
Lookup(h, root, path) ==
  LET upto[i \in 0 .. Len(path)] == IF i = 0 THEN root ELSE Child(h, upto[i - 1], path[i])
  IN  upto[Len(path)]

\* The paths from root to its maps, to a depth.
MapsBelow(h, root, depth) == {path \in Paths \union {<<>>} : Len(path) <= depth /\ Lookup(h, root, path) \in DOMAIN h}

\* No map below root lies so deep that a copy would share it: beyond maxCloneDepth,
\* or where Paths does not look.
CopiedWhole(h, root) ==
  LET maps == MapsBelow(h, root, CloneDepth)
  IN  \A path \in maps : LET node == h[Lookup(h, root, path)]
                         IN  \A k \in DOMAIN node : node[k] \in DOMAIN h => Append(path, k) \in maps

\* A stage writes once at least, and a path has a segment at least.
IsScript(c) ==
  /\ c \in Seq({c[k] : k \in DOMAIN c}) /\ c # <<>>
  /\ \A k \in DOMAIN c : c[k].to \in Seq(STRING) /\ c[k].to # <<>> /\ c[k].from \in Seq(STRING)

\* The caller's maps are its own, and none is so deep that NewScope shares it.
ASSUME HeapAssumption ==
  /\ CloneDepth \in Nat /\ Paths \subseteq Seq(STRING)
  /\ Stages \intersect {"caller", "scope", "missing"} = {}
  /\ Caller \in DOMAIN Seed
  /\ \A a \in DOMAIN Seed : a[1] = "caller"
  /\ \A a \in DOMAIN Seed : \A k \in DOMAIN Seed[a] :
       Seed[a][k] \in DOMAIN Seed \/ Seed[a][k][1] \notin Stages \union {"scope"}
  /\ CopiedWhole(Seed, Caller)
  /\ \A g \in Programs :
       /\ g.conc \in BOOLEAN /\ g.strict \in BOOLEAN
       /\ DOMAIN g.script = Stages /\ \A s \in Stages : IsScript(g.script[s])

\* What a reader sees below root: for every path, a scalar, "map" or nothing.
View(h, root) ==
  [path \in Paths |-> LET v == Lookup(h, root, path)
                      IN  IF v \in DOMAIN h THEN <<"map", 0, <<>>>> ELSE v]

\* The nodes a copy with owner gets, to depth maps below its root; a map below
\* the last of them is shared.
CopyNodes(h, root, owner, depth) ==
  LET Maps == MapsBelow(h, root, depth)
      Node(path) ==
        LET node == h[Lookup(h, root, path)]
        IN  [k \in DOMAIN node |->
               IF Append(path, k) \in Maps THEN <<owner, 0, Append(path, k)>> ELSE node[k]]
  IN  [a \in {<<owner, 0, path>> : path \in Maps} |-> Node(a[3])]

Join(f, g) == [a \in DOMAIN f \union DOMAIN g |-> IF a \in DOMAIN g THEN g[a] ELSE f[a]]

\* Mutant: the copy is one level, as it was before ADR-0015 and ADR-0052.
Copy_OneLevel(h, root, owner, depth) == Join(h, CopyNodes(h, root, owner, 0))
Copy(h, root, owner, depth) == Join(h, CopyNodes(h, root, owner, depth))

\* The copy of NewScope, and of Snapshot when the Scope is concurrent: the spine
\* of each value of the top level, maxCloneDepth maps deep.
DeepCopy(h, root, owner) == Copy(h, root, owner, CloneDepth)

\* Mutant: one level, concurrent or not.
Snapshot_Shallow(h, s, conc) == Join(h, CopyNodes(h, Data, s, 0))

\* Snapshot.
Snapshot(h, s, conc) ==
  IF conc THEN DeepCopy(h, Data, s) ELSE Join(h, CopyNodes(h, Data, s, 0))

Absent(h, a, key) == key \notin DOMAIN h[a]

Conflict(h, a, key) == prog.strict /\ key \in DOMAIN h[a]

Entry(key, v) == [x \in {key} |-> v]
Put(h, a, key, v) == [h EXCEPT ![a] = Join(@, Entry(key, v))]

NoSegment == ""

\* One segment of setPath's walk: into the map at key, which is made as new if
\* there is nothing.
Descend(w, key, new) ==
  CASE w.err # "nil" -> w
    [] w.err = "nil" /\ key = NoSegment -> [w EXCEPT !.err = "EmptyPathSegment"]
    [] w.err = "nil" /\ key # NoSegment /\ Absent(w.h, w.at, key) ->
         [h |-> Put(Join(w.h, Entry(new, <<>>)), w.at, key, new), at |-> new, err |-> "nil"]
    [] OTHER -> IF w.h[w.at][key] \in DOMAIN w.h
                THEN [w EXCEPT !.at = w.h[w.at][key]]
                ELSE [w EXCEPT !.err = "PathNotMap"]

\* The walk to the map that holds the last segment.  owner and k name the nodes it
\* creates; those made before an error is met remain.
Reached(h, path, owner, k) ==
  LET walk[i \in 0 .. Len(path) - 1] ==
        IF i = 0 THEN [h |-> h, at |-> Data, err |-> "nil"]
        ELSE Descend(walk[i - 1], path[i], <<owner, k, SubSeq(path, 1, i)>>)
  IN  walk[Len(path) - 1]

\* setPath: the heap after it and the error it returned.
SetPath(h, path, v, owner, k) ==
  LET w    == Reached(h, path, owner, k)
      leaf == path[Len(path)]
  IN  CASE w.err # "nil" -> w
        [] w.err = "nil" /\ leaf = NoSegment -> [w EXCEPT !.err = "EmptyPathSegment"]
        [] w.err = "nil" /\ leaf # NoSegment /\ Conflict(w.h, w.at, leaf) -> [w EXCEPT !.err = "PathConflict"]
        [] OTHER -> [w EXCEPT !.h = Put(w.h, w.at, leaf, v)]

\* What output k of s evaluates to against its environment.
Value(h, s, k, script) ==
  LET read == script[s][k].from
  IN  IF read = None THEN <<s, k, <<>>>> ELSE Lookup(h, Env(s), read)
-----------------------------------------------------------------------------
\* NewScope has copied the seed, and recorded the derivations of its keys.
HeapInit ==
  /\ prog \in Programs
  /\ heap = DeepCopy(Seed, Caller, "scope")
  /\ at = [s \in Stages |-> "idle"]
  /\ step = [s \in Stages |-> 1]
  /\ val = [s \in Stages |-> Missing]
  /\ derivations = [path \in {<<k>> : k \in DOMAIN heap[Data]} |-> heap[Data][path[1]]]

\* Sequentially, a stage starts when those before it are done; in a wave, the
\* stages of the one level start together.
MayStart(k) == prog.conc \/ \A j \in 1 .. k - 1 : at[Stage[j]] = "done"

Start(k) ==
  LET s == Stage[k] IN
  /\ at[s] = "idle" /\ MayStart(k)
  /\ heap' = Snapshot(heap, s, prog.conc)
  /\ at' = [at EXCEPT ![s] = "eval"]
  /\ UNCHANGED <<prog, step, val, derivations>>

\* The expression runs without the Scope's lock, and yields the environment's own
\* value.
Evaluate(s) ==
  /\ at[s] = "eval"
  /\ val' = [val EXCEPT ![s] = Value(heap, s, step[s], prog.script)]
  /\ at' = [at EXCEPT ![s] = "write"]
  /\ UNCHANGED <<prog, heap, step, derivations>>

\* Mutant: a write that failed is recorded like one that succeeded.
AfterSet_Regardless(err) == "record"
AfterSet(err) == IF err = "nil" THEN "record" ELSE "failed"

\* Set, under the lock.
Write(s) ==
  /\ at[s] = "write"
  /\ LET w == SetPath(heap, Output(s).to, val[s], s, step[s])
     IN  heap' = w.h /\ at' = [at EXCEPT ![s] = AfterSet(w.err)]
  /\ UNCHANGED <<prog, step, val, derivations>>

LastOutput(s) == step[s] = Len(Script(s))

\* The rest of Derive, under the lock again.
Record(s) ==
  /\ at[s] = "record"
  /\ derivations' = Join(derivations, Entry(Output(s).to, val[s]))
  /\ IF LastOutput(s)
     THEN at' = [at EXCEPT ![s] = "done"] /\ UNCHANGED step
     ELSE at' = [at EXCEPT ![s] = "eval"] /\ step' = [step EXCEPT ![s] = @ + 1]
  /\ UNCHANGED <<prog, heap, val>>

\* A sequential run stops at the first stage that fails.
Ended ==
  \/ \A s \in Stages : at[s] \in {"done", "failed"}
  \/ ~prog.conc /\ \E s \in Stages : at[s] = "failed"

Finished == Ended /\ UNCHANGED heapVars

HeapNext ==
  \/ \E k \in DOMAIN Stage : Start(k)
  \/ \E s \in Stages : Evaluate(s) \/ Write(s) \/ Record(s)
  \/ Finished

HeapSpec == HeapInit /\ [][HeapNext]_heapVars
-----------------------------------------------------------------------------
\* A sequential run of the program's outputs, whatever the mode it runs in here: one
\* stage after the other, with the shallow Snapshots of a Scope that is not marked
\* concurrent, up to the first error.
Sequentially ==
  LET run[k \in 0 .. Len(Stage)] ==
        IF k = 0 THEN [h |-> DeepCopy(Seed, Caller, "scope"), err |-> "nil"]
        ELSE LET s == Stage[k]
                 writes[j \in 0 .. Len(Script(s))] ==
                   IF j = 0 THEN [run[k - 1] EXCEPT !.h = Snapshot(@, s, FALSE)]
                   ELSE LET w == writes[j - 1]
                        IN  IF w.err # "nil" THEN w
                            ELSE SetPath(w.h, Script(s)[j].to, Value(w.h, s, j, prog.script), s, j)
             IN  writes[Len(Script(s))]
  IN  run[Len(Stage)]

StrictlyBelow(x, y) == Prefix(y, x) /\ x # y

\* What is asked of a program for its Scope not to depend on the mode: different
\* stages write disjoint paths (pipeline.go:86-92); no output is read, by the stage
\* that writes it either; nothing is written below an output that may be a map of
\* the environment.  Without the last two a stage alone differs: after `a <- o` the
\* output a.m is written into o as well in a sequence, and into a copy in a wave.
Independent ==
  \A s, t \in Stages : \A j \in DOMAIN Script(s), k \in DOMAIN Script(t) :
    LET here == Script(s)[j]  there == Script(t)[k].to IN
      /\ s # t => ~Overlap(here.to, there)
      /\ here.from # None => ~Overlap(here.from, there) /\ ~StrictlyBelow(there, here.to)

\* Where a record must agree with the data in any program: no output lies above or
\* below the path, stages of a wave do not both write it (their Set and record come
\* apart), and no stored map is written into.
StoredBy(path) == {s \in Stages : \E j \in DOMAIN Script(s) : Script(s)[j].to = path}
Uncontested(path) ==
  /\ prog.conc => \A s, t \in StoredBy(path) : s = t
  /\ \A s, t \in Stages : \A j \in DOMAIN Script(s), k \in DOMAIN Script(t) :
       LET here == Script(s)[j]  there == Script(t)[k].to IN
         /\ there # path => ~Overlap(there, path)
         /\ here.from # None => ~StrictlyBelow(there, here.to)

\* A stage of a wave that starts now gets maps of its own only.
WaveCopiesWhole == prog.conc => CopiedWhole(heap, Data)

Evaluating(s) == at[s] \in {"eval", "write", "record"}

\* The step is another stage's, while s holds its environment.
StandsStill(s) == Evaluating(s) /\ at'[s] = at[s] /\ step'[s] = step[s]

SameView(h1, h2, root) == View(h1, root) = View(h2, root)

\* No other stage writes at, above or below a path that s writes.
OutputsApart(s) ==
  \A t \in Stages \ {s} : \A j \in DOMAIN Script(s), k \in DOMAIN Script(t) :
    ~Overlap(Script(s)[j].to, Script(t)[k].to)

HeapTypeOK ==
  /\ DOMAIN at = Stages /\ \A s \in Stages : at[s] \in {"idle", "eval", "write", "record", "done", "failed"}
  /\ \A s \in Stages : step[s] \in DOMAIN Script(s)
  /\ \A s \in Stages : at[s] # "idle" => Env(s) \in DOMAIN heap
  /\ {Caller, Data} \subseteq DOMAIN heap

\* The caller's map is never written (NewScope's comment, scope.go:61-64; it is
\* shared below maxCloneDepth, which no path of these programs reaches).
CallerUntouched == HeapTypeOK /\ View(heap, Caller) = View(Seed, Caller)

\* While a stage of a wave evaluates, no write of another stage reaches a map it
\* can read, even where stages break their contract: as long as no stage writes
\* below another's output.
SiblingIsolation ==
  [][\A s \in Stages :
       prog.conc /\ StandsStill(s) /\ OutputsApart(s) => SameView(heap, heap', Env(s))]_heapVars

\* What is stored is never so deep that a wave's Snapshot shares it.  Independent
\* stages leave the Scope of a sequential run, whatever the mode and the interleaving.
\* And a path that is not contested is derived from the value that is there, in every
\* program: the two locked sections of Derive do not come apart on it, and a failed
\* Set records nothing.
Deterministic ==
  /\ WaveCopiesWhole
  /\ (Independent /\ \A s \in Stages : at[s] = "done") =>
       Sequentially.err = "nil" /\ View(heap, Data) = View(Sequentially.h, Data)
  /\ Ended => \A path \in DOMAIN derivations :
                Uncontested(path) => Lookup(heap, Data, path) = derivations[path]
=============================================================================
