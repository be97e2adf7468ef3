-------------------------------- MODULE Lineage --------------------------------
(***************************************************************************)
(* The record of where values came from, and the two queries over it.      *)
(* Derive stores a value and keeps, under its path, the names its          *)
(* expression read; Lineage and Explain resolve those names when they are  *)
(* asked, against all that has been recorded by then, and walk the graph   *)
(* this gives depth first, never deeper than MaxLineageDepth.              *)
(*                                                                         *)
(* The walk is the code's recursion with its stack of calls written out.   *)
(* A query holds the Scope's lock, so nothing is written while one runs.   *)
(* Paths are sequences of segments; keys whose text holds a dot are not    *)
(* modelled.                                                               *)
(***************************************************************************)
EXTENDS DotPath, FiniteSets, Listing

CONSTANTS
  Order,            \* the paths and names there may be, in the order of their text
  Seeds,            \* top-level seed -> the paths of the scalars in it
  Outputs,          \* the paths a single stage may write
  Namespace,        \* the name of the MultiExpr stage, <<>> if there is none
  Locals,           \* the names of its expressions
  Reads,            \* the sets of names and member paths an expression may read
  Elements,         \* prefixes of ForEach elements
  ElementGraphs,    \* what an element's own Scope may have recorded
  Restored,         \* graphs UnmarshalJSON may have put in place
  MaxLineageDepth,  \* the code's 1000
  MaxWrites         \* bound: writes by stages and merged elements

Names == MemberOf(Order)

\* A graph of records: from each path to names.
IsGraph(g) == DOMAIN g \subseteq Names /\ \A p \in DOMAIN g : g[p] \subseteq Names

\* There is a name for all that may be written or recorded.
ASSUME LineageAssumption ==
  /\ MaxLineageDepth \in Nat /\ MaxWrites \in Nat
  /\ Order \in Seq(Names) /\ NoRepeats(Order) /\ \A p \in Names : p \in Seq(STRING) /\ p # <<>>
  /\ \A k \in DOMAIN Seeds :
       <<k>> \in Names /\ Seeds[k] # {} /\ \A p \in Seeds[k] : p \in Seq(STRING) /\ p # <<>> /\ p[1] = k
  /\ Outputs \subseteq Names /\ \A R \in Reads : R \subseteq Names
  /\ Namespace # <<>> => \A e \in Locals : /\ Namespace \o <<e>> \in Names
                                           /\ \A R \in Reads : \A r \in R : r[1] = e => Namespace \o r \in Names
  /\ \A e \in Elements, g \in ElementGraphs :
       /\ IsGraph(g) /\ e \in Seq(STRING)
       /\ \A p \in DOMAIN g : e \o p \in Names /\ \A key \in g[p] : e \o key \in Names
  /\ \A g \in Restored : IsGraph(g) /\ \A k \in DOMAIN Seeds : <<k>> \in DOMAIN g

NoStage == [tops |-> {}, locals |-> {}]
NoPath == <<>>

VARIABLES
  writer,   \* history: path of each scalar in Scope.data -> whose write put it there
  inputs,   \* Scope.derivations: path -> the keys of its Inputs
  from,     \* history: path -> the derivations its expression really read from
  tidy,     \* history: nothing was overwritten, overlapped, restored or dropped
  settled,  \* history: nothing was written under a name already read, by an element or
            \* besides one, and no element's records go in circles
  merged,   \* history: element -> the graph its Scope had
  writes,   \* how many there were
  stage,    \* the MultiExpr that is executing: what its environment holds
  pc,       \* "idle", "lineage", "explain" or "answered"
  target,   \* the path asked about
  agenda,   \* the calls and iterations left, the next one first
  visited,  \* the set of the code's name
  out,      \* Lineage's answer, as paths
  tree      \* Explain's lines, as <<depth, path>>; NoPath marks the truncation

scope == <<writer, inputs, from, tidy, settled, merged, writes, stage>>
query == <<pc, target, agenda, visited, out, tree>>
vars == <<scope, query>>
-----------------------------------------------------------------------------
\* What a name stands for.

\* sort.Strings, for a set of paths.
Sorted(S) == Kept(Order, S)

\* lineageIndex: the derivations below a namespace.
Under(g, key) == {p \in DOMAIN g : Prefix(key, p) /\ p # key}

Nearer(g, key) == {p \in DOMAIN g : Prefix(p, key) /\ p # key}

\* derivationsFor: exactly there, else all below, else the nearest above.
DerivationsFor(g, key) ==
  IF key \in DOMAIN g THEN {key}
  ELSE IF Under(g, key) # {} THEN Under(g, key)
  ELSE {p \in Nearer(g, key) : \A q \in Nearer(g, key) : Len(q) <= Len(p)}

\* The derivations an expression's inputs stand for, and all below them.
Needs(g, p) == UNION {DerivationsFor(g, key) : key \in g[p]}

\* No derivations need each other in a circle.
Grounded(g) == \A T \in SUBSET DOMAIN g : T = {} \/ \E p \in T : Needs(g, p) \intersect T = {}

\* start, and all that is n steps of next away from it at most.
Closure(start, next, n) ==
  LET upto[i \in 0 .. n] ==
        IF i = 0 THEN start ELSE upto[i - 1] \union UNION {next[p] : p \in upto[i - 1]}
  IN  upto[n]

Reach(g, key) ==
  Closure(DerivationsFor(g, key), [p \in DOMAIN g |-> Needs(g, p)], Cardinality(DOMAIN g))
-----------------------------------------------------------------------------
\* Writing.

Recorded(g) ==
  /\ inputs = g
  /\ from = [p \in DOMAIN g |-> Needs(g, p)]
  /\ writer = [p \in UNION {Seeds[k] : k \in DOMAIN Seeds} |-> <<p[1]>>]
  /\ merged = <<>> /\ writes = 0 /\ stage = NoStage /\ settled = TRUE
  /\ pc = "idle" /\ target = NoPath /\ agenda = <<>> /\ visited = {}
  /\ out = <<>> /\ tree = <<>>

\* NewScope has recorded its seeds, or UnmarshalJSON has put a graph in place.
Init ==
  \/ Recorded([p \in {<<k>> : k \in DOMAIN Seeds} |-> {}]) /\ tidy = TRUE
  \/ \E g \in Restored : Recorded(g) /\ tidy = FALSE

\* lookupPath finds something: a scalar there, or a map with one in it.
Holds(p) == \E q \in DOMAIN writer : Prefix(p, q)

\* setPath meets a value that is no map.
Blocked(p) == \E q \in DOMAIN writer : Prefix(q, p) /\ q # p

Writers(p) == {writer[q] : q \in {q \in DOMAIN writer : Prefix(p, q)}} \ {NoPath}

\* references: of a name and a path below it, only the path.
References(read) == {r \in read : \A q \in read : Prefix(r, q) => q = r}

\* No record is at, above or below p, and no element.
Alone(p) == \A q \in DOMAIN inputs \union DOMAIN merged : ~Overlap(p, q)

\* No name that g's expressions read is at, above or below p.
Unread(g, p) == \A q \in DOMAIN g : \A key \in g[q] : ~Overlap(key, p)

\* The Scope after Set(p, v) with a scalar v; whole says that v has no input
\* that goes unrecorded.
Store(p, who, whole) ==
  /\ ~Blocked(p)
  /\ writer' = [q \in {q \in DOMAIN writer : ~Prefix(p, q)} \union {p} |->
                  IF q = p THEN who ELSE writer[q]]
  /\ tidy' = (tidy /\ whole /\ ~Holds(p) /\ Alone(p))

\* Derive: the value, and the record of the names that were read for it.
Derive(p, keys, sources, whole) ==
  /\ writes < MaxWrites /\ writes' = writes + 1
  /\ Store(p, p, whole)
  /\ inputs' = [q \in DOMAIN inputs \union {p} |-> IF q = p THEN keys ELSE inputs[q]]
  /\ from' = [q \in DOMAIN from \union {p} |-> IF q = p THEN sources ELSE from[q]]
  /\ settled' = (settled /\ Unread(inputs', p) /\ \A key \in keys, e \in DOMAIN merged : ~Overlap(key, e))

\* snapshotRefs: the names that lead to a value.
Resolved(refs) == {r \in refs : Holds(r)}

\* SingleExpr.Execute, or a decision of a table.
Single(p, read) ==
  /\ pc = "idle" /\ stage = NoStage
  /\ Derive(p, Resolved(References(read)), UNION {Writers(r) : r \in read}, References(read) = read)
  /\ UNCHANGED <<merged, stage, query>>

\* MultiExpr.Execute takes its Snapshot: the top level is copied, and what is
\* below it is shared.
Begin ==
  /\ pc = "idle" /\ stage = NoStage /\ Namespace # NoPath /\ writes < MaxWrites
  /\ stage' = [tops |-> {q[1] : q \in DOMAIN writer}, locals |-> {}]
  /\ UNCHANGED <<writer, inputs, from, tidy, settled, merged, writes, query>>

IsLocal(r) == r[1] \in stage.locals
InScope(r) == IF IsLocal(r) THEN Namespace \o r ELSE r

\* Mutant: the bare name, as before ADR-0048.
QualifyLocal_Bare(r) == r
\* qualifyLocal: an earlier expression is recorded under its path in the Scope.
QualifyLocal(r) == IF IsLocal(r) THEN Namespace \o r ELSE r

Readable(r) == (IsLocal(r) \/ r[1] \in stage.tops) /\ Holds(InScope(r))

\* One expression of it, in order of priority; each runs once.
Expression(e, names) ==
  LET read == {r \in names : Readable(r)}
      kept == References(names) \intersect read
  IN
  /\ pc = "idle" /\ stage # NoStage /\ e \notin stage.locals
  /\ Derive(Namespace \o <<e>>, {QualifyLocal(r) : r \in kept},
            UNION {Writers(InScope(r)) : r \in read}, kept = read)
  /\ stage' = [stage EXCEPT !.locals = @ \union {e}]
  /\ UNCHANGED <<merged, query>>

\* The stage ends, or fails and keeps what it wrote.
End ==
  /\ pc = "idle" /\ stage # NoStage /\ stage.locals # {} /\ stage' = NoStage
  /\ UNCHANGED <<writer, inputs, from, tidy, settled, merged, writes, query>>

\* The caller's Set, or a ForEach's roll-up: a value without a derivation.
Set(p) ==
  /\ pc = "idle" /\ stage = NoStage /\ writes < MaxWrites /\ writes' = writes + 1
  /\ Store(p, NoPath, TRUE)
  /\ settled' = (settled /\ Unread(inputs, p))
  /\ UNCHANGED <<inputs, from, merged, stage, query>>

\* The keys of a derivation's Inputs in the outer Scope.
PrefixInputs(e, keys) == {e \o key : key \in keys}

\* recordElementDerivations: an element's records, under its prefix.
Merge(e, g) ==
  LET new == [p \in {e \o q : q \in DOMAIN g} |-> CHOOSE q \in DOMAIN g : e \o q = p]
      All == DOMAIN inputs \union DOMAIN new
  IN  /\ pc = "idle" /\ stage = NoStage /\ writes < MaxWrites /\ writes' = writes + 1
      /\ inputs' = [p \in All |-> IF p \in DOMAIN new THEN PrefixInputs(e, g[new[p]]) ELSE inputs[p]]
      /\ from' = [p \in All |-> IF p \in DOMAIN new THEN {e \o q : q \in Needs(g, new[p])} ELSE from[p]]
      /\ merged' = [x \in DOMAIN merged \union {e} |-> IF x = e THEN g ELSE merged[x]]
      /\ tidy' = (tidy /\ Alone(e))
      /\ settled' = (settled /\ Unread(inputs, e) /\ Grounded(g))
      /\ UNCHANGED <<writer, stage, query>>
-----------------------------------------------------------------------------
\* The queries.  On the agenda, <<"enter", key, depth>> is a call, <<"visit", p,
\* depth>> an iteration of its loop and <<"emit", p, depth>> the end of one.

Ask(mode, key) ==
  /\ pc' = mode /\ target' = key /\ agenda' = <<<<"enter", key, 0>>>> /\ visited' = {}
  /\ UNCHANGED scope

Lineage(key) ==
  /\ pc = "idle" /\ stage = NoStage
  /\ Ask("lineage", key) /\ UNCHANGED <<out, tree>>

\* Lineage has returned, and the same path is explained.
Explain ==
  /\ pc = "lineage" /\ agenda = <<>>
  /\ Ask("explain", target) /\ UNCHANGED <<out, tree>>

Return ==
  /\ pc = "explain" /\ agenda = <<>> /\ pc' = "answered"
  /\ UNCHANGED <<scope, target, agenda, visited, out, tree>>

Forget ==
  /\ pc = "answered" /\ pc' = "idle" /\ target' = NoPath /\ visited' = {}
  /\ out' = <<>> /\ tree' = <<>> /\ UNCHANGED <<scope, agenda>>

Asked == pc \in {"lineage", "explain"} /\ agenda # <<>>
Item == Head(agenda)
Line(p) == IF pc = "explain" THEN Append(tree, <<Item[3], p>>) ELSE tree

TooDeep(depth) == depth >= MaxLineageDepth

\* The line that says so.
Mark == Line(NoPath)

\* A call that is too deep returns at once; Explain marks the place.
Truncate ==
  /\ Asked /\ Item[1] = "enter" /\ TooDeep(Item[3])
  /\ agenda' = Tail(agenda) /\ tree' = Mark
  /\ UNCHANGED <<scope, pc, target, visited, out>>

\* collectLineage, explain: the loop over what the key stands for.
Enter ==
  /\ Asked /\ Item[1] = "enter" /\ ~TooDeep(Item[3])
  /\ LET ds == Sorted(DerivationsFor(inputs, Item[2])) IN
       agenda' = [k \in DOMAIN ds |-> <<"visit", ds[k], Item[3]>>] \o Tail(agenda)
  /\ UNCHANGED <<scope, pc, target, visited, out, tree>>

\* Mutant: the seen are walked again, until the depth ends it.
Seen_Never(p) == FALSE
Seen(p) == p \in visited

\* A derivation that was met before: Explain prints it once more.
Skip ==
  /\ Asked /\ Item[1] = "visit" /\ Seen(Item[2])
  /\ agenda' = Tail(agenda) /\ tree' = Line(Item[2])
  /\ UNCHANGED <<scope, pc, target, visited, out>>

\* Its inputs, in order, and after them itself.
Plan(p, calls) == calls \o <<<<"emit", p, Item[3]>>>>

Visit ==
  /\ Asked /\ Item[1] = "visit" /\ ~Seen(Item[2])
  /\ visited' = visited \union {Item[2]} /\ tree' = Line(Item[2])
  /\ LET ids == Sorted(inputs[Item[2]]) IN
       agenda' = Plan(Item[2], [k \in DOMAIN ids |-> <<"enter", ids[k], Item[3] + 1>>]) \o Tail(agenda)
  /\ UNCHANGED <<scope, pc, target, out>>

Emit ==
  /\ Asked /\ Item[1] = "emit"
  /\ agenda' = Tail(agenda)
  /\ out' = IF pc = "lineage" THEN Append(out, Item[2]) ELSE out
  /\ UNCHANGED <<scope, pc, target, visited, tree>>

Next ==
  \/ \E p \in Outputs : Set(p) \/ \E read \in Reads : Single(p, read)
  \/ Begin \/ End
  \/ \E e \in Locals, names \in Reads : Expression(e, names)
  \/ \E e \in Elements, g \in ElementGraphs : Merge(e, g)
  \/ \E key \in Names : Lineage(key)
  \/ Explain \/ Return \/ Forget
  \/ Truncate \/ Enter \/ Skip \/ Visit \/ Emit

Spec == Init /\ [][Next]_vars
-----------------------------------------------------------------------------
Answered == pc = "answered"
Fits == Cardinality(Reach(inputs, target)) <= MaxLineageDepth
Explained == {tree[k][2] : k \in DOMAIN tree}

\* What really went into the value at p, by the history of the reads.
Sources(p) == Closure({p}, from, Cardinality(DOMAIN from))

\* The records are graphs over the names there are, what was read was recorded,
\* and the walk keeps to them.
TypeOK ==
  /\ DOMAIN inputs \subseteq Names /\ DOMAIN from = DOMAIN inputs
  /\ \A p \in DOMAIN from : inputs[p] \subseteq Names /\ from[p] \subseteq DOMAIN inputs
  /\ \A p \in DOMAIN writer : writer[p] \in DOMAIN inputs \union {NoPath}
  /\ pc \in {"idle", "lineage", "explain", "answered"}
  /\ visited \subseteq DOMAIN inputs /\ out \in Seq(DOMAIN inputs)
  /\ \A k \in DOMAIN agenda : agenda[k][2] \in Names /\ agenda[k][3] <= MaxLineageDepth

\* Explain shows the derivations Lineage gives, and when one that can be reached
\* is not among them it says where it stopped.
NothingLostSilently ==
  Answered =>
    /\ Explained \ {NoPath} = MemberOf(out)
    /\ NoPath \in Explained \/ Reach(inputs, target) = MemberOf(out)

\* Lineage answers with each derivation that can be reached from the path, once,
\* and no other; only where these are more than the depth may the answer be cut,
\* and Explain, which shows the same derivations, then says where.
LineageIsReachable ==
  /\ TypeOK /\ NothingLostSilently
  /\ Answered =>
       /\ MemberOf(out) \subseteq Reach(inputs, target) /\ NoRepeats(out)
       /\ Fits => Reach(inputs, target) \subseteq MemberOf(out)

\* A value comes after all that its expression read, while outputs do not overlap
\* and no name is read before all is written under it.
InputsFirst ==
  (Answered /\ tidy /\ settled /\ Fits) =>
    \A j \in DOMAIN out : \A k \in DOMAIN out : out[k] \in from[out[j]] => k < j

\* An element's values have the lineage in the outer Scope that they had in its
\* own, under the element's prefix.
ElementsKeepLineage ==
  (Answered /\ tidy /\ Fits) =>
    \A e \in DOMAIN merged : \A p \in DOMAIN merged[e] :
      target = e \o p => MemberOf(out) = {e \o q : q \in Reach(merged[e], p)}

\* Names are resolved when the query is made, and this loses nothing: while
\* outputs do not overlap and no expression reads a map besides a member of it,
\* all that went into a value is in its lineage, and nothing else is if no name
\* was read before all was written under it.  Inputs come first, and elements keep
\* their lineage.
LineageIsDataflow ==
  /\ InputsFirst /\ ElementsKeepLineage
  /\ (Answered /\ tidy /\ Fits /\ target \in DOMAIN inputs) =>
       /\ Sources(target) \subseteq MemberOf(out)
       /\ settled => MemberOf(out) \subseteq Sources(target)
==============================================================================
