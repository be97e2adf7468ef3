-------------------------------- MODULE ForEach --------------------------------
(***************************************************************************)
(* ForEach.Execute: the inner pipeline once per element of a collection,   *)
(* each time against a Scope of its own, the records of each element       *)
(* merged into the outer Scope, then the roll-ups and the list of results. *)
(*                                                                         *)
(* The inner pipeline is abstract: for an element it fails, or gives an    *)
(* output or none and fires a rule or none.  Of the outer Scope the model  *)
(* keeps the collection, what the stage writes under its own name, its     *)
(* elements' records, and the output of a sibling, an independent stage    *)
(* that writes before the stage or after it and, in a wave, at any time.   *)
(***************************************************************************)
EXTENDS Listing

CONSTANTS
  Collections,   \* values of the collection path: lists, as <<"list", seq>>, or others
  Rollups,       \* the roll-ups of the stage, as sequences of [agg, as]
  Values,        \* outputs of the inner pipeline; every roll-up is over this output
  Rules,         \* rules of the inner decision table
  Reduce(_, _),  \* aggregate, for an aggregation and a list: a value or Error
  MaxCalls       \* bound: how often the stage runs against the outer Scope

Nothing == <<"nothing">>
Error == <<"error">>
NoCollection == <<"missing">>
Zero == <<"num", 0>>
Items == "items"         \* the output key

Elements == UNION {MemberOf(c[2]) : c \in {x \in Collections : x[1] = "list"}}
Indices == UNION {DOMAIN c[2] : c \in {x \in Collections : x[1] = "list"}}
Headers == {Items} \union UNION {{rs[k].as : k \in DOMAIN rs} : rs \in Rollups}

ASSUME ForEachAssumption ==
  /\ MaxCalls \in Nat /\ {Nothing, Error} \cap Values = {} /\ Nothing \notin Rules
  /\ \A c \in Collections : c[1] = "list" => c[2] \in Seq(Elements)
  /\ Rollups \subseteq Seq([agg : {"list", "count", "sum", "min", "max"}, as : Headers])

VARIABLES
  rollups,     \* the stage's roll-ups
  strict,      \* the outer Scope is strict
  provenance,  \* the outer Scope tracks provenance
  wave,        \* the sibling runs in the same level of a concurrent run
  first,       \* the sibling comes first in the run order
  collection,  \* the value at the collection path
  calls,       \* how many calls have begun
  pc,          \* "idle", "loop", "inner", "rollup" or "write"
  list,        \* the list the loop goes over
  i,           \* the element, then the roll-up it is at
  esc,         \* the element's Scope: path -> value
  items,       \* the results so far
  ran,         \* history: what the inner pipeline gave for each element
  sibling,     \* the sibling's output is in the Scope
  header,      \* what the Scope holds under the stage's name
  firing,      \* Scope.firing below the stage's prefixes: element -> rule
  derived,     \* Scope.derivations below them: element -> path -> value
  before,      \* history: outer when the call began
  result       \* "none", "ok", or the cause of the error

config == <<rollups, strict, provenance, wave, first>>
outer == <<header, firing, derived>>
loop == <<list, esc, items, ran>>
vars == <<config, collection, calls, pc, loop, i, sibling, outer, before, result>>

Join(f, g) == [x \in DOMAIN f \union DOMAIN g |-> IF x \in DOMAIN g THEN g[x] ELSE f[x]]
Entry(key, v) == [x \in {key} |-> v]
Empty == <<>>

Init ==
  /\ rollups \in Rollups /\ strict \in BOOLEAN /\ provenance \in BOOLEAN
  /\ wave \in BOOLEAN /\ first \in BOOLEAN
  /\ collection \in Collections
  /\ calls = 0 /\ pc = "idle" /\ i = 1
  /\ list = <<>> /\ esc = Empty /\ items = <<>> /\ ran = <<>>
  /\ sibling = FALSE
  /\ header = [k \in Headers |-> Nothing]
  /\ firing = [k \in Indices |-> Nothing] /\ derived = [k \in Indices |-> Empty]
  /\ before = outer
  /\ result = "none"
--------------------------------------------------------------------------------
Return(r) == pc' = "idle" /\ result' = r

\* The stage ends among its elements.
Abort(cause) == Return(cause) /\ UNCHANGED header

\* The sibling runs once: before the stage or, when that went well, after it; in a
\* wave, at any time of the first run.
Sibling ==
  /\ ~sibling
  /\ \/ wave
     \/ first /\ calls = 0
     \/ ~first /\ result = "ok"
  /\ sibling' = TRUE
  /\ UNCHANGED <<config, collection, calls, pc, loop, i, outer, before, result>>

\* The stage's turn in a run: the sibling has run if it is due, and it fails when
\* it runs again on a strict Scope.
Due ==
  /\ IF wave THEN calls > 0 => sibling ELSE first \/ result = "ok" => sibling
  /\ strict /\ first /\ ~wave => calls = 0

\* The caller writes another value at the collection path between two calls.
Replace ==
  /\ pc = "idle" /\ calls \in 1 .. MaxCalls - 1 /\ ~strict
  /\ collection' \in Collections \ {collection}
  /\ UNCHANGED <<config, calls, pc, loop, i, sibling, outer, before, result>>

\* Execute begins: ctx is done, or the collection is looked up, without a copy.
Call ==
  /\ pc = "idle" /\ calls < MaxCalls /\ Due
  /\ calls' = calls + 1 /\ before' = outer
  /\ i' = 1 /\ items' = <<>> /\ ran' = <<>> /\ esc' = Empty
  /\ \/ Return("ctx") /\ list' = <<>>
     \/ collection = NoCollection /\ Return("NoCollection") /\ list' = <<>>
     \/ /\ collection # NoCollection /\ collection[1] # "list"
        /\ Return("NotList") /\ list' = <<>>
     \/ /\ collection[1] = "list"
        /\ list' = collection[2]
        /\ pc' = "loop" /\ result' = "none"
  /\ UNCHANGED <<config, collection, sibling, outer>>

Snapshot == IF sibling THEN Entry("sibling", "written") ELSE Empty

\* Mutant: the Scope of the element before is seeded with instead.
Seed_Carried(el) == Join(Join(Snapshot, esc), Entry("item", el))
Seed(el) == Join(Snapshot, Entry("item", el))

\* The head of the loop: ctx, the element's Scope, and the end of the elements.
StartElement ==
  /\ pc = "loop"
  /\ \/ /\ i > Len(list)
        /\ pc' = "rollup" /\ i' = 1
        /\ UNCHANGED <<esc, header, result>>
     \/ /\ i <= Len(list)
        /\ Abort("ctx")
        /\ UNCHANGED <<i, esc>>
     \/ /\ i <= Len(list)
        /\ esc' = Seed(list[i])
        /\ pc' = "inner"
        /\ UNCHANGED <<i, header, result>>
  /\ UNCHANGED <<config, collection, calls, list, items, ran, sibling, firing, derived, before>>

\* Mutant: an element that fires nothing clears the record.
MergeFirings_Clearing(rule) == firing' = [firing EXCEPT ![i] = rule]

\* recordElementFirings: what fired is recorded, what did not is left alone.
MergeFirings(rule) == firing' = IF rule = Nothing THEN firing ELSE [firing EXCEPT ![i] = rule]

\* recordElementDerivations.
MergeDerivations(paths) ==
  derived' = IF provenance THEN [derived EXCEPT ![i] = Join(@, paths)] ELSE derived

\* inner.Run comes back: its error ends the stage; otherwise the element's records
\* are merged and its Scope becomes its result.
EndElement ==
  /\ pc = "inner"
  /\ \E out \in Values \union {Nothing}, rule \in Rules \union {Nothing} :
       \/ Abort("inner") /\ UNCHANGED <<i, esc, items, ran, firing, derived>>
       \/ LET end == IF out = Nothing THEN esc ELSE Join(esc, Entry("out", out)) IN
          /\ esc' = end
          /\ MergeFirings(rule) /\ MergeDerivations(end)
          /\ items' = Append(items, end)
          /\ ran' = Append(ran, [out |-> out, rule |-> rule])
          /\ i' = i + 1 /\ pc' = "loop"
          /\ UNCHANGED <<header, result>>
  /\ UNCHANGED <<config, collection, calls, list, sibling, before>>

\* Set below the stage's name.
Taken(key) == strict /\ header[key] # Nothing
Set(key, v) == ~Taken(key) /\ header' = [header EXCEPT ![key] = v]

\* Mutant: an element without the key counts as zero.
Given_Zeroes(its) == [k \in DOMAIN its |-> IF "out" \in DOMAIN its[k] THEN its[k]["out"] ELSE Zero]

\* What a result has under the key of a roll-up.
Lookup(item) == IF "out" \in DOMAIN item THEN item["out"] ELSE Nothing

\* The values of that key in the results, in order, of those that have it.
Given(its) == Kept([k \in DOMAIN its |-> Lookup(its[k])], Values)

\* What a roll-up gives for a list: Nothing when there is nothing to write.
Reduced(agg, vs) ==
  CASE vs # <<>> -> Reduce(agg, vs)
    [] vs = <<>> /\ agg = "count" -> Zero
    [] vs = <<>> /\ agg = "list" -> <<"list", <<>>>>
    [] OTHER -> Nothing

\* applyRollup, for one roll-up.
Rollup ==
  /\ pc = "rollup"
  /\ \/ /\ i > Len(rollups)
        /\ pc' = "write"
        /\ UNCHANGED <<i, header, result>>
     \/ /\ i <= Len(rollups)
        /\ LET r == rollups[i]
               v == Reduced(r.agg, Given(items))
           IN \/ v = Error /\ Return("aggregate") /\ UNCHANGED <<i, header>>
              \/ v = Nothing /\ i' = i + 1 /\ UNCHANGED <<pc, header, result>>
              \/ /\ v \notin {Error, Nothing} /\ Taken(r.as)
                 /\ Return("set") /\ UNCHANGED <<i, header>>
              \/ /\ v \notin {Error, Nothing} /\ Set(r.as, v)
                 /\ i' = i + 1 /\ UNCHANGED <<pc, result>>
  /\ UNCHANGED <<config, collection, calls, loop, sibling, firing, derived, before>>

\* The list of results, last.
WriteItems ==
  /\ pc = "write"
  /\ \/ Taken(Items) /\ Return("set") /\ UNCHANGED header
     \/ Set(Items, <<"items", items>>) /\ Return("ok")
  /\ UNCHANGED <<config, collection, calls, loop, i, sibling, firing, derived, before>>

\* No call comes: the bound is reached, or the run does not get to the stage.
Idle == pc = "idle" /\ (calls = MaxCalls \/ ~Due) /\ UNCHANGED vars

Next ==
  \/ Sibling \/ Replace \/ Call \/ StartElement \/ EndElement \/ Rollup \/ WriteItems \/ Idle

Spec == Init /\ [][Next]_vars
--------------------------------------------------------------------------------
TypeOK ==
  /\ pc \in {"idle", "loop", "inner", "rollup", "write"}
  /\ pc = "idle" <=> calls = 0 \/ result # "none"
  /\ calls \in 0 .. MaxCalls /\ i \in Nat \ {0}
  /\ \A k \in DOMAIN list : list[k] \in Elements
  /\ Len(ran) = Len(items) /\ Len(items) <= Len(list)
  /\ firing \in [Indices -> Rules \union {Nothing}] /\ DOMAIN derived = Indices
  /\ DOMAIN header = Headers

\* When the elements are through there is one result for each, in their order, of
\* its own element and with its own output: nothing of another element's Scope.
ElementsApart ==
  /\ TypeOK
  /\ pc \in {"rollup", "write"} \/ result = "ok" =>
       /\ Len(items) = Len(list)
       /\ \A k \in DOMAIN items :
            /\ items[k]["item"] = list[k]
            /\ IF ran[k].out = Nothing THEN "out" \notin DOMAIN items[k]
               ELSE items[k]["out"] = ran[k].out

\* While the elements run, and when the stage ends among them, the outer data is
\* what it was (Execute's comment, foreach.go:139-140 and 157-158).
HeaderWaits ==
  \/ pc \in {"loop", "inner"}
  \/ pc = "idle" /\ result \in {"ctx", "inner", "NoCollection", "NotList"}
  => header = before[1]

\* The outputs of the elements that gave one, whatever their place.
Outputs == Kept([k \in DOMAIN ran |-> ran[k].out], Values)

\* What the stage's name holds once the first n roll-ups are written.
HeaderAfter(n) ==
  LET upto[k \in 0 .. Len(rollups)] ==
        IF k = 0 THEN before[1]
        ELSE LET v == Reduced(rollups[k].agg, Outputs)
             IN  IF v = Nothing THEN upto[k - 1] ELSE [upto[k - 1] EXCEPT ![rollups[k].as] = v]
  IN  upto[n]

\* A call that succeeds leaves the roll-ups of its own results, and the results;
\* one that fails on a roll-up leaves those before it and the results of the call
\* before.  A sum, minimum or maximum of nothing leaves what was there.
RollupsMatchItems ==
  /\ HeaderWaits
  /\ pc = "idle" /\ result = "ok" =>
       header = [HeaderAfter(Len(rollups)) EXCEPT ![Items] = <<"items", items>>]
  /\ pc = "idle" /\ result \in {"aggregate", "set"} =>
       \E n \in 0 .. Len(rollups) : header = HeaderAfter(n)

\* The records below the stage's prefixes are those of the elements that came to
\* an end in this call, failed or not as a whole, and otherwise of the call before,
\* those of elements the list no longer has included.
RecordsFollowElements ==
  \A k \in Indices :
    /\ firing[k] = IF k \in DOMAIN ran /\ ran[k].rule # Nothing THEN ran[k].rule ELSE before[2][k]
    /\ derived[k] = IF k \in DOMAIN ran /\ provenance THEN Join(before[3][k], items[k])
                    ELSE before[3][k]
================================================================================
