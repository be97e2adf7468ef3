----------------------------- MODULE DecisionTable -----------------------------
(***************************************************************************)
(* DecisionTable.Execute: which rules fire under each hit policy, what is  *)
(* written and what is recorded as having fired, and what is left behind   *)
(* when a condition, a decision, the aggregation or a write fails.         *)
(*                                                                         *)
(* Conditions and decisions are expressions: each evaluation, once per     *)
(* call, yields any outcome.  The Scope is the stage's own part of it: its *)
(* outputs and its firing record, which outlive a call.  Between two calls *)
(* the caller may change what the expressions read.                        *)
(***************************************************************************)
EXTENDS Listing, FiniteSets, SequencesExt

CONSTANTS
  Tables,        \* [policy, agg, rules: Seq(Seq(key)), defaults: Seq(key)]
  Keys,          \* output keys
  Values,        \* what a decision may evaluate to
  Agree(_, _),   \* valuesAgree
  Reduce(_, _),  \* aggregate, for a policy and a list: a value or Error
  MaxCalls       \* bound: how often the pipeline runs against this Scope

Error == <<"error">>
Unset == <<"unset">>
Policies == {"single", "unique", "any", "collect"}

ASSUME TableAssumption ==
  /\ MaxCalls \in Nat /\ Error \notin Values /\ Unset \notin Values
  /\ \A t \in Tables :
       /\ t.policy \in Policies
       /\ t.rules \in Seq(Seq(Keys)) /\ t.rules # <<>> /\ t.defaults \in Seq(Keys)
       /\ \A k \in DOMAIN t.rules : t.rules[k] # <<>> /\ NoRepeats(t.rules[k])
       /\ NoRepeats(t.defaults)

VARIABLES
  tab,        \* the table; decisions are in the order of their keys
  strict,     \* the Scope is strict
  calls,      \* how many calls have begun
  pc,         \* "idle", "test", "apply", "agree", "collect" or "write"
  i,          \* the rule being tested
  tests,      \* history: the conditions' outcomes in this call
  todo,       \* decisions left to evaluate, as <<rule, key>>; rule 0 is the default
  values,     \* history: what each decision evaluated to in this call
  order,      \* keys in the order they were first seen
  collected,  \* the values of each key; agreed is their first
  before,     \* history: the table's part of the Scope when this call began
  data,       \* what the Scope holds under the table's name
  firing,     \* Scope.firing for the table, as the rules' indices
  result      \* "none", "ok", or the cause of the error

lists == <<todo, values, order, collected>>
store == <<data, firing>>
vars == <<tab, strict, calls, pc, i, tests, lists, before, store, result>>

Rule(r) == IF r = 0 THEN tab.defaults ELSE tab.rules[r]

\* The decisions of the rules in rs, in order.
Cells(rs) == FlattenSeq([j \in DOMAIN rs |-> [k \in DOMAIN Rule(rs[j]) |-> <<rs[j], Rule(rs[j])[k]>>]])

\* matches: the rules whose condition held, in rule order.
Yes == {k \in DOMAIN tests : tests[k] = "yes"}
Matched == Kept([k \in DOMAIN tests |-> k], Yes)

Init ==
  /\ tab \in Tables /\ strict \in BOOLEAN
  /\ calls = 0 /\ pc = "idle" /\ i = 1
  /\ tests = <<>> /\ todo = <<>> /\ values = <<>>
  /\ order = <<>> /\ collected = [k \in Keys |-> <<>>]
  /\ data = [k \in Keys |-> Unset] /\ firing = <<>> /\ before = store
  /\ result = "none"
-----------------------------------------------------------------------------
Return(r) == pc' = "idle" /\ result' = r

\* Execute begins: it returns at once when ctx is done.
Call ==
  /\ pc = "idle" /\ calls < MaxCalls
  /\ calls' = calls + 1
  /\ i' = 1 /\ tests' = <<>> /\ todo' = <<>> /\ values' = <<>>
  /\ order' = <<>> /\ collected' = [k \in Keys |-> <<>>]
  /\ before' = store
  /\ \/ Return("ctx")
     \/ pc' = "test" /\ result' = "none"
  /\ UNCHANGED <<tab, strict, store>>

\* An error before anything is recorded.
Refuse(cause) == Return(cause) /\ UNCHANGED firing

\* recordFiring and recordFirings replace the record of an earlier call.
RecordFirings(rs) == firing' = rs

\* Mutant: the rule is recorded once all its decisions are written.
Fire_Late(r) == UNCHANGED firing
Fire(r) == RecordFirings(<<r>>)

\* applyRule and applyDefaults record the rule, then evaluate and write.
StartRule(r) ==
  /\ Fire(r)
  /\ todo' = Cells(<<r>>)
  /\ pc' = "apply"
  /\ UNCHANGED result

\* One condition.  Single stops at the first match, and collect evaluates the
\* decisions of a match before the next condition.
Test ==
  /\ pc = "test" /\ i <= Len(tab.rules)
  /\ i' = i + 1
  /\ \E outcome \in {"yes", "no", "error"} :
       /\ tests' = Append(tests, outcome)
       /\ \/ outcome = "error" /\ Refuse("condition") /\ UNCHANGED todo
          \/ outcome = "yes" /\ tab.policy = "single" /\ StartRule(i)
          \/ /\ outcome = "yes" /\ tab.policy = "collect"
             /\ pc' = "collect" /\ todo' = Cells(<<i>>)
             /\ UNCHANGED <<firing, result>>
          \/ /\ \/ outcome = "no"
                \/ outcome = "yes" /\ tab.policy \in {"unique", "any"}
             /\ UNCHANGED <<pc, todo, firing, result>>
  /\ UNCHANGED <<tab, strict, calls, values, order, collected, before, data>>

\* Mutant: several matches are not an error under unique.
Ambiguous_Never == FALSE
Ambiguous == tab.policy = "unique" /\ Len(Matched) > 1

\* All conditions are known.
Tested ==
  /\ pc = "test" /\ i > Len(tab.rules)
  /\ \/ /\ Matched = <<>> /\ tab.defaults = <<>>
        /\ Return("ok")
        /\ UNCHANGED <<todo, firing>>
     \/ Matched = <<>> /\ tab.defaults # <<>> /\ StartRule(0)
     \/ /\ Matched # <<>> /\ Ambiguous
        /\ Refuse("MultipleMatches")
        /\ UNCHANGED todo
     \/ Matched # <<>> /\ tab.policy = "unique" /\ ~Ambiguous /\ StartRule(Matched[1])
     \/ /\ Matched # <<>> /\ tab.policy = "any"
        /\ pc' = "agree" /\ todo' = Cells(Matched)
        /\ UNCHANGED <<firing, result>>
     \/ /\ Matched # <<>> /\ tab.policy = "collect"
        /\ RecordFirings(Matched)
        /\ pc' = "write"
        /\ UNCHANGED <<todo, result>>
  /\ UNCHANGED <<tab, strict, calls, i, tests, values, order, collected, before, data>>

Taken(key) == strict /\ data[key] # Unset

\* Set: the rest follows only a write that succeeded.
Set(key, v) == ~Taken(key) /\ data' = [data EXCEPT ![key] = v]

Eval(v) == values' = Append(values, [cell |-> Head(todo), v |-> v])

\* One decision of the rule that applies: evaluate, then write.
Apply ==
  /\ pc = "apply"
  /\ IF todo = <<>> THEN Return("ok") /\ UNCHANGED <<todo, values, data>>
     ELSE \E v \in Values \union {Error} :
       LET key == Head(todo)[2] IN
       /\ Eval(v)
       /\ \/ v = Error /\ Return("decision") /\ UNCHANGED <<todo, data>>
          \/ v # Error /\ Taken(key) /\ Return("set") /\ UNCHANGED <<todo, data>>
          \/ v # Error /\ Set(key, v) /\ todo' = Tail(todo) /\ UNCHANGED <<pc, result>>
  /\ UNCHANGED <<tab, strict, calls, i, tests, order, collected, before, firing>>

Collect(key, v) ==
  /\ collected' = [collected EXCEPT ![key] = Append(@, v)]
  /\ order' = IF collected[key] = <<>> THEN Append(order, key) ELSE order

\* Under any, every value of a key must agree with the first.
Disagrees(key, v) == collected[key] # <<>> /\ ~Agree(collected[key][1], v)

\* One decision of the rules that matched under any; then the record of them.
CheckAgreement ==
  /\ pc = "agree"
  /\ IF todo = <<>>
     THEN /\ RecordFirings(Matched)
          /\ pc' = "write"
          /\ UNCHANGED <<lists, result>>
     ELSE \E v \in Values \union {Error} :
       LET key == Head(todo)[2] IN
       /\ Eval(v)
       /\ \/ v = Error /\ Refuse("decision") /\ UNCHANGED <<todo, order, collected>>
          \/ /\ v # Error /\ Disagrees(key, v)
             /\ Refuse("ConflictingMatches") /\ UNCHANGED <<todo, order, collected>>
          \/ /\ v # Error /\ ~Disagrees(key, v)
             /\ Collect(key, v) /\ todo' = Tail(todo) /\ UNCHANGED <<pc, firing, result>>
  /\ UNCHANGED <<tab, strict, calls, i, tests, before, data>>

\* One decision of a rule that matched under collect; then the next condition.
CollectDecision ==
  /\ pc = "collect"
  /\ IF todo = <<>> THEN pc' = "test" /\ UNCHANGED <<lists, firing, result>>
     ELSE \E v \in Values \union {Error} :
       /\ Eval(v)
       /\ IF v = Error
          THEN Refuse("decision") /\ UNCHANGED <<todo, order, collected>>
          ELSE /\ Collect(Head(todo)[2], v) /\ todo' = Tail(todo)
               /\ UNCHANGED <<pc, firing, result>>
  /\ UNCHANGED <<tab, strict, calls, i, tests, before, data>>

\* Mutant: any writes the last of the values.
Reduced_Last(key) ==
  IF tab.policy = "any" THEN Last(collected[key]) ELSE Reduce(tab.agg, collected[key])

\* What any and collect write for a key.
Reduced(key) == IF tab.policy = "any" THEN collected[key][1] ELSE Reduce(tab.agg, collected[key])

\* One key: reduced and written.
WriteKey ==
  /\ pc = "write"
  /\ IF order = <<>> THEN Return("ok") /\ UNCHANGED <<order, data>>
     ELSE LET key == Head(order) IN
       \/ Reduced(key) = Error /\ Return("aggregate") /\ UNCHANGED <<order, data>>
       \/ Reduced(key) # Error /\ Taken(key) /\ Return("set") /\ UNCHANGED <<order, data>>
       \/ /\ Reduced(key) # Error /\ Set(key, Reduced(key))
          /\ order' = Tail(order) /\ UNCHANGED <<pc, result>>
  /\ UNCHANGED <<tab, strict, calls, i, tests, todo, values, collected, before, firing>>

Idle == pc = "idle" /\ calls = MaxCalls /\ UNCHANGED vars

Next ==
  Call \/ Test \/ Tested \/ Apply \/ CheckAgreement \/ CollectDecision \/ WriteKey \/ Idle

Spec == Init /\ [][Next]_vars
-----------------------------------------------------------------------------
TypeOK ==
  /\ pc \in {"idle", "test", "apply", "agree", "collect", "write"}
  /\ calls \in 0 .. MaxCalls /\ i \in 1 .. Len(tab.rules) + 1
  /\ tests \in Seq({"yes", "no", "error"}) /\ Len(tests) = i - 1
  /\ firing \in Seq(0 .. Len(tab.rules))
  /\ \A k \in Keys : collected[k] \in Seq(Values)
  /\ result \in {"none", "ok", "ctx", "condition", "decision", "set", "aggregate",
                 "MultipleMatches", "ConflictingMatches"}

Finished == pc = "idle" /\ result = "ok"
Ascending(s, S) == MemberOf(s) = S /\ \A j, k \in DOMAIN s : j < k => s[j] < s[k]

\* What a call that succeeded leaves recorded is what matched: the first rule
\* that did under single, the only one under unique, all of them, in rule order,
\* under any and collect, and the default when none did (without one, the record
\* is that of the call before).
Recorded ==
  /\ Yes = {} /\ tab.defaults # <<>> => firing = <<0>>
  /\ Yes # {} => Ascending(firing, Yes)
  /\ Yes = {} /\ tab.defaults = <<>> => firing = before[2]
  /\ tab.policy \in {"single", "unique"} => Cardinality(Yes) <= 1
  /\ tab.policy # "single" => Len(tests) = Len(tab.rules)

FiringIsWhatMatched == Finished => Recorded

\* The values of a key in this call, in rule order.
Evaluations(key) == [cell : (0 .. Len(tab.rules)) \X {key}, v : Values]
Given(key) == LET own == Kept(values, Evaluations(key)) IN [j \in DOMAIN own |-> own[j].v]

\* What the rules of this call decide for a key.
Decided(key) ==
  IF tab.policy = "collect" /\ Yes # {} THEN Reduce(tab.agg, Given(key)) ELSE Given(key)[1]

\* What a call that succeeded writes is what the rules that fired decided: under
\* any a value all of them agree on, the first; under collect all the values.
OutputsAreDecided ==
  Finished =>
    \A key \in Keys :
      /\ Given(key) # <<>> => data[key] = Decided(key)
      /\ Given(key) = <<>> => data[key] = before[1][key]
      /\ tab.policy = "any" => \A j \in 2 .. Len(Given(key)) : Agree(Given(key)[1], Given(key)[j])
      /\ \A j \in DOMAIN firing : firing # before[2] /\ key \in MemberOf(Rule(firing[j])) => Given(key) # <<>>

\* A call that is refused leaves the table's part of the Scope as it found it:
\* ctx is done, a condition fails, several rules match under unique, the matches
\* disagree or one of their decisions fails under any and collect.
RefusalsAreClean ==
  pc = "idle" =>
    /\ result \in {"ctx", "condition", "MultipleMatches", "ConflictingMatches"} => store = before
    /\ result = "decision" /\ tab.policy \in {"any", "collect"} /\ Yes # {} => store = before

\* A call that fails half way has written the decisions of the rules on record
\* up to the one that failed, in the order their keys come first, and none of
\* the others: whatever it wrote is explained by the record, and one that was
\* refused wrote nothing.
FailuresLeaveAPrefix ==
  /\ TypeOK /\ RefusalsAreClean
  /\ pc = "idle" /\ result \notin {"none", "ok"} =>
       \E n \in 0 .. Len(Cells(firing)) :
         LET written == {Cells(firing)[j][2] : j \in 1 .. n}
         IN  \A key \in Keys : data[key] = IF key \in written THEN Decided(key) ELSE before[1][key]
=============================================================================
