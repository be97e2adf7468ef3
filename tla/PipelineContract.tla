--------------------------- MODULE PipelineContract ---------------------------
(***************************************************************************)
(* What Pipeline.Run promises its caller, whatever the execution strategy: *)
(* a stage ends only after all its dependencies succeeded, the run returns *)
(* nil only when every stage succeeded, and otherwise the failure of the   *)
(* first stage, in run order, among those that failed.  A context error is *)
(* returned bare only when no stage failed.                                *)
(***************************************************************************)
EXTENDS StageGraph

CONSTANT Stage

VARIABLES
  p,       \* the pipeline that runs, never changed
  done,    \* stages whose Execute succeeded
  failed,  \* stages whose Execute returned an error or panicked
  result   \* what Run returned

vars == <<p, done, failed, result>>

Pending == result.kind = "none"

Init ==
  /\ done = {} /\ failed = {}
  /\ result = [kind |-> "none"]

CanEnd(s) ==
  /\ Pending
  /\ s \in MemberOf(p.ordered) \ (done \union failed)
  /\ p.deps[s] \subseteq done
  /\ p.maxParallel = 0 => failed = {}     \* sequential runs stop at a failure

Succeed(s) == CanEnd(s) /\ done' = done \union {s} /\ UNCHANGED <<p, failed, result>>

Fail(s) == CanEnd(s) /\ failed' = failed \union {s} /\ UNCHANGED <<p, done, result>>

ReturnNil ==
  /\ Pending /\ done = MemberOf(p.ordered)
  /\ result' = [kind |-> "nil"]
  /\ UNCHANGED <<p, done, failed>>

ReturnCtx ==
  /\ Pending /\ failed = {} /\ done # MemberOf(p.ordered)
  /\ result' = [kind |-> "ctx"]
  /\ UNCHANGED <<p, done, failed>>

ReturnFailure ==
  /\ Pending /\ failed # {}
  /\ \E kind \in {"err", "ctx", "panic"} :
       result' = [kind |-> kind, stage |-> p.ordered[FirstIndex(p.ordered, failed)]]
  /\ UNCHANGED <<p, done, failed>>

Next == (\E s \in Stage : Succeed(s) \/ Fail(s)) \/ ReturnNil \/ ReturnCtx \/ ReturnFailure

Spec == Init /\ [][Next]_vars
=============================================================================
