-------------------------------- MODULE DotPath --------------------------------
(***************************************************************************)
(* Paths into a Scope, as sequences of their segments.                     *)
(***************************************************************************)
EXTENDS Integers, Sequences

Prefix(x, y) == Len(x) <= Len(y) /\ x = SubSeq(y, 1, Len(x))
Overlap(x, y) == Prefix(x, y) \/ Prefix(y, x)
================================================================================
