-------------------------------- MODULE Listing --------------------------------
(***************************************************************************)
(* Operators on lists that several components share: members, places and   *)
(* the loop that keeps the elements in a set.                              *)
(***************************************************************************)
EXTENDS Integers, Sequences

MemberOf(s) == {s[k] : k \in DOMAIN s}

NoRepeats(s) == \A j, k \in DOMAIN s : s[j] = s[k] => j = k

\* The first index of s that holds an element of P.
FirstIndex(s, P) == CHOOSE k \in DOMAIN s : s[k] \in P /\ \A j \in 1 .. k - 1 : s[j] \notin P

\* The elements of list that are in S, as they are listed (reorderStages' loop).
Kept(list, S) ==
  LET upto[k \in 0 .. Len(list)] ==
        IF k = 0 THEN <<>>
        ELSE IF list[k] \in S THEN Append(upto[k - 1], list[k]) ELSE upto[k - 1]
  IN  upto[Len(list)]
================================================================================
