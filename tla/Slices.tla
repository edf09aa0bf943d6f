------------------------------ MODULE Slices ------------------------------
(***************************************************************************)
(* The two things the router and the repeater do to a Go slice they keep   *)
(* in no order: find the first element that matches, and remove an element *)
(* by moving the last one into its place.                                  *)
(***************************************************************************)
EXTENDS Integers, Sequences, FiniteSets

\* s[i] = s[len(s)-1]; s = s[:len(s)-1]
SwapRemove(s, i) ==
  [k \in 1 .. Len(s) - 1 |-> IF k = i THEN s[Len(s)] ELSE s[k]]

Hits(s, x) == {k \in 1 .. Len(s) : s[k] = x}

\* The position at which a left-to-right scan finds x.
FirstHit(s, x) == CHOOSE k \in Hits(s, x) : \A j \in Hits(s, x) : k <= j

\* How many times x occurs in s.
Copies(s, x) == Cardinality(Hits(s, x))
=============================================================================
