------------------------------ MODULE MCSessions ------------------------------
(***************************************************************************)
(* Instances of Sessions for TLC.                                          *)
(***************************************************************************)
EXTENDS Sessions, TLC

CONSTANTS k1, k2, a1, a2, r1

\* No property of these runs is a liveness property.
Slots == Permutations({a1, a2})
=============================================================================
