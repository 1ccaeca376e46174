----------------------------- MODULE MCPublisher -----------------------------
(***************************************************************************)
(* Instances of Publisher for TLC.                                         *)
(***************************************************************************)
EXTENDS Publisher, TLC

CONSTANTS cert, key, v1, v2, v3, w1, w2, r1

\* Which version comes first, and which file, makes no difference.
Symmetry == Permutations(Versions) \cup Permutations(Files) \cup Permutations(Workers)
=============================================================================
