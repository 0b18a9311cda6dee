----------------------------- MODULE MCRegistry -----------------------------
(* Small instances of Registry for TLC. *)
EXTENDS Registry, TLC

CONSTANTS c1, c2, c3, A, B

TwoAndOne == c1 :> A @@ c2 :> A @@ c3 :> B

\* The names can be exchanged, and the threads of a team.
Symmetry == Permutations(Name) \cup Permutations({c1, c2})
=============================================================================
