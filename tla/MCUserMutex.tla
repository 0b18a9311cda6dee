---------------------------- MODULE MCUserMutex ----------------------------
(* Small instances of UserMutex for TLC. *)
EXTENDS UserMutex, TLC

Symmetry == Permutations(Thread)
=============================================================================
