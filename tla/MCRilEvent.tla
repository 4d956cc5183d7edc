----------------------------- MODULE MCRilEvent -----------------------------
(* Instances of RilEvent for TLC. *)
EXTENDS RilEvent, TLC

Symmetry == Permutations(Timers) \cup Permutations(Threads)
=============================================================================
