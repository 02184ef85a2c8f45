---------------------------- MODULE MCThreadPool ----------------------------
(* Small instances of ThreadPool for TLC. *)
EXTENDS ThreadPool, TLC

Symmetry == Permutations(Workers) \cup Permutations(Tasks)
=============================================================================
