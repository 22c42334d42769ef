----------------------------- MODULE MCDataDir -----------------------------
EXTENDS DataDir

(* Of three sessions of one tick the file without a number sorts last. *)
MCPlace == <<3, 1, 2>>

(* Nothing tells one process from another. *)
Symmetry == Permutations(Procs)
=============================================================================
