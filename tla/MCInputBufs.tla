------------------------------ MODULE MCInputBufs ------------------------------
(* InputBufs on an instance small enough to check. *)
EXTENDS InputBufs, TLC

Symmetry == Permutations(Requests)
=============================================================================
