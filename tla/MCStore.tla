------------------------------ MODULE MCStore ------------------------------
(* Store for TLC: constants of the instances the .cfg files choose from.   *)
EXTENDS Store, TLC

\* Interchangeable processes and packages (safety runs only).
Symmetry == Permutations(Proc) \cup Permutations(Pkg)
=============================================================================
