----------------------------- MODULE MCSnapshot -----------------------------
(***************************************************************************)
(* Instances of Snapshot for TLC.                                          *)
(***************************************************************************)
EXTENDS Snapshot, TLC

\* Processes are interchangeable, and so are identifiers.
Interchangeable == Permutations(Proc) \cup Permutations(Ids)
=============================================================================
