----------------------------- MODULE MCPrepare -----------------------------
(***************************************************************************)
(* Instances of Prepare for TLC.                                           *)
(***************************************************************************)
EXTENDS Prepare

CONSTANTS raw, pack, legacy, meta, ask, other

\* A raw archive is opened once, a .yspkg three times, a legacy archive twice.
MixedOpens == [p \in Package |->
    IF p = pack THEN 3 ELSE IF p = legacy THEN 2 ELSE 1]

OwnFile == [p \in Package \ Meta |-> p]
AskTarget == [q \in Query |-> legacy]

\* The raw archives of two architectures of one version have one file name.
SharedFile == [p \in Package \ Meta |-> IF p = other THEN raw ELSE p]
NoTarget == [q \in Query |-> raw]
=============================================================================
