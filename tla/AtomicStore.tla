---------------------------- MODULE AtomicStore ----------------------------
(***************************************************************************)
(* What database.json promises the rest of yspm: a package table, a        *)
(* transaction history and a snapshot list on which every operation of     *)
(* internal/store takes effect in one indivisible step, whatever the       *)
(* processes that share the file do.  Store is the detailed protocol (two  *)
(* file locks, copies in memory, merge on save) that has to keep it.       *)
(***************************************************************************)
CONSTANTS
    Pkg,      \* package names
    Writer,   \* commands that may write a package record
    Nobody,   \* the "writer" of a package no command has written yet
    Id        \* transaction identifiers

VARIABLES
    packages,   \* packages[k]: the command that wrote the record of k last
    status,     \* status[i]: state of transaction i, "absent" before it starts
    snapshots   \* snapshots recorded so far

vars == <<packages, status, snapshots>>

Init ==
    /\ packages = [k \in Pkg |-> Nobody]
    /\ status = [i \in Id |-> "absent"]
    /\ snapshots = {}

\* startTransaction: the record appears, once, as running.
Start(i) ==
    /\ status[i] = "absent"
    /\ status' = [status EXCEPT ![i] = "running"]
    /\ UNCHANGED <<packages, snapshots>>

\* finishSuccess and finishFailed: a running record is completed, once.
Finish(i, s) ==
    /\ status[i] = "running"
    /\ status' = [status EXCEPT ![i] = s]
    /\ UNCHANGED <<packages, snapshots>>

\* SaveDBFor: the record of the command's own package is replaced, and
\* nothing else changes.
WritePackage(k, w) ==
    /\ packages' = [packages EXCEPT ![k] = w]
    /\ UNCHANGED <<status, snapshots>>

\* SaveSnapshotFor: snapshots are only ever added.
AddSnapshot(w) ==
    /\ snapshots' = snapshots \cup {w}
    /\ UNCHANGED <<packages, status>>

Next ==
    \/ \E i \in Id : Start(i) \/ \E s \in {"success", "failed"} : Finish(i, s)
    \/ \E w \in Writer : AddSnapshot(w) \/ \E k \in Pkg : WritePackage(k, w)

Spec == Init /\ [][Next]_vars
=============================================================================
