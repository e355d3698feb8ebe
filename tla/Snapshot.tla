------------------------------ MODULE Snapshot ------------------------------
(***************************************************************************)
(* Btrfs snapshots: CreateSnapshot, on its own and before a transaction,   *)
(* and RestoreSnapshot, with the failures of every external command and a  *)
(* death of the process between any two of them.                           *)
(*                                                                         *)
(* The live system creates snapshots of itself.  Restoring a live root is  *)
(* refused, so restores run in a rescue system, whose commands are given   *)
(* the unmounted root as YSPM_ROOT and YSPM_SNAPSHOT_ROOT; the storage of  *)
(* the snapshots is outside of it.  Neither command takes the transaction  *)
(* lock.  The package database is a file of the root: a snapshot contains  *)
(* it, and a restore brings an old one back.                               *)
(*                                                                         *)
(* Files and package table are a version each, of which a transaction      *)
(* changes the one and then the other; how is module Transaction.          *)
(***************************************************************************)
EXTENDS Naturals

CONSTANTS
    Proc,        \* yspm processes
    Ids,         \* identifiers of snapshots
    Versions,    \* versions of the installed system
    First,       \* the version in the beginning
    None,        \* no subvolume, no process
    Partial,     \* a subvolume that is not complete
    LateErrors,  \* whether a save may fail after its rename
    MaxCommands, MaxFaults   \* bounds on commands and reboots, on failures and deaths

\* A root file system: its files, and in them the database with the package
\* table and the list of snapshots.
Root == [files : Versions, pkgs : Versions, snaps : SUBSET Ids]
Subvolume == Root \cup {None, Partial}

ASSUME SnapshotAssumption ==
    /\ First \in Versions
    /\ None \notin Root /\ Partial \notin Root /\ None # Partial
    /\ None \notin Proc /\ None \notin Ids
    /\ LateErrors \in BOOLEAN
    /\ {MaxCommands, MaxFaults} \subseteq Nat

VARIABLES
    boot,      \* which system runs, "live" or "rescue"
    target,    \* the subvolume at SnapshotRoot()
    backup,    \* the subvolume at SnapshotRoot() + ".yspm-before-restore"
    volumes,   \* the subvolume at the path of each snapshot
    taken,     \* identifiers handed out; they contain the time
    lock,      \* holder of the transaction lock
    proc,      \* what each process does
    commands, faults

vars == <<boot, target, backup, volumes, taken, lock, proc, commands, faults>>

\* found is the root a command found: the database of it is the copy a
\* transaction saves.  result is what the last command of the process reported.
Calls == {"take", "record", "discard", "commit", "save",
          "check", "away", "clone", "drop", "undo", "back"}
Past == {"clone", "drop", "undo", "back"}
Results == {"none", "ok", "failed", "broken"}
Idle(result) == [pc |-> "idle", id |-> None, inTx |-> FALSE, found |-> None, result |-> result]

-----------------------------------------------------------------------------
Init ==
    /\ boot = "live"
    /\ target = [files |-> First, pkgs |-> First, snaps |-> {}] /\ backup = None
    /\ volumes = [id \in Ids |-> None] /\ taken = {}
    /\ lock = None
    /\ proc = [p \in Proc |-> Idle("none")]
    /\ commands = 0 /\ faults = 0

Command == commands < MaxCommands /\ commands' = commands + 1

\* An external command, a rename or a write fails.
Fault == faults < MaxFaults /\ faults' = faults + 1

Goto(p, pc) == proc' = [proc EXCEPT ![p].pc = pc] /\ UNCHANGED lock

\* The command returns; the kernel drops its lock also when it dies.
End(p, result) ==
    /\ proc' = [proc EXCEPT ![p] = Idle(result)]
    /\ lock' = IF lock = p THEN None ELSE lock

-----------------------------------------------------------------------------
(* The live system.                                                        *)

BeginCreate(p, id) ==
    /\ boot = "live" /\ proc[p].pc = "idle" /\ id \notin taken
    /\ Command
    /\ taken' = taken \cup {id}
    /\ proc' = [proc EXCEPT ![p] = [Idle("none") EXCEPT !.pc = "take", !.id = id]]
    /\ UNCHANGED <<boot, target, backup, volumes, lock, faults>>

BugBeginUnlocked(p, id) ==
    /\ boot = "live" /\ proc[p].pc = "idle" /\ id \notin taken
    /\ Command
    /\ taken' = taken \cup {id}
    /\ lock' = p
    /\ proc' = [proc EXCEPT ![p] = [Idle("none") EXCEPT
                  !.pc = "take", !.id = id, !.inTx = TRUE, !.found = target]]
    /\ UNCHANGED <<boot, target, backup, volumes, faults>>

\* A package transaction that was asked for a snapshot takes it under the
\* lock, with its copy of the database loaded.
BeginTransaction(p, id) ==
    /\ boot = "live" /\ proc[p].pc = "idle" /\ id \notin taken /\ lock = None
    /\ Command
    /\ taken' = taken \cup {id}
    /\ lock' = p
    /\ proc' = [proc EXCEPT ![p] = [Idle("none") EXCEPT
                  !.pc = "take", !.id = id, !.inTx = TRUE, !.found = target]]
    /\ UNCHANGED <<boot, target, backup, volumes, faults>>

BugRecordIgnoresError(p) ==
    /\ proc[p].pc = "take"
    /\ \/ /\ volumes' = [volumes EXCEPT ![proc[p].id] = target]
          /\ UNCHANGED faults
       \/ Fault /\ UNCHANGED volumes
    /\ Goto(p, "record")
    /\ UNCHANGED <<boot, target, backup, taken, commands>>

\* `btrfs subvolume snapshot -r` is atomic; one that fails may leave something.
Take(p) ==
    /\ proc[p].pc = "take"
    /\ \/ /\ volumes' = [volumes EXCEPT ![proc[p].id] = target]
          /\ Goto(p, "record")
          /\ UNCHANGED faults
       \/ /\ Fault
          /\ \E left \in {None, Partial} : volumes' = [volumes EXCEPT ![proc[p].id] = left]
          /\ End(p, "failed")
    /\ UNCHANGED <<boot, target, backup, taken, commands>>

\* SaveSnapshotFor adds to the list under the database lock.
Listed(id) == [target EXCEPT !.snaps = @ \cup {id}]

Record(p) ==
    /\ proc[p].pc = "record"
    /\ \/ /\ target' = Listed(proc[p].id)
          /\ IF proc[p].inTx THEN Goto(p, "commit") ELSE End(p, "ok")
          /\ UNCHANGED faults
       \/ /\ Fault
          /\ target' \in {target} \cup (IF LateErrors THEN {Listed(proc[p].id)} ELSE {})
          /\ Goto(p, "discard")
    /\ UNCHANGED <<boot, backup, volumes, taken, commands>>

\* A snapshot that could not be recorded is deleted.
Discard(p) ==
    /\ proc[p].pc = "discard"
    /\ \/ /\ volumes' = [volumes EXCEPT ![proc[p].id] = None]
          /\ UNCHANGED faults
       \/ Fault /\ UNCHANGED volumes
    /\ End(p, "failed")
    /\ UNCHANGED <<boot, target, backup, taken, commands>>

\* The transaction puts its files in place ...
Commit(p, v) ==
    /\ proc[p].pc = "commit"
    /\ target' = [target EXCEPT !.files = v]
    /\ Goto(p, "save")
    /\ UNCHANGED <<boot, backup, volumes, taken, commands, faults>>

BugSavedAlone(p) ==
    [target EXCEPT !.pkgs = target.files, !.snaps = proc[p].found.snaps]

\* ... and saves its copy of the database, with the snapshots merged
\* (mergeSnapshots), or fails and rolls the files back.
SavedRoot(p) ==
    [target EXCEPT !.pkgs = target.files, !.snaps = @ \cup proc[p].found.snaps]
Save(p) ==
    /\ proc[p].pc = "save"
    /\ \/ /\ target' = SavedRoot(p)
          /\ End(p, "ok")
          /\ UNCHANGED faults
       \/ /\ Fault
          /\ target' = [target EXCEPT !.files = proc[p].found.files]
          /\ End(p, "failed")
    /\ UNCHANGED <<boot, backup, volumes, taken, commands>>

-----------------------------------------------------------------------------
(* RestoreSnapshot, in the rescue system.                                  *)

\* The snapshot is looked up in the database, then at its path.
BeginRestore(p, id) ==
    /\ boot = "rescue" /\ proc[p].pc = "idle"
    /\ Command
    /\ target \in Root /\ id \in target.snaps
    /\ volumes[id] # None
    /\ proc' = [proc EXCEPT ![p] = [Idle("none") EXCEPT !.pc = "check", !.id = id]]
    /\ UNCHANGED <<boot, target, backup, volumes, taken, lock, faults>>

\* "restore backup already exists".
Check(p) ==
    /\ proc[p].pc = "check"
    /\ IF backup = None THEN Goto(p, "away") ELSE End(p, "failed")
    /\ UNCHANGED <<boot, target, backup, volumes, taken, commands, faults>>

BugAwayReplaces(p) ==
    /\ proc[p].pc = "away"
    /\ \/ /\ target # None
          /\ backup' = target /\ target' = None
          /\ proc' = [proc EXCEPT ![p].pc = "clone", ![p].found = target]
          /\ UNCHANGED <<lock, faults>>
       \/ /\ target = None
          /\ End(p, "failed") /\ UNCHANGED <<target, backup, faults>>
    /\ UNCHANGED <<boot, volumes, taken, commands>>

\* The root is renamed.  rename(2) replaces no directory that has content, so
\* a second restore that passed the same check fails here.
Away(p) ==
    /\ proc[p].pc = "away"
    /\ \/ /\ target # None /\ backup = None
          /\ backup' = target /\ target' = None
          /\ proc' = [proc EXCEPT ![p].pc = "clone", ![p].found = target]
          /\ UNCHANGED <<lock, faults>>
       \/ /\ target = None \/ backup # None
          /\ End(p, "failed") /\ UNCHANGED <<target, backup, faults>>
       \/ Fault /\ End(p, "failed") /\ UNCHANGED <<target, backup>>
    /\ UNCHANGED <<boot, volumes, taken, commands>>

\* A writable snapshot of the snapshot becomes the root; "a failed btrfs
\* snapshot may have left a partial target".
Clone(p) ==
    /\ proc[p].pc = "clone"
    /\ target = None
    /\ \/ /\ target' = volumes[proc[p].id]
          /\ Goto(p, "drop")
          /\ UNCHANGED faults
       \/ /\ Fault
          /\ target' \in {None, Partial}
          /\ Goto(p, "undo")
    /\ UNCHANGED <<boot, backup, volumes, taken, commands>>

BugDropForgets(p) ==
    /\ proc[p].pc = "drop"
    /\ \/ backup' = None /\ UNCHANGED faults
       \/ Fault /\ UNCHANGED backup
    /\ Goto(p, "undo")
    /\ UNCHANGED <<boot, target, volumes, taken, commands>>

\* The old root is deleted: `btrfs subvolume delete` does it or leaves it.
Drop(p) ==
    /\ proc[p].pc = "drop"
    /\ \/ /\ backup' = None
          /\ End(p, "ok")
          /\ UNCHANGED faults
       \/ Fault /\ UNCHANGED backup /\ Goto(p, "undo")
    /\ UNCHANGED <<boot, target, volumes, taken, commands>>

\* The deferred clean-up removes what is at the target, as a subvolume or as
\* a directory; if neither works it gives up and says so.
Undo(p) ==
    /\ proc[p].pc = "undo"
    /\ \/ target' = None /\ Goto(p, "back") /\ UNCHANGED faults
       \/ /\ Fault /\ target # None
          /\ target' \in {target, Partial}
          /\ End(p, "broken")
    /\ UNCHANGED <<boot, backup, volumes, taken, commands>>

\* And brings the old root back.
Back(p) ==
    /\ proc[p].pc = "back"
    /\ \/ /\ target = None /\ backup # None
          /\ target' = backup /\ backup' = None
          /\ End(p, "failed")
          /\ UNCHANGED faults
       \/ /\ target # None \/ backup = None
          /\ End(p, "broken") /\ UNCHANGED <<target, backup, faults>>
       \/ Fault /\ End(p, "broken") /\ UNCHANGED <<target, backup>>
    /\ UNCHANGED <<boot, volumes, taken, commands>>

-----------------------------------------------------------------------------
(* Deaths, reboots, and the administrator.                                 *)

Crash(p) ==
    /\ proc[p].pc # "idle"
    /\ Fault
    /\ End(p, "none")
    /\ UNCHANGED <<boot, target, backup, volumes, taken, commands>>

\* Every process ends.  Only a complete root boots.
Reboot(system) ==
    /\ boot # system
    /\ system = "live" => target \in Root
    /\ Command
    /\ boot' = system
    /\ proc' = [p \in Proc |-> Idle("none")]
    /\ lock' = None
    /\ UNCHANGED <<target, backup, volumes, taken, faults>>

\* With no restore running, the administrator of the rescue system moves a
\* backup back that a dead restore left, or deletes it if it is not needed.
Repair ==
    /\ boot = "rescue" /\ backup # None
    /\ \A p \in Proc : proc[p].pc = "idle"
    /\ Command
    /\ target' = IF target \in Root THEN target ELSE backup
    /\ backup' = None
    /\ UNCHANGED <<boot, volumes, taken, lock, proc, faults>>

Quiet == (\A p \in Proc : proc[p].pc = "idle") /\ UNCHANGED vars

-----------------------------------------------------------------------------
Next ==
    \/ \E p \in Proc :
         \/ \E id \in Ids : BeginCreate(p, id) \/ BeginTransaction(p, id) \/ BeginRestore(p, id)
         \/ Take(p) \/ Record(p) \/ Discard(p)
         \/ (\E v \in Versions : Commit(p, v)) \/ Save(p)
         \/ Check(p) \/ Away(p) \/ Clone(p) \/ Drop(p) \/ Undo(p) \/ Back(p)
         \/ Crash(p)
    \/ \E system \in {"live", "rescue"} : Reboot(system)
    \/ Repair
    \/ Quiet

Spec == Init /\ [][Next]_vars

-----------------------------------------------------------------------------
(* Properties.                                                             *)

\* Every variable has its type; restores run in the rescue system only, and
\* everything else in a live system on a complete root.
TypeOK ==
    /\ boot \in {"live", "rescue"}
    /\ target \in Subvolume /\ backup \in Root \cup {None}
    /\ volumes \in [Ids -> Subvolume] /\ taken \subseteq Ids
    /\ lock \in Proc \cup {None}
    /\ proc \in [Proc -> [pc : Calls \cup {"idle"}, id : Ids \cup {None}, inTx : BOOLEAN,
                          found : Root \cup {None}, result : Results]]
    /\ boot = "live" => target \in Root
    /\ commands \in 0..MaxCommands /\ faults \in 0..MaxFaults

\* A complete root file system is there at every moment, as the root or as
\* its backup, whatever fails and wherever a restore dies.
RootSurvives == target \in Root \/ backup \in Root

\* At most one restore is past the renaming of the root, although restores
\* take no lock: what it cleans up is never the work of another one.
OneRestore ==
    \A p, q \in Proc : proc[p].pc \in Past /\ proc[q].pc \in Past => p = q

\* A restore that reports success leaves the content of the snapshot, one that
\* reports failure and no failed clean-up the old root; neither leaves a backup.
RestoreAllOrNothing ==
    [][\A p \in Proc : proc[p].pc \in Past /\ proc'[p].pc = "idle" =>
         /\ proc'[p].result = "ok" => target' = volumes[proc[p].id] /\ backup' = None
         /\ proc'[p].result = "failed" => target' = proc[p].found /\ backup' = None]_vars

\* A snapshot that is listed exists and is complete, and no transaction that
\* loaded the database before it was listed takes it from the list again.
ListedExist == target \in Root => \A id \in target.snaps : volumes[id] \in Root
StaysListed ==
    [][boot = "live" /\ boot' = "live" => target.snaps \subseteq (target').snaps]_vars

\* The snapshot a transaction took is the system it is about to change, and
\* no other transaction is in the middle of a change.
SameSystem(a, b) == a.files = b.files /\ a.pkgs = b.pkgs
SnapshotBefore ==
    \A p \in Proc : proc[p].inTx /\ proc[p].pc \in {"record", "commit"} =>
      SameSystem(volumes[proc[p].id], target)

-----------------------------------------------------------------------------
(* What does not hold.                                                     *)

\* A snapshot that `snapshot create` takes is of files and a database that
\* agree, if no transaction died: it takes no transaction lock.
SnapshotsConsistent ==
    \A id \in Ids : volumes[id] \in Root => volumes[id].files = volumes[id].pkgs

\* A restore keeps the snapshots listed that the old root listed: the database
\* a snapshot contains is older than its own record.
RestoreKeepsList ==
    [][\A p \in Proc : proc[p].pc = "drop" /\ proc'[p].result = "ok" =>
         proc[p].found.snaps \subseteq (target').snaps]_vars
=============================================================================
