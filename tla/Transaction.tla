---------------------------- MODULE Transaction ----------------------------
(***************************************************************************)
(* The package transaction engine of internal/manager: install, upgrade    *)
(* (runTransaction), local install (InstallLocal), release upgrade         *)
(* (UpgradeRelease) and removal (RemoveMany), from the loaded package      *)
(* database to the recorded outcome.  One step is one file of a manifest,  *)
(* one hook or one write, so crashes and errors fall between them.         *)
(*                                                                         *)
(* The transaction lock lets one transaction run at a time (Store,         *)
(* TransactionsExclude), so the engine is sequential here; transactions    *)
(* follow one another, and the administrator edits files between them.     *)
(* Store also says how the database file and the history are written; here *)
(* they are the installed version of each package and one outcome.         *)
(*                                                                         *)
(* A file's content is the package and version that shipped it, or User.   *)
(* Hashes are compared by comparing contents.                              *)
(***************************************************************************)
EXTENDS Naturals, Sequences, SequencesExt

CONSTANTS
    Pkg,            \* package names
    Path,           \* paths of files under the root
    None,           \* the content of a file that does not exist; no backup
    User,           \* the content of a file the administrator wrote
    Partial,        \* the content of a file whose copy was cut short
    Manifest,       \* Manifest[p][v]: the files of version v of p, in order
    Config,         \* Config[p]: the paths p lists in config_files
    Replaces,       \* Replaces[p]: the packages p replaces
    Services,       \* the packages that declare a service
    Tasks,          \* resolved plans: sequences of <<package, version>>
    Removals,       \* package name sequences given to `remove`
    Kinds,          \* the kinds of transaction that run
    Devices,        \* whether the staging area can be on the root's file system
    MaxTransactions, MaxFaults, MaxCrashes, MaxEdits   \* bounds

InstallKinds == {"install", "local", "release"}

\* Deliberately wrong variants of the definitions that follow each of them are
\* named Bug...; no specification uses them.

\* Where a file can be: in the root, beside it, in a package's staging
\* directory, in that directory's .backup, or in staging/rollback-remove.
Root(f) == <<"root", f>>
Dist(f) == <<"dist", f>>
Save(f) == <<"save", f>>
Stage(p, f) == <<"stage", p, f>>
BugBackupNotApart(p, f) == <<"stage", p, f>>
BugBackupOneName(p, f) == <<"backup", p, CHOOSE g \in Path : TRUE>>
Backup(p, f) == <<"backup", p, f>>
Removed(p, f) == <<"removed", p, f>>

RootPlaces == {"root", "dist", "save"} \X Path
StagingPlaces == {"stage", "backup", "removed"} \X Pkg \X Path
Place == RootPlaces \cup StagingPlaces

Shipped == UNION {{<<p, v>> : v \in DOMAIN Manifest[p]} : p \in Pkg}
Content == Shipped \cup {User, Partial, None}

\* A resolved plan names a package once, and a manifest a path once.
ASSUME TransactionAssumption ==
    /\ Manifest \in [Pkg -> Seq(Seq(Path))]
    /\ \A c \in Shipped : IsInjective(Manifest[c[1]][c[2]])
    /\ Config \in [Pkg -> SUBSET Path]
    /\ None \notin Shipped \cup Place
    /\ User \notin Shipped \cup {Partial, None}
    /\ Kinds \subseteq InstallKinds \cup {"remove"}
    /\ Devices \subseteq BOOLEAN
    /\ \A t \in Tasks : /\ t \in Seq(Shipped) /\ t # <<>>
                       /\ IsInjective([k \in DOMAIN t |-> t[k][1]])
    /\ \A r \in Removals : r \in Seq(Pkg) /\ r # <<>>
    /\ {MaxTransactions, MaxFaults, MaxCrashes, MaxEdits} \subseteq Nat

VARIABLES
    \* on disk
    fs,        \* fs[l]: the content of the file at place l
    db,        \* db[p]: the version of p in database.json, 0 if none
    record,    \* the history record of the latest transaction
    enabled,   \* packages whose service is enabled
    oneDevice, \* the staging area is on the root's file system
    \* in the memory of the running transaction
    pc, kind, task,
    at,        \* the package of task it is at
    i,         \* the file of that package's manifest it is at
    mem,       \* its copy of db
    rb,        \* transactionRollback.entries
    outcome,   \* what it will record
    lossy,     \* rollback reported an error
    \* history and bounds
    before,    \* the root when the latest transaction started
    count, faults, crashes, edits

disk == <<fs, db, record, enabled>>
run == <<kind, task>>
bounds == <<count, crashes, edits>>
vars == <<disk, oneDevice, pc, run, at, i, mem, rb, outcome, lossy, before, bounds, faults>>

-----------------------------------------------------------------------------
(* The database copy a transaction works with.                             *)

Files(p, v) == IF v = 0 THEN <<>> ELSE Manifest[p][v]
Owners(d, f) == {p \in Pkg : f \in ToSet(Files(p, d[p]))}

\* findPreviousConfigHash: the hashes recorded for a configuration file.
PreviousHashes(f) == {<<p, mem[p]>> : p \in {q \in Owners(mem, f) : f \in Config[q]}}

Current == task[at][1]
Version == IF kind = "remove" THEN mem[Current] ELSE task[at][2]
AtEnd == i > Len(Files(Current, Version))
File == Files(Current, Version)[i]

-----------------------------------------------------------------------------
(* File system calls.                                                      *)

Exists(l) == fs[l] # None
BugDeleteNothing(d, l) == d
Delete(d, l) == [d EXCEPT ![l] = None]
Move(d, from, to) == [d EXCEPT ![to] = d[from], ![from] = None]

\* os.Rename works within one file system.
CanRename(from, to) == oneDevice \/ (from \in RootPlaces <=> to \in RootPlaces)

\* An I/O call fails.
Fault == faults < MaxFaults /\ faults' = faults + 1

-----------------------------------------------------------------------------
Init ==
    /\ fs = [l \in Place |-> None]
    /\ db = [p \in Pkg |-> 0]
    /\ record = "none"
    /\ enabled = {}
    /\ oneDevice \in Devices
    /\ pc = "idle"
    /\ kind = "install"
    /\ task = <<>>
    /\ at = 1
    /\ i = 1
    /\ mem = db
    /\ rb = <<>>
    /\ outcome = "success"
    /\ lossy = FALSE
    /\ before = [f \in Path |-> None]
    /\ count = 0 /\ faults = 0 /\ crashes = 0 /\ edits = 0

\* Between transactions the administrator writes a file, or deletes one of
\* their own.
Edit(f) ==
    /\ pc = "idle"
    /\ edits < MaxEdits
    /\ edits' = edits + 1
    /\ fs' = [fs EXCEPT ![Root(f)] = IF @ = User THEN None ELSE User]
    /\ UNCHANGED <<db, record, enabled, pc, run, at, i, mem, rb, outcome, lossy,
                   oneDevice, before, count, crashes, faults>>

Begin(k, t, next) ==
    /\ pc = "idle"
    /\ count < MaxTransactions
    /\ k \in Kinds
    /\ count' = count + 1
    /\ kind' = k
    /\ task' = t
    /\ at' = 1
    /\ i' = 1
    /\ mem' = db
    /\ rb' = <<>>
    /\ outcome' = "success"
    /\ lossy' = FALSE
    /\ record' = "running"
    /\ before' = [f \in Path |-> fs[Root(f)]]
    /\ pc' = next
    /\ UNCHANGED <<db, enabled, oneDevice, crashes, edits, faults>>

\* The plan is resolved and startTransaction has recorded it.  Staging
\* directories have fresh names: what a crashed run left in its own is never
\* read again.
BeginInstall(k, t) ==
    /\ k \in InstallKinds
    /\ Begin(k, t, "prepare")
    /\ fs' = [l \in Place |-> IF l[1] \in {"stage", "backup"} THEN None ELSE fs[l]]

\* RemoveMany refuses names that are not installed.
BeginRemove(t) ==
    /\ \A k \in DOMAIN t : db[t[k]] > 0
    /\ Begin("remove", [k \in DOMAIN t |-> <<t[k], 0>>], "preremove")
    /\ UNCHANGED fs

-----------------------------------------------------------------------------
(* Control.                                                                *)

\* A handler returned an error: finishFailedWithRollback or finishFailed.
Fail(next) ==
    /\ pc' = next
    /\ outcome' = "failed"
    /\ UNCHANGED <<fs, db, record, enabled, run, at, i, mem, rb, lossy, oneDevice, before, bounds>>

Go(next) ==
    /\ pc' = next
    /\ UNCHANGED <<db, record, run, outcome, lossy, oneDevice, before, bounds, faults>>

\* The next package of the loop, or the save after the last.
NextPackage(first) ==
    /\ at' = at + 1
    /\ i' = 1
    /\ Go(IF at < Len(task) THEN first ELSE "save")

FirstHook == CASE kind = "release" -> "commit"
               [] kind = "remove"  -> "preremove"
               [] OTHER            -> "preinstall"

-----------------------------------------------------------------------------
(* Install, upgrade, local install and release upgrade.                    *)

\* prepare: every package is staged, or none is because one of them could not
\* be downloaded, verified or extracted.
Prepare ==
    /\ pc = "prepare"
    /\ \/ /\ fs' = [l \in Place |->
                      IF \E k \in DOMAIN task, f \in Path :
                            /\ l = Stage(task[k][1], f)
                            /\ f \in ToSet(Files(task[k][1], task[k][2]))
                      THEN CHOOSE c \in ToSet(task) : c[1] = l[2]
                      ELSE fs[l]]
          /\ Go("validate")
          /\ UNCHANGED <<enabled, at, i, mem, rb>>
       \/ Fail("finish") /\ UNCHANGED faults

\* validateConflicts: a file of the plan is owned by another package, as the
\* owners map (one owner per path, in map order) has it.
Conflict(owner) ==
    \E k \in DOMAIN task : \E f \in ToSet(Files(task[k][1], task[k][2])) :
        /\ Owners(mem, f) # {}
        /\ owner[f] # task[k][1]
        /\ owner[f] \notin Replaces[task[k][1]]

Validate ==
    /\ pc = "validate"
    /\ \E owner \in [Path -> Pkg] :
         /\ \A f \in Path : Owners(mem, f) # {} => owner[f] \in Owners(mem, f)
         /\ \/ Conflict(owner) /\ Fail("finish") /\ UNCHANGED faults
            \/ /\ ~Conflict(owner)
               /\ Go(FirstHook)
               /\ UNCHANGED <<fs, enabled, at, i, mem, rb>>

PreInstall ==
    /\ pc = "preinstall"
    /\ \/ Go("commit") /\ UNCHANGED <<fs, enabled, at, i, mem, rb>>
       \/ Fail("rollback") /\ UNCHANGED faults

\* commitPackage meets an existing file nobody owns.
RefuseUnowned ==
    /\ pc = "commit" /\ ~AtEnd
    /\ Exists(Root(File))
    /\ File \notin Config[Current]
    /\ Owners(mem, File) = {}
    /\ Fail("rollback")
    /\ UNCHANGED faults

\* An existing configuration file that differs from the recorded hash stays,
\* and the new one is copied to .yspm-dist.  No rollback entry is made.
KeepsConfig(f) ==
    /\ Exists(Root(f))
    /\ f \in Config[Current]
    /\ \/ PreviousHashes(f) = {}
       \/ \E h \in PreviousHashes(f) : h # fs[Root(f)]
KeepConfig ==
    /\ pc = "commit" /\ ~AtEnd
    /\ KeepsConfig(File)
    /\ fs' = [fs EXCEPT ![Dist(File)] = fs[Stage(Current, File)]]
    /\ i' = i + 1
    /\ Go("commit")
    /\ UNCHANGED <<enabled, at, mem, rb>>

\* Any other existing file moves to the backup area, without a copying
\* fallback.
BugReplaceAlways(f) == TRUE
Replaceable(f) ==
    IF f \in Config[Current] THEN fs[Root(f)] \in PreviousHashes(f)
                             ELSE Owners(mem, f) # {}
BackUp ==
    /\ pc = "commit" /\ ~AtEnd
    /\ Exists(Root(File))
    /\ Replaceable(File)
    /\ LET from == Root(File)
           to   == Backup(Current, File)
       IN  IF CanRename(from, to)
           THEN /\ fs' = Move(fs, from, to)
                /\ rb' = Append(rb, [target |-> from, backup |-> to])
                /\ Go("place")
                /\ UNCHANGED <<enabled, at, i, mem>>
           ELSE Fail("rollback") /\ UNCHANGED faults

\* The staged file is renamed, or copied, into place.
PlaceFile ==
    /\ \/ pc = "place"
       \/ pc = "commit" /\ ~AtEnd /\ ~Exists(Root(File))
    /\ fs' = Move(fs, Stage(Current, File), Root(File))
    /\ rb' = Append(rb, [target |-> Root(File), backup |-> None])
    /\ i' = i + 1
    /\ Go("commit")
    /\ UNCHANGED <<enabled, at, mem>>

\* RemovePackageFiles finds a configuration file that was changed.
Modified(f) == f \in Config[Current] /\ fs[Root(f)] # <<Current, Version>>

\* What a call that stops half way leaves of the current file: a .yspm-dist
\* that was deleted or is incomplete, a .yspm-save that was deleted for the
\* next one or, across devices, a copy that is incomplete, or is complete
\* while the file it was made of is not deleted yet.
Leftover ==
    CASE pc = "commit" /\ KeepsConfig(File) -> {Dist(File)} \X {None, Partial}
      [] pc \in {"commit", "place"} /\ ~oneDevice /\ ~Exists(Root(File)) -> {<<Root(File), Partial>>}
      [] pc = "remove" /\ Exists(Root(File)) /\ Modified(File) -> {<<Save(File), None>>}
      [] pc = "remove" /\ Exists(Root(File)) /\ ~Modified(File) /\ ~oneDevice ->
             {Removed(Current, File)} \X {Partial, fs[Root(File)]}
      [] OTHER -> {}
CutShort ==
    {fs} \cup (IF pc \in {"commit", "place", "remove"} /\ ~AtEnd
               THEN {[fs EXCEPT ![l[1]] = l[2]] : l \in Leftover} ELSE {})

\* An I/O error in commitPackage or RemovePackageFiles.
FileError ==
    /\ pc \in {"commit", "place", "remove"} /\ ~AtEnd
    /\ Fault
    /\ fs' \in CutShort
    /\ pc' = "rollback"
    /\ outcome' = "failed"
    /\ UNCHANGED <<db, record, enabled, run, at, i, mem, rb, lossy, oneDevice, before, bounds>>

\* postinstall, ApplyServices, ApplyTriggers, then the new record in memory.
\* A trigger can fail after the service was enabled.
PostInstall ==
    /\ pc = "commit" /\ AtEnd
    /\ LET service == IF kind = "release" THEN {} ELSE {Current} \cap Services
       IN  \/ /\ enabled' = enabled \cup service
              /\ mem' = [p \in Pkg |->
                            IF p = Current THEN Version
                            ELSE IF kind = "local" /\ p \in Replaces[Current]
                                 THEN 0 ELSE mem[p]]
              /\ NextPackage(FirstHook)
              /\ UNCHANGED <<fs, rb>>
           \/ /\ kind # "release"
              /\ enabled' \in {enabled, enabled \cup service}
              /\ pc' = "rollback"
              /\ outcome' = "failed"
              /\ UNCHANGED <<fs, db, record, run, at, i, mem, rb, lossy, oneDevice, before,
                             bounds, faults>>

-----------------------------------------------------------------------------
(* Removal.                                                                *)

\* The preremove (or uninstall) hook; its failure does not roll back.
PreRemove ==
    /\ pc = "preremove"
    /\ \/ Go("remove") /\ UNCHANGED <<fs, enabled, at, i, mem, rb>>
       \/ Fail("finish") /\ UNCHANGED faults

\* RemovePackageFiles, one file: a missing one is skipped, a modified
\* configuration file becomes .yspm-save, any other moves (or, across
\* devices, is copied) to staging/rollback-remove.
RemoveFile ==
    /\ pc = "remove" /\ ~AtEnd
    /\ LET from == Root(File)
           to == IF Modified(File) THEN Save(File) ELSE Removed(Current, File)
       IN  IF Exists(from)
           THEN /\ fs' = Move(fs, from, to)
                /\ rb' = Append(rb, [target |-> from, backup |-> to])
           ELSE UNCHANGED <<fs, rb>>
    /\ i' = i + 1
    /\ Go("remove")
    /\ UNCHANGED <<enabled, at, mem>>

\* DisableServices (errors ignored), then the postremove hook.
PostRemove ==
    /\ pc = "remove" /\ AtEnd
    /\ enabled' = enabled \ {Current}
    /\ \/ /\ mem' = [mem EXCEPT ![Current] = 0]
          /\ NextPackage(FirstHook)
          /\ UNCHANGED <<fs, rb>>
       \/ /\ pc' = "rollback"
          /\ outcome' = "failed"
          /\ UNCHANGED <<fs, db, record, run, at, i, mem, rb, lossy, oneDevice, before,
                         bounds, faults>>

-----------------------------------------------------------------------------
(* The end of a transaction.                                               *)

\* SaveDBFor.  An error can be reported before or after the rename that puts
\* the new database in place (Store, CloseDB).
SaveDB ==
    /\ pc = "save"
    /\ \/ /\ db' = mem
          /\ pc' = "finalize"
          /\ UNCHANGED <<outcome, faults>>
       \/ /\ Fault
          /\ db' \in {db, mem}
          /\ pc' = "rollback"
          /\ outcome' = "failed"
    /\ UNCHANGED <<fs, record, enabled, run, at, i, mem, rb, lossy, oneDevice, before, bounds>>

\* rollback, one entry from the end: delete the target, rename the backup
\* back.  Errors are collected and the loop goes on; the rename can still
\* replace a target that could not be deleted.
Rollback ==
    /\ pc = "rollback" /\ rb # <<>>
    /\ LET e    == Last(rb)
           bare == Delete(fs, e.target)
       IN  \/ /\ e.backup = None
              /\ fs' = bare
              /\ UNCHANGED <<lossy, faults>>
           \/ /\ e.backup # None
              /\ CanRename(e.backup, e.target)
              /\ fs' = Move(bare, e.backup, e.target)
              /\ UNCHANGED <<lossy, faults>>
           \/ /\ e.backup # None
              /\ ~CanRename(e.backup, e.target)
              /\ fs' = bare
              /\ lossy' = TRUE
              /\ UNCHANGED faults
           \/ /\ Fault
              /\ fs' \in {fs} \cup (IF e.backup = None THEN {} ELSE {bare})
                        \cup (IF e.backup # None /\ CanRename(e.backup, e.target)
                              THEN {Move(fs, e.backup, e.target)} ELSE {})
              /\ lossy' = TRUE
    /\ rb' = Front(rb)
    /\ UNCHANGED <<db, record, enabled, pc, run, at, i, mem, outcome, oneDevice, before, bounds>>

BugRollbackNotRecorded ==
    /\ pc = "rollback" /\ rb = <<>>
    /\ Go("cleanup")
    /\ UNCHANGED <<fs, enabled, at, i, mem, rb>>

\* The list is empty; the failure is recorded next.
RollbackDone ==
    /\ pc = "rollback" /\ rb = <<>>
    /\ Go("finish")
    /\ UNCHANGED <<fs, enabled, at, i, mem, rb>>

\* finalize: every backup of the rollback list is deleted; one that cannot be
\* deleted stays, and the transaction is recorded as successful all the same.
Finalize ==
    /\ pc = "finalize"
    /\ LET backups == {rb[k].backup : k \in DOMAIN rb}
       IN  \/ /\ fs' = [l \in Place |-> IF l \in backups THEN None ELSE fs[l]]
              /\ UNCHANGED faults
           \/ /\ Fault
              /\ \E b \in backups :
                   fs' = [l \in Place |-> IF l \in backups \ {b} THEN None ELSE fs[l]]
    /\ pc' = "finish"
    /\ UNCHANGED <<db, record, enabled, run, at, i, mem, rb, outcome, lossy, oneDevice, before, bounds>>

\* finishSuccess or finishFailed, then the deferred cleanupStaged.
Finish ==
    /\ pc = "finish"
    /\ \/ record' = outcome /\ UNCHANGED faults
       \/ Fault /\ UNCHANGED record
    /\ pc' = "cleanup"
    /\ UNCHANGED <<fs, db, enabled, run, at, i, mem, rb, outcome, lossy, oneDevice, before, bounds>>

Cleanup ==
    /\ pc = "cleanup"
    /\ fs' = [l \in Place |-> IF l[1] \in {"stage", "backup"} THEN None ELSE fs[l]]
    /\ Go("idle")
    /\ UNCHANGED <<enabled, at, i, mem, rb>>

\* The process dies; only the disk survives, and the lock is free again.
Crash ==
    /\ pc # "idle"
    /\ crashes < MaxCrashes
    /\ crashes' = crashes + 1
    /\ pc' = "idle"
    /\ fs' \in CutShort
    /\ UNCHANGED <<db, record, enabled, run, at, i, mem, rb, outcome, lossy, oneDevice, before,
                   count, edits, faults>>

-----------------------------------------------------------------------------
Work ==
    \/ Prepare \/ Validate \/ PreInstall \/ RefuseUnowned \/ KeepConfig \/ BackUp
    \/ PlaceFile \/ PostInstall \/ FileError
    \/ PreRemove \/ RemoveFile \/ PostRemove
    \/ SaveDB \/ Rollback \/ RollbackDone \/ Finalize \/ Finish \/ Cleanup

\* Nothing more will be asked of the engine.
Quiet == pc = "idle" /\ count = MaxTransactions /\ UNCHANGED vars

Next ==
    \/ \E k \in InstallKinds, t \in Tasks : BeginInstall(k, t)
    \/ \E t \in Removals : BeginRemove(t)
    \/ \E f \in Path : Edit(f)
    \/ Work
    \/ Crash
    \/ Quiet

\* A running transaction takes its next step: hooks, downloads and I/O calls
\* return.
Spec == Init /\ [][Next]_vars /\ WF_vars(Work)

-----------------------------------------------------------------------------
(* Properties.                                                             *)

InPackage == {"preinstall", "commit", "place", "preremove", "remove"}
Outside == {"idle", "prepare", "validate", "save", "rollback", "finalize", "finish",
            "cleanup"}

\* Every variable has its type, and inside the loop over the packages the
\* engine is at one of them and at one of its files or past the last.
TypeOK ==
    /\ fs \in [Place -> Content]
    /\ \A p \in Pkg : {db[p], mem[p]} \subseteq {0} \cup DOMAIN Manifest[p]
    /\ record \in {"none", "running", "success", "failed"}
    /\ outcome \in {"success", "failed"}
    /\ enabled \subseteq Pkg
    /\ oneDevice \in Devices
    /\ kind \in InstallKinds \cup {"remove"}
    /\ task \in Seq(Pkg \X Nat)
    /\ rb \in Seq([target : RootPlaces, backup : Place \cup {None}])
    /\ lossy \in BOOLEAN
    /\ pc \in InPackage \cup Outside
    /\ pc \in InPackage => /\ at \in DOMAIN task
                           /\ i \in 1 .. Len(Files(Current, Version)) + 1
    /\ before \in [Path -> Content]

\* The transaction has failed and is about to return.
Failed == pc = "cleanup" /\ outcome = "failed"

\* A failed install, upgrade or release upgrade whose staging area is on the
\* file system of the root has put every file of the root back, wherever it
\* failed, unless it reported that rollback failed.
InstallRestores ==
    Failed /\ kind \in InstallKinds /\ ~lossy /\ oneDevice =>
        \A f \in Path : fs[Root(f)] = before[f]

\* While the database write has not succeeded, whatever a path held when the
\* transaction started is still on disk, so a crash destroys nothing.
Copies(f) == {Root(f), Save(f)} \cup
             UNION {{Backup(p, f), Removed(p, f)} : p \in Pkg}
Uncommitted == \/ pc \notin {"idle", "finalize", "finish", "cleanup"}
               \/ pc \in {"finish", "cleanup"} /\ outcome = "failed"
PreviousRetained ==
    Uncommitted =>
        \A f \in Path : before[f] # None => \E l \in Copies(f) : fs[l] = before[f]

\* Until the database is written, a transaction destroys nothing of what the
\* administrator wrote in a file no package owns, or in a file that is
\* configuration for every package that ships it.  An install or upgrade
\* leaves it where it is; a removal renames it to .yspm-save, and neither the
\* rest of the removal nor its rollback, failing calls or a crash take that
\* copy away, except by renaming it back.  Then finalize deletes it with the
\* other backups (RemovalSavesConfig).
Protected(f) ==
    \/ Owners(mem, f) = {}
    \/ \A p \in Pkg : (\E v \in DOMAIN Manifest[p] : f \in ToSet(Manifest[p][v]))
                        => f \in Config[p]
Saved(f) == [target |-> Root(f), backup |-> Save(f)] \in ToSet(rb)
UserContentStays ==
    [][pc # "idle" => \A f \in Path : Protected(f) =>
         /\ fs[Root(f)] = User => \/ fs'[Root(f)] = User
                                  \/ kind = "remove" /\ fs'[Save(f)] = User
         /\ Saved(f) /\ fs[Save(f)] = User /\ pc # "finalize" =>
               User \in {fs'[Root(f)], fs'[Save(f)]}]_vars

\* A started transaction is recorded as finished, however it goes, unless an
\* I/O error or a crash prevents it.
RecordCompletes ==
    record = "running" ~> (record # "running" \/ faults + crashes > 0)

\* The engine implements the atomic transaction: the commit point is the
\* database write.
Committing == pc \notin {"idle", "finalize", "finish", "cleanup"}
Atomic == INSTANCE AtomicFiles WITH
            installed <- db,
            files <- IF Committing THEN before ELSE [f \in Path |-> fs[Root(f)]]

ImplementsAtomicFiles == Atomic!Spec

-----------------------------------------------------------------------------
(* What the documents say, where the code does otherwise.                  *)

\* "If a commit or database write fails, filesystem changes are restored":
\* the root is as it was when any failed transaction returns.
FailureRestoresFiles ==
    Failed => \A f \in Path : fs[Root(f)] = before[f]

\* The same of the .yspm-dist files: a failed upgrade leaves none of a version
\* newer than the one the package table still has.
FailureLeavesNoDist ==
    Failed => \A f \in Path :
        fs[Dist(f)] \notin {None, User, Partial} => fs[Dist(f)][2] <= db[fs[Dist(f)][1]]

\* "previous versions are retained until the database write succeeds": a
\* failed transaction leaves a copy of everything it found, when it returns.
FailureKeepsPrevious ==
    [][Failed /\ pc' = "idle" =>
         \A f \in Path : before[f] # None => \E l \in Copies(f) : fs'[l] = before[f]]_vars

\* "During removal, modified configuration is preserved as *.yspm-save".
RemovalSavesConfig ==
    [][\A f \in Path : fs[Save(f)] # None /\ pc # "rollback" => fs'[Save(f)] # None]_vars

\* The package table describes the root between transactions that did not
\* crash: a file of an installed package is as shipped or as the
\* administrator left it.
DatabaseMatchesFiles ==
    pc = "idle" /\ crashes = 0 =>
        \A p \in Pkg : \A f \in ToSet(Files(p, db[p])) \ Config[p] :
            fs[Root(f)] = <<p, db[p]>> \/ edits > 0

\* A service is enabled only for an installed package.
ServicesInstalled ==
    pc = "idle" /\ crashes = 0 => \A p \in enabled : db[p] > 0
=============================================================================
