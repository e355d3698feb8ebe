# Verification of yspm

yspm is a package manager: it resolves packages from a repository index, stages
them, moves their files under a root, and keeps a package table and a
transaction history in one JSON file that several processes share. This
directory holds TLA+ models of its core, the TLC configurations that check them
on small instances, and TLAPS proofs for every instance of all the safety properties
those runs check. Paths below are relative to the repository (`src/`).

## 1. The system

| Part | Source | State | Operations |
|---|---|---|---|
| Package database | `internal/store` | `database.json`, `database.json.lock` | load, save with merge, add / update / look up a transaction record, save a snapshot record |
| Transaction lock, background jobs | `internal/manager/lock.go`, `manager.go` | `<state>/lock`, records | `withLock`, `RunBackground`, `Worker` |
| Transaction engine | `manager.go`, `local.go`, `removal.go` | files under the root, staging area, rollback list | `runTransaction`, `InstallLocal`, `UpgradeRelease`, `RemoveMany` and what they call |
| Resolver and package table | `manager.go` | requirements met, chosen packages, `Explicit` | `resolve`, `chooseWithConstraints`, `Autoremove` |
| Version order | `version.go` | none | `compareVersion` |
| Index, signature, cache | `internal/repo/repo.go`, `release.go` | `index.json` of the cache directory | `FetchIndexData`, `CacheFetchedIndexFor`, `LoadCachedIndexFor`, `ValidateStableIndex` |
| Releases and ABI | `manager.go`, `local.go`, `internal/config` | release and ABI of the database | `index`, `Update`, `UpgradeRelease`, `Clean` |
| Services, hooks, triggers | `service.go`, `manager.go` | enabled services | `ApplyServices`, `DisableServices`, `ApplyTriggers`, `runScript` |
| Snapshots | `snapshot.go` | btrfs subvolumes, records | `CreateSnapshot`, `RestoreSnapshot` |
| Downloads and staging | `manager.go` (`prepare`), `repo.go` (`Download`) | archive cache, staging directories | four goroutines at a time, `Clean` |
| Package format, extraction | `internal/repo`, `internal/pathutil` | a staging directory | `BuildPackage`, `validateTarArchive`, `extractTar`, `extractZip`, `ExtractPackage`, `FindEntry` |
| Legacy packages | `hardcore.go` (two files) | `/etc/installer`, records of format hardcore | `syncLegacyPackages`, `SyncLegacy`, local installs, `hydrateHardcorePackage` |
| Queries, maintainer tools, CLI | `manager.go`, `cmd/yspm` | none | search ... audit, build, sign |

How they interact. A command is one process. A package transaction takes the
transaction lock, loads the database, resolves a plan against the index, records
itself as running (a read-modify-write under the database lock), prepares,
commits file by file with a rollback list, saves the whole database (merging
history and snapshots with what is on disk), deletes the backups and completes
its record. A background job is a record written by the process that starts the
worker, outside the transaction lock, and completed by the worker afterwards.
`update`, the queries, `autoremove`'s choice of candidates, `clean`, and the two
snapshot commands take no lock at all; nor does the distribution's own package
tool, whose packages every command imports before it does anything else where a
legacy repository is configured.

What is hard here, in the order it was modelled:

1. two locks, stale copies, a merge and a capped history between processes that
   may fail or die at any point;
2. the order of file moves, backups, the database write and rollback, on one
   file system or two, with a crash or an error between any two of them;
3. `autoremove`, which decides without the lock what it does with it;
4. a resolver over cyclic dependencies, and a package table that must stay closed
   under them;
5. an index cache shared by commands with different requirements and replaced
   while transactions use it;
6. a comparison of version strings that everything above sorts by;
7. a restore that renames, clones and deletes root file systems, each of which
   may fail, and a clean-up that does so too;
8. goroutines that share archive files by path with each other, with queries and
   with `clean`;
9. an extraction that must not stop in the middle for a reason validation could
   have found, nor keep itself out by a directory mode it set too early;
10. a database that follows what another tool does to the same files, read in
    several steps while that tool works, where a reading that fails is skipped.

`PROJECT.json` lists each such hazard at its line.

## 2. The modules

| Module | Models | The code it follows |
|---|---|---|
| `AtomicStore` | abstract: what `database.json` promises | |
| `Store` | the locking protocol that keeps it | `store.go`, `lock.go`, `RunBackground`, `Worker` |
| `StoreProofs` | theorems about `Store` | |
| `AtomicFiles` | abstract: a transaction changes files and table together | |
| `Transaction`, `TransactionProofs` | the engine that keeps it | `manager.go` 206-248, 465-553, 640-674, 746-883, `local.go`, `removal.go` |
| `Packages`, `PackagesProofs` | resolver, package table, `autoremove` (the proofs also about `Version`) | `manager.go` 198-304, 640-674, 708-712 |
| `Release`, `ReleaseProofs` | index, signature, cache, release and ABI checks | `repo.go`, `release.go`, `manager.go` 69-110, 206-248, 746-823 |
| `Version` | `compareVersion` | `version.go` |
| `Snapshot`, `SnapshotProofs` | creating and restoring snapshots | `snapshot.go`, `manager.go` 208-246, `store.go` 203-222 |
| `Prepare`, `PrepareProofs` | downloads, verification, staging | `manager.go` 377-463, 988-1014, `repo.go` 349-443, `manager/hardcore.go` 17-49 |
| `Archive`, `ArchiveProofs` | building, validating and extracting archives, the layout of raw ones | `repo.go` 652-1146, `package.go` 150-541, `manager.go` 431-446 |
| `Legacy`, `LegacyProofs` | packages of another tool: import, install, removal | `manager/hardcore.go`, `repo/hardcore.go` 153-284, `local.go`, `manager.go` 640-674 |
| `MCStore`, `MCTransaction`, ... | the instances TLC checks | |

How they fit together. `Store` composes the two locks, the file and the
processes. The others use its result: because one transaction runs at a time
(`TransactionsExclude`) and a save loses nothing (`PackagesKept`), `Transaction` and
`Legacy` are sequential engines and `Packages` reads and changes one package table.
`prepare` is one step of `Transaction`; `Prepare` is the inside of it, and shows
what that step relies on: it ends, leaves nothing behind when it fails, and what
it hands over was verified. `Archive` is the inside of the extraction `Prepare`
counts as one read. `Release`, `Prepare`, `Snapshot` and `Legacy` each keep a part of what
happens outside the transaction lock.

### Store

The state is the database file, the two lock holders and, per process, the call
it makes next (`pc`), the copy it loaded under the transaction lock (`db`), the
copy it loaded under the database lock (`latest`) and its outcome. `OpenDB` and
`CloseDB` are the two halves of every read-modify-write: flock and load; write,
rename and unlock. The `writeDBPath` of `CloseDB` may fail before the rename or, at
the directory sync, after it. `Written` is what each of the eight calls writes.
The history is a function from identifiers to a status and a place in the list,
which is what merging and trimming depend on; the cap of 200 is the constant
`MaxHistory`. A package record is the command that wrote it last, so a lost
update is visible. A crash drops the locks (they are flocks) and the memory.

### Transaction

A file's content is the package and version that shipped it, or `User`, or
`Partial` for a copy cut short. A place is a path under the root, its
`.yspm-dist` or `.yspm-save`, or a path in the staging directory of a package, in
its `.backup`, or in `staging/rollback-remove`. The engine advances one file, hook or
write at a time: `KeepConfig`, `BackUp`, `PlaceFile` and `RefuseUnowned` are the
branches of `commitPackage`, `RemoveFile` is the body of the loop of
`RemovePackageFiles`, `FileError` is an error in either of them with what it
leaves behind (`Leftover`), `Rollback` undoes one entry. `oneDevice` says whether
rename works between the root and the staging area; `BackUp` has no copying
fallback in the code, placing and removing do, and rollback has none.
`Validate` is nondeterministic where the code iterates over a Go map.
Between transactions the administrator edits files. `Saved` names a `.yspm-save` this
transaction has made and still knows how to undo.

### Packages

A requirement has alternatives and a constraint; `seen` is both the `seen` map and the
`constraints` map of `resolve`. `Options` is `chooseWithConstraints` with the
arbitrary choice that an unstable sort leaves between equal versions. One
`Resolve` step is one turn of the loop. `Collect` is the part of `Autoremove`
without the lock, `AutoRemove` the `RemoveMany` it calls; every other command runs
between them. With `--yes` it collects again after a round, without it is done.

### Release

Each process has its own environment, so one may require signatures and the
next not. `Load`, `Fetch`, `FetchSignature` and `Store` are separate steps, and the
repository publishes and signs between them. The cache holds an index and its
signature; it may be deleted at any time.

### Version

Characters are numbers in byte order; letters and digits outside ASCII are left
out. `Scan` is the loop of `tokenizeVersion`: the tokens and the unfinished word after
each character. The module has one state per triple of versions.

### Snapshot

A root file system is a version of its files and, in its database, a version of
the package table and the list of snapshots; a commit changes the one and its
save the other. `target` and `backup` are the subvolumes at `SnapshotRoot()` and at
its `.yspm-before-restore`, `volumes` those of the snapshots. `RestoreSnapshot` refuses
a live root, so restores run in a rescue system (`boot`), and `Reboot` goes to and
fro. `Take`, `Record` and `Discard` are `CreateSnapshot`, for a command of its own
(`BeginCreate`, no lock) and for a transaction (`BeginTransaction`, under the lock and
with its database loaded). `Check`, `Away`, `Clone`, `Drop` and the deferred `Undo` and
`Back` are one external command or rename each; each has a disjunct in which it
fails, with what it may leave (`Partial`). `Crash` is between any two. `Repair` is
what an administrator does with a backup that a dead restore left.

### Prepare

`pc` is where each goroutine of `prepare` and each query (`hydrateHardcorePackage`)
is; `cache` maps an archive's path to a content. The content with the checksum
of package `p` is `p`, so "verified" is an equation and two packages never verify as
each other. An archive is opened again after its check: once for a raw package,
three times for a `.yspkg`, twice for a legacy one (`Opens`), and `got` collects what
was read. `Clean` removes one file of the cache at a time, temporary downloads
(`CleanTemp`) included, between any two steps. `Release` is the deferred removal of the
staging directories: it may fail, which is only logged, and then leaves what it could not
remove (`broken`); `Drop` may fail to remove an archive that does not verify, and a `Crash`
leaves everything (`dead`). `Init` lets the cache hold anything an earlier build or a dead
run may have left. `File` is `packageFilename`, a constant: the code gives some packages
the same name.

### Archive

An archive is a sequence of entries with a cleaned path (a sequence of
components, or `Outside`), a type, a mode and a link target; the staging directory
is a function from paths to nodes. `Valid` is what is checked before anything is
written, in three variants; `MakeDirectory`, `OpenFile`, `CopyFile`, `DeferLink`,
`MakeHardlink`, `MakeSymlink` and `SetMode` are the extraction loops, which the two
tar extractions and the zip one share. An unprivileged process (`--user`) cannot
write below a directory of mode `closed` (`Reachable`). `BuildPackage` is an operator:
the archive of a source tree is one of the archives that are extracted. A mode is `open`,
`closed` or `special`, the last with setuid, setgid or sticky bits, which the builder writes
into the archive and the extraction takes off (`Permissions`). `LayOut`
is what `prepare` does with a raw archive: find the executable (`FindEntry`), move
everything under `/opt`, and link the command. Size limits are left out.

### Legacy

A package has four files, two of them in `/etc/installer`. `disk` holds what is in
each, `db` the records, `work` the copy of the running command. The import
(`syncLegacyPackages`) takes one directory after the other and each in the readings
the code makes: `ReadPkinfo`, the decision to leave a native package alone and
`ReadScript`, `pkinfo` once more (`ReadAgain`), the script once more for the paths it
names (`ReadPaths`), the `Walk` of the directory, a look at each file (`HashFile`), and
the record (`RecordImported`). A file that has gone meanwhile is left out of the record or
ends the reading; an error in any of the readings passes the directory over (`ReadFails`)
and the command goes on. Between any two of these steps the other tool installs or upgrades
a package file by file (`OutsideWrite`), removes it file by file, the directory last
(`OutsideDelete`), or gives up half-way (`OutsideEnd`). `Named` and `Scripted` tell what a
script names plainly, which is what `parseHardcoreUninstallPaths` finds, from what it
removes when it runs.

A dependency (`Deps`) is a set of alternatives, of which an installation asks for one
and a removal protects none unless there is only one (`dependsOn`). Local archives of
the native format go through the resolver (`local.go` 57), so `resolve` may add packages
nobody named to the plan and accept what a native package `Provides`; and a native
package deletes the records of those it `Replaces` (`local.go` 80), whose files stay.
`whole` is history: whether nobody else touched the package while its record was made.

## 3. The runs

`tlc -config X.cfg MCModule.tla` repeats each of them. Those that pass:

| Run | Bounds | What it shows |
|---|---|---|
| `StoreAtomic` | 2 processes, any command, 2 packages, cap 4 (never exceeded), 1 fault; 258,868 states | below the cap the protocol refines `AtomicStore`; every record is completed unless a fault prevents it; every command ends |
| `StoreCap` | 3 processes, 2 packages, cap 2, 1 fault, symmetry; 50,105 states | the history stays within its cap (`TypeOK`); mutual exclusion, no lost package update, a success is on disk, no matter what falls out of the history |
| `TransactionAtomic` | 3 transactions of four kinds, 2 edits, no fault; 56,035 states | whichever hook, check, service or trigger fails, the engine refines `AtomicFiles`: files and table change together or not at all; records are completed |
| `TransactionFaults` | 3 transactions, 1 I/O error, 1 crash, 1 edit, one file system or two; 1.9 million states | a failed install restores the root (one file system, no reported rollback error); the content a path had is on disk until the database write, and so is what the administrator wrote in unowned and configuration files: an install leaves it where it is, a removal has it in `.yspm-save` or puts it back |
| `Packages` | 5 commands, 2 indexes with a cycle, a constraint, a shared library and a conflict; 11,568 states | plans are closed; no installed package misses a dependency; resolver and `autoremove` end |
| `Version` | all triples of 45 strings; 91,125 states | a total preorder; numbers by value |
| `Release` | 2 processes, 3 commands, 2 publications, 3 indexes, 2 URLs, all kinds, symmetry; 1.7 million states | signed indexes only, where required; the release stays pinned but for what local installs take |
| `Snapshot` | 2 processes, 2 snapshots, 8 commands or reboots, 3 failures or deaths, symmetry; 41,272 states | a bootable root at every moment; restores happen whole or not at all; listed snapshots exist and stay listed; a transaction's snapshot is the system before it |
| `Prepare` | a `.yspkg`, a legacy package with a query on it and one without an archive, on 2 slots, 2 runs, 1 failure or death; 265,287 states | only verified content is staged; nothing is left behind that could be removed; `prepare` ends; it fails only if something was refused, a call failed in it or in a query, or `clean` took a file |
| `Archive` | all archives of up to 3 entries over 3 nested paths (2 installed ones in a package), all trees over them, 2 failing calls, privileged or not; 217,534 states | extraction is whole, or refused before it writes; no partial files; a built package installs what it was built from, but for setuid, setgid and sticky bits |
| `Legacy` | 2 packages, 2 commands, 1 action from outside, 1 error or death; 3.9 million states | a sync records what nobody touched and it could read; a removed package does not come back, if its record was made in peace; dependencies without an alternative stay recorded; an import changes no native record |

Why the bounds suffice. `Store`: the interesting interleavings are pairs, a saver
and one process that adds or completes a record meanwhile; with two processes and
two records each, a cap of four is never exceeded and a cap of two always is. A
third process is there for lock hand-over. One fault is enough to fail either
half of a pair. `Transaction`: an install, an upgrade of it (with a file that
moves to the new version, a configuration file, a file another package owns) and
a removal fit into three transactions; two of the tasks have two packages or two
versions, so rollback crosses a package. One error and one crash reach the case
of a crash during a rollback. `Packages`: the six entries contain the cases the
resolver distinguishes. `Release`: a pair of one command that requires signatures
and one that does not, with a change of the repository between any two steps.

`Snapshot`: a snapshot, a reboot, two restores that meet, a reboot and another
snapshot fit into eight commands, and three faults reach a clean-up that fails
twice. `Prepare`: with three packages on two slots somebody waits, and two runs let
the second find what the first left. `Archive`: two nested paths and one beside
them have every relation entries can be in; a third entry makes the order of
parents and links matter. `Legacy`: app depends on lib, and lib on app or on a name
the native app stands for; the native lib replaces app; the script of app hides its
configuration file from the parser. Two commands are one that makes a record or a gap
and one that meets it; an action from outside, which is many steps, may fall between any
two readings.

Symmetry is used in safety runs only (processes and packages are
interchangeable). Deadlock is checked in every run but `Prepare`, `Archive` and `Legacy`,
which stop when their commands are used up or the archive is extracted; in the
others the end of all commands is the step `Quiet`.

**Fairness.** `Store` assumes weak fairness of each process: a started command keeps
making its calls until it returns or dies. The code has no waiting other than
flock, which the kernel grants; every process runs one command, so a lock that
is waited for is finally free for good and weak fairness is enough. `Transaction`
and `Packages` assume that a running command takes its next step. Nobody is
assumed to start a command, and nothing is assumed of faults. `Prepare` assumes that
each goroutine, and the wait for all of them, goes on: the scheduler runs them, and
a download ends because its HTTP client gives up after ten minutes (`repo.go` 368).

Every property of these runs has a mutant in `PROJECT.json`: a definition of the
model changed as a plausible bug would change it, under which the property fails.

### Where the code does otherwise than its documents say

`StoreReverted` is the one listed run that ends in a counterexample, for
`CompletedStaysCompleted`: at the cap, a save brings a completed record back as
running. The finding in `PROJECT.json` quotes the comment that says otherwise.

The modules state further properties that the documents promise, or that one
would expect, and that the code does not have. TLC refutes each of them under
the configuration in the first column. Where it is marked *, it is the
configuration of a run above, with the property in place of its own
`INVARIANT` and `PROPERTY` lines (action properties, written `[][...]_vars`, under
`PROPERTY`).

| Configuration | Property | What happens |
|---|---|---|
| **MCTransaction** | | |
| `RemoveTwoHook` | `FailureRestoresFiles` | the second package's preremove hook fails, the first one's files stay removed (`manager.go` 663); ARCHITECTURE.md 45 says they are restored |
| `ReplacedPackage` | `DatabaseMatchesFiles` | a package replaced through the repository loses its files and keeps its record (`manager.go` 243, unlike `local.go` 80) |
| `RemoveTwoDevices` | `FailureRestoresFiles` | a removal copies across file systems, rollback only renames (`removal.go` 39, `manager.go` 496) |
| `CopyCutShort` | `FailureRestoresFiles` | a copy that fails half way has no rollback entry yet (`manager.go` 543) |
| `SaveError` | `DatabaseMatchesFiles` | an error after the rename of the database rolls the files back (`store.go` 157) |
| `SharedPath` | `DatabaseMatchesFiles` | two packages of one plan ship one path (`manager.go` 468) |
| `TransactionFaults` * | `FailureLeavesNoDist` | a failed upgrade leaves its `.yspm-dist` (`manager.go` 536) |
| `TransactionFaults` * | `FailureKeepsPrevious` | cleanup deletes the backup a rollback could not restore (`manager.go` 999) |
| `TransactionFaults` * | `RemovalSavesConfig` | `finalize` deletes the `.yspm-save` (`manager.go` 504, `removal.go` 32) |
| `TransactionFaults` * | `ServicesInstalled` | rollback leaves a service enabled (`service.go` 45) |
| **MCPackages** | | |
| `Packages` * | `AutoremoveSparesExplicit` | `autoremove` removes what became explicit while it waited for the lock (`manager.go` 709) |
| `Packages` * | `CyclesStop` | cycles are installed; ARCHITECTURE.md 35 says they stop the transaction |
| `Packages` * | `ExplicitStays` | an upgrade makes a package automatic (`manager.go` 614) |
| `TwoEditors` | `EveryConstraint` | a second constraint on a provided name adds a second package beside the first choice, which does not satisfy it (`manager.go` 258) |
| `NewerInstalled` | `RequirementsMet` | an installed version that is too new is left (`manager.go` 268) |
| `AlternativeRemoved` | `AutoremoveSparesNeeded` | `a\|b` protects neither `a` nor `b` (`manager.go` 1015) |
| `OneSidedConflict` | `ConflictFree` | only new packages' conflicts count (`manager.go` 272) |
| **MCRelease** | | |
| `Release` * | `LocalPinned` | a local install takes dependencies from another release (`local.go` 22) |
| `MigrateFallback` | `MigratesAsAsked` | a URL that names no release migrates to whatever it serves (`config.go` 85) |
| `UpgradeOtherRelease` | `UpgradeConsidersCurrent` | after a release upgrade, `update` fetches the old release's index (`manager.go` 797) |
| `AbiRebuilt` | `AbiBoundary` | the database's ABI is never compared with the index's (`manager.go` 212) |
| **MCSnapshot** | | |
| `Snapshot` * | `SnapshotsConsistent` | `snapshot create` takes no lock: its snapshot may lie between a commit and the save (`snapshot.go` 27) |
| `Snapshot` * | `RestoreKeepsList` | a snapshot was taken before it was recorded, so the restored database does not list it, nor any later one (`snapshot.go` 81) |
| `SnapshotLate` | `ListedExist` | an error after the rename of the database deletes a snapshot that is listed (`snapshot.go` 31, `store.go` 157) |
| **MCPrepare** | | |
| `PrepareShared` | `AllVerified` | raw archives of two architectures have one name, and each replaces the other after its check (`manager.go` 996) |
| `PrepareQuery` | `AllVerified` | a query that finds an archive invalid downloads over the one a transaction has verified (`hardcore.go` 27) |
| **MCArchive** | | |
| `Archive` * | `BuiltIsAccepted` | `yspm build` writes absolute links that every extraction refuses (`package.go` 522) |
| `Archive` * | `HardlinksInstall` | `ExtractPackage` handles hard links, `ListPackageFiles`, which runs before, refuses them (`package.go` 420) |
| `Archive` * | `ModesReturn` | the extraction takes off the setuid, setgid and sticky bits that `yspm build` writes (`package.go` 330, 519) |
| `ArchiveRoot` | `CommandAlwaysPlaced` | the files of a raw archive with a directory `root` are not moved, and the command links to nothing (`manager.go` 442) |
| **MCLegacy** | | |
| `Legacy` * | `SyncReports` | a sync succeeds although it could not read or walk a directory, and has no record of the package (`manager/hardcore.go` 69, 77) |
| `Legacy` * | `RecordsOwnPkinfo` | a file that goes while the import reads the directory is left out of the record, even `pkinfo` (`repo/hardcore.go` 227) |
| `Legacy` * | `AlternativesRecorded` | an installation asks for one of `a\|b`, a removal protects neither (`manager/hardcore.go` 190, `manager.go` 1015) |
| `Legacy` * | `ReplacedStaysReplaced` | a native package deletes the record of the one it replaces, whose files stay, and the next command imports it again (`local.go` 80) |
| `Legacy` * | `SyncKnowsFiles` | a package imported while half installed keeps an incomplete list of files (`hardcore.go` 105) |
| `Legacy` * | `SyncForgets` | what the other tool removed keeps its record (`hardcore.go` 64) |
| `Legacy` * | `EditedConfigKept` | the uninstall script deletes an edited configuration file before yspm could keep it (`manager.go` 662) |
| `Legacy` * | `FailureRestores` | what a script removed is not restored, nor, when it fails, what earlier packages lost (`manager.go` 662) |
| `Legacy` * | `NativeRemovedStaysRemoved` | files of a replaced legacy package make it come back when the native one is removed (`hardcore.go` 73) |

`RecordsOwnPkinfo` is why `RemovedStaysRemoved` speaks of packages whose record was made
while nobody touched them (`whole`). Otherwise a longer instance, of one package, three
commands and three actions from outside, refutes it: the import lists a package while the
other tool removes it and installs it again, the record lacks `pkinfo`, `yspm remove` leaves
that file, and the next sync brings the package back.

## 4. The proofs

`tlapm X.tla` checks each of the modules below. Assumed are only the named
assumptions about the constants (`StoreAssumption`, `SnapshotAssumption`, ...): sentinels
that differ from real values, bounds that are natural numbers, and in `Transaction` that
a manifest lists a path once and a plan a package once. TLC evaluates them in the runs
of the module.

**StoreProofs.** The invariant `IInv` consists of
`TypeOK`; that the transaction lock is held by exactly the process between its
load and its unlock (`LockInv`); that a process with a `latest` holds the
database lock, is inside a database call, and has the file in its `latest`
(`LockInv`); that a loaded copy's package table equals the one on disk until the
save, where it differs in the process's own package only (`CopyInv`); and that
the success it is going to record is there (`SuccessIsOnDisk`). The properties alone are
not inductive: "no update is lost" depends on the copy a saver loaded long ago
being up to date in its package table, which depends on both locks.
`NextInv` has one step per action. From it follow

- `TypeCorrect` (`TypeOK`), where the work is in the list arithmetic: `RankBounds`
  and `TrimType` show that ranks count from one and trimming stays within the cap;
- `TransactionsExclude` (`OneTransaction`), `SuccessIsSaved` (`SuccessIsOnDisk`);
- `PackagesKept` (`OnlyOwnPackage`), an action property.

`Refinement`: if there are no more identifiers than the cap
(`BelowCap`), every behaviour of `Store` is one of `AtomicStore`. The second
invariant `HistoryInv` says that records and places go together and that every
copy in memory is an earlier state of the history on disk (`Earlier`), so that a
merge changes no status (`MergedKeeps`); `CloseRefines` maps each of the eight calls,
failed ones included, to a step or a stutter. `BelowCap` cannot be dropped:
`StoreReverted` is the counterexample.

**TransactionProofs.** The properties of the engine are not inductive: what a failure
restores is decided by a list that was filled many steps, and packages, earlier. The
invariant relates the list to the root as it was (`before`). `UndoInv`: the *first*
entry for a file keeps what the file held, later ones need not (two packages of a plan may
ship one path); a file without an entry is as it was, or has been put back.
`ListInv`: no two entries share a backup, because an install backs up only the file it
is at and a plan names a package, and a manifest a path, once, and because a removal
leaves nothing at a path to move twice. `CutShortLeaves` says what a call that stops
half way cannot have touched. `RetainsPrevious` follows for any plan, any number of
errors and crashes, and either placement of the staging area; `RestoresRoot` for
one file system and rollbacks without an error of their own. `KeepsUserContent`, an action
property, needs `UserInv` besides: a file in the list does not hold the
administrator's text before it is put back, so that rollback never deletes any. Its second
half is about the `.yspm-save` that a removal made: no later file, error or rollback of the
transaction destroys it (`SavedStep`), because no two entries share a backup. It ends with the
database write; `finalize` deletes that copy with the other backups (`RemovalSavesConfig`).

Its `Refinement` says that the engine implements `AtomicFiles`: every step maps to a step
of it or a stutter, and the files and the table change in one. That needs a second
invariant, `RInv`, of what the root holds in the middle of a plan: what the packages the
engine is past make of it and, beyond them, what it was (`RootProgress`); that what is
still to be placed is staged (`StageProgress`); and the same of the database in memory
(`MemProgress`). The step that matters is the write of the database, where the root has
all files of the new table and no other. The theorem assumes `Undisturbed`, each part of
which has a counterexample in section 3: no I/O error or crash (`SaveError`), one file
system (`RemoveTwoDevices`, `CopyCutShort`), removals that name one package
(`RemoveTwoHook`), and plans whose packages neither ship the same file (`SharedPath`) nor
replace each other (`ReplacedPackage` is the related fault); that no two packages own one
configuration file says which package a change to it belongs to. Any hook, service,
trigger or validation may fail, any number of transactions run, and plans, manifests and
replacements are otherwise arbitrary. The constants of `TransactionAtomic` satisfy it.

**SnapshotProofs.** That restores exclude each other, although they take no lock,
follows from `rename(2)`, which fails if the backup is there: past `Away` a process
holds the only backup. The invariant says so (`RestoreInv`), says what `target`,
`backup` and `found` are at each call, and that outside of restores a complete root is
at `target` (`PlaceInv`) or, after a death, at `backup`. From it follow
`RootAlwaysSurvives`, `RestoresExclude`, and `RestoreIsAllOrNothing`, whose step from `Drop`
to `Back` needs that nobody else touched the two paths meanwhile. `SnapshotIsBefore`
depends on the transaction lock, `ListGrows` on the list on disk containing the list
of every copy. `ListedSnapshotsExist` follows from `NameInv`: an identifier belongs to one
command, is mentioned in a list only once its subvolume is complete, and is deleted only
by a command whose save failed before the rename. It assumes `~LateErrors`, without which
`SnapshotLate` is the counterexample.

**PrepareProofs.** `WorkInv` relates goroutines, plan and staging directories;
`CacheInv` says that from its check on the archive of a package that nobody else
downloads (`Exclusive`) is that package or, after `clean`, missing, and that what was
read so far is it. `VerifiedBeforeReady` follows for any number of packages, slots
and queries. `Exclusive` cannot be dropped: `PrepareShared` and `PrepareQuery`.
`FailureHasCause` says that neither an old cache nor a query that checks, drops and
downloads the same archive meanwhile makes `prepare` fail: as long as no package is
refused, no call fails in it or in a query, and `clean` takes no file, what was downloaded is
the package and what was verified stays (`CauseInv`). A `clean` in between is a cause, and may
well make it fail. Where two packages share an archive's name the download of the other
one takes it away, hence `OneFileEach`. `NothingLeftOver` says that a `prepare` that
failed or a transaction that ended keeps no staging directory, whichever goroutine failed
first; a directory that could not be removed, and a death, are states of their own.

**ReleaseProofs.** A signature in memory or in the cache is one of the indexes ever
signed, and lock and command go together; `AlwaysAuthentic` then holds for either
way an index comes in. `ReleaseStaysPinned` is an action property: one step per
action, of which only `Apply`, `ApplyLocal` and `ApplyRemove` touch the database.

**PackagesProofs.** `PlansAreClosed` is about a queue: every requirement that was
asked for, or that a chosen package has, is met already or still in the queue
(`Known`), and what was met has a chosen package that satisfies it (`Settled`); when
the queue is empty the plan is closed. `DependenciesStay` adds that the package table is
closed (`DepsInv`): a commit installs what its packages need, a removal is refused
otherwise, and the unlocked choice of `autoremove` does not matter because
`RemoveMany` checks again under the lock. It assumes, in the theorem, that
dependencies name one package each and nothing provides that name; with
alternatives it is false (`AlternativeRemoved`).

The second half of the module is about `Version`, whose assumption, steps and properties are
independent of those of `Packages`.
`VersionsOrdered` says that `compareVersion` is a total preorder on versions of any length,
`NumbersByValue` that strings of digits compare as the numbers they denote. Both are about
loops over data, and no induction rule is to be had from the prover; what takes its
place is `Climb`, induction on a *set* of numbers, which follows from the least element
that every set of numbers has (`Least`). With it the recursive functions of the model are shown
to exist (`ScanTurns`, `ValueDenotes`) and to be what they should (`TokensTyped`,
`NumberIsToken`). The order comes in three layers, each shown to be the same from
either side (`Opposite`) and to carry over (`Chained`): strings, of which the first
difference decides (`BeforeTotal`, `BeforeTransitive`); tokens, where numbers order by
length and then as strings and every word is before every number; and versions, where
the first turn of the loop that finds anything decides (`Judged`). For numbers,
`StaysBehind` says that a prefix that is less stays less whatever digits follow, because
ten times the difference is more than a digit can make up; what `Trim` leaves has a
first digit that is not zero, so a longer number is more (`LongerIsMore`), and among
equally long ones the first digit that differs decides (`BeforeIsLess`).

**LegacyProofs.** An import is many steps, between which the other tool may do anything; what
is certain is only about packages it did not touch since the command began (`quiet`).
`ReadingInv` says for these what the import has in hand: the version it read is the one on
disk, and `pkinfo` is among the files it has still to look at or has already taken down.
`SyncFindsAll` then follows from `Found`: once the directory of a quiet package has been
read, unless a reading failed (`unread`), the record is of what is there. `RemovalIsFinal`
needs `OwnsPkinfo`, that a record made in peace (`whole`) owns `pkinfo`, so that a removal takes
it away, and `GoneInv`, that a package that is gone has nothing an import goes by.
`DependenciesStay` needs the state in the middle of a command (`DepsInv`): during an install
dependencies may lead to packages still to come, during a removal nothing that stays depends on
what goes. It speaks of dependencies with one alternative on names that no native package
replaces or stands for (`Firm`); the others may lose their record (`AlternativesRecorded`,
`ReplacedStaysReplaced`). `NativeIsKept`, an action property, says that the record of a native
package changes only by a command that has it in its plan, or has a native package there that
replaces it: no import does, whatever the directories hold.

**ArchiveProofs.** The invariant says what the tree is in the middle of an extraction
(`TreeInv`): the nodes of the entries made so far, open directories above them, and
nothing else, where links, hard links and modes that were put off are not made yet, or
not as they will be (`NodeNow`). That no step is refused follows from what validation
found: entries have names of their own, nothing is below a file or a link, and a hard link
has a file to lead to; and from the order of the deferred modes, deepest first, which keeps
the way open for a process that is not privileged (`PhaseInv`). `ExtractsWholeOrNothing`,
`LeavesNoPartialFile` and `BuildThenExtract` (a source tree built and extracted is that tree,
but for the mode bits that are masked) are proved for archives of any length, depth and order, any
failing call, and each of the three formats. `ArchiveAssumption` says what paths and entries are, and
that a source is a walk of a tree: parents first, every directory once.

Only model-checked is liveness (`RecordsComplete`, `CommandsEnd`, `ResolveEnds`,
`AutoremoveEnds`, `RecordCompletes`, `PrepareEnds`), which is out of reach of the prover. (The
abstract specifications state no fairness, so the refinements are proved whole.)
Every other property of a passing run is stated by a theorem. The findings of
section 3 are counterexamples and have no proof.

## 5. Not modelled, and why

- Directories in `Transaction`: the engine makes those it needs and never removes
  one, which no property is about.
- Size limits, compression and the number of entries of archives; AppImages and
  desktop files, which `prepare` writes into its own staging directory.
- `pathutil.Within`: the check that a path is below the root is made again by every
  validation `Archive` models, on the same strings.
- The legacy repository index (`FetchHardcoreIndex`) and the inspection of a legacy
  archive: parsing without state. `Owner`, `search`, `list`, `why`, `check`, `audit` and the other
  queries change nothing but the caches that `Release` and `Prepare` model.
- Building repositories, signing and key files: sequential producers of files for
  maintainers; `BuildPackage` is modelled for what its packages become.
- What systemd, OpenRC, runit and initctl do with a service that is enabled.
- Flag parsing, paths, output.
- An empty plan, which local installs and release upgrades run through: it
  changes no file. Several architectures in one index.

## 6. Plan

1. Done: the core (`Store`, `Transaction`, `Packages`, `Release`, `Version`) and, around it,
   `Snapshot`, `Prepare`, `Archive`, `Legacy`; a proof of every safety property the runs check,
   and of both refinements.
2. Open: weaker assumptions for the refinement of `AtomicFiles` (configuration files with
   two owners, removals of several packages whose hooks succeed); a theorem that `resolve`
   cannot run for ever, by a measure that falls (what is in the index and was not seen
   yet) in place of liveness; directories in `Transaction`, for a property about what a
   removal leaves.
