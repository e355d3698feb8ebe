------------------------------- MODULE Legacy -------------------------------
(***************************************************************************)
(* The HardcoreLinux compatibility mode (internal/manager/hardcore.go and  *)
(* internal/repo/hardcore.go, with the commands of manager.go and local.go *)
(* that use them).  Legacy packages are files on the system and a          *)
(* directory /etc/installer/<name> that holds pkinfo and an uninstall      *)
(* script.  The distribution's own tool installs, upgrades and removes     *)
(* them file by file, without the transaction lock of yspm; every command  *)
(* of yspm on a system with a legacy repository imports what it finds      *)
(* there before it does anything else, one directory after the other, and  *)
(* each in several readings.                                               *)
(*                                                                         *)
(* Commands of yspm exclude each other (Store models the lock), so one     *)
(* runs at a time here.  A package has four files; a file is what it holds:*)
(* the content of a version, or Edited.                                    *)
(***************************************************************************)
EXTENDS Integers, FiniteSets, Sequences

CONSTANTS
  Name,          \* package names
  Version,       \* versions
  Archived,      \* the versions there are archives of for yspm to install
  Deps,          \* the dependencies pkinfo states, each a set of alternatives
  Virtual,       \* a name no package has, though one may stand for it
  Replaces,      \* the packages whose records a native package deletes
  Provides,      \* the names a native package stands for besides its own
  Named,         \* files of a package its uninstall script names plainly
  Scripted,      \* files its uninstall script removes when it is run
  None,          \* no record
  Absent,        \* no such file
  Edited,        \* a configuration file the administrator changed
  Removing,      \* what the legacy tool does to a package it removes
  MaxCommands,   \* bound: commands of yspm
  MaxOutside,    \* bound: actions of the legacy tool and the administrator
  MaxFaults      \* bound: errors and deaths of yspm

Formats == {"hardcore", "yspkg"}
Installer == {"pkinfo", "uninstall"}
Pieces == Installer \cup {"program", "config"}
Content == Version \cup {Absent, Edited}

\* The record of an installed package: the files it owns, whether it has the checksum
\* of an archive and an uninstall script, and (history) whether nobody touched the
\* package since the command that made the record began.
Package == [format : Formats, version : Content, owns : SUBSET Pieces,
            checksum : BOOLEAN, hook : BOOLEAN, whole : BOOLEAN]

ASSUME LegacyAssumption ==
  /\ Archived \subseteq Version
  /\ Deps \in [Name -> SUBSET (SUBSET (Name \cup {Virtual}))]
  /\ Replaces \in [Name -> SUBSET Name]
  /\ Provides \in [Name -> SUBSET (Name \cup {Virtual})]
  /\ Scripted \in [Name -> SUBSET {"program", "config"}]
  /\ Named \in [Name -> SUBSET {"program", "config"}]
  /\ \A n \in Name : Named[n] \subseteq Scripted[n]
  /\ None \notin Name \cup Package /\ Virtual \notin Name
  /\ Absent \notin Version \cup {Edited} /\ Removing \notin Version \cup {Absent}

\* What an archive of a format holds.
Shipped(format) == IF format = "hardcore" THEN Pieces ELSE {"program"}

VARIABLES
  disk,       \* the files of each package
  db,         \* the package database on disk
  outside,    \* what the legacy tool does: installs a version, removes, or Absent
  pc,         \* where the running command is
  command,    \* the running command: kind, names, format, version
  plan,       \* the packages it is going to do
  native,     \* those of them that are .yspkg archives
  work,       \* its copy of the database
  scan,       \* directories of /etc/installer it has still to read
  todo,       \* packages it has still to do
  current,    \* the package it is reading or doing
  draft,      \* the record it is making of the package it reads
  files,      \* files of that package it has still to do
  backup,     \* rollback entries: what a touched file held
  changed,    \* how many records the import changed
  erased,     \* legacy packages it removed that had a whole record (history)
  last,       \* how the last command ended (history)
  quiet,      \* packages nobody else touched since the last command began (history)
  unread,     \* packages it passed over because a call failed (history)
  gone,       \* legacy packages yspm removed and nobody installed since (history)
  commands, actions, faults

system == << disk, outside >>
chosen == << command, plan, native >>
reading == << scan, current, draft, files >>
local == << chosen, reading, work, todo, backup, changed, erased >>
history == << last, quiet, unread, gone >>
budget == << commands, actions, faults >>
vars == << system, db, pc, local, history, budget >>

NoCommand == [kind |-> "none", names |-> {}, format |-> "hardcore", version |-> Absent]

\* An installed package.  Only an installation by yspm has the checksum of an
\* archive; the uninstall hook is the script the package had.
Record(format, version, owns, checksum, hook, whole) ==
  [format |-> format, version |-> version, owns |-> owns, checksum |-> checksum,
   hook |-> hook, whole |-> whole]

Installed(records) == {n \in Name : records[n] # None}
Native(record) == record # None /\ record.format = "yspkg"

\* A record depends on a name if that is all the dependency says.
dependsOn(records, other, n) == records[other].format = "hardcore" /\ {n} \in Deps[other]

\* Files are handled in the order of their paths, /etc first.
PathOrder == << "config", "pkinfo", "uninstall", "program" >>
IsFirst(f, S) ==
  \E i \in 1 .. Len(PathOrder) :
    /\ PathOrder[i] = f /\ f \in S
    /\ \A j \in 1 .. i - 1 : PathOrder[j] \notin S

-----------------------------------------------------------------------------
(* What the import reads *)

Present(n) == {f \in Pieces : disk[n][f] # Absent}

\* The files the script names, if there is a script.
parseHardcoreUninstallPaths(n) == IF disk[n]["uninstall"] = Absent THEN {} ELSE Named[n]

\* Mutant: the files of /etc/installer/<name> are left out.
BugManifestOfScript(n) == {}

\* The files of /etc/installer/<name>.
Walked(n) == Installer \cap Present(n)

\* Mutant: every record is replaced.
BugImportOverNative(n) == FALSE

\* The record of another format is left alone.
Foreign(n) == Native(work[n])

\* Mutant: a package that has a record is passed over, whatever its version.
BugImportNewOnly(n) == work[n] # None

\* The record is kept if it says the same version.
Known(n) == work[n] # None /\ ~Native(work[n]) /\ work[n].version = draft.version

-----------------------------------------------------------------------------
(* Commands of yspm *)

Init ==
  /\ disk = [n \in Name |-> [f \in Pieces |-> Absent]]
  /\ db = [n \in Name |-> None]
  /\ outside = [n \in Name |-> Absent]
  /\ pc = "idle" /\ command = NoCommand /\ plan = {} /\ native = {} /\ work = db
  /\ scan = {} /\ todo = {} /\ current = None /\ draft = None /\ files = {} /\ backup = {}
  /\ changed = 0 /\ erased = {}
  /\ last = "none" /\ quiet = {} /\ unread = {} /\ gone = {}
  /\ commands = 0 /\ actions = 0 /\ faults = 0

\* Every command loads the database and then lists the directories to import from.
Begin(kind, names, format, version) ==
  /\ pc = "idle" /\ commands < MaxCommands
  /\ commands' = commands + 1
  /\ pc' = "import"
  /\ command' = [kind |-> kind, names |-> names, format |-> format, version |-> version]
  /\ work' = db /\ scan' = {n \in Name : Installer \cap Present(n) # {}}
  /\ last' = "running" /\ quiet' = Name /\ unread' = {}
  /\ UNCHANGED << system, db, plan, native, todo, current, draft, files, backup, changed,
                  erased, gone, actions, faults >>

SyncLegacy == Begin("sync", {}, "hardcore", Absent)

\* Legacy archives go as they are; native ones, and names from the repository, through
\* the resolver.
InstallLocal ==
  \E names \in SUBSET Name \ {{}}, format \in {"hardcore", "yspkg"}, v \in Archived :
    Begin("install", names, format, v)

RemoveMany == \E names \in SUBSET Name \ {{}} : Begin("remove", names, "hardcore", Absent)

-----------------------------------------------------------------------------
(* The import: one directory after the other.  Another tool may be at work *)
(* on it between any two of these steps.                                   *)

PassOver ==
  pc' = "import" /\ current' = None /\ draft' = None /\ files' = {}

ReadPkinfo ==
  /\ pc = "import"
  /\ \E n \in scan :
       /\ scan' = scan \ {n}
       /\ IF disk[n]["pkinfo"] = Absent
          THEN PassOver
          ELSE /\ pc' = "script" /\ current' = n
               /\ draft' = Record("hardcore", disk[n]["pkinfo"], {}, FALSE, FALSE, TRUE)
               /\ UNCHANGED files
  /\ UNCHANGED << system, db, chosen, work, todo, backup, changed, erased, history, budget >>

\* The scripts are read next; a native package of the name is left alone.
ReadScript ==
  /\ pc = "script"
  /\ IF Foreign(current)
     THEN PassOver
     ELSE /\ pc' = "again"
          /\ draft' = [draft EXCEPT !.hook = disk[current]["uninstall"] # Absent]
          /\ UNCHANGED << current, files >>
  /\ UNCHANGED << system, db, chosen, scan, work, todo, backup, changed, erased,
                  history, budget >>

\* The manifest reads pkinfo a second time, only to see that it is there.
ReadAgain ==
  /\ pc = "again"
  /\ IF disk[current]["pkinfo"] = Absent
     THEN PassOver
     ELSE pc' = "paths" /\ UNCHANGED << current, draft, files >>
  /\ UNCHANGED << system, db, chosen, scan, work, todo, backup, changed, erased,
                  history, budget >>

\* It takes the names of files from a second reading of the script.
ReadPaths ==
  /\ pc = "paths"
  /\ files' = parseHardcoreUninstallPaths(current) /\ pc' = "walk"
  /\ UNCHANGED << system, db, chosen, scan, current, draft, work, todo, backup, changed,
                  erased, history, budget >>

\* It adds what a walk of the directory finds; the directory may have gone.
Walk ==
  /\ pc = "walk"
  /\ \/ /\ files' = files \cup Walked(current) /\ pc' = "hash"
        /\ UNCHANGED << current, draft >>
     \/ Installer \cap Present(current) = {} /\ PassOver
  /\ UNCHANGED << system, db, chosen, scan, work, todo, backup, changed, erased,
                  history, budget >>

\* It looks at each of these files, in no order, and leaves out those that are gone.
HashFile ==
  /\ pc = "hash"
  /\ \E f \in files :
       /\ files' = files \ {f}
       /\ draft' = IF f \in Present(current) THEN [draft EXCEPT !.owns = @ \cup {f}] ELSE draft
  /\ UNCHANGED << system, db, pc, chosen, scan, current, work, todo, backup, changed, erased,
                  history, budget >>

RecordImported ==
  /\ pc = "hash" /\ files = {}
  /\ IF Known(current)
     THEN UNCHANGED << work, changed >>
     ELSE /\ work' = [work EXCEPT ![current] = [draft EXCEPT !.whole = current \in quiet]]
          /\ changed' = changed + 1
  /\ PassOver
  /\ UNCHANGED << system, db, chosen, scan, todo, backup, erased, history, budget >>

Reading == pc \in {"script", "again", "paths", "walk", "hash"}

\* A call fails, if only because the file has gone since it was listed: the directory
\* is passed over, and the command goes on.
ReadFails ==
  /\ faults < MaxFaults /\ faults' = faults + 1
  /\ \/ /\ pc = "import"
        /\ \E n \in scan : scan' = scan \ {n} /\ unread' = unread \cup {n}
     \/ Reading /\ unread' = unread \cup {current} /\ UNCHANGED scan
  /\ PassOver
  /\ UNCHANGED << system, db, chosen, work, todo, backup, changed, erased,
                  last, quiet, gone, commands, actions >>

-----------------------------------------------------------------------------
(* The decision *)

EndWith(outcome) ==
  /\ pc' = "idle" /\ last' = outcome /\ command' = NoCommand /\ plan' = {} /\ native' = {}
  /\ work' = [n \in Name |-> None]
  /\ scan' = {} /\ todo' = {} /\ current' = None /\ draft' = None /\ files' = {}
  /\ backup' = {} /\ changed' = 0 /\ erased' = {}

\* Mutant: only dependencies on packages of the transaction itself are looked at.
BugDependenciesOfPlan ==
  \A n \in command.names : \A d \in Deps[n] :
    d \cap command.names # {} => \E x \in d : x \in command.names

\* Of every dependency one alternative has a record or is in the transaction.
legacyDependenciesSatisfied ==
  \A n \in command.names : \A d \in Deps[n] :
    \E x \in d : x \in Installed(work) \cup command.names

\* The resolver adds packages of the legacy repository for dependencies, which it also
\* takes for satisfied by a native package that stands for the name, and leaves out
\* packages that are installed.
resolve(packages, archives) ==
  /\ command.names \ packages \subseteq Installed(work)
  /\ archives \subseteq command.names \cap packages
  /\ \A n \in packages \ archives : \A d \in Deps[n] :
       \E x \in d, m \in Installed(work) \cup packages : m = x \/ (m \notin packages \ archives /\ x \in Provides[m])

\* Nothing is removed that a package which stays depends on.
RemovalAllowed ==
  /\ command.names \subseteq Installed(work)
  /\ \A other \in Installed(work) \ command.names, n \in command.names :
       ~dependsOn(work, other, n)

Accept(packages, archives) ==
  /\ pc' = "act" /\ plan' = packages /\ native' = archives /\ todo' = packages
  /\ gone' = IF command.kind = "install" THEN gone \ packages ELSE gone
  /\ UNCHANGED << command, reading, work, backup, changed, erased, last, quiet, unread >>

\* A sync that changed nothing saves nothing.  The administrator may decline any other
\* command, and other checks may refuse it.
Refuse ==
  /\ command.kind = "sync" => changed = 0
  /\ EndWith(IF command.kind = "sync" THEN "synced" ELSE "refused")
  /\ UNCHANGED << quiet, unread, gone >>

Decide ==
  /\ pc = "import" /\ scan = {}
  /\ \/ command.kind = "sync" /\ changed > 0 /\ Accept({}, {})
     \/ /\ command.kind = "install" /\ command.format = "hardcore"
        /\ legacyDependenciesSatisfied
        /\ Accept(command.names, {})
     \/ /\ command.kind = "install" /\ command.format = "yspkg"
        /\ \E packages, archives \in SUBSET Name :
             resolve(packages, archives) /\ Accept(packages, archives)
     \/ command.kind = "remove" /\ RemovalAllowed /\ Accept(command.names, {})
     \/ Refuse
  /\ UNCHANGED << system, db, budget >>

-----------------------------------------------------------------------------
(* Installation and removal *)

FormatOf(n) == IF n \in native THEN "yspkg" ELSE "hardcore"

\* The next package of an installation.
StartInstall ==
  /\ pc = "act" /\ command.kind = "install"
  /\ \E n \in todo : current' = n /\ todo' = todo \ {n} /\ files' = Shipped(FormatOf(n))
  /\ pc' = "place"
  /\ UNCHANGED << system, db, chosen, work, scan, draft, backup, changed, erased,
                  history, budget >>

Keep(n, f) == backup' = backup \cup {[name |-> n, file |-> f, was |-> disk[n][f]]}

\* A file that is there must belong to a record; it is kept for the rollback.
PlaceFile ==
  /\ pc = "place"
  /\ \E f \in files :
       /\ IsFirst(f, files)
       /\ f \in Present(current) => work[current] # None /\ f \in work[current].owns
       /\ Keep(current, f)
       /\ disk' = [disk EXCEPT ![current][f] = command.version]
       /\ files' = files \ {f}
  /\ UNCHANGED << outside, db, pc, chosen, work, scan, todo, current, draft, changed, erased,
                  history, budget >>

\* A native package deletes the records of those it replaces, and leaves their files.
Replaced == IF current \in native THEN Replaces[current] ELSE {}
RecordInstalled ==
  /\ pc = "place" /\ files = {}
  /\ work' = [n \in Name |->
                IF n \in Replaced THEN None
                ELSE IF n = current
                THEN Record(FormatOf(n), command.version, Shipped(FormatOf(n)), TRUE,
                            FormatOf(n) = "hardcore", TRUE)
                ELSE work[n]]
  /\ pc' = "act" /\ current' = None
  /\ UNCHANGED << system, db, chosen, scan, todo, draft, files, backup, changed, erased,
                  history, budget >>

\* The uninstall script of a legacy package runs before yspm removes its files.
StartRemove ==
  /\ pc = "act" /\ command.kind = "remove"
  /\ \E n \in todo :
       /\ current' = n /\ todo' = todo \ {n}
       /\ disk' = IF work[n].format = "hardcore" /\ work[n].hook
                  THEN [disk EXCEPT ![n] = [f \in Pieces |->
                                              IF f \in Scripted[n] THEN Absent ELSE @[f]]]
                  ELSE disk
       /\ files' = work[n].owns
  /\ pc' = "unlink"
  /\ UNCHANGED << outside, db, chosen, work, scan, draft, backup, changed, erased,
                  history, budget >>

\* RemovePackageFiles: a file that is gone already is passed over, any other is
\* moved away.
UnlinkFile ==
  /\ pc = "unlink"
  /\ \E f \in files :
       /\ IsFirst(f, files)
       /\ files' = files \ {f}
       /\ IF f \in Present(current)
          THEN Keep(current, f) /\ disk' = [disk EXCEPT ![current][f] = Absent]
          ELSE UNCHANGED << backup, disk >>
  /\ UNCHANGED << outside, db, pc, chosen, work, scan, todo, current, draft, changed, erased,
                  history, budget >>

RecordRemoved ==
  /\ pc = "unlink" /\ files = {}
  /\ erased' = IF Native(work[current]) \/ ~work[current].whole
               THEN erased ELSE erased \cup {current}
  /\ work' = [work EXCEPT ![current] = None]
  /\ pc' = "act" /\ current' = None
  /\ UNCHANGED << system, db, chosen, scan, todo, draft, files, backup, changed,
                  history, budget >>

\* The database is saved, and the rollback entries are deleted.
Save ==
  /\ pc = "act" /\ todo = {}
  /\ db' = work
  /\ gone' = gone \cup (erased \cap quiet)
  /\ EndWith(IF command.kind = "sync" THEN "synced" ELSE "done")
  /\ UNCHANGED << system, quiet, unread, budget >>

-----------------------------------------------------------------------------
(* Errors and deaths *)

Restored ==
  [n \in Name |-> [f \in Pieces |->
     IF \E b \in backup : b.name = n /\ b.file = f
     THEN (CHOOSE b \in backup : b.name = n /\ b.file = f).was
     ELSE disk[n][f]]]

Blocked ==
  /\ pc = "place"
  /\ \E f \in files : IsFirst(f, files) /\ f \in Present(current)
                       /\ (work[current] # None => f \notin work[current].owns)

\* A file nobody owns is in the way, or a call fails: what was moved is put back.
\* A save that fails may have replaced the database before.
Fail ==
  /\ \/ Blocked /\ UNCHANGED << db, faults >>
     \/ /\ pc \in {"import", "place", "unlink", "act"} /\ faults < MaxFaults
        /\ faults' = faults + 1
        /\ db' = db \/ (pc = "act" /\ todo = {} /\ db' = work)
  /\ disk' = Restored
  /\ EndWith("failed")
  /\ UNCHANGED << outside, quiet, unread, gone, commands, actions >>

\* The uninstall script fails, having removed some files: nothing is put back,
\* not even what an earlier package of the command lost.
UninstallFails ==
  /\ pc = "act" /\ command.kind = "remove" /\ faults < MaxFaults
  /\ \E n \in todo : \E lost \in SUBSET Scripted[n] :
       /\ work[n].format = "hardcore" /\ work[n].hook
       /\ disk' = [disk EXCEPT ![n] = [f \in Pieces |-> IF f \in lost THEN Absent ELSE @[f]]]
  /\ faults' = faults + 1
  /\ EndWith("failed")
  /\ UNCHANGED << outside, db, quiet, unread, gone, commands, actions >>

\* The process dies: the lock goes with it, the files stay as they are.
Die ==
  /\ pc # "idle" /\ faults < MaxFaults
  /\ faults' = faults + 1
  /\ EndWith("died")
  /\ UNCHANGED << system, db, quiet, unread, gone, commands, actions >>

-----------------------------------------------------------------------------
(* The legacy tool and the administrator, which take no lock *)

Touch(n) ==
  /\ quiet' = quiet \ {n} /\ gone' = gone \ {n}
  /\ UNCHANGED << db, pc, local, last, unread, commands, faults >>

OutsideBegin(n, v) ==
  /\ outside[n] = Absent /\ actions < MaxOutside
  /\ v = Removing => disk[n]["uninstall"] # Absent
  /\ actions' = actions + 1 /\ outside' = [outside EXCEPT ![n] = v]
  /\ UNCHANGED disk
  /\ Touch(n)

\* The archive is unpacked file by file.
OutsideWrite(n, f) ==
  /\ outside[n] \in Version
  /\ IsFirst(f, {g \in Pieces : disk[n][g] # outside[n]})
  /\ disk' = [disk EXCEPT ![n][f] = outside[n]]
  /\ UNCHANGED << outside, actions >>
  /\ Touch(n)

\* The script removes its files one by one, and the directory goes last.
OutsideDelete(n, f) ==
  /\ outside[n] = Removing
  /\ f \in Present(n) /\ f \in Scripted[n] \cup Installer
  /\ f \in Installer => Scripted[n] \cap Present(n) = {}
  /\ disk' = [disk EXCEPT ![n][f] = Absent]
  /\ UNCHANGED << outside, actions >>
  /\ Touch(n)

\* It is complete, or given up half-way.
OutsideEnd(n) ==
  /\ outside[n] # Absent
  /\ outside' = [outside EXCEPT ![n] = Absent]
  /\ UNCHANGED << disk, actions >>
  /\ Touch(n)

Edit(n) ==
  /\ disk[n]["config"] \notin {Absent, Edited} /\ actions < MaxOutside
  /\ actions' = actions + 1
  /\ disk' = [disk EXCEPT ![n]["config"] = Edited]
  /\ UNCHANGED outside
  /\ Touch(n)

Outside(n) ==
  \/ \E v \in Version \cup {Removing} : OutsideBegin(n, v)
  \/ \E f \in Pieces : OutsideWrite(n, f) \/ OutsideDelete(n, f)
  \/ OutsideEnd(n) \/ Edit(n)

Import ==
  ReadPkinfo \/ ReadScript \/ ReadAgain \/ ReadPaths \/ Walk \/ HashFile \/ RecordImported

Next ==
  \/ SyncLegacy \/ InstallLocal \/ RemoveMany
  \/ Import \/ ReadFails \/ Decide
  \/ StartInstall \/ PlaceFile \/ RecordInstalled
  \/ StartRemove \/ UnlinkFile \/ RecordRemoved \/ Save
  \/ Fail \/ UninstallFails \/ Die
  \/ \E n \in Name : Outside(n)

Spec == Init /\ [][Next]_vars

-----------------------------------------------------------------------------
(* Properties *)

\* After a sync that succeeded, every package the legacy tool had installed before
\* it began, and nobody touched since, is in the database: with the version it has
\* on disk, unless a native package holds the name, or a call that failed made the
\* sync pass the package over.
SyncFinds ==
  last = "synced" =>
    \A n \in quiet \ unread : disk[n]["pkinfo"] # Absent =>
      db[n] # None /\ (Native(db[n]) \/ db[n].version = disk[n]["pkinfo"])

\* A legacy package removed by yspm does not come back by an import, as long as
\* nobody installs it again: the removal takes the files the import goes by.  (Nobody
\* else touched the package while it was removed, nor while its record was made.)
RemovedStaysRemoved == \A n \in gone : db[n] = None

\* Names no native package replaces or stands for.
Firm == {x \in Name : \A m \in Name : x \notin Replaces[m] \cup Provides[m]}

\* What a legacy package that yspm installed depends on without an alternative stays in
\* the database, whatever the legacy tool and later commands do, as long as no
\* native package may take the place of it.
DependenciesRecorded ==
  \A n \in Installed(db) : db[n].checksum =>
    \A x \in Firm : dependsOn(db, n, x) => db[x] # None

\* No import ever replaces or drops the record of a native package: it changes only
\* by a command that has the package in its plan, or a native package that replaces it.
NativeKept ==
  [][\A n \in Name : Native(db[n]) /\ db'[n] # db[n] =>
       n \in plan \/ \E m \in native : n \in Replaces[m]]_vars

-----------------------------------------------------------------------------
(* Properties the code does not have *)

\* A sync that succeeded has recorded every package it found.
SyncReports == last = "synced" => quiet \cap unread = {}

\* The record of a legacy package owns its pkinfo, which a removal has to take.
RecordsOwnPkinfo ==
  \A n \in Installed(db) : ~Native(db[n]) => "pkinfo" \in db[n].owns

\* Of every dependency of a legacy package that yspm installed, one alternative stays
\* in the database.
AlternativesRecorded ==
  \A n \in Installed(db) : db[n].checksum /\ ~Native(db[n]) =>
    \A d \in Deps[n] : d \cap Installed(db) # {}

\* A package that a native one replaced does not come back by an import.
ReplacedStaysReplaced ==
  \A m \in Installed(db) : Native(db[m]) =>
    \A n \in Replaces[m] : db[n] # None => Native(db[n]) \/ db[n].checksum

\* A removal that fails leaves the files it found.
FailureRestores ==
  [][last = "running" /\ last' = "failed" =>
       \A b \in backup : disk'[b.name][b.file] = b.was]_vars

\* A removal never just deletes a configuration file the administrator changed: it
\* keeps it aside.
EditedConfigKept ==
  [][\A n \in Name :
       command.kind = "remove" /\ disk[n]["config"] = Edited /\ disk'[n]["config"] = Absent =>
         \E b \in backup' : b.name = n /\ b.file = "config"]_vars

\* After a sync, a package the legacy tool removed has no record.
SyncForgets ==
  last = "synced" =>
    \A n \in quiet : db[n] # None /\ ~Native(db[n]) => disk[n]["pkinfo"] # Absent

\* After a sync, the record of a package whose installation is complete knows all
\* the files its script names.
SyncKnowsFiles ==
  last = "synced" =>
    \A n \in quiet :
      disk[n]["pkinfo"] # Absent /\ outside[n] = Absent /\ db[n] # None /\ ~Native(db[n]) =>
        Named[n] \cap Present(n) \subseteq db[n].owns

\* A native package removed does not leave a legacy package of the same name.
NativeRemovedStaysRemoved ==
  [][last = "running" /\ last' = "done" /\ command.kind = "remove" =>
       \A n \in command.names \cap quiet : disk[n]["pkinfo"] = Absent]_vars
=============================================================================
