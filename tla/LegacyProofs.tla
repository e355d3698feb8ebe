---------------------------- MODULE LegacyProofs ----------------------------
(***************************************************************************)
(* Theorems about Legacy for every number of packages, versions, commands, *)
(* actions of the legacy tool, errors and deaths, and any dependencies,    *)
(* alternatives, replacements and uninstall scripts.                       *)
(***************************************************************************)
EXTENDS Legacy, TLAPS

Records == [Name -> Package \cup {None}]
Command == [kind : {"none", "sync", "install", "remove"}, names : SUBSET Name,
            format : Formats, version : Version \cup {Absent}]
Entry == [name : Name, file : Pieces, was : Content]

Typed ==
  /\ disk \in [Name -> [Pieces -> Content]]
  /\ db \in Records /\ work \in Records
  /\ outside \in [Name -> Version \cup {Absent, Removing}]
  /\ pc \in {"idle", "import", "script", "again", "paths", "walk", "hash",
             "act", "place", "unlink"}
  /\ command \in Command
  /\ plan \subseteq Name /\ native \subseteq plan /\ todo \subseteq plan
  /\ scan \subseteq Name /\ files \subseteq Pieces
  /\ backup \subseteq Entry
  /\ changed \in Nat
  /\ erased \subseteq Name /\ quiet \subseteq Name /\ unread \subseteq Name
  /\ gone \subseteq Name

\* A command is accepted once, and handles one of its packages after the other;
\* what it backs up are files of its packages.
Importing == pc = "import" \/ Reading
Acting == pc \in {"act", "place", "unlink"}
Doing == IF pc \in {"place", "unlink"} THEN {current} ELSE {}
ControlInv ==
  /\ pc = "idle" <=> last # "running"
  /\ pc = "idle" => command = NoCommand
  /\ pc # "idle" => command.kind # "none"
  /\ pc = "place" => command.kind = "install"
  /\ pc = "unlink" => command.kind = "remove"
  /\ Doing \subseteq plan \ todo
  /\ command.kind = "sync" => plan = {}
  /\ command.kind # "remove" => erased = {}
  /\ ~Acting => plan = {} /\ backup = {} /\ erased = {}
  /\ \A b \in backup : b.name \in plan

\* The record of a legacy package that was made while nobody touched it owns the file
\* an import goes by.
Legacy(records, n) == records[n] # None /\ ~Native(records[n])
OwnsPkinfo(records) ==
  \A n \in Name : Legacy(records, n) /\ records[n].whole => "pkinfo" \in records[n].owns

\* The package being read has what was read of it, if nobody touched it.
ReadingInv ==
  Reading =>
    /\ current \in Name /\ current \notin gone
    /\ draft \in Package /\ draft.format = "hardcore" /\ ~draft.checksum
    /\ pc # "script" => ~Native(work[current])
    /\ current \in quiet =>
         /\ disk[current]["pkinfo"] # Absent /\ disk[current]["pkinfo"] = draft.version
         /\ pc = "hash" => "pkinfo" \in files \cup draft.owns

\* An import adds records and replaces legacy ones, and finds what is there; what it
\* makes of a package is kept by the commands that do not touch the package.
Found(records, n) ==
  disk[n]["pkinfo"] # Absent =>
    records[n] # None /\ (Native(records[n]) \/ records[n].version = disk[n]["pkinfo"])
Imported ==
  /\ \A n \in Name :
       work[n] # db[n] => ~Native(db[n]) /\ Legacy(work, n) /\ ~work[n].checksum
  /\ changed = 0 => work = db
  /\ \A n \in quiet \ (scan \cup unread) : Found(work, n) \/ (Reading /\ n = current)
Touched(n) == n \in plan \/ \E m \in native : n \in Replaces[m]
ImportInv ==
  /\ pc = "idle" => work = [n \in Name |-> None]
  /\ Importing => Imported
  /\ pc # "idle" => \A n \in Name : Native(db[n]) /\ work[n] # db[n] => Touched(n)
  /\ Acting /\ command.kind = "sync" => \A n \in quiet \ unread : Found(work, n)

\* A package that is gone has nothing an import goes by, and the running command
\* does not touch it; the same holds of a package it erased, if nobody else did.
GoneInv ==
  /\ \A n \in gone :
       /\ disk[n]["pkinfo"] = Absent /\ db[n] = None /\ work[n] = None
       /\ n \notin plan
  /\ \A n \in erased : work[n] = None /\ (n \in quiet => disk[n]["pkinfo"] = Absent)
  /\ pc = "unlink" /\ current \in quiet /\ Legacy(work, current) /\ work[current].whole =>
       "pkinfo" \in files \/ disk[current]["pkinfo"] = Absent

\* Dependencies are closed in the database.  While a command is at work they may
\* lead to packages it has still to install; and no package that stays depends
\* on one it removes.
Needs(n) == {x \in Firm : {x} \in Deps[n]}
Relies(records, n) ==
  records[n] # None /\ records[n].checksum /\ records[n].format = "hardcore"
Closed(records, more) ==
  \A n \in Name : Relies(records, n) => Needs(n) \subseteq Installed(records) \cup more
Left == todo \cup Doing
DepsInv ==
  /\ Closed(db, {})
  /\ Acting /\ command.kind = "sync" => Closed(work, {})
  /\ Acting /\ command.kind = "install" =>
       /\ Closed(work, Left)
       /\ \A n \in Left \ native : Needs(n) \subseteq Installed(work) \cup Left
  /\ Acting /\ command.kind = "remove" =>
       /\ \A n \in Name \ plan : Relies(work, n) => Needs(n) \subseteq Installed(work) \ plan
       /\ plan \cap Installed(work) = Left

IInv ==
  /\ Typed /\ ControlInv /\ OwnsPkinfo(db) /\ OwnsPkinfo(work)
  /\ ReadingInv /\ ImportInv /\ GoneInv /\ DepsInv /\ SyncFinds

-----------------------------------------------------------------------------
(* What the helpers return. *)

LEMMA RecordType ==
  ASSUME NEW format \in Formats, NEW version \in Content, NEW owns \in SUBSET Pieces,
         NEW checksum \in BOOLEAN, NEW hook \in BOOLEAN, NEW whole \in BOOLEAN
  PROVE  Record(format, version, owns, checksum, hook, whole) \in Package
BY DEF Record, Package

LEMMA WholeType ==
  ASSUME NEW record \in Package, NEW whole \in BOOLEAN
  PROVE  LET new == [record EXCEPT !.whole = whole]
         IN  /\ new \in Package /\ new.format = record.format /\ new.version = record.version
             /\ new.owns = record.owns /\ new.checksum = record.checksum /\ new.whole = whole
BY DEF Package

\* A step that writes one file of a package keeps the type of the disk.
LEMMA WriteType ==
  ASSUME Typed, NEW n \in Name, NEW f \in Pieces, NEW c \in Content
  PROVE  [disk EXCEPT ![n][f] = c] \in [Name -> [Pieces -> Content]]
BY DEF Typed

\* The end of a command preserves the invariant if what it leaves on disk does.
LEMMA EndStep ==
  ASSUME IInv, NEW outcome \in {"synced", "refused", "done", "failed", "died"},
         EndWith(outcome), UNCHANGED << outside, quiet, unread >>,
         disk' \in [Name -> [Pieces -> Content]],
         db' \in Records, OwnsPkinfo(db'), Closed(db', {}),
         gone' \subseteq Name,
         \A n \in gone' : disk'[n]["pkinfo"] = Absent /\ db'[n] = None,
         outcome = "synced" => UNCHANGED disk /\ \A n \in quiet \ unread : Found(db', n)
  PROVE  IInv'
<1> USE LegacyAssumption DEF IInv, EndWith
<1>0. /\ pc' = "idle" /\ last' = outcome /\ command' = NoCommand /\ plan' = {}
      /\ native' = {} /\ work' = [n \in Name |-> None] /\ erased' = {} /\ backup' = {}
  OBVIOUS
<1>1. Typed'  BY DEF Typed, Command, NoCommand, Records, Formats
<1>2. ControlInv'  BY <1>0 DEF ControlInv, Doing, Acting, NoCommand
<1>3. OwnsPkinfo(db)'  BY DEF OwnsPkinfo, Legacy, Native
<1>4. OwnsPkinfo(work)'  BY <1>0 DEF OwnsPkinfo, Legacy
<1>5. ReadingInv'  BY <1>0 DEF ReadingInv, Reading
<1>6. ImportInv'  BY <1>0 DEF ImportInv, Acting, Importing, Reading
<1>7. GoneInv'  BY <1>0 DEF GoneInv
<1>8. DepsInv'  BY <1>0 DEF DepsInv, Acting, Closed, Relies, Installed, Needs, Firm
<1>9. SyncFinds'  BY <1>0 DEF SyncFinds, Found, Native
<1> QED  BY <1>1, <1>2, <1>3, <1>4, <1>5, <1>6, <1>7, <1>8, <1>9

\* A command that ends without a save leaves the database as it was.
LEMMA UnsavedStep ==
  ASSUME IInv, NEW outcome \in {"refused", "failed", "died"},
         EndWith(outcome), UNCHANGED << outside, quiet, unread, db, gone >>,
         disk' \in [Name -> [Pieces -> Content]],
         \A n \in gone : disk'[n]["pkinfo"] = Absent
  PROVE  IInv'
<1>1. db \in Records /\ gone \subseteq Name  BY DEF IInv, Typed
<1>2. OwnsPkinfo(db) /\ Closed(db, {})  BY DEF IInv, DepsInv
<1>3. \A n \in gone : db[n] = None  BY DEF IInv, GoneInv
<1> QED  BY <1>1, <1>2, <1>3, EndStep

\* What a command has to save when it has nothing left to do is closed.
LEMMA SavedIsClosed ==
  ASSUME IInv, pc = "act", todo = {}
  PROVE  Closed(work, {})
<1> USE DEF IInv
<1>1. command.kind \in {"sync", "install", "remove"}  BY DEF ControlInv, Typed, Command
<1>2. Left = {}  BY DEF Left, Doing
<1>3. CASE command.kind = "sync"  BY <1>3 DEF DepsInv, Acting
<1>4. CASE command.kind = "install"  BY <1>2, <1>4 DEF DepsInv, Acting
<1>5. CASE command.kind = "remove"
  BY <1>2, <1>5 DEF DepsInv, Acting, Closed, Relies, Installed
<1> QED  BY <1>1, <1>3, <1>4, <1>5

-----------------------------------------------------------------------------
(* The import. *)

\* A step of the import preserves the invariant if it does so for what it reads.
LEMMA ImportStep ==
  ASSUME IInv, Importing, Importing',
         UNCHANGED << disk, outside, db, command, plan, native, todo, backup, erased,
                      last, quiet, gone >>,
         work' \in Records, OwnsPkinfo(work'), \A n \in gone : work'[n] = None,
         scan' \subseteq Name, files' \subseteq Pieces, unread' \subseteq Name,
         changed' \in Nat, ReadingInv', Imported'
  PROVE  IInv'
<1> USE DEF IInv
<1>0. /\ pc # "idle" /\ pc' # "idle" /\ ~Acting /\ ~Acting' /\ Doing' = {} /\ plan = {}
      /\ native = {} /\ erased = {}
      /\ pc' \in {"import", "script", "again", "paths", "walk", "hash"}
  BY DEF Importing, Reading, Acting, Doing, ControlInv, Typed
<1>1. Typed'  BY <1>0 DEF Typed, Records, Command, Entry
<1>2. ControlInv'  BY <1>0 DEF ControlInv
<1>3. OwnsPkinfo(db)'  BY DEF OwnsPkinfo, Legacy, Native
<1>4. OwnsPkinfo(work)'  BY DEF OwnsPkinfo, Legacy, Native
<1>5. ImportInv'
  <2>1. \A n \in Name : (Native(db[n]) /\ work[n] # db[n] => Touched(n))'
    BY DEF Imported, Native
  <2> QED  BY <1>0, <2>1 DEF ImportInv
<1>6. GoneInv'  BY <1>0 DEF GoneInv
<1>7. DepsInv'  BY <1>0 DEF DepsInv, Closed, Relies, Installed, Needs, Firm
<1>8. SyncFinds'  BY <1>0 DEF SyncFinds, ControlInv
<1> QED  BY <1>1, <1>2, <1>3, <1>4, <1>5, <1>6, <1>7, <1>8

\* So does one that makes no record and passes over no package nobody touched.
LEMMA LookStep ==
  ASSUME IInv, Importing, Importing',
         UNCHANGED << disk, outside, db, command, plan, native, todo, backup, erased,
                      last, quiet, gone, work, changed >>,
         scan' \subseteq Name, files' \subseteq Pieces, unread' \subseteq Name,
         ReadingInv',
         unread \subseteq unread',
         \A n \in quiet \ (scan' \cup unread') :
           n \in scan \/ (Reading /\ n = current) =>
             Found(work, n) \/ (Reading' /\ n = current')
  PROVE  IInv'
<1>1. Imported
  BY DEF IInv, ImportInv
<1>2. Imported'
  BY <1>1 DEF Imported, Legacy, Native, Found
<1> QED
  BY <1>2, ImportStep DEF IInv, Typed, GoneInv

\* Begin preserves the invariant.
LEMMA BeginStep ==
  ASSUME IInv, NEW kind \in {"sync", "install", "remove"}, NEW names \in SUBSET Name,
         NEW format \in Formats, NEW v \in Version \cup {Absent}, Begin(kind, names, format, v)
  PROVE  IInv'
<1> USE LegacyAssumption DEF IInv
<1>0. /\ pc = "idle" /\ pc' = "import" /\ work' = db /\ last' = "running"
      /\ scan' = {n \in Name : Installer \cap Present(n) # {}} /\ quiet' = Name /\ unread' = {}
      /\ command' = [kind |-> kind, names |-> names, format |-> format, version |-> v]
      /\ UNCHANGED << disk, outside, db, plan, native, todo, current, draft, files, backup,
                      changed, erased, gone >>
      /\ plan = {} /\ native = {} /\ backup = {} /\ erased = {}
  BY DEF Begin, system, ControlInv, Acting, Typed
<1>1. Typed'  BY <1>0 DEF Typed, Records, Command, Entry
<1>2. ControlInv'  BY <1>0 DEF ControlInv, Doing, Acting
<1>3. OwnsPkinfo(db)'  BY <1>0 DEF OwnsPkinfo, Legacy, Native
<1>4. OwnsPkinfo(work)'  BY <1>0 DEF OwnsPkinfo, Legacy, Native
<1>5. ReadingInv'  BY <1>0 DEF ReadingInv, Reading
<1>6. ImportInv'
  <2>1. \A n \in Name \ scan' : disk[n]["pkinfo"] = Absent
    BY <1>0 DEF Present, Installer, Pieces
  <2> QED  BY <1>0, <2>1 DEF ImportInv, Imported, Found, Acting, Native
<1>7. GoneInv'  BY <1>0 DEF GoneInv
<1>8. DepsInv'  BY <1>0 DEF DepsInv, Acting, Closed, Relies, Installed, Needs, Firm
<1>9. SyncFinds'  BY <1>0 DEF SyncFinds
<1> QED  BY <1>1, <1>2, <1>3, <1>4, <1>5, <1>6, <1>7, <1>8, <1>9

\* ReadPkinfo preserves the invariant.
LEMMA ReadPkinfoStep ==
  ASSUME IInv, ReadPkinfo
  PROVE  IInv'
<1> USE LegacyAssumption DEF IInv
<1>0. /\ pc = "import" /\ Importing /\ ~Reading
      /\ UNCHANGED << disk, outside, db, command, plan, native, todo, backup, erased,
                      last, quiet, gone, unread, work, changed >>
  BY DEF ReadPkinfo, Importing, Reading, system, chosen, history
<1>1. PICK n \in scan :
        /\ scan' = scan \ {n}
        /\ \/ disk[n]["pkinfo"] = Absent /\ PassOver
           \/ /\ disk[n]["pkinfo"] # Absent /\ pc' = "script" /\ current' = n
              /\ draft' = Record("hardcore", disk[n]["pkinfo"], {}, FALSE, FALSE, TRUE)
              /\ UNCHANGED files
  BY DEF ReadPkinfo
<1>2. n \in Name  BY DEF Typed
<1>3. CASE disk[n]["pkinfo"] = Absent
  <2>1. PassOver  BY <1>1, <1>3
  <2>2. Importing' /\ ~Reading' /\ files' \subseteq Name \cup Pieces /\ files' = {}
    BY <2>1 DEF PassOver, Importing, Reading
  <2>3. Found(work, n)  BY <1>3 DEF Found
  <2> QED  BY <1>0, <1>1, <2>2, <2>3, LookStep DEF ReadingInv, Typed
<1>4. CASE disk[n]["pkinfo"] # Absent
  <2>1. /\ pc' = "script" /\ current' = n /\ files' = files
        /\ draft' = Record("hardcore", disk[n]["pkinfo"], {}, FALSE, FALSE, TRUE)
    BY <1>1, <1>4
  <2>2. Importing' /\ Reading'  BY <2>1 DEF Importing, Reading
  <2>3. draft' \in Package
    <3>1. disk[n]["pkinfo"] \in Content  BY <1>2 DEF Typed, Pieces, Installer
    <3> QED  BY <2>1, <3>1, RecordType DEF Formats
  <2>4. ReadingInv'
    BY <1>0, <1>2, <1>4, <2>1, <2>3 DEF ReadingInv, GoneInv, Record
  <2> QED  BY <1>0, <1>1, <2>1, <2>2, <2>4, LookStep DEF Typed
<1> QED  BY <1>3, <1>4

\* A step of the reading of a package that goes on with it, or passes over it when
\* somebody touched it or a native package has its name, preserves the invariant.
LEMMA ReadOnStep ==
  ASSUME IInv, Reading,
         UNCHANGED << disk, outside, db, command, plan, native, todo, backup, erased,
                      last, quiet, gone, unread, work, changed, scan >>,
         \/ PassOver /\ (current \in quiet => Native(work[current]))
         \/ Reading' /\ current' = current /\ files' \subseteq Pieces /\ ReadingInv'
  PROVE  IInv'
<1> USE DEF IInv
<1>1. Importing /\ unread \subseteq Name /\ scan \subseteq Name
  BY DEF Importing, Typed
<1>2. CASE PassOver /\ (current \in quiet => Native(work[current]))
  <2>1. Importing' /\ ~Reading' /\ files' = {}
    BY <1>2 DEF PassOver, Importing, Reading
  <2>2. current \in quiet => Found(work, current)  BY <1>2 DEF Found, Native
  <2>3. \A n \in quiet \ (scan' \cup unread') : n \in scan \/ (Reading /\ n = current) =>
          Found(work, n) \/ (Reading' /\ n = current')
    BY <2>2
  <2>4. ReadingInv' /\ files' \subseteq Pieces  BY <2>1 DEF ReadingInv
  <2> QED  BY <1>1, <2>1, <2>3, <2>4, LookStep
<1>3. CASE Reading' /\ current' = current /\ files' \subseteq Pieces /\ ReadingInv'
  <2>1. Importing'  BY <1>3 DEF Importing
  <2> QED  BY <1>1, <1>3, <2>1, LookStep
<1> QED  BY <1>2, <1>3

\* The reading of the scripts preserves the invariant.
LEMMA ReadScriptStep ==
  ASSUME IInv, ReadScript
  PROVE  IInv'
<1> USE DEF IInv
<1>0. /\ pc = "script" /\ Reading
      /\ UNCHANGED << disk, outside, db, command, plan, native, todo, backup, erased,
                      last, quiet, gone, unread, work, changed, scan >>
  BY DEF ReadScript, Reading, system, chosen, history
<1>1. CASE Foreign(current)
  BY <1>0, <1>1, ReadOnStep DEF ReadScript, Foreign
<1>2. CASE ~Foreign(current)
  <2>1. /\ pc' = "again" /\ current' = current /\ files' = files
        /\ draft' = [draft EXCEPT !.hook = disk[current]["uninstall"] # Absent]
    BY <1>2 DEF ReadScript
  <2>2. /\ draft' \in Package /\ draft'.format = draft.format /\ draft'.version = draft.version
        /\ draft'.checksum = draft.checksum
    BY <1>0, <2>1 DEF ReadingInv, Package
  <2>3. ReadingInv'  BY <1>0, <1>2, <2>1, <2>2 DEF ReadingInv, Foreign, Native
  <2>4. Reading' /\ files' \subseteq Pieces  BY <2>1 DEF Reading, Typed
  <2> QED  BY <1>0, <2>1, <2>3, <2>4, ReadOnStep
<1> QED  BY <1>1, <1>2

\* The second reading preserves the invariant.
LEMMA ReadAgainStep ==
  ASSUME IInv, ReadAgain
  PROVE  IInv'
<1> USE DEF IInv
<1>0. /\ pc = "again" /\ Reading
      /\ UNCHANGED << disk, outside, db, command, plan, native, todo, backup, erased,
                      last, quiet, gone, unread, work, changed, scan >>
  BY DEF ReadAgain, Reading, system, chosen, history
<1>1. CASE disk[current]["pkinfo"] = Absent
  BY <1>0, <1>1, ReadOnStep DEF ReadAgain, ReadingInv
<1>2. CASE disk[current]["pkinfo"] # Absent
  <2>1. pc' = "paths" /\ UNCHANGED << current, draft, files >>  BY <1>2 DEF ReadAgain
  <2>2. ReadingInv'  BY <1>0, <2>1 DEF ReadingInv, Native
  <2>3. Reading' /\ files' \subseteq Pieces  BY <2>1 DEF Reading, Typed
  <2> QED  BY <1>0, <2>1, <2>2, <2>3, ReadOnStep
<1> QED  BY <1>1, <1>2

\* The reading of the script's names preserves the invariant.
LEMMA ReadPathsStep ==
  ASSUME IInv, ReadPaths
  PROVE  IInv'
<1> USE LegacyAssumption DEF IInv
<1>0. /\ pc = "paths" /\ Reading /\ current \in Name
      /\ UNCHANGED << disk, outside, db, command, plan, native, todo, backup, erased,
                      last, quiet, gone, unread, work, changed, scan, current, draft >>
      /\ pc' = "walk" /\ files' = parseHardcoreUninstallPaths(current)
  BY DEF ReadPaths, Reading, ReadingInv, system, chosen, history
<1>1. files' \subseteq Pieces  BY <1>0 DEF parseHardcoreUninstallPaths, Pieces
<1>2. ReadingInv' /\ Reading'  BY <1>0 DEF ReadingInv, Reading, Native
<1> QED  BY <1>0, <1>1, <1>2, ReadOnStep

\* The walk of the directory preserves the invariant.
LEMMA WalkStep ==
  ASSUME IInv, Walk
  PROVE  IInv'
<1> USE DEF IInv
<1>0. /\ pc = "walk" /\ Reading
      /\ UNCHANGED << disk, outside, db, command, plan, native, todo, backup, erased,
                      last, quiet, gone, unread, work, changed, scan >>
  BY DEF Walk, Reading, system, chosen, history
<1>1. disk[current]["pkinfo"] # Absent => "pkinfo" \in Walked(current)
  BY DEF Walked, Present, Installer, Pieces
<1>2. CASE PassOver /\ Installer \cap Present(current) = {}
  BY <1>0, <1>1, <1>2, ReadOnStep DEF ReadingInv, Walked
<1>3. CASE files' = files \cup Walked(current) /\ pc' = "hash" /\ UNCHANGED << current, draft >>
  <2>1. files' \subseteq Pieces  BY <1>3 DEF Typed, Walked, Present
  <2>2. ReadingInv' /\ Reading'  BY <1>0, <1>1, <1>3 DEF ReadingInv, Reading, Native
  <2> QED  BY <1>0, <1>3, <2>1, <2>2, ReadOnStep
<1> QED  BY <1>2, <1>3 DEF Walk

\* The look at a file preserves the invariant.
LEMMA HashFileStep ==
  ASSUME IInv, HashFile
  PROVE  IInv'
<1> USE DEF IInv
<1>0. /\ pc = "hash" /\ Reading /\ pc' = "hash"
      /\ UNCHANGED << disk, outside, db, command, plan, native, todo, backup, erased,
                      last, quiet, gone, unread, work, changed, scan, current >>
  BY DEF HashFile, Reading, system, chosen, history
<1>1. PICK f \in files :
        /\ files' = files \ {f}
        /\ draft' = IF f \in Present(current) THEN [draft EXCEPT !.owns = @ \cup {f}] ELSE draft
  BY DEF HashFile
<1>2. draft \in Package /\ f \in Pieces  BY <1>0 DEF ReadingInv, Typed
<1>3. /\ draft' \in Package /\ draft'.format = draft.format /\ draft'.version = draft.version
      /\ draft'.checksum = draft.checksum /\ draft.owns \subseteq draft'.owns
      /\ f \in Present(current) => f \in draft'.owns
  BY <1>1, <1>2 DEF Package
<1>4. ReadingInv'
  BY <1>0, <1>1, <1>2, <1>3 DEF ReadingInv, Native, Present
<1>5. files' \subseteq Pieces /\ Reading'  BY <1>0, <1>1 DEF Typed, Reading
<1> QED  BY <1>0, <1>4, <1>5, ReadOnStep

\* RecordImported preserves the invariant.
LEMMA RecordImportedStep ==
  ASSUME IInv, RecordImported
  PROVE  IInv'
<1> USE LegacyAssumption DEF IInv
<1>0. /\ pc = "hash" /\ files = {} /\ Reading /\ Importing /\ current \in Name
      /\ UNCHANGED << disk, outside, db, command, plan, native, todo, backup, erased,
                      last, quiet, gone, unread, scan >>
      /\ draft \in Package /\ draft.format = "hardcore" /\ ~draft.checksum
      /\ current \notin gone /\ ~Native(work[current])
      /\ current \in quiet => /\ disk[current]["pkinfo"] = draft.version
                              /\ "pkinfo" \in draft.owns
  BY DEF RecordImported, Importing, Reading, ReadingInv, system, chosen, history
<1>1. /\ Importing' /\ ~Reading' /\ files' \subseteq Pieces
  BY DEF RecordImported, PassOver, Importing, Reading
<1>2. ReadingInv'  BY <1>1 DEF ReadingInv
<1>3. Imported /\ unread \subseteq Name /\ scan \subseteq Name /\ changed \in Nat
  BY <1>0 DEF ImportInv, Typed
<1>4. CASE Known(current)
  <2>1. UNCHANGED << work, changed >>  BY <1>4 DEF RecordImported
  <2>2. current \in quiet => Found(work, current)  BY <1>0, <1>4 DEF Known, Found
  <2>3. Imported'  BY <1>0, <1>1, <1>3, <2>1, <2>2 DEF Imported, Legacy, Native, Found
  <2> QED  BY <1>0, <1>1, <1>2, <1>3, <2>1, <2>3, ImportStep DEF Typed, GoneInv
<1>5. CASE ~Known(current)
  <2> DEFINE New == [draft EXCEPT !.whole = current \in quiet]
  <2>1. work' = [work EXCEPT ![current] = New] /\ changed' = changed + 1
    BY <1>5 DEF RecordImported
  <2>2. /\ New \in Package /\ New # None /\ New.format = "hardcore" /\ ~New.checksum
        /\ New.version = draft.version /\ New.owns = draft.owns
        /\ New.whole = (current \in quiet)
    <3>1. (current \in quiet) \in BOOLEAN  OBVIOUS
    <3>2. /\ New \in Package /\ New.format = draft.format /\ New.version = draft.version
          /\ New.owns = draft.owns /\ New.checksum = draft.checksum
          /\ New.whole = (current \in quiet)
      BY <1>0, <3>1, WholeType, Zenon
    <3> QED  BY <1>0, <3>2
  <2> HIDE DEF New
  <2>3. /\ work' \in Records /\ work'[current] = New
        /\ \A n \in Name \ {current} : work'[n] = work[n]
    BY <1>0, <2>1, <2>2 DEF Typed, Records
  <2>4. OwnsPkinfo(work')  BY <1>0, <2>2, <2>3 DEF OwnsPkinfo, Legacy, Native
  <2>5. \A n \in gone : work'[n] = None  BY <1>0, <2>3 DEF GoneInv, Typed
  <2>6. ~Native(db[current])
    BY <1>0, <1>3 DEF Imported
  <2>7. current \in quiet => Found(work', current)  BY <1>0, <2>2, <2>3 DEF Found
  <2>8. ASSUME NEW n \in Name, work'[n] # db[n]
        PROVE  ~Native(db[n]) /\ Legacy(work', n) /\ ~work'[n].checksum
    BY <1>3, <2>2, <2>3, <2>6, <2>8 DEF Imported, Legacy, Native
  <2>9. ASSUME NEW n \in quiet \ (scan \cup unread)  PROVE Found(work', n)
    BY <1>3, <2>3, <2>7, <2>9 DEF Imported, Found, Native, Typed
  <2>10. Imported'
    <3>1. changed' # 0  BY <1>3, <2>1
    <3>2. \A n \in Name : (work[n] # db[n] => ~Native(db[n]) /\ Legacy(work, n) /\ ~work[n].checksum)'
      BY <1>0, <2>8 DEF Native, Legacy
    <3>3. \A n \in (quiet \ (scan \cup unread))' : Found(work, n)'
      BY <1>0, <2>9 DEF Found, Native
    <3> QED  BY <3>1, <3>2, <3>3 DEF Imported
  <2> QED  BY <1>0, <1>1, <1>2, <1>3, <2>1, <2>3, <2>4, <2>5, <2>10, ImportStep
<1> QED  BY <1>4, <1>5

\* ReadFails preserves the invariant.
LEMMA ReadFailsStep ==
  ASSUME IInv, ReadFails
  PROVE  IInv'
<1> USE DEF IInv
<1>0. /\ Importing /\ PassOver
      /\ UNCHANGED << disk, outside, db, command, plan, native, todo, backup, erased,
                      last, quiet, gone, work, changed >>
  BY DEF ReadFails, Importing, system, chosen
<1>1. Importing' /\ ~Reading' /\ files' \subseteq Pieces
  BY <1>0 DEF PassOver, Importing, Reading
<1>2. ReadingInv'  BY <1>1 DEF ReadingInv
<1>3. CASE pc = "import" /\ \E n \in scan : scan' = scan \ {n} /\ unread' = unread \cup {n}
  <2>1. ~Reading  BY <1>3 DEF Reading
  <2> QED  BY <1>0, <1>1, <1>2, <1>3, <2>1, LookStep DEF Typed
<1>4. CASE Reading /\ unread' = unread \cup {current} /\ UNCHANGED scan
  <2>1. current \in Name /\ Imported  BY <1>4 DEF ReadingInv, ImportInv, Importing
  <2>2. \A n \in quiet \ (scan' \cup unread') : ~(n \in scan \/ (Reading /\ n = current))
    BY <1>4
  <2> QED  BY <1>0, <1>1, <1>2, <1>4, <2>1, <2>2, LookStep DEF Typed
<1> QED  BY <1>3, <1>4 DEF ReadFails

-----------------------------------------------------------------------------
(* The decision. *)

\* What the import leaves is closed: it drops no record, and none it makes counts.
LEMMA ImportClosed ==
  ASSUME IInv, pc = "import"
  PROVE  Closed(work, {})
<1> USE DEF IInv
<1>1. Imported  BY DEF ImportInv, Importing
<1>2. Installed(db) \subseteq Installed(work)  BY <1>1 DEF Imported, Legacy, Installed
<1>3. ASSUME NEW n \in Name, Relies(work, n)
      PROVE  Needs(n) \subseteq Installed(work)
  <2>1. work[n] = db[n]  BY <1>1, <1>3 DEF Imported, Relies
  <2>2. Relies(db, n)  BY <1>3, <2>1 DEF Relies
  <2> QED  BY <1>2, <2>2 DEF DepsInv, Closed
<1> QED  BY <1>3 DEF Closed

\* The acceptance of a command preserves the invariant if what it is to do is sound.
LEMMA AcceptStep ==
  ASSUME IInv, pc = "import", scan = {}, UNCHANGED << disk, outside, db >>,
         NEW packages \in SUBSET Name, NEW archives \in SUBSET packages,
         Accept(packages, archives),
         command.kind = "sync" => packages = {},
         command.kind = "install" =>
           \A n \in packages \ archives : Needs(n) \subseteq Installed(work) \cup packages,
         command.kind = "remove" => RemovalAllowed /\ packages = command.names
  PROVE  IInv'
<1> USE DEF IInv
<1>0. /\ pc' = "act" /\ plan' = packages /\ native' = archives /\ todo' = packages
      /\ gone' \subseteq gone /\ Left' = packages /\ Doing' = {}
      /\ command.kind = "install" => gone' = gone \ packages
      /\ UNCHANGED << command, scan, current, draft, files, work, backup, changed, erased,
                      last, quiet, unread >>
      /\ ~Acting /\ Acting' /\ erased = {} /\ backup = {} /\ Imported /\ ~Reading /\ ~Reading'
      /\ command.kind \in {"sync", "install", "remove"}
  BY DEF Accept, Left, Doing, Acting, ControlInv, ImportInv, Importing, Reading, reading,
     Typed, Command
<1>1. Typed'  BY <1>0 DEF Typed, Records, Command, Entry
<1>2. ControlInv'  BY <1>0 DEF ControlInv
<1>3. OwnsPkinfo(db)'  BY DEF OwnsPkinfo, Legacy, Native
<1>4. OwnsPkinfo(work)'  BY <1>0 DEF OwnsPkinfo, Legacy, Native
<1>5. ReadingInv'  BY <1>0 DEF ReadingInv
<1>6. ImportInv'
  <2>1. \A n \in Name : Native(db[n]) => work[n] = db[n]  BY <1>0 DEF Imported
  <2>2. ~Importing'  BY <1>0 DEF Importing
  <2>3. \A n \in quiet \ unread : Found(work, n)  BY <1>0 DEF Imported
  <2>4. \A n \in (quiet \ unread)' : Found(work, n)'  BY <1>0, <2>3 DEF Found, Native
  <2> QED  BY <1>0, <2>1, <2>2, <2>4 DEF ImportInv, Native
<1>7. GoneInv'
  <2>1. command.kind = "remove" => gone \cap packages = {}
    BY DEF RemovalAllowed, Installed, GoneInv
  <2>2. gone' \cap packages = {}  BY <1>0, <2>1
  <2> QED  BY <1>0, <2>2 DEF GoneInv
<1>8. DepsInv'
  <2>1. Closed(work, {})  BY ImportClosed
  <2>2. Closed(db, {})' = Closed(db, {}) /\ Closed(work, {})' = Closed(work, {})
    BY <1>0 DEF Closed, Relies, Installed, Needs, Firm
  <2>3. Closed(work, Left)'
    <3>1. \A n \in Name : Relies(work, n)' => Needs(n)' \subseteq Installed(work)'
      BY <2>1, <2>2 DEF Closed
    <3> QED  BY <3>1 DEF Closed
  <2>4. /\ Installed(work)' = Installed(work)
        /\ \A n \in Name : Needs(n)' = Needs(n) /\ (Relies(work, n)' <=> Relies(work, n))
    BY <1>0 DEF Installed, Needs, Firm, Relies
  <2>5. command.kind = "remove" =>
          /\ \A n \in Name \ packages : Relies(work, n) =>
               Needs(n) \subseteq Installed(work) \ packages
          /\ packages \cap Installed(work) = packages
    <3>1. ASSUME command.kind = "remove", NEW n \in Name \ packages, Relies(work, n),
                 NEW x \in Needs(n)
          PROVE  x \in Installed(work) \ packages
      <4>1. x \in Installed(work)  BY <2>1, <3>1 DEF Closed
      <4>2. n \in Installed(work)  BY <3>1 DEF Relies, Installed
      <4>3. dependsOn(work, n, x)  BY <3>1 DEF Relies, Needs, dependsOn
      <4> QED  BY <3>1, <4>1, <4>2, <4>3 DEF RemovalAllowed
    <3>2. command.kind = "remove" => packages \subseteq Installed(work)
      BY DEF RemovalAllowed
    <3> QED  BY <3>1, <3>2
  <2> QED  BY <1>0, <2>1, <2>2, <2>3, <2>4, <2>5 DEF DepsInv
<1>9. SyncFinds'  BY <1>0 DEF SyncFinds, ControlInv
<1> QED  BY <1>1, <1>2, <1>3, <1>4, <1>5, <1>6, <1>7, <1>8, <1>9

\* Decide preserves the invariant.
LEMMA DecideStep ==
  ASSUME IInv, Decide
  PROVE  IInv'
<1> USE DEF IInv
<1>0. pc = "import" /\ scan = {} /\ UNCHANGED << disk, outside, db >> /\ command.names \subseteq Name
  BY DEF Decide, system, Typed, Command
<1>1. CASE command.kind = "sync" /\ Accept({}, {})
  BY <1>0, <1>1, AcceptStep
<1>2. CASE /\ command.kind = "install" /\ legacyDependenciesSatisfied
           /\ Accept(command.names, {})
  <2>1. ASSUME NEW n \in command.names  PROVE Needs(n) \subseteq Installed(work) \cup command.names
    BY <1>2 DEF legacyDependenciesSatisfied, Needs
  <2> QED  BY <1>0, <1>2, <2>1, AcceptStep
<1>3. CASE /\ command.kind = "install"
           /\ \E packages, archives \in SUBSET Name :
                resolve(packages, archives) /\ Accept(packages, archives)
  <2>1. PICK packages \in SUBSET Name, archives \in SUBSET Name :
          resolve(packages, archives) /\ Accept(packages, archives)
    BY <1>3
  <2>2. archives \in SUBSET packages  BY <2>1 DEF resolve
  <2>3. ASSUME NEW n \in packages \ archives, NEW x \in Needs(n)
        PROVE  x \in Installed(work) \cup packages
    <3>1. {x} \in Deps[n] /\ x \in Firm  BY DEF Needs
    <3>2. PICK m \in Installed(work) \cup packages : m = x \/ x \in Provides[m]
      BY <2>1, <3>1 DEF resolve
    <3>3. m \in Name  BY <3>2 DEF Installed
    <3> QED  BY <3>1, <3>2, <3>3 DEF Firm
  <2> QED  BY <1>0, <1>3, <2>1, <2>2, <2>3, AcceptStep
<1>4. CASE command.kind = "remove" /\ RemovalAllowed /\ Accept(command.names, {})
  BY <1>0, <1>4, AcceptStep
<1>5. CASE Refuse
  <2>1. CASE command.kind = "sync"
    <3>1. EndWith("synced") /\ changed = 0 /\ UNCHANGED << quiet, unread, gone >>
      BY <1>5, <2>1 DEF Refuse
    <3>2. work = db /\ \A n \in quiet \ unread : Found(work, n)
      BY <1>0, <3>1 DEF ImportInv, Imported, Importing, Reading
    <3> QED  BY <1>0, <3>1, <3>2, EndStep DEF Typed, DepsInv, GoneInv
  <2>2. CASE command.kind # "sync"
    <3>1. EndWith("refused") /\ UNCHANGED << quiet, unread, gone >>  BY <1>5, <2>2 DEF Refuse
    <3> QED  BY <1>0, <3>1, UnsavedStep DEF Typed, GoneInv
  <2> QED  BY <2>1, <2>2
<1> QED  BY <1>1, <1>2, <1>3, <1>4, <1>5 DEF Decide

-----------------------------------------------------------------------------
(* Installation and removal. *)

\* StartInstall preserves the invariant.
LEMMA StartInstallStep ==
  ASSUME IInv, StartInstall
  PROVE  IInv'
<1> USE LegacyAssumption DEF IInv
<1>a. PICK n \in todo :
        current' = n /\ todo' = todo \ {n} /\ files' = Shipped(FormatOf(n))
  BY DEF StartInstall
<1>b. /\ pc = "act" /\ command.kind = "install" /\ pc' = "place"
      /\ Shipped(FormatOf(n)) \subseteq Pieces
      /\ UNCHANGED << disk, outside, db, command, plan, native, work, scan, draft, backup,
                      changed, erased, last, quiet, unread, gone >>
      /\ Acting /\ Acting' /\ ~Importing' /\ ~Reading' /\ Doing' = {n} /\ Left' = Left
      /\ n \in plan
  BY <1>a DEF StartInstall, system, chosen, history, Shipped, Pieces, Installer, Acting,
     Importing, Reading, Doing, Left, Typed
<1>1. Typed'  BY <1>a, <1>b DEF Typed, Records, Command, Entry
<1>2. ControlInv'  BY <1>a, <1>b DEF ControlInv
<1>3. OwnsPkinfo(db)'  BY <1>b DEF OwnsPkinfo, Legacy, Native
<1>4. OwnsPkinfo(work)'  BY <1>b DEF OwnsPkinfo, Legacy, Native
<1>5. ReadingInv'  BY <1>b DEF ReadingInv
<1>6. ImportInv'  BY <1>b DEF ImportInv, Found, Native, Touched
<1>7. GoneInv'  BY <1>b DEF GoneInv
<1>8. DepsInv'
  BY <1>b DEF DepsInv, Closed, Relies, Installed, Needs, Firm
<1>9. SyncFinds'  BY <1>b DEF SyncFinds, ControlInv
<1> QED  BY <1>1, <1>2, <1>3, <1>4, <1>5, <1>6, <1>7, <1>8, <1>9

\* A step that changes files of the package at hand only, and never makes the file an
\* import goes by of another package, preserves the invariant.
LEMMA FilesStep ==
  ASSUME IInv, pc \in {"place", "unlink"},
         UNCHANGED << outside, db, pc, command, plan, native, work, scan, todo, current, draft,
                      changed, erased, last, quiet, unread, gone >>,
         disk' \in [Name -> [Pieces -> Content]], files' \subseteq Pieces, backup' \subseteq Entry,
         \A b \in backup' : b.name \in plan,
         \A n \in Name \ plan : disk'[n] = disk[n],
         pc = "unlink" => /\ \A n \in Name : disk[n]["pkinfo"] = Absent =>
                               disk'[n]["pkinfo"] = Absent
                          /\ "pkinfo" \in files =>
                               "pkinfo" \in files' \/ disk'[current]["pkinfo"] = Absent
  PROVE  IInv'
<1> USE DEF IInv
<1>0. /\ Acting /\ Acting' /\ ~Importing' /\ ~Reading' /\ Doing' = Doing /\ Left' = Left
      /\ command.kind # "sync" /\ (pc = "place" => command.kind = "install")
  BY DEF Acting, Importing, Reading, Doing, Left, ControlInv
<1>1. Typed'  BY DEF Typed, Records, Command, Entry
<1>2. ControlInv'  BY <1>0 DEF ControlInv
<1>3. OwnsPkinfo(db)'  BY DEF OwnsPkinfo, Legacy, Native
<1>4. OwnsPkinfo(work)'  BY DEF OwnsPkinfo, Legacy, Native
<1>5. ReadingInv'  BY <1>0 DEF ReadingInv
<1>6. ImportInv'  BY <1>0 DEF ImportInv, Native, Touched
<1>7. GoneInv'
  <2>1. \A n \in gone : n \in Name /\ n \notin plan  BY DEF GoneInv, Typed
  <2>2. \A n \in gone : disk'[n]["pkinfo"] = Absent  BY <2>1 DEF GoneInv
  <2>3. pc = "place" => erased = {}  BY <1>0 DEF ControlInv
  <2>4. (\A n \in erased : n \in Name) /\ current \in Name
    BY DEF Typed, ControlInv, Doing
  <2>5. \A n \in erased : work'[n] = None /\ (n \in quiet' => disk'[n]["pkinfo"] = Absent)
    BY <2>3, <2>4 DEF GoneInv
  <2>6. pc' = "unlink" /\ current \in quiet /\ Legacy(work, current) /\ work[current].whole =>
          "pkinfo" \in files' \/ disk'[current]["pkinfo"] = Absent
    BY <2>4 DEF GoneInv
  <2> QED  BY <2>2, <2>5, <2>6 DEF GoneInv, Legacy, Native
<1>8. DepsInv'  BY <1>0 DEF DepsInv, Closed, Relies, Installed, Needs, Firm
<1>9. SyncFinds'  BY <1>0 DEF SyncFinds, ControlInv, Acting
<1> QED  BY <1>1, <1>2, <1>3, <1>4, <1>5, <1>6, <1>7, <1>8, <1>9

\* PlaceFile preserves the invariant.
LEMMA PlaceFileStep ==
  ASSUME IInv, PlaceFile
  PROVE  IInv'
<1> USE DEF IInv
<1>a. PICK f \in files :
        /\ disk' = [disk EXCEPT ![current][f] = command.version]
        /\ files' = files \ {f}
        /\ Keep(current, f)
  BY DEF PlaceFile
<1>b. /\ pc = "place" /\ current \in plan /\ current \in Name /\ f \in Pieces
      /\ UNCHANGED << outside, db, pc, command, plan, native, work, scan, todo, current, draft,
                      changed, erased, last, quiet, unread, gone >>
  BY DEF PlaceFile, ControlInv, Doing, Typed, chosen, history
<1>c. disk' \in [Name -> [Pieces -> Content]]
  BY <1>a, <1>b, WriteType DEF Typed, Command, Content
<1>d. \A n \in Name \ plan : disk'[n] = disk[n]  BY <1>a, <1>b DEF Typed
<1>e. backup' \subseteq Entry /\ \A b \in backup' : b.name \in plan
  BY <1>a, <1>b DEF Keep, Typed, Entry, ControlInv
<1>f. files' \subseteq Pieces  BY <1>a DEF Typed
<1> QED  BY <1>b, <1>c, <1>d, <1>e, <1>f, FilesStep

\* UnlinkFile preserves the invariant.
LEMMA UnlinkFileStep ==
  ASSUME IInv, UnlinkFile
  PROVE  IInv'
<1> USE DEF IInv
<1>a. PICK f \in files :
        /\ files' = files \ {f}
        /\ IF f \in Present(current)
           THEN Keep(current, f) /\ disk' = [disk EXCEPT ![current][f] = Absent]
           ELSE UNCHANGED << backup, disk >>
  BY DEF UnlinkFile
<1>b. /\ pc = "unlink" /\ current \in plan /\ current \in Name /\ f \in Pieces
      /\ UNCHANGED << outside, db, pc, command, plan, native, work, scan, todo, current, draft,
                      changed, erased, last, quiet, unread, gone >>
  BY DEF UnlinkFile, ControlInv, Doing, Typed, chosen, history
<1>c. disk' = disk \/ disk' = [disk EXCEPT ![current][f] = Absent]  BY <1>a
<1>d. disk \in [Name -> [Pieces -> Content]]  BY DEF Typed
<1>e. disk' \in [Name -> [Pieces -> Content]]
  <2>1. Absent \in Content  BY DEF Content
  <2>2. [disk EXCEPT ![current][f] = Absent] \in [Name -> [Pieces -> Content]]
    BY <1>b, <2>1, WriteType
  <2> QED  BY <1>c, <1>d, <2>2
<1>f. /\ \A n \in Name : disk[n]["pkinfo"] = Absent => disk'[n]["pkinfo"] = Absent
      /\ \A n \in Name \ plan : disk'[n] = disk[n]
  BY <1>b, <1>c, <1>d DEF Pieces, Installer
<1>g. backup' \subseteq Entry /\ \A b \in backup' : b.name \in plan
  BY <1>a, <1>b DEF Keep, Typed, Entry, ControlInv
<1>h. "pkinfo" \in files => "pkinfo" \in files' \/ disk'[current]["pkinfo"] = Absent
  BY <1>a, <1>b, <1>d DEF Present
<1>i. files' \subseteq Pieces  BY <1>a DEF Typed
<1> QED  BY <1>b, <1>e, <1>f, <1>g, <1>h, <1>i, FilesStep

\* RecordInstalled preserves the invariant.
LEMMA RecordInstalledStep ==
  ASSUME IInv, RecordInstalled
  PROVE  IInv'
<1> USE LegacyAssumption DEF IInv
<1> DEFINE New == Record(FormatOf(current), command.version, Shipped(FormatOf(current)), TRUE,
                         FormatOf(current) = "hardcore", TRUE)
<1>a. /\ pc = "place" /\ command.kind = "install" /\ current \in plan /\ current \in Name
      /\ current \notin todo /\ pc' = "act" /\ files = {}
      /\ UNCHANGED << disk, outside, db, command, plan, native, scan, todo, draft, files, backup,
                      changed, erased, last, quiet, unread, gone >>
      /\ Acting /\ Acting' /\ ~Importing' /\ ~Reading' /\ Doing' = {} /\ Doing = {current}
      /\ erased = {} /\ command.version \in Content
  BY DEF RecordInstalled, ControlInv, Doing, Typed, Command, Content, system, chosen, history,
     Acting, Importing, Reading
<1>b. New \in Package /\ New # None
  <2>1. Shipped(FormatOf(current)) \in SUBSET Pieces /\ FormatOf(current) \in Formats
    BY DEF Shipped, FormatOf, Pieces, Installer, Formats
  <2>2. (FormatOf(current) = "hardcore") \in BOOLEAN  OBVIOUS
  <2>3. New \in Package  BY <1>a, <2>1, <2>2, RecordType, Zenon
  <2> QED  BY <2>3
<1>c. /\ New.format = (IF current \in native THEN "yspkg" ELSE "hardcore")
      /\ current \notin native => "pkinfo" \in New.owns
  BY DEF Record, Shipped, FormatOf, Pieces, Installer
<1>d. \A n \in Name : work'[n] = IF n \in Replaced THEN None
                                 ELSE IF n = current THEN New ELSE work[n]
  BY DEF RecordInstalled
<1>e. work' \in Records
  <2>1. work' = [n \in Name |-> IF n \in Replaced THEN None
                                ELSE IF n = current THEN New ELSE work[n]]
    BY DEF RecordInstalled
  <2> HIDE DEF New
  <2> QED  BY <1>b, <2>1 DEF Typed, Records
<1>f. \A n \in Replaced : current \in native /\ n \in Replaces[current]  BY DEF Replaced
<1> HIDE DEF New
<1>1. Typed'
  <2>1. changed' \in Nat /\ backup' \subseteq Entry  BY <1>a DEF Typed
  <2> QED  BY <1>a, <1>e, <2>1 DEF Typed, Command, Records
<1>2. ControlInv'  BY <1>a DEF ControlInv
<1>3. OwnsPkinfo(db)'  BY <1>a DEF OwnsPkinfo, Legacy, Native
<1>4. OwnsPkinfo(work)'
  <2>1. ASSUME NEW n \in Name, Legacy(work', n), work'[n].whole  PROVE "pkinfo" \in work'[n].owns
    BY <1>b, <1>c, <1>d, <2>1 DEF OwnsPkinfo, Legacy, Native
  <2> QED  BY <2>1 DEF OwnsPkinfo, Legacy, Native
<1>5. ReadingInv'  BY <1>a DEF ReadingInv
<1>6. ImportInv'
  <2>1. ASSUME NEW n \in Name, Native(db[n]), work'[n] # db[n]  PROVE Touched(n)
    <3>1. CASE n \in Replaced  BY <1>a, <1>f, <3>1 DEF Touched, Typed
    <3>2. CASE n = current  BY <1>a, <3>2 DEF Touched
    <3>3. CASE n \notin Replaced /\ n # current
      <4>1. work[n] # db[n]  BY <1>d, <2>1, <3>3
      <4> QED  BY <1>a, <2>1, <4>1 DEF ImportInv
    <3> QED  BY <3>1, <3>2, <3>3
  <2>2. \A n \in Name : (Native(db[n]) /\ work[n] # db[n] => Touched(n))'
    BY <1>a, <2>1 DEF Native, Touched
  <2> QED  BY <1>a, <2>2 DEF ImportInv
<1>7. GoneInv'
  <2>1. \A n \in gone : n # current /\ n \in Name  BY <1>a DEF GoneInv, Typed
  <2>2. \A n \in gone : work'[n] = None  BY <1>d, <2>1 DEF GoneInv
  <2> QED  BY <1>a, <2>2 DEF GoneInv
<1>8. DepsInv'
  <2>1. Installed(work) \cap Firm \subseteq Installed(work')
    BY <1>a, <1>b, <1>d, <1>f DEF Installed, Firm
  <2>2. current \in Firm => current \in Installed(work')
    BY <1>a, <1>b, <1>d, <1>f DEF Installed, Firm
  <2>3. Left' = todo /\ Left = todo \cup {current}  BY <1>a DEF Left
  <2>4. \A n \in Name : Needs(n) \subseteq Firm  BY DEF Needs
  <2>5. ASSUME NEW n \in Name, Relies(work', n)
        PROVE  Needs(n) \subseteq Installed(work') \cup todo
    <3>1. work'[n] # None /\ work'[n].format = "hardcore"  BY <2>5 DEF Relies
    <3>2. CASE n = current
      <4>1. n \notin native  BY <1>a, <1>c, <1>d, <3>1, <3>2
      <4>2. Needs(n) \subseteq Installed(work) \cup Left
        BY <1>a, <2>3, <3>2, <4>1 DEF DepsInv
      <4> QED  BY <2>1, <2>2, <2>3, <2>4, <4>2
    <3>3. CASE n # current
      <4>1. Relies(work, n)  BY <1>d, <2>5, <3>3 DEF Relies
      <4>2. Needs(n) \subseteq Installed(work) \cup Left  BY <1>a, <4>1 DEF DepsInv, Closed
      <4> QED  BY <2>1, <2>2, <2>3, <2>4, <4>2
    <3> QED  BY <3>2, <3>3
  <2>6. ASSUME NEW n \in todo \ native
        PROVE  Needs(n) \subseteq Installed(work') \cup todo
    <3>1. Needs(n) \subseteq Installed(work) \cup Left  BY <1>a, <2>3 DEF DepsInv
    <3>2. n \in Name  BY DEF Typed
    <3> QED  BY <2>1, <2>2, <2>3, <2>4, <3>1, <3>2
  <2>7. Closed(work, Left)'
    <3>1. \A n \in Name : Relies(work, n)' => Needs(n)' \subseteq Installed(work)' \cup Left'
      BY <2>3, <2>5 DEF Relies, Needs, Firm, Installed
    <3> QED  BY <3>1 DEF Closed
  <2>8. \A n \in (Left \ native)' : Needs(n)' \subseteq (Installed(work) \cup Left)'
    BY <1>a, <2>3, <2>6 DEF Needs, Firm, Installed
  <2>9. Closed(db, {})'  BY <1>a DEF DepsInv, Closed, Relies, Installed, Needs, Firm
  <2> QED  BY <1>a, <2>7, <2>8, <2>9 DEF DepsInv
<1>9. SyncFinds'  BY <1>a DEF SyncFinds, ControlInv
<1> QED  BY <1>1, <1>2, <1>3, <1>4, <1>5, <1>6, <1>7, <1>8, <1>9

\* StartRemove preserves the invariant.
LEMMA StartRemoveStep ==
  ASSUME IInv, StartRemove
  PROVE  IInv'
<1> USE LegacyAssumption DEF IInv
<1>a. PICK n \in todo :
        /\ current' = n /\ todo' = todo \ {n} /\ files' = work[n].owns
        /\ disk' = IF work[n].format = "hardcore" /\ work[n].hook
                   THEN [disk EXCEPT ![n] = [f \in Pieces |->
                                               IF f \in Scripted[n] THEN Absent ELSE @[f]]]
                   ELSE disk
  BY DEF StartRemove
<1>b. /\ pc = "act" /\ command.kind = "remove" /\ pc' = "unlink" /\ n \in plan /\ n \in Name
      /\ UNCHANGED << outside, db, command, plan, native, work, scan, draft, backup, changed,
                      erased, last, quiet, unread, gone >>
      /\ Acting /\ Acting' /\ ~Importing' /\ ~Reading' /\ Doing' = {n} /\ Left' = Left
  BY <1>a DEF StartRemove, chosen, history, Acting, Importing, Reading, Doing, Left, Typed
<1>c. work[n] \in Package
  <2>1. work[n] # None  BY <1>a, <1>b DEF DepsInv, Installed, Left
  <2> QED  BY <1>b, <2>1 DEF Typed, Records
<1>d. disk' \in [Name -> [Pieces -> Content]]  BY <1>a, <1>b DEF Typed, Content
<1>e. \A m \in Name : disk[m]["pkinfo"] = Absent => disk'[m]["pkinfo"] = Absent
  BY <1>a, <1>b DEF Typed, Pieces, Installer
<1>1. Typed'  BY <1>a, <1>b, <1>c, <1>d DEF Typed, Records, Command, Entry, Package
<1>2. ControlInv'  BY <1>a, <1>b DEF ControlInv
<1>3. OwnsPkinfo(db)'  BY <1>b DEF OwnsPkinfo, Legacy, Native
<1>4. OwnsPkinfo(work)'  BY <1>b DEF OwnsPkinfo, Legacy, Native
<1>5. ReadingInv'  BY <1>b DEF ReadingInv
<1>6. ImportInv'  BY <1>b DEF ImportInv, Native, Touched
<1>7. GoneInv'
  <2>1. Legacy(work, n) /\ work[n].whole => "pkinfo" \in files'
    BY <1>a, <1>b DEF OwnsPkinfo
  <2> QED  BY <1>a, <1>b, <1>e, <2>1 DEF GoneInv, Legacy, Native, Typed
<1>8. DepsInv'
  BY <1>b DEF DepsInv, Closed, Relies, Installed, Needs, Firm
<1>9. SyncFinds'  BY <1>b DEF SyncFinds, ControlInv
<1> QED  BY <1>1, <1>2, <1>3, <1>4, <1>5, <1>6, <1>7, <1>8, <1>9

\* RecordRemoved preserves the invariant.
LEMMA RecordRemovedStep ==
  ASSUME IInv, RecordRemoved
  PROVE  IInv'
<1> USE LegacyAssumption DEF IInv
<1>a. /\ pc = "unlink" /\ files = {} /\ command.kind = "remove"
      /\ current \in plan /\ current \in Name /\ current \notin todo
      /\ pc' = "act" /\ work' = [work EXCEPT ![current] = None]
      /\ erased' = IF Native(work[current]) \/ ~work[current].whole
                   THEN erased ELSE erased \cup {current}
      /\ UNCHANGED << disk, outside, db, command, plan, native, scan, todo, draft, files,
                      backup, changed, last, quiet, unread, gone >>
      /\ Acting /\ Acting' /\ ~Importing' /\ ~Reading' /\ Doing' = {} /\ Doing = {current}
  BY DEF RecordRemoved, ControlInv, Doing, Typed, Command, system, chosen, history, Acting,
     Importing, Reading
<1>b. /\ work' \in Records /\ work'[current] = None
      /\ \A n \in Name \ {current} : work'[n] = work[n]
  BY <1>a DEF Typed, Records
<1>c. Installed(work') = Installed(work) \ {current}  BY <1>a, <1>b DEF Installed
<1>d. current \in Installed(work)  BY <1>a DEF DepsInv, Left
<1>1. Typed'  BY <1>a, <1>b DEF Typed, Records, Command, Entry
<1>2. ControlInv'  BY <1>a DEF ControlInv
<1>3. OwnsPkinfo(db)'  BY <1>a DEF OwnsPkinfo, Legacy, Native
<1>4. OwnsPkinfo(work)'  BY <1>a, <1>b DEF OwnsPkinfo, Legacy, Native
<1>5. ReadingInv'  BY <1>a DEF ReadingInv
<1>6. ImportInv'
  <2>1. \A n \in Name : Native(db[n]) /\ work'[n] # db[n] => Touched(n)
    BY <1>a, <1>b DEF ImportInv, Touched
  <2> QED  BY <1>a, <2>1 DEF ImportInv, Native, Touched
<1>7. GoneInv'
  BY <1>a, <1>b, <1>d DEF GoneInv, Legacy, Installed, Typed
<1>8. DepsInv'
  <2>1. ASSUME NEW n \in Name \ plan, Relies(work', n)
        PROVE  Needs(n) \subseteq Installed(work') \ plan
    <3>1. Relies(work, n)  BY <1>a, <1>b, <2>1 DEF Relies
    <3> QED  BY <1>a, <1>c, <3>1 DEF DepsInv
  <2>2. plan \cap Installed(work') = todo  BY <1>a, <1>c DEF DepsInv, Left
  <2>3. Closed(db, {})'  BY <1>a DEF DepsInv, Closed, Relies, Installed, Needs, Firm
  <2>4. \A n \in (Name \ plan)' : Relies(work, n)' => Needs(n)' \subseteq (Installed(work) \ plan)'
    BY <1>a, <2>1 DEF Relies, Needs, Firm, Installed
  <2>5. (plan \cap Installed(work) = Left)'  BY <1>a, <2>2 DEF Installed, Left
  <2> QED  BY <1>a, <2>3, <2>4, <2>5 DEF DepsInv
<1>9. SyncFinds'  BY <1>a DEF SyncFinds, ControlInv
<1> QED  BY <1>1, <1>2, <1>3, <1>4, <1>5, <1>6, <1>7, <1>8, <1>9

\* Save preserves the invariant.
LEMMA SaveStep ==
  ASSUME IInv, Save
  PROVE  IInv'
<1> USE LegacyAssumption DEF IInv
<1>1. /\ pc = "act" /\ todo = {} /\ db' = work /\ gone' = gone \cup (erased \cap quiet)
      /\ EndWith(IF command.kind = "sync" THEN "synced" ELSE "done")
      /\ UNCHANGED << disk, outside, quiet, unread >>
  BY DEF Save, system
<1>2. work \in Records /\ OwnsPkinfo(work) /\ disk \in [Name -> [Pieces -> Content]]
  BY DEF Typed
<1>3. Closed(work, {})  BY <1>1, SavedIsClosed
<1>4. gone' \subseteq Name /\ \A n \in gone' : disk[n]["pkinfo"] = Absent /\ work[n] = None
  BY <1>1 DEF Typed, GoneInv
<1>5. command.kind = "sync" => \A n \in quiet \ unread : Found(work, n)
  BY <1>1 DEF ImportInv, Acting
<1>6. CASE command.kind = "sync"
  BY <1>1, <1>2, <1>3, <1>4, <1>5, <1>6, EndStep
<1>7. CASE command.kind # "sync"
  BY <1>1, <1>2, <1>3, <1>4, <1>7, EndStep
<1> QED  BY <1>6, <1>7

\* Fail preserves the invariant.
LEMMA FailStep ==
  ASSUME IInv, Fail
  PROVE  IInv'
<1> USE LegacyAssumption DEF IInv
<1>1. /\ EndWith("failed") /\ disk' = Restored /\ UNCHANGED << outside, quiet, unread, gone >>
      /\ db' = db \/ (pc = "act" /\ todo = {} /\ db' = work)
  BY DEF Fail
<1>2. Restored \in [Name -> [Pieces -> Content]]
  <2>1. ASSUME NEW n \in Name, NEW f \in Pieces,
               \E b \in backup : b.name = n /\ b.file = f
        PROVE  (CHOOSE b \in backup : b.name = n /\ b.file = f).was \in Content
    <3>1. (CHOOSE b \in backup : b.name = n /\ b.file = f) \in backup  BY <2>1
    <3> QED  BY <3>1 DEF Typed, Entry
  <2> QED  BY <2>1 DEF Restored, Typed
<1>3. ASSUME NEW n \in gone  PROVE Restored[n]["pkinfo"] = Absent
  <2>1. n \notin plan /\ n \in Name /\ disk[n]["pkinfo"] = Absent  BY DEF GoneInv, Typed
  <2>2. ~ \E b \in backup : b.name = n  BY <2>1 DEF ControlInv
  <2> QED  BY <2>1, <2>2 DEF Restored, Pieces, Installer
<1>4. CASE db' = db  BY <1>1, <1>2, <1>3, <1>4, UnsavedStep
<1>5. CASE pc = "act" /\ todo = {} /\ db' = work
  <2>1. Closed(work, {})  BY <1>5, SavedIsClosed
  <2>2. gone' \subseteq Name /\ \A n \in gone' : disk'[n]["pkinfo"] = Absent /\ db'[n] = None
    BY <1>1, <1>3, <1>5 DEF Typed, GoneInv
  <2> QED  BY <1>1, <1>2, <1>5, <2>1, <2>2, EndStep DEF Typed
<1> QED  BY <1>1, <1>4, <1>5

\* UninstallFails preserves the invariant.
LEMMA UninstallFailsStep ==
  ASSUME IInv, UninstallFails
  PROVE  IInv'
<1> USE LegacyAssumption DEF IInv
<1>1. EndWith("failed") /\ UNCHANGED << outside, db, quiet, unread, gone >>
  BY DEF UninstallFails
<1>2. PICK n \in todo : \E lost \in SUBSET Scripted[n] :
        disk' = [disk EXCEPT ![n] = [f \in Pieces |-> IF f \in lost THEN Absent ELSE @[f]]]
  BY DEF UninstallFails
<1>3. n \in Name  BY DEF Typed
<1>4. disk' \in [Name -> [Pieces -> Content]]  BY <1>2, <1>3 DEF Typed, Content
<1>5. \A m \in Name : disk[m]["pkinfo"] = Absent => disk'[m]["pkinfo"] = Absent
  BY <1>2, <1>3 DEF Typed, Pieces, Installer
<1> QED  BY <1>1, <1>4, <1>5, UnsavedStep DEF GoneInv, Typed

\* Die preserves the invariant.
LEMMA DieStep ==
  ASSUME IInv, Die
  PROVE  IInv'
<1>1. EndWith("died") /\ UNCHANGED << disk, outside, db, quiet, unread, gone >>
  BY DEF Die, system
<1> QED  BY <1>1, UnsavedStep DEF IInv, Typed, GoneInv

\* A step of the legacy tool or the administrator preserves the invariant.
LEMMA OutsideStep ==
  ASSUME IInv, NEW n \in Name, Outside(n)
  PROVE  IInv'
<1> USE LegacyAssumption DEF IInv
<1>a. Touch(n)
  BY DEF Outside, OutsideBegin, OutsideWrite, OutsideDelete, OutsideEnd, Edit
<1>b. /\ quiet' = quiet \ {n} /\ gone' = gone \ {n}
      /\ UNCHANGED << db, pc, command, plan, native, work, scan, todo, current, draft, files,
                      backup, changed, erased, last, unread >>
      /\ Importing' = Importing /\ Reading' = Reading /\ Acting' = Acting
      /\ Doing' = Doing /\ Left' = Left
  BY <1>a DEF Touch, local, chosen, reading, Importing, Reading, Acting, Doing, Left
<1>c. /\ disk' \in [Name -> [Pieces -> Content]]
      /\ outside' \in [Name -> Version \cup {Absent, Removing}]
      /\ \A m \in Name \ {n} : disk'[m] = disk[m]
  <2> DEFINE Changes == /\ disk' \in [Name -> [Pieces -> Content]]
                        /\ outside' \in [Name -> Version \cup {Absent, Removing}]
                        /\ \A m \in Name \ {n} : disk'[m] = disk[m]
  <2>1. ASSUME NEW v \in Version \cup {Removing}, OutsideBegin(n, v)  PROVE Changes
    BY <2>1 DEF Typed, OutsideBegin
  <2>2. ASSUME NEW f \in Pieces, OutsideWrite(n, f)  PROVE Changes
    <3>1. outside[n] \in Content  BY <2>2 DEF Content, OutsideWrite
    <3> QED  BY <2>2, <3>1, WriteType DEF Typed, OutsideWrite
  <2>3. ASSUME NEW f \in Pieces, OutsideDelete(n, f)  PROVE Changes
    BY <2>3, WriteType DEF Typed, OutsideDelete, Content
  <2>4. CASE OutsideEnd(n)  BY <2>4 DEF Typed, OutsideEnd
  <2>5. CASE Edit(n)
    BY <2>5, WriteType DEF Typed, Edit, Content, Pieces
  <2> QED  BY <2>1, <2>2, <2>3, <2>4, <2>5 DEF Outside
<1>1. Typed'  BY <1>b, <1>c DEF Typed, Records, Command, Entry
<1>2. ControlInv'  BY <1>b DEF ControlInv
<1>3. OwnsPkinfo(db)'  BY <1>b DEF OwnsPkinfo, Legacy, Native
<1>4. OwnsPkinfo(work)'  BY <1>b DEF OwnsPkinfo, Legacy, Native
<1>5. ReadingInv'  BY <1>b, <1>c DEF ReadingInv, Native
<1>6. ImportInv'
  <2>1. \A m \in quiet' : m \in quiet /\ m \in Name /\ disk'[m] = disk[m]  BY <1>b, <1>c DEF Typed
  <2>2. Importing => Imported'
    <3>1. ASSUME Importing  PROVE Imported  BY <3>1 DEF ImportInv
    <3> QED  BY <1>b, <2>1, <3>1 DEF Imported, Found, Native, Legacy
  <2>3. \A m \in Name : (Native(db[m]) /\ work[m] # db[m] => Touched(m))' =
                        (Native(db[m]) /\ work[m] # db[m] => Touched(m))
    BY <1>b DEF Native, Touched
  <2>4. Acting /\ command.kind = "sync" => \A m \in (quiet \ unread)' : Found(work, m)'
    BY <1>b, <2>1 DEF ImportInv, Found, Native
  <2> QED  BY <1>b, <2>2, <2>3, <2>4 DEF ImportInv
<1>7. GoneInv'  BY <1>b, <1>c DEF GoneInv, Legacy, Native, Typed
<1>8. DepsInv'
  BY <1>b DEF DepsInv, Closed, Relies, Installed, Needs, Firm
<1>9. SyncFinds'  BY <1>b, <1>c DEF SyncFinds, Native, Typed
<1> QED  BY <1>1, <1>2, <1>3, <1>4, <1>5, <1>6, <1>7, <1>8, <1>9

-----------------------------------------------------------------------------
\* Every step preserves the invariant, and every reachable state satisfies it.
LEMMA InitInv == Init => IInv
<1> SUFFICES ASSUME Init PROVE IInv  OBVIOUS
<1> USE LegacyAssumption DEF Init
<1>1. Typed
  BY DEF Typed, Records, Command, NoCommand, Formats, Content
<1>2. ControlInv  BY DEF ControlInv, Acting, Doing, NoCommand
<1>3. OwnsPkinfo(db) /\ OwnsPkinfo(work)  BY DEF OwnsPkinfo, Legacy
<1>4. ReadingInv  BY DEF ReadingInv, Reading
<1>5. ImportInv  BY DEF ImportInv, Acting, Importing, Reading
<1>6. GoneInv  BY DEF GoneInv
<1>7. DepsInv  BY DEF DepsInv, Acting, Closed, Relies
<1>8. SyncFinds  BY DEF SyncFinds
<1> QED  BY <1>1, <1>2, <1>3, <1>4, <1>5, <1>6, <1>7, <1>8 DEF IInv

\* A step that changes nothing does.
LEMMA StutterStep ==
  ASSUME IInv, UNCHANGED vars
  PROVE  IInv'
<1> USE DEF IInv
<1>0. /\ UNCHANGED << disk, outside, db, pc, command, plan, native, work, scan, todo, current,
                      draft, files, backup, changed, erased, last, quiet, unread, gone >>
      /\ Importing' = Importing /\ Reading' = Reading /\ Acting' = Acting
      /\ Doing' = Doing /\ Left' = Left
  BY DEF vars, system, local, chosen, reading, history, Importing, Reading, Acting, Doing, Left
<1>1. Typed'  BY <1>0 DEF Typed, Records, Command, Entry
<1>2. ControlInv'  BY <1>0 DEF ControlInv
<1>3. OwnsPkinfo(db)' /\ OwnsPkinfo(work)'  BY <1>0 DEF OwnsPkinfo, Legacy, Native
<1>4. ReadingInv'  BY <1>0 DEF ReadingInv, Native
<1>5. ImportInv'  BY <1>0 DEF ImportInv, Imported, Found, Native, Legacy, Touched
<1>6. GoneInv'  BY <1>0 DEF GoneInv, Legacy, Native
<1>7. DepsInv'  BY <1>0 DEF DepsInv, Closed, Relies, Installed, Needs, Firm
<1>8. SyncFinds'  BY <1>0 DEF SyncFinds, Native
<1> QED  BY <1>1, <1>2, <1>3, <1>4, <1>5, <1>6, <1>7, <1>8

LEMMA StepInv == IInv /\ [Next]_vars => IInv'
<1> SUFFICES ASSUME IInv, [Next]_vars PROVE IInv'  OBVIOUS
<1>1. CASE UNCHANGED vars  BY <1>1, StutterStep
<1>2. CASE SyncLegacy \/ InstallLocal \/ RemoveMany
  <2>1. CASE SyncLegacy  BY <2>1, BeginStep DEF SyncLegacy, Formats
  <2>2. CASE InstallLocal
    <3>1. PICK names \in SUBSET Name \ {{}}, format \in {"hardcore", "yspkg"}, v \in Archived :
            Begin("install", names, format, v)
      BY <2>2 DEF InstallLocal
    <3>2. v \in Version \cup {Absent} /\ format \in Formats  BY LegacyAssumption DEF Formats
    <3> QED  BY <3>1, <3>2, BeginStep
  <2>3. CASE RemoveMany  BY <2>3, BeginStep DEF RemoveMany, Formats
  <2> QED  BY <1>2, <2>1, <2>2, <2>3
<1>3. CASE Import
  BY <1>3, ReadPkinfoStep, ReadScriptStep, ReadAgainStep, ReadPathsStep, WalkStep, HashFileStep,
     RecordImportedStep DEF Import
<1>4. CASE ReadFails \/ Decide  BY <1>4, ReadFailsStep, DecideStep
<1>5. CASE StartInstall \/ PlaceFile \/ RecordInstalled
  BY <1>5, StartInstallStep, PlaceFileStep, RecordInstalledStep
<1>6. CASE StartRemove \/ UnlinkFile \/ RecordRemoved \/ Save
  BY <1>6, StartRemoveStep, UnlinkFileStep, RecordRemovedStep, SaveStep
<1>7. CASE Fail \/ UninstallFails \/ Die  BY <1>7, FailStep, UninstallFailsStep, DieStep
<1>8. ASSUME NEW n \in Name, Outside(n)  PROVE IInv'  BY <1>8, OutsideStep
<1> QED  BY <1>1, <1>2, <1>3, <1>4, <1>5, <1>6, <1>7, <1>8 DEF Next

LEMMA SpecInv == Spec => []IInv
BY InitInv, StepInv, PTL DEF Spec

-----------------------------------------------------------------------------
\* A sync that succeeded has found every package the legacy tool had installed, however
\* the tool works beside it between the readings of a directory, but for those it passed
\* over after a call that failed (syncLegacyPackages).
THEOREM SyncFindsAll == Spec => []SyncFinds
<1>1. IInv => SyncFinds  BY DEF IInv
<1> QED  BY <1>1, SpecInv, PTL

\* The import does not bring back what a removal took, for any number of commands and
\* imports in between: a record made of a package nobody touched meanwhile owns its pkinfo,
\* so that the removal takes the very file the import goes by (HardcoreInstalledManifest).
THEOREM RemovalIsFinal == Spec => []RemovedStaysRemoved
<1>1. IInv => RemovedStaysRemoved  BY DEF IInv, GoneInv, RemovedStaysRemoved
<1> QED  BY <1>1, SpecInv, PTL

\* What a legacy package installed by yspm depends on without an alternative stays in the
\* database, for any graph of dependencies, unless a native package may replace it or
\* stand for it (legacyDependenciesSatisfied, resolve, RemovalAllowed).
THEOREM DependenciesStay == Spec => []DependenciesRecorded
<1>1. ASSUME IInv  PROVE DependenciesRecorded
  <2>1. ASSUME NEW n \in Installed(db), db[n].checksum, NEW x \in Firm, dependsOn(db, n, x)
        PROVE  db[x] # None
    <3>1. n \in Name /\ Relies(db, n)  BY <2>1 DEF Installed, Relies, dependsOn
    <3>2. x \in Needs(n)  BY <2>1 DEF Needs, dependsOn
    <3> QED  BY <1>1, <3>1, <3>2 DEF IInv, DepsInv, Closed, Installed
  <2> QED  BY <2>1 DEF DependenciesRecorded
<1> QED  BY <1>1, SpecInv, PTL

\* An import never replaces or drops the record of a native package; only the packages of
\* a plan do, in their own place or that of those they replace.
THEOREM NativeIsKept == Spec => NativeKept
<1> DEFINE Kept == \A n \in Name : Native(db[n]) /\ db'[n] # db[n] =>
                     n \in plan \/ \E m \in native : n \in Replaces[m]
<1>1. ASSUME IInv, [Next]_vars  PROVE Kept
  <2>1. CASE db' = db  BY <2>1
  <2>2. CASE pc = "act" /\ db' = work
    BY <1>1, <2>2 DEF IInv, ImportInv, Touched
  <2>3. db' = db \/ (pc = "act" /\ db' = work)
    BY <1>1 DEF vars, system, Next, SyncLegacy, InstallLocal, RemoveMany, Begin, Import,
      ReadPkinfo, ReadScript, ReadAgain, ReadPaths, Walk, HashFile, RecordImported, ReadFails,
      Decide, StartInstall, PlaceFile, RecordInstalled, StartRemove, UnlinkFile,
      RecordRemoved, Save, Fail, UninstallFails, Die, Outside, OutsideBegin,
      OutsideWrite, OutsideDelete, OutsideEnd, Edit, Touch
  <2> QED  BY <2>1, <2>2, <2>3
<1>2. IInv /\ [Next]_vars => [Kept]_vars  BY <1>1
<1> QED  BY <1>2, SpecInv, PTL DEF Spec, NativeKept

=============================================================================
