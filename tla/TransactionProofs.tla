------------------------- MODULE TransactionProofs -------------------------
(***************************************************************************)
(* Theorems about Transaction for every set of packages, files, manifests, *)
(* plans and removals and every number of transactions, edits, I/O errors  *)
(* and crashes; and, as long as no I/O call fails and the process does not *)
(* die, that the engine implements AtomicFiles: files and package table    *)
(* change together, at the database write, whatever hook, check or service *)
(* makes a transaction fail.                                               *)
(***************************************************************************)
EXTENDS Transaction, TLAPS

\* Where a transaction keeps what the root held at f.
Backups(f) == {Save(f)} \cup UNION {{Backup(p, f), Removed(p, f)} : p \in Pkg}

InLoop == InPackage \cup {"prepare", "validate", "save"}

\* The invariant is inductive as a whole; its parts are: every variable has
\* its type,
Entry == [target : RootPlaces, backup : Place \cup {None}]
Typed ==
    /\ fs \in [Place -> Content]
    /\ db \in [Pkg -> Nat] /\ mem \in [Pkg -> Nat]
    /\ \A p \in Pkg : {db[p], mem[p]} \subseteq {0} \cup DOMAIN Manifest[p]
    /\ record \in {"none", "running", "success", "failed"}
    /\ enabled \subseteq Pkg /\ oneDevice \in Devices /\ lossy \in BOOLEAN
    /\ kind \in InstallKinds \cup {"remove"}
    /\ at \in Nat /\ i \in Nat
    /\ rb \in Seq(Entry)
    /\ before \in [Path -> Content]
    /\ pc \in InPackage \cup Outside

\* Where the engine is: in a loop over the packages of its task, in the calls
\* of its kind of transaction, with the outcome it has reached.
PlaceInv ==
    /\ task \in Seq(Pkg \X Nat)
    /\ kind \in InstallKinds =>
          /\ task \in Seq(Shipped)
          /\ \A j, k \in DOMAIN task : task[j][1] = task[k][1] => j = k
    /\ pc \in InPackage => at \in DOMAIN task /\ i \in 1 .. Len(Files(Current, Version)) + 1
    /\ pc \in {"prepare", "validate"} =>
          task # <<>> /\ at = 1 /\ i = 1 /\ rb = <<>>
    /\ pc \in {"prepare", "validate", "preinstall", "commit", "place"} => kind \in InstallKinds
    /\ pc \in {"preremove", "remove"} => kind = "remove"
    /\ pc \in {"preinstall", "preremove"} => i = 1
    /\ pc = "place" => ~AtEnd /\ ~Exists(Root(File))
    /\ pc \in InLoop \cup {"finalize"} => outcome = "success"
    /\ pc = "rollback" => outcome = "failed"
    /\ outcome \in {"success", "failed"}

\* The first entry of the rollback list for a file, and a file without one.
First(f, k) == /\ k \in DOMAIN rb /\ rb[k].target = Root(f)
               /\ \A j \in 1 .. k - 1 : rb[j].target # Root(f)
Untouched(f) == \A k \in DOMAIN rb : rb[k].target # Root(f)

\* No two entries share a backup: what an install has backed up are files it
\* is past, and a removal leaves nothing to move a second time.
ListInv ==
    /\ \A k \in DOMAIN rb : \E f \in Path :
          rb[k].target = Root(f) /\ rb[k].backup \in {None} \cup Backups(f)
    /\ \A f \in Path : Untouched(f) \/ \E k \in DOMAIN rb : First(f, k)
    /\ \A j, k \in DOMAIN rb : rb[j].backup = rb[k].backup /\ rb[j].backup # None => j = k
    /\ pc \in InPackage /\ kind \in InstallKinds =>
          \A k \in DOMAIN rb : rb[k].backup # None =>
             \E j \in 1 .. at, f \in Path :
                /\ rb[k].backup = Backup(task[j][1], f)
                /\ j = at => \E n \in 1 .. i : /\ f = Files(Current, Version)[n]
                                               /\ n = i => pc = "place"
    /\ pc \in InPackage /\ kind = "remove" =>
          \A k \in DOMAIN rb : ~Exists(rb[k].target)

\* What the first entry for a file keeps is what the file held before; a file
\* without one is as it was, or has been put back.
Exact == ~lossy /\ oneDevice
Kept(f) == before[f] # None => \E l \in Copies(f) : fs[l] = before[f]
UndoInv ==
    /\ Uncommitted =>
         \A f \in Path :
            /\ \A k \in DOMAIN rb : First(f, k) =>
                  IF rb[k].backup = None THEN before[f] = None
                                         ELSE fs[rb[k].backup] = before[f]
            /\ Untouched(f) => Kept(f)
            /\ Untouched(f) /\ (pc \in InLoop \/ Exact) => fs[Root(f)] = before[f]
    /\ Failed \/ (pc = "finish" /\ outcome = "failed") =>
         (kind \in InstallKinds => rb = <<>>)

\* Only the first backup of a file can be the administrator's, and a file the
\* transaction has touched is not, until it is put back.
UserInv ==
    /\ \A p \in Pkg, f \in Path : fs[Stage(p, f)] # User
    /\ pc # "idle" =>
         /\ \A k \in DOMAIN rb : fs[rb[k].target] # User
         /\ \A k \in DOMAIN rb, f \in Path :
               rb[k].target = Root(f) /\ ~First(f, k) /\ rb[k].backup # None =>
                   fs[rb[k].backup] # User

IInv == Typed /\ PlaceInv /\ ListInv /\ UndoInv /\ UserInv

-----------------------------------------------------------------------------
(* Places, entries and the steps of the loop.                              *)

\* Root places differ by their kind and their path.
LEMMA RootPlacesApart ==
  ASSUME NEW f \in Path, NEW g \in Path
  PROVE  /\ Root(f) = Root(g) => f = g
         /\ Save(f) = Save(g) => f = g
         /\ Root(f) # Save(g) /\ Root(f) # Dist(g) /\ Save(f) # Dist(g)
         /\ {Root(f), Dist(f), Save(f)} \subseteq RootPlaces
BY DEF Root, Save, Dist, RootPlaces

\* Places in the staging area differ by their kind, their package and path.
LEMMA StagingPlacesApart ==
  ASSUME NEW f \in Path, NEW g \in Path, NEW p \in Pkg, NEW q \in Pkg
  PROVE  /\ Backup(p, f) = Backup(q, g) => f = g /\ p = q
         /\ Removed(p, f) = Removed(q, g) => f = g
         /\ Backup(p, f) # Removed(q, g) /\ Backup(p, f) # Stage(q, g)
         /\ Removed(p, f) # Stage(q, g)
         /\ {Stage(p, f), Backup(p, f), Removed(p, f)} \subseteq StagingPlaces
BY DEF Backup, Removed, Stage, StagingPlaces

\* The root and the staging area are apart.
LEMMA AreasApart == RootPlaces \cap StagingPlaces = {}
BY DEF RootPlaces, StagingPlaces

\* No place of one file is a place of another, or of another use.
LEMMA PathsApart ==
  ASSUME NEW f \in Path, NEW g \in Path
  PROVE  /\ Backups(f) \subseteq Place
         /\ Root(f) \in RootPlaces /\ Root(f) \in Place /\ Root(f) \notin Backups(g)
         /\ Dist(f) \in Place /\ Dist(f) \notin Backups(g) /\ Dist(f) # Root(g)
         /\ f # g => Backups(f) \cap Backups(g) = {} /\ Root(f) # Root(g)
         /\ Save(f) \in Backups(f)
         /\ \A p \in Pkg : /\ Backup(p, f) \in Backups(f) /\ Removed(p, f) \in Backups(f)
                           /\ Stage(p, f) \in Place
                           /\ Stage(p, f) \notin Backups(g)
                           /\ Stage(p, f) # Root(g)
BY RootPlacesApart, StagingPlacesApart, AreasApart DEF Backups, Place

\* A staged file is kept apart from everything a Root, Dist or Save names.
LEMMA StageApart ==
  ASSUME NEW f \in Path, NEW g \in Path, NEW p \in Pkg
  PROVE  /\ Stage(p, f) # Dist(g) /\ Stage(p, f) # Root(g) /\ Stage(p, f) # Save(g)
         /\ \A q \in Pkg : Stage(p, f) # Backup(q, g) /\ Stage(p, f) # Removed(q, g)
BY RootPlacesApart, StagingPlacesApart, AreasApart

\* Copies are the root and the backups.
LEMMA CopiesAre ==
  ASSUME NEW f \in Path
  PROVE  Copies(f) = {Root(f)} \cup Backups(f)
BY DEF Copies, Backups

\* None is the backup of no entry that has one.
LEMMA NoneIsNoPlace == None \notin Place
BY TransactionAssumption

\* What an entry appended to the list changes.
LEMMA AppendEntry ==
  ASSUME rb \in Seq(Entry), NEW e \in Entry, rb' = Append(rb, e)
  PROVE  /\ rb' \in Seq(Entry)
         /\ DOMAIN rb' = DOMAIN rb \cup {Len(rb) + 1} /\ Len(rb) + 1 \notin DOMAIN rb
         /\ \A k \in DOMAIN rb : rb'[k] = rb[k]
         /\ rb'[Len(rb) + 1] = e
         /\ \A f \in Path : Untouched(f)' <=> Untouched(f) /\ e.target # Root(f)
         /\ \A f \in Path, k \in DOMAIN rb : First(f, k)' <=> First(f, k)
         /\ \A f \in Path, n \in Nat : n = Len(rb) + 1 =>
                (First(f, n)' <=> Untouched(f) /\ e.target = Root(f))
<1>1. DOMAIN rb' = 1 .. Len(rb) + 1 /\ DOMAIN rb = 1 .. Len(rb) /\ Len(rb) \in Nat
  OBVIOUS
<1>2. rb' \in Seq(Entry) /\ (\A k \in DOMAIN rb : rb'[k] = rb[k]) /\ rb'[Len(rb) + 1] = e
  OBVIOUS
<1>3. DOMAIN rb' = DOMAIN rb \cup {Len(rb) + 1} /\ Len(rb) + 1 \notin DOMAIN rb
  BY <1>1
<1>4. ASSUME NEW f \in Path
      PROVE  Untouched(f)' <=> Untouched(f) /\ e.target # Root(f)
  BY <1>2, <1>3 DEF Untouched, Root
<1>5. ASSUME NEW f \in Path, NEW k \in DOMAIN rb
      PROVE  First(f, k)' <=> First(f, k)
  <2>1. 1 .. k - 1 \subseteq DOMAIN rb /\ k \in DOMAIN rb'  BY <1>1
  <2> QED  BY <2>1, <1>2 DEF First, Root
<1>6. ASSUME NEW f \in Path, NEW n \in Nat, n = Len(rb) + 1
      PROVE  First(f, n)' <=> Untouched(f) /\ e.target = Root(f)
  <2>1. 1 .. n - 1 = DOMAIN rb /\ n \in DOMAIN rb'  BY <1>1, <1>6
  <2>2. (\A j \in 1 .. n - 1 : rb'[j].target # Root(f)) <=> Untouched(f)
    BY <2>1, <1>2 DEF Untouched
  <2> QED  BY <2>1, <2>2, <1>2, <1>6 DEF First, Root
<1> QED  BY <1>2, <1>3, <1>4, <1>5, <1>6

\* What taking the last entry from the list changes.
LEMMA FrontEntry ==
  ASSUME rb \in Seq(Entry), rb # <<>>, rb' = Front(rb)
  PROVE  /\ rb' \in Seq(Entry)
         /\ DOMAIN rb = DOMAIN rb' \cup {Len(rb)} /\ Len(rb) \notin DOMAIN rb'
         /\ \A k \in DOMAIN rb' : rb'[k] = rb[k]
         /\ Last(rb) = rb[Len(rb)] /\ Last(rb) \in Entry
         /\ \A f \in Path : Untouched(f) <=> Untouched(f)' /\ Last(rb).target # Root(f)
         /\ \A f \in Path, k \in DOMAIN rb' : First(f, k)' <=> First(f, k)
         /\ \A f \in Path : First(f, Len(rb)) <=> Untouched(f)' /\ Last(rb).target = Root(f)
<1> DEFINE n == Len(rb)
<1>1. n \in Nat /\ n # 0 /\ DOMAIN rb = 1 .. n  OBVIOUS
<1>2. rb' = SubSeq(rb, 1, n - 1)  BY DEF Front
<1>3. rb' \in Seq(Entry) /\ DOMAIN rb' = 1 .. n - 1 /\ \A k \in DOMAIN rb' : rb'[k] = rb[k]
  BY <1>1, <1>2
<1>4. Last(rb) = rb[n] /\ Last(rb) \in Entry  BY <1>1 DEF Last
<1>5. DOMAIN rb = DOMAIN rb' \cup {n} /\ n \notin DOMAIN rb'  BY <1>1, <1>3
<1>6. ASSUME NEW f \in Path
      PROVE  Untouched(f) <=> Untouched(f)' /\ Last(rb).target # Root(f)
  BY <1>3, <1>4, <1>5 DEF Untouched, Root
<1>7. ASSUME NEW f \in Path, NEW k \in DOMAIN rb'
      PROVE  First(f, k)' <=> First(f, k)
  <2>1. 1 .. k - 1 \subseteq DOMAIN rb' /\ k \in DOMAIN rb  BY <1>1, <1>3
  <2> QED  BY <2>1, <1>3 DEF First, Root
<1>8. ASSUME NEW f \in Path
      PROVE  First(f, n) <=> Untouched(f)' /\ Last(rb).target = Root(f)
  <2>1. 1 .. n - 1 = DOMAIN rb' /\ n \in DOMAIN rb  BY <1>1, <1>3
  <2>2. Untouched(f)' <=> \A j \in DOMAIN rb' : rb[j].target # Root(f)
    BY <1>3 DEF Untouched, Root
  <2> QED  BY <2>1, <2>2, <1>4 DEF First
<1> QED  BY <1>3, <1>4, <1>5, <1>6, <1>7, <1>8

\* What a sequence holds has its type.
LEMMA InSeq ==
  ASSUME NEW S, NEW s \in Seq(S), NEW v \in DOMAIN s
  PROVE  s[v] \in S
OBVIOUS

\* A shipped package version is one its manifests list.
LEMMA ShippedIs ==
  ASSUME NEW c \in Shipped
  PROVE  c[1] \in Pkg /\ c[2] \in DOMAIN Manifest[c[1]] /\ c = <<c[1], c[2]>>
<1>1. PICK p \in Pkg : \E v \in DOMAIN Manifest[p] : c = <<p, v>>  BY DEF Shipped
<1>2. PICK v \in DOMAIN Manifest[p] : c = <<p, v>>  BY <1>1
<1> QED  BY <1>2

\* The manifest of a version is a sequence of paths.
LEMMA FilesType ==
  ASSUME NEW p \in Pkg, NEW v \in {0} \cup DOMAIN Manifest[p]
  PROVE  Files(p, v) \in Seq(Path) /\ Len(Files(p, v)) \in Nat
<1>1. Files(p, v) \in Seq(Path)
  <2>1. CASE v = 0  BY <2>1 DEF Files
  <2>2. CASE v \in DOMAIN Manifest[p] /\ v # 0
    <3>1. Manifest[p] \in Seq(Seq(Path))  BY TransactionAssumption
    <3>2. Manifest[p][v] \in Seq(Path)  BY <3>1, <2>2, InSeq
    <3> QED  BY <2>2, <3>2 DEF Files
  <2> QED  BY <2>1, <2>2
<1> QED  BY <1>1

\* Where the engine is in a manifest, the file is a path.
LEMMA FileType ==
  ASSUME Typed, PlaceInv, pc \in InPackage
  PROVE  /\ Current \in Pkg /\ Files(Current, Version) \in Seq(Path)
         /\ Len(Files(Current, Version)) \in Nat
         /\ ~AtEnd => File \in Path /\ i \in DOMAIN Files(Current, Version)
         /\ kind \in InstallKinds =>
               /\ Version \in DOMAIN Manifest[Current]
               /\ <<Current, Version>> \in Shipped
               /\ IsInjective(Files(Current, Version))
<1> USE DEF Typed, PlaceInv
<1>1. at \in DOMAIN task /\ task[at] \in Pkg \X Nat /\ Current \in Pkg  BY DEF Current
<1>2. ASSUME kind \in InstallKinds
      PROVE  task[at] \in Shipped /\ task[at] = <<Current, Version>>
             /\ Version \in DOMAIN Manifest[Current]
  <2>1. task[at] \in Shipped  BY <1>1, <1>2, InSeq
  <2> QED  BY <2>1, <1>2, ShippedIs DEF Current, Version, InstallKinds
<1>3. Version \in {0} \cup DOMAIN Manifest[Current]
  BY <1>1, <1>2 DEF Version
<1>4. Files(Current, Version) \in Seq(Path) /\ Len(Files(Current, Version)) \in Nat
  BY <1>1, <1>3, FilesType
<1>5. ~AtEnd => File \in Path /\ i \in DOMAIN Files(Current, Version)
  <2> SUFFICES ASSUME ~AtEnd PROVE File \in Path /\ i \in DOMAIN Files(Current, Version)
    OBVIOUS
  <2>1. i \in 1 .. Len(Files(Current, Version))  BY <1>4 DEF AtEnd
  <2> QED  BY <2>1, <1>4 DEF File
<1>6. ASSUME kind \in InstallKinds
      PROVE  IsInjective(Files(Current, Version))
  <2>1. IsInjective(Manifest[Current][Version])  BY <1>2, <1>6, TransactionAssumption
  <2>2. Manifest[Current] \in Seq(Seq(Path))  BY <1>1, TransactionAssumption
  <2>3. Version # 0  BY <1>2, <1>6, <2>2
  <2> QED  BY <2>1, <2>3 DEF Files
<1> QED  BY <1>1, <1>2, <1>4, <1>5, <1>6

\* What a step disturbs that writes no copy of a file and leaves the list.
LEMMA UndoStill ==
  ASSUME UndoInv, ListInv, UNCHANGED <<rb, before, kind, lossy, oneDevice>>,
         \A f \in Path : \A l \in Copies(f) : fs'[l] = fs[l],
         Uncommitted' => Uncommitted,
         pc' \in InLoop => pc \in InLoop,
         pc' \in {"finish", "cleanup"} /\ outcome' = "failed" /\ kind \in InstallKinds => rb = <<>>
  PROVE  UndoInv'
<1>1. \A f \in Path, k \in DOMAIN rb :
         First(f, k) /\ rb[k].backup # None => rb[k].backup \in Copies(f)
  BY PathsApart, CopiesAre DEF ListInv, First
<1>2. \A f \in Path : /\ Untouched(f)' <=> Untouched(f)
                      /\ \A k \in DOMAIN rb : First(f, k)' <=> First(f, k)
                      /\ Kept(f)' <=> Kept(f)
                      /\ fs'[Root(f)] = fs[Root(f)]
  BY CopiesAre DEF First, Untouched, Kept, Copies, Root, Save, Backup, Removed
<1> QED  BY <1>1, <1>2 DEF UndoInv, Exact, Failed, Root

\* The same of what UserInv says.
LEMMA UserStill ==
  ASSUME UserInv, ListInv, UNCHANGED rb,
         \A f \in Path : \A l \in Copies(f) : fs'[l] = fs[l],
         \A p \in Pkg, f \in Path : fs'[Stage(p, f)] # User,
         pc = "idle" => pc' = "idle"
  PROVE  UserInv'
<1>1. \A k \in DOMAIN rb : \E f \in Path :
         /\ rb[k].target = Root(f) /\ rb[k].target \in Copies(f)
         /\ rb[k].backup # None => rb[k].backup \in Copies(f)
  BY CopiesAre DEF ListInv
<1> QED  BY <1>1 DEF UserInv, First, Root, Stage

\* Outside a package the list says nothing of the manifest.
LEMMA ListStill ==
  ASSUME ListInv, UNCHANGED rb, pc' \notin InPackage
  PROVE  ListInv'
BY DEF ListInv, First, Untouched, Root, Backups, Save, Backup, Removed

\* The engine goes to another call for the same file.
LEMMA ListGoes ==
  ASSUME ListInv, UNCHANGED <<fs, rb, at, i, task, mem, kind>>, pc \in InPackage,
         pc # "place"
  PROVE  ListInv'
<1>1. UNCHANGED Files(Current, Version)  BY DEF Current, Version, Files
<1>2. \A f \in Path : /\ Untouched(f)' <=> Untouched(f)
                      /\ \A k \in DOMAIN rb : First(f, k)' <=> First(f, k)
                      /\ Backups(f)' = Backups(f)
  BY DEF Untouched, First, Root, Backups, Save, Backup, Removed
<1> QED  BY <1>1, <1>2 DEF ListInv, Root, Backup, Exists

\* The initial state satisfies the invariant.
LEMMA InitInv == Init => IInv
<1> SUFFICES ASSUME Init PROVE IInv  OBVIOUS
<1> USE TransactionAssumption DEF Init
<1>1. Typed
  <2>1. fs \in [Place -> Content] /\ before \in [Path -> Content]  BY DEF Content
  <2>2. rb \in Seq(Entry)  OBVIOUS
  <2>3. db \in [Pkg -> Nat] /\ mem \in [Pkg -> Nat]
        /\ \A p \in Pkg : {db[p], mem[p]} \subseteq {0} \cup DOMAIN Manifest[p]
    OBVIOUS
  <2> QED  BY <2>1, <2>2, <2>3 DEF Typed, Outside, InstallKinds
<1>2. PlaceInv  BY DEF PlaceInv, InPackage, InLoop
<1>3. ListInv  BY DEF ListInv, Untouched, InPackage
<1>4. UndoInv  BY DEF UndoInv, Uncommitted, Failed
<1>5. UserInv
  <2>1. \A p \in Pkg, f \in Path : Stage(p, f) \in Place  BY PathsApart
  <2> QED  BY <2>1 DEF UserInv
<1> QED  BY <1>1, <1>2, <1>3, <1>4, <1>5 DEF IInv

\* Editing a file preserves the invariant.
LEMMA EditStep ==
  ASSUME IInv, NEW f \in Path, Edit(f)
  PROVE  IInv'
<1> USE TransactionAssumption DEF IInv, Edit, bounds, run
<1>0. Root(f) \in Place  BY PathsApart
<1>1. Typed'  BY <1>0 DEF Typed, Content
<1>2. PlaceInv'  BY DEF PlaceInv, InPackage, InLoop
<1>3. ListInv'  BY ListStill DEF InPackage
<1>4. UndoInv'  BY DEF UndoInv, Uncommitted, Failed
<1>5. UserInv'
  <2>1. \A p \in Pkg, g \in Path : Stage(p, g) \in Place /\ Stage(p, g) # Root(f)
    BY PathsApart
  <2>2. \A p \in Pkg, g \in Path : fs'[Stage(p, g)] = fs[Stage(p, g)]
    BY <2>1 DEF Typed
  <2> QED  BY <2>2 DEF UserInv, Stage
<1> QED  BY <1>1, <1>2, <1>3, <1>4, <1>5

\* A transaction begins: the list is empty and the root is as it was.
LEMMA BeginStep ==
  ASSUME IInv, NEW k, NEW t, NEW next, Begin(k, t, next),
         next \in {"prepare", "preremove"},
         fs' \in [Place -> Content],
         \A l \in Place : fs'[l] \in {None, fs[l]},
         \A f \in Path : fs'[Root(f)] = fs[Root(f)],
         k \in InstallKinds \cup {"remove"},
         PlaceInv'
  PROVE  IInv'
<1> USE DEF IInv, Begin
<1>0. \A f \in Path : Root(f) \in Place  BY PathsApart
<1>1. Typed'
  <2>1. before' \in [Path -> Content]  BY <1>0 DEF Typed
  <2>2. rb' \in Seq(Entry) /\ at' \in Nat /\ i' \in Nat  OBVIOUS
  <2>3. /\ record' = "running" /\ kind' = k /\ lossy' = FALSE
        /\ UNCHANGED <<db, enabled, oneDevice>> /\ mem' = db
    OBVIOUS
  <2>4. pc' \in InPackage \cup Outside  BY DEF InPackage, Outside
  <2>5. /\ db' \in [Pkg -> Nat] /\ mem' \in [Pkg -> Nat]
        /\ \A p \in Pkg : {db'[p], mem'[p]} \subseteq {0} \cup DOMAIN Manifest[p]
    BY <2>3 DEF Typed
  <2> HIDE DEF Begin
  <2> QED  BY <2>1, <2>2, <2>3, <2>4, <2>5 DEF Typed
<1>2. \A f \in Path : Untouched(f)'  BY DEF Untouched
<1>3. ListInv'  BY <1>2 DEF ListInv
<1>4. UndoInv'
  <2>1. \A f \in Path : fs'[Root(f)] = before'[f] /\ Kept(f)'
    BY <1>0, CopiesAre DEF Kept, Copies, Root
  <2> QED  BY <2>1 DEF UndoInv, Failed, First, Root
<1>5. UserInv'
  <2>1. \A p \in Pkg, g \in Path : Stage(p, g) \in Place  BY PathsApart
  <2>2. None # User  BY TransactionAssumption
  <2> QED  BY <2>1, <2>2 DEF UserInv, Stage
<1> QED  BY <1>1, <1>3, <1>4, <1>5

\* The start of an install preserves the invariant.
LEMMA BeginInstallStep ==
  ASSUME IInv, NEW k \in InstallKinds, NEW t \in Tasks, BeginInstall(k, t)
  PROVE  IInv'
<1> USE TransactionAssumption DEF IInv, BeginInstall
<1>1. fs' \in [Place -> Content] /\ \A l \in Place : fs'[l] \in {None, fs[l]}
  BY DEF Typed, Content
<1>2. \A f \in Path : fs'[Root(f)] = fs[Root(f)]
  <2> SUFFICES ASSUME NEW f \in Path PROVE fs'[Root(f)] = fs[Root(f)]  OBVIOUS
  <2>1. Root(f) \in Place  BY PathsApart
  <2>2. Root(f)[1] = "root"  BY DEF Root
  <2> QED  BY <2>1, <2>2
<1>3. PlaceInv'
  <2>1. t \in Seq(Shipped) /\ t # <<>> /\ \A a, b \in DOMAIN t : t[a][1] = t[b][1] => a = b
    BY DEF IsInjective
  <2>2. Shipped \subseteq Pkg \X Nat  BY DEF Shipped
  <2>3. t \in Seq(Pkg \X Nat)  BY <2>1, <2>2
  <2> QED  BY <2>1, <2>3 DEF PlaceInv, Begin, InPackage, InLoop, InstallKinds
<1> QED  BY <1>1, <1>2, <1>3, BeginStep

\* The start of a removal preserves the invariant.
LEMMA BeginRemoveStep ==
  ASSUME IInv, NEW t \in Removals, BeginRemove(t)
  PROVE  IInv'
<1> USE TransactionAssumption DEF IInv, BeginRemove
<1> DEFINE names == [k \in DOMAIN t |-> <<t[k], 0>>]
<1>1. names \in Seq(Pkg \X Nat) /\ names # <<>> /\ 1 \in DOMAIN names
  <2>1. t \in Seq(Pkg) /\ t # <<>>  OBVIOUS
  <2>2. DOMAIN t = 1 .. Len(t) /\ Len(t) \in Nat /\ Len(t) # 0  BY <2>1
  <2>3. \A k \in DOMAIN t : <<t[k], 0>> \in Pkg \X Nat  BY <2>1, InSeq
  <2>4. names \in [1 .. Len(t) -> Pkg \X Nat]  BY <2>2, <2>3
  <2>5. names \in Seq(Pkg \X Nat)  BY <2>2, <2>4
  <2>6. 1 \in DOMAIN names  BY <2>2, <2>4
  <2> QED  BY <2>5, <2>6
<1>2. task' = names /\ kind' = "remove" /\ at' = 1 /\ i' = 1 /\ mem' = db /\ rb' = <<>>
      /\ outcome' = "success" /\ pc' = "preremove"
  BY DEF Begin
<1>3. PlaceInv'
  <2>1. Len(Files(Current, Version))' \in Nat
    <3>1. names[1] \in Pkg \X Nat /\ Current' \in Pkg  BY <1>1, <1>2 DEF Current
    <3>2. Version' = mem'[Current']  BY <1>2 DEF Version, Current
    <3>3. Version' \in {0} \cup DOMAIN Manifest[Current']  BY <1>2, <3>1, <3>2 DEF Typed
    <3> QED  BY <3>1, <3>3, FilesType DEF Files
  <2> QED  BY <2>1, <1>1, <1>2 DEF PlaceInv, InPackage, InLoop, InstallKinds
<1> QED  BY <1>3, BeginStep DEF Typed

\* A task's next package is entered at its first file.
LEMMA EnterPackage ==
  ASSUME Typed', task' \in Seq(Pkg \X Nat), kind' \in InstallKinds => task' \in Seq(Shipped),
         at' \in DOMAIN task', i' = 1
  PROVE  i' \in (1 .. Len(Files(Current, Version)) + 1)'
<1>1. Current' \in Pkg  BY DEF Current
<1>2. Version' \in {0} \cup DOMAIN Manifest[Current']
  <2>1. CASE kind' = "remove"  BY <1>1, <2>1 DEF Version, Typed
  <2>2. CASE kind' \in InstallKinds
    <3>1. task'[at'] \in Shipped  BY <2>2, InSeq
    <3> QED  BY <3>1, <2>2, ShippedIs DEF Version, Current, InstallKinds
  <2> QED  BY <2>1, <2>2 DEF Typed
<1>3. Len(Files(Current', Version')) \in Nat  BY <1>1, <1>2, FilesType
<1> QED  BY <1>3 DEF Files

\* Prepare preserves the invariant.
LEMMA PrepareStep ==
  ASSUME IInv, Prepare
  PROVE  IInv'
<1> USE DEF IInv, Prepare, bounds, run
<1>0. task \in Seq(Shipped)  BY DEF PlaceInv
<1>1. CASE Fail("finish") /\ UNCHANGED faults
  <2> USE <1>1 DEF Fail
  <2>1. Typed'  BY DEF Typed, Outside
  <2>2. PlaceInv'  BY DEF PlaceInv, InPackage, InLoop
  <2>3. ListInv'  BY ListStill DEF InPackage
  <2>4. UndoInv'  BY UndoStill DEF Uncommitted, InLoop, InPackage, PlaceInv
  <2>5. UserInv'  BY UserStill DEF UserInv
  <2> QED  BY <2>1, <2>2, <2>3, <2>4, <2>5
<1>2. CASE Go("validate")
  <2> USE <1>2 DEF Go
  <2> DEFINE staged(l) == \E k \in DOMAIN task, f \in Path :
                             /\ l = Stage(task[k][1], f)
                             /\ f \in ToSet(Files(task[k][1], task[k][2]))
             new(l) == CHOOSE c \in ToSet(task) : c[1] = l[2]
  <2>0. /\ fs' = [l \in Place |-> IF staged(l) THEN new(l) ELSE fs[l]]
        /\ pc' = "validate" /\ UNCHANGED <<at, i, mem, rb, db, record, task, kind, enabled, outcome,
                                         lossy, oneDevice, before>>
    BY DEF Fail
  <2>1. ASSUME NEW l \in Place, staged(l)
        PROVE  new(l) \in Shipped /\ \E p \in Pkg, f \in Path : l = Stage(p, f)
    <3>1. PICK k \in DOMAIN task, f \in Path : l = Stage(task[k][1], f)  BY <2>1
    <3>2. task[k] \in ToSet(task) /\ task[k] \in Shipped /\ ToSet(task) \subseteq Shipped
      BY <1>0, InSeq DEF ToSet
    <3>3. task[k][1] \in Pkg  BY <3>2, ShippedIs
    <3>4. task[k][1] = l[2]  BY <3>1 DEF Stage
    <3>5. new(l) \in ToSet(task)  BY <3>2, <3>4
    <3> QED  BY <3>1, <3>2, <3>3, <3>5
  <2>2. fs' \in [Place -> Content]  BY <2>0, <2>1 DEF Typed, Content
  <2>3. \A f \in Path : /\ fs'[Root(f)] = fs[Root(f)]
                        /\ \A l \in Copies(f) : fs'[l] = fs[l]
    <3> SUFFICES ASSUME NEW f \in Path, NEW l \in Copies(f) PROVE fs'[l] = fs[l]
      BY CopiesAre
    <3>1. l \in Place /\ ~ \E p \in Pkg, g \in Path : l = Stage(p, g)
      BY CopiesAre, PathsApart
    <3> QED  BY <3>1, <2>0, <2>1
  <2>4. Typed'  BY <2>0, <2>2 DEF Typed, Outside
  <2>5. PlaceInv'  BY <2>0 DEF PlaceInv, InPackage, InLoop
  <2>6. ListInv'  BY <2>0, ListStill DEF InPackage
  <2>7. UndoInv'
    <3>1. rb = <<>> /\ Uncommitted /\ pc \in InLoop
      BY DEF PlaceInv, Uncommitted, InLoop
    <3>2. \A f \in Path : Untouched(f) /\ Untouched(f)' /\ \A k \in DOMAIN rb' : ~First(f, k)'
      BY <3>1, <2>0 DEF Untouched
    <3>3. ASSUME NEW f \in Path
          PROVE  fs'[Root(f)] = before'[f] /\ Kept(f)'
      <4>1. fs[Root(f)] = before[f]  BY <3>1, <3>2 DEF UndoInv
      <4>2. fs'[Root(f)] = before'[f]  BY <4>1, <2>0, <2>3
      <4> QED  BY <4>2, CopiesAre DEF Kept, Copies, Root
    <3> QED  BY <3>1, <3>2, <3>3, <2>0 DEF UndoInv, Root
  <2>8. UserInv'
    <3>1. \A p \in Pkg, f \in Path : fs'[Stage(p, f)] # User
      <4> SUFFICES ASSUME NEW p \in Pkg, NEW f \in Path PROVE fs'[Stage(p, f)] # User
        OBVIOUS
      <4>1. Stage(p, f) \in Place /\ fs[Stage(p, f)] # User  BY PathsApart DEF UserInv
      <4> QED  BY <4>1, <2>0, <2>1, TransactionAssumption
    <3>2. rb' = <<>>  BY <2>0 DEF PlaceInv
    <3> QED  BY <3>1, <3>2 DEF UserInv, Stage
  <2> QED  BY <2>4, <2>5, <2>6, <2>7, <2>8
<1> QED  BY <1>1, <1>2

\* Validate preserves the invariant.
LEMMA ValidateStep ==
  ASSUME IInv, Validate
  PROVE  IInv'
<1> USE DEF IInv, bounds, run
<1>0. /\ pc = "validate" /\ UNCHANGED <<fs, rb, task, kind, at, i, mem, db, record, enabled, lossy,
                                       oneDevice, before>>
      /\ \/ pc' = "finish" /\ outcome' = "failed"
         \/ pc' = FirstHook /\ outcome' = outcome
  BY DEF Validate, Fail, Go
<1>1. FirstHook \in {"commit", "preinstall"}
  BY <1>0 DEF FirstHook, PlaceInv, InstallKinds
<1>2. Typed'  BY <1>0, <1>1 DEF Typed, Outside, InPackage
<1>3. PlaceInv'
  <2>1. pc' = FirstHook => i' \in (1 .. Len(Files(Current, Version)) + 1)'
    BY <1>0, <1>2, EnterPackage DEF PlaceInv
  <2> QED  BY <1>0, <1>1, <2>1 DEF PlaceInv, InPackage, InLoop
<1>4. ListInv'
  <2>1. rb = <<>>  BY <1>0 DEF PlaceInv
  <2> QED  BY <1>0, <2>1 DEF ListInv, Untouched
<1>5. UndoInv'
  <2>1. rb = <<>>  BY <1>0 DEF PlaceInv
  <2> QED  BY <1>0, <1>1, <2>1, UndoStill DEF Uncommitted, InLoop
<1>6. UserInv'  BY <1>0, UserStill DEF UserInv
<1> QED  BY <1>2, <1>3, <1>4, <1>5, <1>6

\* The pre-install hook preserves the invariant.
LEMMA PreInstallStep ==
  ASSUME IInv, PreInstall
  PROVE  IInv'
<1> USE DEF IInv, bounds, run
<1>0. /\ pc = "preinstall"
      /\ UNCHANGED <<fs, rb, task, kind, at, i, mem, db, record, enabled, lossy, oneDevice, before>>
      /\ \/ pc' = "rollback" /\ outcome' = "failed"
         \/ pc' = "commit" /\ outcome' = outcome
  BY DEF PreInstall, Fail, Go
<1>1. Typed'  BY <1>0 DEF Typed, Outside, InPackage
<1>2. PlaceInv'
  BY <1>0 DEF PlaceInv, InPackage, InLoop, Current, Version, Files
<1>3. ListInv'  BY <1>0, ListGoes DEF InPackage
<1>4. UndoInv'  BY <1>0, UndoStill DEF Uncommitted, InLoop, InPackage
<1>5. UserInv'  BY <1>0, UserStill DEF UserInv
<1> QED  BY <1>1, <1>2, <1>3, <1>4, <1>5

\* The refusal of a file nobody owns preserves the invariant.
LEMMA RefuseUnownedStep ==
  ASSUME IInv, RefuseUnowned
  PROVE  IInv'
<1> USE DEF IInv, bounds, run
<1>0. /\ pc = "commit" /\ UNCHANGED <<fs, rb, task, kind, at, i, mem, db, record, enabled, lossy,
                                     oneDevice, before>>
      /\ pc' = "rollback" /\ outcome' = "failed"
  BY DEF RefuseUnowned, Fail
<1>1. Typed'  BY <1>0 DEF Typed, Outside, InPackage
<1>2. PlaceInv'  BY <1>0 DEF PlaceInv, InPackage, InLoop
<1>3. ListInv'  BY <1>0, ListStill DEF InPackage
<1>4. UndoInv'  BY <1>0, UndoStill DEF Uncommitted, InLoop, InPackage
<1>5. UserInv'  BY <1>0, UserStill DEF UserInv
<1> QED  BY <1>1, <1>2, <1>3, <1>4, <1>5

\* Keeping a configuration file preserves the invariant.
LEMMA KeepConfigStep ==
  ASSUME IInv, KeepConfig
  PROVE  IInv'
<1> USE DEF IInv, KeepConfig, Go, bounds, run
<1>0. File \in Path /\ Current \in Pkg /\ i < Len(Files(Current, Version)) + 1
      /\ Len(Files(Current, Version)) \in Nat /\ i \in Nat
  BY FileType DEF InPackage, AtEnd, Typed
<1>1. \A l \in Place : l # Dist(File) => fs'[l] = fs[l]
  BY <1>0, PathsApart DEF Typed
<1>2. Typed'  BY <1>0, PathsApart DEF Typed
<1>3. PlaceInv'
  BY <1>0 DEF PlaceInv, InPackage, InLoop, Current, Version, Files
<1>4. ListInv'
  <2>1. UNCHANGED <<Current, Version, Files(Current, Version)>>  BY DEF Current, Version, Files
  <2>2. \A k \in DOMAIN rb : fs'[rb[k].target] = fs[rb[k].target]
    BY <1>0, <1>1, PathsApart DEF ListInv
  <2>3. \A f \in Path : /\ Untouched(f)' <=> Untouched(f)
                        /\ \A k \in DOMAIN rb : First(f, k)' <=> First(f, k)
                        /\ Backups(f)' = Backups(f)
    BY DEF Untouched, First, Root, Backups, Save, Backup, Removed
  <2>4. pc \in InPackage /\ pc' \in InPackage /\ i \in Nat  BY <1>0 DEF InPackage
  <2> QED  BY <1>0, <2>1, <2>2, <2>3, <2>4 DEF ListInv, Root, Backup, Exists
<1>5. \A f \in Path : \A l \in Copies(f) : fs'[l] = fs[l]
  BY <1>0, <1>1, PathsApart, CopiesAre
<1>6. UndoInv'  BY <1>5, UndoStill DEF Uncommitted, InLoop, InPackage
<1>7. UserInv'
  <2>1. \A p \in Pkg, f \in Path : fs'[Stage(p, f)] = fs[Stage(p, f)]
    BY <1>0, <1>1, StageApart, PathsApart
  <2> QED  BY <2>1, <1>5, UserStill DEF UserInv
<1> QED  BY <1>2, <1>3, <1>4, <1>6, <1>7

\* Post-install: the files stay, the next package or the rollback follows.
LEMMA PostInstallStep ==
  ASSUME IInv, PostInstall
  PROVE  IInv'
<1> USE DEF IInv
<1>0. /\ pc = "commit" /\ UNCHANGED <<fs, rb, task, kind, db, record, lossy, oneDevice, before>>
      /\ enabled' \subseteq Pkg
      /\ \/ /\ pc' = "rollback" /\ outcome' = "failed" /\ UNCHANGED <<at, i, mem>>
         \/ /\ outcome' = outcome /\ at' = at + 1 /\ i' = 1
            /\ mem' = [p \in Pkg |-> IF p = Current THEN Version
                                     ELSE IF kind = "local" /\ p \in Replaces[Current]
                                          THEN 0 ELSE mem[p]]
            /\ pc' = IF at < Len(task) THEN FirstHook ELSE "save"
  BY FileType DEF PostInstall, NextPackage, Go, bounds, run, Typed, InPackage
<1>1. FirstHook \in {"commit", "preinstall"} /\ kind \in InstallKinds
  BY <1>0 DEF FirstHook, PlaceInv, InstallKinds
<1>2. Typed'
  <2>1. /\ Version \in DOMAIN Manifest[Current] /\ Current \in Pkg
        /\ Manifest[Current] \in Seq(Seq(Path))
    BY <1>0, <1>1, FileType, TransactionAssumption DEF InPackage
  <2>2. Version \in Nat  BY <2>1
  <2>3. mem' \in [Pkg -> Nat] /\ \A p \in Pkg : mem'[p] \in {0} \cup DOMAIN Manifest[p]
    <3>1. CASE UNCHANGED mem  BY <3>1 DEF Typed
    <3>2. CASE mem' = [p \in Pkg |-> IF p = Current THEN Version
                                    ELSE IF kind = "local" /\ p \in Replaces[Current]
                                         THEN 0 ELSE mem[p]]
      <4>1. \A p \in Pkg : mem[p] \in Nat /\ mem[p] \in {0} \cup DOMAIN Manifest[p]
        BY DEF Typed
      <4>2. ASSUME NEW p \in Pkg
            PROVE  mem'[p] \in Nat /\ mem'[p] \in {0} \cup DOMAIN Manifest[p]
        <5>1. CASE p = Current
          <6>1. mem'[p] = Version  BY <3>2, <5>1
          <6> QED  BY <2>1, <2>2, <5>1, <6>1
        <5>2. CASE p # Current
          <6>1. mem'[p] = 0 \/ mem'[p] = mem[p]  BY <3>2, <5>2
          <6> QED  BY <4>1, <6>1
        <5> QED  BY <5>1, <5>2
      <4>3. mem' \in [Pkg -> Nat]  BY <3>2, <4>2
      <4> QED  BY <4>2, <4>3
    <3> QED  BY <1>0, <3>1, <3>2
  <2>4. pc' \in InPackage \cup Outside  BY <1>0, <1>1 DEF Outside, InPackage
  <2>5. at' \in Nat /\ i' \in Nat  BY <1>0 DEF Typed
  <2>6. UNCHANGED <<fs, rb, kind, db, record, lossy, oneDevice, before>> /\ enabled' \subseteq Pkg
    BY <1>0
  <2> QED  BY <2>3, <2>4, <2>5, <2>6 DEF Typed
<1>3. at \in Nat /\ at \in DOMAIN task /\ Len(task) \in Nat /\ DOMAIN task = 1 .. Len(task)
  BY <1>0 DEF Typed, PlaceInv, InPackage
<1>4. PlaceInv'
  <2>1. CASE pc' \notin InPackage
    <3>1. pc' \in {"save", "rollback"}  BY <1>0, <1>1, <2>1 DEF InPackage
    <3> QED  BY <1>0, <1>1, <3>1 DEF PlaceInv, InPackage, InLoop
  <2>2. CASE pc' \in InPackage
    <3>1. at' \in DOMAIN task' /\ i' = 1 /\ outcome' = outcome /\ pc' = FirstHook
      BY <1>0, <1>3, <2>2 DEF InPackage
    <3>2. i' \in (1 .. Len(Files(Current, Version)) + 1)'
      BY <1>0, <1>2, <3>1, EnterPackage DEF PlaceInv
    <3> QED  BY <1>0, <1>1, <3>1, <3>2 DEF PlaceInv, InPackage, InLoop
  <2> QED  BY <2>1, <2>2
<1>5. ListInv'
  <2>1. CASE pc' \notin InPackage  BY <1>0, <2>1, ListStill
  <2>2. CASE pc' \in InPackage
    <3>1. at' = at + 1  BY <1>0, <2>2 DEF InPackage
    <3>2. kind \notin {"remove"} /\ pc \in InPackage
      BY <1>0, <1>1 DEF InstallKinds, InPackage
    <3>3. \A k \in DOMAIN rb : rb[k].backup # None =>
             \E j \in 1 .. at', f \in Path :
                rb[k].backup = Backup(task[j][1], f) /\ j # at'
      BY <1>1, <1>3, <3>1, <3>2 DEF ListInv
    <3>4. \A f \in Path : /\ Untouched(f)' <=> Untouched(f)
                          /\ \A k \in DOMAIN rb : First(f, k)' <=> First(f, k)
                          /\ Backups(f)' = Backups(f)
      BY <1>0 DEF Untouched, First, Root, Backups, Save, Backup, Removed
    <3> QED  BY <1>0, <3>2, <3>3, <3>4 DEF ListInv, Root, Backup
  <2> QED  BY <2>1, <2>2
<1>6. UndoInv'  BY <1>0, <1>1, UndoStill DEF Uncommitted, InLoop, InPackage
<1>7. UserInv'  BY <1>0, UserStill DEF UserInv
<1> QED  BY <1>2, <1>4, <1>5, <1>6, <1>7

\* The pre-remove hook preserves the invariant.
LEMMA PreRemoveStep ==
  ASSUME IInv, PreRemove
  PROVE  IInv'
<1> USE DEF IInv, bounds, run
<1>0. /\ pc = "preremove" /\ UNCHANGED <<fs, rb, task, kind, at, i, mem, db, record, enabled, lossy,
                                        oneDevice, before>>
      /\ \/ pc' = "finish" /\ outcome' = "failed"
         \/ pc' = "remove" /\ outcome' = outcome
  BY DEF PreRemove, Fail, Go
<1>1. Typed'  BY <1>0 DEF Typed, Outside, InPackage
<1>2. PlaceInv'
  BY <1>0 DEF PlaceInv, InPackage, InLoop, Current, Version, Files, InstallKinds
<1>3. ListInv'  BY <1>0, ListGoes DEF InPackage
<1>4. UndoInv'
  BY <1>0, UndoStill DEF Uncommitted, InLoop, InPackage, PlaceInv, InstallKinds
<1>5. UserInv'  BY <1>0, UserStill DEF UserInv
<1> QED  BY <1>1, <1>2, <1>3, <1>4, <1>5

\* Post-removal: the files stay, the next package or the rollback follows.
LEMMA PostRemoveStep ==
  ASSUME IInv, PostRemove
  PROVE  IInv'
<1> USE DEF IInv
<1>0. /\ pc = "remove" /\ UNCHANGED <<fs, rb, task, kind, db, record, lossy, oneDevice, before>>
      /\ enabled' \subseteq Pkg /\ kind = "remove"
      /\ \/ /\ pc' = "rollback" /\ outcome' = "failed" /\ UNCHANGED <<at, i, mem>>
         \/ /\ outcome' = outcome /\ at' = at + 1 /\ i' = 1
            /\ mem' = [mem EXCEPT ![Current] = 0]
            /\ pc' = IF at < Len(task) THEN FirstHook ELSE "save"
  BY DEF PostRemove, NextPackage, Go, bounds, run, Typed, PlaceInv
<1>1. FirstHook = "preremove"  BY <1>0 DEF FirstHook
<1>2. Typed'
  <2>1. mem' \in [Pkg -> Nat] /\ \A p \in Pkg : mem'[p] \in {0} \cup DOMAIN Manifest[p]
    BY <1>0 DEF Typed
  <2>2. pc' \in InPackage \cup Outside  BY <1>0, <1>1 DEF Outside, InPackage
  <2> QED  BY <1>0, <2>1, <2>2 DEF Typed
<1>3. at \in Nat /\ at \in DOMAIN task /\ Len(task) \in Nat /\ DOMAIN task = 1 .. Len(task)
  BY <1>0 DEF Typed, PlaceInv, InPackage
<1>4. PlaceInv'
  <2>1. CASE pc' \notin InPackage
    <3>1. pc' \in {"save", "rollback"}  BY <1>0, <1>1, <2>1 DEF InPackage
    <3> QED  BY <1>0, <1>1, <3>1 DEF PlaceInv, InPackage, InLoop, InstallKinds
  <2>2. CASE pc' \in InPackage
    <3>1. at' \in DOMAIN task' /\ i' = 1 /\ outcome' = outcome /\ pc' = "preremove"
      BY <1>0, <1>1, <1>3, <2>2 DEF InPackage
    <3>2. i' \in (1 .. Len(Files(Current, Version)) + 1)'
      BY <1>0, <1>2, <3>1, EnterPackage DEF PlaceInv
    <3> QED  BY <1>0, <3>1, <3>2 DEF PlaceInv, InPackage, InLoop, InstallKinds
  <2> QED  BY <2>1, <2>2
<1>5. ListInv'
  <2>1. kind \notin InstallKinds /\ pc \in InPackage  BY <1>0 DEF InstallKinds, InPackage
  <2>2. \A f \in Path : /\ Untouched(f)' <=> Untouched(f)
                        /\ \A k \in DOMAIN rb : First(f, k)' <=> First(f, k)
                        /\ Backups(f)' = Backups(f)
    BY <1>0 DEF Untouched, First, Root, Backups, Save, Backup, Removed
  <2> QED  BY <1>0, <2>1, <2>2 DEF ListInv, Root, Exists
<1>6. UndoInv'
  BY <1>0, <1>1, UndoStill DEF Uncommitted, InLoop, InPackage, InstallKinds
<1>7. UserInv'  BY <1>0, UserStill DEF UserInv
<1> QED  BY <1>2, <1>4, <1>5, <1>6, <1>7

\* Saving the database preserves the invariant.
LEMMA SaveDBStep ==
  ASSUME IInv, SaveDB
  PROVE  IInv'
<1> USE DEF IInv, bounds, run
<1>0. /\ pc = "save" /\ UNCHANGED <<fs, rb, task, kind, at, i, mem, record, enabled, lossy,
                                   oneDevice, before>>
      /\ db' \in {db, mem}
      /\ \/ pc' = "rollback" /\ outcome' = "failed"
         \/ pc' = "finalize" /\ outcome' = outcome
  BY DEF SaveDB
<1>1. Typed'  BY <1>0 DEF Typed, Outside
<1>2. PlaceInv'  BY <1>0 DEF PlaceInv, InPackage, InLoop
<1>3. ListInv'  BY <1>0, ListStill DEF InPackage
<1>4. UndoInv'  BY <1>0, UndoStill DEF Uncommitted, InLoop, InPackage
<1>5. UserInv'  BY <1>0, UserStill DEF UserInv
<1> QED  BY <1>1, <1>2, <1>3, <1>4, <1>5

\* The end of the rollback preserves the invariant.
LEMMA RollbackDoneStep ==
  ASSUME IInv, RollbackDone
  PROVE  IInv'
<1> USE DEF IInv, RollbackDone, Go, bounds, run
<1>1. Typed'  BY DEF Typed, Outside
<1>2. PlaceInv'  BY DEF PlaceInv, InPackage, InLoop
<1>3. ListInv'  BY ListStill DEF InPackage
<1>4. UndoInv'  BY UndoStill DEF Uncommitted, InLoop, InPackage
<1>5. UserInv'  BY UserStill DEF UserInv
<1> QED  BY <1>1, <1>2, <1>3, <1>4, <1>5

\* Recording the outcome preserves the invariant.
LEMMA FinishStep ==
  ASSUME IInv, Finish
  PROVE  IInv'
<1> USE DEF IInv, Finish, bounds, run
<1>1. Typed'  BY DEF Typed, Outside, PlaceInv
<1>2. PlaceInv'  BY DEF PlaceInv, InPackage, InLoop
<1>3. ListInv'  BY ListStill DEF InPackage
<1>4. UndoInv'  BY UndoStill DEF Uncommitted, InLoop, InPackage, UndoInv
<1>5. UserInv'  BY UserStill DEF UserInv
<1> QED  BY <1>1, <1>2, <1>3, <1>4, <1>5

\* A file moved from the root to its backup and noted in the list, which has
\* no entry with that backup.
LEMMA UndoMoves ==
  ASSUME IInv, pc \in InLoop, NEW f \in Path, NEW b \in Backups(f),
         Exists(Root(f)),
         \A k \in DOMAIN rb : rb[k].backup # b,
         fs' = Move(fs, Root(f), b),
         rb' = Append(rb, [target |-> Root(f), backup |-> b]),
         UNCHANGED <<before, kind, lossy, oneDevice>>,
         pc' \in InLoop
  PROVE  /\ fs' \in [Place -> Content] /\ rb' \in Seq(Entry)
         /\ fs'[Root(f)] = None /\ fs'[b] = fs[Root(f)]
         /\ \A l \in Place : l \notin {Root(f), b} => fs'[l] = fs[l]
         /\ UndoInv' /\ UserInv'
<1> DEFINE e == [target |-> Root(f), backup |-> b]
           n == Len(rb) + 1
<1> USE DEF IInv
<1>1. Root(f) \in Place /\ b \in Place /\ Root(f) # b /\ e \in Entry /\ n \in Nat
      /\ Root(f) \in RootPlaces /\ b # None /\ None \in Content
  BY PathsApart, NoneIsNoPlace DEF Entry, Typed, Content
<1>2. /\ fs' \in [Place -> Content] /\ fs'[Root(f)] = None /\ fs'[b] = fs[Root(f)]
      /\ \A l \in Place : l \notin {Root(f), b} => fs'[l] = fs[l]
  BY <1>1 DEF Move, Typed
<1>3. /\ rb' \in Seq(Entry)
      /\ DOMAIN rb' = DOMAIN rb \cup {n} /\ n \notin DOMAIN rb
      /\ \A k \in DOMAIN rb : rb'[k] = rb[k]
      /\ rb'[n] = e
      /\ \A g \in Path : Untouched(g)' <=> Untouched(g) /\ e.target # Root(g)
      /\ \A g \in Path, k \in DOMAIN rb : First(g, k)' <=> First(g, k)
      /\ \A g \in Path, m \in Nat : m = n => (First(g, m)' <=> Untouched(g) /\ e.target = Root(g))
  BY <1>1, AppendEntry DEF Typed
<1>4. UndoInv'
  <2>1. Uncommitted /\ pc' \notin {"cleanup", "finish"}
    BY DEF Uncommitted, InLoop, InPackage
  <2>2. ASSUME NEW g \in Path, NEW k \in DOMAIN rb', First(g, k)'
        PROVE  (IF rb[k].backup = None THEN before[g] = None ELSE fs[rb[k].backup] = before[g])'
    <3>1. CASE k \in DOMAIN rb
      <4>1. First(g, k) /\ rb'[k] = rb[k]  BY <2>2, <1>3, <3>1
      <4>2. rb[k].backup # b /\ rb[k].backup # Root(f)
            /\ (rb[k].backup # None => rb[k].backup \in Place)
        BY <3>1, <1>1, PathsApart, NoneIsNoPlace DEF ListInv
      <4>3. IF rb[k].backup = None THEN before[g] = None ELSE fs[rb[k].backup] = before[g]
        BY <4>1, <3>1, <2>1 DEF UndoInv
      <4> QED  BY <4>1, <4>2, <4>3, <1>2
    <3>2. CASE k = n
      <4>1. Untouched(g) /\ Root(f) = Root(g)  BY <2>2, <1>1, <1>3, <3>2
      <4>2. f = g /\ fs[Root(f)] = before[f]  BY <4>1, <2>1, PathsApart DEF UndoInv
      <4> QED  BY <4>2, <1>1, <1>2, <1>3, <3>2
    <3> QED  BY <1>3, <3>1, <3>2
  <2>3. ASSUME NEW g \in Path, Untouched(g)'
        PROVE  Kept(g)' /\ (pc \in InLoop \/ Exact => fs[Root(g)] = before[g])'
    <3>1. Untouched(g) /\ g # f  BY <2>3, <1>3
    <3>2. fs[Root(g)] = before[g] /\ Root(g) \in Place /\ Root(g) \notin {Root(f), b}
      BY <3>1, <2>1, PathsApart DEF UndoInv
    <3>3. fs'[Root(g)] = before'[g]  BY <3>2, <1>2
    <3> QED  BY <3>3, CopiesAre DEF Kept, Copies, Root
  <2> QED  BY <2>1, <2>2, <2>3 DEF UndoInv, Failed, Root
<1>5. UserInv'
  <2>1. \A p \in Pkg, g \in Path : Stage(p, g) \in Place /\ Stage(p, g) \notin {Root(f), b}
    BY PathsApart
  <2>2. \A p \in Pkg, g \in Path : fs'[Stage(p, g)] # User  BY <2>1, <1>2 DEF UserInv
  <2>3. pc # "idle" /\ None # User  BY TransactionAssumption DEF InLoop, InPackage
  <2>4. ASSUME NEW k \in DOMAIN rb'
        PROVE  fs'[rb'[k].target] # User
    <3>1. CASE k \in DOMAIN rb
      <4>1. rb'[k] = rb[k] /\ fs[rb[k].target] # User  BY <3>1, <1>3, <2>3 DEF UserInv
      <4>2. rb[k].target \in Place /\ rb[k].target # b  BY <3>1, PathsApart DEF ListInv
      <4> QED  BY <4>1, <4>2, <1>2, <2>3
    <3>2. CASE k = n  BY <3>2, <1>2, <1>3, <2>3
    <3> QED  BY <1>3, <3>1, <3>2
  <2>5. ASSUME NEW k \in DOMAIN rb', NEW g \in Path,
               rb'[k].target = Root(g), ~First(g, k)', rb'[k].backup # None
        PROVE  fs'[rb'[k].backup] # User
    <3>1. CASE k \in DOMAIN rb
      <4>1. rb'[k] = rb[k] /\ fs[rb[k].backup] # User  BY <3>1, <2>5, <1>3, <2>3 DEF UserInv
      <4>2. rb[k].backup \in Place /\ rb[k].backup \notin {Root(f), b}
        BY <3>1, <4>1, <2>5, PathsApart DEF ListInv
      <4> QED  BY <4>1, <4>2, <1>2
    <3>2. CASE k = n
      <4>1. ~Untouched(f) /\ g = f  BY <2>5, <3>2, <1>1, <1>3, PathsApart
      <4>2. PICK j \in DOMAIN rb : rb[j].target = Root(f)  BY <4>1 DEF Untouched
      <4>3. fs[Root(f)] # User  BY <4>2, <2>3 DEF UserInv
      <4> QED  BY <3>2, <4>3, <1>2, <1>3
    <3> QED  BY <1>3, <3>1, <3>2
  <2> QED  BY <2>2, <2>4, <2>5 DEF UserInv, Root, Stage
<1> QED  BY <1>2, <1>3, <1>4, <1>5

\* What a noted file with a backup of its own preserves of the list.
LEMMA ListAppends ==
  ASSUME IInv, NEW f \in Path, NEW b \in Backups(f) \cup {None},
         \A k \in DOMAIN rb : rb[k].backup # b \/ b = None,
         rb' = Append(rb, [target |-> Root(f), backup |-> b])
  PROVE  /\ \A k \in DOMAIN rb' : \E g \in Path :
                rb'[k].target = Root(g) /\ rb'[k].backup \in {None} \cup Backups(g)
         /\ \A g \in Path : Untouched(g)' \/ \E k \in DOMAIN rb' : First(g, k)'
         /\ \A j, k \in DOMAIN rb' :
                rb'[j].backup = rb'[k].backup /\ rb'[j].backup # None => j = k
<1> DEFINE e == [target |-> Root(f), backup |-> b]
           n == Len(rb) + 1
<1> USE DEF IInv
<1>1. e \in Entry /\ n \in Nat  BY PathsApart DEF Entry, Typed
<1>2. /\ DOMAIN rb' = DOMAIN rb \cup {n} /\ n \notin DOMAIN rb
      /\ \A k \in DOMAIN rb : rb'[k] = rb[k]
      /\ rb'[n] = e
      /\ \A g \in Path : Untouched(g)' <=> Untouched(g) /\ e.target # Root(g)
      /\ \A g \in Path, k \in DOMAIN rb : First(g, k)' <=> First(g, k)
      /\ \A g \in Path, m \in Nat : m = n => (First(g, m)' <=> Untouched(g) /\ e.target = Root(g))
  BY <1>1, AppendEntry DEF Typed
<1>3. \A k \in DOMAIN rb' : \E g \in Path :
          rb'[k].target = Root(g) /\ rb'[k].backup \in {None} \cup Backups(g)
  BY <1>2 DEF ListInv
<1>4. ASSUME NEW g \in Path
      PROVE  Untouched(g)' \/ \E k \in DOMAIN rb' : First(g, k)'
  BY <1>1, <1>2 DEF ListInv
<1>5. \A j, k \in DOMAIN rb' : rb'[j].backup = rb'[k].backup /\ rb'[j].backup # None => j = k
  BY <1>2 DEF ListInv
<1> QED  BY <1>3, <1>4, <1>5

\* Backing up a file preserves the invariant.
LEMMA BackUpStep ==
  ASSUME IInv, BackUp
  PROVE  IInv'
<1> USE DEF IInv
<1>0. /\ pc = "commit" /\ ~AtEnd /\ Exists(Root(File))
      /\ UNCHANGED <<task, kind, at, i, mem, db, record, enabled, oneDevice, lossy, before>>
      /\ \/ /\ pc' = "rollback" /\ outcome' = "failed" /\ UNCHANGED <<fs, rb>>
         \/ /\ fs' = Move(fs, Root(File), Backup(Current, File))
            /\ rb' = Append(rb, [target |-> Root(File), backup |-> Backup(Current, File)])
            /\ pc' = "place" /\ outcome' = outcome
  BY DEF BackUp, Fail, Go, bounds, run
<1>1. CASE pc' = "rollback"
  <2>0. outcome' = "failed" /\ UNCHANGED <<fs, rb>>  BY <1>0, <1>1
  <2>1. Typed'  BY <1>0, <1>1, <2>0 DEF Typed, Outside, InPackage
  <2>2. PlaceInv'  BY <1>0, <1>1, <2>0 DEF PlaceInv, InPackage, InLoop
  <2>3. ListInv'  BY <1>1, <2>0, ListStill DEF InPackage
  <2>4. UndoInv'  BY <1>0, <1>1, <2>0, UndoStill DEF Uncommitted, InLoop, InPackage
  <2>5. UserInv'  BY <1>0, <2>0, UserStill DEF UserInv
  <2> QED  BY <2>1, <2>2, <2>3, <2>4, <2>5
<1>2. CASE pc' = "place"
  <2> DEFINE b == Backup(Current, File)
  <2>0. /\ fs' = Move(fs, Root(File), b) /\ outcome' = outcome
        /\ rb' = Append(rb, [target |-> Root(File), backup |-> b])
    BY <1>0, <1>2
  <2>1. /\ File \in Path /\ Current \in Pkg /\ kind \in InstallKinds
        /\ i \in Nat /\ at \in DOMAIN task
        /\ i \in DOMAIN Files(Current, Version) /\ IsInjective(Files(Current, Version))
        /\ b \in Backups(File)
    BY <1>0, FileType, PathsApart DEF PlaceInv, Typed, InPackage
  <2>2. \A k \in DOMAIN rb : rb[k].backup # b
    <3> SUFFICES ASSUME NEW k \in DOMAIN rb, rb[k].backup = b PROVE FALSE
      OBVIOUS
    <3>1. b # None  BY <2>1, PathsApart, NoneIsNoPlace
    <3>2. PICK j \in 1 .. at, f \in Path :
             /\ rb[k].backup = Backup(task[j][1], f)
             /\ j = at => \E n \in 1 .. i : /\ f = Files(Current, Version)[n]
                                            /\ n = i => pc = "place"
      BY <1>0, <2>1, <3>1 DEF ListInv, InPackage
    <3>3. j \in DOMAIN task /\ task[j][1] \in Pkg
      BY <2>1, InSeq DEF PlaceInv
    <3>4. f = File /\ task[j][1] = Current
      <4>1. Backup(task[j][1], f) = Backup(Current, File)  BY <3>2
      <4> QED  BY <2>1, <3>3, <4>1, StagingPlacesApart
    <3>5. j = at  BY <2>1, <3>3, <3>4 DEF PlaceInv, Current
    <3>6. PICK n \in 1 .. i : File = Files(Current, Version)[n] /\ n # i
      BY <1>0, <3>2, <3>4, <3>5
    <3>7. n \in DOMAIN Files(Current, Version)
      BY <1>0, <2>1, <3>6, FileType DEF InPackage
    <3> QED  BY <2>1, <3>6, <3>7 DEF IsInjective, File
  <2>3. /\ fs' \in [Place -> Content] /\ rb' \in Seq(Entry) /\ fs'[Root(File)] = None
        /\ UndoInv' /\ UserInv'
    BY <1>0, <1>2, <2>0, <2>1, <2>2, UndoMoves DEF InLoop, InPackage
  <2>4. Typed'  BY <1>0, <1>2, <2>3 DEF Typed, InPackage
  <2>5. UNCHANGED <<Current, Version, Files(Current, Version), File, AtEnd>>
    BY <1>0 DEF Current, Version, Files, File, AtEnd
  <2>6. PlaceInv'
    BY <1>0, <1>2, <2>0, <2>1, <2>3, <2>5 DEF PlaceInv, InPackage, InLoop, Exists, Root
  <2>7. ListInv'
    <3>1. DOMAIN rb' = DOMAIN rb \cup {Len(rb) + 1} /\ (\A k \in DOMAIN rb : rb'[k] = rb[k])
          /\ rb'[Len(rb) + 1] = [target |-> Root(File), backup |-> b]
      BY <2>0 DEF Typed
    <3>2. ASSUME NEW k \in DOMAIN rb', rb'[k].backup # None
          PROVE  \E j \in 1 .. at, f \in Path :
                    /\ rb'[k].backup = Backup(task[j][1], f)
                    /\ j = at => \E n \in 1 .. i : f = Files(Current, Version)[n]
      <4>1. CASE k \in DOMAIN rb
        BY <1>0, <2>1, <3>1, <3>2, <4>1 DEF ListInv, InPackage
      <4>2. CASE k = Len(rb) + 1
        <5>1. at \in 1 .. at /\ i \in 1 .. i
          <6>1. i \in 1 .. Len(Files(Current, Version))
            BY <1>0, <2>1, FileType DEF InPackage
          <6>2. at \in 1 .. Len(task)  BY <2>1 DEF PlaceInv
          <6> QED  BY <6>1, <6>2
        <5>2. rb'[k].backup = Backup(task[at][1], File)  BY <3>1, <4>2 DEF Current
        <5>3. File = Files(Current, Version)[i]  BY DEF File
        <5> QED  BY <2>1, <5>1, <5>2, <5>3
      <4> QED  BY <3>1, <4>1, <4>2
    <3>3. /\ \A k \in DOMAIN rb' : \E g \in Path :
                rb'[k].target = Root(g) /\ rb'[k].backup \in {None} \cup Backups(g)
          /\ \A g \in Path : Untouched(g)' \/ \E k \in DOMAIN rb' : First(g, k)'
          /\ \A j, k \in DOMAIN rb' :
                rb'[j].backup = rb'[k].backup /\ rb'[j].backup # None => j = k
      BY <2>0, <2>1, <2>2, ListAppends
    <3>4. kind' # "remove"  BY <1>0, <2>1 DEF InstallKinds
    <3>5. UNCHANGED <<at, i, task, Files(Current, Version)>> /\ pc' = "place"
      BY <1>0, <1>2, <2>5
    <3> QED
      BY <3>2, <3>3, <3>4, <3>5
      DEF ListInv, Root, Backup, Backups, Save, Removed
  <2> QED  BY <2>3, <2>4, <2>6, <2>7
<1> QED  BY <1>0, <1>1, <1>2

\* Placing a staged file preserves the invariant.
LEMMA PlaceFileStep ==
  ASSUME IInv, PlaceFile
  PROVE  IInv'
<1> DEFINE s == Stage(Current, File)
           n == Len(rb) + 1
           e == [target |-> Root(File), backup |-> None]
<1> USE DEF IInv
<1>0. /\ pc \in {"commit", "place"} /\ ~AtEnd /\ ~Exists(Root(File))
      /\ fs' = Move(fs, s, Root(File)) /\ rb' = Append(rb, e)
      /\ i' = i + 1 /\ pc' = "commit"
      /\ UNCHANGED <<task, kind, at, mem, db, record, enabled, oneDevice, lossy, before, outcome>>
  BY DEF PlaceFile, Go, run, PlaceInv
<1>1. /\ File \in Path /\ Current \in Pkg /\ kind \in InstallKinds
      /\ i \in Nat /\ at \in DOMAIN task
      /\ i < Len(Files(Current, Version)) + 1 /\ Len(Files(Current, Version)) \in Nat
  <2>1. pc \in InPackage  BY <1>0 DEF InPackage
  <2>2. i \in Nat /\ at \in DOMAIN task /\ kind \in InstallKinds
    BY <1>0, <2>1 DEF Typed, PlaceInv
  <2> QED  BY <1>0, <2>1, <2>2, FileType DEF AtEnd
<1>2. s \in Place /\ Root(File) \in Place /\ s # Root(File) /\ e \in Entry /\ n \in Nat
      /\ None # User /\ None \in Content
  BY <1>1, PathsApart, TransactionAssumption DEF Entry, Typed, Content
<1>3. /\ fs' \in [Place -> Content] /\ fs'[s] = None /\ fs'[Root(File)] = fs[s]
      /\ \A l \in Place : l \notin {s, Root(File)} => fs'[l] = fs[l]
  BY <1>0, <1>2 DEF Move, Typed
<1>4. /\ rb' \in Seq(Entry)
      /\ DOMAIN rb' = DOMAIN rb \cup {n} /\ n \notin DOMAIN rb
      /\ \A k \in DOMAIN rb : rb'[k] = rb[k]
      /\ rb'[n] = e
      /\ \A g \in Path : Untouched(g)' <=> Untouched(g) /\ e.target # Root(g)
      /\ \A g \in Path, k \in DOMAIN rb : First(g, k)' <=> First(g, k)
      /\ \A g \in Path, m \in Nat : m = n => (First(g, m)' <=> Untouched(g) /\ e.target = Root(g))
  BY <1>0, <1>2, AppendEntry DEF Typed
<1>5. UNCHANGED <<Current, Version, Files(Current, Version)>>
  BY <1>0 DEF Current, Version, Files
<1>6. Typed'  BY <1>0, <1>1, <1>3, <1>4 DEF Typed, InPackage
<1>7. PlaceInv'  BY <1>0, <1>1, <1>5 DEF PlaceInv, InPackage, InLoop
<1>8. ListInv'
  <2>1. /\ \A k \in DOMAIN rb' : \E g \in Path :
              rb'[k].target = Root(g) /\ rb'[k].backup \in {None} \cup Backups(g)
        /\ \A g \in Path : Untouched(g)' \/ \E k \in DOMAIN rb' : First(g, k)'
        /\ \A j, k \in DOMAIN rb' :
              rb'[j].backup = rb'[k].backup /\ rb'[j].backup # None => j = k
    BY <1>0, <1>1, ListAppends
  <2>2. kind' # "remove" /\ kind \in InstallKinds /\ pc \in InPackage
    BY <1>0, <1>1 DEF InstallKinds, InPackage
  <2>3. ASSUME NEW k \in DOMAIN rb', rb'[k].backup # None
        PROVE  \E j \in 1 .. at, f \in Path :
                  /\ rb'[k].backup = Backup(task[j][1], f)
                  /\ j = at => \E m \in 1 .. i' : f = Files(Current, Version)[m] /\ m # i'
    <3>1. k \in DOMAIN rb /\ rb'[k] = rb[k]  BY <1>4, <2>3
    <3>2. PICK j \in 1 .. at, f \in Path :
             /\ rb[k].backup = Backup(task[j][1], f)
             /\ j = at => \E m \in 1 .. i : f = Files(Current, Version)[m]
      BY <2>2, <2>3, <3>1 DEF ListInv
    <3>3. \A m \in 1 .. i : m \in 1 .. i' /\ m # i'  BY <1>0, <1>1
    <3> QED  BY <3>1, <3>2, <3>3
  <2> QED
    <3>1. (\A k \in DOMAIN rb : rb[k].backup # None =>
              \E j \in 1 .. at, f \in Path :
                 /\ rb[k].backup = Backup(task[j][1], f)
                 /\ j = at => \E m \in 1 .. i : /\ f = Files(Current, Version)[m]
                                                /\ m = i => pc = "place")'
      BY <1>0, <1>5, <2>3 DEF Backup
    <3> QED  BY <2>1, <2>2, <3>1 DEF ListInv, Root, Backup, Backups, Save, Removed
<1>9. UndoInv'
  <2>1. Uncommitted /\ pc' \notin {"cleanup", "finish"} /\ pc \in InLoop
    BY <1>0 DEF Uncommitted, InLoop, InPackage
  <2>2. ASSUME NEW g \in Path, NEW k \in DOMAIN rb', First(g, k)'
        PROVE  (IF rb[k].backup = None THEN before[g] = None ELSE fs[rb[k].backup] = before[g])'
    <3>1. CASE k \in DOMAIN rb
      <4>1. First(g, k) /\ rb'[k] = rb[k]  BY <2>2, <1>4, <3>1
      <4>2. rb[k].backup \notin {s, Root(File)}
            /\ (rb[k].backup # None => rb[k].backup \in Place)
        BY <3>1, <1>1, <1>2, PathsApart, NoneIsNoPlace DEF ListInv
      <4>3. IF rb[k].backup = None THEN before[g] = None ELSE fs[rb[k].backup] = before[g]
        BY <4>1, <3>1, <2>1 DEF UndoInv
      <4> QED  BY <1>0, <4>1, <4>2, <4>3, <1>3
    <3>2. CASE k = n
      <4>1. Untouched(g) /\ Root(File) = Root(g)  BY <2>2, <1>2, <1>4, <3>2
      <4>2. File = g /\ fs[Root(File)] = before[File]
        BY <1>1, <4>1, <2>1, PathsApart DEF UndoInv
      <4> QED  BY <1>0, <4>2, <1>4, <3>2 DEF Exists
    <3> QED  BY <1>4, <3>1, <3>2
  <2>3. ASSUME NEW g \in Path, Untouched(g)'
        PROVE  Kept(g)' /\ (pc \in InLoop \/ Exact => fs[Root(g)] = before[g])'
    <3>1. Untouched(g) /\ g # File  BY <2>3, <1>4
    <3>2. fs[Root(g)] = before[g] /\ Root(g) \in Place /\ Root(g) \notin {Root(File), s}
      BY <1>1, <3>1, <2>1, PathsApart DEF UndoInv
    <3>3. fs'[Root(g)] = before'[g]  BY <1>0, <3>2, <1>3
    <3> QED  BY <3>3, CopiesAre DEF Kept, Copies, Root
  <2> QED  BY <2>1, <2>2, <2>3 DEF UndoInv, Failed, Root
<1>10. UserInv'
  <2>1. \A p \in Pkg, g \in Path : Stage(p, g) \in Place /\ Stage(p, g) # Root(File)
    BY <1>1, PathsApart
  <2>2. \A p \in Pkg, g \in Path : fs'[Stage(p, g)] # User
    BY <1>2, <1>3, <2>1 DEF UserInv
  <2>3. pc # "idle" /\ fs[s] # User  BY <1>0, <1>1 DEF UserInv
  <2>4. ASSUME NEW k \in DOMAIN rb'
        PROVE  fs'[rb'[k].target] # User
    <3>1. CASE k \in DOMAIN rb
      <4>1. rb'[k] = rb[k] /\ fs[rb[k].target] # User  BY <3>1, <1>4, <2>3 DEF UserInv
      <4>2. rb[k].target \in Place  BY <3>1, PathsApart DEF ListInv
      <4> QED  BY <4>1, <4>2, <1>2, <1>3, <2>3
    <3>2. CASE k = n  BY <3>2, <1>3, <1>4, <2>3
    <3> QED  BY <1>4, <3>1, <3>2
  <2>5. ASSUME NEW k \in DOMAIN rb', NEW g \in Path,
               rb'[k].target = Root(g), ~First(g, k)', rb'[k].backup # None
        PROVE  fs'[rb'[k].backup] # User
    <3>1. k \in DOMAIN rb /\ rb'[k] = rb[k]  BY <1>4, <2>5
    <3>2. fs[rb[k].backup] # User  BY <3>1, <2>5, <1>4, <2>3 DEF UserInv
    <3>3. rb[k].backup \in Place /\ rb[k].backup \notin {Root(File), s}
      BY <1>1, <3>1, <2>5, PathsApart DEF ListInv
    <3> QED  BY <3>1, <3>2, <3>3, <1>3
  <2> QED  BY <2>2, <2>4, <2>5 DEF UserInv, Root, Stage
<1> QED  BY <1>6, <1>7, <1>8, <1>9, <1>10

\* Removing a file preserves the invariant.
LEMMA RemoveFileStep ==
  ASSUME IInv, RemoveFile
  PROVE  IInv'
<1> DEFINE b == IF Modified(File) THEN Save(File) ELSE Removed(Current, File)
<1> USE DEF IInv
<1>0. /\ pc = "remove" /\ ~AtEnd /\ kind = "remove"
      /\ IF Exists(Root(File))
         THEN /\ fs' = Move(fs, Root(File), b)
              /\ rb' = Append(rb, [target |-> Root(File), backup |-> b])
         ELSE UNCHANGED <<fs, rb>>
      /\ i' = i + 1 /\ pc' = "remove"
      /\ UNCHANGED <<task, kind, at, mem, db, record, enabled, oneDevice, lossy, before, outcome>>
  BY DEF RemoveFile, Go, run, PlaceInv
<1>1. /\ File \in Path /\ Current \in Pkg /\ i \in Nat
      /\ i < Len(Files(Current, Version)) + 1 /\ Len(Files(Current, Version)) \in Nat
      /\ b \in Backups(File)
  <2>1. pc \in InPackage  BY <1>0 DEF InPackage
  <2>2. i \in Nat  BY DEF Typed
  <2>3. File \in Path /\ Current \in Pkg /\ Len(Files(Current, Version)) \in Nat
    BY <1>0, <2>1, FileType
  <2>4. b \in Backups(File)  BY <2>3, PathsApart
  <2> QED  BY <1>0, <2>2, <2>3, <2>4 DEF AtEnd
<1>2. UNCHANGED <<Current, Version, Files(Current, Version)>>
  BY <1>0 DEF Current, Version, Files
<1>3. PlaceInv'  BY <1>0, <1>1, <1>2 DEF PlaceInv, InPackage, InLoop, InstallKinds
<1>4. kind \notin InstallKinds /\ pc \in InPackage /\ pc' \in InPackage
  BY <1>0 DEF InstallKinds, InPackage
<1>5. CASE ~Exists(Root(File))
  <2>0. UNCHANGED <<fs, rb>>  BY <1>0, <1>5
  <2>1. Typed'  BY <1>0, <1>1, <1>4, <2>0 DEF Typed
  <2>2. ListInv'
    BY <1>0, <1>4, <2>0
    DEF ListInv, First, Untouched, Root, Backups, Save, Backup, Removed, Exists
  <2>3. UndoInv'  BY <1>0, <2>0, UndoStill DEF Uncommitted, InLoop, InPackage
  <2>4. UserInv'  BY <1>0, <2>0, UserStill DEF UserInv
  <2> QED  BY <1>3, <2>1, <2>2, <2>3, <2>4
<1>6. CASE Exists(Root(File))
  <2>0. /\ fs' = Move(fs, Root(File), b)
        /\ rb' = Append(rb, [target |-> Root(File), backup |-> b])
    BY <1>0, <1>6
  <2>1. \A k \in DOMAIN rb : rb[k].target # Root(File)
    BY <1>0, <1>4, <1>6 DEF ListInv
  <2>2. \A k \in DOMAIN rb : rb[k].backup # b
    BY <1>1, <2>1, PathsApart, NoneIsNoPlace DEF ListInv
  <2>3. /\ fs' \in [Place -> Content] /\ rb' \in Seq(Entry)
        /\ fs'[Root(File)] = None
        /\ \A l \in Place : l \notin {Root(File), b} => fs'[l] = fs[l]
        /\ UndoInv' /\ UserInv'
    BY <1>0, <1>1, <1>4, <1>6, <2>0, <2>2, UndoMoves DEF InLoop
  <2>4. Typed'  BY <1>0, <1>1, <1>4, <2>3 DEF Typed
  <2>5. ListInv'
    <3>1. DOMAIN rb' = DOMAIN rb \cup {Len(rb) + 1} /\ (\A k \in DOMAIN rb : rb'[k] = rb[k])
          /\ rb'[Len(rb) + 1] = [target |-> Root(File), backup |-> b]
      BY <2>0 DEF Typed
    <3>2. \A k \in DOMAIN rb' : (~Exists(rb[k].target))'
      <4> SUFFICES ASSUME NEW k \in DOMAIN rb' PROVE fs'[rb'[k].target] = None
        BY DEF Exists
      <4>1. CASE k \in DOMAIN rb
        <5>1. rb'[k] = rb[k] /\ fs[rb[k].target] = None
          BY <1>0, <1>4, <3>1, <4>1 DEF ListInv, Exists
        <5>2. rb[k].target \in Place /\ rb[k].target \notin {Root(File), b}
          BY <1>1, <2>1, <4>1, PathsApart DEF ListInv
        <5> QED  BY <5>1, <5>2, <2>3
      <4>2. CASE k = Len(rb) + 1  BY <3>1, <2>3, <4>2
      <4> QED  BY <3>1, <4>1, <4>2
    <3>3. /\ \A k \in DOMAIN rb' : \E g \in Path :
                rb'[k].target = Root(g) /\ rb'[k].backup \in {None} \cup Backups(g)
          /\ \A g \in Path : Untouched(g)' \/ \E k \in DOMAIN rb' : First(g, k)'
          /\ \A j, k \in DOMAIN rb' :
                rb'[j].backup = rb'[k].backup /\ rb'[j].backup # None => j = k
      BY <1>1, <2>0, <2>2, ListAppends
    <3> QED
      BY <1>0, <1>4, <3>2, <3>3 DEF ListInv, Root, Backups, Save, Backup, Removed, Exists
  <2> QED  BY <1>3, <2>3, <2>4, <2>5
<1> QED  BY <1>5, <1>6

\* A call that stops half way writes at one place at most: beside the root, in
\* the root where there was nothing and the staging area is elsewhere, or the
\* backup a removal was about to make.
CutAt(f, l, c) ==
    /\ l \in Place /\ c \in Content
    /\ fs' = [fs EXCEPT ![l] = c]
    /\ \/ l = Dist(f)
       \/ l = Root(f) /\ ~oneDevice /\ ~Exists(Root(f)) /\ c = Partial
       \/ l \in Backups(f) /\ Exists(Root(f)) /\ pc = "remove"

\* CutShort is what CutAt says.
LEMMA CutShortIs ==
  ASSUME IInv, fs' \in CutShort
  PROVE  UNCHANGED fs \/ \E f \in Path, l \in Place, c \in Content : CutAt(f, l, c)
<1> SUFFICES ASSUME fs' # fs
             PROVE  \E f \in Path, l \in Place, c \in Content : CutAt(f, l, c)
  OBVIOUS
<1>1. PICK x \in Leftover : fs' = [fs EXCEPT ![x[1]] = x[2]]
  BY DEF CutShort
<1>2. pc \in {"commit", "place", "remove"} /\ ~AtEnd  BY DEF CutShort
<1>3. File \in Path /\ Current \in Pkg
  BY <1>2, FileType DEF IInv, InPackage
<1>4. /\ Dist(File) \in Place /\ Root(File) \in Place /\ Save(File) \in Backups(File)
      /\ Removed(Current, File) \in Backups(File) /\ Backups(File) \subseteq Place
      /\ fs[Root(File)] \in Content /\ {None, Partial} \subseteq Content
  BY <1>3, PathsApart DEF IInv, Typed, Content
<1>5. \/ x[1] = Dist(File) /\ x[2] \in {None, Partial}
      \/ x[1] = Root(File) /\ ~oneDevice /\ ~Exists(Root(File)) /\ x[2] = Partial
      \/ /\ x[1] \in {Save(File), Removed(Current, File)}
         /\ Exists(Root(File)) /\ pc = "remove" /\ x[2] \in {None, Partial, fs[Root(File)]}
  BY DEF Leftover
<1>6. CutAt(File, x[1], x[2]) /\ x[1] \in Place /\ x[2] \in Content
  BY <1>1, <1>4, <1>5 DEF CutAt
<1> QED  BY <1>3, <1>6

\* What such a call leaves alone.
LEMMA CutShortLeaves ==
  ASSUME IInv, fs' \in CutShort
  PROVE  /\ fs' \in [Place -> Content]
         /\ \A p \in Pkg, f \in Path : fs'[Stage(p, f)] # User
         /\ \A f \in Path : \/ fs'[Root(f)] = fs[Root(f)]
                            \/ ~oneDevice /\ ~Exists(Root(f)) /\ fs'[Root(f)] = Partial
         /\ \A k \in DOMAIN rb : rb[k].backup # None => fs'[rb[k].backup] = fs[rb[k].backup]
<1> USE DEF IInv
<1>1. CASE UNCHANGED fs  BY <1>1 DEF Typed, UserInv
<1>2. CASE \E f \in Path, l \in Place, c \in Content : CutAt(f, l, c)
  <2>1. PICK f \in Path, l \in Place, c \in Content : CutAt(f, l, c)  BY <1>2
  <2>2. fs' \in [Place -> Content] /\ fs'[l] = c /\ \A m \in Place : m # l => fs'[m] = fs[m]
    BY <2>1 DEF CutAt, Typed
  <2>3. \A p \in Pkg, g \in Path : Stage(p, g) \in Place /\ Stage(p, g) # l
    BY <2>1, PathsApart, StageApart DEF CutAt
  <2>4. ASSUME NEW g \in Path
        PROVE  \/ fs'[Root(g)] = fs[Root(g)]
               \/ ~oneDevice /\ ~Exists(Root(g)) /\ fs'[Root(g)] = Partial
    <3>1. Root(g) \in Place /\ (Root(g) = l => l = Root(f))
      BY <2>1, PathsApart DEF CutAt
    <3>2. l = Root(f) => ~oneDevice /\ ~Exists(Root(f)) /\ c = Partial
      BY <2>1, PathsApart DEF CutAt
    <3> QED  BY <2>2, <3>1, <3>2
  <2>5. ASSUME NEW k \in DOMAIN rb, rb[k].backup # None
        PROVE  fs'[rb[k].backup] = fs[rb[k].backup]
    <3>1. PICK g \in Path : rb[k].target = Root(g) /\ rb[k].backup \in Backups(g)
      BY <2>5 DEF ListInv
    <3>2. rb[k].backup \in Place /\ rb[k].backup # Dist(f) /\ rb[k].backup # Root(f)
      BY <3>1, PathsApart
    <3>3. l \in Backups(f) /\ Exists(Root(f)) /\ pc = "remove" => g # f
      BY <3>1 DEF ListInv, PlaceInv, InPackage
    <3>4. l # rb[k].backup  BY <2>1, <3>1, <3>2, <3>3, PathsApart DEF CutAt
    <3> QED  BY <2>2, <3>2, <3>4
  <2> QED  BY <2>2, <2>3, <2>4, <2>5 DEF UserInv
<1> QED  BY <1>1, <1>2, CutShortIs

\* An I/O error in the middle of a file preserves the invariant.
LEMMA FileErrorStep ==
  ASSUME IInv, FileError
  PROVE  IInv'
<1> USE DEF IInv
<1>0. /\ pc \in {"commit", "place", "remove"} /\ fs' \in CutShort
      /\ pc' = "rollback" /\ outcome' = "failed"
      /\ UNCHANGED <<task, kind, at, i, mem, rb, db, record, enabled, oneDevice, lossy, before>>
  BY DEF FileError, run
<1>1. /\ fs' \in [Place -> Content]
      /\ \A p \in Pkg, f \in Path : fs'[Stage(p, f)] # User
      /\ \A f \in Path : \/ fs'[Root(f)] = fs[Root(f)]
                         \/ ~oneDevice /\ ~Exists(Root(f)) /\ fs'[Root(f)] = Partial
      /\ \A k \in DOMAIN rb : rb[k].backup # None => fs'[rb[k].backup] = fs[rb[k].backup]
  BY <1>0, CutShortLeaves
<1>2. Typed'  BY <1>0, <1>1 DEF Typed, Outside
<1>3. PlaceInv'  BY <1>0 DEF PlaceInv, InPackage, InLoop
<1>4. ListInv'  BY <1>0, ListStill DEF InPackage
<1>5. \A f \in Path : /\ Untouched(f)' <=> Untouched(f)
                      /\ \A k \in DOMAIN rb : First(f, k)' <=> First(f, k)
  BY <1>0 DEF First, Untouched, Root
<1>6. UndoInv'
  <2>1. Uncommitted /\ pc \in InLoop  BY <1>0 DEF Uncommitted, InLoop, InPackage
  <2>2. ASSUME NEW f \in Path, Untouched(f)
        PROVE  Kept(f)' /\ (Exact => fs[Root(f)] = before[f])'
    <3>1. fs[Root(f)] = before[f]  BY <2>1, <2>2 DEF UndoInv
    <3>2. before[f] # None => fs'[Root(f)] = before'[f]
      BY <1>0, <1>1, <3>1 DEF Exists
    <3>3. oneDevice => fs'[Root(f)] = before'[f]  BY <1>0, <1>1, <3>1
    <3> QED  BY <1>0, <3>2, <3>3, CopiesAre DEF Kept, Copies, Root, Exact
  <2>3. ASSUME NEW f \in Path, NEW k \in DOMAIN rb, First(f, k)
        PROVE  IF rb[k].backup = None THEN before[f] = None ELSE fs'[rb[k].backup] = before[f]
    BY <2>1, <2>3, <1>1 DEF UndoInv
  <2>4. pc' \notin InLoop /\ ~Failed' /\ pc' # "finish"
    BY <1>0 DEF InLoop, InPackage, Failed
  <2> QED  BY <1>0, <1>5, <2>2, <2>3, <2>4 DEF UndoInv, Root
<1>7. UserInv'
  <2>1. \A k \in DOMAIN rb : fs'[rb[k].target] # User
    <3>1. \A k \in DOMAIN rb : fs[rb[k].target] # User
      BY <1>0 DEF UserInv
    <3>2. Partial # User  BY TransactionAssumption
    <3> QED  BY <1>1, <3>1, <3>2 DEF ListInv
  <2>2. ASSUME NEW k \in DOMAIN rb, NEW f \in Path,
               rb[k].target = Root(f), ~First(f, k), rb[k].backup # None
        PROVE  fs'[rb[k].backup] # User
    BY <1>0, <1>1, <2>2 DEF UserInv
  <2> QED  BY <1>0, <1>1, <1>5, <2>1, <2>2 DEF UserInv, Root, Stage
<1> QED  BY <1>2, <1>3, <1>4, <1>6, <1>7

\* Rolling back one entry preserves the invariant.
LEMMA RollbackStep ==
  ASSUME IInv, Rollback
  PROVE  IInv'
<1> DEFINE e == Last(rb)
           n == Len(rb)
           bare == Delete(fs, e.target)
           back == Move(bare, e.backup, e.target)
           away == Move(fs, e.backup, e.target)
<1> USE DEF IInv
<1>0. /\ pc = "rollback" /\ rb # <<>> /\ rb' = Front(rb)
      /\ UNCHANGED <<pc, task, kind, at, i, mem, db, record, enabled, oneDevice, before, outcome>>
      /\ lossy' \in {lossy, TRUE}
      /\ \/ e.backup = None /\ fs' = bare
         \/ e.backup # None /\ fs' = back
         \/ e.backup # None /\ fs' = bare /\ lossy'
         \/ e.backup # None /\ fs' = away /\ lossy'
         \/ fs' = fs /\ lossy'
  BY DEF Rollback, run, bounds
<1>1. /\ rb' \in Seq(Entry)
      /\ DOMAIN rb = DOMAIN rb' \cup {n} /\ n \notin DOMAIN rb'
      /\ \A k \in DOMAIN rb' : rb'[k] = rb[k]
      /\ e = rb[n] /\ e \in Entry
      /\ \A f \in Path : Untouched(f) <=> Untouched(f)' /\ e.target # Root(f)
      /\ \A f \in Path, k \in DOMAIN rb' : First(f, k)' <=> First(f, k)
      /\ \A f \in Path : First(f, n) <=> Untouched(f)' /\ e.target = Root(f)
  BY <1>0, FrontEntry DEF Typed
<1>2. PICK f \in Path : e.target = Root(f) /\ e.backup \in {None} \cup Backups(f)
  BY <1>1 DEF ListInv
<1>3. Root(f) \in Place /\ (e.backup # None => e.backup \in Place /\ e.backup # Root(f))
      /\ None \in Content
  BY <1>2, PathsApart DEF Content
<1>4. /\ fs' \in [Place -> Content]
      /\ \A l \in Place : l \notin {Root(f), e.backup} => fs'[l] = fs[l]
      /\ \/ e.backup = None /\ fs'[Root(f)] = None
         \/ e.backup # None /\ fs'[Root(f)] = fs[e.backup] /\ fs'[e.backup] = None
         \/ /\ lossy' /\ fs'[Root(f)] \in {fs[Root(f)], None}
            /\ e.backup # None => fs'[e.backup] = fs[e.backup]
  <2>1. CASE e.backup = None /\ fs' = bare  BY <1>2, <1>3, <2>1 DEF Delete, Typed
  <2>2. CASE e.backup # None /\ fs' = back  BY <1>2, <1>3, <2>2 DEF Delete, Move, Typed
  <2>3. CASE e.backup # None /\ fs' = bare /\ lossy'  BY <1>2, <1>3, <2>3 DEF Delete, Typed
  <2>4. CASE e.backup # None /\ fs' = away /\ lossy'  BY <1>2, <1>3, <2>4 DEF Move, Typed
  <2>5. CASE fs' = fs /\ lossy'  BY <2>5 DEF Typed
  <2> QED  BY <1>0, <2>1, <2>2, <2>3, <2>4, <2>5
<1>5. Typed'  BY <1>0, <1>1, <1>4 DEF Typed
<1>6. PlaceInv'  BY <1>0 DEF PlaceInv, InPackage, InLoop
<1>7. ListInv'
  <2>1. \A k \in DOMAIN rb' : k \in DOMAIN rb /\ rb'[k] = rb[k]  BY <1>1
  <2>2. \A g \in Path : Untouched(g)' \/ \E k \in DOMAIN rb' : First(g, k)'
    BY <1>1 DEF ListInv
  <2>3. pc' \notin InPackage  BY <1>0 DEF InPackage
  <2>4. \A k \in DOMAIN rb' : \E g \in Path :
           rb'[k].target = Root(g) /\ rb'[k].backup \in {None} \cup Backups(g)
    BY <2>1 DEF ListInv
  <2>5. \A j, k \in DOMAIN rb' :
           rb'[j].backup = rb'[k].backup /\ rb'[j].backup # None => j = k
    BY <2>1 DEF ListInv
  <2> QED  BY <2>2, <2>3, <2>4, <2>5 DEF ListInv, Root, Backups, Save, Backup, Removed
\* The entries that stay have backups of their own.
<1>8. ASSUME NEW k \in DOMAIN rb'
      PROVE  /\ rb[k].target \in Place /\ rb[k].target # e.backup
             /\ rb[k].backup # None =>
                   rb[k].backup \in Place /\ fs'[rb[k].backup] = fs[rb[k].backup]
  <2>1. k \in DOMAIN rb /\ k # n /\ n \in DOMAIN rb  BY <1>1
  <2>2. PICK g \in Path : rb[k].target = Root(g) /\ rb[k].backup \in {None} \cup Backups(g)
    BY <2>1 DEF ListInv
  <2>3. rb[k].backup # None => rb[k].backup # e.backup  BY <1>1, <2>1 DEF ListInv
  <2>4. rb[k].backup # None => rb[k].backup \in Place /\ rb[k].backup # Root(f)
    BY <2>2, PathsApart
  <2>5. rb[k].target \in Place /\ rb[k].target # e.backup
    BY <1>2, <2>2, PathsApart, NoneIsNoPlace
  <2> QED  BY <1>4, <2>3, <2>4, <2>5
<1>9. UndoInv'
  <2>1. Uncommitted /\ pc \notin InLoop  BY <1>0 DEF Uncommitted, InLoop, InPackage
  <2>2. ASSUME NEW g \in Path, NEW k \in DOMAIN rb', First(g, k)'
        PROVE  (IF rb[k].backup = None THEN before[g] = None ELSE fs[rb[k].backup] = before[g])'
    <3>1. k \in DOMAIN rb /\ First(g, k) /\ rb'[k] = rb[k]  BY <1>1, <2>2
    <3>2. IF rb[k].backup = None THEN before[g] = None ELSE fs[rb[k].backup] = before[g]
      BY <2>1, <3>1 DEF UndoInv
    <3> QED  BY <1>0, <1>8, <3>1, <3>2
  <2>3. ASSUME NEW g \in Path, Untouched(g)'
        PROVE  Kept(g)' /\ (Exact => fs[Root(g)] = before[g])'
    <3>1. CASE g = f
      <4>1. First(f, n) /\ n \in DOMAIN rb  BY <1>1, <1>2, <2>3, <3>1
      <4>2. IF e.backup = None THEN before[f] = None ELSE fs[e.backup] = before[f]
        <5>1. IF rb[n].backup = None THEN before[f] = None ELSE fs[rb[n].backup] = before[f]
          BY <2>1, <4>1 DEF UndoInv
        <5>2. e = rb[n]  BY <1>1
        <5> QED  BY <5>1, <5>2
      <4>3. \/ fs'[Root(f)] = before[f]
            \/ lossy' /\ (before[f] # None => e.backup # None /\ fs'[e.backup] = before[f])
        BY <1>4, <4>2
      <4>4. e.backup # None => e.backup \in Copies(f)  BY <1>2, CopiesAre
      <4> QED
        BY <1>0, <3>1, <4>3, <4>4, CopiesAre DEF Kept, Copies, Root, Exact, Save, Backup, Removed
    <3>2. CASE g # f
      <4>1. Untouched(g)  BY <1>1, <1>2, <2>3, <3>2, PathsApart
      <4>2. \A l \in Copies(g) : fs'[l] = fs[l]
        <5> SUFFICES ASSUME NEW l \in Copies(g) PROVE fs'[l] = fs[l]  OBVIOUS
        <5>1. l \in Place /\ l # Root(f) /\ l # e.backup
          BY <1>2, <3>2, PathsApart, CopiesAre, NoneIsNoPlace
        <5> QED  BY <1>4, <5>1
      <4>3. Kept(g) /\ (Exact => fs[Root(g)] = before[g])  BY <2>1, <4>1 DEF UndoInv
      <4>4. fs'[Root(g)] = fs[Root(g)]  BY <4>2, CopiesAre
      <4>5. Exact' => Exact  BY <1>0 DEF Exact, Typed
      <4> QED
        BY <1>0, <4>2, <4>3, <4>4, <4>5 DEF Kept, Copies, Root, Save, Backup, Removed
    <3> QED  BY <3>1, <3>2
  <2>4. pc' \notin InLoop /\ ~Failed' /\ pc' # "finish"
    BY <1>0, <2>1 DEF Failed, InLoop, InPackage
  <2> QED  BY <2>2, <2>3, <2>4 DEF UndoInv, Root
<1>10. UserInv'
  <2>1. \A p \in Pkg, g \in Path : fs'[Stage(p, g)] # User
    <3> SUFFICES ASSUME NEW p \in Pkg, NEW g \in Path PROVE fs'[Stage(p, g)] # User
      OBVIOUS
    <3>1. Stage(p, g) \in Place /\ Stage(p, g) # Root(f) /\ Stage(p, g) # e.backup
      BY <1>2, PathsApart, NoneIsNoPlace
    <3> QED  BY <1>4, <3>1 DEF UserInv
  <2>2. pc # "idle" /\ None # User  BY <1>0, TransactionAssumption
  <2>3. ASSUME NEW k \in DOMAIN rb'
        PROVE  fs'[rb'[k].target] # User
    <3>1. k \in DOMAIN rb /\ rb'[k] = rb[k] /\ fs[rb[k].target] # User
      BY <1>1, <2>2 DEF UserInv
    <3>2. CASE rb[k].target # Root(f)  BY <1>4, <1>8, <3>1, <3>2
    <3>3. CASE rb[k].target = Root(f)
      <4>1. ~First(f, n)  BY <1>1, <3>1, <3>3 DEF Untouched, Root
      <4>2. e.backup # None => fs[e.backup] # User
        BY <1>1, <1>2, <2>2, <4>1 DEF UserInv
      <4> QED  BY <1>4, <2>2, <3>1, <3>3, <4>2
    <3> QED  BY <3>2, <3>3
  <2>4. ASSUME NEW k \in DOMAIN rb', NEW g \in Path,
               rb'[k].target = Root(g), ~First(g, k)', rb'[k].backup # None
        PROVE  fs'[rb'[k].backup] # User
    <3>1. k \in DOMAIN rb /\ rb'[k] = rb[k] /\ ~First(g, k)  BY <1>1, <2>4
    <3>2. fs[rb[k].backup] # User  BY <2>2, <2>4, <3>1 DEF UserInv
    <3> QED  BY <1>8, <2>4, <3>1, <3>2
  <2> QED  BY <2>1, <2>3, <2>4 DEF UserInv, Root, Stage
<1> QED  BY <1>5, <1>6, <1>7, <1>9, <1>10

\* Deleting the backups preserves the invariant.
LEMMA FinalizeStep ==
  ASSUME IInv, Finalize
  PROVE  IInv'
<1> DEFINE backups == {rb[k].backup : k \in DOMAIN rb}
<1> USE DEF IInv
<1>0. /\ pc = "finalize" /\ pc' = "finish"
      /\ UNCHANGED <<task, kind, at, i, mem, rb, db, record, enabled, oneDevice, lossy, before,
                     outcome>>
      /\ \E gone \in SUBSET backups : fs' = [l \in Place |-> IF l \in gone THEN None ELSE fs[l]]
  <2>1. backups \in SUBSET backups /\ \A b \in backups : backups \ {b} \in SUBSET backups
    OBVIOUS
  <2> QED  BY <2>1 DEF Finalize, run
<1>1. PICK gone \in SUBSET backups : fs' = [l \in Place |-> IF l \in gone THEN None ELSE fs[l]]
  BY <1>0
<1>2. \A f \in Path : Root(f) \in Place /\ Root(f) \notin gone
  BY PathsApart, NoneIsNoPlace DEF ListInv
<1>3. Typed'  BY <1>0, <1>1 DEF Typed, Outside, Content
<1>4. PlaceInv'  BY <1>0 DEF PlaceInv, InPackage, InLoop
<1>5. ListInv'  BY <1>0, ListStill DEF InPackage
<1>6. UndoInv'  BY <1>0 DEF UndoInv, Uncommitted, Failed, PlaceInv
<1>7. UserInv'
  <2>1. \A l \in Place : fs'[l] \in {None, fs[l]}  BY <1>1
  <2>2. \A p \in Pkg, f \in Path : Stage(p, f) \in Place  BY PathsApart
  <2>3. None # User /\ pc # "idle"  BY <1>0, TransactionAssumption
  <2>4. \A k \in DOMAIN rb : /\ rb[k].target \in Place
                             /\ rb[k].backup # None => rb[k].backup \in Place
    BY PathsApart DEF ListInv
  <2>5. \A f \in Path, k \in DOMAIN rb : First(f, k)' <=> First(f, k)
    BY <1>0 DEF First, Root
  <2> QED  BY <1>0, <2>1, <2>2, <2>3, <2>4, <2>5 DEF UserInv, Root, Stage
<1> QED  BY <1>3, <1>4, <1>5, <1>6, <1>7

\* Deleting the staging directories preserves the invariant.
LEMMA CleanupStep ==
  ASSUME IInv, Cleanup
  PROVE  IInv'
<1> USE TransactionAssumption DEF IInv, Cleanup, Go, run, bounds
<1>1. Typed'  BY DEF Typed, Outside, Content
<1>2. PlaceInv'  BY DEF PlaceInv, InPackage, InLoop
<1>3. ListInv'  BY ListStill DEF InPackage
<1>4. UndoInv'  BY DEF UndoInv, Uncommitted, Failed
<1>5. UserInv'
  <2>1. \A p \in Pkg, f \in Path : Stage(p, f) \in Place  BY PathsApart
  <2> QED  BY <2>1 DEF UserInv, Stage
<1> QED  BY <1>1, <1>2, <1>3, <1>4, <1>5

\* A crash preserves the invariant.
LEMMA CrashStep ==
  ASSUME IInv, Crash
  PROVE  IInv'
<1> USE DEF IInv
<1>0. /\ pc' = "idle" /\ fs' \in CutShort
      /\ UNCHANGED <<task, kind, at, i, mem, rb, db, record, enabled, oneDevice, lossy, before,
                     outcome>>
  BY DEF Crash, run
<1>1. fs' \in [Place -> Content] /\ \A p \in Pkg, f \in Path : fs'[Stage(p, f)] # User
  BY <1>0, CutShortLeaves
<1>2. Typed'  BY <1>0, <1>1 DEF Typed, Outside
<1>3. PlaceInv'  BY <1>0 DEF PlaceInv, InPackage, InLoop
<1>4. ListInv'  BY <1>0, ListStill DEF InPackage
<1>5. UndoInv'  BY <1>0 DEF UndoInv, Uncommitted, Failed
<1>6. UserInv'  BY <1>0, <1>1 DEF UserInv, Stage
<1> QED  BY <1>2, <1>3, <1>4, <1>5, <1>6

\* A step that changes nothing preserves the invariant.
LEMMA StutterStep ==
  ASSUME IInv, UNCHANGED vars
  PROVE  IInv'
<1> USE DEF IInv, vars, disk, run, bounds
<1>1. Typed'  BY DEF Typed
<1>2. PlaceInv'
  BY DEF PlaceInv, Current, Version, Files, AtEnd, File, Exists, Root
<1>3. ListInv'
  <2>1. UNCHANGED <<Files(Current, Version), task, at, i, pc, kind, fs, rb>>
    BY DEF Current, Version, Files
  <2>2. \A f \in Path : /\ Untouched(f)' <=> Untouched(f)
                        /\ \A k \in DOMAIN rb : First(f, k)' <=> First(f, k)
                        /\ Backups(f)' = Backups(f)
    BY DEF Untouched, First, Root, Backups, Save, Backup, Removed
  <2> HIDE DEF vars, disk, run, bounds
  <2> QED  BY <2>1, <2>2 DEF ListInv, Root, Backup, Exists
<1>4. UndoInv'
  BY DEF UndoInv, Uncommitted, First, Untouched, Kept, Copies, Root, Exact, Failed, Save, Backup,
         Removed
<1>5. UserInv'  BY DEF UserInv, First, Root, Stage
<1> QED  BY <1>1, <1>2, <1>3, <1>4, <1>5

\* Every step preserves the invariant.
LEMMA NextInv == IInv /\ [Next]_vars => IInv'
<1> SUFFICES ASSUME IInv, [Next]_vars PROVE IInv'  OBVIOUS
<1>1. ASSUME NEW k \in InstallKinds, NEW t \in Tasks, BeginInstall(k, t) PROVE IInv'
  BY <1>1, BeginInstallStep
<1>2. ASSUME NEW t \in Removals, BeginRemove(t) PROVE IInv'  BY <1>2, BeginRemoveStep
<1>3. ASSUME NEW f \in Path, Edit(f) PROVE IInv'  BY <1>3, EditStep
<1>4. CASE Work
  BY <1>4, PrepareStep, ValidateStep, PreInstallStep, RefuseUnownedStep, KeepConfigStep, BackUpStep,
     PlaceFileStep, PostInstallStep, FileErrorStep, PreRemoveStep, RemoveFileStep, PostRemoveStep,
     SaveDBStep, RollbackStep, RollbackDoneStep, FinalizeStep, FinishStep, CleanupStep
  DEF Work
<1>5. CASE Crash  BY <1>5, CrashStep
<1>6. CASE Quiet \/ UNCHANGED vars  BY <1>6, StutterStep DEF Quiet
<1> QED  BY <1>1, <1>2, <1>3, <1>4, <1>5, <1>6 DEF Next

\* The invariant holds in every reachable state.
THEOREM Invariance == Spec => []IInv
<1> QED  BY InitInv, NextInv, PTL DEF Spec

-----------------------------------------------------------------------------
(* What the invariant gives.                                               *)

\* Every variable has its type, and inside the loop over the packages the
\* engine is at one of them and at one of its files or past the last.
THEOREM TypeCorrect == Spec => []TypeOK
<1>1. IInv => TypeOK
  BY DEF IInv, Typed, PlaceInv, TypeOK, Entry
<1> QED  BY <1>1, Invariance, PTL

\* While the database write has not succeeded, whatever a path held when the
\* transaction started is still on disk: rollback, finalize and
\* RemovePackageFiles destroy no last copy.
THEOREM RetainsPrevious == Spec => []PreviousRetained
<1>1. ASSUME IInv PROVE PreviousRetained
  <2> SUFFICES ASSUME Uncommitted, NEW f \in Path, before[f] # None
               PROVE  \E l \in Copies(f) : fs[l] = before[f]
    BY DEF PreviousRetained
  <2>1. CASE Untouched(f)  BY <1>1, <2>1 DEF IInv, UndoInv, Kept
  <2>2. CASE ~Untouched(f)
    <3>1. PICK k \in DOMAIN rb : First(f, k)  BY <1>1, <2>2 DEF IInv, ListInv
    <3>2. rb[k].backup # None /\ fs[rb[k].backup] = before[f]
      BY <1>1, <3>1 DEF IInv, UndoInv
    <3>3. rb[k].backup \in Backups(f)
      BY <1>1, <3>1, <3>2, PathsApart DEF IInv, ListInv, First
    <3> QED  BY <3>2, <3>3, CopiesAre
  <2> QED  BY <2>1, <2>2
<1> QED  BY <1>1, Invariance, PTL

\* A failed install, upgrade or release upgrade has put every file of the
\* root back, unless rollback reported an error or the staging area is on
\* another file system.
THEOREM RestoresRoot == Spec => []InstallRestores
<1>1. ASSUME IInv PROVE InstallRestores
  <2> SUFFICES ASSUME Failed, kind \in InstallKinds, ~lossy, oneDevice, NEW f \in Path
               PROVE  fs[Root(f)] = before[f]
    BY DEF InstallRestores
  <2>1. rb = <<>> /\ Uncommitted  BY <1>1 DEF IInv, UndoInv, Failed, Uncommitted
  <2>2. Untouched(f)  BY <2>1 DEF Untouched
  <2> QED  BY <1>1, <2>1, <2>2 DEF IInv, UndoInv, Exact
<1> QED  BY <1>1, Invariance, PTL

\* A file's owner ships it in the version that is installed.
LEMMA OwnerShips ==
  ASSUME Typed, NEW f \in Path, NEW p \in Owners(mem, f)
  PROVE  <<p, mem[p]>> \in Shipped /\ f \in ToSet(Manifest[p][mem[p]])
         /\ mem[p] \in DOMAIN Manifest[p] /\ p \in Pkg
<1>1. p \in Pkg /\ f \in ToSet(Files(p, mem[p]))  BY DEF Owners
<1>2. mem[p] # 0  BY <1>1 DEF Files, ToSet
<1> QED  BY <1>1, <1>2 DEF Typed, Files, Shipped

\* What the administrator wrote is no hash of a manifest.
LEMMA UserUnhashed ==
  ASSUME Typed, NEW f \in Path
  PROVE  User \notin PreviousHashes(f)
<1> SUFFICES ASSUME User \in PreviousHashes(f) PROVE FALSE  OBVIOUS
<1>1. PICK p \in Owners(mem, f) : User = <<p, mem[p]>>  BY DEF PreviousHashes
<1> QED  BY <1>1, OwnerShips, TransactionAssumption

\* No step writes over what the administrator wrote in a protected file; only
\* a removal takes it away, to .yspm-save.
LEMMA UserStep ==
  ASSUME IInv, Next, NEW f \in Path, pc # "idle", fs[Root(f)] = User, Protected(f)
  PROVE  fs'[Root(f)] = User \/ (kind = "remove" /\ fs'[Save(f)] = User)
<1> USE DEF IInv
<1>0. Root(f) \in Place /\ None # User /\ \A g \in Path : Root(f) # Dist(g)
  BY PathsApart, RootPlacesApart, TransactionAssumption
<1>1. CASE BackUp
  <2>1. /\ pc = "commit" /\ ~AtEnd /\ Replaceable(File)
        /\ fs' \in {fs, Move(fs, Root(File), Backup(Current, File))}
    BY <1>1 DEF BackUp, Fail
  <2>2. File \in Path /\ Current \in Pkg /\ kind \in InstallKinds
        /\ Version \in DOMAIN Manifest[Current] /\ Version # 0
        /\ File \in ToSet(Manifest[Current][Version])
    <3>1. pc \in InPackage /\ kind \in InstallKinds  BY <2>1 DEF InPackage, PlaceInv
    <3>2. /\ File \in Path /\ Current \in Pkg /\ Version \in DOMAIN Manifest[Current]
          /\ i \in DOMAIN Files(Current, Version)
      BY <2>1, <3>1, FileType
    <3>3. Files(Current, Version) = Manifest[Current][Version] /\ Version # 0
      BY <3>2 DEF Files
    <3> QED  BY <3>1, <3>2, <3>3 DEF File, ToSet
  <2>3. f # File
    <3> SUFFICES ASSUME f = File PROVE FALSE  OBVIOUS
    <3>1. fs[Root(f)] \notin PreviousHashes(f)  BY UserUnhashed
    <3>2. f \notin Config[Current] /\ Owners(mem, f) # {}
      BY <2>1, <3>1 DEF Replaceable
    <3> QED  BY <2>2, <3>2 DEF Protected
  <2>4. Root(f) # Root(File) /\ Root(f) # Backup(Current, File)
        /\ Root(File) \in Place /\ Backup(Current, File) \in Place
    BY <2>2, <2>3, PathsApart
  <2> QED  BY <1>0, <2>1, <2>4 DEF Move, Typed
<1>2. CASE RemoveFile
  <2>1. /\ pc = "remove" /\ ~AtEnd /\ kind = "remove"
        /\ \/ fs' = fs
           \/ fs' = Move(fs, Root(File),
                         IF Modified(File) THEN Save(File) ELSE Removed(Current, File))
    BY <1>2 DEF RemoveFile, PlaceInv
  <2>2. /\ File \in Path /\ Current \in Pkg /\ Version = mem[Current]
        /\ File \in ToSet(Files(Current, mem[Current]))
    <3>1. pc \in InPackage /\ Version = mem[Current]  BY <2>1 DEF InPackage, Version
    <3>2. File \in Path /\ Current \in Pkg /\ i \in DOMAIN Files(Current, Version)
      BY <2>1, <3>1, FileType
    <3> QED  BY <3>1, <3>2 DEF File, ToSet
  <2>3. CASE f = File
    <3>1. Current \in Owners(mem, f)  BY <2>2, <2>3 DEF Owners
    <3>2. f \in Config[Current]  BY <3>1, OwnerShips DEF Protected
    <3>3. Modified(f)
      BY <2>2, <3>1, <3>2, OwnerShips, TransactionAssumption DEF Modified
    <3>4. Save(f) \in Place /\ Save(f) # Root(f)  BY PathsApart
    <3>5. fs' = fs \/ fs' = Move(fs, Root(f), Save(f))  BY <2>1, <2>3, <3>3
    <3> QED  BY <1>0, <2>1, <3>4, <3>5 DEF Move, Typed
  <2>4. CASE f # File
    <3>1. /\ Root(f) # Root(File) /\ Root(f) # Save(File) /\ Root(f) # Removed(Current, File)
          /\ Root(File) \in Place
      BY <2>2, <2>4, PathsApart
    <3> QED  BY <1>0, <2>1, <3>1 DEF Move, Typed
  <2> QED  BY <2>3, <2>4
<1>3. CASE PlaceFile
  <2>1. /\ pc \in {"commit", "place"} /\ ~AtEnd /\ ~Exists(Root(File))
        /\ fs' = Move(fs, Stage(Current, File), Root(File))
    BY <1>3 DEF PlaceFile, PlaceInv
  <2>2. File \in Path /\ Current \in Pkg  BY <2>1, FileType DEF InPackage
  <2>3. Root(f) # Root(File) /\ Root(f) # Stage(Current, File)
    BY <1>0, <2>1, <2>2, PathsApart DEF Exists
  <2> QED  BY <1>0, <2>1, <2>3 DEF Move, Typed
<1>4. CASE Rollback
  <2> DEFINE e == Last(rb)
  <2>1. /\ rb # <<>>
        /\ fs' \in {fs, Delete(fs, e.target), Move(Delete(fs, e.target), e.backup, e.target),
                    Move(fs, e.backup, e.target)}
    BY <1>4 DEF Rollback
  <2>2. Len(rb) \in DOMAIN rb /\ e = rb[Len(rb)]  BY <2>1 DEF Last, Typed
  <2>3. PICK g \in Path : e.target = Root(g) /\ e.backup \in {None} \cup Backups(g)
    BY <2>2 DEF ListInv
  <2>4. Root(f) # e.target  BY <2>2 DEF UserInv
  <2>5. Root(f) # e.backup  BY <1>0, <2>3, PathsApart, NoneIsNoPlace
  <2> QED  BY <1>0, <2>1, <2>4, <2>5 DEF Move, Delete, Typed
<1>5. CASE Finalize
  <2>1. \A k \in DOMAIN rb : rb[k].backup # Root(f)
    BY <1>0, PathsApart, NoneIsNoPlace DEF ListInv
  <2>2. \E gone \in SUBSET {rb[k].backup : k \in DOMAIN rb} :
           fs' = [l \in Place |-> IF l \in gone THEN None ELSE fs[l]]
    <3> DEFINE backups == {rb[k].backup : k \in DOMAIN rb}
    <3>1. backups \in SUBSET backups /\ \A b \in backups : backups \ {b} \in SUBSET backups
      OBVIOUS
    <3> QED  BY <1>5, <3>1 DEF Finalize
  <2> QED  BY <1>0, <2>1, <2>2
<1>6. CASE Cleanup
  <2>1. Root(f)[1] = "root"  BY DEF Root
  <2> QED  BY <1>0, <1>6, <2>1 DEF Cleanup
<1>7. CASE FileError \/ Crash
  <2>1. fs' \in CutShort  BY <1>7 DEF FileError, Crash
  <2> QED  BY <1>0, <2>1, CutShortLeaves DEF Exists
<1>8. CASE KeepConfig
  <2>1. pc \in InPackage /\ ~AtEnd /\ fs' = [fs EXCEPT ![Dist(File)] = fs[Stage(Current, File)]]
    BY <1>8 DEF KeepConfig, InPackage
  <2>2. File \in Path  BY <2>1, FileType
  <2> QED  BY <1>0, <2>1, <2>2 DEF Typed
<1>9. CASE Prepare
  <2>1. CASE Fail("finish")  BY <2>1 DEF Fail
  <2>2. CASE ~Fail("finish")
    <3>1. fs' = [l \in Place |->
                   IF \E k \in DOMAIN task, g \in Path :
                        /\ l = Stage(task[k][1], g)
                        /\ g \in ToSet(Files(task[k][1], task[k][2]))
                   THEN CHOOSE c \in ToSet(task) : c[1] = l[2]
                   ELSE fs[l]]
      BY <1>9, <2>2 DEF Prepare
    <3>2. task \in Seq(Pkg \X Nat)  BY DEF PlaceInv
    <3>3. \A k \in DOMAIN task, g \in Path : Root(f) # Stage(task[k][1], g)
      BY <3>2, InSeq, PathsApart
    <3> QED  BY <1>0, <3>1, <3>3
  <2> QED  BY <2>1, <2>2
<1>10. CASE Validate \/ PreInstall \/ RefuseUnowned \/ PostInstall \/ PreRemove \/ PostRemove
            \/ SaveDB \/ RollbackDone \/ Finish \/ Quiet
  <2>1. UNCHANGED fs
    BY <1>10
    DEF Validate, PreInstall, RefuseUnowned, PostInstall, PreRemove, PostRemove, SaveDB,
        RollbackDone, Finish, Quiet, Fail, Go, vars, disk
  <2> QED  BY <2>1 DEF Root
<1> QED
  BY <1>1, <1>2, <1>3, <1>4, <1>5, <1>6, <1>7, <1>8, <1>9, <1>10
  DEF Next, Work, BeginInstall, BeginRemove, Begin, Edit

\* A copy a removal has made at .yspm-save stays there until finalize, or is
\* renamed back.
LEMMA SavedStep ==
  ASSUME IInv, Next, NEW f \in Path, Saved(f), fs[Save(f)] = User,
         pc \notin {"idle", "finalize"}
  PROVE  User \in {fs'[Root(f)], fs'[Save(f)]}
<1> USE DEF IInv
<1>1. /\ Root(f) \in Place /\ Save(f) \in Place /\ Save(f) # Root(f) /\ Save(f) # None
      /\ \A g \in Path : Save(f) # Dist(g) /\ Save(f) # Root(g)
      /\ \A g \in Path, p \in Pkg : Save(f) # Stage(p, g) /\ Save(f) # Backup(p, g)
  BY PathsApart, RootPlacesApart, StagingPlacesApart, AreasApart, NoneIsNoPlace
<1>2. PICK n \in DOMAIN rb : rb[n].target = Root(f) /\ rb[n].backup = Save(f)
  BY DEF Saved, ToSet
<1>3. CASE RemoveFile
  <2>1. /\ pc = "remove" /\ pc \in InPackage /\ ~AtEnd /\ kind = "remove"
        /\ \/ fs' = fs
           \/ /\ Exists(Root(File))
              /\ fs' = Move(fs, Root(File),
                            IF Modified(File) THEN Save(File) ELSE Removed(Current, File))
    BY <1>3 DEF RemoveFile, PlaceInv, InPackage
  <2>2. File \in Path /\ Current \in Pkg  BY <2>1, FileType
  <2>3. ~Exists(Root(f))
    BY <1>2, <2>1 DEF ListInv, InstallKinds
  <2>4. CASE f = File  BY <2>1, <2>3, <2>4
  <2>5. CASE f # File
    <3>1. Save(f) # Root(File) /\ Save(f) # Save(File) /\ Save(f) # Removed(Current, File)
      BY <2>2, <2>5, PathsApart
    <3> QED  BY <1>1, <2>1, <3>1 DEF Move, Typed
  <2> QED  BY <2>4, <2>5
<1>4. CASE Rollback
  <2> DEFINE e == Last(rb)
  <2>1. /\ rb # <<>>
        /\ \/ fs' \in {fs, Delete(fs, e.target)}
           \/ /\ e.backup # None
              /\ fs' \in {Move(Delete(fs, e.target), e.backup, e.target),
                          Move(fs, e.backup, e.target)}
    BY <1>4 DEF Rollback
  <2>2. Len(rb) \in DOMAIN rb /\ e = rb[Len(rb)]  BY <2>1 DEF Last, Typed
  <2>3. PICK g \in Path : e.target = Root(g) /\ e.backup \in {None} \cup Backups(g)
    BY <2>2 DEF ListInv
  <2>4. e.target \in Place /\ e.target # Save(f)  BY <1>1, <2>3, PathsApart
  <2>5. CASE e.backup = Save(f)
    <3>1. e.target = Root(f)  BY <1>1, <2>3, <2>5, PathsApart
    <3> QED  BY <1>1, <2>1, <2>4, <2>5, <3>1 DEF Move, Delete, Typed
  <2>6. CASE e.backup # Save(f)
    BY <1>1, <2>1, <2>4, <2>6 DEF Move, Delete, Typed
  <2> QED  BY <2>5, <2>6
<1>5. CASE FileError \/ Crash
  <2>1. fs' \in CutShort  BY <1>5 DEF FileError, Crash
  <2> QED  BY <1>1, <1>2, <2>1, CutShortLeaves
<1>6. CASE BackUp \/ PlaceFile \/ KeepConfig
  <2>1. /\ pc \in InPackage /\ ~AtEnd
        /\ fs' \in {fs, Move(fs, Root(File), Backup(Current, File)),
                    Move(fs, Stage(Current, File), Root(File)),
                    [fs EXCEPT ![Dist(File)] = fs[Stage(Current, File)]]}
    BY <1>6 DEF BackUp, PlaceFile, KeepConfig, Fail, PlaceInv, InPackage
  <2>2. File \in Path /\ Current \in Pkg  BY <2>1, FileType
  <2> QED  BY <1>1, <2>1, <2>2 DEF Move, Typed
<1>7. CASE Cleanup
  <2>1. Save(f)[1] = "save"  BY DEF Save
  <2> QED  BY <1>1, <1>7, <2>1 DEF Cleanup
<1>8. CASE Prepare
  <2>1. pc = "prepare"  BY <1>8 DEF Prepare
  <2> QED  BY <1>2, <2>1 DEF PlaceInv
<1>9. CASE Validate \/ PreInstall \/ RefuseUnowned \/ PostInstall \/ PreRemove \/ PostRemove
           \/ SaveDB \/ RollbackDone \/ Finish \/ Quiet
  <2>1. UNCHANGED fs
    BY <1>9
    DEF Validate, PreInstall, RefuseUnowned, PostInstall, PreRemove, PostRemove, SaveDB,
        RollbackDone, Finish, Quiet, Fail, Go, vars, disk
  <2> QED  BY <2>1 DEF Save
<1> QED
  BY <1>3, <1>4, <1>5, <1>6, <1>7, <1>8, <1>9
  DEF Next, Work, BeginInstall, BeginRemove, Begin, Edit, Finalize

\* Until the database is written, no step of a transaction destroys what the
\* administrator wrote in a protected file: installs leave it, and what a
\* removal renames to .yspm-save stays there or is renamed back.
THEOREM KeepsUserContent == Spec => UserContentStays
<1> DEFINE Stays(f) ==
             Protected(f) =>
                /\ fs[Root(f)] = User => \/ fs'[Root(f)] = User
                                         \/ kind = "remove" /\ fs'[Save(f)] = User
                /\ Saved(f) /\ fs[Save(f)] = User /\ pc # "finalize" =>
                      User \in {fs'[Root(f)], fs'[Save(f)]}
<1>1. ASSUME IInv, [Next]_vars PROVE [pc # "idle" => \A f \in Path : Stays(f)]_vars
  BY <1>1, UserStep, SavedStep
<1>2. Spec => [][pc # "idle" => \A f \in Path : Stays(f)]_vars
  BY <1>1, Invariance, PTL DEF Spec
<1> QED  BY <1>2 DEF UserContentStays

-----------------------------------------------------------------------------
(* The refinement of AtomicFiles.                                          *)

\* Nothing fails below the engine and nothing dies; the staging area is on the
\* root's file system; a removal names one package; no two packages have a
\* configuration file in common; and the packages of a plan neither ship the
\* same file nor replace one another.
Undisturbed ==
    /\ MaxFaults = 0 /\ MaxCrashes = 0 /\ Devices = {TRUE}
    /\ \A r \in Removals : Len(r) = 1
    /\ \A p, q \in Pkg : p # q => Config[p] \cap Config[q] = {}
    /\ \A t \in Tasks : \A j, k \in DOMAIN t : j # k =>
          /\ ToSet(Files(t[j][1], t[j][2])) \cap ToSet(Files(t[k][1], t[k][2])) = {}
          /\ t[j][1] \notin Replaces[t[k][1]]

\* The files the k-th package of the task has, or had.
PlanFiles(k) == Files(task[k][1], IF kind = "remove" THEN db[task[k][1]] ELSE task[k][2])

\* A configuration file that was changed before the transaction started.
ChangedBefore(p, f) ==
    /\ f \in Config[p]
    /\ before[f] \notin {None} \cup {<<q, db[q]>> : q \in {r \in Owners(db, f) : f \in Config[r]}}

\* What the k-th package makes of its file f.
Target(k, f) ==
    IF kind = "remove" THEN None
    ELSE IF ChangedBefore(task[k][1], f) THEN before[f] ELSE task[k]

Handled(k, n) == k < at \/ (k = at /\ n < i)

\* The root is as it was, except for the files the engine is past.
RootProgress ==
    pc \in InLoop =>
      /\ \A k \in DOMAIN task : \A n \in DOMAIN PlanFiles(k) :
           fs[Root(PlanFiles(k)[n])] =
             IF Handled(k, n) THEN Target(k, PlanFiles(k)[n])
             ELSE IF pc = "place" /\ k = at /\ n = i THEN None ELSE before[PlanFiles(k)[n]]
      /\ \A f \in Path : (\A k \in DOMAIN task : f \notin ToSet(PlanFiles(k))) =>
           fs[Root(f)] = before[f]

\* The files it has still to place are staged.
StageProgress ==
    pc \in {"validate", "preinstall", "commit", "place"} =>
      /\ \A k \in DOMAIN task : \A n \in DOMAIN PlanFiles(k) :
           ~Handled(k, n) => fs[Stage(task[k][1], PlanFiles(k)[n])] = task[k]
      /\ pc = "place" => ~ChangedBefore(Current, File)

\* Its copy of the database has what the packages it is past make of it.
MemProgress ==
    pc \in InLoop =>
      /\ \A k \in DOMAIN task :
           mem[task[k][1]] = IF k < at THEN task[k][2] ELSE db[task[k][1]]
      /\ \A p \in Pkg : (\A k \in DOMAIN task : task[k][1] # p) =>
           mem[p] = IF kind = "local" /\ \E k \in DOMAIN task : k < at /\ p \in Replaces[task[k][1]]
                    THEN 0 ELSE db[p]
      /\ pc = "save" => at = Len(task) + 1

\* The task is one that was asked for, and a failure has an empty list.
TaskInv ==
    /\ oneDevice /\ ~lossy /\ faults = 0 /\ crashes = 0
    /\ pc \in InLoop =>
         IF kind = "remove"
         THEN \E r \in Removals : /\ task = [k \in DOMAIN r |-> <<r[k], 0>>]
                                  /\ \A k \in DOMAIN r : db[r[k]] > 0
         ELSE task \in Tasks
    /\ pc = "preremove" => rb = <<>>
    /\ pc \in {"finish", "cleanup"} /\ outcome = "failed" => rb = <<>>

RInv == RootProgress /\ StageProgress /\ MemProgress /\ TaskInv

-----------------------------------------------------------------------------
(* What the plan is made of.                                               *)

\* Outside the loop nothing is said of its progress.
LEMMA LeavesLoop ==
  ASSUME pc' \notin InLoop
  PROVE  RootProgress' /\ StageProgress' /\ MemProgress'
BY DEF RootProgress, StageProgress, MemProgress, InLoop, InPackage

\* The plan and what it makes of the root stay the same during a transaction.
LEMMA PlanSame ==
  ASSUME UNCHANGED <<task, kind, db, before>>
  PROVE  \A k, f : /\ PlanFiles(k)' = PlanFiles(k)
                   /\ Target(k, f)' = Target(k, f)
                   /\ \A p : ChangedBefore(p, f)' <=> ChangedBefore(p, f)
<1>1. \A k : PlanFiles(k)' = PlanFiles(k)  BY DEF PlanFiles, Files
<1>2. \A p, f : ChangedBefore(p, f)' <=> ChangedBefore(p, f)
  BY DEF ChangedBefore, Owners, Files
<1>3. \A k, f : Target(k, f)' = Target(k, f)  BY <1>2 DEF Target
<1> QED  BY <1>1, <1>2, <1>3

\* The packages of a task and their files.
LEMMA PlanType ==
  ASSUME Undisturbed, IInv, RInv, pc \in InLoop, NEW k \in DOMAIN task
  PROVE  /\ k \in Nat /\ task[k][1] \in Pkg
         /\ PlanFiles(k) \in Seq(Path) /\ IsInjective(PlanFiles(k))
         /\ kind # "remove" => /\ task \in Tasks /\ task[k] \in Shipped
                               /\ PlanFiles(k) = Files(task[k][1], task[k][2])
         /\ kind = "remove" => DOMAIN task = {1} /\ task[k][2] = 0
<1> USE DEF IInv, RInv
<1> DEFINE p == task[k][1]
           v == IF kind = "remove" THEN db[p] ELSE task[k][2]
<1>1. task \in Seq(Pkg \X Nat) /\ k \in Nat /\ p \in Pkg
  <2>1. task \in Seq(Pkg \X Nat)  BY DEF PlaceInv
  <2>2. task[k] \in Pkg \X Nat /\ k \in 1 .. Len(task)  BY <2>1, InSeq
  <2> QED  BY <2>1, <2>2
<1>2. ASSUME kind # "remove"
      PROVE  /\ task \in Tasks /\ task[k] \in Shipped /\ task[k][2] \in DOMAIN Manifest[p]
  <2>1. kind \in InstallKinds  BY <1>2 DEF Typed
  <2>2. task \in Seq(Shipped) /\ task \in Tasks  BY <1>2, <2>1 DEF PlaceInv, TaskInv
  <2> QED  BY <2>2, InSeq, ShippedIs
<1>3. v \in {0} \cup DOMAIN Manifest[p]  BY <1>1, <1>2 DEF Typed
<1>4. PlanFiles(k) = Files(p, v)  BY DEF PlanFiles
<1>5. Files(p, v) \in Seq(Path)  BY <1>1, <1>3, FilesType
<1>6. IsInjective(Files(p, v))
  <2>1. CASE v = 0  BY <2>1 DEF Files, IsInjective
  <2>2. CASE v # 0
    <3>1. <<p, v>> \in Shipped  BY <1>1, <1>3, <2>2 DEF Shipped
    <3>2. IsInjective(Manifest[p][v])  BY <3>1, TransactionAssumption
    <3> QED  BY <2>2, <3>2 DEF Files
  <2> QED  BY <2>1, <2>2
<1>7. ASSUME kind = "remove"  PROVE DOMAIN task = {1} /\ task[k][2] = 0
  <2>1. PICK r \in Removals : task = [j \in DOMAIN r |-> <<r[j], 0>>]
    BY <1>7 DEF TaskInv
  <2>2. Len(r) = 1 /\ r \in Seq(Pkg)  BY TransactionAssumption DEF Undisturbed
  <2>3. DOMAIN r = {1}  BY <2>2
  <2> QED  BY <2>1, <2>3
<1> QED  BY <1>1, <1>2, <1>4, <1>5, <1>6, <1>7

\* No file is in the plan twice.
LEMMA PlanApart ==
  ASSUME Undisturbed, IInv, RInv, pc \in InLoop,
         NEW j \in DOMAIN task, NEW m \in DOMAIN PlanFiles(j),
         NEW k \in DOMAIN task, NEW n \in DOMAIN PlanFiles(k),
         PlanFiles(j)[m] = PlanFiles(k)[n]
  PROVE  j = k /\ m = n
<1>1. j = k
  <2>1. CASE kind = "remove"
    <3>1. DOMAIN task = {1}  BY <2>1, PlanType
    <3> QED  BY <3>1
  <2>2. CASE kind # "remove"
    <3>1. /\ task \in Tasks
          /\ PlanFiles(j) = Files(task[j][1], task[j][2])
          /\ PlanFiles(k) = Files(task[k][1], task[k][2])
      BY <2>2, PlanType
    <3>2. /\ PlanFiles(j)[m] \in ToSet(PlanFiles(j))
          /\ PlanFiles(k)[n] \in ToSet(PlanFiles(k))
      BY DEF ToSet
    <3>3. j # k => ToSet(PlanFiles(j)) \cap ToSet(PlanFiles(k)) = {}
      BY <3>1 DEF Undisturbed
    <3> QED  BY <3>2, <3>3
  <2> QED  BY <2>1, <2>2
<1>2. IsInjective(PlanFiles(j))  BY PlanType
<1> QED  BY <1>1, <1>2 DEF IsInjective

\* Where the engine is in the plan.
LEMMA AtFile ==
  ASSUME Undisturbed, IInv, RInv, pc \in InPackage
  PROVE  /\ pc \in InLoop /\ at \in DOMAIN task /\ at \in Nat /\ i \in Nat
         /\ Current \in Pkg /\ task[at][1] = Current
         /\ PlanFiles(at) = Files(Current, Version)
         /\ ~AtEnd => i \in DOMAIN PlanFiles(at) /\ File = PlanFiles(at)[i] /\ File \in Path
         /\ AtEnd => \A n \in DOMAIN PlanFiles(at) : n < i
         /\ kind # "remove" => task[at] = <<Current, Version>>
         /\ mem[Current] = db[Current]
<1> USE DEF IInv, RInv
<1>1. pc \in InLoop /\ at \in DOMAIN task /\ at \in Nat /\ i \in Nat
  BY DEF InLoop, PlaceInv, Typed
<1>2. Current \in Pkg /\ task[at][1] = Current /\ Len(Files(Current, Version)) \in Nat
      /\ Files(Current, Version) \in Seq(Path)
  BY FileType DEF Current
<1>3. mem[Current] = db[Current]
  <2>1. ~(at < at)  BY <1>1
  <2> QED  BY <1>1, <1>2, <2>1 DEF MemProgress
<1>4. PlanFiles(at) = Files(Current, Version)
  BY <1>2, <1>3 DEF PlanFiles, Version, Current
<1>5. ~AtEnd => i \in DOMAIN PlanFiles(at) /\ File = PlanFiles(at)[i] /\ File \in Path
  BY <1>4, FileType DEF File
<1>6. AtEnd => \A n \in DOMAIN PlanFiles(at) : n < i
  BY <1>1, <1>2, <1>4 DEF AtEnd
<1>7. kind # "remove" => task[at] = <<Current, Version>>
  <2>1. kind # "remove" => task[at] \in Shipped  BY <1>1, PlanType
  <2> QED  BY <2>1, ShippedIs DEF Current, Version
<1> QED  BY <1>1, <1>2, <1>3, <1>4, <1>5, <1>6, <1>7

\* The recorded hashes of a configuration file the engine is at are those the
\* database has, and there is one of them at most.
LEMMA HashesOf ==
  ASSUME Undisturbed, IInv, RInv, pc = "commit", ~AtEnd, File \in Config[Current]
  PROVE  /\ PreviousHashes(File) =
              {<<q, db[q]>> : q \in {r \in Owners(db, File) : File \in Config[r]}}
         /\ \A h, g \in PreviousHashes(File) : h = g
<1>1. Current \in Pkg /\ File \in Path /\ mem[Current] = db[Current]
  BY AtFile DEF InPackage
<1>2. \A q \in Pkg : File \in Config[q] => q = Current  BY <1>1 DEF Undisturbed
<1>3. Owners(mem, File) \subseteq Pkg /\ Owners(db, File) \subseteq Pkg  BY DEF Owners
<1>4. Current \in Owners(mem, File) <=> Current \in Owners(db, File)
  BY <1>1 DEF Owners
<1> QED  BY <1>1, <1>2, <1>3, <1>4 DEF PreviousHashes

\* What the engine finds at the root where it is.
LEMMA RootAt ==
  ASSUME Undisturbed, IInv, RInv, pc \in {"commit", "remove"}, ~AtEnd
  PROVE  fs[Root(File)] = before[File]
<1>1. /\ at \in DOMAIN task /\ at \in Nat /\ i \in Nat /\ pc \in InLoop
      /\ i \in DOMAIN PlanFiles(at) /\ File = PlanFiles(at)[i]
  BY AtFile DEF InPackage
<1>2. ~Handled(at, i)  BY <1>1 DEF Handled
<1> QED  BY <1>1, <1>2 DEF RInv, RootProgress

-----------------------------------------------------------------------------
(* Each step keeps the progress.                                           *)

\* A step that leaves the root and the place in the plan alone.
LEMMA RootStill ==
  ASSUME RootProgress, pc \in InLoop, pc # "place", pc' # "place",
         UNCHANGED <<task, kind, db, before>>,
         \A f \in Path : fs'[Root(f)] = fs[Root(f)],
         \A k \in DOMAIN task : PlanFiles(k) \in Seq(Path),
         \A k \in DOMAIN task : \A n \in DOMAIN PlanFiles(k) : Handled(k, n)' <=> Handled(k, n)
  PROVE  RootProgress'
<1>1. ASSUME NEW k \in DOMAIN task, NEW n \in DOMAIN PlanFiles(k)
      PROVE  fs'[Root(PlanFiles(k)[n])] =
               IF Handled(k, n)' THEN Target(k, PlanFiles(k)[n]) ELSE before[PlanFiles(k)[n]]
  <2>1. PlanFiles(k)[n] \in Path  BY InSeq
  <2> QED  BY <2>1 DEF RootProgress
<1>2. ASSUME NEW f \in Path, \A k \in DOMAIN task : f \notin ToSet(PlanFiles(k))
      PROVE  fs'[Root(f)] = before[f]
  BY <1>2 DEF RootProgress
<1>3. \A k : PlanFiles(k)' = PlanFiles(k)  BY PlanSame
<1>4. \A k, f : Target(k, f)' = Target(k, f)  BY PlanSame
<1>5. ASSUME NEW k \in DOMAIN task, NEW n \in DOMAIN PlanFiles(k)
      PROVE  fs'[Root(PlanFiles(k)'[n])] =
               IF Handled(k, n)' THEN Target(k, PlanFiles(k)[n])'
               ELSE IF pc' = "place" /\ k = at' /\ n = i' THEN None
               ELSE before'[PlanFiles(k)'[n]]
  BY <1>1, <1>3, <1>4
<1> QED  BY <1>2, <1>3, <1>5 DEF RootProgress, Root

\* A step at one file.
LEMMA FileStep ==
  ASSUME Undisturbed, IInv, RInv, pc \in {"commit", "place", "remove"}, ~AtEnd,
         UNCHANGED <<task, kind, db, before, at>>,
         \A f \in Path : f # File => fs'[Root(f)] = fs[Root(f)],
         \/ i' = i + 1 /\ pc' \in {"commit", "remove"} /\ fs'[Root(File)] = Target(at, File)
         \/ i' = i /\ pc' = "place" /\ fs'[Root(File)] = None
  PROVE  RootProgress'
<1>1. /\ at \in DOMAIN task /\ at \in Nat /\ i \in Nat /\ pc \in InLoop /\ File \in Path
      /\ i \in DOMAIN PlanFiles(at) /\ File = PlanFiles(at)[i]
  BY AtFile DEF InPackage
<1>2. ASSUME NEW k \in DOMAIN task, NEW n \in DOMAIN PlanFiles(k)
      PROVE  fs'[Root(PlanFiles(k)[n])] =
               IF k < at \/ (k = at /\ n < i') THEN Target(k, PlanFiles(k)[n])
               ELSE IF pc' = "place" /\ k = at /\ n = i' THEN None ELSE before[PlanFiles(k)[n]]
  <2>1. PlanFiles(k)[n] \in Path /\ k \in Nat /\ n \in Nat
    <3>1. PlanFiles(k) \in Seq(Path) /\ k \in Nat  BY <1>1, PlanType
    <3> QED  BY <3>1, InSeq
  <2>2. CASE k = at /\ n = i
    <3>1. PlanFiles(k)[n] = File  BY <1>1, <2>2
    <3>2. ~(k < at)  BY <1>1, <2>2
    <3> QED  BY <1>1, <2>1, <2>2, <3>1, <3>2
  <2>3. CASE ~(k = at /\ n = i)
    <3>1. PlanFiles(k)[n] # File  BY <1>1, <2>3, PlanApart
    <3>2. fs[Root(PlanFiles(k)[n])] =
            IF k < at \/ (k = at /\ n < i) THEN Target(k, PlanFiles(k)[n])
            ELSE before[PlanFiles(k)[n]]
      BY <1>1, <2>3 DEF RInv, RootProgress, Handled
    <3>3. k = at => (n < i' <=> n < i) /\ (pc' = "place" => n # i')
      BY <1>1, <2>1, <2>3
    <3> QED  BY <2>1, <3>1, <3>2, <3>3
  <2> QED  BY <2>2, <2>3
<1>3. ASSUME NEW f \in Path, \A k \in DOMAIN task : f \notin ToSet(PlanFiles(k))
      PROVE  fs'[Root(f)] = before[f]
  <2>1. f # File  BY <1>1, <1>3 DEF ToSet
  <2> QED  BY <1>1, <1>3, <2>1 DEF RInv, RootProgress
<1>4. \A k : PlanFiles(k)' = PlanFiles(k)  BY PlanSame
<1>5. \A k, f : Target(k, f)' = Target(k, f)  BY PlanSame
<1>6. \A k, n : Handled(k, n)' <=> k < at \/ (k = at /\ n < i')  BY DEF Handled
<1>7. ASSUME NEW k \in DOMAIN task, NEW n \in DOMAIN PlanFiles(k)
      PROVE  fs'[Root(PlanFiles(k)'[n])] =
               IF Handled(k, n)' THEN Target(k, PlanFiles(k)[n])'
               ELSE IF pc' = "place" /\ k = at' /\ n = i' THEN None
               ELSE before'[PlanFiles(k)'[n]]
  BY <1>2, <1>4, <1>5, <1>6
<1> QED  BY <1>3, <1>4, <1>7 DEF RootProgress, Root

\* A step that leaves the copy of the database and the package alone.
LEMMA MemStill ==
  ASSUME MemProgress, pc \in InLoop, pc' # "save", UNCHANGED <<task, kind, db, mem, at>>
  PROVE  MemProgress'
BY DEF MemProgress

\* Staged files stay staged.
LEMMA StageStill ==
  ASSUME StageProgress, UNCHANGED <<task, kind, db, before>>,
         pc \in {"validate", "preinstall", "commit", "place"}, pc' # "place",
         \A k \in DOMAIN task : \A n \in DOMAIN PlanFiles(k) :
            ~Handled(k, n)' => /\ ~Handled(k, n)
                               /\ fs'[Stage(task[k][1], PlanFiles(k)[n])]
                                    = fs[Stage(task[k][1], PlanFiles(k)[n])]
  PROVE  StageProgress'
<1>1. \A k \in DOMAIN task : \A n \in DOMAIN PlanFiles(k) :
        ~Handled(k, n)' => fs'[Stage(task[k][1], PlanFiles(k)[n])] = task[k]
  BY DEF StageProgress
<1>2. \A k : PlanFiles(k)' = PlanFiles(k)  BY PlanSame
<1>3. ASSUME NEW k \in DOMAIN task, NEW n \in DOMAIN PlanFiles(k), ~Handled(k, n)'
      PROVE  fs'[Stage(task'[k][1], PlanFiles(k)'[n])] = task'[k]
  BY <1>1, <1>2, <1>3
<1> QED  BY <1>2, <1>3 DEF StageProgress, Stage

\* Where the engine is in the plan and what it has asked for stay.
LEMMA TaskStill ==
  ASSUME TaskInv, UNCHANGED <<task, kind, db, oneDevice, lossy, faults, crashes>>,
         pc \in InLoop, pc' \in InLoop, pc' # "preremove"
  PROVE  TaskInv'
BY DEF TaskInv, InLoop, InPackage

\* The engine leaves the loop, or is not in it.
LEMMA OutOfLoop ==
  ASSUME TaskInv, UNCHANGED <<oneDevice, lossy, faults, crashes>>, pc' \notin InLoop,
         pc' \in {"finish", "cleanup"} /\ outcome' = "failed" => rb' = <<>>
  PROVE  RInv'
BY LeavesLoop DEF RInv, TaskInv, InLoop, InPackage

\* A call that neither moves a file nor goes to another one.
LEMMA CallStep ==
  ASSUME Undisturbed, IInv, RInv, pc \in InLoop, pc # "place", pc' \in InLoop,
         pc' \notin {"place", "preremove", "save"},
         pc' \in {"validate", "preinstall", "commit"} =>
            pc \in {"validate", "preinstall", "commit"},
         UNCHANGED <<fs, task, kind, db, before, at, i, mem, oneDevice, lossy, faults, crashes>>
  PROVE  RInv'
<1> USE DEF RInv
<1>1. \A k \in DOMAIN task : PlanFiles(k) \in Seq(Path)  BY PlanType
<1>2. \A k, n : Handled(k, n)' <=> Handled(k, n)  BY DEF Handled
<1>3. RootProgress'  BY <1>1, <1>2, RootStill
<1>4. StageProgress'
  <2>1. CASE pc \in {"validate", "preinstall", "commit"}
    BY <2>1, <1>2, StageStill
  <2>2. CASE pc \notin {"validate", "preinstall", "commit"}
    BY <2>2 DEF StageProgress
  <2> QED  BY <2>1, <2>2
<1>5. MemProgress'  BY MemStill
<1>6. TaskInv'  BY TaskStill
<1> QED  BY <1>3, <1>4, <1>5, <1>6

\* Before the first transaction there is nothing to say.
LEMMA InitR == Undisturbed /\ Init => RInv
BY DEF Undisturbed, Init, RInv, RootProgress, StageProgress, MemProgress, TaskInv, InLoop,
       InPackage

\* A transaction begins with nothing handled.
LEMMA BeginR ==
  ASSUME Undisturbed, IInv, RInv, NEW k, NEW t, NEW next, Begin(k, t, next),
         \/ k \in InstallKinds /\ t \in Tasks /\ next = "prepare"
         \/ /\ k = "remove" /\ next = "preremove"
            /\ \E r \in Removals : /\ t = [j \in DOMAIN r |-> <<r[j], 0>>]
                                   /\ \A j \in DOMAIN r : db[r[j]] > 0,
         \A f \in Path : fs'[Root(f)] = fs[Root(f)]
  PROVE  RInv'
<1> USE DEF Begin
<1>1. t \in Seq(Pkg \X Nat) /\ (k # "remove" => t \in Seq(Shipped))
  <2>1. CASE k # "remove"
    <3>1. t \in Seq(Shipped)  BY <2>1, TransactionAssumption
    <3>2. Shipped \subseteq Pkg \X Nat
      <4>1. \A c \in Shipped : c \in Pkg \X Nat
        <5> TAKE c \in Shipped
        <5>1. c[1] \in Pkg /\ c[2] \in DOMAIN Manifest[c[1]] /\ c = <<c[1], c[2]>>
          BY ShippedIs
        <5>2. Manifest[c[1]] \in Seq(Seq(Path))  BY <5>1, TransactionAssumption
        <5>3. c[2] \in Nat  BY <5>1, <5>2
        <5> QED  BY <5>1, <5>3
      <4> QED  BY <4>1
    <3> QED  BY <3>1, <3>2
  <2>2. CASE k = "remove"
    <3>1. PICK r \in Removals : t = [j \in DOMAIN r |-> <<r[j], 0>>]
      BY <2>2 DEF InstallKinds
    <3>2. r \in Seq(Pkg)  BY TransactionAssumption
    <3>3. \A j \in DOMAIN r : r[j] \in Pkg  BY <3>2, InSeq
    <3> QED  BY <2>2, <3>1, <3>2, <3>3
  <2> QED  BY <2>1, <2>2
<1>2. ASSUME NEW j \in DOMAIN t
      PROVE  j \in Nat /\ j >= 1 /\ PlanFiles(j)' \in Seq(Path)
  <2>1. j \in Nat /\ j >= 1 /\ t[j] \in Pkg \X Nat  BY <1>1, InSeq
  <2>2. PlanFiles(j)' = Files(t[j][1], IF k = "remove" THEN db[t[j][1]] ELSE t[j][2])
    BY DEF PlanFiles, Files
  <2>3. (IF k = "remove" THEN db[t[j][1]] ELSE t[j][2]) \in {0} \cup DOMAIN Manifest[t[j][1]]
    <3>1. CASE k = "remove"  BY <2>1, <3>1 DEF IInv, Typed
    <3>2. CASE k # "remove"
      <4>1. t[j] \in Shipped  BY <1>1, <3>2, InSeq
      <4> QED  BY <3>2, <4>1, ShippedIs
    <3> QED  BY <3>1, <3>2
  <2> QED  BY <2>1, <2>2, <2>3, FilesType
<1>3. RootProgress'
  <2>1. ASSUME NEW j \in DOMAIN t, NEW n \in DOMAIN PlanFiles(j)'
        PROVE  ~Handled(j, n)' /\ fs'[Root(PlanFiles(j)'[n])] = before'[PlanFiles(j)'[n]]
    <3>1. n \in Nat /\ n >= 1 /\ PlanFiles(j)'[n] \in Path
      <4>1. PlanFiles(j)' \in Seq(Path)  BY <1>2
      <4> HIDE DEF Begin
      <4> QED  BY <4>1, InSeq
    <3>2. ~Handled(j, n)'  BY <1>2, <3>1 DEF Handled
    <3>3. \A f \in Path : before'[f] = fs'[Root(f)]  OBVIOUS
    <3> QED  BY <3>1, <3>2, <3>3
  <2>2. \A f \in Path : fs'[Root(f)] = before'[f]  OBVIOUS
  <2>3. pc' # "place" /\ task' = t  OBVIOUS
  <2> HIDE DEF Begin
  <2> QED  BY <2>1, <2>2, <2>3 DEF RootProgress, Root
<1>4. StageProgress'  BY DEF StageProgress
<1>5. MemProgress'
  <2>1. mem' = db /\ db' = db /\ at' = 1 /\ task' = t /\ pc' # "save"  OBVIOUS
  <2>2. \A j \in DOMAIN t : ~(j < 1)  BY <1>2
  <2> HIDE DEF Begin
  <2> QED  BY <2>1, <2>2 DEF MemProgress
<1>6. TaskInv'
  BY DEF TaskInv, RInv, InstallKinds
<1> QED  BY <1>3, <1>4, <1>5, <1>6 DEF RInv

\* Every package of the plan is staged, or none and the transaction fails.
LEMMA PrepareR ==
  ASSUME Undisturbed, IInv, RInv, Prepare
  PROVE  RInv'
<1>1. CASE Fail("finish")
  <2>1. pc = "prepare" /\ faults' = faults  BY <1>1 DEF Prepare, Go
  <2>2. rb' = <<>>  BY <1>1, <2>1 DEF Fail, IInv, PlaceInv
  <2> QED  BY <1>1, <2>1, <2>2, OutOfLoop DEF Fail, bounds, InLoop, InPackage, RInv
<1>2. CASE ~Fail("finish")
  <2>1. /\ pc = "prepare" /\ pc' = "validate"
        /\ fs' = [l \in Place |->
                   IF \E k \in DOMAIN task, f \in Path :
                        /\ l = Stage(task[k][1], f)
                        /\ f \in ToSet(Files(task[k][1], task[k][2]))
                   THEN CHOOSE c \in ToSet(task) : c[1] = l[2]
                   ELSE fs[l]]
        /\ UNCHANGED <<task, kind, db, before, at, i, mem, oneDevice, lossy, faults, crashes>>
    BY <1>2 DEF Prepare, Go, run, bounds
  <2>2. pc \in InLoop /\ pc' \in InLoop /\ kind # "remove"
    BY <2>1 DEF InLoop, IInv, PlaceInv, InstallKinds
  <2>3. task \in Seq(Pkg \X Nat) /\ \A j, k \in DOMAIN task : task[j][1] = task[k][1] => j = k
    BY <2>1 DEF IInv, PlaceInv
  <2>4. \A f \in Path : fs'[Root(f)] = fs[Root(f)]
    <3> TAKE f \in Path
    <3>1. \A k \in DOMAIN task, g \in Path : Root(f) # Stage(task[k][1], g)
      BY <2>3, InSeq, PathsApart
    <3>2. Root(f) \in Place  BY PathsApart
    <3> QED  BY <2>1, <3>1, <3>2
  <2>5. \A k \in DOMAIN task : PlanFiles(k) \in Seq(Path)  BY <2>2, PlanType
  <2>6. \A k, n : Handled(k, n)' <=> Handled(k, n)  BY <2>1 DEF Handled
  <2>7. RootProgress'
    BY <2>1, <2>2, <2>4, <2>5, <2>6, RootStill DEF RInv
  <2>8. ASSUME NEW k \in DOMAIN task, NEW n \in DOMAIN PlanFiles(k)
        PROVE  fs'[Stage(task[k][1], PlanFiles(k)[n])] = task[k]
    <3> DEFINE f == PlanFiles(k)[n]
               l == Stage(task[k][1], f)
    <3>1. f \in Path /\ task[k][1] \in Pkg  BY <2>3, <2>5, InSeq
    <3>2. l \in Place /\ l[2] = task[k][1]  BY <3>1, PathsApart DEF Stage
    <3>3. f \in ToSet(Files(task[k][1], task[k][2]))
      BY <2>2, PlanType DEF ToSet
    <3>4. fs'[l] = CHOOSE c \in ToSet(task) : c[1] = task[k][1]
      <4> HIDE DEF l, f
      <4>1. \E j \in DOMAIN task, g \in Path :
               l = Stage(task[j][1], g) /\ g \in ToSet(Files(task[j][1], task[j][2]))
        BY <3>1, <3>3 DEF l
      <4> QED  BY <2>1, <3>2, <4>1
    <3>5. task[k] \in ToSet(task)  BY DEF ToSet
    <3>6. \A c \in ToSet(task) : c[1] = task[k][1] => c = task[k]
      BY <2>3 DEF ToSet
    <3>7. (CHOOSE c \in ToSet(task) : c[1] = task[k][1]) = task[k]
      BY <3>5, <3>6
    <3> QED  BY <3>4, <3>7
  <2>9. StageProgress'
    <3>1. \A k : PlanFiles(k)' = PlanFiles(k)  BY <2>1, PlanSame
    <3>2. ASSUME NEW k \in DOMAIN task, NEW n \in DOMAIN PlanFiles(k)
          PROVE  fs'[Stage(task'[k][1], PlanFiles(k)'[n])] = task'[k]
      BY <2>1, <2>8, <3>1
    <3>3. pc' # "place" /\ task' = task  BY <2>1
    <3> QED  BY <3>1, <3>2, <3>3 DEF StageProgress, Stage
  <2>10. MemProgress'  BY <2>1, <2>2, MemStill DEF RInv
  <2>11. TaskInv'  BY <2>1, <2>2, TaskStill DEF RInv
  <2> QED  BY <2>7, <2>9, <2>10, <2>11 DEF RInv
<1> QED  BY <1>1, <1>2

\* A conflict fails with an empty list; nothing has moved.
LEMMA ValidateR ==
  ASSUME Undisturbed, IInv, RInv, Validate
  PROVE  RInv'
<1>1. pc = "validate" /\ faults' = faults  BY DEF Validate, Go
<1>2. CASE Fail("finish")
  <2>1. rb' = <<>>  BY <1>1, <1>2 DEF Fail, IInv, PlaceInv
  <2> QED  BY <1>1, <1>2, <2>1, OutOfLoop DEF Fail, bounds, InLoop, InPackage, RInv
<1>3. CASE ~Fail("finish")
  <2>1. kind # "remove" /\ pc \in InLoop
    BY <1>1 DEF IInv, PlaceInv, InstallKinds, InLoop
  <2>2. Go(FirstHook) /\ UNCHANGED <<fs, enabled, at, i, mem, rb>>
    BY <1>3 DEF Validate
  <2>3. pc' \in {"commit", "preinstall"}  BY <2>1, <2>2 DEF Go, FirstHook
  <2> QED
    BY <1>1, <2>1, <2>2, <2>3, CallStep DEF Go, run, bounds, InLoop, InPackage
<1> QED  BY <1>2, <1>3

\* A failing preinstall hook leads to the rollback.
LEMMA PreInstallR ==
  ASSUME Undisturbed, IInv, RInv, PreInstall
  PROVE  RInv'
<1>1. pc = "preinstall" /\ faults' = faults /\ pc \in InLoop
  BY DEF PreInstall, Go, InLoop, InPackage
<1>2. CASE Fail("rollback")
  BY <1>1, <1>2, OutOfLoop DEF Fail, bounds, InLoop, InPackage, RInv
<1>3. CASE ~Fail("rollback")
  <2>1. Go("commit") /\ UNCHANGED <<fs, enabled, at, i, mem, rb>>
    BY <1>3 DEF PreInstall
  <2> QED  BY <1>1, <2>1, CallStep DEF Go, run, bounds, InLoop, InPackage
<1> QED  BY <1>2, <1>3

\* A failing preremove hook of the only package fails with an empty list.
LEMMA PreRemoveR ==
  ASSUME Undisturbed, IInv, RInv, PreRemove
  PROVE  RInv'
<1>1. pc = "preremove" /\ faults' = faults /\ pc \in InLoop
  BY DEF PreRemove, Go, InLoop, InPackage
<1>2. CASE Fail("finish")
  <2>1. rb' = <<>>  BY <1>1, <1>2 DEF Fail, RInv, TaskInv
  <2> QED  BY <1>1, <1>2, <2>1, OutOfLoop DEF Fail, bounds, InLoop, InPackage, RInv
<1>3. CASE ~Fail("finish")
  <2>1. Go("remove") /\ UNCHANGED <<fs, enabled, at, i, mem, rb>>
    BY <1>3 DEF PreRemove
  <2> QED  BY <1>1, <2>1, CallStep DEF Go, run, bounds, InLoop, InPackage
<1> QED  BY <1>2, <1>3

\* An unowned file in the way leads to the rollback.
LEMMA RefuseUnownedR ==
  ASSUME Undisturbed, IInv, RInv, RefuseUnowned
  PROVE  RInv'
BY OutOfLoop DEF RefuseUnowned, Fail, bounds, InLoop, InPackage, RInv

\* A changed configuration file stays; the new one goes to .yspm-dist.
LEMMA KeepConfigR ==
  ASSUME Undisturbed, IInv, RInv, KeepConfig
  PROVE  RInv'
<1>1. /\ pc = "commit" /\ ~AtEnd /\ KeepsConfig(File) /\ pc' = "commit" /\ i' = i + 1
      /\ fs' = [fs EXCEPT ![Dist(File)] = fs[Stage(Current, File)]]
      /\ UNCHANGED <<task, kind, db, before, at, mem, oneDevice, lossy, faults, crashes>>
  BY DEF KeepConfig, Go, run, bounds
<1>2. /\ pc \in InPackage /\ pc \in InLoop /\ kind # "remove" /\ pc' \in InLoop
  BY <1>1 DEF InPackage, InLoop, IInv, PlaceInv, InstallKinds
<1>3. /\ at \in DOMAIN task /\ at \in Nat /\ i \in Nat /\ File \in Path
      /\ i \in DOMAIN PlanFiles(at) /\ File = PlanFiles(at)[i]
      /\ Current \in Pkg /\ task[at][1] = Current
  BY <1>1, <1>2, AtFile
<1>4. fs[Root(File)] = before[File]  BY <1>1, RootAt
<1>5. ChangedBefore(Current, File)
  <2>1. File \in Config[Current] /\ before[File] # None
    BY <1>1, <1>4 DEF KeepsConfig, Exists
  <2>2. before[File] \notin PreviousHashes(File)
    BY <1>1, <1>4, <2>1, HashesOf DEF KeepsConfig
  <2> QED  BY <1>1, <2>1, <2>2, HashesOf DEF ChangedBefore
<1>6. Target(at, File) = before[File]  BY <1>2, <1>3, <1>5 DEF Target
<1>7. \A f \in Path : fs'[Root(f)] = fs[Root(f)]
  BY <1>1, <1>3, PathsApart DEF IInv, Typed
<1>8. RootProgress'
  BY <1>1, <1>3, <1>4, <1>6, <1>7, FileStep
<1>9. StageProgress'
  <2>1. ASSUME NEW k \in DOMAIN task, NEW n \in DOMAIN PlanFiles(k), ~Handled(k, n)'
        PROVE  /\ ~Handled(k, n)
               /\ fs'[Stage(task[k][1], PlanFiles(k)[n])]
                     = fs[Stage(task[k][1], PlanFiles(k)[n])]
    <3>1. PlanFiles(k) \in Seq(Path) /\ task[k][1] \in Pkg  BY <1>2, PlanType
    <3>2. PlanFiles(k)[n] \in Path /\ n \in Nat  BY <3>1, InSeq
    <3>3. ~Handled(k, n)  BY <1>1, <1>3, <2>1, <3>2 DEF Handled
    <3>4. Stage(task[k][1], PlanFiles(k)[n]) \in Place
          /\ Stage(task[k][1], PlanFiles(k)[n]) # Dist(File)
      BY <1>3, <3>1, <3>2, PathsApart, StageApart
    <3> QED  BY <1>1, <3>3, <3>4 DEF IInv, Typed
  <2> QED  BY <1>1, <2>1, StageStill DEF RInv
<1>10. MemProgress'  BY <1>1, <1>2, MemStill DEF RInv
<1>11. TaskInv'  BY <1>1, <1>2, TaskStill DEF RInv
<1> QED  BY <1>8, <1>9, <1>10, <1>11 DEF RInv

\* A file that is replaced is out of the way.
LEMMA BackUpR ==
  ASSUME Undisturbed, IInv, RInv, BackUp
  PROVE  RInv'
<1>1. /\ pc = "commit" /\ ~AtEnd /\ Exists(Root(File)) /\ Replaceable(File)
      /\ pc' = "place" /\ i' = i
      /\ fs' = Move(fs, Root(File), Backup(Current, File))
      /\ UNCHANGED <<task, kind, db, before, at, i, mem, oneDevice, lossy, faults, crashes>>
  BY DEF BackUp, CanRename, RInv, TaskInv, Go, run, bounds
<1>2. /\ pc \in InPackage /\ pc \in InLoop /\ pc' \in InLoop
  BY <1>1 DEF InPackage, InLoop
<1>3. /\ at \in DOMAIN task /\ at \in Nat /\ i \in Nat /\ File \in Path /\ Current \in Pkg
  BY <1>1, <1>2, AtFile
<1>4. fs[Root(File)] = before[File]  BY <1>1, RootAt
<1>5. ~ChangedBefore(Current, File)
  <2>1. CASE File \in Config[Current]
    <3>1. before[File] \in PreviousHashes(File)  BY <1>1, <1>4, <2>1 DEF Replaceable
    <3> QED  BY <1>1, <2>1, <3>1, HashesOf DEF ChangedBefore
  <2>2. CASE File \notin Config[Current]  BY <2>2 DEF ChangedBefore
  <2> QED  BY <2>1, <2>2
<1>6. /\ fs'[Root(File)] = None
      /\ \A f \in Path : f # File => fs'[Root(f)] = fs[Root(f)]
      /\ \A p \in Pkg, f \in Path : fs'[Stage(p, f)] = fs[Stage(p, f)]
  <2>1. /\ Root(File) \in Place /\ Backup(Current, File) \in Place
        /\ Root(File) # Backup(Current, File)
    BY <1>3, PathsApart
  <2>2. \A f \in Path : Root(f) # Backup(Current, File) /\ Root(f) \in Place
                        /\ (f # File => Root(f) # Root(File))
    BY <1>3, PathsApart
  <2>3. \A p \in Pkg, f \in Path : /\ Stage(p, f) \in Place /\ Stage(p, f) # Root(File)
                                   /\ Stage(p, f) # Backup(Current, File)
    BY <1>3, PathsApart, StageApart
  <2> QED  BY <1>1, <2>1, <2>2, <2>3 DEF Move, IInv, Typed
<1>7. RootProgress'
  BY <1>1, <1>3, <1>6, FileStep
<1>8. StageProgress'
  <2>1. ASSUME NEW k \in DOMAIN task, NEW n \in DOMAIN PlanFiles(k), ~Handled(k, n)
        PROVE  fs'[Stage(task[k][1], PlanFiles(k)[n])] = task[k]
    <3>1. PlanFiles(k) \in Seq(Path) /\ task[k][1] \in Pkg  BY <1>2, PlanType
    <3>2. PlanFiles(k)[n] \in Path  BY <3>1, InSeq
    <3>3. fs[Stage(task[k][1], PlanFiles(k)[n])] = task[k]
      BY <1>1, <2>1 DEF RInv, StageProgress
    <3> QED  BY <1>6, <3>1, <3>2, <3>3
  <2>2. \A k : PlanFiles(k)' = PlanFiles(k)  BY <1>1, PlanSame
  <2>3. \A k, n : Handled(k, n)' <=> Handled(k, n)  BY <1>1 DEF Handled
  <2>4. ~ChangedBefore(Current, File)'
    <3>1. Current' = Current /\ File' = File
      BY <1>1 DEF Current, File, Version, Files
    <3> QED  BY <1>1, <1>5, <3>1 DEF ChangedBefore, Owners, Files
  <2>5. ASSUME NEW k \in DOMAIN task, NEW n \in DOMAIN PlanFiles(k), ~Handled(k, n)'
        PROVE  fs'[Stage(task'[k][1], PlanFiles(k)'[n])] = task'[k]
    BY <1>1, <2>1, <2>2, <2>3, <2>5
  <2>6. task' = task  BY <1>1
  <2> QED  BY <2>2, <2>4, <2>5, <2>6 DEF StageProgress, Stage
<1>9. MemProgress'  BY <1>1, <1>2, MemStill DEF RInv
<1>10. TaskInv'  BY <1>1, <1>2, TaskStill DEF RInv
<1> QED  BY <1>7, <1>8, <1>9, <1>10 DEF RInv

\* The staged file is in place.
LEMMA PlaceFileR ==
  ASSUME Undisturbed, IInv, RInv, PlaceFile
  PROVE  RInv'
<1>1. /\ pc \in {"commit", "place"} /\ (pc = "commit" => ~AtEnd /\ ~Exists(Root(File)))
      /\ pc' = "commit" /\ i' = i + 1
      /\ fs' = Move(fs, Stage(Current, File), Root(File))
      /\ UNCHANGED <<task, kind, db, before, at, mem, oneDevice, lossy, faults, crashes>>
  BY DEF PlaceFile, Go, run, bounds
<1>2. /\ pc \in InPackage /\ pc \in InLoop /\ kind # "remove" /\ pc' \in InLoop /\ ~AtEnd
  BY <1>1 DEF InPackage, InLoop, IInv, PlaceInv, InstallKinds
<1>3. /\ at \in DOMAIN task /\ at \in Nat /\ i \in Nat /\ File \in Path
      /\ i \in DOMAIN PlanFiles(at) /\ File = PlanFiles(at)[i]
      /\ Current \in Pkg /\ task[at][1] = Current
  BY <1>1, <1>2, AtFile
<1>4. ~ChangedBefore(Current, File)
  <2>1. CASE pc = "place"  BY <2>1 DEF RInv, StageProgress
  <2>2. CASE pc = "commit"
    <3>1. fs[Root(File)] = before[File]  BY <1>2, <2>2, RootAt
    <3>2. before[File] = None  BY <1>1, <2>2, <3>1 DEF Exists
    <3> QED  BY <3>2 DEF ChangedBefore
  <2> QED  BY <1>1, <2>1, <2>2
<1>5. Target(at, File) = task[at]  BY <1>2, <1>3, <1>4 DEF Target
<1>6. fs[Stage(Current, File)] = task[at]
  <2>1. ~Handled(at, i)  BY <1>3 DEF Handled
  <2> QED  BY <1>1, <1>3, <2>1 DEF RInv, StageProgress
<1>7. Stage(Current, File) \in Place /\ Root(File) \in Place /\ Stage(Current, File) # Root(File)
  BY <1>3, PathsApart
<1>8. /\ fs'[Root(File)] = task[at]
      /\ \A f \in Path : f # File => fs'[Root(f)] = fs[Root(f)]
  <2>1. \A f \in Path : Root(f) # Stage(Current, File) /\ Root(f) \in Place
                        /\ (f # File => Root(f) # Root(File))
    BY <1>3, PathsApart
  <2> QED  BY <1>1, <1>3, <1>6, <1>7, <2>1 DEF Move, IInv, Typed
<1>9. RootProgress'
  BY <1>1, <1>2, <1>3, <1>5, <1>8, FileStep
<1>10. StageProgress'
  <2>1. ASSUME NEW k \in DOMAIN task, NEW n \in DOMAIN PlanFiles(k), ~Handled(k, n)'
        PROVE  /\ ~Handled(k, n)
               /\ fs'[Stage(task[k][1], PlanFiles(k)[n])]
                     = fs[Stage(task[k][1], PlanFiles(k)[n])]
    <3>1. PlanFiles(k) \in Seq(Path) /\ task[k][1] \in Pkg  BY <1>2, PlanType
    <3>2. PlanFiles(k)[n] \in Path /\ n \in Nat  BY <3>1, InSeq
    <3>3. ~Handled(k, n) /\ ~(k = at /\ n = i)
      BY <1>1, <1>3, <2>1, <3>2 DEF Handled
    <3>4. PlanFiles(k)[n] # File  BY <1>2, <1>3, <3>3, PlanApart
    <3>5. Stage(task[k][1], PlanFiles(k)[n]) \in Place
          /\ Stage(task[k][1], PlanFiles(k)[n]) # Root(File)
          /\ Stage(task[k][1], PlanFiles(k)[n]) # Stage(Current, File)
      BY <1>3, <3>1, <3>2, <3>4, PathsApart DEF Stage
    <3> QED  BY <1>1, <1>7, <3>3, <3>5 DEF Move, IInv, Typed
  <2> QED  BY <1>1, <2>1, StageStill DEF RInv
<1>11. MemProgress'  BY <1>1, <1>2, MemStill DEF RInv
<1>12. TaskInv'  BY <1>1, <1>2, TaskStill DEF RInv
<1> QED  BY <1>9, <1>10, <1>11, <1>12 DEF RInv

\* Past its last file the engine goes to the next package.
LEMMA HandledAll ==
  ASSUME Undisturbed, IInv, RInv, pc \in InPackage, AtEnd, at' = at + 1, i' = 1,
         NEW k \in DOMAIN task, NEW n \in DOMAIN PlanFiles(k)
  PROVE  Handled(k, n)' <=> Handled(k, n)
<1>1. at \in Nat /\ i \in Nat /\ pc \in InLoop /\ \A m \in DOMAIN PlanFiles(at) : m < i
  BY AtFile
<1>2. k \in Nat /\ PlanFiles(k) \in Seq(Path)  BY <1>1, PlanType
<1>3. n \in Nat /\ n >= 1  BY <1>2
<1>4. k = at => n < i  BY <1>1
<1>5. Handled(k, n)' <=> k < at + 1 \/ (k = at + 1 /\ n < 1)  BY DEF Handled
<1> QED  BY <1>1, <1>2, <1>3, <1>4, <1>5 DEF Handled

\* A package of an install is done: the copy of the database has it.
LEMMA PostInstallR ==
  ASSUME Undisturbed, IInv, RInv, PostInstall
  PROVE  RInv'
<1>1. pc = "commit" /\ AtEnd /\ pc \in InPackage /\ pc \in InLoop /\ kind # "remove"
  BY DEF PostInstall, InPackage, InLoop, IInv, PlaceInv, InstallKinds
<1>2. CASE pc' = "rollback"
  <2>1. /\ UNCHANGED <<oneDevice, lossy, faults, crashes>>
    BY <1>2 DEF PostInstall, NextPackage, Go, bounds
  <2> QED  BY <1>2, <2>1, OutOfLoop DEF InLoop, InPackage, RInv
<1>3. CASE pc' # "rollback"
  <2>1. /\ mem' = [p \in Pkg |-> IF p = Current THEN Version
                                 ELSE IF kind = "local" /\ p \in Replaces[Current]
                                      THEN 0 ELSE mem[p]]
        /\ at' = at + 1 /\ i' = 1 /\ fs' = fs
        /\ pc' = IF at < Len(task) THEN FirstHook ELSE "save"
        /\ UNCHANGED <<task, kind, db, before, oneDevice, lossy, faults, crashes>>
    BY <1>3 DEF PostInstall, NextPackage, Go, run, bounds
  <2>2. pc' \in {"commit", "preinstall", "save"} /\ pc' \in InLoop
    BY <1>1, <2>1 DEF FirstHook, InLoop, InPackage
  <2>3. /\ at \in DOMAIN task /\ at \in Nat /\ Current \in Pkg /\ task[at][1] = Current
        /\ task[at] = <<Current, Version>>
    BY <1>1, AtFile
  <2>4. \A k \in DOMAIN task : PlanFiles(k) \in Seq(Path) /\ k \in Nat /\ task[k][1] \in Pkg
    BY <1>1, PlanType
  <2>5. \A k \in DOMAIN task : \A n \in DOMAIN PlanFiles(k) : Handled(k, n)' <=> Handled(k, n)
    BY <1>1, <2>1, HandledAll
  <2>6. RootProgress'
    BY <1>1, <2>1, <2>2, <2>4, <2>5, RootStill DEF RInv
  <2>7. StageProgress'
    BY <1>1, <2>1, <2>2, <2>5, StageStill DEF RInv
  <2>8. MemProgress'
    <3>1. task \in Tasks /\ task \in Seq(Pkg \X Nat)
          /\ \A j, k \in DOMAIN task : task[j][1] = task[k][1] => j = k
      <4>1. kind \in InstallKinds  BY <1>1 DEF IInv, Typed
      <4> QED  BY <1>1, <2>3, <4>1, PlanType DEF IInv, PlaceInv
    <3>2. ASSUME NEW k \in DOMAIN task
          PROVE  mem'[task[k][1]] = IF k < at + 1 THEN task[k][2] ELSE db[task[k][1]]
      <4>1. CASE k = at  BY <2>1, <2>3, <4>1
      <4>2. CASE k # at
        <5>1. task[k][1] # Current  BY <2>3, <3>1, <4>2
        <5>2. task[k][1] \notin Replaces[Current]
          BY <2>3, <3>1, <4>2 DEF Undisturbed
        <5>3. mem'[task[k][1]] = mem[task[k][1]]  BY <2>1, <2>4, <5>1, <5>2
        <5>4. mem[task[k][1]] = IF k < at THEN task[k][2] ELSE db[task[k][1]]
          BY <1>1 DEF RInv, MemProgress
        <5>5. k < at + 1 <=> k < at  BY <2>3, <2>4, <4>2
        <5> QED  BY <5>3, <5>4, <5>5
      <4> QED  BY <4>1, <4>2
    <3>3. ASSUME NEW p \in Pkg, \A k \in DOMAIN task : task[k][1] # p
          PROVE  mem'[p] = IF kind = "local" /\ \E k \in DOMAIN task :
                                 k < at + 1 /\ p \in Replaces[task[k][1]]
                           THEN 0 ELSE db[p]
      <4>1. mem'[p] = IF kind = "local" /\ p \in Replaces[Current] THEN 0 ELSE mem[p]
        BY <2>1, <2>3, <3>3
      <4>2. mem[p] = IF kind = "local" /\ \E k \in DOMAIN task :
                           k < at /\ p \in Replaces[task[k][1]]
                     THEN 0 ELSE db[p]
        BY <1>1, <3>3 DEF RInv, MemProgress
      <4>3. (\E k \in DOMAIN task : k < at + 1 /\ p \in Replaces[task[k][1]]) <=>
              \/ p \in Replaces[Current]
              \/ \E k \in DOMAIN task : k < at /\ p \in Replaces[task[k][1]]
        <5>1. \A k \in DOMAIN task : k < at + 1 <=> k < at \/ k = at  BY <2>3, <2>4
        <5> QED  BY <2>3, <5>1
      <4> QED  BY <4>1, <4>2, <4>3
    <3>4. pc' = "save" => at' = Len(task) + 1
      <4>1. at \in 1 .. Len(task) /\ Len(task) \in Nat  BY <2>3, <3>1
      <4>2. pc' = "save" => ~(at < Len(task))  BY <1>1, <2>1 DEF FirstHook
      <4> QED  BY <2>1, <4>1, <4>2
    <3> QED  BY <2>1, <3>2, <3>3, <3>4 DEF MemProgress
  <2>9. TaskInv'  BY <1>1, <2>1, <2>2, TaskStill DEF RInv
  <2> QED  BY <2>6, <2>7, <2>8, <2>9 DEF RInv
<1> QED  BY <1>2, <1>3

\* A removed file is gone from the root, if it was there.
LEMMA RemoveFileR ==
  ASSUME Undisturbed, IInv, RInv, RemoveFile
  PROVE  RInv'
<1> DEFINE from == Root(File)
           to == IF Modified(File) THEN Save(File) ELSE Removed(Current, File)
<1>1. /\ pc = "remove" /\ ~AtEnd /\ pc' = "remove" /\ i' = i + 1
      /\ IF Exists(from) THEN fs' = Move(fs, from, to) ELSE fs' = fs
      /\ UNCHANGED <<task, kind, db, before, at, mem, oneDevice, lossy, faults, crashes>>
  BY DEF RemoveFile, Go, run, bounds
<1>2. /\ pc \in InPackage /\ pc \in InLoop /\ kind = "remove" /\ pc' \in InLoop
  BY <1>1 DEF InPackage, InLoop, IInv, PlaceInv
<1>3. at \in DOMAIN task /\ File \in Path /\ Current \in Pkg
  BY <1>1, <1>2, AtFile
<1>4. /\ from \in Place /\ to \in Place /\ from # to
      /\ \A f \in Path : f # File => Root(f) # from /\ Root(f) # to /\ Root(f) \in Place
  BY <1>3, PathsApart
<1>5. /\ fs'[Root(File)] = None
      /\ \A f \in Path : f # File => fs'[Root(f)] = fs[Root(f)]
  <2>1. CASE Exists(from)
    <3> HIDE DEF from, to
    <3>1. fs' = Move(fs, from, to)  BY <1>1, <2>1
    <3>2. fs'[from] = None /\ \A f \in Path : f # File => fs'[Root(f)] = fs[Root(f)]
      BY <1>4, <3>1 DEF Move, IInv, Typed
    <3> QED  BY <3>2 DEF from
  <2>2. CASE ~Exists(from)  BY <1>1, <2>2 DEF Exists
  <2> QED  BY <2>1, <2>2
<1>6. Target(at, File) = None  BY <1>2 DEF Target
<1>7. RootProgress'
  BY <1>1, <1>5, <1>6, FileStep
<1>8. StageProgress'  BY <1>1 DEF StageProgress
<1>9. MemProgress'  BY <1>1, <1>2, MemStill DEF RInv
<1>10. TaskInv'  BY <1>1, <1>2, TaskStill DEF RInv
<1> QED  BY <1>7, <1>8, <1>9, <1>10 DEF RInv

\* The package of a removal is gone from the copy of the database.
LEMMA PostRemoveR ==
  ASSUME Undisturbed, IInv, RInv, PostRemove
  PROVE  RInv'
<1>1. pc = "remove" /\ AtEnd /\ pc \in InPackage /\ pc \in InLoop /\ kind = "remove"
  BY DEF PostRemove, InPackage, InLoop, IInv, PlaceInv
<1>2. CASE pc' = "rollback"
  <2>1. UNCHANGED <<oneDevice, lossy, faults, crashes>>
    BY <1>2 DEF PostRemove, NextPackage, Go, bounds
  <2> QED  BY <1>2, <2>1, OutOfLoop DEF InLoop, InPackage, RInv
<1>3. CASE pc' # "rollback"
  <2>1. /\ mem' = [mem EXCEPT ![Current] = 0] /\ at' = at + 1 /\ i' = 1 /\ fs' = fs
        /\ pc' = IF at < Len(task) THEN FirstHook ELSE "save"
        /\ UNCHANGED <<task, kind, db, before, oneDevice, lossy, faults, crashes>>
    BY <1>3 DEF PostRemove, NextPackage, Go, run, bounds
  <2>2. /\ at \in DOMAIN task /\ Current \in Pkg /\ task[at][1] = Current
    BY <1>1, AtFile
  <2>3. DOMAIN task = {1} /\ at = 1 /\ task[1][2] = 0 /\ Len(task) = 1
    <3>1. DOMAIN task = {1} /\ task[at][2] = 0  BY <1>1, <2>2, PlanType
    <3>2. task \in Seq(Pkg \X Nat)  BY DEF IInv, PlaceInv
    <3>3. Len(task) = 1
      <4>1. DOMAIN task = 1 .. Len(task) /\ Len(task) \in Nat  BY <3>2
      <4>2. 1 \in 1 .. Len(task)  BY <3>1, <4>1
      <4>3. Len(task) \in 1 .. Len(task)  BY <4>1, <4>2
      <4> QED  BY <3>1, <4>1, <4>3
    <3> QED  BY <2>2, <3>1, <3>3
  <2>4. pc' = "save" /\ pc' \in InLoop  BY <2>1, <2>3 DEF InLoop
  <2>5. \A k \in DOMAIN task : PlanFiles(k) \in Seq(Path)
    BY <1>1, PlanType
  <2>6. \A k \in DOMAIN task : \A n \in DOMAIN PlanFiles(k) : Handled(k, n)' <=> Handled(k, n)
    BY <1>1, <2>1, HandledAll
  <2>7. RootProgress'
    BY <1>1, <2>1, <2>4, <2>5, <2>6, RootStill DEF RInv
  <2>8. StageProgress'  BY <2>4 DEF StageProgress
  <2>9. MemProgress'
    <3>1. mem'[task[1][1]] = task[1][2]
      BY <2>1, <2>2, <2>3 DEF IInv, Typed
    <3>2. ASSUME NEW p \in Pkg, \A k \in DOMAIN task : task[k][1] # p  PROVE mem'[p] = db[p]
      <4>1. p # Current  BY <2>2, <3>2
      <4>2. mem[p] = db[p]  BY <1>1, <3>2 DEF RInv, MemProgress
      <4> QED  BY <2>1, <2>2, <4>1, <4>2 DEF IInv, Typed
    <3>3. task' = task /\ kind' = kind /\ db' = db /\ at' = 2 /\ at' = Len(task) + 1
      BY <2>1, <2>3
    <3>4. \A k \in DOMAIN task : k < at' /\ mem'[task[k][1]] = task[k][2]
      BY <2>3, <3>1, <3>3
    <3>5. kind' # "local"  BY <1>1, <3>3
    <3> QED  BY <3>2, <3>3, <3>4, <3>5 DEF MemProgress
  <2>10. TaskInv'  BY <1>1, <2>1, <2>4, TaskStill DEF RInv
  <2> QED  BY <2>7, <2>8, <2>9, <2>10 DEF RInv
<1> QED  BY <1>2, <1>3

\* The steps outside the loop, and those that lead out of it.
LEMMA EndR ==
  ASSUME Undisturbed, IInv, RInv,
         SaveDB \/ Rollback \/ RollbackDone \/ Finalize \/ Finish \/ Cleanup
  PROVE  RInv'
<1>1. ~Fault  BY DEF Fault, RInv, TaskInv, Undisturbed
<1>2. oneDevice /\ ~lossy /\ TaskInv  BY DEF RInv, TaskInv
<1>3. CASE SaveDB
  BY <1>1, <1>2, <1>3, OutOfLoop DEF SaveDB, bounds, InLoop, InPackage
<1>4. CASE Rollback
  BY <1>1, <1>2, <1>4, OutOfLoop DEF Rollback, CanRename, bounds, InLoop, InPackage
<1>5. CASE RollbackDone
  BY <1>1, <1>2, <1>5, OutOfLoop DEF RollbackDone, Go, bounds, InLoop, InPackage
<1>6. CASE Finalize
  <2>1. outcome' = "success"  BY <1>6 DEF Finalize, IInv, PlaceInv
  <2> QED
    BY <1>1, <1>2, <1>6, <2>1, OutOfLoop DEF Finalize, bounds, InLoop, InPackage
<1>7. CASE Finish
  BY <1>1, <1>2, <1>7, OutOfLoop DEF Finish, bounds, InLoop, InPackage, TaskInv
<1>8. CASE Cleanup
  BY <1>1, <1>2, <1>8, OutOfLoop DEF Cleanup, Go, bounds, InLoop, InPackage
<1> QED  BY <1>3, <1>4, <1>5, <1>6, <1>7, <1>8

\* Nothing changes.
LEMMA QuietR ==
  ASSUME RInv, UNCHANGED vars
  PROVE  RInv'
<1>1. UNCHANGED <<fs, db, record, enabled, oneDevice, pc, kind, task, at, i, mem, rb, outcome,
                  lossy, before, count, crashes, edits, faults>>
  BY DEF vars, disk, run, bounds
<1>2. \A k : PlanFiles(k)' = PlanFiles(k)  BY <1>1, PlanSame
<1>3. \A k, f : Target(k, f)' = Target(k, f)  BY <1>1, PlanSame
<1>4. \A k, n : Handled(k, n)' <=> Handled(k, n)  BY <1>1 DEF Handled
<1>5. RootProgress'
  <2>1. ASSUME pc \in InLoop, NEW k \in DOMAIN task, NEW n \in DOMAIN PlanFiles(k)
        PROVE  fs'[Root(PlanFiles(k)'[n])] =
                 IF Handled(k, n)' THEN Target(k, PlanFiles(k)[n])'
                 ELSE IF pc' = "place" /\ k = at' /\ n = i' THEN None
                 ELSE before'[PlanFiles(k)'[n]]
    BY <1>1, <1>2, <1>3, <1>4, <2>1 DEF RInv, RootProgress
  <2>2. ASSUME pc \in InLoop, NEW f \in Path, \A k \in DOMAIN task : f \notin ToSet(PlanFiles(k))
        PROVE  fs'[Root(f)] = before'[f]
    BY <1>1, <2>2 DEF RInv, RootProgress
  <2> QED  BY <1>1, <1>2, <2>1, <2>2 DEF RootProgress, Root
<1>6. StageProgress'
  <2>1. ASSUME pc \in {"validate", "preinstall", "commit", "place"},
               NEW k \in DOMAIN task, NEW n \in DOMAIN PlanFiles(k), ~Handled(k, n)'
        PROVE  fs'[Stage(task'[k][1], PlanFiles(k)'[n])] = task'[k]
    BY <1>1, <1>2, <1>4, <2>1 DEF RInv, StageProgress
  <2>2. ChangedBefore(Current, File)' <=> ChangedBefore(Current, File)
    BY <1>1 DEF ChangedBefore, Current, File, Version, Files, Owners
  <2>3. pc' = "place" => ~ChangedBefore(Current, File)'
    BY <1>1, <2>2 DEF RInv, StageProgress
  <2> QED  BY <1>1, <1>2, <2>1, <2>3 DEF StageProgress, Stage
<1>7. MemProgress'  BY <1>1 DEF RInv, MemProgress
<1>8. TaskInv'  BY <1>1 DEF RInv, TaskInv
<1> QED  BY <1>5, <1>6, <1>7, <1>8 DEF RInv

\* Every step keeps the progress.
LEMMA NextR == Undisturbed /\ IInv /\ RInv /\ [Next]_vars => RInv'
<1> SUFFICES ASSUME Undisturbed, IInv, RInv, [Next]_vars PROVE RInv'
  OBVIOUS
<1>0. ~Fault /\ ~Crash  BY DEF Fault, Crash, RInv, TaskInv, Undisturbed
<1>1. ASSUME NEW k \in InstallKinds, NEW t \in Tasks, BeginInstall(k, t)  PROVE RInv'
  <2>1. \A f \in Path : fs'[Root(f)] = fs[Root(f)]
    <3> TAKE f \in Path
    <3>1. Root(f) \in Place /\ Root(f)[1] = "root"  BY PathsApart DEF Root
    <3> QED  BY <1>1, <3>1 DEF BeginInstall
  <2> QED  BY <1>1, <2>1, BeginR DEF BeginInstall
<1>2. ASSUME NEW t \in Removals, BeginRemove(t)  PROVE RInv'
  <2> DEFINE u == [j \in DOMAIN t |-> <<t[j], 0>>]
  <2>1. Begin("remove", u, "preremove") /\ fs' = fs /\ \A j \in DOMAIN t : db[t[j]] > 0
    BY <1>2 DEF BeginRemove
  <2>2. \E r \in Removals : /\ u = [j \in DOMAIN r |-> <<r[j], 0>>]
                            /\ \A j \in DOMAIN r : db[r[j]] > 0
    BY <2>1
  <2> HIDE DEF u
  <2> QED  BY <2>1, <2>2, BeginR
<1>3. ASSUME NEW f \in Path, Edit(f)  PROVE RInv'
  BY <1>3, OutOfLoop DEF Edit, InLoop, InPackage, RInv
<1>4. ASSUME Work  PROVE RInv'
  <2>1. ~FileError  BY <1>0 DEF FileError
  <2> QED
    BY <1>4, <2>1, PrepareR, ValidateR, PreInstallR, RefuseUnownedR, KeepConfigR, BackUpR,
       PlaceFileR, PostInstallR, PreRemoveR, RemoveFileR, PostRemoveR, EndR
    DEF Work
<1>5. UNCHANGED vars => RInv'  BY QuietR
<1> QED  BY <1>0, <1>1, <1>2, <1>3, <1>4, <1>5 DEF Next, Quiet

-----------------------------------------------------------------------------
(* Each step is one of the atomic transaction's, or a stutter.             *)

\* The commit point is passed: what the plan says of every file is in place.
LEMMA CommittedRoot ==
  ASSUME Undisturbed, IInv, RInv, pc = "save"
  PROVE  /\ \A k \in DOMAIN task : \A f \in ToSet(PlanFiles(k)) : fs[Root(f)] = Target(k, f)
         /\ \A f \in Path : (\A k \in DOMAIN task : f \notin ToSet(PlanFiles(k))) =>
               fs[Root(f)] = before[f]
         /\ \A j, k \in DOMAIN task :
               ToSet(PlanFiles(j)) \cap ToSet(PlanFiles(k)) # {} => j = k
         /\ \A k \in DOMAIN task : mem[task[k][1]] = task[k][2]
         /\ \A p \in Pkg : (\A k \in DOMAIN task : task[k][1] # p) =>
               mem[p] = IF kind = "local" /\ \E k \in DOMAIN task : p \in Replaces[task[k][1]]
                        THEN 0 ELSE db[p]
<1>1. pc \in InLoop /\ pc # "place"  BY DEF InLoop
<1>2. task \in Seq(Pkg \X Nat) /\ at = Len(task) + 1
  BY <1>1 DEF IInv, PlaceInv, RInv, MemProgress
<1>3. \A k \in DOMAIN task : k < at  BY <1>2
<1>4. ASSUME NEW k \in DOMAIN task, NEW f \in ToSet(PlanFiles(k))
      PROVE  fs[Root(f)] = Target(k, f)
  <2>1. PICK n \in DOMAIN PlanFiles(k) : f = PlanFiles(k)[n]  BY DEF ToSet
  <2>2. Handled(k, n)  BY <1>3 DEF Handled
  <2> QED  BY <1>1, <2>1, <2>2 DEF RInv, RootProgress
<1>5. ASSUME NEW j \in DOMAIN task, NEW k \in DOMAIN task, NEW f \in Path,
             f \in ToSet(PlanFiles(j)), f \in ToSet(PlanFiles(k))
      PROVE  j = k
  <2>1. PICK m \in DOMAIN PlanFiles(j) : f = PlanFiles(j)[m]  BY <1>5 DEF ToSet
  <2>2. PICK n \in DOMAIN PlanFiles(k) : f = PlanFiles(k)[n]  BY <1>5 DEF ToSet
  <2> QED  BY <1>1, <2>1, <2>2, PlanApart
<1>6. \A k \in DOMAIN task : ToSet(PlanFiles(k)) \subseteq Path
  <2> TAKE k \in DOMAIN task
  <2>1. PlanFiles(k) \in Seq(Path)  BY <1>1, PlanType
  <2> QED  BY <2>1, InSeq DEF ToSet
<1>7. \A j, k \in DOMAIN task : ToSet(PlanFiles(j)) \cap ToSet(PlanFiles(k)) # {} => j = k
  BY <1>5, <1>6
<1>8. \A f \in Path : (\A k \in DOMAIN task : f \notin ToSet(PlanFiles(k))) =>
         fs[Root(f)] = before[f]
  BY <1>1 DEF RInv, RootProgress
<1>9. /\ \A k \in DOMAIN task : mem[task[k][1]] = task[k][2]
      /\ \A p \in Pkg : (\A k \in DOMAIN task : task[k][1] # p) =>
            mem[p] = IF kind = "local" /\ \E k \in DOMAIN task : p \in Replaces[task[k][1]]
                     THEN 0 ELSE db[p]
  BY <1>1, <1>3 DEF RInv, MemProgress
<1> QED  BY <1>4, <1>7, <1>8, <1>9

\* Both modules have the sequence operators of the community modules.
LEMMA ToSetIs ==
  ASSUME NEW s
  PROVE  Atomic!ToSet(s) = ToSet(s)
BY DEF Atomic!ToSet, ToSet

\* The files of a version, as a set.
LEMMA FilesOfIs ==
  ASSUME NEW p, NEW v
  PROVE  Atomic!FilesOf(p, v) = ToSet(Files(p, v))
<1>1. ToSet(<<>>) = {}  BY DEF ToSet
<1> QED  BY <1>1, ToSetIs DEF Atomic!FilesOf, Files

\* The database write of an install is the atomic transaction's Install.
LEMMA SaveInstall ==
  ASSUME Undisturbed, IInv, RInv, SaveDB, kind # "remove"
  PROVE  Atomic!Install(task, kind = "local") /\ task \in Tasks
<1>1. pc = "save" /\ db' = mem /\ pc' = "finalize" /\ fs' = fs
  BY DEF SaveDB, Fault, RInv, TaskInv, Undisturbed
<1>2. pc \in InLoop /\ Committing /\ ~Committing'  BY <1>1 DEF InLoop, Committing
<1>3. kind \in InstallKinds /\ task \in Tasks
      /\ \A k \in DOMAIN task : /\ task[k] \in Shipped /\ task[k][1] \in Pkg
                                /\ PlanFiles(k) = Files(task[k][1], task[k][2])
  <2>1. kind \in InstallKinds /\ task \in Tasks  BY <1>2 DEF IInv, Typed, RInv, TaskInv
  <2> QED  BY <1>2, <2>1, PlanType
<1>4. \A j, k \in DOMAIN task : task[j][1] = task[k][1] => j = k
  BY <1>3 DEF IInv, PlaceInv
<1> DEFINE new == ToSet(task)
           replaced == IF kind = "local" THEN UNION {Replaces[c[1]] : c \in new} ELSE {}
           files == IF Committing THEN before ELSE [f \in Path |-> fs[Root(f)]]
<1>5. files = before /\ files' = [f \in Path |-> fs[Root(f)]]
  BY <1>1, <1>2 DEF Root
<1>6. db' = [p \in Pkg |->
               IF \E c \in new : c[1] = p THEN (CHOOSE c \in new : c[1] = p)[2]
               ELSE IF p \in replaced THEN 0 ELSE db[p]]
  <2>1. mem \in [Pkg -> Nat]  BY DEF IInv, Typed
  <2>2. ASSUME NEW p \in Pkg
        PROVE  mem[p] = IF \E c \in new : c[1] = p THEN (CHOOSE c \in new : c[1] = p)[2]
                        ELSE IF p \in replaced THEN 0 ELSE db[p]
    <3>1. CASE \E k \in DOMAIN task : task[k][1] = p
      <4>1. PICK k \in DOMAIN task : task[k][1] = p  BY <3>1
      <4>2. task[k] \in new /\ \A c \in new : c[1] = p => c = task[k]
        BY <1>4, <4>1 DEF ToSet
      <4>3. (CHOOSE c \in new : c[1] = p) = task[k]  BY <4>1, <4>2
      <4>4. mem[p] = task[k][2]  BY <1>1, <4>1, CommittedRoot
      <4> QED  BY <4>1, <4>2, <4>3, <4>4
    <3>2. CASE \A k \in DOMAIN task : task[k][1] # p
      <4>1. ~ \E c \in new : c[1] = p  BY <3>2 DEF ToSet
      <4>2. p \in replaced <=> kind = "local" /\ \E k \in DOMAIN task : p \in Replaces[task[k][1]]
        BY DEF ToSet
      <4> HIDE DEF replaced, new
      <4> QED  BY <1>1, <3>2, <4>1, <4>2, CommittedRoot
    <3> QED  BY <3>1, <3>2
  <2> HIDE DEF replaced, new
  <2> QED  BY <1>1, <2>1, <2>2
<1>7. \A k \in DOMAIN task, f \in Path :
         (f \in ToSet(PlanFiles(k)) => (Atomic!Changed(task[k][1], f) <=> ChangedBefore(task[k][1], f)))
  <2> TAKE k \in DOMAIN task, f \in Path
  <2>1. {<<q, db[q]>> : q \in {r \in Pkg : /\ f \in Config[r]
                                           /\ f \in Atomic!FilesOf(r, db[r])}}
          = {<<q, db[q]>> : q \in {r \in Owners(db, f) : f \in Config[r]}}
    BY FilesOfIs DEF Owners
  <2> QED  BY <1>2, <2>1 DEF Atomic!Changed, ChangedBefore
<1>8. ASSUME NEW f \in Path
      PROVE  fs[Root(f)] =
               IF \E c \in new : f \in Atomic!FilesOf(c[1], c[2]) /\ ~Atomic!Changed(c[1], f)
               THEN CHOOSE c \in new : f \in Atomic!FilesOf(c[1], c[2])
               ELSE before[f]
  <2>1. CASE \E k \in DOMAIN task : f \in ToSet(PlanFiles(k))
    <3>1. PICK k \in DOMAIN task : f \in ToSet(PlanFiles(k))  BY <2>1
    <3>2. \A j \in DOMAIN task : f \in ToSet(PlanFiles(j)) => j = k
      BY <1>1, <3>1, CommittedRoot
    <3>3. \A j \in DOMAIN task : Atomic!FilesOf(task[j][1], task[j][2]) = ToSet(PlanFiles(j))
      BY <1>3, FilesOfIs
    <3>4. task[k] \in new /\ f \in Atomic!FilesOf(task[k][1], task[k][2])
      BY <3>1, <3>3 DEF ToSet
    <3>5. \A c \in new : f \in Atomic!FilesOf(c[1], c[2]) => c = task[k]
      <4> TAKE c \in new
      <4>1. PICK j \in DOMAIN task : c = task[j]  BY DEF ToSet
      <4> QED  BY <3>2, <3>3, <4>1
    <3>6. (CHOOSE c \in new : f \in Atomic!FilesOf(c[1], c[2])) = task[k]
      BY <3>4, <3>5
    <3>7. fs[Root(f)] = IF ChangedBefore(task[k][1], f) THEN before[f] ELSE task[k]
      BY <1>1, <3>1, CommittedRoot DEF Target
    <3>8. Atomic!Changed(task[k][1], f) <=> ChangedBefore(task[k][1], f)  BY <1>7, <3>1
    <3>9. (\E c \in new : f \in Atomic!FilesOf(c[1], c[2]) /\ ~Atomic!Changed(c[1], f))
            <=> ~ChangedBefore(task[k][1], f)
      <4> HIDE DEF new
      <4> QED  BY <3>4, <3>5, <3>8
    <3> HIDE DEF new
    <3> QED  BY <3>6, <3>7, <3>9
  <2>2. CASE \A k \in DOMAIN task : f \notin ToSet(PlanFiles(k))
    <3>1. ~ \E c \in new : f \in Atomic!FilesOf(c[1], c[2])
      BY <1>3, <2>2, FilesOfIs DEF ToSet
    <3>2. fs[Root(f)] = before[f]  BY <1>1, <2>2, CommittedRoot
    <3> HIDE DEF new
    <3> QED  BY <3>1, <3>2
  <2> QED  BY <2>1, <2>2
<1>9. files' = [f \in Path |->
                  IF \E c \in new : f \in Atomic!FilesOf(c[1], c[2]) /\ ~Atomic!Changed(c[1], f)
                  THEN CHOOSE c \in new : f \in Atomic!FilesOf(c[1], c[2])
                  ELSE files[f]]
  <2> HIDE DEF new, files
  <2> QED  BY <1>5, <1>8
<1>10. Atomic!ToSet(task) = ToSet(task)  BY ToSetIs
<1> QED  BY <1>3, <1>6, <1>9, <1>10 DEF Atomic!Install

\* The database write of a removal is the atomic transaction's Uninstall.
LEMMA SaveUninstall ==
  ASSUME Undisturbed, IInv, RInv, SaveDB, kind = "remove"
  PROVE  \E names \in Removals : Atomic!Uninstall(Atomic!ToSet(names))
<1>1. pc = "save" /\ db' = mem /\ pc' = "finalize" /\ fs' = fs
  BY DEF SaveDB, Fault, RInv, TaskInv, Undisturbed
<1>2. pc \in InLoop /\ Committing /\ ~Committing'  BY <1>1 DEF InLoop, Committing
<1>3. PICK r \in Removals : /\ task = [k \in DOMAIN r |-> <<r[k], 0>>]
                            /\ \A k \in DOMAIN r : db[r[k]] > 0
  BY <1>2 DEF RInv, TaskInv
<1>4. DOMAIN r = {1} /\ r[1] \in Pkg
  <2>1. Len(r) = 1 /\ r \in Seq(Pkg)  BY TransactionAssumption DEF Undisturbed
  <2> QED  BY <2>1
<1> DEFINE q == r[1]
           files == IF Committing THEN before ELSE [f \in Path |-> fs[Root(f)]]
<1>5. Atomic!ToSet(r) = {q}  BY <1>4, ToSetIs DEF ToSet
<1>6. DOMAIN task = {1} /\ task[1] = <<q, 0>>  BY <1>3, <1>4
<1>7. PlanFiles(1) = Files(q, db[q])  BY <1>6 DEF PlanFiles
<1>8. db' = [p \in Pkg |-> IF p \in {q} THEN 0 ELSE db[p]]
  <2>1. mem \in [Pkg -> Nat]  BY DEF IInv, Typed
  <2>2. ASSUME NEW p \in Pkg  PROVE mem[p] = IF p = q THEN 0 ELSE db[p]
    <3>1. mem[q] = 0  BY <1>1, <1>6, CommittedRoot
    <3>2. p # q => mem[p] = db[p]
      <4>1. p # q => \A k \in DOMAIN task : task[k][1] # p  BY <1>6
      <4> QED  BY <1>1, <4>1, CommittedRoot
    <3> QED  BY <3>1, <3>2
  <2> QED  BY <1>1, <2>1, <2>2
<1>9. files = before /\ files' = [f \in Path |-> fs[Root(f)]]
  BY <1>1, <1>2 DEF Root
<1>10. ASSUME NEW f \in Path
       PROVE  fs[Root(f)] = IF \E p \in {q} : f \in Atomic!FilesOf(p, db[p])
                            THEN None ELSE before[f]
  <2>1. Atomic!FilesOf(q, db[q]) = ToSet(PlanFiles(1))  BY <1>7, FilesOfIs
  <2>2. CASE f \in ToSet(PlanFiles(1))
    <3>1. fs[Root(f)] = Target(1, f)  BY <1>1, <1>6, <2>2, CommittedRoot
    <3> QED  BY <2>1, <2>2, <3>1 DEF Target
  <2>3. CASE f \notin ToSet(PlanFiles(1))
    <3>1. fs[Root(f)] = before[f]  BY <1>1, <1>6, <2>3, CommittedRoot
    <3> QED  BY <2>1, <2>3, <3>1
  <2> QED  BY <2>2, <2>3
<1>11. files' = [f \in Path |->
                   IF \E p \in {q} : f \in Atomic!FilesOf(p, db[p]) THEN None ELSE files[f]]
  <2> HIDE DEF files, q
  <2> QED  BY <1>9, <1>10
<1>12. \A p \in {q} : db[p] > 0  BY <1>3, <1>4
<1>13. Atomic!Uninstall({q})
  BY <1>8, <1>11, <1>12 DEF Atomic!Uninstall
<1> QED  BY <1>5, <1>13

\* What a step changes that is not the database write: nothing, when it stays
\* before the commit point or leaves the root alone after it.
LEMMA Stutters ==
  ASSUME IInv, db' = db,
         \/ Committing /\ Committing' /\ before' = before
         \/ ~Committing /\ ~Committing' /\ \A f \in Path : fs'[Root(f)] = fs[Root(f)]
         \/ ~Committing /\ Committing' /\ before' = [f \in Path |-> fs[Root(f)]]
         \/ Committing /\ ~Committing' /\ \A f \in Path : fs'[Root(f)] = before[f]
  PROVE  UNCHANGED Atomic!vars
<1>1. before = [f \in Path |-> before[f]]  BY DEF IInv, Typed
<1>2. (IF Committing THEN before ELSE [f \in Path |-> fs[Root(f)]])'
        = IF Committing THEN before ELSE [f \in Path |-> fs[Root(f)]]
  BY <1>1 DEF Root
<1> QED  BY <1>2 DEF Atomic!vars

\* What the call of a package may find when it fails with an empty list.
LEMMA NothingMoved ==
  ASSUME IInv, RInv, rb = <<>>, pc \in InLoop \cup {"rollback"}
  PROVE  \A f \in Path : fs[Root(f)] = before[f]
<1>1. \A f \in Path : Untouched(f)  BY DEF Untouched
<1>2. Uncommitted  BY DEF Uncommitted, InLoop, InPackage
<1>3. Exact  BY DEF Exact, RInv, TaskInv
<1> QED  BY <1>1, <1>2, <1>3 DEF IInv, UndoInv

\* The steps after the commit point, or after the rollback, leave the root.
LEMMA AfterCommit ==
  ASSUME Undisturbed, IInv, RInv, Finalize \/ Finish \/ Cleanup
  PROVE  UNCHANGED Atomic!vars
<1>1. ~Fault  BY DEF Fault, RInv, TaskInv, Undisturbed
<1>2. db' = db /\ ~Committing /\ ~Committing'
  BY DEF Finalize, Finish, Cleanup, Committing, Go
<1>3. ASSUME NEW f \in Path  PROVE fs'[Root(f)] = fs[Root(f)]
  <2>1. Root(f) \in Place /\ Root(f)[1] = "root"  BY PathsApart DEF Root
  <2>2. \A k \in DOMAIN rb : rb[k].backup # Root(f)
    BY <2>1, PathsApart, NoneIsNoPlace DEF IInv, ListInv
  <2>3. CASE Finalize
    <3>1. fs' = [l \in Place |-> IF l \in {rb[k].backup : k \in DOMAIN rb} THEN None ELSE fs[l]]
      BY <1>1, <2>3 DEF Finalize
    <3> QED  BY <2>1, <2>2, <3>1
  <2>4. CASE Finish  BY <2>4 DEF Finish
  <2>5. CASE Cleanup  BY <2>1, <2>5 DEF Cleanup
  <2> QED  BY <2>3, <2>4, <2>5
<1> QED  BY <1>2, <1>3, Stutters

\* The engine starts as the atomic transaction does.
LEMMA InitRefines == Init => Atomic!Init
<1> SUFFICES ASSUME Init PROVE Atomic!Init  OBVIOUS
<1>1. \A f \in Path : Root(f) \in Place  BY PathsApart
<1>2. ~Committing  BY DEF Init, Committing
<1> QED  BY <1>1, <1>2 DEF Init, Atomic!Init

\* Every step is one of the atomic transaction's, or a stutter.
LEMMA NextRefines ==
  Undisturbed /\ IInv /\ RInv /\ [Next]_vars => [Atomic!Next]_(Atomic!vars)
<1> SUFFICES ASSUME Undisturbed, IInv, RInv, [Next]_vars
             PROVE  [Atomic!Next]_(Atomic!vars)
  OBVIOUS
<1>0. ~Fault /\ ~Crash  BY DEF Fault, Crash, RInv, TaskInv, Undisturbed
<1>1. ASSUME NEW k, NEW t, NEW next, Begin(k, t, next), next \in {"prepare", "preremove"}
      PROVE  UNCHANGED Atomic!vars
  <2>1. ~Committing /\ Committing' /\ db' = db /\ before' = [f \in Path |-> fs[Root(f)]]
    BY <1>1 DEF Begin, Committing
  <2> QED  BY <2>1, Stutters
<1>2. ASSUME NEW f \in Path, Edit(f)  PROVE Atomic!Next
  <2>1. pc = "idle" /\ pc' = "idle" /\ db' = db
        /\ fs' = [fs EXCEPT ![Root(f)] = IF @ = User THEN None ELSE User]
    BY <1>2 DEF Edit
  <2>2. ~Committing /\ ~Committing'  BY <2>1 DEF Committing
  <2>3. \A g \in Path : Root(g) \in Place /\ (g # f => Root(g) # Root(f))
    BY PathsApart
  <2>4. PICK c \in {User, None} : fs' = [fs EXCEPT ![Root(f)] = c]  BY <2>1
  <2>5. [g \in Path |-> fs'[Root(g)]] = [[g \in Path |-> fs[Root(g)]] EXCEPT ![f] = c]
    BY <2>3, <2>4 DEF IInv, Typed
  <2>6. (IF Committing THEN before ELSE [g \in Path |-> fs[Root(g)]])'
          = [(IF Committing THEN before ELSE [g \in Path |-> fs[Root(g)]]) EXCEPT ![f] = c]
    BY <2>2, <2>5 DEF Root
  <2> QED  BY <2>1, <2>6 DEF Atomic!Next, Atomic!Edit
<1>3. ASSUME SaveDB  PROVE Atomic!Next
  <2>1. CASE kind # "remove"
    BY <1>3, <2>1, SaveInstall DEF Atomic!Next
  <2>2. CASE kind = "remove"
    BY <1>3, <2>2, SaveUninstall DEF Atomic!Next
  <2> QED  BY <2>1, <2>2
<1>4. ASSUME \/ Prepare \/ Validate \/ PreInstall \/ RefuseUnowned \/ KeepConfig \/ BackUp
             \/ PlaceFile \/ PostInstall \/ PreRemove \/ RemoveFile \/ PostRemove
             \/ Rollback \/ RollbackDone
      PROVE  UNCHANGED Atomic!vars
  <2>1. db' = db /\ before' = before /\ Committing /\ pc \in InLoop \cup {"rollback"}
    BY <1>4
    DEF Prepare, Validate, PreInstall, RefuseUnowned, KeepConfig, BackUp, PlaceFile,
        PostInstall, PreRemove, RemoveFile, PostRemove, Rollback, RollbackDone,
        Fail, Go, NextPackage, Committing, InLoop, InPackage
  <2>2. CASE Committing'  BY <2>1, <2>2, Stutters
  <2>3. CASE ~Committing'
    <3>1. fs' = fs /\ rb = <<>>
      <4>1. pc' \in {"idle", "finalize", "finish", "cleanup"}  BY <2>3 DEF Committing
      <4>2. CASE Prepare
        BY <4>1, <4>2 DEF Prepare, Fail, Go, IInv, PlaceInv
      <4>3. CASE Validate
        <5>1. Fail("finish") /\ pc = "validate"
          <6>1. FirstHook \notin {"idle", "finalize", "finish", "cleanup"}  BY DEF FirstHook
          <6> QED  BY <4>1, <4>3, <6>1 DEF Validate, Go
        <5> QED  BY <5>1 DEF Fail, IInv, PlaceInv
      <4>4. CASE PreRemove
        BY <4>1, <4>4 DEF PreRemove, Fail, Go, RInv, TaskInv
      <4>5. CASE RollbackDone
        BY <4>5 DEF RollbackDone
      <4>6. CASE PostInstall \/ PostRemove
        <5>1. FirstHook \notin {"idle", "finalize", "finish", "cleanup"}  BY DEF FirstHook
        <5> QED  BY <4>1, <4>6, <5>1 DEF PostInstall, PostRemove, NextPackage, Go
      <4>7. CASE PreInstall \/ RefuseUnowned \/ KeepConfig \/ BackUp \/ PlaceFile
                 \/ RemoveFile \/ Rollback
        BY <4>1, <4>7
        DEF PreInstall, RefuseUnowned, KeepConfig, BackUp, PlaceFile, RemoveFile, Rollback,
            Fail, Go
      <4> QED  BY <1>4, <4>2, <4>3, <4>4, <4>5, <4>6, <4>7
    <3>2. \A f \in Path : fs[Root(f)] = before[f]  BY <2>1, <3>1, NothingMoved
    <3>3. \A f \in Path : fs'[Root(f)] = before[f]  BY <3>1, <3>2
    <3> QED  BY <2>1, <2>3, <3>3, Stutters
  <2> QED  BY <2>2, <2>3
<1>5. ASSUME UNCHANGED vars  PROVE UNCHANGED Atomic!vars
  BY <1>5 DEF vars, disk, Atomic!vars, Committing, Root
<1>6. ~FileError  BY <1>0 DEF FileError
<1> QED
  BY <1>0, <1>1, <1>2, <1>3, <1>4, <1>5, <1>6, AfterCommit
  DEF Next, Work, Quiet, BeginInstall, BeginRemove

\* ImplementsAtomicFiles: whatever fails in the engine itself, the root and
\* the package table change together at the database write, to what the plan
\* says, or not at all.
THEOREM Refinement == Undisturbed /\ Spec => ImplementsAtomicFiles
<1> SUFFICES ASSUME Undisturbed PROVE Spec => ImplementsAtomicFiles  OBVIOUS
<1>1. Init => RInv  BY InitR
<1>2. IInv /\ RInv /\ [Next]_vars => RInv'  BY NextR
<1>3. IInv /\ RInv /\ [Next]_vars => [Atomic!Next]_(Atomic!vars)  BY NextRefines
<1>4. Init => Atomic!Init  BY InitRefines
<1> QED
  BY <1>1, <1>2, <1>3, <1>4, Invariance, PTL
  DEF Spec, ImplementsAtomicFiles, Atomic!Spec
=============================================================================
