---------------------------- MODULE StoreProofs ----------------------------
(***************************************************************************)
(* Theorems about Store for every number of processes, packages and        *)
(* faults and every history cap; and, below the cap, that its protocol     *)
(* implements AtomicStore: every call on database.json takes effect        *)
(* atomically, no record or snapshot is lost, and none runs again.         *)
(***************************************************************************)
EXTENDS Store, FiniteSetTheorems, TLAPS

-----------------------------------------------------------------------------
(* The history list.                                                       *)

\* Before it is trimmed a history may hold positions beyond the cap.
RawHistory == [Id -> [st : Status, at : Nat]]
History == [Id -> Entry]

\* There are finitely many transaction identifiers.
LEMMA IdFinite == IsFiniteSet(Id)
<1>1. IsFiniteSet({"fg", "bg"})
  <2>1. IsFiniteSet({"fg"} \cup {"bg"})  BY FS_Singleton, FS_AddElement
  <2>2. {"fg"} \cup {"bg"} = {"fg", "bg"}  OBVIOUS
  <2> QED  BY <2>1, <2>2
<1> QED  BY <1>1, FS_Product, StoreAssumption DEF Id

\* A history lists finitely many records.
LEMMA PresentFinite ==
  ASSUME NEW h \in RawHistory
  PROVE  /\ Present(h) \in SUBSET Id
         /\ IsFiniteSet(Present(h))
         /\ Cardinality(Present(h)) \in Nat
         /\ Cardinality(Present(h)) <= Cardinality(Id)
         /\ Cardinality(Id) \in Nat
<1>1. Present(h) \in SUBSET Id  BY DEF Present, RawHistory
<1> QED  BY <1>1, IdFinite, FS_Subset, FS_CardinalityType

\* A present record has a rank between one and the length of the list.
LEMMA RankBounds ==
  ASSUME NEW h \in RawHistory, NEW i \in Present(h)
  PROVE  Rank(h, i) \in 1 .. Cardinality(Present(h))
<1> DEFINE below == {j \in Present(h) : h[j].at <= h[i].at}
<1>1. below \in SUBSET Present(h)  OBVIOUS
<1>2. i \in below  BY DEF Present, RawHistory
<1>3. /\ IsFiniteSet(below)
      /\ Cardinality(below) \in Nat
      /\ Cardinality(below) <= Cardinality(Present(h))
  BY <1>1, PresentFinite, FS_Subset, FS_CardinalityType
<1>4. Cardinality(below) # 0  BY <1>2, <1>3, FS_EmptySet
<1> HIDE DEF below
<1>5. Rank(h, i) = Cardinality(below)  BY DEF Rank, below
<1> QED  BY <1>3, <1>4, <1>5, PresentFinite

\* Trimming yields a history within the cap.
LEMMA TrimType ==
  ASSUME NEW h \in RawHistory
  PROVE  Trim(h) \in History
<1> DEFINE n == Cardinality(Present(h))
<1>1. n \in Nat  BY PresentFinite
<1>2. MaxHistory \in Nat \ {0}  BY StoreAssumption
<1>3. /\ Excess(h) \in Nat
      /\ n - Excess(h) <= MaxHistory
  BY <1>1, <1>2 DEF Excess
<1>4. ASSUME NEW i \in Id, i \in Present(h), Rank(h, i) > Excess(h)
      PROVE  [st |-> h[i].st, at |-> Rank(h, i) - Excess(h)] \in Entry
  <2>1. Rank(h, i) \in 1 .. n  BY <1>4, RankBounds
  <2>2. Rank(h, i) - Excess(h) \in 0 .. MaxHistory
    <3> HIDE DEF n
    <3> QED  BY <1>1, <1>2, <1>3, <1>4, <2>1
  <2>3. h[i].st \in Status  BY DEF RawHistory
  <2> QED  BY <2>2, <2>3 DEF Entry
<1>5. Absent \in Entry  BY <1>2 DEF Absent, Entry, Status
<1> QED  BY <1>4, <1>5 DEF Trim, History

\* Starting a record yields a history within the cap.
LEMMA AddedType ==
  ASSUME NEW h \in History, NEW i \in Id
  PROVE  Added(h, i) \in History
<1>1. [h EXCEPT ![i] = [st |-> "running", at |-> MaxHistory + 1]] \in RawHistory
  BY StoreAssumption DEF History, RawHistory, Entry, Status
<1> QED  BY <1>1, TrimType DEF Added

\* Completing a record yields a history within the cap.
LEMMA UpdatedType ==
  ASSUME NEW h \in History, NEW i \in Id, NEW s \in Status
  PROVE  Updated(h, i, s) \in History
BY DEF Updated, History, Entry

\* Merging two histories yields a history within the cap.
LEMMA MergedType ==
  ASSUME NEW g \in History, NEW h \in History
  PROVE  Merged(g, h) \in History
<1> DEFINE raw == [i \in Id |->
            IF i \in Present(g)
            THEN IF i \in Present(h)
                 THEN [st |-> Newer(g[i].st, h[i].st), at |-> g[i].at]
                 ELSE g[i]
            ELSE IF i \in Present(h)
                 THEN [st |-> h[i].st, at |-> MaxHistory + h[i].at]
                 ELSE Absent]
<1>1. raw \in RawHistory
  BY StoreAssumption DEF History, RawHistory, Entry, Status, Newer, Absent
<1>2. Merged(g, h) = Trim(raw)  BY DEF Merged
<1> QED  BY <1>1, <1>2, TrimType

-----------------------------------------------------------------------------
(* The inductive invariant.                                                *)

\* The copy a transaction loaded exists from its load to its save.
CopyLoaded == {"snapshot", "start", "work", "save", "resave"}

\* The locks do what they are for: the transaction lock covers a transaction
\* from load to unlock, the database lock covers each read-modify-write, and
\* the copy made under it is still what the file holds.
LockInv ==
    \A p \in Proc :
        /\ pc[p] \in InTransaction <=> stateLock = p
        /\ latest[p] # NoDB => /\ dbLock = p
                               /\ pc[p] \in DBCalls
                               /\ latest[p] = file

\* The package table of the copy a transaction will save is the table on
\* disk, but for the record of its own package.
CopyInv ==
    \A p \in Proc :
        /\ pc[p] \in CopyLoaded => db[p] \in Database
        /\ pc[p] \in CopyLoaded \ {"save"} => db[p].pkgs = file.pkgs
        /\ pc[p] = "save" =>
             db[p].pkgs = [file.pkgs EXCEPT ![target[p]] = p]

IInv == TypeOK /\ LockInv /\ CopyInv /\ SuccessIsOnDisk

\* What a call writes back is a database.
LEMMA WrittenType ==
  ASSUME IInv, NEW p \in Proc, pc[p] \in DBCalls, latest[p] # NoDB
  PROVE  Written(p) \in Database
<1>1. /\ latest[p] \in Database
      /\ latest[p].hist \in History
      /\ latest[p].snaps \in SUBSET Proc
      /\ latest[p].pkgs \in [Pkg -> Proc \cup {NoProc}]
      /\ latest[p] = [pkgs |-> latest[p].pkgs, hist |-> latest[p].hist,
                      snaps |-> latest[p].snaps]
  BY DEF IInv, TypeOK, Database, History
<1>2. Fg(p) \in Id /\ Bg(p) \in Id  BY DEF Fg, Bg, Id
<1>3. outcome[p] \in Status  BY DEF IInv, TypeOK, Status
<1>4. CASE pc[p] = "addBg"
  <2>1. Added(latest[p].hist, Bg(p)) \in History  BY <1>1, <1>2, AddedType
  <2> QED  BY <1>1, <1>4, <2>1 DEF Written, Database, History
<1>5. CASE pc[p] = "start"
  <2>1. Added(latest[p].hist, Fg(p)) \in History  BY <1>1, <1>2, AddedType
  <2> QED  BY <1>1, <1>5, <2>1 DEF Written, Database, History
<1>6. CASE pc[p] = "finish"
  <2>1. Updated(latest[p].hist, Fg(p), outcome[p]) \in History
    BY <1>1, <1>2, <1>3, UpdatedType
  <2> QED  BY <1>1, <1>6, <2>1 DEF Written, Database, History
<1>7. CASE pc[p] = "finishBg"
  <2>1. Updated(latest[p].hist, Bg(p), outcome[p]) \in History
    BY <1>1, <1>2, <1>3, UpdatedType
  <2> QED  BY <1>1, <1>7, <2>1 DEF Written, Database, History
<1>8. CASE pc[p] \in {"snapCmd", "snapshot"}
  BY <1>1, <1>8 DEF Written, Database, History
<1>9. CASE pc[p] \in {"save", "resave"}
  <2>1. db[p] \in Database  BY <1>9 DEF IInv, CopyInv, CopyLoaded
  <2>2. Merged(latest[p].hist, db[p].hist) \in History
    BY <1>1, <2>1, MergedType DEF Database, History
  <2> QED  BY <1>1, <1>9, <2>1, <2>2 DEF Written, Database, History
<1> QED  BY <1>4, <1>5, <1>6, <1>7, <1>8, <1>9 DEF DBCalls

\* What a call does to the package table: nothing, except that a save sets
\* the record of the package its transaction changed.
LEMMA WrittenPackages ==
  ASSUME IInv, NEW p \in Proc, pc[p] \in DBCalls, latest[p] # NoDB
  PROVE  Written(p).pkgs = IF pc[p] = "save"
                           THEN [file.pkgs EXCEPT ![target[p]] = p]
                           ELSE file.pkgs
<1>1. latest[p] \in Database /\ latest[p] = file
  BY DEF IInv, TypeOK, LockInv
<1>2. CASE pc[p] \in {"save", "resave"}
  BY <1>1, <1>2 DEF Written, IInv, CopyInv, CopyLoaded
<1>3. CASE pc[p] \notin {"save", "resave"}
  BY <1>1, <1>3 DEF Written, DBCalls, Database
<1> QED  BY <1>2, <1>3

\* The invariant holds initially.
LEMMA InitInv == Init => IInv
<1> SUFFICES ASSUME Init PROVE IInv  OBVIOUS
<1> USE StoreAssumption
<1>1. EmptyDB \in Database
  BY DEF EmptyDB, Database, Absent, Entry, Status
<1>2. TypeOK
  BY <1>1 DEF Init, TypeOK, Stages, DBCalls, CommandKinds
<1>3. LockInv /\ CopyInv /\ SuccessIsOnDisk
  BY DEF Init, LockInv, CopyInv, SuccessIsOnDisk, InTransaction, CopyLoaded
<1> QED  BY <1>2, <1>3 DEF IInv

\* Every step of the system preserves the invariant.
LEMMA NextInv == IInv /\ [Next]_vars => IInv'
<1> SUFFICES ASSUME IInv, [Next]_vars PROVE IInv'  OBVIOUS
<1> USE StoreAssumption
<1>a. TypeOK /\ LockInv /\ CopyInv /\ SuccessIsOnDisk  BY DEF IInv
<1>1. ASSUME NEW p \in Proc, Begin(p) PROVE IInv'
  <2>1. TypeOK'
    BY <1>1, <1>a DEF Begin, TypeOK, Stages, DBCalls, CommandKinds
  <2>2. (LockInv /\ CopyInv /\ SuccessIsOnDisk)'
    BY <1>1, <1>a DEF Begin, TypeOK, LockInv, CopyInv, SuccessIsOnDisk,
       InTransaction, CopyLoaded, DBCalls, CommandKinds
  <2> QED  BY <2>1, <2>2 DEF IInv
<1>2. ASSUME NEW p \in Proc, OpenDB(p) PROVE IInv'
  <2>1. TypeOK'  BY <1>2, <1>a DEF OpenDB, TypeOK
  <2>2. (LockInv /\ CopyInv /\ SuccessIsOnDisk)'
    BY <1>2, <1>a DEF OpenDB, TypeOK, LockInv, CopyInv, SuccessIsOnDisk
  <2> QED  BY <2>1, <2>2 DEF IInv
<1>3. ASSUME NEW p \in Proc, CloseDB(p) PROVE IInv'
  <2>1. /\ pc[p] \in DBCalls
        /\ dbLock = p
        /\ latest[p] # NoDB
    BY <1>3, <1>a DEF CloseDB, LockInv
  <2>2. Written(p) \in Database  BY <2>1, WrittenType
  <2>3. Written(p).pkgs = IF pc[p] = "save"
                          THEN [file.pkgs EXCEPT ![target[p]] = p]
                          ELSE file.pkgs
    BY <2>1, WrittenPackages
  <2>4. /\ file' \in {file, Written(p)}
        /\ faults' \in 0 .. MaxFaults
    <3>1. file' \in {file, Written(p)}
      BY <1>3 DEF CloseDB
    <3>2. \/ faults' = faults
          \/ faults < MaxFaults /\ faults' = faults + 1
      BY <1>3, Zenon DEF CloseDB
    <3> QED  BY <3>1, <3>2, <1>a DEF TypeOK
  <2>5. \/ Return(p, TRUE) /\ file' = Written(p)
        \/ Return(p, FALSE)
    BY <1>3 DEF CloseDB
  <2>6. \E ok \in BOOLEAN :
          /\ pc' = [pc EXCEPT ![p] = After(p, ok)]
          /\ outcome' = [outcome EXCEPT ![p] = IF ok THEN @ ELSE "failed"]
          /\ ok => file' = Written(p)
    <3>1. CASE Return(p, TRUE) /\ file' = Written(p)
      <4> WITNESS TRUE \in BOOLEAN
      <4> QED  BY <3>1 DEF Return
    <3>2. CASE Return(p, FALSE)
      <4> WITNESS FALSE \in BOOLEAN
      <4> QED  BY <3>2 DEF Return
    <3> QED  BY <2>5, <3>1, <3>2
  <2> HIDE DEF Written
  <2>c. PICK ok \in BOOLEAN :
          /\ pc' = [pc EXCEPT ![p] = After(p, ok)]
          /\ outcome' = [outcome EXCEPT ![p] = IF ok THEN @ ELSE "failed"]
          /\ ok => file' = Written(p)
    BY <2>6
  <2>7. /\ After(p, ok) \in {"spawn", "done", "start", "unlock", "work", "finish"}
        /\ After(p, ok) \in InTransaction <=> pc[p] \in InTransaction
        /\ After(p, ok) \in CopyLoaded => pc[p] \in CopyLoaded \ {"save"}
        /\ After(p, ok) = "finish" <=> pc[p] = "save"
    BY <2>1 DEF After, DBCalls, InTransaction, CopyLoaded
  <2> HIDE DEF After
  <2>8. /\ file' \in Database
        /\ pc[p] # "save" => file'.pkgs = file.pkgs
        /\ \A k \in Pkg : k # target[p] => file'.pkgs[k] = file.pkgs[k]
    BY <2>2, <2>3, <2>4, <1>a DEF TypeOK, Database
  <2>9. /\ UNCHANGED <<stateLock, cmd, target, db>>
        /\ dbLock' = NoProc
        /\ latest' = [latest EXCEPT ![p] = NoDB]
    BY <1>3 DEF CloseDB
  <2>10. TypeOK'
    BY <2>4, <2>c, <2>7, <2>8, <2>9, <1>a DEF TypeOK, Stages, DBCalls
  <2>11. LockInv'
    <3> SUFFICES ASSUME NEW q \in Proc
                 PROVE  /\ pc'[q] \in InTransaction <=> stateLock' = q
                        /\ latest'[q] # NoDB => /\ dbLock' = q
                                                /\ pc'[q] \in DBCalls
                                                /\ latest'[q] = file'
      BY DEF LockInv
    <3>1. CASE q = p  BY <3>1, <2>c, <2>7, <2>9, <1>a DEF TypeOK, LockInv
    <3>2. CASE q # p  BY <3>2, <2>1, <2>c, <2>9, <1>a DEF TypeOK, LockInv
    <3> QED  BY <3>1, <3>2
  <2>12. \A q \in Proc \ {p} : pc[p] = "save" => pc[q] \notin InTransaction
    BY <1>a DEF LockInv, InTransaction
  <2>13. CopyInv'
    <3> SUFFICES ASSUME NEW q \in Proc
                 PROVE  /\ pc'[q] \in CopyLoaded => db'[q] \in Database
                        /\ pc'[q] \in CopyLoaded \ {"save"} =>
                             db'[q].pkgs = file'.pkgs
                        /\ pc'[q] = "save" =>
                             db'[q].pkgs = [file'.pkgs EXCEPT ![target'[q]] = q]
      BY DEF CopyInv
    <3>1. CASE q = p
      BY <3>1, <2>c, <2>7, <2>8, <2>9, <1>a DEF TypeOK, CopyInv
    <3>2. CASE q # p
      BY <3>2, <2>c, <2>8, <2>9, <2>12, <1>a
      DEF TypeOK, CopyInv, CopyLoaded, InTransaction
    <3> QED  BY <3>1, <3>2
  <2>14. SuccessIsOnDisk'
    <3> SUFFICES ASSUME NEW q \in Proc, pc'[q] = "finish", outcome'[q] = "success"
                 PROVE  file'.pkgs[target'[q]] = q
      BY DEF SuccessIsOnDisk
    <3>1. CASE q = p
      <4>1. ok /\ pc[p] = "save"
        BY <3>1, <2>c, <2>7, <1>a DEF TypeOK
      <4>2. file'.pkgs = [file.pkgs EXCEPT ![target[p]] = p]
        BY <4>1, <2>3, <2>c
      <4> QED  BY <3>1, <4>2, <2>9, <1>a DEF TypeOK, Database
    <3>2. CASE q # p
      <4>1. pc[q] = "finish" /\ outcome[q] = "success"
        BY <3>2, <2>c, <1>a DEF TypeOK
      <4>2. pc[p] # "save"  BY <4>1, <3>2, <2>12 DEF InTransaction
      <4> QED  BY <4>1, <4>2, <2>8, <2>9, <1>a DEF SuccessIsOnDisk
    <3> QED  BY <3>1, <3>2
  <2> QED  BY <2>10, <2>11, <2>13, <2>14 DEF IInv
<1>4. ASSUME NEW p \in Proc, Spawn(p) PROVE IInv'
  <2>1. TypeOK'  BY <1>4, <1>a DEF Spawn, TypeOK, Stages, DBCalls
  <2>2. (LockInv /\ CopyInv /\ SuccessIsOnDisk)'
    BY <1>4, <1>a DEF Spawn, TypeOK, LockInv, CopyInv, SuccessIsOnDisk,
       InTransaction, CopyLoaded, DBCalls
  <2> QED  BY <2>1, <2>2 DEF IInv
<1>b. ASSUME NEW p \in Proc, Enter(p) PROVE IInv'
  <2>1. Leave(p) \in {"get", "done"}  BY DEF Leave
  <2> HIDE DEF Leave
  <2>2. TypeOK'  BY <1>b, <2>1, <1>a DEF Enter, TypeOK, Stages, DBCalls
  <2>3. (LockInv /\ CopyInv /\ SuccessIsOnDisk)'
    BY <1>b, <2>1, <1>a DEF Enter, TypeOK, LockInv, CopyInv, SuccessIsOnDisk,
       InTransaction, CopyLoaded, DBCalls
  <2> QED  BY <2>2, <2>3 DEF IInv
<1>5. ASSUME NEW p \in Proc, Lock(p) PROVE IInv'
  <2>1. Leave(p) \in {"get", "done"}  BY DEF Leave
  <2> HIDE DEF Leave
  <2>2. TypeOK'  BY <1>5, <2>1, <1>a DEF Lock, LockFree, TypeOK, Stages, DBCalls
  <2>3. (LockInv /\ CopyInv /\ SuccessIsOnDisk)'
    BY <1>5, <2>1, <1>a DEF Lock, LockFree, TypeOK, LockInv, CopyInv, SuccessIsOnDisk,
       InTransaction, CopyLoaded, DBCalls
  <2> QED  BY <2>2, <2>3 DEF IInv
<1>6. ASSUME NEW p \in Proc, Plan(p) PROVE IInv'
  <2>1. TypeOK'  BY <1>6, <1>a DEF Plan, TypeOK, Stages, DBCalls
  <2>2. (LockInv /\ CopyInv /\ SuccessIsOnDisk)'
    BY <1>6, <1>a DEF Plan, TypeOK, LockInv, CopyInv, SuccessIsOnDisk,
       InTransaction, CopyLoaded, DBCalls
  <2> QED  BY <2>1, <2>2 DEF IInv
<1>7. ASSUME NEW p \in Proc, Work(p) PROVE IInv'
  <2>1. db[p] \in Database /\ db[p].pkgs = file.pkgs
    BY <1>7, <1>a DEF Work, CopyInv, CopyLoaded
  <2>2. /\ [db[p] EXCEPT !.pkgs[target[p]] = p] \in Database
        /\ [db[p] EXCEPT !.pkgs[target[p]] = p].pkgs =
             [file.pkgs EXCEPT ![target[p]] = p]
    BY <2>1, <1>a DEF Database, TypeOK
  <2>3. TypeOK'  BY <1>7, <2>2, <1>a DEF Work, TypeOK, Stages, DBCalls
  <2>4. (LockInv /\ SuccessIsOnDisk)'
    BY <1>7, <1>a DEF Work, TypeOK, LockInv, SuccessIsOnDisk,
       InTransaction, DBCalls
  <2>5. CopyInv'
    BY <1>7, <2>2, <1>a DEF Work, TypeOK, CopyInv, CopyLoaded
  <2> QED  BY <2>3, <2>4, <2>5 DEF IInv
<1>8. ASSUME NEW p \in Proc, Unlock(p) PROVE IInv'
  <2>1. Leave(p) \in {"get", "done"}  BY DEF Leave
  <2> HIDE DEF Leave
  <2>2. TypeOK'  BY <1>8, <2>1, <1>a DEF Unlock, TypeOK, Stages, DBCalls
  <2>3. (LockInv /\ CopyInv /\ SuccessIsOnDisk)'
    BY <1>8, <2>1, <1>a DEF Unlock, TypeOK, LockInv, CopyInv, SuccessIsOnDisk,
       InTransaction, CopyLoaded, DBCalls
  <2> QED  BY <2>2, <2>3 DEF IInv
<1>9. ASSUME NEW p \in Proc, GetRecord(p) PROVE IInv'
  <2>1. TypeOK'  BY <1>9, <1>a DEF GetRecord, TypeOK, Stages, DBCalls
  <2>2. (LockInv /\ CopyInv /\ SuccessIsOnDisk)'
    BY <1>9, <1>a DEF GetRecord, TypeOK, LockInv, CopyInv, SuccessIsOnDisk,
       InTransaction, CopyLoaded, DBCalls
  <2> QED  BY <2>1, <2>2 DEF IInv
<1>10. ASSUME NEW p \in Proc, Crash(p) PROVE IInv'
  <2>1. TypeOK'  BY <1>10, <1>a DEF Crash, TypeOK, Stages, DBCalls
  <2>2. (LockInv /\ CopyInv /\ SuccessIsOnDisk)'
    BY <1>10, <1>a DEF Crash, TypeOK, LockInv, CopyInv, SuccessIsOnDisk,
       InTransaction, CopyLoaded, DBCalls
  <2> QED  BY <2>1, <2>2 DEF IInv
<1>11. ASSUME UNCHANGED vars PROVE IInv'
  BY <1>11, <1>a
  DEF vars, IInv, TypeOK, LockInv, CopyInv, SuccessIsOnDisk
<1> QED
  BY <1>1, <1>2, <1>3, <1>4, <1>b, <1>5, <1>6, <1>7, <1>8, <1>9, <1>10, <1>11
  DEF Next, Step, Quiet

\* The invariant holds in every reachable state.
THEOREM Invariance == Spec => []IInv
BY InitInv, NextInv, PTL DEF Spec

-----------------------------------------------------------------------------
(* The results.                                                            *)

\* TypeOK: every variable keeps its type, and no history position ever
\* exceeds the cap, for every cap and every number of processes.
THEOREM TypeCorrect == Spec => []TypeOK
BY Invariance, PTL DEF IInv

\* OneTransaction: withLock lets one process at a time be between the load
\* and the unlock of a package transaction, crashes included.
THEOREM TransactionsExclude == Spec => []OneTransaction
<1>1. IInv => OneTransaction
  BY DEF IInv, LockInv, OneTransaction
<1> QED  BY <1>1, Invariance, PTL

\* SuccessIsOnDisk: when finishSuccess is about to record a transaction, the
\* package it wrote is on disk and no other command has overwritten it.
THEOREM SuccessIsSaved == Spec => []SuccessIsOnDisk
BY Invariance, PTL DEF IInv

\* OnlyOwnPackage: SaveDBFor writes a package table loaded much earlier, and
\* still a step changes no package record but the one its transaction set.
THEOREM PackagesKept == Spec => OnlyOwnPackage
<1> DEFINE Own == \A k \in Pkg : file'.pkgs[k] # file.pkgs[k] =>
                    \E p \in Proc : /\ pc[p] = "save"
                                    /\ target[p] = k
                                    /\ file'.pkgs[k] = p
<1>1. ASSUME IInv, [Next]_vars PROVE [Own]_vars
  <2>1. ASSUME NEW p \in Proc, CloseDB(p) PROVE Own
    <3>1. pc[p] \in DBCalls /\ latest[p] # NoDB
      BY <2>1, <1>1 DEF CloseDB, IInv, LockInv
    <3>2. Written(p).pkgs = IF pc[p] = "save"
                            THEN [file.pkgs EXCEPT ![target[p]] = p]
                            ELSE file.pkgs
      BY <3>1, <1>1, WrittenPackages
    <3>3. file' \in {file, Written(p)}  BY <2>1 DEF CloseDB
    <3>4. file.pkgs \in [Pkg -> Proc \cup {NoProc}] /\ target[p] \in Pkg
      BY <1>1 DEF IInv, TypeOK, Database
    <3> HIDE DEF Written
    <3> QED  BY <3>2, <3>3, <3>4
  <2>2. ASSUME NEW p \in Proc, ~CloseDB(p), Begin(p) \/ Step(p) \/ Crash(p)
        PROVE  UNCHANGED file
    BY <2>2 DEF Begin, Step, OpenDB, Spawn, Enter, Lock, Plan, Work, Unlock,
       GetRecord, Crash
  <2>3. UNCHANGED file => Own  OBVIOUS
  <2>4. UNCHANGED vars => UNCHANGED file  BY DEF vars
  <2> QED  BY <1>1, <2>1, <2>2, <2>3, <2>4 DEF Next, Quiet
<1> QED  BY <1>1, Invariance, PTL DEF Spec, OnlyOwnPackage

-----------------------------------------------------------------------------
(* The refinement of AtomicStore.                                          *)

\* The history list has room for every record the processes can write.
BelowCap == Cardinality(Id) <= MaxHistory

\* A record has a place in the list exactly when it has a status.
WellFormed(h) == \A i \in Id : h[i].st = "absent" <=> h[i].at = 0

\* History h is an earlier state of history g.
Earlier(h, g) ==
    \A i \in Id : h[i].st # "absent" =>
        /\ g[i].st # "absent"
        /\ h[i].st # "running" => g[i].st = h[i].st

BeforeStart == {"idle", "addBg", "spawn", "enter", "lock", "plan", "snapshot", "start"}
Started == {"work", "save", "finish"}
WorkerStages == Stages \ {"idle", "addBg", "snapCmd", "done", "dead"}

\* The copy a process holds is an earlier state of the file, and the process
\* is where its own two records say it is.
ProcInv(p) ==
    /\ pc[p] \in CopyLoaded => /\ WellFormed(db[p].hist)
                               /\ Earlier(db[p].hist, file.hist)
                               /\ db[p].snaps \subseteq file.snaps
    /\ pc[p] \in {"addBg", "spawn", "get", "finishBg"} => cmd[p] = "background"
    /\ pc[p] \in {"idle", "addBg"} => file.hist[Bg(p)].st = "absent"
    /\ pc[p] \in WorkerStages /\ cmd[p] = "background" =>
         file.hist[Bg(p)].st = "running"
    /\ pc[p] \in BeforeStart => file.hist[Fg(p)].st = "absent"
    /\ pc[p] \in Started => file.hist[Fg(p)].st = "running"

HistoryInv == WellFormed(file.hist) /\ \A p \in Proc : ProcInv(p)

-----------------------------------------------------------------------------
\* A list that fits under the cap is trimmed without losing a record.
LEMMA TrimKeeps ==
  ASSUME BelowCap, NEW h \in RawHistory, WellFormed(h)
  PROVE  /\ WellFormed(Trim(h))
         /\ \A i \in Id : Trim(h)[i].st = h[i].st
<1>1. Cardinality(Present(h)) \in Nat /\ Cardinality(Present(h)) <= MaxHistory
  BY PresentFinite, StoreAssumption DEF BelowCap
<1>2. Excess(h) = 0  BY <1>1, StoreAssumption DEF Excess
<1>3. ASSUME NEW i \in Id
      PROVE  /\ Trim(h)[i].st = h[i].st
             /\ Trim(h)[i].st = "absent" <=> Trim(h)[i].at = 0
  <2>1. CASE i \in Present(h)
    <3>1. Rank(h, i) \in Nat /\ Rank(h, i) > 0  BY <2>1, <1>1, RankBounds
    <3>2. Trim(h)[i] = [st |-> h[i].st, at |-> Rank(h, i)]
      BY <2>1, <3>1, <1>2 DEF Trim
    <3>3. h[i].st # "absent"
      BY <2>1 DEF Present, WellFormed, RawHistory
    <3> QED  BY <3>1, <3>2, <3>3
  <2>2. CASE i \notin Present(h)
    <3>1. Trim(h)[i] = Absent  BY <2>2 DEF Trim
    <3>2. h[i].st = "absent"
      BY <2>2 DEF Present, WellFormed, RawHistory
    <3> QED  BY <3>1, <3>2 DEF Absent
  <2> QED  BY <2>1, <2>2
<1> QED  BY <1>3 DEF WellFormed

\* Starting a record changes no other one.
LEMMA AddedKeeps ==
  ASSUME BelowCap, NEW h \in History, WellFormed(h), NEW i \in Id
  PROVE  /\ WellFormed(Added(h, i))
         /\ \A j \in Id : Added(h, i)[j].st = IF j = i THEN "running" ELSE h[j].st
<1> DEFINE raw == [h EXCEPT ![i] = [st |-> "running", at |-> MaxHistory + 1]]
<1>1. raw \in RawHistory
  BY StoreAssumption DEF History, RawHistory, Entry, Status
<1>2. WellFormed(raw)
  BY StoreAssumption DEF History, Entry, WellFormed
<1>3. \A j \in Id : raw[j].st = IF j = i THEN "running" ELSE h[j].st
  BY DEF History, Entry
<1>4. Added(h, i) = Trim(raw)  BY DEF Added
<1> HIDE DEF raw
<1> QED  BY <1>1, <1>2, <1>3, <1>4, TrimKeeps

\* Merging an earlier copy into a history changes no record.
LEMMA MergedKeeps ==
  ASSUME BelowCap, NEW g \in History, WellFormed(g),
         NEW h \in History, WellFormed(h), Earlier(h, g)
  PROVE  /\ WellFormed(Merged(g, h))
         /\ \A i \in Id : Merged(g, h)[i].st = g[i].st
<1> DEFINE raw == [i \in Id |->
            IF i \in Present(g)
            THEN IF i \in Present(h)
                 THEN [st |-> Newer(g[i].st, h[i].st), at |-> g[i].at]
                 ELSE g[i]
            ELSE IF i \in Present(h)
                 THEN [st |-> h[i].st, at |-> MaxHistory + h[i].at]
                 ELSE Absent]
<1>1. raw \in RawHistory
  BY StoreAssumption DEF History, RawHistory, Entry, Status, Newer, Absent
<1>2. ASSUME NEW i \in Id
      PROVE  raw[i].st = g[i].st /\ (raw[i].at = 0 <=> g[i].at = 0)
  <2>0. /\ i \in Present(g) <=> g[i].st # "absent"
        /\ i \in Present(h) <=> h[i].st # "absent"
    BY DEF Present, History, Entry, WellFormed
  <2>1. CASE i \in Present(g) /\ i \in Present(h)
    <3>1. Newer(g[i].st, h[i].st) = g[i].st
      BY <2>0, <2>1 DEF Newer, Earlier, History, Entry, Status
    <3> QED  BY <2>1, <3>1
  <2>2. CASE i \in Present(g) /\ i \notin Present(h)  BY <2>2
  <2>3. CASE i \notin Present(g)
    <3>1. i \notin Present(h)  BY <2>0, <2>3 DEF Earlier
    <3>2. g[i].st = "absent" /\ g[i].at = 0
      BY <2>0, <2>3 DEF WellFormed
    <3> QED  BY <2>3, <3>1, <3>2 DEF Absent
  <2> QED  BY <2>1, <2>2, <2>3
<1>3. WellFormed(raw)  BY <1>2 DEF WellFormed
<1>4. Merged(g, h) = Trim(raw)  BY DEF Merged
<1> HIDE DEF raw
<1> QED  BY <1>1, <1>2, <1>3, <1>4, TrimKeeps

-----------------------------------------------------------------------------
\* The status of record i once process p's call is done.
NewStatus(p, i) ==
    IF (pc[p] = "addBg" /\ i = Bg(p)) \/ (pc[p] = "start" /\ i = Fg(p))
    THEN "running"
    ELSE IF (pc[p] = "finish" /\ i = Fg(p)) \/ (pc[p] = "finishBg" /\ i = Bg(p))
    THEN outcome[p]
    ELSE file.hist[i].st

\* What a call does to the history and the snapshots.
LEMMA WrittenHistory ==
  ASSUME IInv, HistoryInv, BelowCap, NEW p \in Proc,
         pc[p] \in DBCalls, latest[p] # NoDB, ~RecordMissing(p)
  PROVE  /\ WellFormed(Written(p).hist)
         /\ \A i \in Id : Written(p).hist[i].st = NewStatus(p, i)
         /\ Written(p).snaps = IF pc[p] \in {"snapCmd", "snapshot"}
                               THEN file.snaps \cup {p} ELSE file.snaps
<1>1. latest[p] \in Database /\ latest[p] = file
  BY DEF IInv, TypeOK, LockInv
<1>2. file.hist \in History /\ WellFormed(file.hist)
  BY <1>1 DEF HistoryInv, Database, History
<1>3. Fg(p) \in Id /\ Bg(p) \in Id /\ Fg(p) # Bg(p)  BY DEF Fg, Bg, Id
<1>4. outcome[p] \in {"success", "failed"}  BY DEF IInv, TypeOK
<1>5. CASE pc[p] = "addBg"
  <2>1. /\ Written(p).hist = Added(file.hist, Bg(p))
        /\ Written(p).snaps = file.snaps
    BY <1>1, <1>5 DEF Written, Database
  <2> QED  BY <1>2, <1>3, <1>5, <2>1, AddedKeeps DEF NewStatus
<1>6. CASE pc[p] = "start"
  <2>1. /\ Written(p).hist = Added(file.hist, Fg(p))
        /\ Written(p).snaps = file.snaps
    BY <1>1, <1>6 DEF Written, Database
  <2> QED  BY <1>2, <1>3, <1>6, <2>1, AddedKeeps DEF NewStatus
<1>7. CASE pc[p] = "finish"
  <2>1. /\ Written(p).hist = Updated(file.hist, Fg(p), outcome[p])
        /\ Written(p).snaps = file.snaps
    BY <1>1, <1>7 DEF Written, Database
  <2>2. file.hist[Fg(p)].at # 0
    BY <1>1, <1>2, <1>3, <1>7 DEF RecordMissing, Present, History, Entry
  <2> QED
    BY <1>2, <1>3, <1>4, <1>7, <2>1, <2>2
    DEF NewStatus, Updated, WellFormed, History, Entry
<1>8. CASE pc[p] = "finishBg"
  <2>1. /\ Written(p).hist = Updated(file.hist, Bg(p), outcome[p])
        /\ Written(p).snaps = file.snaps
    BY <1>1, <1>8 DEF Written, Database
  <2>2. file.hist[Bg(p)].at # 0
    BY <1>1, <1>2, <1>3, <1>8 DEF RecordMissing, Present, History, Entry
  <2> QED
    BY <1>2, <1>3, <1>4, <1>8, <2>1, <2>2
    DEF NewStatus, Updated, WellFormed, History, Entry
<1>9. CASE pc[p] \in {"snapCmd", "snapshot"}
  <2>1. /\ Written(p).hist = file.hist
        /\ Written(p).snaps = file.snaps \cup {p}
    BY <1>1, <1>9 DEF Written, Database
  <2> QED  BY <1>2, <1>9, <2>1 DEF NewStatus
<1>10. CASE pc[p] \in {"save", "resave"}
  <2>1. /\ Written(p).hist = Merged(file.hist, db[p].hist)
        /\ Written(p).snaps = file.snaps \cup db[p].snaps
    BY <1>1, <1>10 DEF Written, Database
  <2>2. /\ db[p].hist \in History
        /\ WellFormed(db[p].hist)
        /\ Earlier(db[p].hist, file.hist)
        /\ db[p].snaps \subseteq file.snaps
    BY <1>10 DEF IInv, CopyInv, HistoryInv, ProcInv, CopyLoaded, Database, History
  <2> QED  BY <1>2, <1>10, <2>1, <2>2, MergedKeeps DEF NewStatus
<1> QED  BY <1>5, <1>6, <1>7, <1>8, <1>9, <1>10 DEF DBCalls

-----------------------------------------------------------------------------
(* HistoryInv is an invariant.                                             *)

\* It holds initially.
LEMMA InitHistory == Init => HistoryInv
<1> SUFFICES ASSUME Init PROVE HistoryInv  OBVIOUS
<1>1. /\ \A i \in Id : file.hist[i].st = "absent" /\ file.hist[i].at = 0
      /\ \A p \in Proc : pc[p] = "idle"
  BY DEF Init, EmptyDB, Absent
<1>2. \A p \in Proc : Fg(p) \in Id /\ Bg(p) \in Id  BY DEF Fg, Bg, Id
<1>3. WellFormed(file.hist)  BY <1>1 DEF WellFormed
<1>4. ASSUME NEW p \in Proc PROVE ProcInv(p)
  BY <1>1, <1>2, <1>4
  DEF ProcInv, CopyLoaded, WorkerStages, BeforeStart, Started, Stages, DBCalls
<1> QED  BY <1>3, <1>4 DEF HistoryInv

\* A process that does not step, while the file stays, is where it was.
LEMMA StillThere ==
  ASSUME NEW q \in Proc, ProcInv(q), file' = file,
         pc'[q] = pc[q], cmd'[q] = cmd[q], db'[q] = db[q]
  PROVE  ProcInv(q)'
BY DEF ProcInv, Fg, Bg

\* What the end of a call can be: the file is the old or the new one, and
\* the new one is there when the call reports success.
LEMMA CloseOutcomes ==
  ASSUME IInv, HistoryInv, NEW p \in Proc, CloseDB(p)
  PROVE  /\ pc[p] \in DBCalls /\ latest[p] # NoDB
         /\ cmd' = cmd /\ db' = db
         /\ file' # file => file' = Written(p) /\ ~RecordMissing(p)
         /\ \E ok \in BOOLEAN :
              /\ pc' = [pc EXCEPT ![p] = After(p, ok)]
              /\ ok => file' = Written(p) /\ ~RecordMissing(p)
<1>1. pc[p] \in DBCalls /\ latest[p] # NoDB
  BY DEF CloseDB, IInv, LockInv
<1>2. cmd' = cmd /\ db' = db  BY DEF CloseDB
<1>3. \/ ~RecordMissing(p) /\ file' = Written(p) /\ Return(p, TRUE)
      \/ RecordMissing(p) /\ file' = file /\ Return(p, FALSE)
      \/ ~RecordMissing(p) /\ file' \in {file, Written(p)} /\ Return(p, FALSE)
  BY Zenon DEF CloseDB
<1> HIDE DEF Written, RecordMissing
<1>4. file' # file => file' = Written(p) /\ ~RecordMissing(p)  BY <1>3
<1>5. \E ok \in BOOLEAN :
        /\ pc' = [pc EXCEPT ![p] = After(p, ok)]
        /\ ok => file' = Written(p) /\ ~RecordMissing(p)
  <2>1. CASE ~RecordMissing(p) /\ file' = Written(p) /\ Return(p, TRUE)
    <3> WITNESS TRUE \in BOOLEAN
    <3> QED  BY <2>1 DEF Return
  <2>2. CASE Return(p, FALSE)
    <3> WITNESS FALSE \in BOOLEAN
    <3> QED  BY <2>2 DEF Return
  <2> QED  BY <1>3, <2>1, <2>2
<1> QED  BY <1>1, <1>2, <1>4, <1>5

\* A call only moves the records of its process forward.
LEMMA CloseGrows ==
  ASSUME IInv, HistoryInv, BelowCap, NEW p \in Proc, CloseDB(p)
  PROVE  /\ WellFormed(file'.hist)
         /\ Earlier(file.hist, file'.hist)
         /\ file.snaps \subseteq file'.snaps
         /\ \A q \in Proc \ {p} :
              /\ file'.hist[Fg(q)].st = file.hist[Fg(q)].st
              /\ file'.hist[Bg(q)].st = file.hist[Bg(q)].st
<1>1. CASE file' = file
  BY <1>1 DEF HistoryInv, Earlier
<1>2. CASE file' # file
  <2>1. /\ pc[p] \in DBCalls /\ latest[p] # NoDB
        /\ file' = Written(p) /\ ~RecordMissing(p)
    BY <1>2, CloseOutcomes
  <2>2. /\ WellFormed(file'.hist)
        /\ \A i \in Id : file'.hist[i].st = NewStatus(p, i)
        /\ file'.snaps = IF pc[p] \in {"snapCmd", "snapshot"}
                         THEN file.snaps \cup {p} ELSE file.snaps
    BY <2>1, WrittenHistory
  <2>3. ProcInv(p)  BY DEF HistoryInv
  <2>4. /\ pc[p] = "addBg" => file.hist[Bg(p)].st = "absent"
        /\ pc[p] = "start" => file.hist[Fg(p)].st = "absent"
        /\ pc[p] = "finish" => file.hist[Fg(p)].st = "running"
        /\ pc[p] = "finishBg" => file.hist[Bg(p)].st = "running"
    BY <2>3 DEF ProcInv, BeforeStart, Started, WorkerStages, Stages, DBCalls
  <2>5. outcome[p] \in {"success", "failed"}  BY DEF IInv, TypeOK
  <2>6. Earlier(file.hist, file'.hist)
    BY <2>2, <2>4, <2>5 DEF NewStatus, Earlier
  <2>7. \A q \in Proc \ {p} :
          /\ Fg(q) \in Id /\ Bg(q) \in Id
          /\ NewStatus(p, Fg(q)) = file.hist[Fg(q)].st
          /\ NewStatus(p, Bg(q)) = file.hist[Bg(q)].st
    BY DEF NewStatus, Fg, Bg, Id
  <2> QED  BY <2>2, <2>6, <2>7
<1> QED  BY <1>1, <1>2

\* The end of a call preserves it.
LEMMA CloseHistory ==
  ASSUME IInv, HistoryInv, BelowCap, NEW p \in Proc, CloseDB(p)
  PROVE  HistoryInv'
<1>1. /\ WellFormed(file'.hist)
      /\ Earlier(file.hist, file'.hist)
      /\ file.snaps \subseteq file'.snaps
      /\ \A q \in Proc \ {p} :
           /\ file'.hist[Fg(q)].st = file.hist[Fg(q)].st
           /\ file'.hist[Bg(q)].st = file.hist[Bg(q)].st
  BY CloseGrows
<1>2. /\ pc[p] \in DBCalls /\ latest[p] # NoDB
      /\ cmd' = cmd /\ db' = db
      /\ file' # file => file' = Written(p) /\ ~RecordMissing(p)
      /\ \E ok \in BOOLEAN :
           /\ pc' = [pc EXCEPT ![p] = After(p, ok)]
           /\ ok => file' = Written(p) /\ ~RecordMissing(p)
  BY CloseOutcomes
<1>3. PICK ok \in BOOLEAN :
           /\ pc' = [pc EXCEPT ![p] = After(p, ok)]
           /\ ok => file' = Written(p) /\ ~RecordMissing(p)
  BY <1>2
<1>4. \A q \in Proc : ProcInv(q)  BY DEF HistoryInv
<1>5. ASSUME NEW h, Earlier(h, file.hist) PROVE Earlier(h, file'.hist)
  BY <1>1, <1>5 DEF Earlier
<1>6. ASSUME NEW q \in Proc, q # p PROVE ProcInv(q)'
  <2>1. pc'[q] = pc[q] /\ cmd'[q] = cmd[q] /\ db'[q] = db[q]
    BY <1>2, <1>3, <1>6 DEF IInv, TypeOK
  <2>2. pc[q] \in CopyLoaded => /\ WellFormed(db[q].hist)
                                /\ Earlier(db[q].hist, file'.hist)
                                /\ db[q].snaps \subseteq file'.snaps
    BY <1>1, <1>4, <1>5 DEF ProcInv
  <2>3. /\ file'.hist[Fg(q)].st = file.hist[Fg(q)].st
        /\ file'.hist[Bg(q)].st = file.hist[Bg(q)].st
    BY <1>1, <1>6
  <2> QED  BY <1>4, <2>1, <2>2, <2>3 DEF ProcInv, Fg, Bg
<1>7. ProcInv(p)'
  <2>1. /\ pc'[p] = After(p, ok)
        /\ cmd'[p] = cmd[p] /\ db'[p] = db[p]
    BY <1>2, <1>3 DEF IInv, TypeOK
  <2>2. Fg(p) \in Id /\ Bg(p) \in Id /\ Fg(p) # Bg(p)
    BY DEF Fg, Bg, Id
  <2>3. /\ file' # file \/ ok => \A i \in Id : file'.hist[i].st = NewStatus(p, i)
    BY <1>2, <1>3, WrittenHistory
  <2>4. /\ pc[p] \in {"snapshot", "save", "resave"} =>
             /\ file'.hist[Fg(p)].st = file.hist[Fg(p)].st
             /\ file'.hist[Bg(p)].st = file.hist[Bg(p)].st
        /\ pc[p] \in {"start", "finish"} =>
             file'.hist[Bg(p)].st = file.hist[Bg(p)].st
        /\ pc[p] = "addBg" => file'.hist[Fg(p)].st = file.hist[Fg(p)].st
        /\ pc[p] = "addBg" /\ ok => file'.hist[Bg(p)].st = "running"
        /\ pc[p] = "start" /\ ok => file'.hist[Fg(p)].st = "running"
    BY <2>2, <2>3 DEF NewStatus
  <2>5. \/ pc[p] = "addBg" /\ ok /\ pc'[p] = "spawn"
        \/ pc[p] = "snapshot" /\ pc'[p] \in {"start", "unlock"}
        \/ pc[p] = "start" /\ ok /\ pc'[p] = "work"
        \/ pc[p] = "start" /\ pc'[p] = "unlock"
        \/ pc[p] = "save" /\ pc'[p] = "finish"
        \/ pc[p] \in {"resave", "finish"} /\ pc'[p] = "unlock"
        \/ pc[p] \in DBCalls /\ pc'[p] = "done"
    BY <1>2, <2>1 DEF After, DBCalls
  <2>6. pc'[p] \in CopyLoaded => /\ WellFormed(db'[p].hist)
                                 /\ Earlier(db'[p].hist, file'.hist)
                                 /\ db'[p].snaps \subseteq file'.snaps
    BY <1>1, <1>4, <1>5, <2>1, <2>5 DEF ProcInv, CopyLoaded
  <2>7. /\ pc'[p] \in {"addBg", "spawn", "get", "finishBg"} => cmd'[p] = "background"
        /\ pc'[p] \notin {"idle", "addBg"}
    BY <1>4, <2>1, <2>5 DEF ProcInv
  <2>8. pc'[p] \in WorkerStages /\ cmd'[p] = "background" =>
          file'.hist[Bg(p)].st = "running"
    BY <1>4, <2>1, <2>4, <2>5 DEF ProcInv, WorkerStages, Stages, DBCalls
  <2>9. /\ pc'[p] \in BeforeStart => file'.hist[Fg(p)].st = "absent"
        /\ pc'[p] \in Started => file'.hist[Fg(p)].st = "running"
    BY <1>4, <2>1, <2>4, <2>5 DEF ProcInv, BeforeStart, Started
  <2> QED  BY <2>6, <2>7, <2>8, <2>9 DEF ProcInv, Fg, Bg
<1> QED  BY <1>1, <1>6, <1>7 DEF HistoryInv

\* Every step preserves it.
LEMMA NextHistory == BelowCap /\ IInv /\ HistoryInv /\ [Next]_vars => HistoryInv'
<1> SUFFICES ASSUME BelowCap, IInv, HistoryInv, [Next]_vars PROVE HistoryInv'
  OBVIOUS
<1>a. TypeOK  BY DEF IInv
<1>b. WellFormed(file.hist) /\ \A q \in Proc : ProcInv(q)  BY DEF HistoryInv
<1>c. ASSUME NEW p \in Proc, file' = file, ProcInv(p)',
             \A q \in Proc \ {p} :
               pc'[q] = pc[q] /\ cmd'[q] = cmd[q] /\ db'[q] = db[q]
      PROVE  HistoryInv'
  <2>1. ASSUME NEW q \in Proc PROVE ProcInv(q)'
    <3>1. CASE q = p  BY <1>c, <3>1
    <3>2. CASE q # p  BY <1>b, <1>c, <3>2, StillThere
    <3> QED  BY <3>1, <3>2
  <2> QED  BY <1>b, <1>c, <2>1 DEF HistoryInv
<1>1. ASSUME NEW p \in Proc, Begin(p) PROVE HistoryInv'
  <2>1. /\ file' = file /\ db' = db
        /\ \A q \in Proc \ {p} : pc'[q] = pc[q] /\ cmd'[q] = cmd[q]
    BY <1>1, <1>a DEF Begin, TypeOK
  <2>2. /\ pc[p] = "idle"
        /\ \/ pc'[p] = "enter" /\ cmd'[p] = "install"
           \/ pc'[p] = "addBg" /\ cmd'[p] = "background"
           \/ pc'[p] = "snapCmd" /\ cmd'[p] = "snapshot"
    BY <1>1, <1>a, StoreAssumption DEF Begin, TypeOK, CommandKinds
  <2>3. ProcInv(p)'
    BY <1>b, <2>1, <2>2 DEF ProcInv, CopyLoaded, WorkerStages, BeforeStart,
       Started, Stages, DBCalls, Fg, Bg
  <2> QED  BY <1>c, <2>1, <2>3
<1>2. ASSUME NEW p \in Proc, OpenDB(p) PROVE HistoryInv'
  <2>1. UNCHANGED <<file, pc, cmd, db>>  BY <1>2 DEF OpenDB
  <2>2. ProcInv(p)'  BY <1>b, <2>1, StillThere
  <2> QED  BY <1>c, <2>1, <2>2
<1>3. ASSUME NEW p \in Proc, CloseDB(p) PROVE HistoryInv'
  BY <1>3, CloseHistory
<1>4. ASSUME NEW p \in Proc, Spawn(p) PROVE HistoryInv'
  <2>1. /\ UNCHANGED <<file, cmd, db>>
        /\ \A q \in Proc \ {p} : pc'[q] = pc[q]
        /\ pc[p] = "spawn" /\ pc'[p] \in {"enter", "finishBg"}
    BY <1>4, <1>a DEF Spawn, TypeOK
  <2>2. ProcInv(p)'
    BY <1>b, <2>1 DEF ProcInv, CopyLoaded, WorkerStages, BeforeStart, Started,
       Stages, DBCalls, Fg, Bg
  <2> QED  BY <1>c, <2>1, <2>2
<1>5. ASSUME NEW p \in Proc, Enter(p) \/ Lock(p) PROVE HistoryInv'
  <2>1. /\ UNCHANGED <<file, cmd, db>>
        /\ \A q \in Proc \ {p} : pc'[q] = pc[q]
        /\ pc[p] \in {"enter", "lock"}
        /\ \/ pc'[p] \in {"lock", "plan"}
           \/ pc'[p] = Leave(p)
    BY <1>5, <1>a DEF Enter, Lock, TypeOK
  <2>2. ProcInv(p)'
    BY <1>b, <2>1 DEF Leave, ProcInv, CopyLoaded, WorkerStages, BeforeStart,
       Started, Stages, DBCalls, Fg, Bg
  <2> QED  BY <1>c, <2>1, <2>2
<1>6. ASSUME NEW p \in Proc, Plan(p) PROVE HistoryInv'
  <2>1. /\ UNCHANGED <<file, cmd>>
        /\ \A q \in Proc \ {p} : pc'[q] = pc[q] /\ db'[q] = db[q]
        /\ db'[p] = file
        /\ pc[p] = "plan" /\ pc'[p] \in {"resave", "unlock", "snapshot", "start"}
    BY <1>6, <1>a DEF Plan, TypeOK
  <2>2. Earlier(file.hist, file.hist)  BY DEF Earlier
  <2>3. ProcInv(p)'
    BY <1>b, <2>1, <2>2 DEF ProcInv, CopyLoaded, WorkerStages, BeforeStart,
       Started, Stages, DBCalls, Fg, Bg
  <2> QED  BY <1>c, <2>1, <2>3
<1>7. ASSUME NEW p \in Proc, Work(p) PROVE HistoryInv'
  <2>1. db[p] \in Database  BY <1>7, <1>a DEF Work, IInv, CopyInv, CopyLoaded
  <2>2. /\ UNCHANGED <<file, cmd>>
        /\ \A q \in Proc \ {p} : pc'[q] = pc[q] /\ db'[q] = db[q]
        /\ pc[p] = "work" /\ pc'[p] \in {"save", "finish"}
    BY <1>7, <1>a DEF Work, TypeOK
  <2>3. db'[p].hist = db[p].hist /\ db'[p].snaps = db[p].snaps
    BY <1>7, <1>a, <2>1 DEF Work, TypeOK, Database
  <2>4. ProcInv(p)'
    BY <1>b, <2>2, <2>3 DEF ProcInv, CopyLoaded, WorkerStages, BeforeStart,
       Started, Stages, DBCalls, Fg, Bg
  <2> QED  BY <1>c, <2>2, <2>4
<1>8. ASSUME NEW p \in Proc, Unlock(p) PROVE HistoryInv'
  <2>1. /\ UNCHANGED <<file, cmd>>
        /\ \A q \in Proc \ {p} : pc'[q] = pc[q] /\ db'[q] = db[q]
        /\ pc[p] = "unlock" /\ pc'[p] = Leave(p)
    BY <1>8, <1>a DEF Unlock, TypeOK
  <2>2. ProcInv(p)'
    BY <1>b, <2>1 DEF Leave, ProcInv, CopyLoaded, WorkerStages, BeforeStart,
       Started, Stages, DBCalls, Fg, Bg
  <2> QED  BY <1>c, <2>1, <2>2
<1>9. ASSUME NEW p \in Proc, GetRecord(p) PROVE HistoryInv'
  <2>1. /\ UNCHANGED <<file, cmd, db>>
        /\ \A q \in Proc \ {p} : pc'[q] = pc[q]
        /\ pc[p] = "get" /\ pc'[p] \in {"finishBg", "done"}
    BY <1>9, <1>a DEF GetRecord, TypeOK
  <2>2. ProcInv(p)'
    BY <1>b, <2>1 DEF ProcInv, CopyLoaded, WorkerStages, BeforeStart, Started,
       Stages, DBCalls, Fg, Bg
  <2> QED  BY <1>c, <2>1, <2>2
<1>10. ASSUME NEW p \in Proc, Crash(p) PROVE HistoryInv'
  <2>1. /\ UNCHANGED <<file, cmd>>
        /\ \A q \in Proc \ {p} : pc'[q] = pc[q] /\ db'[q] = db[q]
        /\ pc'[p] = "dead"
    BY <1>10, <1>a DEF Crash, TypeOK
  <2>2. ProcInv(p)'
    BY <2>1 DEF ProcInv, CopyLoaded, WorkerStages, BeforeStart, Started, Stages,
       DBCalls
  <2> QED  BY <1>c, <2>1, <2>2
<1>11. ASSUME UNCHANGED vars PROVE HistoryInv'
  <2>1. UNCHANGED <<file, pc, cmd, db>>  BY <1>11 DEF vars
  <2>2. \A q \in Proc : ProcInv(q)'  BY <1>b, <2>1, StillThere
  <2> QED  BY <1>b, <2>1, <2>2 DEF HistoryInv
<1> QED
  BY <1>1, <1>2, <1>3, <1>4, <1>5, <1>6, <1>7, <1>8, <1>9, <1>10, <1>11
  DEF Next, Step, Quiet

-----------------------------------------------------------------------------
(* The refinement.                                                         *)

\* A call that ends is one operation of the atomic store, or a stutter.
LEMMA CloseRefines ==
  ASSUME BelowCap, IInv, HistoryInv, NEW p \in Proc, CloseDB(p)
  PROVE  [Atomic!Next]_(Atomic!vars)
<1> DEFINE stat == [i \in Id |-> file.hist[i].st]
<1>1. CASE file' = file  BY <1>1 DEF Atomic!vars
<1>2. CASE file' # file
  <2>1. /\ pc[p] \in DBCalls /\ latest[p] # NoDB
        /\ file' = Written(p) /\ ~RecordMissing(p)
    BY <1>2, CloseOutcomes
  <2>2. /\ \A i \in Id : file'.hist[i].st = NewStatus(p, i)
        /\ file'.snaps = IF pc[p] \in {"snapCmd", "snapshot"}
                         THEN file.snaps \cup {p} ELSE file.snaps
    BY <2>1, WrittenHistory
  <2>3. file'.pkgs = IF pc[p] = "save" THEN [file.pkgs EXCEPT ![target[p]] = p]
                                       ELSE file.pkgs
    BY <2>1, WrittenPackages
  <2>4. /\ pc[p] = "addBg" => file.hist[Bg(p)].st = "absent"
        /\ pc[p] = "start" => file.hist[Fg(p)].st = "absent"
        /\ pc[p] = "finish" => file.hist[Fg(p)].st = "running"
        /\ pc[p] = "finishBg" => file.hist[Bg(p)].st = "running"
    BY DEF HistoryInv, ProcInv, BeforeStart, Started, WorkerStages, Stages, DBCalls
  <2>5. /\ outcome[p] \in {"success", "failed"}
        /\ target[p] \in Pkg
        /\ Fg(p) \in Id /\ Bg(p) \in Id
    BY DEF IInv, TypeOK, Fg, Bg, Id
  <2>6. stat' = [i \in Id |-> NewStatus(p, i)]  BY <2>2
  <2>7. CASE pc[p] \in {"addBg", "start"}
    <3> DEFINE i == IF pc[p] = "addBg" THEN Bg(p) ELSE Fg(p)
    <3>1. /\ i \in Id
          /\ stat[i] = "absent"
          /\ stat' = [stat EXCEPT ![i] = "running"]
          /\ UNCHANGED <<file.pkgs, file.snaps>>
      BY <2>2, <2>3, <2>4, <2>5, <2>6, <2>7 DEF NewStatus
    <3> QED  BY <3>1 DEF Atomic!Next, Atomic!Start
  <2>8. CASE pc[p] \in {"finish", "finishBg"}
    <3> DEFINE i == IF pc[p] = "finish" THEN Fg(p) ELSE Bg(p)
    <3>1. /\ i \in Id
          /\ stat[i] = "running"
          /\ stat' = [stat EXCEPT ![i] = outcome[p]]
          /\ UNCHANGED <<file.pkgs, file.snaps>>
      BY <2>2, <2>3, <2>4, <2>5, <2>6, <2>8 DEF NewStatus
    <3> QED  BY <2>5, <3>1 DEF Atomic!Next, Atomic!Finish
  <2>9. CASE pc[p] \in {"snapCmd", "snapshot"}
    <3>1. /\ stat' = stat /\ file'.pkgs = file.pkgs
          /\ file'.snaps = file.snaps \cup {p}
      BY <2>2, <2>3, <2>6, <2>9 DEF NewStatus
    <3> QED  BY <3>1 DEF Atomic!Next, Atomic!AddSnapshot
  <2>10. CASE pc[p] \in {"save", "resave"}
    <3>1. stat' = stat /\ file'.snaps = file.snaps
      BY <2>2, <2>6, <2>10 DEF NewStatus
    <3>2. CASE pc[p] = "save"
      BY <2>3, <2>5, <3>1, <3>2 DEF Atomic!Next, Atomic!WritePackage
    <3>3. CASE pc[p] = "resave"
      BY <2>3, <3>1, <3>3 DEF Atomic!vars
    <3> QED  BY <2>10, <3>2, <3>3
  <2> QED  BY <2>1, <2>7, <2>8, <2>9, <2>10 DEF DBCalls
<1> QED  BY <1>1, <1>2

\* The protocol starts as the atomic store does.
LEMMA InitRefines == Init => Atomic!Init
BY DEF Init, EmptyDB, Absent, Atomic!Init

\* Every step is one operation of the atomic store, or a stutter.
LEMMA NextRefines ==
  BelowCap /\ IInv /\ HistoryInv /\ [Next]_vars => [Atomic!Next]_(Atomic!vars)
<1> SUFFICES ASSUME BelowCap, IInv, HistoryInv, [Next]_vars
             PROVE  [Atomic!Next]_(Atomic!vars)
  OBVIOUS
<1>1. ASSUME NEW p \in Proc, CloseDB(p) PROVE [Atomic!Next]_(Atomic!vars)
  BY <1>1, CloseRefines
<1>2. ASSUME NEW p \in Proc, ~CloseDB(p), Begin(p) \/ Step(p) \/ Crash(p)
      PROVE  file' = file
  BY <1>2 DEF Begin, Step, OpenDB, Spawn, Enter, Lock, Plan, Work, Unlock,
     GetRecord, Crash
<1>3. file' = file => [Atomic!Next]_(Atomic!vars)  BY DEF Atomic!vars
<1>4. UNCHANGED vars => file' = file  BY DEF vars
<1> QED  BY <1>1, <1>2, <1>3, <1>4 DEF Next, Quiet

\* ImplementsAtomicStore: while the history list has room, every behaviour
\* of the locking protocol, faults and crashes included, is a behaviour of
\* the atomic store: no update is lost, no completed record runs again.
THEOREM Refinement == BelowCap => (Spec => ImplementsAtomicStore)
<1> SUFFICES ASSUME BelowCap PROVE Spec => ImplementsAtomicStore  OBVIOUS
<1>1. Init => HistoryInv  BY InitHistory
<1>2. IInv /\ HistoryInv /\ [Next]_vars => HistoryInv'  BY NextHistory
<1>3. IInv /\ HistoryInv /\ [Next]_vars => [Atomic!Next]_(Atomic!vars)
  BY NextRefines
<1>4. Init => Atomic!Init  BY InitRefines
<1> QED
  BY <1>1, <1>2, <1>3, <1>4, Invariance, PTL
  DEF Spec, ImplementsAtomicStore, Atomic!Spec
=============================================================================
