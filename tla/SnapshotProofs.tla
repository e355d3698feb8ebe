--------------------------- MODULE SnapshotProofs ---------------------------
(***************************************************************************)
(* Theorems about Snapshot for every number of processes, snapshots,       *)
(* versions, failures and deaths, and whether saves fail late or not.      *)
(***************************************************************************)
EXTENDS Snapshot, TLAPS

LiveCalls == {"take", "record", "discard", "commit", "save"}
RestoreCalls == {"check", "away", "clone", "drop", "undo", "back"}

\* The invariant is inductive as a whole; its parts are:
Process == [pc : Calls \cup {"idle"}, id : Ids \cup {None}, inTx : BOOLEAN,
            found : Root \cup {None}, result : Results]
Bounded == commands \in 0..MaxCommands /\ faults \in 0..MaxFaults
Typed ==
    /\ boot \in {"live", "rescue"}
    /\ target \in Subvolume /\ backup \in Root \cup {None}
    /\ volumes \in [Ids -> Subvolume] /\ taken \subseteq Ids
    /\ lock \in Proc \cup {None}
    /\ proc \in [Proc -> Process]
    /\ Bounded

\* A call runs in the system it belongs to, on a snapshot, and with the lock
\* if it is part of a transaction.
PlaceInv ==
    /\ boot = "live" => target \in Root
    /\ \A p \in Proc :
         /\ proc[p].pc \in LiveCalls => boot = "live"
         /\ proc[p].pc \in RestoreCalls => boot = "rescue" /\ ~proc[p].inTx
         /\ proc[p].pc # "idle" => proc[p].id \in Ids
         /\ proc[p].pc \in {"commit", "save"} => proc[p].inTx
         /\ proc[p].inTx => lock = p /\ proc[p].found \in Root /\ proc[p].pc # "idle"

\* Past the renaming of the root, the backup is the root the restore found.
RestoreInv ==
    /\ RootSurvives
    /\ OneRestore
    /\ \A p \in Proc :
         /\ proc[p].pc \in Past => backup = proc[p].found /\ backup \in Root
         /\ proc[p].pc \in {"clone", "back"} => target = None
         /\ proc[p].pc = "drop" => target = volumes[proc[p].id]
         /\ proc[p].pc \in {"check", "away", "clone", "drop"} => volumes[proc[p].id] \in Root

\* The snapshots some database mentions: the one of the root, of its backup,
\* of a snapshot, or the copy of a transaction.
Mentions(root, id) == root \in Root /\ id \in root.snaps
Mentioned(id) ==
    \/ Mentions(target, id)
    \/ Mentions(backup, id)
    \/ \E i \in Ids : Mentions(volumes[i], id)
    \/ \E p \in Proc : Mentions(proc[p].found, id)

\* An identifier is of one command, and is mentioned only when its snapshot
\* was complete; unless a save may fail late, it is then never deleted.
NameInv ==
    /\ \A id \in Ids : Mentioned(id) => /\ id \in taken /\ volumes[id] # Partial
                                        /\ ~LateErrors => volumes[id] \in Root
    /\ \A p \in Proc :
         /\ proc[p].pc \in LiveCalls => proc[p].id \in taken
         /\ proc[p].pc = "take" => ~Mentioned(proc[p].id)
         /\ proc[p].pc \in {"record", "discard"} /\ ~LateErrors => ~Mentioned(proc[p].id)
         /\ proc[p].pc = "record" => volumes[proc[p].id] \in Root
    /\ \A p, q \in Proc :
         proc[p].pc \in LiveCalls /\ proc[q].pc \in LiveCalls /\ p # q =>
           proc[p].id # proc[q].id

IInv == Typed /\ PlaceInv /\ RestoreInv /\ NameInv /\ SnapshotBefore

\* The initial state is a complete root that mentions no snapshot.
LEMMA InitInv == Init => IInv
<1> SUFFICES ASSUME Init PROVE IInv  OBVIOUS
<1> USE SnapshotAssumption DEF Init, Idle
<1>1. target \in Root  BY DEF Root
<1>2. Typed  BY <1>1 DEF Typed, Process, Bounded, Subvolume, Results
<1>3. PlaceInv  BY <1>1 DEF PlaceInv, LiveCalls, RestoreCalls
<1>4. RestoreInv  BY <1>1 DEF RestoreInv, RootSurvives, OneRestore, Past
<1>5. NameInv
  <2>1. \A id \in Ids : ~Mentioned(id)  BY DEF Mentioned, Mentions
  <2> QED  BY <2>1 DEF NameInv, LiveCalls
<1>6. SnapshotBefore  BY DEF SnapshotBefore
<1> QED  BY <1>2, <1>3, <1>4, <1>5, <1>6 DEF IInv

\* The bounds on commands and failures are kept by every step that counts.
LEMMA BoundedStep ==
  ASSUME Bounded, Command \/ UNCHANGED commands, Fault \/ UNCHANGED faults
  PROVE  Bounded'
BY SnapshotAssumption DEF Bounded, Command, Fault

\* A process that goes on or returns is one again.
LEMMA GotoType ==
  ASSUME proc \in [Proc -> Process], NEW p \in Proc, NEW pc \in Calls, Goto(p, pc)
  PROVE  proc' \in [Proc -> Process]
BY DEF Goto, Process
LEMMA EndType ==
  ASSUME proc \in [Proc -> Process], NEW p \in Proc, NEW result \in Results, End(p, result)
  PROVE  proc' \in [Proc -> Process]
BY DEF End, Idle, Process

\* Where no restore runs, its invariant says that the root is complete.
LEMMA NoRestore ==
  ASSUME target' \in Root, \A q \in Proc : proc'[q].pc \notin RestoreCalls
  PROVE  RestoreInv'
BY DEF RestoreInv, RootSurvives, OneRestore, RestoreCalls, Past

\* BeginCreate preserves the invariant.
LEMMA BeginCreateStep ==
  ASSUME IInv, NEW p \in Proc, NEW id \in Ids, BeginCreate(p, id)
  PROVE  IInv'
<1> USE DEF IInv, BeginCreate, Command
<1>1. Bounded'  BY BoundedStep DEF Typed
<1>2. proc' \in [Proc -> Process]  BY DEF Typed, Process, Calls, Results, Idle
<1>3. target' \in Root  BY DEF PlaceInv
<1>4. Typed'  BY <1>1, <1>2, <1>3 DEF Typed, Subvolume
<1>5. PlaceInv'  BY DEF PlaceInv, RestoreCalls, Idle
<1>6. RestoreInv'
  <2>1. \A q \in Proc : proc'[q].pc \notin RestoreCalls  BY DEF PlaceInv, RestoreCalls
  <2> QED  BY <1>3, <2>1, NoRestore
<1>7. NameInv'
  <2>1. \A x \in Ids : Mentioned(x)' => Mentioned(x)
    BY SnapshotAssumption DEF Mentioned, Mentions, Idle
  <2> QED  BY <2>1 DEF NameInv, PlaceInv
<1>8. SnapshotBefore'  BY DEF SnapshotBefore
<1> QED  BY <1>4, <1>5, <1>6, <1>7, <1>8

\* BeginTransaction preserves the invariant.
LEMMA BeginTransactionStep ==
  ASSUME IInv, NEW p \in Proc, NEW id \in Ids, BeginTransaction(p, id)
  PROVE  IInv'
<1> USE DEF IInv, BeginTransaction, Command
<1>1. Bounded'  BY BoundedStep DEF Typed
<1>2. proc' \in [Proc -> Process]  BY DEF Typed, Process, Calls, Results, Idle, PlaceInv
<1>3. target' \in Root  BY DEF PlaceInv
<1>4. Typed'  BY <1>1, <1>2, <1>3 DEF Typed, Subvolume
<1>5. PlaceInv'  BY SnapshotAssumption DEF PlaceInv, RestoreCalls
<1>6. RestoreInv'
  <2>1. \A q \in Proc : proc'[q].pc \notin RestoreCalls  BY DEF PlaceInv, RestoreCalls
  <2> QED  BY <1>3, <2>1, NoRestore
<1>7. NameInv'
  <2>1. \A x \in Ids : Mentioned(x)' => Mentioned(x)
    BY DEF Mentioned
  <2> QED  BY <2>1 DEF NameInv, PlaceInv
<1>8. SnapshotBefore'  BY DEF SnapshotBefore
<1> QED  BY <1>4, <1>5, <1>6, <1>7, <1>8

\* Take preserves the invariant.
LEMMA TakeStep ==
  ASSUME IInv, NEW p \in Proc, Take(p)
  PROVE  IInv'
<1> USE DEF IInv, Take, Fault, Goto, End
<1>1. Bounded'  BY BoundedStep DEF Typed
<1>2. proc' \in [Proc -> Process]  BY GotoType, EndType DEF Typed, Calls, Results
<1>3. target' \in Root  BY DEF PlaceInv, LiveCalls
<1>4. Typed'  BY <1>1, <1>2, <1>3 DEF Typed, Subvolume
<1>5. PlaceInv'  BY <1>2 DEF PlaceInv, Process, LiveCalls, RestoreCalls, Idle
<1>6. RestoreInv'
  <2>1. \A q \in Proc : proc'[q].pc \notin RestoreCalls
    BY DEF PlaceInv, Typed, Process, LiveCalls, RestoreCalls, Idle
  <2> QED  BY <1>3, <2>1, NoRestore
<1>7. NameInv'
  <2>1. \A x \in Ids : Mentioned(x)' => Mentioned(x)
    BY SnapshotAssumption DEF Mentioned, Mentions, Typed, Process, RestoreInv, Past, Idle
  <2> QED  BY <2>1 DEF NameInv, Typed, Process, PlaceInv, LiveCalls, Calls, Idle
<1>8. SnapshotBefore'  BY DEF SnapshotBefore, SameSystem, NameInv, Typed, Process, LiveCalls, Idle
<1> QED  BY <1>4, <1>5, <1>6, <1>7, <1>8

\* Record preserves the invariant.
LEMMA RecordStep ==
  ASSUME IInv, NEW p \in Proc, Record(p)
  PROVE  IInv'
<1> USE DEF IInv, Record, Fault, Goto, End, Listed
<1>1. Bounded'  BY BoundedStep DEF Typed
<1>2. proc' \in [Proc -> Process]  BY GotoType, EndType DEF Typed, Calls, Results
<1>3. target' \in Root  BY DEF PlaceInv, Root, LiveCalls
<1>4. Typed'  BY <1>1, <1>2, <1>3 DEF Typed, Subvolume
<1>5. PlaceInv'  BY <1>2, <1>3 DEF PlaceInv, Process, LiveCalls, RestoreCalls, Idle
<1>6. RestoreInv'
  <2>1. \A q \in Proc : proc'[q].pc \notin RestoreCalls
    BY DEF PlaceInv, Typed, Process, LiveCalls, RestoreCalls, Idle
  <2> QED  BY <1>3, <2>1, NoRestore
<1>7. NameInv'
  <2>1. \A x \in Ids : Mentioned(x)' => Mentioned(x) \/ x = proc[p].id
    BY SnapshotAssumption, <1>2 DEF Mentioned, Mentions, Process, PlaceInv, LiveCalls, Root, Idle
  <2>2. proc'[p].pc = "discard" /\ ~LateErrors => \A x \in Ids : Mentioned(x)' => Mentioned(x)
    BY SnapshotAssumption, <1>2 DEF Mentioned, Mentions, Process, PlaceInv, LiveCalls, Idle
  <2>3. /\ proc'[p].pc \in {"commit", "idle", "discard"}
        /\ proc'[p].pc # "idle" => proc'[p].id = proc[p].id
        /\ \A q \in Proc \ {p} : proc'[q] = proc[q]
        /\ volumes[proc[p].id] \in Root /\ proc[p].id \in taken
        /\ proc[p].pc = "record" /\ proc[p].id \in Ids /\ None \notin Ids
    BY SnapshotAssumption, <1>2 DEF NameInv, LiveCalls, Process, Idle, PlaceInv
  <2>4. UNCHANGED <<volumes, taken>>  OBVIOUS
  <2>5. ASSUME NEW x \in Ids, Mentioned(x)'
        PROVE  x \in taken /\ volumes[x] # Partial /\ (~LateErrors => volumes[x] \in Root)
    BY SnapshotAssumption, <2>1, <2>3, <2>5 DEF NameInv
  <2>6. ASSUME NEW q \in Proc, proc'[q].pc \in LiveCalls
        PROVE  proc[q].pc \in LiveCalls /\ proc'[q].id = proc[q].id
    BY <2>3, <2>6 DEF LiveCalls
  <2>7. ASSUME NEW q \in Proc, NEW x \in Ids, x = proc'[q].id,
               \/ proc'[q].pc = "take"
               \/ proc'[q].pc \in {"record", "discard"} /\ ~LateErrors
        PROVE  ~Mentioned(x)'
    <3>1. CASE q = p  BY <2>2, <2>3, <2>7, <3>1 DEF NameInv
    <3>2. CASE q # p
      <4>1. x # proc[p].id /\ ~Mentioned(x)
        BY <2>3, <2>7, <3>2 DEF NameInv, LiveCalls
      <4> QED  BY <2>1, <4>1
    <3> QED  BY <3>1, <3>2
  <2> HIDE DEF Record, Goto, End, Listed
  <2>8. ASSUME NEW q \in Proc
        PROVE  /\ proc'[q].pc \in LiveCalls => proc'[q].id \in taken
               /\ proc'[q].pc = "record" => volumes[proc'[q].id] \in Root
    BY <2>3, <2>6 DEF NameInv, LiveCalls
  <2>9. ASSUME NEW q \in Proc, NEW r \in Proc, proc'[q].pc \in LiveCalls,
               proc'[r].pc \in LiveCalls, q # r
        PROVE  proc'[q].id # proc'[r].id
    BY <2>6, <2>9 DEF NameInv
  <2>10. \A q \in Proc : proc'[q].pc \in LiveCalls => proc'[q].id \in Ids
    BY <2>3, <2>6 DEF PlaceInv, LiveCalls
  <2> QED  BY <2>4, <2>5, <2>7, <2>8, <2>9, <2>10 DEF NameInv, LiveCalls
<1>8. SnapshotBefore'
  BY <1>2 DEF SnapshotBefore, SameSystem, PlaceInv, Process, LiveCalls, Root, Idle
<1> QED  BY <1>4, <1>5, <1>6, <1>7, <1>8

\* Discard preserves the invariant.
LEMMA DiscardStep ==
  ASSUME IInv, NEW p \in Proc, Discard(p)
  PROVE  IInv'
<1> USE DEF IInv, Discard, Fault, End
<1>1. Bounded'  BY BoundedStep DEF Typed
<1>2. proc' \in [Proc -> Process]  BY EndType DEF Typed, Results
<1>3. target' \in Root  BY DEF PlaceInv, LiveCalls
<1>4. Typed'  BY <1>1, <1>2, <1>3 DEF Typed, Subvolume
<1>5. PlaceInv'  BY <1>2 DEF PlaceInv, LiveCalls, RestoreCalls, Idle
<1>6. RestoreInv'
  <2>1. \A q \in Proc : proc'[q].pc \notin RestoreCalls
    BY DEF PlaceInv, LiveCalls, RestoreCalls, Idle
  <2> QED  BY <1>3, <2>1, NoRestore
<1>7. NameInv'
  <2>1. \A x \in Ids : Mentioned(x)' => Mentioned(x)
    BY SnapshotAssumption DEF Mentioned, Mentions, Typed, Idle
  <2> QED  BY SnapshotAssumption, <2>1 DEF NameInv, Typed, LiveCalls, Idle
<1>8. SnapshotBefore'  BY DEF SnapshotBefore, NameInv, Typed, LiveCalls, Idle
<1> QED  BY <1>4, <1>5, <1>6, <1>7, <1>8

\* Commit preserves the invariant.
LEMMA CommitStep ==
  ASSUME IInv, NEW p \in Proc, NEW v \in Versions, Commit(p, v)
  PROVE  IInv'
<1> USE DEF IInv, Commit, Goto
<1>1. Bounded'  BY BoundedStep DEF Typed
<1>2. proc' \in [Proc -> Process]  BY GotoType DEF Typed, Calls
<1>3. target' \in Root  BY DEF PlaceInv, Root, LiveCalls
<1>4. Typed'  BY <1>1, <1>2, <1>3 DEF Typed, Subvolume
<1>5. PlaceInv'  BY <1>3 DEF PlaceInv, LiveCalls, RestoreCalls
<1>6. RestoreInv'
  <2>1. \A q \in Proc : proc'[q].pc \notin RestoreCalls  BY DEF PlaceInv, LiveCalls, RestoreCalls
  <2> QED  BY <1>3, <2>1, NoRestore
<1>7. NameInv'
  <2>1. \A x \in Ids : Mentioned(x)' => Mentioned(x)
    BY DEF Mentioned, Mentions, PlaceInv, LiveCalls
  <2> QED  BY <2>1 DEF NameInv, PlaceInv, LiveCalls
<1>8. SnapshotBefore'  BY <1>2 DEF SnapshotBefore, PlaceInv
<1> QED  BY <1>4, <1>5, <1>6, <1>7, <1>8

\* Save preserves the invariant.
LEMMA SaveStep ==
  ASSUME IInv, NEW p \in Proc, Save(p)
  PROVE  IInv'
<1> USE DEF IInv, Save, Fault, End, SavedRoot
<1>1. Bounded'  BY BoundedStep DEF Typed
<1>2. proc' \in [Proc -> Process]  BY EndType DEF Typed, Results
<1>3. target' \in Root
  <2>1. target \in Root /\ proc[p].found \in Root
    BY DEF PlaceInv, LiveCalls
  <2>2. SavedRoot(p) \in Root  BY <2>1 DEF Root
  <2>3. [target EXCEPT !.files = proc[p].found.files] \in Root  BY <2>1 DEF Root
  <2> HIDE DEF SavedRoot
  <2> QED  BY <2>2, <2>3
<1>4. Typed'  BY <1>1, <1>2, <1>3 DEF Typed, Subvolume
<1>5. PlaceInv'  BY <1>2, <1>3 DEF PlaceInv, LiveCalls, RestoreCalls, Idle
<1>6. RestoreInv'
  <2>1. \A q \in Proc : proc'[q].pc \notin RestoreCalls
    BY DEF PlaceInv, Typed, LiveCalls, RestoreCalls, Idle
  <2> QED  BY <1>3, <2>1, NoRestore
<1>7. NameInv'
  <2>1. target \in Root /\ proc[p].found \in Root
    BY DEF PlaceInv, LiveCalls
  <2>2. \A x \in Ids : Mentions(target', x) => Mentions(target, x) \/ Mentions(proc[p].found, x)
    BY <2>1 DEF Mentions, Root
  <2>3. \A q \in Proc : \A x : Mentions(proc'[q].found, x) => Mentions(proc[q].found, x)
    BY SnapshotAssumption DEF Typed, Idle, Mentions
  <2>4. \A x \in Ids : Mentioned(x)' => Mentioned(x)
    BY <2>2, <2>3 DEF Mentioned, Mentions
  <2> HIDE DEF SavedRoot
  <2> QED  BY <1>2, <2>4 DEF NameInv, PlaceInv, LiveCalls, Idle
<1>8. SnapshotBefore'  BY <1>2 DEF SnapshotBefore, PlaceInv, Idle
<1> QED  BY <1>4, <1>5, <1>6, <1>7, <1>8

\* BeginRestore preserves the invariant.
LEMMA BeginRestoreStep ==
  ASSUME IInv, NEW p \in Proc, NEW id \in Ids, BeginRestore(p, id)
  PROVE  IInv'
<1> USE DEF IInv, BeginRestore, Command
<1>1. Bounded'  BY BoundedStep DEF Typed
<1>2. proc' \in [Proc -> Process]  BY DEF Typed, Process, Calls, Results, Idle
<1>4. Typed'  BY <1>1, <1>2 DEF Typed
<1>5. PlaceInv'  BY DEF PlaceInv, LiveCalls, Idle
<1>6. RestoreInv'
  <2>0. volumes[id] \in Root  BY DEF NameInv, Mentioned, Mentions, Typed, Subvolume
  <2>1. RootSurvives'  BY DEF RootSurvives
  <2>2. OneRestore'  BY DEF RestoreInv, OneRestore, Past
  <2>3. ASSUME NEW q \in Proc
        PROVE  /\ proc'[q].pc \in Past => backup' = proc'[q].found /\ backup' \in Root
               /\ proc'[q].pc \in {"clone", "back"} => target' = None
               /\ proc'[q].pc = "drop" => target' = volumes'[proc'[q].id]
               /\ proc'[q].pc \in {"check", "away", "clone", "drop"} => volumes'[proc'[q].id] \in Root
    BY <2>0 DEF RestoreInv, Past
  <2> QED  BY <2>1, <2>2, <2>3 DEF RestoreInv
<1>7. NameInv'
  <2>1. \A x \in Ids : Mentioned(x)' => Mentioned(x)
    BY SnapshotAssumption DEF Mentioned, Mentions, Idle
  <2> QED  BY <2>1 DEF NameInv, PlaceInv, LiveCalls
<1>8. SnapshotBefore'  BY DEF SnapshotBefore
<1> QED  BY <1>4, <1>5, <1>6, <1>7, <1>8

\* Check preserves the invariant.
LEMMA CheckStep ==
  ASSUME IInv, NEW p \in Proc, Check(p)
  PROVE  IInv'
<1> USE DEF IInv, Check, Goto, End
<1>1. Bounded'  BY BoundedStep DEF Typed
<1>2. proc' \in [Proc -> Process]  BY GotoType, EndType DEF Typed, Calls, Results
<1>4. Typed'  BY <1>1, <1>2 DEF Typed
<1>5. PlaceInv'  BY <1>2 DEF PlaceInv, Process, LiveCalls, RestoreCalls, Idle
<1>6. RestoreInv'
  <2>1. RootSurvives'  BY DEF RestoreInv, RootSurvives
  <2>2. OneRestore'  BY SnapshotAssumption, <1>2 DEF RestoreInv, OneRestore, Past, Idle
  <2>3. ASSUME NEW q \in Proc
        PROVE  /\ proc'[q].pc \in Past => backup' = proc'[q].found /\ backup' \in Root
               /\ proc'[q].pc \in {"clone", "back"} => target' = None
               /\ proc'[q].pc = "drop" => target' = volumes'[proc'[q].id]
               /\ proc'[q].pc \in {"check", "away", "clone", "drop"} => volumes'[proc'[q].id] \in Root
    BY <1>2 DEF RestoreInv, Past, Process, Idle
  <2> QED  BY <2>1, <2>2, <2>3 DEF RestoreInv
<1>7. NameInv'
  <2>1. \A x \in Ids : Mentioned(x)' => Mentioned(x)
    BY SnapshotAssumption, <1>2 DEF Mentioned, Mentions, Process, Idle
  <2> QED  BY <1>2, <2>1 DEF NameInv, Process, PlaceInv, LiveCalls, Idle
<1>8. SnapshotBefore'  BY <1>2 DEF SnapshotBefore, Process, Idle
<1> QED  BY <1>4, <1>5, <1>6, <1>7, <1>8

\* Away preserves the invariant.
LEMMA AwayStep ==
  ASSUME IInv, NEW p \in Proc, Away(p)
  PROVE  IInv'
<1> USE DEF IInv, Away, Fault, End
<1>1. Bounded'  BY BoundedStep DEF Typed
<1>2. proc' \in [Proc -> Process]  BY EndType DEF Typed, Process, Calls, Results
<1>4. Typed'  BY SnapshotAssumption, <1>1, <1>2 DEF Typed, Subvolume, RestoreInv, RootSurvives
<1>5. PlaceInv'  BY <1>2 DEF PlaceInv, Process, LiveCalls, RestoreCalls, Idle
<1>6. RestoreInv'
  <2>1. RootSurvives'  BY DEF RestoreInv, RootSurvives
  <2>2. OneRestore'  BY SnapshotAssumption, <1>2 DEF RestoreInv, OneRestore, Past, Idle
  <2>3. ASSUME NEW q \in Proc
        PROVE  /\ proc'[q].pc \in Past => backup' = proc'[q].found /\ backup' \in Root
               /\ proc'[q].pc \in {"clone", "back"} => target' = None
               /\ proc'[q].pc = "drop" => target' = volumes'[proc'[q].id]
               /\ proc'[q].pc \in {"check", "away", "clone", "drop"} => volumes'[proc'[q].id] \in Root
    BY SnapshotAssumption, <1>2 DEF RestoreInv, Past, Process, Idle
  <2> QED  BY <2>1, <2>2, <2>3 DEF RestoreInv
<1>7. NameInv'
  <2>1. \A x \in Ids : Mentioned(x)' => Mentioned(x)
    BY SnapshotAssumption, <1>2 DEF Mentioned, Mentions, Process, Idle
  <2> QED  BY <1>2, <2>1 DEF NameInv, Process, PlaceInv, LiveCalls, Idle
<1>8. SnapshotBefore'
  BY <1>2 DEF SnapshotBefore, PlaceInv, Process, LiveCalls, RestoreCalls, Idle
<1> QED  BY <1>4, <1>5, <1>6, <1>7, <1>8

\* Clone preserves the invariant.
LEMMA CloneStep ==
  ASSUME IInv, NEW p \in Proc, Clone(p)
  PROVE  IInv'
<1> USE DEF IInv, Clone, Fault, Goto
<1>1. Bounded'  BY BoundedStep DEF Typed
<1>2. proc' \in [Proc -> Process]  BY GotoType DEF Typed, Calls
<1>4. Typed'  BY <1>1, <1>2 DEF Typed, Subvolume, PlaceInv
<1>5. PlaceInv'  BY <1>2 DEF PlaceInv, Process, LiveCalls, RestoreCalls
<1>6. RestoreInv'
  <2>1. RootSurvives'  BY SnapshotAssumption DEF RestoreInv, RootSurvives
  <2>2. OneRestore'  BY <1>2 DEF RestoreInv, OneRestore, Past
  <2>3. ASSUME NEW q \in Proc
        PROVE  /\ proc'[q].pc \in Past => backup' = proc'[q].found /\ backup' \in Root
               /\ proc'[q].pc \in {"clone", "back"} => target' = None
               /\ proc'[q].pc = "drop" => target' = volumes'[proc'[q].id]
               /\ proc'[q].pc \in {"check", "away", "clone", "drop"} => volumes'[proc'[q].id] \in Root
    BY <1>2 DEF RestoreInv, OneRestore, Past, Process
  <2> QED  BY <2>1, <2>2, <2>3 DEF RestoreInv
<1>7. NameInv'
  <2>1. \A x \in Ids : Mentioned(x)' => Mentioned(x)
    BY SnapshotAssumption, <1>2 DEF Mentioned, Mentions, Process, PlaceInv
  <2> QED  BY <1>2, <2>1 DEF NameInv, Process, PlaceInv, LiveCalls
<1>8. SnapshotBefore'
  BY SnapshotAssumption, <1>2 DEF SnapshotBefore, PlaceInv, Process, LiveCalls
<1> QED  BY <1>4, <1>5, <1>6, <1>7, <1>8

\* Drop preserves the invariant.
LEMMA DropStep ==
  ASSUME IInv, NEW p \in Proc, Drop(p)
  PROVE  IInv'
<1> USE DEF IInv, Drop, Fault, Goto, End
<1>1. Bounded'  BY BoundedStep DEF Typed
<1>2. proc' \in [Proc -> Process]  BY GotoType, EndType DEF Typed, Calls, Results
<1>4. Typed'  BY <1>1, <1>2 DEF Typed
<1>5. PlaceInv'  BY <1>2 DEF PlaceInv, Process, LiveCalls, RestoreCalls, Idle
<1>6. RestoreInv'
  <2>1. RootSurvives'  BY DEF RestoreInv, RootSurvives
  <2>2. OneRestore'  BY <1>2 DEF RestoreInv, OneRestore, Past
  <2>3. ASSUME NEW q \in Proc
        PROVE  /\ proc'[q].pc \in Past => backup' = proc'[q].found /\ backup' \in Root
               /\ proc'[q].pc \in {"clone", "back"} => target' = None
               /\ proc'[q].pc = "drop" => target' = volumes'[proc'[q].id]
               /\ proc'[q].pc \in {"check", "away", "clone", "drop"} => volumes'[proc'[q].id] \in Root
    BY <1>2 DEF RestoreInv, OneRestore, Past, Process, Idle
  <2> QED  BY <2>1, <2>2, <2>3 DEF RestoreInv
<1>7. NameInv'
  <2>1. \A x \in Ids : Mentioned(x)' => Mentioned(x)
    BY SnapshotAssumption, <1>2 DEF Mentioned, Mentions, Process, Idle
  <2> QED  BY <1>2, <2>1 DEF NameInv, Process, PlaceInv, LiveCalls, Idle
<1>8. SnapshotBefore'  BY <1>2 DEF SnapshotBefore, Process, Idle
<1> QED  BY <1>4, <1>5, <1>6, <1>7, <1>8

\* Undo preserves the invariant.
LEMMA UndoStep ==
  ASSUME IInv, NEW p \in Proc, Undo(p)
  PROVE  IInv'
<1> USE DEF IInv, Undo, Fault, Goto, End
<1>1. Bounded'  BY BoundedStep DEF Typed
<1>2. proc' \in [Proc -> Process]  BY GotoType, EndType DEF Typed, Calls, Results
<1>4. Typed'  BY <1>1, <1>2 DEF Typed, Subvolume
<1>5. PlaceInv'  BY <1>2 DEF PlaceInv, Process, LiveCalls, RestoreCalls, Idle
<1>6. RestoreInv'
  <2>1. RootSurvives'  BY DEF RestoreInv, RootSurvives, Past
  <2>2. OneRestore'  BY <1>2 DEF RestoreInv, OneRestore, Past
  <2>3. ASSUME NEW q \in Proc
        PROVE  /\ proc'[q].pc \in Past => backup' = proc'[q].found /\ backup' \in Root
               /\ proc'[q].pc \in {"clone", "back"} => target' = None
               /\ proc'[q].pc = "drop" => target' = volumes'[proc'[q].id]
               /\ proc'[q].pc \in {"check", "away", "clone", "drop"} => volumes'[proc'[q].id] \in Root
    BY <1>2 DEF RestoreInv, OneRestore, Past, Process, Idle
  <2> QED  BY <2>1, <2>2, <2>3 DEF RestoreInv
<1>7. NameInv'
  <2>1. \A x \in Ids : Mentioned(x)' => Mentioned(x)
    BY SnapshotAssumption, <1>2 DEF Mentioned, Mentions, Process, Idle
  <2> QED  BY <1>2, <2>1 DEF NameInv, Process, PlaceInv, LiveCalls, Idle
<1>8. SnapshotBefore'
  BY <1>2 DEF SnapshotBefore, PlaceInv, Process, LiveCalls, RestoreCalls, Idle
<1> QED  BY <1>4, <1>5, <1>6, <1>7, <1>8

\* Back preserves the invariant.
LEMMA BackStep ==
  ASSUME IInv, NEW p \in Proc, Back(p)
  PROVE  IInv'
<1> USE DEF IInv, Back, Fault, End
<1>1. Bounded'  BY BoundedStep DEF Typed
<1>2. proc' \in [Proc -> Process]  BY EndType DEF Typed, Results
<1>4. Typed'  BY <1>1, <1>2 DEF Typed, Subvolume
<1>5. PlaceInv'  BY <1>2 DEF PlaceInv, LiveCalls, RestoreCalls, Idle
<1>6. RestoreInv'
  <2>1. RootSurvives'  BY DEF RestoreInv, RootSurvives
  <2>2. OneRestore'  BY <1>2 DEF RestoreInv, OneRestore, Past
  <2>3. ASSUME NEW q \in Proc
        PROVE  /\ proc'[q].pc \in Past => backup' = proc'[q].found /\ backup' \in Root
               /\ proc'[q].pc \in {"clone", "back"} => target' = None
               /\ proc'[q].pc = "drop" => target' = volumes'[proc'[q].id]
               /\ proc'[q].pc \in {"check", "away", "clone", "drop"} => volumes'[proc'[q].id] \in Root
    BY <1>2 DEF RestoreInv, OneRestore, Past, Idle
  <2> QED  BY <2>1, <2>2, <2>3 DEF RestoreInv
<1>7. NameInv'
  <2>1. \A x \in Ids : Mentioned(x)' => Mentioned(x)
    BY <1>2 DEF Mentioned, RestoreInv, Idle
  <2> QED  BY <1>2, <2>1 DEF NameInv, PlaceInv, LiveCalls, Idle
<1>8. SnapshotBefore'  BY SnapshotAssumption, <1>2 DEF SnapshotBefore, PlaceInv, LiveCalls, Idle
<1> QED  BY <1>4, <1>5, <1>6, <1>7, <1>8

\* Crash preserves the invariant.
LEMMA CrashStep ==
  ASSUME IInv, NEW p \in Proc, Crash(p)
  PROVE  IInv'
<1> USE DEF IInv, Crash, Fault, End
<1>1. Bounded'  BY BoundedStep DEF Typed
<1>2. proc' \in [Proc -> Process]  BY EndType DEF Typed, Results
<1>4. Typed'  BY <1>1, <1>2 DEF Typed
<1>5. PlaceInv'  BY <1>2 DEF PlaceInv, LiveCalls, RestoreCalls, Idle
<1>6. RestoreInv'
  <2>1. RootSurvives'  BY DEF RestoreInv, RootSurvives
  <2>2. OneRestore'  BY DEF RestoreInv, OneRestore, Past, Idle
  <2>3. ASSUME NEW q \in Proc
        PROVE  /\ proc'[q].pc \in Past => backup' = proc'[q].found /\ backup' \in Root
               /\ proc'[q].pc \in {"clone", "back"} => target' = None
               /\ proc'[q].pc = "drop" => target' = volumes'[proc'[q].id]
               /\ proc'[q].pc \in {"check", "away", "clone", "drop"} => volumes'[proc'[q].id] \in Root
    BY DEF RestoreInv, Past, Idle
  <2> QED  BY <2>1, <2>2, <2>3 DEF RestoreInv
<1>7. NameInv'
  <2>1. \A x \in Ids : Mentioned(x)' => Mentioned(x)
    BY SnapshotAssumption DEF Mentioned, Mentions, Idle
  <2> QED  BY <2>1 DEF NameInv, PlaceInv, LiveCalls, Idle
<1>8. SnapshotBefore'  BY DEF SnapshotBefore, Idle
<1> QED  BY <1>4, <1>5, <1>6, <1>7, <1>8

\* Reboot preserves the invariant.
LEMMA RebootStep ==
  ASSUME IInv, NEW system \in {"live", "rescue"}, Reboot(system)
  PROVE  IInv'
<1> USE DEF IInv, Reboot, Command
<1>1. Bounded'  BY BoundedStep DEF Typed
<1>2. proc' \in [Proc -> Process]  BY DEF Process, Results, Idle
<1>4. Typed'  BY <1>1, <1>2 DEF Typed
<1>5. PlaceInv'  BY DEF PlaceInv, LiveCalls, RestoreCalls, Idle
<1>6. RestoreInv'
  <2>1. RootSurvives'  BY DEF RootSurvives, Typed, PlaceInv
  <2>2. OneRestore'  BY DEF OneRestore, Past, Idle
  <2>3. ASSUME NEW q \in Proc
        PROVE  /\ proc'[q].pc \in Past => backup' = proc'[q].found /\ backup' \in Root
               /\ proc'[q].pc \in {"clone", "back"} => target' = None
               /\ proc'[q].pc = "drop" => target' = volumes'[proc'[q].id]
               /\ proc'[q].pc \in {"check", "away", "clone", "drop"} => volumes'[proc'[q].id] \in Root
    BY DEF Past, Idle
  <2> QED  BY <2>1, <2>2, <2>3 DEF RestoreInv
<1>7. NameInv'
  <2>1. \A x \in Ids : Mentioned(x)' => Mentioned(x)
    BY SnapshotAssumption DEF Mentioned, Mentions, Idle
  <2> QED  BY <2>1 DEF NameInv, LiveCalls, Idle
<1>8. SnapshotBefore'  BY DEF SnapshotBefore, Idle
<1> QED  BY <1>4, <1>5, <1>6, <1>7, <1>8

\* Repair preserves the invariant.
LEMMA RepairStep ==
  ASSUME IInv, Repair
  PROVE  IInv'
<1> USE DEF IInv, Repair, Command
<1>1. Bounded'  BY BoundedStep DEF Typed
<1>2. proc' \in [Proc -> Process]  BY DEF Typed
<1>4. Typed'  BY <1>1 DEF Typed, Subvolume
<1>5. PlaceInv'  BY DEF PlaceInv
<1>6. RestoreInv'
  <2>1. RootSurvives'  BY DEF RootSurvives, Typed
  <2>2. OneRestore'  BY DEF OneRestore, Past
  <2>3. ASSUME NEW q \in Proc
        PROVE  /\ proc'[q].pc \in Past => backup' = proc'[q].found /\ backup' \in Root
               /\ proc'[q].pc \in {"clone", "back"} => target' = None
               /\ proc'[q].pc = "drop" => target' = volumes'[proc'[q].id]
               /\ proc'[q].pc \in {"check", "away", "clone", "drop"} => volumes'[proc'[q].id] \in Root
    BY DEF Past
  <2> QED  BY <2>1, <2>2, <2>3 DEF RestoreInv
<1>7. NameInv'
  <2>1. \A x \in Ids : Mentioned(x)' => Mentioned(x)
    BY SnapshotAssumption DEF Mentioned, Mentions
  <2> QED  BY <2>1 DEF NameInv
<1>8. SnapshotBefore'  BY DEF SnapshotBefore
<1> QED  BY <1>4, <1>5, <1>6, <1>7, <1>8

-----------------------------------------------------------------------------
\* Every step preserves the invariant, and every reachable state satisfies it.
LEMMA StepInv == IInv /\ [Next]_vars => IInv'
<1> SUFFICES ASSUME IInv, [Next]_vars PROVE IInv'  OBVIOUS
<1>1. CASE UNCHANGED vars
  BY <1>1 DEF vars, IInv, Typed, Bounded, PlaceInv, RestoreInv, RootSurvives, OneRestore, 
              NameInv, Mentioned, SnapshotBefore
<1>2. ASSUME NEW p \in Proc, NEW id \in Ids,
             BeginCreate(p, id) \/ BeginTransaction(p, id) \/ BeginRestore(p, id)
      PROVE  IInv'
  BY <1>2, BeginCreateStep, BeginTransactionStep, BeginRestoreStep
<1>3. ASSUME NEW p \in Proc,
             Take(p) \/ Record(p) \/ Discard(p) \/ (\E v \in Versions : Commit(p, v)) \/ Save(p)
      PROVE  IInv'
  BY <1>3, TakeStep, RecordStep, DiscardStep, CommitStep, SaveStep
<1>4. ASSUME NEW p \in Proc,
             \/ Check(p) \/ Away(p) \/ Clone(p) \/ Drop(p) \/ Undo(p) \/ Back(p)
             \/ Crash(p)
      PROVE  IInv'
  BY <1>4, CheckStep, AwayStep, CloneStep, DropStep, UndoStep, BackStep, CrashStep
<1>5. ASSUME NEW system \in {"live", "rescue"}, Reboot(system)
      PROVE  IInv'
  BY <1>5, RebootStep
<1>6. CASE Repair  BY <1>6, RepairStep
<1>7. CASE Quiet  BY <1>1, <1>7 DEF Quiet
<1> QED  BY <1>1, <1>2, <1>3, <1>4, <1>5, <1>6, <1>7 DEF Next

LEMMA SpecInv == Spec => []IInv
BY InitInv, StepInv, PTL DEF Spec

-----------------------------------------------------------------------------
\* Types are kept: only a complete root becomes the backup (Away), and a live
\* system runs on a complete root.
THEOREM TypeCorrect == Spec => []TypeOK
<1>1. IInv => TypeOK
  BY DEF IInv, Typed, Process, Bounded, PlaceInv, TypeOK
<1> QED  BY <1>1, SpecInv, PTL

\* Whatever fails, and wherever a restore dies, a complete root file system is
\* there, as the root or as its backup (snapshot.go, 59-84).
THEOREM RootAlwaysSurvives == Spec => []RootSurvives
<1>1. IInv => RootSurvives  BY DEF IInv, RestoreInv
<1> QED  BY <1>1, SpecInv, PTL

\* A listed snapshot exists: its command lists it once it is complete, and deletes
\* it only if it could not be listed. A save that fails after its rename would
\* break this (SaveSnapshotFor); LateErrors is false if there is none.
THEOREM ListedSnapshotsExist == ~LateErrors /\ Spec => []ListedExist
<1>1. ~LateErrors /\ IInv => ListedExist
  BY DEF IInv, NameInv, Mentioned, Mentions, Root, ListedExist
<1>2. CASE ~LateErrors  BY <1>1, <1>2, SpecInv, PTL
<1> QED  BY <1>2

\* Restores take no lock, but the rename of the root lets only one of them past.
THEOREM RestoresExclude == Spec => []OneRestore
<1>1. IInv => OneRestore  BY DEF IInv, RestoreInv
<1> QED  BY <1>1, SpecInv, PTL

\* The snapshot a transaction takes is the system before its own changes.
THEOREM SnapshotIsBefore == Spec => []SnapshotBefore
<1>1. IInv => SnapshotBefore  BY DEF IInv
<1> QED  BY <1>1, SpecInv, PTL

\* A restore leaves the snapshot or the root it found, unless it reports that
\* its clean-up failed.
THEOREM RestoreIsAllOrNothing == Spec => RestoreAllOrNothing
<1> DEFINE Ends(p) ==
      proc[p].pc \in Past /\ proc'[p].pc = "idle" =>
        /\ proc'[p].result = "ok" => target' = volumes[proc[p].id] /\ backup' = None
        /\ proc'[p].result = "failed" => target' = proc[p].found /\ backup' = None
<1>1. ASSUME IInv, [Next]_vars, NEW p \in Proc  PROVE Ends(p)
  <2> SUFFICES ASSUME proc[p].pc \in Past, proc'[p] # proc[p]  PROVE Ends(p)
    BY DEF Past
  <2> USE DEF Past
  <2>1. proc \in [Proc -> Process] /\ boot = "rescue"
    BY <1>1 DEF IInv, Typed, PlaceInv, RestoreCalls
  <2>3. ASSUME NEW q \in Proc, NEW id \in Ids,
               BeginCreate(q, id) \/ BeginTransaction(q, id) \/ BeginRestore(q, id)
        PROVE  Ends(p)
    BY <2>1, <2>3 DEF BeginCreate, BeginTransaction, BeginRestore
  <2>4. ASSUME NEW q \in Proc, Take(q) \/ Record(q) \/ Discard(q) \/ Save(q)
        PROVE  Ends(p)
    BY <2>1, <2>4 DEF Take, Record, Discard, Save, Goto, End
  <2>5. ASSUME NEW q \in Proc, NEW v \in Versions, Commit(q, v)
        PROVE  Ends(p)
    BY <2>1, <2>5 DEF Commit, Goto
  <2>2. ASSUME NEW q \in Proc, Clone(q) \/ Undo(q) \/ Crash(q)
        PROVE  Ends(p)
    <3>1. CASE Clone(q)  BY <2>1, <3>1 DEF Process, Clone, Goto
    <3>2. CASE Undo(q)  BY <2>1, <3>2 DEF Process, Undo, Goto, End, Idle
    <3>3. CASE Crash(q)  BY <2>1, <3>3 DEF Crash, End, Idle
    <3> QED  BY <2>2, <3>1, <3>2, <3>3
  <2>6. ASSUME NEW q \in Proc, Check(q) \/ Away(q)
        PROVE  Ends(p)
    BY <2>1, <2>6 DEF Check, Away, Goto, End
  <2>7. ASSUME NEW q \in Proc, Drop(q)
        PROVE  Ends(p)
    <3>1. p = q /\ proc[p].pc = "drop"
      BY <2>1, <2>7 DEF Drop, Goto, End
    <3>2. target = volumes[proc[p].id]  BY <1>1, <3>1 DEF IInv, RestoreInv
    <3>3. CASE backup' = None /\ End(p, "ok") /\ UNCHANGED faults
      BY <2>1, <2>7, <3>1, <3>2, <3>3 DEF Drop, End, Idle
    <3>4. CASE Goto(p, "undo")
      BY <2>1, <3>4 DEF Goto
    <3> QED  BY <2>7, <3>1, <3>3, <3>4 DEF Drop
  <2>8. ASSUME NEW q \in Proc, Back(q)
        PROVE  Ends(p)
    BY <1>1, <2>1, <2>8 DEF IInv, RestoreInv, Back, End, Idle
  <2>9. ASSUME NEW system \in {"live", "rescue"}, Reboot(system)
        PROVE  Ends(p)
    BY <2>1, <2>9 DEF Reboot, Idle
  <2>10. CASE Repair \/ Quiet \/ UNCHANGED vars  BY <2>10 DEF Repair, Quiet, vars
  <2> QED
    BY <1>1, <2>2, <2>3, <2>4, <2>5, <2>6, <2>7, <2>8, <2>9, <2>10 DEF Next
<1>2. IInv /\ [Next]_vars => [\A p \in Proc : Ends(p)]_vars  BY <1>1
<1> QED  BY <1>2, SpecInv, PTL DEF Spec, RestoreAllOrNothing

\* While the system is live no snapshot is taken from the list: no transaction
\* that loaded the database before saves the list it loaded.
THEOREM ListGrows == Spec => StaysListed
<1> DEFINE Grows == boot = "live" /\ boot' = "live" => target.snaps \subseteq (target').snaps
<1>1. ASSUME IInv, [Next]_vars  PROVE Grows
  <2> SUFFICES ASSUME boot = "live", boot' = "live", target' # target
               PROVE  target.snaps \subseteq (target').snaps
    OBVIOUS
  <2>1. target \in Root /\ proc \in [Proc -> Process]
    BY <1>1 DEF IInv, Typed, PlaceInv
  <2>2. ASSUME NEW q \in Proc  PROVE proc[q].pc \notin RestoreCalls
    BY <1>1 DEF IInv, PlaceInv
  <2>3. ASSUME NEW q \in Proc, Record(q)
        PROVE  target.snaps \subseteq (target').snaps
    BY <2>1, <2>3 DEF Record, Listed, Root
  <2>4. ASSUME NEW q \in Proc, NEW v \in Versions, Commit(q, v)
        PROVE  target.snaps \subseteq (target').snaps
    BY <2>1, <2>4 DEF Commit, Root
  <2>5. ASSUME NEW q \in Proc, Save(q)
        PROVE  target.snaps \subseteq (target').snaps
    BY <2>1, <2>5 DEF Save, SavedRoot, Root
  <2>6. ASSUME NEW q \in Proc, Away(q) \/ Clone(q) \/ Undo(q) \/ Back(q)
        PROVE  FALSE
    BY <2>2, <2>6 DEF RestoreCalls, Away, Clone, Undo, Back
  <2>7. ASSUME NEW q \in Proc, NEW id \in Ids,
               BeginCreate(q, id) \/ BeginTransaction(q, id) \/ BeginRestore(q, id)
        PROVE  FALSE
    BY <2>7 DEF BeginCreate, BeginTransaction, BeginRestore
  <2>8. ASSUME NEW q \in Proc, Take(q) \/ Discard(q) \/ Check(q) \/ Drop(q) \/ Crash(q)
        PROVE  FALSE
    BY <2>8 DEF Take, Discard, Check, Drop, Crash
  <2>9. ASSUME NEW system \in {"live", "rescue"}, Reboot(system)
        PROVE  FALSE
    BY <2>9 DEF Reboot
  <2>10. CASE Repair \/ Quiet \/ UNCHANGED vars  BY <2>10 DEF Repair, Quiet, vars
  <2> QED
    BY <1>1, <2>3, <2>4, <2>5, <2>6, <2>7, <2>8, <2>9, <2>10 DEF Next
<1>2. IInv /\ [Next]_vars => [Grows]_vars  BY <1>1
<1> QED  BY <1>2, SpecInv, PTL DEF Spec, StaysListed
=============================================================================
