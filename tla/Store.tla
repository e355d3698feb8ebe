------------------------------- MODULE Store -------------------------------
(***************************************************************************)
(* database.json (internal/store/store.go) shared by concurrent yspm       *)
(* commands, and the two file locks around it: the transaction lock        *)
(* <state>/lock (internal/manager/lock.go), held by a package transaction  *)
(* from its first read to its last write, and database.json.lock, held by  *)
(* each single read-modify-write of the file.                              *)
(*                                                                         *)
(* Every process runs one command.  Its pc is named after the call it      *)
(* makes next, so the interleavings are those of the calls that reach the  *)
(* file.  What a transaction does to the file system between its record    *)
(* and its save is module Transaction; here it is one step.                *)
(*                                                                         *)
(* A package record is the command that wrote it last.  The history maps   *)
(* an identifier to its status and its position in the list (0: not in     *)
(* it); FinishedAt is set exactly when the status is no longer "running",  *)
(* because one process, once, completes a record.                          *)
(***************************************************************************)
EXTENDS Naturals, FiniteSets

CONSTANTS
    Proc,         \* yspm processes
    Pkg,          \* package names
    NoProc,       \* no process
    NoDB,         \* no database in memory
    Commands,     \* the commands users run: a subset of CommandKinds
    MaxHistory,   \* the history cap (200 in the code)
    MaxFaults     \* bound on I/O errors and crashes in a behaviour

CommandKinds == {"install", "background", "snapshot"}

Id == Proc \X {"fg", "bg"}
Fg(p) == <<p, "fg">>    \* record of the transaction p runs
Bg(p) == <<p, "bg">>    \* record of the background job p was started as

Status == {"absent", "running", "success", "failed"}
Entry == [st : Status, at : 0 .. MaxHistory]
Database == [pkgs : [Pkg -> Proc \cup {NoProc}],
             hist : [Id -> Entry],
             snaps : SUBSET Proc]

ASSUME StoreAssumption ==
    /\ IsFiniteSet(Proc)
    /\ NoProc \notin Proc
    /\ NoDB \notin Database
    /\ Commands \subseteq CommandKinds
    /\ MaxHistory \in Nat \ {0}
    /\ MaxFaults \in Nat

VARIABLES
    file,        \* database.json
    stateLock,   \* holder of <state>/lock
    dbLock,      \* holder of database.json.lock
    pc,          \* the call each process makes next
    cmd,         \* the command it runs
    target,      \* the package its command names
    db,          \* the copy it loaded under the transaction lock
    latest,      \* the copy it loaded under the database lock
    outcome,     \* what its transaction will record and return
    faults       \* I/O errors and crashes so far

vars == <<file, stateLock, dbLock, pc, cmd, target, db, latest, outcome, faults>>

-----------------------------------------------------------------------------
(* The history list, without its text.                                     *)
(* Deliberately wrong variants of the definition that follows each of them *)
(* are named Bug...; no specification uses them.                           *)

Absent == [st |-> "absent", at |-> 0]
Present(h) == {i \in DOMAIN h : h[i].at > 0}
Rank(h, i) == Cardinality({j \in Present(h) : h[j].at <= h[i].at})
Excess(h) ==
    LET n == Cardinality(Present(h))
    IN  IF n > MaxHistory THEN n - MaxHistory ELSE 0

\* Only the newest MaxHistory records stay, in the order of the list.
Trim(h) ==
    [i \in Id |->
        IF i \in Present(h) /\ Rank(h, i) > Excess(h)
        THEN [st |-> h[i].st, at |-> Rank(h, i) - Excess(h)]
        ELSE Absent]

BugAddedUntrimmed(h, i) ==
    [h EXCEPT ![i] = [st |-> "running", at |-> MaxHistory + 1]]

\* AddTransactionFor: append a running record.
Added(h, i) ==
    Trim([h EXCEPT ![i] = [st |-> "running", at |-> MaxHistory + 1]])

\* UpdateTransactionFor on a record that is there.
Updated(h, i, s) == [h EXCEPT ![i].st = s]

\* The switch of mergeTransactions: a completed record is not reverted by a
\* copy that was loaded while it was running.
Newer(old, new) ==
    IF old \in {"success", "failed"} /\ new = "running" THEN old ELSE new

BugMergedOverwrites(current, incoming) == incoming

\* mergeTransactions: records both lists know keep their place, records only
\* the incoming list knows are appended in its order.
Merged(current, incoming) ==
    Trim([i \in Id |->
            IF i \in Present(current)
            THEN IF i \in Present(incoming)
                 THEN [st |-> Newer(current[i].st, incoming[i].st),
                       at |-> current[i].at]
                 ELSE current[i]
            ELSE IF i \in Present(incoming)
                 THEN [st |-> incoming[i].st, at |-> MaxHistory + incoming[i].at]
                 ELSE Absent])

-----------------------------------------------------------------------------
(* A missing database.json loads as an empty database.                     *)
EmptyDB == [pkgs |-> [k \in Pkg |-> NoProc],
            hist |-> [i \in Id |-> Absent],
            snaps |-> {}]

Init ==
    /\ file = EmptyDB
    /\ stateLock = NoProc
    /\ dbLock = NoProc
    /\ pc = [p \in Proc |-> "idle"]
    /\ cmd = [p \in Proc |-> "none"]
    /\ target \in [Proc -> Pkg]
    /\ db = [p \in Proc |-> NoDB]
    /\ latest = [p \in Proc |-> NoDB]
    /\ outcome = [p \in Proc |-> "success"]
    /\ faults = 0

\* The user starts a command: a package transaction in the foreground, the
\* same through RunBackground, or `snapshot create`.
Begin(p) ==
    /\ pc[p] = "idle"
    /\ \E c \in Commands :
         /\ cmd' = [cmd EXCEPT ![p] = c]
         /\ pc' = [pc EXCEPT ![p] =
                     CASE c = "install"    -> "enter"
                       [] c = "background" -> "addBg"
                       [] c = "snapshot"   -> "snapCmd"]
    /\ UNCHANGED <<file, stateLock, dbLock, target, db, latest, outcome, faults>>

-----------------------------------------------------------------------------
(* One read-modify-write of the file: withDBLock around a load and a write.*)

DBCalls == {"addBg", "snapCmd", "snapshot", "start", "save", "resave",
            "finish", "finishBg"}

\* flock(LOCK_EX) on database.json.lock, then loadDBPath.
OpenDB(p) ==
    /\ pc[p] \in DBCalls
    /\ latest[p] = NoDB
    /\ dbLock = NoProc
    /\ dbLock' = p
    /\ latest' = [latest EXCEPT ![p] = file]
    /\ UNCHANGED <<file, stateLock, pc, cmd, target, db, outcome, faults>>

\* The database the call writes back.
Written(p) ==
    LET old == latest[p]
    IN  CASE pc[p] = "addBg"    -> [old EXCEPT !.hist = Added(old.hist, Bg(p))]
          [] pc[p] = "start"    -> [old EXCEPT !.hist = Added(old.hist, Fg(p))]
          [] pc[p] = "finish"   ->
               [old EXCEPT !.hist = Updated(old.hist, Fg(p), outcome[p])]
          [] pc[p] = "finishBg" ->
               [old EXCEPT !.hist = Updated(old.hist, Bg(p), outcome[p])]
          [] pc[p] \in {"snapCmd", "snapshot"} ->
               [old EXCEPT !.snaps = old.snaps \cup {p}]
          [] pc[p] \in {"save", "resave"} ->
               [pkgs  |-> db[p].pkgs,
                hist  |-> Merged(old.hist, db[p].hist),
                snaps |-> old.snaps \cup db[p].snaps]

\* UpdateTransactionFor fails when the record is not in the list.
RecordMissing(p) ==
    \/ pc[p] = "finish"   /\ Fg(p) \notin Present(latest[p].hist)
    \/ pc[p] = "finishBg" /\ Bg(p) \notin Present(latest[p].hist)

\* Where the command goes when the call returns.
After(p, ok) ==
    CASE pc[p] = "addBg"    -> IF ok THEN "spawn" ELSE "done"
      [] pc[p] = "snapshot" -> IF ok THEN "start" ELSE "unlock"
      [] pc[p] = "start"    -> IF ok THEN "work" ELSE "unlock"
      [] pc[p] = "save"     -> "finish"
      [] pc[p] \in {"resave", "finish"}    -> "unlock"
      [] pc[p] \in {"snapCmd", "finishBg"} -> "done"

BugReturnForgets(p, ok) ==
    /\ pc' = [pc EXCEPT ![p] = After(p, ok)]
    /\ UNCHANGED outcome
Return(p, ok) ==
    /\ pc' = [pc EXCEPT ![p] = After(p, ok)]
    /\ outcome' = [outcome EXCEPT ![p] = IF ok THEN @ ELSE "failed"]

\* writeDBPath and the unlock.  The rename puts the whole new file in place;
\* an I/O error before it leaves the old one, an error of the directory sync
\* after it is reported although the new one is there.
CloseDB(p) ==
    /\ latest[p] # NoDB
    /\ \/ /\ ~RecordMissing(p)
          /\ file' = Written(p)
          /\ Return(p, TRUE)
          /\ UNCHANGED faults
       \/ /\ RecordMissing(p)
          /\ Return(p, FALSE)
          /\ UNCHANGED <<file, faults>>
       \/ /\ ~RecordMissing(p)
          /\ faults < MaxFaults
          /\ file' \in {file, Written(p)}
          /\ Return(p, FALSE)
          /\ faults' = faults + 1
    /\ dbLock' = NoProc
    /\ latest' = [latest EXCEPT ![p] = NoDB]
    /\ UNCHANGED <<stateLock, cmd, target, db>>

-----------------------------------------------------------------------------
(* The rest of a command.                                                  *)

\* RunBackground starts the worker, or fails to and completes the record.
Spawn(p) ==
    /\ pc[p] = "spawn"
    /\ \/ /\ pc' = [pc EXCEPT ![p] = "enter"]
          /\ UNCHANGED outcome
       \/ /\ pc' = [pc EXCEPT ![p] = "finishBg"]
          /\ outcome' = [outcome EXCEPT ![p] = "failed"]
    /\ UNCHANGED <<file, stateLock, dbLock, cmd, target, db, latest, faults>>

BugLeaveAtOnce(p) == "done"

\* After the transaction returns: a worker completes the background record.
Leave(p) == IF cmd[p] = "background" THEN "get" ELSE "done"

\* The checks in front of withLock (requirePrivileges) pass or fail.
Enter(p) ==
    /\ pc[p] = "enter"
    /\ \/ /\ pc' = [pc EXCEPT ![p] = "lock"]
          /\ UNCHANGED outcome
       \/ /\ pc' = [pc EXCEPT ![p] = Leave(p)]
          /\ outcome' = [outcome EXCEPT ![p] = "failed"]
    /\ UNCHANGED <<file, stateLock, dbLock, cmd, target, db, latest, faults>>

BugLockIgnored == TRUE

\* No process holds an flock on <state>/lock.
LockFree == stateLock = NoProc

\* flock(LOCK_EX) on <state>/lock; an I/O error while the holder writes its
\* pid into the file releases it again.
Lock(p) ==
    /\ pc[p] = "lock"
    /\ LockFree
    /\ \/ /\ stateLock' = p
          /\ pc' = [pc EXCEPT ![p] = "plan"]
          /\ UNCHANGED <<outcome, faults>>
       \/ /\ faults < MaxFaults
          /\ faults' = faults + 1
          /\ pc' = [pc EXCEPT ![p] = Leave(p)]
          /\ outcome' = [outcome EXCEPT ![p] = "failed"]
          /\ UNCHANGED stateLock
    /\ UNCHANGED <<file, dbLock, cmd, target, db, latest>>

\* LoadDBFor and everything up to the first write: the plan is empty, the
\* user aborts, the plan fails, or the transaction starts, after a snapshot
\* when automatic snapshots are on.
Plan(p) ==
    /\ pc[p] = "plan"
    /\ db' = [db EXCEPT ![p] = file]
    /\ \/ /\ \E next \in {"resave", "unlock", "snapshot", "start"} :
               pc' = [pc EXCEPT ![p] = next]
          /\ UNCHANGED outcome
       \/ /\ pc' = [pc EXCEPT ![p] = "unlock"]
          /\ outcome' = [outcome EXCEPT ![p] = "failed"]
    /\ UNCHANGED <<file, stateLock, dbLock, cmd, target, latest, faults>>

\* prepare ... ApplyTriggers: the package record changes in memory, or the
\* transaction fails (finishFailed, finishFailedWithRollback).
Work(p) ==
    /\ pc[p] = "work"
    /\ \/ /\ db' = [db EXCEPT ![p].pkgs[target[p]] = p]
          /\ pc' = [pc EXCEPT ![p] = "save"]
          /\ UNCHANGED outcome
       \/ /\ pc' = [pc EXCEPT ![p] = "finish"]
          /\ outcome' = [outcome EXCEPT ![p] = "failed"]
          /\ UNCHANGED db
    /\ UNCHANGED <<file, stateLock, dbLock, cmd, target, latest, faults>>

BugUnlockForgotten(p) ==
    /\ pc[p] = "unlock"
    /\ pc' = [pc EXCEPT ![p] = Leave(p)]
    /\ db' = [db EXCEPT ![p] = NoDB]
    /\ UNCHANGED <<file, stateLock, dbLock, cmd, target, latest, outcome, faults>>

\* The deferred unlock of withLock.
Unlock(p) ==
    /\ pc[p] = "unlock"
    /\ stateLock' = NoProc
    /\ pc' = [pc EXCEPT ![p] = Leave(p)]
    /\ db' = [db EXCEPT ![p] = NoDB]
    /\ UNCHANGED <<file, dbLock, cmd, target, latest, outcome, faults>>

\* Worker reads its own record back, without a lock, before completing it.
GetRecord(p) ==
    /\ pc[p] = "get"
    /\ pc' = [pc EXCEPT ![p] =
                IF Bg(p) \in Present(file.hist) THEN "finishBg" ELSE "done"]
    /\ UNCHANGED <<file, stateLock, dbLock, cmd, target, db, latest, outcome, faults>>

\* The process dies: the kernel drops its flocks, its memory is gone.
Crash(p) ==
    /\ pc[p] \notin {"idle", "done", "dead"}
    /\ faults < MaxFaults
    /\ faults' = faults + 1
    /\ pc' = [pc EXCEPT ![p] = "dead"]
    /\ stateLock' = IF stateLock = p THEN NoProc ELSE stateLock
    /\ dbLock' = IF dbLock = p THEN NoProc ELSE dbLock
    /\ db' = [db EXCEPT ![p] = NoDB]
    /\ latest' = [latest EXCEPT ![p] = NoDB]
    /\ UNCHANGED <<file, cmd, target, outcome>>

\* Every command has ended.
Quiet ==
    /\ \A p \in Proc : pc[p] \in {"done", "dead"}
    /\ UNCHANGED vars

-----------------------------------------------------------------------------
Step(p) ==
    \/ OpenDB(p) \/ CloseDB(p) \/ Spawn(p) \/ Enter(p) \/ Lock(p) \/ Plan(p)
    \/ Work(p) \/ Unlock(p) \/ GetRecord(p)

Next ==
    \/ \E p \in Proc : Begin(p) \/ Step(p) \/ Crash(p)
    \/ Quiet

\* A started command keeps running until it returns or dies; users may never
\* start another one.  Each process runs one command, so a lock that is waited
\* for is eventually free for good and weak fairness is enough to get it.
Fairness == \A p \in Proc : WF_vars(Step(p))

Spec == Init /\ [][Next]_vars /\ Fairness

-----------------------------------------------------------------------------
(* Properties.                                                             *)

Stages == DBCalls \cup {"idle", "spawn", "enter", "lock", "plan", "work", "unlock",
                        "get", "done", "dead"}

\* Every variable has its type; a history position never exceeds the cap.
TypeOK ==
    /\ file \in Database
    /\ stateLock \in Proc \cup {NoProc}
    /\ dbLock \in Proc \cup {NoProc}
    /\ pc \in [Proc -> Stages]
    /\ cmd \in [Proc -> CommandKinds \cup {"none"}]
    /\ target \in [Proc -> Pkg]
    /\ db \in [Proc -> Database \cup {NoDB}]
    /\ latest \in [Proc -> Database \cup {NoDB}]
    /\ outcome \in [Proc -> {"success", "failed"}]
    /\ faults \in 0 .. MaxFaults

\* SaveDBFor writes the package table of the caller's copy, loaded long
\* before.  Even so no step changes a package record other than the one the
\* saving transaction set: no command's package update is lost to another's.
OnlyOwnPackage ==
    [][\A k \in Pkg : file'.pkgs[k] # file.pkgs[k] =>
         \E p \in Proc : /\ pc[p] = "save"
                         /\ target[p] = k
                         /\ file'.pkgs[k] = p]_vars

\* A transaction that is about to be recorded as successful has its package
\* on disk, and nobody has overwritten it since.
SuccessIsOnDisk ==
    \A p \in Proc : pc[p] = "finish" /\ outcome[p] = "success" =>
        file.pkgs[target[p]] = p

\* Only one process at a time is between its load and its unlock.
InTransaction == {"plan", "snapshot", "start", "work", "save", "resave",
                  "finish", "unlock"}
OneTransaction ==
    \A p, q \in Proc :
        pc[p] \in InTransaction /\ pc[q] \in InTransaction => p = q

\* Every record that appears as running is completed, on every error path,
\* unless the machine failed it (an I/O error or a crash).
RecordsComplete ==
    \A i \in Id :
        file.hist[i].st = "running" ~> (file.hist[i].st # "running" \/ faults > 0)

\* Every command ends: the two locks never block each other for ever, and
\* no death of a holder does.
CommandsEnd ==
    \A p \in Proc : pc[p] # "idle" ~> pc[p] \in {"done", "dead"}

\* A record that was completed is never seen running again (the comment in
\* mergeTransactions).
CompletedStaysCompleted ==
    \A i \in Id :
        [](file.hist[i].st \in {"success", "failed"} => [](file.hist[i].st # "running"))

\* Below the cap the protocol is an atomic store.
Atomic == INSTANCE AtomicStore WITH
            Writer    <- Proc,
            Nobody    <- NoProc,
            packages  <- file.pkgs,
            status    <- [i \in Id |-> file.hist[i].st],
            snapshots <- file.snaps

ImplementsAtomicStore == Atomic!Spec
=============================================================================
