------------------------------ MODULE Prepare ------------------------------
(***************************************************************************)
(* prepare: the packages of a plan are downloaded, verified and extracted  *)
(* by one goroutine each, Slots of them at a time, through one archive     *)
(* cache.  Queries that look into a legacy package (hydrateHardcorePackage *)
(* of `info`, `depends`, ...) use the same cache and hold no lock; neither *)
(* does `clean`.                                                           *)
(*                                                                         *)
(* An archive is opened by its path, and read as it is at that moment: to  *)
(* verify it and then, Opens[p] times, to inspect and to extract it.  The  *)
(* content with the checksum of package p is p itself.                     *)
(***************************************************************************)
EXTENDS Naturals, FiniteSets

CONSTANTS
    Package,      \* packages of the index
    Query,        \* processes that look into a package
    Target,       \* the package of each query
    File,         \* packageFilename of each package
    Opens,        \* how often its archive is read once it is verified
    Meta,         \* packages without an archive
    Slots,        \* the size of the semaphore, 4 in the code
    Wrong, None,  \* some other content, no content
    MaxStarts, MaxFaults   \* bounds on runs, and on failures and deaths

Actor == Package \cup Query
Archive == {File[p] : p \in Package \ Meta}
Content == Package \cup {Wrong}

ASSUME PrepareAssumption ==
    /\ Package \cap Query = {} /\ Wrong \notin Package /\ None \notin Content
    /\ Target \in [Query -> Package \ Meta]
    /\ DOMAIN File = Package \ Meta /\ None \notin Archive
    /\ Opens \in [Package -> Nat \ {0}]
    /\ Meta \subseteq Package
    /\ Slots \in Nat \ {0}
    /\ {MaxStarts, MaxFaults} \subseteq Nat

VARIABLES
    cache,       \* the content of each archive file
    main,        \* what prepare does, or how it ended
    plan,        \* the packages it prepares
    sem,         \* the goroutines in the semaphore
    pc,          \* what each goroutine and each query does
    temp,        \* the content of its temporary download
    opened,      \* how often it read the verified archive
    got,         \* the contents it read then
    staging,     \* packages with a staging directory of this run
    registered,  \* staging directories prepare knows of
    cause,       \* history: something gave this run a reason to fail
    starts, faults

work == <<sem, pc, temp, opened, got>>
bounds == <<starts, faults>>
vars == <<cache, main, plan, work, staging, registered, cause, bounds>>

Wants(a) == IF a \in Query THEN Target[a] ELSE a
Busy == {"check", "fetch", "publish", "verify", "drop", "stage", "read"}
Ended == {"done", "failed"}

\* Whether the cached archive has the checksum of the package of a.
Valid(a) == cache[File[Wants(a)]] = Wants(a)

-----------------------------------------------------------------------------
\* The cache may hold archives of earlier builds.
Init ==
    /\ cache \in [Archive -> Content \cup {None}]
    /\ \A f \in Archive : cache[f] \in {p \in Package \ Meta : File[p] = f} \cup {Wrong, None}
    /\ main = "idle" /\ plan = {}
    /\ sem = {}
    /\ pc = [a \in Actor |-> "off"]
    /\ temp = [a \in Actor |-> None]
    /\ opened = [a \in Actor |-> 0] /\ got = [a \in Actor |-> {}]
    /\ staging = {} /\ registered = {}
    /\ cause = FALSE
    /\ starts = 0 /\ faults = 0

Fault == faults < MaxFaults /\ faults' = faults + 1 /\ cause' = TRUE
NoFault == UNCHANGED <<faults, cause>>

Goto(a, to) == pc' = [pc EXCEPT ![a] = to] /\ UNCHANGED sem

BugEndKeepsSlot(a, how) == pc' = [pc EXCEPT ![a] = how] /\ sem' = IF how = "done" THEN sem \ {a} ELSE sem

\* The goroutine or the query returns; a goroutine leaves the semaphore.
End(a, how) == pc' = [pc EXCEPT ![a] = how] /\ sem' = sem \ {a}

-----------------------------------------------------------------------------
(* prepare.                                                                *)

\* Every package is validated before anything else happens.
Refuse(ps) ==
    /\ main \notin {"run", "ready"} /\ ps # {}
    /\ starts < MaxStarts /\ starts' = starts + 1
    /\ plan' = ps
    /\ staging' = {} /\ registered' = {}
    /\ main' = "failed" /\ cause' = TRUE
    /\ sem' = {} /\ pc' = [a \in Actor |-> IF a \in Query THEN pc[a] ELSE "off"]
    /\ UNCHANGED <<cache, temp, opened, got, faults>>

\* Then there is a goroutine for each package.
Start(ps) ==
    /\ main \notin {"run", "ready"} /\ ps # {}
    /\ starts < MaxStarts /\ starts' = starts + 1
    /\ plan' = ps
    /\ staging' = {} /\ registered' = {}
    /\ main' = "run"
    /\ cause' = (cause /\ \E q \in Query : pc[q] \in Busy)
    /\ sem' = {}
    /\ pc' = [a \in Actor |-> IF a \in ps THEN "wait" ELSE IF a \in Query THEN pc[a] ELSE "off"]
    /\ temp' = [a \in Actor |-> IF a \in Query THEN temp[a] ELSE None]
    /\ opened' = [a \in Actor |-> IF a \in Query THEN opened[a] ELSE 0]
    /\ got' = [a \in Actor |-> IF a \in Query THEN got[a] ELSE {}]
    /\ UNCHANGED <<cache, faults>>

\* Once every goroutine has returned, one error is enough to clean up; a
\* directory that cannot be removed is reported with it.
Finish ==
    /\ main = "run" /\ \A p \in plan : pc[p] \in Ended
    /\ IF \E p \in plan : pc[p] = "failed"
       THEN /\ \/ staging' = staging \ registered /\ main' = "failed" /\ NoFault
               \/ /\ Fault /\ registered # {}
                  /\ \E left \in registered : staging' = (staging \ registered) \cup {left}
                  /\ main' = "broken"
            /\ registered' = {}
       ELSE main' = "ready" /\ UNCHANGED <<staging, registered>> /\ NoFault
    /\ UNCHANGED <<cache, plan, work, starts>>

\* The transaction is over: its deferred cleanup.  A directory that cannot be
\* removed is only logged.
Release ==
    /\ main = "ready"
    /\ \/ staging' = staging \ registered /\ main' = "idle" /\ UNCHANGED faults
       \/ /\ faults < MaxFaults /\ faults' = faults + 1
          /\ \E left \in registered : staging' = (staging \ registered) \cup {left}
          /\ main' = "broken"
    /\ registered' = {}
    /\ UNCHANGED <<cache, plan, work, cause, starts>>

\* The process dies; its staging directories and temporary files have names
\* nobody uses again, and nobody removes them.
Crash ==
    /\ main \in {"run", "ready"}
    /\ Fault
    /\ main' = "dead"
    /\ sem' = {} /\ pc' = [a \in Actor |-> IF a \in Query THEN pc[a] ELSE "off"]
    /\ registered' = {}
    /\ UNCHANGED <<cache, plan, temp, opened, got, staging, starts>>

-----------------------------------------------------------------------------
(* A goroutine, and a query.                                               *)

Enter(p) ==
    /\ pc[p] = "wait" /\ Cardinality(sem) < Slots
    /\ sem' = sem \cup {p}
    /\ pc' = [pc EXCEPT ![p] = IF p \in Meta THEN "stage" ELSE "check"]
    /\ UNCHANGED <<cache, main, plan, temp, opened, got, staging, registered, cause, bounds>>

Ask(q) ==
    /\ pc[q] = "off"
    /\ Goto(q, "check")
    /\ UNCHANGED <<cache, main, plan, temp, opened, got, staging, registered, cause, bounds>>

Verified(a) == Goto(a, IF a \in Query THEN "read" ELSE "stage")

BugCheckExists(a) ==
    /\ pc[a] = "check"
    /\ IF cache[File[Wants(a)]] # None THEN Verified(a) ELSE Goto(a, "fetch")
    /\ UNCHANGED <<cache, main, plan, temp, opened, got, staging, registered, cause, bounds>>

BugCheckFails(a) ==
    /\ pc[a] = "check"
    /\ IF Valid(a) THEN Verified(a)
       ELSE IF cache[File[Wants(a)]] = None THEN Goto(a, "fetch") ELSE End(a, "failed")
    /\ UNCHANGED <<cache, main, plan, temp, opened, got, staging, registered, cause, bounds>>

\* A cached archive is used if its checksum is right.
Check(a) ==
    /\ pc[a] = "check"
    /\ IF Valid(a) THEN Verified(a) ELSE Goto(a, "fetch")
    /\ UNCHANGED <<cache, main, plan, temp, opened, got, staging, registered, cause, bounds>>

BugFetchInPlace(a) ==
    /\ pc[a] = "fetch"
    /\ \/ cache' = [cache EXCEPT ![File[Wants(a)]] = Wants(a)] /\ Goto(a, "verify") /\ NoFault
       \/ Fault /\ cache' = [cache EXCEPT ![File[Wants(a)]] = "part"] /\ End(a, "failed")
    /\ UNCHANGED <<main, plan, temp, opened, got, staging, registered, starts>>

\* The download goes to a temporary file ...
Fetch(a) ==
    /\ pc[a] = "fetch"
    /\ \/ temp' = [temp EXCEPT ![a] = Wants(a)] /\ Goto(a, "publish") /\ NoFault
       \/ Fault /\ temp' = [temp EXCEPT ![a] = Wrong] /\ Goto(a, "publish")
       \/ Fault /\ End(a, "failed") /\ UNCHANGED temp
    /\ UNCHANGED <<cache, main, plan, opened, got, staging, registered, starts>>

\* ... which is renamed to the archive, unless `clean` took it away.
Publish(a) ==
    /\ pc[a] = "publish"
    /\ IF temp[a] # None
       THEN cache' = [cache EXCEPT ![File[Wants(a)]] = temp[a]] /\ Goto(a, "verify")
       ELSE End(a, "failed") /\ UNCHANGED cache
    /\ temp' = [temp EXCEPT ![a] = None]
    /\ UNCHANGED <<main, plan, opened, got, staging, registered, cause, bounds>>

Verify(a) ==
    /\ pc[a] = "verify"
    /\ IF Valid(a) THEN Verified(a) ELSE Goto(a, "drop")
    /\ UNCHANGED <<cache, main, plan, temp, opened, got, staging, registered, cause, bounds>>

\* What does not verify is removed, unless that fails as well.
Drop(a) ==
    /\ pc[a] = "drop"
    /\ \/ cache' = [cache EXCEPT ![File[Wants(a)]] = None] /\ NoFault
       \/ Fault /\ UNCHANGED cache
    /\ End(a, "failed")
    /\ UNCHANGED <<main, plan, temp, opened, got, staging, registered, starts>>

BugStageRegistersLate(p) ==
    /\ pc[p] = "stage"
    /\ staging' = staging \cup {p}
    /\ registered' = IF p \in Meta THEN registered \cup {p} ELSE registered
    /\ IF p \in Meta THEN End(p, "done") ELSE Goto(p, "read")
    /\ UNCHANGED <<cache, main, plan, temp, opened, got, starts, faults, cause>>

\* The staging directory is registered as soon as it exists, "so every later
\* error path can clean it".
Stage(p) ==
    /\ pc[p] = "stage"
    /\ \/ /\ staging' = staging \cup {p} /\ registered' = registered \cup {p}
          /\ IF p \in Meta THEN End(p, "done") ELSE Goto(p, "read")
          /\ NoFault
       \/ Fault /\ End(p, "failed") /\ UNCHANGED <<staging, registered>>
    /\ UNCHANGED <<cache, main, plan, temp, opened, got, starts>>

\* Reading may fail, and reading another content than the verified one may too.
Read(a) ==
    LET content == cache[File[Wants(a)]]
        last == a \in Query \/ opened[a] + 1 = Opens[a]
    IN  /\ pc[a] = "read"
        /\ \/ /\ content # None
              /\ got' = [got EXCEPT ![a] = @ \cup {content}]
              /\ opened' = [opened EXCEPT ![a] = @ + 1]
              /\ IF last THEN End(a, "done") ELSE Goto(a, "read")
              /\ NoFault
           \/ content # Wants(a) /\ End(a, "failed") /\ NoFault /\ UNCHANGED <<got, opened>>
           \/ Fault /\ End(a, "failed") /\ UNCHANGED <<got, opened>>
        /\ UNCHANGED <<cache, main, plan, temp, staging, registered, starts>>

-----------------------------------------------------------------------------
\* `clean` removes the cache directory, one file after the other, whatever
\* else is going on.
Clean(f) ==
    /\ cache[f] # None
    /\ cache' = [cache EXCEPT ![f] = None]
    /\ cause' = TRUE
    /\ UNCHANGED <<main, plan, work, staging, registered, bounds>>

CleanTemp(a) ==
    /\ temp[a] # None
    /\ temp' = [temp EXCEPT ![a] = None]
    /\ cause' = TRUE
    /\ UNCHANGED <<cache, main, plan, sem, pc, opened, got, staging, registered, bounds>>

-----------------------------------------------------------------------------
Step(a) == Check(a) \/ Fetch(a) \/ Publish(a) \/ Verify(a) \/ Drop(a) \/ Read(a)
Work(p) == Enter(p) \/ Step(p) \/ Stage(p)

Next ==
    \/ \E ps \in SUBSET Package : Refuse(ps) \/ Start(ps)
    \/ Finish \/ Release \/ Crash
    \/ \E p \in Package : Work(p)
    \/ \E q \in Query : Ask(q) \/ Step(q)
    \/ \E f \in Archive : Clean(f)
    \/ \E a \in Actor : CleanTemp(a)

Spec == Init /\ [][Next]_vars

\* The goroutines are scheduled, and a download ends: the HTTP client gives up
\* after ten minutes.
FairSpec == Spec /\ WF_vars(Finish) /\ \A p \in Package : WF_vars(Work(p))

-----------------------------------------------------------------------------
(* Properties.                                                             *)

\* Every variable has its type, and a cached archive is never part of one.
TypeOK ==
    /\ cache \in [Archive -> Content \cup {None}]
    /\ main \in {"idle", "run", "ready", "failed", "broken", "dead"}
    /\ plan \subseteq Package /\ sem \subseteq plan
    /\ pc \in [Actor -> Busy \cup Ended \cup {"off", "wait"}]
    /\ temp \in [Actor -> Content \cup {None}]
    /\ opened \in [Actor -> Nat]
    /\ got \in [Actor -> SUBSET Content]
    /\ registered \subseteq staging /\ staging \subseteq plan
    /\ cause \in BOOLEAN
    /\ starts \in 0..MaxStarts /\ faults \in 0..MaxFaults

\* The archive file of p is used for no other package, and no query is
\* looking into it.
Exclusive(p) ==
    /\ \A o \in Package \ Meta : File[o] = File[p] => o = p
    /\ \A q \in Query : File[Target[q]] # File[p]

\* When prepare reports success, each staging directory holds what was read
\* from the archive with the checksum of the index, although it was read by
\* its path after the check, and `clean` ran in between.
ReadyIsVerified ==
    main = "ready" =>
      \A p \in plan \ Meta : p \in staging /\ (Exclusive(p) => got[p] = {p})

\* A failed prepare leaves no staging directory behind, nor does a transaction
\* that has ended, unless a directory could not be removed (broken) or the
\* process died.
NoLeftovers == main \in {"idle", "failed"} => staging = {}

\* prepare fails only if a package was refused or, while it ran, a call failed
\* in it or in a query beside it or `clean` took a file: archives of an earlier
\* build in the cache, or of a run that died, are no reason, nor is a query
\* that checks, downloads and replaces the same archive meanwhile.
FailsOnlyForCause == main = "failed" => cause

\* prepare ends: every goroutine gets into the semaphore, whichever fail.
PrepareEnds == main = "run" ~> main # "run"

-----------------------------------------------------------------------------
(* What does not hold.                                                     *)

\* The same for packages that share a file name, or with a query.
AllVerified == main = "ready" => \A p \in plan \ Meta : got[p] = {p}
=============================================================================
