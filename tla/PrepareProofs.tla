--------------------------- MODULE PrepareProofs ---------------------------
(***************************************************************************)
(* Theorems about Prepare for every number of packages, queries and slots, *)
(* every assignment of file names and every number of failures.            *)
(***************************************************************************)
EXTENDS Prepare, TLAPS

Archived == Package \ Meta

\* The calls that touch the archive, and those of a verified one.
CacheCalls == {"check", "fetch", "publish", "verify", "drop", "read"}
Trusting == {"stage", "read", "done"}

Bounded == starts \in 0..MaxStarts /\ faults \in 0..MaxFaults
ActorTyped ==
    /\ pc \in [Actor -> Busy \cup Ended \cup {"off", "wait"}]
    /\ temp \in [Actor -> Content \cup {None}]
    /\ opened \in [Actor -> Nat]
    /\ got \in [Actor -> SUBSET Content]
Typed ==
    /\ cache \in [Archive -> Content \cup {None}]
    /\ main \in {"idle", "run", "ready", "failed", "broken", "dead"}
    /\ plan \subseteq Package /\ sem \subseteq plan
    /\ staging \subseteq plan
    /\ cause \in BOOLEAN
    /\ Bounded
    /\ ActorTyped

\* Only archives are downloaded; the goroutines are those of the plan; what
\* reads its archive has a staging directory that is registered.
WorkInv ==
    /\ \A a \in Actor : pc[a] \in CacheCalls => Wants(a) \in Archived
    /\ \A p \in Package : pc[p] \in Busy \cup {"wait"} => main = "run" /\ p \in plan
    /\ \A p \in Package : pc[p] # "off" /\ main \in {"run", "ready"} => p \in plan
    /\ \A p \in Package :
          pc[p] \in {"read", "done"} /\ main \in {"run", "ready"} => p \in registered
    /\ main = "ready" => \A p \in plan : pc[p] = "done"
    /\ registered \subseteq staging
    /\ main \in {"run", "ready"} => staging = registered
    /\ main \in {"idle", "failed"} => staging = {}

\* From its verification on, the file of an exclusive package has the verified
\* content or, after `clean`, none.
CacheInv ==
    \A p \in Archived : Exclusive(p) =>
      /\ pc[p] \in Trusting => cache[File[p]] \in {p, None}
      /\ pc[p] \in Busy \cup {"wait"} => got[p] \subseteq {p}
      /\ pc[p] = "done" => got[p] = {p}

IInv == Typed /\ WorkInv /\ CacheInv

LEMMA InitInv == Init => IInv
<1> SUFFICES ASSUME Init PROVE IInv  OBVIOUS
<1> USE PrepareAssumption DEF Init
<1>1. Typed
  <2>1. Bounded  BY DEF Bounded
  <2> QED  BY <2>1 DEF Typed, ActorTyped
<1>2. WorkInv  BY DEF WorkInv, CacheCalls, Busy, Actor
<1>3. CacheInv  BY DEF CacheInv, Trusting, Archived, Actor
<1> QED  BY <1>1, <1>2, <1>3 DEF IInv

\* An actor whose archive is the one of an exclusive package is its goroutine.
LEMMA OnlyOne ==
  ASSUME NEW p \in Archived, Exclusive(p), NEW a \in Actor, Wants(a) \in Archived,
         File[Wants(a)] = File[p]
  PROVE  a = p
BY DEF Exclusive, Wants, Archived

\* The archive of an actor is an archive.
LEMMA ArchiveOf ==
  ASSUME NEW a \in Actor, Wants(a) \in Archived
  PROVE  File[Wants(a)] \in Archive
BY DEF Archive, Archived

\* The bounds are kept by every step that counts.
LEMMA BoundsKept ==
  ASSUME Bounded,
         (starts < MaxStarts /\ starts' = starts + 1) \/ UNCHANGED starts,
         (faults < MaxFaults /\ faults' = faults + 1) \/ UNCHANGED faults
  PROVE  Bounded'
BY PrepareAssumption DEF Bounded

\* Refuse preserves the invariant.
LEMMA RefuseStep ==
  ASSUME IInv, NEW ps \in SUBSET Package, Refuse(ps)
  PROVE  IInv'
<1> USE PrepareAssumption DEF IInv, bounds, Refuse
<1>1. Bounded'  BY BoundsKept DEF Typed
<1>2. ActorTyped'  BY DEF Typed, ActorTyped
<1>3. Typed'  BY <1>1, <1>2 DEF Typed
<1>4. WorkInv'  BY DEF WorkInv, Actor, CacheCalls, Busy
<1>5. CacheInv'  BY DEF CacheInv, Trusting, Actor, Archived, Busy
<1> QED  BY <1>3, <1>4, <1>5

\* Start preserves the invariant.
LEMMA StartStep ==
  ASSUME IInv, NEW ps \in SUBSET Package, Start(ps)
  PROVE  IInv'
<1> USE PrepareAssumption DEF IInv, bounds, Start, work
<1>1. Bounded'  BY BoundsKept DEF Typed
<1>2. ActorTyped'  BY DEF Typed, ActorTyped
<1>3. Typed'  BY <1>1, <1>2 DEF Typed
<1>4. WorkInv'  BY DEF WorkInv, Actor, CacheCalls, Busy
<1>5. CacheInv'  BY DEF CacheInv, Trusting, Actor, Archived
<1> QED  BY <1>3, <1>4, <1>5

\* Finish preserves the invariant.
LEMMA FinishStep ==
  ASSUME IInv, Finish
  PROVE  IInv'
<1> USE PrepareAssumption DEF IInv, bounds, Finish, work, NoFault, Fault
<1>1. Bounded'  BY BoundsKept DEF Typed
<1>2. ActorTyped'  BY DEF Typed, ActorTyped
<1>3. Typed'  BY <1>1, <1>2 DEF Typed, Content, WorkInv
<1>4. WorkInv'  BY DEF WorkInv, Busy, Ended
<1>5. CacheInv'  BY DEF CacheInv
<1> QED  BY <1>3, <1>4, <1>5

\* Release preserves the invariant.
LEMMA ReleaseStep ==
  ASSUME IInv, Release
  PROVE  IInv'
<1> USE PrepareAssumption DEF IInv, bounds, Release, work
<1>1. Bounded'  BY BoundsKept DEF Typed
<1>2. ActorTyped'  BY DEF Typed, ActorTyped
<1>3. Typed'  BY <1>1, <1>2 DEF Typed, WorkInv
<1>4. WorkInv'  BY DEF WorkInv
<1>5. CacheInv'  BY DEF CacheInv
<1> QED  BY <1>3, <1>4, <1>5

\* Crash preserves the invariant.
LEMMA CrashStep ==
  ASSUME IInv, Crash
  PROVE  IInv'
<1> USE PrepareAssumption DEF IInv, bounds, Crash, Fault
<1>1. Bounded'  BY BoundsKept DEF Typed
<1>2. ActorTyped'  BY DEF Typed, ActorTyped
<1>3. Typed'  BY <1>1, <1>2 DEF Typed
<1>4. WorkInv'  BY DEF WorkInv, Actor, CacheCalls, Busy
<1>5. CacheInv'  BY DEF CacheInv, Trusting, Actor, Archived, Busy
<1> QED  BY <1>3, <1>4, <1>5

\* Enter preserves the invariant.
LEMMA EnterStep ==
  ASSUME IInv, NEW p \in Package, Enter(p)
  PROVE  IInv'
<1> USE PrepareAssumption DEF IInv, bounds, Enter
<1>1. Bounded'  BY BoundsKept DEF Typed
<1>2. ActorTyped'  BY DEF Typed, ActorTyped, Busy
<1>3. Typed'  BY <1>1, <1>2 DEF Typed, WorkInv
<1>4. WorkInv'  BY DEF WorkInv, Wants, CacheCalls, Archived
<1>5. CacheInv'  BY DEF CacheInv, Trusting, Archived
<1> QED  BY <1>3, <1>4, <1>5

\* Ask preserves the invariant.
LEMMA AskStep ==
  ASSUME IInv, NEW q \in Query, Ask(q)
  PROVE  IInv'
<1> USE PrepareAssumption DEF IInv, bounds, Ask, Goto
<1>1. Bounded'  BY BoundsKept DEF Typed
<1>2. ActorTyped'  BY DEF Typed, ActorTyped, Busy
<1>3. Typed'  BY <1>1, <1>2 DEF Typed
<1>4. WorkInv'  BY DEF WorkInv, Wants, Archived
<1>5. CacheInv'  BY DEF CacheInv, Archived
<1> QED  BY <1>3, <1>4, <1>5

\* Check preserves the invariant.
LEMMA CheckStep ==
  ASSUME IInv, NEW a \in Actor, Check(a)
  PROVE  IInv'
<1> USE PrepareAssumption DEF IInv, bounds, Check, Verified, Goto, Valid
<1>1. Bounded'  BY BoundsKept DEF Typed
<1>2. ActorTyped'  BY DEF Typed, ActorTyped, Busy
<1>3. Typed'  BY <1>1, <1>2 DEF Typed
<1>4. WorkInv'  BY DEF Typed, ActorTyped, WorkInv, Actor, CacheCalls, Ended
<1>5. CacheInv'  BY DEF Typed, ActorTyped, CacheInv, Trusting, Actor, Wants, Archived, Ended
<1> QED  BY <1>3, <1>4, <1>5

\* Fetch preserves the invariant.
LEMMA FetchStep ==
  ASSUME IInv, NEW a \in Actor, Fetch(a)
  PROVE  IInv'
<1> USE PrepareAssumption DEF IInv, bounds, Fetch, Goto, End, Fault, NoFault
<1>1. Bounded'  BY BoundsKept DEF Typed
<1>2. ActorTyped'  BY DEF Typed, ActorTyped, Content, Busy, Ended, WorkInv, CacheCalls, Archived
<1>3. Typed'  BY <1>1, <1>2 DEF Typed
<1>4. WorkInv'  BY DEF Typed, ActorTyped, WorkInv, Actor, CacheCalls, Ended
<1>5. CacheInv'  BY DEF Typed, ActorTyped, CacheInv, Trusting, Actor, Archived, Ended
<1> QED  BY <1>3, <1>4, <1>5

\* Publish preserves the invariant.
LEMMA PublishStep ==
  ASSUME IInv, NEW a \in Actor, Publish(a)
  PROVE  IInv'
<1> USE PrepareAssumption DEF IInv, bounds, Publish, Goto, End
<1>1. Bounded'  BY BoundsKept DEF Typed
<1>2. ActorTyped'  BY DEF Typed, ActorTyped, Busy, Ended
<1>3. Typed'  BY <1>1, <1>2 DEF ActorTyped, Typed
<1>4. WorkInv'  BY DEF Typed, ActorTyped, WorkInv, Actor, CacheCalls, Ended
<1>5. CacheInv'
  BY OnlyOne
  DEF Typed, ActorTyped, WorkInv, CacheInv, Trusting, Actor, CacheCalls, Archived, Ended, Archive
<1> QED  BY <1>3, <1>4, <1>5

\* Verify preserves the invariant.
LEMMA VerifyStep ==
  ASSUME IInv, NEW a \in Actor, Verify(a)
  PROVE  IInv'
<1> USE PrepareAssumption DEF IInv, bounds, Verify, Verified, Goto, Valid
<1>1. Bounded'  BY BoundsKept DEF Typed
<1>2. ActorTyped'  BY DEF Typed, ActorTyped, Busy
<1>3. Typed'  BY <1>1, <1>2 DEF Typed
<1>4. WorkInv'  BY DEF Typed, ActorTyped, WorkInv, Actor, CacheCalls, Ended
<1>5. CacheInv'  BY DEF Typed, ActorTyped, CacheInv, Trusting, Actor, Wants, Archived, Ended
<1> QED  BY <1>3, <1>4, <1>5

\* Drop preserves the invariant.
LEMMA DropStep ==
  ASSUME IInv, NEW a \in Actor, Drop(a)
  PROVE  IInv'
<1> USE PrepareAssumption DEF IInv, bounds, Drop, End, Fault, NoFault
<1>1. Bounded'  BY BoundsKept DEF Typed
<1>2. ActorTyped'  BY DEF Typed, ActorTyped, Ended
<1>3. Typed'  BY <1>1, <1>2 DEF Typed
<1>4. WorkInv'  BY DEF WorkInv, CacheCalls, Busy
<1>5. CacheInv'
  <2>1. CASE UNCHANGED cache
    BY <2>1 DEF Typed, ActorTyped, CacheInv, Trusting, Actor, Archived, Ended, Busy
  <2>2. CASE cache' = [cache EXCEPT ![File[Wants(a)]] = None]
    BY <2>2 DEF CacheInv, Trusting, Busy
  <2> QED  BY <2>1, <2>2
<1> QED  BY <1>3, <1>4, <1>5

\* Stage preserves the invariant.
LEMMA StageStep ==
  ASSUME IInv, NEW p \in Package, Stage(p)
  PROVE  IInv'
<1> USE PrepareAssumption DEF IInv, bounds, Stage, Goto, End, Fault, NoFault
<1>1. Bounded'  BY BoundsKept DEF Typed
<1>2. ActorTyped'  BY DEF Typed, ActorTyped, Busy, Ended
<1>3. Typed'  BY <1>1, <1>2 DEF Typed, Busy, WorkInv
<1>4. WorkInv'
  <2>1. main = "run" /\ p \in plan /\ UNCHANGED <<main, plan>>  BY DEF WorkInv, Busy
  <2>2. \A a \in Actor : a # p => pc'[a] = pc[a]  BY DEF Typed, ActorTyped
  <2>3. /\ pc'[p] \in {"done", "read", "failed"}
        /\ pc'[p] = "read" => p \notin Meta
        /\ pc'[p] # "failed" => p \in registered'
    BY DEF Typed, ActorTyped, Actor
  <2>4. registered \subseteq registered' /\ staging' = registered'  BY <2>1 DEF WorkInv
  <2>5. p \notin Query  BY DEF Wants
  <2> QED  BY <2>1, <2>2, <2>3 DEF WorkInv, Wants, Archived, Actor, CacheCalls
<1>5. CacheInv'  BY DEF Typed, ActorTyped, CacheInv, Trusting, Actor, Archived, Ended
<1> QED  BY <1>3, <1>4, <1>5

\* Read preserves the invariant.
LEMMA ReadStep ==
  ASSUME IInv, NEW a \in Actor, Read(a)
  PROVE  IInv'
<1> USE PrepareAssumption DEF IInv, bounds, Read, Goto, End, Fault, NoFault
<1>1. Bounded'  BY BoundsKept DEF Typed
<1>2. ActorTyped'  BY DEF Typed, ActorTyped, Ended, WorkInv, CacheCalls, Archive, Archived
<1>3. Typed'  BY <1>1, <1>2 DEF Typed
<1>4. WorkInv'  BY DEF Typed, ActorTyped, WorkInv, Actor, CacheCalls, Ended
<1>5. CacheInv'  BY DEF Typed, ActorTyped, CacheInv, Trusting, Actor, Wants, Archived, Ended
<1> QED  BY <1>3, <1>4, <1>5

\* Clean preserves the invariant.
LEMMA CleanStep ==
  ASSUME IInv, NEW f \in Archive, Clean(f)
  PROVE  IInv'
<1> USE PrepareAssumption DEF IInv, bounds, Clean, work
<1>1. Bounded'  BY BoundsKept DEF Typed
<1>2. ActorTyped'  BY DEF Typed, ActorTyped
<1>3. Typed'  BY <1>1, <1>2 DEF Typed
<1>4. WorkInv'  BY DEF WorkInv
<1>5. CacheInv'  BY DEF CacheInv
<1> QED  BY <1>3, <1>4, <1>5

\* CleanTemp preserves the invariant.
LEMMA CleanTempStep ==
  ASSUME IInv, NEW a \in Actor, CleanTemp(a)
  PROVE  IInv'
<1> USE PrepareAssumption DEF IInv, bounds, CleanTemp
<1>1. Bounded'  BY BoundsKept DEF Typed
<1>2. ActorTyped'  BY DEF Typed, ActorTyped
<1>3. Typed'  BY <1>1, <1>2 DEF Typed
<1>4. WorkInv'  BY DEF WorkInv
<1>5. CacheInv'  BY DEF CacheInv
<1> QED  BY <1>3, <1>4, <1>5

-----------------------------------------------------------------------------
\* Every step preserves the invariant, and every reachable state satisfies it.
LEMMA StepInv == IInv /\ [Next]_vars => IInv'
<1> SUFFICES ASSUME IInv, [Next]_vars PROVE IInv'  OBVIOUS
<1>1. CASE UNCHANGED vars
  BY <1>1 DEF vars, work, bounds, IInv, Typed, ActorTyped, Bounded, WorkInv, CacheInv
<1>2. ASSUME NEW a \in Actor, Step(a)  PROVE IInv'
  BY <1>2, CheckStep, FetchStep, PublishStep, VerifyStep, DropStep, ReadStep DEF Step
<1>3. ASSUME NEW p \in Package, Work(p)  PROVE IInv'
  BY <1>2, <1>3, EnterStep, StageStep DEF Work, Actor
<1>4. ASSUME NEW q \in Query, Ask(q) \/ Step(q)  PROVE IInv'
  BY <1>2, <1>4, AskStep DEF Actor
<1>5. ASSUME NEW ps \in SUBSET Package, Refuse(ps) \/ Start(ps)  PROVE IInv'
  BY <1>5, RefuseStep, StartStep
<1>6. CASE Finish \/ Release \/ Crash  BY <1>6, FinishStep, ReleaseStep, CrashStep
<1>7. ASSUME NEW f \in Archive, Clean(f)  PROVE IInv'  BY <1>7, CleanStep
<1>8. ASSUME NEW a \in Actor, CleanTemp(a)  PROVE IInv'  BY <1>8, CleanTempStep
<1> QED  BY <1>1, <1>3, <1>4, <1>5, <1>6, <1>7, <1>8 DEF Next

LEMMA SpecInv == Spec => []IInv
BY InitInv, StepInv, PTL DEF Spec

-----------------------------------------------------------------------------
\* Types are kept: the rename of a complete download is the only write to the
\* cache (writeAtomicLimit).
THEOREM TypeCorrect == Spec => []TypeOK
<1>1. IInv => TypeOK  BY DEF IInv, Typed, ActorTyped, Bounded, WorkInv, TypeOK
<1> QED  BY <1>1, SpecInv, PTL

\* A successful prepare staged only what it verified, for every package whose
\* archive nobody else downloads, whatever `clean` removed and whatever failed.
THEOREM VerifiedBeforeReady == Spec => []ReadyIsVerified
<1>1. IInv => ReadyIsVerified
  BY DEF IInv, Typed, WorkInv, CacheInv, ReadyIsVerified, Archived
<1> QED  BY <1>1, SpecInv, PTL

\* A failed prepare leaves no staging directory, nor does a transaction that has
\* ended, as long as the directories can be removed.
THEOREM NothingLeftOver == Spec => []NoLeftovers
<1>1. IInv => NoLeftovers  BY DEF IInv, WorkInv, NoLeftovers
<1> QED  BY <1>1, SpecInv, PTL

-----------------------------------------------------------------------------
(* A run fails only for a cause. *)

\* No two packages of the index have one archive file.
OneFileEach == \A p, o \in Archived : File[p] = File[o] => p = o

\* As long as there is no cause, what was downloaded is the package, what was
\* verified stays in the cache, and no goroutine of the run has failed.
CauseInv ==
    ~cause =>
      /\ \A a \in Actor : pc[a] = "publish" => temp[a] = Wants(a)
      /\ \A a \in Actor : pc[a] \in {"verify", "stage", "read"} /\ Wants(a) \in Archived => Valid(a)
      /\ \A a \in Actor : pc[a] # "drop"
      /\ main # "failed"
      /\ main = "run" => \A p \in plan : pc[p] # "failed"

\* Queries look into packages that have an archive.
LEMMA QueryArchived == \A a \in Query : Wants(a) \in Archived
BY PrepareAssumption DEF Wants, Archived

\* Whichever step is taken, nobody fails and no verified file changes without a cause.
LEMMA CauseStep ==
  ASSUME OneFileEach, IInv, CauseInv, [Next]_vars
  PROVE  CauseInv'
<1> SUFFICES ASSUME ~cause' PROVE CauseInv'  BY DEF CauseInv
<1> USE PrepareAssumption DEF IInv, CauseInv, Valid, bounds
<1>1. CASE UNCHANGED vars  BY <1>1 DEF vars, work, Wants
<1>2. ASSUME NEW ps \in SUBSET Package, Refuse(ps)  PROVE FALSE  BY <1>2 DEF Refuse
<1>3. ASSUME NEW ps \in SUBSET Package, Start(ps)  PROVE CauseInv'
  BY <1>3, QueryArchived DEF Start, Busy, Actor, Wants
<1>4. CASE Finish  BY <1>4 DEF Finish, work, NoFault, Fault, Wants
<1>5. CASE Release  BY <1>5 DEF Release, work, Wants
<1>6. CASE Crash  BY <1>6 DEF Crash, Fault
<1>7. ASSUME NEW p \in Package, Enter(p)  PROVE CauseInv'
  BY <1>7 DEF Enter, Typed, ActorTyped, Actor, Wants, Archived
<1>8. ASSUME NEW q \in Query, Ask(q)  PROVE CauseInv'
  BY <1>8 DEF Ask, Goto, Typed, ActorTyped, Actor, Wants
<1>9. ASSUME NEW a \in Actor, Check(a)  PROVE CauseInv'
  BY <1>9 DEF Check, Verified, Goto, Typed, ActorTyped, Actor, Wants
<1>10. ASSUME NEW a \in Actor, Fetch(a)  PROVE CauseInv'
  BY <1>10 DEF Fetch, Goto, NoFault, Fault, Typed, ActorTyped, Actor, Wants
<1>11. ASSUME NEW a \in Actor, Publish(a)  PROVE CauseInv'
  <2>1. Wants(a) \in Archived /\ temp[a] = Wants(a) /\ temp[a] # None
    BY <1>11 DEF Publish, WorkInv, CacheCalls, Archived, Content
  <2>2. /\ cache' = [cache EXCEPT ![File[Wants(a)]] = Wants(a)]
        /\ pc' = [pc EXCEPT ![a] = "verify"]
        /\ temp' = [temp EXCEPT ![a] = None]
        /\ UNCHANGED <<main, plan, cause>>
    BY <1>11, <2>1 DEF Publish, Goto
  <2>3. File[Wants(a)] \in DOMAIN cache  BY <2>1, ArchiveOf DEF Typed
  <2>4. \A b \in Actor : Wants(b)' = Wants(b)  BY DEF Wants
  <2>5. ASSUME NEW b \in Actor, pc'[b] \in {"verify", "stage", "read"}, Wants(b) \in Archived
        PROVE  cache'[File[Wants(b)]] = Wants(b)
    <3>1. CASE File[Wants(b)] = File[Wants(a)]  BY <2>1, <2>2, <2>3, <2>5, <3>1 DEF OneFileEach
    <3>2. CASE File[Wants(b)] # File[Wants(a)]  BY <2>2, <2>5, <3>2 DEF Typed, ActorTyped
    <3> QED  BY <3>1, <3>2
  <2> QED  BY <2>2, <2>4, <2>5 DEF Typed, ActorTyped
<1>12. ASSUME NEW a \in Actor, Verify(a)  PROVE CauseInv'
  BY <1>12 DEF Verify, Verified, Goto, WorkInv, CacheCalls, Typed, ActorTyped, Actor, Wants
<1>13. ASSUME NEW a \in Actor, Drop(a)  PROVE FALSE  BY <1>13 DEF Drop, NoFault, Fault
<1>14. ASSUME NEW p \in Package, Stage(p)  PROVE CauseInv'
  BY <1>14 DEF Stage, Goto, End, NoFault, Fault, Typed, ActorTyped, Actor, Wants, Archived
<1>15. ASSUME NEW a \in Actor, Read(a)  PROVE CauseInv'
  BY <1>15 DEF Read, Goto, End, NoFault, Fault, WorkInv, CacheCalls, Typed, ActorTyped, Actor, Wants
<1>16. ASSUME NEW f \in Archive, Clean(f)  PROVE FALSE  BY <1>16 DEF Clean
<1>17. ASSUME NEW a \in Actor, CleanTemp(a)  PROVE FALSE  BY <1>17 DEF CleanTemp
<1>18. ASSUME NEW a \in Actor, Step(a)  PROVE CauseInv'
  BY <1>9, <1>10, <1>11, <1>12, <1>13, <1>15, <1>18 DEF Step
<1> QED
  BY <1>1, <1>2, <1>3, <1>4, <1>5, <1>6, <1>7, <1>8, <1>14, <1>16, <1>17, <1>18
  DEF Next, Work, Actor

\* A run of prepare fails only if a package was refused or, while it ran, a call
\* failed in it or in a query, or `clean` took a file: no content of the cache makes
\* it fail, whether of an earlier build, of a run that died, or published by a query
\* at the same time, provided no two packages share a file name.
THEOREM FailureHasCause == OneFileEach /\ Spec => []FailsOnlyForCause
<1>1. Init => CauseInv  BY DEF Init, CauseInv, Actor
<1>2. OneFileEach /\ IInv /\ CauseInv /\ [Next]_vars => CauseInv'  BY CauseStep
<1>3. CauseInv => FailsOnlyForCause  BY DEF CauseInv, FailsOnlyForCause
<1>4. CASE OneFileEach  BY <1>1, <1>2, <1>3, <1>4, SpecInv, PTL DEF Spec
<1> QED  BY <1>4
=============================================================================
