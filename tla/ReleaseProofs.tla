---------------------------- MODULE ReleaseProofs ----------------------------
(***************************************************************************)
(* Theorems about Release for every number of processes, sources, releases *)
(* and indexes, whatever the repository publishes and signs meanwhile.     *)
(***************************************************************************)
EXTENDS Release, TLAPS

PCs == {"idle", "load", "fetch", "sign", "store", "ready"}
Process == [pc : PCs, kind : AllKinds \cup {None}, require : BOOLEAN,
            want : ReleaseIds \cup {None}, raw : Raws \cup {None},
            sig : Raws \cup {None}, fetched : BOOLEAN]

\* The inductive invariant: the types, with the shape of a process and of the
\* database, and what is signed.
Shaped ==
    /\ proc \in [Proc -> Process]
    /\ db = [rel |-> db.rel, abi |-> db.abi, pkgs |-> db.pkgs]
Repository ==
    /\ served \in [Source -> Raws] /\ signed \subseteq Raws
    /\ sigFile \in signed \cup {None}
    /\ cache \in {None} \cup [raw : Raws, sig : {None} \cup signed]
Bounded == commands \in 0..MaxCommands /\ publications \in 0..MaxPublish
Held ==
    /\ lock \in Proc \cup {None}
    /\ \A p \in Proc : lock = p <=> proc[p].pc # "idle" /\ proc[p].kind \in Locked

\* An index at hand is valid, and with the requirement it is signed when it is
\* used; the signature at hand is one the key made.
AtHand(p) ==
    /\ proc[p].pc \in {"sign", "store", "ready"} => proc[p].raw \in Raws /\ Valid(proc[p].raw)
    /\ proc[p].pc \in {"idle", "load", "fetch"} => proc[p].raw = None
    /\ proc[p].sig \in signed \cup {None}
    /\ proc[p].kind = "migrate" => proc[p].want \in ReleaseIds
    /\ proc[p].pc = "ready" /\ proc[p].require => proc[p].raw \in signed

IInv == Shaped /\ Repository /\ Bounded /\ Held /\ \A p \in Proc : AtHand(p)

\* What the invariant is for.
LEMMA IInvImplies == IInv => TypeOK /\ AuthenticIndex
BY DEF IInv, TypeOK, AuthenticIndex, Shaped, Repository, Bounded, Held, AtHand, Process, PCs

LEMMA InitInv == Init => IInv
<1> SUFFICES ASSUME Init PROVE IInv  OBVIOUS
<1> USE ReleaseAssumption DEF Init, Idle
<1>1. Shaped  BY DEF Shaped, Process, PCs
<1>2. Repository  BY DEF Repository
<1>3. Bounded  BY DEF Bounded
<1>4. Held  BY DEF Held
<1>5. \A p \in Proc : AtHand(p)  BY DEF AtHand, AllKinds
<1> QED  BY <1>1, <1>2, <1>3, <1>4, <1>5 DEF IInv

\* A step that only changes processes, and only one, keeps what is true of the others.
LEMMA OthersAtHand ==
  ASSUME IInv, NEW p \in Proc, AtHand(p)', signed \subseteq signed',
         \A q \in Proc \ {p} : proc'[q] = proc[q]
  PROVE  \A q \in Proc : AtHand(q)'
BY DEF IInv, AtHand

\* A process that ends is idle and no longer has the lock.
LEMMA EndStep ==
  ASSUME IInv, NEW p \in Proc, End(p), UNCHANGED repository, UNCHANGED commands,
         cache' \in {None} \cup [raw : Raws, sig : {None} \cup signed],
         db' = [rel |-> db'.rel, abi |-> db'.abi, pkgs |-> db'.pkgs]
  PROVE  IInv'
<1> USE ReleaseAssumption DEF IInv, End, Idle, repository
<1>1. proc' \in [Proc -> Process]  BY DEF Shaped, Process, PCs
<1>2. Shaped'  BY <1>1 DEF Shaped
<1>3. Repository'  BY DEF Repository
<1>4. Bounded'  BY DEF Bounded
<1>5. Held'  BY DEF Held, Shaped
<1>6. AtHand(p)'  BY DEF AtHand, Shaped, AllKinds
<1>7. \A q \in Proc : AtHand(q)'  BY <1>6, OthersAtHand DEF Shaped
<1> QED  BY <1>2, <1>3, <1>4, <1>5, <1>7

\* A process that goes on without ending keeps its kind, and with it the lock.
LEMMA GoOnStep ==
  ASSUME IInv, NEW p \in Proc, NEW pc \in PCs \ {"idle"}, proc[p].pc # "idle",
         UNCHANGED << repository, commands, lock >>,
         proc' \in [Proc -> Process],
         \A q \in Proc \ {p} : proc'[q] = proc[q],
         proc'[p].pc = pc, proc'[p].kind = proc[p].kind, AtHand(p)',
         cache' \in {None} \cup [raw : Raws, sig : {None} \cup signed],
         db' = [rel |-> db'.rel, abi |-> db'.abi, pkgs |-> db'.pkgs]
  PROVE  IInv'
<1> USE DEF IInv, repository
<1>1. Shaped'  BY DEF Shaped
<1>2. Repository'  BY DEF Repository
<1>3. Bounded'  BY DEF Bounded
<1>4. Held'  BY DEF Held
<1>5. \A q \in Proc : AtHand(q)'  BY OthersAtHand
<1> QED  BY <1>1, <1>2, <1>3, <1>4, <1>5

LEMMA BeginStep ==
  ASSUME IInv, NEW p \in Proc, NEW kind \in Kinds, NEW require \in BOOLEAN,
         NEW want \in ReleaseIds, Begin(p, kind, require, want)
  PROVE  IInv'
<1> USE ReleaseAssumption DEF IInv, Begin, Idle, repository
<1>1. proc' \in [Proc -> Process]  BY DEF Shaped, Process, PCs
<1>2. Shaped'  BY <1>1 DEF Shaped
<1>3. Repository'  BY DEF Repository
<1>4. Bounded'  BY DEF Bounded
<1>5. Held'  BY DEF Held, Shaped
<1>6. AtHand(p)'  BY DEF AtHand, Shaped
<1>7. \A q \in Proc : AtHand(q)'  BY <1>6, OthersAtHand DEF Shaped
<1> QED  BY <1>2, <1>3, <1>4, <1>5, <1>7

LEMMA LoadStep ==
  ASSUME IInv, NEW p \in Proc, Load(p)
  PROVE  IInv'
<1> USE DEF Load
<1>1. CASE End(p)  BY <1>1, EndStep DEF IInv, Shaped, Repository
<1>2. CASE Usable(proc[p].require)
           /\ proc' = [proc EXCEPT ![p].pc = "ready", ![p].raw = cache.raw] /\ UNCHANGED lock
  <2>1. proc' \in [Proc -> Process]
    BY <1>2 DEF IInv, Shaped, Repository, Process, PCs, Usable
  <2>2. AtHand(p)'
    BY <1>2, ReleaseAssumption DEF IInv, Shaped, Repository, AtHand, Usable, Process, repository
  <2> QED  BY <1>2, <2>1, <2>2, GoOnStep DEF IInv, Shaped, Repository, PCs
<1>3. CASE proc' = [proc EXCEPT ![p].pc = "fetch"] /\ UNCHANGED lock
  <2>1. proc' \in [Proc -> Process]  BY <1>3 DEF IInv, Shaped, Process, PCs
  <2>2. AtHand(p)'  BY <1>3 DEF IInv, Shaped, AtHand, repository
  <2> QED  BY <1>3, <2>1, <2>2, GoOnStep DEF IInv, Shaped, Repository, PCs
<1> QED  BY <1>1, <1>2, <1>3

LEMMA FetchStep ==
  ASSUME IInv, NEW p \in Proc, Fetch(p)
  PROVE  IInv'
<1> USE DEF Fetch
<1>1. CASE End(p)  BY <1>1, EndStep DEF IInv, Shaped, Repository
<1>2. CASE ~End(p)
  <2> DEFINE raw == served[From(p)]
             pc == IF proc[p].require THEN "sign" ELSE Fetched(p)
  <2>1. /\ Valid(raw) /\ UNCHANGED lock
        /\ proc' = [proc EXCEPT ![p].raw = raw, ![p].pc = pc]
    BY <1>2
  <2>2. raw \in Raws
    <3>1. From(p) \in Source
      BY ReleaseAssumption DEF From, IInv, AtHand
    <3> QED  BY <3>1 DEF IInv, Repository
  <2>3. pc \in PCs \ {"idle"} /\ pc # "load" /\ pc # "fetch"  BY DEF PCs, Fetched
  <2> HIDE DEF raw, pc
  <2>4. proc' \in [Proc -> Process]  BY <2>1, <2>2, <2>3 DEF IInv, Shaped, Process
  <2>5. pc = "ready" => ~proc[p].require  BY DEF pc
  <2>6. AtHand(p)'
    BY <2>1, <2>2, <2>3, <2>5 DEF IInv, Shaped, AtHand, Process, repository
  <2> QED  BY <2>1, <2>3, <2>4, <2>6, GoOnStep DEF IInv, Shaped, Repository
<1> QED  BY <1>1, <1>2

LEMMA FetchSignatureStep ==
  ASSUME IInv, NEW p \in Proc, FetchSignature(p)
  PROVE  IInv'
<1> USE DEF FetchSignature
<1>1. CASE End(p)  BY <1>1, EndStep DEF IInv, Shaped, Repository
<1>2. CASE ~End(p)
  <2>1. /\ sigFile = proc[p].raw /\ UNCHANGED lock
        /\ proc' = [proc EXCEPT ![p].sig = sigFile, ![p].pc = Fetched(p)]
    BY <1>2
  <2>2. Fetched(p) \in {"ready", "store"}  BY DEF Fetched
  <2>3. proc' \in [Proc -> Process]
    BY <2>1, <2>2 DEF IInv, Shaped, Process, PCs
  <2>4. sigFile \in signed
    BY <2>1, ReleaseAssumption DEF IInv, AtHand, Repository
  <2>5. AtHand(p)'
    BY <2>1, <2>2, <2>4 DEF IInv, Shaped, AtHand, Process, repository
  <2> QED  BY <2>1, <2>2, <2>3, <2>5, GoOnStep DEF IInv, Shaped, Repository, PCs
<1> QED  BY <1>1, <1>2

LEMMA StoreStep ==
  ASSUME IInv, NEW p \in Proc, Store(p)
  PROVE  IInv'
<1> USE DEF Store
<1>1. cache' \in {None} \cup [raw : Raws, sig : {None} \cup signed]
  BY DEF IInv, AtHand, Repository
<1>2. CASE End(p)  BY <1>1, <1>2, EndStep DEF IInv, Shaped, repository
<1>3. CASE proc' = [proc EXCEPT ![p].pc = "load", ![p].fetched = TRUE,
                                ![p].raw = None, ![p].sig = None] /\ UNCHANGED lock
  <2> DEFINE later == [proc[p] EXCEPT !.pc = "load", !.fetched = TRUE, !.raw = None, !.sig = None]
  <2>1. proc' \in [Proc -> Process]
    <3>1. proc' = [proc EXCEPT ![p] = later]  BY <1>3
    <3>2. later \in Process  BY DEF IInv, Shaped, Process, PCs
    <3> HIDE DEF later
    <3> QED  BY <3>1, <3>2 DEF IInv, Shaped
  <2>2. AtHand(p)'  BY <1>3 DEF IInv, Shaped, AtHand
  <2> QED  BY <1>1, <1>3, <2>1, <2>2, GoOnStep DEF IInv, Shaped, PCs
<1> QED  BY <1>2, <1>3

LEMMA MigrateStep ==
  ASSUME IInv, NEW p \in Proc, Migrate(p)
  PROVE  IInv'
<1> USE DEF Migrate
<1>1. db' = [rel |-> db'.rel, abi |-> db'.abi, pkgs |-> db'.pkgs]
  BY DEF IInv, Shaped, Saved
<1>2. CASE End(p)  BY <1>1, <1>2, EndStep DEF IInv, Repository
<1>3. CASE proc' = [proc EXCEPT ![p].pc = "store"] /\ UNCHANGED lock
  <2>1. proc' \in [Proc -> Process]  BY <1>3 DEF IInv, Shaped, Process, PCs
  <2>2. AtHand(p)'  BY <1>3 DEF IInv, Shaped, AtHand, repository
  <2> QED  BY <1>1, <1>3, <2>1, <2>2, GoOnStep DEF IInv, Repository, PCs
<1> QED  BY <1>2, <1>3

\* The last step of the other commands.
LEMMA ApplyStep ==
  ASSUME IInv, NEW p \in Proc,
         Apply(p) \/ ApplyLocal(p) \/ ApplyRemove(p) \/ Answer(p) \/ Crash(p)
  PROVE  IInv'
<1>1. End(p) /\ UNCHANGED << repository, cache, commands >>
  BY DEF Apply, ApplyLocal, ApplyRemove, Answer, Crash
<1>2. db' = [rel |-> db'.rel, abi |-> db'.abi, pkgs |-> db'.pkgs]
  <2>1. CASE Apply(p)  BY <2>1 DEF Apply, Saved, IInv, Shaped
  <2>2. CASE ApplyLocal(p)  BY <2>2 DEF ApplyLocal, Saved, IInv, Shaped
  <2>3. CASE ApplyRemove(p)  BY <2>3 DEF ApplyRemove, IInv, Shaped
  <2>4. CASE Answer(p) \/ Crash(p)  BY <2>4 DEF Answer, Crash, IInv, Shaped
  <2> QED  BY <2>1, <2>2, <2>3, <2>4
<1> QED  BY <1>1, <1>2, EndStep DEF IInv, Repository

\* The maintainers change what is served and signed, and `clean` the cache.
LEMMA OutsideStep ==
  ASSUME IInv, Clean \/ \E s \in Source : Sign(s) \/ \E raw \in Raws : Publish(s, raw)
  PROVE  IInv'
<1> USE ReleaseAssumption DEF IInv
<1>1. UNCHANGED << db, lock, proc >> /\ signed \subseteq signed'
  BY DEF Clean, Sign, Publish, repository
<1>2. Repository'  BY DEF Clean, Sign, Publish, Repository, repository
<1>3. Bounded'  BY DEF Clean, Sign, Publish, Bounded, repository
<1>4. \A p \in Proc : AtHand(p)'  BY <1>1 DEF AtHand
<1>5. Shaped' /\ Held'  BY <1>1 DEF Shaped, Held
<1> QED  BY <1>2, <1>3, <1>4, <1>5

LEMMA StutterStep == IInv /\ UNCHANGED vars => IInv'
BY DEF IInv, vars, Shaped, Repository, Bounded, Held, AtHand

LEMMA NextInv == IInv /\ [Next]_vars => IInv'
<1> SUFFICES ASSUME IInv, [Next]_vars PROVE IInv'  OBVIOUS
<1>1. CASE UNCHANGED vars  BY <1>1, StutterStep
<1>2. ASSUME NEW p \in Proc, NEW kind \in Kinds, NEW require \in BOOLEAN,
             NEW want \in ReleaseIds, Begin(p, kind, require, want)
      PROVE  IInv'
  BY <1>2, BeginStep
<1>3. ASSUME NEW p \in Proc, Load(p) \/ Fetch(p) \/ FetchSignature(p) \/ Store(p) \/ Migrate(p)
      PROVE  IInv'
  BY <1>3, LoadStep, FetchStep, FetchSignatureStep, StoreStep, MigrateStep
<1>4. ASSUME NEW p \in Proc,
             Apply(p) \/ ApplyLocal(p) \/ ApplyRemove(p) \/ Answer(p) \/ Crash(p)
      PROVE  IInv'
  BY <1>4, ApplyStep
<1>5. CASE Clean \/ \E s \in Source : Sign(s) \/ \E raw \in Raws : Publish(s, raw)
  BY <1>5, OutsideStep
<1>6. CASE Quiet  BY <1>6, StutterStep DEF Quiet
<1> QED  BY <1>1, <1>2, <1>3, <1>4, <1>5, <1>6 DEF Next

\* The invariant holds in every behaviour.
LEMMA Invariance == Spec => []IInv
BY InitInv, NextInv, PTL DEF Spec

\* Type correctness: the lock is held exactly by a running transaction, and an index
\* at hand was validated.
THEOREM TypeCorrect == Spec => []TypeOK
BY Invariance, IInvImplies, PTL

\* A command that requires signatures uses only a signed index: FetchIndexData and
\* LoadCachedIndexFor check the signature on both ways an index comes in, and no
\* other process can put an unsigned one in between.
THEOREM AlwaysAuthentic == Spec => []AuthenticIndex
BY Invariance, IInvImplies, PTL

\* Saving a plan of a release into a database keeps every other package.
LEMMA SavedKeeps ==
  ASSUME NEW release, NEW new, db' = Saved(release, new)
  PROVE  /\ db'.rel = release.rel
         /\ DOMAIN db'.pkgs = DOMAIN new \cup DOMAIN db.pkgs
         /\ \A n \in DOMAIN new : db'.pkgs[n] = new[n]
         /\ \A n \in DOMAIN db'.pkgs : n \notin DOMAIN new => Kept(n)
BY DEF Saved, With, Kept

\* A step keeps the release, as Pinned says of it.
Pin ==
  ~Acting({"migrate"}) =>
    /\ db'.rel # db.rel => db.rel = None
    /\ Acting({"local"})
         \/ \A n \in DOMAIN db'.pkgs : Kept(n) \/ db'.pkgs[n].rel = db'.rel

LEMMA PinUnchanged == UNCHANGED db => Pin
BY DEF Pin, Kept

LEMMA ActingStep ==
  ASSUME IInv, NEW p \in Proc, proc[p].pc = "ready", NEW kinds, proc[p].kind \in kinds,
         proc'[p].pc # "ready"
  PROVE  Acting(kinds)
BY DEF Acting

LEMMA PinStep == IInv /\ [Next]_vars => Pin
<1> SUFFICES ASSUME IInv, [Next]_vars PROVE Pin  OBVIOUS
<1>1. ASSUME NEW p \in Proc, Apply(p) PROVE Pin
  <2> DEFINE raw == proc[p].raw
  <2>1. CASE UNCHANGED db  BY <2>1, PinUnchanged
  <2>2. ASSUME Pins(raw), NEW names \in SUBSET Names(raw),
               db' = Saved(Adopted(raw), FromIndex(raw, names))
        PROVE  Pin
    <3>1. Adopted(raw).rel = raw.rel /\ (db.rel # None => raw.rel = db.rel)
      BY <2>2 DEF Pins, Adopted
    <3>2. db'.rel = raw.rel  BY <2>2, <3>1, SavedKeeps
    <3>3. \A n \in DOMAIN db'.pkgs : Kept(n) \/ db'.pkgs[n].rel = raw.rel
      <4>1. \A n \in DOMAIN FromIndex(raw, names) : FromIndex(raw, names)[n].rel = raw.rel
        BY DEF FromIndex
      <4> QED  BY <2>2, <4>1, SavedKeeps
    <3> QED  BY <3>1, <3>2, <3>3 DEF Pin
  <2> QED  BY <1>1, <2>1, <2>2 DEF Apply
<1>2. ASSUME NEW p \in Proc, ApplyLocal(p) PROVE Pin
  <2>1. CASE UNCHANGED db  BY <2>1, PinUnchanged
  <2>2. Acting({"local"})
    <3>1. proc'[p].pc # "ready"  BY <1>2 DEF ApplyLocal, End, Idle, IInv, Shaped
    <3> QED  BY <1>2, <3>1, ActingStep DEF ApplyLocal
  <2>3. ASSUME NEW raw, NEW new, db' = Saved(Adopted(raw), new)
        PROVE  Pin
    <3>1. db.rel # None => db'.rel = db.rel  BY <2>3, SavedKeeps DEF Adopted
    <3> QED  BY <2>2, <3>1 DEF Pin
  <2> QED  BY <1>2, <2>1, <2>3 DEF ApplyLocal
<1>3. ASSUME NEW p \in Proc, ApplyRemove(p) PROVE Pin
  <2>1. CASE UNCHANGED db  BY <2>1, PinUnchanged
  <2>2. ASSUME NEW names, db' = [db EXCEPT !.pkgs = [n \in DOMAIN @ \ names |-> @[n]]]
        PROVE  Pin
    <3>1. db'.rel = db.rel /\ db'.pkgs = [n \in DOMAIN db.pkgs \ names |-> db.pkgs[n]]
      BY <2>2 DEF IInv, Shaped
    <3> QED  BY <3>1 DEF Pin, Kept
  <2> QED  BY <1>3, <2>1, <2>2 DEF ApplyRemove
<1>4. ASSUME NEW p \in Proc, Migrate(p) PROVE Pin
  <2>1. proc'[p].pc # "ready"  BY <1>4 DEF Migrate, End, Idle, IInv, Shaped, Process
  <2>2. Acting({"migrate"})  BY <1>4, <2>1, ActingStep DEF Migrate
  <2> QED  BY <2>2 DEF Pin
<1>5. ASSUME NEW p \in Proc,
             \/ \E kind \in Kinds, require \in BOOLEAN, want \in ReleaseIds :
                  Begin(p, kind, require, want)
             \/ Load(p) \/ Fetch(p) \/ FetchSignature(p) \/ Store(p) \/ Answer(p) \/ Crash(p)
      PROVE  Pin
  BY <1>5, PinUnchanged DEF Begin, Load, Fetch, FetchSignature, Store, Answer, Crash
<1>6. CASE \/ Clean \/ Quiet \/ UNCHANGED vars
           \/ \E s \in Source : Sign(s) \/ \E raw \in Raws : Publish(s, raw)
  BY <1>6, PinUnchanged DEF Clean, Quiet, vars, Sign, Publish
<1> QED  BY <1>1, <1>2, <1>3, <1>4, <1>5, <1>6 DEF Next

\* No step but an explicit release upgrade changes the release of the database, and
\* none but it and a local install installs from another release, whatever index
\* `update` leaves in the cache meanwhile.
THEOREM ReleaseStaysPinned == Spec => Pinned
<1>1. IInv /\ [Next]_vars => [Pin]_vars  BY PinStep
<1>2. Spec => [][Pin]_vars  BY Invariance, <1>1, PTL DEF Spec
<1> QED  BY <1>2 DEF Pin, Pinned
=============================================================================
