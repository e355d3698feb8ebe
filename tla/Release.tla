------------------------------- MODULE Release -------------------------------
(***************************************************************************)
(* Where the repository index comes from and which release an install is   *)
(* from: FetchIndexData with its detached signature, the index cache       *)
(* (CacheFetchedIndexFor, LoadCachedIndexFor), Manager.index and Update,   *)
(* the release checks of runTransaction and InstallLocal, and              *)
(* UpgradeRelease.                                                         *)
(*                                                                         *)
(* `update` and the queries take no lock: they fetch and replace the cache *)
(* while a transaction runs, and the repository changes while they do.     *)
(* Each command is a process with its own environment, so one run may      *)
(* require signatures and the next not.  What the transactions do to files *)
(* and to the database file is in Transaction and Store.                   *)
(***************************************************************************)
EXTENDS Naturals

CONSTANTS
    Proc,        \* yspm processes
    Source,      \* repository URLs
    Home,        \* the URL of m.repository
    ReleaseIds,  \* release identifiers users name
    Raws,        \* index files the repository may serve
    Kinds,       \* commands users run
    SourceOf,    \* ReleaseRepositoryURL: release identifiers to URLs
    DefaultAbi,  \* the ABI of a system without a database
    None,        \* no index, no signature, no release, no process
    MaxCommands, \* bound on commands in a behaviour
    MaxPublish   \* bound on changes of the repository

AllKinds == {"update", "query", "install", "upgrade", "local", "remove", "migrate"}
Locked == AllKinds \ {"update", "query"}

\* An index and its packages: complete says ValidateInstallPackage accepts one.
IndexFields == {"rel", "channel", "abi", "pkgs"}
PackageFields == {"name", "abi", "meta", "complete"}

ASSUME ReleaseAssumption ==
    /\ Home \in Source /\ SourceOf \in [ReleaseIds -> Source]
    /\ \A r \in Raws : /\ DOMAIN r = IndexFields
                       /\ \A p \in r.pkgs : DOMAIN p = PackageFields
    /\ Kinds \subseteq AllKinds
    /\ None \notin Raws /\ None \notin AllKinds /\ None \notin ReleaseIds /\ None \notin Proc
    /\ {MaxCommands, MaxPublish} \subseteq Nat

VARIABLES
    served,     \* the index file behind each URL
    sigFile,    \* the index the file behind the signature URL signs
    signed,     \* every index the repository key ever signed
    cache,      \* index.json of the cache directory: an index and its signature
    db,         \* release, ABI and packages of the package database
    lock,       \* holder of the transaction lock
    proc,       \* what each process does, in which environment
    commands, publications

vars == <<served, sigFile, signed, cache, db, lock, proc, commands, publications>>
repository == <<served, sigFile, signed, publications>>

\* Idle processes.
Idle == [pc |-> "idle", kind |-> None, require |-> FALSE, want |-> None,
         raw |-> None, sig |-> None, fetched |-> FALSE]

-----------------------------------------------------------------------------
(* ValidateStableIndex.                                                    *)
Valid(raw) ==
    /\ raw.rel # "" /\ raw.channel = "stable" /\ raw.abi # ""
    /\ \A p \in raw.pkgs : p.complete /\ (p.abi = raw.abi \/ (p.meta /\ p.abi = ""))
    /\ \A p, q \in raw.pkgs : p.name = q.name => p = q

BugUnsignedCacheUsed(require) ==
    /\ cache # None
    /\ cache.sig # None => cache.sig = cache.raw
    /\ Valid(cache.raw)

\* LoadCachedIndexFor accepts the cache.  A file of the old format holds no
\* signature and is treated as one without.
Usable(require) ==
    /\ cache # None
    /\ require => cache.sig # None
    /\ cache.sig # None => cache.sig = cache.raw
    /\ Valid(cache.raw)

From(p) == IF proc[p].kind = "migrate" THEN SourceOf[proc[p].want] ELSE Home

-----------------------------------------------------------------------------
Init ==
    /\ served \in [Source -> Raws]
    /\ sigFile = None /\ signed = {}
    /\ cache \in {None} \cup [raw : Raws, sig : {None}]
    /\ db = [rel |-> None, abi |-> DefaultAbi, pkgs |-> <<>>]
    /\ lock = None
    /\ proc = [p \in Proc |-> Idle]
    /\ commands = 0 /\ publications = 0

BugEndKeepsLock(p) ==
    /\ proc' = [proc EXCEPT ![p] = Idle]
    /\ UNCHANGED lock

\* The command returns, or its process dies: the kernel drops its lock.
End(p) ==
    /\ proc' = [proc EXCEPT ![p] = Idle]
    /\ lock' = IF lock = p THEN None ELSE lock

\* `release upgrade` of the installed release is refused.
Begin(p, kind, require, want) ==
    /\ proc[p].pc = "idle"
    /\ commands < MaxCommands
    /\ kind = "migrate" => db.rel # want
    /\ kind \in Locked => lock = None
    /\ lock' = IF kind \in Locked THEN p ELSE lock
    /\ proc' = [proc EXCEPT ![p] =
         [Idle EXCEPT !.pc = IF kind \in {"update", "migrate"} THEN "fetch" ELSE "load",
                      !.kind = kind, !.require = require,
                      !.want = IF kind = "migrate" THEN want ELSE None]]
    /\ commands' = commands + 1
    /\ UNCHANGED <<repository, cache, db>>

\* index: the cached index, otherwise one Update and the cached index again.
Load(p) ==
    /\ proc[p].pc = "load"
    /\ \/ /\ Usable(proc[p].require)
          /\ proc' = [proc EXCEPT ![p].pc = "ready", ![p].raw = cache.raw]
          /\ UNCHANGED lock
       \/ /\ ~Usable(proc[p].require)
          /\ ~proc[p].fetched
          /\ proc' = [proc EXCEPT ![p].pc = "fetch"]
          /\ UNCHANGED lock
       \/ /\ ~Usable(proc[p].require)
          /\ proc[p].fetched
          /\ End(p)
    /\ UNCHANGED <<repository, cache, db, commands>>

\* FetchIndexData reads and validates the index ...
Fetched(p) == IF proc[p].kind = "migrate" THEN "ready" ELSE "store"
Fetch(p) ==
    /\ proc[p].pc = "fetch"
    /\ \/ /\ Valid(served[From(p)])
          /\ proc' = [proc EXCEPT ![p].raw = served[From(p)],
                                  ![p].pc = IF proc[p].require THEN "sign" ELSE Fetched(p)]
          /\ UNCHANGED lock
       \/ End(p)
    /\ UNCHANGED <<repository, cache, db, commands>>

\* ... and then, from the one URL there is for it, the signature.
FetchSignature(p) ==
    /\ proc[p].pc = "sign"
    /\ \/ /\ sigFile = proc[p].raw
          /\ proc' = [proc EXCEPT ![p].sig = sigFile, ![p].pc = Fetched(p)]
          /\ UNCHANGED lock
       \/ End(p)
    /\ UNCHANGED <<repository, cache, db, commands>>

\* CacheFetchedIndexFor replaces the cache file by a rename, or fails.
Store(p) ==
    /\ proc[p].pc = "store"
    /\ \/ /\ proc[p].require => proc[p].sig = proc[p].raw
          /\ cache' = [raw |-> proc[p].raw, sig |-> proc[p].sig]
          /\ \/ /\ proc[p].kind \in {"update", "migrate"}
                /\ End(p)
             \/ /\ proc[p].kind \notin {"update", "migrate"}
                /\ proc' = [proc EXCEPT ![p].pc = "load", ![p].fetched = TRUE,
                                        ![p].raw = None, ![p].sig = None]
                /\ UNCHANGED lock
       \/ End(p) /\ UNCHANGED cache
    /\ UNCHANGED <<repository, db, commands>>

-----------------------------------------------------------------------------
\* Packages of the index, as installedFromStage records them.
Names(raw) == {q.name : q \in raw.pkgs}
FromIndex(raw, names) ==
    [n \in names |-> [rel |-> raw.rel, abi |-> (CHOOSE q \in raw.pkgs : q.name = n).abi]]

\* A package archive of the user belongs to no release.
FromArchive(raw, names) == [n \in names |-> [rel |-> None, abi |-> raw.abi]]

\* A database without a release takes the one of the index, and its ABI.
Adopted(raw) == IF db.rel = None THEN [rel |-> raw.rel, abi |-> raw.abi]
                                 ELSE [rel |-> db.rel, abi |-> db.abi]

\* New records take the place of the ones of the same name.
With(old, new) ==
    [n \in DOMAIN old \cup DOMAIN new |-> IF n \in DOMAIN new THEN new[n] ELSE old[n]]

Saved(release, new) == [rel |-> release.rel, abi |-> release.abi, pkgs |-> With(db.pkgs, new)]

BugPinsNothing(raw) == TRUE

\* "installed release ... differs from repository": the command goes no further.
Pins(raw) == Adopted(raw).rel = raw.rel

\* runTransaction: it saves a plan from the index, an empty one if nothing is
\* to do, or fails.  An upgrade adds packages as well, as dependencies.
Apply(p) ==
    LET raw == proc[p].raw
    IN  /\ proc[p].pc = "ready"
        /\ proc[p].kind \in {"install", "upgrade"}
        /\ \/ /\ Pins(raw)
              /\ \E names \in SUBSET Names(raw) :
                   db' = Saved(Adopted(raw), FromIndex(raw, names))
           \/ UNCHANGED db
        /\ End(p)
        /\ UNCHANGED <<repository, cache, commands>>

\* InstallLocal: packages from archives that have the ABI of the index, and
\* their dependencies from the index.  Nothing compares the releases.
ApplyLocal(p) ==
    LET raw == proc[p].raw
    IN  /\ proc[p].pc = "ready"
        /\ proc[p].kind = "local"
        /\ \/ \E own, needed \in SUBSET Names(raw) :
                db' = Saved(Adopted(raw), With(FromIndex(raw, needed), FromArchive(raw, own)))
           \/ UNCHANGED db
        /\ End(p)
        /\ UNCHANGED <<repository, cache, commands>>

\* RemoveMany wants the index as well, and one of the release it has.
ApplyRemove(p) ==
    /\ proc[p].pc = "ready"
    /\ proc[p].kind = "remove"
    /\ \/ /\ Pins(proc[p].raw)
          /\ \E names \in SUBSET DOMAIN db.pkgs :
               db' = [db EXCEPT !.pkgs = [n \in DOMAIN @ \ names |-> @[n]]]
       \/ UNCHANGED db
    /\ End(p)
    /\ UNCHANGED <<repository, cache, commands>>

\* UpgradeRelease: the database is saved with the release of the index, and
\* only then is the index cached.
Migrate(p) ==
    /\ proc[p].pc = "ready"
    /\ proc[p].kind = "migrate"
    /\ \/ /\ \E names \in SUBSET Names(proc[p].raw) :
               db' = Saved(proc[p].raw, FromIndex(proc[p].raw, names))
          /\ proc' = [proc EXCEPT ![p].pc = "store"]
          /\ UNCHANGED lock
       \/ End(p) /\ UNCHANGED db
    /\ UNCHANGED <<repository, cache, commands>>

Answer(p) ==
    /\ proc[p].pc = "ready"
    /\ proc[p].kind = "query"
    /\ End(p)
    /\ UNCHANGED <<repository, cache, db, commands>>

\* `clean` deletes the cache directory whatever else runs.
Clean ==
    /\ commands < MaxCommands
    /\ commands' = commands + 1
    /\ cache' = None
    /\ UNCHANGED <<repository, db, lock, proc>>

Crash(p) ==
    /\ proc[p].pc # "idle"
    /\ End(p)
    /\ UNCHANGED <<repository, cache, db, commands>>

-----------------------------------------------------------------------------
\* The maintainers publish another index, and sign one they published.
Publish(s, raw) ==
    /\ publications < MaxPublish
    /\ served[s] # raw
    /\ served' = [served EXCEPT ![s] = raw]
    /\ publications' = publications + 1
    /\ UNCHANGED <<sigFile, signed, cache, db, lock, proc, commands>>

Sign(s) ==
    /\ publications < MaxPublish
    /\ sigFile # served[s]
    /\ sigFile' = served[s]
    /\ signed' = signed \cup {served[s]}
    /\ publications' = publications + 1
    /\ UNCHANGED <<served, cache, db, lock, proc, commands>>

Quiet == (\A p \in Proc : proc[p].pc = "idle") /\ UNCHANGED vars

-----------------------------------------------------------------------------
Next ==
    \/ \E p \in Proc :
         \/ \E kind \in Kinds, require \in BOOLEAN, want \in ReleaseIds :
              Begin(p, kind, require, want)
         \/ Load(p) \/ Fetch(p) \/ FetchSignature(p) \/ Store(p)
         \/ Apply(p) \/ ApplyLocal(p) \/ ApplyRemove(p) \/ Migrate(p) \/ Answer(p)
         \/ Crash(p)
    \/ Clean
    \/ \E s \in Source : Sign(s) \/ \E raw \in Raws : Publish(s, raw)
    \/ Quiet

Spec == Init /\ [][Next]_vars

-----------------------------------------------------------------------------
(* Properties.                                                             *)

\* Every variable has its type; the lock is held exactly while a transaction
\* runs, and an index at hand is one that was validated.
TypeOK ==
    /\ served \in [Source -> Raws] /\ sigFile \in signed \cup {None} /\ signed \subseteq Raws
    /\ cache \in {None} \cup [raw : Raws, sig : {None} \cup signed]
    /\ \A p \in Proc :
         /\ proc[p].pc \in {"idle", "load", "fetch", "sign", "store", "ready"}
         /\ proc[p].pc \in {"sign", "store", "ready"} => Valid(proc[p].raw)
         /\ proc[p].pc \in {"idle", "load", "fetch"} => proc[p].raw = None
         /\ lock = p <=> proc[p].pc # "idle" /\ proc[p].kind \in Locked
    /\ lock \in Proc \cup {None}
    /\ commands \in 0..MaxCommands /\ publications \in 0..MaxPublish

\* A command that requires signatures uses only an index the repository key
\* signed, whatever commands without the requirement, and an older yspm, left
\* in the cache, and whenever the repository changed during its fetch.
AuthenticIndex ==
    \A p \in Proc : proc[p].pc = "ready" /\ proc[p].require => proc[p].raw \in signed

\* A process of one of these kinds takes its last step on the database.
Acting(kinds) ==
    \E p \in Proc : proc[p].pc = "ready" /\ proc[p].kind \in kinds /\ proc'[p] # proc[p]
Kept(n) == n \in DOMAIN db.pkgs /\ db'.pkgs[n] = db.pkgs[n]

\* The release stays pinned: no step but an explicit release upgrade changes
\* the release of the database, and none but it and a local install installs
\* a package of another release, whatever `update` leaves in the cache
\* meanwhile.
Pinned ==
    [][~Acting({"migrate"}) =>
         /\ db'.rel # db.rel => db.rel = None
         /\ Acting({"local"})
              \/ \A n \in DOMAIN db'.pkgs : Kept(n) \/ db'.pkgs[n].rel = db'.rel]_vars

-----------------------------------------------------------------------------
(* What the documents say, where the code does otherwise.                  *)

\* "Switching to another release is intended to be explicit": a local install
\* takes nothing from another release either, the user's archives apart.
LocalPinned ==
    [][Acting({"local"}) =>
         \A n \in DOMAIN db'.pkgs : Kept(n) \/ db'.pkgs[n].rel \in {db'.rel, None}]_vars

\* "release upgrade <release>: Migrate to another stable release": the
\* release upgrade that succeeds leaves the release that was asked for.
MigratesAsAsked ==
    [][\A p \in Proc : proc[p].pc = "ready" /\ proc'[p].pc = "store" => db'.rel = proc[p].want]_vars

\* "A release remains pinned by default: yspm upgrade. Only the current
\* release is considered": an upgrade considers no other release.
UpgradeConsidersCurrent ==
    \A p \in Proc : proc[p].pc = "ready" /\ proc[p].kind = "upgrade" /\ db.rel # None
                      => proc[p].raw.rel = db.rel

\* "A package with an incompatible ABI is rejected": no package is installed
\* that has another ABI than the system.
AbiBoundary ==
    [][\A n \in DOMAIN db'.pkgs :
         \/ n \in DOMAIN db.pkgs /\ db'.pkgs[n] = db.pkgs[n]
         \/ db'.pkgs[n].abi \in {db'.abi, ""}]_vars
=============================================================================
