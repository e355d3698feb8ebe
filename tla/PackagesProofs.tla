--------------------------- MODULE PackagesProofs ---------------------------
(***************************************************************************)
(* Theorems about Packages for every repository, every argument list and   *)
(* any number of commands; and about the order of versions that it takes   *)
(* for granted (module Version), for versions of any length.               *)
(***************************************************************************)
EXTENDS Packages, Version, FiniteSetTheorems, SequenceTheorems, WellFoundedInduction, TLAPS

-----------------------------------------------------------------------------
(* Sequences and choice.                                                   *)

\* What is in a concatenation.
LEMMA ToSetConcat ==
  ASSUME NEW S, NEW s \in Seq(S), NEW t \in Seq(S)
  PROVE  ToSet(s \o t) = ToSet(s) \cup ToSet(t)
<1>1. ASSUME NEW x \in ToSet(s \o t)
      PROVE  x \in ToSet(s) \cup ToSet(t)
  <2>1. PICK i \in 1 .. Len(s) + Len(t) : x = (s \o t)[i]  BY <1>1 DEF ToSet
  <2>2. CASE i <= Len(s)  BY <2>1, <2>2 DEF ToSet
  <2>3. CASE i > Len(s)
    <3>1. i - Len(s) \in 1 .. Len(t)  BY <2>1, <2>3
    <3>2. x = t[i - Len(s)]  BY <2>1, <2>3
    <3> QED  BY <3>1, <3>2 DEF ToSet
  <2> QED  BY <2>1, <2>2, <2>3
<1>2. ASSUME NEW x \in ToSet(s)
      PROVE  x \in ToSet(s \o t)
  <2>1. PICK i \in 1 .. Len(s) : x = s[i]  BY <1>2 DEF ToSet
  <2>2. i \in 1 .. Len(s \o t) /\ x = (s \o t)[i]  BY <2>1
  <2> QED  BY <2>2 DEF ToSet
<1>3. ASSUME NEW x \in ToSet(t)
      PROVE  x \in ToSet(s \o t)
  <2>1. PICK i \in 1 .. Len(t) : x = t[i]  BY <1>3 DEF ToSet
  <2>2. i + Len(s) \in 1 .. Len(s \o t) /\ x = (s \o t)[i + Len(s)]  BY <2>1
  <2> QED  BY <2>2 DEF ToSet
<1> QED  BY <1>1, <1>2, <1>3

\* What is in a queue is its head or in its tail.
LEMMA ToSetTail ==
  ASSUME NEW S, NEW q \in Seq(S), q # <<>>
  PROVE  /\ Tail(q) \in Seq(S)
         /\ Head(q) \in S
         /\ ToSet(q) \subseteq {Head(q)} \cup ToSet(Tail(q))
<1>1. Tail(q) \in Seq(S) /\ Head(q) \in S  OBVIOUS
<1>2. ASSUME NEW x \in ToSet(q), x # Head(q)
      PROVE  x \in ToSet(Tail(q))
  <2>1. PICK i \in 1 .. Len(q) : x = q[i]  BY <1>2 DEF ToSet
  <2>2. i # 1  BY <1>2, <2>1
  <2>3. i - 1 \in 1 .. Len(q) - 1  BY <2>1, <2>2
  <2>4. Len(Tail(q)) = Len(q) - 1 /\ Tail(q)[i - 1] = q[i]  BY <2>1, <2>3
  <2>5. i - 1 \in DOMAIN Tail(q)  BY <1>1, <2>3, <2>4
  <2> QED  BY <2>1, <2>4, <2>5 DEF ToSet
<1> QED  BY <1>1, <1>2

\* A function from the first numbers to a set is a sequence.
LEMMA FunctionIsSeq ==
  ASSUME NEW S, NEW n \in Nat, NEW f \in [1 .. n -> S]
  PROVE  f \in Seq(S) /\ Len(f) = n
OBVIOUS

\* What chooseWithConstraints returns is in the index, has one of the names,
\* and satisfies every constraint.
LEMMA OptionsSatisfy ==
  ASSUME NEW alts, NEW constraints, NEW e \in Options(alts, constraints)
  PROVE  /\ e \in index
         /\ \E k \in DOMAIN alts : Matches(e, alts[k])
         /\ \A r \in constraints : Satisfies(e.ver, r)
<1>1. PICK k \in DOMAIN alts : e \in Highest(Candidates(alts[k], constraints))
  BY DEF Options
<1>2. e \in Candidates(alts[k], constraints)  BY <1>1 DEF Highest
<1> QED  BY <1>2 DEF Candidates

-----------------------------------------------------------------------------
(* The invariant.                                                          *)

\* Types, and what the resolver has chosen comes from the index in use.
Typed ==
    /\ index \in Indexes
    /\ DOMAIN db \subseteq Name /\ \A n \in DOMAIN db : db[n] \in Installed
    /\ pc \in {"idle", "resolve", "commit"}
    /\ requested \in Seq(Requirement) /\ queue \in Seq(Requirement)
    /\ seen \subseteq Requirement
    /\ plan \subseteq chosen /\ chosen \subseteq Entries
    /\ loop \in {"off", "collect", "remove"}
    /\ auto \subseteq Name /\ (auto # {} <=> loop = "remove")
    /\ pc # "idle" => chosen \subseteq index

\* A requirement some chosen package meets, and one the resolver has met or is
\* going to look at.
Settled(r) ==
    \E e \in chosen : Satisfies(e.ver, r) /\ \E k \in DOMAIN r.alts : Matches(e, r.alts[k])
Known(r) == r \in seen \/ r \in ToSet(queue)

\* Whatever was asked for and whatever a chosen package needs is known; what
\* was seen is settled; a plan is made when nothing is left in the queue, and
\* leaves out installed packages only.
PlanInv ==
    pc # "idle" =>
      /\ \A r \in ToSet(requested) : Known(r)
      /\ \A e \in chosen : \A r \in ToSet(Requirements(e)) : Known(r)
      /\ \A r \in seen : Settled(r)
      /\ pc = "commit" =>
           /\ queue = <<>>
           /\ \A e \in chosen : e \in plan \/ e.name \in DOMAIN db

IInv == Typed /\ PlanInv

-----------------------------------------------------------------------------
(* The invariant holds initially and is preserved.                         *)

\* It holds at first.
LEMMA InitInv == Init => IInv
<1> SUFFICES ASSUME Init  PROVE IInv
  OBVIOUS
<1>1. <<>> \in Seq(Requirement) /\ DOMAIN db = {}  BY DEF Init
<1>2. Typed  BY <1>1 DEF Typed, Init
<1>3. PlanInv  BY DEF PlanInv, Init
<1> QED  BY <1>2, <1>3 DEF IInv

\* An entry of the index has sequences of requirements.
LEMMA EntryTypes ==
  ASSUME Typed, NEW e \in Entries
  PROVE  /\ e.name \in Name /\ e.ver \in Nat /\ e.rev \in Nat
         /\ e.deps \in Seq(Requirement) /\ e.shared \in Seq(Requirement)
         /\ Requirements(e) \in Seq(Requirement)
<1>1. e \in Entry  BY PackagesAssumption
<1>2. e.deps \in Seq(Requirement) /\ e.shared \in Seq(Requirement)  BY <1>1 DEF Entry
<1> QED  BY <1>1, <1>2 DEF Entry, Requirements

\* A command that starts has its arguments, or what is to be upgraded, in the
\* queue.
LEMMA StartInv ==
  ASSUME Typed, PlanInv, NEW args \in Seq(Requirement), NEW first \in Seq(Requirement),
         Start(args, first), ToSet(args) \subseteq ToSet(first)
  PROVE  Typed' /\ PlanInv'
<1>1. Typed'  BY DEF Typed, Start
<1>2. PlanInv'  BY DEF PlanInv, Known, Start
<1> QED  BY <1>1, <1>2

\* The names to upgrade in any order are a list of requirements.
LEMMA UpgradeStarts ==
  ASSUME Typed, Upgrade
  PROVE  \E first \in Seq(Requirement) : Start(<<>>, first)
<1>1. PICK order \in SetToAllKPermutations(Upgradable) :
        Start(<<>>, [k \in DOMAIN order |-> Plain(order[k])])
  BY DEF Upgrade
<1>2. PICK s \in SUBSET Upgradable : order \in SetToSeqs(s)
  BY <1>1 DEF SetToAllKPermutations
<1>3. s \subseteq Name  BY <1>2 DEF Upgradable, Typed
<1>4. Cardinality(s) \in Nat  BY <1>3, PackagesAssumption, FS_Subset, FS_CardinalityType
<1>5. order \in [1 .. Cardinality(s) -> s]  BY <1>2 DEF SetToSeqs
<1> DEFINE first == [k \in DOMAIN order |-> Plain(order[k])]
<1>6. \A n \in Name : Plain(n) \in Requirement
  <2> SUFFICES ASSUME NEW n \in Name  PROVE Plain(n) \in Requirement
    OBVIOUS
  <2>1. <<n>> \in Seq(Name)  OBVIOUS
  <2> QED  BY <2>1 DEF Plain, Req, Requirement
<1>7. first \in [1 .. Cardinality(s) -> Requirement]  BY <1>3, <1>5, <1>6
<1>8. Start(<<>>, first)  BY <1>1
<1> HIDE DEF first
<1>9. first \in Seq(Requirement)  BY <1>4, <1>7, FunctionIsSeq
<1> QED  BY <1>8, <1>9

\* One turn of the resolver keeps everything known and what was seen settled.
LEMMA ResolveInv ==
  ASSUME Typed, PlanInv, Resolve
  PROVE  Typed' /\ PlanInv'
<1>0. PICK r : r = Head(queue)  OBVIOUS
<1> DEFINE options == Options(r.alts, {s \in seen \cup {r} : s.alts = r.alts})
<1>1. /\ pc = "resolve" /\ queue # <<>>
      /\ UNCHANGED <<index, db, requested, plan, loop, auto>>
  BY DEF Resolve
<1>2. /\ Tail(queue) \in Seq(Requirement) /\ r \in Requirement
      /\ ToSet(queue) \subseteq {r} \cup ToSet(Tail(queue))
  BY <1>0, <1>1, ToSetTail DEF Typed
<1>3. CASE Met(r) /\ queue' = Tail(queue) /\ UNCHANGED <<pc, seen, chosen>>
  <2>1. Typed'  BY <1>1, <1>2, <1>3 DEF Typed
  <2>2. \A q : Known(q) => Known(q)'  BY <1>2, <1>3 DEF Known, Met
  <2>3. \A q : Settled(q) => Settled(q)'  BY <1>3 DEF Settled
  <2>4. PlanInv'  BY <1>1, <1>3, <2>2, <2>3 DEF PlanInv
  <2> QED  BY <2>1, <2>4
<1>4. ASSUME ~Met(r), seen' = seen \cup {r}, UNCHANGED pc, NEW e \in options,
             chosen' = {f \in chosen : f.name # e.name} \cup {e},
             queue' = Tail(queue) \o Requirements(e)
      PROVE  Typed' /\ PlanInv'
  <2>1. /\ e \in index
        /\ \E k \in DOMAIN r.alts : Matches(e, r.alts[k])
        /\ \A s \in {s \in seen \cup {r} : s.alts = r.alts} : Satisfies(e.ver, s)
    BY OptionsSatisfy
  <2>2. index \subseteq Entries /\ \A f, g \in index : f.name = g.name => f = g
    BY PackagesAssumption DEF Typed
  <2>3. Requirements(e) \in Seq(Requirement)  BY <2>1, <2>2, EntryTypes
  <2>4. chosen \subseteq chosen' /\ chosen' = chosen \cup {e} /\ chosen' \subseteq index
    BY <1>1, <1>4, <2>1, <2>2 DEF Typed
  <2>5. ToSet(queue') = ToSet(Tail(queue)) \cup ToSet(Requirements(e))
    BY <1>2, <1>4, <2>3, ToSetConcat
  <2>6. Typed'
    <3>1. queue' \in Seq(Requirement)  BY <1>2, <1>4, <2>3
    <3> QED  BY <1>1, <1>2, <1>4, <2>2, <2>4, <3>1 DEF Typed
  <2>7. \A q : Known(q) => Known(q)'  BY <1>2, <1>4, <2>5 DEF Known
  <2>8. \A q \in ToSet(Requirements(e)) : Known(q)'  BY <2>5 DEF Known
  <2>9. \A q : Settled(q) => Settled(q)'  BY <2>4 DEF Settled
  <2>10. Settled(r)'  BY <2>1, <2>4 DEF Settled
  <2>11. PlanInv'
    <3>1. \A q \in ToSet(requested)' : Known(q)'  BY <1>1, <2>7 DEF PlanInv
    <3>2. \A f \in chosen' : \A q \in ToSet(Requirements(f)) : Known(q)'
      BY <1>1, <2>4, <2>7, <2>8 DEF PlanInv
    <3>3. \A q \in seen' : Settled(q)'  BY <1>1, <1>4, <2>9, <2>10 DEF PlanInv
    <3> QED  BY <1>1, <1>4, <3>1, <3>2, <3>3 DEF PlanInv
  <2> QED  BY <2>6, <2>11
<1>5. CASE pc' = "idle" /\ UNCHANGED <<queue, seen, chosen>>
  <2>1. Typed'  BY <1>1, <1>5 DEF Typed
  <2>2. PlanInv'  BY <1>5 DEF PlanInv
  <2> QED  BY <2>1, <2>2
<1> QED  BY <1>0, <1>1, <1>3, <1>4, <1>5 DEF Resolve

\* A plan is made when the queue is empty.
LEMMA PlanStepInv ==
  ASSUME Typed, PlanInv, Plan
  PROVE  Typed' /\ PlanInv'
<1>1. Typed'  BY DEF Typed, Plan
<1>2. \A e \in chosen : e \in plan' \/ e.name \in DOMAIN db
  BY DEF Plan, Wanted
<1>3. \A q : (Known(q) => Known(q)') /\ (Settled(q) => Settled(q)')
  BY DEF Known, Settled, Plan
<1>4. PlanInv'  BY <1>2, <1>3 DEF PlanInv, Plan
<1> QED  BY <1>1, <1>4

\* The records of a plan are records.
LEMMA CommitInv ==
  ASSUME Typed, PlanInv, Commit
  PROVE  Typed' /\ PlanInv'
<1>1. \A e \in plan : e.name \in Name /\ Record(e) \in Installed
  <2> SUFFICES ASSUME NEW e \in plan  PROVE e.name \in Name /\ Record(e) \in Installed
    OBVIOUS
  <2>1. /\ e.name \in Name /\ e.ver \in Nat /\ e.rev \in Nat /\ e.deps \in Seq(Requirement)
    BY EntryTypes DEF Typed
  <2>2. Named(e.name) \in BOOLEAN  BY DEF Named
  <2> QED  BY <2>1, <2>2 DEF Record, Installed
<1>2. DOMAIN db' \subseteq Name /\ \A n \in DOMAIN db' : db'[n] \in Installed
  <2>1. CASE UNCHANGED db  BY <2>1 DEF Typed
  <2>2. CASE db' = [n \in DOMAIN db \cup {e.name : e \in plan} |->
                      IF \E e \in plan : e.name = n
                      THEN Record(CHOOSE e \in plan : e.name = n) ELSE db[n]]
    <3>1. DOMAIN db' = DOMAIN db \cup {e.name : e \in plan}  BY <2>2
    <3>2. ASSUME NEW n \in DOMAIN db', \E e \in plan : e.name = n
          PROVE  db'[n] \in Installed
      <4>1. (CHOOSE e \in plan : e.name = n) \in plan  BY <3>2
      <4>2. db'[n] = Record(CHOOSE e \in plan : e.name = n)  BY <2>2, <3>1, <3>2
      <4> QED  BY <1>1, <4>1, <4>2
    <3>3. ASSUME NEW n \in DOMAIN db', ~\E e \in plan : e.name = n
          PROVE  db'[n] \in Installed
      BY <2>2, <3>1, <3>3 DEF Typed
    <3> QED  BY <1>1, <3>1, <3>2, <3>3 DEF Typed
  <2> QED  BY <2>1, <2>2 DEF Commit
<1>3. pc' = "idle" /\ UNCHANGED <<index, resolver, loop, auto>>  BY DEF Commit
<1>4. Typed'  BY <1>2, <1>3 DEF Typed, resolver
<1>5. PlanInv'  BY <1>3 DEF PlanInv
<1> QED  BY <1>4, <1>5

\* A removal leaves records as they are.
LEMMA RemovalTyped ==
  ASSUME Typed, NEW names, RemoveMany(names)
  PROVE  DOMAIN db' \subseteq Name /\ \A n \in DOMAIN db' : db'[n] \in Installed
BY DEF Typed, RemoveMany

\* While the lock is free, no plan is being made.
LEMMA IdleInv ==
  ASSUME pc' = "idle"
  PROVE  PlanInv'
BY DEF PlanInv

\* One step per action.
LEMMA NextInv == IInv /\ [Next]_vars => IInv'
<1> SUFFICES ASSUME Typed, PlanInv, [Next]_vars  PROVE Typed' /\ PlanInv'
  BY DEF IInv
<1>1. CASE Publish
  <2>1. pc' = "idle" /\ index' \in Indexes /\ UNCHANGED <<db, pc, resolver, loop, auto>>
    BY <1>1 DEF Publish
  <2>2. Typed'  BY <2>1 DEF Typed, resolver
  <2> QED  BY <2>1, <2>2, IdleInv
<1>2. ASSUME NEW args \in Requests, Install(args)
      PROVE  Typed' /\ PlanInv'
  <2>1. args \in Seq(Requirement)  BY PackagesAssumption
  <2> QED  BY <1>2, <2>1, StartInv DEF Install
<1>3. CASE Upgrade
  <2>1. PICK first \in Seq(Requirement) : Start(<<>>, first)  BY <1>3, UpgradeStarts
  <2>2. ToSet(<<>>) \subseteq ToSet(first) /\ <<>> \in Seq(Requirement)  BY DEF ToSet
  <2> QED  BY <2>1, <2>2, StartInv
<1>4. CASE Resolve  BY <1>4, ResolveInv
<1>5. CASE Plan  BY <1>5, PlanStepInv
<1>6. CASE Commit  BY <1>6, CommitInv
<1>7. ASSUME NEW names \in Removals, Uninstall(names)
      PROVE  Typed' /\ PlanInv'
  <2>1. pc' = "idle" /\ UNCHANGED <<index, pc, resolver, loop, auto>>  BY <1>7 DEF Uninstall
  <2>2. RemoveMany(names) \/ UNCHANGED db  BY <1>7 DEF Uninstall
  <2>3. Typed'  BY <2>1, <2>2, RemovalTyped DEF Typed, resolver
  <2> QED  BY <2>1, <2>3, IdleInv
<1>8. CASE Autoremove
  <2>1. Typed'  BY <1>8 DEF Typed, Autoremove, resolver
  <2>2. PlanInv'  BY <1>8 DEF PlanInv, Known, Settled, Autoremove, resolver
  <2> QED  BY <2>1, <2>2
<1>9. CASE Collect
  <2>1. Typed'  BY <1>9 DEF Typed, Collect, Unneeded, resolver
  <2>2. PlanInv'  BY <1>9 DEF PlanInv, Known, Settled, Collect, resolver
  <2> QED  BY <2>1, <2>2
<1>10. CASE AutoRemove
  <2>1. /\ pc' = "idle" /\ auto' = {} /\ loop' \in {"collect", "off"}
        /\ UNCHANGED <<index, pc, resolver>>
    BY <1>10 DEF AutoRemove
  <2>2. RemoveMany(auto) \/ UNCHANGED db  BY <1>10 DEF AutoRemove
  <2>3. Typed'  BY <2>1, <2>2, RemovalTyped DEF Typed, resolver
  <2> QED  BY <2>1, <2>3, IdleInv
<1>11. CASE UNCHANGED vars
  <2>1. Typed'  BY <1>11 DEF Typed, vars, resolver
  <2>2. PlanInv'  BY <1>11 DEF PlanInv, Known, Settled, vars, resolver
  <2> QED  BY <2>1, <2>2
<1> QED  BY <1>1, <1>2, <1>3, <1>4, <1>5, <1>6, <1>7, <1>8, <1>9, <1>10, <1>11
          DEF Next, Work, Cleaner, Quiet

\* Each reachable state satisfies the invariant.
THEOREM Invariance == Spec => []IInv
<1>1. Init => IInv  BY InitInv
<1>2. IInv /\ [Next]_vars => IInv'  BY NextInv
<1> QED  BY <1>1, <1>2, PTL DEF Spec

-----------------------------------------------------------------------------
(* What follows.                                                           *)

\* Every variable keeps its type, and autoremove has candidates exactly when it
\* is about to remove them (resolve, Autoremove).
THEOREM TypeCorrect == Spec => []TypeOK
<1>1. IInv => TypeOK  BY DEF IInv, Typed, TypeOK
<1> QED  BY <1>1, Invariance, PTL

\* Every plan the resolver hands to runTransaction is closed: what was asked for
\* and what a chosen package needs, some chosen package meets.
THEOREM PlansAreClosed == Spec => []RequirementsChosen
<1>1. IInv => RequirementsChosen
  <2> SUFFICES ASSUME Typed, PlanInv, pc = "commit",
                      NEW r \in ToSet(requested)
                                  \cup UNION {ToSet(e.deps \o e.shared) : e \in chosen}
               PROVE  \E e \in chosen : /\ Satisfies(e.ver, r)
                                        /\ \E k \in DOMAIN r.alts : Matches(e, r.alts[k])
    BY DEF IInv, RequirementsChosen
  <2>1. Known(r)  BY DEF PlanInv, Requirements
  <2>2. r \notin ToSet(queue)  BY DEF PlanInv, ToSet
  <2>3. r \in seen  BY <2>1, <2>2 DEF Known
  <2> QED  BY <2>3 DEF PlanInv, Settled
<1> QED  BY <1>1, Invariance, PTL

-----------------------------------------------------------------------------
(* No dependency goes missing, where dependencies name packages.           *)

\* No alternatives, and no name that another package provides.
NamesPackages ==
    \A e \in Entries : \A k \in DOMAIN e.deps :
        \E n \in Name : e.deps[k].alts = <<n>> /\ \A f \in Entries : n \notin f.provides

\* An installed package's dependencies are installed, each under its one name.
DepsInv ==
    \A n \in DOMAIN db : \A k \in DOMAIN db[n].deps :
        \E m \in DOMAIN db : db[n].deps[k].alts = <<m>>

\* A commit brings every dependency it does not find.
LEMMA CommitDeps ==
  ASSUME NamesPackages, IInv, DepsInv, Commit
  PROVE  DepsInv'
<1>1. CASE UNCHANGED db  BY <1>1 DEF DepsInv
<1>2. CASE db' = [n \in DOMAIN db \cup {e.name : e \in plan} |->
                    IF \E e \in plan : e.name = n
                    THEN Record(CHOOSE e \in plan : e.name = n) ELSE db[n]]
  <2>1. DOMAIN db' = DOMAIN db \cup {e.name : e \in plan}  BY <1>2
  <2>2. ASSUME NEW e \in plan, NEW k \in DOMAIN e.deps
        PROVE  \E m \in DOMAIN db' : e.deps[k].alts = <<m>>
    <3>1. e \in chosen /\ e \in Entries /\ chosen \subseteq Entries  BY DEF IInv, Typed
    <3>2. PICK m \in Name : e.deps[k].alts = <<m>> /\ \A f \in Entries : m \notin f.provides
      BY <3>1 DEF NamesPackages
    <3>3. /\ e.deps \in Seq(Requirement) /\ e.shared \in Seq(Requirement)
      BY <3>1, EntryTypes DEF IInv
    <3>4. e.deps[k] \in ToSet(Requirements(e))
      <4>1. e.deps[k] \in ToSet(e.deps)  BY DEF ToSet
      <4> QED  BY <3>3, <4>1, ToSetConcat DEF Requirements
    <3>5. pc = "commit"  BY DEF Commit
    <3>6. e.deps[k] \notin ToSet(queue)  BY <3>5 DEF IInv, PlanInv, ToSet
    <3>7. e.deps[k] \in seen  BY <3>1, <3>4, <3>5, <3>6 DEF IInv, PlanInv, Known
    <3>8. PICK f \in chosen : \E j \in DOMAIN e.deps[k].alts : Matches(f, e.deps[k].alts[j])
      BY <3>5, <3>7 DEF IInv, PlanInv, Settled
    <3>9. f.name = m  BY <3>1, <3>2, <3>8 DEF Matches
    <3>10. f \in plan \/ f.name \in DOMAIN db  BY <3>5 DEF IInv, PlanInv
    <3> QED  BY <2>1, <3>2, <3>9, <3>10
  <2>3. ASSUME NEW n \in DOMAIN db', \E e \in plan : e.name = n,
               NEW k \in DOMAIN db'[n].deps
        PROVE  \E m \in DOMAIN db' : db'[n].deps[k].alts = <<m>>
    <3> DEFINE e == CHOOSE e \in plan : e.name = n
    <3>1. e \in plan  BY <2>3
    <3>2. db'[n].deps = e.deps  BY <1>2, <2>1, <2>3 DEF Record
    <3> QED  BY <2>2, <2>3, <3>1, <3>2
  <2>4. ASSUME NEW n \in DOMAIN db', ~\E e \in plan : e.name = n,
               NEW k \in DOMAIN db'[n].deps
        PROVE  \E m \in DOMAIN db' : db'[n].deps[k].alts = <<m>>
    <3>1. n \in DOMAIN db /\ db'[n] = db[n]  BY <1>2, <2>1, <2>4
    <3> QED  BY <2>1, <2>4, <3>1 DEF DepsInv
  <2> QED  BY <2>3, <2>4 DEF DepsInv
<1> QED  BY <1>1, <1>2 DEF Commit

\* A removal is refused while something that stays depends on what it removes.
LEMMA RemovalDeps ==
  ASSUME DepsInv, NEW names, RemoveMany(names)
  PROVE  DepsInv'
<1> SUFFICES ASSUME NEW n \in DOMAIN db', NEW k \in DOMAIN db'[n].deps
             PROVE  \E m \in DOMAIN db' : db'[n].deps[k].alts = <<m>>
  BY DEF DepsInv
<1>1. DOMAIN db' = DOMAIN db \ names /\ db'[n] = db[n]  BY DEF RemoveMany
<1>2. PICK m \in DOMAIN db : db[n].deps[k].alts = <<m>>  BY <1>1 DEF DepsInv
<1>3. DependsOn(db[n].deps, m)  BY <1>1, <1>2 DEF DependsOn
<1>4. m \notin names  BY <1>1, <1>3 DEF RemoveMany, Removable
<1> QED  BY <1>1, <1>2, <1>4

\* Installs, upgrades, removals and autoremoves with old candidates, in any
\* order, leave no installed package without one it depends on.
THEOREM DependenciesStay ==
  ASSUME NamesPackages
  PROVE  Spec => []DependenciesPresent
<1>1. Init => DepsInv
  <2> SUFFICES ASSUME Init  PROVE DepsInv
    OBVIOUS
  <2>1. DOMAIN db = {}  BY DEF Init
  <2> QED  BY <2>1 DEF DepsInv
<1>2. IInv /\ DepsInv /\ [Next]_vars => DepsInv'
  <2> SUFFICES ASSUME IInv, DepsInv, [Next]_vars  PROVE DepsInv'
    OBVIOUS
  <2>1. CASE Commit  BY <2>1, CommitDeps
  <2>2. ASSUME NEW names \in Removals, Uninstall(names)
        PROVE  DepsInv'
    <3>1. RemoveMany(names) \/ UNCHANGED db  BY <2>2 DEF Uninstall
    <3> QED  BY <3>1, RemovalDeps DEF DepsInv
  <2>3. CASE AutoRemove
    <3>1. RemoveMany(auto) \/ UNCHANGED db  BY <2>3 DEF AutoRemove
    <3> QED  BY <3>1, RemovalDeps DEF DepsInv
  <2>4. CASE UNCHANGED db  BY <2>4 DEF DepsInv
  <2>5. Commit \/ (\E names \in Removals : Uninstall(names)) \/ AutoRemove \/ UNCHANGED db
    BY DEF Next, Work, Cleaner, Quiet, Publish, Install, Upgrade, Start, Resolve, Plan,
           Autoremove, Collect, vars
  <2> QED  BY <2>1, <2>2, <2>3, <2>4, <2>5
<1>3. DepsInv => DependenciesPresent
  <2> SUFFICES ASSUME DepsInv, NEW n \in DOMAIN db, NEW k \in DOMAIN db[n].deps
               PROVE  \E m \in DOMAIN db : m \in ToSet(db[n].deps[k].alts)
    BY DEF DependenciesPresent
  <2>1. PICK m \in DOMAIN db : db[n].deps[k].alts = <<m>>  BY DEF DepsInv
  <2>2. m \in ToSet(<<m>>)  BY DEF ToSet
  <2> QED  BY <2>1, <2>2
<1> QED  BY <1>1, <1>2, <1>3, Invariance, PTL DEF Spec

-----------------------------------------------------------------------------
(* The order that candidates are sorted by, and that constraints are       *)
(* tested with: compareVersion of module Version, for every version.       *)

\* A set of numbers that is not empty has a least one.
LEMMA Least ==
  ASSUME NEW T \in SUBSET Nat, T # {}
  PROVE  \E m \in T : \A n \in T : m <= n
<1>1. IsWellFoundedOn(OpToRel(<, Nat), Nat)  BY NatLessThanWellFounded
<1>2. PICK m \in T : \A n \in T : ~(<<n, m>> \in OpToRel(<, Nat))  BY <1>1, WFMin
<1>3. \A i, j \in Nat : <<i, j>> \in OpToRel(<, Nat) <=> i < j  BY DEF OpToRel
<1>4. ASSUME NEW n \in T
      PROVE  m <= n
  <2>1. m \in Nat /\ n \in Nat /\ ~(n < m)  BY <1>2, <1>3
  <2> QED  BY <2>1
<1> QED  BY <1>4

\* ... and Min is it.
LEMMA MinIsLeast ==
  ASSUME NEW T \in SUBSET Nat, T # {}
  PROVE  Min(T) \in T /\ \A n \in T : Min(T) <= n
BY Least DEF Min

\* Induction, on a set of numbers.
LEMMA Climb ==
  ASSUME NEW T, 0 \in T, \A n \in Nat : n \in T => n + 1 \in T
  PROVE  \A n \in Nat : n \in T
<1> DEFINE Rest == Nat \ T
<1>1. SUFFICES ASSUME Rest # {}
               PROVE  FALSE
  OBVIOUS
<1>2. PICK m \in Rest : \A n \in Rest : m <= n  BY <1>1, Least
<1>3. m # 0 /\ m \in Nat  BY <1>2
<1>4. m - 1 \in Nat /\ m - 1 \notin Rest  BY <1>2, <1>3
<1>5. (m - 1) + 1 \in T  BY <1>4
<1> QED  BY <1>2, <1>3, <1>5

-----------------------------------------------------------------------------
\* What a comparison says is turned round with its arguments.
Opposite(r, s) == r \in {-1, 0, 1} /\ s \in {-1, 0, 1} /\ r + s = 0

\* ... and carries over from a to b and from b to c.
Chained(ab, bc, ac) == ab <= 0 /\ bc <= 0 => ac <= 0 /\ (ac = 0 => ab = 0 /\ bc = 0)

\* The order of strings: what is before b is before all that b is before.
LEMMA BeforeTransitive ==
  ASSUME NEW a \in Seq(Nat), NEW b \in Seq(Nat), NEW c \in Seq(Nat),
         Before(a, b), Before(b, c)
  PROVE  Before(a, c)
<1>1. PICK k \in DOMAIN b : /\ Len(a) >= k - 1 /\ \A j \in 1..(k - 1) : a[j] = b[j]
                            /\ Len(a) = k - 1 \/ a[k] < b[k]
  BY DEF Before
<1>2. PICK l \in DOMAIN c : /\ Len(b) >= l - 1 /\ \A j \in 1..(l - 1) : b[j] = c[j]
                            /\ Len(b) = l - 1 \/ b[l] < c[l]
  BY DEF Before
<1>3. k \in 1..Len(b) /\ l \in 1..Len(c)  OBVIOUS
<1>4. CASE k < l
  <2>0. k \in 1..(l - 1) /\ k \in 1..Len(c)  BY <1>3, <1>4
  <2>1. k \in DOMAIN c /\ b[k] = c[k]  BY <1>2, <2>0
  <2>2. \A j \in 1..(k - 1) : a[j] = c[j]  BY <1>1, <1>2, <1>3, <1>4
  <2> QED  BY <1>1, <2>1, <2>2 DEF Before
<1>5. CASE l < k
  <2>0. l \in 1..(k - 1) /\ l \in 1..Len(b) /\ Len(b) # l - 1  BY <1>3, <1>5
  <2>1. a[l] = b[l] /\ b[l] < c[l]  BY <1>1, <1>2, <2>0
  <2>2. \A j \in 1..(l - 1) : a[j] = c[j]  BY <1>1, <1>2, <1>3, <1>5
  <2>3. Len(a) >= l - 1  BY <1>1, <1>3, <1>5
  <2>4. a[l] < c[l]  BY <2>1
  <2> QED  BY <2>2, <2>3, <2>4 DEF Before
<1>6. CASE k = l
  <2>1. b[k] < c[k]  BY <1>2, <1>3, <1>6
  <2>2. \A j \in 1..(k - 1) : a[j] = c[j]  BY <1>1, <1>2, <1>6
  <2>3. Len(a) = k - 1 \/ (k \in DOMAIN a /\ a[k] < b[k])  BY <1>1, <1>3
  <2>4. Len(a) = k - 1 \/ a[k] < c[k]
    <3>1. SUFFICES ASSUME k \in DOMAIN a, a[k] < b[k]
                   PROVE  a[k] < c[k]
      BY <2>3
    <3>2. a[k] \in Nat /\ b[k] \in Nat /\ c[k] \in Nat  BY <1>3, <1>6, <3>1
    <3> QED  BY <2>1, <3>1, <3>2
  <2> QED  BY <1>1, <1>2, <1>6, <2>2, <2>4 DEF Before
<1> QED  BY <1>3, <1>4, <1>5, <1>6

\* Nothing is before what is before it.
LEMMA BeforeAsymmetric ==
  ASSUME NEW a \in Seq(Nat), NEW b \in Seq(Nat), Before(a, b)
  PROVE  ~Before(b, a) /\ a # b
<1>1. PICK k \in DOMAIN b : /\ Len(a) >= k - 1 /\ \A j \in 1..(k - 1) : a[j] = b[j]
                            /\ Len(a) = k - 1 \/ a[k] < b[k]
  BY DEF Before
<1>2. k \in 1..Len(b)  OBVIOUS
<1>3. ASSUME k \in DOMAIN a
      PROVE  a[k] \in Nat /\ b[k] \in Nat /\ a[k] < b[k]
  BY <1>1, <1>2, <1>3
<1>4. a # b  BY <1>2, <1>3
<1>5. SUFFICES ASSUME NEW l \in DOMAIN a,
                      Len(b) >= l - 1, \A j \in 1..(l - 1) : b[j] = a[j],
                      Len(b) = l - 1 \/ b[l] < a[l]
               PROVE  FALSE
  BY <1>4 DEF Before
<1>6. l \in 1..Len(a)  OBVIOUS
<1>7. CASE k < l
  <2>1. k \in 1..(l - 1) /\ k \in 1..Len(a)  BY <1>2, <1>6, <1>7
  <2>2. b[k] = a[k]  BY <1>5, <2>1
  <2> QED  BY <1>3, <2>1, <2>2
<1>8. CASE k = l  BY <1>2, <1>3, <1>5, <1>8
<1>9. CASE l < k
  <2>0. l \in 1..(k - 1) /\ l \in 1..Len(b)  BY <1>2, <1>6, <1>9
  <2>1. l \in 1..Len(b) /\ a[l] = b[l]  BY <1>1, <2>0
  <2>2. b[l] < a[l] /\ a[l] \in Nat  BY <1>5, <1>6, <2>1
  <2> QED  BY <2>1, <2>2
<1> QED  BY <1>2, <1>6, <1>7, <1>8, <1>9

\* Of two strings, one is before the other.
LEMMA BeforeTotal ==
  ASSUME NEW a \in Seq(Nat), NEW b \in Seq(Nat), a # b
  PROVE  Before(a, b) \/ Before(b, a)
<1> DEFINE Parts == {k \in Nat : k # 0 /\ (k > Len(a) \/ k > Len(b) \/ a[k] # b[k])}
<1>1. Len(a) + 1 \in Parts  OBVIOUS
<1>2. PICK m \in Parts : \A n \in Parts : m <= n  BY <1>1, Least
<1>3. m \in Nat /\ m # 0 /\ m <= Len(a) + 1 /\ m <= Len(b) + 1  BY <1>1, <1>2
<1>4. \A j \in 1..(m - 1) : j <= Len(a) /\ j <= Len(b) /\ a[j] = b[j]
  <2>1. ASSUME NEW j \in 1..(m - 1)
        PROVE  j \notin Parts
    BY <1>2, <1>3, <2>1
  <2> QED  BY <1>3, <2>1
<1> HIDE DEF Parts
<1>5. m > Len(a) \/ m > Len(b) \/ a[m] # b[m]  BY <1>2 DEF Parts
<1>6. CASE m > Len(a)
  <2>1. Len(a) = m - 1  BY <1>3, <1>6
  <2>2. m \in DOMAIN b
    <3>1. SUFFICES ASSUME m > Len(b)
                   PROVE  FALSE
      BY <1>3
    <3>2. Len(b) = Len(a)  BY <1>3, <2>1, <3>1
    <3>3. \A j \in 1..Len(a) : a[j] = b[j]  BY <1>4, <2>1
    <3> QED  BY <3>2, <3>3
  <2>3. Len(a) >= m - 1 /\ \A j \in 1..(m - 1) : a[j] = b[j]  BY <1>3, <1>4, <2>1
  <2> QED  BY <2>1, <2>2, <2>3 DEF Before
<1>7. CASE m <= Len(a) /\ m > Len(b)
  <2>1. Len(b) = m - 1 /\ m \in DOMAIN a  BY <1>3, <1>7
  <2> QED  BY <1>4, <2>1 DEF Before
<1>8. CASE m <= Len(a) /\ m <= Len(b)
  <2>1. m \in DOMAIN a /\ m \in DOMAIN b /\ a[m] \in Nat /\ b[m] \in Nat /\ a[m] # b[m]
    BY <1>3, <1>5, <1>8
  <2>2. a[m] < b[m] \/ b[m] < a[m]  BY <2>1
  <2>3. Len(a) >= m - 1 /\ Len(b) >= m - 1 /\ \A j \in 1..(m - 1) : a[j] = b[j] /\ b[j] = a[j]
    BY <1>3, <1>4, <1>8
  <2> QED  BY <2>1, <2>2, <2>3 DEF Before
<1> QED  BY <1>3, <1>6, <1>7, <1>8

\* compareText is a total order.
LEMMA TextOpposite ==
  ASSUME NEW a \in Seq(Nat), NEW b \in Seq(Nat)
  PROVE  /\ Opposite(compareText(a, b), compareText(b, a))
         /\ compareText(a, b) = 0 <=> a = b
         /\ compareText(a, b) = -1 <=> Before(a, b)
<1>1. CASE Before(a, b)
  <2>1. ~Before(b, a) /\ a # b  BY <1>1, BeforeAsymmetric
  <2>2. compareText(a, b) = -1 /\ compareText(b, a) = 1  BY <1>1, <2>1 DEF compareText
  <2>3. Opposite(compareText(a, b), compareText(b, a))  BY <2>2 DEF Opposite
  <2> QED  BY <1>1, <2>1, <2>2, <2>3
<1>2. CASE Before(b, a)
  <2>1. ~Before(a, b) /\ a # b  BY <1>2, BeforeAsymmetric
  <2>2. compareText(a, b) = 1 /\ compareText(b, a) = -1  BY <1>2, <2>1 DEF compareText
  <2>3. Opposite(compareText(a, b), compareText(b, a))  BY <2>2 DEF Opposite
  <2> QED  BY <1>2, <2>1, <2>2, <2>3
<1>3. CASE ~Before(a, b) /\ ~Before(b, a)
  <2>1. a = b  BY <1>3, BeforeTotal
  <2>2. compareText(a, b) = 0 /\ compareText(b, a) = 0  BY <1>3, <2>1 DEF compareText
  <2>3. Opposite(compareText(a, b), compareText(b, a))  BY <2>2 DEF Opposite
  <2> QED  BY <1>3, <2>1, <2>2, <2>3
<1> QED  BY <1>1, <1>2, <1>3

\* ... whose results chain.
LEMMA TextChained ==
  ASSUME NEW a \in Seq(Nat), NEW b \in Seq(Nat), NEW c \in Seq(Nat)
  PROVE  Chained(compareText(a, b), compareText(b, c), compareText(a, c))
<1> DEFINE Le(s, t) == s = t \/ Before(s, t)
<1>1. \A s, t \in Seq(Nat) : /\ compareText(s, t) \in {-1, 0, 1}
                             /\ compareText(s, t) <= 0 <=> Le(s, t)
                             /\ compareText(s, t) = 0 <=> s = t
  <2>1. ASSUME NEW s \in Seq(Nat), NEW t \in Seq(Nat)
        PROVE  /\ compareText(s, t) \in {-1, 0, 1}
               /\ compareText(s, t) = 0 <=> s = t
               /\ compareText(s, t) = -1 <=> Before(s, t)
    BY TextOpposite DEF Opposite
  <2>2. ASSUME NEW s \in Seq(Nat), NEW t \in Seq(Nat)
        PROVE  compareText(s, t) <= 0 <=> Le(s, t)
    <3>1. compareText(s, t) <= 0 <=> compareText(s, t) \in {-1, 0}  BY <2>1
    <3> QED  BY <2>1, <3>1
  <2> QED  BY <2>1, <2>2
<1>2. SUFFICES ASSUME Le(a, b), Le(b, c)
               PROVE  Le(a, c) /\ (a = c => a = b /\ b = c)
  BY <1>1 DEF Chained
<1>3. Le(a, c)  BY <1>2, BeforeTransitive
<1>4. ASSUME a = c, a # b
      PROVE  FALSE
  BY <1>2, <1>4, BeforeAsymmetric
<1> QED  BY <1>3, <1>4

\* A string stays one when its zeros are taken off.
LEMMA Trimmed ==
  ASSUME NEW s \in Seq(Nat)
  PROVE  Trim(s) \in Seq(Nat)
<1> DEFINE kept == {k \in DOMAIN s : s[k] # 0}
<1>1. CASE kept = {}
  <2>1. Trim(s) = <<0>>  BY <1>1 DEF Trim
  <2> QED  BY <2>1
<1>2. CASE kept # {}
  <2>1. kept \in SUBSET Nat  OBVIOUS
  <2>2. Min(kept) \in kept  BY <1>2, <2>1, MinIsLeast
  <2>3. Min(kept) \in 1..Len(s)  BY <2>2
  <2>4. Trim(s) = SubSeq(s, Min(kept), Len(s))  BY <1>2 DEF Trim
  <2>5. \A k \in Min(kept)..Len(s) : s[k] \in Nat  BY <2>3
  <2> QED  BY <2>3, <2>4, <2>5, SubSeqProperties
<1> QED  BY <1>1, <1>2

\* compareNumericToken orders by length and then as text.
LEMMA NumberOpposite ==
  ASSUME NEW a \in Seq(Nat), NEW b \in Seq(Nat)
  PROVE  Opposite(compareNumericToken(a, b), compareNumericToken(b, a))
<1>1. Trim(a) \in Seq(Nat) /\ Trim(b) \in Seq(Nat)  BY Trimmed
<1> DEFINE i == Len(Trim(a))
           j == Len(Trim(b))
<1>2. i \in Nat /\ j \in Nat  BY <1>1
<1>3. CASE i < j
  <2>1. compareNumericToken(a, b) = -1 /\ compareNumericToken(b, a) = 1
    BY <1>2, <1>3 DEF compareNumericToken
  <2> QED  BY <2>1 DEF Opposite
<1>4. CASE j < i
  <2>1. compareNumericToken(a, b) = 1 /\ compareNumericToken(b, a) = -1
    BY <1>2, <1>4 DEF compareNumericToken
  <2> QED  BY <2>1 DEF Opposite
<1>5. CASE i = j
  <2>1. /\ compareNumericToken(a, b) = compareText(Trim(a), Trim(b))
        /\ compareNumericToken(b, a) = compareText(Trim(b), Trim(a))
    BY <1>2, <1>5 DEF compareNumericToken
  <2> QED  BY <1>1, <2>1, TextOpposite
<1> QED  BY <1>2, <1>3, <1>4, <1>5

\* ... whose results chain.
LEMMA NumberChained ==
  ASSUME NEW a \in Seq(Nat), NEW b \in Seq(Nat), NEW c \in Seq(Nat)
  PROVE  Chained(compareNumericToken(a, b), compareNumericToken(b, c),
                 compareNumericToken(a, c))
<1> DEFINE L(s) == Len(Trim(s))
           C(s, t) == compareNumericToken(s, t)
<1>1. \A s \in Seq(Nat) : Trim(s) \in Seq(Nat) /\ L(s) \in Nat  BY Trimmed
<1>2. \A s, t \in Seq(Nat) :
        /\ L(s) < L(t) => C(s, t) = -1
        /\ L(t) < L(s) => C(s, t) = 1
        /\ L(s) = L(t) => C(s, t) = compareText(Trim(s), Trim(t))
  BY <1>1 DEF compareNumericToken
<1> HIDE DEF L, C
<1>3. SUFFICES ASSUME C(a, b) <= 0, C(b, c) <= 0
               PROVE  C(a, c) <= 0 /\ (C(a, c) = 0 => C(a, b) = 0 /\ C(b, c) = 0)
  BY DEF Chained, C
<1>4. L(a) <= L(b) /\ L(b) <= L(c)
  <2>1. ~(L(b) < L(a)) /\ ~(L(c) < L(b))  BY <1>2, <1>3
  <2> QED  BY <1>1, <2>1
<1>5. CASE L(a) < L(b) \/ L(b) < L(c)
  <2>1. L(a) < L(c)  BY <1>1, <1>4, <1>5
  <2>2. C(a, c) = -1  BY <1>2, <2>1
  <2> QED  BY <2>2
<1>6. CASE L(a) = L(b) /\ L(b) = L(c)
  <2>1. Chained(compareText(Trim(a), Trim(b)), compareText(Trim(b), Trim(c)),
                compareText(Trim(a), Trim(c)))
    BY <1>1, TextChained
  <2>2. Chained(C(a, b), C(b, c), C(a, c))  BY <1>2, <1>6, <2>1
  <2> QED  BY <1>3, <2>2 DEF Chained
<1> QED  BY <1>1, <1>4, <1>5, <1>6

\* The cases of compareToken, which exclude each other.
LEMMA TokenCases ==
  ASSUME NEW a, NEW b
  PROVE  /\ numericToken(a) \in BOOLEAN
         /\ numericToken(a) /\ numericToken(b) => compareToken(a, b) = compareNumericToken(a, b)
         /\ numericToken(a) /\ ~numericToken(b) => compareToken(a, b) = 1
         /\ ~numericToken(a) /\ numericToken(b) => compareToken(a, b) = -1
         /\ ~numericToken(a) /\ ~numericToken(b) => compareToken(a, b) = compareText(a, b)
<1>1. \A s : numericToken(s) \in BOOLEAN  BY DEF numericToken
<1> QED  BY <1>1 DEF compareToken

\* Two tokens compare the same from either side.
LEMMA TokenOpposite ==
  ASSUME NEW a \in Seq(Nat), NEW b \in Seq(Nat)
  PROVE  Opposite(compareToken(a, b), compareToken(b, a))
<1>1. CASE numericToken(a) /\ numericToken(b)  BY <1>1, TokenCases, NumberOpposite
<1>2. CASE numericToken(a) /\ ~numericToken(b)  BY <1>2, TokenCases DEF Opposite
<1>3. CASE ~numericToken(a) /\ numericToken(b)  BY <1>3, TokenCases DEF Opposite
<1>4. CASE ~numericToken(a) /\ ~numericToken(b)  BY <1>4, TokenCases, TextOpposite
<1> QED  BY <1>1, <1>2, <1>3, <1>4

\* A word is less than a number, and within either kind results chain.
LEMMA TokenChained ==
  ASSUME NEW a \in Seq(Nat), NEW b \in Seq(Nat), NEW c \in Seq(Nat)
  PROVE  Chained(compareToken(a, b), compareToken(b, c), compareToken(a, c))
<1>1. CASE numericToken(a) /\ numericToken(b) /\ numericToken(c)
  BY <1>1, TokenCases, NumberChained
<1>2. CASE ~numericToken(a) /\ ~numericToken(b) /\ ~numericToken(c)
  BY <1>2, TokenCases, TextChained
<1>3. CASE ~numericToken(a) /\ numericToken(c)
  <2>1. compareToken(a, c) = -1  BY <1>3, TokenCases
  <2> QED  BY <2>1 DEF Chained
<1>4. CASE numericToken(a) /\ ~numericToken(b)
  <2>1. compareToken(a, b) = 1  BY <1>4, TokenCases
  <2> QED  BY <2>1 DEF Chained
<1>5. CASE numericToken(b) /\ ~numericToken(c)
  <2>1. compareToken(b, c) = 1  BY <1>5, TokenCases
  <2> QED  BY <2>1 DEF Chained
<1> QED  BY <1>1, <1>2, <1>3, <1>4, <1>5

-----------------------------------------------------------------------------
\* What a token may be.
Word == Seq(Nat)

\* What the loop of compareVersion finds in its i-th turn.
Verdict(ks, ls, i) ==
    IF i > Len(ks) THEN IF i > Len(ls) THEN 0 ELSE -1
    ELSE IF i > Len(ls) THEN 1 ELSE compareToken(ks[i], ls[i])

\* A version that has run out of tokens is less than one that has not.
LEMMA VerdictOpposite ==
  ASSUME NEW ks \in Seq(Word), NEW ls \in Seq(Word), NEW i \in Nat \ {0}
  PROVE  Opposite(Verdict(ks, ls, i), Verdict(ls, ks, i))
<1> i \in Nat /\ i >= 1 /\ Len(ks) \in Nat /\ Len(ls) \in Nat  OBVIOUS
<1>1. CASE i <= Len(ks) /\ i <= Len(ls)
  <2>1. ks[i] \in Word /\ ls[i] \in Word  BY <1>1
  <2>2. /\ Verdict(ks, ls, i) = compareToken(ks[i], ls[i])
        /\ Verdict(ls, ks, i) = compareToken(ls[i], ks[i])
    BY <1>1 DEF Verdict
  <2> QED  BY <2>1, <2>2, TokenOpposite DEF Word
<1>2. CASE i <= Len(ks) /\ i > Len(ls)  BY <1>2 DEF Verdict, Opposite
<1>3. CASE i > Len(ks) /\ i <= Len(ls)  BY <1>3 DEF Verdict, Opposite
<1>4. CASE i > Len(ks) /\ i > Len(ls)  BY <1>4 DEF Verdict, Opposite
<1> QED  BY <1>1, <1>2, <1>3, <1>4

\* ... which fits in with how tokens compare.
LEMMA VerdictChained ==
  ASSUME NEW ks \in Seq(Word), NEW ls \in Seq(Word), NEW ms \in Seq(Word),
         NEW i \in Nat \ {0}
  PROVE  Chained(Verdict(ks, ls, i), Verdict(ls, ms, i), Verdict(ks, ms, i))
<1> i \in Nat /\ i >= 1 /\ Len(ks) \in Nat /\ Len(ls) \in Nat /\ Len(ms) \in Nat  OBVIOUS
<1>1. CASE i <= Len(ks) /\ i <= Len(ls) /\ i <= Len(ms)
  <2>1. ks[i] \in Word /\ ls[i] \in Word /\ ms[i] \in Word  BY <1>1
  <2>2. /\ Verdict(ks, ls, i) = compareToken(ks[i], ls[i])
        /\ Verdict(ls, ms, i) = compareToken(ls[i], ms[i])
        /\ Verdict(ks, ms, i) = compareToken(ks[i], ms[i])
    BY <1>1 DEF Verdict
  <2> QED  BY <2>1, <2>2, TokenChained DEF Word
<1>2. CASE i <= Len(ks) /\ i > Len(ls)
  <2>1. Verdict(ks, ls, i) = 1  BY <1>2 DEF Verdict
  <2> QED  BY <2>1 DEF Chained
<1>3. CASE i <= Len(ls) /\ i > Len(ms)
  <2>1. Verdict(ls, ms, i) = 1  BY <1>3 DEF Verdict
  <2> QED  BY <2>1 DEF Chained
<1>4. CASE i > Len(ks) /\ i <= Len(ms)
  <2>1. Verdict(ks, ms, i) = -1  BY <1>4 DEF Verdict
  <2> QED  BY <2>1 DEF Chained
<1>5. CASE i > Len(ks) /\ i > Len(ls) /\ i > Len(ms)
  <2>1. Verdict(ks, ls, i) = 0 /\ Verdict(ls, ms, i) = 0 /\ Verdict(ks, ms, i) = 0
    BY <1>5 DEF Verdict
  <2> QED  BY <2>1 DEF Chained
<1> QED  BY <1>1, <1>2, <1>3, <1>4, <1>5

\* The loop returns what it finds in the first turn that finds anything.
Judged(ks, ls, r) ==
    \/ r = 0 /\ \A i \in Nat \ {0} : Verdict(ks, ls, i) = 0
    \/ \E i \in Nat \ {0} : /\ r = Verdict(ks, ls, i) /\ r # 0
                            /\ \A j \in 1..(i - 1) : Verdict(ks, ls, j) = 0

\* The first turn that finds something is the same from either side.
LEMMA JudgedOpposite ==
  ASSUME NEW ks \in Seq(Word), NEW ls \in Seq(Word), NEW r, NEW s,
         Judged(ks, ls, r), Judged(ls, ks, s)
  PROVE  Opposite(r, s)
<1>1. \A i \in Nat \ {0} : Opposite(Verdict(ks, ls, i), Verdict(ls, ks, i))  BY VerdictOpposite
<1>2. \A i \in Nat \ {0} : Verdict(ks, ls, i) = 0 <=> Verdict(ls, ks, i) = 0
  <2>1. \A p, q : Opposite(p, q) => (p = 0 <=> q = 0)  BY DEF Opposite
  <2> QED  BY <1>1, <2>1
<1>3. CASE r = 0 /\ \A i \in Nat \ {0} : Verdict(ks, ls, i) = 0
  <2>1. s = 0  BY <1>2, <1>3 DEF Judged
  <2> QED  BY <1>3, <2>1 DEF Opposite
<1>4. ASSUME NEW i \in Nat \ {0}, r = Verdict(ks, ls, i), r # 0,
             \A j \in 1..(i - 1) : Verdict(ks, ls, j) = 0
      PROVE  Opposite(r, s)
  <2>1. PICK k \in Nat \ {0} : s = Verdict(ls, ks, k) /\ s # 0
                              /\ \A j \in 1..(k - 1) : Verdict(ls, ks, j) = 0
    BY <1>2, <1>4 DEF Judged
  <2>2. ~(i < k)
    <3>1. SUFFICES ASSUME i \in 1..(k - 1)
                   PROVE  FALSE
      OBVIOUS
    <3> QED  BY <1>2, <1>4, <2>1, <3>1
  <2>3. ~(k < i)
    <3>1. SUFFICES ASSUME k \in 1..(i - 1)
                   PROVE  FALSE
      OBVIOUS
    <3> QED  BY <1>2, <1>4, <2>1, <3>1
  <2>4. i = k  BY <2>2, <2>3
  <2> QED  BY <1>1, <1>4, <2>1, <2>4
<1> QED  BY <1>3, <1>4 DEF Judged

\* A turn before which nothing was found decides, if it finds anything.
LEMMA JudgedAt ==
  ASSUME NEW ks \in Seq(Word), NEW ls \in Seq(Word), NEW r, Judged(ks, ls, r),
         NEW i \in Nat \ {0}, \A j \in 1..(i - 1) : Verdict(ks, ls, j) = 0,
         Verdict(ks, ls, i) # 0
  PROVE  r = Verdict(ks, ls, i)
<1>1. PICK k \in Nat \ {0} : /\ r = Verdict(ks, ls, k) /\ r # 0
                             /\ \A j \in 1..(k - 1) : Verdict(ks, ls, j) = 0
  BY DEF Judged
<1>2. ~(i \in 1..(k - 1)) /\ ~(k \in 1..(i - 1))  BY <1>1
<1>3. i = k  BY <1>2
<1> QED  BY <1>1, <1>3

\* Where either of two comparisons first finds something, so does the third.
LEMMA JudgedChained ==
  ASSUME NEW ks \in Seq(Word), NEW ls \in Seq(Word), NEW ms \in Seq(Word),
         NEW r, NEW s, NEW t,
         Judged(ks, ls, r), Judged(ls, ms, s), Judged(ks, ms, t)
  PROVE  Chained(r, s, t)
<1> DEFINE P(i) == Verdict(ks, ls, i)
           Q(i) == Verdict(ls, ms, i)
           R(i) == Verdict(ks, ms, i)
           Found == {i \in Nat : i # 0 /\ (P(i) # 0 \/ Q(i) # 0)}
<1>1. \A i \in Nat \ {0} : /\ P(i) \in {-1, 0, 1} /\ Q(i) \in {-1, 0, 1} /\ R(i) \in {-1, 0, 1}
                           /\ Chained(P(i), Q(i), R(i))
  BY VerdictOpposite, VerdictChained DEF Opposite
<1>2. \A i \in Nat \ {0} : P(i) = 0 /\ Q(i) = 0 => R(i) = 0
  <2>1. SUFFICES ASSUME NEW i \in Nat \ {0}, P(i) = 0, Q(i) = 0
                 PROVE  R(i) = 0
    OBVIOUS
  <2>2. /\ Opposite(P(i), Verdict(ls, ks, i)) /\ Opposite(Q(i), Verdict(ms, ls, i))
        /\ Opposite(R(i), Verdict(ms, ks, i))
    BY VerdictOpposite
  <2>3. Verdict(ls, ks, i) = 0 /\ Verdict(ms, ls, i) = 0  BY <2>1, <2>2 DEF Opposite
  <2>4. Chained(Verdict(ms, ls, i), Verdict(ls, ks, i), Verdict(ms, ks, i))  BY VerdictChained
  <2>5. Verdict(ms, ks, i) <= 0  BY <2>3, <2>4 DEF Chained
  <2>6. R(i) <= 0  BY <1>1, <2>1 DEF Chained
  <2> QED  BY <2>2, <2>5, <2>6 DEF Opposite
<1>3. CASE Found = {}
  <2>1. \A i \in Nat \ {0} : P(i) = 0 /\ Q(i) = 0 /\ R(i) = 0  BY <1>2, <1>3
  <2>2. r = 0 /\ s = 0 /\ t = 0  BY <2>1 DEF Judged
  <2> QED  BY <2>2 DEF Chained
<1>4. CASE Found # {}
  <2>1. PICK m \in Found : \A n \in Found : m <= n  BY <1>4, Least
  <2>2. m \in Nat \ {0} /\ (P(m) # 0 \/ Q(m) # 0)  BY <2>1
  <2>3. \A j \in 1..(m - 1) : P(j) = 0 /\ Q(j) = 0
    <3>1. ASSUME NEW j \in 1..(m - 1)
          PROVE  j \notin Found /\ j \in Nat \ {0}
      BY <2>1, <2>2
    <3> QED  BY <3>1
  <2>4. \A j \in 1..(m - 1) : R(j) = 0  BY <1>2, <2>2, <2>3
  <2>5. SUFFICES ASSUME r <= 0, s <= 0
                 PROVE  t <= 0 /\ t # 0
    BY DEF Chained
  <2>6. P(m) # 0 => P(m) = r  BY <2>2, <2>3, JudgedAt
  <2>7. Q(m) # 0 => Q(m) = s  BY <2>2, <2>3, JudgedAt
  <2>8. P(m) <= 0 /\ Q(m) <= 0  BY <2>5, <2>6, <2>7
  <2>9. R(m) <= 0 /\ R(m) # 0
    <3>1. Chained(P(m), Q(m), R(m))  BY <1>1, <2>2
    <3> QED  BY <2>2, <2>8, <3>1 DEF Chained
  <2>10. t = R(m)  BY <2>2, <2>4, <2>9, JudgedAt
  <2> QED  BY <2>9, <2>10
<1> QED  BY <1>3, <1>4

-----------------------------------------------------------------------------
\* One turn of the loop of tokenizeVersion.
Turn(v, prev, n) ==
    CASE n = 0 -> [out |-> <<>>, cur |-> <<>>]
      [] n > 0 /\ v[n] = Separator -> [out |-> Flush(prev), cur |-> <<>>]
      [] OTHER -> [prev EXCEPT !.cur = Append(@, ToLower(v[n]))]

\* The function that Scan chooses exists.
LEMMA ScanTurns ==
  ASSUME NEW v \in Seq(Nat)
  PROVE  Scan(v) = [n \in 0..Len(v) |-> Turn(v, Scan(v)[n - 1], n)]
<1> DEFINE Fits(f, n) == f = [m \in 0..n |-> Turn(v, f[m - 1], m)]
           T == {n \in Nat : \E f : Fits(f, n)}
<1>1. 0 \in T
  <2> DEFINE f == [m \in 0..0 |-> [out |-> <<>>, cur |-> <<>>]]
  <2>1. \A m \in 0..0 : Turn(v, f[m - 1], m) = [out |-> <<>>, cur |-> <<>>]  BY DEF Turn
  <2>2. Fits(f, 0)  BY <2>1
  <2> QED  BY <2>2
<1>2. ASSUME NEW n \in Nat, n \in T
      PROVE  n + 1 \in T
  <2>1. PICK f : Fits(f, n)  BY <1>2
  <2> DEFINE g == [m \in 0..(n + 1) |-> IF m = n + 1 THEN Turn(v, f[n], n + 1) ELSE f[m]]
  <2>2. ASSUME NEW m \in 0..(n + 1)
        PROVE  g[m] = Turn(v, g[m - 1], m)
    <3>1. CASE m = n + 1
      <4>1. g[m - 1] = f[n]  BY <3>1
      <4> QED  BY <3>1, <4>1
    <3>2. CASE m = 0  BY <2>1, <3>2 DEF Turn
    <3>3. CASE m \in 1..n
      <4>1. g[m] = f[m] /\ g[m - 1] = f[m - 1]  BY <3>3
      <4>2. f[m] = Turn(v, f[m - 1], m)  BY <2>1, <3>3
      <4> QED  BY <4>1, <4>2
    <3> QED  BY <3>1, <3>2, <3>3
  <2> HIDE DEF g
  <2>3. g = [m \in 0..(n + 1) |-> g[m]]  BY DEF g
  <2>4. Fits(g, n + 1)  BY <2>2, <2>3
  <2> HIDE DEF Fits
  <2>5. \E h : Fits(h, n + 1)  BY <2>4
  <2> QED  BY <2>5
<1> HIDE DEF T
<1>3. Len(v) \in T  BY <1>1, <1>2, Climb
<1>4. \E f : Fits(f, Len(v))  BY <1>3 DEF T
<1>5. Scan(v) = CHOOSE f : Fits(f, Len(v))  BY DEF Scan, Turn
<1> QED  BY <1>4, <1>5

\* Its tokens are strings.
LEMMA TokensTyped ==
  ASSUME NEW v \in Seq(Nat)
  PROVE  tokenizeVersion(v) \in Seq(Word)
<1> DEFINE scan == Scan(v)
           State == [out : Seq(Word), cur : Word]
           T == {n \in Nat : n <= Len(v) => scan[n] \in State}
<1>1. \A prev \in State : Flush(prev) \in Seq(Word)  BY DEF Flush
<1>2. \A n \in 0..Len(v) : scan[n] = Turn(v, scan[n - 1], n)  BY ScanTurns
<1> HIDE DEF scan
<1>3. <<>> \in Word /\ <<>> \in Seq(Word)  BY DEF Word
<1>4. 0 \in T
  <2>1. 0 \in 0..Len(v)  OBVIOUS
  <2>2. scan[0] = Turn(v, scan[0 - 1], 0)  BY <1>2, <2>1
  <2>3. \A p : Turn(v, p, 0) = [out |-> <<>>, cur |-> <<>>]  BY DEF Turn
  <2>4. scan[0] = [out |-> <<>>, cur |-> <<>>]  BY <2>2, <2>3
  <2>5. scan[0] \in State  BY <1>3, <2>4
  <2> QED  BY <2>5
<1>5. ASSUME NEW n \in Nat, n \in T
      PROVE  n + 1 \in T
  <2>1. SUFFICES ASSUME n + 1 <= Len(v)
                 PROVE  scan[n + 1] \in State
    OBVIOUS
  <2>2. scan[n] \in State /\ n + 1 \in 1..Len(v)  BY <1>5, <2>1
  <2>3. scan[n + 1] = Turn(v, scan[n], n + 1)  BY <1>2, <2>2
  <2>4. CASE v[n + 1] = Separator
    <3>1. scan[n + 1] = [out |-> Flush(scan[n]), cur |-> <<>>]  BY <2>2, <2>3, <2>4 DEF Turn
    <3> QED  BY <1>1, <1>3, <2>2, <3>1
  <2>5. CASE v[n + 1] # Separator
    <3>1. scan[n + 1] = [scan[n] EXCEPT !.cur = Append(@, ToLower(v[n + 1]))]
      BY <2>2, <2>3, <2>5 DEF Turn
    <3>2. ToLower(v[n + 1]) \in Nat
      <4>1. v[n + 1] \in Nat  BY <2>2
      <4>2. \A c \in Nat : ToLower(c) \in Nat  BY DEF ToLower, Upper
      <4> QED  BY <4>1, <4>2
    <3>3. Append(scan[n].cur, ToLower(v[n + 1])) \in Word  BY <2>2, <3>2 DEF Word
    <3> QED  BY <2>2, <3>1, <3>3
  <2> QED  BY <2>4, <2>5
<1> HIDE DEF T
<1>6. Len(v) \in T  BY <1>4, <1>5, Climb
<1>7. scan[Len(v)] \in State  BY <1>6 DEF T
<1> QED  BY <1>1, <1>7 DEF tokenizeVersion, scan

\* compareVersion judges by the tokens.
LEMMA VersionJudged ==
  ASSUME NEW v \in Seq(Nat), NEW w \in Seq(Nat)
  PROVE  Judged(tokenizeVersion(v), tokenizeVersion(w), compareVersion(v, w))
<1> DEFINE ks == tokenizeVersion(v)
           ls == tokenizeVersion(w)
           D == Decided(ks, ls)
<1>1. ks \in Seq(Word) /\ ls \in Seq(Word)  BY TokensTyped
<1>2. compareVersion(v, w) =
        IF v = w \/ D = {} THEN 0
        ELSE CASE Min(D) > Len(ks) -> -1
               [] Min(D) > Len(ls) -> 1
               [] OTHER -> compareToken(ks[Min(D)], ls[Min(D)])
  BY DEF compareVersion
<1> HIDE DEF ks, ls
<1>3. D \in SUBSET (Nat \ {0})  BY <1>1 DEF Decided
<1>4. \A i \in Nat \ {0} : i \in D <=> Verdict(ks, ls, i) # 0
  BY <1>1 DEF Decided, Verdict
<1> HIDE DEF D
<1>5. CASE v = w
  <2>1. ASSUME NEW i \in Nat \ {0}
        PROVE  Verdict(ks, ls, i) = 0
    <3>1. ks = ls  BY <1>5 DEF ks, ls
    <3>2. Opposite(Verdict(ks, ls, i), Verdict(ks, ls, i))  BY <1>1, <3>1, VerdictOpposite
    <3> QED  BY <3>2 DEF Opposite
  <2> QED  BY <1>2, <1>5, <2>1 DEF Judged, ks, ls
<1>6. CASE v # w /\ D = {}
  <2>1. \A i \in Nat \ {0} : Verdict(ks, ls, i) = 0  BY <1>4, <1>6
  <2> QED  BY <1>2, <1>6, <2>1 DEF Judged, ks, ls
<1>7. CASE v # w /\ D # {}
  <2> DEFINE m == Min(D)
  <2>1. D \in SUBSET Nat  BY <1>3
  <2>2. m \in D /\ \A n \in D : m <= n  BY <1>7, <2>1, MinIsLeast
  <2>3. m \in Nat \ {0} /\ Verdict(ks, ls, m) # 0  BY <1>3, <1>4, <2>2
  <2>4. \A j \in 1..(m - 1) : Verdict(ks, ls, j) = 0
    <3>1. ASSUME NEW j \in 1..(m - 1)
          PROVE  j \in Nat \ {0} /\ j \notin D
      BY <2>2, <2>3
    <3> QED  BY <1>4, <3>1
  <2>5. compareVersion(v, w) = Verdict(ks, ls, m)
    <3>1. m \in Nat /\ Len(ks) \in Nat /\ Len(ls) \in Nat  BY <1>1, <2>3
    <3>2. compareVersion(v, w) =
            CASE m > Len(ks) -> -1
              [] m > Len(ls) -> 1
              [] OTHER -> compareToken(ks[m], ls[m])
      BY <1>2, <1>7
    <3>3. ~(m > Len(ks) /\ m > Len(ls))  BY <2>3 DEF Verdict
    <3> QED  BY <3>1, <3>2, <3>3 DEF Verdict
  <2> QED  BY <2>3, <2>4, <2>5 DEF Judged, ks, ls
<1> QED  BY <1>5, <1>6, <1>7

-----------------------------------------------------------------------------
\* The versions stay what they are.
LEMMA VersionsStay == VersionSpec => [](left \in Versions /\ middle \in Versions /\ right \in Versions)
<1>1. VersionInit => left \in Versions /\ middle \in Versions /\ right \in Versions  BY DEF VersionInit
<1>2. (left \in Versions /\ middle \in Versions /\ right \in Versions) /\ [VersionNext]_versions
        => (left \in Versions /\ middle \in Versions /\ right \in Versions)'
  BY DEF VersionNext, versions
<1> QED  BY <1>1, <1>2, PTL DEF VersionSpec

\* Versions are sequences of numbers.
LEMMA Comparable ==
  ASSUME NEW v \in Versions
  PROVE  v \in Seq(Nat)
<1>1. Digit \cup Lower \cup Upper \cup {Separator} \subseteq Nat
  BY DEF Digit, Lower, Upper, Separator
<1> QED  BY <1>1, VersionAssumption

\* Whatever versions a repository contains, compareVersion is a total preorder
\* on them: antisymmetric, and transitive, equal ones included.
THEOREM VersionsOrdered == VersionSpec => []TotalPreorder
<1>1. ASSUME left \in Versions, middle \in Versions, right \in Versions
      PROVE  TotalPreorder
  <2>1. left \in Seq(Nat) /\ middle \in Seq(Nat) /\ right \in Seq(Nat)  BY <1>1, Comparable
  <2>2. /\ tokenizeVersion(left) \in Seq(Word) /\ tokenizeVersion(middle) \in Seq(Word)
        /\ tokenizeVersion(right) \in Seq(Word)
    BY <2>1, TokensTyped
  <2>3. Opposite(compareVersion(left, middle), compareVersion(middle, left))
    BY <2>1, <2>2, VersionJudged, JudgedOpposite
  <2>4. Chained(compareVersion(left, middle), compareVersion(middle, right),
                compareVersion(left, right))
    <3>1. /\ Judged(tokenizeVersion(left), tokenizeVersion(middle), compareVersion(left, middle))
          /\ Judged(tokenizeVersion(middle), tokenizeVersion(right), compareVersion(middle, right))
          /\ Judged(tokenizeVersion(left), tokenizeVersion(right), compareVersion(left, right))
      BY <2>1, VersionJudged
    <3> QED  BY <2>2, <3>1, JudgedChained
  <2>5. compareVersion(left, middle) = -compareVersion(middle, left)  BY <2>3 DEF Opposite
  <2> QED  BY <2>4, <2>5 DEF Chained, TotalPreorder
<1> QED  BY <1>1, VersionsStay, PTL

-----------------------------------------------------------------------------
\* Digits are numbers.
LEMMA DigitsAreNumbers ==
  ASSUME NEW s \in Seq(Digit)
  PROVE  /\ s \in Seq(Nat) /\ Len(s) \in Nat
         /\ \A i \in 1..Len(s) : s[i] \in 0..9
<1>1. \A i \in 1..Len(s) : s[i] \in Digit  OBVIOUS
<1>2. \A i \in 1..Len(s) : s[i] \in 0..9  BY <1>1 DEF Digit
<1>3. \A i \in 1..Len(s) : s[i] \in Nat  BY <1>2
<1> QED  BY <1>2, <1>3

\* A string of digits is one token.
LEMMA NumberIsToken ==
  ASSUME NEW v \in Seq(Digit), v # <<>>
  PROVE  tokenizeVersion(v) = <<v>>
<1> DEFINE scan == Scan(v)
           T == {n \in Nat : n <= Len(v) =>
                   /\ scan[n] = [out |-> <<>>, cur |-> scan[n].cur]
                   /\ scan[n].cur \in Seq(Digit) /\ Len(scan[n].cur) = n
                   /\ \A j \in 1..n : scan[n].cur[j] = v[j]}
<1>1. v \in Seq(Nat) /\ Len(v) \in Nat  BY DigitsAreNumbers
<1>2. \A n \in 0..Len(v) : scan[n] = Turn(v, scan[n - 1], n)  BY <1>1, ScanTurns
<1> HIDE DEF scan
<1>3. 0 \in T
  <2>1. 0 \in 0..Len(v)  BY <1>1
  <2>2. scan[0] = Turn(v, scan[0 - 1], 0)  BY <1>2, <2>1
  <2>3. \A p : Turn(v, p, 0) = [out |-> <<>>, cur |-> <<>>]  BY DEF Turn
  <2>4. scan[0] = [out |-> <<>>, cur |-> <<>>]  BY <2>2, <2>3
  <2>5. scan[0].cur = <<>>  BY <2>4
  <2>6. <<>> \in Seq(Digit) /\ Len(<<>>) = 0  OBVIOUS
  <2>7. /\ scan[0] = [out |-> <<>>, cur |-> scan[0].cur]
        /\ scan[0].cur \in Seq(Digit) /\ Len(scan[0].cur) = 0
        /\ \A j \in 1..0 : scan[0].cur[j] = v[j]
    BY <2>4, <2>5, <2>6
  <2> QED  BY <2>7
<1>4. ASSUME NEW n \in Nat, n \in T
      PROVE  n + 1 \in T
  <2>1. SUFFICES ASSUME n + 1 <= Len(v)
                 PROVE  /\ scan[n + 1] = [out |-> <<>>, cur |-> scan[n + 1].cur]
                        /\ scan[n + 1].cur \in Seq(Digit) /\ Len(scan[n + 1].cur) = n + 1
                        /\ \A j \in 1..(n + 1) : scan[n + 1].cur[j] = v[j]
    OBVIOUS
  <2> DEFINE c == scan[n].cur
  <2>2. /\ scan[n] = [out |-> <<>>, cur |-> c]
        /\ c \in Seq(Digit) /\ Len(c) = n
        /\ \A j \in 1..n : c[j] = v[j]
    BY <1>1, <1>4, <2>1
  <2>3. n + 1 \in 1..Len(v) /\ n + 1 \in 0..Len(v) /\ v[n + 1] \in Digit  BY <1>1, <2>1
  <2>4. v[n + 1] # Separator /\ ToLower(v[n + 1]) = v[n + 1]
    <3>1. v[n + 1] \in 0..9  BY <2>3 DEF Digit
    <3>2. \A digit \in 0..9 : digit # Separator /\ ToLower(digit) = digit
      BY DEF Separator, ToLower, Upper
    <3> QED  BY <3>1, <3>2
  <2>5. scan[n + 1] = Turn(v, scan[n], n + 1)  BY <1>2, <2>3
  <2> HIDE DEF c
  <2>6. scan[n + 1] = [out |-> <<>>, cur |-> Append(c, v[n + 1])]
    <3>1. scan[n + 1] = [scan[n] EXCEPT !.cur = Append(@, ToLower(v[n + 1]))]
      BY <2>3, <2>4, <2>5 DEF Turn
    <3>2. scan[n + 1] = [scan[n] EXCEPT !.cur = Append(c, v[n + 1])]  BY <2>4, <3>1 DEF c
    <3>3. scan[n + 1] = [[out |-> <<>>, cur |-> c] EXCEPT !.cur = Append(c, v[n + 1])]
      BY <2>2, <3>2
    <3> QED  BY <3>3
  <2>7. /\ Append(c, v[n + 1]) \in Seq(Digit) /\ Len(Append(c, v[n + 1])) = n + 1
        /\ \A j \in 1..(n + 1) : Append(c, v[n + 1])[j] = v[j]
    BY <2>2, <2>3
  <2> QED  BY <2>6, <2>7
<1> HIDE DEF T
<1>5. Len(v) \in T  BY <1>1, <1>3, <1>4, Climb
<1> DEFINE c == scan[Len(v)].cur
<1>6. /\ scan[Len(v)] = [out |-> <<>>, cur |-> c]
      /\ c \in Seq(Digit) /\ Len(c) = Len(v) /\ \A j \in 1..Len(v) : c[j] = v[j]
  BY <1>1, <1>5 DEF T
<1> HIDE DEF c
<1>7. c = v  BY <1>1, <1>6
<1>8. Flush(scan[Len(v)]) = <<v>>
  <2>1. scan[Len(v)].cur = v /\ scan[Len(v)].out = <<>>  BY <1>6, <1>7
  <2> QED  BY <2>1 DEF Flush
<1> QED  BY <1>8 DEF tokenizeVersion, scan

\* Two strings of digits compare as numbers.
LEMMA NumbersCompare ==
  ASSUME NEW v \in Seq(Digit), NEW w \in Seq(Digit), v # <<>>, w # <<>>
  PROVE  compareVersion(v, w) = compareNumericToken(v, w)
<1>1. v \in Word /\ w \in Word  BY DigitsAreNumbers DEF Word
<1>2. numericToken(v) /\ numericToken(w)  BY DEF numericToken, ToSet
<1>3. <<v>> \in Seq(Word) /\ <<w>> \in Seq(Word)  BY <1>1
<1>4. Judged(<<v>>, <<w>>, compareVersion(v, w))
  BY <1>1, NumberIsToken, VersionJudged DEF Word
<1>5. Verdict(<<v>>, <<w>>, 1) = compareNumericToken(v, w)  BY <1>2, TokenCases DEF Verdict
<1>6. \A i \in Nat \ {0} : i # 1 => Verdict(<<v>>, <<w>>, i) = 0  BY DEF Verdict
<1>7. CASE Verdict(<<v>>, <<w>>, 1) # 0
  <2>1. 1 \in Nat \ {0} /\ \A j \in 1..(1 - 1) : Verdict(<<v>>, <<w>>, j) = 0  OBVIOUS
  <2>2. \A r : Judged(<<v>>, <<w>>, r) => r = Verdict(<<v>>, <<w>>, 1)
    BY <1>3, <1>7, <2>1, JudgedAt
  <2> QED  BY <1>4, <1>5, <2>2
<1>8. CASE Verdict(<<v>>, <<w>>, 1) = 0
  <2>1. \A i \in Nat \ {0} : Verdict(<<v>>, <<w>>, i) = 0  BY <1>6, <1>8
  <2> QED  BY <1>4, <1>5, <1>8, <2>1 DEF Judged
<1> QED  BY <1>7, <1>8

\* What the digits before each position denote.
Denotes(f, s) ==
    /\ f \in [0..Len(s) -> Nat]
    /\ f[0] = 0
    /\ \A n \in 1..Len(s) : f[n] = 10 * f[n - 1] + s[n]

\* The function that Value chooses exists.
LEMMA ValueDenotes ==
  ASSUME NEW s \in Seq(Digit)
  PROVE  \E f : Denotes(f, s) /\ Value(s) = f[Len(s)]
<1> DEFINE Fits(f, n) == f = [m \in 0..n |-> IF m = 0 THEN 0 ELSE 10 * f[m - 1] + s[m]]
           T == {n \in Nat : \E f : Fits(f, n)}
<1>1. 0 \in T
  <2> DEFINE f == [m \in 0..0 |-> 0]
  <2>1. Fits(f, 0)  OBVIOUS
  <2> QED  BY <2>1
<1>2. ASSUME NEW n \in Nat, n \in T
      PROVE  n + 1 \in T
  <2>1. PICK f : Fits(f, n)  BY <1>2
  <2> DEFINE g == [m \in 0..(n + 1) |-> IF m = n + 1 THEN 10 * f[n] + s[n + 1] ELSE f[m]]
  <2>2. ASSUME NEW m \in 0..(n + 1)
        PROVE  g[m] = IF m = 0 THEN 0 ELSE 10 * g[m - 1] + s[m]
    <3>1. CASE m = n + 1
      <4>1. g[m - 1] = f[n]  BY <3>1
      <4> QED  BY <3>1, <4>1
    <3>2. CASE m = 0  BY <2>1, <3>2
    <3>3. CASE m \in 1..n
      <4>1. g[m] = f[m] /\ g[m - 1] = f[m - 1]  BY <3>3
      <4>2. f[m] = 10 * f[m - 1] + s[m]  BY <2>1, <3>3
      <4> QED  BY <3>3, <4>1, <4>2
    <3> QED  BY <3>1, <3>2, <3>3
  <2> HIDE DEF g
  <2>3. g = [m \in 0..(n + 1) |-> g[m]]  BY DEF g
  <2>4. Fits(g, n + 1)  BY <2>2, <2>3
  <2> HIDE DEF Fits
  <2>5. \E h : Fits(h, n + 1)  BY <2>4
  <2> QED  BY <2>5
<1> HIDE DEF T
<1>3. Len(s) \in T  BY <1>1, <1>2, Climb
<1>4. \E f : Fits(f, Len(s))  BY <1>3 DEF T
<1> DEFINE f == CHOOSE f : Fits(f, Len(s))
<1>5. Value(s) = f[Len(s)]  BY DEF Value
<1>6. Fits(f, Len(s))  BY <1>4
<1> HIDE DEF f
<1>7. /\ f = [m \in 0..Len(s) |-> f[m]]
      /\ f[0] = 0
      /\ \A m \in 1..Len(s) : f[m] = 10 * f[m - 1] + s[m]
  <2>1. \A m \in 0..Len(s) : f[m] = IF m = 0 THEN 0 ELSE 10 * f[m - 1] + s[m]  BY <1>6
  <2>2. f = [m \in 0..Len(s) |-> f[m]]  BY <1>6
  <2>3. \A m \in 1..Len(s) : m \in 0..Len(s) /\ m # 0  OBVIOUS
  <2>4. 0 \in 0..Len(s)  BY DigitsAreNumbers
  <2>5. f[0] = 0  BY <2>1, <2>4
  <2>6. \A m \in 1..Len(s) : f[m] = 10 * f[m - 1] + s[m]  BY <2>1, <2>3
  <2> HIDE DEF Fits
  <2> QED  BY <2>2, <2>5, <2>6
<1> DEFINE N == {n \in Nat : n <= Len(s) => f[n] \in Nat}
<1> HIDE DEF Fits
<1>8. 0 \in N  BY <1>7
<1>9. ASSUME NEW n \in Nat, n \in N
      PROVE  n + 1 \in N
  <2>1. SUFFICES ASSUME n + 1 \in 1..Len(s)
                 PROVE  f[n + 1] \in Nat
    OBVIOUS
  <2>2. s[n + 1] \in Nat  BY <2>1 DEF Digit
  <2>3. f[n] \in Nat  BY <1>9, <2>1
  <2>4. f[n + 1] = 10 * f[(n + 1) - 1] + s[n + 1] /\ (n + 1) - 1 = n  BY <1>7, <2>1
  <2> QED  BY <2>2, <2>3, <2>4
<1> HIDE DEF N
<1>10. \A n \in Nat : n \in N  BY <1>8, <1>9, Climb
<1>11. \A n \in 0..Len(s) : f[n] \in Nat  BY <1>10 DEF N
<1> QED  BY <1>5, <1>7, <1>11 DEF Denotes

\* s has after m the d digits that t has after n.
Agree(s, m, t, n, d) == \A k \in 1..d : s[m + k] = t[n + k]

\* The same digits after the same number denote the same number.
LEMMA SameDigits ==
  ASSUME NEW s \in Seq(Digit), NEW t \in Seq(Digit), NEW f, NEW g,
         Denotes(f, s), Denotes(g, t),
         NEW m \in 0..Len(s), NEW n \in 0..Len(t), f[m] = g[n],
         NEW d \in Nat, NEW i \in 0..Len(s), NEW j \in 0..Len(t), i = m + d, j = n + d,
         Agree(s, m, t, n, d)
  PROVE  f[i] = g[j]
<1> DEFINE T == {e \in Nat : e <= d => f[m + e] = g[n + e]}
<1>1. 0 \in T  OBVIOUS
<1>2. ASSUME NEW e \in Nat, e \in T
      PROVE  e + 1 \in T
  <2>1. SUFFICES ASSUME e + 1 <= d
                 PROVE  f[m + (e + 1)] = g[n + (e + 1)]
    OBVIOUS
  <2> DEFINE p == m + (e + 1)
             q == n + (e + 1)
  <2>2. p \in 1..Len(s) /\ q \in 1..Len(t)  BY <2>1
  <2>3. f[p] = 10 * f[p - 1] + s[p] /\ g[q] = 10 * g[q - 1] + t[q]  BY <2>2 DEF Denotes
  <2>4. p - 1 = m + e /\ q - 1 = n + e  OBVIOUS
  <2>5. f[p - 1] = g[q - 1]  BY <1>2, <2>1, <2>4
  <2>6. s[p] = t[q]
    <3>1. e + 1 \in 1..d  BY <2>1
    <3> QED  BY <3>1 DEF Agree
  <2> QED  BY <2>3, <2>5, <2>6
<1> HIDE DEF T
<1>3. d \in T  BY <1>1, <1>2, Climb
<1> QED  BY <1>3 DEF T

\* A number that is behind stays behind, whatever digits follow.
LEMMA StaysBehind ==
  ASSUME NEW s \in Seq(Digit), NEW t \in Seq(Digit), NEW f, NEW g,
         Denotes(f, s), Denotes(g, t),
         NEW m \in 0..Len(s), NEW n \in 0..Len(t), f[m] < g[n],
         NEW d \in Nat, NEW i \in 0..Len(s), NEW j \in 0..Len(t), i = m + d, j = n + d
  PROVE  f[i] < g[j]
<1> DEFINE T == {e \in Nat : e <= d => f[m + e] < g[n + e]}
<1>1. 0 \in T  OBVIOUS
<1>2. ASSUME NEW e \in Nat, e \in T
      PROVE  e + 1 \in T
  <2>1. SUFFICES ASSUME e + 1 <= d
                 PROVE  f[m + (e + 1)] < g[n + (e + 1)]
    OBVIOUS
  <2> DEFINE p == m + (e + 1)
             q == n + (e + 1)
  <2>2. p \in 1..Len(s) /\ q \in 1..Len(t)  BY <2>1
  <2>3. f[p] = 10 * f[p - 1] + s[p] /\ g[q] = 10 * g[q - 1] + t[q]  BY <2>2 DEF Denotes
  <2>4. p - 1 = m + e /\ q - 1 = n + e  OBVIOUS
  <2>5. f[p - 1] < g[q - 1]  BY <1>2, <2>1, <2>4
  <2>6. s[p] \in 0..9 /\ t[q] \in 0..9  BY <2>2 DEF Digit
  <2>7. f[p - 1] \in Nat /\ g[q - 1] \in Nat
    <3>1. p - 1 \in 0..Len(s) /\ q - 1 \in 0..Len(t)  BY <2>2
    <3> QED  BY <3>1 DEF Denotes
  <2> HIDE DEF p, q
  <2>8. f[p] < g[q]
    <3>1. \A u, v \in Nat : \A a, b \in 0..9 : u < v => 10 * u + a < 10 * v + b  OBVIOUS
    <3>2. 10 * f[p - 1] + s[p] < 10 * g[q - 1] + t[q]  BY <2>5, <2>6, <2>7, <3>1
    <3> QED  BY <2>3, <3>2
  <2> QED  BY <2>8 DEF p, q
<1> HIDE DEF T
<1>3. d \in T  BY <1>1, <1>2, Climb
<1> QED  BY <1>3 DEF T

-----------------------------------------------------------------------------
\* What is left of a string of digits without its zeros: a number without
\* leading zeros, or a single zero.
Bare(t) == t \in Seq(Digit) /\ Len(t) >= 1 /\ (Len(t) = 1 \/ t[1] # 0)

\* Taking its zeros off changes no value.
LEMMA TrimBare ==
  ASSUME NEW s \in Seq(Digit)
  PROVE  Bare(Trim(s)) /\ Value(Trim(s)) = Value(s)
<1> DEFINE kept == {k \in DOMAIN s : s[k] # 0}
<1>1. PICK f : Denotes(f, s) /\ Value(s) = f[Len(s)]  BY ValueDenotes
<1>2. Len(s) \in Nat /\ \A i \in 1..Len(s) : s[i] \in 0..9  BY DigitsAreNumbers
<1>3. ASSUME NEW n \in 0..Len(s), \A i \in 1..n : s[i] = 0
      PROVE  f[n] = 0
  <2> DEFINE T == {e \in Nat : e <= n => f[e] = 0}
  <2>1. 0 \in T  BY <1>1 DEF Denotes
  <2>2. ASSUME NEW e \in Nat, e \in T
        PROVE  e + 1 \in T
    <3>1. SUFFICES ASSUME e + 1 <= n
                   PROVE  f[e + 1] = 0
      OBVIOUS
    <3>2. e + 1 \in 1..Len(s) /\ e + 1 \in 1..n /\ (e + 1) - 1 = e  BY <1>2, <3>1
    <3>3. f[e + 1] = 10 * f[e] + s[e + 1]  BY <1>1, <3>2 DEF Denotes
    <3>4. s[e + 1] = 0 /\ f[e] = 0  BY <1>3, <2>2, <3>1, <3>2
    <3> QED  BY <3>3, <3>4
  <2> HIDE DEF T
  <2>3. n \in T  BY <2>1, <2>2, Climb
  <2> QED  BY <2>3 DEF T
<1>4. CASE kept = {}
  <2>1. Trim(s) = <<0>>  BY <1>4 DEF Trim
  <2>2. <<0>> \in Seq(Digit) /\ Len(<<0>>) = 1  BY DEF Digit
  <2>3. Value(<<0>>) = 0
    <3>1. PICK g : Denotes(g, <<0>>) /\ Value(<<0>>) = g[1]  BY <2>2, ValueDenotes
    <3>2. g[0] = 0 /\ g[1] = 10 * g[1 - 1] + 0  BY <2>2, <3>1 DEF Denotes
    <3> QED  BY <3>1, <3>2
  <2>4. f[Len(s)] = 0
    <3>1. \A i \in 1..Len(s) : s[i] = 0  BY <1>4
    <3> QED  BY <1>2, <1>3, <3>1
  <2> QED  BY <1>1, <2>1, <2>2, <2>3, <2>4 DEF Bare
<1>5. CASE kept # {}
  <2> DEFINE p == Min(kept)
             t == SubSeq(s, p, Len(s))
  <2>1. Trim(s) = t  BY <1>5 DEF Trim
  <2>2. p \in kept /\ \A n \in kept : p <= n
    <3>1. kept \in SUBSET Nat  OBVIOUS
    <3> QED  BY <1>5, <3>1, MinIsLeast
  <2>3. p \in 1..Len(s) /\ s[p] # 0  BY <2>2
  <2> HIDE DEF p
  <2>4. \A i \in 1..(p - 1) : s[i] = 0
    <3>1. SUFFICES ASSUME NEW i \in 1..(p - 1), s[i] # 0
                   PROVE  FALSE
      OBVIOUS
    <3>2. i \in Nat /\ i < p /\ i \in 1..Len(s)  BY <1>2, <2>3
    <3>3. i \in kept  BY <3>1, <3>2
    <3> QED  BY <2>2, <2>3, <3>2, <3>3
  <2>5. /\ t \in Seq(Digit) /\ Len(t) = Len(s) - p + 1
        /\ \A i \in 1..(Len(s) - p + 1) : t[i] = s[p + i - 1]
    <3>1. \A i \in p..Len(s) : s[i] \in Digit  BY <2>3
    <3> QED  BY <1>2, <2>3, <3>1, SubSeqProperties
  <2> HIDE DEF t
  <2>6. t[1] # 0  BY <1>2, <2>3, <2>5
  <2>7. Bare(t)  BY <1>2, <2>3, <2>5, <2>6 DEF Bare
  <2>8. PICK g : Denotes(g, t) /\ Value(t) = g[Len(t)]  BY <2>5, ValueDenotes
  <2>9. f[p - 1] = 0 /\ g[0] = 0
    <3>1. p - 1 \in 0..Len(s)  BY <2>3
    <3> QED  BY <1>3, <2>4, <2>8, <3>1 DEF Denotes
  <2> DEFINE d == Len(s) - p + 1
             m == p - 1
  <2>10. d \in Nat /\ m \in 0..Len(s) /\ 0 \in 0..Len(t)
    BY <1>2, <2>3, <2>5
  <2>11. m + d = Len(s) /\ 0 + d = Len(t)  BY <1>2, <2>3, <2>5
  <2>12. Agree(s, m, t, 0, d)
    <3>1. ASSUME NEW j \in 1..d
          PROVE  m + j = p + j - 1 /\ 0 + j = j
      BY <1>2, <2>3
    <3> QED  BY <2>5, <3>1 DEF Agree
  <2>13. Len(s) \in 0..Len(s) /\ Len(t) \in 0..Len(t)  BY <1>2, <2>3, <2>5
  <2>14. f[m] = g[0]  BY <2>9
  <2> HIDE DEF d, m
  <2>15. f[Len(s)] = g[Len(t)]
    <3>1. t \in Seq(Digit) /\ Denotes(f, s) /\ Denotes(g, t)  BY <1>1, <2>5, <2>8
    <3>2. d \in Nat /\ Len(s) = m + d /\ Len(t) = 0 + d  BY <2>10, <2>11
    <3> QED  BY <2>10, <2>12, <2>13, <2>14, <3>1, <3>2, SameDigits
  <2> QED  BY <1>1, <2>1, <2>7, <2>8, <2>11, <2>15
<1> QED  BY <1>4, <1>5

\* A number that is longer than another, both without leading zeros, is more.
LEMMA LongerIsMore ==
  ASSUME NEW s, NEW t, Bare(s), Bare(t), Len(s) < Len(t)
  PROVE  Value(s) < Value(t)
<1>1. s \in Seq(Digit) /\ t \in Seq(Digit)  BY DEF Bare
<1>2. /\ Len(s) \in Nat /\ Len(t) \in Nat /\ Len(s) >= 1 /\ t[1] # 0 /\ t[1] \in 0..9
      /\ \A i \in 1..Len(t) : t[i] \in 0..9
  BY <1>1, DigitsAreNumbers DEF Bare
<1>3. PICK f : Denotes(f, s) /\ Value(s) = f[Len(s)]  BY <1>1, ValueDenotes
<1>4. PICK g : Denotes(g, t) /\ Value(t) = g[Len(t)]  BY <1>1, ValueDenotes
<1> DEFINE T == {n \in Nat : n + 1 <= Len(t) => g[n + 1] > 0}
<1>5. 0 \in T
  <2>1. g[1] = 10 * g[1 - 1] + t[1] /\ g[0] = 0  BY <1>2, <1>4 DEF Denotes
  <2>2. g[1] = t[1]  BY <1>2, <2>1
  <2> QED  BY <1>2, <2>2
<1>6. ASSUME NEW n \in Nat, n \in T
      PROVE  n + 1 \in T
  <2>1. SUFFICES ASSUME (n + 1) + 1 <= Len(t)
                 PROVE  g[(n + 1) + 1] > 0
    OBVIOUS
  <2> DEFINE i == (n + 1) + 1
  <2>2. i \in 1..Len(t) /\ i - 1 = n + 1 /\ n + 1 \in 0..Len(t)  BY <1>2, <2>1
  <2>3. g[i] = 10 * g[n + 1] + t[i]  BY <1>4, <2>2 DEF Denotes
  <2>4. g[n + 1] \in Nat /\ g[n + 1] > 0  BY <1>2, <1>4, <1>6, <2>1, <2>2 DEF Denotes
  <2>5. t[i] \in 0..9  BY <1>2, <2>2
  <2> HIDE DEF i
  <2>6. g[i] > 0
    <3>1. \A q \in Nat : \A b \in 0..9 : q > 0 => 10 * q + b > 0  OBVIOUS
    <3> QED  BY <2>3, <2>4, <2>5, <3>1
  <2> QED  BY <2>6 DEF i
<1> HIDE DEF T
<1> DEFINE k == Len(t) - Len(s)
<1>7. k - 1 \in Nat /\ k \in 0..Len(t) /\ (k - 1) + 1 = k  BY <1>2
<1>8. k - 1 \in T  BY <1>5, <1>6, <1>7, Climb
<1>9. g[k] > 0 /\ f[0] = 0  BY <1>3, <1>7, <1>8 DEF T, Denotes
<1>10. /\ Len(s) = 0 + Len(s) /\ Len(t) = k + Len(s) /\ 0 \in 0..Len(s)
       /\ Len(s) \in 0..Len(s) /\ Len(t) \in 0..Len(t)
  BY <1>2
<1>11. f[0] < g[k]  BY <1>9
<1> HIDE DEF k
<1>12. f[Len(s)] < g[Len(t)]
  BY <1>1, <1>2, <1>3, <1>4, <1>7, <1>10, <1>11, StaysBehind
<1> QED  BY <1>3, <1>4, <1>10, <1>12

\* Of two numbers of one length, the one before the other as text is less.
LEMMA BeforeIsLess ==
  ASSUME NEW s \in Seq(Digit), NEW t \in Seq(Digit), Len(s) = Len(t), Before(s, t)
  PROVE  Value(s) < Value(t)
<1>1. PICK k \in DOMAIN t : /\ Len(s) >= k - 1 /\ \A j \in 1..(k - 1) : s[j] = t[j]
                            /\ Len(s) = k - 1 \/ s[k] < t[k]
  BY DEF Before
<1>2. /\ Len(s) \in Nat /\ Len(t) \in Nat
      /\ \A i \in 1..Len(s) : s[i] \in 0..9 /\ t[i] \in 0..9
  BY DigitsAreNumbers
<1>3. k \in 1..Len(s) /\ k \in 1..Len(t)  OBVIOUS
<1>4. s[k] < t[k] /\ s[k] \in 0..9 /\ t[k] \in 0..9  BY <1>1, <1>2, <1>3
<1>5. PICK f : Denotes(f, s) /\ Value(s) = f[Len(s)]  BY ValueDenotes
<1>6. PICK g : Denotes(g, t) /\ Value(t) = g[Len(t)]  BY ValueDenotes
<1>7. f[k - 1] = g[k - 1]
  <2>1. f[0] = g[0] /\ 0 \in 0..Len(s) /\ 0 \in 0..Len(t)  BY <1>2, <1>5, <1>6 DEF Denotes
  <2> DEFINE d == k - 1
  <2>2. d \in Nat /\ d = 0 + d /\ d \in 0..Len(s) /\ d \in 0..Len(t)
    BY <1>2, <1>3
  <2>3. Agree(s, 0, t, 0, d)  BY <1>1 DEF Agree
  <2> HIDE DEF d
  <2>4. f[d] = g[d]  BY <1>5, <1>6, <2>1, <2>2, <2>3, SameDigits
  <2> QED  BY <2>2, <2>4 DEF d
<1>8. f[k] < g[k]
  <2>1. f[k] = 10 * f[k - 1] + s[k] /\ g[k] = 10 * g[k - 1] + t[k]  BY <1>3, <1>5, <1>6 DEF Denotes
  <2>2. f[k - 1] \in Nat
    <3>1. k - 1 \in 0..Len(s)  BY <1>3
    <3> QED  BY <1>5, <3>1 DEF Denotes
  <2>3. \A p \in Nat : \A a, b \in 0..9 : a < b => 10 * p + a < 10 * p + b  OBVIOUS
  <2>4. 10 * f[k - 1] + s[k] < 10 * f[k - 1] + t[k]  BY <1>4, <2>2, <2>3
  <2> QED  BY <1>7, <2>1, <2>4
<1> DEFINE d == Len(s) - k
<1>9. /\ d \in Nat /\ k \in 0..Len(s) /\ k \in 0..Len(t)
      /\ Len(s) = k + d /\ Len(t) = k + d /\ Len(s) \in 0..Len(s) /\ Len(t) \in 0..Len(t)
  BY <1>2, <1>3
<1> HIDE DEF d
<1>10. f[Len(s)] < g[Len(t)]  BY <1>5, <1>6, <1>8, <1>9, StaysBehind
<1> QED  BY <1>5, <1>6, <1>9, <1>10

\* A value is a number.
LEMMA ValueIsNat ==
  ASSUME NEW s \in Seq(Digit)
  PROVE  Value(s) \in Nat
<1>1. PICK f : Denotes(f, s) /\ Value(s) = f[Len(s)]  BY ValueDenotes
<1>2. Len(s) \in 0..Len(s)  BY DigitsAreNumbers
<1> QED  BY <1>1, <1>2 DEF Denotes

\* The sign of a difference.
Sign(n) == IF n < 0 THEN -1 ELSE IF n > 0 THEN 1 ELSE 0

\* Numbers compare by their value.
LEMMA ComparesByValue ==
  ASSUME NEW a \in Seq(Digit), NEW b \in Seq(Digit)
  PROVE  compareNumericToken(a, b) = Sign(Value(a) - Value(b))
<1> DEFINE s == Trim(a)
           t == Trim(b)
<1>1. Bare(s) /\ Bare(t) /\ Value(s) = Value(a) /\ Value(t) = Value(b)  BY TrimBare
<1>2. s \in Seq(Digit) /\ t \in Seq(Digit)  BY <1>1 DEF Bare
<1>3. s \in Seq(Nat) /\ t \in Seq(Nat) /\ Len(s) \in Nat /\ Len(t) \in Nat
  BY <1>2, DigitsAreNumbers
<1>4. compareNumericToken(a, b) =
        CASE Len(s) < Len(t) -> -1
          [] Len(s) > Len(t) -> 1
          [] OTHER -> compareText(s, t)
  BY DEF compareNumericToken
<1> HIDE DEF s, t
<1>5. Value(s) \in Nat /\ Value(t) \in Nat  BY <1>2, ValueIsNat
<1>6. /\ Value(s) < Value(t) => Sign(Value(s) - Value(t)) = -1
      /\ Value(t) < Value(s) => Sign(Value(s) - Value(t)) = 1
      /\ Value(t) = Value(s) => Sign(Value(s) - Value(t)) = 0
  BY <1>5 DEF Sign
<1>7. CASE Len(s) < Len(t)
  <2>1. Value(s) < Value(t)  BY <1>1, <1>7, LongerIsMore
  <2> QED  BY <1>1, <1>3, <1>4, <1>6, <1>7, <2>1
<1>8. CASE Len(t) < Len(s)
  <2>1. Value(t) < Value(s)  BY <1>1, <1>8, LongerIsMore
  <2> QED  BY <1>1, <1>3, <1>4, <1>6, <1>8, <2>1
<1>9. CASE Len(s) = Len(t)
  <2>1. compareNumericToken(a, b) = compareText(s, t)  BY <1>3, <1>4, <1>9
  <2>2. CASE Before(s, t)
    <3>1. Value(s) < Value(t)  BY <1>2, <1>9, <2>2, BeforeIsLess
    <3> QED  BY <1>1, <1>6, <2>1, <2>2, <3>1 DEF compareText
  <2>3. CASE Before(t, s)
    <3>1. Value(t) < Value(s)  BY <1>2, <1>9, <2>3, BeforeIsLess
    <3>2. ~Before(s, t) /\ s # t  BY <1>3, <2>3, BeforeAsymmetric
    <3> QED  BY <1>1, <1>6, <2>1, <3>1, <3>2 DEF compareText
  <2>4. CASE s = t
    <3>1. ~Before(s, t)  BY <1>3, <2>4, BeforeAsymmetric
    <3> QED  BY <1>1, <1>6, <2>1, <2>4, <3>1 DEF compareText
  <2> QED  BY <1>3, <2>2, <2>3, <2>4, BeforeTotal
<1> QED  BY <1>3, <1>7, <1>8, <1>9

\* Versions that are numbers compare as numbers, however long they are.
THEOREM NumbersByValue == VersionSpec => []NumericByValue
<1>1. ASSUME left \in Versions, middle \in Versions
      PROVE  NumericByValue
  <2>1. SUFFICES ASSUME numericToken(left), numericToken(middle)
                 PROVE  compareVersion(left, middle) = Sign(Value(left) - Value(middle))
    BY DEF NumericByValue, Sign
  <2>2. left \in Seq(Nat) /\ middle \in Seq(Nat)  BY <1>1, Comparable
  <2>3. /\ left # <<>> /\ left \in Seq(Digit)
        /\ middle # <<>> /\ middle \in Seq(Digit)
    <3>1. ASSUME NEW s \in Seq(Nat), numericToken(s)
          PROVE  s # <<>> /\ s \in Seq(Digit)
      <4>1. \A i \in 1..Len(s) : s[i] \in Digit  BY <3>1 DEF numericToken, ToSet
      <4> QED  BY <3>1, <4>1 DEF numericToken
    <3> QED  BY <2>1, <2>2, <3>1
  <2>4. compareVersion(left, middle) = compareNumericToken(left, middle)
    BY <2>3, NumbersCompare
  <2> QED  BY <2>3, <2>4, ComparesByValue
<1> QED  BY <1>1, VersionsStay, PTL
=============================================================================
