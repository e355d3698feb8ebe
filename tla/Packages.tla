------------------------------ MODULE Packages ------------------------------
(***************************************************************************)
(* Which packages are installed and why: the dependency resolver of        *)
(* internal/manager (resolve, chooseWithConstraints), the package table it *)
(* reads and changes, the checks of RemoveMany, and Autoremove, which      *)
(* looks for its candidates before it asks for the transaction lock.       *)
(*                                                                         *)
(* The transaction lock lets one command at a time be between its load of  *)
(* the table and its save (Store); whether the files follow is module      *)
(* Transaction.  Versions are numbers here, module Version says how        *)
(* version strings compare.  The index holds one architecture, so a        *)
(* package name occurs in it once (ValidateStableIndex).                   *)
(***************************************************************************)
EXTENDS Naturals, Sequences, SequencesExt

CONSTANTS
    Name,           \* package and capability names
    Entries,        \* what the repository ever publishes
    Indexes,        \* the indexes it publishes: sets of entries
    Requests,       \* the argument lists users pass to `install`
    Removals,       \* the argument lists users pass to `remove`
    Upgrades,       \* users run `upgrade`
    Autoremoves,    \* users run `autoremove`
    MaxCommands     \* bound on commands in a behaviour

\* A requirement, as parseDependency reads it: alternatives and a constraint.
Req(names, op, ver) == [alts |-> names, op |-> op, ver |-> ver]
Plain(n) == Req(<<n>>, "", 0)

Requirement == [alts : Seq(Name), op : {"", "=", "!=", ">=", "<=", ">", "<"}, ver : Nat]
Entry == [name : Name, ver : Nat, rev : Nat, provides : SUBSET Name,
          deps : Seq(Requirement), shared : Seq(Requirement),
          conflicts : SUBSET Name, replaces : SUBSET Name]
Installed == [ver : Nat, rev : Nat, explicit : BOOLEAN, deps : Seq(Requirement)]

ASSUME PackagesAssumption ==
    /\ IsFiniteSet(Name)
    /\ Entries \subseteq Entry
    /\ \A idx \in Indexes :
         /\ idx \subseteq Entries
         /\ \A e, f \in idx : e.name = f.name => e = f
    /\ Requests \subseteq Seq(Requirement)
    /\ Removals \subseteq SUBSET Name
    /\ {Upgrades, Autoremoves} \subseteq BOOLEAN
    /\ MaxCommands \in Nat

VARIABLES
    index,       \* the repository index in use
    db,          \* the package table: installed names to records
    pc,          \* what the holder of the transaction lock does
    requested,   \* the argument list of the running install
    queue,       \* requirements still to resolve
    seen,        \* requirements met so far, each with its constraint
    chosen,      \* entries chosen for them
    plan,        \* those to install
    loop,        \* what the loop of autoremove does next
    auto,        \* the candidates it collected
    count        \* commands so far

resolver == <<requested, queue, seen, chosen, plan>>
vars == <<index, db, pc, resolver, loop, auto, count>>

-----------------------------------------------------------------------------
(* Choosing a package.                                                     *)

\* satisfies
Satisfies(v, r) ==
    CASE r.op = ""   -> TRUE
      [] r.op = "="  -> v = r.ver
      [] r.op = "!=" -> v # r.ver
      [] r.op = ">=" -> v >= r.ver
      [] r.op = "<=" -> v <= r.ver
      [] r.op = ">"  -> v > r.ver
      [] r.op = "<"  -> v < r.ver

\* matchesNameOrProvide
Matches(e, n) == e.name = n \/ n \in e.provides

Candidates(n, constraints) ==
    {e \in index : Matches(e, n) /\ \A r \in constraints : Satisfies(e.ver, r)}

\* The highest version, then the highest revision; sort.Slice leaves equal
\* ones in any order.
Highest(es) ==
    {e \in es : \A f \in es : f.ver < e.ver \/ (f.ver = e.ver /\ f.rev <= e.rev)}

\* chooseWithConstraints: the entries it can return, from the first
\* alternative that has a candidate.
Options(alts, constraints) ==
    LET found == {k \in DOMAIN alts : Candidates(alts[k], constraints) # {}}
        first == {k \in found : \A j \in found : k <= j}
    IN  UNION {Highest(Candidates(alts[k], constraints)) : k \in first}

BugRequirementsShallow(e) == e.deps

\* What a chosen package adds to the queue.
Requirements(e) == e.deps \o e.shared

\* An entry that is not installed, or is newer by version or by revision.
Wanted(e) ==
    \/ e.name \notin DOMAIN db
    \/ e.ver > db[e.name].ver
    \/ e.rev > db[e.name].rev

Upgradable == {n \in DOMAIN db : \E e \in Options(<<n>>, {}) :
                  e.ver > db[n].ver \/ e.rev > db[n].rev}

\* containsName on the raw arguments: a bare name matches, an expression or a
\* name that another package provides does not.
Named(n) == Plain(n) \in ToSet(requested)

BugDependsOnNothing(deps, n) == FALSE

\* dependsOn compares the name as it is written, alternatives and all.
DependsOn(deps, n) == \E k \in DOMAIN deps : deps[k].alts = <<n>>

-----------------------------------------------------------------------------
Init ==
    /\ index \in Indexes
    /\ db = <<>>
    /\ pc = "idle"
    /\ requested = <<>> /\ queue = <<>> /\ seen = {} /\ chosen = {} /\ plan = {}
    /\ loop = "off" /\ auto = {}
    /\ count = 0

\* `yspm update` finds another index of the same release.
Publish ==
    /\ pc = "idle"
    /\ count < MaxCommands
    /\ index' \in Indexes \ {index}
    /\ UNCHANGED <<db, pc, resolver, loop, auto, count>>

Start(args, first) ==
    /\ pc = "idle"
    /\ count < MaxCommands
    /\ count' = count + 1
    /\ pc' = "resolve"
    /\ requested' = args
    /\ queue' = first
    /\ seen' = {} /\ chosen' = {} /\ plan' = {}
    /\ UNCHANGED <<index, db, loop, auto>>

Install(args) == Start(args, args)

\* resolve(..., upgrade = true) queues the upgradable packages in map order.
Upgrade ==
    /\ Upgrades
    /\ \E order \in SetToAllKPermutations(Upgradable) :
         /\ Len(order) = Cardinality(Upgradable)
         /\ Start(<<>>, [k \in DOMAIN order |-> Plain(order[k])])

BugConstraintsForgotten(r) == r.op = "" /\ r \in seen

\* seen[expr]: the same text was met before.
Met(r) == r \in seen

\* One turn of the loop of resolve.  The constraint is recorded before the
\* requirement is found to have been met already.
Resolve ==
    /\ pc = "resolve" /\ queue # <<>>
    /\ LET r == Head(queue)
           options == Options(r.alts, {s \in seen \cup {r} : s.alts = r.alts})
       IN  \/ /\ Met(r)
              /\ queue' = Tail(queue)
              /\ UNCHANGED <<pc, seen, chosen>>
           \/ /\ ~Met(r)
              /\ seen' = seen \cup {r}
              /\ \E e \in options :
                   /\ chosen' = {f \in chosen : f.name # e.name} \cup {e}
                   /\ queue' = Tail(queue) \o Requirements(e)
              /\ UNCHANGED pc
           \/ /\ ~Met(r)
              /\ options = {}
              /\ pc' = "idle"
              /\ UNCHANGED <<queue, seen, chosen>>
    /\ UNCHANGED <<index, db, requested, plan, loop, auto, count>>

\* The conflicts that stop a plan: with an installed package that is neither
\* replaced nor requested, or with another package of the plan.
Conflicting(pkgs) ==
    \E p \in pkgs : \E c \in p.conflicts :
        \/ c \in DOMAIN db /\ ~Named(c) /\ c \notin p.replaces
        \/ \E q \in pkgs : q.name = c

\* The end of resolve.  An empty plan ends the command.
Plan ==
    /\ pc = "resolve" /\ queue = <<>>
    /\ plan' = {e \in chosen : Wanted(e)}
    /\ pc' = IF plan' = {} \/ Conflicting(plan') THEN "idle" ELSE "commit"
    /\ UNCHANGED <<index, db, requested, queue, seen, chosen, loop, auto, count>>

\* The rest of runTransaction: the records of the plan replace the installed
\* ones (installedFromStage), or the transaction fails.
Record(e) == [ver |-> e.ver, rev |-> e.rev, explicit |-> Named(e.name), deps |-> e.deps]
Commit ==
    /\ pc = "commit"
    /\ \/ db' = [n \in DOMAIN db \cup {e.name : e \in plan} |->
                    IF \E e \in plan : e.name = n
                    THEN Record(CHOOSE e \in plan : e.name = n) ELSE db[n]]
       \/ UNCHANGED db
    /\ pc' = "idle"
    /\ UNCHANGED <<index, resolver, loop, auto, count>>

-----------------------------------------------------------------------------
\* RemoveMany under the lock: everything named is installed and nothing that
\* stays depends on it.
Removable(names) ==
    /\ names \subseteq DOMAIN db
    /\ \A other \in DOMAIN db \ names, n \in names : ~DependsOn(db[other].deps, n)

\* It removes them all, or it fails and the table stays.
RemoveMany(names) == Removable(names) /\ db' = [n \in DOMAIN db \ names |-> db[n]]

Uninstall(names) ==
    /\ pc = "idle"
    /\ count < MaxCommands
    /\ count' = count + 1
    /\ RemoveMany(names) \/ UNCHANGED db
    /\ UNCHANGED <<index, pc, resolver, loop, auto>>

\* What Autoremove collects: not explicit, and nothing depends on it.
Unneeded == {n \in DOMAIN db :
                /\ ~db[n].explicit
                /\ \A other \in DOMAIN db \ {n} : ~DependsOn(db[other].deps, n)}

\* Autoremove reads the table without the lock, whatever the holder does.
Autoremove ==
    /\ Autoremoves
    /\ loop = "off"
    /\ count < MaxCommands
    /\ loop' = "collect"
    /\ count' = count + 1
    /\ UNCHANGED <<index, db, pc, resolver, auto>>

BugCollectAlways ==
    /\ loop = "collect"
    /\ auto' = Unneeded
    /\ loop' = "remove"
    /\ UNCHANGED <<index, db, pc, resolver, count>>

Collect ==
    /\ loop = "collect"
    /\ auto' = Unneeded
    /\ loop' = IF Unneeded = {} THEN "off" ELSE "remove"
    /\ UNCHANGED <<index, db, pc, resolver, count>>

\* It removes what it collected as any other removal, and starts again until
\* nothing is left or a removal fails; without --yes it stops after the first.
AutoRemove ==
    /\ loop = "remove"
    /\ pc = "idle"
    /\ auto' = {}
    /\ \/ RemoveMany(auto) /\ loop' \in {"collect", "off"}
       \/ UNCHANGED db /\ loop' = "off"
    /\ UNCHANGED <<index, pc, resolver, count>>

Quiet == pc = "idle" /\ loop = "off" /\ UNCHANGED vars

-----------------------------------------------------------------------------
Work == Resolve \/ Plan \/ Commit
Cleaner == Collect \/ AutoRemove

Next ==
    \/ Publish
    \/ \E args \in Requests : Install(args)
    \/ Upgrade
    \/ Work
    \/ \E names \in Removals : Uninstall(names)
    \/ Autoremove
    \/ Cleaner
    \/ Quiet

\* A started command goes on until it returns.  Commands are bounded, so the
\* lock an autoremove waits for is eventually free for good.
Spec == Init /\ [][Next]_vars /\ WF_vars(Work) /\ WF_vars(Cleaner)

-----------------------------------------------------------------------------
(* Properties.                                                             *)

\* Every variable has its type; the loop of autoremove has candidates exactly
\* when it is about to remove them.
TypeOK ==
    /\ index \in Indexes
    /\ DOMAIN db \subseteq Name /\ \A n \in DOMAIN db : db[n] \in Installed
    /\ pc \in {"idle", "resolve", "commit"}
    /\ {requested, queue} \subseteq Seq(Requirement)
    /\ seen \subseteq Requirement
    /\ plan \subseteq chosen /\ chosen \subseteq Entries
    /\ loop \in {"off", "collect", "remove"}
    /\ auto \subseteq Name /\ (auto # {} <=> loop = "remove")

\* A resolved plan is closed: whatever was asked for, and whatever a chosen
\* package needs, shared libraries included, some chosen package provides in
\* a version that satisfies the requirement, in any order of discovery.
RequirementsChosen ==
    pc = "commit" =>
        \A r \in ToSet(requested) \cup UNION {ToSet(e.deps \o e.shared) : e \in chosen} :
            \E e \in chosen : /\ Satisfies(e.ver, r)
                             /\ \E k \in DOMAIN r.alts : Matches(e, r.alts[k])

\* resolve returns, whatever cycles the dependencies have.
ResolveEnds == pc = "resolve" ~> pc # "resolve"

\* Where dependencies name packages (no alternatives, no provided names), no
\* sequence of commands, an autoremove with old candidates among them, leaves
\* an installed package without one it depends on.
DependenciesPresent ==
    \A n \in DOMAIN db : \A k \in DOMAIN db[n].deps :
        \E m \in DOMAIN db : m \in ToSet(db[n].deps[k].alts)

\* The loop of autoremove ends, whatever else runs between its turns.
AutoremoveEnds == loop # "off" ~> loop = "off"

-----------------------------------------------------------------------------
(* What the documents say, where the code does otherwise.                  *)

\* "Dependency cycles ... stop the transaction before files are changed":
\* no two packages of a plan need each other.
CyclesStop ==
    pc = "commit" =>
        ~\E p, q \in plan : /\ \E k \in DOMAIN p.deps : DependsOn(<<p.deps[k]>>, q.name)
                           /\ \E k \in DOMAIN q.deps : DependsOn(<<q.deps[k]>>, p.name)

\* "The resolver chooses the highest repository version satisfying every
\* constraint": a package of the plan is named by a requirement, or stands for
\* a name it provides and satisfies every constraint on that name.
EveryConstraint ==
    pc = "commit" =>
        \A e \in plan :
            \/ \E r \in seen : e.name \in ToSet(r.alts)
            \/ \E n \in e.provides :
                 /\ \E r \in seen : n \in ToSet(r.alts)
                 /\ \A r \in seen : r.alts = <<n>> => Satisfies(e.ver, r)

\* "unresolved requirements stop the transaction": after a transaction that
\* went through, the package table meets every requirement it resolved.
RequirementsMet ==
    [][pc = "commit" /\ db' # db =>
         \A r \in seen : \E e \in chosen :
             /\ \E k \in DOMAIN r.alts : Matches(e, r.alts[k])
             /\ e.name \in DOMAIN db' /\ Satisfies(db'[e.name].ver, r)]_vars

\* "Explicit and automatic package tracking": a package the user asked for
\* stays explicit until it is removed.
ExplicitStays ==
    [][\A n \in DOMAIN db \cap DOMAIN db' : db[n].explicit => db'[n].explicit]_vars

\* "Remove unneeded automatic dependencies": autoremove takes no package that
\* is the last alternative of a dependency of one that stays.
AutoremoveSparesNeeded ==
    [][loop = "remove" /\ loop' # loop =>
         \A n \in DOMAIN db' : \A k \in DOMAIN db[n].deps :
             (\E m \in DOMAIN db : m \in ToSet(db[n].deps[k].alts))
               => \E m \in DOMAIN db' : m \in ToSet(db[n].deps[k].alts)]_vars

\* ... and no package that is explicit when it is removed.
AutoremoveSparesExplicit ==
    [][loop = "remove" /\ loop' # loop =>
         \A n \in DOMAIN db \ DOMAIN db' : ~db[n].explicit]_vars

\* "conflicts": two packages of which one declares a conflict with the other
\* are never installed together (no index here changes what an entry says).
ConflictFree ==
    \A e, f \in Entries :
        /\ e.name \in DOMAIN db /\ db[e.name].ver = e.ver
        /\ f.name \in DOMAIN db /\ db[f.name].ver = f.ver
        => f.name \notin e.conflicts
=============================================================================
