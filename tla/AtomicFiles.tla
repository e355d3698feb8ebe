---------------------------- MODULE AtomicFiles ----------------------------
(***************************************************************************)
(* What a package transaction promises as long as nothing crashes and no   *)
(* I/O call fails: the files under the root and the package table change   *)
(* together, in one step, to what the plan says, or not at all, whichever  *)
(* hook, check or service makes the transaction fail and wherever it does. *)
(* Transaction is the engine that has to keep this promise.                *)
(***************************************************************************)
EXTENDS Naturals, Sequences, SequencesExt

CONSTANTS
    Pkg, Path,   \* package names, paths under the root
    None, User,  \* content of a missing file, of a file the administrator wrote
    Manifest,    \* Manifest[p][v]: the files of version v of p
    Config,      \* Config[p]: the configuration files of p
    Replaces,    \* Replaces[p]: the packages p replaces
    Tasks,       \* what can be installed: sequences of <<package, version>>
    Removals     \* what can be removed: sequences of packages

VARIABLES
    installed,   \* installed[p]: the version in the package table, 0 if none
    files        \* files[f]: the content of f

vars == <<installed, files>>

Init ==
    /\ installed = [p \in Pkg |-> 0]
    /\ files = [f \in Path |-> None]

FilesOf(p, v) == IF v = 0 THEN {} ELSE ToSet(Manifest[p][v])

\* A configuration file that is not as the package table's packages ship it.
Changed(p, f) ==
    /\ f \in Config[p]
    /\ files[f] \notin {None} \cup
         {<<q, installed[q]>> : q \in {r \in Pkg : /\ f \in Config[r]
                                                   /\ f \in FilesOf(r, installed[r])}}

\* The packages of a plan are installed with all their files, except that a
\* changed configuration file stays; a local install drops what they replace.
Install(task, local) ==
    LET new == ToSet(task)
        replaced == IF local THEN UNION {Replaces[c[1]] : c \in new} ELSE {}
    IN  /\ installed' = [p \in Pkg |->
              IF \E c \in new : c[1] = p
              THEN (CHOOSE c \in new : c[1] = p)[2]
              ELSE IF p \in replaced THEN 0 ELSE installed[p]]
        /\ files' = [f \in Path |->
              IF \E c \in new : f \in FilesOf(c[1], c[2]) /\ ~Changed(c[1], f)
              THEN CHOOSE c \in new : f \in FilesOf(c[1], c[2])
              ELSE files[f]]

\* The packages of names are removed with all their files.
Uninstall(names) ==
    /\ \A p \in names : installed[p] > 0
    /\ installed' = [p \in Pkg |-> IF p \in names THEN 0 ELSE installed[p]]
    /\ files' = [f \in Path |->
          IF \E p \in names : f \in FilesOf(p, installed[p]) THEN None ELSE files[f]]

\* The administrator writes or deletes a file.
Edit(f) ==
    /\ \E c \in {User, None} : files' = [files EXCEPT ![f] = c]
    /\ UNCHANGED installed

Next ==
    \/ \E task \in Tasks, local \in BOOLEAN : Install(task, local)
    \/ \E names \in Removals : Uninstall(ToSet(names))
    \/ \E f \in Path : Edit(f)

Spec == Init /\ [][Next]_vars
=============================================================================
