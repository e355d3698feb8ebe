------------------------------ MODULE MCLegacy ------------------------------
(***************************************************************************)
(* Small instances of Legacy: app depends on lib, and lib on app or a name *)
(* a native app stands for; the native lib replaces app.  The script of    *)
(* app names its program but hides its configuration file from the parser. *)
(***************************************************************************)
EXTENDS Legacy

CONSTANTS app, lib

MCDeps == [n \in Name |-> IF n = app THEN {{lib}} ELSE {{app, Virtual}}]
MCReplaces == [n \in Name |-> IF n = app THEN {} ELSE {app}]
MCProvides == [n \in Name |-> IF n = app THEN {Virtual} ELSE {}]
MCScripted == [n \in Name |-> {"program", "config"}]
MCNamed == [n \in Name |-> IF n = app THEN {"program"} ELSE {"program", "config"}]
=============================================================================
