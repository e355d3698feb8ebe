--------------------------- MODULE MCTransaction ---------------------------
(***************************************************************************)
(* Instances of Transaction for TLC: three packages over three paths.      *)
(*   app  1: bin, conf     2: bin, conf, lib     conf is configuration     *)
(*   lib  1: lib                                                           *)
(*   alt  1: bin           replaces app                                    *)
(* Version 2 of app and lib both ship the path lib; app and alt ship bin.  *)
(***************************************************************************)
EXTENDS Transaction

Packages == {"app", "lib", "alt"}
Paths == {"bin", "conf", "lib"}

Manifests == [app |-> << <<"bin", "conf">>, <<"bin", "conf", "lib">> >>,
              lib |-> << <<"lib">> >>,
              alt |-> << <<"bin">> >>]
Configs == [app |-> {"conf"}, lib |-> {}, alt |-> {}]
ReplacesApp == [app |-> {}, lib |-> {}, alt |-> {"app"}]
NoServices == {}
AppService == {"app"}

App1 == <<"app", 1>>
App2 == <<"app", 2>>
Lib1 == <<"lib", 1>>
Alt1 == <<"alt", 1>>

\* Plans in which no path is shipped twice.
DisjointTasks == {<<App1>>, <<App2>>, <<Lib1>>, <<Lib1, App1>>}
\* With a package that replaces another.
ReplacingTasks == {<<App1>>, <<Alt1>>}
\* A plan whose two packages ship the same path.
OverlappingTasks == {<<Lib1>>, <<App2, Lib1>>}
AppTasks == {<<App1>>, <<App2>>}

SingleRemovals == {<<"app">>, <<"lib">>}
DoubleRemovals == {<<"lib", "app">>}
NoRemovals == {}

AllKinds == {"install", "local", "release", "remove"}
InstallRemove == {"install", "remove"}
InstallOnly == {"install"}
=============================================================================
