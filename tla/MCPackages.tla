----------------------------- MODULE MCPackages -----------------------------
(***************************************************************************)
(* Instances of Packages for TLC.                                          *)
(***************************************************************************)
EXTENDS Packages

Names == {"app", "lib", "tool", "ed", "editor"}

E(n, v, r, provides, deps, shared, conflicts, replaces) ==
    [name |-> n, ver |-> v, rev |-> r, provides |-> provides, deps |-> deps,
     shared |-> shared, conflicts |-> conflicts, replaces |-> replaces]

\* Two versions of an application and a library, an editor that provides what
\* version 2 of the application shares, and a tool that this version conflicts
\* with; the second versions of app and lib need each other.
App1 == E("app", 1, 0, {}, <<Plain("lib")>>, <<>>, {}, {})
App2 == E("app", 2, 0, {}, <<Req(<<"lib">>, ">=", 2)>>, <<Plain("editor")>>, {"tool"}, {})
Lib1 == E("lib", 1, 0, {}, <<>>, <<>>, {}, {})
Lib2 == E("lib", 2, 0, {}, <<Req(<<"app">>, ">=", 1)>>, <<>>, {}, {})
Ed1 == E("ed", 1, 0, {"editor"}, <<>>, <<>>, {}, {})
Tool1 == E("tool", 1, 0, {}, <<Plain("lib")>>, <<>>, {}, {})
PlainEntries == {App1, App2, Lib1, Lib2, Tool1, Ed1}
PlainIndexes == {{App1, Lib1, Tool1}, {App2, Lib2, Tool1, Ed1}}
PlainRequests == {<<Plain("app")>>, <<Plain("tool")>>, <<Plain("lib"), Req(<<"tool">>, "<", 2)>>}
PlainRemovals == {{"app"}, {"tool"}, {"lib"}}
NoRemovals == {}

\* Packages that provide the name of a capability, in two versions.
Vim == E("tool", 1, 0, {"editor"}, <<>>, <<>>, {}, {})
Emacs == E("lib", 3, 0, {"editor"}, <<>>, <<>>, {}, {})
Writer == E("app", 1, 0, {}, <<Plain("editor"), Req(<<"editor">>, "<", 2)>>, <<>>, {}, {})
EditorEntries == {Vim, Emacs, Writer}
EditorIndexes == {{Vim, Emacs, Writer}}
AppRequest == {<<Plain("app")>>}

\* An application that needs a version of lib older than the one installed.
AppOld == E("app", 1, 0, {}, <<Req(<<"lib">>, "<", 2)>>, <<>>, {}, {})
Lib2Alone == E("lib", 2, 0, {}, <<>>, <<>>, {}, {})
OldEntries == {AppOld, Lib1, Lib2Alone}
OldIndexes == {{Lib2Alone}, {AppOld, Lib1}}
AppLibRequests == {<<Plain("app")>>, <<Plain("lib")>>}

\* An application that accepts either of two libraries.
Either == E("app", 1, 0, {}, <<Req(<<"lib", "tool">>, "", 0)>>, <<>>, {}, {})
EitherEntries == {Either, Lib1}
EitherIndexes == {{Either, Lib1}}

\* Only one of two conflicting packages declares it.
AppHostile == E("app", 1, 0, {}, <<>>, <<>>, {"tool"}, {})
ToolPeaceful == E("tool", 1, 0, {}, <<>>, <<>>, {}, {})
HostileEntries == {AppHostile, ToolPeaceful}
HostileIndexes == {{AppHostile, ToolPeaceful}}
AppToolRequests == {<<Plain("app")>>, <<Plain("tool")>>}
=============================================================================
