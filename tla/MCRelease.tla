------------------------------ MODULE MCRelease ------------------------------
(***************************************************************************)
(* Instances of Release for TLC: three valid indexes, two of one release   *)
(* with different ABIs and one of another release, and one that is not     *)
(* valid.                                                                  *)
(***************************************************************************)
EXTENDS Release, TLC

Pkg(n, abi) == [name |-> n, abi |-> abi, meta |-> FALSE, complete |-> TRUE]
Index(rel, abi, pkgs) == [rel |-> rel, channel |-> "stable", abi |-> abi, pkgs |-> pkgs]

One == Index("1", "abi1", {Pkg("app", "abi1")})
OneRebuilt == Index("1", "abi2", {Pkg("app", "abi2")})
Two == Index("2", "abi2", {Pkg("app", "abi2")})
Mixed == Index("2", "abi2", {Pkg("app", "abi1")})

ThreeRaws == {One, Two, Mixed}
RebuiltRaws == {One, OneRebuilt}

Releases == {"1", "2"}
Sources == {"url1", "url2"}
OneSource == {"url1"}
PerRelease == [r \in Releases |-> IF r = "1" THEN "url1" ELSE "url2"]
Fallback == [r \in Releases |-> "url1"]

\* Processes are interchangeable.
Processes == Permutations(Proc)

WithoutLocal == {"update", "query", "install", "upgrade", "remove", "migrate"}
=============================================================================
