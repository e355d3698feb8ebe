----------------------------- MODULE MCArchive -----------------------------
(***************************************************************************)
(* Small archives for Archive: every sequence of up to three entries over  *)
(* three nested paths, packages with up to two installed entries, and the  *)
(* trees of two directories, a file and a link that can be built.          *)
(***************************************************************************)
EXTENDS Archive

CONSTANTS MaxEntries, MaxInstalled, WithTopRoot

Top == <<"a">>
Nested == <<"a", "b">>
Other == <<"b">>
Paths == {Top, Nested, Other}

DirEntry(p, mode) == Entry(p, "dir", mode, Outside, Outside)
FileEntry(p) == Entry(p, "file", "open", p, Outside)
SymlinkEntry(p, to) == Entry(p, "symlink", "open", Outside, to)
HardlinkEntry(p, to) == Entry(p, "link", "open", Outside, to)

Under(p) == {DirEntry(p, mode) : mode \in Modes} \cup {FileEntry(p)}
Sequences(S, n) == UNION {[1 .. k -> S] : k \in 0 .. n}

ZipEntries == UNION {Under(p) : p \in Paths} \cup {SymlinkEntry(Top, Other), FileEntry(Outside)}
TarEntries ==
  UNION {Under(p) : p \in Paths} \cup {DirEntry(<<>>, "open"), FileEntry(Outside)}
  \cup {SymlinkEntry(p, to) : p \in Paths, to \in {Other, Outside}}
  \cup {SymlinkEntry(Other, Top)}
  \cup {HardlinkEntry(p, to) : p \in Paths, to \in {Other, Nested}}

Installed(e) == [e EXCEPT !.path = <<"root">> \o @,
                          !.to = IF @ = Outside THEN @ ELSE <<"root">> \o @]
PackageEntries ==
  {Installed(e) : e \in {f \in TarEntries : f.path # Outside}}
  \cup {DirEntry(<<"scripts">>, "open"), FileEntry(<<"scripts", "postinstall">>),
        FileEntry(<<"other">>), HardlinkEntry(<<"root", "a">>, <<"metadata.json">>),
        SymlinkEntry(<<"root", "a">>, <<"metadata.json">>)}

RootEntries == {FileEntry(<<"root">>), FileEntry(<<"root", "b">>), FileEntry(Other)}

MCArchives ==
  [f \in Formats |->
     CASE f = "tar" -> Sequences(IF WithTopRoot THEN RootEntries ELSE TarEntries, MaxEntries)
       [] f = "zip" -> Sequences(IF WithTopRoot THEN RootEntries ELSE ZipEntries, MaxEntries)
       [] OTHER -> {<<MetadataEntry>> \o s : s \in Sequences(PackageEntries, MaxInstalled)}
                   \cup Sequences(PackageEntries, 1)]

Nodes(p) == {DirNode(mode) : mode \in Modes} \cup {FileNode("open", p), FileNode("special", p), LinkNode(Other), LinkNode(Outside)}
Trees ==
  {files \in UNION {[S -> UNION {Nodes(p) : p \in S}] : S \in SUBSET Paths} :
     \A p \in DOMAIN files :
       /\ files[p] \in Nodes(p)
       /\ Ancestors(p) \subseteq {q \in DOMAIN files : files[q].type = "dir"}}
Walked(files) ==
  LET paths == SelectSeq(<<Top, Nested, Other>>, LAMBDA p : p \in DOMAIN files)
  IN  [i \in DOMAIN paths |-> [path |-> paths[i], node |-> files[paths[i]]]]
MCSources == {Walked(files) : files \in Trees}
\* The last is a name only a link to a directory leads to.
MCWanted == {Other, Nested, <<"b", "b">>}
=============================================================================
