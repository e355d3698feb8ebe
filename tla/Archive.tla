------------------------------ MODULE Archive ------------------------------
(***************************************************************************)
(* From an archive to a staged tree (internal/repo/repo.go and package.go, *)
(* called by prepare in internal/manager/manager.go): `yspm build` writes  *)
(* a tree into a package, the whole archive is validated before anything   *)
(* is written, then it is extracted entry by entry, links after the files  *)
(* and directory modes last, and an upstream (raw) archive is finally laid *)
(* out under its own directory with a link to its command.                 *)
(*                                                                         *)
(* An entry name is its cleaned path, a sequence of components, or Outside *)
(* for one that is absolute or leads out of the archive; the target of a   *)
(* link is the path it leads to, or Outside.  Sizes and compression are    *)
(* left out.  The process may be unprivileged: then the mode of a          *)
(* directory decides whether something can be written into it.             *)
(***************************************************************************)
EXTENDS Integers, FiniteSets, SequencesExt

CONSTANTS
  Archives,    \* the archives met: for each format, a set of sequences of entries
  Sources,     \* the trees `yspm build` is called on: sequences of [path, node]
  Wanted,      \* the executables the index names for a raw archive
  Outside,     \* a name or target that is absolute or leads out of the archive
  Partial,     \* the content of a file that is not completely written
  NoSource,    \* the archive was not built here
  MaxFaults    \* bound: failing system calls

Formats == {"tar", "zip", "package"}
\* Modes: 0755, or neither writable nor searchable, or 0755 with setuid, setgid or
\* sticky bits, which no extraction sets (mode & 0777).
Modes == {"open", "closed", "special"}
Permissions(mode) == IF mode = "special" THEN "open" ELSE mode

DirNode(mode) == [type |-> "dir", mode |-> mode]
FileNode(mode, data) == [type |-> "file", mode |-> mode, data |-> data]
LinkNode(to) == [type |-> "symlink", to |-> to]

Entry(path, type, mode, data, to) ==
  [path |-> path, type |-> type, mode |-> mode, data |-> data, to |-> to]

\* The directories above a path, the root of the archive left out.
Ancestors(path) == {SubSeq(path, 1, k) : k \in 1 .. Len(path) - 1}

NoFiles == [p \in {} |-> DirNode("open")]

IsPath(p) == p = Outside \/ p \in Seq(STRING)
IsEntry(e) ==
  /\ IsPath(e.path) /\ IsPath(e.to)
  /\ e.type \in {"dir", "file", "symlink", "link"}
  /\ e.mode \in Modes
  /\ e.data # Partial

IsNode(n) ==
  \/ \E mode \in Modes : n = DirNode(mode)
  \/ n.type = "file" /\ n.mode \in Modes /\ n.data # Partial /\ n = FileNode(n.mode, n.data)
  \/ n.type = "symlink" /\ IsPath(n.to) /\ n = LinkNode(n.to)

\* A tree as it is walked: each path once, the directories above it first.
IsWalk(files) ==
  /\ files \in Seq(ToSet(files))
  /\ \A i \in DOMAIN files : files[i].path \in Seq(STRING) \ {<<>>} /\ IsNode(files[i].node)
  /\ \A i, j \in DOMAIN files : files[i].path = files[j].path => i = j
  /\ \A i \in DOMAIN files : \A p \in Ancestors(files[i].path) :
        \E j \in 1 .. i - 1 : files[j].path = p /\ files[j].node.type = "dir"

\* A zip has no hard links.  (That the literals are strings is here because the
\* provers do not know it.)
ASSUME ArchiveAssumption ==
  /\ {"root", "metadata.json"} \subseteq STRING
  /\ Outside \notin Seq(STRING)
  /\ Outside # Partial /\ "metadata" # Partial
  /\ DOMAIN Archives \subseteq Formats
  /\ \A f \in DOMAIN Archives : \A a \in Archives[f] :
        /\ a \in Seq(ToSet(a))
        /\ \A e \in ToSet(a) : IsEntry(e) /\ (f = "zip" => e.type # "link")
  /\ \A files \in Sources : IsWalk(files)
  /\ MaxFaults \in Nat

VARIABLES
  format,       \* how the archive is read
  archive,      \* its entries, in their order
  source,       \* the tree it was built from
  privileged,   \* permissions do not bind the process
  phase,        \* where the extraction is
  next,         \* index of the next entry
  tree,         \* the staging directory: a node for every path in it
  hardlinks,    \* hard links put off until the files exist
  symlinks,     \* symbolic links put off
  directories,  \* directories whose mode is still to be set
  placed,       \* a raw archive's files once moved under /opt/yspm/packages
  command,      \* what the command in /usr/local/bin links to, below that directory
  faults        \* failing calls so far

vars == << format, archive, source, privileged, phase, next, tree, hardlinks,
           symlinks, directories, placed, command, faults >>
input == << format, archive, source, privileged >>
deferred == << hardlinks, symlinks, directories >>
layout == << placed, command >>

Entries == ToSet(archive)

-----------------------------------------------------------------------------
(* Building a package *)

MetadataEntry == Entry(<<"metadata.json">>, "file", "open", "metadata", Outside)

\* Mutant: a directory is written with the default mode.
BugTreeEntryMode(s) ==
  LET n == s.node
      name == <<"root">> \o s.path
  IN  CASE n.type = "dir" -> Entry(name, "dir", "open", Outside, Outside)
        [] n.type = "file" -> Entry(name, "file", n.mode, n.data, Outside)
        [] OTHER -> Entry(name, "symlink", "open", Outside,
                          IF n.to = Outside THEN Outside ELSE <<"root">> \o n.to)

\* BuildPackage and addTree: the metadata, then the tree below root/ in sorted
\* order.  A link is written with the target it has, an absolute one included;
\* a file with several names is written once for each.
TreeEntry(s) ==
  LET n == s.node
      name == <<"root">> \o s.path
  IN  CASE n.type = "dir" -> Entry(name, "dir", n.mode, Outside, Outside)
        [] n.type = "file" -> Entry(name, "file", n.mode, n.data, Outside)
        [] OTHER -> Entry(name, "symlink", "open", Outside,
                          IF n.to = Outside THEN Outside ELSE <<"root">> \o n.to)

addTree(files) == [i \in DOMAIN files |-> TreeEntry(files[i])]

BuildPackage(files) == <<MetadataEntry>> \o addTree(files)

-----------------------------------------------------------------------------
(* Validation *)

EntryAllowed(e) ==
  /\ e.path # Outside
  /\ e.path = <<>> => e.type = "dir"
  /\ e.type = "symlink" => e.to # Outside
  /\ e.type = "link" => e.to \notin {Outside, <<>>}

NamedOnce == \A i, j \in DOMAIN archive : archive[i].path = archive[j].path => i = j

\* Nothing is nested beneath an entry that is not a directory.
NestedInDirectories ==
  \A e, parent \in Entries : parent.path \in Ancestors(e.path) => parent.type = "dir"

HardlinksHaveFiles ==
  \A e \in Entries : e.type = "link" =>
    \E f \in Entries : f.type = "file" /\ f.path = e.to

validateTarArchive ==
  (\A e \in Entries : EntryAllowed(e)) /\ NamedOnce /\ NestedInDirectories /\ HardlinksHaveFiles

validateZip ==
  /\ \A e \in Entries : EntryAllowed(e) /\ e.type # "symlink"
  /\ NamedOnce
  /\ NestedInDirectories

\* ExtractPackage: what each part of a package may hold.  The link of an
\* installed file leads to something installed.
PackageEntry(e) ==
  \/ e.path = <<>>
  \/ e.path = <<"metadata.json">> /\ e.type = "file"
  \/ e.path # <<>> /\ Head(e.path) = "scripts" /\ e.type \in {"dir", "file"}
  \/ e.path = <<"root">> /\ e.type = "dir"
  \/ /\ Len(e.path) > 1 /\ Head(e.path) = "root"
     /\ e.type \in {"symlink", "link"} => e.to # <<>> /\ Head(e.to) = "root"

\* ReadPackageData wants the metadata, and ListPackageFiles, which runs before
\* the extraction too, knows no hard link.
PackageListed ==
  /\ \E e \in Entries : e.path = <<"metadata.json">> /\ e.type = "file"
  /\ \A e \in Entries : e.type = "link" => Head(e.path) # "root"

validatePackage ==
  /\ validateTarArchive
  /\ \A e \in Entries : PackageEntry(e)
  /\ PackageListed

Valid ==
  CASE format = "tar" -> validateTarArchive
    [] format = "zip" -> validateZip
    [] OTHER -> validatePackage

-----------------------------------------------------------------------------
(* The staging directory *)

\* Only what is below root/ of a package is written, without that prefix.
Extracted(e) ==
  IF format = "package" THEN Len(e.path) > 1 /\ Head(e.path) = "root" ELSE e.path # <<>>

Rel(path) == IF format = "package" THEN Tail(path) ELSE path

\* ensureTarDirectories: the missing components, with mode 0755.
WithDirectories(files, path) ==
  LET missing == (Ancestors(path) \cup {path}) \ (DOMAIN files \cup {<<>>})
  IN  [p \in DOMAIN files \cup missing |->
         IF p \in missing THEN DirNode("open") ELSE files[p]]

Put(files, path, node) ==
  [p \in DOMAIN files \cup {path} |-> IF p = path THEN node ELSE files[p]]

Without(files, path) == [p \in DOMAIN files \ {path} |-> files[p]]

\* Whether the process can reach a path, and write the entry of a path into its directory.
Reachable(files, path) ==
  privileged \/ \A q \in Ancestors(path) \cap DOMAIN files : files[q] # DirNode("closed")

-----------------------------------------------------------------------------
(* Actions *)

TypeOK ==
  /\ format \in Formats
  /\ phase \in {"validate", "entries", "copy", "hardlinks", "symlinks", "modes",
                "lookup", "done", "failed", "absent"}
  /\ next \in 1 .. Len(archive) + 1
  /\ \A p \in DOMAIN tree \cup DOMAIN placed : p # <<>>
  /\ \A p \in DOMAIN tree : tree[p].type \in {"dir", "file", "symlink"}
  /\ \A p \in DOMAIN tree : Ancestors(p) \subseteq {q \in DOMAIN tree : tree[q].type = "dir"}
  /\ hardlinks \cup symlinks \cup directories \subseteq Entries
  /\ faults \in 0 .. MaxFaults

Init ==
  /\ \/ /\ format \in DOMAIN Archives
        /\ archive \in Archives[format]
        /\ source = NoSource
     \/ /\ format = "package"
        /\ source \in Sources
        /\ archive = BuildPackage(source)
  /\ privileged \in BOOLEAN
  /\ phase = "validate" /\ next = 1 /\ tree = NoFiles
  /\ hardlinks = {} /\ symlinks = {} /\ directories = {}
  /\ placed = NoFiles /\ command = <<>> /\ faults = 0

\* The whole archive is read before the first file is written.
Validate ==
  /\ phase = "validate"
  /\ phase' = IF Valid THEN "entries" ELSE "failed"
  /\ UNCHANGED << input, next, tree, deferred, layout, faults >>

Current == archive[next]
AtEntry == phase = "entries" /\ next <= Len(archive)

Skip ==
  /\ AtEntry /\ ~Extracted(Current)
  /\ next' = next + 1
  /\ UNCHANGED << input, phase, tree, deferred, layout, faults >>

MakeDirectory ==
  /\ AtEntry /\ Extracted(Current) /\ Current.type = "dir"
  /\ IF Reachable(tree, Rel(Current.path))
     THEN /\ tree' = WithDirectories(tree, Rel(Current.path))
          /\ directories' = directories \cup {Current}
          /\ next' = next + 1
          /\ UNCHANGED phase
     ELSE /\ phase' = "failed"
          /\ UNCHANGED << tree, directories, next >>
  /\ UNCHANGED << input, hardlinks, symlinks, layout, faults >>

\* O_EXCL: an existing file is an error.
OpenFile ==
  /\ AtEntry /\ Extracted(Current) /\ Current.type = "file"
  /\ LET path == Rel(Current.path)
         made == WithDirectories(tree, Front(path))
     IN  IF Reachable(made, path) /\ path \notin DOMAIN made
         THEN tree' = Put(made, path, FileNode("private", Partial)) /\ phase' = "copy"
         ELSE tree' = made /\ phase' = "failed"
  /\ UNCHANGED << input, next, deferred, layout, faults >>

CopyFile ==
  /\ phase = "copy"
  /\ tree' = Put(tree, Rel(Current.path), FileNode(Permissions(Current.mode), Current.data))
  /\ phase' = "entries" /\ next' = next + 1
  /\ UNCHANGED << input, deferred, layout, faults >>

DeferLink ==
  /\ AtEntry /\ Extracted(Current) /\ Current.type \in {"symlink", "link"}
  /\ next' = next + 1
  /\ IF Current.type = "link"
     THEN hardlinks' = hardlinks \cup {Current} /\ UNCHANGED symlinks
     ELSE symlinks' = symlinks \cup {Current} /\ UNCHANGED hardlinks
  /\ UNCHANGED << input, phase, tree, directories, layout, faults >>

EndEntries ==
  /\ phase = "entries" /\ next > Len(archive)
  /\ phase' = "hardlinks"
  /\ UNCHANGED << input, next, tree, deferred, layout, faults >>

MakeHardlink ==
  /\ phase = "hardlinks" /\ hardlinks # {}
  /\ \E e \in hardlinks :
       LET path == Rel(e.path)
           made == WithDirectories(tree, Front(path))
           from == Rel(e.to)
       IN  IF /\ from \in DOMAIN made /\ made[from].type = "file"
              /\ path \notin DOMAIN made /\ Reachable(made, path)
           THEN /\ tree' = Put(made, path, made[from])
                /\ hardlinks' = hardlinks \ {e}
                /\ UNCHANGED phase
           ELSE tree' = made /\ phase' = "failed" /\ UNCHANGED hardlinks
  /\ UNCHANGED << input, next, symlinks, directories, layout, faults >>

EndHardlinks ==
  /\ phase = "hardlinks" /\ hardlinks = {}
  /\ phase' = "symlinks"
  /\ UNCHANGED << input, next, tree, deferred, layout, faults >>

MakeSymlink ==
  /\ phase = "symlinks" /\ symlinks # {}
  /\ \E e \in symlinks :
       LET path == Rel(e.path)
           made == WithDirectories(tree, Front(path))
       IN  IF path \notin DOMAIN made /\ Reachable(made, path)
           THEN /\ tree' = Put(made, path, LinkNode(Rel(e.to)))
                /\ symlinks' = symlinks \ {e}
                /\ UNCHANGED phase
           ELSE tree' = made /\ phase' = "failed" /\ UNCHANGED symlinks
  /\ UNCHANGED << input, next, hardlinks, directories, layout, faults >>

EndSymlinks ==
  /\ phase = "symlinks" /\ symlinks = {}
  /\ phase' = "modes"
  /\ UNCHANGED << input, next, tree, deferred, layout, faults >>

\* Mutant: the directories nearest to the root first.
BugShallowest == {d \in directories : \A e \in directories : Len(d.path) <= Len(e.path)}

\* The deepest directories first: a mode can close the way to what is below it.
Deepest == {d \in directories : \A e \in directories : Len(e.path) <= Len(d.path)}

SetMode ==
  /\ phase = "modes" /\ directories # {}
  /\ \E d \in Deepest :
       IF Reachable(tree, Rel(d.path))
       THEN /\ tree' = Put(tree, Rel(d.path), DirNode(Permissions(d.mode)))
            /\ directories' = directories \ {d}
            /\ UNCHANGED phase
       ELSE phase' = "failed" /\ UNCHANGED << tree, directories >>
  /\ UNCHANGED << input, next, hardlinks, symlinks, layout, faults >>

EndModes ==
  /\ phase = "modes" /\ directories = {}
  /\ phase' = IF format = "package" THEN "done" ELSE "lookup"
  /\ UNCHANGED << input, next, tree, deferred, layout, faults >>

-----------------------------------------------------------------------------
(* Raw archives: the executable, and the directory of the package *)

\* os.Stat: the path a name leads to; the system follows so many links.
MaxLinks == 40
Follow(files, path) ==
  LET links == {k \in 1 .. Len(path) :
                  /\ SubSeq(path, 1, k) \in DOMAIN files
                  /\ files[SubSeq(path, 1, k)].type = "symlink"}
      k == Min(links)
  IN  IF links = {} THEN path
      ELSE files[SubSeq(path, 1, k)].to \o SubSeq(path, k + 1, Len(path))
Resolve(files, path) ==
  LET after[n \in 0 .. MaxLinks] == IF n = 0 THEN path ELSE Follow(files, after[n - 1])
  IN  after[MaxLinks]

IsFile(files, path) == path \in DOMAIN files /\ files[path].type = "file"

\* The path the index gives, or else the files with its base name.
FindEntry(entry) ==
  IF IsFile(tree, Resolve(tree, entry)) THEN {entry}
  ELSE {p \in DOMAIN tree : tree[p].type # "dir" /\ Last(p) = Last(entry)}

\* Everything at the top but a directory named root is moved; a file tree below
\* root/ stays where the installed root will be.
Moved == {p \in DOMAIN tree : Head(p) # "root"}

LayOut ==
  /\ phase = "lookup"
  /\ \E entry \in Wanted :
       IF /\ Cardinality(FindEntry(entry)) = 1
          /\ <<"root">> \in DOMAIN tree => tree[<<"root">>].type = "dir"
       THEN /\ command' = CHOOSE p \in FindEntry(entry) : TRUE
            /\ placed' = [p \in Moved |-> tree[p]]
            /\ tree' = [p \in DOMAIN tree \ Moved |-> tree[p]]
            /\ phase' = "done"
       ELSE phase' = "absent" /\ UNCHANGED << tree, layout >>
  /\ UNCHANGED << input, next, deferred, faults >>

\* A directory the process cannot search or move stops the lookup or the renames.
LayOutBlocked ==
  /\ phase = "lookup" /\ ~privileged
  /\ \E p \in DOMAIN tree : tree[p] = DirNode("closed")
  /\ phase' = "absent"
  /\ UNCHANGED << input, next, tree, deferred, layout, faults >>

-----------------------------------------------------------------------------
(* Failing system calls *)

\* A call of the current step fails: what was made stays in the staging directory.
Fault ==
  /\ faults < MaxFaults
  /\ phase \in {"validate", "entries", "hardlinks", "symlinks", "modes"}
  /\ faults' = faults + 1 /\ phase' = "failed"
  /\ UNCHANGED << input, next, tree, deferred, layout >>

\* Mutant: the partial file is left behind.
BugCopyKeepsFile ==
  /\ phase = "copy" /\ faults < MaxFaults
  /\ faults' = faults + 1 /\ UNCHANGED tree
  /\ phase' = "failed"
  /\ UNCHANGED << input, next, deferred, layout >>

\* Writing fails: the partial file is removed, unless that fails too.
CopyFault ==
  /\ phase = "copy" /\ faults < MaxFaults
  /\ \/ faults' = faults + 1 /\ tree' = Without(tree, Rel(Current.path))
     \/ faults + 1 < MaxFaults /\ faults' = faults + 2 /\ UNCHANGED tree
  /\ phase' = "failed"
  /\ UNCHANGED << input, next, deferred, layout >>

\* The last chmod of a file fails after its content is complete.
ChmodFault ==
  /\ phase = "copy" /\ faults < MaxFaults
  /\ faults' = faults + 1
  /\ tree' = Put(tree, Rel(Current.path), FileNode("private", Current.data))
  /\ phase' = "failed"
  /\ UNCHANGED << input, next, deferred, layout >>

Next ==
  \/ Validate \/ Skip \/ MakeDirectory \/ OpenFile \/ CopyFile \/ DeferLink \/ EndEntries
  \/ MakeHardlink \/ EndHardlinks \/ MakeSymlink \/ EndSymlinks \/ SetMode \/ EndModes
  \/ LayOut \/ LayOutBlocked
  \/ Fault \/ CopyFault \/ ChmodFault

Spec == Init /\ [][Next]_vars

-----------------------------------------------------------------------------
(* Properties *)

\* What an archive stands for, whatever the order of its entries: each entry at
\* its path, an open directory above it where the archive has none, a hard link
\* the same as its file.
Written == {e \in Entries : Extracted(e)}
Cover(S) == UNION {Ancestors(Rel(e.path)) \cup {Rel(e.path)} : e \in S}
FileOf(e) == CHOOSE f \in Written : f.type = "file" /\ f.path = e.to
NodeOf(e) ==
  CASE e.type = "dir" -> DirNode(Permissions(e.mode))
    [] e.type = "file" -> FileNode(Permissions(e.mode), e.data)
    [] e.type = "symlink" -> LinkNode(Rel(e.to))
    [] OTHER -> FileNode(Permissions(FileOf(e).mode), FileOf(e).data)
Meaning ==
  [p \in Cover(Written) |->
     IF \E e \in Written : Rel(e.path) = p
     THEN NodeOf(CHOOSE e \in Written : Rel(e.path) = p)
     ELSE DirNode("open")]

\* Without a failing call an archive is extracted whole, to the tree it stands
\* for in whatever order its entries come, or refused with nothing written:
\* validation leaves the extraction no reason to fail in the middle, and neither
\* do the modes of the archive's own directories for an unprivileged process.
WholeOrNothing ==
  /\ phase \in {"lookup", "absent"} \/ (phase = "done" /\ format = "package") => tree = Meaning
  /\ phase = "failed" /\ faults = 0 => tree = NoFiles

\* Whatever call fails, an extraction that is over leaves no half-written file
\* under the name of a file of the archive (unless removing it fails as well).
NoPartialFile ==
  phase \in {"lookup", "done", "failed", "absent"} /\ faults <= 1 =>
    \A p \in DOMAIN tree : tree[p].type = "file" => tree[p].data # Partial

\* A package installs the tree it was built from, with the same types, contents, links
\* and permissions; only setuid, setgid and sticky bits do not come through: `yspm
\* build` writes them and the extraction takes them off.
TreeOf(files) ==
  [p \in {files[i].path : i \in DOMAIN files} |->
     (CHOOSE s \in ToSet(files) : s.path = p).node]
Masked(node) ==
  IF node.type = "symlink" THEN node ELSE [node EXCEPT !.mode = Permissions(@)]
BuiltTreeReturns ==
  source # NoSource /\ phase = "done" =>
    tree = [p \in DOMAIN TreeOf(source) |-> Masked(TreeOf(source)[p])]

-----------------------------------------------------------------------------
(* Properties the code does not have *)

\* The very tree comes back, special mode bits included.
ModesReturn == source # NoSource /\ phase = "done" => tree = TreeOf(source)

\* What `yspm build` writes, the extraction accepts.
BuiltIsAccepted == source # NoSource /\ phase = "failed" => faults > 0

\* A package with a hard link between its own files is extracted, as the code of
\* ExtractPackage for such links expects.
HardlinksInstall ==
  phase = "failed" /\ faults = 0 /\ format = "package" =>
    ~(validateTarArchive /\ MetadataEntry \in Entries /\ \A e \in Entries : PackageEntry(e))

\* The command of a raw archive is always placed, also when its file is below a
\* directory named root.
CommandAlwaysPlaced ==
  phase = "done" /\ format # "package" =>
    IsFile(placed, Resolve(placed, command)) \/ command \in DOMAIN placed
=============================================================================
