--------------------------- MODULE ArchiveProofs ---------------------------
(***************************************************************************)
(* Proofs about Archive, for all archives and trees, of any length and     *)
(* depth.                                                                  *)
(*                                                                         *)
(* The inductive invariant says what the staging directory holds at any    *)
(* moment: the entries made so far (those read, without the links still    *)
(* put off), each with the node it stands for, an open directory above     *)
(* them where there is no entry for it, and nothing else.  A directory     *)
(* that waits for its mode is open, and the file that is being copied is   *)
(* not complete.  With what validation leaves (names of their own, nothing *)
(* below a file, a file for each hard link) it follows that no step of the *)
(* extraction can be refused, whatever the order of the entries, and that  *)
(* the tree at the end is the one the archive stands for.                  *)
(***************************************************************************)
EXTENDS Archive, SequenceTheorems, FiniteSetTheorems, TLAPS

-----------------------------------------------------------------------------
(* The invariant.                                                          *)

\* The name of an entry in the staging directory.
Name(e) == Rel(e.path)

\* Entries that are not read yet, and the one whose file is being copied.
Unread == {archive[j] : j \in next .. Len(archive)}
Held == IF phase = "copy" THEN {Current} ELSE {}

\* Entries that are in the tree.
Made == (Written \ (Unread \cup hardlinks \cup symlinks)) \cup Held

\* What stands for an entry on the way.
NodeNow(e) ==
  IF e \in Held THEN FileNode("private", Partial)
  ELSE IF e \in directories THEN DirNode("open")
  ELSE NodeOf(e)

\* The tree with the directories an entry needs, and a tree with one entry more.
WithParents(e) == WithDirectories(tree, Front(Name(e)))
Adds(files, e, node) ==
  /\ files = [p \in DOMAIN files |-> files[p]]
  /\ DOMAIN files = Cover(Made \cup {e})
  /\ files[Name(e)] = node
  /\ \A d \in Made : files[Name(d)] = NodeNow(d)
  /\ \A p \in Cover(Made \cup {e}) :
        (\A d \in Made \cup {e} : Name(d) # p) => files[p] = DirNode("open")

Extracting == {"entries", "copy", "hardlinks", "symlinks", "modes"}
Whole == phase \in {"lookup", "absent"} \/ (phase = "done" /\ format = "package")

\* The input has its type.
InputInv ==
  /\ format \in Formats /\ privileged \in BOOLEAN
  /\ archive \in Seq(Entries)
  /\ \A e \in Entries : IsEntry(e) /\ (format = "zip" => e.type # "link")
  /\ source # NoSource => /\ format = "package" /\ source \in Sources
                          /\ archive = BuildPackage(source)

\* The queues hold entries that are read, each of its type, and are emptied in
\* order; nothing is refused after the validation unless a call fails.
PhaseInv ==
  /\ phase \in Extracting \cup {"validate", "lookup", "absent", "done", "failed"}
  /\ next \in 1 .. Len(archive) + 1
  /\ faults \in Nat
  /\ phase = "validate" => /\ next = 1 /\ tree = NoFiles
                           /\ hardlinks = {} /\ symlinks = {} /\ directories = {}
  /\ phase \notin {"validate", "failed"} => Valid
  /\ phase \in Extracting \cup {"validate"} => faults = 0
  /\ phase = "copy" => next <= Len(archive) /\ Extracted(Current) /\ Current.type = "file"
  /\ phase \in {"hardlinks", "symlinks", "modes"} \/ Whole => next = Len(archive) + 1
  /\ phase \in {"symlinks", "modes"} \/ Whole => hardlinks = {}
  /\ phase = "modes" \/ Whole => symlinks = {}
  /\ Whole => directories = {}
  /\ hardlinks \subseteq {e \in Written \ Unread : e.type = "link"}
  /\ symlinks \subseteq {e \in Written \ Unread : e.type = "symlink"}
  /\ directories \subseteq {e \in Written \ Unread : e.type = "dir"}
  /\ phase \in Extracting \ {"modes"} => \A e \in Made : e.type = "dir" => e \in directories
  /\ phase = "modes" =>
       \A e \in Made, d \in directories :
          e.type = "dir" /\ e \notin directories => Len(d.path) <= Len(e.path)
  /\ phase \in {"lookup", "absent"} => format # "package"
  /\ phase = "failed" /\ faults = 0 => tree = NoFiles

\* The tree is what the entries made so far stand for.
TreeInv ==
  phase \in Extracting \/ Whole =>
    /\ tree = [p \in DOMAIN tree |-> tree[p]]
    /\ DOMAIN tree = Cover(Made)
    /\ \A e \in Made : tree[Name(e)] = NodeNow(e)
    /\ \A p \in Cover(Made) : (\A e \in Made : Name(e) # p) => tree[p] = DirNode("open")

IInv == InputInv /\ PhaseInv /\ TreeInv /\ NoPartialFile

-----------------------------------------------------------------------------
(* Paths.                                                                  *)

\* A directory above a path is a shorter prefix of it.
LEMMA AncestorIs ==
  ASSUME NEW p \in Seq(STRING), NEW q \in Ancestors(p)
  PROVE  /\ q \in Seq(STRING) /\ Len(q) \in 1 .. Len(p) - 1 /\ q # <<>>
         /\ \A n \in 1 .. Len(q) : q[n] = p[n]
<1>1. PICK k \in 1 .. Len(p) - 1 : q = SubSeq(p, 1, k)  BY DEF Ancestors
<1>2. Len(p) \in Nat /\ \A n \in 1 .. k : p[n] \in STRING
  BY <1>1, ElementOfSeq, LenProperties
<1>3. /\ q \in Seq(STRING) /\ Len(q) = k
      /\ \A n \in 1 .. k : q[n] = p[n]
  BY <1>1, <1>2, SubSeqProperties
<1> QED  BY <1>1, <1>2, <1>3

\* And every shorter prefix is a directory above it.
LEMMA PrefixIsAncestor ==
  ASSUME NEW p \in Seq(STRING), NEW q \in Seq(STRING),
         Len(q) \in 1 .. Len(p) - 1, \A n \in 1 .. Len(q) : q[n] = p[n]
  PROVE  q \in Ancestors(p)
<1> DEFINE r == SubSeq(p, 1, Len(q))
<1>1. Len(p) \in Nat /\ Len(q) \in Nat /\ \A n \in 1 .. Len(q) : p[n] \in STRING
  BY ElementOfSeq, LenProperties
<1>2. r \in Seq(STRING) /\ Len(r) = Len(q) /\ \A n \in 1 .. Len(q) : r[n] = p[n]
  BY <1>1, SubSeqProperties
<1> HIDE DEF r
<1>3. r = q  BY <1>2, SeqEqual
<1> QED  BY <1>3 DEF Ancestors, r

\* The directory a path is in, and those above that one.
LEMMA FrontCovers ==
  ASSUME NEW p \in Seq(STRING), p # <<>>
  PROVE  (Ancestors(Front(p)) \cup {Front(p)}) \ {<<>>} = Ancestors(p)
<1> DEFINE f == Front(p)
           n == Len(p)
<1>1. n \in Nat /\ n > 0  BY EmptySeq, LenProperties
<1>2. /\ f \in Seq(STRING) /\ Len(f) = n - 1 /\ \A k \in 1 .. n - 1 : f[k] = p[k]
  <2>1. PICK m \in Nat : n = m + 1  BY <1>1
  <2>2. f = SubSeq(p, 1, m)  BY <2>1 DEF Front
  <2>3. \A k \in 1 .. m : p[k] \in STRING  BY <1>1, <2>1, ElementOfSeq
  <2>4. /\ SubSeq(p, 1, m) \in Seq(STRING)
        /\ Len(SubSeq(p, 1, m)) = IF 1 <= m THEN m - 1 + 1 ELSE 0
        /\ \A k \in 1 .. m - 1 + 1 : SubSeq(p, 1, m)[k] = p[1 + k - 1]
    BY <2>3, SubSeqProperties
  <2>5. \A k \in 1 .. m : k \in 1 .. m - 1 + 1 /\ 1 + k - 1 = k  OBVIOUS
  <2> HIDE DEF f
  <2> QED  BY <2>1, <2>2, <2>4, <2>5
<1> HIDE DEF f
<1>3. ASSUME NEW q \in Ancestors(f) \cup {f}, q # <<>>  PROVE q \in Ancestors(p)
  <2>1. CASE q \in Ancestors(f)
    <3>1. /\ q \in Seq(STRING) /\ Len(q) \in 1 .. Len(f) - 1
          /\ \A k \in 1 .. Len(q) : q[k] = f[k]
      BY <1>2, <2>1, AncestorIs
    <3>2. Len(q) \in 1 .. n - 1 /\ \A k \in 1 .. Len(q) : q[k] = p[k]
      BY <1>1, <1>2, <3>1
    <3> QED  BY <3>1, <3>2, PrefixIsAncestor
  <2>2. CASE q = f
    <3>1. Len(f) # 0  BY <1>2, <1>3, <2>2, EmptySeq
    <3>2. Len(f) \in 1 .. n - 1 /\ \A k \in 1 .. Len(f) : f[k] = p[k]
      BY <1>1, <1>2, <3>1
    <3> QED  BY <1>2, <2>2, <3>2, PrefixIsAncestor
  <2> QED  BY <1>3, <2>1, <2>2
<1>4. ASSUME NEW q \in Ancestors(p)  PROVE q # <<>> /\ q \in Ancestors(f) \cup {f}
  <2>1. /\ q \in Seq(STRING) /\ Len(q) \in 1 .. n - 1 /\ q # <<>>
        /\ \A k \in 1 .. Len(q) : q[k] = p[k]
    BY AncestorIs
  <2>2. CASE Len(q) = n - 1
    <3>1. q = f  BY <1>1, <1>2, <2>1, <2>2, SeqEqual
    <3> QED  BY <2>1, <3>1
  <2>3. CASE Len(q) # n - 1
    <3>1. Len(q) \in 1 .. Len(f) - 1 /\ \A k \in 1 .. Len(q) : q[k] = f[k]
      BY <1>1, <1>2, <2>1, <2>3
    <3> QED  BY <1>2, <2>1, <3>1, PrefixIsAncestor
  <2> QED  BY <2>2, <2>3
<1> QED  BY <1>3, <1>4 DEF f

\* The names of entries differ where their paths do, and nest as they do.
LEMMA NamesAre ==
  ASSUME NEW e, NEW d, e.path \in Seq(STRING), d.path \in Seq(STRING),
         Extracted(e), Extracted(d)
  PROVE  /\ Name(e) \in Seq(STRING) /\ Name(e) # <<>>
         /\ Name(e) = Name(d) => e.path = d.path
         /\ Name(d) \in Ancestors(Name(e)) =>
              d.path \in Ancestors(e.path) /\ Len(d.path) < Len(e.path)
<1>1. CASE format # "package"
  <2>1. e.path # <<>> /\ Name(e) = e.path /\ Name(d) = d.path
    BY <1>1 DEF Extracted, Name, Rel
  <2>2. d.path \in Ancestors(e.path) => Len(d.path) < Len(e.path)
    BY AncestorIs, LenProperties
  <2> QED  BY <2>1, <2>2
<1>2. CASE format = "package"
  <2>1. /\ Len(e.path) > 1 /\ Head(e.path) = "root" /\ Name(e) = Tail(e.path)
        /\ Len(d.path) > 1 /\ Head(d.path) = "root" /\ Name(d) = Tail(d.path)
    BY <1>2 DEF Extracted, Name, Rel
  <2>2. Len(e.path) \in Nat /\ Len(d.path) \in Nat /\ e.path # <<>> /\ d.path # <<>>
    BY <2>1, LenProperties, EmptySeq
  <2>3. /\ Name(e) \in Seq(STRING) /\ Len(Name(e)) = Len(e.path) - 1
        /\ \A k \in 1 .. Len(Name(e)) : Name(e)[k] = e.path[k + 1]
        /\ Name(d) \in Seq(STRING) /\ Len(Name(d)) = Len(d.path) - 1
        /\ \A k \in 1 .. Len(Name(d)) : Name(d)[k] = d.path[k + 1]
    <3>1. /\ Tail(e.path) \in Seq(STRING) /\ Len(Tail(e.path)) = Len(e.path) - 1
          /\ \A k \in 1 .. Len(Tail(e.path)) : Tail(e.path)[k] = e.path[k + 1]
      BY <2>2, HeadTailProperties
    <3>2. /\ Tail(d.path) \in Seq(STRING) /\ Len(Tail(d.path)) = Len(d.path) - 1
          /\ \A k \in 1 .. Len(Tail(d.path)) : Tail(d.path)[k] = d.path[k + 1]
      BY <2>2, HeadTailProperties
    <3> QED  BY <2>1, <3>1, <3>2
  <2>4. Name(e) # <<>>
    <3>1. Len(Name(e)) > 0  BY <2>1, <2>2, <2>3
    <3> QED  BY <3>1, EmptySeq
  <2>5. e.path[1] = "root" /\ d.path[1] = "root"  BY <2>1
  <2>6. ASSUME Name(e) = Name(d)  PROVE e.path = d.path
    <3>1. Len(e.path) = Len(d.path)  BY <2>2, <2>3, <2>6
    <3>2. ASSUME NEW k \in 1 .. Len(e.path)  PROVE e.path[k] = d.path[k]
      <4>1. CASE k = 1  BY <2>5, <4>1
      <4>2. CASE k # 1
        <5>1. k - 1 \in 1 .. Len(Name(e)) /\ k - 1 + 1 = k  BY <2>2, <2>3, <4>2
        <5> QED  BY <2>3, <2>6, <5>1
      <4> QED  BY <4>1, <4>2
    <3> QED  BY <3>1, <3>2, SeqEqual
  <2>7. ASSUME Name(d) \in Ancestors(Name(e))
        PROVE  d.path \in Ancestors(e.path) /\ Len(d.path) < Len(e.path)
    <3>1. /\ Len(Name(d)) \in 1 .. Len(Name(e)) - 1
          /\ \A k \in 1 .. Len(Name(d)) : Name(d)[k] = Name(e)[k]
      BY <2>3, <2>7, AncestorIs
    <3>2. Len(d.path) \in 1 .. Len(e.path) - 1  BY <2>1, <2>2, <2>3, <3>1
    <3>3. ASSUME NEW k \in 1 .. Len(d.path)  PROVE d.path[k] = e.path[k]
      <4>1. CASE k = 1  BY <2>5, <4>1
      <4>2. CASE k # 1
        <5>1. k - 1 \in 1 .. Len(Name(d)) /\ k - 1 + 1 = k /\ k - 1 \in 1 .. Len(Name(e))
          BY <2>2, <2>3, <3>1, <4>2
        <5>2. d.path[k] = Name(d)[k - 1] /\ e.path[k] = Name(e)[k - 1]  BY <2>3, <5>1
        <5> QED  BY <3>1, <5>1, <5>2
      <4> QED  BY <4>1, <4>2
    <3> QED  BY <2>2, <3>2, <3>3, PrefixIsAncestor
  <2> QED  BY <2>3, <2>4, <2>6, <2>7
<1> QED  BY <1>1, <1>2

-----------------------------------------------------------------------------
(* What validation leaves.                                                 *)

\* The entries that are extracted have names of their own, nothing is below
\* one that is not a directory, and a hard link has its file.
LEMMA ValidIs ==
  ASSUME InputInv, Valid, NEW e \in Written
  PROVE  /\ e \in Entries /\ Extracted(e) /\ IsEntry(e)
         /\ e.path \in Seq(STRING) /\ Name(e) \in Seq(STRING) /\ Name(e) # <<>>
         /\ \A d \in Written : /\ Name(e) = Name(d) => e = d
                               /\ Name(d) \in Ancestors(Name(e)) =>
                                     d.type = "dir" /\ Len(d.path) < Len(e.path)
         /\ e.type = "link" => \E f \in Written : f.type = "file" /\ f.path = e.to
<1>1. /\ \A d \in Entries : EntryAllowed(d)
      /\ NamedOnce /\ NestedInDirectories
  BY DEF Valid, validateTarArchive, validateZip, validatePackage, InputInv, Formats
<1>2. \A d \in Written : d \in Entries /\ Extracted(d) /\ IsEntry(d) /\ d.path \in Seq(STRING)
  BY <1>1 DEF Written, InputInv, IsEntry, IsPath, EntryAllowed
<1>3. Name(e) \in Seq(STRING) /\ Name(e) # <<>>  BY <1>2, NamesAre
<1>4. ASSUME NEW d \in Written, Name(e) = Name(d)  PROVE e = d
  <2>1. e.path = d.path  BY <1>2, <1>4, NamesAre
  <2>2. PICK i \in DOMAIN archive : e = archive[i]  BY <1>2 DEF Entries, ToSet
  <2>3. PICK j \in DOMAIN archive : d = archive[j]  BY <1>2 DEF Entries, ToSet
  <2>4. i = j  BY <1>1, <2>1, <2>2, <2>3 DEF NamedOnce
  <2> QED  BY <2>2, <2>3, <2>4
<1>5. ASSUME NEW d \in Written, Name(d) \in Ancestors(Name(e))
      PROVE  d.type = "dir" /\ Len(d.path) < Len(e.path)
  <2>1. d.path \in Ancestors(e.path) /\ Len(d.path) < Len(e.path)
    BY <1>2, <1>5, NamesAre
  <2> QED  BY <1>1, <1>2, <2>1 DEF NestedInDirectories
<1>6. ASSUME e.type = "link"  PROVE \E f \in Written : f.type = "file" /\ f.path = e.to
  <2>1. format = "tar"
    <3>1. format # "zip"  BY <1>2, <1>6 DEF InputInv
    <3>2. CASE format = "package"
      <4>1. Head(e.path) # "root"
        BY <1>2, <1>6, <3>2 DEF Valid, validatePackage, PackageListed
      <4> QED  BY <1>2, <3>2, <4>1 DEF Extracted
    <3> QED  BY <3>1, <3>2 DEF InputInv, Formats
  <2>2. PICK f \in Entries : f.type = "file" /\ f.path = e.to
    BY <1>2, <1>6, <2>1 DEF Valid, validateTarArchive, HardlinksHaveFiles
  <2>3. f.path # <<>>  BY <1>1, <2>2 DEF EntryAllowed
  <2> QED  BY <2>1, <2>2, <2>3 DEF Written, Extracted
<1> QED  BY <1>2, <1>3, <1>4, <1>5, <1>6

\* The file a hard link stands for.
LEMMA FileOfIs ==
  ASSUME InputInv, Valid, NEW e \in Written, e.type = "link"
  PROVE  FileOf(e) \in Written /\ FileOf(e).type = "file" /\ FileOf(e).path = e.to
<1>1. \E f \in Written : f.type = "file" /\ f.path = e.to  BY ValidIs
<1> QED  BY <1>1 DEF FileOf

\* No entry stands for a half-written file, nor a file for a closed directory.
LEMMA NodeOfIs ==
  ASSUME InputInv, Valid, NEW e \in Written
  PROVE  /\ NodeOf(e).type = "file" => NodeOf(e).data # Partial
         /\ e.type # "dir" => \A mode : NodeOf(e) # DirNode(mode)
         /\ e.type = "dir" => NodeOf(e) = DirNode(Permissions(e.mode))
         /\ e.type = "file" => NodeOf(e) = FileNode(Permissions(e.mode), e.data)
         /\ e.type = "symlink" => NodeOf(e) = LinkNode(Rel(e.to))
         /\ e.type = "link" => NodeOf(e) = FileNode(Permissions(FileOf(e).mode), FileOf(e).data)
         /\ NodeOf(e).type \in {"dir", "file", "symlink"}
         /\ NodeOf(e).type = "dir" <=> e.type = "dir"
<1>1. e.type \in {"dir", "file", "symlink", "link"} /\ e.data # Partial
  BY ValidIs DEF IsEntry
<1>2. e.type = "link" => FileOf(e).data # Partial
  <2> SUFFICES ASSUME e.type = "link" PROVE FileOf(e).data # Partial  OBVIOUS
  <2>1. FileOf(e) \in Written  BY FileOfIs
  <2> QED  BY <2>1, ValidIs DEF IsEntry
<1>3. \A mode, m, data, to :
         /\ DirNode(mode).type = "dir" /\ FileNode(m, data).type = "file"
         /\ LinkNode(to).type = "symlink" /\ FileNode(m, data).data = data
  BY DEF DirNode, FileNode, LinkNode
<1> QED  BY <1>1, <1>2, <1>3 DEF NodeOf

-----------------------------------------------------------------------------
(* The tree.                                                               *)

\* A set of entries covers their names and the directories above them.
LEMMA CoverOfMore ==
  ASSUME NEW S, NEW e
  PROVE  Cover(S \cup {e}) = Cover(S) \cup Ancestors(Name(e)) \cup {Name(e)}
BY DEF Cover, Name

\* What the tree has at a path: an entry, or a directory no entry is made of yet.
LEMMA TreeAt ==
  ASSUME TreeInv, phase \in Extracting \/ Whole, NEW p \in DOMAIN tree
  PROVE  \/ \E e \in Made : Name(e) = p /\ tree[p] = NodeNow(e)
         \/ (\A e \in Made : Name(e) # p) /\ tree[p] = DirNode("open")
BY DEF TreeInv

\* What is made is an entry that is extracted.
LEMMA MadeIsWritten ==
  ASSUME InputInv, PhaseInv
  PROVE  Made \subseteq Written
<1>1. phase = "copy" => Current \in Written
  BY DEF PhaseInv, InputInv, Written, Entries, ToSet, Current
<1> QED  BY <1>1 DEF Made, Held

\* Before the modes are set no directory is closed.
LEMMA NoneClosed ==
  ASSUME InputInv, PhaseInv, TreeInv, phase \in Extracting \ {"modes"}
  PROVE  \A p \in DOMAIN tree : tree[p] # DirNode("closed")
<1>1. Valid /\ Made \subseteq Written
  BY MadeIsWritten DEF PhaseInv, Extracting
<1>2. DirNode("open") # DirNode("closed")
      /\ \A m, d : FileNode(m, d) # DirNode("closed")
  <2>1. DirNode("open").mode = "open" /\ DirNode("closed").mode = "closed"
        /\ DirNode("closed").type = "dir" /\ \A m, d : FileNode(m, d).type = "file"
    BY DEF DirNode, FileNode
  <2> QED  BY <2>1
<1>3. ASSUME NEW e \in Made  PROVE NodeNow(e) # DirNode("closed")
  <2>1. e.type = "dir" => e \in directories  BY DEF PhaseInv
  <2>2. e.type # "dir" => NodeOf(e) # DirNode("closed")  BY <1>1, NodeOfIs
  <2> QED  BY <1>2, <2>1, <2>2 DEF NodeNow
<1> QED  BY <1>2, <1>3, TreeAt

\* What does not depend on where the extraction is.
LEMMA InputSame ==
  ASSUME UNCHANGED <<format, archive>>
  PROVE  /\ Entries' = Entries /\ Written' = Written /\ (Valid' <=> Valid)
         /\ \A e : Name(e)' = Name(e) /\ NodeOf(e)' = NodeOf(e) /\ (Extracted(e)' <=> Extracted(e))
         /\ \A S : Cover(S)' = Cover(S)
<1>1. Entries' = Entries  BY DEF Entries, ToSet
<1>2. \A e : (Extracted(e)' <=> Extracted(e)) /\ Name(e)' = Name(e)
  BY DEF Extracted, Name, Rel
<1>3. Written' = Written  BY <1>1, <1>2 DEF Written
<1>4. \A S : Cover(S)' = Cover(S)  BY DEF Cover, Rel, Ancestors
<1>5. \A e : FileOf(e)' = FileOf(e)  BY <1>3 DEF FileOf
<1>6. \A e : NodeOf(e)' = NodeOf(e)
  BY <1>5 DEF NodeOf, Rel, DirNode, FileNode, LinkNode
<1>7. Valid' <=> Valid
  BY <1>1
  DEF Valid, validateTarArchive, validateZip, validatePackage, NamedOnce, EntryAllowed,
      NestedInDirectories, HardlinksHaveFiles, PackageListed, PackageEntry, Ancestors
<1> QED  BY <1>1, <1>2, <1>3, <1>4, <1>6, <1>7

\* The invariant of the tree, once a step's entries and nodes are known.
LEMMA TreeNext ==
  ASSUME UNCHANGED <<format, archive>>, NEW M, Made' = M,
         tree' = [p \in DOMAIN tree' |-> tree'[p]],
         DOMAIN tree' = Cover(M),
         \A e \in M : tree'[Name(e)] = NodeNow(e)',
         \A p \in Cover(M) : (\A e \in M : Name(e) # p) => tree'[p] = DirNode("open")
  PROVE  TreeInv'
<1>1. \A e : Name(e)' = Name(e)  BY InputSame
<1>2. Cover(M)' = Cover(M)  BY InputSame
<1>3. Cover(Made)' = Cover(M)  BY <1>2
<1>4. \A e \in Made' : tree'[Name(e)'] = NodeNow(e)'  BY <1>1
<1>5. \A p \in Cover(Made)' : (\A e \in Made' : Name(e)' # p) => tree'[p] = DirNode("open")
  BY <1>1, <1>3
<1> QED  BY <1>3, <1>4, <1>5 DEF TreeInv, DirNode

\* Reading one entry.
LEMMA UnreadNext ==
  ASSUME InputInv, Valid, next \in 1 .. Len(archive), next' = next + 1, UNCHANGED archive
  PROVE  /\ Unread = Unread' \cup {Current} /\ Current \notin Unread' /\ Current \in Entries
         /\ Current \in Unread
         /\ next' \in 1 .. Len(archive) + 1
<1>1. Len(archive) \in Nat /\ DOMAIN archive = 1 .. Len(archive) /\ next \in Nat
  BY DEF InputInv
<1>2. next .. Len(archive) = (next + 1 .. Len(archive)) \cup {next}  BY <1>1
<1>3. Unread' = {archive[j] : j \in next + 1 .. Len(archive)}  BY DEF Unread
<1>4. Unread = Unread' \cup {Current}  BY <1>2, <1>3 DEF Unread, Current
<1>5. Current \in Entries  BY <1>1 DEF Current, Entries, ToSet
<1>6. Current \notin Unread'
  <2>1. NamedOnce
    BY DEF Valid, validateTarArchive, validateZip, validatePackage, InputInv, Formats
  <2>2. \A j \in next + 1 .. Len(archive) : j \in DOMAIN archive /\ j # next  BY <1>1
  <2>3. next \in DOMAIN archive  BY <1>1
  <2>4. \A j \in next + 1 .. Len(archive) : archive[j].path # archive[next].path
    BY <2>1, <2>2, <2>3 DEF NamedOnce
  <2> QED  BY <1>3, <2>4 DEF Current
<1>7. next' \in 1 .. Len(archive) + 1  BY <1>1
<1> QED  BY <1>4, <1>5, <1>6, <1>7

\* An entry that is not a directory finds its name free and its way open.
LEMMA AddsEntry ==
  ASSUME InputInv, PhaseInv, TreeInv, phase \in {"entries", "hardlinks", "symlinks"},
         NEW e \in Written, e \notin Made, e.type # "dir"
  PROVE  /\ Name(e) \notin DOMAIN WithParents(e) /\ Reachable(WithParents(e), Name(e))
         /\ \A p \in DOMAIN tree : p \in DOMAIN WithParents(e) /\ WithParents(e)[p] = tree[p]
         /\ \A node : Adds(Put(WithParents(e), Name(e), node), e, node)
<1> DEFINE made == WithParents(e)
<1>1. phase \in Extracting /\ phase \in Extracting \ {"modes"} /\ Valid /\ Made \subseteq Written
  BY MadeIsWritten DEF PhaseInv, Extracting
<1>2. Name(e) \in Seq(STRING) /\ Name(e) # <<>>  BY <1>1, ValidIs
<1>3. DOMAIN tree = Cover(Made)  BY <1>1 DEF TreeInv
<1>4. /\ DOMAIN made = Cover(Made) \cup Ancestors(Name(e))
      /\ \A p \in DOMAIN tree : made[p] = tree[p]
      /\ \A p \in DOMAIN made \ DOMAIN tree : made[p] = DirNode("open")
  <2>1. (Ancestors(Front(Name(e))) \cup {Front(Name(e))}) \ {<<>>} = Ancestors(Name(e))
    BY <1>2, FrontCovers
  <2> QED  BY <1>3, <2>1 DEF WithDirectories, WithParents
<1>5. Name(e) \notin Ancestors(Name(e))
  <2>1. \A q \in Ancestors(Name(e)) : Len(q) \in 1 .. Len(Name(e)) - 1
    BY <1>2, AncestorIs
  <2>2. Len(Name(e)) \in Nat  BY <1>2, LenProperties
  <2>3. Len(Name(e)) \notin 1 .. Len(Name(e)) - 1  BY <2>2
  <2> QED  BY <2>1, <2>3
<1>6. \A d \in Made : Name(e) # Name(d) /\ Name(e) \notin Ancestors(Name(d))
  BY <1>1, ValidIs
<1>7. Name(e) \notin Cover(Made)  BY <1>6 DEF Cover, Name
<1>8. Name(e) \notin DOMAIN made  BY <1>4, <1>5, <1>7
<1>9. \A p \in DOMAIN made : made[p] # DirNode("closed")
  <2>1. \A p \in DOMAIN tree : tree[p] # DirNode("closed")  BY <1>1, NoneClosed
  <2>2. DirNode("open") # DirNode("closed")
    <3>1. DirNode("open").mode = "open" /\ DirNode("closed").mode = "closed"  BY DEF DirNode
    <3> QED  BY <3>1
  <2> QED  BY <1>4, <2>1, <2>2
<1>10. Reachable(made, Name(e))  BY <1>9 DEF Reachable
<1>11. ASSUME NEW node  PROVE Adds(Put(made, Name(e), node), e, node)
  <2>p. PICK put : put = Put(made, Name(e), node)  OBVIOUS
  <2>1. /\ DOMAIN put = DOMAIN made \cup {Name(e)} /\ put[Name(e)] = node
         /\ \A p \in DOMAIN made : p # Name(e) => put[p] = made[p]
    BY <2>p DEF Put
  <2>2. DOMAIN put = Cover(Made \cup {e})
    BY <1>4, <2>1, CoverOfMore
  <2>3. ASSUME NEW d \in Made  PROVE put[Name(d)] = NodeNow(d)
    <3>1. Name(d) \in Cover(Made)  BY DEF Cover, Name
    <3>2. tree[Name(d)] = NodeNow(d)  BY <1>1 DEF TreeInv
    <3> QED  BY <1>3, <1>4, <1>6, <2>1, <3>1, <3>2
  <2>4. ASSUME NEW p \in Cover(Made \cup {e}), \A d \in Made \cup {e} : Name(d) # p
         PROVE  put[p] = DirNode("open")
    <3>1. p \in DOMAIN made /\ p # Name(e) /\ put[p] = made[p]
      BY <2>1, <2>2, <2>4
    <3>2. CASE p \in DOMAIN tree
      <4>1. tree[p] = DirNode("open")  BY <1>1, <2>4, <3>2, TreeAt
      <4> QED  BY <1>4, <3>1, <3>2, <4>1
    <3>3. CASE p \notin DOMAIN tree  BY <1>4, <3>1, <3>3
    <3> QED  BY <3>2, <3>3
  <2>5. put = [p \in DOMAIN put |-> put[p]]  BY <2>p DEF Put
  <2>6. put[Name(e)] = node  BY <2>1
  <2>7. Adds(put, e, node)  BY <2>2, <2>3, <2>4, <2>5, <2>6 DEF Adds
  <2> QED  BY <2>p, <2>7
<1> QED  BY <1>3, <1>4, <1>8, <1>10, <1>11

\* So does a directory, which may be there already.
LEMMA AddsDirectory ==
  ASSUME InputInv, PhaseInv, TreeInv, phase = "entries",
         NEW e \in Written, e \notin Made, e.type = "dir"
  PROVE  /\ Reachable(tree, Name(e))
         /\ Adds(WithDirectories(tree, Name(e)), e, DirNode("open"))
<1>m. PICK made : made = WithDirectories(tree, Name(e))  OBVIOUS
<1>1. phase \in Extracting /\ phase \in Extracting \ {"modes"} /\ Valid /\ Made \subseteq Written
  BY MadeIsWritten DEF PhaseInv, Extracting
<1>2. Name(e) \in Seq(STRING) /\ Name(e) # <<>>  BY <1>1, ValidIs
<1>3. DOMAIN tree = Cover(Made)  BY <1>1 DEF TreeInv
<1>4. <<>> \notin Ancestors(Name(e))  BY <1>2, AncestorIs
<1>5. /\ DOMAIN made = Cover(Made) \cup Ancestors(Name(e)) \cup {Name(e)}
      /\ \A p \in DOMAIN tree : made[p] = tree[p]
      /\ \A p \in DOMAIN made \ DOMAIN tree : made[p] = DirNode("open")
      /\ made = [p \in DOMAIN made |-> made[p]]
  BY <1>2, <1>3, <1>4, <1>m DEF WithDirectories
<1>6. DOMAIN made = Cover(Made \cup {e})  BY <1>5, CoverOfMore
<1>7. \A d \in Made : Name(e) # Name(d)  BY <1>1, ValidIs
<1>8. Reachable(tree, Name(e))
  <2>1. \A p \in DOMAIN tree : tree[p] # DirNode("closed")  BY <1>1, NoneClosed
  <2> QED  BY <2>1 DEF Reachable
<1>9. ASSUME NEW d \in Made  PROVE made[Name(d)] = NodeNow(d)
  <2>1. Name(d) \in Cover(Made)  BY DEF Cover, Name
  <2>2. tree[Name(d)] = NodeNow(d)  BY <1>1 DEF TreeInv
  <2> QED  BY <1>3, <1>5, <2>1, <2>2
<1>10. ASSUME NEW p \in Cover(Made \cup {e}), \A d \in Made : Name(d) # p
       PROVE  made[p] = DirNode("open")
  <2>1. CASE p \in DOMAIN tree
    <3>1. tree[p] = DirNode("open")  BY <1>1, <1>10, <2>1, TreeAt
    <3> QED  BY <1>5, <2>1, <3>1
  <2>2. CASE p \notin DOMAIN tree  BY <1>5, <1>6, <2>2
  <2> QED  BY <2>1, <2>2
<1>11. Name(e) \in Cover(Made \cup {e})  BY <1>5, <1>6
<1>12. made[Name(e)] = DirNode("open")  BY <1>7, <1>10, <1>11
<1> QED  BY <1>5, <1>6, <1>8, <1>9, <1>10, <1>12, <1>m DEF Adds

\* The invariant of the tree once an entry is added.
LEMMA TreeAdds ==
  ASSUME UNCHANGED <<format, archive>>, NEW e, Made' = Made \cup {e},
         Adds(tree', e, NodeNow(e)'), \A d \in Made : NodeNow(d)' = NodeNow(d)
  PROVE  TreeInv'
<1> DEFINE M == Made \cup {e}
<1>1. /\ tree' = [p \in DOMAIN tree' |-> tree'[p]]
      /\ DOMAIN tree' = Cover(M)
      /\ \A d \in M : tree'[Name(d)] = NodeNow(d)'
      /\ \A p \in Cover(M) : (\A d \in M : Name(d) # p) => tree'[p] = DirNode("open")
  BY DEF Adds
<1>2. Made' = M  OBVIOUS
<1> HIDE DEF M
<1> QED  BY <1>1, <1>2, TreeNext

-----------------------------------------------------------------------------
(* The steps.                                                              *)

\* A step that leaves the tree and what is made leaves the invariant of the
\* tree, when every entry keeps its node.
LEMMA TreeKept ==
  ASSUME UNCHANGED <<format, archive, tree>>, TreeInv, phase \in Extracting \/ Whole,
         Made' = Made, \A e \in Made : NodeNow(e)' = NodeNow(e)
  PROVE  TreeInv'
<1>1. /\ tree = [p \in DOMAIN tree |-> tree[p]]
      /\ DOMAIN tree = Cover(Made)
      /\ \A e \in Made : tree[Name(e)] = NodeNow(e)
      /\ \A p \in Cover(Made) : (\A e \in Made : Name(e) # p) => tree[p] = DirNode("open")
  BY DEF TreeInv
<1> QED  BY <1>1, TreeNext

\* No step changes the archive.
LEMMA InputNext ==
  ASSUME InputInv, [Next]_vars
  PROVE  InputInv' /\ UNCHANGED <<format, archive>>
<1>1. UNCHANGED <<format, archive, source, privileged>>
  BY DEF Next, vars, input, Validate, Skip, MakeDirectory, OpenFile, CopyFile, DeferLink,
         EndEntries, MakeHardlink, EndHardlinks, MakeSymlink, EndSymlinks, SetMode, EndModes,
         LayOut, LayOutBlocked, Fault, CopyFault, ChmodFault
<1>2. Entries' = Entries  BY <1>1 DEF Entries, ToSet
<1> QED  BY <1>1, <1>2 DEF InputInv

\* Validation starts with an empty tree, or writes nothing at all.
LEMMA StepValidate ==
  ASSUME InputInv, PhaseInv, Validate
  PROVE  PhaseInv' /\ TreeInv'
<1>1. /\ next = 1 /\ tree = NoFiles /\ hardlinks = {} /\ symlinks = {} /\ directories = {}
      /\ faults = 0 /\ UNCHANGED <<format, archive, next, tree, hardlinks, symlinks, directories, faults>>
      /\ phase' = IF Valid THEN "entries" ELSE "failed"
  BY DEF PhaseInv, Validate, input, deferred
<1>2. Valid' <=> Valid  BY <1>1, InputSame
<1>3. Held' = {}  BY <1>1 DEF Held
<1>4. Made' = {}
  <2>1. Entries = Unread  BY <1>1 DEF InputInv, Entries, ToSet, Unread
  <2>2. Unread' = Unread  BY <1>1 DEF Unread
  <2>3. Written' = Written  BY <1>1, InputSame
  <2> QED  BY <1>3, <2>1, <2>2, <2>3 DEF Made, Written
<1>5. PhaseInv'
  <2>1. 1 \in 1 .. Len(archive) + 1  BY DEF InputInv
  <2> QED  BY <1>1, <1>2, <1>4, <2>1 DEF PhaseInv, Extracting, Whole
<1>6. TreeInv'
  <2>1. tree' = [p \in DOMAIN tree' |-> tree'[p]] /\ DOMAIN tree' = {}  BY <1>1 DEF NoFiles
  <2>2. Cover({}) = {}  BY DEF Cover
  <2> QED  BY <1>1, <1>4, <2>1, <2>2, TreeNext
<1> QED  BY <1>5, <1>6

\* What is the same when an entry is read.
LEMMA ReadNext ==
  ASSUME InputInv, PhaseInv, AtEntry, next' = next + 1, UNCHANGED <<format, archive>>
  PROVE  /\ phase = "entries" /\ Valid /\ Valid' /\ faults = 0 /\ Held = {}
         /\ Written' = Written /\ Made \subseteq Written
         /\ Current \in Entries /\ Current \in Unread /\ Current \notin Unread'
         /\ Unread = Unread' \cup {Current}
         /\ next' \in 1 .. Len(archive') + 1
         /\ Current \notin hardlinks \cup symlinks \cup directories \cup Made
         /\ Extracted(Current) => Current \in Written
<1>1. phase = "entries" /\ next \in 1 .. Len(archive) /\ Valid /\ faults = 0 /\ Held = {}
  <2>1. phase = "entries" /\ next <= Len(archive)  BY DEF AtEntry
  <2>2. Valid /\ faults = 0 /\ next \in 1 .. Len(archive) + 1
    BY <2>1 DEF PhaseInv, Extracting
  <2>3. Len(archive) \in Nat  BY DEF InputInv
  <2> QED  BY <2>1, <2>2, <2>3 DEF Held
<1>2. Written' = Written /\ Valid'  BY <1>1, InputSame
<1>3. /\ Unread = Unread' \cup {Current} /\ Current \notin Unread' /\ Current \in Entries
      /\ Current \in Unread /\ next' \in 1 .. Len(archive) + 1
  BY <1>1, UnreadNext
<1>4. Current \notin hardlinks \cup symlinks \cup directories  BY <1>3 DEF PhaseInv
<1>5. Current \notin Made  BY <1>1, <1>3 DEF Made
<1> QED  BY <1>1, <1>2, <1>3, <1>4, <1>5, MadeIsWritten DEF Written

\* An entry that is not extracted.
LEMMA StepSkip ==
  ASSUME InputInv, PhaseInv, TreeInv, Skip
  PROVE  PhaseInv' /\ TreeInv'
<1>1. /\ AtEntry /\ ~Extracted(Current) /\ next' = next + 1
      /\ UNCHANGED <<format, archive, phase, tree, hardlinks, symlinks, directories, faults>>
  BY DEF Skip, input, deferred
<1> DEFINE c == Current
<1> HIDE DEF c
<1>2. /\ phase = "entries" /\ Valid /\ Valid' /\ faults = 0 /\ Held = {}
      /\ Written' = Written /\ Unread = Unread' \cup {c}
      /\ next' \in 1 .. Len(archive') + 1
  BY <1>1, ReadNext DEF c
<1>3. c \notin Written  BY <1>1 DEF Written, c
<1>4. Held' = {}  BY <1>1, <1>2 DEF Held
<1>5. Made' = Made  BY <1>1, <1>2, <1>3, <1>4 DEF Made
<1>6. \A e \in Made : NodeNow(e)' = NodeNow(e)
  <2>1. \A e : NodeOf(e)' = NodeOf(e)  BY <1>1, InputSame
  <2> QED  BY <1>1, <1>2, <1>4, <2>1 DEF NodeNow, DirNode, FileNode
<1>7. TreeInv'  BY <1>1, <1>2, <1>5, <1>6, TreeKept DEF Extracting
<1>8. PhaseInv'  BY <1>1, <1>2, <1>5 DEF PhaseInv, Extracting, Whole
<1> QED  BY <1>7, <1>8

\* A link is put off.
LEMMA StepDeferLink ==
  ASSUME InputInv, PhaseInv, TreeInv, DeferLink
  PROVE  PhaseInv' /\ TreeInv'
<1>1. /\ AtEntry /\ Extracted(Current) /\ Current.type \in {"symlink", "link"} /\ next' = next + 1
      /\ UNCHANGED <<format, archive, phase, tree, directories, faults>>
      /\ \/ Current.type = "link" /\ hardlinks' = hardlinks \cup {Current} /\ symlinks' = symlinks
         \/ Current.type = "symlink" /\ symlinks' = symlinks \cup {Current} /\ hardlinks' = hardlinks
  BY DEF DeferLink, input
<1> DEFINE c == Current
<1> HIDE DEF c
<1>2. /\ phase = "entries" /\ Valid /\ Valid' /\ faults = 0 /\ Held = {}
      /\ Written' = Written /\ Unread = Unread' \cup {c} /\ c \notin Unread' /\ c \in Written
      /\ next' \in 1 .. Len(archive') + 1
  BY <1>1, ReadNext DEF c
<1>3. \/ c.type = "link" /\ hardlinks' = hardlinks \cup {c} /\ symlinks' = symlinks
      \/ c.type = "symlink" /\ symlinks' = symlinks \cup {c} /\ hardlinks' = hardlinks
  BY <1>1 DEF c
<1>4. Held' = {}  BY <1>1, <1>2 DEF Held
<1>5. Made' = Made  BY <1>1, <1>2, <1>3, <1>4 DEF Made
<1>6. \A e \in Made : NodeNow(e)' = NodeNow(e)
  <2>1. \A e : NodeOf(e)' = NodeOf(e)  BY <1>1, InputSame
  <2> QED  BY <1>1, <1>2, <1>4, <2>1 DEF NodeNow, DirNode, FileNode
<1>7. TreeInv'  BY <1>1, <1>2, <1>5, <1>6, TreeKept DEF Extracting
<1>8. /\ hardlinks' \subseteq {e \in Written' \ Unread' : e.type = "link"}
      /\ symlinks' \subseteq {e \in Written' \ Unread' : e.type = "symlink"}
      /\ directories' \subseteq {e \in Written' \ Unread' : e.type = "dir"}
  BY <1>1, <1>2, <1>3 DEF PhaseInv
<1>9. PhaseInv'  BY <1>1, <1>2, <1>5, <1>8 DEF PhaseInv, Extracting, Whole
<1> QED  BY <1>7, <1>9

\* A directory is made, open until the end.
LEMMA StepMakeDirectory ==
  ASSUME InputInv, PhaseInv, TreeInv, MakeDirectory
  PROVE  PhaseInv' /\ TreeInv'
<1>1. /\ AtEntry /\ Extracted(Current) /\ Current.type = "dir"
      /\ UNCHANGED <<format, archive, hardlinks, symlinks, faults>>
      /\ Reachable(tree, Name(Current)) =>
           /\ tree' = WithDirectories(tree, Name(Current))
           /\ directories' = directories \cup {Current}
           /\ next' = next + 1 /\ phase' = phase
  BY DEF MakeDirectory, input, Name
<1>c. PICK c : c = Current  OBVIOUS
<1>2. /\ phase = "entries" /\ Valid /\ Current \in Written /\ Current \notin Made
  <2>1. phase = "entries" /\ next \in 1 .. Len(archive) /\ Valid
    BY <1>1 DEF AtEntry, PhaseInv, Extracting, InputInv
  <2>2. Current \in Entries /\ Current \in Unread
    BY <2>1 DEF InputInv, Current, Entries, ToSet, Unread
  <2> QED  BY <1>1, <2>1, <2>2 DEF Written, Made, Held
<1>3. /\ Reachable(tree, Name(c))
      /\ Adds(WithDirectories(tree, Name(c)), c, DirNode("open"))
  BY <1>1, <1>2, <1>c, AddsDirectory
<1>4. /\ tree' = WithDirectories(tree, Name(c)) /\ directories' = directories \cup {c} /\ next' = next + 1
      /\ phase' = "entries" /\ c.type = "dir"
  BY <1>1, <1>2, <1>3, <1>c
<1>5. /\ Valid' /\ faults = 0 /\ Held = {} /\ Made \subseteq Written
      /\ Written' = Written /\ Unread = Unread' \cup {c} /\ c \notin Unread' /\ c \in Written
      /\ next' \in 1 .. Len(archive') + 1
      /\ c \notin hardlinks \cup symlinks \cup Made
  BY <1>1, <1>4, <1>c, ReadNext
<1>6. Held' = {}  BY <1>4 DEF Held
<1>7. Made' = Made \cup {c}  BY <1>1, <1>5, <1>6 DEF Made
<1>8. \A e : NodeOf(e)' = NodeOf(e)  BY <1>1, InputSame
<1>9. NodeNow(c)' = DirNode("open")
  BY <1>4, <1>6 DEF NodeNow, DirNode
<1>10. \A e \in Made : NodeNow(e)' = NodeNow(e)
  BY <1>4, <1>5, <1>6, <1>8 DEF NodeNow, DirNode, FileNode
<1>11. TreeInv'
  <2>1. Adds(tree', c, NodeNow(c)')  BY <1>3, <1>4, <1>9
  <2> QED  BY <1>1, <1>7, <1>10, <2>1, TreeAdds
<1>12. PhaseInv'
  <2>1. /\ hardlinks' \subseteq {e \in Written' \ Unread' : e.type = "link"}
        /\ symlinks' \subseteq {e \in Written' \ Unread' : e.type = "symlink"}
        /\ directories' \subseteq {e \in Written' \ Unread' : e.type = "dir"}
    BY <1>1, <1>4, <1>5 DEF PhaseInv
  <2>2. \A e \in Made' : e.type = "dir" => e \in directories'
    BY <1>2, <1>4, <1>7 DEF PhaseInv, Extracting
  <2> QED  BY <1>1, <1>4, <1>5, <2>1, <2>2 DEF PhaseInv, Extracting, Whole
<1> QED  BY <1>11, <1>12

\* A file is opened: it is in the tree, and not complete.
LEMMA StepOpenFile ==
  ASSUME InputInv, PhaseInv, TreeInv, OpenFile
  PROVE  PhaseInv' /\ TreeInv'
<1>c. PICK c : c = Current  OBVIOUS
<1>1. /\ AtEntry /\ Extracted(c) /\ c.type = "file"
      /\ UNCHANGED <<format, archive, next, hardlinks, symlinks, directories, faults>>
      /\ Reachable(WithParents(c), Name(c)) /\ Name(c) \notin DOMAIN WithParents(c) =>
           /\ tree' = Put(WithParents(c), Name(c), FileNode("private", Partial))
           /\ phase' = "copy"
  BY <1>c DEF OpenFile, input, deferred, Name, WithParents
<1>2. /\ phase = "entries" /\ Valid /\ next \in 1 .. Len(archive) /\ faults = 0
      /\ c \in Written /\ c \in Unread /\ Held = {}
  <2>1. phase = "entries" /\ next \in 1 .. Len(archive) /\ Valid /\ faults = 0
    BY <1>1 DEF AtEntry, PhaseInv, Extracting, InputInv
  <2>2. c \in Entries /\ c \in Unread
    BY <1>c, <2>1 DEF InputInv, Current, Entries, ToSet, Unread
  <2> QED  BY <1>1, <2>1, <2>2 DEF Written, Held
<1>3. c \notin Made /\ c.type # "dir"  BY <1>1, <1>2 DEF Made
<1>4. /\ Name(c) \notin DOMAIN WithParents(c) /\ Reachable(WithParents(c), Name(c))
      /\ \A node : Adds(Put(WithParents(c), Name(c), node), c, node)
  BY <1>2, <1>3, AddsEntry
<1>5. phase' = "copy" /\ Adds(tree', c, FileNode("private", Partial))  BY <1>1, <1>4
<1>6. Current' = c /\ Held' = {c}  BY <1>1, <1>5, <1>c DEF Held, Current
<1>7. Written' = Written /\ Unread' = Unread /\ \A e : NodeOf(e)' = NodeOf(e)
  BY <1>1, InputSame DEF Unread
<1>8. Made' = Made \cup {c}  BY <1>1, <1>2, <1>6, <1>7 DEF Made
<1>9. NodeNow(c)' = FileNode("private", Partial)  BY <1>6 DEF NodeNow, FileNode
<1>10. \A e \in Made : NodeNow(e)' = NodeNow(e)
  BY <1>1, <1>2, <1>3, <1>6, <1>7 DEF NodeNow, DirNode, FileNode
<1>11. TreeInv'
  <2>1. Adds(tree', c, NodeNow(c)')  BY <1>5, <1>9
  <2> QED  BY <1>1, <1>8, <1>10, <2>1, TreeAdds
<1>12. PhaseInv'
  <2>1. Valid' /\ (Extracted(c)' <=> Extracted(c))  BY <1>1, <1>2, InputSame
  <2>2. \A e \in Made' : e.type = "dir" => e \in directories'
    BY <1>1, <1>2, <1>8 DEF PhaseInv, Extracting
  <2>3. phase' = "copy" => next' <= Len(archive') /\ Extracted(Current)' /\ (Current.type)' = "file"
    BY <1>1, <1>2, <1>6, <2>1 DEF Extracted
  <2> QED  BY <1>1, <1>2, <1>5, <1>7, <2>1, <2>2, <2>3 DEF PhaseInv, Extracting, Whole
<1> QED  BY <1>11, <1>12

\* What is known of the entry that is copied.
LEMMA CopiedIs ==
  ASSUME InputInv, PhaseInv, phase = "copy"
  PROVE  /\ Valid /\ faults = 0 /\ next \in 1 .. Len(archive)
         /\ Held = {Current} /\ Current \in Written /\ Current.type = "file"
         /\ Current \in Made /\ Current \notin hardlinks \cup symlinks \cup directories
         /\ \A e \in Made : e # Current => Name(e) # Name(Current)
<1>1. /\ Valid /\ faults = 0 /\ next \in 1 .. Len(archive)
      /\ Extracted(Current) /\ Current.type = "file"
  BY DEF PhaseInv, Extracting, InputInv
<1>2. Held = {Current} /\ Current \in Made  BY DEF Held, Made
<1>3. Current \in Written /\ Current \in Unread
  BY <1>1 DEF InputInv, Current, Entries, ToSet, Unread, Written
<1>4. Current \notin hardlinks \cup symlinks \cup directories  BY <1>3 DEF PhaseInv
<1>5. \A e \in Made : e # Current => Name(e) # Name(Current)
  BY <1>1, <1>3, MadeIsWritten, ValidIs
<1> QED  BY <1>1, <1>2, <1>3, <1>4, <1>5

\* The file is complete and has its mode.
LEMMA StepCopyFile ==
  ASSUME InputInv, PhaseInv, TreeInv, CopyFile
  PROVE  PhaseInv' /\ TreeInv'
<1>c. PICK c : c = Current  OBVIOUS
<1>1. /\ phase = "copy" /\ phase' = "entries" /\ next' = next + 1
      /\ tree' = Put(tree, Name(c), FileNode(Permissions(c.mode), c.data))
      /\ UNCHANGED <<format, archive, hardlinks, symlinks, directories, faults>>
  BY <1>c DEF CopyFile, input, deferred, Name
<1>2. /\ Valid /\ faults = 0 /\ next \in 1 .. Len(archive)
      /\ Held = {c} /\ c \in Written /\ c.type = "file"
      /\ c \in Made /\ c \notin hardlinks \cup symlinks \cup directories
      /\ \A e \in Made : e # c => Name(e) # Name(c)
  BY <1>1, <1>c, CopiedIs
<1>3. /\ Unread = Unread' \cup {c} /\ c \notin Unread'
      /\ next' \in 1 .. Len(archive) + 1
  BY <1>1, <1>2, <1>c, UnreadNext
<1>4. Written' = Written /\ Valid' /\ \A e : NodeOf(e)' = NodeOf(e)
  BY <1>1, <1>2, InputSame
<1>5. Held' = {}  BY <1>1 DEF Held
<1>6. Made' = Made  BY <1>1, <1>2, <1>3, <1>4, <1>5 DEF Made
<1>7. NodeNow(c)' = FileNode(Permissions(c.mode), c.data)
  <2>1. NodeOf(c) = FileNode(Permissions(c.mode), c.data)  BY <1>2, NodeOfIs
  <2> QED  BY <1>1, <1>2, <1>4, <1>5, <2>1 DEF NodeNow
<1>8. \A e \in Made : e # c => NodeNow(e)' = NodeNow(e)
  BY <1>1, <1>2, <1>4, <1>5 DEF NodeNow, DirNode
<1>9. DOMAIN tree = Cover(Made) /\ Name(c) \in DOMAIN tree
  BY <1>1, <1>2 DEF TreeInv, Extracting, Cover, Name
<1>10. /\ DOMAIN tree' = Cover(Made) /\ tree' = [p \in DOMAIN tree' |-> tree'[p]]
       /\ tree'[Name(c)] = FileNode(Permissions(c.mode), c.data)
       /\ \A p \in DOMAIN tree : p # Name(c) => tree'[p] = tree[p]
  BY <1>1, <1>9 DEF Put
<1>11. ASSUME NEW e \in Made  PROVE tree'[Name(e)] = NodeNow(e)'
  <2>1. CASE e = c  BY <1>7, <1>10, <2>1
  <2>2. CASE e # c
    <3>1. tree[Name(e)] = NodeNow(e) /\ Name(e) \in DOMAIN tree
      BY <1>1, <1>9 DEF TreeInv, Extracting, Cover, Name
    <3> QED  BY <1>2, <1>8, <1>10, <2>2, <3>1
  <2> QED  BY <2>1, <2>2
<1>12. ASSUME NEW p \in Cover(Made), \A e \in Made : Name(e) # p  PROVE tree'[p] = DirNode("open")
  <2>1. tree[p] = DirNode("open")  BY <1>1, <1>12 DEF TreeInv, Extracting
  <2> QED  BY <1>2, <1>9, <1>10, <1>12, <2>1
<1>13. TreeInv'  BY <1>1, <1>6, <1>10, <1>11, <1>12, TreeNext
<1>14. PhaseInv'
  <2>1. \A e \in Made' : e.type = "dir" => e \in directories'
    BY <1>1, <1>6 DEF PhaseInv, Extracting
  <2> QED  BY <1>1, <1>2, <1>3, <1>4, <2>1 DEF PhaseInv, Extracting, Whole
<1> QED  BY <1>13, <1>14

\* A phase ends: nothing is made, and nothing changes its node.
LEMMA PhaseEnds ==
  ASSUME InputInv, PhaseInv, TreeInv,
         UNCHANGED <<format, archive, next, tree, hardlinks, symlinks, directories>>,
         phase \in Extracting \/ Whole, phase # "copy", phase' # "copy"
  PROVE  /\ TreeInv' /\ Made' = Made /\ Written' = Written /\ Unread' = Unread
         /\ (Valid' <=> Valid)
<1>1. Written' = Written /\ (Valid' <=> Valid) /\ Unread' = Unread /\ \A e : NodeOf(e)' = NodeOf(e)
  BY InputSame DEF Unread
<1>2. Held = {} /\ Held' = {}  BY DEF Held
<1>3. Made' = Made  BY <1>1, <1>2 DEF Made
<1>4. \A e \in Made : NodeNow(e)' = NodeNow(e)  BY <1>1, <1>2 DEF NodeNow, DirNode, FileNode
<1> QED  BY <1>1, <1>3, <1>4, TreeKept

\* One pass over the entries ends, and the next begins.
LEMMA StepEnds ==
  ASSUME InputInv, PhaseInv, TreeInv, EndEntries \/ EndHardlinks \/ EndSymlinks \/ EndModes
  PROVE  PhaseInv' /\ TreeInv'
<1>1. /\ UNCHANGED <<format, archive, next, tree, hardlinks, symlinks, directories, faults>>
      /\ phase \in Extracting /\ phase # "copy" /\ phase' # "copy"
  BY DEF EndEntries, EndHardlinks, EndSymlinks, EndModes, input, deferred, Extracting
<1>2. /\ TreeInv' /\ Made' = Made /\ Written' = Written /\ Unread' = Unread
      /\ (Valid' <=> Valid)
  BY <1>1, PhaseEnds
<1>3. next > Len(archive) => next = Len(archive) + 1
  BY DEF PhaseInv, InputInv
<1>4. CASE EndEntries
  BY <1>1, <1>2, <1>3, <1>4 DEF EndEntries, PhaseInv, Extracting, Whole
<1>5. CASE EndHardlinks
  BY <1>1, <1>2, <1>5 DEF EndHardlinks, PhaseInv, Extracting, Whole
<1>6. CASE EndSymlinks
  <2>1. \A e \in Made : e.type = "dir" => e \in directories
    BY <1>6 DEF EndSymlinks, PhaseInv, Extracting
  <2> QED  BY <1>1, <1>2, <1>6, <2>1 DEF EndSymlinks, PhaseInv, Extracting, Whole
<1>7. CASE EndModes
  BY <1>1, <1>2, <1>7 DEF EndModes, PhaseInv, Extracting, Whole
<1> QED  BY <1>2, <1>4, <1>5, <1>6, <1>7

\* What is known of a link whose turn it is.
LEMMA LinkIs ==
  ASSUME InputInv, PhaseInv, TreeInv, UNCHANGED <<format, archive, next, directories>>,
         phase' \notin {"copy", "modes"}, NEW e,
         \/ phase = "hardlinks" /\ e \in hardlinks
         \/ phase = "symlinks" /\ e \in symlinks
  PROVE  /\ Valid /\ Valid' /\ faults = 0 /\ Made \subseteq Written
         /\ Written' = Written /\ Unread' = Unread /\ Unread = {}
         /\ Held = {} /\ Held' = {}
         /\ next = Len(archive) + 1
         /\ e \in Written /\ e \notin Made /\ e \notin directories
         /\ e \in hardlinks => e.type = "link" /\ e \notin symlinks
         /\ e \in symlinks => e.type = "symlink" /\ e \notin hardlinks
         /\ Name(e) \notin DOMAIN WithParents(e) /\ Reachable(WithParents(e), Name(e))
         /\ \A p \in DOMAIN tree : p \in DOMAIN WithParents(e) /\ WithParents(e)[p] = tree[p]
         /\ \A node : Adds(Put(WithParents(e), Name(e), node), e, node)
         /\ \A d \in Made \cup {e} : NodeOf(d)' = NodeOf(d)
         /\ \A d \in Made : NodeNow(d)' = NodeNow(d)
         /\ NodeNow(e)' = NodeOf(e)
<1>1. Valid /\ faults = 0 /\ next = Len(archive) + 1 /\ Made \subseteq Written
  BY MadeIsWritten DEF PhaseInv, Extracting
<1>2. Written' = Written /\ Valid' /\ Unread' = Unread /\ \A d : NodeOf(d)' = NodeOf(d)
  BY <1>1, InputSame DEF Unread
<1>3. Unread = {}
  <2>1. next .. Len(archive) = {}  BY <1>1 DEF InputInv
  <2> QED  BY <2>1 DEF Unread
<1>4. Held = {} /\ Held' = {}  BY DEF Held
<1>5. /\ e \in Written /\ e \notin directories
      /\ e \in hardlinks => e.type = "link" /\ e \notin symlinks
      /\ e \in symlinks => e.type = "symlink" /\ e \notin hardlinks
  BY DEF PhaseInv
<1>6. e \notin Made /\ e.type # "dir"  BY <1>4, <1>5 DEF Made
<1>7. /\ Name(e) \notin DOMAIN WithParents(e) /\ Reachable(WithParents(e), Name(e))
      /\ \A p \in DOMAIN tree : p \in DOMAIN WithParents(e) /\ WithParents(e)[p] = tree[p]
      /\ \A node : Adds(Put(WithParents(e), Name(e), node), e, node)
  <2>1. phase \in {"entries", "hardlinks", "symlinks"}  OBVIOUS
  <2> QED  BY <1>5, <1>6, <2>1, AddsEntry
<1>8. \A d \in Made : NodeNow(d)' = NodeNow(d)  BY <1>2, <1>4 DEF NodeNow, DirNode
<1>9. NodeNow(e)' = NodeOf(e)  BY <1>2, <1>4, <1>5 DEF NodeNow
<1> QED  BY <1>1, <1>2, <1>3, <1>4, <1>5, <1>6, <1>7, <1>8, <1>9

\* A hard link: its file is there, with its mode and content.
LEMMA StepMakeHardlink ==
  ASSUME InputInv, PhaseInv, TreeInv, MakeHardlink
  PROVE  PhaseInv' /\ TreeInv'
<1>1. /\ phase = "hardlinks" /\ phase' \in {"hardlinks", "failed"}
      /\ UNCHANGED <<format, archive, next, symlinks, directories, faults>>
  BY DEF MakeHardlink, input
<1>2. PICK e \in hardlinks :
         LET made == WithParents(e)
             from == Rel(e.to)
         IN  IF /\ from \in DOMAIN made /\ made[from].type = "file"
                /\ Name(e) \notin DOMAIN made /\ Reachable(made, Name(e))
             THEN /\ tree' = Put(made, Name(e), made[from])
                  /\ hardlinks' = hardlinks \ {e}
                  /\ phase' = phase
             ELSE tree' = made /\ phase' = "failed" /\ hardlinks' = hardlinks
  BY DEF MakeHardlink, WithParents, Name
<1>3. /\ Valid /\ Valid' /\ faults = 0 /\ Made \subseteq Written
      /\ Written' = Written /\ Unread' = Unread /\ Unread = {}
      /\ Held = {} /\ Held' = {} /\ next = Len(archive) + 1
      /\ e \in Written /\ e \notin Made /\ e.type = "link" /\ e \notin symlinks
      /\ Name(e) \notin DOMAIN WithParents(e) /\ Reachable(WithParents(e), Name(e))
      /\ \A p \in DOMAIN tree : p \in DOMAIN WithParents(e) /\ WithParents(e)[p] = tree[p]
      /\ \A node : Adds(Put(WithParents(e), Name(e), node), e, node)
      /\ \A d \in Made : NodeNow(d)' = NodeNow(d)
      /\ NodeNow(e)' = NodeOf(e)
  BY <1>1, LinkIs
<1>4. PICK f : f = FileOf(e)  OBVIOUS
<1>5. f \in Written /\ f.type = "file" /\ Name(f) = Rel(e.to)
      /\ NodeOf(e) = FileNode(Permissions(f.mode), f.data) /\ NodeOf(f) = FileNode(Permissions(f.mode), f.data)
  <2>1. f \in Written /\ f.type = "file" /\ f.path = e.to  BY <1>3, <1>4, FileOfIs
  <2> QED  BY <1>3, <1>4, <2>1, NodeOfIs DEF Name
<1>6. f \in Made /\ NodeNow(f) = NodeOf(f)
  <2>1. f \notin hardlinks \cup symlinks \cup directories  BY <1>5 DEF PhaseInv
  <2> QED  BY <1>3, <1>5, <2>1 DEF Made, NodeNow
<1>7. Rel(e.to) \in DOMAIN tree /\ tree[Rel(e.to)] = NodeOf(e)
  BY <1>1, <1>5, <1>6 DEF TreeInv, Extracting, Cover, Name
<1>8. NodeOf(e).type = "file"  BY <1>5 DEF FileNode
<1>9. /\ tree' = Put(WithParents(e), Name(e), NodeOf(e))
      /\ hardlinks' = hardlinks \ {e} /\ phase' = "hardlinks"
  BY <1>1, <1>2, <1>3, <1>7, <1>8
<1>10. Made' = Made \cup {e}  BY <1>1, <1>3, <1>9 DEF Made
<1>11. TreeInv'
  <2>1. Adds(tree', e, NodeNow(e)')  BY <1>3, <1>9
  <2> QED  BY <1>1, <1>3, <1>10, <2>1, TreeAdds
<1>12. PhaseInv'
  <2>1. \A d \in Made' : d.type = "dir" => d \in directories'
    BY <1>1, <1>3, <1>10 DEF PhaseInv, Extracting
  <2> QED  BY <1>1, <1>3, <1>9, <2>1 DEF PhaseInv, Extracting, Whole
<1> QED  BY <1>11, <1>12

\* A symbolic link.
LEMMA StepMakeSymlink ==
  ASSUME InputInv, PhaseInv, TreeInv, MakeSymlink
  PROVE  PhaseInv' /\ TreeInv'
<1>1. /\ phase = "symlinks" /\ phase' \in {"symlinks", "failed"}
      /\ UNCHANGED <<format, archive, next, hardlinks, directories, faults>>
  BY DEF MakeSymlink, input
<1>2. PICK e \in symlinks :
         LET made == WithParents(e)
         IN  IF Name(e) \notin DOMAIN made /\ Reachable(made, Name(e))
             THEN /\ tree' = Put(made, Name(e), LinkNode(Rel(e.to)))
                  /\ symlinks' = symlinks \ {e}
                  /\ phase' = phase
             ELSE tree' = made /\ phase' = "failed" /\ symlinks' = symlinks
  BY DEF MakeSymlink, WithParents, Name
<1>3. /\ Valid /\ Valid' /\ faults = 0 /\ Made \subseteq Written
      /\ Written' = Written /\ Unread' = Unread /\ Unread = {}
      /\ Held = {} /\ Held' = {} /\ next = Len(archive) + 1
      /\ e \in Written /\ e \notin Made /\ e.type = "symlink" /\ e \notin hardlinks
      /\ Name(e) \notin DOMAIN WithParents(e) /\ Reachable(WithParents(e), Name(e))
      /\ \A node : Adds(Put(WithParents(e), Name(e), node), e, node)
      /\ \A d \in Made : NodeNow(d)' = NodeNow(d)
      /\ NodeNow(e)' = NodeOf(e)
  BY <1>1, LinkIs
<1>4. NodeOf(e) = LinkNode(Rel(e.to))  BY <1>3, NodeOfIs
<1>5. /\ tree' = Put(WithParents(e), Name(e), NodeOf(e))
      /\ symlinks' = symlinks \ {e} /\ phase' = "symlinks"
  BY <1>1, <1>2, <1>3, <1>4
<1>6. Made' = Made \cup {e}  BY <1>1, <1>3, <1>5 DEF Made
<1>7. TreeInv'
  <2>1. Adds(tree', e, NodeNow(e)')  BY <1>3, <1>5
  <2> QED  BY <1>1, <1>3, <1>6, <2>1, TreeAdds
<1>8. PhaseInv'
  <2>1. \A d \in Made' : d.type = "dir" => d \in directories'
    BY <1>1, <1>3, <1>6 DEF PhaseInv, Extracting
  <2> QED  BY <1>1, <1>3, <1>5, <2>1 DEF PhaseInv, Extracting, Whole
<1> QED  BY <1>7, <1>8

\* The way to the deepest directory is open, since those above it come later.
LEMMA WayIsOpen ==
  ASSUME InputInv, PhaseInv, TreeInv, phase = "modes", NEW d \in Deepest
  PROVE  Reachable(tree, Name(d))
<1>1. Valid /\ Made \subseteq Written /\ phase \in Extracting /\ Held = {}
  BY MadeIsWritten DEF PhaseInv, Extracting, Held
<1>2. d \in directories /\ d \in Written  BY DEF Deepest, PhaseInv
<1>3. \A e \in Written : e.path \in Seq(STRING)  BY <1>1, ValidIs
<1>4. DirNode("open") # DirNode("closed")
  <2>1. DirNode("open").mode = "open" /\ DirNode("closed").mode = "closed"  BY DEF DirNode
  <2> QED  BY <2>1
<1>5. ASSUME NEW q \in Ancestors(Name(d)) \cap DOMAIN tree  PROVE tree[q] # DirNode("closed")
  <2>1. CASE \A e \in Made : Name(e) # q
    BY <1>1, <1>4, <1>5, <2>1, TreeAt
  <2>2. ASSUME NEW e \in Made, Name(e) = q  PROVE tree[q] = DirNode("open")
    <3>1. e.type = "dir" /\ Len(e.path) < Len(d.path)  BY <1>1, <1>2, <1>5, <2>2, ValidIs
    <3>2. Len(e.path) \in Nat /\ Len(d.path) \in Nat
      BY <1>1, <1>2, <1>3, LenProperties
    <3>3. e \in directories  BY <1>2, <3>1, <3>2 DEF PhaseInv
    <3>4. tree[Name(e)] = NodeNow(e)  BY <1>1 DEF TreeInv
    <3> QED  BY <1>1, <2>2, <3>3, <3>4 DEF NodeNow
  <2> QED  BY <1>4, <2>1, <2>2
<1> QED  BY <1>5 DEF Reachable

\* A directory gets its mode.
LEMMA StepSetMode ==
  ASSUME InputInv, PhaseInv, TreeInv, SetMode
  PROVE  PhaseInv' /\ TreeInv'
<1>1. /\ phase = "modes" /\ phase' \in {"modes", "failed"}
      /\ UNCHANGED <<format, archive, next, hardlinks, symlinks, faults>>
  BY DEF SetMode, input
<1>2. PICK d \in Deepest :
         Reachable(tree, Name(d)) => /\ tree' = Put(tree, Name(d), DirNode(Permissions(d.mode)))
                                     /\ directories' = directories \ {d}
                                     /\ phase' = phase
  BY DEF SetMode, Name
<1>3. /\ tree' = Put(tree, Name(d), DirNode(Permissions(d.mode)))
      /\ directories' = directories \ {d} /\ phase' = "modes"
  BY <1>1, <1>2, WayIsOpen
<1>4. /\ Valid /\ Valid' /\ faults = 0 /\ Made \subseteq Written
      /\ Written' = Written /\ Unread' = Unread /\ Unread = {} /\ \A e : NodeOf(e)' = NodeOf(e)
  <2>1. Valid /\ faults = 0 /\ next = Len(archive) + 1  BY <1>1 DEF PhaseInv, Extracting
  <2>2. next .. Len(archive) = {}  BY <2>1 DEF InputInv
  <2> QED  BY <1>1, <2>1, <2>2, MadeIsWritten, InputSame DEF Unread
<1>5. Held = {} /\ Held' = {}  BY <1>1, <1>3 DEF Held
<1>6. d \in directories /\ d \in Written /\ d.type = "dir"  BY DEF Deepest, PhaseInv
<1>7. d \in Made
  <2>1. d \notin hardlinks \cup symlinks  BY <1>6 DEF PhaseInv
  <2> QED  BY <1>4, <1>6, <2>1 DEF Made
<1>8. Made' = Made  BY <1>1, <1>4, <1>5 DEF Made
<1>9. NodeNow(d)' = DirNode(Permissions(d.mode))
  <2>1. NodeOf(d) = DirNode(Permissions(d.mode))  BY <1>4, <1>6, NodeOfIs
  <2> QED  BY <1>3, <1>4, <1>5, <2>1 DEF NodeNow
<1>10. \A e \in Made : e # d => NodeNow(e)' = NodeNow(e) /\ Name(e) # Name(d)
  <2>1. \A e \in Made : e # d => Name(e) # Name(d)  BY <1>4, <1>6, ValidIs
  <2> QED  BY <1>3, <1>4, <1>5, <2>1 DEF NodeNow, DirNode
<1>11. DOMAIN tree = Cover(Made) /\ Name(d) \in DOMAIN tree
  BY <1>1, <1>7 DEF TreeInv, Extracting, Cover, Name
<1>12. /\ DOMAIN tree' = Cover(Made) /\ tree' = [p \in DOMAIN tree' |-> tree'[p]]
       /\ tree'[Name(d)] = DirNode(Permissions(d.mode))
       /\ \A p \in DOMAIN tree : p # Name(d) => tree'[p] = tree[p]
  BY <1>3, <1>11 DEF Put
<1>13. ASSUME NEW e \in Made  PROVE tree'[Name(e)] = NodeNow(e)'
  <2>1. CASE e = d  BY <1>9, <1>12, <2>1
  <2>2. CASE e # d
    <3>1. tree[Name(e)] = NodeNow(e) /\ Name(e) \in DOMAIN tree
      BY <1>1, <1>11 DEF TreeInv, Extracting, Cover, Name
    <3> QED  BY <1>10, <1>12, <2>2, <3>1
  <2> QED  BY <2>1, <2>2
<1>14. ASSUME NEW p \in Cover(Made), \A e \in Made : Name(e) # p  PROVE tree'[p] = DirNode("open")
  <2>1. tree[p] = DirNode("open")  BY <1>1, <1>14 DEF TreeInv, Extracting
  <2> QED  BY <1>7, <1>11, <1>12, <1>14, <2>1
<1>15. TreeInv'  BY <1>1, <1>8, <1>12, <1>13, <1>14, TreeNext
<1>16. ASSUME NEW e \in Made, NEW c \in directories', e.type = "dir", e \notin directories'
       PROVE  Len(c.path) <= Len(e.path)
  <2>1. c \in directories  BY <1>3
  <2>2. CASE e \in directories  BY <1>3, <1>16, <2>1, <2>2 DEF Deepest
  <2>3. CASE e \notin directories  BY <1>1, <1>16, <2>1, <2>3 DEF PhaseInv
  <2> QED  BY <2>2, <2>3
<1>17. PhaseInv'
  <2>1. directories' \subseteq {e \in Written' \ Unread' : e.type = "dir"}
    BY <1>3, <1>4 DEF PhaseInv
  <2>2. \A e \in Made', c \in directories' :
           e.type = "dir" /\ e \notin directories' => Len(c.path) <= Len(e.path)
    BY <1>8, <1>16
  <2> QED  BY <1>1, <1>3, <1>4, <2>1, <2>2 DEF PhaseInv, Extracting, Whole
<1> QED  BY <1>15, <1>17

\* A raw archive is laid out, or its command is not found.
LEMMA StepLayOut ==
  ASSUME InputInv, PhaseInv, TreeInv, LayOut \/ LayOutBlocked
  PROVE  PhaseInv' /\ TreeInv'
<1>1. /\ phase = "lookup" /\ format # "package" /\ Whole /\ Valid
      /\ UNCHANGED <<format, archive, next, hardlinks, symlinks, directories, faults>>
      /\ \/ phase' = "done"
         \/ phase' = "absent" /\ tree' = tree
  <2>1. phase = "lookup" /\ Whole  BY DEF LayOut, LayOutBlocked, Whole
  <2>2. format # "package" /\ Valid  BY <2>1 DEF PhaseInv
  <2>3. CASE LayOut
    <3>1. UNCHANGED <<format, archive, next, hardlinks, symlinks, directories, faults>>
      BY <2>3 DEF LayOut, input, deferred
    <3>2. \/ phase' = "done"
          \/ phase' = "absent" /\ tree' = tree
      BY <2>3 DEF LayOut
    <3> QED  BY <2>1, <2>2, <3>1, <3>2
  <2>4. CASE LayOutBlocked
    BY <2>1, <2>2, <2>4 DEF LayOutBlocked, input, deferred
  <2> QED  BY <2>3, <2>4
<1>2. Written' = Written /\ Unread' = Unread /\ Valid'  BY <1>1, InputSame DEF Unread
<1>3. CASE phase' = "done"
  BY <1>1, <1>2, <1>3 DEF PhaseInv, TreeInv, Extracting, Whole
<1>4. CASE phase' = "absent" /\ tree' = tree
  <2>1. TreeInv' /\ Made' = Made  BY <1>1, <1>4, PhaseEnds
  <2> QED  BY <1>1, <1>2, <1>4, <2>1 DEF PhaseInv, Extracting, Whole
<1> QED  BY <1>1, <1>3, <1>4

\* A call fails.
LEMMA StepFault ==
  ASSUME InputInv, PhaseInv, TreeInv, Fault \/ CopyFault \/ ChmodFault
  PROVE  PhaseInv' /\ TreeInv'
<1>1. /\ phase' = "failed" /\ faults' \in {faults + 1, faults + 2} /\ faults \in Nat
      /\ UNCHANGED <<format, archive, next, hardlinks, symlinks, directories>>
  BY DEF Fault, CopyFault, ChmodFault, input, deferred, PhaseInv
<1>2. Written' = Written /\ Unread' = Unread  BY <1>1, InputSame DEF Unread
<1>3. faults' \in Nat /\ faults' # 0  BY <1>1
<1> QED  BY <1>1, <1>2, <1>3 DEF PhaseInv, TreeInv, Extracting, Whole

\* Every step keeps the invariant of the queues and of the tree.
LEMMA Step ==
  ASSUME InputInv, PhaseInv, TreeInv, [Next]_vars
  PROVE  PhaseInv' /\ TreeInv'
<1>1. CASE UNCHANGED vars
  <2>1. UNCHANGED <<format, archive, next, tree, hardlinks, symlinks, directories, phase, faults>>
    BY <1>1 DEF vars
  <2>2. Written' = Written /\ Unread' = Unread /\ (Valid' <=> Valid)
        /\ \A e : NodeOf(e)' = NodeOf(e) /\ (Extracted(e)' <=> Extracted(e))
    BY <2>1, InputSame DEF Unread
  <2>3. Current' = Current /\ Held' = Held  BY <2>1 DEF Current, Held
  <2>4. Made' = Made  BY <2>1, <2>2, <2>3 DEF Made
  <2>5. \A e \in Made : NodeNow(e)' = NodeNow(e)
    BY <2>1, <2>2, <2>3 DEF NodeNow, DirNode, FileNode
  <2>6. TreeInv'
    <3>1. CASE phase \in Extracting \/ Whole  BY <2>1, <2>4, <2>5, <3>1, TreeKept
    <3>2. CASE ~(phase \in Extracting \/ Whole)
      BY <2>1, <3>2 DEF TreeInv, Extracting, Whole
    <3> QED  BY <3>1, <3>2
  <2>7. PhaseInv'
    <3>1. phase' = "copy" => next' <= Len(archive') /\ Extracted(Current)' /\ (Current.type)' = "file"
      BY <2>1, <2>2, <2>3 DEF PhaseInv, Extracted
    <3> QED  BY <2>1, <2>2, <2>4, <3>1 DEF PhaseInv, Extracting, Whole
  <2> QED  BY <2>6, <2>7
<1>2. CASE Next
  BY <1>2, StepValidate, StepSkip, StepMakeDirectory, StepOpenFile, StepCopyFile, StepDeferLink,
     StepEnds, StepMakeHardlink, StepMakeSymlink, StepSetMode, StepLayOut, StepFault
  DEF Next
<1> QED  BY <1>1, <1>2

\* While the tree is written, only the file that is being copied is not complete.
LEMMA OnlyHeldIsPartial ==
  ASSUME InputInv, PhaseInv, TreeInv, phase \in Extracting \/ Whole,
         NEW p \in DOMAIN tree, tree[p].type = "file", tree[p].data = Partial
  PROVE  phase = "copy" /\ p = Name(Current)
<1>1. Valid /\ Made \subseteq Written
  <2>1. phase \notin {"validate", "failed"}  BY DEF Extracting, Whole
  <2> QED  BY <2>1, MadeIsWritten DEF PhaseInv
<1>2. DirNode("open").type # "file"  BY DEF DirNode
<1>3. PICK e \in Made : Name(e) = p /\ tree[p] = NodeNow(e)  BY <1>2, TreeAt
<1>4. NodeOf(e).type = "file" => NodeOf(e).data # Partial  BY <1>1, NodeOfIs
<1>5. e \in Held  BY <1>2, <1>3, <1>4 DEF NodeNow
<1> QED  BY <1>3, <1>5 DEF Held

\* What an ended extraction leaves is complete.
LEMMA StepNoPartialFile ==
  ASSUME InputInv, PhaseInv, TreeInv, NoPartialFile, [Next]_vars
  PROVE  NoPartialFile'
<1> SUFFICES ASSUME phase' \in {"lookup", "done", "failed", "absent"}, faults' <= 1,
                    NEW p \in DOMAIN tree', tree'[p].type = "file", tree'[p].data = Partial
             PROVE  FALSE
  BY DEF NoPartialFile
<1>1. CASE UNCHANGED vars
  BY <1>1 DEF NoPartialFile, vars
<1>2. ~(phase' = "failed" /\ faults' = 0)
  <2>1. PhaseInv'  BY Step
  <2> QED  BY <2>1 DEF PhaseInv, NoFiles
<1>3. ~(phase = "validate" /\ tree' = tree)
  BY DEF PhaseInv, NoFiles
<1>4. ~((phase \in Extracting \ {"copy"} \/ Whole) /\ p \in DOMAIN tree /\ tree'[p] = tree[p])
  BY OnlyHeldIsPartial DEF Whole
<1>5. CASE Validate \/ MakeDirectory \/ OpenFile \/ MakeHardlink \/ MakeSymlink \/ SetMode
  <2>1. faults' = faults /\ phase \in Extracting \cup {"validate"}
    BY <1>5 DEF Validate, MakeDirectory, OpenFile, MakeHardlink, MakeSymlink, SetMode, AtEntry,
               Extracting
  <2>2. phase' \in Extracting \cup {"failed"}
    BY <1>5 DEF Validate, MakeDirectory, OpenFile, MakeHardlink, MakeSymlink, SetMode, AtEntry,
               Extracting
  <2>3. phase' = "failed"  BY <2>2 DEF Extracting
  <2>4. faults = 0  BY <2>1 DEF PhaseInv
  <2> QED  BY <1>2, <2>1, <2>3, <2>4
<1>6. CASE Skip \/ CopyFile \/ DeferLink \/ EndEntries \/ EndHardlinks \/ EndSymlinks
  BY <1>6 DEF Skip, CopyFile, DeferLink, EndEntries, EndHardlinks, EndSymlinks, AtEntry
<1>7. CASE EndModes \/ LayOutBlocked \/ Fault
  <2>1. tree' = tree
    BY <1>7 DEF EndModes, LayOutBlocked, Fault
  <2>2. phase \in (Extracting \ {"copy"}) \cup {"lookup", "validate"}
    BY <1>7 DEF EndModes, LayOutBlocked, Fault, Extracting
  <2> QED  BY <1>3, <1>4, <2>1, <2>2 DEF Whole
<1>8. CASE LayOut
  <2>1. phase = "lookup" /\ p \in DOMAIN tree /\ tree'[p] = tree[p]  BY <1>8 DEF LayOut
  <2> QED  BY <1>4, <2>1 DEF Whole
<1>9. CASE CopyFault \/ ChmodFault
  <2>1. phase = "copy" /\ phase \in Extracting
    BY <1>9 DEF CopyFault, ChmodFault, Extracting
  <2>2. faults' # faults + 2  BY DEF PhaseInv
  <2>3. CASE CopyFault
    <3>1. tree' = Without(tree, Name(Current))  BY <1>9, <2>2, <2>3 DEF CopyFault, Name
    <3>2. p \in DOMAIN tree /\ p # Name(Current) /\ tree'[p] = tree[p]  BY <3>1 DEF Without
    <3> QED  BY <2>1, <3>2, OnlyHeldIsPartial
  <2>4. CASE ChmodFault
    <3>1. tree' = Put(tree, Name(Current), FileNode("private", Current.data))
      BY <2>4 DEF ChmodFault, Name
    <3>2. Current.data # Partial
      <4>1. Valid /\ Current \in Written  BY <2>1, CopiedIs
      <4> QED  BY <4>1, ValidIs DEF IsEntry
    <3>3. CASE p = Name(Current)  BY <3>1, <3>2, <3>3 DEF Put, FileNode
    <3>4. CASE p # Name(Current)
      <4>1. p \in DOMAIN tree /\ tree'[p] = tree[p]  BY <3>1, <3>4 DEF Put
      <4> QED  BY <2>1, <3>4, <4>1, OnlyHeldIsPartial
    <3> QED  BY <3>3, <3>4
  <2> QED  BY <1>9, <2>3, <2>4
<1> QED  BY <1>1, <1>5, <1>6, <1>7, <1>8, <1>9 DEF Next

-----------------------------------------------------------------------------
(* The initial states.                                                     *)

\* What is written of a tree, entry by entry.
LEMMA TreeEntryIs ==
  ASSUME NEW files \in Sources, NEW i \in DOMAIN files
  PROVE  LET s == files[i]
             e == TreeEntry(s)
         IN  /\ IsEntry(e) /\ e.type # "link"
             /\ s.path \in Seq(STRING) /\ s.path # <<>>
             /\ e.path = <<"root">> \o s.path /\ e.path \in Seq(STRING)
             /\ Len(e.path) > 1 /\ Head(e.path) = "root" /\ Tail(e.path) = s.path
             /\ e.type = s.node.type
             /\ e.type = "dir" => s.node = DirNode(e.mode)
             /\ e.type = "file" => s.node = FileNode(e.mode, e.data)
             /\ e.type = "symlink" => /\ s.node = LinkNode(s.node.to)
                                      /\ e.to = IF s.node.to = Outside THEN Outside
                                                ELSE <<"root">> \o s.node.to
                                      /\ s.node.to # Outside =>
                                            s.node.to \in Seq(STRING) /\ Tail(e.to) = s.node.to
<1> DEFINE s == files[i]
           n == s.node
           e == TreeEntry(s)
<1>1. /\ s.path \in Seq(STRING) /\ s.path # <<>>
      /\ \/ n \in {DirNode(mode) : mode \in Modes}
         \/ n.type = "file" /\ n.mode \in Modes /\ n.data # Partial /\ n = FileNode(n.mode, n.data)
         \/ n.type = "symlink" /\ n = LinkNode(n.to) /\ IsPath(n.to)
  BY ArchiveAssumption DEF IsWalk, IsNode
<1>2. "root" \in STRING /\ Outside # Partial  BY ArchiveAssumption
<1>3. ASSUME NEW p \in Seq(STRING)
      PROVE  /\ <<"root">> \o p \in Seq(STRING) /\ Len(<<"root">> \o p) = Len(p) + 1
             /\ Head(<<"root">> \o p) = "root" /\ Tail(<<"root">> \o p) = p
  <2> DEFINE r == <<"root">> \o p
  <2>1. <<"root">> \in Seq(STRING) /\ Len(<<"root">>) = 1 /\ <<"root">>[1] = "root"
    BY <1>2
  <2>2. /\ r \in Seq(STRING) /\ Len(r) = 1 + Len(p)
        /\ \A k \in 1 .. 1 + Len(p) : r[k] = IF k <= 1 THEN <<"root">>[k] ELSE p[k - 1]
    BY <2>1, ConcatProperties
  <2>3. Len(p) \in Nat  BY LenProperties
  <2>4. r # <<>> /\ r[1] = "root"  BY <2>1, <2>2, <2>3, EmptySeq
  <2>5. /\ Tail(r) \in Seq(STRING) /\ Len(Tail(r)) = Len(p)
        /\ \A k \in 1 .. Len(p) : Tail(r)[k] = r[k + 1]
    <3>1. /\ Tail(r) \in Seq(STRING) /\ Len(Tail(r)) = Len(r) - 1
          /\ \A k \in 1 .. Len(Tail(r)) : Tail(r)[k] = r[k + 1]
      BY <2>2, <2>4, HeadTailProperties
    <3> QED  BY <2>2, <2>3, <3>1
  <2>6. \A k \in 1 .. Len(p) : Tail(r)[k] = p[k]
    <3> TAKE k \in 1 .. Len(p)
    <3>1. k + 1 \in 1 .. 1 + Len(p) /\ ~(k + 1 <= 1) /\ k + 1 - 1 = k  BY <2>3
    <3>2. r[k + 1] = p[k]  BY <2>2, <3>1
    <3> QED  BY <2>5, <3>2
  <2>7. Tail(r) = p  BY <2>5, <2>6, SeqEqual
  <2>8. Head(r) = r[1]  BY <2>2, <2>4
  <2> QED  BY <2>2, <2>3, <2>4, <2>7, <2>8
<1>4. Len(s.path) > 0  BY <1>1, EmptySeq
<1>5. DirNode("open").type = "dir" /\ \A mode : DirNode(mode).type = "dir" /\ DirNode(mode).mode = mode
  BY DEF DirNode
<1>6. CASE n \in {DirNode(mode) : mode \in Modes}
  <2>1. PICK mode \in Modes : n = DirNode(mode)  BY <1>6
  <2>2. n.type = "dir" /\ n.mode = mode  BY <1>5, <2>1
  <2>3. e = Entry(<<"root">> \o s.path, "dir", mode, Outside, Outside)
    BY <2>2 DEF TreeEntry
  <2>4. /\ e.path = <<"root">> \o s.path /\ e.type = "dir" /\ e.mode = mode
        /\ e.data = Outside /\ e.to = Outside
    BY <2>3 DEF Entry
  <2> HIDE DEF e, n, s
  <2> QED  BY <1>1, <1>2, <1>3, <1>4, <2>1, <2>2, <2>4, LenProperties DEF e, s, n, IsEntry, IsPath
<1>7. CASE n.type = "file" /\ n.mode \in Modes /\ n.data # Partial /\ n = FileNode(n.mode, n.data)
  <2>1. e = Entry(<<"root">> \o s.path, "file", n.mode, n.data, Outside)
    BY <1>7 DEF TreeEntry
  <2>2. /\ e.path = <<"root">> \o s.path /\ e.type = "file" /\ e.mode = n.mode
        /\ e.data = n.data /\ e.to = Outside
    BY <2>1 DEF Entry
  <2> HIDE DEF e, n, s
  <2> QED  BY <1>1, <1>2, <1>3, <1>4, <1>7, <2>2, LenProperties DEF e, s, n, IsEntry, IsPath
<1>8. CASE n.type = "symlink" /\ n = LinkNode(n.to) /\ IsPath(n.to)
  <2>1. e = Entry(<<"root">> \o s.path, "symlink", "open", Outside,
                  IF n.to = Outside THEN Outside ELSE <<"root">> \o n.to)
    BY <1>8 DEF TreeEntry
  <2>2. /\ e.path = <<"root">> \o s.path /\ e.type = "symlink" /\ e.mode = "open"
        /\ e.data = Outside /\ e.to = IF n.to = Outside THEN Outside ELSE <<"root">> \o n.to
    BY <2>1 DEF Entry
  <2>3. n.to # Outside => /\ n.to \in Seq(STRING) /\ <<"root">> \o n.to \in Seq(STRING)
                          /\ Tail(<<"root">> \o n.to) = n.to
    BY <1>3, <1>8 DEF IsPath
  <2>4. IsPath(e.to)  BY <2>2, <2>3 DEF IsPath
  <2> HIDE DEF e, n, s
  <2>5. IsEntry(e)  BY <1>1, <1>2, <1>3, <2>2, <2>4 DEF IsEntry, IsPath, Modes
  <2>6. /\ e.path \in Seq(STRING) /\ Len(e.path) > 1 /\ Head(e.path) = "root"
        /\ Tail(e.path) = s.path
    BY <1>1, <1>3, <1>4, <2>2, LenProperties
  <2>7. n = LinkNode(n.to) /\ e.type = n.type /\ e.type = "symlink"  BY <1>8, <2>2
  <2>8. n.to # Outside => n.to \in Seq(STRING) /\ Tail(e.to) = n.to  BY <2>2, <2>3
  <2> QED  BY <1>1, <2>2, <2>5, <2>6, <2>7, <2>8 DEF e, s, n
<1> QED  BY <1>1, <1>6, <1>7, <1>8

\* The metadata, and every path of the tree once.
LEMMA BuiltIs ==
  ASSUME NEW files \in Sources, NEW a, a = BuildPackage(files)
  PROVE  /\ a \in Seq(ToSet(a))
         /\ ToSet(a) = {MetadataEntry} \cup {TreeEntry(files[i]) : i \in DOMAIN files}
<1> DEFINE n == Len(files)
           T == {TreeEntry(files[i]) : i \in DOMAIN files}
           S == {MetadataEntry} \cup T
           t == addTree(files)
<1>1. n \in Nat /\ DOMAIN files = 1 .. n
  <2>1. files \in Seq(ToSet(files))  BY ArchiveAssumption DEF IsWalk
  <2> QED  BY <2>1, LenProperties
<1>2. t \in Seq(S) /\ Len(t) = n /\ \A i \in 1 .. n : t[i] = TreeEntry(files[i])
  <2>1. t \in [1 .. n -> S] /\ DOMAIN t = 1 .. n /\ \A i \in 1 .. n : t[i] = TreeEntry(files[i])
    BY <1>1 DEF addTree
  <2> HIDE DEF t, S, n
  <2>2. t \in Seq(S)  BY <1>1, <2>1, SeqDef
  <2>3. Len(t) \in Nat /\ DOMAIN t = 1 .. Len(t)  BY <2>2, LenProperties
  <2>4. Len(t) = n  BY <1>1, <2>1, <2>3
  <2> QED  BY <2>1, <2>2, <2>4
<1>3. <<MetadataEntry>> \in Seq(S) /\ Len(<<MetadataEntry>>) = 1
      /\ <<MetadataEntry>>[1] = MetadataEntry
  OBVIOUS
<1>4. a = <<MetadataEntry>> \o t  BY DEF BuildPackage
<1> DEFINE m == <<MetadataEntry>>
<1>5. m[1] = MetadataEntry /\ m \in Seq(S) /\ Len(m) = 1 /\ a = m \o t  BY <1>3, <1>4
<1> HIDE DEF t, m, S
<1>6. /\ a \in Seq(S) /\ Len(a) = 1 + n
      /\ \A i \in 1 .. 1 + n : a[i] = IF i <= 1 THEN m[i] ELSE t[i - 1]
  <2>1. /\ m \o t \in Seq(S) /\ Len(m \o t) = Len(m) + Len(t)
        /\ \A i \in 1 .. Len(m) + Len(t) :
              (m \o t)[i] = IF i <= Len(m) THEN m[i] ELSE t[i - Len(m)]
    BY <1>2, <1>5, ConcatProperties
  <2>2. Len(m) = 1 /\ Len(t) = n  BY <1>2, <1>5
  <2> HIDE DEF n
  <2> QED  BY <1>5, <2>1, <2>2
<1>7. DOMAIN a = 1 .. 1 + n  BY <1>6, LenProperties
<1>8. a[1] = MetadataEntry  BY <1>1, <1>5, <1>6
<1>9. ASSUME NEW i \in 1 .. n  PROVE a[i + 1] = TreeEntry(files[i]) /\ i + 1 \in DOMAIN a
  <2>1. i + 1 \in 1 .. 1 + n /\ ~(i + 1 <= 1) /\ i + 1 - 1 = i  BY <1>1
  <2>2. a[i + 1] = t[i]  BY <1>6, <2>1
  <2> QED  BY <1>2, <1>7, <2>1, <2>2
<1>10. ToSet(a) \subseteq S
  <2> SUFFICES ASSUME NEW j \in DOMAIN a  PROVE a[j] \in S  BY DEF ToSet
  <2> QED  BY <1>6, <1>7, ElementOfSeq
<1>11. S \subseteq ToSet(a)
  <2>1. MetadataEntry \in ToSet(a)  BY <1>1, <1>7, <1>8 DEF ToSet
  <2>2. \A i \in DOMAIN files : TreeEntry(files[i]) \in ToSet(a)  BY <1>1, <1>9 DEF ToSet
  <2> QED  BY <2>1, <2>2 DEF S
<1>12. ToSet(a) = S  BY <1>10, <1>11
<1> QED  BY <1>6, <1>12 DEF S

\* The invariant holds at first, for the archives met and for those built.
LEMMA InitInv == Init => IInv
<1> SUFFICES ASSUME Init  PROVE IInv  OBVIOUS
<1>1. /\ privileged \in BOOLEAN /\ phase = "validate" /\ next = 1 /\ tree = NoFiles
      /\ hardlinks = {} /\ symlinks = {} /\ directories = {} /\ faults = 0
  BY DEF Init
<1>2. InputInv
  <2>1. CASE format \in DOMAIN Archives /\ archive \in Archives[format] /\ source = NoSource
    <3>1. format \in Formats  BY <2>1, ArchiveAssumption
    <3>2. archive \in Seq(ToSet(archive))  BY <2>1, ArchiveAssumption
    <3>3. \A e \in ToSet(archive) : IsEntry(e) /\ (format = "zip" => e.type # "link")
      BY <2>1, ArchiveAssumption
    <3> QED  BY <1>1, <2>1, <3>1, <3>2, <3>3 DEF InputInv, Entries
  <2>2. CASE format = "package" /\ source \in Sources /\ archive = BuildPackage(source)
    <3>1. /\ archive \in Seq(Entries)
          /\ Entries = {MetadataEntry} \cup {TreeEntry(source[i]) : i \in DOMAIN source}
      BY <2>2, BuiltIs DEF Entries
    <3>2. IsEntry(MetadataEntry)
      <4>1. "metadata.json" \in STRING /\ "metadata" # Partial  BY ArchiveAssumption
      <4>2. <<"metadata.json">> \in Seq(STRING)  BY <4>1
      <4> QED  BY <4>1, <4>2 DEF IsEntry, IsPath, MetadataEntry, Entry, Modes
    <3>3. \A i \in DOMAIN source : IsEntry(TreeEntry(source[i]))  BY <2>2, TreeEntryIs
    <3> QED  BY <1>1, <2>2, <3>1, <3>2, <3>3 DEF InputInv, Formats
  <2> QED  BY <2>1, <2>2 DEF Init
<1>3. PhaseInv
  <2>1. 1 \in 1 .. Len(archive) + 1  BY <1>2 DEF InputInv
  <2> QED  BY <1>1, <2>1 DEF PhaseInv, Extracting, Whole
<1>4. TreeInv /\ NoPartialFile
  BY <1>1 DEF TreeInv, NoPartialFile, Extracting, Whole
<1> QED  BY <1>2, <1>3, <1>4 DEF IInv

-----------------------------------------------------------------------------
(* The theorems.                                                           *)

\* In every state the queues, the tree and the phase agree with the entries
\* read so far.
THEOREM Invariance == Spec => []IInv
<1>1. IInv /\ [Next]_vars => IInv'
  <2> SUFFICES ASSUME IInv, [Next]_vars  PROVE IInv'  OBVIOUS
  <2>1. InputInv /\ PhaseInv /\ TreeInv /\ NoPartialFile  BY DEF IInv
  <2>2. InputInv'  BY <2>1, InputNext
  <2>3. PhaseInv' /\ TreeInv'  BY <2>1, Step
  <2>4. NoPartialFile'  BY <2>1, StepNoPartialFile
  <2> QED  BY <2>2, <2>3, <2>4 DEF IInv
<1> QED  BY <1>1, InitInv, PTL DEF Spec

\* The tree of an extraction that ended well is the one the archive stands for.
LEMMA WholeIsMeaning ==
  ASSUME InputInv, PhaseInv, TreeInv, Whole
  PROVE  Valid /\ tree = Meaning
<1>1. /\ Valid /\ next = Len(archive) + 1 /\ hardlinks = {} /\ symlinks = {} /\ directories = {}
      /\ phase # "copy"
  BY DEF PhaseInv, Whole
<1>2. next .. Len(archive) = {}  BY <1>1 DEF InputInv
<1>3. Made = Written  BY <1>1, <1>2 DEF Made, Unread, Held
<1>4. \A e : NodeNow(e) = NodeOf(e)  BY <1>1 DEF NodeNow, Held
<1>5. /\ tree = [p \in DOMAIN tree |-> tree[p]]
      /\ DOMAIN tree = Cover(Written)
      /\ \A e \in Written : tree[Name(e)] = NodeOf(e)
      /\ \A p \in Cover(Written) : (\A e \in Written : Name(e) # p) => tree[p] = DirNode("open")
  BY <1>3, <1>4 DEF TreeInv
<1>6. ASSUME NEW p \in Cover(Written)
      PROVE  tree[p] = IF \E e \in Written : Rel(e.path) = p
                       THEN NodeOf(CHOOSE e \in Written : Rel(e.path) = p)
                       ELSE DirNode("open")
  <2>1. CASE \E e \in Written : Rel(e.path) = p
    <3>1. PICK e : e = CHOOSE d \in Written : Rel(d.path) = p  OBVIOUS
    <3>2. e \in Written /\ Rel(e.path) = p  BY <2>1, <3>1
    <3> QED  BY <1>5, <2>1, <3>1, <3>2 DEF Name
  <2>2. CASE ~\E e \in Written : Rel(e.path) = p
    BY <1>5, <2>2 DEF Name
  <2> QED  BY <2>1, <2>2
<1>7. tree = Meaning  BY <1>5, <1>6 DEF Meaning
<1> QED  BY <1>1, <1>7

\* Whatever the archive and the order of its entries, without a failing call it
\* is extracted whole or nothing of it is (WholeOrNothing).
THEOREM ExtractsWholeOrNothing == Spec => []WholeOrNothing
<1>1. IInv => WholeOrNothing
  <2> SUFFICES ASSUME InputInv, PhaseInv, TreeInv  PROVE WholeOrNothing  BY DEF IInv
  <2>1. Whole => tree = Meaning  BY WholeIsMeaning
  <2>2. phase = "failed" /\ faults = 0 => tree = NoFiles  BY DEF PhaseInv
  <2> QED  BY <2>1, <2>2 DEF WholeOrNothing, Whole
<1> QED  BY <1>1, Invariance, PTL

\* Whichever call fails, no half-written file stays (NoPartialFile).
THEOREM LeavesNoPartialFile == Spec => []NoPartialFile
<1>1. IInv => NoPartialFile  BY DEF IInv
<1> QED  BY <1>1, Invariance, PTL

\* What is left of the mode of a node when it is extracted.
LEMMA MaskedIs ==
  ASSUME NEW mode, NEW data, NEW to
  PROVE  /\ Masked(DirNode(mode)) = DirNode(Permissions(mode))
         /\ Masked(FileNode(mode, data)) = FileNode(Permissions(mode), data)
         /\ Masked(LinkNode(to)) = LinkNode(to)
BY DEF Masked, DirNode, FileNode, LinkNode

\* For every tree that is built, what is extracted is that tree without setuid, setgid
\* and sticky bits (BuiltTreeReturns).
THEOREM BuildThenExtract == Spec => []BuiltTreeReturns
<1>1. ASSUME InputInv, PhaseInv, TreeInv, source # NoSource, phase = "done"
      PROVE  tree = [p \in DOMAIN TreeOf(source) |-> Masked(TreeOf(source)[p])]
  <2>1. /\ format = "package" /\ source \in Sources /\ Whole
        /\ archive = BuildPackage(source)
    BY <1>1 DEF InputInv, Whole
  <2>2. Valid /\ tree = Meaning  BY <1>1, <2>1, WholeIsMeaning
  <2>3. Entries = {MetadataEntry} \cup {TreeEntry(source[i]) : i \in DOMAIN source}
    BY <2>1, BuiltIs DEF Entries
  <2>4. Written = {TreeEntry(source[i]) : i \in DOMAIN source}
    <3>1. ~Extracted(MetadataEntry)
      <4>1. Len(<<"metadata.json">>) = 1  OBVIOUS
      <4>2. MetadataEntry.path = <<"metadata.json">>  BY DEF MetadataEntry, Entry
      <4> QED  BY <2>1, <4>1, <4>2 DEF Extracted
    <3>2. \A i \in DOMAIN source : Extracted(TreeEntry(source[i]))
      BY <2>1, TreeEntryIs DEF Extracted
    <3> QED  BY <2>3, <3>1, <3>2 DEF Written
  <2>5. ASSUME NEW i \in DOMAIN source
        PROVE  /\ Rel(TreeEntry(source[i]).path) = source[i].path
               /\ NodeOf(TreeEntry(source[i])) = Masked(source[i].node)
    <3>1. PICK e : e = TreeEntry(source[i])  OBVIOUS
    <3>2. PICK s : s = source[i]  OBVIOUS
    <3>3. /\ IsEntry(e) /\ e.type # "link"
          /\ Tail(e.path) = s.path
          /\ e.type = "dir" => s.node = DirNode(e.mode)
          /\ e.type = "file" => s.node = FileNode(e.mode, e.data)
          /\ e.type = "symlink" => /\ s.node = LinkNode(s.node.to)
                                   /\ e.to = IF s.node.to = Outside THEN Outside
                                             ELSE <<"root">> \o s.node.to
                                   /\ s.node.to # Outside => Tail(e.to) = s.node.to
      BY <2>1, <3>1, <3>2, TreeEntryIs
    <3>4. e \in Written /\ e \in Entries  BY <2>3, <2>4, <3>1
    <3>5. EntryAllowed(e)
      BY <2>1, <2>2, <3>4 DEF Valid, validatePackage, validateTarArchive
    <3>6. Rel(e.path) = s.path  BY <2>1, <3>3 DEF Rel
    <3>7. CASE e.type \in {"dir", "file"}
      <4>1. NodeOf(e) = Masked(s.node)
        BY <1>1, <2>2, <3>3, <3>4, <3>7, NodeOfIs, MaskedIs
      <4> QED  BY <3>1, <3>2, <3>6, <4>1
    <3>8. CASE e.type = "symlink"
      <4>1. NodeOf(e) = LinkNode(Rel(e.to))  BY <1>1, <2>2, <3>4, <3>8, NodeOfIs
      <4>2. s.node.to # Outside  BY <3>3, <3>5, <3>8 DEF EntryAllowed
      <4>3. Rel(e.to) = s.node.to  BY <2>1, <3>3, <3>8, <4>2 DEF Rel
      <4> QED  BY <3>1, <3>2, <3>3, <3>6, <3>8, <4>1, <4>3, MaskedIs
    <3> QED  BY <3>3, <3>7, <3>8 DEF IsEntry
  <2> DEFINE Above == {source[i].path : i \in DOMAIN source}
  <2>6. Cover(Written) = Above
    <3>1. Above \subseteq Cover(Written)  BY <2>4, <2>5 DEF Cover
    <3>2. ASSUME NEW i \in DOMAIN source  PROVE Ancestors(source[i].path) \subseteq Above
      <4>1. \A p \in Ancestors(source[i].path) : \E j \in 1 .. i - 1 : source[j].path = p
        <5>1. IsWalk(source)  BY <2>1, ArchiveAssumption
        <5>2. \A p \in Ancestors(source[i].path) :
                 \E j \in 1 .. i - 1 : source[j].path = p /\ source[j].node.type = "dir"
          BY <5>1 DEF IsWalk
        <5> QED  BY <5>2
      <4>2. DOMAIN source = 1 .. Len(source) /\ Len(source) \in Nat
        <5>1. source \in Seq(ToSet(source))  BY <2>1, ArchiveAssumption DEF IsWalk
        <5> QED  BY <5>1, LenProperties
      <4>3. 1 .. i - 1 \subseteq DOMAIN source  BY <4>2
      <4> QED  BY <4>1, <4>3
    <3> QED  BY <2>4, <2>5, <3>1, <3>2 DEF Cover
  <2>7. ASSUME NEW i \in DOMAIN source
        PROVE  /\ Meaning[source[i].path] = Masked(source[i].node)
               /\ TreeOf(source)[source[i].path] = source[i].node
    <3>1. PICK e : e = TreeEntry(source[i])  OBVIOUS
    <3>2. e \in Written /\ Rel(e.path) = source[i].path /\ NodeOf(e) = Masked(source[i].node)
      BY <2>4, <2>5, <3>1
    <3>3. tree[Name(e)] = NodeOf(e)
      <4>1. /\ next = Len(archive) + 1 /\ hardlinks = {} /\ symlinks = {} /\ directories = {}
        BY <1>1, <2>1 DEF PhaseInv
      <4>2. next .. Len(archive) = {}  BY <1>1, <4>1 DEF InputInv
      <4>3. e \in Made  BY <3>2, <4>1, <4>2 DEF Made, Unread
      <4> QED  BY <1>1, <2>1, <4>1, <4>3 DEF TreeInv, NodeNow, Held
    <3>4. \A s \in ToSet(source) : s.path = source[i].path => s = source[i]
      BY <2>1, ArchiveAssumption DEF IsWalk, ToSet
    <3>5. source[i] \in ToSet(source)  BY DEF ToSet
    <3>6. (CHOOSE s \in ToSet(source) : s.path = source[i].path) = source[i]
      BY <3>4, <3>5
    <3> QED  BY <2>2, <3>2, <3>3, <3>6 DEF TreeOf, Name
  <2>8. DOMAIN Meaning = Above /\ DOMAIN TreeOf(source) = Above
    BY <2>6 DEF Meaning, TreeOf
  <2>9. \A p \in Above : Meaning[p] = Masked(TreeOf(source)[p])  BY <2>7
  <2>10. Meaning = [p \in DOMAIN Meaning |-> Meaning[p]]  BY DEF Meaning
  <2> QED  BY <2>2, <2>8, <2>9, <2>10
<1>2. IInv => BuiltTreeReturns  BY <1>1 DEF IInv, BuiltTreeReturns
<1> QED  BY <1>2, Invariance, PTL
=============================================================================
