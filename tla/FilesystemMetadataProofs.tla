---------------------- MODULE FilesystemMetadataProofs ----------------------
(***************************************************************************)
(* Proofs about FilesystemMetadata, for any number of clients, ids, names, *)
(* contents, nodes, paths and attempts: what every metadata operation      *)
(* makes of a well-formed snapshot is one; its steps keep the              *)
(* types and are of a few kinds; its invariants; and it implements         *)
(* AtomicFilesystem, so that the operations are linearizable, and          *)
(* lock-free.                                                              *)
(***************************************************************************)
EXTENDS FilesystemRefinement, TLAPS


-----------------------------------------------------------------------------
(* Snapshots: types *)

\* A resolved path names a directory id.
LEMMA ResolveDirectoryType ==
  ASSUME NEW s \in Snapshots, NEW path \in Seq(Names)
  PROVE  ResolveDirectory(s, path) \in SUBSET DirIds
BY DEF ResolveDirectory

\* touch_directory keeps the shape of the snapshot.
LEMMA TouchType ==
  ASSUME NEW s \in Snapshots, NEW D
  PROVE  Touch(s, D) \in Snapshots
BY DEF Touch, Snapshots

\* So does dropping a reference.
LEMMA DropReferenceType ==
  ASSUME NEW s \in Snapshots, NEW c \in ContentIds \cup {NoContent}
  PROVE  DropReference(s, c) \in Snapshots
BY Zenon DEF DropReference, Snapshots, Retentions

\* A vacant place is in a directory.
LEMMA VacantType ==
  ASSUME NEW s \in Snapshots, NEW at \in Paths
  PROVE  Vacant(s, at) \in SUBSET DirIds /\ at.name \in Names
BY IdsAssumption, ResolveDirectoryType, Zenon DEF Vacant

\* So does a new directory.
LEMMA AddDirectoryType ==
  ASSUME NEW s \in Snapshots, NEW d \in DirIds, NEW name \in Names, NEW id \in DirIds
  PROVE  AddDirectory(s, d, name, id) \in Snapshots
<1> DEFINE new == [parent |-> d, name |-> name, target |-> id]
<1>1. new \in NamespaceEntry
  BY Zenon DEF NamespaceEntry
<1>2. s.entries \cup {new} \in SUBSET NamespaceEntry
  BY <1>1, Zenon DEF Snapshots
<1> QED
  BY <1>2, Zenon DEF AddDirectory, Snapshots

\* So does a new file.
LEMMA AddFileType ==
  ASSUME NEW s \in Snapshots, NEW d \in DirIds, NEW name \in Names, NEW id \in FileIds
  PROVE  AddFile(s, d, name, id) \in Snapshots
<1> DEFINE new == [parent |-> d, name |-> name, target |-> id]
<1>1. new \in NamespaceEntry
  BY Zenon DEF NamespaceEntry
<1>2. s.entries \cup {new} \in SUBSET NamespaceEntry
  BY <1>1, Zenon DEF Snapshots
<1> QED
  BY <1>2, Zenon DEF AddFile, Snapshots, FileMetadata

\* mkdir
LEMMA MkdirType ==
  ASSUME NEW s \in Snapshots, NEW at \in Paths, NEW id \in DirIds
  PROVE  Mkdir(s, at, id) \in SUBSET Snapshots
BY VacantType, AddDirectoryType, TouchType, Zenon DEF Mkdir

\* create
LEMMA CreateType ==
  ASSUME NEW s \in Snapshots, NEW at \in Paths, NEW id \in FileIds
  PROVE  Create(s, at, id) \in SUBSET Snapshots
BY VacantType, AddFileType, TouchType, Zenon DEF Create

\* rename
LEMMA RenameType ==
  ASSUME NEW s \in Snapshots, NEW from \in Paths, NEW to \in Paths
  PROVE  Rename(s, from, to) \in SUBSET Snapshots
<1> SUFFICES ASSUME NEW e \in s.entries, NEW d \in Vacant(s, to)
             PROVE  MoveEntry(s, e, d, to.name) \in Snapshots
  BY DEF Rename
<1>1. d \in DirIds /\ to.name \in Names
  BY VacantType, Zenon
<1>2. [e EXCEPT !.parent = d, !.name = to.name] \in NamespaceEntry
  BY <1>1, Zenon DEF Snapshots, NamespaceEntry
<1>3. [s EXCEPT !.entries = (@ \ {e}) \cup {[e EXCEPT !.parent = d, !.name = to.name]}]
        \in Snapshots
  BY <1>2, Zenon DEF Snapshots
<1> QED
  BY <1>3, TouchType, Zenon DEF MoveEntry

\* remove
LEMMA RemoveType ==
  ASSUME NEW s \in Snapshots, NEW at \in Paths
  PROVE  Remove(s, at) \in SUBSET Snapshots
<1>1. ASSUME NEW t \in Snapshots, NEW e \in s.entries PROVE RemoveEntry(t, e) \in Snapshots
  <2>1. [t EXCEPT !.entries = @ \ {e}] \in Snapshots
    BY Zenon DEF Snapshots
  <2> QED
    BY <2>1, TouchType, Zenon DEF RemoveEntry
<1>2. ASSUME NEW e \in s.entries, e.target \in FileIds PROVE RemoveFile(s, e) \in Snapshots
  <2>1. [s EXCEPT !.files[e.target] = NoFile] \in Snapshots
    BY <1>2, Zenon DEF Snapshots, NoFile, FileMetadata
  <2>2. s.files[e.target].manifest \in ContentIds \cup {NoContent}
    BY <1>2, Zenon DEF Snapshots, FileMetadata
  <2> QED
    BY <1>1, <2>1, <2>2, DropReferenceType, Zenon DEF RemoveFile
<1>3. ASSUME NEW e \in s.entries, e.target \in DirIds PROVE RemoveDirectory(s, e) \in Snapshots
  <2>1. [s EXCEPT !.directories[e.target] = 0] \in Snapshots
    BY <1>3, Zenon DEF Snapshots
  <2> QED
    BY <1>1, <2>1, Zenon DEF RemoveDirectory
<1> QED
  BY <1>2, <1>3, Zenon DEF Remove

\* The commit of write.
LEMMA CommitWriteType ==
  ASSUME NEW s \in Snapshots, NEW f \in FileIds, NEW c \in ContentIds, NEW n \in Nodes
  PROVE  CommitWrite(s, f, c, n) \in Snapshots
<1> DEFINE written == [s EXCEPT !.files[f] = [generation |-> @.generation + 1,
                                              manifest   |-> c],
                                !.placements[c] = @ \cup {n},
                                !.retentions[c] = "LiveReference"]
<1>1. written \in Snapshots
  <2>1. [s.files EXCEPT ![f] = [generation |-> @.generation + 1, manifest |-> c]]
          \in [FileIds -> FileMetadata]
    BY DEF Snapshots, FileMetadata
  <2>2. [s.placements EXCEPT ![c] = @ \cup {n}] \in [ContentIds -> SUBSET Nodes]
    BY Zenon DEF Snapshots
  <2>3. [s.retentions EXCEPT ![c] = "LiveReference"] \in [ContentIds -> Retentions]
    BY Zenon DEF Snapshots, Retentions
  <2> QED
    BY <2>1, <2>2, <2>3, Zenon DEF Snapshots
<1>2. s.files[f].manifest \in ContentIds \cup {NoContent}
  BY Zenon DEF Snapshots, FileMetadata
<1> QED
  BY <1>1, <1>2, DropReferenceType, Zenon DEF CommitWrite

\* Whatever a call installs is a snapshot.
LEMMA EffectType ==
  ASSUME NEW s \in Snapshots, NEW o \in Calls \cup {Idle}, NEW f
  PROVE  Effect(s, o, f) \in SUBSET Snapshots
<1>1. CASE o \in Mkdirs
  BY <1>1, MkdirType, Zenon DEF Mkdirs, Effect
<1>2. CASE o \in Creates
  BY <1>2, CreateType, Zenon DEF Creates, Effect
<1>3. CASE o \in Renames
  BY <1>3, RenameType, Zenon DEF Renames, Effect
<1>4. CASE o \in Removes
  BY <1>4, RemoveType, Zenon DEF Removes, Effect
<1>5. CASE o \in Writes
  BY <1>5, CommitWriteType DEF Writes, Effect
<1>6. CASE o = Idle
  BY <1>6, Zenon DEF Idle, Effect
<1> QED
  BY <1>1, <1>2, <1>3, <1>4, <1>5, <1>6, Zenon DEF Calls

-----------------------------------------------------------------------------
(* The tree *)

\* touch_directory changes generations of existing directories only.
LEMMA TouchFrame ==
  ASSUME NEW s \in Snapshots, NEW D
  PROVE  /\ Touch(s, D).entries = s.entries
         /\ Touch(s, D).files = s.files
         /\ Touch(s, D).placements = s.placements
         /\ Touch(s, D).retentions = s.retentions
         /\ \A d \in DirIds : HasDirectory(Touch(s, D), d) <=> HasDirectory(s, d)
BY DEF Touch, Snapshots, HasDirectory

\* Dropping a reference changes retentions only.
LEMMA DropReferenceFrame ==
  ASSUME NEW s \in Snapshots, NEW c
  PROVE  /\ DropReference(s, c).entries = s.entries
         /\ DropReference(s, c).directories = s.directories
         /\ DropReference(s, c).files = s.files
         /\ DropReference(s, c).placements = s.placements
BY Zenon DEF DropReference, Snapshots

\* The tree is a matter of the entries and of what exists.
LEMMA TreeOfSameShape ==
  ASSUME NEW s \in Snapshots, NEW t \in Snapshots, IsTree(s),
         t.entries = s.entries,
         \A d \in DirIds : HasDirectory(t, d) <=> HasDirectory(s, d),
         \A f \in FileIds : HasFile(t, f) <=> HasFile(s, f)
  PROVE  IsTree(t)
<1>1. UniqueNames(t) /\ SingleParent(t)
  BY Zenon DEF IsTree, UniqueNames, SingleParent
<1>2. NoDangling(t)
  <2>1. s.entries \in SUBSET NamespaceEntry
    BY Zenon DEF Snapshots
  <2> QED
    BY <2>1, IdsAssumption DEF IsTree, NoDangling, NamespaceEntry
<1>3. Acyclic(t)
  BY Zenon DEF IsTree, Acyclic
<1> QED
  BY <1>1, <1>2, <1>3, Zenon DEF IsTree

\* Touching directories keeps the tree.
LEMMA TouchTree ==
  ASSUME NEW s \in Snapshots, IsTree(s), NEW D
  PROVE  IsTree(Touch(s, D))
<1>1. \A f \in FileIds : HasFile(Touch(s, D), f) <=> HasFile(s, f)
  BY TouchFrame, Zenon DEF HasFile
<1> QED
  BY <1>1, TouchFrame, TouchType, TreeOfSameShape, Zenon

\* A path resolves to a directory that exists: resolve_components needs no
\* check of its own.
LEMMA ResolvedExists ==
  ASSUME NEW s \in Snapshots, IsTree(s), NEW path \in Seq(Names),
         NEW d \in ResolveDirectory(s, path)
  PROVE  d \in DirIds /\ HasDirectory(s, d)
<1>1. PICK w \in [0..Len(path) -> DirIds] : IsWalk(s, path, w) /\ d = w[Len(path)]
  BY Zenon DEF ResolveDirectory
<1>2. Len(path) \in Nat
  OBVIOUS
<1>3. d \in DirIds
  BY <1>1, <1>2
<1>4. CASE Len(path) = 0
  BY <1>1, <1>4 DEF IsWalk, IsTree, NoDangling
<1>5. CASE Len(path) # 0
  <2> DEFINE e == [parent |-> w[Len(path) - 1], name |-> path[Len(path)], target |-> d]
  <2>1. e \in s.entries
    BY <1>1, <1>2, <1>5 DEF IsWalk
  <2>2. e.target = d
    BY Zenon
  <2> QED
    BY <1>3, <2>1, <2>2, Zenon DEF IsTree, NoDangling
<1> QED
  BY <1>3, <1>4, <1>5, Zenon

\* mkdir with an unused id keeps the tree.
LEMMA AddDirectoryTree ==
  ASSUME NEW s \in Snapshots, IsTree(s), NEW d \in DirIds, NEW name \in Names,
         NEW id \in DirIds, HasDirectory(s, d), EnsureAbsent(s, d, name),
         ~HasDirectory(s, id)
  PROVE  IsTree(AddDirectory(s, d, name, id))
<1> DEFINE t   == AddDirectory(s, d, name, id)
           new == [parent |-> d, name |-> name, target |-> id]
<1>0. s.entries \in SUBSET NamespaceEntry
  BY Zenon DEF Snapshots
<1>1. t.entries = s.entries \cup {new} /\ t.files = s.files
  BY Zenon DEF AddDirectory, Snapshots
<1>2. \A x \in DirIds : HasDirectory(t, x) <=> (x = id \/ HasDirectory(s, x))
  BY DEF AddDirectory, Snapshots, HasDirectory
<1>3. new.parent = d /\ new.name = name /\ new.target = id
  BY Zenon
<1>4. \A e \in s.entries : e.parent # id /\ e.target # id
  BY <1>0, IdsAssumption DEF IsTree, NoDangling, NamespaceEntry
<1> HIDE DEF t, new
<1>5. UniqueNames(t)
  BY <1>1, <1>3, Zenon DEF IsTree, UniqueNames, EnsureAbsent, EntriesAt
<1>6. SingleParent(t)
  BY <1>1, <1>3, <1>4, Zenon DEF IsTree, SingleParent
<1>7. NoDangling(t)
  <2>1. HasDirectory(t, Root) /\ id # Root
    BY <1>2, IdsAssumption, Zenon DEF IsTree, NoDangling
  <2>2. \A f \in FileIds : HasFile(t, f) <=> HasFile(s, f)
    BY <1>1, Zenon DEF HasFile
  <2>3. ASSUME NEW e \in t.entries
        PROVE  /\ HasDirectory(t, e.parent)
               /\ e.target # Root
               /\ e.target \in DirIds => HasDirectory(t, e.target)
               /\ e.target \in FileIds => HasFile(t, e.target)
    BY <1>0, <1>1, <1>2, <1>3, <2>1, <2>2, IdsAssumption, Zenon
       DEF IsTree, NoDangling, NamespaceEntry
  <2>4. \A f \in FileIds : HasFile(t, f) => \E e \in t.entries : e.target = f
    BY <1>1, <2>2, Zenon DEF IsTree, NoDangling
  <2>5. \A x \in DirIds \ {Root} : HasDirectory(t, x) => \E e \in t.entries : e.target = x
    BY <1>1, <1>2, <1>3, Zenon DEF IsTree, NoDangling
  <2> QED
    BY <2>1, <2>3, <2>4, <2>5, Zenon DEF NoDangling
<1>8. Acyclic(t)
  <2> SUFFICES ASSUME NEW S \in SUBSET (DirIds \ {Root}), S # {},
                      \A x \in S : HasDirectory(t, x)
               PROVE  \E e \in t.entries : e.target \in S /\ e.parent \notin S
    BY Zenon DEF Acyclic
  <2>1. CASE id \in S /\ d \in S
    <3>1. S \ {id} \in SUBSET (DirIds \ {Root}) /\ S \ {id} # {}
      BY <2>1
    <3>2. \A x \in S \ {id} : HasDirectory(s, x)
      BY <1>2, Zenon
    <3>3. PICK e \in s.entries : e.target \in S \ {id} /\ e.parent \notin S \ {id}
      BY <3>1, <3>2, Zenon DEF IsTree, Acyclic
    <3> QED
      BY <1>1, <1>4, <3>3, Zenon
  <2>2. CASE id \in S /\ d \notin S
    BY <1>1, <1>3, <2>2, Zenon
  <2>3. CASE id \notin S
    <3>1. \A x \in S : HasDirectory(s, x)
      BY <1>2, <2>3, Zenon
    <3>2. PICK e \in s.entries : e.target \in S /\ e.parent \notin S
      BY <3>1, Zenon DEF IsTree, Acyclic
    <3> QED
      BY <1>1, <3>2, Zenon
  <2> QED
    BY <2>1, <2>2, <2>3, Zenon
<1> QED
  BY <1>5, <1>6, <1>7, <1>8, Zenon DEF IsTree, t

\* create with an unused id keeps the tree.
LEMMA AddFileTree ==
  ASSUME NEW s \in Snapshots, IsTree(s), NEW d \in DirIds, NEW name \in Names,
         NEW id \in FileIds, HasDirectory(s, d), EnsureAbsent(s, d, name),
         ~HasFile(s, id)
  PROVE  IsTree(AddFile(s, d, name, id))
<1> DEFINE t   == AddFile(s, d, name, id)
           new == [parent |-> d, name |-> name, target |-> id]
<1>0. s.entries \in SUBSET NamespaceEntry
  BY Zenon DEF Snapshots
<1>1. t.entries = s.entries \cup {new} /\ t.directories = s.directories
  BY Zenon DEF AddFile, Snapshots
<1>2. \A x \in FileIds : HasFile(t, x) <=> (x = id \/ HasFile(s, x))
  BY DEF AddFile, Snapshots, FileMetadata, HasFile
<1>3. new.parent = d /\ new.name = name /\ new.target = id
  BY Zenon
<1>4. \A e \in s.entries : e.target # id
  BY <1>0, Zenon DEF IsTree, NoDangling
<1> HIDE DEF t, new
<1>5. UniqueNames(t)
  BY <1>1, <1>3, Zenon DEF IsTree, UniqueNames, EnsureAbsent, EntriesAt
<1>6. SingleParent(t)
  BY <1>1, <1>3, <1>4, Zenon DEF IsTree, SingleParent
<1>7. \A x : HasDirectory(t, x) <=> HasDirectory(s, x)
  BY <1>1, Zenon DEF HasDirectory
<1>8. NoDangling(t)
  <2>1. ASSUME NEW e \in t.entries
        PROVE  /\ HasDirectory(t, e.parent)
               /\ e.target # Root
               /\ e.target \in DirIds => HasDirectory(t, e.target)
               /\ e.target \in FileIds => HasFile(t, e.target)
    BY <1>1, <1>2, <1>3, <1>7, IdsAssumption DEF IsTree, NoDangling
  <2>2. \A f \in FileIds : HasFile(t, f) => \E e \in t.entries : e.target = f
    BY <1>1, <1>2, <1>3, Zenon DEF IsTree, NoDangling
  <2>3. \A x \in DirIds \ {Root} : HasDirectory(t, x) => \E e \in t.entries : e.target = x
    BY <1>1, <1>7, Zenon DEF IsTree, NoDangling
  <2> QED
    BY <1>7, <2>1, <2>2, <2>3, Zenon DEF IsTree, NoDangling
<1>9. Acyclic(t)
  BY <1>1, <1>7, Zenon DEF IsTree, Acyclic
<1> QED
  BY <1>5, <1>6, <1>8, <1>9, Zenon DEF IsTree, t

\* rename keeps the tree.  That a directory does not move below itself is the
\* check of is_descendant: the ancestors of the new parent are a parent-closed
\* set without the moved directory.
LEMMA MoveEntryTree ==
  ASSUME NEW s \in Snapshots, IsTree(s), NEW e \in s.entries, NEW d \in DirIds,
         NEW name \in Names, HasDirectory(s, d), EnsureAbsent(s, d, name),
         e.target \in DirIds => ~IsDescendant(s, d, e.target),
         MoveEntry(s, e, d, name) \in Snapshots
  PROVE  IsTree(MoveEntry(s, e, d, name))
<1> DEFINE moved == [e EXCEPT !.parent = d, !.name = name]
           u == [s EXCEPT !.entries = (@ \ {e}) \cup {moved}]
<1>0. s.entries \in SUBSET NamespaceEntry
  BY Zenon DEF Snapshots
<1>1. moved.parent = d /\ moved.name = name /\ moved.target = e.target /\ moved \in NamespaceEntry
  BY <1>0, Zenon DEF NamespaceEntry
<1>2. u.entries = (s.entries \ {e}) \cup {moved} /\ u.directories = s.directories
        /\ u.files = s.files
  BY Zenon DEF Snapshots
<1>3. u \in Snapshots
  BY <1>1, Zenon DEF Snapshots
<1>4. MoveEntry(s, e, d, name) = Touch(u, {e.parent, d})
  BY Zenon DEF MoveEntry
<1> HIDE DEF moved, u
<1>5. /\ \A x : HasDirectory(u, x) <=> HasDirectory(s, x)
      /\ \A f : HasFile(u, f) <=> HasFile(s, f)
  BY <1>2, Zenon DEF HasDirectory, HasFile
<1>6. UniqueNames(u)
  BY <1>1, <1>2, Zenon DEF IsTree, UniqueNames, EnsureAbsent, EntriesAt
<1>7. SingleParent(u)
  BY <1>1, <1>2, Zenon DEF IsTree, SingleParent
<1>8. NoDangling(u)
  <2>1. ASSUME NEW x \in u.entries
        PROVE  /\ HasDirectory(u, x.parent)
               /\ x.target # Root
               /\ x.target \in DirIds => HasDirectory(u, x.target)
               /\ x.target \in FileIds => HasFile(u, x.target)
    BY <1>1, <1>2, <1>5, Zenon DEF IsTree, NoDangling
  <2>2. \A f \in FileIds : HasFile(u, f) => \E x \in u.entries : x.target = f
    BY <1>1, <1>2, <1>5, Zenon DEF IsTree, NoDangling
  <2>3. \A y \in DirIds \ {Root} : HasDirectory(u, y) => \E x \in u.entries : x.target = y
    BY <1>1, <1>2, <1>5, Zenon DEF IsTree, NoDangling
  <2> QED
    BY <1>5, <2>1, <2>2, <2>3, Zenon DEF IsTree, NoDangling
<1>9. Acyclic(u)
  <2> SUFFICES ASSUME NEW S \in SUBSET (DirIds \ {Root}), S # {},
                      \A x \in S : HasDirectory(s, x)
               PROVE  \E x \in u.entries : x.target \in S /\ x.parent \notin S
    BY <1>5, Zenon DEF Acyclic
  <2>1. CASE e.target \notin S
    <3>1. PICK x \in s.entries : x.target \in S /\ x.parent \notin S
      BY Zenon DEF IsTree, Acyclic
    <3> QED
      BY <1>2, <2>1, <3>1, Zenon
  <2>2. CASE e.target \in S /\ d \notin S
    BY <1>1, <1>2, <2>2, Zenon
  <2>3. CASE e.target \in S /\ d \in S
    <3>1. PICK T \in SUBSET DirIds : d \in T /\ ParentClosed(s, T) /\ e.target \notin T
      BY <2>3, Zenon DEF IsDescendant
    <3>2. S \cap T \in SUBSET (DirIds \ {Root}) /\ S \cap T # {}
      BY <2>3, <3>1, Zenon
    <3>3. PICK x \in s.entries : x.target \in S \cap T /\ x.parent \notin S \cap T
      BY <3>2, Zenon DEF IsTree, Acyclic
    <3>4. x.parent \in T
      BY <3>1, <3>3, Zenon DEF ParentClosed
    <3>5. x # e
      BY <3>1, <3>3, Zenon
    <3> QED
      BY <1>2, <3>3, <3>4, <3>5, Zenon
  <2> QED
    BY <2>1, <2>2, <2>3, Zenon
<1>10. IsTree(u)
  BY <1>6, <1>7, <1>8, <1>9, Zenon DEF IsTree
<1> QED
  BY <1>3, <1>4, <1>10, TouchTree, Zenon

\* Taking out an entry together with what it names keeps the tree, when nothing
\* is below it.
LEMMA RemoveEntryTree ==
  ASSUME NEW s \in Snapshots, IsTree(s), NEW e \in s.entries, NEW t \in Snapshots,
         t.entries = s.entries,
         \A x \in s.entries : x.parent # e.target,
         \A x \in DirIds : HasDirectory(t, x) <=> (HasDirectory(s, x) /\ x # e.target),
         \A f \in FileIds : HasFile(t, f) <=> (HasFile(s, f) /\ f # e.target)
  PROVE  IsTree(RemoveEntry(t, e))
<1> DEFINE u == [t EXCEPT !.entries = @ \ {e}]
<1>0. s.entries \in SUBSET NamespaceEntry
  BY Zenon DEF Snapshots
<1>1. u \in Snapshots /\ u.entries = s.entries \ {e}
        /\ u.directories = t.directories /\ u.files = t.files
  BY Zenon DEF Snapshots
<1> HIDE DEF u
<1>2. /\ \A x \in DirIds : HasDirectory(u, x) <=> (HasDirectory(s, x) /\ x # e.target)
      /\ \A f \in FileIds : HasFile(u, f) <=> (HasFile(s, f) /\ f # e.target)
  BY <1>1, Zenon DEF HasDirectory, HasFile
<1>3. UniqueNames(u) /\ SingleParent(u)
  BY <1>1, Zenon DEF IsTree, UniqueNames, SingleParent
<1>4. NoDangling(u)
  <2>1. HasDirectory(u, Root)
    BY <1>2, IdsAssumption, Zenon DEF IsTree, NoDangling
  <2>2. ASSUME NEW x \in u.entries
        PROVE  /\ HasDirectory(u, x.parent)
               /\ x.target # Root
               /\ x.target \in DirIds => HasDirectory(u, x.target)
               /\ x.target \in FileIds => HasFile(u, x.target)
    <3>1. x \in s.entries /\ x # e /\ x.parent \in DirIds
      BY <1>0, <1>1, Zenon DEF NamespaceEntry
    <3>2. x.target # e.target
      BY <3>1, Zenon DEF IsTree, SingleParent
    <3> QED
      BY <1>2, <3>1, <3>2, Zenon DEF IsTree, NoDangling
  <2>3. \A f \in FileIds : HasFile(u, f) => \E x \in u.entries : x.target = f
    BY <1>1, <1>2, Zenon DEF IsTree, NoDangling
  <2>4. \A y \in DirIds \ {Root} : HasDirectory(u, y) => \E x \in u.entries : x.target = y
    BY <1>1, <1>2, Zenon DEF IsTree, NoDangling
  <2> QED
    BY <2>1, <2>2, <2>3, <2>4, Zenon DEF NoDangling
<1>5. Acyclic(u)
  <2> SUFFICES ASSUME NEW S \in SUBSET (DirIds \ {Root}), S # {},
                      \A x \in S : HasDirectory(u, x)
               PROVE  \E x \in u.entries : x.target \in S /\ x.parent \notin S
    BY Zenon DEF Acyclic
  <2>1. PICK x \in s.entries : x.target \in S /\ x.parent \notin S
    BY <1>2, Zenon DEF IsTree, Acyclic
  <2> QED
    BY <1>1, <1>2, <2>1, Zenon
<1>6. IsTree(u)
  BY <1>3, <1>4, <1>5, Zenon DEF IsTree
<1> QED
  BY <1>1, <1>6, TouchTree, Zenon DEF RemoveEntry, u

\* remove of a file keeps the tree.
LEMMA RemoveFileTree ==
  ASSUME NEW s \in Snapshots, IsTree(s), NEW e \in s.entries, e.target \in FileIds
  PROVE  IsTree(RemoveFile(s, e))
<1> DEFINE t == [s EXCEPT !.files[e.target] = NoFile]
           u == DropReference(t, s.files[e.target].manifest)
<1>0. s.entries \in SUBSET NamespaceEntry
  BY Zenon DEF Snapshots
<1>1. t \in Snapshots
  BY Zenon DEF Snapshots, NoFile, FileMetadata
<1>2. t.entries = s.entries /\ t.directories = s.directories
  BY Zenon DEF Snapshots
<1>3. \A f \in FileIds : HasFile(t, f) <=> (HasFile(s, f) /\ f # e.target)
  BY DEF Snapshots, HasFile, NoFile
<1>4. s.files[e.target].manifest \in ContentIds \cup {NoContent}
  BY Zenon DEF Snapshots, FileMetadata
<1> HIDE DEF t
<1>5. u \in Snapshots
  BY <1>1, <1>4, DropReferenceType, Zenon
<1>6. u.entries = s.entries /\ u.directories = s.directories /\ u.files = t.files
  BY <1>1, <1>2, DropReferenceFrame, Zenon
<1> HIDE DEF u
<1>7. \A x \in DirIds : HasDirectory(u, x) <=> (HasDirectory(s, x) /\ x # e.target)
  BY <1>6, IdsAssumption, Zenon DEF HasDirectory
<1>8. \A f \in FileIds : HasFile(u, f) <=> (HasFile(s, f) /\ f # e.target)
  BY <1>3, <1>6, Zenon DEF HasFile
<1>9. \A x \in s.entries : x.parent # e.target
  BY <1>0, IdsAssumption, Zenon DEF NamespaceEntry
<1>10. IsTree(RemoveEntry(u, e))
  BY <1>5, <1>6, <1>7, <1>8, <1>9, RemoveEntryTree, Zenon
<1> QED
  BY <1>10, Zenon DEF RemoveFile, u, t

\* remove of an empty directory keeps the tree.
LEMMA RemoveDirectoryTree ==
  ASSUME NEW s \in Snapshots, IsTree(s), NEW e \in s.entries, e.target \in DirIds,
         \A x \in s.entries : x.parent # e.target
  PROVE  IsTree(RemoveDirectory(s, e))
<1> DEFINE t == [s EXCEPT !.directories[e.target] = 0]
<1>1. t \in Snapshots
  BY Zenon DEF Snapshots
<1>2. t.entries = s.entries /\ t.files = s.files
  BY Zenon DEF Snapshots
<1>3. \A x \in DirIds : HasDirectory(t, x) <=> (HasDirectory(s, x) /\ x # e.target)
  BY DEF Snapshots, HasDirectory
<1> HIDE DEF t
<1>4. \A f \in FileIds : HasFile(t, f) <=> (HasFile(s, f) /\ f # e.target)
  BY <1>2, IdsAssumption, Zenon DEF HasFile
<1>5. IsTree(RemoveEntry(t, e))
  BY <1>1, <1>2, <1>3, <1>4, RemoveEntryTree, Zenon
<1> QED
  BY <1>5, Zenon DEF RemoveDirectory, t

\* The commit of write does not touch the tree.
LEMMA CommitWriteTree ==
  ASSUME NEW s \in Snapshots, IsTree(s), NEW f \in FileIds, HasFile(s, f),
         NEW c \in ContentIds, NEW n \in Nodes
  PROVE  IsTree(CommitWrite(s, f, c, n))
<1> DEFINE w == [s EXCEPT !.files[f] = [generation |-> @.generation + 1, manifest |-> c],
                          !.placements[c] = @ \cup {n},
                          !.retentions[c] = "LiveReference"]
           t == CommitWrite(s, f, c, n)
<1>1. w.entries = s.entries /\ w.directories = s.directories
        /\ w.files = [s.files EXCEPT ![f] = [generation |-> @.generation + 1, manifest |-> c]]
  BY Zenon DEF Snapshots
<1>2. t.entries = w.entries /\ t.directories = w.directories /\ t.files = w.files
  BY Zenon DEF CommitWrite, DropReference, Snapshots
<1>3. \A x : HasDirectory(t, x) <=> HasDirectory(s, x)
  BY <1>1, <1>2, Zenon DEF HasDirectory
<1>4. \A g \in FileIds : HasFile(t, g) <=> HasFile(s, g)
  BY <1>1, <1>2 DEF HasFile, Snapshots, FileMetadata
<1> QED
  BY <1>1, <1>2, <1>3, <1>4, CommitWriteType, TreeOfSameShape, Zenon

\* Every metadata operation turns a tree into a tree.
LEMMA EffectTree ==
  ASSUME NEW s \in Snapshots, IsTree(s), NEW o \in Calls \cup {Idle}, NEW f,
         Fresh(s, o), NEW t \in Effect(s, o, f)
  PROVE  IsTree(t)
<1>0. ASSUME NEW at \in Paths, NEW d \in Vacant(s, at)
      PROVE  /\ d \in DirIds /\ HasDirectory(s, d)
             /\ EnsureAbsent(s, d, at.name) /\ at.name \in Names
  BY IdsAssumption, ResolvedExists, Zenon DEF Vacant
<1>1. CASE o \in Mkdirs
  <2>1. PICK d \in Vacant(s, o.at) : t = Touch(AddDirectory(s, d, o.at.name, o.id), {d})
    BY <1>1, Zenon DEF Mkdirs, Effect, Mkdir
  <2>2. o.at \in Paths /\ o.id \in DirIds /\ ~HasDirectory(s, o.id)
    BY <1>1, Zenon DEF Mkdirs, Fresh
  <2>3. AddDirectory(s, d, o.at.name, o.id) \in Snapshots
    BY <1>0, <2>1, <2>2, AddDirectoryType, Zenon
  <2>4. IsTree(AddDirectory(s, d, o.at.name, o.id))
    BY <1>0, <2>1, <2>2, <2>3, AddDirectoryTree, Zenon
  <2> QED
    BY <2>1, <2>3, <2>4, TouchTree, Zenon
<1>2. CASE o \in Creates
  <2>1. PICK d \in Vacant(s, o.at) : t = Touch(AddFile(s, d, o.at.name, o.id), {d})
    BY <1>2, Zenon DEF Creates, Effect, Create
  <2>2. o.at \in Paths /\ o.id \in FileIds /\ ~HasFile(s, o.id)
    BY <1>2, Zenon DEF Creates, Fresh
  <2>3. AddFile(s, d, o.at.name, o.id) \in Snapshots
    BY <1>0, <2>1, <2>2, AddFileType, Zenon
  <2>4. IsTree(AddFile(s, d, o.at.name, o.id))
    BY <1>0, <2>1, <2>2, AddFileTree, Zenon
  <2> QED
    BY <2>1, <2>3, <2>4, TouchTree, Zenon
<1>3. CASE o \in Renames
  <2>1. PICK e \in s.entries, d \in Vacant(s, o.to) :
          MoveAllowed(s, e, o.from, d) /\ t = MoveEntry(s, e, d, o.to.name)
    BY <1>3, Zenon DEF Renames, Effect, Rename
  <2>2. o.to \in Paths /\ t \in Snapshots
    BY <1>3, EffectType, Zenon DEF Renames
  <2> QED
    BY <1>0, <2>1, <2>2, MoveEntryTree, Zenon DEF MoveAllowed
<1>4. CASE o \in Removes
  BY <1>4, RemoveFileTree, RemoveDirectoryTree, Zenon DEF Removes, Effect, Remove
<1>5. CASE o \in Writes
  BY <1>5, CommitWriteTree DEF Writes, Effect
<1>6. CASE o = Idle
  BY <1>6, Zenon DEF Idle, Effect
<1> QED
  BY <1>1, <1>2, <1>3, <1>4, <1>5, <1>6, Zenon DEF Calls

-----------------------------------------------------------------------------
(* Retention *)

\* What the files refer to, after a change of one file.
LEMMA DropReferenceAgrees ==
  ASSUME NEW s \in Snapshots, NEW c \in ContentIds \cup {NoContent},
         \A x \in ContentIds : IsContentLiveReferenced(s, x) =>
           /\ s.retentions[x] = "LiveReference"
           /\ s.placements[x] # {},
         \A x \in ContentIds \ {c} :
           s.retentions[x] = "LiveReference" => IsContentLiveReferenced(s, x)
  PROVE  RetentionsAgree(DropReference(s, c))
<1> DEFINE t == DropReference(s, c)
<1>1. t.files = s.files /\ t.placements = s.placements
  BY DropReferenceFrame, Zenon
<1>2. \A x : IsContentLiveReferenced(t, x) <=> IsContentLiveReferenced(s, x)
  BY <1>1, Zenon DEF IsContentLiveReferenced
<1>3. \A x \in ContentIds : x # c => t.retentions[x] = s.retentions[x]
  BY DEF DropReference, Snapshots
<1>4. c \in ContentIds =>
        t.retentions[c] = "LiveReference" <=> IsContentLiveReferenced(s, c)
  <2>1. CASE c \in ContentIds /\ ~IsContentLiveReferenced(s, c) /\ s.retentions[c] # "Snapshot"
    BY <2>1, IdsAssumption, Zenon DEF DropReference, Snapshots
  <2>2. CASE c \in ContentIds /\ ~IsContentLiveReferenced(s, c) /\ s.retentions[c] = "Snapshot"
    BY <2>2, Zenon DEF DropReference
  <2>3. CASE c \in ContentIds /\ IsContentLiveReferenced(s, c)
    BY <2>3, Zenon DEF DropReference
  <2> QED
    BY <2>1, <2>2, <2>3, Zenon
<1> HIDE DEF t
<1> QED
  BY <1>1, <1>2, <1>3, <1>4, Zenon DEF RetentionsAgree, t

\* The records of a snapshot agree when those of another do and nothing they
\* are about differs.
LEMMA AgreesWithSameFiles ==
  ASSUME NEW s, NEW t, RetentionsAgree(s), AbsentFilesEmpty(s),
         t.files = s.files, t.placements = s.placements, t.retentions = s.retentions
  PROVE  RetentionsAgree(t) /\ AbsentFilesEmpty(t)
BY DEF RetentionsAgree, AbsentFilesEmpty, IsContentLiveReferenced, HasFile

\* create refers to nothing.
LEMMA AddFileAgrees ==
  ASSUME NEW s \in Snapshots, RetentionsAgree(s), AbsentFilesEmpty(s), NEW d, NEW name,
         NEW id \in FileIds, ~HasFile(s, id)
  PROVE  RetentionsAgree(AddFile(s, d, name, id)) /\ AbsentFilesEmpty(AddFile(s, d, name, id))
<1> DEFINE t == AddFile(s, d, name, id)
<1>1. /\ t.placements = s.placements /\ t.retentions = s.retentions
      /\ t.files = [s.files EXCEPT ![id] = [generation |-> 1, manifest |-> NoContent]]
  BY Zenon DEF AddFile, Snapshots
<1>2. s.files \in [FileIds -> FileMetadata]
  BY Zenon DEF Snapshots
<1>3. s.files[id].manifest = NoContent
  BY DEF AbsentFilesEmpty, NoFile
<1> HIDE DEF t
<1>4. \A x \in ContentIds : IsContentLiveReferenced(t, x) <=> IsContentLiveReferenced(s, x)
  BY <1>1, <1>2, <1>3, IdsAssumption DEF IsContentLiveReferenced
<1>5. AbsentFilesEmpty(t)
  BY <1>1, <1>2 DEF AbsentFilesEmpty, HasFile
<1> QED
  BY <1>1, <1>4, <1>5, Zenon DEF RetentionsAgree, t

\* remove gives up one reference.
LEMMA RemoveFileAgrees ==
  ASSUME NEW s \in Snapshots, RetentionsAgree(s), AbsentFilesEmpty(s),
         NEW e \in s.entries, e.target \in FileIds
  PROVE  RetentionsAgree(RemoveFile(s, e)) /\ AbsentFilesEmpty(RemoveFile(s, e))
<1> DEFINE t == [s EXCEPT !.files[e.target] = NoFile]
           c == s.files[e.target].manifest
           u == DropReference(t, c)
           v == [u EXCEPT !.entries = @ \ {e}]
<1>1. t \in Snapshots /\ c \in ContentIds \cup {NoContent}
  BY Zenon DEF Snapshots, NoFile, FileMetadata
<1>2. /\ t.placements = s.placements /\ t.retentions = s.retentions
      /\ t.files = [s.files EXCEPT ![e.target] = NoFile]
      /\ s.files \in [FileIds -> FileMetadata]
  BY Zenon DEF Snapshots
<1> HIDE DEF t
<1>3. AbsentFilesEmpty(t)
  BY <1>2, Zenon DEF AbsentFilesEmpty, HasFile, NoFile
<1>4. \A x \in ContentIds : IsContentLiveReferenced(t, x) => IsContentLiveReferenced(s, x)
  BY <1>2, IdsAssumption DEF IsContentLiveReferenced, NoFile
<1>5. \A x \in ContentIds \ {c} : IsContentLiveReferenced(s, x) => IsContentLiveReferenced(t, x)
  BY <1>2, Zenon DEF IsContentLiveReferenced
<1> HIDE DEF c
<1>6. RetentionsAgree(u)
  BY <1>1, <1>2, <1>4, <1>5, DropReferenceAgrees DEF RetentionsAgree
<1>7. AbsentFilesEmpty(u)
  BY <1>1, <1>3, DropReferenceFrame, Zenon DEF AbsentFilesEmpty, HasFile
<1>8. u \in Snapshots
  BY <1>1, DropReferenceType, Zenon
<1> HIDE DEF u
<1>9. v \in Snapshots /\ v.files = u.files /\ v.placements = u.placements
        /\ v.retentions = u.retentions
  BY <1>8, Zenon DEF Snapshots
<1>10. RemoveFile(s, e) = Touch(v, {e.parent})
  BY Zenon DEF RemoveFile, RemoveEntry, v, u, t, c
<1> HIDE DEF v
<1> QED
  BY <1>6, <1>7, <1>9, <1>10, TouchFrame, AgreesWithSameFiles

\* write gives up one reference and takes another.
LEMMA CommitWriteAgrees ==
  ASSUME NEW s \in Snapshots, RetentionsAgree(s), AbsentFilesEmpty(s),
         NEW f \in FileIds, NEW c \in ContentIds, NEW n \in Nodes
  PROVE  RetentionsAgree(CommitWrite(s, f, c, n)) /\ AbsentFilesEmpty(CommitWrite(s, f, c, n))
<1> DEFINE w == [s EXCEPT !.files[f] = [generation |-> @.generation + 1, manifest |-> c],
                          !.placements[c] = @ \cup {n},
                          !.retentions[c] = "LiveReference"]
           old == s.files[f].manifest
<1>1. /\ w.files = [s.files EXCEPT ![f] = [generation |-> @.generation + 1, manifest |-> c]]
      /\ w.placements = [s.placements EXCEPT ![c] = @ \cup {n}]
      /\ w.retentions = [s.retentions EXCEPT ![c] = "LiveReference"]
  BY Zenon DEF Snapshots
<1>2. /\ s.files \in [FileIds -> [generation : Nat, manifest : ContentIds \cup {NoContent}]]
      /\ s.placements \in [ContentIds -> SUBSET Nodes]
      /\ s.retentions \in [ContentIds -> Retentions]
  BY Zenon DEF Snapshots, FileMetadata
<1>3. w \in Snapshots
  <2>1. w.files \in [FileIds -> FileMetadata]
    BY <1>1, <1>2 DEF FileMetadata
  <2>2. w.placements \in [ContentIds -> SUBSET Nodes]
    BY <1>1, <1>2
  <2>3. w.retentions \in [ContentIds -> Retentions]
    BY <1>1, <1>2 DEF Retentions
  <2> QED
    BY <2>1, <2>2, <2>3, Zenon DEF Snapshots
<1>4. CommitWrite(s, f, c, n) = DropReference(w, old)
  BY Zenon DEF CommitWrite
<1> HIDE DEF w
<1>5. AbsentFilesEmpty(w)
  <2> SUFFICES ASSUME NEW g \in FileIds, ~HasFile(w, g) PROVE w.files[g] = NoFile
    BY Zenon DEF AbsentFilesEmpty
  <2>1. g # f
    BY <1>1, <1>2 DEF HasFile
  <2>2. w.files[g] = s.files[g]
    BY <1>1, <1>2, <2>1, Zenon
  <2> QED
    BY <2>2, Zenon DEF HasFile, AbsentFilesEmpty
<1>6. old \in ContentIds \cup {NoContent}
  BY <1>2, Zenon
<1>7. IsContentLiveReferenced(w, c) /\ w.retentions[c] = "LiveReference"
        /\ w.placements[c] # {}
  <2>1. IsContentLiveReferenced(w, c) /\ w.retentions[c] = "LiveReference"
    BY <1>1, <1>2 DEF IsContentLiveReferenced
  <2>2. n \in w.placements[c]
    BY <1>1, <1>2
  <2> QED
    BY <2>1, <2>2, Zenon
<1>8. \A x \in ContentIds \ {c} :
        /\ IsContentLiveReferenced(w, x) => IsContentLiveReferenced(s, x)
        /\ x # old => (IsContentLiveReferenced(s, x) => IsContentLiveReferenced(w, x))
        /\ w.retentions[x] = s.retentions[x]
        /\ w.placements[x] = s.placements[x]
  BY <1>1, <1>2 DEF IsContentLiveReferenced
<1> HIDE DEF old
<1>9. RetentionsAgree(DropReference(w, old))
  <2>1. \A x \in ContentIds : IsContentLiveReferenced(w, x) =>
           /\ w.retentions[x] = "LiveReference"
           /\ w.placements[x] # {}
    BY <1>7, <1>8, Zenon DEF RetentionsAgree
  <2>2. \A x \in ContentIds \ {old} :
           w.retentions[x] = "LiveReference" => IsContentLiveReferenced(w, x)
    BY <1>7, <1>8, Zenon DEF RetentionsAgree
  <2> QED
    BY <1>3, <1>6, <2>1, <2>2, DropReferenceAgrees, Zenon
<1>10. AbsentFilesEmpty(DropReference(w, old))
  BY <1>3, <1>5, DropReferenceFrame, Zenon DEF AbsentFilesEmpty, HasFile
<1> QED
  BY <1>4, <1>9, <1>10, Zenon

\* Every metadata operation keeps the retention records in step with the files.
LEMMA EffectAgrees ==
  ASSUME NEW s \in Snapshots, RetentionsAgree(s), AbsentFilesEmpty(s),
         NEW o \in Calls \cup {Idle}, NEW f, Fresh(s, o), NEW t \in Effect(s, o, f)
  PROVE  RetentionsAgree(t) /\ AbsentFilesEmpty(t)
<1>1. CASE o \in Mkdirs
  <2>1. PICK d \in Vacant(s, o.at) : t = Touch(AddDirectory(s, d, o.at.name, o.id), {d})
    BY <1>1, Zenon DEF Mkdirs, Effect, Mkdir
  <2> DEFINE u == AddDirectory(s, d, o.at.name, o.id)
  <2>2. u \in Snapshots
    BY <1>1, <2>1, VacantType, AddDirectoryType, Zenon DEF Mkdirs
  <2>3. u.files = s.files /\ u.placements = s.placements /\ u.retentions = s.retentions
    BY Zenon DEF AddDirectory, Snapshots
  <2> QED
    BY <2>1, <2>2, <2>3, TouchFrame, AgreesWithSameFiles
<1>2. CASE o \in Creates
  <2>1. PICK d \in Vacant(s, o.at) : t = Touch(AddFile(s, d, o.at.name, o.id), {d})
    BY <1>2, Zenon DEF Creates, Effect, Create
  <2> DEFINE u == AddFile(s, d, o.at.name, o.id)
  <2>2. u \in Snapshots
    BY <1>2, <2>1, VacantType, AddFileType, Zenon DEF Creates
  <2>3. RetentionsAgree(u) /\ AbsentFilesEmpty(u)
    BY <1>2, AddFileAgrees, Zenon DEF Creates, Fresh
  <2> HIDE DEF u
  <2> QED
    BY <2>1, <2>2, <2>3, TouchFrame, AgreesWithSameFiles DEF u
<1>3. CASE o \in Renames
  <2>1. PICK e \in s.entries, d \in Vacant(s, o.to) : t = MoveEntry(s, e, d, o.to.name)
    BY <1>3, Zenon DEF Renames, Effect, Rename
  <2>2. t.files = s.files /\ t.placements = s.placements /\ t.retentions = s.retentions
    BY <2>1, Zenon DEF MoveEntry, Touch, Snapshots
  <2> QED
    BY <2>2, AgreesWithSameFiles, Zenon
<1>4. CASE o \in Removes
  <2>1. ASSUME NEW e \in s.entries, t = RemoveDirectory(s, e)
        PROVE  t.files = s.files /\ t.placements = s.placements /\ t.retentions = s.retentions
    BY <2>1, Zenon DEF RemoveDirectory, RemoveEntry, Touch, Snapshots
  <2> QED
    BY <1>4, <2>1, RemoveFileAgrees, AgreesWithSameFiles, Zenon DEF Removes, Effect, Remove
<1>5. CASE o \in Writes
  BY <1>5, CommitWriteAgrees DEF Writes, Effect
<1>6. CASE o = Idle
  BY <1>6, Zenon DEF Idle, Effect
<1> QED
  BY <1>1, <1>2, <1>3, <1>4, <1>5, <1>6, Zenon DEF Calls

-----------------------------------------------------------------------------
(* Generations *)

\* A file keeps its version, goes away, gets its next generation, or is the one
\* that create inserts.
LEMMA EffectFiles ==
  ASSUME NEW s \in Snapshots, NEW o \in Calls \cup {Idle}, NEW f,
         NEW t \in Effect(s, o, f), NEW g \in FileIds
  PROVE  \/ t.files[g] = s.files[g]
         \/ t.files[g].generation = 0
         \/ t.files[g].generation = s.files[g].generation + 1 /\ HasFile(s, g)
         \/ o.kind = "create" /\ g = o.id
<1>1. CASE o \in Mkdirs
  <2>1. PICK d \in Vacant(s, o.at) : t = Touch(AddDirectory(s, d, o.at.name, o.id), {d})
    BY <1>1, Zenon DEF Mkdirs, Effect, Mkdir
  <2> QED
    BY <2>1, Zenon DEF Touch, AddDirectory, Snapshots
<1>2. CASE o \in Creates
  <2>1. PICK d \in Vacant(s, o.at) : t = Touch(AddFile(s, d, o.at.name, o.id), {d})
    BY <1>2, Zenon DEF Creates, Effect, Create
  <2>2. t.files = [s.files EXCEPT ![o.id] = [generation |-> 1, manifest |-> NoContent]]
    BY <2>1, Zenon DEF Touch, AddFile, Snapshots
  <2> QED
    BY <1>2, <2>2, Zenon DEF Creates, Snapshots
<1>3. CASE o \in Renames
  <2>1. PICK e \in s.entries, d \in Vacant(s, o.to) : t = MoveEntry(s, e, d, o.to.name)
    BY <1>3, Zenon DEF Renames, Effect, Rename
  <2> QED
    BY <2>1, Zenon DEF MoveEntry, Touch, Snapshots
<1>4. CASE o \in Removes
  <2>1. ASSUME NEW e \in s.entries, e.target \in FileIds, t = RemoveFile(s, e)
        PROVE  t.files = [s.files EXCEPT ![e.target] = NoFile]
    BY <2>1, Zenon DEF RemoveFile, RemoveEntry, DropReference, Touch, Snapshots
  <2>2. ASSUME NEW e \in s.entries, t = RemoveDirectory(s, e)
        PROVE  t.files = s.files
    BY <2>2, Zenon DEF RemoveDirectory, RemoveEntry, Touch, Snapshots
  <2>3. \/ t.files = s.files
        \/ \E h \in FileIds : t.files = [s.files EXCEPT ![h] = NoFile]
    BY <1>4, <2>1, <2>2, Zenon DEF Removes, Effect, Remove
  <2>4. s.files \in [FileIds -> FileMetadata] /\ NoFile.generation = 0
    BY Zenon DEF NoFile, Snapshots
  <2>5. CASE t.files = s.files
    BY <2>5, Zenon
  <2>6. ASSUME NEW h \in FileIds, t.files = [s.files EXCEPT ![h] = NoFile]
        PROVE  t.files[g] = s.files[g] \/ t.files[g].generation = 0
    <3>1. t.files[g] = IF g = h THEN NoFile ELSE s.files[g]
      BY <2>4, <2>6, Zenon
    <3> QED
      BY <2>4, <3>1, Zenon
  <2> QED
    BY <2>3, <2>5, <2>6, Zenon
<1>5. CASE o \in Writes
  <2>1. PICK h \in FileIds : HasFile(s, h) /\ t = CommitWrite(s, h, o.content, o.node)
    BY <1>5, Zenon DEF Writes, Effect
  <2>2. t.files = [s.files EXCEPT ![h] = [generation |-> @.generation + 1,
                                          manifest |-> o.content]]
    BY <2>1, Zenon DEF CommitWrite, DropReference, Snapshots
  <2> QED
    BY <2>1, <2>2 DEF Snapshots
<1>6. CASE o = Idle
  BY <1>6, Zenon DEF Idle, Effect
<1> QED
  BY <1>1, <1>2, <1>3, <1>4, <1>5, <1>6, Zenon DEF Calls

\* A directory whose listing changes gets a higher generation, or is gone.
LEMMA EffectListings ==
  ASSUME NEW s \in Snapshots, IsTree(s), NEW o \in Calls \cup {Idle}, NEW f,
         Fresh(s, o), NEW t \in Effect(s, o, f), NEW x \in DirIds,
         Listing(t, x) # Listing(s, x)
  PROVE  t.directories[x] > s.directories[x] \/ t.directories[x] = 0
<1>0. ASSUME NEW at \in Paths, NEW d \in Vacant(s, at)
      PROVE  d \in DirIds /\ s.directories[d] > 0
  BY IdsAssumption, ResolvedExists, Zenon DEF Vacant, HasDirectory
<1>1. ASSUME NEW e \in s.entries PROVE e.parent \in DirIds /\ s.directories[e.parent] > 0
  BY Zenon DEF IsTree, NoDangling, HasDirectory, Snapshots, NamespaceEntry
<1>2. CASE o \in Mkdirs
  <2>1. PICK d \in Vacant(s, o.at) : t = Touch(AddDirectory(s, d, o.at.name, o.id), {d})
    BY <1>2, Zenon DEF Mkdirs, Effect, Mkdir
  <2> DEFINE new == [parent |-> d, name |-> o.at.name, target |-> o.id]
  <2>2. o.at \in Paths /\ o.id \in DirIds /\ d \in DirIds /\ s.directories[d] > 0
    BY <1>0, <1>2, <2>1, Zenon DEF Mkdirs
  <2>3. t.entries = s.entries \cup {new}
    BY <2>1, Zenon DEF Touch, AddDirectory, Snapshots
  <2>4. x = d
    BY <2>3 DEF Listing
  <2>5. t.directories[d] = s.directories[d] + 1
    <3>1. o.id # d
      BY <1>2, <2>2, Zenon DEF Fresh, Mkdirs, HasDirectory
    <3> QED
      BY <2>1, <2>2, <3>1, Zenon DEF Touch, AddDirectory, Snapshots
  <2> QED
    BY <2>2, <2>4, <2>5 DEF Snapshots
<1>3. CASE o \in Creates
  <2>1. PICK d \in Vacant(s, o.at) : t = Touch(AddFile(s, d, o.at.name, o.id), {d})
    BY <1>3, Zenon DEF Creates, Effect, Create
  <2> DEFINE new == [parent |-> d, name |-> o.at.name, target |-> o.id]
  <2>2. o.at \in Paths /\ d \in DirIds /\ s.directories[d] > 0
    BY <1>0, <1>3, <2>1, Zenon DEF Creates
  <2>3. t.entries = s.entries \cup {new}
    BY <2>1, Zenon DEF Touch, AddFile, Snapshots
  <2>4. x = d
    BY <2>3 DEF Listing
  <2>5. t.directories[d] = s.directories[d] + 1
    BY <2>1, <2>2, Zenon DEF Touch, AddFile, Snapshots
  <2> QED
    BY <2>2, <2>4, <2>5 DEF Snapshots
<1>4. CASE o \in Renames
  <2>1. PICK e \in s.entries, d \in Vacant(s, o.to) : t = MoveEntry(s, e, d, o.to.name)
    BY <1>4, Zenon DEF Renames, Effect, Rename
  <2> DEFINE moved == [e EXCEPT !.parent = d, !.name = o.to.name]
  <2>2. d \in DirIds /\ s.directories[d] > 0
    BY <1>0, <1>4, <2>1, Zenon DEF Renames
  <2>3. t.entries = (s.entries \ {e}) \cup {moved} /\ moved.parent = d
    BY <2>1, Zenon DEF MoveEntry, Touch, Snapshots, NamespaceEntry
  <2> HIDE DEF moved
  <2>4. x \in {e.parent, d}
    BY <2>3, Zenon DEF Listing
  <2>5. t.directories[x] = s.directories[x] + 1
    BY <1>1, <2>1, <2>2, <2>4, Zenon DEF MoveEntry, Touch, Snapshots
  <2> QED
    BY <2>5 DEF Snapshots
<1>5. CASE o \in Removes
  <2>1. ASSUME NEW e \in s.entries, e.target \in FileIds, t = RemoveFile(s, e)
        PROVE  /\ t.entries = s.entries \ {e}
               /\ t.directories[e.parent] = s.directories[e.parent] + 1
    BY <1>1, <2>1, Zenon DEF RemoveFile, RemoveEntry, DropReference, Touch, Snapshots
  <2>2. ASSUME NEW e \in s.entries, e.target \in DirIds, t = RemoveDirectory(s, e)
        PROVE  /\ t.entries = s.entries \ {e}
               /\ \/ t.directories[e.parent] = s.directories[e.parent] + 1
                  \/ t.directories[e.parent] = 0
    BY <1>1, <2>2 DEF RemoveDirectory, RemoveEntry, Touch, Snapshots
  <2>3. PICK e \in s.entries : /\ t.entries = s.entries \ {e}
                               /\ \/ t.directories[e.parent] = s.directories[e.parent] + 1
                                  \/ t.directories[e.parent] = 0
    BY <1>5, <2>1, <2>2 DEF Removes, Effect, Remove
  <2>4. x = e.parent
    BY <2>3, Zenon DEF Listing
  <2> QED
    BY <2>3, <2>4 DEF Snapshots
<1>6. CASE o \in Writes
  <2>1. PICK h \in FileIds : t = CommitWrite(s, h, o.content, o.node)
    BY <1>6, Zenon DEF Writes, Effect
  <2>2. t.entries = s.entries
    BY <2>1, Zenon DEF CommitWrite, DropReference, Snapshots
  <2> QED
    BY <2>2, Zenon DEF Listing
<1>7. CASE o = Idle
  BY <1>7, Zenon DEF Idle, Effect
<1> QED
  BY <1>2, <1>3, <1>4, <1>5, <1>6, <1>7, Zenon DEF Calls

\* The only directory that comes into being is the one mkdir inserts.
LEMMA EffectDirectories ==
  ASSUME NEW s \in Snapshots, NEW o \in Calls \cup {Idle}, NEW f,
         NEW t \in Effect(s, o, f), NEW x \in DirIds, HasDirectory(t, x)
  PROVE  HasDirectory(s, x) \/ (o.kind = "mkdir" /\ x = o.id)
<1>1. CASE o \in Mkdirs
  <2>1. PICK d \in Vacant(s, o.at) : t = Touch(AddDirectory(s, d, o.at.name, o.id), {d})
    BY <1>1, Zenon DEF Mkdirs, Effect, Mkdir
  <2> QED
    BY <1>1, <2>1, Zenon DEF Touch, AddDirectory, Snapshots, Mkdirs, HasDirectory
<1>2. CASE o \in Creates
  <2>1. PICK d \in Vacant(s, o.at) : t = Touch(AddFile(s, d, o.at.name, o.id), {d})
    BY <1>2, Zenon DEF Creates, Effect, Create
  <2> QED
    BY <2>1, Zenon DEF Touch, AddFile, Snapshots, HasDirectory
<1>3. CASE o \in Renames
  <2>1. PICK e \in s.entries, d \in Vacant(s, o.to) : t = MoveEntry(s, e, d, o.to.name)
    BY <1>3, Zenon DEF Renames, Effect, Rename
  <2> QED
    BY <2>1, Zenon DEF MoveEntry, Touch, Snapshots, HasDirectory
<1>4. CASE o \in Removes
  <2>1. ASSUME NEW e \in s.entries, t = RemoveFile(s, e) PROVE HasDirectory(s, x)
    BY <2>1, Zenon DEF RemoveFile, RemoveEntry, DropReference, Touch, Snapshots, HasDirectory
  <2>2. ASSUME NEW e \in s.entries, t = RemoveDirectory(s, e) PROVE HasDirectory(s, x)
    BY <2>2 DEF RemoveDirectory, RemoveEntry, Touch, Snapshots, HasDirectory
  <2> QED
    BY <1>4, <2>1, <2>2, Zenon DEF Removes, Effect, Remove
<1>5. CASE o \in Writes
  <2>1. PICK h \in FileIds : t = CommitWrite(s, h, o.content, o.node)
    BY <1>5, Zenon DEF Writes, Effect
  <2> QED
    BY <2>1, Zenon DEF CommitWrite, DropReference, Snapshots, HasDirectory
<1>6. CASE o = Idle
  BY <1>6, Zenon DEF Idle, Effect
<1> QED
  BY <1>1, <1>2, <1>3, <1>4, <1>5, <1>6, Zenon DEF Calls

\* What write commits.
LEMMA EffectOfWrite ==
  ASSUME NEW s \in Snapshots, NEW o \in Writes, NEW f, NEW t \in Effect(s, o, f)
  PROVE  /\ f \in FileIds /\ HasFile(s, f)
         /\ t.files[f] = [generation |-> s.files[f].generation + 1, manifest |-> o.content]
<1>1. f \in FileIds /\ HasFile(s, f) /\ t = CommitWrite(s, f, o.content, o.node)
  BY Zenon DEF Writes, Effect
<1> QED
  BY <1>1, Zenon DEF CommitWrite, DropReference, Snapshots

\* The maintenance of placements touches nothing else, and keeps a well-formed
\* snapshot well formed.
LEMMA MaintainSound ==
  ASSUME NEW s \in Snapshots, NEW c \in ContentIds, NEW t \in MaintainPlacement(s, c)
  PROVE  /\ t \in Snapshots
         /\ t.directories = s.directories /\ t.files = s.files
         /\ t.entries = s.entries
         /\ IsTree(s) => IsTree(t)
         /\ RetentionsAgree(s) => RetentionsAgree(t)
         /\ AbsentFilesEmpty(s) => AbsentFilesEmpty(t)
<1>1. PICK N \in SUBSET Nodes : t = [s EXCEPT !.placements[c] = @ \cup N]
  <2>1. CASE t = s
    <3>1. s = [s EXCEPT !.placements[c] = @ \cup {}]
      BY Zenon DEF Snapshots
    <3> QED
      BY <2>1, <3>1, Zenon
  <2>2. CASE t # s
    <3>1. PICK n \in Nodes : t = [s EXCEPT !.placements[c] = @ \cup {n}]
      BY <2>2, Zenon DEF MaintainPlacement
    <3> QED
      BY <3>1, Zenon
  <2> QED
    BY <2>1, <2>2, Zenon
<1>2. /\ t.directories = s.directories /\ t.files = s.files
      /\ t.entries = s.entries /\ t.retentions = s.retentions
      /\ t.placements = [s.placements EXCEPT ![c] = @ \cup N]
      /\ s.placements \in [ContentIds -> SUBSET Nodes]
  BY <1>1, Zenon DEF Snapshots
<1>3. t \in Snapshots
  <2>1. t.placements \in [ContentIds -> SUBSET Nodes]
    BY <1>2, Zenon
  <2> QED
    BY <1>1, <1>2, <2>1, Zenon DEF Snapshots
<1>4. \A x \in ContentIds : s.placements[x] \in SUBSET t.placements[x]
  BY <1>2, Zenon
<1>5. RetentionsAgree(s) => RetentionsAgree(t)
  BY <1>2, <1>4 DEF RetentionsAgree, IsContentLiveReferenced
<1>6. IsTree(s) => IsTree(t)
  BY <1>2, Zenon DEF IsTree, UniqueNames, SingleParent, NoDangling, Acyclic, HasDirectory, HasFile
<1> QED
  BY <1>2, <1>3, <1>5, <1>6, Zenon DEF AbsentFilesEmpty, HasFile


-----------------------------------------------------------------------------
(* Types *)

\* The default snapshot is a snapshot.
LEMMA DefaultSnapshotType == DefaultSnapshot \in Snapshots
<1>1. NoFile \in FileMetadata
  BY Zenon DEF NoFile, FileMetadata
<1> QED
  BY <1>1, Zenon DEF DefaultSnapshot, Snapshots, Retentions

\* What a client's program counter says of its call.
CallState(c) ==
  /\ pc[c] = "idle" <=> op[c] = Idle
  /\ pc[c] = "load" => op[c].kind # "write"
  /\ pc[c] \in {"resolve", "write"} => op[c].kind = "write"
  /\ pc[c] \in {"idle", "load", "resolve"} => file[c] = Root
  /\ pc[c] = "write" => file[c] \in FileIds
  /\ pc[c] = "swap" /\ op[c].kind = "write" => file[c] \in FileIds
  /\ pc[c] = "swap" /\ op[c].kind # "write" => file[c] = Root

CallStates == \A c \in Clients : CallState(c)

\* A step of one client leaves the call state of the others.
LEMMA OthersKeepCallState ==
  ASSUME TypeOK, CallStates, NEW c \in Clients, CallState(c)',
         \A x \in Clients \ {c} : pc'[x] = pc[x] /\ op'[x] = op[x] /\ file'[x] = file[x]
  PROVE  CallStates'
BY DEF CallStates, CallState

\* Every step keeps the types.
LEMMA TypeStep ==
  ASSUME TypeOK, CallStates, [Next]_vars PROVE TypeOK' /\ CallStates'
<1>0. ASSUME NEW c \in Clients, NEW result \in {"ok", "error", "conflict", "unavailable"}, Return(c, result)
      PROVE  /\ pc' \in [Clients -> {"idle", "load", "resolve", "write", "swap"}]
             /\ op' \in [Clients -> Calls \cup {Idle}]
             /\ file' \in [Clients -> FileIds \cup {Root}]
             /\ replacement' \in [Clients -> Snapshots]
             /\ basis' \in [Clients -> Nat]
             /\ attempts' \in [Clients -> 0..(MaxAttempts - 1)]
             /\ began' \in [Clients -> Nat]
             /\ reply' \in [Clients -> {"none", "ok", "error", "conflict", "unavailable"}]
             /\ CallStates'
  <2>1. CallStates'
    <3>1. /\ \A x \in Clients \ {c} : pc'[x] = pc[x] /\ op'[x] = op[x] /\ file'[x] = file[x]
          /\ pc'[c] = "idle" /\ op'[c] = Idle /\ file'[c] = Root
      BY <1>0, Zenon DEF Return, TypeOK
    <3>2. CallState(c)'
      BY <3>1, Zenon DEF CallState
    <3> QED
      BY <3>1, <3>2, OthersKeepCallState, Zenon
  <2> QED
    BY <1>0, <2>1, DefaultSnapshotType, ClientAssumption DEF Return, TypeOK
<1>1. ASSUME NEW c \in Clients, NEW o \in Calls, Begin(c, o),
             issued' \in SUBSET (FileIds \cup DirIds)
      PROVE  TypeOK' /\ CallStates'
  <2>1. o.kind # "idle"
    BY Zenon DEF Calls, Mkdirs, Creates, Renames, Removes, Writes
  <2>2. /\ \A x \in Clients \ {c} : pc'[x] = pc[x] /\ op'[x] = op[x] /\ file'[x] = file[x]
        /\ pc'[c] = IF o.kind = "write" THEN "resolve" ELSE "load"
        /\ op'[c] = o /\ file'[c] = file[c] /\ pc[c] = "idle"
    BY <1>1, Zenon DEF Begin, TypeOK
  <2>3. CallState(c)'
    BY <2>1, <2>2 DEF CallStates, CallState, Idle
  <2>4. CallStates'
    BY <2>2, <2>3, OthersKeepCallState, Zenon
  <2> QED
    BY <1>1, <2>4, Zenon DEF Begin, TypeOK
<1>2. ASSUME NEW c \in Clients, CallMkdir(c) PROVE TypeOK' /\ CallStates'
  BY <1>1, <1>2, Zenon DEF CallMkdir, Mkdirs, Calls, TypeOK
<1>3. ASSUME NEW c \in Clients, CallCreate(c) PROVE TypeOK' /\ CallStates'
  BY <1>1, <1>3, Zenon DEF CallCreate, Creates, Calls, TypeOK
<1>4. ASSUME NEW c \in Clients, CallRename(c) PROVE TypeOK' /\ CallStates'
  BY <1>1, <1>4, Zenon DEF CallRename, Calls, TypeOK
<1>5. ASSUME NEW c \in Clients, CallRemove(c) PROVE TypeOK' /\ CallStates'
  BY <1>1, <1>5, Zenon DEF CallRemove, Calls, TypeOK
<1>6. ASSUME NEW c \in Clients, CallWrite(c) PROVE TypeOK' /\ CallStates'
  <2>1. seen[c] # NotSeen => seen[c].generation \in Nat
    BY Zenon DEF TypeOK, Seen
  <2> QED
    BY <1>1, <1>6, <2>1, Zenon DEF CallWrite, Writes, Calls, TypeOK
<1>7. ASSUME NEW c \in Clients, Stat(c) PROVE TypeOK' /\ CallStates'
  <2>1. PICK at \in Paths : \E f \in ResolveFile(metadata, at) :
          seen' = [seen EXCEPT ![c] =
                     [at |-> at, file |-> f,
                      generation |-> metadata.files[f].generation,
                      content |-> metadata.files[f].manifest]]
    BY <1>7, Zenon DEF Stat
  <2>2. PICK f \in FileIds :
          seen' = [seen EXCEPT ![c] =
                     [at |-> at, file |-> f,
                      generation |-> metadata.files[f].generation,
                      content |-> metadata.files[f].manifest]]
    BY <2>1, Zenon DEF ResolveFile
  <2>3. metadata.files[f].generation \in Nat
          /\ metadata.files[f].manifest \in ContentIds \cup {NoContent}
    BY <2>2, Zenon DEF TypeOK, Snapshots, FileMetadata
  <2>4. seen' \in [Clients -> Seen \cup {NotSeen}]
    BY <2>1, <2>2, <2>3, Zenon DEF TypeOK, Seen
  <2> QED
    BY <1>7, <2>4, Zenon DEF Stat, callVars, TypeOK, CallStates, CallState
<1>8. ASSUME NEW c \in Clients, ResolveAndPut(c) PROVE TypeOK' /\ CallStates'
  <2>1. CASE Return(c, "error")
    BY <1>0, <1>8, <2>1, Zenon DEF ResolveAndPut, TypeOK
  <2>2. CASE ~Return(c, "error")
    <3>1. PICK f \in ResolveFile(metadata, op[c].at) :
            /\ file' = [file EXCEPT ![c] = f]
            /\ pc' = [pc EXCEPT ![c] = "write"]
            /\ UNCHANGED <<op, replacement, basis, attempts, began, reply>>
      BY <1>8, <2>2, Zenon DEF ResolveAndPut
    <3>2. f \in FileIds
      BY Zenon DEF ResolveFile
    <3>3. CallStates'
      BY <1>8, <3>1, <3>2, Zenon DEF ResolveAndPut, CallStates, CallState, TypeOK
    <3> QED
      BY <1>8, <3>1, <3>2, <3>3, Zenon DEF ResolveAndPut, TypeOK
  <2> QED
    BY <2>1, <2>2, Zenon
<1>9. ASSUME NEW c \in Clients, NEW error \in {"error", "conflict", "unavailable"}, Prepare(c, error),
             pc[c] \in {"write", "load"}
      PROVE  TypeOK' /\ CallStates'
  <2>1. CASE Effect(metadata, op[c], file[c]) = {}
    BY <1>0, <1>9, <2>1, Zenon DEF Prepare, TypeOK
  <2>2. CASE Effect(metadata, op[c], file[c]) # {}
    <3>1. PICK r \in Effect(metadata, op[c], file[c]) :
            replacement' = [replacement EXCEPT ![c] = r]
      BY <1>9, <2>2, Zenon DEF Prepare
    <3>2. r \in Snapshots
      BY EffectType, Zenon DEF TypeOK
    <3>3. CallStates'
      BY <1>9, <2>2 DEF Prepare, CallStates, CallState, TypeOK
    <3> QED
      BY <1>9, <2>2, <3>1, <3>2, <3>3 DEF Prepare, TypeOK
  <2> QED
    BY <2>1, <2>2, Zenon
<1>10. ASSUME NEW c \in Clients, LoadAndWrite(c) PROVE TypeOK' /\ CallStates'
  BY <1>9, <1>10, Zenon DEF LoadAndWrite
<1>11. ASSUME NEW c \in Clients, LoadAndMutate(c) PROVE TypeOK' /\ CallStates'
  BY <1>9, <1>11, Zenon DEF LoadAndMutate
<1>12. ASSUME NEW c \in Clients, CompareAndSwap(c) PROVE TypeOK' /\ CallStates'
  <2>1. metadata' \in Snapshots /\ revision' \in Nat /\ issued' = issued
    BY <1>12 DEF CompareAndSwap, Install, TypeOK
  <2>2. ASSUME op[c].kind = "write" PROVE Committed(c) \in Seen
    <3>1. op[c].at \in Paths /\ op[c].content \in ContentIds
      BY <2>2 DEF TypeOK, Calls, Mkdirs, Creates, Renames, Removes, Writes, Idle
    <3>2. file[c] \in FileIds
      BY <1>12, <2>2, Zenon DEF CompareAndSwap, Install, CallStates, CallState
    <3>3. replacement[c].files[file[c]].generation \in Nat
      BY <3>2 DEF TypeOK, Snapshots, FileMetadata
    <3> QED
      BY <3>1, <3>2, <3>3, Zenon DEF Committed, Seen
  <2>3. seen' \in [Clients -> Seen \cup {NotSeen}]
    BY <1>12, <2>2, Zenon DEF CompareAndSwap, Install, TypeOK
  <2>4. Return(c, "ok")
    BY <1>12, Zenon DEF CompareAndSwap, Install
  <2> QED
    BY <1>0, <2>1, <2>3, <2>4, Zenon DEF TypeOK
<1>13. ASSUME NEW c \in Clients, SwapConflict(c) PROVE TypeOK' /\ CallStates'
  <2>1. CASE Return(c, "conflict")
    BY <1>0, <1>13, <2>1, Zenon DEF SwapConflict, TypeOK
  <2>2. CASE ~Return(c, "conflict")
    <3>1. /\ op[c].kind # "write" /\ attempts[c] + 1 < MaxAttempts
          /\ attempts' = [attempts EXCEPT ![c] = @ + 1]
          /\ pc' = [pc EXCEPT ![c] = "load"] /\ pc[c] = "swap"
          /\ UNCHANGED <<metadata, revision, issued, seen, op, file, replacement, basis,
                         began, reply>>
      BY <1>13, <2>2, Zenon DEF SwapConflict
    <3>2. attempts' \in [Clients -> 0..(MaxAttempts - 1)]
      BY <3>1, ClientAssumption DEF TypeOK
    <3>3. CallStates'
      BY <3>1 DEF CallStates, CallState, TypeOK
    <3> QED
      BY <3>1, <3>2, <3>3, Zenon DEF TypeOK
  <2> QED
    BY <2>1, <2>2, Zenon
<1>14. CASE Maintain
  <2>1. metadata' \in Snapshots /\ revision' \in Nat
    BY <1>14, MaintainSound DEF Maintain, TypeOK
  <2> QED
    BY <1>14, <2>1, Zenon DEF Maintain, TypeOK, CallStates, CallState
<1>16. ASSUME NEW c \in Clients, LoadFails(c) PROVE TypeOK' /\ CallStates'
  BY <1>0, <1>16, Zenon DEF LoadFails, TypeOK
<1>17. ASSUME NEW c \in Clients, SwapFails(c) PROVE TypeOK' /\ CallStates'
  <2>1. metadata' \in Snapshots /\ revision' \in Nat /\ issued' = issued /\ seen' = seen
    BY <1>17 DEF SwapFails, Install, TypeOK
  <2>2. Return(c, "unavailable")
    BY <1>17, Zenon DEF SwapFails
  <2> QED
    BY <1>0, <2>1, <2>2, Zenon DEF TypeOK
<1>15. CASE UNCHANGED vars
  BY <1>15, Zenon DEF vars, TypeOK, CallStates, CallState
<1> QED
  BY <1>2, <1>3, <1>4, <1>5, <1>6, <1>7, <1>8, <1>10, <1>11, <1>12, <1>13, <1>14, <1>15, <1>16,
     <1>17, Zenon
     DEF Next, ClientStep

-----------------------------------------------------------------------------
(* The kinds of steps *)

\* The other clients' calls stay as they are.
OthersKeep(c) ==
  \A x \in Clients \ {c} :
    /\ pc'[x] = pc[x] /\ op'[x] = op[x] /\ file'[x] = file[x]
    /\ replacement'[x] = replacement[x] /\ basis'[x] = basis[x]
    /\ attempts'[x] = attempts[x] /\ began'[x] = began[x] /\ seen'[x] = seen[x]

NewId(o) == IF o.kind \in {"mkdir", "create"} THEN {o.id} ELSE {}

\* A call begins.
CallStep(c) ==
  /\ op[c] = Idle /\ op'[c] \in Calls /\ pc'[c] # "swap"
  /\ NewId(op'[c]) \cap issued = {} /\ issued' = issued \cup NewId(op'[c])
  /\ UNCHANGED <<metadata, revision, seen>>

\* A stat returns.
SeeStep(c) ==
  /\ \E at \in Paths : \E f \in ResolveFile(metadata, at) :
       seen'[c] = [at |-> at, file |-> f,
                   generation |-> metadata.files[f].generation,
                   content |-> metadata.files[f].manifest]
  /\ pc'[c] = pc[c] /\ pc[c] = "idle" /\ op'[c] = op[c]
  /\ UNCHANGED <<metadata, revision, issued>>

\* A call goes on or fails, with no effect on the store.
InnerStep(c) ==
  /\ pc'[c] = "swap" => /\ basis'[c] = revision /\ op'[c] = op[c]
                        /\ replacement'[c] \in Effect(metadata, op[c], file'[c])
  /\ op'[c] \in {op[c], Idle}
  /\ UNCHANGED <<metadata, revision, issued, seen>>

\* A swap takes effect; the call returns Ok, or an error that came after.
Commit(c) ==
  /\ pc[c] = "swap" /\ Install(c)
  /\ \/ seen' = seen
     \/ op[c].kind = "write" /\ seen' = [seen EXCEPT ![c] = Committed(c)]
  /\ Return(c, "ok") \/ Return(c, "unavailable")
  /\ UNCHANGED issued

\* A swap that succeeds is one.
LEMMA SwapCommits ==
  ASSUME NEW c, CompareAndSwap(c) PROVE Commit(c)
BY Zenon DEF CompareAndSwap, Commit

\* Every step of a client is one of these, or no step.
LEMMA StepCases ==
  ASSUME TypeOK, CallStates, ClientStep
  PROVE  \E c \in Clients : /\ OthersKeep(c)
                            /\ CallStep(c) \/ SeeStep(c) \/ InnerStep(c) \/ Commit(c)
<1>0. ASSUME NEW c \in Clients, NEW result, Return(c, result), seen' = seen
      PROVE  OthersKeep(c) /\ pc'[c] = "idle" /\ op'[c] = Idle
  BY <1>0, Zenon DEF Return, OthersKeep, TypeOK
<1>1. ASSUME NEW c \in Clients, NEW o \in Calls, Begin(c, o),
             NewId(o) \cap issued = {}, issued' = issued \cup NewId(o)
      PROVE  OthersKeep(c) /\ CallStep(c)
  <2>1. op'[c] = o /\ pc'[c] # "swap" /\ op[c] = Idle
    BY <1>1, Zenon DEF Begin, CallStates, CallState, TypeOK
  <2>2. OthersKeep(c)
    BY <1>1, Zenon DEF Begin, OthersKeep, TypeOK
  <2> QED
    BY <1>1, <2>1, <2>2, Zenon DEF Begin, CallStep
<1>2. ASSUME NEW c \in Clients, CallMkdir(c) PROVE OthersKeep(c) /\ CallStep(c)
  <2>1. \A o \in Mkdirs : o \in Calls /\ NewId(o) = {o.id}
    BY Zenon DEF Mkdirs, Calls, NewId
  <2> QED
    BY <1>1, <1>2, <2>1, Zenon DEF CallMkdir
<1>3. ASSUME NEW c \in Clients, CallCreate(c) PROVE OthersKeep(c) /\ CallStep(c)
  <2>1. \A o \in Creates : o \in Calls /\ NewId(o) = {o.id}
    BY Zenon DEF Creates, Calls, NewId
  <2> QED
    BY <1>1, <1>3, <2>1, Zenon DEF CallCreate
<1>4. ASSUME NEW c \in Clients, CallRename(c) PROVE OthersKeep(c) /\ CallStep(c)
  <2>1. \A o \in Renames : o \in Calls /\ NewId(o) = {}
    BY Zenon DEF Renames, Calls, NewId
  <2> QED
    BY <1>1, <1>4, <2>1, Zenon DEF CallRename
<1>5. ASSUME NEW c \in Clients, CallRemove(c) PROVE OthersKeep(c) /\ CallStep(c)
  <2>1. \A o \in Removes : o \in Calls /\ NewId(o) = {}
    BY Zenon DEF Removes, Calls, NewId
  <2> QED
    BY <1>1, <1>5, <2>1, Zenon DEF CallRemove
<1>6. ASSUME NEW c \in Clients, CallWrite(c) PROVE OthersKeep(c) /\ CallStep(c)
  <2>1. \A o \in Writes : o \in Calls /\ NewId(o) = {}
    BY Zenon DEF Writes, Calls, NewId
  <2>2. PICK at \in Paths, content \in ContentIds, node \in Nodes, supplied \in BOOLEAN :
          /\ supplied => seen[c] # NotSeen
          /\ Begin(c, [kind |-> "write", at |-> at, content |-> content, node |-> node,
                       expected |-> IF supplied THEN seen[c].generation ELSE 0])
          /\ UNCHANGED issued
    BY <1>6, Zenon DEF CallWrite
  <2>3. (IF supplied THEN seen[c].generation ELSE 0) \in Nat
    BY <2>2, Zenon DEF TypeOK, Seen
  <2>4. [kind |-> "write", at |-> at, content |-> content, node |-> node,
         expected |-> IF supplied THEN seen[c].generation ELSE 0] \in Writes
    BY <2>3, Zenon DEF Writes
  <2> QED
    BY <1>1, <2>1, <2>2, <2>4, Zenon
<1>7. ASSUME NEW c \in Clients, Stat(c) PROVE OthersKeep(c) /\ SeeStep(c)
  BY <1>7 DEF Stat, callVars, OthersKeep, SeeStep, TypeOK
<1>8. ASSUME NEW c \in Clients, ResolveAndPut(c) PROVE OthersKeep(c) /\ InnerStep(c)
  <2>1. CASE Return(c, "error")
    BY <1>0, <1>8, <2>1, Zenon DEF ResolveAndPut, InnerStep
  <2>2. CASE ~Return(c, "error")
    BY <1>8, <2>2, Zenon DEF ResolveAndPut, InnerStep, OthersKeep, TypeOK
  <2> QED
    BY <2>1, <2>2, Zenon
<1>9. ASSUME NEW c \in Clients, NEW error, Prepare(c, error) PROVE OthersKeep(c) /\ InnerStep(c)
  <2>1. CASE Effect(metadata, op[c], file[c]) = {}
    BY <1>0, <1>9, <2>1, Zenon DEF Prepare, InnerStep
  <2>2. CASE Effect(metadata, op[c], file[c]) # {}
    <3>1. PICK r \in Effect(metadata, op[c], file[c]) :
            replacement' = [replacement EXCEPT ![c] = r]
      BY <1>9, <2>2, Zenon DEF Prepare
    <3> QED
      BY <1>9, <2>2, <3>1 DEF Prepare, InnerStep, OthersKeep, TypeOK
  <2> QED
    BY <2>1, <2>2, Zenon
<1>10. ASSUME NEW c \in Clients, LoadAndWrite(c) \/ LoadAndMutate(c)
       PROVE  OthersKeep(c) /\ InnerStep(c)
  BY <1>9, <1>10, Zenon DEF LoadAndWrite, LoadAndMutate
<1>11. ASSUME NEW c \in Clients, Commit(c) PROVE OthersKeep(c)
  BY <1>11, Zenon DEF Commit, Return, OthersKeep, TypeOK
<1>12. ASSUME NEW c \in Clients, SwapConflict(c) PROVE OthersKeep(c) /\ InnerStep(c)
  <2>1. CASE Return(c, "conflict")
    BY <1>0, <1>12, <2>1, Zenon DEF SwapConflict, InnerStep
  <2>2. CASE ~Return(c, "conflict")
    BY <1>12, <2>2, Zenon DEF SwapConflict, InnerStep, OthersKeep, TypeOK
  <2> QED
    BY <2>1, <2>2, Zenon
<1>13. ASSUME NEW c \in Clients, LoadFails(c) PROVE OthersKeep(c) /\ InnerStep(c)
  BY <1>0, <1>13, Zenon DEF LoadFails, InnerStep
<1>14. ASSUME NEW c \in Clients, SwapFails(c)
       PROVE  OthersKeep(c) /\ (InnerStep(c) \/ Commit(c))
  <2>1. CASE UNCHANGED <<metadata, revision>>
    BY <1>0, <1>14, <2>1, Zenon DEF SwapFails, InnerStep
  <2>2. CASE Install(c)
    BY <1>11, <1>14, <2>2, Zenon DEF SwapFails, Commit
  <2> QED
    BY <1>14, <2>1, <2>2, Zenon DEF SwapFails
<1> QED
  BY <1>2, <1>3, <1>4, <1>5, <1>6, <1>7, <1>8, <1>10, <1>11, <1>12, <1>13, <1>14,
     SwapCommits, Zenon DEF ClientStep

-----------------------------------------------------------------------------
(* The inductive invariant *)

\* A swap that would succeed installs what the call makes of the stored
\* snapshot.
SwapSound ==
  \A c \in Clients :
    pc[c] = "swap" => /\ basis[c] <= revision
                      /\ basis[c] = revision =>
                           replacement[c] \in Effect(metadata, op[c], file[c])

\* The stored snapshot is well formed.
WellFormed == IsTree(metadata) /\ RetentionsAgree(metadata) /\ AbsentFilesEmpty(metadata)

\* Ids are issued once: that of a pending mkdir or create is not in the
\* snapshot, nor pending elsewhere, nor known to any client.
IdsOnce ==
  /\ \A d \in DirIds : HasDirectory(metadata, d) => d \in issued
  /\ \A f \in FileIds : HasFile(metadata, f) => f \in issued
  /\ \A c \in Clients : NewId(op[c]) \in SUBSET issued
  /\ \A c \in Clients : Fresh(metadata, op[c])
  /\ \A c, x \in Clients : c # x => NewId(op[c]) \cap NewId(op[x]) = {}
  /\ \A c \in Clients : seen[c] # NotSeen =>
       /\ seen[c].file \in issued
       /\ \A x \in Clients : seen[c].file \notin NewId(op[x])

\* What a client saw of a file is its current version or an older one, or the
\* file is gone.
SeenVersion(s, v) ==
  LET now == s.files[v.file]
  IN  \/ now.generation = 0
      \/ now.generation > v.generation
      \/ now.generation = v.generation /\ now.manifest = v.content

SeenSound ==
  \A c \in Clients : seen[c] # NotSeen =>
    seen[c].generation > 0 /\ SeenVersion(metadata, seen[c])

Inv == TypeOK /\ CallStates /\ SwapSound /\ WellFormed /\ IdsOnce /\ SeenSound

\* The invariant holds initially.
LEMMA InitInv == Init => Inv
<1> SUFFICES ASSUME Init PROVE Inv
  BY Zenon
<1>1. TypeOK
  BY DefaultSnapshotType, IdsAssumption, ClientAssumption DEF Init, TypeOK, Idle, NotSeen
<1>2. CallStates /\ SwapSound /\ SeenSound
  BY Zenon DEF Init, CallStates, CallState, SwapSound, SeenSound
<1>3. metadata.entries = {} /\ \A d \in DirIds : HasDirectory(metadata, d) <=> d = Root
  BY DEF Init, DefaultSnapshot, HasDirectory
<1>4. \A f \in FileIds : metadata.files[f] = NoFile /\ ~HasFile(metadata, f)
  BY DEF Init, DefaultSnapshot, HasFile, NoFile
<1>5. IsTree(metadata)
  BY <1>3, <1>4, IdsAssumption, Zenon
     DEF IsTree, UniqueNames, SingleParent, NoDangling, Acyclic
<1>6. \A c \in ContentIds : metadata.retentions[c] = "None" /\ ~IsContentLiveReferenced(metadata, c)
  BY <1>4, IdsAssumption, Zenon DEF Init, DefaultSnapshot, IsContentLiveReferenced, NoFile
<1>7. WellFormed
  BY <1>4, <1>5, <1>6, Zenon DEF WellFormed, RetentionsAgree, AbsentFilesEmpty
<1>8. \A c \in Clients : op[c].kind = "idle" /\ seen[c] = NotSeen
  BY Zenon DEF Init, Idle
<1>9. IdsOnce
  BY <1>3, <1>4, <1>8, Zenon DEF Init, IdsOnce, NewId, Fresh
<1> QED
  BY <1>1, <1>2, <1>7, <1>9, Zenon DEF Inv

\* A swap that takes effect is the effect of the call on the stored snapshot.
LEMMA SwapIsEffect ==
  ASSUME Inv, NEW c \in Clients, Commit(c)
  PROVE  /\ metadata' \in Effect(metadata, op[c], file[c])
         /\ metadata \in Snapshots /\ op[c] \in Calls
         /\ Fresh(metadata, op[c])
         /\ revision \in Nat /\ revision' = revision + 1
         /\ pc'[c] = "idle" /\ op'[c] = Idle
<1>1. op[c] # Idle
  BY Zenon DEF Commit, Install, Inv, CallStates, CallState
<1> QED
  BY <1>1, Zenon DEF Commit, Install, Return, Inv, SwapSound, TypeOK, IdsOnce

\* SwapSound is preserved: a private copy stays current while the revision it
\* was made from does.
LEMMA SwapSoundStep ==
  ASSUME Inv, [Next]_vars PROVE SwapSound'
<1>1. CASE UNCHANGED vars
  BY <1>1, Zenon DEF vars, Inv, SwapSound
<1>3. CASE Maintain
  <2>1. \A c \in Clients : basis[c] \in Nat
    BY Zenon DEF Inv, TypeOK
  <2> QED
    BY <1>3, <2>1 DEF Maintain, Inv, TypeOK, SwapSound
<1>2. CASE ClientStep
  <2>1. PICK c \in Clients : /\ OthersKeep(c)
                             /\ CallStep(c) \/ SeeStep(c) \/ InnerStep(c) \/ Commit(c)
    BY <1>2, StepCases, Zenon DEF Inv
  <2>2. CASE Commit(c)
    <3>1. revision \in Nat /\ revision' = revision + 1 /\ pc'[c] = "idle"
      BY <2>2, SwapIsEffect, Zenon
    <3>2. \A x \in Clients : basis[x] \in Nat
      BY Zenon DEF Inv, TypeOK
    <3> QED
      BY <2>1, <3>1, <3>2 DEF Inv, SwapSound, OthersKeep
  <2>3. CASE InnerStep(c)
    <3>1. pc'[c] = "swap" => /\ basis'[c] = revision' /\ revision' \in Nat
                             /\ replacement'[c] \in Effect(metadata', op'[c], file'[c])
      BY <2>3, Zenon DEF InnerStep, Inv, TypeOK
    <3>2. metadata' = metadata /\ revision' = revision
      BY <2>3, Zenon DEF InnerStep
    <3> QED
      BY <2>1, <3>1, <3>2 DEF Inv, SwapSound, OthersKeep
  <2>4. CASE CallStep(c)
    BY <2>1, <2>4, Zenon DEF CallStep, Inv, SwapSound, OthersKeep
  <2>5. CASE SeeStep(c)
    BY <2>1, <2>5 DEF SeeStep, Inv, SwapSound, OthersKeep
  <2> QED
    BY <2>1, <2>2, <2>3, <2>4, <2>5, Zenon
<1> QED
  BY <1>1, <1>2, <1>3, Zenon DEF Next

\* The stored snapshot stays well formed.
LEMMA WellFormedStep ==
  ASSUME Inv, [Next]_vars PROVE WellFormed'
<1>1. CASE UNCHANGED metadata
  BY <1>1, Zenon DEF WellFormed, Inv
<1>2. ASSUME NEW c \in Clients, Commit(c) PROVE WellFormed'
  BY <1>2, SwapIsEffect, EffectTree, EffectAgrees, Zenon DEF Inv, WellFormed
<1>3. CASE Maintain
  BY <1>3, MaintainSound, Zenon DEF Maintain, Inv, TypeOK, WellFormed
<1>4. UNCHANGED metadata \/ Maintain \/ \E c \in Clients : Commit(c)
  BY StepCases, Zenon DEF Next, Inv, vars, CallStep, SeeStep, InnerStep
<1> QED
  BY <1>1, <1>2, <1>3, <1>4, Zenon

\* No id is used twice.
LEMMA IdsOnceStep ==
  ASSUME Inv, [Next]_vars PROVE IdsOnce'
<1>0. \A c \in Clients : op[c] \in Calls \cup {Idle}
  BY Zenon DEF Inv, TypeOK
<1>1. CASE UNCHANGED vars
  BY <1>1, Zenon DEF vars, Inv, IdsOnce, NewId
<1>3. CASE Maintain
  <2>1. /\ metadata'.directories = metadata.directories
        /\ metadata'.files = metadata.files
        /\ UNCHANGED <<op, issued, seen>>
    BY <1>3, MaintainSound, Zenon DEF Maintain, Inv, TypeOK
  <2> QED
    BY <2>1, Zenon DEF Inv, IdsOnce, NewId, Fresh, HasDirectory, HasFile
<1>2. CASE ClientStep
  <2>1. PICK c \in Clients : /\ OthersKeep(c)
                             /\ CallStep(c) \/ SeeStep(c) \/ InnerStep(c) \/ Commit(c)
    BY <1>2, StepCases, Zenon DEF Inv
  <2>2. NewId(Idle) = {} /\ Fresh(metadata', Idle)
    BY Zenon DEF NewId, Fresh, Idle
  <2>3. CASE Commit(c)
    <3>1. /\ metadata' \in Effect(metadata, op[c], file[c]) /\ metadata \in Snapshots
          /\ op[c] \in Calls /\ op'[c] = Idle /\ issued' = issued
      BY <2>3, SwapIsEffect, Zenon DEF Commit, Install
    <3>2. \A d \in DirIds : HasDirectory(metadata', d) => HasDirectory(metadata, d) \/ d \in NewId(op[c])
      BY <3>1, EffectDirectories, Zenon DEF NewId
    <3>3. \A f \in FileIds : HasFile(metadata', f) => HasFile(metadata, f) \/ f \in NewId(op[c])
      BY <3>1, EffectFiles DEF NewId, HasFile
    <3>4. \A x \in Clients : x # c => NewId(op'[x]) = NewId(op[x]) /\ NewId(op[x]) \cap NewId(op[c]) = {}
      BY <2>1, Zenon DEF OthersKeep, Inv, IdsOnce
    <3>5. \A x \in Clients : Fresh(metadata', op'[x])
      <4> SUFFICES ASSUME NEW x \in Clients, x # c PROVE Fresh(metadata', op[x])
        BY <2>1, <2>2, <3>1, Zenon DEF OthersKeep
      <4>1. CASE op[x].kind = "mkdir"
        <5>1. op[x].id \in DirIds /\ op[x].id \in NewId(op[x])
          BY <1>0, <4>1 DEF Calls, Mkdirs, Creates, Renames, Removes, Writes, Idle, NewId
        <5>2. ~HasDirectory(metadata, op[x].id)
          BY <4>1, Zenon DEF Inv, IdsOnce, Fresh
        <5> QED
          BY <3>2, <3>4, <4>1, <5>1, <5>2, Zenon DEF Fresh
      <4>2. CASE op[x].kind = "create"
        <5>1. op[x].id \in FileIds /\ op[x].id \in NewId(op[x])
          BY <1>0, <4>2 DEF Calls, Mkdirs, Creates, Renames, Removes, Writes, Idle, NewId
        <5>2. ~HasFile(metadata, op[x].id)
          BY <4>2, Zenon DEF Inv, IdsOnce, Fresh
        <5> QED
          BY <3>3, <3>4, <4>2, <5>1, <5>2, Zenon DEF Fresh
      <4> QED
        BY <4>1, <4>2, Zenon DEF Fresh
    <3>6. ASSUME NEW x \in Clients, seen'[x] # NotSeen
          PROVE  /\ seen'[x].file \in issued
                 /\ \A y \in Clients : seen'[x].file \notin NewId(op'[y])
      <4>1. CASE seen'[x] = seen[x]
        BY <2>2, <3>1, <3>4, <3>6, <4>1, Zenon DEF Inv, IdsOnce
      <4>2. CASE seen'[x] # seen[x]
        <5>0. op[c].kind = "write" /\ seen' = [seen EXCEPT ![c] = Committed(c)]
          BY <2>3, <4>2, Zenon DEF Commit
        <5>4. seen'[x] = Committed(c)
          BY <4>2, <5>0, Zenon DEF Inv, TypeOK
        <5>1. op[c].kind = "write" /\ seen'[x].file = file[c]
          BY <5>0, <5>4 DEF Committed
        <5>2. file[c] \in FileIds /\ HasFile(metadata, file[c])
          BY <3>1, <5>1, EffectOfWrite, Zenon DEF Calls, Mkdirs, Creates, Renames, Removes
        <5>3. ASSUME NEW y \in Clients PROVE file[c] \notin NewId(op[y])
          <6>1. op[y].kind = "mkdir" => op[y].id \in DirIds
            BY <1>0 DEF Calls, Mkdirs, Creates, Renames, Removes, Writes, Idle
          <6> QED
            BY <5>2, <6>1, IdsAssumption, Zenon DEF NewId, Inv, IdsOnce, Fresh
        <5> QED
          BY <2>2, <3>1, <3>4, <5>1, <5>2, <5>3, Zenon DEF Inv, IdsOnce
      <4> QED
        BY <4>1, <4>2, Zenon
    <3> QED
      BY <2>2, <3>1, <3>2, <3>3, <3>4, <3>5, <3>6, Zenon DEF Inv, IdsOnce
  <2>4. CASE InnerStep(c)
    <3>1. UNCHANGED <<metadata, issued, seen>> /\ op'[c] \in {op[c], Idle}
      BY <2>4, Zenon DEF InnerStep
    <3>2. \A x \in Clients : op'[x] \in {op[x], Idle}
      BY <2>1, <3>1, Zenon DEF OthersKeep
    <3> QED
      BY <2>2, <3>1, <3>2, Zenon DEF Inv, IdsOnce
  <2>5. CASE CallStep(c)
    <3>1. /\ UNCHANGED <<metadata, seen>> /\ op'[c] \in Calls /\ op[c] = Idle
          /\ NewId(op'[c]) \cap issued = {} /\ issued' = issued \cup NewId(op'[c])
      BY <2>5, Zenon DEF CallStep
    <3>2. \A x \in Clients \ {c} : op'[x] = op[x]
      BY <2>1, Zenon DEF OthersKeep
    <3>3. Fresh(metadata, op'[c])
      <4>1. /\ op'[c].kind = "mkdir" => op'[c].id \in DirIds
            /\ op'[c].kind = "create" => op'[c].id \in FileIds
        BY <3>1, Zenon DEF Calls, Mkdirs, Creates, Renames, Removes, Writes
      <4> QED
        BY <3>1, <4>1, Zenon DEF Fresh, NewId, Inv, IdsOnce
    <3>4. \A x \in Clients \ {c} : NewId(op[x]) \in SUBSET issued
      BY Zenon DEF Inv, IdsOnce
    <3> QED
      BY <3>1, <3>2, <3>3, <3>4 DEF Inv, IdsOnce
  <2>6. CASE SeeStep(c)
    <3>1. UNCHANGED <<metadata, issued>> /\ \A x \in Clients : op'[x] = op[x]
      BY <2>1, <2>6, Zenon DEF SeeStep, OthersKeep
    <3>2. PICK f \in FileIds : seen'[c].file = f /\ HasFile(metadata, f)
      <4>1. PICK at \in Paths : \E f \in ResolveFile(metadata, at) : seen'[c].file = f
        BY <2>6 DEF SeeStep
      <4> QED
        BY <4>1, Zenon DEF ResolveFile, Inv, WellFormed, IsTree, NoDangling
    <3>3. ASSUME NEW y \in Clients PROVE f \notin NewId(op[y])
      <4>1. op[y].kind = "mkdir" => op[y].id \in DirIds
        BY <1>0 DEF Calls, Mkdirs, Creates, Renames, Removes, Writes, Idle
      <4> QED
        BY <3>2, <4>1, IdsAssumption, Zenon DEF NewId, Inv, IdsOnce, Fresh
    <3> QED
      BY <2>1, <3>1, <3>2, <3>3, Zenon DEF OthersKeep, Inv, IdsOnce
  <2> QED
    BY <2>1, <2>3, <2>4, <2>5, <2>6, Zenon
<1> QED
  BY <1>1, <1>2, <1>3, Zenon DEF Next

\* What clients saw stays an old or the current version.
LEMMA SeenSoundStep ==
  ASSUME Inv, [Next]_vars PROVE SeenSound'
<1>1. CASE UNCHANGED vars
  BY <1>1, Zenon DEF vars, Inv, SeenSound, SeenVersion
<1>3. CASE Maintain
  <2>1. metadata'.files = metadata.files /\ UNCHANGED seen
    BY <1>3, MaintainSound, Zenon DEF Maintain, Inv, TypeOK
  <2> QED
    BY <2>1, Zenon DEF Inv, SeenSound, SeenVersion
<1>2. CASE ClientStep
  <2>1. PICK c \in Clients : /\ OthersKeep(c)
                             /\ CallStep(c) \/ SeeStep(c) \/ InnerStep(c) \/ Commit(c)
    BY <1>2, StepCases, Zenon DEF Inv
  <2>2. CASE UNCHANGED <<metadata, seen>>
    BY <2>2, Zenon DEF Inv, SeenSound, SeenVersion
  <2>3. CASE SeeStep(c)
    <3>1. PICK f \in FileIds : /\ HasFile(metadata, f)
                               /\ seen'[c].generation = metadata.files[f].generation
                               /\ seen'[c].content = metadata.files[f].manifest
                               /\ seen'[c].file = f
      <4>1. PICK at \in Paths : \E f \in ResolveFile(metadata, at) :
              seen'[c] = [at |-> at, file |-> f,
                          generation |-> metadata.files[f].generation,
                          content |-> metadata.files[f].manifest]
        BY <2>3, Zenon DEF SeeStep
      <4>2. \A f \in ResolveFile(metadata, at) : f \in FileIds /\ HasFile(metadata, f)
        BY Zenon DEF ResolveFile, Inv, WellFormed, IsTree, NoDangling
      <4> QED
        BY <4>1, <4>2
    <3>2. metadata' = metadata
      BY <2>3, Zenon DEF SeeStep
    <3> QED
      BY <2>1, <3>1, <3>2 DEF OthersKeep, Inv, SeenSound, SeenVersion, HasFile
  <2>4. CASE Commit(c)
    <3>1. /\ metadata' \in Effect(metadata, op[c], file[c]) /\ metadata \in Snapshots
          /\ op[c] \in Calls /\ metadata' = replacement[c] /\ metadata' \in Snapshots
      BY <2>4, SwapIsEffect, Zenon DEF Commit, Install, Inv, TypeOK
    <3>2. ASSUME NEW x \in Clients, seen[x] # NotSeen PROVE SeenVersion(metadata', seen[x])
      <4> DEFINE v == seen[x]
      <4>1. v.file \in FileIds /\ v.generation \in Nat /\ v.generation > 0 /\ SeenVersion(metadata, v)
              /\ v.file \notin NewId(op[c])
        BY <3>2, Zenon DEF Inv, TypeOK, Seen, SeenSound, IdsOnce
      <4>2. ~(op[c].kind = "create" /\ v.file = op[c].id)
        BY <4>1, Zenon DEF NewId
      <4>3. \/ metadata'.files[v.file] = metadata.files[v.file]
            \/ metadata'.files[v.file].generation = 0
            \/ /\ metadata'.files[v.file].generation = metadata.files[v.file].generation + 1
               /\ metadata.files[v.file].generation > 0
        BY <3>1, <4>1, <4>2, EffectFiles DEF HasFile
      <4>4. metadata.files[v.file].generation \in Nat
        BY <3>1, <4>1, Zenon DEF Snapshots, FileMetadata
      <4> QED
        BY <4>1, <4>3, <4>4 DEF SeenVersion
    <3>3. ASSUME NEW x \in Clients, seen'[x] # NotSeen
          PROVE  seen'[x].generation > 0 /\ SeenVersion(metadata', seen'[x])
      <4>1. CASE seen'[x] = seen[x]
        BY <3>2, <3>3, <4>1, Zenon DEF SeenVersion, Inv, SeenSound
      <4>2. CASE seen'[x] # seen[x]
        <5>1. op[c].kind = "write" /\ seen'[x] = Committed(c)
          <6>1. op[c].kind = "write" /\ seen' = [seen EXCEPT ![c] = Committed(c)]
            BY <2>4, <4>2, Zenon DEF Commit
          <6> QED
            BY <4>2, <6>1, Zenon DEF Inv, TypeOK
        <5>0. op[c] \in Writes
          BY <3>1, <5>1, Zenon DEF Calls, Mkdirs, Creates, Renames, Removes
        <5>2. /\ metadata'.files[file[c]].generation = metadata.files[file[c]].generation + 1
              /\ metadata'.files[file[c]].manifest = op[c].content /\ file[c] \in FileIds
          <6>1. /\ file[c] \in FileIds
                /\ metadata'.files[file[c]] = [generation |-> metadata.files[file[c]].generation + 1,
                                               manifest |-> op[c].content]
            BY <3>1, <5>0, EffectOfWrite, ZenonT(30)
          <6> QED
            BY <6>1
        <5>3. metadata.files[file[c]].generation \in Nat
          BY <3>1, <5>2, Zenon DEF Snapshots, FileMetadata
        <5> QED
          BY <3>1, <5>1, <5>2, <5>3 DEF SeenVersion, Committed
      <4> QED
        BY <4>1, <4>2, Zenon
    <3> QED
      BY <3>3, Zenon DEF SeenSound, SeenVersion
  <2> QED
    BY <2>1, <2>2, <2>3, <2>4, Zenon DEF CallStep, InnerStep
<1> QED
  BY <1>1, <1>2, <1>3, Zenon DEF Next

\* The invariant is inductive.
THEOREM Invariance == Spec => []Inv
<1>1. Inv /\ [Next]_vars => Inv'
  <2> SUFFICES ASSUME Inv, [Next]_vars PROVE Inv'
    BY Zenon
  <2>1. TypeOK' /\ CallStates'
    BY TypeStep, Zenon DEF Inv
  <2> QED
    BY <2>1, SwapSoundStep, WellFormedStep, IdsOnceStep, SeenSoundStep, Zenon DEF Inv
<1> QED
  BY <1>1, InitInv, PTL DEF Spec

-----------------------------------------------------------------------------
(* What follows *)

\* Every state of the metadata plane is well typed; in particular a mutation
\* never swaps more than MaxAttempts times.
THEOREM TypeCorrect == Spec => []TypeOK
<1>1. Inv => TypeOK
  BY Zenon DEF Inv
<1> QED
  BY <1>1, Invariance, PTL

\* The namespace is a tree in every reachable state, whatever mkdir, create,
\* rename, remove and write calls of however many clients interleave.
THEOREM NamespaceStaysTree == Spec => []NamespaceIsTree
<1>1. Inv => NamespaceIsTree
  BY Zenon DEF Inv, WellFormed, NamespaceIsTree
<1> QED
  BY <1>1, Invariance, PTL

\* Content is marked LiveReference exactly while a file refers to it, and then
\* has a replica on record.
THEOREM RetentionStaysExact == Spec => []RetentionMatchesReferences
<1>1. Inv => RetentionMatchesReferences
  BY Zenon DEF Inv, WellFormed, RetentionMatchesReferences
<1> QED
  BY <1>1, Invariance, PTL

\* A generation of a file names one content.
THEOREM GenerationsNameVersions == Spec => []GenerationNamesVersion
<1>1. Inv => GenerationNamesVersion
  <2> SUFFICES ASSUME Inv, NEW c \in Clients, seen[c] # NotSeen,
                      metadata.files[seen[c].file].generation = seen[c].generation
               PROVE  metadata.files[seen[c].file].manifest = seen[c].content
    BY Zenon DEF GenerationNamesVersion
  <2>1. seen[c].generation \in Nat /\ seen[c].generation > 0
    BY Zenon DEF Inv, TypeOK, Seen, SeenSound
  <2> QED
    BY <2>1 DEF Inv, SeenSound, SeenVersion
<1> QED
  BY <1>1, Invariance, PTL

\* Whenever the entries of a directory change, its generation grows.
THEOREM ListingChangesShow == Spec => ListingChangeBumpsGeneration
<1>1. Inv /\ [Next]_vars =>
        [\A d \in DirIds :
           Listing(metadata', d) # Listing(metadata, d)
             => \/ metadata'.directories[d] > metadata.directories[d]
                \/ metadata'.directories[d] = 0]_vars
  <2> SUFFICES ASSUME Inv, [Next]_vars, NEW d \in DirIds,
                      Listing(metadata', d) # Listing(metadata, d)
               PROVE  metadata'.directories[d] > metadata.directories[d]
                        \/ metadata'.directories[d] = 0
    BY Zenon
  <2>2. ~Maintain
    BY MaintainSound, Zenon DEF Maintain, Inv, TypeOK, Listing
  <2>1. PICK c \in Clients : Commit(c)
    BY <2>2, StepCases, Zenon DEF Next, Inv, vars, CallStep, SeeStep, InnerStep
  <2> QED
    BY <2>1, SwapIsEffect, EffectListings DEF Inv, WellFormed
<1> QED
  BY <1>1, Invariance, PTL DEF Spec, ListingChangeBumpsGeneration

-----------------------------------------------------------------------------
(* Refinement *)

\* The abstract specification has the same snapshots, calls and effects.
LEMMA SameVocabulary ==
  /\ Atomic!DefaultSnapshot = DefaultSnapshot
  /\ Atomic!Idle = Idle
  /\ Atomic!Calls = Calls
<1>1. Atomic!DefaultSnapshot = DefaultSnapshot
  BY Zenon DEF Atomic!DefaultSnapshot, DefaultSnapshot, Atomic!NoFile, NoFile
<1>2. Atomic!Idle = Idle
  BY Zenon DEF Atomic!Idle, Idle
<1>3. Atomic!Calls = Calls
  BY Zenon DEF Atomic!Calls, Calls, Atomic!Mkdirs, Mkdirs, Atomic!Creates, Creates,
         Atomic!Renames, Renames, Atomic!Removes, Removes, Atomic!Writes, Writes
<1> QED
  BY <1>1, <1>2, <1>3, Zenon

\* So does a path.
LEMMA SameResolveFile ==
  ASSUME NEW s, NEW at
  PROVE  Atomic!ResolveFile(s, at) = ResolveFile(s, at)
BY Zenon DEF Atomic!ResolveFile, ResolveFile, Atomic!ResolveDirectory, ResolveDirectory,
       Atomic!IsWalk, IsWalk

\* And a call.
LEMMA SameEffect ==
  ASSUME NEW s, NEW o, NEW f
  PROVE  Atomic!Effect(s, o, f) = Effect(s, o, f)
BY DEF Atomic!Effect, Effect, Atomic!Mkdir, Mkdir, Atomic!Create, Create,
       Atomic!Rename, Rename, Atomic!Remove, Remove, Atomic!CommitWrite, CommitWrite,
       Atomic!Vacant, Vacant, Atomic!AddDirectory, AddDirectory, Atomic!AddFile, AddFile,
       Atomic!Touch, Touch, Atomic!MoveAllowed, MoveAllowed, Atomic!MoveEntry, MoveEntry,
       Atomic!RemoveEntry, RemoveEntry, Atomic!RemoveFile, RemoveFile,
       Atomic!RemoveDirectory, RemoveDirectory, Atomic!DropReference, DropReference,
       Atomic!ResolveDirectory, ResolveDirectory, Atomic!IsWalk, IsWalk,
       Atomic!EnsureAbsent, EnsureAbsent, Atomic!EntriesAt, EntriesAt,
       Atomic!IsDescendant, IsDescendant, Atomic!ParentClosed, ParentClosed,
       Atomic!IsContentLiveReferenced, IsContentLiveReferenced, Atomic!NoFile, NoFile,
       Atomic!HasFile, HasFile

AtomicVars == <<metadata, issued, op, file, reply>>

\* The return of a call with no effect is a return of the abstract call.
LEMMA ReturnRefines ==
  ASSUME Inv, NEW c \in Clients, NEW result, pc[c] # "idle", Return(c, result),
         UNCHANGED issued
  PROVE  Atomic!Return(c, result)
<1>1. op[c] # Atomic!Idle
  BY SameVocabulary, Zenon DEF Inv, CallStates, CallState
<1> QED
  BY <1>1, SameVocabulary, Zenon DEF Return, Atomic!Return

\* The beginning of a call is one of the abstract call.
LEMMA BeginRefines ==
  ASSUME Inv, NEW c \in Clients, NEW o \in Calls, Begin(c, o),
         NewId(o) \cap issued = {}, issued' = issued \cup NewId(o)
  PROVE  Atomic!Call(c)
<1>1. op[c] = Atomic!Idle
  BY SameVocabulary, Zenon DEF Begin, Inv, CallStates, CallState
<1>2. op'[c] = o /\ op' = [op EXCEPT ![c] = op'[c]]
  BY Zenon DEF Begin, Inv, TypeOK
<1>3. IF o.kind \in {"mkdir", "create"}
      THEN o.id \notin issued /\ issued' = issued \cup {o.id}
      ELSE UNCHANGED issued
  BY Zenon DEF NewId
<1>4. reply' = [reply EXCEPT ![c] = "none"] /\ UNCHANGED <<metadata, file>>
  BY Zenon DEF Begin
<1> QED
  BY <1>1, <1>2, <1>3, <1>4, SameVocabulary, Zenon DEF Atomic!Call

\* Every step of a client is an atomic step or invisible.
LEMMA StepRefines ==
  ASSUME Inv, Next PROVE [Atomic!Next]_AtomicVars
<1>1. ASSUME NEW c \in Clients, CallMkdir(c) PROVE Atomic!Call(c)
  <2>1. \A o \in Mkdirs : o \in Calls /\ NewId(o) = {o.id}
    BY Zenon DEF Mkdirs, Calls, NewId
  <2> QED
    BY <1>1, <2>1, BeginRefines, Zenon DEF CallMkdir
<1>2. ASSUME NEW c \in Clients, CallCreate(c) PROVE Atomic!Call(c)
  <2>1. \A o \in Creates : o \in Calls /\ NewId(o) = {o.id}
    BY Zenon DEF Creates, Calls, NewId
  <2> QED
    BY <1>2, <2>1, BeginRefines, Zenon DEF CallCreate
<1>3. ASSUME NEW c \in Clients, CallRename(c) PROVE Atomic!Call(c)
  <2>1. \A o \in Renames : o \in Calls /\ NewId(o) = {}
    BY Zenon DEF Renames, Calls, NewId
  <2> QED
    BY <1>3, <2>1, BeginRefines, Zenon DEF CallRename
<1>4. ASSUME NEW c \in Clients, CallRemove(c) PROVE Atomic!Call(c)
  <2>1. \A o \in Removes : o \in Calls /\ NewId(o) = {}
    BY Zenon DEF Removes, Calls, NewId
  <2> QED
    BY <1>4, <2>1, BeginRefines, Zenon DEF CallRemove
<1>5. ASSUME NEW c \in Clients, CallWrite(c) PROVE Atomic!Call(c)
  <2>1. \A o \in Writes : o \in Calls /\ NewId(o) = {}
    BY Zenon DEF Writes, Calls, NewId
  <2>2. PICK at \in Paths, content \in ContentIds, node \in Nodes, supplied \in BOOLEAN :
          /\ supplied => seen[c] # NotSeen
          /\ Begin(c, [kind |-> "write", at |-> at, content |-> content, node |-> node,
                       expected |-> IF supplied THEN seen[c].generation ELSE 0])
          /\ UNCHANGED issued
    BY <1>5, Zenon DEF CallWrite
  <2>3. (IF supplied THEN seen[c].generation ELSE 0) \in Nat
    BY <2>2, Zenon DEF Inv, TypeOK, Seen
  <2>4. [kind |-> "write", at |-> at, content |-> content, node |-> node,
         expected |-> IF supplied THEN seen[c].generation ELSE 0] \in Writes
    BY <2>3, Zenon DEF Writes
  <2> QED
    BY <2>1, <2>2, <2>4, BeginRefines, Zenon
<1>6. ASSUME NEW c \in Clients, Stat(c) PROVE UNCHANGED AtomicVars
  BY <1>6, Zenon DEF Stat, callVars, AtomicVars
<1>7. ASSUME NEW c \in Clients, ResolveAndPut(c) PROVE Atomic!Open(c) \/ Atomic!Refuse(c)
  <2>1. op[c].kind = "write" /\ file[c] = Root /\ pc[c] # "idle"
    BY <1>7, Zenon DEF ResolveAndPut, Inv, CallStates, CallState
  <2>2. CASE Return(c, "error")
    BY <1>7, <2>1, <2>2, ReturnRefines, Zenon DEF ResolveAndPut, Atomic!Refuse
  <2>3. CASE ~Return(c, "error")
    BY <1>7, <2>1, <2>3, SameResolveFile, Zenon DEF ResolveAndPut, Atomic!Open
  <2> QED
    BY <2>2, <2>3, Zenon
<1>8. ASSUME NEW c \in Clients, NEW error \in {"error", "conflict", "unavailable"}, Prepare(c, error),
             pc[c] # "idle"
      PROVE  UNCHANGED AtomicVars \/ Atomic!Refuse(c) \/ Atomic!GiveUp(c) \/ Atomic!Fail(c)
  <2>1. CASE Effect(metadata, op[c], file[c]) = {}
    BY <1>8, <2>1, ReturnRefines, SameEffect, Zenon
       DEF Prepare, Atomic!Refuse, Atomic!GiveUp, Atomic!Fail
  <2>2. CASE Effect(metadata, op[c], file[c]) # {}
    BY <1>8, <2>2, Zenon DEF Prepare, AtomicVars
  <2> QED
    BY <2>1, <2>2, Zenon
<1>9. ASSUME NEW c \in Clients, LoadAndWrite(c) \/ LoadAndMutate(c)
      PROVE  UNCHANGED AtomicVars \/ Atomic!Refuse(c) \/ Atomic!GiveUp(c) \/ Atomic!Fail(c)
  BY <1>8, <1>9, Zenon DEF LoadAndWrite, LoadAndMutate
<1>10. ASSUME NEW c \in Clients, CompareAndSwap(c) PROVE Atomic!Perform(c)
  <2>1. metadata' \in Atomic!Effect(metadata, op[c], file[c])
    BY <1>10, SwapCommits, SwapIsEffect, SameEffect, Zenon
  <2>2. Atomic!Return(c, "ok")
    BY <1>10, ReturnRefines, Zenon DEF CompareAndSwap
  <2> QED
    BY <2>1, <2>2, Zenon DEF Atomic!Perform
<1>11. ASSUME NEW c \in Clients, SwapConflict(c) PROVE UNCHANGED AtomicVars \/ Atomic!GiveUp(c)
  <2>1. CASE Return(c, "conflict")
    BY <1>11, <2>1, ReturnRefines, Zenon DEF SwapConflict, Atomic!GiveUp
  <2>2. CASE ~Return(c, "conflict")
    BY <1>11, <2>2, Zenon DEF SwapConflict, AtomicVars
  <2> QED
    BY <2>1, <2>2, Zenon
<1>13. ASSUME NEW c \in Clients, LoadFails(c) PROVE Atomic!Fail(c)
  BY <1>13, ReturnRefines, Zenon DEF LoadFails, Atomic!Fail
<1>14. ASSUME NEW c \in Clients, SwapFails(c) PROVE Atomic!Fail(c)
  <2>1. Atomic!Return(c, "unavailable")
    BY <1>14, ReturnRefines, Zenon DEF SwapFails
  <2>2. CASE Install(c)
    <3>1. Commit(c)
      BY <1>14, <2>2, Zenon DEF SwapFails, Commit
    <3>2. metadata' \in Atomic!Effect(metadata, op[c], file[c])
      BY <3>1, SwapIsEffect, SameEffect, Zenon
    <3> QED
      BY <2>1, <3>2, Zenon DEF Atomic!Fail
  <2> QED
    BY <1>14, <2>1, <2>2, Zenon DEF SwapFails, Atomic!Fail
<1>12. ASSUME Maintain PROVE Atomic!Maintain
  BY <1>12, Zenon DEF Maintain, Atomic!Maintain, MaintainPlacement, Atomic!MaintainPlacement,
               IsContentRetained, Atomic!IsContentRetained,
               IsContentLiveReferenced, Atomic!IsContentLiveReferenced
<1> QED
  BY <1>1, <1>2, <1>3, <1>4, <1>5, <1>6, <1>7, <1>9, <1>10, <1>11, <1>12, <1>13,
     <1>14, Zenon
     DEF Next, ClientStep, Atomic!Next

\* Linearizability: the clients over the compare-and-swap store, which may fail
\* at every access, implement the atomic filesystem.
THEOREM Refinement == Spec => ImplementsAtomicFilesystem
<1>1. Init => Atomic!Init
  BY SameVocabulary, Zenon DEF Init, Atomic!Init
<1>2. Inv /\ [Next]_vars => [Atomic!Next]_AtomicVars
  BY StepRefines, Zenon DEF vars, AtomicVars
<1> QED
  BY <1>1, <1>2, Invariance, PTL
     DEF Spec, ImplementsAtomicFilesystem, Atomic!Spec, Atomic!vars, AtomicVars

-----------------------------------------------------------------------------
(* Progress *)

\* Every failed swap of a call is a commit since the call began.
Overtaken ==
  \A c \in Clients :
    /\ pc[c] = "idle" => attempts[c] = 0
    /\ pc[c] # "idle" => began[c] + attempts[c] <= revision
    /\ pc[c] = "swap" => began[c] + attempts[c] <= basis[c] /\ basis[c] <= revision

\* Each step keeps the account.
LEMMA OvertakenStep ==
  ASSUME Inv, Overtaken, [Next]_vars PROVE Overtaken'
<1>0. /\ revision \in Nat
      /\ \A x \in Clients : began[x] \in Nat /\ attempts[x] \in Nat /\ basis[x] \in Nat
  BY ClientAssumption DEF Inv, TypeOK
<1> DEFINE Account(x) ==
      /\ pc'[x] = "idle" => attempts'[x] = 0
      /\ pc'[x] # "idle" => began'[x] + attempts'[x] <= revision'
      /\ pc'[x] = "swap" => began'[x] + attempts'[x] <= basis'[x] /\ basis'[x] <= revision'
<1>1. CASE UNCHANGED vars
  BY <1>1, Zenon DEF vars, Overtaken
<1>2. ASSUME NEW c \in Clients, OthersKeep(c), revision' \in {revision, revision + 1},
             Account(c)
      PROVE  Overtaken'
  <2>1. \A x \in Clients \ {c} : Account(x)
    BY <1>0, <1>2 DEF OthersKeep, Overtaken
  <2> QED
    BY <1>2, <2>1, Zenon DEF Overtaken
<1>3. ASSUME NEW c \in Clients, NEW result, Return(c, result), seen' = seen,
             revision' = revision
      PROVE  Overtaken'
  <2>1. OthersKeep(c) /\ Account(c)
    BY <1>3 DEF Return, OthersKeep, Inv, TypeOK
  <2> QED
    BY <1>2, <1>3, <2>1, Zenon
<1>4. ASSUME NEW c \in Clients, NEW o, Begin(c, o) PROVE Overtaken'
  <2>1. OthersKeep(c) /\ Account(c) /\ revision' = revision
    BY <1>0, <1>4 DEF Begin, OthersKeep, Overtaken, Inv, TypeOK
  <2> QED
    BY <1>2, <2>1, Zenon
<1>5. ASSUME NEW c \in Clients, Stat(c) PROVE Overtaken'
  BY <1>5, Zenon DEF Stat, callVars, Overtaken
<1>6. ASSUME NEW c \in Clients, ResolveAndPut(c) PROVE Overtaken'
  <2>1. CASE Return(c, "error")
    BY <1>3, <1>6, <2>1, Zenon DEF ResolveAndPut
  <2>2. CASE ~Return(c, "error")
    BY <1>6, <2>2, Zenon DEF ResolveAndPut, Overtaken, Inv, TypeOK
  <2> QED
    BY <2>1, <2>2, Zenon
<1>7. ASSUME NEW c \in Clients, NEW error, Prepare(c, error), pc[c] # "idle" PROVE Overtaken'
  <2>1. CASE Effect(metadata, op[c], file[c]) = {}
    BY <1>3, <1>7, <2>1, Zenon DEF Prepare
  <2>2. CASE Effect(metadata, op[c], file[c]) # {}
    BY <1>0, <1>7, <2>2 DEF Prepare, Overtaken, Inv, TypeOK
  <2> QED
    BY <2>1, <2>2, Zenon
<1>8. ASSUME NEW c \in Clients, LoadAndWrite(c) \/ LoadAndMutate(c) PROVE Overtaken'
  BY <1>7, <1>8, Zenon DEF LoadAndWrite, LoadAndMutate
<1>9. ASSUME NEW c \in Clients, Commit(c) PROVE Overtaken'
  <2>1. \A x \in Clients \ {c} : seen'[x] = seen[x]
    BY <1>9, Zenon DEF Commit, Inv, TypeOK
  <2>2. ASSUME NEW r, Return(c, r) PROVE OthersKeep(c) /\ Account(c)
    <3>1. /\ OthersKeep(c)
          /\ pc'[c] = "idle" /\ attempts'[c] = 0
      BY <2>1, <2>2, Zenon DEF Return, OthersKeep, Inv, TypeOK
    <3> QED
      BY <3>1, <1>0, Zenon
  <2>3. OthersKeep(c) /\ Account(c)
    BY <1>9, <2>2, Zenon DEF Commit
  <2>4. revision' \in {revision, revision + 1}
    BY <1>9, Zenon DEF Commit, Install
  <2> QED
    BY <1>2, <2>3, <2>4, Zenon
<1>10. ASSUME NEW c \in Clients, SwapConflict(c) PROVE Overtaken'
  <2>1. CASE Return(c, "conflict")
    BY <1>3, <1>10, <2>1, Zenon DEF SwapConflict
  <2>2. CASE ~Return(c, "conflict")
    BY <1>0, <1>10, <2>2 DEF SwapConflict, Overtaken, Inv, TypeOK
  <2> QED
    BY <2>1, <2>2, Zenon
<1>11. CASE Maintain
  BY <1>0, <1>11 DEF Maintain, Overtaken
<1>12. ASSUME NEW c \in Clients, LoadFails(c) PROVE Overtaken'
  BY <1>3, <1>12, Zenon DEF LoadFails
<1>13. ASSUME NEW c \in Clients, SwapFails(c) PROVE Overtaken'
  <2>1. CASE UNCHANGED <<metadata, revision>>
    BY <1>3, <1>13, <2>1, Zenon DEF SwapFails
  <2>2. CASE Install(c)
    BY <1>9, <1>13, <2>2, Zenon DEF SwapFails, Commit
  <2> QED
    BY <1>13, <2>1, <2>2, Zenon DEF SwapFails
<1> QED
  BY <1>1, <1>4, <1>5, <1>6, <1>8, <1>9, <1>10, <1>11, <1>12, <1>13, SwapCommits, Zenon
     DEF Next, ClientStep, CallMkdir, CallCreate, CallRename, CallRemove, CallWrite

\* retry_mutation is lock-free: a mutation gives up only after MaxAttempts
\* commits of other calls.
THEOREM LockFreedom == Spec => ConflictMeansProgress
<1>1. Init => Overtaken
  BY Zenon DEF Init, Overtaken
<1>2. Inv /\ Overtaken /\ [Next]_vars => Overtaken'
  BY OvertakenStep, Zenon
<1>3. Inv /\ Overtaken /\ [Next]_vars =>
        [\A c \in Clients :
           /\ pc[c] = "swap" /\ op[c].kind # "write"
           /\ pc'[c] = "idle" /\ reply'[c] = "conflict"
           => revision >= began[c] + MaxAttempts]_vars
  <2> SUFFICES ASSUME Inv, Overtaken, Next, NEW c \in Clients,
                      pc[c] = "swap", op[c].kind # "write",
                      pc'[c] = "idle", reply'[c] = "conflict"
               PROVE  revision >= began[c] + MaxAttempts
    BY Zenon DEF vars
  <2>0. pc \in [Clients -> {"idle", "load", "resolve", "write", "swap"}] /\ pc'[c] # pc[c]
    BY Zenon DEF Inv, TypeOK
  <2>1. ASSUME NEW x \in Clients, NEW o PROVE ~Begin(x, o)
    BY <2>0, Zenon DEF Begin
  <2>2. ASSUME NEW x \in Clients PROVE ~Stat(x) /\ ~ResolveAndPut(x)
    BY <2>0, Zenon DEF Stat, ResolveAndPut, Return
  <2>3. ASSUME NEW x \in Clients, NEW error, pc[x] # "swap" PROVE ~Prepare(x, error)
    BY <2>0, <2>3, Zenon DEF Prepare, Return
  <2>4. ASSUME NEW x \in Clients PROVE ~LoadAndWrite(x) /\ ~LoadAndMutate(x)
    BY <2>3, Zenon DEF LoadAndWrite, LoadAndMutate
  <2>10. ASSUME NEW x \in Clients PROVE ~LoadFails(x)
    BY <2>0, Zenon DEF LoadFails, Return
  <2>5. PICK x \in Clients : CompareAndSwap(x) \/ SwapConflict(x) \/ SwapFails(x)
    BY <2>0, <2>1, <2>2, <2>4, <2>10, Zenon
       DEF Next, ClientStep, Maintain, CallMkdir, CallCreate, CallRename, CallRemove, CallWrite
  <2>6. x = c
    BY <2>0, <2>5, Zenon DEF CompareAndSwap, SwapConflict, SwapFails, Return
  <2>7. SwapConflict(c)
    BY <2>5, <2>6, ZenonT(30) DEF CompareAndSwap, SwapFails, Return, Inv, TypeOK
  <2>8. attempts[c] + 1 >= MaxAttempts /\ revision # basis[c]
    BY <2>0, <2>7, Zenon DEF SwapConflict, Inv, TypeOK
  <2>9. /\ revision \in Nat /\ began[c] \in Nat /\ attempts[c] \in Nat /\ basis[c] \in Nat
        /\ MaxAttempts \in Nat
    BY ClientAssumption DEF Inv, TypeOK
  <2> QED
    BY <2>8, <2>9 DEF Overtaken
<1> QED
  BY <1>1, <1>2, <1>3, Invariance, PTL DEF Spec, ConflictMeansProgress
=============================================================================
