-------------------------- MODULE MetadataSnapshot --------------------------
(***************************************************************************)
(* The authoritative metadata of the logical filesystem as a value, and    *)
(* what each operation makes of it: crates/kubeweft-filesystem             *)
(* (metadata.rs, domain.rs, the closures of namespace.rs, the commit of    *)
(* service.rs).  Nothing here is concurrent: FilesystemMetadata runs these *)
(* operators over the compare-and-swap store.                              *)
(*                                                                         *)
(* A result is the set of snapshots the operation may install: a singleton *)
(* when the code succeeds, {} when it returns an error.                    *)
(*                                                                         *)
(* Abstractions.  Time stamps, sizes and leases are left out.  The entry   *)
(* vector is a set: its order matters only to `find`, and UniqueNames      *)
(* (below) makes what `find` returns unique.  A file or directory absent   *)
(* from its map has generation 0.  A placement is the set of nodes with a  *)
(* replica on record, whatever its state (Replication has the states); a   *)
(* placement without a replica is no placement.                            *)
(***************************************************************************)
EXTENDS Naturals, FiniteSets, Sequences

CONSTANTS FileIds,     \* FileId
          DirIds,      \* DirectoryId
          Root,        \* DirectoryId::root()
          Names,       \* entry names
          ContentIds,  \* ContentId, one per distinct byte string
          NoContent,   \* FileMetadata.manifest = None
          Nodes,       \* DeviceId of storage nodes
          Paths        \* the paths that calls use, split by FsPath::split_parent

ASSUME IdsAssumption == /\ Root \in DirIds
                        /\ FileIds \cap DirIds = {}
                        /\ NoContent \notin ContentIds
                        /\ \A p \in Paths : p.parents \in Seq(Names) /\ p.name \in Names

Retentions == {"None", "LiveReference", "Snapshot", "GarbageCandidate"}

FileMetadata == [generation : Nat, manifest : ContentIds \cup {NoContent}]

NamespaceEntry == [parent : DirIds, name : Names, target : FileIds \cup DirIds]

Snapshots == [directories : [DirIds -> Nat],
              files       : [FileIds -> FileMetadata],
              entries     : SUBSET NamespaceEntry,
              placements  : [ContentIds -> SUBSET Nodes],
              retentions  : [ContentIds -> Retentions]]

NoFile == [generation |-> 0, manifest |-> NoContent]

\* MetadataSnapshot::default
DefaultSnapshot ==
  [directories |-> [d \in DirIds |-> IF d = Root THEN 1 ELSE 0],
   files       |-> [f \in FileIds |-> NoFile],
   entries     |-> {},
   placements  |-> [c \in ContentIds |-> {}],
   retentions  |-> [c \in ContentIds |-> "None"]]

-----------------------------------------------------------------------------
(* Queries *)

HasDirectory(s, d) == s.directories[d] > 0

HasFile(s, f) == s.files[f].generation > 0

IsContentLiveReferenced(s, c) == \E f \in FileIds : s.files[f].manifest = c

IsContentRetained(s, c) ==
  \/ s.retentions[c] \in {"LiveReference", "Snapshot"}
  \/ IsContentLiveReferenced(s, c)

EntriesAt(s, d, name) == {e \in s.entries : e.parent = d /\ e.name = name}

\* The entries that list returns for directory d.
Listing(s, d) == {e \in s.entries : e.parent = d}

EnsureAbsent(s, d, name) == EntriesAt(s, d, name) = {}

\* The directories that the loop of resolve_components visits, from the root.
IsWalk(s, path, walk) ==
  /\ walk[0] = Root
  /\ \A i \in 1..Len(path) :
       [parent |-> walk[i-1], name |-> path[i], target |-> walk[i]] \in s.entries

\* resolve_directory: {} stands for NotFound and NotDirectory.
ResolveDirectory(s, path) ==
  {walk[Len(path)] : walk \in {w \in [0..Len(path) -> DirIds] : IsWalk(s, path, w)}}

\* resolve, when the caller wants a file: {} also stands for IsDirectory.
ResolveFile(s, at) ==
  {f \in FileIds : \E d \in ResolveDirectory(s, at.parents) :
                     [parent |-> d, name |-> at.name, target |-> f] \in s.entries}

\* A set of directories that contains the parent of each of its members.
ParentClosed(s, S) ==
  \A e \in s.entries : e.target \in S => e.parent \in S

\* is_descendant: the loop from candidate to the root meets ancestor.  The
\* directories it visits are the least parent-closed set with candidate.
IsDescendant(s, candidate, ancestor) ==
  \A S \in SUBSET DirIds :
    candidate \in S /\ ParentClosed(s, S) => ancestor \in S

-----------------------------------------------------------------------------
(* Mutations *)

\* touch_directory, for each directory of a set
Touch(s, D) ==
  [s EXCEPT !.directories =
     [d \in DirIds |-> IF d \in D /\ s.directories[d] > 0
                       THEN s.directories[d] + 1 ELSE s.directories[d]]]

\* Mutant: the other files that hold the content are not looked for.
DropReferenceUnchecked(s, c) ==
  IF c = NoContent \/ s.retentions[c] = "Snapshot"
  THEN s
  ELSE [s EXCEPT !.retentions[c] = "GarbageCandidate"]

\* Contents whose last reference went away become garbage candidates; a
\* snapshot retention is kept.
DropReference(s, c) ==
  IF c = NoContent \/ IsContentLiveReferenced(s, c) \/ s.retentions[c] = "Snapshot"
  THEN s
  ELSE [s EXCEPT !.retentions[c] = "GarbageCandidate"]

AddDirectory(s, d, name, id) ==
  [s EXCEPT !.directories[id] = 1,
            !.entries = @ \cup {[parent |-> d, name |-> name, target |-> id]}]

AddFile(s, d, name, id) ==
  [s EXCEPT !.files[id] = [generation |-> 1, manifest |-> NoContent],
            !.entries = @ \cup {[parent |-> d, name |-> name, target |-> id]}]

\* The directory that a new entry goes to.
Vacant(s, at) == {d \in ResolveDirectory(s, at.parents) : EnsureAbsent(s, d, at.name)}

Mkdir(s, at, id) == {Touch(AddDirectory(s, d, at.name, id), {d}) : d \in Vacant(s, at)}

Create(s, at, id) == {Touch(AddFile(s, d, at.name, id), {d}) : d \in Vacant(s, at)}

\* Mutant: a directory may be moved below itself.
MoveAllowedBelowItself(s, e, from, d) ==
  e.parent \in ResolveDirectory(s, from.parents) /\ e.name = from.name

\* Entry e is the one that path `from` names, and may move to directory d.
MoveAllowed(s, e, from, d) ==
  /\ e.parent \in ResolveDirectory(s, from.parents)
  /\ e.name = from.name
  /\ e.target \in DirIds => ~IsDescendant(s, d, e.target)

\* Mutant: the directory the entry goes to is not touched.
MoveEntryTouchingSource(s, e, d, name) ==
  Touch([s EXCEPT !.entries = (@ \ {e}) \cup {[e EXCEPT !.parent = d, !.name = name]}],
        {e.parent})

MoveEntry(s, e, d, name) ==
  Touch([s EXCEPT !.entries = (@ \ {e}) \cup {[e EXCEPT !.parent = d, !.name = name]}],
        {e.parent, d})

Rename(s, from, to) ==
  UNION {{MoveEntry(s, e, d, to.name) :
            d \in {p \in Vacant(s, to) : MoveAllowed(s, e, from, p)}} :
         e \in s.entries}

RemoveEntry(s, e) == Touch([s EXCEPT !.entries = @ \ {e}], {e.parent})

RemoveFile(s, e) ==
  RemoveEntry(DropReference([s EXCEPT !.files[e.target] = NoFile],
                            s.files[e.target].manifest), e)

RemoveDirectory(s, e) ==
  RemoveEntry([s EXCEPT !.directories[e.target] = 0], e)

Remove(s, at) ==
  LET found == {e \in s.entries : /\ e.parent \in ResolveDirectory(s, at.parents)
                                  /\ e.name = at.name}
  IN  {RemoveFile(s, e) : e \in {x \in found : x.target \in FileIds}}
        \cup
      {RemoveDirectory(s, e) :
         e \in {x \in found : /\ x.target \in DirIds
                              /\ \A y \in s.entries : y.parent # x.target}}

\* Mutant: the generation does not move.
CommitWriteInPlace(s, f, c, n) ==
  LET written == [s EXCEPT !.files[f].manifest = c,
                           !.placements[c] = @ \cup {n},
                           !.retentions[c] = "LiveReference"]
  IN  DropReference(written, s.files[f].manifest)

\* The metadata that FilesystemService::write commits once the bytes of
\* content c are on node n.
CommitWrite(s, f, c, n) ==
  LET written == [s EXCEPT !.files[f] = [generation |-> @.generation + 1,
                                         manifest   |-> c],
                           !.placements[c] = @ \cup {n},
                           !.retentions[c] = "LiveReference"]
  IN  DropReference(written, s.files[f].manifest)

\* What readers and reconcilers commit for content c (mark_replica,
\* refresh_current_placement, upsert_replica): new states for replicas on
\* record, which are not modelled here, and new replicas of retained content.
MaintainPlacement(s, c) ==
  {s} \cup {[s EXCEPT !.placements[c] = @ \cup {n}] :
             n \in {m \in Nodes : IsContentRetained(s, c)}}

-----------------------------------------------------------------------------
(* Calls.  expected = 0 is a write without an expected generation. *)

Mkdirs  == [kind : {"mkdir"},  at : Paths, id : DirIds]
Creates == [kind : {"create"}, at : Paths, id : FileIds]
Renames == [kind : {"rename"}, from : Paths, to : Paths]
Removes == [kind : {"remove"}, at : Paths]
Writes  == [kind : {"write"},  at : Paths, content : ContentIds, node : Nodes,
            expected : Nat]

Calls == Mkdirs \cup Creates \cup Renames \cup Removes \cup Writes

Idle == [kind |-> "idle"]

\* The snapshots that a call may install over snapshot s; {} when it fails.
\* A write acts on the file f that it resolved its path to before.
Effect(s, o, f) ==
  CASE o.kind = "mkdir"  -> Mkdir(s, o.at, o.id)
    [] o.kind = "create" -> Create(s, o.at, o.id)
    [] o.kind = "rename" -> Rename(s, o.from, o.to)
    [] o.kind = "remove" -> Remove(s, o.at)
    [] o.kind = "write"  -> {CommitWrite(s, g, o.content, o.node) :
                               g \in {h \in {f} \cap FileIds :
                                        /\ HasFile(s, h)
                                        /\ o.expected \in {0, s.files[h].generation}}}
    [] OTHER -> {}

-----------------------------------------------------------------------------
(* What a well-formed snapshot satisfies *)

\* No two entries of a directory have the same name: what `find` and
\* `position` of namespace.rs return does not depend on the entry order.
UniqueNames(s) ==
  \A e1, e2 \in s.entries : e1.parent = e2.parent /\ e1.name = e2.name => e1 = e2

\* A file or a directory is in one place.
SingleParent(s) == \A e1, e2 \in s.entries : e1.target = e2.target => e1 = e2

\* Entries join existing directories to existing files and directories, and
\* every file and directory but the root has an entry.
NoDangling(s) ==
  /\ HasDirectory(s, Root)
  /\ \A e \in s.entries :
       /\ HasDirectory(s, e.parent)
       /\ e.target # Root
       /\ e.target \in DirIds => HasDirectory(s, e.target)
       /\ e.target \in FileIds => HasFile(s, e.target)
  /\ \A f \in FileIds : HasFile(s, f) => \E e \in s.entries : e.target = f
  /\ \A d \in DirIds \ {Root} : HasDirectory(s, d) => \E e \in s.entries : e.target = d

\* No directory is below itself: a set of directories other than the root has
\* a member whose parent is outside the set.
Acyclic(s) ==
  \A S \in SUBSET (DirIds \ {Root}) :
    S # {} /\ (\A d \in S : HasDirectory(s, d))
      => \E e \in s.entries : e.target \in S /\ e.parent \notin S

IsTree(s) == UniqueNames(s) /\ SingleParent(s) /\ NoDangling(s) /\ Acyclic(s)

\* Retentions and placements agree with what the files refer to.
RetentionsAgree(s) ==
  \A c \in ContentIds :
    /\ s.retentions[c] = "LiveReference" <=> IsContentLiveReferenced(s, c)
    /\ IsContentLiveReferenced(s, c) =>
         s.placements[c] # {}

\* A removed file keeps no manifest.
AbsentFilesEmpty(s) == \A f \in FileIds : ~HasFile(s, f) => s.files[f] = NoFile

\* The ids that mkdir and create insert are not in the snapshot yet.
Fresh(s, o) == /\ o.kind = "mkdir" => ~HasDirectory(s, o.id)
               /\ o.kind = "create" => ~HasFile(s, o.id)
=============================================================================
