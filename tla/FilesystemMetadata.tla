------------------------- MODULE FilesystemMetadata -------------------------
(***************************************************************************)
(* Clients of the filesystem metadata: Namespace::{mkdir, create, rename,  *)
(* remove, stat} (namespace.rs) and FilesystemService::write (service.rs)  *)
(* over MetadataStore::{load, compare_and_swap} (metadata.rs).             *)
(*                                                                         *)
(* A client is a thread or a process (the desktop application and the      *)
(* command line open the same store).  Every load and every compare-and-   *)
(* swap is a step of its own; the closure given to retry_mutation runs on  *)
(* a private copy and belongs to the step of the load before it.           *)
(*                                                                         *)
(* The store may fail at every load and at every swap.  compare_and_swap   *)
(* of the shared store reports the failure of its last step, letting go of *)
(* the lock file, after the new snapshot is in place: a swap that fails    *)
(* may have taken effect.  A process that stops in the middle of a call is *)
(* the same with nobody there to be told.                                  *)
(*                                                                         *)
(* `metadata` and `revision` are the two halves of the stored snapshot;    *)
(* `replacement` and `basis` those of the copy a client is about to swap   *)
(* in.  The bytes of a write are not modelled here: put_on either stores   *)
(* them or fails.                                                          *)
(***************************************************************************)
EXTENDS MetadataSnapshot

CONSTANTS Clients,
          CallKinds,   \* the kinds of calls they make
          MaxAttempts, \* retry_mutation: 8
          MaxRevision  \* bound: no call begins once this many commits were made

ASSUME ClientAssumption == /\ MaxAttempts \in Nat \ {0}
                           /\ MaxRevision \in Nat

VARIABLES metadata,    \* the stored snapshot
          revision,    \* MetadataSnapshot.revision
          issued,      \* ids made by FileId::new and DirectoryId::new so far
          pc,          \* where each client is
          op,          \* the call it makes
          file,        \* the file a write resolved its path to, Root before
          replacement, \* the snapshot it will swap in
          basis,       \* the revision it loaded
          attempts,    \* failed swaps of the call
          began,       \* history: the revision when the call began
          reply,       \* what the last call returned
          seen         \* the metadata that its last stat or write returned

callVars == <<op, file, replacement, basis, attempts, began>>
vars == <<metadata, revision, issued, pc, op, file, replacement, basis,
          attempts, began, reply, seen>>

Seen == [at : Paths, file : FileIds, generation : Nat,
         content : ContentIds \cup {NoContent}]

NotSeen == [kind |-> "nothing"]

-----------------------------------------------------------------------------
Init ==
  /\ metadata = DefaultSnapshot
  /\ revision = 0
  /\ issued = {Root}
  /\ pc = [c \in Clients |-> "idle"]
  /\ op = [c \in Clients |-> Idle]
  /\ file = [c \in Clients |-> Root]
  /\ replacement = [c \in Clients |-> DefaultSnapshot]
  /\ basis = [c \in Clients |-> 0]
  /\ attempts = [c \in Clients |-> 0]
  /\ began = [c \in Clients |-> 0]
  /\ reply = [c \in Clients |-> "none"]
  /\ seen = [c \in Clients |-> NotSeen]

\* The call returns; what it kept on the stack goes away.
Return(c, result) ==
  /\ pc' = [pc EXCEPT ![c] = "idle"]
  /\ op' = [op EXCEPT ![c] = Idle]
  /\ replacement' = [replacement EXCEPT ![c] = DefaultSnapshot]
  /\ basis' = [basis EXCEPT ![c] = 0]
  /\ attempts' = [attempts EXCEPT ![c] = 0]
  /\ began' = [began EXCEPT ![c] = 0]
  /\ reply' = [reply EXCEPT ![c] = result]
  /\ file' = [file EXCEPT ![c] = Root]

\* Mutant: the revision is taken from the first load only.
PrepareOnce(c, error) ==
  /\ \/ /\ Effect(metadata, op[c], file[c]) # {}
        /\ replacement' \in {[replacement EXCEPT ![c] = r] :
                               r \in Effect(metadata, op[c], file[c])}
        /\ basis' = [basis EXCEPT ![c] = IF attempts[c] = 0 THEN revision ELSE @]
        /\ pc' = [pc EXCEPT ![c] = "swap"]
        /\ UNCHANGED <<op, file, attempts, began, reply>>
     \/ /\ Effect(metadata, op[c], file[c]) = {}
        /\ Return(c, error)
  /\ UNCHANGED <<metadata, revision, issued, seen>>

\* The load and the closure of retry_mutation, or the load and the checks of
\* write: prepares a replacement or returns an error without a swap.
Prepare(c, error) ==
  /\ \/ /\ Effect(metadata, op[c], file[c]) # {}
        /\ replacement' \in {[replacement EXCEPT ![c] = r] :
                               r \in Effect(metadata, op[c], file[c])}
        /\ basis' = [basis EXCEPT ![c] = revision]
        /\ pc' = [pc EXCEPT ![c] = "swap"]
        /\ UNCHANGED <<op, file, attempts, began, reply>>
     \/ /\ Effect(metadata, op[c], file[c]) = {}
        /\ Return(c, error)
  /\ UNCHANGED <<metadata, revision, issued, seen>>

Begin(c, o) ==
  /\ pc[c] = "idle"
  /\ o.kind \in CallKinds
  /\ revision < MaxRevision
  /\ op' = [op EXCEPT ![c] = o]
  /\ pc' = [pc EXCEPT ![c] = IF o.kind = "write" THEN "resolve" ELSE "load"]
  /\ began' = [began EXCEPT ![c] = revision]
  /\ reply' = [reply EXCEPT ![c] = "none"]
  /\ UNCHANGED <<metadata, revision, file, replacement, basis, attempts, seen>>

CallMkdir(c) == \E o \in Mkdirs :
  /\ o.id \notin issued
  /\ issued' = issued \cup {o.id}
  /\ Begin(c, o)

CallCreate(c) == \E o \in Creates :
  /\ o.id \notin issued
  /\ issued' = issued \cup {o.id}
  /\ Begin(c, o)

CallRename(c) == \E o \in Renames : Begin(c, o) /\ UNCHANGED issued

CallRemove(c) == \E o \in Removes : Begin(c, o) /\ UNCHANGED issued

\* Either no expected generation, or the one the client's last stat of the
\* path returned.
CallWrite(c) ==
  \E at \in Paths, content \in ContentIds, node \in Nodes, supplied \in BOOLEAN :
    /\ supplied => seen[c] # NotSeen /\ seen[c].at = at
    /\ Begin(c, [kind |-> "write", at |-> at, content |-> content, node |-> node,
                 expected |-> IF supplied THEN seen[c].generation ELSE 0])
    /\ UNCHANGED issued

\* Namespace::stat
Stat(c) ==
  /\ pc[c] = "idle"
  /\ \E at \in Paths : \E f \in ResolveFile(metadata, at) :
       seen' = [seen EXCEPT ![c] =
                  [at |-> at, file |-> f,
                   generation |-> metadata.files[f].generation,
                   content |-> metadata.files[f].manifest]]
  /\ UNCHANGED <<metadata, revision, issued, pc, reply, callVars>>

\* write: resolve the path, then put the bytes on the source node.
ResolveAndPut(c) ==
  /\ pc[c] = "resolve"
  /\ \/ \E f \in ResolveFile(metadata, op[c].at) :
          /\ file' = [file EXCEPT ![c] = f]
          /\ pc' = [pc EXCEPT ![c] = "write"]
          /\ UNCHANGED <<op, replacement, basis, attempts, began, reply>>
     \/ Return(c, "error")    \* not a file, node offline or no space
  /\ UNCHANGED <<metadata, revision, issued, seen>>

\* A file that is gone is reported as MetadataUnavailable.
LoadAndWrite(c) ==
  /\ pc[c] = "write"
  /\ Prepare(c, IF HasFile(metadata, file[c]) THEN "conflict" ELSE "unavailable")

LoadAndMutate(c) == pc[c] = "load" /\ Prepare(c, "error")

\* load fails: resolve, retry_mutation and write return its error.
LoadFails(c) ==
  /\ pc[c] \in {"resolve", "write", "load"}
  /\ Return(c, "unavailable")
  /\ UNCHANGED <<metadata, revision, issued, seen>>

\* What write returns: the metadata it committed.
Committed(c) ==
  [at |-> op[c].at, file |-> file[c],
   generation |-> replacement[c].files[file[c]].generation,
   content |-> op[c].content]

Install(c) ==
  /\ revision = basis[c]
  /\ metadata' = replacement[c]
  /\ revision' = revision + 1

CompareAndSwap(c) ==
  /\ pc[c] = "swap"
  /\ Install(c)
  /\ seen' = IF op[c].kind = "write" THEN [seen EXCEPT ![c] = Committed(c)] ELSE seen
  /\ Return(c, "ok")
  /\ UNCHANGED issued

\* Mutant: a swap that failed is tried again.
SwapFailsRetried(c) ==
  /\ pc[c] = "swap"
  /\ Install(c) \/ UNCHANGED <<metadata, revision>>
  /\ pc' = [pc EXCEPT ![c] = IF op[c].kind = "write" THEN "write" ELSE "load"]
  /\ UNCHANGED <<issued, seen, reply, callVars>>

\* Every other error of compare_and_swap is returned as it is: the store could
\* not be locked, read or written, or not be unlocked after a conflict or after
\* the snapshot was replaced.
SwapFails(c) ==
  /\ pc[c] = "swap"
  /\ Install(c) \/ UNCHANGED <<metadata, revision>>
  /\ Return(c, "unavailable")
  /\ UNCHANGED <<issued, seen>>

\* Mutant: one more attempt than there are.
SwapConflictOnceMore(c) ==
  /\ pc[c] = "swap"
  /\ revision # basis[c]
  /\ \/ /\ op[c].kind # "write"
        /\ attempts[c] < MaxAttempts
        /\ attempts' = [attempts EXCEPT ![c] = @ + 1]
        /\ pc' = [pc EXCEPT ![c] = "load"]
        /\ UNCHANGED <<op, file, replacement, basis, began, reply>>
     \/ /\ op[c].kind = "write" \/ attempts[c] >= MaxAttempts
        /\ Return(c, "conflict")
  /\ UNCHANGED <<metadata, revision, issued, seen>>

\* Mutant: a failed swap takes the new revision and keeps the old copy.
SwapConflictRebased(c) ==
  /\ pc[c] = "swap"
  /\ revision # basis[c]
  /\ basis' = [basis EXCEPT ![c] = revision]
  /\ UNCHANGED <<metadata, revision, issued, pc, op, file, replacement, attempts,
                 began, reply, seen>>

\* A failed swap: retry_mutation loads again, write gives up at once.
SwapConflict(c) ==
  /\ pc[c] = "swap"
  /\ revision # basis[c]
  /\ \/ /\ op[c].kind # "write"
        /\ attempts[c] + 1 < MaxAttempts
        /\ attempts' = [attempts EXCEPT ![c] = @ + 1]
        /\ pc' = [pc EXCEPT ![c] = "load"]
        /\ UNCHANGED <<op, file, replacement, basis, began, reply>>
     \/ /\ op[c].kind = "write" \/ attempts[c] + 1 >= MaxAttempts
        /\ Return(c, "conflict")
  /\ UNCHANGED <<metadata, revision, issued, seen>>

\* A reader or a reconciler commits a placement.  Its load and its swap are one
\* step here: a swap that succeeds follows the load with no commit between.
Maintain ==
  /\ "maintain" \in CallKinds
  /\ revision < MaxRevision
  /\ \E c \in ContentIds :
       /\ metadata.placements[c] # {}
       /\ metadata' \in MaintainPlacement(metadata, c)
  /\ revision' = revision + 1
  /\ UNCHANGED <<issued, pc, op, file, replacement, basis, attempts, began, reply, seen>>

ClientStep ==
  \E c \in Clients :
    \/ CallMkdir(c) \/ CallCreate(c) \/ CallRename(c) \/ CallRemove(c)
    \/ CallWrite(c) \/ Stat(c)
    \/ ResolveAndPut(c) \/ LoadAndWrite(c) \/ LoadAndMutate(c)
    \/ LoadFails(c) \/ CompareAndSwap(c) \/ SwapConflict(c) \/ SwapFails(c)

Next == ClientStep \/ Maintain

Spec == Init /\ [][Next]_vars

-----------------------------------------------------------------------------
(* Properties *)

TypeOK ==
  /\ metadata \in Snapshots
  /\ revision \in Nat
  /\ issued \in SUBSET (FileIds \cup DirIds)
  /\ pc \in [Clients -> {"idle", "load", "resolve", "write", "swap"}]
  /\ op \in [Clients -> Calls \cup {Idle}]
  /\ file \in [Clients -> FileIds \cup {Root}]
  /\ replacement \in [Clients -> Snapshots]
  /\ basis \in [Clients -> Nat]
  /\ attempts \in [Clients -> 0..(MaxAttempts - 1)]
  /\ began \in [Clients -> Nat]
  /\ reply \in [Clients -> {"none", "ok", "error", "conflict", "unavailable"}]
  /\ seen \in [Clients -> Seen \cup {NotSeen}]

\* The namespace is one tree: whatever mkdir, create, rename and remove calls
\* interleave, no name is doubled, nothing dangles, nothing is cut off from the
\* root (two renames that move two directories below each other would do that).
NamespaceIsTree == IsTree(metadata)

\* Retention bookkeeping of write and remove: content is marked LiveReference
\* exactly while a file refers to it (so a garbage candidate is referred to by
\* no file), and referred content has a replica on record.
RetentionMatchesReferences == RetentionsAgree(metadata)

\* A generation names one content of a file: while the file a client saw still
\* has the generation it saw, it has the content it saw.  This is what lets a
\* supplied generation stand for the version a client read (service.rs, write).
GenerationNamesVersion ==
  \A c \in Clients :
    seen[c] # NotSeen /\ metadata.files[seen[c].file].generation = seen[c].generation
      => metadata.files[seen[c].file].manifest = seen[c].content

\* Every failed swap of a call is another call's success: a mutation that
\* returns Conflict was overtaken by MaxAttempts commits since it began, so the
\* clients together never spin (retry_mutation is lock-free).
ConflictMeansProgress ==
  [][\A c \in Clients :
       /\ pc[c] = "swap" /\ op[c].kind # "write"
       /\ pc'[c] = "idle" /\ reply'[c] = "conflict"
       => revision >= began[c] + MaxAttempts]_vars

\* DirectoryMetadata.generation counts the changes of a listing: whenever the
\* entries of a directory change, its generation grows, for the directory an
\* entry leaves and for the one it comes to (namespace.rs:168-170), whatever
\* other commits were made since the call loaded its snapshot.
ListingChangeBumpsGeneration ==
  [][\A d \in DirIds :
       Listing(metadata', d) # Listing(metadata, d)
         => \/ metadata'.directories[d] > metadata.directories[d]
            \/ metadata'.directories[d] = 0]_vars
=============================================================================
