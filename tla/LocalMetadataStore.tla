------------------------- MODULE LocalMetadataStore -------------------------
(***************************************************************************)
(* LocalMetadataStore (metadata.rs): a snapshot in one file, replaced as a *)
(* whole through a temporary file, between a mutex per process and a lock  *)
(* file shared by the processes.  A process may stop at any step: its      *)
(* locks are released, the files stay as they are.  What a power failure   *)
(* leaves on disk is not modelled.                                         *)
(***************************************************************************)
EXTENDS Naturals, FiniteSets

CONSTANTS Callers, Contents, Initial, MaxRevision,
          ProcessOf,    \* caller -> its process
          Truncated,    \* the content of a file that is not written to the end
          NoCaller

Processes == {ProcessOf[c] : c \in Callers}

ASSUME LocalStoreAssumption ==
  /\ NoCaller \notin Callers /\ Initial \in Contents /\ Truncated \notin Contents /\ MaxRevision \in Nat
  /\ ProcessOf \in [Callers -> Processes]

VARIABLES file,       \* the snapshot at `path`
          temporary,  \* the snapshot in the temporary file, or Partial
          guard,      \* process -> holder of process_lock
          readers,    \* callers that hold the lock file shared
          writer,     \* caller that holds it exclusively
          pc, view, reply,
          next        \* the replacement of a caller

locks == <<guard, readers, writer>>
vars == <<file, temporary, locks, pc, view, reply, next>>

Snapshots == [revision : Nat, content : Contents]
Default == [revision |-> 0, content |-> Initial]
Partial == [revision |-> 0, content |-> Truncated]

Goto(c, l) == pc' = [pc EXCEPT ![c] = l]

-----------------------------------------------------------------------------
\* read_snapshot takes a missing file for the default snapshot.
Init ==
  /\ file = Default /\ temporary = Partial
  /\ guard = [p \in Processes |-> NoCaller]
  /\ readers = {} /\ writer = NoCaller
  /\ pc = [c \in Callers |-> "idle"]
  /\ view = [c \in Callers |-> Default]
  /\ reply = [c \in Callers |-> "none"]
  /\ next = [c \in Callers |-> Default]

\* process_lock
TakeGuard(c) ==
  /\ guard[ProcessOf[c]] = NoCaller
  /\ guard' = [guard EXCEPT ![ProcessOf[c]] = c]

BeginLoad(c) ==
  /\ pc[c] = "idle"
  /\ TakeGuard(c)
  /\ Goto(c, "load")
  /\ UNCHANGED <<file, temporary, readers, writer, view, reply, next>>

LockShared(c) ==
  /\ pc[c] = "load" /\ writer = NoCaller
  /\ readers' = readers \cup {c}
  /\ Goto(c, "read")
  /\ UNCHANGED <<file, temporary, guard, writer, view, reply, next>>

\* Reads the file and lets go of both locks.
Read(c) ==
  /\ pc[c] = "read"
  /\ view' = [view EXCEPT ![c] = file]
  /\ reply' = [reply EXCEPT ![c] = "loaded"]
  /\ readers' = readers \ {c}
  /\ guard' = [guard EXCEPT ![ProcessOf[c]] = NoCaller]
  /\ Goto(c, "idle")
  /\ UNCHANGED <<file, temporary, writer, next>>

BeginSwap(c) ==
  /\ pc[c] = "idle" /\ reply[c] = "loaded"
  /\ view[c].revision < MaxRevision
  /\ TakeGuard(c)
  /\ \E x \in Contents :
       next' = [next EXCEPT ![c] = [revision |-> view[c].revision, content |-> x]]
  /\ Goto(c, "swap")
  /\ UNCHANGED <<file, temporary, readers, writer, view, reply>>

\* Mutant: a shared lock is enough.
LockExclusiveShared(c) ==
  /\ pc[c] = "swap" /\ writer = NoCaller
  /\ readers' = readers \cup {c}
  /\ Goto(c, "compare")
  /\ UNCHANGED <<file, temporary, guard, writer, view, reply, next>>

LockExclusive(c) ==
  /\ pc[c] = "swap" /\ writer = NoCaller /\ readers = {}
  /\ writer' = c
  /\ Goto(c, "compare")
  /\ UNCHANGED <<file, temporary, guard, readers, view, reply, next>>

\* Mutant: the process lock is kept after a conflict.
ReleaseWriterOnly(c) ==
  /\ writer' = IF writer = c THEN NoCaller ELSE writer
  /\ readers' = readers \ {c}
  /\ UNCHANGED guard

\* The locks are released when the call returns.
Release(c) ==
  /\ writer' = IF writer = c THEN NoCaller ELSE writer
  /\ readers' = readers \ {c}
  /\ guard' = [guard EXCEPT ![ProcessOf[c]] = NoCaller]

\* compare_and_swap consumes the replacement and the snapshot it was made of.
Consume(c) ==
  /\ view' = [view EXCEPT ![c] = Default]
  /\ next' = [next EXCEPT ![c] = Default]

\* Mutant: the revision is not compared.
CompareSkipped(c) ==
  /\ pc[c] = "compare"
  /\ next' = [next EXCEPT ![c].revision = @ + 1]
  /\ Goto(c, "create")
  /\ UNCHANGED <<file, temporary, locks, view, reply>>

Compare(c) ==
  /\ pc[c] = "compare"
  /\ IF file.revision = next[c].revision
     THEN /\ next' = [next EXCEPT ![c].revision = @ + 1]
          /\ Goto(c, "create")
          /\ UNCHANGED <<locks, view, reply>>
     ELSE /\ reply' = [reply EXCEPT ![c] = "conflict"]
          /\ Release(c)
          /\ Consume(c)
          /\ Goto(c, "idle")
  /\ UNCHANGED <<file, temporary>>

\* persist: create or truncate, write, rename
Create(c) ==
  /\ pc[c] = "create"
  /\ temporary' = Partial
  /\ Goto(c, "write")
  /\ UNCHANGED <<file, locks, view, reply, next>>

Write(c) ==
  /\ pc[c] = "write"
  /\ temporary' = next[c]
  /\ Goto(c, "rename")
  /\ UNCHANGED <<file, locks, view, reply, next>>

Rename(c) ==
  /\ pc[c] = "rename"
  /\ file' = temporary
  /\ temporary' = Partial
  /\ Consume(c)
  /\ Goto(c, "unlock")
  /\ UNCHANGED <<locks, reply>>

Unlock(c) ==
  /\ pc[c] = "unlock"
  /\ reply' = [reply EXCEPT ![c] = "ok"]
  /\ Release(c)
  /\ Goto(c, "idle")
  /\ UNCHANGED <<file, temporary, view, next>>

\* A file operation fails: the call returns MetadataUnavailable, also when only the
\* unlocking failed and the file is already replaced.
Fail(c) ==
  /\ pc[c] # "idle"
  /\ reply' = [reply EXCEPT ![c] = "error"]
  /\ Release(c)
  /\ Consume(c)
  /\ Goto(c, "idle")
  /\ UNCHANGED <<file, temporary>>

Stop(p) ==
  LET gone == {c \in Callers : ProcessOf[c] = p}
  IN  /\ pc' = [c \in Callers |-> IF c \in gone THEN "idle" ELSE pc[c]]
      /\ view' = [c \in Callers |-> IF c \in gone THEN Default ELSE view[c]]
      /\ reply' = [c \in Callers |-> IF c \in gone THEN "none" ELSE reply[c]]
      /\ next' = [c \in Callers |-> IF c \in gone THEN Default ELSE next[c]]
      /\ guard' = [guard EXCEPT ![p] = NoCaller]
      /\ readers' = readers \ gone
      /\ writer' = IF writer \in gone THEN NoCaller ELSE writer
      /\ UNCHANGED <<file, temporary>>

Continue(c) ==
  \/ LockShared(c) \/ Read(c)
  \/ LockExclusive(c) \/ Compare(c) \/ Create(c) \/ Write(c) \/ Rename(c) \/ Unlock(c)

Next ==
  \/ \E c \in Callers : BeginLoad(c) \/ BeginSwap(c) \/ Continue(c) \/ Fail(c)
  \/ \E p \in Processes : Stop(p)

Spec == Init /\ [][Next]_vars

-----------------------------------------------------------------------------
(* Properties *)

TypeOK ==
  /\ file \in Snapshots
  /\ temporary \in Snapshots \cup {Partial}
  /\ guard \in [Processes -> Callers \cup {NoCaller}]
  /\ readers \in SUBSET Callers /\ writer \in Callers \cup {NoCaller}
  /\ pc \in [Callers -> {"idle", "load", "read", "swap", "compare", "create", "write",
                         "rename", "unlock"}]
  /\ view \in [Callers -> Snapshots]
  /\ reply \in [Callers -> {"none", "loaded", "ok", "conflict", "error"}]
  /\ next \in [Callers -> Snapshots]

\* No caller is locked out for good: as long as calls are under way in a process,
\* one of all calls under way can take its next step, wherever a process stopped
\* or returned with an error.
NoGridlock ==
  \A p \in Processes :
    guard[p] # NoCaller => \E c \in Callers : pc[c] # "idle" /\ ENABLED Continue(c)

\* compare_and_swap takes effect when the file is replaced.
Register == INSTANCE MetadataRegister
  WITH current <- file,
       reply <- [c \in Callers |-> IF pc[c] = "unlock" THEN "ok" ELSE reply[c]]

\* "Persistent local backend using atomic whole-snapshot replacement"
\* (metadata.rs): calls of threads and processes that overlap, and processes that
\* stop half-way, look like calls that act at once on one snapshot.
ImplementsRegister == Register!Spec
=============================================================================
