------------------------- MODULE LocalContentStore -------------------------
(***************************************************************************)
(* The blobs a device keeps (kubeweft-filesystem, content.rs): one file    *)
(* per content, named after its hash, in a directory that an agent and     *)
(* local tools open at the same time.  A put writes a temporary file and   *)
(* renames it, under a mutex of the process and the lock file of the       *)
(* directory; a get takes neither.  A temporary file that a failed put     *)
(* leaves behind stays, and counts as used space.                          *)
(*                                                                         *)
(* Callers are threads; Home gives the process of each.  A file is "whole" *)
(* when its bytes hash to its name, "damaged" when the medium spoilt it,   *)
(* and "partial" if it ever got its name before all of its bytes.          *)
(***************************************************************************)
EXTENDS Integers, FiniteSets

CONSTANTS Contents, Callers, Processes,
          Home,      \* caller -> its process
          Size,      \* content -> its length
          Capacity,
          None,
          MaxFaults  \* bound: crashes, failures, damaged files, lost connections

ASSUME LocalContentStoreAssumption ==
  /\ None \notin Callers \cup Contents
  /\ Home \in [Callers -> Processes]
  /\ Size \in [Contents -> Nat]
  /\ Capacity \in Nat /\ MaxFaults \in Nat

VARIABLES blob,       \* content -> its file
          temporary,  \* content -> the length of its temporary file
          mutex,      \* process -> the caller that holds write_lock
          lockFile,   \* the caller that holds .lock
          pc,         \* of each caller: where it is, or what its call returned
          call,       \* of each caller: its call, and how much it wrote
          faults

store == <<blob, temporary, mutex, lockFile, pc, call>>

NoTemporary == -1
NoCall == [op |-> "none", content |-> None, written |-> 0]

\* ContentId::matches
Matches(file) == file = "whole"

\* The bytes of a file of length n.
File(name, c, n) == {<<name, c, i>> : i \in 1 .. n}

BlobLength(c) == IF blob[c] = "absent" THEN 0 ELSE Size[c]

\* Every byte of the directory, those of temporary files included.
Bytes == UNION {File("blob", c, BlobLength(c)) \cup File("tmp", c, temporary[c]) : c \in Contents}

\* used_space adds up the lengths of the files.
UsedSpace == Cardinality(Bytes)

StoreInit ==
  /\ blob = [c \in Contents |-> "absent"]
  /\ temporary = [c \in Contents |-> NoTemporary]
  /\ mutex = [p \in Processes |-> None]
  /\ lockFile = None
  /\ pc = [x \in Callers |-> "idle"]
  /\ call = [x \in Callers |-> NoCall]
  /\ faults = 0

Goto(x, l) == pc' = [pc EXCEPT ![x] = l]

\* What a call does first; get and exists read the directory in one step and
\* change nothing.
Begin(x, op, c) ==
  /\ pc[x] = "idle"
  /\ Goto(x, "mutex")
  /\ call' = [call EXCEPT ![x] = [op |-> op, content |-> c, written |-> 0]]
  /\ UNCHANGED <<blob, temporary, mutex, lockFile, faults>>

\* The caller takes the result.
Take(x) ==
  /\ pc[x] \in {"ok", "no_space", "failed"}
  /\ Goto(x, "idle")
  /\ UNCHANGED <<blob, temporary, mutex, lockFile, call, faults>>

\* Both guards are dropped, whatever the call returns.
Return(x, result) ==
  /\ Goto(x, result)
  /\ call' = [call EXCEPT ![x] = NoCall]
  /\ mutex' = [mutex EXCEPT ![Home[x]] = None]
  /\ lockFile' = IF lockFile = x THEN None ELSE lockFile

LockMutex(x) ==
  /\ pc[x] = "mutex" /\ mutex[Home[x]] = None
  /\ mutex' = [mutex EXCEPT ![Home[x]] = x]
  /\ Goto(x, "lock")
  /\ UNCHANGED <<blob, temporary, lockFile, call, faults>>

\* Mutant: the lock of the process is taken for a lock of the directory.
LockFileSkipped(x) ==
  /\ pc[x] = "lock"
  /\ Goto(x, IF call[x].op = "put" THEN "inspect" ELSE "unlink")
  /\ UNCHANGED <<blob, temporary, mutex, lockFile, call, faults>>

LockFile(x) ==
  /\ pc[x] = "lock" /\ lockFile = None
  /\ lockFile' = x
  /\ Goto(x, IF call[x].op = "put" THEN "inspect" ELSE "unlink")
  /\ UNCHANGED <<blob, temporary, mutex, call, faults>>

\* A file that matches is the answer; another one is removed first.
Inspect(x) ==
  /\ pc[x] = "inspect"
  /\ LET c == call[x].content
     IN  \/ /\ Matches(blob[c])
            /\ Return(x, "ok")
            /\ UNCHANGED <<blob, temporary, faults>>
         \/ /\ ~Matches(blob[c])
            /\ blob' = [blob EXCEPT ![c] = "absent"]
            /\ Goto(x, "reserve")
            /\ UNCHANGED <<temporary, mutex, lockFile, call, faults>>

\* The temporary file is created, or truncated, once there is room.
Reserve(x) ==
  /\ pc[x] = "reserve"
  /\ LET c == call[x].content
     IN  \/ /\ UsedSpace + Size[c] > Capacity
            /\ Return(x, "no_space")
            /\ UNCHANGED <<blob, temporary, faults>>
         \/ /\ UsedSpace + Size[c] <= Capacity
            /\ temporary' = [temporary EXCEPT ![c] = 0]
            /\ Goto(x, "write")
            /\ UNCHANGED <<blob, mutex, lockFile, call, faults>>

\* write_all takes one write or several.
WriteTemporary(x) ==
  /\ pc[x] = "write"
  /\ LET c == call[x].content
     IN  \E n \in call[x].written + 1 .. Size[c] :
           /\ temporary' = [temporary EXCEPT ![c] = n]
           /\ call' = [call EXCEPT ![x].written = n]
  /\ UNCHANGED <<blob, mutex, lockFile, pc, faults>>

\* The temporary file, as it is by now, gets its name.
Publish(x, c) ==
  /\ temporary[c] # NoTemporary
  /\ blob' = [blob EXCEPT ![c] = IF temporary[c] = Size[c] THEN "whole" ELSE "partial"]
  /\ temporary' = [temporary EXCEPT ![c] = NoTemporary]
  /\ Return(x, "ok")
  /\ UNCHANGED faults

\* Mutant: the rename does not wait for the bytes.
RenameEarly(x) ==
  /\ pc[x] = "write"
  /\ Publish(x, call[x].content)

\* sync_all and rename
Rename(x) ==
  /\ pc[x] = "write" /\ call[x].written = Size[call[x].content]
  /\ Publish(x, call[x].content)

\* delete: the blob, and not a temporary file of its name.
Unlink(x) ==
  /\ pc[x] = "unlink"
  /\ blob' = [blob EXCEPT ![call[x].content] = "absent"]
  /\ Return(x, "ok")
  /\ UNCHANGED <<temporary, faults>>

\* An error of the operating system: the call returns it and the files stay.
Fail(x) ==
  /\ pc[x] \in {"lock", "inspect", "reserve", "write", "unlink"}
  /\ faults < MaxFaults /\ faults' = faults + 1
  /\ Return(x, "failed")
  /\ UNCHANGED <<blob, temporary>>

\* The process ends: its locks are gone, the files stay.
Crash(p) ==
  LET Its == {x \in Callers : Home[x] = p}
  IN  /\ faults < MaxFaults /\ faults' = faults + 1
      /\ pc' = [x \in Callers |-> IF x \in Its THEN "idle" ELSE pc[x]]
      /\ call' = [x \in Callers |-> IF x \in Its THEN NoCall ELSE call[x]]
      /\ mutex' = [mutex EXCEPT ![p] = None]
      /\ lockFile' = IF lockFile \in Its THEN None ELSE lockFile
      /\ UNCHANGED <<blob, temporary>>

\* The medium spoils a file.
Damage(c) ==
  /\ blob[c] = "whole" /\ Size[c] > 0
  /\ faults < MaxFaults /\ faults' = faults + 1
  /\ blob' = [blob EXCEPT ![c] = "damaged"]
  /\ UNCHANGED <<temporary, mutex, lockFile, pc, call>>

-----------------------------------------------------------------------------
(* Properties *)

\* The directory never holds more than the capacity it was opened with, the
\* temporary files of puts under way and of failed ones included, although two
\* processes compare it with what they find (content.rs:167).
CapacityRespected == UsedSpace <= Capacity

\* A blob never carries the name of a content before it has all of its bytes,
\* whichever process puts, fails or ends meanwhile: a reader, which takes no
\* lock, finds no half-written file (content.rs:174).
BlobsAreWhole == \A c \in Contents : blob[c] # "partial"
=============================================================================
