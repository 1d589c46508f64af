-------------------------- MODULE AtomicFilesystem --------------------------
(***************************************************************************)
(* What the metadata operations promise their clients: a call takes effect *)
(* in one step between its start and its return, or not at all.  No        *)
(* revision, no copy, no retry.  Ok says that it took effect, an error of  *)
(* its own and Conflict that it did not; MetadataUnavailable leaves open   *)
(* which of the two happened.                                              *)
(*                                                                         *)
(* A write resolves its path to a file first and takes effect on that file *)
(* later, like a write through an open handle.                             *)
(***************************************************************************)
EXTENDS MetadataSnapshot

CONSTANT Clients

VARIABLES metadata,  \* the filesystem
          issued,    \* ids in use, now or before
          op,        \* the call each client makes, or Idle
          file,      \* the file a write resolved its path to, Root before
          reply      \* what the last call returned

vars == <<metadata, issued, op, file, reply>>

Init ==
  /\ metadata = DefaultSnapshot
  /\ issued = {Root}
  /\ op = [c \in Clients |-> Idle]
  /\ file = [c \in Clients |-> Root]
  /\ reply = [c \in Clients |-> "none"]

Return(c, result) ==
  /\ op[c] # Idle
  /\ op' = [op EXCEPT ![c] = Idle]
  /\ file' = [file EXCEPT ![c] = Root]
  /\ reply' = [reply EXCEPT ![c] = result]
  /\ UNCHANGED issued

Call(c) ==
  /\ op[c] = Idle
  /\ op'[c] \in Calls
  /\ op' = [op EXCEPT ![c] = op'[c]]
  /\ IF op'[c].kind \in {"mkdir", "create"}
     THEN op'[c].id \notin issued /\ issued' = issued \cup {op'[c].id}
     ELSE UNCHANGED issued
  /\ reply' = [reply EXCEPT ![c] = "none"]
  /\ UNCHANGED <<metadata, file>>

Open(c) ==
  /\ op[c].kind = "write"
  /\ file[c] = Root
  /\ \E f \in ResolveFile(metadata, op[c].at) : file' = [file EXCEPT ![c] = f]
  /\ UNCHANGED <<metadata, issued, op, reply>>

Perform(c) ==
  /\ metadata' \in Effect(metadata, op[c], file[c])
  /\ Return(c, "ok")

\* An error means that the call was impossible at that moment (or, for a write,
\* that its bytes could not be stored).
Refuse(c) ==
  /\ op[c].kind = "write" \/ Effect(metadata, op[c], file[c]) = {}
  /\ Return(c, "error")
  /\ UNCHANGED metadata

\* Too many concurrent commits, or a write whose generation is stale.
GiveUp(c) == Return(c, "conflict") /\ UNCHANGED metadata

\* MetadataUnavailable: the store failed, before the call took effect or after.
Fail(c) ==
  /\ metadata' = metadata \/ metadata' \in Effect(metadata, op[c], file[c])
  /\ Return(c, "unavailable")

\* Replica states change by themselves.
Maintain ==
  /\ \E c \in ContentIds : metadata' \in MaintainPlacement(metadata, c)
  /\ UNCHANGED <<issued, op, file, reply>>

Next ==
  \/ \E c \in Clients : Call(c) \/ Open(c) \/ Perform(c) \/ Refuse(c) \/ GiveUp(c)
                         \/ Fail(c)
  \/ Maintain

Spec == Init /\ [][Next]_vars
=============================================================================
