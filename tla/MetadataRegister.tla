-------------------------- MODULE MetadataRegister --------------------------
(***************************************************************************)
(* What MetadataStore promises (metadata.rs): load and compare_and_swap    *)
(* act at once on one current snapshot, and a process may stop at any time *)
(* without harm to it.  InMemoryMetadataStore is this, behind a mutex.     *)
(***************************************************************************)
EXTENDS Naturals

CONSTANTS Callers,      \* threads that use the store
          Contents,     \* what a snapshot may say
          Initial,      \* the default snapshot
          MaxRevision   \* bound on the revision

VARIABLES current,  \* the stored snapshot
          view,     \* the snapshot each caller loaded last
          reply     \* what its last call returned

vars == <<current, view, reply>>

Snapshots == [revision : Nat, content : Contents]
Default == [revision |-> 0, content |-> Initial]

Init ==
  /\ current = Default
  /\ view = [c \in Callers |-> Default]
  /\ reply = [c \in Callers |-> "none"]

Load(c) ==
  /\ view' = [view EXCEPT ![c] = current]
  /\ reply' = [reply EXCEPT ![c] = "loaded"]
  /\ UNCHANGED current

\* A caller swaps what it made of the snapshot it loaded.
CompareAndSwap(c, x) ==
  /\ reply[c] = "loaded"
  /\ IF view[c].revision = current.revision
     THEN /\ current' = [revision |-> view[c].revision + 1, content |-> x]
          /\ reply' = [reply EXCEPT ![c] = "ok"]
     ELSE /\ reply' = [reply EXCEPT ![c] = "conflict"]
          /\ UNCHANGED current
  /\ view' = [view EXCEPT ![c] = Default]

\* The call fails; after a swap the error does not say whether it took effect.
Fail(c) ==
  /\ reply' = [reply EXCEPT ![c] = "error"]
  /\ view' = [view EXCEPT ![c] = Default]
  /\ UNCHANGED current

\* The process of the callers C stops; they start anew.
Stop(C) ==
  /\ view' = [c \in Callers |-> IF c \in C THEN Default ELSE view[c]]
  /\ reply' = [c \in Callers |-> IF c \in C THEN "none" ELSE reply[c]]
  /\ UNCHANGED current

Next ==
  \/ \E c \in Callers : Load(c) \/ Fail(c) \/ \E x \in Contents : CompareAndSwap(c, x)
  \/ \E C \in SUBSET Callers : Stop(C)

Spec == Init /\ [][Next]_vars
=============================================================================
