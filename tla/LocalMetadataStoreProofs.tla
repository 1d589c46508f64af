---------------------- MODULE LocalMetadataStoreProofs ----------------------
(***************************************************************************)
(* LocalMetadataStore implements MetadataRegister, for any number of       *)
(* processes and threads, contents and revisions.                          *)
(***************************************************************************)
EXTENDS LocalMetadataStore, TLAPS

-----------------------------------------------------------------------------
(* The inductive invariant *)

\* Where the lock file is held exclusively.
Writing == {"compare", "create", "write", "rename", "unlock"}

\* Who is between the locks holds them: process_lock from the first step of a call
\* on, the lock file shared while reading and exclusively while writing.
LocksHeld ==
  /\ \A c \in Callers : pc[c] # "idle" => guard[ProcessOf[c]] = c
  /\ \A c \in Callers : pc[c] = "read" => c \in readers
  /\ \A c \in Callers : pc[c] \in Writing => writer = c
  /\ writer # NoCaller => readers = {}

\* A replacement is made of the snapshot its caller loaded; once compared, that
\* snapshot is the one in the file; once written, the temporary file holds it.
SwapSound(c) ==
  /\ pc[c] \in {"swap", "compare", "create", "write", "rename"} => reply[c] = "loaded"
  /\ pc[c] \in {"swap", "compare"} => next[c].revision = view[c].revision
  /\ pc[c] \in {"create", "write", "rename"} =>
       /\ view[c].revision = file.revision
       /\ next[c].revision = file.revision + 1
  /\ pc[c] = "rename" => temporary = next[c]

IInv == TypeOK /\ LocksHeld /\ \A c \in Callers : SwapSound(c)

\* What is known of a caller and its process.
LEMMA CallerFacts ==
  ASSUME NEW c \in Callers
  PROVE  ProcessOf[c] \in Processes /\ c # NoCaller
BY LocalStoreAssumption, Zenon DEF Processes

\* Two snapshots in use.
LEMMA KnownSnapshots == Default \in Snapshots /\ Partial \notin Snapshots
BY LocalStoreAssumption, Zenon DEF Default, Partial, Snapshots

\* The first state satisfies the invariant.
LEMMA InitIInv == Init => IInv
BY KnownSnapshots, LocalStoreAssumption
   DEF Init, IInv, TypeOK, LocksHeld, SwapSound, Writing

-----------------------------------------------------------------------------
(* Every step preserves it *)

\* The lock file and the mutex of a caller that begins a load or reads.
LEMMA LoadSteps ==
  ASSUME IInv, NEW c \in Callers, BeginLoad(c) \/ LockShared(c) \/ Read(c)
  PROVE  IInv'
<1> USE CallerFacts, KnownSnapshots
<1>1. CASE BeginLoad(c)
  <2>1. TypeOK'
    BY <1>1, Zenon DEF IInv, TypeOK, BeginLoad, TakeGuard, Goto
  <2>2. LocksHeld'
    BY <1>1 DEF IInv, TypeOK, LocksHeld, BeginLoad, TakeGuard, Goto, Writing
  <2>3. \A d \in Callers : SwapSound(d)'
    BY <1>1, Zenon DEF IInv, TypeOK, SwapSound, BeginLoad, Goto
  <2> QED BY <2>1, <2>2, <2>3, Zenon DEF IInv
<1>2. CASE LockShared(c)
  <2>1. TypeOK'
    BY <1>2, Zenon DEF IInv, TypeOK, LockShared, Goto
  <2>2. LocksHeld'
    BY <1>2, Zenon DEF IInv, TypeOK, LocksHeld, LockShared, Goto, Writing
  <2>3. \A d \in Callers : SwapSound(d)'
    BY <1>2, Zenon DEF IInv, TypeOK, SwapSound, LockShared, Goto
  <2> QED BY <2>1, <2>2, <2>3, Zenon DEF IInv
<1>3. CASE Read(c)
  <2>1. TypeOK'
    BY <1>3, Zenon DEF IInv, TypeOK, Read, Goto
  <2>2. LocksHeld'
    BY <1>3, Zenon DEF IInv, TypeOK, LocksHeld, Read, Goto, Writing
  <2>3. \A d \in Callers : SwapSound(d)'
    BY <1>3, Zenon DEF IInv, TypeOK, SwapSound, Read, Goto
  <2> QED BY <2>1, <2>2, <2>3, Zenon DEF IInv
<1> QED
  BY <1>1, <1>2, <1>3, Zenon

\* A caller that begins a swap, gets the lock file or compares.
LEMMA CompareSteps ==
  ASSUME IInv, NEW c \in Callers, BeginSwap(c) \/ LockExclusive(c) \/ Compare(c)
  PROVE  IInv'
<1> USE CallerFacts, KnownSnapshots
<1>1. CASE BeginSwap(c)
  <2>1. TypeOK'
    BY <1>1 DEF IInv, TypeOK, BeginSwap, TakeGuard, Goto, Snapshots
  <2>2. LocksHeld'
    BY <1>1 DEF IInv, TypeOK, LocksHeld, BeginSwap, TakeGuard, Goto, Snapshots, Writing
  <2>3. \A d \in Callers : SwapSound(d)'
    BY <1>1 DEF IInv, TypeOK, LocksHeld, SwapSound, BeginSwap, TakeGuard, Goto, Snapshots, Writing
  <2> QED BY <2>1, <2>2, <2>3, Zenon DEF IInv
<1>2. CASE LockExclusive(c)
  <2>1. TypeOK'
    BY <1>2, Zenon DEF IInv, TypeOK, LockExclusive, Goto
  <2>2. LocksHeld'
    BY <1>2, Zenon DEF IInv, TypeOK, LocksHeld, LockExclusive, Goto, Writing
  <2>3. \A d \in Callers : SwapSound(d)'
    BY <1>2, Zenon DEF IInv, TypeOK, LocksHeld, SwapSound, LockExclusive, Goto, Writing
  <2> QED BY <2>1, <2>2, <2>3, Zenon DEF IInv
<1>3. CASE Compare(c)
  <2>1. CASE file.revision = next[c].revision
    <3> DEFINE n == [revision |-> next[c].revision + 1, content |-> next[c].content]
    <3>1. next[c] \in Snapshots /\ n \in Snapshots
      BY DEF IInv, TypeOK, Snapshots
    <3>2. next' = [next EXCEPT ![c] = n]
      BY <1>3, <2>1, <3>1 DEF Compare, IInv, TypeOK, Snapshots
    <3>3. n.revision = next[c].revision + 1
      BY Zenon
    <3> HIDE DEF n
    <3>4. pc[c] = "compare" /\ Goto(c, "create")
          /\ UNCHANGED <<file, temporary, guard, readers, writer, view, reply>>
      BY <1>3, <2>1, Zenon DEF Compare, locks
    <3>5. TypeOK'
      BY <3>1, <3>2, <3>4, Zenon DEF IInv, TypeOK, Goto
    <3>6. LocksHeld'
      BY <3>4, Zenon DEF IInv, TypeOK, LocksHeld, Goto, Writing
    <3>7. \A d \in Callers : SwapSound(d)'
      BY <2>1, <3>1, <3>2, <3>3, <3>4 DEF IInv, TypeOK, LocksHeld, SwapSound, Goto, Writing
    <3> QED BY <3>5, <3>6, <3>7, Zenon DEF IInv
  <2>2. CASE file.revision # next[c].revision
    <3>1. TypeOK'
      BY <1>3, <2>2 DEF IInv, TypeOK, Compare, Release, Consume, Goto
    <3>2. LocksHeld'
      BY <1>3, <2>2 DEF IInv, TypeOK, LocksHeld, Compare, Release, Consume, Goto, Writing
    <3>3. \A d \in Callers : SwapSound(d)'
      BY <1>3, <2>2 DEF IInv, TypeOK, SwapSound, Compare, Release, Consume, Goto
    <3> QED BY <3>1, <3>2, <3>3, Zenon DEF IInv
  <2> QED
    BY <2>1, <2>2, Zenon
<1> QED
  BY <1>1, <1>2, <1>3, Zenon

\* A caller that replaces the file.
LEMMA PersistSteps ==
  ASSUME IInv, NEW c \in Callers, Create(c) \/ Write(c) \/ Rename(c) \/ Unlock(c)
  PROVE  IInv'
<1> USE CallerFacts, KnownSnapshots
<1>1. CASE Create(c)
  <2>1. TypeOK'
    BY <1>1, Zenon DEF IInv, TypeOK, Create, Goto, locks
  <2>2. LocksHeld'
    BY <1>1, Zenon DEF IInv, TypeOK, LocksHeld, Create, Goto, locks, Writing
  <2>3. \A d \in Callers : SwapSound(d)'
    BY <1>1 DEF IInv, TypeOK, LocksHeld, SwapSound, Create, Goto, locks, Writing
  <2> QED BY <2>1, <2>2, <2>3, Zenon DEF IInv
<1>2. CASE Write(c)
  <2>1. TypeOK'
    BY <1>2, Zenon DEF IInv, TypeOK, Write, Goto, locks
  <2>2. LocksHeld'
    BY <1>2, Zenon DEF IInv, TypeOK, LocksHeld, Write, Goto, locks, Writing
  <2>3. \A d \in Callers : SwapSound(d)'
    BY <1>2 DEF IInv, TypeOK, LocksHeld, SwapSound, Write, Goto, locks, Writing
  <2> QED BY <2>1, <2>2, <2>3, Zenon DEF IInv
<1>3. CASE Rename(c)
  <2>1. TypeOK'
    BY <1>3 DEF IInv, TypeOK, SwapSound, Rename, Consume, Goto, locks
  <2>2. LocksHeld'
    BY <1>3, Zenon DEF IInv, TypeOK, LocksHeld, Rename, Consume, Goto, locks, Writing
  <2>3. \A d \in Callers : SwapSound(d)'
    BY <1>3 DEF IInv, TypeOK, LocksHeld, SwapSound, Rename, Consume, Goto, locks, Writing
  <2> QED BY <2>1, <2>2, <2>3, Zenon DEF IInv
<1>4. CASE Unlock(c)
  <2>1. TypeOK'
    BY <1>4, Zenon DEF IInv, TypeOK, Unlock, Release, Goto, locks
  <2>2. LocksHeld'
    BY <1>4, Zenon DEF IInv, TypeOK, LocksHeld, Unlock, Release, Goto, locks, Writing
  <2>3. \A d \in Callers : SwapSound(d)'
    BY <1>4 DEF IInv, TypeOK, LocksHeld, SwapSound, Unlock, Release, Goto, locks, Writing
  <2> QED BY <2>1, <2>2, <2>3, Zenon DEF IInv
<1> QED
  BY <1>1, <1>2, <1>3, <1>4, Zenon

\* An error at any step of a call, and the end of a process.
LEMMA FaultSteps ==
  ASSUME IInv, \/ \E c \in Callers : Fail(c)
               \/ \E p \in Processes : Stop(p)
  PROVE  IInv'
<1> USE CallerFacts, KnownSnapshots
<1>1. ASSUME NEW c \in Callers, Fail(c)
      PROVE  IInv'
  <2>1. TypeOK'
    BY <1>1, Zenon DEF IInv, TypeOK, Fail, Release, Consume, Goto
  <2>2. LocksHeld'
    BY <1>1, Zenon DEF IInv, TypeOK, LocksHeld, Fail, Release, Consume, Goto, Writing
  <2>3. \A d \in Callers : SwapSound(d)'
    BY <1>1, Zenon DEF IInv, TypeOK, SwapSound, Fail, Release, Consume, Goto
  <2> QED BY <2>1, <2>2, <2>3, Zenon DEF IInv
<1>2. ASSUME NEW p \in Processes, Stop(p)
      PROVE  IInv'
  <2>1. TypeOK'
    BY <1>2, Zenon DEF IInv, TypeOK, Stop
  <2>2. LocksHeld'
    BY <1>2 DEF IInv, TypeOK, LocksHeld, Stop, Writing
  <2>3. \A d \in Callers : SwapSound(d)'
    BY <1>2, Zenon DEF IInv, TypeOK, SwapSound, Stop
  <2> QED BY <2>1, <2>2, <2>3, Zenon DEF IInv
<1> QED
  BY <1>1, <1>2, Zenon

\* The invariant is inductive.
LEMMA NextIInv == IInv /\ [Next]_vars => IInv'
<1> SUFFICES ASSUME IInv, [Next]_vars
             PROVE  IInv'
  BY Zenon
<1>1. CASE Next
  BY <1>1, LoadSteps, CompareSteps, PersistSteps, FaultSteps, Zenon DEF Next, Continue
<1>2. CASE UNCHANGED vars
  BY <1>2, Zenon DEF vars, locks, IInv, TypeOK, LocksHeld, SwapSound
<1> QED
  BY <1>1, <1>2, Zenon

\* It holds in every reachable state.
LEMMA Invariance == Spec => []IInv
BY InitIInv, NextIInv, PTL DEF Spec

\* Every variable has its type: in particular the file at `path` always holds a whole
\* snapshot, never a truncated one (persist renames only what it wrote to the end).
THEOREM StoreTypeCorrect == Spec => []TypeOK
<1>1. IInv => TypeOK
  BY Zenon DEF IInv
<1> QED
  BY <1>1, Invariance, PTL

-----------------------------------------------------------------------------
(* Refinement *)

\* The reply that the register gives: a swap takes effect with the rename.
RegisterReply == [c \in Callers |-> IF pc[c] = "unlock" THEN "ok" ELSE reply[c]]

\* The register is as it was.
LEMMA Stutters ==
  ASSUME UNCHANGED <<file, view, RegisterReply>>
  PROVE  UNCHANGED Register!vars
BY Zenon DEF Register!vars, RegisterReply

\* Steps before the file is read, compared or replaced, and the last unlocking, do
\* not show.
LEMMA HiddenSteps ==
  ASSUME IInv, NEW c \in Callers,
         \/ BeginLoad(c) \/ LockShared(c) \/ BeginSwap(c) \/ LockExclusive(c)
         \/ Create(c) \/ Write(c) \/ Unlock(c)
  PROVE  UNCHANGED Register!vars
<1>1. UNCHANGED <<file, view>>
  BY Zenon DEF BeginLoad, LockShared, BeginSwap, LockExclusive, Create, Write, Unlock
<1>2. RegisterReply' = RegisterReply
  BY Zenon DEF BeginLoad, LockShared, BeginSwap, LockExclusive, Create, Write, Unlock, Goto,
         RegisterReply, IInv, TypeOK
<1> QED
  BY <1>1, <1>2, Stutters, Zenon

\* A read is a load of the register.
LEMMA ReadRefines ==
  ASSUME IInv, NEW c \in Callers, Read(c)
  PROVE  Register!Load(c)
<1>1. RegisterReply' = [RegisterReply EXCEPT ![c] = "loaded"]
  BY Zenon DEF Read, Goto, RegisterReply, IInv, TypeOK
<1> QED
  BY <1>1, Zenon DEF Read, Register!Load, RegisterReply

\* A comparison that fails is a conflict of the register, one that succeeds does not
\* show yet.
LEMMA CompareRefines ==
  ASSUME IInv, NEW c \in Callers, Compare(c)
  PROVE  \/ UNCHANGED Register!vars
         \/ \E x \in Contents : Register!CompareAndSwap(c, x)
<1>1. CASE file.revision = next[c].revision
  <2>1. RegisterReply' = RegisterReply /\ UNCHANGED <<file, view>>
    BY <1>1, Zenon DEF Compare, Goto, RegisterReply, IInv, TypeOK
  <2> QED
    BY <2>1, Stutters, Zenon
<1>2. CASE file.revision # next[c].revision
  <2>1. RegisterReply' = [RegisterReply EXCEPT ![c] = "conflict"]
    BY <1>2, Zenon DEF Compare, Goto, RegisterReply, IInv, TypeOK
  <2>2. RegisterReply[c] = "loaded" /\ view[c].revision # file.revision
    BY <1>2, Zenon DEF Compare, RegisterReply, IInv, SwapSound
  <2>3. view' = [view EXCEPT ![c] = Register!Default] /\ UNCHANGED file
    BY <1>2, Zenon DEF Compare, Consume, Register!Default, Default
  <2>4. Register!CompareAndSwap(c, Initial)
    BY <2>1, <2>2, <2>3, Zenon DEF Register!CompareAndSwap, RegisterReply
  <2> QED
    BY <2>4, LocalStoreAssumption, Zenon
<1> QED
  BY <1>1, <1>2, Zenon

\* The rename is a swap of the register that succeeds: nobody replaced the file since
\* it was compared.
LEMMA RenameRefines ==
  ASSUME IInv, NEW c \in Callers, Rename(c)
  PROVE  \E x \in Contents : Register!CompareAndSwap(c, x)
<1>1. RegisterReply' = [RegisterReply EXCEPT ![c] = "ok"]
  BY Zenon DEF Rename, Goto, RegisterReply, IInv, TypeOK
<1>2. RegisterReply[c] = "loaded" /\ view[c].revision = file.revision
  BY Zenon DEF Rename, RegisterReply, IInv, SwapSound
<1>3. view' = [view EXCEPT ![c] = Register!Default]
  BY Zenon DEF Rename, Consume, Register!Default, Default
<1>4. PICK x \in Contents : x = next[c].content
  BY Zenon DEF IInv, TypeOK, Snapshots
<1>5. file' = [revision |-> view[c].revision + 1, content |-> x]
  <2>1. file' = next[c] /\ next[c].revision = view[c].revision + 1
    BY Zenon DEF Rename, IInv, SwapSound
  <2>2. next[c] \in Snapshots
    BY Zenon DEF IInv, TypeOK
  <2> QED
    BY <1>4, <2>1, <2>2, Zenon DEF Snapshots
<1>6. Register!CompareAndSwap(c, x)
  BY <1>1, <1>2, <1>3, <1>5, Zenon DEF Register!CompareAndSwap, RegisterReply
<1> QED
  BY <1>6, Zenon

\* An error of the store is one of the register, and so is the end of a process.
LEMMA FaultsRefine ==
  ASSUME IInv
  PROVE  /\ \A c \in Callers : Fail(c) => Register!Fail(c)
         /\ \A p \in Processes :
              Stop(p) => Register!Stop({c \in Callers : ProcessOf[c] = p})
<1>1. ASSUME NEW c \in Callers, Fail(c)
      PROVE  Register!Fail(c)
  <2>1. RegisterReply' = [RegisterReply EXCEPT ![c] = "error"]
    BY <1>1, Zenon DEF Fail, Goto, RegisterReply, IInv, TypeOK
  <2> QED
    BY <1>1, <2>1, Zenon
       DEF Fail, Consume, Register!Fail, Register!Default, Default, RegisterReply
<1>2. ASSUME NEW p \in Processes, Stop(p)
      PROVE  Register!Stop({c \in Callers : ProcessOf[c] = p})
  <2> DEFINE gone == {c \in Callers : ProcessOf[c] = p}
  <2>1. RegisterReply' = [c \in Callers |-> IF c \in gone THEN "none" ELSE RegisterReply[c]]
    BY <1>2, Zenon DEF Stop, RegisterReply, IInv, TypeOK
  <2> QED
    BY <1>2, <2>1, Zenon DEF Stop, Register!Stop, Register!Default, Default, RegisterReply
<1> QED
  BY <1>1, <1>2, Zenon

\* Every step of the store is a step of the register, or does not show.
LEMMA StepRefines ==
  ASSUME IInv, [Next]_vars
  PROVE  [Register!Next]_(Register!vars)
<1>1. CASE UNCHANGED vars
  <2>1. UNCHANGED <<file, view, RegisterReply>>
    BY <1>1, Zenon DEF vars, RegisterReply
  <2> QED
    BY <2>1, Stutters, Zenon
<1>2. ASSUME NEW c \in Callers, BeginLoad(c) \/ BeginSwap(c) \/ Continue(c) \/ Fail(c)
      PROVE  [Register!Next]_(Register!vars)
  <2>1. CASE \/ BeginLoad(c) \/ LockShared(c) \/ BeginSwap(c) \/ LockExclusive(c)
             \/ Create(c) \/ Write(c) \/ Unlock(c)
    BY <2>1, HiddenSteps, Zenon
  <2>2. CASE Read(c)
    BY <2>2, ReadRefines, Zenon DEF Register!Next
  <2>3. CASE Compare(c)
    BY <2>3, CompareRefines, Zenon DEF Register!Next
  <2>4. CASE Rename(c)
    BY <2>4, RenameRefines, Zenon DEF Register!Next
  <2>5. CASE Fail(c)
    BY <2>5, FaultsRefine, Zenon DEF Register!Next
  <2> QED
    BY <1>2, <2>1, <2>2, <2>3, <2>4, <2>5, Zenon DEF Continue
<1>3. ASSUME NEW p \in Processes, Stop(p)
      PROVE  [Register!Next]_(Register!vars)
  <2>1. {c \in Callers : ProcessOf[c] = p} \in SUBSET Callers
    BY Zenon
  <2>2. Register!Stop({c \in Callers : ProcessOf[c] = p})
    BY <1>3, FaultsRefine, Zenon
  <2> QED
    BY <2>1, <2>2, Zenon DEF Register!Next
<1> QED
  BY <1>1, <1>2, <1>3, Zenon DEF Next

\* "Persistent local backend using atomic whole-snapshot replacement" (metadata.rs):
\* the file with its locks and its temporary file is an atomic register, whatever
\* fails and whichever process stops.
THEOREM StoreIsRegister == Spec => ImplementsRegister
<1>1. Init => Register!Init
  BY Zenon DEF Init, Register!Init, Default, Register!Default
<1>2. IInv /\ [Next]_vars => [Register!Next]_(Register!vars)
  BY StepRefines, Zenon
<1> QED
  BY <1>1, <1>2, Invariance, PTL DEF Spec, ImplementsRegister, Register!Spec
=============================================================================
