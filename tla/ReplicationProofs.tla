-------------------------- MODULE ReplicationProofs --------------------------
(***************************************************************************)
(* The safety of replication, for any nodes, actors, ranks and bounds.     *)
(***************************************************************************)
EXTENDS Replication, TLAPS

-----------------------------------------------------------------------------
(* Types *)

Tries == 0..(MergeTries + MarkTries)

Locals == [pc     : {"idle", "refresh", "probe", "plan", "pick", "source",
                     "clear", "put", "load", "swap", "try", "get", "failed"},
           view   : [Nodes -> Records],
           left   : SUBSET Nodes,
           todo   : SUBSET Nodes,
           node   : Nodes \cup {NoNode},
           source : Nodes \cup {NoNode},
           state  : ReplicaStates,
           tries  : Tries]

\* The numbers of swaps that are left.
LEMMA TriesFacts ==
  /\ 0 \in Tries /\ 1 \in Tries /\ MergeTries \in Tries /\ MarkTries \in Tries
  /\ \A t \in Tries : t > 1 => t - 1 \in Tries
BY ReplicationAssumption DEF Tries

\* An actor at rest.
LEMMA RestingType ==
  /\ Resting \in Locals
  /\ Resting.pc = "idle" /\ Resting.left = {} /\ Resting.todo = {}
  /\ Resting.node = NoNode /\ Resting.source = NoNode
BY TriesFacts, Zenon DEF Resting, Locals, Records, ReplicaStates

\* A step of one actor that leaves its locals well typed.
LEMMA BecomeType ==
  ASSUME TypeOK, NEW p \in Actors, NEW a \in Locals, Become(p, a)
  PROVE  actor' \in [Actors -> Locals] /\ actor'[p] = a
         /\ \A q \in Actors \ {p} : actor'[q] = actor[q]
BY Zenon DEF TypeOK, Become, Locals, Tries

\* The next actor's locals.
LEMMA ProceedType ==
  ASSUME TypeOK, NEW p \in Actors, Proceed(p)
  PROVE  \E a \in Locals : Become(p, a)
<1>1. actor[p] \in Locals
  BY Zenon DEF TypeOK, Locals, Tries
<1>2. /\ [Resting EXCEPT !.pc = "pick", !.todo = actor[p].todo] \in Locals
      /\ [Resting EXCEPT !.pc = "try", !.left = actor[p].left] \in Locals
  BY <1>1, RestingType, Zenon DEF Locals
<1> QED
  BY <1>2, RestingType, Zenon DEF Proceed, End, Actors

\* The steps of a reconciler, of a record and of a read keep the types of the locals.
LEMMA ReconcileType ==
  ASSUME TypeOK, NEW r \in Reconcilers, Reconcile(r)
  PROVE  \E a \in Locals : Become(r, a)
<1>1. actor[r] \in Locals
  BY Zenon DEF TypeOK, Locals, Tries, Actors
<1>2. CASE StartPass(r)
  <2>1. [Resting EXCEPT !.pc = "refresh", !.tries = MergeTries] \in Locals
    BY RestingType, TriesFacts, Zenon DEF Locals
  <2> QED
    BY <1>2, <2>1, Zenon DEF StartPass
<1>3. CASE RefreshLoad(r)
  <2>1. [actor[r] EXCEPT !.pc = "probe", !.view = placement,
                         !.left = Recorded(placement)] \in Locals
    BY <1>1, Zenon DEF Locals, TypeOK, Recorded
  <2> QED
    BY <1>3, <2>1, RestingType, Zenon DEF RefreshLoad, End
<1>4. CASE ProbeReplica(r)
  <2>1. PICK n \in actor[r].left :
          IF registry[n] = "online" /\ n \in cut
          THEN End(r)
          ELSE Become(r, [actor[r] EXCEPT !.view[n] = Refreshed(n, @), !.left = @ \ {n}])
    BY <1>4, Zenon DEF ProbeReplica
  <2>2. n \in Nodes
    BY <1>1, <2>1, Zenon DEF Locals
  <2>3. actor[r].view \in [Nodes -> Records]
    BY <1>1, Zenon DEF Locals
  <2>4. Refreshed(n, actor[r].view[n]) \in Records
    BY <2>2, <2>3, Zenon DEF Refreshed, Found, Records, ReplicaStates, TypeOK
  <2>5. [actor[r].view EXCEPT ![n] = Refreshed(n, actor[r].view[n])] \in [Nodes -> Records]
    BY <2>2, <2>3, <2>4, Zenon
  <2>6. [actor[r] EXCEPT !.view = [actor[r].view EXCEPT ![n] = Refreshed(n, actor[r].view[n])],
                         !.left = actor[r].left \ {n}] \in Locals
    BY <1>1, <2>5, Zenon DEF Locals
  <2>7. [actor[r] EXCEPT !.view[n] = Refreshed(n, @), !.left = @ \ {n}]
        = [actor[r] EXCEPT !.view = [actor[r].view EXCEPT ![n] = Refreshed(n, actor[r].view[n])],
                           !.left = actor[r].left \ {n}]
    BY Zenon
  <2> QED
    BY <2>1, <2>6, <2>7, RestingType, Zenon DEF End
<1>5. CASE MergeSwap(r) \/ MergeConflict(r)
  <2>1. [actor[r] EXCEPT !.pc = "plan"] \in Locals
    BY <1>1, Zenon DEF Locals
  <2>2. actor[r].tries > 1 =>
          [actor[r] EXCEPT !.pc = "refresh", !.tries = actor[r].tries - 1] \in Locals
    BY <1>1, TriesFacts, Zenon DEF Locals
  <2> QED
    BY <1>5, <2>1, <2>2, RestingType, Zenon DEF MergeSwap, Merge, MergeConflict, End
<1>6. CASE Plan(r)
  <2>1. DesiredNodes(actor[r].view) \subseteq Nodes
    BY Zenon DEF DesiredNodes, Counted
  <2>2. [Resting EXCEPT !.pc = "pick", !.todo = DesiredNodes(actor[r].view)] \in Locals
    BY <2>1, RestingType, Zenon DEF Locals
  <2> QED
    BY <1>6, <2>2, Zenon DEF Plan
<1>7. CASE PickDestination(r)
  <2>1. ASSUME NEW d \in actor[r].todo
        PROVE  /\ [actor[r] EXCEPT !.todo = @ \ {d}] \in Locals
               /\ [actor[r] EXCEPT !.pc = "source", !.node = d,
                                   !.left = {n \in Nodes : placement[n] = "Healthy"},
                                   !.todo = @ \ {d}] \in Locals
    BY <1>1, Zenon DEF Locals
  <2> QED
    BY <1>7, <2>1, RestingType, Zenon DEF PickDestination, End
<1>8. CASE FindSource(r)
  <2>1. ASSUME NEW n \in actor[r].left
        PROVE  /\ [actor[r] EXCEPT !.pc = "clear", !.source = n, !.left = {}] \in Locals
               /\ [actor[r] EXCEPT !.left = @ \ {n}] \in Locals
    BY <1>1, Zenon DEF Locals
  <2> QED
    BY <1>8, <2>1, RestingType, Zenon DEF FindSource, End
<1>9. CASE ClearLocal(r) \/ ClearRemote(r)
  <2>1. [actor[r] EXCEPT !.pc = "put"] \in Locals
    BY <1>1, Zenon DEF Locals
  <2> QED
    BY <1>9, <2>1, RestingType, Zenon DEF ClearLocal, ClearRemote, End
<1>10. CASE PutReplica(r)
  <2>1. [actor[r] EXCEPT !.pc = "load", !.source = NoNode, !.tries = MergeTries] \in Locals
    BY <1>1, TriesFacts, Zenon DEF Locals
  <2> QED
    BY <1>10, <2>1, RestingType, Zenon DEF PutReplica, End
<1> QED
  BY <1>2, <1>3, <1>4, <1>5, <1>6, <1>7, <1>8, <1>9, <1>10, Zenon DEF Reconcile

LEMMA RecordType ==
  ASSUME TypeOK, NEW p \in Actors, Record(p)
  PROVE  \E a \in Locals : Become(p, a)
<1>1. actor[p] \in Locals
  BY Zenon DEF TypeOK, Locals, Tries
<1>2. CASE RecordLoad(p)
  <2>1. [actor[p] EXCEPT !.pc = "swap"] \in Locals
    BY <1>1, Zenon DEF Locals
  <2> QED
    BY <1>2, <2>1, ProceedType, Zenon DEF RecordLoad
<1>3. CASE RecordSwap(p)
  BY <1>3, ProceedType, Zenon DEF RecordSwap
<1>4. CASE RecordConflict(p)
  <2>1. actor[p].tries > 1 =>
          [actor[p] EXCEPT !.pc = "load", !.tries = actor[p].tries - 1] \in Locals
    BY <1>1, TriesFacts, Zenon DEF Locals
  <2> QED
    BY <1>4, <2>1, ProceedType, RestingType, Zenon DEF RecordConflict, End
<1> QED
  BY <1>2, <1>3, <1>4, Zenon DEF Record

LEMMA ReadType ==
  ASSUME TypeOK, NEW p \in Readers, actor[p].pc = "get" => actor[p].node \in Nodes,
         StartRead(p) \/ TryReplica(p) \/ GetReplica(p) \/ ReadFails(p)
  PROVE  \E a \in Locals : Become(p, a)
<1>1. actor[p] \in Locals
  BY Zenon DEF TypeOK, Locals, Tries, Actors
<1>2. CASE StartRead(p)
  <2>1. [Resting EXCEPT !.pc = "try", !.left = Recorded(placement)] \in Locals
    BY RestingType, Zenon DEF Locals, Recorded
  <2> QED
    BY <1>2, <2>1, Zenon DEF StartRead
<1>3. CASE TryReplica(p)
  <2>1. PICK n \in actor[p].left :
          Become(p, [actor[p] EXCEPT !.pc = IF registry[n] = "online" THEN "get" ELSE "load",
                                     !.node = n,
                                     !.state = IF registry[n] = "offline" THEN "Offline" ELSE "Missing",
                                     !.left = actor[p].left \ {n}, !.tries = MarkTries])
    BY <1>3, Zenon DEF TryReplica
  <2>2. [actor[p] EXCEPT !.pc = IF registry[n] = "online" THEN "get" ELSE "load",
                         !.node = n,
                         !.state = IF registry[n] = "offline" THEN "Offline" ELSE "Missing",
                         !.left = actor[p].left \ {n}, !.tries = MarkTries] \in Locals
    BY <1>1, TriesFacts, Zenon DEF Locals, ReplicaStates
  <2> QED
    BY <2>1, <2>2, Zenon
<1>4. CASE GetReplica(p)
  <2>1. ASSUME NEW s \in ReplicaStates
        PROVE  [actor[p] EXCEPT !.pc = "load", !.state = s] \in Locals
    BY <1>1, Zenon DEF Locals
  <2>2. ASSUME NEW n \in Nodes
        PROVE  Found(n) \in ReplicaStates
    BY Zenon DEF Found, ReplicaStates, TypeOK
  <2>3. (IF Reachable(actor[p].node) THEN Found(actor[p].node) ELSE "Missing") \in ReplicaStates
    BY <1>4, <2>2, Zenon DEF GetReplica, ReplicaStates
  <2> QED
    BY <1>4, <2>1, <2>3, Zenon DEF GetReplica
<1>5. CASE ReadFails(p)
  <2>1. [actor[p] EXCEPT !.pc = "failed"] \in Locals
    BY <1>1, Zenon DEF Locals
  <2> QED
    BY <1>5, <2>1, Zenon DEF ReadFails
<1> QED
  BY <1>2, <1>3, <1>4, <1>5, Zenon

-----------------------------------------------------------------------------
(* The inductive invariant *)

\* A replica that is read is one of the nodes.
Targeted(p) == actor[p].pc = "get" => actor[p].node \in Nodes

\* A reconciler whose swap would succeed has every recorded replica in view, and no
\* other.
ViewSound(p) ==
  actor[p].pc = "probe" /\ p \in fresh =>
    /\ Recorded(actor[p].view) = Recorded(placement)
    /\ actor[p].left \subseteq Recorded(placement)

\* A record that would succeed is for retained content, or changes a replica that is on
\* record.
RecordSound(p) ==
  actor[p].pc = "swap" /\ p \in fresh =>
    /\ p \in Reconcilers => retained
    /\ p \in Readers => placement[actor[p].node] # "Unrecorded"

\* A read has still to visit every replica that could serve it all along.
ReadSound(p) ==
  /\ actor[p].pc = "try" => steady[p] \subseteq actor[p].left
  /\ actor[p].pc = "get" => steady[p] \subseteq actor[p].left \cup {actor[p].node}
  /\ actor[p].pc \in {"load", "swap"} /\ actor[p].state # "Healthy" =>
       steady[p] \subseteq actor[p].left
  /\ actor[p].pc = "failed" => steady[p] = {}

IInv ==
  /\ TypeOK
  /\ \A p \in Actors : Targeted(p) /\ ViewSound(p) /\ RecordSound(p)
  /\ \A p \in Readers : ReadSound(p)

\* With one reconciler and sound media.  What is cleared or copied has a source
\* elsewhere, and bytes that were stored once are stored somewhere.
SomeGood == \E n \in Nodes : blob[n] = "good"

CopySound(r) ==
  /\ actor[r].pc = "source" => actor[r].node \notin actor[r].left
  /\ actor[r].pc \in {"clear", "put"} =>
       /\ actor[r].source \in Nodes \ {actor[r].node}
       /\ blob[actor[r].source] = "good"

ContentInv ==
  /\ \A r \in Reconcilers : CopySound(r)
  /\ retained => SomeGood
  /\ \A w \in Writers : actor[w].pc \in {"load", "swap"} => SomeGood

-----------------------------------------------------------------------------
(* What a step can do *)

\* The steps of actor p.
Acts(p) ==
  \/ p \in Reconcilers /\ (Reconcile(p) \/ Record(p))
  \/ p \in Readers /\ (StartRead(p) \/ ReadSteps(p))
  \/ p \in Writers /\ (StartWrite(p) \/ Record(p))

LEMMA StepSplit ==
  ASSUME Step
  PROVE  (\E p \in Actors : Acts(p)) \/ Environment
BY Zenon DEF Step, Acts, Actors

\* An actor changes its own locals, and no other actor's load becomes fresh.
LEMMA ActsLocals ==
  ASSUME IInv, NEW p \in Actors, Acts(p)
  PROVE  /\ actor' \in [Actors -> Locals]
         /\ \A q \in Actors \ {p} : actor'[q] = actor[q]
         /\ fresh' \in SUBSET Actors /\ fresh' \subseteq fresh \cup {p}
<1>1. TypeOK /\ Targeted(p) /\ actor \in [Actors -> Locals]
  BY Zenon DEF IInv, TypeOK, Locals, Tries
<1>2. (\E a \in Locals : Become(p, a)) \/ UNCHANGED actor
  <2>1. CASE p \in Writers /\ StartWrite(p)
    <3>1. ASSUME NEW n \in Nodes
          PROVE  [Resting EXCEPT !.pc = "load", !.node = n, !.tries = 1] \in Locals
      BY RestingType, TriesFacts, Zenon DEF Locals
    <3> QED
      BY <2>1, <3>1, Zenon DEF StartWrite
  <2> QED
    BY <1>1, <2>1, ReconcileType, RecordType, ReadType, Zenon DEF Acts, ReadSteps, Targeted
<1>3. fresh' \in SUBSET Actors /\ fresh' \subseteq fresh \cup {p}
  <2>1. CASE Reconcile(p)
    BY <1>1, <2>1, ZenonT(30)
       DEF Reconcile, StartPass, RefreshLoad, ProbeReplica, MergeSwap, Merge, Commit,
       MergeConflict, Plan, PickDestination, FindSource, ClearLocal, ClearRemote, PutReplica, TypeOK
  <2>2. CASE Record(p)
    BY <1>1, <2>2 DEF Record, RecordLoad, RecordSwap, Commit, RecordConflict, TypeOK
  <2>3. CASE StartRead(p) \/ TryReplica(p) \/ GetReplica(p) \/ ReadFails(p) \/ StartWrite(p)
    BY <1>1, <2>3, Zenon DEF StartRead, TryReplica, GetReplica, ReadFails, StartWrite, TypeOK
  <2> QED
    BY <2>1, <2>2, <2>3, Zenon DEF Acts, ReadSteps
<1> QED
  BY <1>1, <1>2, <1>3, BecomeType, Zenon

\* The metadata change by commits only.
LEMMA ActsWorld ==
  ASSUME TypeOK, NEW p \in Actors, Acts(p)
  PROVE  /\ UNCHANGED <<registry, cut, faults>>
         /\ \/ UNCHANGED <<retained, placement>>
            \/ /\ p \in fresh /\ fresh' = {}
               /\ \/ MergeSwap(p) /\ p \in Reconcilers
                  \/ RecordSwap(p)
<1>1. CASE p \in Reconcilers /\ Reconcile(p)
  <2>1. CASE MergeSwap(p)
    BY <1>1, <2>1, Zenon DEF MergeSwap, Merge, Commit
  <2>2. CASE ~MergeSwap(p)
    BY <1>1, <2>2, Zenon DEF Reconcile, StartPass, RefreshLoad, ProbeReplica,
       MergeConflict, Plan, PickDestination, FindSource, ClearLocal, ClearRemote, PutReplica, world
  <2> QED
    BY <2>1, <2>2, Zenon
<1>2. CASE Record(p)
  BY <1>2, Zenon DEF Record, RecordLoad, RecordSwap, Commit, RecordConflict, world
<1>3. CASE StartRead(p) \/ TryReplica(p) \/ GetReplica(p) \/ ReadFails(p) \/ StartWrite(p)
  BY <1>3, Zenon DEF StartRead, TryReplica, GetReplica, ReadFails, StartWrite, world
<1> QED
  BY <1>1, <1>2, <1>3, Zenon DEF Acts, ReadSteps

\* What the stores hold: put, and the deletion of a reconciler.
LEMMA ActsBlob ==
  ASSUME TypeOK, NEW p \in Actors, Acts(p)
  PROVE  /\ unrest' \in {unrest, unrest + 1} /\ (unrest' # unrest => ~calm)
         /\ \/ UNCHANGED blob
            \/ \E n \in Nodes \cup {NoNode} : blob' = [blob EXCEPT ![n] = "good"]
            \/ \E n \in Nodes \cup {NoNode} :
                 blob[n] # "good" /\ blob' = [blob EXCEPT ![n] = "absent"]
            \/ p \in Reconcilers /\ ClearLocal(p)
<1>1. actor[p] \in Locals
  BY Zenon DEF TypeOK, Locals, Tries
<1>2. ASSUME NEW n \in Nodes \cup {NoNode}, Stores(n) \/ Fails(n)
      PROVE  /\ unrest' \in {unrest, unrest + 1} /\ (unrest' # unrest => ~calm)
             /\ \/ UNCHANGED blob
                \/ blob' = [blob EXCEPT ![n] = "good"]
                \/ blob[n] # "good" /\ blob' = [blob EXCEPT ![n] = "absent"]
  BY <1>2, Zenon DEF Stores, Fails
<1>3. CASE p \in Reconcilers /\ Reconcile(p)
  <2>1. CASE PutReplica(p)
    BY <1>1, <1>2, <2>1, Zenon DEF PutReplica, Locals
  <2>2. CASE ClearLocal(p)
    BY <1>3, <2>2, Zenon DEF ClearLocal
  <2>3. CASE ~PutReplica(p) /\ ~ClearLocal(p)
    BY <1>3, <2>3, Zenon DEF Reconcile, StartPass, RefreshLoad, ProbeReplica, MergeSwap, Merge,
       MergeConflict, Plan, PickDestination, FindSource, ClearRemote, world
  <2> QED
    BY <2>1, <2>2, <2>3, Zenon
<1>4. CASE Record(p)
  BY <1>4, Zenon DEF Record, RecordLoad, RecordSwap, RecordConflict, world
<1>5. CASE StartRead(p) \/ TryReplica(p) \/ GetReplica(p) \/ ReadFails(p)
  BY <1>5, Zenon DEF StartRead, TryReplica, GetReplica, ReadFails, world
<1>6. CASE StartWrite(p)
  BY <1>2, <1>6, Zenon DEF StartWrite
<1> QED
  BY <1>3, <1>4, <1>5, <1>6, Zenon DEF Acts, ReadSteps

\* The environment.
LEMMA EnvironmentEffect ==
  ASSUME TypeOK, Environment
  PROVE  /\ UNCHANGED placement
         /\ UNCHANGED retained \/ (retained' = FALSE /\ fresh' = {})
         /\ fresh' \subseteq fresh
         /\ (UNCHANGED actor) \/ actor' = [p \in Actors |-> Resting]
         /\ unrest' = unrest + 1 /\ unrest # MaxUnrest
         /\ (UNCHANGED <<blob, faults>>)
            \/ /\ faults < MaxFaults /\ faults' = faults + 1
               /\ \E n \in Nodes, b \in {"absent", "corrupt"} : blob' = [blob EXCEPT ![n] = b]
         /\ cut' \in SUBSET Remote
         /\ registry' \in [Nodes -> {"absent", "online", "offline"}]
BY DEF Environment, Remove, OtherCommit, SetOnline, Link, Damage, Crash, Commit, calm, TypeOK

\* Every step keeps the types.
LEMMA TypesStep ==
  ASSUME IInv, [Next]_vars
  PROVE  TypeOK'
<1>1. TypeOK
  BY Zenon DEF IInv
<1>2. CASE UNCHANGED vars
  BY <1>1, <1>2, Zenon DEF vars, world, TypeOK
<1>3. CASE Next
  <2>1. steady' \in [Readers -> SUBSET Nodes]
    BY <1>1, <1>3, Zenon DEF Next, Watch, TypeOK, Recorded
  <2>2. ASSUME NEW p \in Actors, Acts(p)
        PROVE  TypeOK'
    <3>1. actor[p] \in Locals
      BY <1>1, Zenon DEF TypeOK, Locals, Tries
    <3>2. retained' \in BOOLEAN /\ placement' \in [Nodes -> Records]
      <4>1. CASE UNCHANGED <<retained, placement>>
        BY <1>1, <4>1, Zenon DEF TypeOK
      <4>2. CASE MergeSwap(p)
        BY <1>1, <3>1, <4>2, Zenon DEF MergeSwap, Merge, Locals, TypeOK
      <4>3. CASE RecordSwap(p)
        BY <1>1, <3>1, <4>3, Zenon DEF RecordSwap, Locals, TypeOK, Records
      <4> QED
        BY <1>1, <2>2, <4>1, <4>2, <4>3, ActsWorld, Zenon
    <3>3. blob' \in [Nodes -> {"absent", "corrupt", "good"}]
      <4>1. ClearLocal(p) => blob' = [blob EXCEPT ![actor[p].node] = "absent"]
        BY Zenon DEF ClearLocal
      <4> QED
        BY <1>1, <2>2, <4>1, ActsBlob, Zenon DEF TypeOK
    <3>4. unrest' \in 0..MaxUnrest
      <4>1. unrest' \in {unrest, unrest + 1} /\ (unrest' # unrest => unrest # MaxUnrest)
        BY <1>1, <2>2, ActsBlob, Zenon DEF calm
      <4>2. unrest \in 0..MaxUnrest
        BY <1>1, Zenon DEF TypeOK
      <4> QED
        BY <4>1, <4>2, ReplicationAssumption
    <3>5. actor' \in [Actors -> Locals] /\ fresh' \in SUBSET Actors
      BY <2>2, ActsLocals, Zenon
    <3>6. UNCHANGED <<registry, cut, faults>>
      BY <1>1, <2>2, ActsWorld, Zenon
    <3> QED
      BY <1>1, <2>1, <3>2, <3>3, <3>4, <3>5, <3>6, Zenon DEF TypeOK, Locals, Tries
  <2>3. CASE Environment
    <3>1. actor' \in [Actors -> Locals]
      <4>1. actor \in [Actors -> Locals]
        BY <1>1, Zenon DEF TypeOK, Locals, Tries
      <4> QED
        BY <1>1, <2>3, <4>1, EnvironmentEffect, RestingType, Zenon
    <3>2. faults' \in 0..MaxFaults /\ unrest' \in 0..MaxUnrest
      <4>1. faults \in 0..MaxFaults /\ unrest \in 0..MaxUnrest
        BY <1>1, Zenon DEF TypeOK
      <4>2. /\ faults' = faults \/ (faults < MaxFaults /\ faults' = faults + 1)
            /\ unrest' = unrest + 1 /\ unrest # MaxUnrest
        BY <1>1, <2>3, EnvironmentEffect, Zenon
      <4> QED
        BY <4>1, <4>2, ReplicationAssumption
    <3>3. blob' \in [Nodes -> {"absent", "corrupt", "good"}]
      BY <1>1, <2>3, EnvironmentEffect, Zenon DEF TypeOK
    <3>4. /\ retained' \in BOOLEAN /\ UNCHANGED placement /\ fresh' \in SUBSET Actors
          /\ cut' \in SUBSET Remote
          /\ registry' \in [Nodes -> {"absent", "online", "offline"}]
      BY <1>1, <2>3, EnvironmentEffect, Zenon DEF TypeOK
    <3> QED
      BY <1>1, <2>1, <3>1, <3>2, <3>3, <3>4, Zenon DEF TypeOK, Locals, Tries
  <2> QED
    BY <1>3, <2>2, <2>3, StepSplit, Zenon DEF Next
<1> QED
  BY <1>2, <1>3, Zenon

-----------------------------------------------------------------------------
(* The views and records of actors *)

\* The actors that a step does not concern.
LEMMA OthersStep ==
  ASSUME IInv, TypeOK', NEW q \in Actors, actor'[q] = actor[q] \/ actor'[q] = Resting,
         q \in fresh' => q \in fresh /\ UNCHANGED <<placement, retained>>
  PROVE  Targeted(q)' /\ ViewSound(q)' /\ RecordSound(q)'
<1>1. Targeted(q) /\ ViewSound(q) /\ RecordSound(q)
  BY Zenon DEF IInv
<1> QED
  BY <1>1, RestingType, Zenon DEF Targeted, ViewSound, RecordSound

\* Where an actor is after its step.
LEMMA OwnPlace ==
  ASSUME IInv, NEW p \in Actors, Acts(p)
  PROVE  /\ actor'[p].pc = "probe" => RefreshLoad(p) \/ ProbeReplica(p)
         /\ actor'[p].pc = "swap" => RecordLoad(p)
         /\ actor'[p].pc = "get" => TryReplica(p)
         /\ actor'[p].pc = "source" => PickDestination(p) \/ FindSource(p)
         /\ actor'[p].pc = "clear" => FindSource(p)
         /\ actor'[p].pc = "put" => ClearLocal(p) \/ ClearRemote(p)
<1>1. actor \in [Actors -> Locals] /\ actor[p] \in Locals
  BY Zenon DEF IInv, TypeOK, Locals, Tries
<1>2. ASSUME NEW a, Become(p, a) PROVE actor'[p] = a
  BY <1>1, <1>2, Zenon DEF Become
<1>3. ASSUME Proceed(p) PROVE actor'[p].pc \in {"pick", "try", "idle"}
  BY <1>2, <1>3, RestingType, Zenon DEF Proceed, End, Actors, Locals
<1>4. ASSUME End(p) PROVE actor'[p].pc = "idle"
  BY <1>2, <1>4, RestingType, Zenon DEF End
<1>5. CASE p \in Reconcilers /\ Reconcile(p)
  <2>1. CASE StartPass(p)
    BY <1>2, <2>1, RestingType, Zenon DEF StartPass, Locals
  <2>2. CASE RefreshLoad(p) \/ ProbeReplica(p)
    <3>1. CASE RefreshLoad(p)
      BY <1>1, <1>2, <1>4, <3>1, Zenon DEF RefreshLoad, Locals
    <3>2. CASE ProbeReplica(p)
      <4>1. PICK n \in actor[p].left :
              \/ End(p)
              \/ Become(p, [actor[p] EXCEPT !.view[n] = Refreshed(n, @), !.left = @ \ {n}])
        BY <3>2, Zenon DEF ProbeReplica
      <4>2. End(p) \/ actor'[p] = [actor[p] EXCEPT !.view[n] = Refreshed(n, @), !.left = @ \ {n}]
        BY <1>2, <4>1, Zenon
      <4>3. [actor[p] EXCEPT !.view[n] = Refreshed(n, @), !.left = @ \ {n}].pc = actor[p].pc
        BY <1>1, Zenon DEF Locals
      <4> QED
        BY <1>4, <3>2, <4>2, <4>3, Zenon DEF ProbeReplica
    <3> QED
      BY <2>2, <3>1, <3>2, Zenon
  <2>3. CASE MergeSwap(p) \/ MergeConflict(p)
    BY <1>1, <1>2, <1>4, <2>3, ZenonT(30) DEF MergeSwap, Merge, MergeConflict, Locals
  <2>4. CASE Plan(p)
    BY <1>2, <2>4, RestingType, Zenon DEF Plan, Locals
  <2>5. CASE PickDestination(p)
    BY <1>1, <1>2, <1>4, <2>5, Zenon DEF PickDestination, Locals
  <2>6. CASE FindSource(p)
    BY <1>1, <1>2, <1>4, <2>6, ZenonT(30) DEF FindSource, Locals
  <2>7. CASE ClearLocal(p) \/ ClearRemote(p) \/ PutReplica(p)
    BY <1>1, <1>2, <1>4, <2>7, Zenon DEF ClearLocal, ClearRemote, PutReplica, Locals
  <2> QED
    BY <1>5, <2>1, <2>2, <2>3, <2>4, <2>5, <2>6, <2>7, Zenon DEF Reconcile
<1>6. CASE Record(p)
  <2>1. CASE RecordLoad(p)
    BY <1>1, <1>2, <1>3, <2>1, Zenon DEF RecordLoad, Locals
  <2>2. CASE RecordSwap(p)
    BY <1>3, <2>2, Zenon DEF RecordSwap
  <2>3. CASE RecordConflict(p)
    BY <1>1, <1>2, <1>3, <1>4, <2>3, ZenonT(30) DEF RecordConflict, Locals
  <2> QED
    BY <1>6, <2>1, <2>2, <2>3, Zenon DEF Record
<1>7. CASE StartRead(p)
  BY <1>2, <1>7, RestingType, ZenonT(30) DEF StartRead, Locals
<1>8. CASE TryReplica(p)
  <2>1. PICK n \in actor[p].left :
          actor'[p] = [actor[p] EXCEPT
                         !.pc = IF registry[n] = "online" THEN "get" ELSE "load",
                         !.node = n,
                         !.state = IF registry[n] = "offline" THEN "Offline" ELSE "Missing",
                         !.left = actor[p].left \ {n}, !.tries = MarkTries]
    BY <1>2, <1>8, Zenon DEF TryReplica
  <2>2. actor'[p].pc = IF registry[n] = "online" THEN "get" ELSE "load"
    BY <1>1, <2>1, Zenon DEF Locals
  <2> QED
    BY <1>8, <2>2, Zenon
<1>9. CASE GetReplica(p) \/ ReadFails(p)
  BY <1>1, <1>2, <1>9, Zenon DEF GetReplica, ReadFails, Locals
<1>10. CASE StartWrite(p)
  <2>1. ASSUME NEW n \in Nodes,
               actor'[p] = [Resting EXCEPT !.pc = "load", !.node = n, !.tries = 1]
        PROVE  actor'[p].pc = "load"
    BY <2>1, RestingType, Zenon DEF Locals
  <2> QED
    BY <1>2, <1>10, <2>1, Zenon DEF StartWrite
<1> QED
  BY <1>5, <1>6, <1>7, <1>8, <1>9, <1>10, Zenon DEF Acts, ReadSteps

\* refresh_replica_states never forgets a replica.
LEMMA RefreshedRecorded ==
  ASSUME TypeOK, NEW n \in Nodes, NEW s
  PROVE  Refreshed(n, s) # "Unrecorded"
BY Zenon DEF TypeOK, Refreshed, Found

\* The actor that moves.
LEMMA OwnStep ==
  ASSUME IInv, TypeOK', NEW p \in Actors, Acts(p)
  PROVE  Targeted(p)' /\ ViewSound(p)' /\ RecordSound(p)'
<1>1. actor \in [Actors -> Locals] /\ actor[p] \in Locals
  BY Zenon DEF IInv, TypeOK, Locals, Tries
<1>2. ASSUME NEW a, Become(p, a) PROVE actor'[p] = a
  BY <1>1, <1>2, Zenon DEF Become
<1>3. Targeted(p)'
  <2>1. SUFFICES ASSUME TryReplica(p) PROVE actor'[p].node \in Nodes
    BY OwnPlace, Zenon DEF Targeted
  <2> QED
    BY <1>1, <1>2, <2>1, ZenonT(30) DEF TryReplica, Locals
<1>4. ViewSound(p)'
  <2>1. SUFFICES ASSUME actor'[p].pc = "probe", p \in fresh',
                        RefreshLoad(p) \/ ProbeReplica(p)
                 PROVE  /\ Recorded(actor'[p].view) = Recorded(placement')
                        /\ actor'[p].left \subseteq Recorded(placement')
    BY OwnPlace, Zenon DEF ViewSound, Recorded
  <2>2. End(p) => actor'[p].pc = "idle"
    BY <1>2, RestingType, Zenon DEF End
  <2>3. UNCHANGED placement
    BY <2>1, Zenon DEF RefreshLoad, ProbeReplica, world
  <2>4. CASE RefreshLoad(p)
    <3>1. actor'[p] = [actor[p] EXCEPT !.pc = "probe", !.view = placement,
                                       !.left = Recorded(placement)]
      BY <1>2, <2>1, <2>2, <2>4, Zenon DEF RefreshLoad
    <3>2. actor'[p].view = placement /\ actor'[p].left = Recorded(placement)
      BY <1>1, <3>1, Zenon DEF Locals
    <3> QED
      BY <2>3, <3>2, Zenon
  <2>5. CASE ProbeReplica(p)
    <3>1. PICK n \in actor[p].left :
            /\ actor'[p] = [actor[p] EXCEPT !.view[n] = Refreshed(n, @), !.left = @ \ {n}]
            /\ UNCHANGED fresh
      BY <1>2, <2>1, <2>2, <2>5, Zenon DEF ProbeReplica
    <3>2. n \in Nodes /\ actor[p].view \in [Nodes -> Records]
      BY <1>1, Zenon DEF Locals
    <3>3. actor'[p].view = [actor[p].view EXCEPT ![n] = Refreshed(n, actor[p].view[n])]
          /\ actor'[p].left = actor[p].left \ {n}
      BY <1>1, <3>1, Zenon DEF Locals
    <3>4. PICK s : s = Refreshed(n, actor[p].view[n])
      BY Zenon
    <3>5. s # "Unrecorded"
      BY <3>2, <3>4, RefreshedRecorded, Zenon DEF IInv
    <3>6. /\ Recorded(actor[p].view) = Recorded(placement)
          /\ actor[p].left \subseteq Recorded(placement)
      BY <2>1, <2>5, <3>1, Zenon DEF IInv, ViewSound, ProbeReplica
    <3>7. Recorded(actor'[p].view) = Recorded(actor[p].view)
      BY <3>2, <3>3, <3>4, <3>5, <3>6, Zenon DEF Recorded
    <3> QED
      BY <2>3, <3>3, <3>6, <3>7, Zenon
  <2> QED
    BY <2>1, <2>4, <2>5, Zenon
<1>5. RecordSound(p)'
  <2>1. SUFFICES ASSUME RecordLoad(p), actor'[p].pc = "swap"
                 PROVE  /\ p \in Reconcilers => retained'
                        /\ p \in Readers => placement'[actor'[p].node] # "Unrecorded"
    BY OwnPlace, Zenon DEF RecordSound
  <2>2. ~Proceed(p)
    <3>1. Proceed(p) => actor'[p].pc \in {"pick", "try", "idle"}
      BY <1>2, RestingType, ZenonT(30) DEF Proceed, End, Actors, Locals
    <3> QED
      BY <2>1, <3>1, Zenon
  <2>3. ~Unnecessary(p) /\ actor'[p] = [actor[p] EXCEPT !.pc = "swap"]
        /\ UNCHANGED <<placement, retained>>
    BY <1>2, <2>1, <2>2, Zenon DEF RecordLoad, world
  <2>4. actor'[p].node = actor[p].node
    BY <1>1, <2>3, Zenon DEF Locals
  <2> QED
    BY <2>3, <2>4, Zenon DEF Unnecessary
<1> QED
  BY <1>3, <1>4, <1>5, Zenon

\* Every step keeps what is known of views and records.
LEMMA ActorsStep ==
  ASSUME IInv, [Next]_vars, NEW q \in Actors
  PROVE  Targeted(q)' /\ ViewSound(q)' /\ RecordSound(q)'
<1>1. TypeOK /\ TypeOK'
  BY TypesStep, Zenon DEF IInv
<1>2. CASE UNCHANGED vars
  BY <1>1, <1>2, OthersStep, Zenon DEF vars, world
<1>3. ASSUME NEW p \in Actors, Acts(p)
      PROVE  Targeted(q)' /\ ViewSound(q)' /\ RecordSound(q)'
  <2>1. CASE q = p
    BY <1>1, <1>3, <2>1, OwnStep, Zenon
  <2>2. CASE q # p
    <3>1. actor'[q] = actor[q] /\ (q \in fresh' => q \in fresh)
      BY <1>3, <2>2, ActsLocals, Zenon
    <3>2. q \in fresh' => UNCHANGED <<placement, retained>>
      BY <1>1, <1>3, ActsWorld, Zenon
    <3> QED
      BY <1>1, <3>1, <3>2, OthersStep, Zenon
  <2> QED
    BY <2>1, <2>2, Zenon
<1>4. CASE Environment
  <2>1. actor'[q] = actor[q] \/ actor'[q] = Resting
    BY <1>1, <1>4, EnvironmentEffect, Zenon
  <2>2. q \in fresh' => q \in fresh /\ UNCHANGED <<placement, retained>>
    BY <1>1, <1>4, EnvironmentEffect, Zenon
  <2> QED
    BY <1>1, <2>1, <2>2, OthersStep, Zenon
<1> QED
  BY <1>2, <1>3, <1>4, StepSplit, Zenon DEF Next

-----------------------------------------------------------------------------
(* Reads *)

\* During a read the steady replicas only become fewer.
LEMMA SteadyShrinks ==
  ASSUME Watch, NEW p \in Readers,
         ~(actor'[p].pc = "try" /\ actor[p].pc \in {"idle", "failed"})
  PROVE  steady'[p] \subseteq {n \in steady[p] : Available(n)'}
BY Zenon DEF Watch

\* Reads that a step does not concern.
LEMMA OtherReadStep ==
  ASSUME IInv, Watch, NEW p \in Readers, actor'[p] = actor[p] \/ actor'[p] = Resting
  PROVE  ReadSound(p)'
<1>1. ReadSound(p)
  BY Zenon DEF IInv
<1>2. CASE actor'[p] = Resting
  BY <1>2, RestingType, Zenon DEF ReadSound
<1>3. CASE actor'[p] = actor[p]
  <2>1. steady'[p] \subseteq steady[p]
    BY <1>3, SteadyShrinks, Zenon
  <2> QED
    BY <1>1, <1>3, <2>1, Zenon DEF ReadSound
<1> QED
  BY <1>2, <1>3, Zenon

\* A read that proceeds from the record of a replica.
LEMMA ProceedRead ==
  ASSUME IInv, Watch, NEW p \in Readers, actor[p].pc \in {"load", "swap"}, Proceed(p)
  PROVE  ReadSound(p)'
<1>1. actor \in [Actors -> Locals] /\ actor[p] \in Locals /\ p \in Actors
  BY Zenon DEF IInv, TypeOK, Locals, Tries, Actors
<1>2. \/ actor[p].state = "Healthy" /\ actor' = [actor EXCEPT ![p] = Resting]
      \/ /\ actor[p].state # "Healthy"
         /\ actor' = [actor EXCEPT ![p] = [Resting EXCEPT !.pc = "try", !.left = actor[p].left]]
  BY ReplicationAssumption, Zenon DEF Proceed, End, Become
<1>3. CASE actor' = [actor EXCEPT ![p] = Resting]
  BY <1>1, <1>3, OtherReadStep, Zenon
<1>4. CASE /\ actor[p].state # "Healthy"
           /\ actor' = [actor EXCEPT ![p] = [Resting EXCEPT !.pc = "try", !.left = actor[p].left]]
  <2>1. actor'[p].pc = "try" /\ actor'[p].left = actor[p].left
    BY <1>1, <1>4, RestingType, Zenon DEF Locals
  <2>2. steady[p] \subseteq actor[p].left
    BY <1>4, Zenon DEF IInv, ReadSound
  <2>3. steady'[p] \subseteq steady[p]
    BY SteadyShrinks, Zenon
  <2> QED
    BY <2>1, <2>2, <2>3, Zenon DEF ReadSound
<1> QED
  BY <1>2, <1>3, <1>4, Zenon

\* The read that moves.
LEMMA OwnReadStep ==
  ASSUME IInv, Watch, NEW p \in Readers, StartRead(p) \/ ReadSteps(p)
  PROVE  ReadSound(p)'
<1>1. /\ actor \in [Actors -> Locals] /\ actor[p] \in Locals /\ p \in Actors
      /\ ReadSound(p) /\ TypeOK
  BY Zenon DEF IInv, TypeOK, Locals, Tries, Actors
<1>2. ASSUME NEW a, Become(p, a) PROVE actor'[p] = a
  BY <1>1, <1>2, Zenon DEF Become
<1>3. CASE StartRead(p)
  <2>1. actor'[p].pc = "try" /\ actor'[p].left = Recorded(placement)
    BY <1>2, <1>3, RestingType, Zenon DEF StartRead, Locals
  <2>2. steady'[p] \subseteq Recorded(placement)
    BY <1>3, <2>1, Zenon DEF Watch, StartRead
  <2> QED
    BY <2>1, <2>2, Zenon DEF ReadSound
<1>4. CASE TryReplica(p)
  <2>1. PICK n \in actor[p].left :
          actor'[p] = [actor[p] EXCEPT
                         !.pc = IF registry[n] = "online" THEN "get" ELSE "load",
                         !.node = n,
                         !.state = IF registry[n] = "offline" THEN "Offline" ELSE "Missing",
                         !.left = actor[p].left \ {n}, !.tries = MarkTries]
    BY <1>2, <1>4, Zenon DEF TryReplica
  <2>2. /\ actor'[p].pc = IF registry[n] = "online" THEN "get" ELSE "load"
        /\ actor'[p].node = n /\ actor'[p].left = actor[p].left \ {n}
    BY <1>1, <2>1, Zenon DEF Locals
  <2>3. actor[p].pc = "try" /\ UNCHANGED registry
    BY <1>4, Zenon DEF TryReplica, world
  <2>4. steady'[p] \subseteq {m \in steady[p] : Available(m)'}
    BY <2>3, SteadyShrinks, Zenon
  <2>5. registry[n] # "online" => ~Available(n)'
    BY <2>3, Zenon DEF Available, Reachable
  <2>6. steady[p] \subseteq actor[p].left
    BY <1>1, <2>3, Zenon DEF ReadSound
  <2> QED
    BY <2>2, <2>4, <2>5, <2>6, Zenon DEF ReadSound
<1>5. CASE GetReplica(p)
  <2>1. PICK n \in Nodes : n = actor[p].node
    BY <1>1, <1>5, Zenon DEF IInv, Targeted, GetReplica
  <2>2. PICK s : s = IF Reachable(n) THEN Found(n) ELSE "Missing"
    BY Zenon
  <2>3. actor'[p] = [actor[p] EXCEPT !.pc = "load", !.state = s]
    BY <1>2, <1>5, <2>1, <2>2, Zenon DEF GetReplica
  <2>4. actor'[p].pc = "load" /\ actor'[p].state = s /\ actor'[p].left = actor[p].left
    BY <1>1, <2>3, Zenon DEF Locals
  <2>5. s # "Healthy" => ~Available(n)'
    <3>1. UNCHANGED <<registry, cut, blob>>
      BY <1>5, Zenon DEF GetReplica, world
    <3>2. s # "Healthy" => ~Available(n)
      BY <2>2, Zenon DEF Available, Found
    <3> QED
      BY <3>1, <3>2, Zenon DEF Available, Reachable
  <2>6. steady'[p] \subseteq {m \in steady[p] : Available(m)'}
    BY <2>4, SteadyShrinks, Zenon
  <2>7. steady[p] \subseteq actor[p].left \cup {n}
    BY <1>1, <1>5, <2>1, Zenon DEF ReadSound, GetReplica
  <2> QED
    BY <2>4, <2>5, <2>6, <2>7, Zenon DEF ReadSound
<1>6. CASE ReadFails(p)
  <2>1. actor'[p] = [actor[p] EXCEPT !.pc = "failed"] /\ actor[p].pc = "try" /\ actor[p].left = {}
    BY <1>2, <1>6, Zenon DEF ReadFails
  <2>2. actor'[p].pc = "failed"
    BY <1>1, <2>1, Zenon DEF Locals
  <2>3. steady'[p] = {}
    BY <1>1, <2>1, <2>2, SteadyShrinks, Zenon DEF ReadSound
  <2> QED
    BY <2>2, <2>3, Zenon DEF ReadSound
<1>7. CASE Record(p)
  <2>1. actor[p].pc \in {"load", "swap"}
    BY <1>7, Zenon DEF Record, RecordLoad, RecordSwap, RecordConflict
  <2>2. CASE Proceed(p)
    BY <2>1, <2>2, ProceedRead, Zenon
  <2>3. CASE ~Proceed(p)
    <3>1. \/ actor'[p] = [actor[p] EXCEPT !.pc = "swap"]
          \/ actor'[p] = [actor[p] EXCEPT !.pc = "load", !.tries = actor[p].tries - 1]
      BY <1>2, <1>7, <2>3, Zenon DEF Record, RecordLoad, RecordSwap, RecordConflict
    <3>2. /\ actor'[p].pc \in {"load", "swap"} /\ actor'[p].state = actor[p].state
          /\ actor'[p].left = actor[p].left
      BY <1>1, <3>1, Zenon DEF Locals
    <3>3. steady'[p] \subseteq steady[p]
      BY <3>2, SteadyShrinks, Zenon
    <3> QED
      BY <1>1, <2>1, <3>2, <3>3, Zenon DEF ReadSound
  <2> QED
    BY <2>2, <2>3, Zenon
<1> QED
  BY <1>3, <1>4, <1>5, <1>6, <1>7, Zenon DEF ReadSteps

\* Every step keeps what is known of reads.
LEMMA ReadsStep ==
  ASSUME IInv, [Next]_vars, NEW p \in Readers
  PROVE  ReadSound(p)'
<1>1. TypeOK /\ p \in Actors
  BY Zenon DEF IInv, Actors
<1>2. CASE UNCHANGED vars
  <2>1. ReadSound(p)
    BY Zenon DEF IInv
  <2> QED
    BY <1>2, <2>1, Zenon DEF vars, ReadSound
<1>3. CASE Next
  <2>1. Watch /\ Step
    BY <1>3, Zenon DEF Next
  <2>2. ASSUME NEW q \in Actors, Acts(q)
        PROVE  ReadSound(p)'
    <3>1. CASE q = p
      <4>1. StartRead(p) \/ ReadSteps(p)
        BY <2>2, <3>1, ReplicationAssumption, Zenon DEF Acts
      <4> QED
        BY <2>1, <4>1, OwnReadStep, Zenon
    <3>2. CASE q # p
      BY <1>1, <2>1, <2>2, <3>2, ActsLocals, OtherReadStep, Zenon
    <3> QED
      BY <3>1, <3>2, Zenon
  <2>3. CASE Environment
    <3>1. actor'[p] = actor[p] \/ actor'[p] = Resting
      BY <1>1, <2>3, EnvironmentEffect, Zenon
    <3> QED
      BY <2>1, <3>1, OtherReadStep, Zenon
  <2> QED
    BY <2>1, <2>2, <2>3, StepSplit, Zenon
<1> QED
  BY <1>2, <1>3, Zenon

-----------------------------------------------------------------------------
(* Theorems *)

\* The first state satisfies the invariant.
LEMMA InitIInv == Init => IInv
<1> SUFFICES ASSUME Init PROVE IInv
  BY Zenon
<1>1. actor \in [Actors -> Locals] /\ \A p \in Actors : actor[p] = Resting
  BY RestingType, Zenon DEF Init
<1>2. TypeOK
  <2>1. registry \in [Nodes -> {"absent", "online", "offline"}]
    <3>1. registry \in [Nodes -> {"online", "offline"}]
      BY Zenon DEF Init
    <3> QED
      BY <3>1, Zenon
  <2>2. faults \in 0..MaxFaults /\ unrest \in 0..MaxUnrest
    BY ReplicationAssumption DEF Init
  <2>3. /\ retained \in BOOLEAN /\ cut \in SUBSET Remote
        /\ placement \in [Nodes -> Records] /\ blob \in [Nodes -> {"absent", "corrupt", "good"}]
        /\ fresh \in SUBSET Actors /\ steady \in [Readers -> SUBSET Nodes]
    BY Zenon DEF Init, Records
  <2> QED
    BY <1>1, <2>1, <2>2, <2>3, Zenon DEF TypeOK, Locals, Tries
<1>3. \A p \in Actors : Targeted(p) /\ ViewSound(p) /\ RecordSound(p)
  BY <1>1, RestingType, Zenon DEF Targeted, ViewSound, RecordSound
<1>4. \A p \in Readers : ReadSound(p)
  BY <1>1, RestingType, Zenon DEF ReadSound, Actors
<1> QED
  BY <1>2, <1>3, <1>4, Zenon DEF IInv

\* Every step keeps it.
LEMMA NextIInv == IInv /\ [Next]_vars => IInv'
BY TypesStep, ActorsStep, ReadsStep, Zenon DEF IInv

\* It holds in every reachable state.
LEMMA Invariance == Spec => []IInv
BY InitIInv, NextIInv, PTL DEF Spec

\* Every variable has its type.
THEOREM ReplicationTypeCorrect == Spec => []TypeOK
<1>1. IInv => TypeOK
  BY Zenon DEF IInv
<1> QED
  BY <1>1, Invariance, PTL

\* read_internal returns ContentUnavailable only if no replica that was on record when
\* the read began could have served it ever since.
THEOREM ReadsFindSteadyReplicas == Spec => []SteadyReplicaIsRead
<1>1. IInv => SteadyReplicaIsRead
  BY Zenon DEF IInv, ReadSound, SteadyReplicaIsRead
<1> QED
  BY <1>1, Invariance, PTL

\* What a commit does to the placement: a swap of refresh_current_placement records the
\* same replicas as before, the other one adds at most its own.
LEMMA CommitEffect ==
  ASSUME IInv, [Next]_vars
  PROVE  /\ Recorded(placement) \subseteq Recorded(placement')
         /\ Recorded(placement') \subseteq Recorded(placement) \/ retained'
<1>1. TypeOK
  BY Zenon DEF IInv
<1>2. CASE UNCHANGED placement
  BY <1>2, Zenon
<1>3. ASSUME NEW p \in Actors, MergeSwap(p)
      PROVE  Recorded(placement) = Recorded(placement')
  <2>1. actor[p].pc = "probe" /\ p \in fresh /\ placement' = actor[p].view
    BY <1>3, Zenon DEF MergeSwap, Merge
  <2> QED
    BY <2>1, Zenon DEF IInv, ViewSound
<1>4. ASSUME NEW p \in Actors, RecordSwap(p)
      PROVE  /\ Recorded(placement) \subseteq Recorded(placement')
             /\ Recorded(placement') \subseteq Recorded(placement) \/ retained'
  <2>1. /\ actor[p].pc = "swap" /\ p \in fresh
        /\ placement' = [placement EXCEPT ![actor[p].node] = actor[p].state]
        /\ retained' = (retained \/ p \in Writers)
    BY <1>4, Zenon DEF RecordSwap
  <2>2. actor[p].state # "Unrecorded"
    BY <1>1, Zenon DEF TypeOK, ReplicaStates
  <2>3. Recorded(placement) \subseteq Recorded(placement')
    BY <1>1, <2>1, <2>2, Zenon DEF Recorded, TypeOK
  <2>4. CASE p \in Readers
    <3>1. placement[actor[p].node] # "Unrecorded"
      BY <2>1, <2>4, Zenon DEF IInv, RecordSound
    <3> QED
      BY <1>1, <2>1, <2>3, <3>1, Zenon DEF Recorded, TypeOK
  <2>5. CASE p \in Reconcilers \/ p \in Writers
    BY <2>1, <2>3, <2>5, Zenon DEF IInv, RecordSound
  <2> QED
    BY <2>4, <2>5, Zenon DEF Actors
<1>5. ASSUME NEW p \in Actors, Acts(p)
      PROVE  UNCHANGED placement \/ MergeSwap(p) \/ RecordSwap(p)
  BY <1>1, <1>5, ActsWorld, Zenon
<1>6. Environment \/ UNCHANGED vars => UNCHANGED placement
  BY <1>1, EnvironmentEffect, Zenon DEF vars, world
<1> QED
  BY <1>2, <1>3, <1>4, <1>5, <1>6, StepSplit, Zenon DEF Next

\* "Replica state is merged into the current placement during CAS retries": the swaps of
\* refresh_current_placement, mutate_placement, mark_replica and write drop no replica
\* that another actor recorded.
THEOREM ReplicasStayOnRecord == Spec => NoReplicaForgotten
<1>1. IInv /\ [Next]_vars => [Recorded(placement) \subseteq Recorded(placement')]_vars
  BY CommitEffect, Zenon
<1> QED
  BY <1>1, Invariance, PTL DEF Spec, NoReplicaForgotten

\* "garbage candidates remain stored ... without gaining replicas": whatever the order of
\* a removal and the copies under way.
THEOREM GarbageGainsNoReplicas == Spec => OnlyRetainedGainsReplicas
<1>1. IInv /\ [Next]_vars =>
        [\A n \in Nodes : placement[n] = "Unrecorded" /\ placement'[n] # "Unrecorded"
                             => retained']_vars
  <2>1. SUFFICES ASSUME IInv, [Next]_vars, NEW n \in Nodes, placement[n] = "Unrecorded",
                        placement'[n] # "Unrecorded"
                 PROVE  retained'
    BY Zenon
  <2>2. n \in Recorded(placement') /\ n \notin Recorded(placement)
    BY <2>1, Zenon DEF Recorded
  <2> QED
    BY <2>1, <2>2, CommitEffect, Zenon
<1> QED
  BY <1>1, Invariance, PTL DEF Spec, OnlyRetainedGainsReplicas

-----------------------------------------------------------------------------
(* Content survives one reconciler *)

Sound == MaxFaults = 0 /\ \A r, s \in Reconcilers : r = s

\* Good bytes stay where they are, but for the deletion of the reconciler.
LEMMA GoodStays ==
  ASSUME Sound, IInv, [Next]_vars, NEW n \in Nodes, blob[n] = "good"
  PROVE  \/ blob'[n] = "good"
         \/ \E r \in Reconcilers : ClearLocal(r) /\ Acts(r) /\ actor[r].node = n
<1>1. TypeOK /\ blob \in [Nodes -> {"absent", "corrupt", "good"}]
  BY Zenon DEF IInv, TypeOK
<1>2. ASSUME NEW p \in Actors, Acts(p), ~ClearLocal(p)
      PROVE  blob'[n] = "good"
  BY <1>1, <1>2, ActsBlob, Zenon
<1>3. ASSUME NEW p \in Actors, Acts(p), ClearLocal(p)
      PROVE  blob'[n] = "good" \/ (p \in Reconcilers /\ actor[p].node = n)
  <2>1. \/ blob'[n] = "good"
        \/ p \in Reconcilers
    BY <1>1, <1>3, ActsBlob, Zenon
  <2>2. blob' = [blob EXCEPT ![actor[p].node] = "absent"]
    BY <1>3, Zenon DEF ClearLocal
  <2> QED
    BY <1>1, <2>1, <2>2, Zenon
<1>4. CASE Environment
  <2>1. ~(faults < MaxFaults)
    BY <1>1 DEF Sound, TypeOK
  <2> QED
    BY <1>1, <1>4, <2>1, EnvironmentEffect, Zenon
<1>5. UNCHANGED vars => UNCHANGED blob
  BY Zenon DEF vars, world
<1> QED
  BY <1>2, <1>3, <1>4, <1>5, StepSplit, Zenon DEF Next

\* A deletion has a source elsewhere.
LEMMA ClearSound ==
  ASSUME IInv, ContentInv, NEW r \in Reconcilers, ClearLocal(r)
  PROVE  /\ actor[r].source \in Nodes \ {actor[r].node}
         /\ blob'[actor[r].source] = "good"
<1>1. /\ actor[r].source \in Nodes \ {actor[r].node} /\ blob[actor[r].source] = "good"
  BY Zenon DEF ContentInv, CopySound, ClearLocal
<1>2. /\ blob' = [blob EXCEPT ![actor[r].node] = "absent"]
      /\ blob \in [Nodes -> {"absent", "corrupt", "good"}]
  BY Zenon DEF ClearLocal, IInv, TypeOK
<1> QED
  BY <1>1, <1>2, Zenon

\* Some node keeps the bytes.
LEMMA SomeGoodStays ==
  ASSUME Sound, IInv, ContentInv, [Next]_vars, SomeGood
  PROVE  SomeGood'
<1>1. PICK n \in Nodes : blob[n] = "good"
  BY Zenon DEF SomeGood
<1>2. CASE blob'[n] = "good"
  BY <1>2, Zenon DEF SomeGood
<1>3. ASSUME NEW r \in Reconcilers, ClearLocal(r)
      PROVE  SomeGood'
  BY <1>3, ClearSound, Zenon DEF SomeGood
<1> QED
  BY <1>1, <1>2, <1>3, GoodStays, Zenon

\* The copy of a reconciler.
LEMMA CopyStep ==
  ASSUME Sound, IInv, ContentInv, [Next]_vars, NEW r \in Reconcilers
  PROVE  CopySound(r)'
<1>1. /\ TypeOK /\ r \in Actors /\ CopySound(r)
      /\ actor \in [Actors -> Locals] /\ actor[r] \in Locals
  BY Zenon DEF IInv, TypeOK, Locals, Tries, Actors, ContentInv
<1>2. ASSUME actor'[r] = Resting \/ actor'[r] = actor[r],
             \A p \in Reconcilers : ~(Acts(p) /\ ClearLocal(p))
      PROVE  CopySound(r)'
  <2>1. CASE actor'[r] = Resting
    BY <2>1, RestingType, Zenon DEF CopySound
  <2>2. CASE actor'[r] = actor[r]
    BY <1>1, <1>2, <2>2, GoodStays, Zenon DEF CopySound
  <2> QED
    BY <1>2, <2>1, <2>2, Zenon
<1>3. ASSUME Acts(r)
      PROVE  CopySound(r)'
  <2>1. ASSUME NEW a, Become(r, a) PROVE actor'[r] = a
    BY <1>1, <2>1, Zenon DEF Become
  <2>2. End(r) => actor'[r].pc = "idle"
    BY <2>1, RestingType, Zenon DEF End
  <2>3. actor'[r].pc = "source" => actor'[r].node \notin actor'[r].left
    <3>1. SUFFICES ASSUME actor'[r].pc = "source", PickDestination(r) \/ FindSource(r)
                   PROVE  actor'[r].node \notin actor'[r].left
      BY <1>1, <1>3, OwnPlace, Zenon
    <3>2. CASE PickDestination(r)
      <4>1. PICK d \in actor[r].todo :
              \/ d \in Counted(placement) /\ Become(r, [actor[r] EXCEPT !.todo = @ \ {d}])
              \/ /\ d \notin Counted(placement)
                 /\ Become(r, [actor[r] EXCEPT !.pc = "source", !.node = d,
                                               !.left = {n \in Nodes : placement[n] = "Healthy"},
                                               !.todo = @ \ {d}])
        BY <2>2, <3>1, <3>2, Zenon DEF PickDestination
      <4>2. [actor[r] EXCEPT !.todo = @ \ {d}].pc = "pick"
        BY <1>1, <3>2, Zenon DEF PickDestination, Locals
      <4>3. /\ d \notin Counted(placement)
            /\ actor'[r] = [actor[r] EXCEPT !.pc = "source", !.node = d,
                                            !.left = {n \in Nodes : placement[n] = "Healthy"},
                                            !.todo = @ \ {d}]
        BY <2>1, <3>1, <4>1, <4>2, Zenon
      <4>4. actor'[r].node = d /\ actor'[r].left = {n \in Nodes : placement[n] = "Healthy"}
        BY <1>1, <4>3, Zenon DEF Locals
      <4> QED
        BY <4>3, <4>4, Zenon DEF Counted
    <3>3. CASE FindSource(r)
      <4>1. PICK n \in actor[r].left :
              \/ Become(r, [actor[r] EXCEPT !.pc = "clear", !.source = n, !.left = {}])
              \/ Become(r, [actor[r] EXCEPT !.left = @ \ {n}])
        BY <2>2, <3>1, <3>3, Zenon DEF FindSource
      <4>2. [actor[r] EXCEPT !.pc = "clear", !.source = n, !.left = {}].pc = "clear"
        BY <1>1, Zenon DEF Locals
      <4>3. actor'[r] = [actor[r] EXCEPT !.left = @ \ {n}]
        BY <2>1, <3>1, <4>1, <4>2, Zenon
      <4>4. actor'[r].node = actor[r].node /\ actor'[r].left = actor[r].left \ {n}
        BY <1>1, <4>3, Zenon DEF Locals
      <4> QED
        BY <1>1, <3>3, <4>4, Zenon DEF CopySound, FindSource
    <3> QED
      BY <3>1, <3>2, <3>3, Zenon
  <2>4. actor'[r].pc = "clear" => /\ actor'[r].source \in Nodes \ {actor'[r].node}
                                 /\ blob'[actor'[r].source] = "good"
    <3>1. SUFFICES ASSUME actor'[r].pc = "clear", FindSource(r)
                   PROVE  /\ actor'[r].source \in Nodes \ {actor'[r].node}
                          /\ blob'[actor'[r].source] = "good"
      BY <1>1, <1>3, OwnPlace, Zenon
    <3>2. PICK n \in actor[r].left :
            \/ /\ Available(n)
               /\ Become(r, [actor[r] EXCEPT !.pc = "clear", !.source = n, !.left = {}])
            \/ Become(r, [actor[r] EXCEPT !.left = @ \ {n}])
      BY <2>2, <3>1, Zenon DEF FindSource
    <3>3. [actor[r] EXCEPT !.left = @ \ {n}].pc = "source"
      BY <1>1, <3>1, Zenon DEF FindSource, Locals
    <3>4. /\ Available(n)
          /\ actor'[r] = [actor[r] EXCEPT !.pc = "clear", !.source = n, !.left = {}]
      BY <2>1, <3>1, <3>2, <3>3, Zenon
    <3>5. actor'[r].source = n /\ actor'[r].node = actor[r].node
      BY <1>1, <3>4, Zenon DEF Locals
    <3>6. n \in Nodes /\ n # actor[r].node /\ UNCHANGED blob
      BY <1>1, <3>1, Zenon DEF CopySound, FindSource, Locals, world
    <3> QED
      BY <3>4, <3>5, <3>6, Zenon DEF Available
  <2>5. actor'[r].pc = "put" => /\ actor'[r].source \in Nodes \ {actor'[r].node}
                               /\ blob'[actor'[r].source] = "good"
    <3>1. SUFFICES ASSUME actor'[r].pc = "put", ClearLocal(r) \/ ClearRemote(r)
                   PROVE  /\ actor'[r].source \in Nodes \ {actor'[r].node}
                          /\ blob'[actor'[r].source] = "good"
      BY <1>1, <1>3, OwnPlace, Zenon
    <3>2. actor'[r] = [actor[r] EXCEPT !.pc = "put"] /\ actor[r].pc = "clear"
      BY <2>1, <2>2, <3>1, Zenon DEF ClearLocal, ClearRemote
    <3>3. actor'[r].source = actor[r].source /\ actor'[r].node = actor[r].node
      BY <1>1, <3>2, Zenon DEF Locals
    <3>4. CASE ClearLocal(r)
      BY <3>3, <3>4, ClearSound, Zenon
    <3>5. CASE ClearRemote(r)
      BY <1>1, <3>2, <3>3, <3>5, Zenon DEF CopySound, ClearRemote, world
    <3> QED
      BY <3>1, <3>4, <3>5, Zenon
  <2> QED
    BY <2>3, <2>4, <2>5, Zenon DEF CopySound
<1>4. ASSUME NEW p \in Actors, Acts(p), p # r
      PROVE  actor'[r] = actor[r]
  BY <1>1, <1>4, ActsLocals, Zenon
<1>5. Environment => actor'[r] = actor[r] \/ actor'[r] = Resting
  BY <1>1, EnvironmentEffect, Zenon
<1>6. UNCHANGED vars => actor'[r] = actor[r]
  BY Zenon DEF vars
<1>7. \A p \in Reconcilers : p = r
  BY Zenon DEF Sound
<1> QED
  BY <1>2, <1>3, <1>4, <1>5, <1>6, <1>7, StepSplit, Zenon DEF Next

\* A write that is to be recorded has stored its bytes.
LEMMA WriteStep ==
  ASSUME Sound, IInv, ContentInv, [Next]_vars, NEW w \in Writers,
         actor'[w].pc \in {"load", "swap"}
  PROVE  SomeGood'
<1>1. TypeOK /\ w \in Actors
  BY Zenon DEF IInv, Actors
<1>2. CASE actor[w].pc \in {"load", "swap"}
  BY <1>2, SomeGoodStays, Zenon DEF ContentInv
<1>3. CASE StartWrite(w)
  <2>1. PICK n \in Nodes : Stores(n) \/ UNCHANGED actor
    BY <1>3, Zenon DEF StartWrite
  <2>2. CASE UNCHANGED actor
    BY <1>2, <2>2, Zenon
  <2>3. CASE Stores(n)
    BY <1>1, <2>3, Zenon DEF Stores, SomeGood, TypeOK
  <2> QED
    BY <2>1, <2>2, <2>3, Zenon
<1>4. ASSUME Record(w)
      PROVE  actor[w].pc \in {"load", "swap"}
  BY <1>4, Zenon DEF Record, RecordLoad, RecordSwap, RecordConflict
<1>5. ASSUME Acts(w)
      PROVE  StartWrite(w) \/ Record(w)
  BY <1>5, ReplicationAssumption, Zenon DEF Acts
<1>6. ASSUME NEW p \in Actors, Acts(p), p # w
      PROVE  actor'[w] = actor[w]
  BY <1>1, <1>6, ActsLocals, Zenon
<1>7. Environment => actor'[w] = actor[w] \/ actor'[w].pc = "idle"
  BY <1>1, EnvironmentEffect, RestingType, Zenon
<1>8. UNCHANGED vars => actor'[w] = actor[w]
  BY Zenon DEF vars
<1> QED
  BY <1>2, <1>3, <1>4, <1>5, <1>6, <1>7, <1>8, StepSplit, Zenon DEF Next

\* Content becomes retained by the swap of a write.
LEMMA RetainedStep ==
  ASSUME Sound, IInv, ContentInv, [Next]_vars, retained'
  PROVE  SomeGood'
<1>1. TypeOK
  BY Zenon DEF IInv
<1>2. CASE retained
  BY <1>2, SomeGoodStays, Zenon DEF ContentInv
<1>3. ASSUME NEW p \in Actors, Acts(p), ~retained
      PROVE  SomeGood'
  <2>1. RecordSwap(p) \/ MergeSwap(p)
    BY <1>1, <1>3, ActsWorld, Zenon
  <2>2. p \in Writers /\ actor[p].pc = "swap"
    BY <1>3, <2>1, Zenon DEF RecordSwap, MergeSwap, Merge
  <2> QED
    BY <2>2, SomeGoodStays, Zenon DEF ContentInv
<1>4. Environment \/ UNCHANGED vars => retained
  BY <1>1, EnvironmentEffect, Zenon DEF vars, world
<1> QED
  BY <1>2, <1>3, <1>4, StepSplit, Zenon DEF Next

\* The deletion before a copy, the failure of the copy and a stop in between lose no
\* content: with one reconciler and no damage of blobs, some node has the bytes of
\* retained content.
THEOREM RetainedContentSurvives ==
  ASSUME MaxFaults = 0, \A r, s \in Reconcilers : r = s
  PROVE  Spec => []ContentSurvives
<1>1. Sound
  BY Zenon DEF Sound
<1>2. Init => ContentInv
  <2>1. SUFFICES ASSUME Init PROVE ContentInv
    BY Zenon
  <2>2. \A p \in Actors : actor[p].pc = "idle"
    BY <2>1, RestingType, Zenon DEF Init
  <2> QED
    BY <2>1, <2>2, Zenon DEF Init, ContentInv, CopySound, Actors
<1>3. IInv /\ ContentInv /\ [Next]_vars => ContentInv'
  BY <1>1, CopyStep, WriteStep, RetainedStep, Zenon DEF ContentInv
<1>4. ContentInv => ContentSurvives
  BY Zenon DEF ContentInv, SomeGood, ContentSurvives
<1> QED
  BY <1>2, <1>3, <1>4, Invariance, PTL DEF Spec
=============================================================================
