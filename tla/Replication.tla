---------------------------- MODULE Replication ----------------------------
(***************************************************************************)
(* The replicas of one content: ReplicationReconciler (replication.rs),    *)
(* DefaultPlacementPolicy (placement.rs), the reads and the placement part *)
(* of the writes of FilesystemService (service.rs), over content stores    *)
(* and their registry (content.rs) and the adapter to remote members       *)
(* (kubeweft-filesystem-network).                                          *)
(*                                                                         *)
(* `placement` and `retained` are what the metadata store says of the      *)
(* content, `blob` is what the nodes hold.  An actor is in `fresh` while   *)
(* no commit followed its last load: its compare-and-swap succeeds iff it  *)
(* is.  A blob is "good" when its bytes match the content id.              *)
(*                                                                         *)
(* Replicas are visited in any order (the code: in the order of the        *)
(* placement).  Events and reports are left out.                           *)
(***************************************************************************)
EXTENDS Naturals, FiniteSets

CONSTANTS Nodes,        \* storage nodes
          Remote,       \* those behind RemoteContentStore
          Rank,         \* the sort key of desired_nodes, smaller is better
          Desired,      \* desired_replica_count
          Reconcilers, Readers, Writers,
          NoNode,
          MergeTries,   \* 8: refresh_current_placement, mutate_placement
          MarkTries,    \* 4: mark_replica
          MaxFaults,    \* bound: blobs lost or corrupted
          MaxUnrest     \* bound: disturbances by the environment

ASSUME ReplicationAssumption ==
  /\ Remote \in SUBSET Nodes /\ NoNode \notin Nodes
  /\ Rank \in [Nodes -> Nat]
  /\ \A m, n \in Nodes : Rank[m] = Rank[n] => m = n
  /\ MergeTries \in Nat \ {0} /\ MarkTries \in Nat \ {0}
  /\ MaxFaults \in Nat /\ MaxUnrest \in Nat /\ Desired \in Nat
  /\ Reconcilers \cap (Readers \cup Writers) = {} /\ Readers \cap Writers = {}

VARIABLES retained,   \* is_content_retained
          placement,  \* node -> recorded replica state
          blob,       \* node -> what it stores under the content id
          registry,   \* node -> "absent", "online", "offline"
          cut,        \* remote nodes that cannot be reached
          actor,      \* the locals of each actor
          fresh,      \* actors whose loaded snapshot is the stored one
          steady,     \* history: replicas a read could have used all along
          faults,     \* blobs damaged so far
          unrest      \* disturbances so far

world == <<retained, placement, blob, registry, cut, faults, unrest>>
vars == <<world, actor, fresh, steady>>

Actors == Reconcilers \cup Readers \cup Writers

ReplicaStates == {"Healthy", "Offline", "Missing", "Corrupted"}
Records == ReplicaStates \cup {"Unrecorded"}

Resting == [pc     |-> "idle",
            view   |-> [n \in Nodes |-> "Unrecorded"], \* the loaded placement
            left   |-> {},        \* replicas still to visit
            todo   |-> {},        \* destinations still to visit
            node   |-> NoNode,    \* the destination, or the replica to mark
            source |-> NoNode,    \* where its bytes come from
            state  |-> "Healthy", \* the state to record for it
            tries  |-> 0]         \* swaps left

\* The environment has come to rest.
calm == unrest = MaxUnrest

Recorded(p) == {n \in Nodes : p[n] # "Unrecorded"}

\* Healthy | Offline: what durability() counts.
Counted(p) == {n \in Nodes : p[n] \in {"Healthy", "Offline"}}

Reachable(n) == registry[n] = "online" /\ n \notin cut

\* get_from returns bytes that match.
Available(n) == Reachable(n) /\ blob[n] = "good"

\* What a look at the store of a reachable node tells.  A remote store checks
\* the bytes itself and denies having others.
Found(n) == CASE blob[n] = "good"    -> "Healthy"
              [] blob[n] = "absent"  -> "Missing"
              [] blob[n] = "corrupt" -> IF n \in Remote THEN "Missing" ELSE "Corrupted"

-----------------------------------------------------------------------------
Init ==
  /\ retained = FALSE
  /\ placement = [n \in Nodes |-> "Unrecorded"]
  /\ blob = [n \in Nodes |-> "absent"]
  /\ registry \in [Nodes -> {"online", "offline"}]
  /\ cut = {}
  /\ actor = [p \in Actors |-> Resting]
  /\ fresh = {}
  /\ steady = [p \in Readers |-> {}]
  /\ faults = 0
  /\ unrest = 0

Become(p, a) == actor' = [actor EXCEPT ![p] = a]

\* The call returns; an error of a reconciler ends its pass.
End(p) == Become(p, Resting)

\* compare_and_swap succeeds: every other loaded snapshot is out of date.
Commit == fresh' = {}

-----------------------------------------------------------------------------
(* reconcile *)

StartPass(r) ==
  /\ actor[r].pc = "idle"
  /\ retained
  /\ Become(r, [Resting EXCEPT !.pc = "refresh", !.tries = MergeTries])
  /\ UNCHANGED <<world, fresh>>

\* refresh_current_placement: load
RefreshLoad(r) ==
  /\ actor[r].pc = "refresh"
  /\ IF retained
     THEN /\ Become(r, [actor[r] EXCEPT !.pc = "probe", !.view = placement,
                                        !.left = Recorded(placement)])
          /\ fresh' = fresh \cup {r}
     ELSE End(r) /\ UNCHANGED fresh
  /\ UNCHANGED world

\* refresh_replica_states, one replica with state s on record
Refreshed(n, s) ==
  CASE registry[n] = "absent"  -> "Missing"
    [] registry[n] = "offline" -> IF s \in {"Missing", "Corrupted"} THEN s ELSE "Offline"
    [] registry[n] = "online"  -> Found(n)

\* A remote node that is online on record but cannot be reached ends the pass.
ProbeReplica(r) ==
  /\ actor[r].pc = "probe"
  /\ \E n \in actor[r].left :
       IF registry[n] = "online" /\ n \in cut
       THEN End(r) /\ fresh' = fresh \ {r}
       ELSE /\ Become(r, [actor[r] EXCEPT !.view[n] = Refreshed(n, @),
                                          !.left = @ \ {n}])
            /\ UNCHANGED fresh
  /\ UNCHANGED world

\* The swap that merges the refreshed states.
Merge(r) ==
  /\ placement' = actor[r].view
  /\ Commit
  /\ Become(r, [actor[r] EXCEPT !.pc = "plan"])
  /\ UNCHANGED <<retained, blob, registry, cut, faults, unrest>>

\* Mutant: the refreshed states are stored whatever was committed since.
MergeBlindly(r) == actor[r].pc = "probe" /\ actor[r].left = {} /\ Merge(r)

MergeSwap(r) ==
  /\ actor[r].pc = "probe" /\ actor[r].left = {}
  /\ r \in fresh
  /\ Merge(r)

MergeConflict(r) ==
  /\ actor[r].pc = "probe" /\ actor[r].left = {}
  /\ r \notin fresh
  /\ IF actor[r].tries > 1
     THEN Become(r, [actor[r] EXCEPT !.pc = "refresh", !.tries = @ - 1])
     ELSE End(r)
  /\ UNCHANGED <<world, fresh>>

\* Mutant: one copy fewer is asked for.
DesiredNodesOneShort(p) ==
  LET selected   == Counted(p)
      candidates == {n \in Nodes \ selected : registry[n] = "online"}
  IN  selected \cup
      {n \in candidates :
         Cardinality(selected)
           + Cardinality({m \in candidates : Rank[m] < Rank[n]}) + 1 < Desired}

\* desired_nodes: existing copies, then the best online nodes up to the count.
\* Every node has room for the content as far as the registry knows.
DesiredNodes(p) ==
  LET selected   == Counted(p)
      candidates == {n \in Nodes \ selected : registry[n] = "online"}
  IN  selected \cup
      {n \in candidates :
         Cardinality(selected)
           + Cardinality({m \in candidates : Rank[m] < Rank[n]}) < Desired}

Plan(r) ==
  /\ actor[r].pc = "plan"
  /\ Become(r, [Resting EXCEPT !.pc = "pick", !.todo = DesiredNodes(actor[r].view)])
  /\ UNCHANGED <<world, fresh>>

\* Mutant: a destination that has a copy by now is not passed over.
PickDestinationAnyway(r) ==
  /\ actor[r].pc = "pick"
  /\ IF actor[r].todo = {} \/ ~retained
     THEN End(r)
     ELSE \E d \in actor[r].todo :
            Become(r, [actor[r] EXCEPT !.pc = "source", !.node = d,
                                       !.left = {n \in Nodes : placement[n] = "Healthy"},
                                       !.todo = @ \ {d}])
  /\ UNCHANGED <<world, fresh>>

\* The load at the head of the loop over the destinations.
PickDestination(r) ==
  /\ actor[r].pc = "pick"
  /\ IF actor[r].todo = {} \/ ~retained
     THEN End(r)
     ELSE \E d \in actor[r].todo :
            IF d \in Counted(placement)
            THEN Become(r, [actor[r] EXCEPT !.todo = @ \ {d}])
            ELSE Become(r, [actor[r] EXCEPT !.pc = "source", !.node = d,
                                            !.left = {n \in Nodes : placement[n] = "Healthy"},
                                            !.todo = @ \ {d}])
  /\ UNCHANGED <<world, fresh>>

FindSource(r) ==
  /\ actor[r].pc = "source"
  /\ IF actor[r].left = {}
     THEN End(r)
     ELSE \E n \in actor[r].left :
            Become(r, IF Available(n)
                      THEN [actor[r] EXCEPT !.pc = "clear", !.source = n, !.left = {}]
                      ELSE [actor[r] EXCEPT !.left = @ \ {n}])
  /\ UNCHANGED <<world, fresh>>

\* exists and delete on a local destination, online or not.
ClearLocal(r) ==
  /\ actor[r].pc = "clear" /\ actor[r].node \notin Remote
  /\ blob' = [blob EXCEPT ![actor[r].node] = "absent"]
  /\ Become(r, [actor[r] EXCEPT !.pc = "put"])
  /\ UNCHANGED <<retained, placement, registry, cut, faults, unrest, fresh>>

\* On a remote one exists needs an answer, and delete is always refused.
ClearRemote(r) ==
  /\ actor[r].pc = "clear" /\ actor[r].node \in Remote
  /\ IF actor[r].node \in cut \/ blob[actor[r].node] = "good"
     THEN End(r)
     ELSE Become(r, [actor[r] EXCEPT !.pc = "put"])
  /\ UNCHANGED <<world, fresh>>

\* The outcomes of put on node n: stored, or an error: not reached, the answer
\* lost, or no space (a corrupt blob may be gone by then).
Stores(n) ==
  /\ Reachable(n)
  /\ blob' = [blob EXCEPT ![n] = "good"]
  /\ UNCHANGED unrest

Fails(n) ==
  \/ ~Reachable(n) /\ UNCHANGED <<blob, unrest>>
  \/ /\ Reachable(n) /\ ~calm /\ unrest' = unrest + 1
     /\ \/ n \in Remote /\ blob' = [blob EXCEPT ![n] = "good"]
        \/ blob[n] # "good" /\ blob' \in {blob, [blob EXCEPT ![n] = "absent"]}

PutReplica(r) ==
  /\ actor[r].pc = "put"
  /\ LET d == actor[r].node
     IN  \/ /\ Stores(d)
            /\ Become(r, [actor[r] EXCEPT !.pc = "load", !.source = NoNode,
                                          !.tries = MergeTries])
         \/ Fails(d) /\ End(r)
  /\ UNCHANGED <<retained, placement, registry, cut, faults, fresh>>

-----------------------------------------------------------------------------
(* read_internal *)

StartRead(p) ==
  /\ ~calm
  /\ actor[p].pc \in {"idle", "failed"}
  /\ retained
  /\ Become(p, [Resting EXCEPT !.pc = "try", !.left = Recorded(placement)])
  /\ UNCHANGED <<world, fresh>>

\* The node of the next replica is looked up; a replica that is not there to
\* read is to be marked.
TryReplica(p) ==
  /\ actor[p].pc = "try"
  /\ \E n \in actor[p].left :
       Become(p, [actor[p] EXCEPT !.pc = IF registry[n] = "online" THEN "get" ELSE "load",
                                  !.node = n,
                                  !.state = IF registry[n] = "offline" THEN "Offline" ELSE "Missing",
                                  !.left = @ \ {n}, !.tries = MarkTries])
  /\ UNCHANGED <<world, fresh>>

\* Mutant: the read gives up after the first replica.
GetReplicaOnce(p) ==
  /\ actor[p].pc = "get"
  /\ LET n == actor[p].node
     IN  Become(p, [actor[p] EXCEPT !.pc = "load", !.left = {},
                                    !.state = IF Reachable(n) THEN Found(n) ELSE "Missing"])
  /\ UNCHANGED <<world, fresh>>

\* get_from: whatever its error, the replica counts as missing.
GetReplica(p) ==
  /\ actor[p].pc = "get"
  /\ LET n == actor[p].node
     IN  Become(p, [actor[p] EXCEPT !.pc = "load",
                                    !.state = IF Reachable(n) THEN Found(n) ELSE "Missing"])
  /\ UNCHANGED <<world, fresh>>

\* ContentUnavailable
ReadFails(p) ==
  /\ actor[p].pc = "try" /\ actor[p].left = {}
  /\ Become(p, [actor[p] EXCEPT !.pc = "failed"])
  /\ UNCHANGED <<world, fresh>>

-----------------------------------------------------------------------------
(* write: put_on, then one load and one swap *)

StartWrite(w) ==
  /\ ~calm
  /\ actor[w].pc = "idle"
  /\ \E n \in Nodes :
       /\ registry[n] # "absent"
       /\ \/ /\ Stores(n)
             /\ Become(w, [Resting EXCEPT !.pc = "load", !.node = n, !.tries = 1])
          \/ Fails(n) /\ UNCHANGED actor
  /\ UNCHANGED <<retained, placement, registry, cut, faults, fresh>>

-----------------------------------------------------------------------------
(* mutate_placement, mark_replica and the commit of a write *)

\* Where an actor goes when its record is made or found unnecessary.
Proceed(p) ==
  CASE p \in Reconcilers -> Become(p, [Resting EXCEPT !.pc = "pick", !.todo = actor[p].todo])
    [] p \in Readers     -> IF actor[p].state = "Healthy" THEN End(p)
                            ELSE Become(p, [Resting EXCEPT !.pc = "try", !.left = actor[p].left])
    [] p \in Writers     -> End(p)

\* Mutant: content that is no longer retained is recorded all the same.
UnnecessaryEvenIfGarbage(p) ==
  p \in Readers /\ placement[actor[p].node] \in {"Unrecorded", actor[p].state}

Unnecessary(p) ==
  \/ p \in Reconcilers /\ ~retained
  \/ p \in Readers /\ placement[actor[p].node] \in {"Unrecorded", actor[p].state}

RecordLoad(p) ==
  /\ actor[p].pc = "load"
  /\ IF Unnecessary(p)
     THEN Proceed(p) /\ UNCHANGED fresh
     ELSE Become(p, [actor[p] EXCEPT !.pc = "swap"]) /\ fresh' = fresh \cup {p}
  /\ UNCHANGED world

RecordSwap(p) ==
  /\ actor[p].pc = "swap" /\ p \in fresh
  /\ placement' = [placement EXCEPT ![actor[p].node] = actor[p].state]
  /\ retained' = (retained \/ p \in Writers)
  /\ Commit
  /\ Proceed(p)
  /\ UNCHANGED <<blob, registry, cut, faults, unrest>>

\* Mutant: the number of swaps is not limited.
RecordConflictForever(p) ==
  /\ actor[p].pc = "swap" /\ p \notin fresh
  /\ Become(p, [actor[p] EXCEPT !.pc = "load", !.tries = @ - 1])
  /\ UNCHANGED <<world, fresh>>

RecordConflict(p) ==
  /\ actor[p].pc = "swap" /\ p \notin fresh
  /\ IF actor[p].tries > 1
     THEN Become(p, [actor[p] EXCEPT !.pc = "load", !.tries = @ - 1])
     ELSE IF p \in Readers THEN Proceed(p) ELSE End(p)
  /\ UNCHANGED <<world, fresh>>

-----------------------------------------------------------------------------
(* The rest of the system, until it comes to rest *)

\* The last file with the content is removed or rewritten.
Remove ==
  /\ retained /\ retained' = FALSE
  /\ Commit
  /\ UNCHANGED <<placement, blob, registry, cut, faults, actor>>

\* Any other commit to the metadata store.
OtherCommit == Commit /\ UNCHANGED <<retained, placement, blob, registry, cut, faults, actor>>

\* register and set_online, where they change something
SetOnline ==
  /\ \E n \in Nodes : \E s \in {"online", "offline"} \ {registry[n]} :
       registry' = [registry EXCEPT ![n] = s]
  /\ UNCHANGED <<retained, placement, blob, cut, faults, actor, fresh>>

Link ==
  /\ cut' \in (SUBSET Remote) \ {cut}
  /\ UNCHANGED <<retained, placement, blob, registry, faults, actor, fresh>>

Damage ==
  /\ faults < MaxFaults /\ faults' = faults + 1
  /\ \E n \in Nodes : /\ blob[n] = "good"
                      /\ \E b \in {"absent", "corrupt"} : blob' = [blob EXCEPT ![n] = b]
  /\ UNCHANGED <<retained, placement, registry, cut, actor, fresh>>

\* The process that runs the actors stops; the next one starts without nodes.
Crash ==
  /\ registry' = [n \in Nodes |-> "absent"]
  /\ actor' = [p \in Actors |-> Resting]
  /\ Commit
  /\ UNCHANGED <<retained, placement, blob, cut, faults>>

Environment ==
  /\ ~calm
  /\ \/ Remove \/ OtherCommit \/ SetOnline \/ Link \/ Damage \/ Crash
  /\ unrest' = unrest + 1

-----------------------------------------------------------------------------
Reconcile(r) ==
  \/ StartPass(r) \/ RefreshLoad(r) \/ ProbeReplica(r) \/ MergeSwap(r)
  \/ MergeConflict(r) \/ Plan(r) \/ PickDestination(r) \/ FindSource(r)
  \/ ClearLocal(r) \/ ClearRemote(r) \/ PutReplica(r)

Record(p) == RecordLoad(p) \/ RecordSwap(p) \/ RecordConflict(p)

ReadSteps(p) == TryReplica(p) \/ GetReplica(p) \/ ReadFails(p) \/ Record(p)

Step ==
  \/ \E r \in Reconcilers : Reconcile(r) \/ Record(r)
  \/ \E p \in Readers : StartRead(p) \/ ReadSteps(p)
  \/ \E w \in Writers : StartWrite(w) \/ Record(w)
  \/ Environment

\* Replicas on record that every moment of the read could have served.
Watch ==
  steady' = [p \in Readers |->
               {n \in IF actor'[p].pc = "try" /\ actor[p].pc \in {"idle", "failed"}
                      THEN Recorded(placement) ELSE steady[p] : Available(n)'}]

Next == Step /\ Watch

Spec == Init /\ [][Next]_vars

\* Every call under way goes on, and reconcile is called again and again.  The
\* latter is an assumption on the program that embeds the reconciler: only tests
\* of the repository call it.
FairSpec ==
  /\ Spec
  /\ \A r \in Reconcilers : WF_vars((Reconcile(r) \/ Record(r)) /\ Watch)
  /\ \A p \in Readers : WF_vars(ReadSteps(p) /\ Watch)
  /\ \A w \in Writers : WF_vars(Record(w) /\ Watch)

-----------------------------------------------------------------------------
(* Properties *)

TypeOK ==
  /\ retained \in BOOLEAN
  /\ placement \in [Nodes -> Records]
  /\ blob \in [Nodes -> {"absent", "corrupt", "good"}]
  /\ registry \in [Nodes -> {"absent", "online", "offline"}]
  /\ cut \in SUBSET Remote
  /\ actor \in [Actors -> [pc     : {"idle", "refresh", "probe", "plan", "pick", "source",
                                     "clear", "put", "load", "swap", "try", "get", "failed"},
                           view   : [Nodes -> Records],
                           left   : SUBSET Nodes,
                           todo   : SUBSET Nodes,
                           node   : Nodes \cup {NoNode},
                           source : Nodes \cup {NoNode},
                           state  : ReplicaStates,
                           tries  : 0..(MergeTries + MarkTries)]]
  /\ fresh \in SUBSET Actors
  /\ steady \in [Readers -> SUBSET Nodes]
  /\ faults \in 0..MaxFaults /\ unrest \in 0..MaxUnrest

\* A reconciler deletes what it finds at a destination before it copies there,
\* and the copy may fail or the process stop in between.  With one reconciler
\* and sound media retained content is never lost: some node has a good blob,
\* whatever reads, writes, removals and changes of the registry interleave.
ContentSurvives == retained => \E n \in Nodes : blob[n] = "good"

\* "garbage candidates remain stored ... without gaining replicas": a replica is
\* put on record only while the content is retained, also when the file goes
\* away during the copy.
OnlyRetainedGainsReplicas ==
  [][\A n \in Nodes : placement[n] = "Unrecorded" /\ placement'[n] # "Unrecorded"
                        => retained']_vars

\* "Replica state is merged into the current placement during CAS retries": no
\* actor's older view of the placement drops a replica that another recorded.
NoReplicaForgotten ==
  [][Recorded(placement) \subseteq Recorded(placement')]_vars

\* A read that returns ContentUnavailable passed over no replica that was on
\* record when it began and could have served it ever since, whatever states
\* were on record and however late its marks were.
SteadyReplicaIsRead ==
  \A p \in Readers : actor[p].pc = "failed" => steady[p] = {}

\* "Offline means the recorded copy still exists but cannot be checked now"
\* (refresh_replica_states): a replica known to be gone or damaged does not
\* become Offline, which durability() counts as a copy.
KnownLossNotForgotten ==
  [][\A n \in Nodes : placement[n] \in {"Missing", "Corrupted"}
                        => placement'[n] # "Offline"]_vars

\* Some replica on record can be read.
Repairable == \E n \in Recorded(placement) : Available(n)

\* As many copies as desired, good where they can be checked, or as many as
\* there are online nodes.
Durable ==
  LET present == {n \in Counted(placement) : registry[n] = "online" => Available(n)}
  IN  \/ Cardinality(present) >= Desired
      \/ \A n \in Nodes : registry[n] = "online" => n \in present

\* "live file references ... receive replication" (docs/architecture.md): once
\* nodes and clients come to rest and no link is cut, repeated reconciliation
\* gets retained content that can still be read to its desired number of copies,
\* and keeps it.
Repaired == <>(calm /\ cut = {}) => <>[](Durable \/ ~retained \/ ~Repairable)
=============================================================================
