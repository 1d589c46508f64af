# Verification of kubeweft

TLA+ models of kubeweft's stateful parts, model-checked with TLC on small
instances. Every safety property of the passing runs is also proved with TLAPS
for every instance, but for one that is about ENABLED.

## The system

| Part | State | Operations | Module |
|---|---|---|---|
| Namespace, versions (`namespace.rs`, `service.rs`, `metadata.rs`) | one snapshot with a revision | mkdir, create, rename, remove, write, stat | MetadataSnapshot, FilesystemMetadata |
| Local metadata store (`metadata.rs`) | snapshot file, temporary file, mutex, lock file | load, compare_and_swap | LocalMetadataStore |
| Replication (`replication.rs`, `placement.rs`, reads of `service.rs`, `content.rs`, network adapter) | placement, retention, blobs, registry | reconcile, read, the placement part of write | Replication |
| Membership (`agent.rs`, `domain.rs`) | role, roster, code, accepted and pending joins | create, invite, join, accept, fetch and store roster | Membership |
| Presence (`agent.rs`, `presence.rs`) | in-memory table per agent | passes, probes | Presence |
| Data directory (`store.rs`, `identity.rs`, start and shutdown of `agent.rs`) | agent.lock, identity.json, cluster.json, agent.sock | open, load_or_create, update, bind, connect | DataDirectory |
| Content store (`content.rs`) | a file per content, temporary files, mutex, lock file | put, delete | LocalContentStore |
| Content transfer (`peer_content.rs`, `secure.rs`, listener of `agent.rs`, network adapter) | calls and the one session of the listener | put, get, exists of a peer | ContentTransfer |
| Desktop (`filesystembridge.cpp`, its C bridge, `kubeweft-local`) | what each window shows, the call it runs | the handlers of the buttons | DesktopApplication |

The metadata plane stores what replication reads and marks. Membership updates
go through the data directory, presence probes the roster of membership, and
remote content stores are members. Two modules compose parts that interact:
ContentTransfer runs the listener of an agent and local tools on one
LocalContentStore, and DesktopApplication runs windows and other clients on one
MetadataSnapshot. The other models meet at interfaces: FilesystemMetadata uses
the store as LocalMetadataStore is proved to behave, DesktopApplication takes
each service call as one step, which is what the refinement of AtomicFilesystem
proves, Membership takes an update of cluster.json as one step, which is what is
proved of DataDirectory (`NoUpdateLost`), and Replication has for a put on a remote
node the outcomes that ContentTransfer shows: stored, refused, or stored with
the answer lost.

## Modules and code

* **MetadataSnapshot**: the snapshot as a value and the effect of each operation
  as the set of snapshots it may install (`{}` for an error).
* **FilesystemMetadata**: clients over the store; every load and every swap is a
  step, and each may fail, a swap also after the snapshot was replaced.
  **AtomicFilesystem** is what they promise: a call takes effect at one moment or
  fails, and a failed one may have taken effect once, never twice.
  **FilesystemRefinement** maps one to the other.
* **MetadataRegister / LocalMetadataStore**: an atomic register, and the file
  with its locks that implements it. Any call may fail, any process may stop.
  After an error a caller does not know whether its swap took effect.
* **Replication**: one content on several nodes. `fresh` stands for comparing
  revisions: an actor's swap succeeds iff nothing was committed since its load.
* **Membership**: each agent's cluster.json and the exchanges between agents,
  with lost answers, late requests, wrong endpoints, error answers, restarts.
* **Presence**: three threads of each agent. The presence thread fetches, stores
  and loads the roster, syncs the table, and sends and records each probe; the
  local thread joins or fetches a roster and stores it, maybe an older one; the
  listener looks a prober up and observes it. All of these are steps of their own,
  but for the two of the listener, which are one. `known` is a history variable:
  the members of every roster that an agent ever had.
* **DataDirectory**: file names and inodes apart, since identity.tmp is opened
  without a lock. An agent binds agent.sock after it took agent.lock and removes
  it by name when it ends, after its threads. Threads whose handles were dropped
  (`join_threads` stops at the first failure) go on updating cluster.json.
* **LocalContentStore**: each system call of put is a step; a put may fail at any
  of them and its process may end, which leaves the temporary file. The space in
  use is the number of bytes of all files.
* **ContentTransfer**: the caller, the connection (two inboxes, of which a lost
  connection still delivers some first messages) and the listener, which serves
  one connection at a time. A payload is a sequence of frames with lengths, its
  bytes are "whole" or not. The answer to a get is read from the file at once and
  written frame by frame, each when the sockets have room (`Window`).
* **DesktopApplication**: a click starts a handler, and each service call the
  handler makes is a step, between which other clients write, remove and create.
  A call that fails may have changed the metadata; the window is not told.

`PROJECT.json` maps every definition to its lines. Operators whose comment
begins with "Mutant" are plausible bugs; each property fails under one of them.

## Runs

| Run | Checks |
|---|---|
| namespace | TypeOK, NamespaceIsTree, ConflictMeansProgress, ListingChangeBumpsGeneration, ImplementsAtomicFilesystem |
| versions | RetentionMatchesReferences, GenerationNamesVersion, ImplementsAtomicFilesystem |
| local_store | TypeOK, NoGridlock, ImplementsRegister |
| replication | TypeOK, ContentSurvives, SteadyReplicaIsRead, OnlyRetainedGainsReplicas, NoReplicaForgotten |
| repair | Repaired (liveness) |
| membership | TypeOK, OneIdentityPerCode, CredentialsAgree, JoinIsRetrySafeUnlessError, RosterIsPast |
| presence | TypeOK, OnlyMembersOnRecord, PresenceSettles (liveness) |
| data_directory | NoUpdateLost, IdentityIsPersistent, SocketLeadsToAgent |
| content | CapacityRespected, BlobsAreWhole, StoredIsHeld, PayloadIsWhole, TransferFailsForAReason, ListenerComesBack (liveness) |

Runs in which the code disagrees with a document or a comment:

| Run | What happens |
|---|---|
| desktop | the editor reads the text and the generation with two calls, so a write between them makes the next save replace a text that its window never showed; the same happens when the file is removed and created again, since generations restart at 1 |
| remote_repair | a good blob on a remote node without a record makes every later pass fail at `delete` |
| first_start | two first openers of an empty directory leave a key that cluster.json is not bound to |

Stated in the modules, checked by hand and not among the runs of PROJECT.json:

| Property | Instance | Result |
|---|---|---|
| Replication!KnownLossNotForgotten | replication, with Remote = {}, MaxFaults = 1, MaxUnrest = 3 | violated: `read_internal` (service.rs:281) marks a replica recorded as missing or corrupted Offline, which durability() counts as a copy; the comment at replication.rs:170 says "Offline means the recorded copy still exists but cannot be checked now." |
| Presence!PresenceIsCurrent | presence | violated: with the coordinator stopped, a member's pass ends at agent.rs:952 before any probe, and it shows the coordinator Online for ever; the repository's README.md:44 says "`cluster presence` shows current authenticated reachability observations" |
| Replication!Repaired | repair, with three nodes (MCRank) and MaxUnrest = 2 | holds |
| Membership!JoinIsRetrySafe | membership, with MaxErrors = 1 | violated: `join_cluster` drops the pending join on every `TransportError::Remote` (agent.rs:584), and a coordinator turns its own errors into such answers (agent.rs:339), so an error answer after a lost acceptance makes the joiner forget its request while the code is used up; docs/architecture.md:41 says "a persistent join transaction makes invite consumption retry-safe" |
| Membership!AcceptedJoinCompletes, RosterConverges | FairSpec, Founders = {k1}, MaxInvites = 2, MaxRequests = 1, MaxErrors = 0, no symmetry | hold |

### Bounds

Two clients reach every pair of interleaved calls; `MaxRevision` 3 and 4 allow a
conflict, a retry and a commit after it. Renames are in namespace only: versions
has two files, two contents and four revisions, and a rename changes neither
versions nor references. `MaxAttempts` (8 in the code) is 2, so
that both a retry and giving up happen; in the same way `MergeTries` (8) is 2 or
1 and `MarkTries` (4) is 1. Replication has two nodes with two desired
copies; `MaxUnrest` is 2 disturbances, and 4 for repair, so that a crash, which
forgets the nodes, can be followed by the return of both and one disturbance
more: a longer chain is not explored. `MaxFaults` is 0 for ContentSurvives,
which is about what the code does to sound blobs, and 1 for repair. Membership
has three devices, two codes per coordinator and two request ids per device.
Presence has three agents, of which two are members at the start, and two
disturbances, so that the third can join while an older roster is on its way.
A probe of Replication looks a blob up and reads it in one step: what happens
between the two calls (replication.rs:183-189) has the outcomes it has before or
after both. LocalMetadataStore has three
threads in two processes and two revisions. In data_directory only one process
may come before cluster.json exists (`Early`): without that restriction
IdentityIsPersistent fails, which is first_start. Its threads are symmetric.

Deadlock checking is off where all actors may rest: calls or disturbances are
used up (namespace, versions, replication, repair, data_directory) or all agents
are stopped (presence).

The content run has four lengths around a frame of 2 bytes (0, 2, 3, and 4,
which is more than may be transferred) in a store of 5, so that 2 and 3 just fit
and no other two of the non-empty ones do; one peer, one tool of another process,
and one fault: a crash, an error, a damaged file or a lost connection. One peer is
enough for the listener, which has one session at a time. `Window` is 1 message, so
that the listener waits for the client after the announcement and every frame. The
desktop run has one window, two file ids and one path that the other clients use; three generations
let a file be written between any two calls of the window.

### Fairness

* Presence: weak fairness of each agent's pass, since `run_presence` loops until
  shutdown, and of the local thread once it has an answer to store.
* Membership (AcceptedJoinCompletes, RosterConverges only): the user repeats a
  pending join (weak), and an exchange tried for ever succeeds in the end (strong,
  on HandleJoin, Joined, StoreRoster). The roster is fetched by the presence loop.
  Repeating the join is an assumption on the user, and success in the end one on
  the network.
* Replication: calls under way go on, and `reconcile` is called repeatedly. The
  repository has no loop that does so; only tests call it. Repaired says what
  such a loop would get, and remote_repair what it would not.
* ContentTransfer: weak fairness of the listener, of a client that is in a call
  and of a put or delete under way, which are threads that the operating system
  runs; nobody has to call. A client that stops reading or sending is a lost
  connection (Disconnect): both ends set timeouts of five seconds for reads and
  writes (`configure`, secure.rs:198), and a client in a call that is not lost goes
  on. ListenerComesBack assumes that local tools do not
  keep the lock of the directory for ever, since the lock file has no queue.

## Proofs

Leaves name Zenon where it suffices: what tlapm spends on preparing a leaf for
SMT grows with the number of such leaves before it in the module.

### Metadata plane

`FilesystemMetadataProofs` has the effects of the operations on a snapshot, the
types, the kinds of steps, the inductive invariant and the refinement. It proves,
for any clients, ids, names, contents and bounds: TypeOK, NamespaceIsTree,
RetentionMatchesReferences, GenerationNamesVersion,
ListingChangeBumpsGeneration, the refinement of
AtomicFilesystem, and ConflictMeansProgress. Like the other proofs it assumes only
the named ASSUMEs of the modules, where nothing else is said.

None of the invariants is inductive alone, because a commit installs a private
copy. The inductive invariant is

    Inv == TypeOK /\ CallStates /\ SwapSound /\ WellFormed /\ IdsOnce /\ SeenSound

`SwapSound` carries the argument: a replacement whose basis is still the stored
revision is an effect of the call on the snapshot that is stored now. A
successful swap is then an effect of the current snapshot, also one that is
reported as a failure, and lemmas about
effects (`EffectTree`, `EffectAgrees`, ...) finish each invariant. `IdsOnce` and
`SeenSound` say that ids are not reused and relate what a client saw to the file.

### Local metadata store

`LocalMetadataStoreProofs`: TypeOK and the refinement of MetadataRegister
(ImplementsRegister), for any processes, threads and snapshots. The invariant has
who holds which lock (`LocksHeld`) and, per caller, that from the comparison on
the loaded snapshot is the one in the file, and that before the rename the
temporary file holds the replacement (`SwapSound`). An exclusive lock file makes
it stable under the steps of other processes.

### Replication

`ReplicationProofs`, for any nodes, ranks, actors and bounds: TypeOK,
SteadyReplicaIsRead, NoReplicaForgotten and OnlyRetainedGainsReplicas; and
ContentSurvives under two assumptions in the theorem, MaxFaults = 0 and at most
one reconciler. The invariant says of an actor whose swap would succeed that its
view records the same replicas as the placement (`ViewSound`), or that its
record is for retained content or for a replica on record (`RecordSound`), and of
a read that every steady replica is still to be visited (`ReadSound`).
`ContentInv` carries ContentSurvives: from the moment a destination is chosen,
the source is another node (a destination is not counted, a source is Healthy),
and between the deletion and the put that source holds good bytes. A second
reconciler could delete them, which is why there is one.

### Membership

`MembershipProofs`, for any devices and bounds: TypeOK, OneIdentityPerCode,
CredentialsAgree, RosterIsPast and JoinIsRetrySafeUnlessError. Every copy of a
roster, in an answer on its way (`AnswerSound`), at a member (`MemberSound`) or
fetched and not stored yet (`FetchSound`), is an earlier roster of the
coordinator that has the device's entry; coordinators only add entries
(`Persists`). `CodesSound`: a code that let somebody in is not the open one.

JoinIsRetrySafeUnlessError is not inductive, since a late request or a refusal
on its way might undo it; beside it the invariant says that a late request is
accepted only while its device still waits for it (`LateRetry`) and that a
refusal is final (`RefusalFinal`). Both rest on `DeadStays`: a request that is
not admissible never becomes so, because code numbers are not reused and rosters
only grow.

### Presence

`PresenceProofs`, for any agents and disturbances: TypeOK and OnlyMembersOnRecord.
The table and cluster.json are written by several threads, and an older roster may
replace a newer one, so that what a pass records need not be in the roster of that
moment. The invariant says what old rosters are worth: every roster, stored or on
its way, is part of the coordinator's, which only grows (`RostersArePast`), and a
pass syncs, probes and records members that its agent knew at some time, never the
agent itself (`PassesAreOfMembers`).

### Data directory

`DataDirectoryProofs`, for any agents, tools, threads, starts and updates.

* NoUpdateLost: who is in the middle of an update holds cluster.lock, and what it
  has read is the state still (`StoreSound`).
* SocketLeadsToAgent: an agent that is not stopped holds agent.lock, and one that
  has bound the socket is whom it leads to (`AgentSound`). The handle removes the
  socket before it releases the lock, so that it cannot be a successor's.
* IdentityIsPersistent, under the hypothesis `FirstStartAlone` of the theorem: of
  the processes that may find no cluster.json, any two are agents, which agent.lock
  keeps apart. Then only one process is at work until there is a cluster.json;
  `IdentitySound` follows identity.tmp, identity.json and the key through its
  steps, and a start that ended half-way leaves nothing that the next one takes
  for a key. Without the hypothesis the property fails: first_start.

### Content store and transfers

`ContentTransferProofs`, for any contents, lengths, frames, callers, processes,
peers, room in the sockets and faults: BlobsAreWhole, StoredIsHeld, PayloadIsWhole
and TransferFailsForAReason. The inductive invariant is

    IInv == StoreInv /\ TransferTyped /\ ListenerSound /\ \A k \in Clients : ClientGood(k)

`StoreInv` says that a caller past the lock is alone in the directory, so that the
blob it found absent is absent and the temporary file is its own. `InTouch`
relates the two ends of a connection that is not lost: what the receiver has and
what is on its way make up the frames sent so far (`Carries`), in every frame
position. PayloadIsWhole needs more, since a lost connection delivers some first
messages and the end that went away says nothing any more: what arrives at a client
(`Coming`) and at the listener (`SessionSound`) is always a first part of the one
payload that was announced. Cutting such a part leaves one (`PartCut`,
`AnnouncedCut`). `Answered` says
that, as long as nothing failed, all that a client still waits for is in its inbox
when the listener has gone on to the next connection. A "stored" counts from
the end of the put in the listener's thread, through the message, to the result
(`ListenerSound`, `Held`).

`ContentCapacityProofs` adds CapacityRespected. It needs `Room`: what a writer
reserved is free until it has written, because nobody else adds bytes meanwhile.
The rest is counting the bytes of the directory when one file is created, grows,
is renamed or removed; it is a module of its own because it needs the theorems
about finite sets, which slow every other leaf down.

These invariants were checked with TLC, on the instance of the run and on one with
two peers, before they were proved.

### Only model-checked

* Repaired, PresenceSettles and ListenerComesBack are liveness properties, and
  NoGridlock is about ENABLED: both are beyond the prover.
* ContentSurvives is proved for one reconciler and sound media only, which is what
  the run checks too.
* DesktopApplication has no theorem: its one property is the one that fails.

## Not modelled

* The Noise handshake, the encoding of messages, discovery, paths as strings,
  events, timestamps, descriptor-only crates, the Android user interface:
  cryptography, text and data without state of its own.
* The exchange on the local socket: request and answer of one thread around the
  operations of Membership and Presence.
* Sizes in placement (`free_space`, which nobody updates) and the scheduler: pure
  functions of their arguments that unit tests reach; Replication has one size of
  content, and every node has room as far as the registry knows.
* A power failure: processes stop, but what was renamed stays renamed
  (`content.rs` does not sync the directory after its rename, `identity.rs` does).
* An error of `accept`, which ends the listener's thread and not the agent: which
  errors the operating system returns is not known to the code.
* Two reconcilers at once, which could each delete the source of the other:
  nothing in the repository starts one, let alone two.
* One module for all parts: their interfaces are listed above, and a product of
  these state spaces is out of TLC's reach.
