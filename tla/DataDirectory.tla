--------------------------- MODULE DataDirectory ---------------------------
(***************************************************************************)
(* The data directory that agents and local tools share                    *)
(* (kubeweft-transport, store.rs and identity.rs): agent.lock, the private *)
(* key in identity.json, the agent's state in cluster.json behind          *)
(* cluster.lock, and agent.sock, where commands reach the agent (agent.rs  *)
(* and local_ipc.rs).  A process is an agent (AgentHandle, from start to   *)
(* drop) or a tool (LocalFilesystem::open, which only opens the store).    *)
(*                                                                         *)
(* Files are directory entries that lead to inodes: identity.tmp is opened *)
(* without a lock, and who has it open writes to the inode whatever it is  *)
(* called by then.  cluster.tmp is only touched under the lock and left    *)
(* out: replacing cluster.json is one step.  A process may stop anywhere;  *)
(* locks are released then and files stay.                                 *)
(***************************************************************************)
EXTENDS Naturals, FiniteSets

CONSTANTS AgentProcesses, Tools,
          Threads,     \* the threads of an agent that update its state
          Early,       \* processes that may start before there is a cluster.json
          None,
          MaxStarts,   \* bound: starts of a process
          MaxRevision  \* bound: updates

Processes == AgentProcesses \cup Tools

ASSUME DataDirectoryAssumption ==
  /\ None \notin Processes \cup Threads /\ Early \in SUBSET Processes
  /\ MaxStarts \in Nat /\ MaxRevision \in Nat

VARIABLES agentLock,  \* holder of agent.lock
          storeLock,  \* holder of cluster.lock
          identity,   \* the inode called identity.json
          temporary,  \* the inode called identity.tmp
          content,    \* inode -> the key in it
          state,      \* cluster.json: device_id and revision
          socket,     \* whose listener agent.sock leads to
          pc,
          key,        \* the key a process holds
          open,       \* the inode it has open
          busy,       \* threads in the middle of an update
          loaded,     \* the revision each of them read
          starts,     \* starts so far
          updates     \* history: updates that returned Ok

files == <<identity, temporary, content>>
vars == <<agentLock, storeLock, files, state, socket, pc, key, open, busy, loaded,
          starts, updates>>

\* A key or an inode is named after the start of the process that made it.
Keys == [process : Processes, start : Nat]
NoKey == [process |-> None, start |-> 0]
NoState == [device |-> NoKey, revision |-> 0]

Workers == AgentProcesses \X Threads

Unlocked == <<None, None>>

Mine(p) == [process |-> p, start |-> starts[p]]

Goto(p, l) == pc' = [pc EXCEPT ![p] = l]

-----------------------------------------------------------------------------
Init ==
  /\ agentLock = None /\ storeLock = Unlocked
  /\ identity = NoKey /\ temporary = NoKey
  /\ content = [i \in [process : Processes, start : 1..MaxStarts] |-> NoKey]
  /\ state = NoState /\ socket = NoKey
  /\ pc = [p \in Processes |-> "stopped"]
  /\ key = [p \in Processes |-> NoKey]
  /\ open = [p \in Processes |-> NoKey]
  /\ busy = {}
  /\ loaded = [w \in Workers |-> 0]
  /\ starts = [p \in Processes |-> 0]
  /\ updates = 0

\* acquire_agent_lock fails at once when it is held.
Start(p) ==
  /\ pc[p] = "stopped" /\ starts[p] < MaxStarts
  /\ p \in Early \/ state # NoState
  /\ p \in AgentProcesses => agentLock = None
  /\ agentLock' = IF p \in AgentProcesses THEN p ELSE agentLock
  /\ starts' = [starts EXCEPT ![p] = @ + 1]
  /\ Goto(p, "identity")
  /\ UNCHANGED <<socket, storeLock, files, state, key, open, busy, loaded, updates>>

\* An error or a crash, at any point, or the end of a process whose agent was
\* closed before.
Stop(p) ==
  /\ pc[p] # "stopped" \/ key[p] # NoKey
  /\ Goto(p, "stopped")
  /\ agentLock' = IF agentLock = p THEN None ELSE agentLock
  /\ storeLock' = IF storeLock \in {<<p, t>> : t \in Threads \cup {None}} THEN Unlocked ELSE storeLock
  /\ key' = [key EXCEPT ![p] = NoKey]
  /\ open' = [open EXCEPT ![p] = NoKey]
  /\ busy' = {w \in busy : w[1] # p}
  /\ UNCHANGED <<socket, files, state, loaded, starts, updates>>

-----------------------------------------------------------------------------
(* LocalDeviceIdentity::load_or_create *)

\* The key in identity.json, if it parses; an agent loads it twice.
LoadIdentity(p) ==
  /\ pc[p] \in {"identity", "again"}
  /\ identity # NoKey /\ content[identity] # NoKey
  /\ key' = [key EXCEPT ![p] = content[identity]]
  /\ Goto(p, IF pc[p] = "again" THEN "unlink" ELSE "open")
  /\ UNCHANGED <<socket, agentLock, storeLock, files, state, open, busy, loaded, starts, updates>>

GenerateKey(p) ==
  /\ pc[p] = "identity" /\ identity = NoKey
  /\ key' = [key EXCEPT ![p] = Mine(p)]
  /\ Goto(p, "create")
  /\ UNCHANGED <<socket, agentLock, storeLock, files, state, open, busy, loaded, starts, updates>>

\* Opens identity.tmp, and truncates it if it is there.
CreateTemporary(p) ==
  /\ pc[p] = "create"
  /\ temporary' = IF temporary = NoKey THEN Mine(p) ELSE temporary
  /\ open' = [open EXCEPT ![p] = temporary']
  /\ content' = [content EXCEPT ![temporary'] = NoKey]
  /\ Goto(p, "write")
  /\ UNCHANGED <<socket, agentLock, storeLock, identity, state, key, busy, loaded, starts, updates>>

WriteTemporary(p) ==
  /\ pc[p] = "write"
  /\ content' = [content EXCEPT ![open[p]] = key[p]]
  /\ Goto(p, "rename")
  /\ UNCHANGED <<socket, agentLock, storeLock, identity, temporary, state, key, open, busy, loaded,
                 starts, updates>>

\* Mutant: the file gets its name before it gets its contents.
RenameEarly(p) ==
  /\ pc[p] \in {"write", "rename"} /\ temporary # NoKey
  /\ identity' = temporary
  /\ temporary' = NoKey
  /\ open' = [open EXCEPT ![p] = NoKey]
  /\ Goto(p, "open")
  /\ UNCHANGED <<socket, agentLock, storeLock, content, state, key, busy, loaded, starts, updates>>

\* Fails when identity.tmp is gone.
RenameTemporary(p) ==
  /\ pc[p] = "rename" /\ temporary # NoKey
  /\ identity' = temporary
  /\ temporary' = NoKey
  /\ open' = [open EXCEPT ![p] = NoKey]
  /\ Goto(p, "open")
  /\ UNCHANGED <<socket, agentLock, storeLock, content, state, key, busy, loaded, starts, updates>>

-----------------------------------------------------------------------------
(* ClusterStore::open, update *)

\* lock_exclusive waits.
Lock(w) ==
  /\ storeLock = Unlocked /\ storeLock' = w
  /\ UNCHANGED <<socket, agentLock, files, key, open, starts, updates>>

LockToOpen(p) ==
  /\ pc[p] = "open"
  /\ Lock(<<p, None>>)
  /\ Goto(p, "opening")
  /\ UNCHANGED <<state, busy, loaded>>

\* Creates cluster.json, or finds it bound to the key.
Open(p) ==
  /\ pc[p] = "opening"
  /\ state = NoState \/ state.device = key[p]
  /\ state' = IF state = NoState THEN [device |-> key[p], revision |-> 0] ELSE state
  /\ storeLock' = Unlocked
  /\ Goto(p, IF p \in AgentProcesses THEN "again" ELSE "running")
  /\ UNCHANGED <<socket, agentLock, files, key, open, busy, loaded, starts, updates>>

\* The handle exists, or it was dropped, the process lives on, and threads that
\* were not joined do too.
HasThreads(p) ==
  \/ pc[p] \in {"running", "closing", "closed"}
  \/ pc[p] = "stopped" /\ key[p] # NoKey

\* Mutant: the state is read before the lock is taken.
ReadUnlocked(w) ==
  /\ HasThreads(w[1]) /\ w \notin busy
  /\ busy' = busy \cup {w}
  /\ loaded' = [loaded EXCEPT ![w] = state.revision]
  /\ UNCHANGED <<socket, agentLock, storeLock, files, state, pc, key, open, starts, updates>>

ReadLocked(w) ==
  /\ HasThreads(w[1]) /\ w \notin busy
  /\ Lock(w)
  /\ busy' = busy \cup {w}
  /\ loaded' = [loaded EXCEPT ![w] = state.revision]
  /\ UNCHANGED <<state, pc>>

\* cluster.json is replaced and the update returns.
Write(w) ==
  /\ w \in busy /\ updates < MaxRevision
  /\ state' = [state EXCEPT !.revision = loaded[w] + 1]
  /\ updates' = updates + 1
  /\ storeLock' = Unlocked
  /\ busy' = busy \ {w}
  /\ UNCHANGED <<socket, agentLock, files, pc, key, open, loaded, starts>>

\* The operation, the reading or the writing fails: update returns the error.
Abandon(w) ==
  /\ w \in busy
  /\ storeLock' = Unlocked
  /\ busy' = busy \ {w}
  /\ UNCHANGED <<socket, agentLock, files, state, pc, key, open, loaded, starts, updates>>

-----------------------------------------------------------------------------
(* AgentHandle: from the socket to the threads, and back *)

\* bind removes whatever has the name of the socket.
UnlinkSocket(p) ==
  /\ pc[p] = "unlink"
  /\ socket' = NoKey
  /\ Goto(p, "bind")
  /\ UNCHANGED <<agentLock, storeLock, files, state, key, open, busy, loaded, starts, updates>>

BindSocket(p) ==
  /\ pc[p] = "bind" /\ socket = NoKey
  /\ socket' = Mine(p)
  /\ Goto(p, "listen")
  /\ UNCHANGED <<agentLock, storeLock, files, state, key, open, busy, loaded, starts, updates>>

\* The TCP listener and the threads; a start that fails here leaves its socket.
Listen(p) ==
  /\ pc[p] = "listen"
  /\ Goto(p, "running")
  /\ UNCHANGED <<agentLock, storeLock, files, state, socket, key, open, busy, loaded, starts,
                 updates>>

\* shutdown has joined every thread, or wait has joined one that failed and
\* leaves the others to themselves.
Closes(p) == p \in AgentProcesses /\ pc[p] = "running" /\ Goto(p, "closing")

\* Mutant: the lock is let go before the socket is.
CloseUnlocked(p) ==
  /\ Closes(p)
  /\ agentLock' = None
  /\ UNCHANGED <<storeLock, files, state, socket, key, open, busy, loaded, starts, updates>>

Close(p) ==
  /\ Closes(p)
  /\ UNCHANGED <<agentLock, storeLock, files, state, socket, key, open, busy, loaded, starts,
                 updates>>

\* remove_local_socket, in shutdown or wait and again in drop.
RemoveSocket(p) ==
  /\ pc[p] = "closing"
  /\ socket' = NoKey
  /\ Goto(p, "closed")
  /\ UNCHANGED <<agentLock, storeLock, files, state, key, open, busy, loaded, starts, updates>>

\* The lock is the last field of the handle to be dropped; threads that were
\* not joined (join_threads returns at the first that failed) go on.
Release(p) ==
  /\ pc[p] = "closed"
  /\ agentLock' = IF agentLock = p THEN None ELSE agentLock
  /\ Goto(p, "stopped")
  /\ UNCHANGED <<storeLock, files, state, socket, key, open, busy, loaded, starts, updates>>

-----------------------------------------------------------------------------
Next ==
  \/ \E p \in Processes :
       \/ Start(p) \/ Stop(p)
       \/ LoadIdentity(p) \/ GenerateKey(p)
       \/ CreateTemporary(p) \/ WriteTemporary(p) \/ RenameTemporary(p)
       \/ LockToOpen(p) \/ Open(p)
       \/ UnlinkSocket(p) \/ BindSocket(p) \/ Listen(p)
       \/ Close(p) \/ RemoveSocket(p) \/ Release(p)
  \/ \E w \in Workers : ReadLocked(w) \/ Write(w) \/ Abandon(w)

Spec == Init /\ [][Next]_vars

-----------------------------------------------------------------------------
(* Properties *)

\* No update of an agent's state is lost, whichever of its threads are in the
\* middle of one, threads of an agent that was closed and replaced included, and
\* wherever the process stops: the revision counts them all.
NoUpdateLost == updates = state.revision

\* "Each agent data directory owns a persistent X25519 private key" (ADR 0002):
\* once there is a cluster.json, identity.json holds the key it is bound to, so
\* that the directory can be opened again, and agents run under that key.
IdentityIsPersistent ==
  state # NoState =>
    /\ identity # NoKey /\ content[identity] = state.device
    /\ \A p \in Processes : pc[p] = "running" => key[p] = state.device

\* Commands reach the agent that runs: while an agent serves the directory,
\* agent.sock leads to it.  Neither the agent before it, on its way out, nor one
\* that may not start removes or replaces the socket (agent.rs:192, 201).
SocketLeadsToAgent ==
  \A p \in AgentProcesses : pc[p] = "running" => socket = Mine(p)
=============================================================================
