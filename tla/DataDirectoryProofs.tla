------------------------ MODULE DataDirectoryProofs ------------------------
(***************************************************************************)
(* What the locks of a data directory guarantee, for any number of agents, *)
(* tools and threads, of starts and of updates.                            *)
(***************************************************************************)
EXTENDS DataDirectory, TLAPS

-----------------------------------------------------------------------------
(* Types *)

Inodes == [process : Processes, start : 1 .. MaxStarts]

KeyOrNone == Inodes \cup {NoKey}

\* From the second loading of the key on, until the handle of an agent is dropped.
Handle == {"again", "unlink", "bind", "listen", "running", "closing", "closed"}

Labels == {"stopped", "identity", "create", "write", "rename", "open", "opening"} \cup Handle

FilesTyped ==
  /\ identity \in KeyOrNone /\ temporary \in KeyOrNone
  /\ content \in [Inodes -> KeyOrNone]
  /\ state \in [device : KeyOrNone, revision : Nat]

ProcessesTyped ==
  /\ agentLock \in AgentProcesses \cup {None}
  /\ pc \in [Processes -> Labels]
  /\ key \in [Processes -> KeyOrNone]
  /\ open \in [Processes -> KeyOrNone]
  /\ starts \in [Processes -> 0 .. MaxStarts]
  /\ \A p \in Processes : pc[p] # "stopped" => starts[p] # 0

ThreadsTyped ==
  /\ busy \in SUBSET Workers
  /\ loaded \in [Workers -> Nat]
  /\ updates \in Nat

Types == FilesTyped /\ ProcessesTyped /\ ThreadsTyped

-----------------------------------------------------------------------------
(* The inductive invariants *)

\* Who is in the middle of an update or opens the store holds cluster.lock, and what
\* a thread has read is the state still.
StoreSound ==
  /\ \A w \in busy : storeLock = w /\ loaded[w] = state.revision
  /\ \A p \in Processes : pc[p] = "opening" => storeLock = <<p, None>>
  /\ NoUpdateLost

\* An agent holds agent.lock as long as it is not stopped; only agents touch the
\* socket; one that has bound it is whom it leads to.
AgentSound ==
  /\ \A p \in AgentProcesses : pc[p] # "stopped" => agentLock = p
  /\ \A p \in Processes \ AgentProcesses : pc[p] \notin Handle \ {"running"}
  /\ \A p \in AgentProcesses : pc[p] \in {"listen", "running"} => socket = Mine(p)

\* Who makes the key: there is no identity.json and no cluster.json yet, and
\* identity.tmp is the file it has open.
Creates(p) ==
  /\ pc[p] \in {"create", "write", "rename"} =>
       state = NoState /\ identity = NoKey /\ key[p] # NoKey
  /\ pc[p] \in {"write", "rename"} => temporary # NoKey /\ open[p] = temporary
  /\ pc[p] = "rename" => content[temporary] = key[p]

\* Who has the key has the one in identity.json, and the one in cluster.json once
\* the store is open; updates are made of a state that is there.
Bound(p) ==
  /\ pc[p] \in {"open", "opening"} =>
       identity # NoKey /\ content[identity] = key[p] /\ key[p] # NoKey
  /\ pc[p] \in Handle => state # NoState /\ key[p] = state.device
  /\ HasThreads(p) => state # NoState

IdentitySound ==
  /\ state = NoState => \A p \in Processes : pc[p] # "stopped" => p \in Early
  /\ busy # {} => state # NoState
  /\ state # NoState =>
       identity # NoKey /\ content[identity] = state.device /\ state.device # NoKey
  /\ \A p \in Processes : Creates(p) /\ Bound(p)

\* Of the processes that may find no cluster.json, any two are agents: agent.lock
\* keeps them apart.  A tool may do so only where nobody else does.
FirstStartAlone == \A p, q \in Early : p = q \/ {p, q} \subseteq AgentProcesses

IInv == Types /\ StoreSound /\ AgentSound

-----------------------------------------------------------------------------
(* Facts about names *)

\* What is no key or inode is told apart from those that are.
LEMMA Names ==
  /\ NoKey \notin Inodes /\ NoKey \in KeyOrNone
  /\ \A p \in Processes : p # None
  /\ \A w \in Workers : w[1] \in AgentProcesses /\ w[1] \in Processes /\ w # Unlocked
  /\ \A w \in Workers, p \in Processes : w # <<p, None>>
  /\ \A p \in Processes : <<p, None>> # Unlocked
<1>1. NoKey \notin Inodes
  BY DataDirectoryAssumption DEF NoKey, Inodes
<1>2. \A w \in Workers : w[1] \in AgentProcesses /\ w[2] \in Threads /\ w = <<w[1], w[2]>>
  BY DEF Workers
<1> QED
  BY <1>1, <1>2, DataDirectoryAssumption DEF KeyOrNone, Processes, Unlocked

\* A process that runs has a name for what it makes.
LEMMA MineIsInode ==
  ASSUME ProcessesTyped, NEW p \in Processes, pc[p] # "stopped"
  PROVE  Mine(p) \in Inodes /\ Mine(p) # NoKey
<1>1. starts[p] \in 1 .. MaxStarts
  BY DataDirectoryAssumption DEF ProcessesTyped
<1>2. Mine(p) \in Inodes
  BY <1>1, Zenon DEF Mine, Inodes
<1> QED
  BY <1>2, Names, Zenon

\* No state but the first lacks a key or counts less than it did.
LEMMA StateKnown ==
  NoState \in [device : KeyOrNone, revision : Nat] /\ NoState.revision = 0
  /\ NoState.device = NoKey
BY Names DEF NoState

-----------------------------------------------------------------------------
(* Types are preserved *)

\* The files of the directory keep their types.
LEMMA FilesTypedNext ==
  ASSUME Types, Next
  PROVE  FilesTyped'
<1> USE DEF Types, FilesTyped
<1>1. ASSUME NEW p \in Processes, CreateTemporary(p)
      PROVE  FilesTyped'
  <2>1. Mine(p) \in Inodes
    BY <1>1, MineIsInode DEF CreateTemporary
  <2> QED
    BY <1>1, <2>1, Names DEF CreateTemporary, KeyOrNone
<1>2. ASSUME NEW p \in Processes, WriteTemporary(p)
      PROVE  FilesTyped'
  BY <1>2, Zenon DEF WriteTemporary, ProcessesTyped
<1>3. ASSUME NEW p \in Processes, RenameTemporary(p)
      PROVE  FilesTyped'
  BY <1>3, Names DEF RenameTemporary
<1>4. ASSUME NEW p \in Processes, Open(p)
      PROVE  FilesTyped'
  BY <1>4 DEF Open, ProcessesTyped, files
<1>5. ASSUME NEW w \in Workers, Write(w)
      PROVE  FilesTyped'
  BY <1>5 DEF Write, ThreadsTyped, files
<1>6. ASSUME NEW p \in Processes,
             \/ Start(p) \/ Stop(p) \/ LoadIdentity(p) \/ GenerateKey(p) \/ LockToOpen(p)
             \/ UnlinkSocket(p) \/ BindSocket(p) \/ Listen(p) \/ Close(p) \/ RemoveSocket(p)
             \/ Release(p)
      PROVE  FilesTyped'
  BY <1>6, Zenon DEF Start, Stop, LoadIdentity, GenerateKey, LockToOpen, Lock, UnlinkSocket,
     BindSocket, Listen, Close, RemoveSocket, Release, files
<1>7. ASSUME NEW w \in Workers, ReadLocked(w) \/ Abandon(w)
      PROVE  FilesTyped'
  BY <1>7, Zenon DEF ReadLocked, Lock, Abandon, files
<1> QED
  BY <1>1, <1>2, <1>3, <1>4, <1>5, <1>6, <1>7, Zenon DEF Next

\* So do the processes.
LEMMA ProcessesTypedNext ==
  ASSUME Types, Next
  PROVE  ProcessesTyped'
<1> USE DEF Types, ProcessesTyped, Goto
<1>1. ASSUME NEW p \in Processes, Start(p)
      PROVE  ProcessesTyped'
  <2>1. starts[p] + 1 \in 0 .. MaxStarts /\ starts[p] + 1 # 0
    BY <1>1, DataDirectoryAssumption DEF Start
  <2> QED
    BY <1>1, <2>1, Zenon DEF Start, Labels
<1>2. ASSUME NEW p \in Processes, Stop(p)
      PROVE  ProcessesTyped'
  BY <1>2, Names, Zenon DEF Stop, Labels
<1>3. ASSUME NEW p \in Processes, LoadIdentity(p)
      PROVE  ProcessesTyped'
  <2>1. content[identity] \in KeyOrNone
    BY <1>3 DEF LoadIdentity, FilesTyped, KeyOrNone
  <2> QED
    BY <1>3, <2>1, Zenon DEF LoadIdentity, Labels, Handle
<1>4. ASSUME NEW p \in Processes, GenerateKey(p)
      PROVE  ProcessesTyped'
  <2>1. Mine(p) \in KeyOrNone
    BY <1>4, MineIsInode DEF GenerateKey, KeyOrNone
  <2> QED
    BY <1>4, <2>1, Zenon DEF GenerateKey, Labels
<1>5. ASSUME NEW p \in Processes, CreateTemporary(p)
      PROVE  ProcessesTyped'
  <2>1. temporary' \in KeyOrNone
    BY <1>5, MineIsInode DEF CreateTemporary, FilesTyped, KeyOrNone
  <2> QED
    BY <1>5, <2>1, Zenon DEF CreateTemporary, Labels
<1>6. ASSUME NEW p \in Processes,
             \/ WriteTemporary(p) \/ RenameTemporary(p) \/ LockToOpen(p) \/ Open(p)
      PROVE  ProcessesTyped'
  BY <1>6, Names DEF WriteTemporary, RenameTemporary, LockToOpen, Lock, Open, Labels, Handle
<1>7. ASSUME NEW p \in Processes,
             \/ UnlinkSocket(p) \/ BindSocket(p) \/ Listen(p) \/ Close(p) \/ RemoveSocket(p)
             \/ Release(p)
      PROVE  ProcessesTyped'
  BY <1>7, Zenon DEF UnlinkSocket, BindSocket, Listen, Close, Closes, RemoveSocket, Release,
     Labels, Handle
<1>8. ASSUME NEW w \in Workers, ReadLocked(w) \/ Write(w) \/ Abandon(w)
      PROVE  ProcessesTyped'
  BY <1>8, Zenon DEF ReadLocked, Lock, Write, Abandon
<1> QED
  BY <1>1, <1>2, <1>3, <1>4, <1>5, <1>6, <1>7, <1>8, Zenon DEF Next

\* And the threads.
LEMMA ThreadsTypedNext ==
  ASSUME Types, Next
  PROVE  ThreadsTyped'
<1> USE DEF Types, ThreadsTyped
<1>1. ASSUME NEW w \in Workers, ReadLocked(w)
      PROVE  ThreadsTyped'
  <2>1. state.revision \in Nat
    BY Zenon DEF FilesTyped
  <2> QED
    BY <1>1, <2>1, Zenon DEF ReadLocked, Lock
<1>2. ASSUME NEW w \in Workers, Write(w) \/ Abandon(w)
      PROVE  ThreadsTyped'
  BY <1>2 DEF Write, Abandon
<1>3. ASSUME NEW p \in Processes, Stop(p)
      PROVE  ThreadsTyped'
  BY <1>3, Zenon DEF Stop
<1>4. ASSUME NEW p \in Processes,
             \/ Start(p) \/ LoadIdentity(p) \/ GenerateKey(p) \/ CreateTemporary(p)
             \/ WriteTemporary(p) \/ RenameTemporary(p) \/ LockToOpen(p) \/ Open(p)
             \/ UnlinkSocket(p) \/ BindSocket(p) \/ Listen(p) \/ Close(p) \/ RemoveSocket(p)
             \/ Release(p)
      PROVE  ThreadsTyped'
  BY <1>4, Zenon DEF Start, LoadIdentity, GenerateKey, CreateTemporary, WriteTemporary,
     RenameTemporary, LockToOpen, Lock, Open, UnlinkSocket, BindSocket, Listen, Close,
     RemoveSocket, Release
<1> QED
  BY <1>1, <1>2, <1>3, <1>4, Zenon DEF Next

\* All of them.
LEMMA TypesNext ==
  ASSUME Types, Next
  PROVE  Types'
BY FilesTypedNext, ProcessesTypedNext, ThreadsTypedNext, Zenon DEF Types

-----------------------------------------------------------------------------
(* cluster.lock *)

\* Nobody is in the middle of anything while the lock is free, and the others are not
\* while somebody holds it.
LEMMA LockExcludes ==
  ASSUME Types, StoreSound
  PROVE  /\ storeLock = Unlocked => busy = {} /\ \A p \in Processes : pc[p] # "opening"
         /\ \A w \in busy : busy = {w} /\ \A p \in Processes : pc[p] # "opening"
         /\ \A p \in Processes :
              pc[p] = "opening" => busy = {} /\ \A q \in Processes \ {p} : pc[q] # "opening"
<1>1. \A w \in busy : w \in Workers /\ storeLock = w
  BY Zenon DEF Types, ThreadsTyped, StoreSound
<1>2. \A p \in Processes : pc[p] = "opening" => storeLock = <<p, None>>
  BY Zenon DEF StoreSound
<1>3. \A p, q \in Processes : <<p, None>> = <<q, None>> => p = q
  OBVIOUS
<1> QED
  BY <1>1, <1>2, <1>3, Names

\* What Stop takes the lock from are the process it ends and its threads.
LEMMA OwnLocks ==
  ASSUME NEW p \in Processes
  PROVE  LET Its == {<<p, t>> : t \in Threads \cup {None}}
         IN  /\ \A q \in Processes \ {p} : <<q, None>> \notin Its
             /\ \A w \in Workers : w[1] # p => w \notin Its
BY DEF Workers

\* Neither an update nor an opening is disturbed by another, or by the end of a
\* process other than its own.
LEMMA StoreSoundNext ==
  ASSUME Types, StoreSound, Next
  PROVE  StoreSound'
<1> USE DEF Goto
<1>1. ASSUME NEW p \in Processes, Stop(p)
      PROVE  StoreSound'
  <2> DEFINE Its == {<<p, t>> : t \in Threads \cup {None}}
  <2>1. /\ pc' = [pc EXCEPT ![p] = "stopped"]
        /\ busy' = {w \in busy : w[1] # p}
        /\ UNCHANGED <<state, loaded, updates>>
        /\ storeLock \notin Its => storeLock' = storeLock
    BY <1>1, Zenon DEF Stop
  <2>2. \A q \in Processes \ {p} : <<q, None>> \notin Its
    BY OwnLocks, Zenon
  <2>3. \A w \in Workers : w[1] # p => w \notin Its
    BY OwnLocks, Zenon
  <2> HIDE DEF Its
  <2>4. \A w \in busy' : w \in busy /\ w \in Workers /\ w[1] # p
    BY <2>1, Zenon DEF Types, ThreadsTyped
  <2>5. \A w \in busy' : storeLock' = w /\ loaded'[w] = state'.revision
    BY <2>1, <2>3, <2>4, Zenon DEF StoreSound
  <2>6. \A q \in Processes : pc'[q] = "opening" => storeLock' = <<q, None>>
    BY <2>1, <2>2, Zenon DEF StoreSound, Types, ProcessesTyped
  <2> QED
    BY <2>1, <2>5, <2>6, Zenon DEF StoreSound, NoUpdateLost
<1>2. ASSUME NEW p \in Processes, LockToOpen(p)
      PROVE  StoreSound'
  <2>1. busy' = {} /\ storeLock' = <<p, None>> /\ pc' = [pc EXCEPT ![p] = "opening"]
        /\ UNCHANGED <<state, updates>> /\ \A q \in Processes : pc[q] # "opening"
    BY <1>2, LockExcludes, Zenon DEF LockToOpen, Lock
  <2> QED
    BY <2>1, Zenon DEF StoreSound, NoUpdateLost, Types, ProcessesTyped
<1>3. ASSUME NEW p \in Processes, Open(p)
      PROVE  StoreSound'
  <2>1. busy' = {} /\ updates' = updates /\ \A q \in Processes \ {p} : pc[q] # "opening"
    BY <1>3, LockExcludes, Zenon DEF Open
  <2>2. PICK l \in {"again", "running"} : pc' = [pc EXCEPT ![p] = l]
    BY <1>3, Zenon DEF Open
  <2>3. state'.revision = state.revision
    BY <1>3, StateKnown DEF Open
  <2>4. \A q \in Processes : pc'[q] # "opening"
    BY <2>1, <2>2, Zenon DEF Types, ProcessesTyped
  <2> QED
    BY <2>1, <2>3, <2>4, Zenon DEF StoreSound, NoUpdateLost
<1>4. ASSUME NEW w \in Workers, ReadLocked(w)
      PROVE  StoreSound'
  <2>1. busy' = {w} /\ storeLock' = w /\ UNCHANGED <<state, pc, updates>>
        /\ loaded' = [loaded EXCEPT ![w] = state.revision]
        /\ \A q \in Processes : pc[q] # "opening"
    BY <1>4, LockExcludes, Zenon DEF ReadLocked, Lock
  <2>2. loaded'[w] = state'.revision
    BY <2>1, Zenon DEF Types, ThreadsTyped
  <2> QED
    BY <2>1, <2>2, Zenon DEF StoreSound, NoUpdateLost
<1>5. ASSUME NEW w \in Workers, Write(w)
      PROVE  StoreSound'
  <2>1. busy' = {} /\ UNCHANGED pc /\ \A q \in Processes : pc[q] # "opening"
    BY <1>5, LockExcludes, Zenon DEF Write
  <2>2. updates' = state.revision + 1 /\ state'.revision = state.revision + 1
    BY <1>5 DEF Write, StoreSound, NoUpdateLost, Types, FilesTyped
  <2> QED
    BY <2>1, <2>2, Zenon DEF StoreSound, NoUpdateLost
<1>6. ASSUME NEW w \in Workers, Abandon(w)
      PROVE  StoreSound'
  <2>1. busy' = {} /\ UNCHANGED <<pc, state, updates>> /\ \A q \in Processes : pc[q] # "opening"
    BY <1>6, LockExcludes, Zenon DEF Abandon
  <2> QED
    BY <2>1, Zenon DEF StoreSound, NoUpdateLost
<1>7. ASSUME NEW p \in Processes, UNCHANGED <<storeLock, state, busy, loaded, updates>>,
             NEW l \in Labels \ {"opening"}, pc' = [pc EXCEPT ![p] = l]
      PROVE  StoreSound'
  BY <1>7, Zenon DEF StoreSound, NoUpdateLost, Types, ProcessesTyped
<1>8. ASSUME NEW p \in Processes,
             \/ Start(p) \/ LoadIdentity(p) \/ GenerateKey(p) \/ CreateTemporary(p)
             \/ WriteTemporary(p) \/ RenameTemporary(p)
             \/ UnlinkSocket(p) \/ BindSocket(p) \/ Listen(p) \/ Close(p) \/ RemoveSocket(p)
             \/ Release(p)
      PROVE  UNCHANGED <<storeLock, state, busy, loaded, updates>>
             /\ \E l \in Labels \ {"opening"} : pc' = [pc EXCEPT ![p] = l]
  BY <1>8, Zenon DEF Start, LoadIdentity, GenerateKey, CreateTemporary, WriteTemporary,
     RenameTemporary, UnlinkSocket, BindSocket, Listen, Close, Closes, RemoveSocket, Release,
     Labels, Handle
<1> QED
  BY <1>1, <1>2, <1>3, <1>4, <1>5, <1>6, <1>7, <1>8, Zenon DEF Next

-----------------------------------------------------------------------------
(* agent.lock *)

\* A step of one process leaves the names of the others alone.
LEMMA MineStays ==
  ASSUME NEW q \in Processes, starts'[q] = starts[q]
  PROVE  Mine(q)' = Mine(q)
BY Zenon DEF Mine

\* At most one agent is not stopped.
LEMMA OneAgent ==
  ASSUME AgentSound, NEW p \in AgentProcesses, NEW q \in AgentProcesses,
         pc[p] # "stopped", pc[q] # "stopped"
  PROVE  p = q
BY Zenon DEF AgentSound

\* The agent that has the lock is the only one to touch the socket.
LEMMA AgentSoundNext ==
  ASSUME Types, AgentSound, Next
  PROVE  AgentSound'
<1> USE DEF Goto
<1>0. \A p \in AgentProcesses : p \in Processes
  BY Zenon DEF Processes
<1>1. ASSUME NEW p \in Processes, Start(p)
      PROVE  AgentSound'
  <2>1. \A q \in Processes \ {p} : starts'[q] = starts[q] /\ pc'[q] = pc[q]
    BY <1>1, Zenon DEF Start, Types, ProcessesTyped
  <2>2. pc'[p] = "identity" /\ socket' = socket
    BY <1>1, Zenon DEF Start, Types, ProcessesTyped
  <2>3. \A q \in AgentProcesses : pc'[q] # "stopped" => agentLock' = q
    BY <1>0, <1>1, <2>1, Names, Zenon DEF Start, AgentSound
  <2>4. \A q \in Processes \ AgentProcesses : pc'[q] \notin Handle \ {"running"}
    BY <2>1, <2>2, Zenon DEF AgentSound, Handle
  <2>5. \A q \in AgentProcesses : pc'[q] \in {"listen", "running"} => socket' = Mine(q)'
    BY <1>0, <2>1, <2>2, MineStays, Zenon DEF AgentSound
  <2> QED
    BY <2>3, <2>4, <2>5, Zenon DEF AgentSound
<1>2. ASSUME NEW p \in Processes, Stop(p) \/ Release(p)
      PROVE  AgentSound'
  <2>1. pc' = [pc EXCEPT ![p] = "stopped"] /\ UNCHANGED <<socket, starts>>
        /\ agentLock' = IF agentLock = p THEN None ELSE agentLock
    BY <1>2, Zenon DEF Stop, Release
  <2>2. \A q \in AgentProcesses : Mine(q)' = Mine(q)
    BY <2>1, Zenon DEF Mine
  <2> QED
    BY <1>0, <2>1, <2>2, Zenon DEF AgentSound, Types, ProcessesTyped, Handle
<1>3. ASSUME NEW p \in Processes, UnlinkSocket(p) \/ BindSocket(p) \/ RemoveSocket(p)
      PROVE  AgentSound'
  <2>1. /\ pc[p] \in {"unlink", "bind", "closing"}
        /\ UNCHANGED <<agentLock, starts>>
        /\ \E l \in {"bind", "listen", "closed"} :
             pc' = [pc EXCEPT ![p] = l] /\ (l = "listen" => socket' = Mine(p))
    BY <1>3, Zenon DEF UnlinkSocket, BindSocket, RemoveSocket
  <2>2. p \in AgentProcesses
    BY <2>1, Zenon DEF AgentSound, Handle
  <2>3. \A q \in AgentProcesses \ {p} : pc[q] = "stopped"
    BY <2>1, <2>2, OneAgent, Zenon
  <2>4. \A q \in AgentProcesses : Mine(q)' = Mine(q)
    BY <2>1, Zenon DEF Mine
  <2>5. \A q \in Processes \ {p} : pc'[q] = pc[q]
    BY <2>1, Zenon DEF Types, ProcessesTyped
  <2>6. pc'[p] \in {"bind", "listen", "closed"} /\ (pc'[p] = "listen" => socket' = Mine(p))
    BY <2>1, Zenon DEF Types, ProcessesTyped
  <2> QED
    BY <1>0, <2>1, <2>2, <2>3, <2>4, <2>5, <2>6, Zenon DEF AgentSound
<1>4. ASSUME NEW p \in Processes, Listen(p) \/ Close(p)
      PROVE  AgentSound'
  <2>1. UNCHANGED <<agentLock, starts, socket>>
        /\ \/ pc[p] = "listen" /\ pc' = [pc EXCEPT ![p] = "running"]
           \/ p \in AgentProcesses /\ pc[p] = "running" /\ pc' = [pc EXCEPT ![p] = "closing"]
    BY <1>4, Zenon DEF Listen, Close, Closes
  <2>2. \A q \in AgentProcesses : Mine(q)' = Mine(q)
    BY <2>1, Zenon DEF Mine
  <2> QED
    BY <1>0, <2>1, <2>2, Zenon DEF AgentSound, Types, ProcessesTyped, Handle
<1>5. ASSUME NEW p \in Processes, Open(p)
      PROVE  AgentSound'
  <2>1. UNCHANGED <<agentLock, starts, socket>> /\ pc[p] = "opening"
        /\ pc' = [pc EXCEPT ![p] = IF p \in AgentProcesses THEN "again" ELSE "running"]
    BY <1>5, Zenon DEF Open
  <2>2. \A q \in AgentProcesses : Mine(q)' = Mine(q)
    BY <2>1, Zenon DEF Mine
  <2> QED
    BY <1>0, <2>1, <2>2, Zenon DEF AgentSound, Types, ProcessesTyped, Handle
<1>6. ASSUME NEW p \in Processes, LoadIdentity(p)
      PROVE  AgentSound'
  <2>1. UNCHANGED <<agentLock, starts, socket>>
        /\ \/ pc[p] = "identity" /\ pc' = [pc EXCEPT ![p] = "open"]
           \/ pc[p] = "again" /\ pc' = [pc EXCEPT ![p] = "unlink"]
    BY <1>6, Zenon DEF LoadIdentity
  <2>2. \A q \in AgentProcesses : Mine(q)' = Mine(q)
    BY <2>1, Zenon DEF Mine
  <2> QED
    BY <1>0, <2>1, <2>2, Zenon DEF AgentSound, Types, ProcessesTyped, Handle
<1>7. ASSUME NEW p \in Processes,
             \/ GenerateKey(p) \/ CreateTemporary(p) \/ WriteTemporary(p) \/ RenameTemporary(p)
             \/ LockToOpen(p)
      PROVE  AgentSound'
  <2>1. UNCHANGED <<agentLock, starts, socket>> /\ pc[p] # "stopped"
        /\ \E l \in {"create", "write", "rename", "open", "opening"} : pc' = [pc EXCEPT ![p] = l]
    BY <1>7, Zenon DEF GenerateKey, CreateTemporary, WriteTemporary, RenameTemporary, LockToOpen,
       Lock
  <2>2. \A q \in AgentProcesses : Mine(q)' = Mine(q)
    BY <2>1, Zenon DEF Mine
  <2> QED
    BY <1>0, <2>1, <2>2, Zenon DEF AgentSound, Types, ProcessesTyped, Handle
<1>8. ASSUME NEW w \in Workers, ReadLocked(w) \/ Write(w) \/ Abandon(w)
      PROVE  AgentSound'
  BY <1>8, Zenon DEF ReadLocked, Lock, Write, Abandon, AgentSound, Mine
<1> QED
  BY <1>1, <1>2, <1>3, <1>4, <1>5, <1>6, <1>7, <1>8, Zenon DEF Next

-----------------------------------------------------------------------------
(* identity.json *)

\* Until there is a cluster.json, one process at a time is at work.
LEMMA NobodyElse ==
  ASSUME FirstStartAlone, AgentSound, IdentitySound, state = NoState,
         NEW p \in Processes, pc[p] # "stopped", NEW q \in Processes, pc[q] # "stopped"
  PROVE  p = q
<1>1. p \in Early /\ q \in Early
  BY Zenon DEF IdentitySound
<1> QED
  BY <1>1, OneAgent DEF FirstStartAlone

\* What a step of one process leaves alone, as seen by the others.
LEMMA OthersKeep ==
  ASSUME NEW q \in Processes, Creates(q), Bound(q), pc'[q] = pc[q], key'[q] = key[q],
         open'[q] = open[q], UNCHANGED <<files, state>>
  PROVE  Creates(q)' /\ Bound(q)'
BY Zenon DEF Creates, Bound, HasThreads, files

\* The key stays with the directory.
LEMMA IdentitySoundNext ==
  ASSUME FirstStartAlone, Types, AgentSound, StoreSound, IdentitySound, Next
  PROVE  IdentitySound'
<1> USE DEF Goto
<1>0. \A p \in Processes : Creates(p) /\ Bound(p)
  BY Zenon DEF IdentitySound
<1>1. ASSUME NEW p \in Processes, Start(p)
      PROVE  IdentitySound'
  <2>1. UNCHANGED <<files, state, key, open, busy>> /\ pc' = [pc EXCEPT ![p] = "identity"]
        /\ (p \in Early \/ state # NoState)
    BY <1>1, Zenon DEF Start
  <2>2. \A q \in Processes \ {p} : Creates(q)' /\ Bound(q)'
    BY <1>0, <2>1, OthersKeep, Zenon DEF Types, ProcessesTyped
  <2>3. pc'[p] = "identity"
    BY <2>1, Zenon DEF Types, ProcessesTyped
  <2>4. Creates(p)' /\ Bound(p)'
    BY <2>3, Zenon DEF Creates, Bound, HasThreads, Handle
  <2> QED
    BY <2>1, <2>2, <2>4, Zenon DEF IdentitySound, Types, ProcessesTyped, files
<1>2. ASSUME NEW p \in Processes, Stop(p) \/ Release(p)
      PROVE  IdentitySound'
  <2>1. UNCHANGED <<files, state>> /\ pc' = [pc EXCEPT ![p] = "stopped"] /\ busy' \subseteq busy
        /\ \A q \in Processes \ {p} : key'[q] = key[q] /\ open'[q] = open[q]
    BY <1>2, Zenon DEF Stop, Release, Types, ProcessesTyped
  <2>2. \A q \in Processes \ {p} : Creates(q)' /\ Bound(q)'
    BY <1>0, <2>1, OthersKeep, Zenon DEF Types, ProcessesTyped
  <2>3. pc'[p] = "stopped"
    BY <2>1, Zenon DEF Types, ProcessesTyped
  <2>5. key'[p] = NoKey \/ state # NoState
    BY <1>0, <1>2, Zenon DEF Stop, Release, Bound, Handle, Types, ProcessesTyped
  <2>4. Creates(p)' /\ Bound(p)'
    BY <2>1, <2>3, <2>5, Zenon DEF Creates, Bound, HasThreads, Handle
  <2> QED
    BY <2>1, <2>2, <2>4, Zenon DEF IdentitySound, Types, ProcessesTyped, files
<1>3. ASSUME NEW p \in Processes, LoadIdentity(p)
      PROVE  IdentitySound'
  <2>1. UNCHANGED <<files, state, open, busy>> /\ identity # NoKey /\ content[identity] # NoKey
        /\ key' = [key EXCEPT ![p] = content[identity]]
        /\ \/ pc[p] = "identity" /\ pc' = [pc EXCEPT ![p] = "open"]
           \/ pc[p] = "again" /\ pc' = [pc EXCEPT ![p] = "unlink"]
    BY <1>3, Zenon DEF LoadIdentity
  <2>2. \A q \in Processes \ {p} : Creates(q)' /\ Bound(q)'
    BY <1>0, <2>1, OthersKeep, Zenon DEF Types, ProcessesTyped
  <2>3. key'[p] = content[identity]
        /\ \/ pc[p] = "identity" /\ pc'[p] = "open"
           \/ pc[p] = "again" /\ pc'[p] = "unlink"
    BY <2>1, Zenon DEF Types, ProcessesTyped
  <2>4. Creates(p)' /\ Bound(p)'
    BY <1>0, <2>1, <2>3, Zenon DEF Creates, Bound, HasThreads, Handle, IdentitySound, files
  <2> QED
    BY <2>1, <2>2, <2>4, Zenon DEF IdentitySound, Types, ProcessesTyped, files
<1>4. ASSUME NEW p \in Processes, GenerateKey(p)
      PROVE  IdentitySound'
  <2>1. UNCHANGED <<files, state, open, busy>> /\ identity = NoKey /\ pc[p] = "identity"
        /\ key' = [key EXCEPT ![p] = Mine(p)] /\ pc' = [pc EXCEPT ![p] = "create"]
    BY <1>4, Zenon DEF GenerateKey
  <2>2. \A q \in Processes \ {p} : Creates(q)' /\ Bound(q)'
    BY <1>0, <2>1, OthersKeep, Zenon DEF Types, ProcessesTyped
  <2>3. key'[p] # NoKey /\ pc'[p] = "create" /\ state = NoState
    BY <2>1, MineIsInode, Zenon DEF Types, ProcessesTyped, IdentitySound
  <2>4. Creates(p)' /\ Bound(p)'
    BY <2>1, <2>3, Zenon DEF Creates, Bound, HasThreads, Handle, files
  <2> QED
    BY <2>1, <2>2, <2>4, Zenon DEF IdentitySound, Types, ProcessesTyped, files
<1>5. ASSUME NEW p \in Processes, state = NoState, pc[p] # "stopped", busy' \subseteq busy,
             \A q \in Processes \ {p} : pc'[q] = pc[q] /\ key'[q] = key[q],
             Creates(p)', Bound(p)',
             state' # NoState => /\ identity' # NoKey /\ content'[identity'] = state'.device
                                 /\ state'.device # NoKey
      PROVE  IdentitySound'
  <2>1. \A q \in Processes \ {p} : pc'[q] = "stopped" /\ pc[q] = "stopped"
    BY <1>5, NobodyElse, Zenon
  <2>4. \A q \in Processes \ {p} : key'[q] = NoKey
    BY <1>0, <1>5, <2>1, Zenon DEF Bound, HasThreads
  <2>2. \A q \in Processes \ {p} : Creates(q)' /\ Bound(q)'
    BY <2>1, <2>4, Zenon DEF Creates, Bound, HasThreads, Handle
  <2>3. busy' = {} /\ p \in Early
    BY <1>5, Zenon DEF IdentitySound
  <2> QED
    BY <1>5, <2>1, <2>2, <2>3, Zenon DEF IdentitySound
<1>6. ASSUME NEW p \in Processes, CreateTemporary(p)
      PROVE  IdentitySound'
  <2>1. state = NoState /\ identity = NoKey /\ key[p] # NoKey
    BY <1>0, <1>6, Zenon DEF CreateTemporary, Creates
  <2>2. UNCHANGED <<identity, state, key, busy>> /\ pc[p] = "create"
        /\ pc' = [pc EXCEPT ![p] = "write"] /\ open' = [open EXCEPT ![p] = temporary']
    BY <1>6, Zenon DEF CreateTemporary
  <2>3. temporary' # NoKey
    BY <1>6, MineIsInode, Zenon DEF CreateTemporary, Types
  <2>4. pc'[p] = "write" /\ open'[p] = temporary' /\ \A q \in Processes \ {p} : pc'[q] = pc[q]
    BY <2>2, Zenon DEF Types, ProcessesTyped
  <2>5. Creates(p)' /\ Bound(p)'
    BY <2>1, <2>2, <2>3, <2>4, Zenon DEF Creates, Bound, HasThreads, Handle
  <2> QED
    BY <1>5, <2>1, <2>2, <2>4, <2>5, Zenon
<1>7. ASSUME NEW p \in Processes, WriteTemporary(p)
      PROVE  IdentitySound'
  <2>1. state = NoState /\ identity = NoKey /\ key[p] # NoKey /\ temporary # NoKey
        /\ open[p] = temporary
    BY <1>0, <1>7, Zenon DEF WriteTemporary, Creates
  <2>2. UNCHANGED <<identity, temporary, state, key, open, busy>> /\ pc[p] = "write"
        /\ pc' = [pc EXCEPT ![p] = "rename"] /\ content' = [content EXCEPT ![open[p]] = key[p]]
    BY <1>7, Zenon DEF WriteTemporary
  <2>3. content'[temporary] = key[p]
    BY <2>1, <2>2, Zenon DEF Types, FilesTyped, KeyOrNone
  <2>4. pc'[p] = "rename" /\ \A q \in Processes \ {p} : pc'[q] = pc[q]
    BY <2>2, Zenon DEF Types, ProcessesTyped
  <2>5. Creates(p)' /\ Bound(p)'
    BY <2>1, <2>2, <2>3, <2>4, Zenon DEF Creates, Bound, HasThreads, Handle
  <2> QED
    BY <1>5, <2>1, <2>2, <2>4, <2>5, Zenon
<1>8. ASSUME NEW p \in Processes, RenameTemporary(p)
      PROVE  IdentitySound'
  <2>1. state = NoState /\ key[p] # NoKey /\ temporary # NoKey /\ content[temporary] = key[p]
    BY <1>0, <1>8, Zenon DEF RenameTemporary, Creates
  <2>2. UNCHANGED <<content, state, key, busy>> /\ pc[p] = "rename" /\ identity' = temporary
        /\ pc' = [pc EXCEPT ![p] = "open"]
    BY <1>8, Zenon DEF RenameTemporary
  <2>3. pc'[p] = "open" /\ \A q \in Processes \ {p} : pc'[q] = pc[q]
    BY <2>2, Zenon DEF Types, ProcessesTyped
  <2>4. Creates(p)' /\ Bound(p)'
    BY <2>1, <2>2, <2>3, Zenon DEF Creates, Bound, HasThreads, Handle
  <2> QED
    BY <1>5, <2>1, <2>2, <2>3, <2>4, Zenon
<1>9. ASSUME NEW p \in Processes, Open(p)
      PROVE  IdentitySound'
  <2>1. identity # NoKey /\ content[identity] = key[p] /\ key[p] # NoKey
    BY <1>0, <1>9, Zenon DEF Open, Bound
  <2>2. UNCHANGED <<files, key, open, busy>> /\ pc[p] = "opening"
    BY <1>9, Zenon DEF Open
  <2>3. pc'[p] \in {"again", "running"} /\ \A q \in Processes \ {p} : pc'[q] = pc[q]
    BY <1>9, Zenon DEF Open, Types, ProcessesTyped
  <2>4. state' # NoState /\ state'.device = key[p] /\ (state # NoState => state' = state)
    BY <1>9, <2>1, StateKnown DEF Open
  <2>5. Creates(p)' /\ Bound(p)'
    BY <2>2, <2>3, <2>4, Zenon DEF Creates, Bound, HasThreads, Handle
  <2>6. CASE state = NoState
    BY <1>5, <2>1, <2>2, <2>3, <2>4, <2>5, <2>6, Zenon DEF files
  <2>7. CASE state # NoState
    <3>1. \A q \in Processes \ {p} : Creates(q)' /\ Bound(q)'
      BY <1>0, <2>2, <2>3, <2>4, <2>7, OthersKeep, Zenon
    <3> QED
      BY <2>1, <2>2, <2>4, <2>5, <2>7, <3>1, Zenon DEF IdentitySound, files
  <2> QED
    BY <2>6, <2>7, Zenon
<1>10. ASSUME NEW p \in Processes, LockToOpen(p)
       PROVE  IdentitySound'
  <2>1. UNCHANGED <<files, state, key, open, busy>> /\ pc[p] = "open"
        /\ pc' = [pc EXCEPT ![p] = "opening"]
    BY <1>10, Zenon DEF LockToOpen, Lock
  <2>2. pc'[p] = "opening" /\ \A q \in Processes \ {p} : pc'[q] = pc[q]
    BY <2>1, Zenon DEF Types, ProcessesTyped
  <2>3. \A q \in Processes \ {p} : Creates(q)' /\ Bound(q)'
    BY <1>0, <2>1, <2>2, OthersKeep, Zenon
  <2>4. Creates(p)' /\ Bound(p)'
    BY <1>0, <2>1, <2>2, Zenon DEF Creates, Bound, HasThreads, Handle, files
  <2> QED
    BY <2>1, <2>2, <2>3, <2>4, Zenon DEF IdentitySound, files
<1>11. ASSUME NEW p \in Processes,
              UnlinkSocket(p) \/ BindSocket(p) \/ Listen(p) \/ Close(p) \/ RemoveSocket(p)
       PROVE  IdentitySound'
  <2>1. UNCHANGED <<files, state, key, open, busy>> /\ pc[p] \in Handle
        /\ \E l \in Handle : pc' = [pc EXCEPT ![p] = l]
    BY <1>11, Zenon DEF UnlinkSocket, BindSocket, Listen, Close, Closes, RemoveSocket, Handle
  <2>2. pc'[p] \in Handle /\ \A q \in Processes \ {p} : pc'[q] = pc[q]
    BY <2>1, Zenon DEF Types, ProcessesTyped
  <2>3. \A q \in Processes \ {p} : Creates(q)' /\ Bound(q)'
    BY <1>0, <2>1, <2>2, OthersKeep, Zenon
  <2>4. state # NoState /\ key[p] = state.device
    BY <1>0, <2>1, Zenon DEF Bound, HasThreads
  <2>5. Creates(p)' /\ Bound(p)'
    BY <2>1, <2>2, <2>4, Zenon DEF Creates, Bound, HasThreads, Handle
  <2> QED
    BY <2>1, <2>3, <2>4, <2>5, Zenon DEF IdentitySound, files
<1>12. ASSUME NEW w \in Workers, ReadLocked(w) \/ Abandon(w)
       PROVE  IdentitySound'
  <2>1. UNCHANGED <<files, state, pc, key, open>>
    BY <1>12, Zenon DEF ReadLocked, Lock, Abandon
  <2>2. \A q \in Processes : Creates(q)' /\ Bound(q)'
    BY <1>0, <2>1, OthersKeep, Zenon
  <2>3. w[1] \in Processes
    BY Names, Zenon
  <2>4. state # NoState
    BY <1>0, <1>12, <2>3, Zenon DEF ReadLocked, Abandon, Bound, HasThreads, Handle, IdentitySound
  <2> QED
    BY <2>1, <2>2, <2>4, Zenon DEF IdentitySound, files
<1>13. ASSUME NEW w \in Workers, Write(w)
       PROVE  IdentitySound'
  <2>1. UNCHANGED <<files, pc, key, open>>
    BY <1>13, Zenon DEF Write
  <2>2. state # NoState
    BY <1>13, Zenon DEF Write, IdentitySound
  <2>3. state'.device = state.device /\ state.device # NoKey
    BY <1>13, <2>2, Zenon DEF Write, IdentitySound, Types, FilesTyped
  <2>4. state' # NoState
    BY <2>3, StateKnown, Zenon
  <2>5. \A q \in Processes : Creates(q)' /\ Bound(q)'
    BY <1>0, <2>1, <2>2, <2>3, <2>4, Zenon DEF Creates, Bound, HasThreads, files
  <2> QED
    BY <2>1, <2>2, <2>3, <2>4, <2>5, Zenon DEF IdentitySound, files
<1> QED
  BY <1>1, <1>2, <1>3, <1>4, <1>6, <1>7, <1>8, <1>9, <1>10, <1>11, <1>12, <1>13, Zenon DEF Next

-----------------------------------------------------------------------------
(* Invariance *)

\* The first state has every part of the invariants.
LEMMA InitSound == Init => IInv /\ IdentitySound
<1> SUFFICES ASSUME Init PROVE IInv /\ IdentitySound
  BY Zenon
<1>1. FilesTyped
  BY Names, StateKnown, Zenon DEF Init, FilesTyped, Inodes
<1>2. 0 \in 0 .. MaxStarts
  BY DataDirectoryAssumption
<1>3. ProcessesTyped
  BY <1>2, Names, Zenon DEF Init, ProcessesTyped, Labels
<1>4. ThreadsTyped
  BY DEF Init, ThreadsTyped
<1>5. StoreSound
  BY StateKnown, Zenon DEF Init, StoreSound, NoUpdateLost
<1>6. AgentSound
  BY Zenon DEF Init, AgentSound, Processes, Handle
<1>7. IdentitySound
  BY Zenon DEF Init, IdentitySound, Creates, Bound, HasThreads, Handle
<1> QED
  BY <1>1, <1>3, <1>4, <1>5, <1>6, <1>7, Zenon DEF IInv, Types

\* A step that changes nothing keeps them.
LEMMA Stutter ==
  ASSUME IInv, UNCHANGED vars
  PROVE  IInv' /\ (IdentitySound => IdentitySound')
<1>1. Types'
  BY Zenon DEF IInv, vars, files, Types, FilesTyped, ProcessesTyped, ThreadsTyped
<1>2. StoreSound' /\ AgentSound'
  BY Zenon DEF IInv, vars, files, StoreSound, NoUpdateLost, AgentSound, Mine
<1>3. IdentitySound => IdentitySound'
  BY Zenon DEF vars, files, IdentitySound, Creates, Bound, HasThreads
<1> QED
  BY <1>1, <1>2, <1>3, Zenon DEF IInv

\* The locks do what they are for in every reachable state.
LEMMA Invariance == Spec => []IInv
<1>1. Init => IInv
  BY InitSound, Zenon
<1>2. IInv /\ [Next]_vars => IInv'
  BY TypesNext, StoreSoundNext, AgentSoundNext, Stutter, Zenon DEF IInv
<1> QED
  BY <1>1, <1>2, PTL DEF Spec

-----------------------------------------------------------------------------
(* Results *)

\* However many threads of however many agents update the state, those of a closed
\* agent that were never joined included, and wherever a process stops: no update is
\* lost (ClusterStore::update loads and persists under cluster.lock).
THEOREM UpdatesAreNeverLost == Spec => []NoUpdateLost
<1>1. IInv => NoUpdateLost
  BY Zenon DEF IInv, StoreSound
<1> QED
  BY <1>1, Invariance, PTL

\* While an agent runs, agent.sock leads to it, whatever agents before it left or do
\* on their way out: the handle removes the socket before it lets go of agent.lock.
THEOREM CommandsReachTheAgent == Spec => []SocketLeadsToAgent
<1>1. IInv => SocketLeadsToAgent
  BY Zenon DEF IInv, AgentSound, SocketLeadsToAgent
<1> QED
  BY <1>1, Invariance, PTL

\* Where the processes that find no cluster.json are agents, or one tool, the key in
\* identity.json is the one cluster.json is bound to, and everybody who runs has it:
\* a start that stops half-way through load_or_create leaves nothing that a later
\* one would take for a key.  Without the hypothesis it is not so: that is what
\* first_start shows.
THEOREM KeyStaysWithDirectory ==
  ASSUME FirstStartAlone
  PROVE  Spec => []IdentityIsPersistent
<1>1. Init => IdentitySound
  BY InitSound, Zenon
<1>2. IInv /\ IdentitySound /\ [Next]_vars => IdentitySound'
  BY IdentitySoundNext, Stutter, Zenon DEF IInv
<1>3. IInv /\ IdentitySound => IdentityIsPersistent
  <2> SUFFICES ASSUME IdentitySound PROVE IdentityIsPersistent
    BY Zenon
  <2> QED
    BY Zenon DEF IdentitySound, IdentityIsPersistent, Bound, HasThreads, Handle
<1> QED
  BY <1>1, <1>2, <1>3, Invariance, PTL DEF Spec
=============================================================================
