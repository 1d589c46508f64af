-------------------------- MODULE ContentTransfer --------------------------
(***************************************************************************)
(* Blobs between peers: members that put, get and look up blobs on another *)
(* device (kubeweft-filesystem-network, RemoteContentStore; peer_content.rs *)
(* and secure.rs of kubeweft-transport), and the one thread of that        *)
(* device's agent that answers them, one connection at a time (agent.rs,   *)
(* run_remote_listener), out of a content store that local tools use too.  *)
(*                                                                         *)
(* A connection is authenticated and encrypted: what arrives is what was   *)
(* sent, in order.  It may be lost at any time with what is on its way;    *)
(* each end notices when it waits for more, or for room to write (end of   *)
(* file, a reset, or the timeouts of five seconds).  A peer that is silent *)
(* for longer than that is lost, one that is slow is not.  A payload goes  *)
(* out in frames of at most Frame bytes, and the listener writes one only  *)
(* when the sockets have room.  Whether a member is authorized is the      *)
(* subject of module Presence: here the agent may refuse.                  *)
(***************************************************************************)
EXTENDS LocalContentStore, Sequences

CONSTANTS Clients,
          Listener,    \* the caller that serves peers
          LocalContents,  \* bound: what local tools put and delete
          Frame,       \* MAX_PLAINTEXT_FRAME
          Window,      \* bound: the messages that the sockets hold on their way to a client
          MaxTransfer  \* MAX_CONTENT_TRANSFER_SIZE

ASSUME ContentTransferAssumption ==
  /\ None \notin Clients /\ Listener \in Callers /\ LocalContents \subseteq Contents
  /\ Frame \in Nat \ {0} /\ Window \in Nat \ {0} /\ MaxTransfer \in Nat

VARIABLES client,  \* of each client: its call, what arrived, what it returned
          session  \* the connection the listener serves

vars == <<store, faults, client, session>>

Local == Callers \ {Listener}

\* bytes: the payload, as far as it has arrived; excused: a file of that content
\* was deleted or damaged since the call began.
NoClient == [pc |-> "idle", op |-> "none", content |-> None, inbox |-> <<>>, size |-> 0,
             received |-> 0, bytes |-> "absent", result |-> "none", excused |-> FALSE]

\* bytes: the payload of a get, as it was read; sent: how many of its frames are.
NoSession == [pc |-> "accept", client |-> None, inbox |-> <<>>, content |-> None, size |-> 0,
              received |-> 0, bytes |-> "absent", sent |-> 0]

Message(type, size, bytes) == [type |-> type, size |-> size, bytes |-> bytes]
Request(op, c) == [type |-> op, content |-> c, size |-> IF op = "put" THEN Size[c] ELSE 0]
Answer(type) == Message(type, 0, "absent")

\* write_payload: full frames and the rest; none for an empty payload.
Chunks(n, bytes) ==
  [i \in 1 .. (n + Frame - 1) \div Frame |->
     Message("frame", IF i * Frame <= n THEN Frame ELSE n % Frame, bytes)]

\* What may arrive of messages on their way when the connection is lost.
Cuts(inbox) == {SubSeq(inbox, 1, n) : n \in 0 .. Len(inbox)}

FrameFits(message, received, size) ==
  message.type = "frame" /\ message.size \in 1 .. Frame /\ received + message.size <= size

-----------------------------------------------------------------------------
Init ==
  /\ StoreInit
  /\ client = [k \in Clients |-> NoClient]
  /\ session = NoSession

\* The client returns; the connection is dropped with it.
Finish(k, result, bytes) ==
  /\ client' = [client EXCEPT ![k] = [NoClient EXCEPT !.content = client[k].content,
                                                      !.excused = client[k].excused,
                                                      !.result = result, !.bytes = bytes]]
  /\ session' = IF session.client = k THEN [session EXCEPT !.client = None] ELSE session
  /\ UNCHANGED <<store, faults>>

\* RemoteContentStore::put, get and exists
CallPeer(k, op, c) ==
  /\ client[k].pc = "idle"
  /\ LET called == [NoClient EXCEPT !.op = op, !.content = c]
         refused == op = "put" /\ Size[c] > MaxTransfer
     IN  client' = [client EXCEPT ![k] = IF refused THEN [called EXCEPT !.result = "too_large"]
                                         ELSE [called EXCEPT !.pc = "connect"]]
  /\ UNCHANGED <<store, faults, session>>

\* The listener takes the connection, the two shake hands and the client sends
\* its request.
Accept(k) ==
  /\ session.pc = "accept" /\ client[k].pc = "connect"
  /\ session' = [NoSession EXCEPT !.pc = "request", !.client = k,
                                  !.inbox = <<Request(client[k].op, client[k].content)>>]
  /\ client' = [client EXCEPT ![k].pc = "answer"]
  /\ UNCHANGED <<store, faults>>

\* Nobody takes the connection in time.
ConnectFails(k) ==
  /\ client[k].pc = "connect"
  /\ faults < MaxFaults /\ faults' = faults + 1
  /\ client' = [client EXCEPT ![k].pc = "idle", ![k].result = "broken"]
  /\ UNCHANGED <<store, session>>

\* The connection is lost, and the end of what was on its way: also what the
\* listener wrote before it closed the connection.
Disconnect(k) ==
  /\ client[k].pc \in {"answer", "stored", "payload"}
  /\ faults < MaxFaults /\ faults' = faults + 1
  /\ \E inbox \in Cuts(client[k].inbox) : client' = [client EXCEPT ![k].inbox = inbox]
  /\ \/ session.client # k /\ UNCHANGED session
     \/ /\ session.client = k
        /\ \E inbox \in Cuts(session.inbox) :
             session' = [session EXCEPT !.client = None, !.inbox = inbox]
  /\ UNCHANGED store

-----------------------------------------------------------------------------
(* The listener *)

Deliver(messages) ==
  client' = IF session.client = None THEN client
            ELSE [client EXCEPT ![session.client].inbox = @ \o messages]

\* The connection is answered and closed.
Conclude(messages) ==
  /\ Deliver(messages)
  /\ session' = NoSession
  /\ UNCHANGED <<store, faults>>

Arrived(type) ==
  session.pc = "request" /\ session.inbox # <<>> /\ Head(session.inbox).type = type

\* The peer is not in the roster, the agent serves no content, or the length it
\* announces is too large (a client does not ask then).
Refuse ==
  /\ session.pc = "request" /\ session.inbox # <<>>
  /\ Conclude(<<Answer("unauthorized")>>)

ServeExists ==
  /\ Arrived("exists")
  /\ Conclude(<<Answer(IF Matches(blob[Head(session.inbox).content])
                       THEN "exists" ELSE "missing")>>)

\* FilesystemPeerContentStore::get reads the blob and checks its hash; the
\* length is told before the payload.
ServeGet ==
  /\ Arrived("get")
  /\ LET c == Head(session.inbox).content
         refusal == CASE blob[c] = "absent" -> "unavailable"
                      [] blob[c] # "absent" /\ ~Matches(blob[c]) -> "integrity"
                      [] OTHER -> "too_large"
     IN  IF Matches(blob[c]) /\ Size[c] <= MaxTransfer
         THEN /\ Deliver(<<Message("available", Size[c], "absent")>>)
              /\ session' = [session EXCEPT !.pc = "send", !.inbox = Tail(@), !.content = c,
                                            !.size = Size[c], !.bytes = blob[c]]
              /\ UNCHANGED <<store, faults>>
         ELSE Conclude(<<Answer(refusal)>>)

Payload == Chunks(session.size, session.bytes)

\* Mutant: the last frame is forgotten.
SendsAllButLast == session.pc = "send" /\ session.sent + 1 < Len(Payload)

SendsMore == session.pc = "send" /\ session.sent < Len(Payload)

HasRoom == session.client # None /\ Len(client[session.client].inbox) < Window

\* Mutant: each frame is read from the file when its turn comes.
SendFrameFromFile ==
  /\ SendsMore /\ HasRoom
  /\ Deliver(<<Chunks(session.size, blob[session.content])[session.sent + 1]>>)
  /\ session' = [session EXCEPT !.sent = @ + 1]
  /\ UNCHANGED <<store, faults>>

\* write_payload: the next frame, once there is room for it.
SendFrame ==
  /\ SendsMore /\ HasRoom
  /\ Deliver(<<Payload[session.sent + 1]>>)
  /\ session' = [session EXCEPT !.sent = @ + 1]
  /\ UNCHANGED <<store, faults>>

PayloadSent ==
  /\ session.pc = "send" /\ ~SendsMore
  /\ Conclude(<<>>)

\* The file cannot be read.
ReadFails ==
  /\ Arrived("exists") \/ Arrived("get")
  /\ faults < MaxFaults /\ faults' = faults + 1
  /\ Deliver(<<Answer("failed")>>)
  /\ session' = NoSession
  /\ UNCHANGED store

\* handle_content_put, up to the first answer
ServePut ==
  /\ Arrived("put")
  /\ LET request == Head(session.inbox)
     IN  /\ request.size <= MaxTransfer
         /\ Deliver(<<Answer("ready")>>)
         /\ session' = [session EXCEPT !.pc = "payload", !.inbox = Tail(@),
                                       !.content = request.content, !.size = request.size]
  /\ UNCHANGED <<store, faults>>

\* read_payload: frame by frame, until the payload has the announced length.
ReceivePayload ==
  /\ session.pc = "payload" /\ session.received < session.size /\ session.inbox # <<>>
  /\ LET frame == Head(session.inbox)
         fits == FrameFits(frame, session.received, session.size)
     IN  /\ Deliver(IF fits THEN <<>> ELSE <<Answer("invalid")>>)
         /\ session' = IF fits THEN [session EXCEPT !.received = @ + frame.size, !.inbox = Tail(@)]
                       ELSE NoSession
  /\ UNCHANGED <<store, faults>>

\* FilesystemPeerContentStore::put: the hash of the payload is what it was
\* announced as (a client sends the content it names).
StorePayload ==
  /\ session.pc = "payload" /\ session.received = session.size
  /\ Begin(Listener, "put", session.content)
  /\ session' = [session EXCEPT !.pc = "store"]
  /\ UNCHANGED client

\* Mutant: the answer does not look at what the store returned.
AnswerPutBlindly ==
  /\ session.pc = "store" /\ Take(Listener)
  /\ Deliver(<<Answer("stored")>>)
  /\ session' = NoSession

AnswerPut ==
  /\ session.pc = "store" /\ Take(Listener)
  /\ Deliver(<<Answer(IF pc[Listener] = "ok" THEN "stored" ELSE pc[Listener])>>)
  /\ session' = NoSession

Reads == session.pc = "request" \/ (session.pc = "payload" /\ session.received < session.size)

\* Mutant: a write without a timeout.
ReadEnds ==
  /\ Reads /\ session.inbox = <<>> /\ session.client = None
  /\ Conclude(<<>>)

\* The connection is lost: nothing more arrives, or nothing can be written.
SessionEnds ==
  /\ Reads \/ SendsMore
  /\ session.inbox = <<>> /\ session.client = None
  /\ Conclude(<<>>)

-----------------------------------------------------------------------------
(* A client *)

First(k) == Head(client[k].inbox)

Waits(k, step) == client[k].pc = step /\ client[k].inbox # <<>>

\* ClusterContentClient::put, once the peer is ready: the payload.
SendPayload(k) ==
  /\ Waits(k, "answer") /\ client[k].op = "put" /\ First(k).type = "ready"
  /\ client' = [client EXCEPT ![k].pc = "stored", ![k].inbox = Tail(@)]
  /\ session' = IF session.client = k
                THEN [session EXCEPT !.inbox = @ \o Chunks(Size[client[k].content], "whole")]
                ELSE session
  /\ UNCHANGED <<store, faults>>

\* ClusterContentClient::get, once the peer has told the length.
ExpectPayload(k) ==
  /\ Waits(k, "answer") /\ client[k].op = "get" /\ First(k).type = "available"
  /\ client' = [client EXCEPT ![k].pc = "payload", ![k].inbox = Tail(@), ![k].size = First(k).size,
                              ![k].bytes = "whole"]
  /\ UNCHANGED <<store, faults, session>>

FetchPayload(k) ==
  /\ Waits(k, "payload") /\ client[k].received < client[k].size
  /\ IF FrameFits(First(k), client[k].received, client[k].size)
     THEN /\ client' = [client EXCEPT ![k].received = @ + First(k).size, ![k].inbox = Tail(@),
                                      ![k].bytes = IF Matches(First(k).bytes) THEN @
                                                   ELSE First(k).bytes]
          /\ UNCHANGED <<store, faults, session>>
     ELSE Finish(k, "invalid", "absent")

\* RemoteContentStore::get checks the hash again.
Fetched(k) ==
  /\ client[k].pc = "payload" /\ client[k].received = client[k].size
  /\ LET intact == Matches(client[k].bytes) /\ client[k].received = Size[client[k].content]
     IN  Finish(k, IF intact THEN "fetched" ELSE "unavailable", client[k].bytes)

\* The final answer to put and exists, or an error.
TakeAnswer(k) ==
  /\ Waits(k, "answer") \/ Waits(k, "stored")
  /\ First(k).type \notin {"ready", "available", "frame"}
  /\ Finish(k, First(k).type, "absent")

\* The connection is lost and nothing more arrives.
GiveUp(k) ==
  /\ client[k].pc \in {"answer", "stored"}
       \/ (client[k].pc = "payload" /\ client[k].received < client[k].size)
  /\ client[k].inbox = <<>> /\ session.client # k
  /\ Finish(k, "broken", "absent")

-----------------------------------------------------------------------------
(* The store under both *)

Excuse(c) ==
  client' = [k \in Clients |-> IF client[k].content = c THEN [client[k] EXCEPT !.excused = TRUE]
                               ELSE client[k]]

CallerStep(x) ==
  \/ (LockMutex(x) \/ LockFile(x) \/ Inspect(x) \/ Reserve(x) \/ WriteTemporary(x) \/ Rename(x))
     /\ UNCHANGED <<client, session>>
  \/ x \in Local /\ Take(x) /\ UNCHANGED <<client, session>>
  \/ Unlink(x) /\ Excuse(call[x].content) /\ UNCHANGED session

CallStore(x, op, c) == Begin(x, op, c) /\ UNCHANGED <<client, session>>

StoreFails(x) == Fail(x) /\ UNCHANGED <<client, session>>

\* What the listener wrote to the client it serves and has not been read.
Written == IF session.client = None THEN <<>> ELSE client[session.client].inbox

\* An agent takes its connections with it, those it did not accept included, and
\* what it has written may not arrive.
AgentEnds ==
  /\ session' = NoSession
  /\ \E inbox \in Cuts(Written) :
       client' = [k \in Clients |->
                    IF client[k].pc = "connect"
                    THEN [client[k] EXCEPT !.pc = "idle", !.result = "broken"]
                    ELSE IF session.client = k THEN [client[k] EXCEPT !.inbox = inbox]
                    ELSE client[k]]

ProcessEnds(p) ==
  /\ Crash(p)
  /\ IF p = Home[Listener] THEN AgentEnds ELSE UNCHANGED <<client, session>>

FileSpoils(c) == Damage(c) /\ Excuse(c) /\ UNCHANGED session

ListenerStep ==
  Refuse \/ ServeExists \/ ServeGet \/ SendFrame \/ PayloadSent \/ ServePut \/ ReceivePayload
    \/ StorePayload \/ AnswerPut \/ SessionEnds

ClientStep(k) ==
  SendPayload(k) \/ ExpectPayload(k) \/ FetchPayload(k) \/ Fetched(k) \/ TakeAnswer(k) \/ GiveUp(k)

Next ==
  \/ \E k \in Clients :
       \/ \E op \in {"put", "get", "exists"}, c \in Contents : CallPeer(k, op, c)
       \/ Accept(k) \/ ConnectFails(k) \/ Disconnect(k) \/ ClientStep(k)
  \/ ListenerStep \/ ReadFails
  \/ \E x \in Callers : CallerStep(x) \/ StoreFails(x)
  \/ \E x \in Local, op \in {"put", "delete"}, c \in LocalContents : CallStore(x, op, c)
  \/ \E p \in Processes : ProcessEnds(p)
  \/ \E c \in Contents : FileSpoils(c)

Spec == Init /\ [][Next]_vars

\* Threads that can go on do; callers need not call.
Fairness ==
  /\ WF_vars(ListenerStep)
  /\ \A k \in Clients : WF_vars(ClientStep(k))
  /\ \A x \in Callers : WF_vars(CallerStep(x))

FairSpec == Spec /\ Fairness

-----------------------------------------------------------------------------
(* Properties *)

\* A peer that answers "stored" holds the blob, whatever the local tools did in
\* between, unless it was deleted or damaged since the call began: an answer on
\* its way counts (agent.rs:828).
StoredIsHeld ==
  \A k \in Clients :
    \/ client[k].result = "stored"
    \/ \E i \in 1 .. Len(client[k].inbox) : client[k].inbox[i].type = "stored"
    => Matches(blob[client[k].content]) \/ client[k].excused

\* A payload arrives whole or not at all, in either direction and before anybody
\* looks at a hash: the blob may be damaged or deleted while its frames are sent,
\* the connection may end between two of them, the agent may end and start again,
\* and still a receiver that has the announced length has all of the content
\* (read_payload, secure.rs:175), and none meets a frame that does not fit.
PayloadIsWhole ==
  \A k \in Clients :
    /\ client[k].result # "invalid"
    /\ client[k].pc = "payload" /\ client[k].received = client[k].size =>
         Matches(client[k].bytes) /\ client[k].received = Size[client[k].content]

\* A transfer is broken or refused as damaged only after something failed:
\* payloads of every length, the empty one, full frames and a rest included,
\* arrive as they are announced.
TransferFailsForAReason ==
  faults = 0 => \A k \in Clients :
                  client[k].result \notin {"broken", "integrity", "failed"}

\* The listener serves one connection at a time: it always comes back for the
\* next one, whatever became of the client while the listener waits for its
\* frames or for room to write to it, unless local tools keep the lock of the
\* directory busy for ever.
ListenerComesBack ==
  <>[](\A x \in Local : pc[x] = "idle") =>
    (session.pc # "accept" ~> session.pc = "accept")
=============================================================================
