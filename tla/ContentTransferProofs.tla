------------------------ MODULE ContentTransferProofs ------------------------
(***************************************************************************)
(* Proofs about the content store and the transfers between peers: the     *)
(* directory holds no half-written blob, a peer that answers "stored"      *)
(* holds the blob, a payload arrives whole or not at all, and a transfer   *)
(* fails for a reason.  The capacity is the subject of                     *)
(* ContentCapacityProofs.                                                  *)
(***************************************************************************)
EXTENDS ContentTransfer, TLAPS

-----------------------------------------------------------------------------
(* Types *)

Blobs == {"absent", "whole", "damaged", "partial"}

Results == {"ok", "no_space", "failed"}

\* Where a caller holds the lock of the directory.
Locked == {"inspect", "reserve", "write", "unlink"}

Labels == {"idle", "mutex", "lock"} \cup Locked \cup Results

Calls == [op : {"none", "put", "delete"}, content : Contents \cup {None}, written : Nat]

\* The store; who holds the mutexes does not matter to what follows.
StoreTyped ==
  /\ blob \in [Contents -> Blobs]
  /\ temporary \in [Contents -> Nat \cup {NoTemporary}]
  /\ pc \in [Callers -> Labels]
  /\ call \in [Callers -> Calls]
  /\ faults \in Nat

\* What the listener may answer: never that a payload does not fit.
Answers == {"unauthorized", "exists", "missing", "unavailable", "integrity", "too_large",
            "failed", "stored", "no_space"}

Messages == [type : Answers \cup {"ready", "available", "frame"}, size : Nat, bytes : Blobs]

Requests == [type : {"put", "get", "exists"}, content : Contents, size : Nat]

ClientRecords ==
  [pc : {"idle", "connect", "answer", "stored", "payload"},
   op : {"none", "put", "get", "exists"}, content : Contents \cup {None}, inbox : Seq(Messages),
   size : Nat, received : Nat, bytes : Blobs,
   result : Answers \cup {"none", "broken", "fetched"}, excused : BOOLEAN]

SessionRecords ==
  [pc : {"accept", "request", "send", "payload", "store"}, client : Clients \cup {None},
   inbox : Seq(Messages \cup Requests), content : Contents \cup {None}, size : Nat,
   received : Nat, bytes : Blobs, sent : Nat]

TransferTyped == client \in [Clients -> ClientRecords] /\ session \in SessionRecords

-----------------------------------------------------------------------------
(* The inductive invariant of the store *)

\* Who has inspected the directory is alone there: the blob is still absent, and
\* the temporary file is the one the caller writes.
CallSound(x) ==
  LET c == call[x].content
  IN  /\ pc[x] \in {"mutex", "lock"} \cup Locked => c \in Contents
      /\ pc[x] \in {"mutex", "lock", "inspect", "reserve"} => call[x].written = 0
      /\ pc[x] \in Locked => lockFile = x
      /\ pc[x] \in {"reserve", "write"} => blob[c] = "absent"
      /\ pc[x] = "write" => temporary[c] = call[x].written /\ call[x].written <= Size[c]

StoreInv ==
  /\ StoreTyped
  /\ \A x \in Callers : CallSound(x)
  /\ BlobsAreWhole
  /\ faults = 0 => /\ \A c \in Contents : blob[c] # "damaged"
                   /\ \A x \in Callers : pc[x] # "failed"

-----------------------------------------------------------------------------
(* The inductive invariant of the transfers *)

Frames(n) == (n + Frame - 1) \div Frame

FrameSize(n, i) == IF i * Frame <= n THEN Frame ELSE n % Frame

\* The frames of a payload of n bytes after the i-th, up to the j-th, and the
\* length of the first i.
Part(n, i, j) == [x \in 1 .. j - i |-> Message("frame", FrameSize(n, x + i), "whole")]

Got(n, i) == IF i * Frame <= n THEN i * Frame ELSE n

\* What a receiver of n bytes has and what is on its way make up the first j
\* frames of the payload.
Carries(n, received, inbox, j) ==
  j \in 0 .. Frames(n) /\ \E i \in 0 .. j : received = Got(n, i) /\ inbox = Part(n, i, j)

Flows(n, received, inbox) == Carries(n, received, inbox, Frames(n))

\* The answer to a get, with j frames of the payload behind it.
Announced(n, j) == <<Message("available", n, "absent")>> \o Part(n, 0, j)

\* The two ends of a connection that is not lost.
InTouch(k) ==
  LET c == client[k].content
  IN  \/ /\ session.pc = "request" /\ client[k].pc = "answer"
         /\ c \in Contents /\ client[k].op \in {"put", "get", "exists"}
         /\ session.inbox = <<Request(client[k].op, c)>> /\ client[k].inbox = <<>>
         /\ session.received = 0 /\ session.sent = 0
      \/ /\ session.pc = "send" /\ client[k].pc \in {"answer", "payload"}
         /\ c \in Contents /\ client[k].op = "get" /\ session.size = Size[c]
         /\ session.bytes = "whole" /\ session.sent \in 0 .. Frames(Size[c])
         /\ client[k].pc = "answer" => client[k].inbox = Announced(Size[c], session.sent)
         /\ client[k].pc = "payload" =>
              Carries(Size[c], client[k].received, client[k].inbox, session.sent)
      \/ /\ session.pc = "payload" /\ client[k].pc = "answer"
         /\ c \in Contents /\ session.content = c /\ session.size = Size[c]
         /\ client[k].op = "put" /\ session.received = 0
         /\ session.inbox = <<>> /\ client[k].inbox = <<Answer("ready")>>
      \/ /\ session.pc = "payload" /\ client[k].pc = "stored"
         /\ c \in Contents /\ session.content = c /\ session.size = Size[c]
         /\ Flows(Size[c], session.received, session.inbox) /\ client[k].inbox = <<>>
      \/ /\ session.pc = "store" /\ client[k].pc \in {"answer", "stored"}
         /\ c \in Contents /\ session.content = c
         /\ client[k].pc = "stored" => client[k].inbox = <<>>
         /\ client[k].pc = "answer" => /\ client[k].op = "put" /\ Size[c] = 0
                                       /\ client[k].inbox = <<Answer("ready")>>

\* What arrives for the listener, also when the connection is lost: one request,
\* then the first frames of the payload.
SessionSound ==
  /\ session.pc = "request" =>
       session.received = 0 /\ (session.inbox # <<>> => Tail(session.inbox) = <<>>)
  /\ session.pc = "payload" =>
       \E j \in 0 .. Frames(session.size) :
         Carries(session.size, session.received, session.inbox, j)

\* The listener is in the store for the session alone, and only puts; an "ok" it
\* has not answered yet holds for its client.
ListenerSound ==
  /\ SessionSound
  /\ session.pc = "store" <=> pc[Listener] # "idle"
  /\ session.pc \in {"payload", "store"} => session.content \in Contents
  /\ pc[Listener] # "unlink"
  /\ pc[Listener] \in {"mutex", "lock"} \cup Locked =>
       call[Listener].op = "put" /\ call[Listener].content = session.content
  /\ pc[Listener] = "ok" =>
       \A k \in Clients : session.client = k =>
         Matches(blob[session.content]) \/ client[k].excused

\* A client that does not wait has nothing to read, one that has not returned no
\* result, and every call names a content.
ClientSound(k) ==
  /\ client[k].pc \in {"idle", "connect"} => client[k].inbox = <<>>
  /\ client[k].pc # "idle" => client[k].result = "none" /\ client[k].op \in {"put", "get", "exists"}
  /\ client[k].pc # "idle" \/ client[k].result # "none" => client[k].content \in Contents
  /\ client[k].pc # "payload" => client[k].received = 0

\* What arrives for a client, also when the connection is lost: the first frames
\* of the payload, behind their announcement.
Coming(k) ==
  LET n == Size[client[k].content]
  IN  /\ client[k].pc = "payload" =>
           /\ client[k].size = n /\ client[k].bytes = "whole"
           /\ \E j \in 0 .. Frames(n) : Carries(n, client[k].received, client[k].inbox, j)
      /\ /\ client[k].pc = "answer" /\ client[k].inbox # <<>>
         /\ Head(client[k].inbox).type = "available"
         => \E j \in 0 .. Frames(n) : client[k].inbox = Announced(n, j)

Failures == {"broken", "integrity", "failed"}

GoodAnswers == Answers \ Failures

\* As long as nothing failed, what a client waits for has been sent once its
\* connection is closed.
Answered(k) ==
  LET inbox == client[k].inbox
      n == Size[client[k].content]
  IN  \/ client[k].pc \in {"answer", "stored"} /\ \E a \in GoodAnswers : inbox = <<Answer(a)>>
      \/ /\ client[k].pc = "answer" /\ client[k].op = "put"
         /\ \E a \in GoodAnswers : inbox = <<Answer("ready"), Answer(a)>>
      \/ /\ client[k].pc = "answer" /\ client[k].op = "get"
         /\ inbox = Announced(n, Frames(n))
      \/ client[k].pc = "payload" /\ Flows(client[k].size, client[k].received, inbox)

Promised(q) == \E i \in 1 .. Len(q) : q[i].type = "stored"

Held(k) ==
  client[k].result = "stored" \/ Promised(client[k].inbox)
    => Matches(blob[client[k].content]) \/ client[k].excused

ClientGood(k) ==
  /\ ClientSound(k) /\ Held(k) /\ Coming(k)
  /\ session.client = k => InTouch(k)
  /\ faults = 0 /\ client[k].pc \in {"answer", "stored", "payload"} /\ session.client # k
       => Answered(k)
  /\ faults = 0 => client[k].result \notin Failures

IInv == StoreInv /\ TransferTyped /\ ListenerSound /\ \A k \in Clients : ClientGood(k)

-----------------------------------------------------------------------------
(* Sequences *)

LEMMA EmptySeq ==
  ASSUME NEW S
  PROVE  <<>> \in Seq(S)
OBVIOUS

\* A function on an initial segment is a sequence.
LEMMA FunctionIsSeq ==
  ASSUME NEW S, NEW m \in Nat, NEW f \in [1 .. m -> S]
  PROVE  f \in Seq(S) /\ Len(f) = m
OBVIOUS

LEMMA SeqEqual ==
  ASSUME NEW S, NEW p \in Seq(S), NEW q \in Seq(S), Len(p) = Len(q),
         \A i \in 1 .. Len(p) : p[i] = q[i]
  PROVE  p = q
OBVIOUS

LEMMA InSeq ==
  ASSUME NEW S, NEW q \in Seq(S), NEW i \in 1 .. Len(q)
  PROVE  q[i] \in S
OBVIOUS

LEMMA HeadAndTail ==
  ASSUME NEW S, NEW q \in Seq(S), q # <<>>
  PROVE  /\ Head(q) \in S /\ Tail(q) \in Seq(S) /\ Len(Tail(q)) = Len(q) - 1
         /\ \A i \in 1 .. Len(Tail(q)) : Tail(q)[i] = q[i + 1]
OBVIOUS

LEMMA EmptyLen == Len(<<>>) <= 1
OBVIOUS

LEMMA LenZero ==
  ASSUME NEW S, NEW q \in Seq(S)
  PROVE  q = <<>> <=> Len(q) = 0
OBVIOUS

LEMMA TailEmpty ==
  ASSUME NEW S, NEW q \in Seq(S), q # <<>>
  PROVE  Tail(q) = <<>> <=> Len(q) <= 1
<1>1. Tail(q) \in Seq(S) /\ Len(Tail(q)) = Len(q) - 1
  BY HeadAndTail, Zenon
<1>2. Len(q) \in Nat /\ Len(q) # 0
  OBVIOUS
<1>3. Tail(q) = <<>> <=> Len(Tail(q)) = 0
  BY <1>1, LenZero, Zenon
<1> QED
  BY <1>1, <1>2, <1>3

LEMMA Joined ==
  ASSUME NEW S, NEW p \in Seq(S), NEW q \in Seq(S)
  PROVE  /\ p \o q \in Seq(S) /\ Len(p \o q) = Len(p) + Len(q)
         /\ \A i \in 1 .. Len(p) + Len(q) :
              (p \o q)[i] = IF i <= Len(p) THEN p[i] ELSE q[i - Len(p)]
OBVIOUS

LEMMA JoinedEmpty ==
  ASSUME NEW S, NEW p \in Seq(S)
  PROVE  p \o <<>> = p /\ <<>> \o p = p
OBVIOUS

-----------------------------------------------------------------------------
(* The store: every step keeps StoreInv *)

\* Only the holder of the lock of the directory changes its files.
LEMMA OneInside ==
  ASSUME \A x \in Callers : CallSound(x),
         NEW x \in Callers, NEW y \in Callers, pc[x] \in Locked, pc[y] \in Locked
  PROVE  x = y
BY Zenon DEF CallSound

\* The files stay, but for the bytes the medium spoils.
SameFiles ==
  temporary' = temporary /\ \A c \in Contents : blob'[c] = "absent" <=> blob[c] = "absent"

\* What a caller knows stays true as long as it does not move and, if it holds
\* the lock of the directory, the files stay.
LEMMA CallKept ==
  ASSUME NEW y \in Callers, CallSound(y), pc'[y] = pc[y], call'[y] = call[y],
         pc[y] \in Locked => lockFile' = lockFile /\ SameFiles
  PROVE  CallSound(y)'
<1>1. CASE pc[y] \notin Locked
  BY <1>1, Zenon DEF CallSound, Locked
<1>2. CASE pc[y] \in Locked
  <2>1. call[y].content \in Contents
    BY <1>2, Zenon DEF CallSound
  <2>2. /\ blob'[call[y].content] = "absent" <=> blob[call[y].content] = "absent"
        /\ temporary' = temporary /\ lockFile' = lockFile
    BY <1>2, <2>1, Zenon DEF SameFiles
  <2> QED
    BY <2>2, Zenon DEF CallSound
<1> QED
  BY <1>1, <1>2, Zenon

\* A step that leaves the files as they are.
LEMMA FilesStay ==
  ASSUME StoreInv, StoreTyped', blob' = blob, temporary' = temporary,
         \A x \in Callers : CallSound(x)', faults' >= faults,
         \A x \in Callers : pc'[x] = "failed" => pc[x] = "failed" \/ faults' > 0
  PROVE  StoreInv'
<1>1. BlobsAreWhole'
  BY Zenon DEF StoreInv, BlobsAreWhole
<1>2. faults' = 0 => faults = 0
  BY DEF StoreInv, StoreTyped
<1> QED
  BY <1>1, <1>2 DEF StoreInv, StoreTyped

\* A step of one caller that leaves the files as they are.
LEMMA CallerMoves ==
  ASSUME StoreInv, NEW x \in Callers, NEW l \in Labels, NEW r \in Calls,
         pc' = [pc EXCEPT ![x] = l], call' = [call EXCEPT ![x] = r],
         blob' = blob, temporary' = temporary, faults' \in Nat, faults' >= faults,
         l = "failed" => faults' > 0,
         CallSound(x)',
         \A y \in Callers \ {x} : pc[y] \in Locked => lockFile' = lockFile
  PROVE  StoreInv'
<1>1. /\ pc'[x] = l /\ \A y \in Callers \ {x} : pc'[y] = pc[y] /\ call'[y] = call[y]
  BY Zenon DEF StoreInv, StoreTyped
<1>2. StoreTyped'
  BY Zenon DEF StoreInv, StoreTyped
<1>3. SameFiles
  BY Zenon DEF SameFiles
<1>4. \A y \in Callers : CallSound(y)'
  BY <1>1, <1>3, CallKept, Zenon DEF StoreInv
<1>5. \A y \in Callers : pc'[y] = "failed" => pc[y] = "failed" \/ faults' > 0
  BY <1>1, Zenon
<1> QED
  BY <1>2, <1>4, <1>5, FilesStay, Zenon

LEMMA NoCallTyped == NoCall \in Calls
BY Zenon DEF NoCall, Calls

\* The call of a caller that has one.
LEMMA CallTyped ==
  ASSUME StoreInv, NEW x \in Callers
  PROVE  /\ pc[x] \in Labels /\ call[x] \in Calls /\ CallSound(x)
         /\ call[x].written \in Nat
         /\ pc[x] \in {"mutex", "lock"} \cup Locked => call[x].content \in Contents
<1>1. pc[x] \in Labels /\ call[x] \in Calls /\ CallSound(x)
  BY Zenon DEF StoreInv, StoreTyped
<1>2. call[x].written \in Nat
  BY <1>1, Zenon DEF Calls
<1> QED
  BY <1>1, <1>2, Zenon DEF CallSound

LEMMA BeginStep ==
  ASSUME StoreInv, NEW x \in Callers, NEW op \in {"put", "delete"}, NEW c \in Contents,
         Begin(x, op, c)
  PROVE  StoreInv'
<1> DEFINE r == [op |-> op, content |-> c, written |-> 0]
<1>1. /\ pc' = [pc EXCEPT ![x] = "mutex"] /\ call' = [call EXCEPT ![x] = r]
      /\ UNCHANGED <<blob, temporary, lockFile, faults>>
  BY Zenon DEF Begin, Goto
<1>2. r \in Calls /\ "mutex" \in Labels
  BY Zenon DEF Calls, Labels
<1>3. pc'[x] = "mutex" /\ call'[x] = r
  BY <1>1, Zenon DEF StoreInv, StoreTyped
<1>4. CallSound(x)'
  BY <1>3 DEF CallSound, Locked
<1>5. faults' \in Nat /\ faults' >= faults
  BY <1>1 DEF StoreInv, StoreTyped
<1> HIDE DEF r
<1> QED
  BY <1>1, <1>2, <1>4, <1>5, CallerMoves, Zenon

LEMMA TakeStep ==
  ASSUME StoreInv, NEW x \in Callers, Take(x)
  PROVE  StoreInv'
<1>1. /\ pc' = [pc EXCEPT ![x] = "idle"] /\ call' = call
      /\ UNCHANGED <<blob, temporary, lockFile, faults>>
  BY Zenon DEF Take, Goto
<1>2. call' = [call EXCEPT ![x] = call[x]] /\ call[x] \in Calls /\ "idle" \in Labels
  BY <1>1, Zenon DEF StoreInv, StoreTyped, Labels
<1>3. pc'[x] = "idle"
  BY <1>1, Zenon DEF StoreInv, StoreTyped
<1>4. CallSound(x)'
  BY <1>3, Zenon DEF CallSound, Locked
<1>5. faults' \in Nat /\ faults' >= faults
  BY <1>1 DEF StoreInv, StoreTyped
<1> QED
  BY <1>1, <1>2, <1>4, <1>5, CallerMoves, Zenon

LEMMA LockMutexStep ==
  ASSUME StoreInv, NEW x \in Callers, LockMutex(x)
  PROVE  StoreInv'
<1>1. /\ pc[x] = "mutex" /\ pc' = [pc EXCEPT ![x] = "lock"] /\ call' = call
      /\ UNCHANGED <<blob, temporary, lockFile, faults>>
  BY Zenon DEF LockMutex, Goto
<1>2. call' = [call EXCEPT ![x] = call[x]] /\ call[x] \in Calls /\ "lock" \in Labels
  BY <1>1, Zenon DEF StoreInv, StoreTyped, Labels
<1>3. pc'[x] = "lock" /\ call'[x] = call[x] /\ CallSound(x)
  BY <1>1, Zenon DEF StoreInv, StoreTyped
<1>4. CallSound(x)'
  BY <1>1, <1>3, Zenon DEF CallSound, Locked
<1>5. faults' \in Nat /\ faults' >= faults
  BY <1>1 DEF StoreInv, StoreTyped
<1> QED
  BY <1>1, <1>2, <1>4, <1>5, CallerMoves, Zenon

LEMMA LockFileStep ==
  ASSUME StoreInv, NEW x \in Callers, LockFile(x)
  PROVE  StoreInv'
<1> DEFINE l == IF call[x].op = "put" THEN "inspect" ELSE "unlink"
<1>1. /\ pc[x] = "lock" /\ pc' = [pc EXCEPT ![x] = l] /\ call' = call
      /\ lockFile = None /\ lockFile' = x
      /\ UNCHANGED <<blob, temporary, faults>>
  BY Zenon DEF LockFile, Goto
<1>2. call' = [call EXCEPT ![x] = call[x]] /\ call[x] \in Calls /\ l \in Labels
  BY <1>1, Zenon DEF StoreInv, StoreTyped, Labels, Locked
<1>3. pc'[x] = l /\ call'[x] = call[x] /\ CallSound(x)
  BY <1>1, Zenon DEF StoreInv, StoreTyped
<1>4. CallSound(x)'
  BY <1>1, <1>3 DEF CallSound, Locked
<1>5. faults' \in Nat /\ faults' >= faults
  BY <1>1 DEF StoreInv, StoreTyped
<1>6. \A y \in Callers : pc[y] \notin Locked
  BY <1>1, LocalContentStoreAssumption, Zenon DEF StoreInv, CallSound
<1>7. l # "failed"
  BY Zenon
<1> HIDE DEF l
<1> QED
  BY <1>1, <1>2, <1>4, <1>5, <1>6, <1>7, CallerMoves, Zenon

\* A call that returns and leaves the files as they are.
LEMMA ReturnStep ==
  ASSUME StoreInv, NEW x \in Callers, NEW l \in Results, Return(x, l),
         blob' = blob, temporary' = temporary, faults' \in Nat, faults' >= faults,
         l = "failed" => faults' > 0,
         pc[x] \in {"lock"} \cup Locked
  PROVE  StoreInv'
<1>1. pc' = [pc EXCEPT ![x] = l] /\ call' = [call EXCEPT ![x] = NoCall]
  BY Zenon DEF Return, Goto
<1>2. pc'[x] = l
  BY <1>1, Zenon DEF StoreInv, StoreTyped
<1>3. CallSound(x)'
  BY <1>2, Zenon DEF CallSound, Locked, Results
<1>4. l \in Labels
  BY Zenon DEF Labels
<1>5. \A y \in Callers \ {x} : pc[y] \in Locked => lockFile' = lockFile
  <2>1. \A y \in Callers : pc[y] \in Locked => lockFile = y
    BY Zenon DEF StoreInv, CallSound
  <2> QED
    BY <2>1, Zenon DEF Return
<1> QED
  BY <1>1, <1>3, <1>4, <1>5, NoCallTyped, CallerMoves, Zenon

LEMMA FailStep ==
  ASSUME StoreInv, NEW x \in Callers, Fail(x)
  PROVE  StoreInv'
<1>1. /\ pc[x] \in {"lock"} \cup Locked /\ Return(x, "failed")
      /\ blob' = blob /\ temporary' = temporary /\ faults' = faults + 1
  BY Zenon DEF Fail, Locked
<1>2. faults' \in Nat /\ faults' >= faults /\ faults' > 0 /\ "failed" \in Results
  BY <1>1 DEF StoreInv, StoreTyped, Results
<1> QED
  BY <1>1, <1>2, ReturnStep, Zenon

LEMMA CrashStep ==
  ASSUME StoreInv, NEW p \in Processes, Crash(p)
  PROVE  StoreInv'
<1> DEFINE Its == {x \in Callers : Home[x] = p}
<1>1. /\ pc' = [x \in Callers |-> IF x \in Its THEN "idle" ELSE pc[x]]
      /\ call' = [x \in Callers |-> IF x \in Its THEN NoCall ELSE call[x]]
      /\ lockFile' = IF lockFile \in Its THEN None ELSE lockFile
      /\ faults' = faults + 1 /\ blob' = blob /\ temporary' = temporary
  BY Zenon DEF Crash
<1>2. faults' \in Nat /\ faults' >= faults /\ faults' > 0
  BY <1>1 DEF StoreInv, StoreTyped
<1>3. StoreTyped'
  BY <1>1, <1>2, NoCallTyped, Zenon DEF StoreInv, StoreTyped, Labels
<1>4. SameFiles
  BY <1>1, Zenon DEF SameFiles
<1>5. ASSUME NEW y \in Callers
      PROVE  CallSound(y)'
  <2>1. CASE y \in Its
    <3>1. pc'[y] = "idle"
      BY <1>1, <2>1, Zenon
    <3> QED
      BY <3>1, Zenon DEF CallSound, Locked
  <2>2. CASE y \notin Its
    <3>1. pc'[y] = pc[y] /\ call'[y] = call[y]
      BY <1>1, <2>2, Zenon
    <3>2. CallSound(y)
      BY Zenon DEF StoreInv
    <3>3. pc[y] \in Locked => lockFile' = lockFile
      BY <1>1, <2>2, <3>2, Zenon DEF CallSound
    <3> QED
      BY <1>4, <3>1, <3>2, <3>3, CallKept, Zenon
  <2> QED
    BY <2>1, <2>2, Zenon
<1> QED
  BY <1>1, <1>2, <1>3, <1>5, FilesStay, Zenon

\* The file of one content changes, under the lock of the directory.
LEMMA HolderChanges ==
  ASSUME StoreInv, NEW x \in Callers, NEW l \in Labels, NEW r \in Calls,
         NEW c \in Contents, NEW b \in Blobs \ {"partial", "damaged"},
         NEW t \in Nat \cup {NoTemporary},
         pc[x] \in Locked, l # "failed",
         pc' = [pc EXCEPT ![x] = l], call' = [call EXCEPT ![x] = r],
         blob' = [blob EXCEPT ![c] = b], temporary' = [temporary EXCEPT ![c] = t],
         faults' = faults,
         CallSound(x)'
  PROVE  StoreInv'
<1>1. /\ pc'[x] = l /\ \A y \in Callers \ {x} : pc'[y] = pc[y] /\ call'[y] = call[y]
  BY Zenon DEF StoreInv, StoreTyped
<1>2. StoreTyped'
  BY Zenon DEF StoreInv, StoreTyped
<1>3. \A y \in Callers \ {x} : pc[y] \notin Locked
  BY OneInside, Zenon DEF StoreInv
<1>4. \A y \in Callers : CallSound(y)'
  BY <1>1, <1>3, CallKept, Zenon DEF StoreInv
<1>5. \A d \in Contents : blob'[d] = blob[d] \/ blob'[d] \in Blobs \ {"partial", "damaged"}
  BY Zenon DEF StoreInv, StoreTyped
<1>6. BlobsAreWhole'
  BY <1>5, Zenon DEF StoreInv, BlobsAreWhole
<1>7. faults' = 0 => /\ \A d \in Contents : blob'[d] # "damaged"
                     /\ \A y \in Callers : pc'[y] # "failed"
  BY <1>1, <1>5, Zenon DEF StoreInv
<1> QED
  BY <1>2, <1>4, <1>6, <1>7, Zenon DEF StoreInv

LEMMA InspectStep ==
  ASSUME StoreInv, NEW x \in Callers, Inspect(x)
  PROVE  StoreInv'
<1>1. /\ pc[x] = "inspect" /\ pc[x] \in Locked /\ CallSound(x) /\ call[x] \in Calls
      /\ call[x].content \in Contents
  BY CallTyped, Zenon DEF Inspect, Locked
<1>2. PICK c \in Contents : c = call[x].content
  BY <1>1, Zenon
<1>3. CASE Return(x, "ok") /\ UNCHANGED <<blob, temporary, faults>>
  <2>1. "ok" \in Results /\ faults' \in Nat /\ faults' >= faults
    BY <1>3 DEF Results, StoreInv, StoreTyped
  <2> QED
    BY <1>1, <1>3, <2>1, ReturnStep, Zenon
<1>4. CASE /\ blob' = [blob EXCEPT ![c] = "absent"] /\ Goto(x, "reserve")
           /\ UNCHANGED <<temporary, mutex, lockFile, call, faults>>
  <2>1. /\ pc' = [pc EXCEPT ![x] = "reserve"] /\ call' = [call EXCEPT ![x] = call[x]]
        /\ temporary' = [temporary EXCEPT ![c] = temporary[c]]
        /\ temporary[c] \in Nat \cup {NoTemporary} /\ faults' = faults
    BY <1>4, Zenon DEF Goto, StoreInv, StoreTyped
  <2>2. pc'[x] = "reserve" /\ call'[x] = call[x] /\ blob'[c] = "absent" /\ lockFile' = lockFile
    BY <1>4, <2>1, Zenon DEF StoreInv, StoreTyped
  <2>3. CallSound(x)'
    BY <1>1, <1>2, <2>2, Zenon DEF CallSound, Locked
  <2>4. "reserve" \in Labels /\ "reserve" # "failed" /\ "absent" \in Blobs \ {"partial", "damaged"}
    BY Zenon DEF Labels, Locked, Blobs
  <2> QED
    BY <1>1, <1>4, <2>1, <2>3, <2>4, HolderChanges, Zenon
<1> QED
  BY <1>2, <1>3, <1>4, Zenon DEF Inspect

LEMMA ReserveStep ==
  ASSUME StoreInv, NEW x \in Callers, Reserve(x)
  PROVE  StoreInv'
<1>1. /\ pc[x] = "reserve" /\ pc[x] \in Locked /\ CallSound(x) /\ call[x] \in Calls
      /\ call[x].content \in Contents
  BY CallTyped, Zenon DEF Reserve, Locked
<1>2. PICK c \in Contents : c = call[x].content
  BY <1>1, Zenon
<1>3. CASE Return(x, "no_space") /\ UNCHANGED <<blob, temporary, faults>>
  <2>1. "no_space" \in Results /\ faults' \in Nat /\ faults' >= faults
    BY <1>3 DEF Results, StoreInv, StoreTyped
  <2> QED
    BY <1>1, <1>3, <2>1, ReturnStep, Zenon
<1>4. CASE /\ UsedSpace + Size[c] <= Capacity /\ temporary' = [temporary EXCEPT ![c] = 0]
           /\ Goto(x, "write") /\ UNCHANGED <<blob, mutex, lockFile, call, faults>>
  <2>1. /\ pc' = [pc EXCEPT ![x] = "write"] /\ call' = [call EXCEPT ![x] = call[x]]
        /\ temporary' = [temporary EXCEPT ![c] = 0] /\ faults' = faults
    BY <1>4, Zenon DEF Goto, StoreInv, StoreTyped
  <2>2. blob[c] = "absent" /\ blob' = [blob EXCEPT ![c] = "absent"] /\ call[x].written = 0
    BY <1>1, <1>2, <1>4, Zenon DEF StoreInv, StoreTyped, CallSound
  <2>3. /\ pc'[x] = "write" /\ call'[x] = call[x] /\ blob'[c] = "absent" /\ lockFile' = lockFile
        /\ temporary'[c] = 0
    BY <1>4, <2>1, <2>2, Zenon DEF StoreInv, StoreTyped
  <2>4. /\ "write" \in Labels /\ "write" # "failed"
        /\ "absent" \in Blobs \ {"partial", "damaged"} /\ "absent" \in Blobs
        /\ 0 \in Nat \cup {NoTemporary}
    BY Zenon DEF Labels, Locked, Blobs
  <2>5. CallSound(x)'
    BY <1>1, <1>2, <2>2, <2>3, LocalContentStoreAssumption DEF CallSound, Locked
  <2> QED
    BY <1>1, <2>1, <2>2, <2>4, <2>5, HolderChanges, Zenon
<1> QED
  BY <1>2, <1>3, <1>4, Zenon DEF Reserve

LEMMA WriteTemporaryStep ==
  ASSUME StoreInv, NEW x \in Callers, WriteTemporary(x)
  PROVE  StoreInv'
<1>1. /\ pc[x] = "write" /\ pc[x] \in Locked /\ CallSound(x) /\ call[x] \in Calls
      /\ call[x].content \in Contents /\ call[x].written \in Nat
  BY CallTyped, Zenon DEF WriteTemporary, Locked
<1>2. PICK c \in Contents : c = call[x].content
  BY <1>1, Zenon
<1>3. Size[c] \in Nat
  BY LocalContentStoreAssumption, Zenon
<1>4. PICK n \in call[x].written + 1 .. Size[c] :
         temporary' = [temporary EXCEPT ![c] = n] /\ call' = [call EXCEPT ![x].written = n]
  BY <1>2, Zenon DEF WriteTemporary
<1>5. n \in Nat /\ n <= Size[c] /\ n # NoTemporary
  BY <1>1, <1>3, <1>4 DEF NoTemporary
<1> DEFINE r == [call[x] EXCEPT !.written = n]
<1>6. call' = [call EXCEPT ![x] = r] /\ r \in Calls
  BY <1>1, <1>4, <1>5, Zenon DEF StoreInv, StoreTyped, Calls
<1>7. r.content = c /\ r.written = n
  BY <1>1, <1>2, Zenon DEF Calls
<1>8. /\ blob[c] = "absent" /\ blob' = [blob EXCEPT ![c] = "absent"]
      /\ pc' = [pc EXCEPT ![x] = "write"] /\ lockFile' = lockFile /\ faults' = faults
  BY <1>1, <1>2 DEF WriteTemporary, StoreInv, StoreTyped, CallSound
<1>9. /\ pc'[x] = "write" /\ call'[x] = r /\ blob'[c] = "absent" /\ temporary'[c] = n
  BY <1>4, <1>6, <1>8, Zenon DEF StoreInv, StoreTyped
<1>10. "write" \in Labels /\ "absent" \in Blobs \ {"partial", "damaged"} /\ "absent" \in Blobs
  BY Zenon DEF Labels, Locked, Blobs
<1> HIDE DEF r
<1>11. CallSound(x)'
  <2>1. lockFile' = x
    BY <1>1, <1>8, Zenon DEF CallSound
  <2> QED
    BY <1>5, <1>7, <1>9, <2>1, Zenon DEF CallSound
<1> QED
  BY <1>1, <1>4, <1>5, <1>6, <1>8, <1>10, <1>11, HolderChanges, Zenon

LEMMA RenameStep ==
  ASSUME StoreInv, NEW x \in Callers, Rename(x)
  PROVE  StoreInv' /\ blob' = [blob EXCEPT ![call[x].content] = "whole"]
<1>1. /\ pc[x] = "write" /\ pc[x] \in Locked /\ CallSound(x) /\ call[x].content \in Contents
  BY CallTyped, Zenon DEF Rename, Locked
<1>2. PICK c \in Contents : c = call[x].content
  BY <1>1, Zenon
<1>3. temporary[c] = Size[c] /\ Size[c] \in Nat
  BY <1>1, <1>2, LocalContentStoreAssumption, Zenon DEF Rename, CallSound
<1>4. /\ blob' = [blob EXCEPT ![c] = "whole"] /\ temporary' = [temporary EXCEPT ![c] = NoTemporary]
      /\ pc' = [pc EXCEPT ![x] = "ok"] /\ call' = [call EXCEPT ![x] = NoCall] /\ faults' = faults
  BY <1>2, <1>3, Zenon DEF Rename, Publish, Return, Goto
<1>5. pc'[x] = "ok"
  BY <1>4, Zenon DEF StoreInv, StoreTyped
<1>6. CallSound(x)'
  BY <1>5, Zenon DEF CallSound, Locked
<1>7. /\ "ok" \in Labels /\ "whole" \in Blobs \ {"partial", "damaged"} /\ "whole" \in Blobs
      /\ NoTemporary \in Nat \cup {NoTemporary}
  BY Zenon DEF Labels, Results, Blobs
<1>8. StoreInv'
  BY <1>1, <1>4, <1>6, <1>7, NoCallTyped, HolderChanges, Zenon
<1> QED
  BY <1>2, <1>4, <1>8, Zenon

LEMMA UnlinkStep ==
  ASSUME StoreInv, NEW x \in Callers, Unlink(x)
  PROVE  StoreInv'
<1>1. /\ pc[x] = "unlink" /\ pc[x] \in Locked /\ CallSound(x) /\ call[x].content \in Contents
  BY CallTyped, Zenon DEF Unlink, Locked
<1>2. PICK c \in Contents : c = call[x].content
  BY <1>1, Zenon
<1>3. /\ blob' = [blob EXCEPT ![c] = "absent"] /\ temporary' = temporary
      /\ pc' = [pc EXCEPT ![x] = "ok"] /\ call' = [call EXCEPT ![x] = NoCall] /\ faults' = faults
  BY <1>2, Zenon DEF Unlink, Return, Goto
<1>4. /\ temporary' = [temporary EXCEPT ![c] = temporary[c]]
      /\ temporary[c] \in Nat \cup {NoTemporary} /\ pc'[x] = "ok"
  BY <1>3, Zenon DEF StoreInv, StoreTyped
<1>5. CallSound(x)'
  BY <1>4, Zenon DEF CallSound, Locked
<1>6. "ok" \in Labels /\ "ok" # "failed" /\ "absent" \in Blobs \ {"partial", "damaged"}
  BY Zenon DEF Labels, Results, Blobs
<1> QED
  BY <1>1, <1>3, <1>4, <1>5, <1>6, NoCallTyped, HolderChanges, Zenon

LEMMA DamageStep ==
  ASSUME StoreInv, NEW c \in Contents, Damage(c)
  PROVE  StoreInv'
<1>1. /\ blob[c] = "whole" /\ blob' = [blob EXCEPT ![c] = "damaged"] /\ faults' = faults + 1
      /\ UNCHANGED <<temporary, lockFile, pc, call>>
  BY Zenon DEF Damage
<1>2. faults' \in Nat /\ faults' # 0
  BY <1>1 DEF StoreInv, StoreTyped
<1>3. StoreTyped'
  BY <1>1, <1>2, Zenon DEF StoreInv, StoreTyped, Blobs
<1>4. SameFiles
  BY <1>1, Zenon DEF SameFiles, StoreInv, StoreTyped
<1>5. \A y \in Callers : CallSound(y)'
  BY <1>1, <1>4, CallKept, Zenon DEF StoreInv
<1>6. BlobsAreWhole'
  BY <1>1, Zenon DEF StoreInv, StoreTyped, BlobsAreWhole
<1> QED
  BY <1>2, <1>3, <1>5, <1>6, Zenon DEF StoreInv

-----------------------------------------------------------------------------
(* Payloads: what write_payload sends is what read_payload takes *)

\* The frames hold the payload, and one less does not.
LEMMA FramesFit ==
  ASSUME NEW n \in Nat
  PROVE  /\ Frames(n) \in Nat /\ n <= Frames(n) * Frame
         /\ (Frames(n) - 1) * Frame < n
<1> DEFINE a == n + Frame - 1
           q == a \div Frame
<1>1. Frame \in Nat /\ Frame > 0 /\ a \in Nat
  BY ContentTransferAssumption
<1>2. q \in Nat /\ Frame * q <= a /\ a < Frame * q + Frame
  <2> HIDE DEF a
  <2> QED
    BY <1>1
<1>3. Frames(n) = q
  BY Zenon DEF Frames
<1> HIDE DEF q
<1>4. (q - 1) * Frame = Frame * q - Frame /\ q * Frame = Frame * q
  BY <1>1, <1>2
<1>5. n <= q * Frame /\ (q - 1) * Frame < n
  BY <1>1, <1>2, <1>4
<1> QED
  BY <1>2, <1>3, <1>5, Zenon

\* What is left of a payload after its full frames.
LEMMA LastFrame ==
  ASSUME NEW n \in Nat, NEW k \in Nat, k * Frame <= n, n < (k + 1) * Frame
  PROVE  n % Frame = n - k * Frame
<1> DEFINE d == n \div Frame
<1>1. Frame \in Nat /\ Frame > 0
  BY ContentTransferAssumption
<1>2. d \in Nat /\ Frame * d <= n /\ n < Frame * d + Frame /\ n % Frame = n - Frame * d
  BY <1>1
<1> HIDE DEF d
<1>3. d = k
  <2>1. CASE d < k
    <3>1. Frame * (d + 1) <= Frame * k
      BY <1>1, <1>2, <2>1
    <3>2. Frame * (d + 1) = Frame * d + Frame /\ Frame * k = k * Frame
      BY <1>1, <1>2
    <3>3. Frame * d \in Nat /\ k * Frame \in Nat
      BY <1>1, <1>2
    <3> QED
      BY <1>1, <1>2, <3>1, <3>2, <3>3
  <2>2. CASE k < d
    <3>1. (k + 1) * Frame <= d * Frame
      BY <1>1, <1>2, <2>2
    <3>2. d * Frame = Frame * d /\ d * Frame \in Nat /\ (k + 1) * Frame \in Nat
      BY <1>1, <1>2
    <3> QED
      BY <1>2, <3>1, <3>2
  <2> QED
    BY <1>2, <2>1, <2>2
<1> QED
  BY <1>1, <1>2, <1>3

\* One frame more: it fits, and what arrived grows by it.
LEMMA FrameArrives ==
  ASSUME NEW n \in Nat, NEW j \in Nat, j < Frames(n)
  PROVE  /\ FrameSize(n, j + 1) \in 1 .. Frame
         /\ Got(n, j) \in Nat /\ Got(n, j) < n /\ Got(n, j + 1) <= n
         /\ Got(n, j) + FrameSize(n, j + 1) = Got(n, j + 1)
<1> DEFINE q == Frames(n)
           a == j * Frame
           b == (j + 1) * Frame
<1>1. Frame \in Nat /\ Frame > 0
  BY ContentTransferAssumption
<1>2. q \in Nat /\ n <= q * Frame /\ (q - 1) * Frame < n
  BY FramesFit, Zenon
<1> HIDE DEF q
<1>3. a \in Nat /\ b \in Nat /\ b = a + Frame
  BY <1>1
<1>4. a <= (q - 1) * Frame
  BY <1>1, <1>2 DEF q
<1>5. (q - 1) * Frame \in Int
  BY <1>1, <1>2
<1>6. a < n
  <2> HIDE DEF a
  <2> QED
    BY <1>2, <1>3, <1>4, <1>5
<1>7. Got(n, j) = a
  BY <1>3, <1>6 DEF Got
<1>8. CASE b <= n
  <2>1. FrameSize(n, j + 1) = Frame /\ Got(n, j + 1) = b
    BY <1>8, Zenon DEF FrameSize, Got
  <2> HIDE DEF a, b
  <2> QED
    BY <1>1, <1>3, <1>6, <1>7, <1>8, <2>1
<1>9. CASE n < b
  <2>1. FrameSize(n, j + 1) = n % Frame /\ Got(n, j + 1) = n
    BY <1>3, <1>9 DEF FrameSize, Got
  <2>2. n % Frame = n - a
    <3>1. a <= n
      BY <1>3, <1>6
    <3> QED
      BY <1>9, <3>1, LastFrame, Zenon
  <2> HIDE DEF a, b
  <2> QED
    BY <1>1, <1>3, <1>6, <1>7, <1>9, <2>1, <2>2
<1> QED
  BY <1>3, <1>8, <1>9

\* All frames make up the payload.
LEMMA AllArrived ==
  ASSUME NEW n \in Nat
  PROVE  Got(n, Frames(n)) = n /\ Got(n, 0) = 0
<1>1. Frames(n) \in Nat /\ n <= Frames(n) * Frame /\ Frames(n) * Frame \in Nat
  BY FramesFit, ContentTransferAssumption
<1>2. Got(n, Frames(n)) = n
  BY <1>1 DEF Got
<1> QED
  BY <1>2, ContentTransferAssumption DEF Got

LEMMA FramesTyped ==
  ASSUME NEW n \in Nat
  PROVE  Frames(n) \in Nat /\ Frames(n) \in 0 .. Frames(n)
<1>1. Frames(n) \in Nat
  BY FramesFit, Zenon
<1> QED
  BY <1>1

\* The messages of a payload.
LEMMA MessageTyped ==
  ASSUME NEW t \in Answers \cup {"ready", "available", "frame"}, NEW n \in Nat, NEW b \in Blobs
  PROVE  Message(t, n, b) \in Messages
BY Zenon DEF Message, Messages

LEMMA FrameSizeTyped ==
  ASSUME NEW n \in Nat, NEW i \in Int
  PROVE  FrameSize(n, i) \in Nat
BY ContentTransferAssumption DEF FrameSize

LEMMA PartTyped ==
  ASSUME NEW n \in Nat, NEW i \in Nat, NEW j \in Nat, i <= j
  PROVE  /\ Part(n, i, j) \in Seq(Messages) /\ Len(Part(n, i, j)) = j - i
         /\ \A x \in 1 .. j - i : Part(n, i, j)[x] = Message("frame", FrameSize(n, x + i), "whole")
<1>1. j - i \in Nat
  OBVIOUS
<1>2. \A x \in 1 .. j - i : Message("frame", FrameSize(n, x + i), "whole") \in Messages
  <2>1. \A x \in 1 .. j - i : x + i \in Int
    OBVIOUS
  <2>2. \A x \in 1 .. j - i : FrameSize(n, x + i) \in Nat
    BY <2>1, FrameSizeTyped, Zenon
  <2>3. "whole" \in Blobs
    BY Zenon DEF Blobs
  <2> QED
    BY <2>2, <2>3, MessageTyped, Zenon
<1>3. /\ Part(n, i, j) \in [1 .. j - i -> Messages]
      /\ \A x \in 1 .. j - i : Part(n, i, j)[x] = Message("frame", FrameSize(n, x + i), "whole")
  BY <1>2, Zenon DEF Part
<1> QED
  BY <1>1, <1>3, FunctionIsSeq, Zenon

LEMMA ChunksTyped ==
  ASSUME NEW n \in Nat
  PROVE  /\ Frames(n) \in Nat /\ Chunks(n, "whole") = Part(n, 0, Frames(n))
         /\ Chunks(n, "whole") \in Seq(Messages) /\ Len(Chunks(n, "whole")) = Frames(n)
         /\ \A i \in 1 .. Frames(n) :
              Chunks(n, "whole")[i] = Message("frame", FrameSize(n, i), "whole")
<1>1. Frames(n) \in Nat
  BY FramesFit, Zenon
<1>2. Part(n, 0, Frames(n)) = [i \in 1 .. Frames(n) |-> Message("frame", FrameSize(n, i), "whole")]
  BY <1>1 DEF Part
<1>3. Chunks(n, "whole") = [i \in 1 .. Frames(n) |-> Message("frame", FrameSize(n, i), "whole")]
  BY Zenon DEF Chunks, Frames, FrameSize
<1>4. Chunks(n, "whole") = Part(n, 0, Frames(n))
  BY <1>2, <1>3, Zenon
<1>5. /\ Part(n, 0, Frames(n)) \in Seq(Messages) /\ Len(Part(n, 0, Frames(n))) = Frames(n)
  BY <1>1, PartTyped
<1> QED
  BY <1>1, <1>3, <1>4, <1>5, Zenon

\* Nothing has arrived yet.
LEMMA CarriesStart ==
  ASSUME NEW n \in Nat, NEW j \in 0 .. Frames(n)
  PROVE  /\ Carries(n, 0, Part(n, 0, j), j) /\ Part(n, 0, j) \in Seq(Messages)
         /\ Part(n, 0, 0) = <<>> /\ Carries(n, 0, <<>>, 0) /\ j \in Nat
<1>1. Frames(n) \in Nat
  BY FramesFit, Zenon
<1>2. Got(n, 0) = 0
  BY AllArrived, Zenon
<1>3. j \in Nat /\ 0 \in 0 .. j /\ 0 \in 0 .. Frames(n) /\ 0 \in 0 .. 0 /\ 0 <= j
  BY <1>1
<1>4. Part(n, 0, j) \in Seq(Messages) /\ Part(n, 0, 0) \in Seq(Messages) /\ Len(Part(n, 0, 0)) = 0
  BY <1>3, PartTyped
<1>5. Part(n, 0, 0) = <<>>
  BY <1>4
<1> QED
  BY <1>2, <1>3, <1>4, <1>5, Zenon DEF Carries

\* The next frame of a payload fits (read_payload), and the rest is still on its
\* way.
LEMMA CarriesOn ==
  ASSUME NEW n \in Nat, NEW r, NEW q, NEW j, Carries(n, r, q, j), q # <<>>
  PROVE  /\ q \in Seq(Messages) /\ r \in Nat /\ r < n
         /\ FrameFits(Head(q), r, n) /\ Head(q).bytes = "whole" /\ Head(q).size \in Nat
         /\ Carries(n, r + Head(q).size, Tail(q), j)
<1>1. j \in 0 .. Frames(n) /\ Frames(n) \in Nat
  BY FramesFit, Zenon DEF Carries
<1>2. PICK i \in 0 .. j : r = Got(n, i) /\ q = Part(n, i, j)
  BY Zenon DEF Carries
<1>3. i \in Nat /\ j \in Nat /\ i <= j
  BY <1>1, <1>2
<1>4. /\ q \in Seq(Messages) /\ Len(q) = j - i
      /\ \A x \in 1 .. j - i : q[x] = Message("frame", FrameSize(n, x + i), "whole")
  BY <1>2, <1>3, PartTyped, Zenon
<1>5. i < j /\ i < Frames(n) /\ i + 1 \in 0 .. j /\ i + 1 \in Nat /\ i + 1 <= j
  BY <1>1, <1>3, <1>4
<1>6. Head(q) = Message("frame", FrameSize(n, i + 1), "whole")
  <2>1. Head(q) = q[1]
    BY <1>4
  <2>2. q[1] = Message("frame", FrameSize(n, 1 + i), "whole")
    BY <1>3, <1>4, <1>5
  <2>3. 1 + i = i + 1
    BY <1>3
  <2> QED
    BY <2>1, <2>2, <2>3, Zenon
<1>7. /\ FrameSize(n, i + 1) \in 1 .. Frame
      /\ Got(n, i) \in Nat /\ Got(n, i) < n /\ Got(n, i + 1) <= n
      /\ Got(n, i) + FrameSize(n, i + 1) = Got(n, i + 1)
  BY <1>3, <1>5, FrameArrives, Zenon
<1>8. Head(q).type = "frame" /\ Head(q).size = FrameSize(n, i + 1) /\ Head(q).bytes = "whole"
  BY <1>6 DEF Message
<1>9. Tail(q) = Part(n, i + 1, j)
  <2>1. /\ Part(n, i + 1, j) \in Seq(Messages) /\ Len(Part(n, i + 1, j)) = j - (i + 1)
        /\ \A x \in 1 .. j - (i + 1) :
             Part(n, i + 1, j)[x] = Message("frame", FrameSize(n, x + (i + 1)), "whole")
    BY <1>3, <1>5, PartTyped, Zenon
  <2>2. Tail(q) \in Seq(Messages) /\ Len(Tail(q)) = Len(q) - 1
    BY <1>4, HeadAndTail, Zenon
  <2>3. ASSUME NEW x \in 1 .. Len(Tail(q))
        PROVE  Tail(q)[x] = Part(n, i + 1, j)[x]
    <3>1. Tail(q)[x] = q[x + 1]
      BY <1>4, HeadAndTail, Zenon
    <3>2. x + 1 \in 1 .. j - i /\ x \in 1 .. j - (i + 1)
      BY <1>3, <1>4, <1>5, <2>2
    <3>3. q[x + 1] = Message("frame", FrameSize(n, (x + 1) + i), "whole")
      BY <1>4, <3>2, Zenon
    <3>4. Part(n, i + 1, j)[x] = Message("frame", FrameSize(n, x + (i + 1)), "whole")
      BY <2>1, <3>2, Zenon
    <3>5. (x + 1) + i = x + (i + 1)
      BY <1>3, <3>2
    <3> QED
      BY <3>1, <3>3, <3>4, <3>5, Zenon
  <2>4. Len(Tail(q)) = Len(Part(n, i + 1, j))
    BY <1>3, <1>4, <1>5, <2>1, <2>2
  <2> QED
    BY <2>1, <2>2, <2>3, <2>4, SeqEqual, Zenon
<1>10. Carries(n, r + Head(q).size, Tail(q), j)
  BY <1>1, <1>2, <1>5, <1>7, <1>8, <1>9, Zenon DEF Carries
<1>11. FrameFits(Head(q), r, n)
  BY <1>2, <1>7, <1>8, Zenon DEF FrameFits
<1>12. Head(q).size \in Nat
  BY <1>7, <1>8, ContentTransferAssumption
<1> QED
  BY <1>2, <1>4, <1>7, <1>8, <1>10, <1>11, <1>12, Zenon

\* When no frame is left, all of the payload arrived.
LEMMA FlowsEnd ==
  ASSUME NEW n \in Nat, NEW r, Flows(n, r, <<>>)
  PROVE  r = n
<1>1. Frames(n) \in Nat
  BY FramesFit, Zenon
<1>2. PICK i \in 0 .. Frames(n) : r = Got(n, i) /\ <<>> = Part(n, i, Frames(n))
  BY Zenon DEF Flows, Carries
<1>3. i \in Nat /\ i <= Frames(n)
  BY <1>1, <1>2
<1>4. Len(Part(n, i, Frames(n))) = Frames(n) - i
  BY <1>1, <1>3, PartTyped, Zenon
<1>5. i = Frames(n)
  BY <1>1, <1>2, <1>3, <1>4
<1> QED
  BY <1>2, <1>5, AllArrived, Zenon

\* The next frame is written.
LEMMA PartGrows ==
  ASSUME NEW n \in Nat, NEW i \in Nat, NEW j \in Nat, i <= j, j < Frames(n)
  PROVE  Part(n, i, j) \o <<Chunks(n, "whole")[j + 1]>> = Part(n, i, j + 1)
<1> DEFINE p == Part(n, i, j)
           m == Chunks(n, "whole")[j + 1]
           q == Part(n, i, j + 1)
<1>1. Frames(n) \in Nat /\ j + 1 \in 1 .. Frames(n) /\ j + 1 \in Nat /\ i <= j + 1
  BY FramesFit
<1>2. m = Message("frame", FrameSize(n, j + 1), "whole")
  BY <1>1, ChunksTyped, Zenon
<1>3. /\ p \in Seq(Messages) /\ Len(p) = j - i
      /\ \A x \in 1 .. j - i : p[x] = Message("frame", FrameSize(n, x + i), "whole")
  BY PartTyped, Zenon
<1>4. /\ q \in Seq(Messages) /\ Len(q) = (j + 1) - i
      /\ \A x \in 1 .. (j + 1) - i : q[x] = Message("frame", FrameSize(n, x + i), "whole")
  BY <1>1, PartTyped, Zenon
<1>5. m \in Messages
  <2>1. FrameSize(n, j + 1) \in Nat
    BY <1>1, FrameSizeTyped
  <2> QED
    BY <1>2, <2>1, MessageTyped, Zenon DEF Blobs
<1> HIDE DEF m, p, q
<1>6. <<m>> \in Seq(Messages) /\ Len(<<m>>) = 1 /\ <<m>>[1] = m
  BY <1>5
<1>7. /\ p \o <<m>> \in Seq(Messages) /\ Len(p \o <<m>>) = Len(p) + Len(<<m>>)
      /\ \A x \in 1 .. Len(p) + Len(<<m>>) :
           (p \o <<m>>)[x] = IF x <= Len(p) THEN p[x] ELSE <<m>>[x - Len(p)]
  BY <1>3, <1>6, Joined, Zenon
<1>8. ASSUME NEW x \in 1 .. Len(p \o <<m>>)
      PROVE  (p \o <<m>>)[x] = q[x]
  <2>1. x \in 1 .. (j + 1) - i /\ x \in 1 .. Len(p) + Len(<<m>>)
    BY <1>3, <1>6, <1>7
  <2>2. CASE x <= j - i
    <3>1. x \in 1 .. j - i /\ (p \o <<m>>)[x] = p[x]
      BY <1>3, <1>7, <2>1, <2>2
    <3> QED
      BY <1>3, <1>4, <2>1, <3>1, Zenon
  <2>3. CASE ~(x <= j - i)
    <3>1. x = (j + 1) - i /\ x - Len(p) = 1 /\ x + i = j + 1 /\ ~(x <= Len(p))
      BY <1>3, <2>1, <2>3
    <3>2. (p \o <<m>>)[x] = <<m>>[x - Len(p)]
      BY <1>7, <2>1, <3>1, Zenon
    <3>3. (p \o <<m>>)[x] = m
      BY <1>6, <3>1, <3>2
    <3>4. q[x] = Message("frame", FrameSize(n, x + i), "whole")
      BY <1>4, <2>1, Zenon
    <3> QED
      BY <1>2, <3>1, <3>3, <3>4, Zenon
  <2> QED
    BY <2>2, <2>3, Zenon
<1>9. Len(p \o <<m>>) = Len(q)
  BY <1>3, <1>4, <1>6, <1>7
<1>10. p \o <<m>> = q
  BY <1>4, <1>7, <1>8, <1>9, SeqEqual, Zenon
<1> QED
  BY <1>10, Zenon DEF m, p, q

LEMMA CarriesMore ==
  ASSUME NEW n \in Nat, NEW r, NEW q, NEW j, Carries(n, r, q, j), j < Frames(n)
  PROVE  Carries(n, r, q \o <<Chunks(n, "whole")[j + 1]>>, j + 1)
<1>1. j \in 0 .. Frames(n) /\ Frames(n) \in Nat
  BY FramesFit, Zenon DEF Carries
<1>2. PICK i \in 0 .. j : r = Got(n, i) /\ q = Part(n, i, j)
  BY Zenon DEF Carries
<1>3. i \in Nat /\ j \in Nat /\ i <= j /\ i \in 0 .. j + 1 /\ j + 1 \in 0 .. Frames(n)
  BY <1>1, <1>2
<1>4. q \o <<Chunks(n, "whole")[j + 1]>> = Part(n, i, j + 1)
  BY <1>2, <1>3, PartGrows, Zenon
<1> QED
  BY <1>2, <1>3, <1>4, Zenon DEF Carries

\* The end of what is on its way is lost.
LEMMA CutIs ==
  ASSUME NEW S, NEW q \in Seq(S), NEW p \in Cuts(q)
  PROVE  p \in Seq(S) /\ Len(p) <= Len(q) /\ \A x \in 1 .. Len(p) : x \in 1 .. Len(q) /\ p[x] = q[x]
<1>1. PICK l \in 0 .. Len(q) : p = SubSeq(q, 1, l)
  BY Zenon DEF Cuts
<1>2. Len(q) \in Nat /\ l \in Nat /\ l <= Len(q) /\ \A i \in 1 .. l : i \in 1 .. Len(q)
  OBVIOUS
<1>3. p \in Seq(S) /\ Len(p) = l /\ \A i \in 1 .. l : p[i] = q[i]
  BY <1>1, <1>2
<1> QED
  BY <1>2, <1>3

LEMMA CutHead ==
  ASSUME NEW S, NEW q \in Seq(S), NEW p \in Cuts(q), p # <<>>
  PROVE  q # <<>> /\ Head(q) = Head(p)
<1>1. p \in Seq(S) /\ Len(p) <= Len(q) /\ \A x \in 1 .. Len(p) : x \in 1 .. Len(q) /\ p[x] = q[x]
  BY CutIs, Zenon
<1> QED
  BY <1>1

LEMMA PartCut ==
  ASSUME NEW n \in Nat, NEW i \in Nat, NEW j \in Nat, i <= j,
         NEW S, NEW p \in Seq(S), Len(p) <= j - i,
         \A x \in 1 .. Len(p) : p[x] = Part(n, i, j)[x]
  PROVE  /\ p = Part(n, i, i + Len(p)) /\ i <= i + Len(p) /\ i + Len(p) <= j
         /\ i + Len(p) \in Nat
<1> DEFINE l == Len(p)
           q == Part(n, i, i + l)
<1>1. l \in Nat /\ i + l \in Nat /\ i <= i + l /\ i + l <= j /\ (i + l) - i = l
  OBVIOUS
<1>2. /\ q \in Seq(Messages) /\ Len(q) = (i + l) - i
      /\ \A x \in 1 .. (i + l) - i : q[x] = Message("frame", FrameSize(n, x + i), "whole")
  BY <1>1, PartTyped, Zenon
<1>3. \A x \in 1 .. j - i : Part(n, i, j)[x] = Message("frame", FrameSize(n, x + i), "whole")
  BY PartTyped, Zenon
<1> HIDE DEF q
<1>4. \A x \in 1 .. l : x \in 1 .. j - i /\ x \in 1 .. (i + l) - i
  BY <1>1
<1>5. \A x \in 1 .. l : p[x] = q[x]
  BY <1>2, <1>3, <1>4, Zenon
<1>6. p = q
  <2>1. p \in Seq(S \cup Messages) /\ q \in Seq(S \cup Messages) /\ Len(p) = Len(q)
    BY <1>1, <1>2
  <2> QED
    BY <1>5, <2>1, SeqEqual, Zenon
<1> QED
  BY <1>1, <1>6, Zenon DEF q

LEMMA StartCut ==
  ASSUME NEW n \in Nat, NEW j \in Nat, NEW S, NEW p \in Seq(S), Len(p) <= j,
         \A x \in 1 .. Len(p) : p[x] = Part(n, 0, j)[x]
  PROVE  p = Part(n, 0, Len(p)) /\ Len(p) <= j
<1>1. \E o \in Nat : o = 0
  OBVIOUS
<1>2. PICK o \in Nat : o = 0
  BY <1>1, Zenon
<1>3. o <= j /\ Len(p) <= j - o /\ o + Len(p) = Len(p)
  BY <1>2
<1>4. \A x \in 1 .. Len(p) : p[x] = Part(n, o, j)[x]
  BY <1>2, Zenon
<1>5. /\ p = Part(n, o, o + Len(p)) /\ o <= o + Len(p) /\ o + Len(p) <= j /\ o + Len(p) \in Nat
  BY <1>3, <1>4, PartCut, Zenon
<1> QED
  BY <1>2, <1>3, <1>5, Zenon

LEMMA CarriesCut ==
  ASSUME NEW n \in Nat, NEW r, NEW q, NEW j, Carries(n, r, q, j), NEW p \in Cuts(q)
  PROVE  \E l \in 0 .. Frames(n) : Carries(n, r, p, l)
<1>1. j \in 0 .. Frames(n) /\ Frames(n) \in Nat
  BY FramesFit, Zenon DEF Carries
<1>2. PICK i \in 0 .. j : r = Got(n, i) /\ q = Part(n, i, j)
  BY Zenon DEF Carries
<1>3. i \in Nat /\ j \in Nat /\ i <= j
  BY <1>1, <1>2
<1>4. q \in Seq(Messages) /\ Len(q) = j - i
  BY <1>2, <1>3, PartTyped, Zenon
<1>5. /\ p \in Seq(Messages) /\ Len(p) <= j - i
      /\ \A x \in 1 .. Len(p) : p[x] = Part(n, i, j)[x]
  BY <1>2, <1>4, CutIs, Zenon
<1>6. /\ p = Part(n, i, i + Len(p)) /\ i <= i + Len(p) /\ i + Len(p) <= j /\ i + Len(p) \in Nat
  BY <1>3, <1>5, PartCut, Zenon
<1>7. i + Len(p) \in 0 .. Frames(n) /\ i \in 0 .. i + Len(p)
  BY <1>1, <1>3, <1>6
<1> QED
  BY <1>2, <1>6, <1>7, Zenon DEF Carries

\* One message, and one before others.
LEMMA OneMessage ==
  ASSUME NEW a
  PROVE  /\ Head(<<a>>) = a /\ Tail(<<a>>) = <<>> /\ <<a>> # <<>>
OBVIOUS

LEMMA TwoMessages ==
  ASSUME NEW a, NEW b
  PROVE  Head(<<a, b>>) = a /\ Tail(<<a, b>>) = <<b>> /\ <<a, b>> # <<>>
OBVIOUS

LEMMA MessageAndRest ==
  ASSUME NEW S, NEW a \in S, NEW q \in Seq(S)
  PROVE  /\ Head(<<a>> \o q) = a /\ Tail(<<a>> \o q) = q /\ <<a>> \o q # <<>>
         /\ <<a>> \o q \in Seq(S) /\ Len(<<a>> \o q) = 1 + Len(q)
         /\ (<<a>> \o q)[1] = a /\ \A x \in 1 .. Len(q) : (<<a>> \o q)[x + 1] = q[x]
OBVIOUS

LEMMA JoinedTwice ==
  ASSUME NEW S, NEW p \in Seq(S), NEW q \in Seq(S), NEW r \in Seq(S)
  PROVE  (p \o q) \o r = p \o (q \o r)
OBVIOUS

\* An announcement, and what is behind it.
LEMMA AnnouncedIs ==
  ASSUME NEW n \in Nat, NEW j \in 0 .. Frames(n)
  PROVE  /\ Announced(n, j) \in Seq(Messages) /\ Announced(n, j) # <<>>
         /\ Tail(Announced(n, j)) = Part(n, 0, j) /\ Carries(n, 0, Part(n, 0, j), j)
         /\ Head(Announced(n, j)).type = "available" /\ Head(Announced(n, j)).size = n
<1> DEFINE m == Message("available", n, "absent")
<1>1. Part(n, 0, j) \in Seq(Messages) /\ Carries(n, 0, Part(n, 0, j), j)
  BY CarriesStart, Zenon
<1>2. m \in Messages /\ m.type = "available" /\ m.size = n
  BY MessageTyped, Zenon DEF Message, Blobs
<1> HIDE DEF m
<1>3. /\ Head(<<m>> \o Part(n, 0, j)) = m /\ Tail(<<m>> \o Part(n, 0, j)) = Part(n, 0, j)
      /\ <<m>> \o Part(n, 0, j) # <<>> /\ <<m>> \o Part(n, 0, j) \in Seq(Messages)
  BY <1>1, <1>2, MessageAndRest
<1>4. Announced(n, j) = <<m>> \o Part(n, 0, j)
  BY Zenon DEF Announced, m
<1> QED
  BY <1>1, <1>2, <1>3, <1>4, Zenon

LEMMA AnnouncedGrows ==
  ASSUME NEW n \in Nat, NEW j \in 0 .. Frames(n), j < Frames(n)
  PROVE  Announced(n, j) \o <<Chunks(n, "whole")[j + 1]>> = Announced(n, j + 1)
<1> DEFINE m == Message("available", n, "absent")
           f == Chunks(n, "whole")[j + 1]
<1>1. Frames(n) \in Nat /\ j \in Nat /\ 0 \in Nat /\ 0 <= j /\ j + 1 \in 1 .. Frames(n)
  BY FramesFit
<1>2. Part(n, 0, j) \in Seq(Messages) /\ Part(n, 0, j) \o <<f>> = Part(n, 0, j + 1)
  BY <1>1, CarriesStart, PartGrows, Zenon
<1>3. m \in Messages
  BY MessageTyped, Zenon DEF Blobs
<1>4. f \in Messages
  <2>1. Chunks(n, "whole") \in Seq(Messages) /\ Len(Chunks(n, "whole")) = Frames(n)
    BY ChunksTyped, Zenon
  <2> QED
    BY <1>1, <2>1, InSeq, Zenon
<1> HIDE DEF m, f
<1>5. <<m>> \in Seq(Messages) /\ <<f>> \in Seq(Messages)
  BY <1>3, <1>4
<1>6. (<<m>> \o Part(n, 0, j)) \o <<f>> = <<m>> \o (Part(n, 0, j) \o <<f>>)
  BY <1>2, <1>5, JoinedTwice
<1> QED
  BY <1>2, <1>6, Zenon DEF Announced, m, f

LEMMA AnnouncedCut ==
  ASSUME NEW n \in Nat, NEW j \in 0 .. Frames(n), NEW p \in Cuts(Announced(n, j)), p # <<>>
  PROVE  \E l \in 0 .. Frames(n) : p = Announced(n, l)
<1> DEFINE m == Message("available", n, "absent")
           f == Part(n, 0, j)
<1>1. Frames(n) \in Nat /\ j \in Nat /\ 0 \in Nat /\ 0 <= j /\ j <= Frames(n)
  BY FramesFit
<1>2. m \in Messages
  BY MessageTyped, Zenon DEF Blobs
<1>3. f \in Seq(Messages) /\ Len(f) = j - 0
  BY <1>1, PartTyped, Zenon
<1>4. Announced(n, j) = <<m>> \o f
  BY Zenon DEF Announced
<1> HIDE DEF m
<1>5. /\ <<m>> \o f \in Seq(Messages) /\ Len(<<m>> \o f) = 1 + Len(f)
      /\ (<<m>> \o f)[1] = m /\ \A x \in 1 .. Len(f) : (<<m>> \o f)[x + 1] = f[x]
  BY <1>2, <1>3, MessageAndRest
<1> HIDE DEF f
<1>6. /\ p \in Seq(Messages) /\ Len(p) <= 1 + Len(f)
      /\ \A x \in 1 .. Len(p) : p[x] = (<<m>> \o f)[x]
  BY <1>4, <1>5, CutIs, Zenon
<1>7. /\ Tail(p) \in Seq(Messages) /\ Len(Tail(p)) = Len(p) - 1
      /\ \A x \in 1 .. Len(Tail(p)) : Tail(p)[x] = p[x + 1]
  BY <1>6, HeadAndTail, Zenon
<1>8. p[1] = m /\ Len(Tail(p)) \in Nat /\ Len(Tail(p)) <= j
  BY <1>1, <1>3, <1>5, <1>6, <1>7
<1>9. \A x \in 1 .. Len(Tail(p)) : Tail(p)[x] = f[x]
  <2>1. \A x \in 1 .. Len(Tail(p)) : x + 1 \in 1 .. Len(p) /\ x \in 1 .. Len(f)
    BY <1>1, <1>3, <1>6, <1>7, <1>8
  <2> QED
    BY <1>5, <1>6, <1>7, <2>1, Zenon
<1>10. Tail(p) = Part(n, 0, Len(Tail(p))) /\ Len(Tail(p)) <= j
  <2>1. \A x \in 1 .. Len(Tail(p)) : Tail(p)[x] = Part(n, 0, j)[x]
    BY <1>9, Zenon DEF f
  <2>2. PICK t \in Seq(Messages) : t = Tail(p)
    BY <1>7, Zenon
  <2>3. Len(t) <= j /\ \A x \in 1 .. Len(t) : t[x] = Part(n, 0, j)[x]
    BY <1>8, <2>1, <2>2, Zenon
  <2>4. t = Part(n, 0, Len(t)) /\ Len(t) <= j
    BY <1>1, <2>3, StartCut, Zenon
  <2> QED
    BY <2>2, <2>4, Zenon
<1>11. Len(Tail(p)) \in 0 .. Frames(n)
  BY <1>1, <1>8, <1>10
<1>12. p = <<m>> \o Tail(p)
  <2>1. /\ <<m>> \o Tail(p) \in Seq(Messages) /\ Len(<<m>> \o Tail(p)) = 1 + Len(Tail(p))
        /\ (<<m>> \o Tail(p))[1] = m
        /\ \A x \in 1 .. Len(Tail(p)) : (<<m>> \o Tail(p))[x + 1] = Tail(p)[x]
    BY <1>2, <1>7, MessageAndRest
  <2>2. Len(p) \in Nat /\ Len(p) = Len(<<m>> \o Tail(p))
    BY <1>6, <1>7, <2>1
  <2>3. ASSUME NEW x \in 1 .. Len(p)
        PROVE  p[x] = (<<m>> \o Tail(p))[x]
    <3>1. CASE x = 1
      BY <1>8, <2>1, <3>1
    <3>2. CASE x # 1
      <4>1. PICK y \in 1 .. Len(Tail(p)) : x = y + 1
        <5>1. x - 1 \in 1 .. Len(Tail(p)) /\ x = (x - 1) + 1
          BY <1>7, <2>2, <3>2
        <5> QED
          BY <5>1, Zenon
      <4> QED
        BY <1>7, <2>1, <4>1, Zenon
    <3> QED
      BY <3>1, <3>2, Zenon
  <2> QED
    BY <1>6, <2>1, <2>2, <2>3, SeqEqual, Zenon
<1> QED
  BY <1>10, <1>11, <1>12, Zenon DEF Announced, m

-----------------------------------------------------------------------------
(* The transfers: what most steps leave alone *)

LEMMA ClientTyped ==
  ASSUME IInv, NEW k \in Clients
  PROVE  /\ client[k] \in ClientRecords /\ ClientGood(k) /\ k # None
         /\ client[k].inbox \in Seq(Messages)
<1>1. client[k] \in ClientRecords /\ ClientGood(k)
  BY Zenon DEF IInv, TransferTyped
<1>2. client[k].inbox \in Seq(Messages)
  BY <1>1, Zenon DEF ClientRecords
<1> QED
  BY <1>1, <1>2, ContentTransferAssumption, Zenon

\* A client the step does not concern.
SameClient(k) ==
  /\ client'[k].pc = client[k].pc /\ client'[k].op = client[k].op
  /\ client'[k].content = client[k].content /\ client'[k].inbox = client[k].inbox
  /\ client'[k].size = client[k].size /\ client'[k].received = client[k].received
  /\ client'[k].bytes = client[k].bytes /\ client'[k].result = client[k].result
  /\ client[k].excused => client'[k].excused

LEMMA ClientKept ==
  ASSUME NEW k \in Clients, ClientGood(k), SameClient(k),
         session'.client = k <=> session.client = k,
         session.client = k => session' = session,
         faults' = 0 => faults = 0,
         client[k].content \in Contents /\ Matches(blob[client[k].content]) =>
           Matches(blob'[client[k].content]) \/ client'[k].excused
  PROVE  ClientGood(k)'
<1>1. ClientSound(k)'
  BY Zenon DEF ClientGood, ClientSound, SameClient
<1>2. Held(k)'
  <2>1. ~Promised(<<>>)
    BY DEF Promised
  <2>2. client[k].result = "stored" \/ Promised(client[k].inbox) => client[k].content \in Contents
    BY <2>1, Zenon DEF ClientGood, ClientSound
  <2> QED
    BY <2>2, Zenon DEF ClientGood, Held, SameClient
<1>3. session'.client = k => InTouch(k)'
  BY Zenon DEF ClientGood, InTouch, SameClient
<1>4. Answered(k) => Answered(k)'
  BY Zenon DEF Answered, SameClient
<1>5. Coming(k)'
  BY Zenon DEF ClientGood, Coming, SameClient
<1> QED
  BY <1>1, <1>2, <1>3, <1>4, <1>5, Zenon DEF ClientGood, SameClient

LEMMA SessionKept ==
  ASSUME SessionSound, session'.pc = session.pc, session'.inbox = session.inbox,
         session'.size = session.size, session'.received = session.received
  PROVE  SessionSound'
BY Zenon DEF SessionSound

LEMMA SessionStays ==
  ASSUME IInv, session' = session \/ session' = [session EXCEPT !.client = None]
  PROVE  SessionSound'
<1>1. session \in SessionRecords /\ SessionSound
  BY Zenon DEF IInv, TransferTyped, ListenerSound
<1>2. /\ session'.pc = session.pc /\ session'.inbox = session.inbox
      /\ session'.size = session.size /\ session'.received = session.received
  BY <1>1, Zenon DEF SessionRecords
<1> QED
  BY <1>1, <1>2, SessionKept, Zenon

\* The listener while its store is left alone.
LEMMA ListenerKept ==
  ASSUME ListenerSound, SessionSound',
         pc'[Listener] = pc[Listener], call'[Listener] = call[Listener],
         session'.pc = "store" <=> session.pc = "store",
         session'.pc \in {"payload", "store"} => session'.content \in Contents,
         session.pc = "store" => /\ session'.content = session.content
                                 /\ session'.client \in {session.client, None},
         \A k \in Clients : /\ session.pc = "store" /\ session.client = k
                            /\ Matches(blob[session.content]) \/ client[k].excused
                            => Matches(blob'[session.content]) \/ client'[k].excused
  PROVE  ListenerSound'
<1>1. CASE session.pc = "store"
  <2>1. /\ session'.pc = "store" /\ session'.content = session.content
        /\ session'.content \in Contents
    BY <1>1, Zenon DEF ListenerSound
  <2>2. ASSUME pc'[Listener] = "ok", NEW k \in Clients, session'.client = k
        PROVE  Matches(blob'[session'.content]) \/ client'[k].excused
    <3>1. session.client = k
      BY <1>1, <2>2, ContentTransferAssumption, Zenon
    <3>2. Matches(blob[session.content]) \/ client[k].excused
      BY <2>2, <3>1, Zenon DEF ListenerSound
    <3> QED
      BY <1>1, <2>1, <3>1, <3>2, Zenon
  <2> QED
    BY <2>1, <2>2, Zenon DEF ListenerSound
<1>2. CASE session.pc # "store"
  <2>1. session'.pc # "store" /\ pc'[Listener] = "idle"
    BY <1>2, Zenon DEF ListenerSound
  <2> QED
    BY <2>1, Zenon DEF ListenerSound, Locked
<1> QED
  BY <1>1, <1>2, Zenon

-----------------------------------------------------------------------------
(* Steps of the store *)

\* A step of the store that neither end of a connection notices.
LEMMA StoreMoves ==
  ASSUME IInv, StoreInv', UNCHANGED <<client, session>>, faults' = 0 => faults = 0,
         ListenerSound', \A c \in Contents : Matches(blob[c]) => Matches(blob'[c])
  PROVE  IInv'
<1>1. TransferTyped'
  BY Zenon DEF IInv, TransferTyped
<1>2. ASSUME NEW k \in Clients
      PROVE  ClientGood(k)'
  <2>1. ClientGood(k) /\ SameClient(k)
    BY Zenon DEF IInv, SameClient
  <2> QED
    BY <2>1, ClientKept, Zenon
<1> QED
  BY <1>1, <1>2, Zenon DEF IInv

Busy == {"mutex", "lock"} \cup Locked

\* A caller moves on: when it is the listener, on with its put.
LEMMA CallerMovesOn ==
  ASSUME IInv, UNCHANGED <<client, session>>, NEW x \in Callers, NEW l,
         pc' = [pc EXCEPT ![x] = l], \A y \in Callers \ {x} : call'[y] = call[y],
         \A c \in Contents : Matches(blob[c]) => Matches(blob'[c]),
         x = Listener => /\ pc[x] \in Busy /\ l \notin {"idle", "unlink"}
                         /\ l \in Busy => /\ call'[x].op = call[x].op
                                          /\ call'[x].content = call[x].content
                         /\ l = "ok" => Matches(blob'[call[x].content])
  PROVE  ListenerSound'
<1>1. Listener \in Callers /\ pc \in [Callers -> Labels] /\ ListenerSound
  BY ContentTransferAssumption, Zenon DEF IInv, StoreInv, StoreTyped
<1>4. SessionSound'
  BY <1>1, SessionKept, Zenon DEF ListenerSound
<1>2. CASE x # Listener
  <2>1. pc'[Listener] = pc[Listener] /\ call'[Listener] = call[Listener]
    BY <1>1, <1>2, Zenon
  <2>2. session.pc = "store" => session.content \in Contents
    BY <1>1, Zenon DEF ListenerSound
  <2> QED
    BY <1>1, <1>4, <2>1, <2>2, ListenerKept, Zenon DEF ListenerSound
<1>3. CASE x = Listener
  <2>1. pc'[Listener] = l /\ pc[Listener] \in Busy
    BY <1>1, <1>3, Zenon
  <2>2. /\ session.pc = "store" /\ session.content \in Contents
        /\ call[Listener].op = "put" /\ call[Listener].content = session.content
    BY <1>1, <2>1, Zenon DEF ListenerSound, Busy, Locked
  <2> QED
    BY <1>1, <1>3, <1>4, <2>1, <2>2, Zenon DEF ListenerSound, Busy
<1> QED
  BY <1>2, <1>3, Zenon

LEMMA LockMutexKeeps ==
  ASSUME IInv, NEW x \in Callers, LockMutex(x), UNCHANGED <<client, session>>
  PROVE  IInv'
<1>1. /\ pc' = [pc EXCEPT ![x] = "lock"] /\ UNCHANGED <<call, blob, faults>> /\ pc[x] = "mutex"
  BY Zenon DEF LockMutex, Goto
<1>2. pc[x] \in Busy /\ "lock" \notin {"idle", "unlink"} /\ "lock" # "ok"
  BY <1>1, Zenon DEF Busy
<1>3. ListenerSound'
  BY <1>1, <1>2, CallerMovesOn, Zenon
<1> QED
  BY <1>1, <1>3, LockMutexStep, StoreMoves, Zenon DEF IInv

LEMMA LockFileKeeps ==
  ASSUME IInv, NEW x \in Callers, LockFile(x), UNCHANGED <<client, session>>
  PROVE  IInv'
<1> DEFINE l == IF call[x].op = "put" THEN "inspect" ELSE "unlink"
<1>1. /\ pc' = [pc EXCEPT ![x] = l] /\ UNCHANGED <<call, blob, faults>> /\ pc[x] = "lock"
  BY Zenon DEF LockFile, Goto
<1>2. pc[x] \in Busy /\ l # "ok"
  BY <1>1, Zenon DEF Busy
<1>3. x = Listener => l \notin {"idle", "unlink"}
  BY <1>1, Zenon DEF IInv, ListenerSound
<1> HIDE DEF l
<1>4. ListenerSound'
  BY <1>1, <1>2, <1>3, CallerMovesOn, Zenon
<1> QED
  BY <1>1, <1>4, LockFileStep, StoreMoves, Zenon DEF IInv

LEMMA InspectKeeps ==
  ASSUME IInv, NEW x \in Callers, Inspect(x), UNCHANGED <<client, session>>
  PROVE  IInv'
<1>1. pc[x] = "inspect" /\ pc[x] \in Busy /\ call[x].content \in Contents /\ StoreInv
  BY CallTyped, Zenon DEF Inspect, Locked, IInv, Busy
<1>2. CASE /\ Matches(blob[call[x].content]) /\ Return(x, "ok")
           /\ UNCHANGED <<blob, temporary, faults>>
  <2>1. pc' = [pc EXCEPT ![x] = "ok"] /\ call' = [call EXCEPT ![x] = NoCall]
    BY <1>2, Zenon DEF Return, Goto
  <2>2. "ok" \notin {"idle", "unlink"} /\ "ok" \notin Busy
    BY Zenon DEF Busy, Locked
  <2>3. \A y \in Callers \ {x} : call'[y] = call[y]
    BY <1>1, <2>1, Zenon DEF StoreInv, StoreTyped
  <2>4. ListenerSound'
    BY <1>1, <1>2, <2>1, <2>2, <2>3, CallerMovesOn, Zenon
  <2> QED
    BY <1>1, <1>2, <2>4, InspectStep, StoreMoves, Zenon
<1>3. CASE /\ ~Matches(blob[call[x].content])
           /\ blob' = [blob EXCEPT ![call[x].content] = "absent"]
           /\ Goto(x, "reserve") /\ UNCHANGED <<temporary, mutex, lockFile, call, faults>>
  <2>1. pc' = [pc EXCEPT ![x] = "reserve"]
    BY <1>3, Zenon DEF Goto
  <2>2. "reserve" \notin {"idle", "unlink"} /\ "reserve" # "ok"
    BY Zenon
  <2>3. \A c \in Contents : Matches(blob[c]) => Matches(blob'[c])
    BY <1>1, <1>3, Zenon DEF StoreInv, StoreTyped, Matches
  <2>4. ListenerSound'
    BY <1>1, <1>3, <2>1, <2>2, <2>3, CallerMovesOn, Zenon
  <2> QED
    BY <1>1, <1>3, <2>3, <2>4, InspectStep, StoreMoves, Zenon
<1> QED
  BY <1>2, <1>3, Zenon DEF Inspect

LEMMA ReserveKeeps ==
  ASSUME IInv, NEW x \in Callers, Reserve(x), UNCHANGED <<client, session>>
  PROVE  IInv'
<1>1. pc[x] = "reserve" /\ pc[x] \in Busy /\ StoreInv
  BY Zenon DEF Reserve, Locked, IInv, Busy
<1>2. CASE Return(x, "no_space") /\ UNCHANGED <<blob, temporary, faults>>
  <2>1. pc' = [pc EXCEPT ![x] = "no_space"] /\ call' = [call EXCEPT ![x] = NoCall]
    BY <1>2, Zenon DEF Return, Goto
  <2>2. "no_space" \notin {"idle", "unlink"} /\ "no_space" \notin Busy /\ "no_space" # "ok"
    BY Zenon DEF Busy, Locked
  <2>3. \A y \in Callers \ {x} : call'[y] = call[y]
    BY <1>1, <2>1, Zenon DEF StoreInv, StoreTyped
  <2>4. ListenerSound'
    BY <1>1, <1>2, <2>1, <2>2, <2>3, CallerMovesOn, Zenon
  <2> QED
    BY <1>1, <1>2, <2>4, ReserveStep, StoreMoves, Zenon
<1>3. CASE Goto(x, "write") /\ UNCHANGED <<blob, mutex, lockFile, call, faults>>
  <2>1. pc' = [pc EXCEPT ![x] = "write"]
    BY <1>3, Zenon DEF Goto
  <2>2. "write" \notin {"idle", "unlink"} /\ "write" # "ok"
    BY Zenon
  <2>3. ListenerSound'
    BY <1>1, <1>3, <2>1, <2>2, CallerMovesOn, Zenon
  <2> QED
    BY <1>1, <1>3, <2>3, ReserveStep, StoreMoves, Zenon
<1> QED
  BY <1>2, <1>3, Zenon DEF Reserve

LEMMA WriteTemporaryKeeps ==
  ASSUME IInv, NEW x \in Callers, WriteTemporary(x), UNCHANGED <<client, session>>
  PROVE  IInv'
<1>1. /\ pc[x] = "write" /\ pc[x] \in Busy /\ StoreInv /\ UNCHANGED <<blob, pc, faults>>
      /\ call[x] \in Calls /\ call \in [Callers -> Calls]
  BY Zenon DEF WriteTemporary, Locked, IInv, Busy, StoreInv, StoreTyped
<1>2. PICK n : call' = [call EXCEPT ![x].written = n]
  BY Zenon DEF WriteTemporary
<1>3. call' = [call EXCEPT ![x] = [call[x] EXCEPT !.written = n]]
  BY <1>2, Zenon
<1>4. /\ \A y \in Callers \ {x} : call'[y] = call[y]
      /\ call'[x].op = call[x].op /\ call'[x].content = call[x].content
  BY <1>1, <1>3, Zenon DEF Calls
<1>5. /\ pc' = [pc EXCEPT ![x] = "write"]
      /\ "write" \notin {"idle", "unlink"} /\ "write" # "ok"
  BY <1>1, Zenon DEF StoreInv, StoreTyped
<1>6. ListenerSound'
  BY <1>1, <1>4, <1>5, CallerMovesOn, Zenon
<1> QED
  BY <1>1, <1>6, WriteTemporaryStep, StoreMoves, Zenon

LEMMA RenameKeeps ==
  ASSUME IInv, NEW x \in Callers, Rename(x), UNCHANGED <<client, session>>
  PROVE  IInv'
<1>1. /\ pc[x] = "write" /\ pc[x] \in Busy /\ StoreInv /\ call[x].content \in Contents
      /\ faults' = faults
  BY CallTyped, Zenon DEF Rename, Publish, Locked, IInv, Busy
<1>2. StoreInv' /\ blob' = [blob EXCEPT ![call[x].content] = "whole"]
  BY <1>1, RenameStep, Zenon
<1>3. pc' = [pc EXCEPT ![x] = "ok"] /\ call' = [call EXCEPT ![x] = NoCall]
  BY Zenon DEF Rename, Publish, Return, Goto
<1>4. /\ \A c \in Contents : Matches(blob[c]) => Matches(blob'[c])
      /\ Matches(blob'[call[x].content])
  BY <1>1, <1>2, Zenon DEF StoreInv, StoreTyped, Matches
<1>5. "ok" \notin {"idle", "unlink"} /\ "ok" \notin Busy
  BY Zenon DEF Busy, Locked
<1>6. \A y \in Callers \ {x} : call'[y] = call[y]
  BY <1>1, <1>3, Zenon DEF StoreInv, StoreTyped
<1>7. ListenerSound'
  BY <1>1, <1>3, <1>4, <1>5, <1>6, CallerMovesOn, Zenon
<1> QED
  BY <1>1, <1>2, <1>4, <1>7, StoreMoves, Zenon

LEMMA FailKeeps ==
  ASSUME IInv, NEW x \in Callers, StoreFails(x)
  PROVE  IInv'
<1>1. /\ Fail(x) /\ UNCHANGED <<client, session>> /\ pc[x] \in Busy /\ StoreInv /\ blob' = blob
      /\ pc' = [pc EXCEPT ![x] = "failed"] /\ call' = [call EXCEPT ![x] = NoCall]
      /\ faults' = faults + 1
  BY Zenon DEF StoreFails, Fail, Return, Goto, Busy, Locked, IInv
<1>2. faults' # 0
  BY <1>1 DEF StoreInv, StoreTyped
<1>3. "failed" \notin {"idle", "unlink"} /\ "failed" \notin Busy /\ "failed" # "ok"
  BY Zenon DEF Busy, Locked
<1>4. \A y \in Callers \ {x} : call'[y] = call[y]
  BY <1>1, Zenon DEF StoreInv, StoreTyped
<1>5. ListenerSound'
  BY <1>1, <1>3, <1>4, CallerMovesOn, Zenon
<1> QED
  BY <1>1, <1>2, <1>5, FailStep, StoreMoves, Zenon

LEMMA LocalTakes ==
  ASSUME IInv, NEW x \in Local, Take(x), UNCHANGED <<client, session>>
  PROVE  IInv'
<1>1. x \in Callers /\ x # Listener /\ StoreInv
  BY Zenon DEF Local, IInv
<1>2. pc' = [pc EXCEPT ![x] = "idle"] /\ UNCHANGED <<call, blob, faults>>
  BY Zenon DEF Take, Goto
<1>3. ListenerSound'
  BY <1>1, <1>2, CallerMovesOn, Zenon
<1> QED
  BY <1>1, <1>2, <1>3, TakeStep, StoreMoves, Zenon

LEMMA LocalCalls ==
  ASSUME IInv, NEW x \in Local, NEW op \in {"put", "delete"}, NEW c \in LocalContents,
         CallStore(x, op, c)
  PROVE  IInv'
<1>1. x \in Callers /\ x # Listener /\ StoreInv /\ c \in Contents
  BY ContentTransferAssumption, Zenon DEF Local, IInv
<1>2. /\ Begin(x, op, c) /\ UNCHANGED <<client, session>> /\ pc' = [pc EXCEPT ![x] = "mutex"]
      /\ UNCHANGED <<blob, faults>>
      /\ call' = [call EXCEPT ![x] = [op |-> op, content |-> c, written |-> 0]]
  BY Zenon DEF CallStore, Begin, Goto
<1>3. \A y \in Callers \ {x} : call'[y] = call[y]
  BY <1>1, <1>2, Zenon DEF StoreInv, StoreTyped
<1>4. ListenerSound'
  BY <1>1, <1>2, <1>3, CallerMovesOn, Zenon
<1> QED
  BY <1>1, <1>2, <1>4, BeginStep, StoreMoves, Zenon

\* A file of content c is gone: its clients are excused.
LEMMA ExcuseKeeps ==
  ASSUME IInv, NEW c \in Contents, Excuse(c)
  PROVE  /\ client' \in [Clients -> ClientRecords]
         /\ \A k \in Clients : /\ SameClient(k)
                               /\ client[k].content = c => client'[k].excused
<1>1. client \in [Clients -> ClientRecords]
  BY Zenon DEF IInv, TransferTyped
<1>2. client' = [k \in Clients |-> IF client[k].content = c
                                   THEN [client[k] EXCEPT !.excused = TRUE] ELSE client[k]]
  BY Zenon DEF Excuse
<1>3. ASSUME NEW k \in Clients
      PROVE  /\ client'[k] \in ClientRecords /\ SameClient(k)
             /\ client[k].content = c => client'[k].excused
  <2>1. client[k] \in ClientRecords
    BY <1>1, Zenon
  <2>2. CASE client[k].content = c
    <3>1. client'[k] = [client[k] EXCEPT !.excused = TRUE]
      BY <1>2, <2>2, Zenon
    <3> QED
      BY <2>1, <3>1, Zenon DEF ClientRecords, SameClient
  <2>3. CASE client[k].content # c
    <3>1. client'[k] = client[k]
      BY <1>2, <2>3, Zenon
    <3> QED
      BY <2>1, <2>3, <3>1, Zenon DEF SameClient
  <2> QED
    BY <2>2, <2>3, Zenon
<1> QED
  BY <1>2, <1>3, Zenon

\* A step of the store after which a file of content c is gone.
LEMMA FileGone ==
  ASSUME IInv, StoreInv', NEW c \in Contents, Excuse(c), session' = session,
         faults' = 0 => faults = 0, \A d \in Contents \ {c} : blob'[d] = blob[d],
         pc'[Listener] = pc[Listener], call'[Listener] = call[Listener]
  PROVE  IInv'
<1>1. /\ client' \in [Clients -> ClientRecords]
      /\ \A k \in Clients : SameClient(k) /\ (client[k].content = c => client'[k].excused)
  BY ExcuseKeeps, Zenon
<1>2. TransferTyped'
  BY <1>1, Zenon DEF IInv, TransferTyped
<1>3. ASSUME NEW k \in Clients
      PROVE  ClientGood(k)'
  BY <1>1, ClientKept, Zenon DEF IInv
<1>4. ListenerSound /\ (session.pc = "store" => session.content \in Contents)
  BY Zenon DEF IInv, ListenerSound
<1>5. ASSUME NEW k \in Clients, session.pc = "store", session.client = k,
             Matches(blob[session.content]) \/ client[k].excused
      PROVE  Matches(blob'[session.content]) \/ client'[k].excused
  <2>1. client[k].content = session.content
    BY <1>5, Zenon DEF IInv, ClientGood, InTouch
  <2>2. /\ client[k].excused => client'[k].excused
        /\ client[k].content = c => client'[k].excused
    BY <1>1, Zenon DEF SameClient
  <2>3. client[k].content # c => blob'[session.content] = blob[session.content]
    BY <1>4, <1>5, <2>1, Zenon
  <2> QED
    BY <1>5, <2>2, <2>3, Zenon
<1>6. ListenerSound'
  <2>1. SessionSound'
    BY <1>4, SessionKept, Zenon DEF ListenerSound
  <2> QED
    BY <1>4, <1>5, <2>1, ListenerKept, Zenon DEF ListenerSound
<1> QED
  BY <1>2, <1>3, <1>6, Zenon DEF IInv

LEMMA UnlinkKeeps ==
  ASSUME IInv, NEW x \in Callers, Unlink(x), Excuse(call[x].content), UNCHANGED session
  PROVE  IInv'
<1>1. /\ pc[x] = "unlink" /\ StoreInv /\ call[x].content \in Contents
  BY CallTyped, Zenon DEF Unlink, Locked, IInv
<1>2. x # Listener
  BY <1>1, Zenon DEF IInv, ListenerSound
<1>3. PICK c \in Contents : c = call[x].content
  BY <1>1, Zenon
<1>4. /\ blob' = [blob EXCEPT ![c] = "absent"] /\ faults' = faults
      /\ pc' = [pc EXCEPT ![x] = "ok"] /\ call' = [call EXCEPT ![x] = NoCall]
  BY <1>3, Zenon DEF Unlink, Return, Goto
<1>5. /\ \A d \in Contents \ {c} : blob'[d] = blob[d]
      /\ pc'[Listener] = pc[Listener] /\ call'[Listener] = call[Listener]
  BY <1>1, <1>2, <1>4, ContentTransferAssumption, Zenon DEF StoreInv, StoreTyped
<1>6. StoreInv'
  BY <1>1, UnlinkStep, Zenon
<1> QED
  BY <1>3, <1>4, <1>5, <1>6, FileGone, Zenon

LEMMA FileSpoilsKeeps ==
  ASSUME IInv, NEW c \in Contents, FileSpoils(c)
  PROVE  IInv'
<1>1. /\ Damage(c) /\ Excuse(c) /\ session' = session /\ StoreInv
      /\ blob' = [blob EXCEPT ![c] = "damaged"] /\ faults' = faults + 1 /\ pc' = pc /\ call' = call
  BY Zenon DEF FileSpoils, Damage, IInv
<1>2. faults' # 0 /\ \A d \in Contents \ {c} : blob'[d] = blob[d]
  BY <1>1 DEF StoreInv, StoreTyped
<1>3. StoreInv'
  BY <1>1, DamageStep, Zenon
<1> QED
  BY <1>1, <1>2, <1>3, FileGone, Zenon

-----------------------------------------------------------------------------
(* Steps of one client *)

\* One client changes.
LEMMA OneClient ==
  ASSUME client \in [Clients -> ClientRecords], NEW k \in Clients, NEW r \in ClientRecords,
         client' = [client EXCEPT ![k] = r]
  PROVE  /\ client' \in [Clients -> ClientRecords] /\ client'[k] = r
         /\ \A j \in Clients \ {k} : client'[j] = client[j] /\ SameClient(j)
<1>1. /\ client' \in [Clients -> ClientRecords] /\ client'[k] = r
      /\ \A j \in Clients \ {k} : client'[j] = client[j]
  BY Zenon
<1> QED
  BY <1>1, Zenon DEF SameClient

\* The store is idle meanwhile.
LEMMA StoreIdle ==
  ASSUME StoreInv, UNCHANGED store, faults' \in {faults, faults + 1}
  PROVE  StoreInv' /\ (faults' = 0 => faults = 0)
<1>1. UNCHANGED <<blob, temporary, mutex, lockFile, pc, call>>
  BY Zenon DEF store
<1>2. faults \in Nat /\ faults' \in Nat /\ faults' >= faults /\ (faults' = 0 => faults = 0)
  BY DEF StoreInv, StoreTyped
<1>3. StoreTyped'
  BY <1>1, <1>2, Zenon DEF StoreInv, StoreTyped
<1>4. SameFiles
  BY <1>1, Zenon DEF SameFiles
<1>5. \A y \in Callers : CallSound(y)'
  BY <1>1, <1>4, CallKept, Zenon DEF StoreInv
<1> QED
  BY <1>1, <1>2, <1>3, <1>5, FilesStay, Zenon

\* One client moves, and the session of another stays.
LEMMA OthersStay ==
  ASSUME IInv, StoreInv', blob' = blob, faults' = 0 => faults = 0,
         NEW k \in Clients, NEW r \in ClientRecords, client' = [client EXCEPT ![k] = r],
         session' \in SessionRecords, ListenerSound', ClientGood(k)',
         session' = session \/ \A j \in Clients \ {k} : session.client # j /\ session'.client # j
  PROVE  IInv'
<1>1. client \in [Clients -> ClientRecords]
  BY Zenon DEF IInv, TransferTyped
<1>2. /\ client' \in [Clients -> ClientRecords] /\ client'[k] = r
      /\ \A j \in Clients \ {k} : client'[j] = client[j] /\ SameClient(j)
  BY <1>1, OneClient, Zenon
<1>3. TransferTyped'
  BY <1>2, Zenon DEF TransferTyped
<1>4. ASSUME NEW j \in Clients, j # k
      PROVE  ClientGood(j)'
  <2>1. session'.client = j <=> session.client = j
    BY <1>4, Zenon
  <2>2. session.client = j => session' = session
    BY <1>4, Zenon
  <2> QED
    BY <1>2, <1>4, <2>1, <2>2, ClientKept, Zenon DEF IInv
<1> QED
  BY <1>3, <1>4, Zenon DEF IInv

\* A client moves: the session is another's and stays, or is its own, which it
\* sends to or ends.
LEMMA ClientMoves ==
  ASSUME IInv, NEW k \in Clients, NEW r \in ClientRecords, client' = [client EXCEPT ![k] = r],
         UNCHANGED store, faults' \in {faults, faults + 1},
         session' \in SessionRecords, SessionSound',
         session' = session \/ (session.client = k /\ session'.client \in {k, None}),
         session'.pc = session.pc, session'.content = session.content,
         session.client = k /\ client[k].excused => r.excused,
         ClientGood(k)'
  PROVE  IInv'
<1>1. client \in [Clients -> ClientRecords] /\ StoreInv
  BY Zenon DEF IInv, TransferTyped
<1>2. /\ client'[k] = r /\ \A j \in Clients \ {k} : client'[j] = client[j]
  BY <1>1, OneClient, Zenon
<1>3. UNCHANGED <<blob, temporary, mutex, lockFile, pc, call>>
  BY Zenon DEF store
<1>4. StoreInv' /\ (faults' = 0 => faults = 0)
  BY <1>1, StoreIdle, Zenon
<1>5. ListenerSound'
  <2>1. ListenerSound /\ (session.pc \in {"payload", "store"} => session.content \in Contents)
    BY Zenon DEF IInv, ListenerSound
  <2>2. session'.client \in {session.client, None}
    BY Zenon
  <2>3. \A j \in Clients : session.client = j /\ client[j].excused => client'[j].excused
    BY <1>2, Zenon
  <2> QED
    BY <1>3, <2>1, <2>2, <2>3, ListenerKept, Zenon
<1>6. session' = session \/ \A j \in Clients \ {k} : session.client # j /\ session'.client # j
  BY ContentTransferAssumption
<1> QED
  BY <1>3, <1>4, <1>5, <1>6, OthersStay, Zenon

\* Where a client is served.
LEMMA Served ==
  ASSUME IInv, NEW k \in Clients, session.client = k
  PROVE  /\ InTouch(k) /\ client[k].pc \in {"answer", "stored", "payload"}
         /\ session.pc # "accept"
         /\ session.pc # "send" => /\ client[k].pc \in {"answer", "stored"}
                                  /\ client[k].inbox \in {<<>>, <<Answer("ready")>>}
<1>1. InTouch(k)
  BY Zenon DEF IInv, ClientGood
<1> QED
  BY <1>1, Zenon DEF InTouch

\* A client that is sent a payload.
LEMMA IsSent ==
  ASSUME IInv, NEW k \in Clients, session.client = k, session.pc = "send"
  PROVE  LET n == Size[client[k].content]
             j == session.sent
         IN  /\ client[k].content \in Contents /\ n \in Nat /\ j \in 0 .. Frames(n)
             /\ session.size = n /\ session.bytes = "whole"
             /\ client[k].pc \in {"answer", "payload"} /\ client[k].op = "get"
             /\ client[k].pc = "answer" => /\ client[k].inbox = Announced(n, j)
                                          /\ Head(client[k].inbox).type = "available"
             /\ client[k].pc = "payload" =>
                  Carries(n, client[k].received, client[k].inbox, j)
<1> DEFINE n == Size[client[k].content]
           j == session.sent
<1>1. InTouch(k)
  BY Served, Zenon
<1>2. /\ client[k].content \in Contents /\ j \in 0 .. Frames(n)
      /\ session.size = n /\ session.bytes = "whole"
      /\ client[k].pc \in {"answer", "payload"} /\ client[k].op = "get"
      /\ client[k].pc = "answer" => client[k].inbox = Announced(n, j)
      /\ client[k].pc = "payload" => Carries(n, client[k].received, client[k].inbox, j)
  BY <1>1, Zenon DEF InTouch
<1>3. n \in Nat
  BY <1>2, LocalContentStoreAssumption, Zenon
<1>4. Head(Announced(n, j)).type = "available"
  BY <1>2, <1>3, AnnouncedIs, Zenon
<1> QED
  BY <1>2, <1>3, <1>4, Zenon

LEMMA NothingPromised == ~Promised(<<>>)
BY DEF Promised

LEMMA NoClientTyped == NoClient \in ClientRecords
<1>1. <<>> \in Seq(Messages)
  BY EmptySeq, Zenon
<1> QED
  BY <1>1, Zenon DEF NoClient, ClientRecords, Blobs

LEMMA NoSessionTyped == NoSession \in SessionRecords
<1>1. <<>> \in Seq(Messages \cup Requests)
  BY EmptySeq, Zenon
<1> QED
  BY <1>1, Zenon DEF NoSession, SessionRecords, Blobs

\* The client returns.
LEMMA FinishKeeps ==
  ASSUME IInv, NEW k \in Clients, client[k].pc # "idle",
         NEW res \in Answers \cup {"broken", "fetched"}, NEW b \in Blobs, Finish(k, res, b),
         res = "stored" => Promised(client[k].inbox),
         faults = 0 => res \notin Failures
  PROVE  IInv'
<1> DEFINE r == [NoClient EXCEPT !.content = client[k].content, !.excused = client[k].excused,
                                 !.result = res, !.bytes = b]
<1>1. client[k] \in ClientRecords /\ ClientGood(k) /\ k # None
  BY ClientTyped, Zenon
<1>2. /\ r \in ClientRecords /\ r.pc = "idle" /\ r.inbox = <<>> /\ r.received = 0
      /\ r.content = client[k].content /\ r.excused = client[k].excused
      /\ r.result = res /\ r.bytes = b
  <2>1. r \in ClientRecords
    BY <1>1, NoClientTyped, Zenon DEF ClientRecords
  <2> QED
    BY <2>1, Zenon DEF NoClient
<1>3. /\ client' = [client EXCEPT ![k] = r] /\ UNCHANGED store /\ faults' = faults
      /\ session' = IF session.client = k THEN [session EXCEPT !.client = None] ELSE session
  BY Zenon DEF Finish
<1> HIDE DEF r
<1>4. /\ session' \in SessionRecords /\ session'.client # k
      /\ session' = session \/ (session.client = k /\ session'.client \in {k, None})
      /\ session'.pc = session.pc /\ session'.content = session.content
  <2>1. session \in SessionRecords
    BY Zenon DEF IInv, TransferTyped
  <2>2. CASE session.client = k
    <3>1. session' = [session EXCEPT !.client = None]
      BY <1>3, <2>2, Zenon
    <3> QED
      BY <1>1, <2>1, <2>2, <3>1, Zenon DEF SessionRecords
  <2>3. CASE session.client # k
    BY <1>3, <2>1, <2>3, Zenon
  <2> QED
    BY <2>2, <2>3, Zenon
<1>5. client'[k] = r /\ blob' = blob
  BY <1>1, <1>2, <1>3, Zenon DEF IInv, TransferTyped, store
<1>9. SessionSound' /\ Coming(k)'
  BY <1>2, <1>3, <1>5, SessionStays, Zenon DEF Coming
<1>6. ClientSound(k)'
  <2>1. client[k].content \in Contents
    BY <1>1, Zenon DEF ClientGood, ClientSound
  <2> QED
    BY <1>2, <1>5, <2>1, Zenon DEF ClientSound
<1>7. Held(k)'
  BY <1>1, <1>2, <1>5, NothingPromised, Zenon DEF ClientGood, Held
<1>8. ClientGood(k)'
  BY <1>2, <1>3, <1>4, <1>5, <1>6, <1>7, <1>9, Zenon DEF ClientGood
<1> QED
  BY <1>2, <1>3, <1>4, <1>8, <1>9, ClientMoves, Zenon

LEMMA CallPeerKeeps ==
  ASSUME IInv, NEW k \in Clients, NEW op \in {"put", "get", "exists"}, NEW c \in Contents,
         CallPeer(k, op, c)
  PROVE  IInv'
<1> DEFINE called == [NoClient EXCEPT !.op = op, !.content = c]
           r == IF op = "put" /\ Size[c] > MaxTransfer THEN [called EXCEPT !.result = "too_large"]
                ELSE [called EXCEPT !.pc = "connect"]
<1>1. client[k] \in ClientRecords /\ ClientGood(k) /\ client[k].pc = "idle"
  BY ClientTyped, Zenon DEF CallPeer
<1>2. session.client # k
  BY <1>1, Served, Zenon
<1>3. /\ client' = [client EXCEPT ![k] = r] /\ UNCHANGED store /\ faults' = faults
      /\ session' = session
  BY Zenon DEF CallPeer
<1>4. /\ r \in ClientRecords /\ r.inbox = <<>> /\ r.received = 0 /\ r.content = c /\ r.op = op
      /\ \/ r.pc = "idle" /\ r.result = "too_large"
         \/ r.pc = "connect" /\ r.result = "none"
  <2>1. called \in ClientRecords
    BY NoClientTyped, Zenon DEF ClientRecords
  <2>2. /\ called.inbox = <<>> /\ called.received = 0 /\ called.content = c /\ called.op = op
        /\ called.pc = "idle" /\ called.result = "none"
    BY Zenon DEF NoClient
  <2> HIDE DEF called
  <2>3. CASE op = "put" /\ Size[c] > MaxTransfer
    <3>1. r = [called EXCEPT !.result = "too_large"]
      BY <2>3, Zenon
    <3> QED
      BY <2>1, <2>2, <3>1, Zenon DEF ClientRecords, Answers
  <2>4. CASE ~(op = "put" /\ Size[c] > MaxTransfer)
    <3>1. r = [called EXCEPT !.pc = "connect"]
      BY <2>4, Zenon
    <3> QED
      BY <2>1, <2>2, <3>1, Zenon DEF ClientRecords
  <2> QED
    BY <2>3, <2>4, Zenon
<1> HIDE DEF r
<1>5. client'[k] = r /\ blob' = blob
  BY <1>3, <1>4, Zenon DEF IInv, TransferTyped, store
<1>6. ClientSound(k)' /\ Coming(k)'
  BY <1>4, <1>5, Zenon DEF ClientSound, Coming
<1>7. Held(k)'
  BY <1>4, <1>5, NothingPromised, Zenon DEF Held
<1>8. ClientGood(k)'
  BY <1>2, <1>3, <1>4, <1>5, <1>6, <1>7, Zenon DEF ClientGood, Failures
<1>9. session \in SessionRecords /\ SessionSound'
  BY <1>3, SessionStays, Zenon DEF IInv, TransferTyped
<1> QED
  BY <1>2, <1>3, <1>4, <1>8, <1>9, ClientMoves, Zenon

LEMMA ConnectFailsKeeps ==
  ASSUME IInv, NEW k \in Clients, ConnectFails(k)
  PROVE  IInv'
<1> DEFINE r == [client[k] EXCEPT !.pc = "idle", !.result = "broken"]
<1>1. client[k] \in ClientRecords /\ ClientGood(k) /\ client[k].pc = "connect"
  BY ClientTyped, Zenon DEF ConnectFails
<1>2. session.client # k
  BY <1>1, Served, Zenon
<1>3. /\ client' = [client EXCEPT ![k] = r] /\ UNCHANGED store /\ faults' = faults + 1
      /\ session' = session
  BY Zenon DEF ConnectFails
<1>4. /\ r \in ClientRecords /\ r.inbox = client[k].inbox /\ r.received = client[k].received
      /\ r.content = client[k].content /\ r.pc = "idle" /\ r.result = "broken"
      /\ r.excused = client[k].excused
  BY <1>1, Zenon DEF ClientRecords
<1> HIDE DEF r
<1>5. client'[k] = r /\ blob' = blob /\ faults' # 0
  BY <1>3, <1>4 DEF IInv, TransferTyped, store, StoreInv, StoreTyped
<1>6. ClientSound(k)' /\ Coming(k)'
  BY <1>1, <1>4, <1>5, Zenon DEF ClientGood, ClientSound, Coming
<1>7. Held(k)'
  <2>1. client[k].inbox = <<>>
    BY <1>1, Zenon DEF ClientGood, ClientSound
  <2> QED
    BY <1>4, <1>5, <2>1, NothingPromised, Zenon DEF Held
<1>8. ClientGood(k)'
  BY <1>2, <1>3, <1>4, <1>5, <1>6, <1>7, Zenon DEF ClientGood
<1>9. session \in SessionRecords /\ SessionSound'
  BY <1>3, SessionStays, Zenon DEF IInv, TransferTyped
<1> QED
  BY <1>2, <1>3, <1>4, <1>8, <1>9, ClientMoves, Zenon

LEMMA AcceptKeeps ==
  ASSUME IInv, NEW k \in Clients, Accept(k)
  PROVE  IInv'
<1> DEFINE r == [client[k] EXCEPT !.pc = "answer"]
<1>1. /\ client[k] \in ClientRecords /\ ClientGood(k) /\ client[k].pc = "connect"
      /\ session.pc = "accept"
  BY ClientTyped, Zenon DEF Accept
<1>2. /\ client[k].content \in Contents /\ client[k].op \in {"put", "get", "exists"}
      /\ client[k].inbox = <<>> /\ client[k].result = "none" /\ client[k].received = 0
  BY <1>1, Zenon DEF ClientGood, ClientSound
<1>3. PICK q : q = Request(client[k].op, client[k].content)
  BY Zenon
<1>4. q \in Requests
  BY <1>2, <1>3, LocalContentStoreAssumption, Zenon DEF Request, Requests
<1>5. /\ client' = [client EXCEPT ![k] = r] /\ UNCHANGED store /\ faults' = faults
      /\ session' = [NoSession EXCEPT !.pc = "request", !.client = k, !.inbox = <<q>>]
  BY <1>3, Zenon DEF Accept
<1>6. /\ session'.pc = "request" /\ session'.client = k /\ session'.inbox = <<q>>
      /\ session'.received = 0 /\ session'.sent = 0 /\ session' \in SessionRecords
  <2>1. <<q>> \in Seq(Messages \cup Requests)
    BY <1>4
  <2>2. session' \in SessionRecords
    BY <1>5, <2>1, NoSessionTyped, Zenon DEF SessionRecords
  <2> QED
    BY <1>5, <2>2, Zenon DEF NoSession
<1>7. /\ r \in ClientRecords /\ r.inbox = <<>> /\ r.received = 0 /\ r.result = "none"
      /\ r.content = client[k].content /\ r.op = client[k].op /\ r.pc = "answer"
  BY <1>1, <1>2, Zenon DEF ClientRecords
<1> HIDE DEF r
<1>8. client'[k] = r /\ blob' = blob
  BY <1>5, <1>7, Zenon DEF IInv, TransferTyped, store
<1>9. InTouch(k)'
  BY <1>2, <1>3, <1>6, <1>7, <1>8, Zenon DEF InTouch
<1>10. ClientGood(k)'
  BY <1>2, <1>6, <1>7, <1>8, <1>9, NothingPromised, Zenon
     DEF ClientGood, ClientSound, Held, Coming, Failures
<1>11. \A j \in Clients : session.client # j
  BY <1>1, Served, Zenon
<1>12. ListenerSound'
  <2>1. pc' = pc /\ call' = call /\ ListenerSound
    BY <1>5, Zenon DEF store, IInv
  <2>2. session'.pc # "store" /\ session'.pc # "payload" /\ session.pc # "store"
    BY <1>1, <1>6, Zenon
  <2>3. SessionSound'
    BY <1>6, OneMessage, Zenon DEF SessionSound
  <2> QED
    BY <2>1, <2>2, <2>3, ListenerKept, Zenon
<1>13. StoreInv'
  BY <1>5, StoreIdle, Zenon DEF IInv
<1> QED
  BY <1>5, <1>6, <1>7, <1>8, <1>10, <1>11, <1>12, <1>13, OthersStay, Zenon

\* A prefix or the rest of what arrived promises no more.
LEMMA CutPromises ==
  ASSUME NEW S, NEW q \in Seq(S), NEW p \in Cuts(q)
  PROVE  p \in Seq(S) /\ (Promised(p) => Promised(q))
<1>1. p \in Seq(S) /\ Len(p) <= Len(q) /\ \A x \in 1 .. Len(p) : x \in 1 .. Len(q) /\ p[x] = q[x]
  BY CutIs, Zenon
<1> QED
  BY <1>1, Zenon DEF Promised

LEMMA TailPromises ==
  ASSUME NEW S, NEW q \in Seq(S), q # <<>>
  PROVE  /\ Tail(q) \in Seq(S) /\ (Promised(Tail(q)) => Promised(q))
         /\ Head(q) \in S /\ (Head(q).type = "stored" => Promised(q))
<1>1. /\ Head(q) \in S /\ Tail(q) \in Seq(S) /\ Len(Tail(q)) = Len(q) - 1
      /\ \A i \in 1 .. Len(Tail(q)) : Tail(q)[i] = q[i + 1]
  BY HeadAndTail, Zenon
<1>2. Len(q) \in Nat /\ 1 \in 1 .. Len(q) /\ Head(q) = q[1]
  OBVIOUS
<1>3. \A i \in 1 .. Len(Tail(q)) : i + 1 \in 1 .. Len(q)
  BY <1>1, <1>2
<1> QED
  BY <1>1, <1>2, <1>3, Zenon DEF Promised

\* What is lost is the end of what arrives for a client.
LEMMA ComingCut ==
  ASSUME IInv, NEW k \in Clients, NEW p \in Cuts(client[k].inbox),
         client'[k] = [client[k] EXCEPT !.inbox = p],
         client[k].pc \in {"answer", "stored", "payload"}, blob' = blob
  PROVE  ClientSound(k)' /\ Held(k)' /\ Coming(k)' /\ client'[k] \in ClientRecords
<1> DEFINE q == client[k].inbox
           n == Size[client[k].content]
<1>1. client[k] \in ClientRecords /\ ClientGood(k) /\ q \in Seq(Messages)
  BY ClientTyped, Zenon
<1>2. p \in Seq(Messages) /\ (Promised(p) => Promised(q))
  BY <1>1, CutPromises, Zenon
<1>3. /\ client'[k] \in ClientRecords /\ client'[k].inbox = p /\ client'[k].pc = client[k].pc
      /\ client'[k].op = client[k].op /\ client'[k].content = client[k].content
      /\ client'[k].size = client[k].size /\ client'[k].received = client[k].received
      /\ client'[k].bytes = client[k].bytes /\ client'[k].result = client[k].result
      /\ client'[k].excused = client[k].excused
  BY <1>1, <1>2, Zenon DEF ClientRecords
<1>4. client[k].content \in Contents /\ n \in Nat
  BY <1>1, LocalContentStoreAssumption, Zenon DEF ClientGood, ClientSound
<1>5. ClientSound(k)'
  BY <1>1, <1>3, Zenon DEF ClientGood, ClientSound
<1>6. Held(k)'
  BY <1>1, <1>2, <1>3, Zenon DEF ClientGood, Held
<1>7. Coming(k) /\ n = Size[client'[k].content]
  BY <1>1, <1>3, Zenon DEF ClientGood
<1>8. ASSUME client[k].pc = "payload"
      PROVE  /\ client'[k].size = n /\ client'[k].bytes = "whole"
             /\ \E l \in 0 .. Frames(n) : Carries(n, client'[k].received, p, l)
  <2>1. /\ client[k].size = n /\ client[k].bytes = "whole"
        /\ \E j \in 0 .. Frames(n) : Carries(n, client[k].received, q, j)
    BY <1>7, <1>8, Zenon DEF Coming
  <2>2. PICK j \in 0 .. Frames(n) : Carries(n, client[k].received, q, j)
    BY <2>1, Zenon
  <2>3. \E l \in 0 .. Frames(n) : Carries(n, client[k].received, p, l)
    BY <1>4, <2>2, CarriesCut, Zenon
  <2> QED
    BY <1>3, <2>1, <2>3, Zenon
<1>9. ASSUME client[k].pc = "answer", p # <<>>, Head(p).type = "available"
      PROVE  \E l \in 0 .. Frames(n) : p = Announced(n, l)
  <2>2. q # <<>> /\ Head(q) = Head(p)
    BY <1>1, <1>9, CutHead, Zenon
  <2>3. PICK j \in 0 .. Frames(n) : q = Announced(n, j)
    BY <1>7, <1>9, <2>2, Zenon DEF Coming
  <2>4. p \in Cuts(Announced(n, j))
    BY <2>3, Zenon
  <2> QED
    BY <1>4, <1>9, <2>4, AnnouncedCut, Zenon
<1> DEFINE m == Size[client'[k].content]
<1>10. ASSUME client'[k].pc = "payload"
       PROVE  /\ client'[k].size = m /\ client'[k].bytes = "whole"
              /\ \E l \in 0 .. Frames(m) : Carries(m, client'[k].received, client'[k].inbox, l)
  <2>1. PICK l \in 0 .. Frames(n) : Carries(n, client'[k].received, p, l)
    BY <1>3, <1>8, <1>10, Zenon
  <2>2. l \in 0 .. Frames(m) /\ Carries(m, client'[k].received, client'[k].inbox, l)
    BY <1>3, <1>7, <2>1, Zenon
  <2> QED
    BY <1>3, <1>7, <1>8, <1>10, <2>2, Zenon
<1>11. ASSUME client'[k].pc = "answer", client'[k].inbox # <<>>,
              Head(client'[k].inbox).type = "available"
       PROVE  \E l \in 0 .. Frames(m) : client'[k].inbox = Announced(m, l)
  <2>1. PICK l \in 0 .. Frames(n) : p = Announced(n, l)
    BY <1>3, <1>9, <1>11, Zenon
  <2>2. l \in 0 .. Frames(m) /\ client'[k].inbox = Announced(m, l)
    BY <1>3, <1>7, <2>1, Zenon
  <2> QED
    BY <2>2, Zenon
<1>12. Coming(k)'
  BY <1>10, <1>11, Zenon DEF Coming
<1> QED
  BY <1>3, <1>5, <1>6, <1>12, Zenon

\* What is lost is the end of what arrives for the listener.
LEMMA SessionCut ==
  ASSUME IInv, NEW p \in Cuts(session.inbox),
         session' = [session EXCEPT !.client = None, !.inbox = p]
  PROVE  /\ session' \in SessionRecords /\ SessionSound' /\ session'.client = None
         /\ session'.pc = session.pc /\ session'.content = session.content
<1>1. /\ session \in SessionRecords /\ SessionSound
      /\ session.inbox \in Seq(Messages \cup Requests) /\ session.size \in Nat
  BY Zenon DEF IInv, TransferTyped, ListenerSound, SessionRecords
<1>2. /\ p \in Seq(Messages \cup Requests) /\ Len(p) <= Len(session.inbox)
  BY <1>1, CutIs, Zenon
<1>3. /\ session' \in SessionRecords /\ session'.client = None /\ session'.inbox = p
      /\ session'.pc = session.pc /\ session'.content = session.content
      /\ session'.size = session.size /\ session'.received = session.received
  BY <1>1, <1>2, Zenon DEF SessionRecords
<1>4. ASSUME session.pc = "request"
      PROVE  session.received = 0 /\ (p # <<>> => Tail(p) = <<>>)
  <2>1. session.received = 0 /\ (session.inbox # <<>> => Tail(session.inbox) = <<>>)
    BY <1>1, <1>4, Zenon DEF SessionSound
  <2>2. Len(session.inbox) <= 1
    BY <1>1, <2>1, TailEmpty, EmptyLen, Zenon
  <2>3. Len(p) <= 1
    BY <1>1, <1>2, <2>2
  <2>4. p # <<>> => Tail(p) = <<>>
    BY <1>2, <2>3, TailEmpty, Zenon
  <2> QED
    BY <2>1, <2>4, Zenon
<1>5. ASSUME session.pc = "payload"
      PROVE  \E l \in 0 .. Frames(session.size) : Carries(session.size, session.received, p, l)
  <2>1. PICK j \in 0 .. Frames(session.size) :
          Carries(session.size, session.received, session.inbox, j)
    BY <1>1, <1>5, Zenon DEF SessionSound
  <2> QED
    BY <1>1, <2>1, CarriesCut, Zenon
<1>6. SessionSound'
  BY <1>3, <1>4, <1>5, Zenon DEF SessionSound
<1> QED
  BY <1>3, <1>6, Zenon

LEMMA DisconnectKeeps ==
  ASSUME IInv, NEW k \in Clients, Disconnect(k)
  PROVE  IInv'
<1>1. /\ client[k] \in ClientRecords /\ ClientGood(k) /\ k # None
      /\ client \in [Clients -> ClientRecords] /\ session \in SessionRecords
      /\ client[k].pc \in {"answer", "stored", "payload"}
      /\ faults' = faults + 1 /\ UNCHANGED store /\ blob' = blob
  BY ClientTyped, Zenon DEF Disconnect, IInv, TransferTyped, store
<1>2. PICK p \in Cuts(client[k].inbox) : client' = [client EXCEPT ![k].inbox = p]
  BY Zenon DEF Disconnect
<1> DEFINE r == [client[k] EXCEPT !.inbox = p]
<1>3. client' = [client EXCEPT ![k] = r] /\ client'[k] = r
  BY <1>1, <1>2, Zenon
<1>4. ClientSound(k)' /\ Held(k)' /\ Coming(k)' /\ r \in ClientRecords
  BY <1>1, <1>3, ComingCut, Zenon
<1>5. r.excused = client[k].excused /\ r.result = client[k].result
  BY <1>1, Zenon DEF ClientRecords
<1>6. faults' # 0
  BY <1>1 DEF IInv, StoreInv, StoreTyped
<1>7. /\ session' \in SessionRecords /\ SessionSound' /\ session'.client # k
      /\ session' = session \/ (session.client = k /\ session'.client \in {k, None})
      /\ session'.pc = session.pc /\ session'.content = session.content
  <2>1. CASE session.client # k /\ session' = session
    BY <1>1, <2>1, SessionStays, Zenon
  <2>2. CASE /\ session.client = k
             /\ \E q \in Cuts(session.inbox) :
                  session' = [session EXCEPT !.client = None, !.inbox = q]
    <3>1. PICK q \in Cuts(session.inbox) :
            session' = [session EXCEPT !.client = None, !.inbox = q]
      BY <2>2, Zenon
    <3>2. /\ session' \in SessionRecords /\ SessionSound' /\ session'.client = None
          /\ session'.pc = session.pc /\ session'.content = session.content
      BY <3>1, SessionCut, Zenon
    <3> QED
      BY <1>1, <2>2, <3>2, Zenon
  <2> QED
    BY <2>1, <2>2, Zenon DEF Disconnect
<1> HIDE DEF r
<1>8. ClientGood(k)'
  BY <1>4, <1>6, <1>7, Zenon DEF ClientGood
<1> QED
  BY <1>1, <1>3, <1>4, <1>5, <1>7, <1>8, ClientMoves, Zenon

LEMMA AnswerTyped ==
  ASSUME NEW a \in Answers \cup {"ready"}
  PROVE  Answer(a) \in Messages /\ Answer(a).type = a
BY Zenon DEF Answer, Message, Messages, Blobs

LEMMA SendPayloadKeeps ==
  ASSUME IInv, NEW k \in Clients, SendPayload(k)
  PROVE  IInv'
<1> DEFINE q == client[k].inbox
           c == client[k].content
           r == [client[k] EXCEPT !.pc = "stored", !.inbox = Tail(q)]
           n == Size[c]
<1>1. /\ client[k] \in ClientRecords /\ ClientGood(k) /\ q \in Seq(Messages) /\ k # None
      /\ session \in SessionRecords /\ client[k].pc = "answer" /\ q # <<>>
      /\ client[k].op = "put" /\ Head(q).type = "ready"
  BY ClientTyped, Zenon DEF SendPayload, Waits, First, IInv, TransferTyped
<1>2. c \in Contents /\ client[k].result = "none" /\ client[k].received = 0 /\ n \in Nat
  BY <1>1, LocalContentStoreAssumption, Zenon DEF ClientGood, ClientSound
<1>3. /\ Tail(q) \in Seq(Messages) /\ (Promised(Tail(q)) => Promised(q))
  BY <1>1, TailPromises, Zenon
<1>4. /\ client' = [client EXCEPT ![k] = r] /\ UNCHANGED store /\ faults' = faults
      /\ session' = IF session.client = k
                    THEN [session EXCEPT !.inbox = session.inbox \o Chunks(n, "whole")]
                    ELSE session
  BY Zenon DEF SendPayload
<1>5. /\ r \in ClientRecords /\ r.inbox = Tail(q) /\ r.received = 0 /\ r.pc = "stored"
      /\ r.content = c /\ r.result = "none" /\ r.excused = client[k].excused
      /\ r.op = client[k].op
  BY <1>1, <1>2, <1>3, Zenon DEF ClientRecords
<1> HIDE DEF r
<1>6. client'[k] = r /\ blob' = blob
  BY <1>4, <1>5, Zenon DEF IInv, TransferTyped, store
<1>7. ClientSound(k)' /\ Coming(k)'
  BY <1>1, <1>2, <1>5, <1>6, Zenon DEF ClientSound, Coming
<1>8. Held(k)'
  BY <1>1, <1>2, <1>3, <1>5, <1>6, Zenon DEF ClientGood, Held
<1>9. /\ Chunks(n, "whole") \in Seq(Messages) /\ Flows(n, 0, Chunks(n, "whole"))
      /\ Frames(n) \in 0 .. Frames(n)
  <2>1. /\ Frames(n) \in Nat /\ Chunks(n, "whole") = Part(n, 0, Frames(n))
        /\ Chunks(n, "whole") \in Seq(Messages)
    BY <1>2, ChunksTyped, Zenon
  <2>2. Frames(n) \in 0 .. Frames(n)
    BY <2>1
  <2> QED
    BY <1>2, <2>1, <2>2, CarriesStart, Zenon DEF Flows
<1>10. CASE session.client = k
  <2>1. session' = [session EXCEPT !.inbox = session.inbox \o Chunks(n, "whole")]
    BY <1>4, <1>10, Zenon
  <2>2. InTouch(k) /\ q = <<Answer("ready")>> /\ session.pc \in {"payload", "store"}
    <3>1. session.pc # "send"
      BY <1>1, <1>10, IsSent, Zenon
    <3>2. InTouch(k) /\ q = <<Answer("ready")>>
      BY <1>1, <1>10, <3>1, Served, Zenon
    <3> QED
      BY <1>1, <3>1, <3>2, Zenon DEF InTouch
  <2>3. Tail(q) = <<>>
    BY <2>2, OneMessage, Zenon
  <2>4. session.inbox \in Seq(Messages \cup Requests)
    BY <1>1, Zenon DEF SessionRecords
  <2>5. session.inbox \o Chunks(n, "whole") \in Seq(Messages \cup Requests)
    <3>1. PICK p \in Seq(Messages) : p = Chunks(n, "whole")
      BY <1>9, Zenon
    <3>2. p \in Seq(Messages \cup Requests)
      OBVIOUS
    <3> QED
      BY <2>4, <3>1, <3>2, Joined, Zenon
  <2>6. /\ session' \in SessionRecords /\ session'.client = k /\ session'.pc = session.pc
        /\ session'.content = session.content /\ session'.size = session.size
        /\ session'.received = session.received
        /\ session'.inbox = session.inbox \o Chunks(n, "whole")
    BY <1>1, <1>10, <2>1, <2>5, Zenon DEF SessionRecords
  <2>7. InTouch(k)' /\ SessionSound'
    <3>1. CASE session.pc = "payload"
      <4>1. /\ session.content = c /\ session.size = n /\ session.received = 0
            /\ session.inbox = <<>>
        BY <1>1, <2>2, <3>1, Zenon DEF InTouch
      <4>2. session'.inbox = Chunks(n, "whole")
        BY <1>9, <2>6, <4>1, JoinedEmpty, Zenon
      <4>3. Flows(n, session'.received, session'.inbox)
        BY <1>9, <2>6, <4>1, <4>2, Zenon
      <4>4. InTouch(k)'
        BY <1>2, <1>5, <1>6, <2>3, <2>6, <3>1, <4>1, <4>3, Zenon DEF InTouch
      <4>5. SessionSound'
        BY <1>9, <2>6, <3>1, <4>1, <4>3, Zenon DEF SessionSound, Flows
      <4> QED
        BY <4>4, <4>5, Zenon
    <3>2. CASE session.pc = "store"
      <4>1. session.content = c
        BY <2>2, <3>2, Zenon DEF InTouch
      <4> QED
        BY <1>2, <1>5, <1>6, <2>3, <2>6, <3>2, <4>1, Zenon DEF InTouch, SessionSound
    <3> QED
      BY <2>2, <3>1, <3>2, Zenon
  <2>8. ClientGood(k)'
    BY <1>5, <1>6, <1>7, <1>8, <2>6, <2>7, Zenon DEF ClientGood, Failures
  <2>9. session.client = k /\ session'.client \in {k, None}
    BY <1>10, <2>6, Zenon
  <2> QED
    BY <1>4, <1>5, <2>6, <2>7, <2>8, <2>9, ClientMoves, Zenon
<1>11. CASE session.client # k
  <2>1. session' = session
    BY <1>4, <1>11, Zenon
  <2>2. ASSUME faults = 0
        PROVE  Answered(k)'
    <3>1. Answered(k)
      BY <1>1, <1>11, <2>2, Zenon DEF ClientGood
    <3>2. PICK a \in GoodAnswers : q = <<Answer(a)>> \/ q = <<Answer("ready"), Answer(a)>>
                                   \/ q = Announced(n, Frames(n))
      BY <1>1, <3>1, Zenon DEF Answered, GoodAnswers, Answers, Failures
    <3>3. a \in Answers /\ a # "ready"
      BY <3>2, Zenon DEF GoodAnswers, Answers
    <3>4. q # <<Answer(a)>>
      BY <1>1, <3>3, AnswerTyped, OneMessage, Zenon
    <3>5. q # Announced(n, Frames(n))
      BY <1>1, <1>2, <1>9, AnnouncedIs, Zenon
    <3>6. Tail(q) = <<Answer(a)>>
      BY <3>2, <3>4, <3>5, TwoMessages, Zenon
    <3> QED
      BY <1>5, <1>6, <3>2, <3>6, Zenon DEF Answered
  <2>3. ClientGood(k)' /\ SessionSound'
    BY <1>4, <1>5, <1>6, <1>7, <1>8, <1>11, <2>1, <2>2, SessionStays, Zenon
       DEF ClientGood, Failures
  <2> QED
    BY <1>1, <1>4, <1>5, <1>11, <2>1, <2>3, ClientMoves, Zenon
<1> QED
  BY <1>10, <1>11, Zenon

LEMMA ExpectPayloadKeeps ==
  ASSUME IInv, NEW k \in Clients, ExpectPayload(k)
  PROVE  IInv'
<1> DEFINE q == client[k].inbox
           c == client[k].content
           r == [client[k] EXCEPT !.pc = "payload", !.inbox = Tail(q), !.size = Head(q).size,
                                  !.bytes = "whole"]
           n == Size[c]
<1>1. /\ client[k] \in ClientRecords /\ ClientGood(k) /\ q \in Seq(Messages)
      /\ session \in SessionRecords /\ client[k].pc = "answer" /\ q # <<>>
      /\ client[k].op = "get" /\ Head(q).type = "available"
  BY ClientTyped, Zenon DEF ExpectPayload, Waits, First, IInv, TransferTyped
<1>2. c \in Contents /\ client[k].result = "none" /\ client[k].received = 0 /\ n \in Nat
  BY <1>1, LocalContentStoreAssumption, Zenon DEF ClientGood, ClientSound
<1>3. /\ Tail(q) \in Seq(Messages) /\ (Promised(Tail(q)) => Promised(q)) /\ Head(q) \in Messages
  BY <1>1, TailPromises, Zenon
<1>4. Head(q).size \in Nat
  BY <1>3, Zenon DEF Messages
<1>5. /\ client' = [client EXCEPT ![k] = r] /\ UNCHANGED store /\ faults' = faults
      /\ session' = session
  BY Zenon DEF ExpectPayload, First
<1>6. /\ r \in ClientRecords /\ r.inbox = Tail(q) /\ r.received = 0 /\ r.pc = "payload"
      /\ r.content = c /\ r.result = "none" /\ r.excused = client[k].excused
      /\ r.op = client[k].op /\ r.size = Head(q).size /\ r.bytes = "whole"
  BY <1>1, <1>2, <1>3, <1>4, Zenon DEF ClientRecords, Blobs
<1> HIDE DEF r
<1>7. client'[k] = r /\ blob' = blob
  BY <1>5, <1>6, Zenon DEF IInv, TransferTyped, store
<1>8. ClientSound(k)'
  BY <1>1, <1>2, <1>6, <1>7, Zenon DEF ClientSound
<1>9. Held(k)'
  BY <1>1, <1>2, <1>3, <1>6, <1>7, Zenon DEF ClientGood, Held
\* The frames behind the announcement.
<1>10. ASSUME NEW j \in 0 .. Frames(n), q = Announced(n, j)
       PROVE  r.size = n /\ Carries(n, r.received, r.inbox, j)
  <2>1. /\ Tail(Announced(n, j)) = Part(n, 0, j) /\ Carries(n, 0, Part(n, 0, j), j)
        /\ Head(Announced(n, j)).size = n
    BY <1>2, AnnouncedIs, Zenon
  <2> QED
    BY <1>6, <1>10, <2>1, Zenon
<1>11. Coming(k)'
  <2>1. PICK j \in 0 .. Frames(n) : q = Announced(n, j)
    BY <1>1, Zenon DEF ClientGood, Coming
  <2>2. r.size = n /\ Carries(n, r.received, r.inbox, j)
    BY <1>10, <2>1, Zenon
  <2>3. \E l \in 0 .. Frames(n) : Carries(n, r.received, r.inbox, l)
    BY <2>2, Zenon
  <2> QED
    BY <1>6, <1>7, <2>2, <2>3, Zenon DEF Coming
<1>12. session.client = k => InTouch(k)'
  <2>1. ASSUME session.client = k
        PROVE  InTouch(k)'
    <3>1. Head(<<Answer("ready")>>).type = "ready"
      BY OneMessage, AnswerTyped, Zenon
    <3>2. session.pc = "send"
      BY <1>1, <2>1, <3>1, Served, Zenon
    <3>3. /\ session.sent \in 0 .. Frames(n) /\ session.size = n /\ session.bytes = "whole"
          /\ q = Announced(n, session.sent)
      BY <1>1, <2>1, <3>2, IsSent, Zenon
    <3>4. Carries(n, r.received, r.inbox, session.sent)
      BY <1>10, <3>3, Zenon
    <3> QED
      BY <1>1, <1>2, <1>5, <1>6, <1>7, <3>2, <3>3, <3>4, Zenon DEF InTouch
  <2> QED
    BY <2>1, Zenon
<1>13. ASSUME faults = 0, session.client # k
       PROVE  Answered(k)'
  <2>1. Answered(k)
    BY <1>1, <1>13, Zenon DEF ClientGood
  <2>2. ASSUME NEW a \in GoodAnswers
        PROVE  q # <<Answer(a)>>
    <3>1. Head(<<Answer(a)>>).type = a /\ a # "available"
      BY OneMessage, AnswerTyped, Zenon DEF GoodAnswers, Answers
    <3> QED
      BY <1>1, <3>1, Zenon
  <2>3. q = Announced(n, Frames(n))
    BY <1>1, <2>1, <2>2, Zenon DEF Answered
  <2>4. r.size = n /\ Carries(n, r.received, r.inbox, Frames(n))
    BY <1>2, <1>10, <2>3, FramesTyped, Zenon
  <2> QED
    BY <1>6, <1>7, <2>4, Zenon DEF Answered, Flows
<1>14. ClientGood(k)'
  BY <1>5, <1>6, <1>7, <1>8, <1>9, <1>11, <1>12, <1>13, Zenon DEF ClientGood, Failures
<1>15. SessionSound'
  BY <1>5, SessionStays, Zenon
<1> QED
  BY <1>1, <1>5, <1>6, <1>14, <1>15, ClientMoves, Zenon

LEMMA FetchPayloadKeeps ==
  ASSUME IInv, NEW k \in Clients, FetchPayload(k)
  PROVE  IInv'
<1> DEFINE q == client[k].inbox
           n == Size[client[k].content]
           got == client[k].received
           r == [client[k] EXCEPT !.received = got + Head(q).size, !.inbox = Tail(q),
                                  !.bytes = IF Matches(Head(q).bytes) THEN client[k].bytes
                                            ELSE Head(q).bytes]
<1>1. /\ client[k] \in ClientRecords /\ ClientGood(k) /\ q \in Seq(Messages)
      /\ session \in SessionRecords /\ client[k].pc = "payload" /\ q # <<>>
  BY ClientTyped, Zenon DEF FetchPayload, Waits, IInv, TransferTyped
<1>2. /\ client[k].content \in Contents /\ client[k].result = "none" /\ n \in Nat
      /\ client[k].op \in {"put", "get", "exists"} /\ got \in Nat
  BY <1>1, LocalContentStoreAssumption, Zenon DEF ClientGood, ClientSound, ClientRecords
<1>3. /\ Tail(q) \in Seq(Messages) /\ (Promised(Tail(q)) => Promised(q)) /\ Head(q) \in Messages
  BY <1>1, TailPromises, Zenon
<1>4. /\ client[k].size = n /\ client[k].bytes = "whole"
      /\ \E j \in 0 .. Frames(n) : Carries(n, got, q, j)
  BY <1>1, Zenon DEF ClientGood, Coming
\* Every frame on its way fits.
<1>5. ASSUME NEW j, Carries(n, got, q, j)
      PROVE  /\ FrameFits(Head(q), got, n) /\ Head(q).bytes = "whole" /\ Head(q).size \in Nat
             /\ Carries(n, got + Head(q).size, Tail(q), j)
  BY <1>1, <1>2, <1>5, CarriesOn, Zenon
<1>6. PICK j \in 0 .. Frames(n) : Carries(n, got, q, j)
  BY <1>4, Zenon
<1>7. /\ FrameFits(Head(q), got, n) /\ Head(q).bytes = "whole" /\ Head(q).size \in Nat
      /\ Carries(n, got + Head(q).size, Tail(q), j)
  BY <1>5, <1>6, Zenon
<1>8. /\ client' = [client EXCEPT ![k] = r] /\ UNCHANGED store /\ faults' = faults
      /\ session' = session
  BY <1>4, <1>7, Zenon DEF FetchPayload, First
<1>9. got + Head(q).size \in Nat
  BY <1>2, <1>7
<1>10. /\ r \in ClientRecords /\ r.inbox = Tail(q) /\ r.pc = "payload"
       /\ r.content = client[k].content /\ r.result = "none" /\ r.excused = client[k].excused
       /\ r.op = client[k].op /\ r.size = n /\ r.received = got + Head(q).size
       /\ r.bytes = "whole"
  <2>1. r = [client[k] EXCEPT !.received = got + Head(q).size, !.inbox = Tail(q),
                              !.bytes = "whole"]
    BY <1>4, <1>7, Zenon DEF Matches
  <2> HIDE DEF r
  <2> QED
    BY <1>1, <1>2, <1>3, <1>4, <1>9, <2>1, Zenon DEF ClientRecords, Blobs
<1> HIDE DEF r
<1>11. client'[k] = r /\ blob' = blob
  BY <1>8, <1>10, Zenon DEF IInv, TransferTyped, store
<1>12. ClientSound(k)'
  BY <1>2, <1>10, <1>11, Zenon DEF ClientSound
<1>13. Held(k)'
  BY <1>1, <1>2, <1>3, <1>10, <1>11, Zenon DEF ClientGood, Held
<1>14. Coming(k)'
  <2>1. \E l \in 0 .. Frames(n) : Carries(n, r.received, r.inbox, l)
    BY <1>6, <1>7, <1>10, Zenon
  <2> QED
    BY <1>10, <1>11, <2>1, Zenon DEF Coming
<1>15. session.client = k => InTouch(k)'
  <2>1. ASSUME session.client = k
        PROVE  InTouch(k)'
    <3>1. session.pc = "send"
      BY <1>1, <2>1, Served, Zenon
    <3>2. /\ session.sent \in 0 .. Frames(n) /\ session.size = n /\ session.bytes = "whole"
          /\ client[k].op = "get" /\ Carries(n, got, q, session.sent)
      BY <1>1, <2>1, <3>1, IsSent, Zenon
    <3>3. Carries(n, r.received, r.inbox, session.sent)
      BY <1>5, <1>10, <3>2, Zenon
    <3> QED
      BY <1>2, <1>8, <1>10, <1>11, <3>1, <3>2, <3>3, Zenon DEF InTouch
  <2> QED
    BY <2>1, Zenon
<1>16. ASSUME faults = 0, session.client # k
       PROVE  Answered(k)'
  <2>1. Carries(n, got, q, Frames(n))
    BY <1>1, <1>4, <1>16, Zenon DEF ClientGood, Answered, Flows
  <2>2. Carries(n, r.received, r.inbox, Frames(n))
    BY <1>5, <1>10, <2>1, Zenon
  <2> QED
    BY <1>10, <1>11, <2>2, Zenon DEF Answered, Flows
<1>17. ClientGood(k)'
  BY <1>8, <1>10, <1>11, <1>12, <1>13, <1>14, <1>15, <1>16, Zenon DEF ClientGood, Failures
<1>18. SessionSound'
  BY <1>8, SessionStays, Zenon
<1> QED
  BY <1>1, <1>8, <1>10, <1>17, <1>18, ClientMoves, Zenon

LEMMA FetchedKeeps ==
  ASSUME IInv, NEW k \in Clients, Fetched(k)
  PROVE  IInv'
<1>1. client[k] \in ClientRecords /\ client[k].pc = "payload"
  BY ClientTyped, Zenon DEF Fetched
<1>2. client[k].bytes \in Blobs /\ client[k].pc # "idle"
  BY <1>1, Zenon DEF ClientRecords
<1>3. PICK res \in {"fetched", "unavailable"} : Finish(k, res, client[k].bytes)
  BY Zenon DEF Fetched
<1>4. res \in Answers \cup {"broken", "fetched"} /\ res \notin Failures /\ res # "stored"
  BY <1>3, Zenon DEF Answers, Failures
<1> QED
  BY <1>2, <1>3, <1>4, FinishKeeps, Zenon

LEMMA TakeAnswerKeeps ==
  ASSUME IInv, NEW k \in Clients, TakeAnswer(k)
  PROVE  IInv'
<1> DEFINE q == client[k].inbox
           t == Head(q).type
<1>1. /\ client[k] \in ClientRecords /\ ClientGood(k) /\ q \in Seq(Messages)
      /\ client[k].pc \in {"answer", "stored"} /\ client[k].pc # "idle" /\ q # <<>>
      /\ t \notin {"ready", "available", "frame"} /\ Finish(k, t, "absent")
  BY ClientTyped, Zenon DEF TakeAnswer, Waits, First
<1>2. Head(q) \in Messages /\ (t = "stored" => Promised(q))
  BY <1>1, TailPromises, Zenon
<1>3. t \in Answers
  BY <1>1, <1>2, Zenon DEF Messages
<1>4. session.client # k
  <2>1. Head(<<Answer("ready")>>).type = "ready"
    BY OneMessage, AnswerTyped, Zenon
  <2> QED
    BY <1>1, <2>1, Served, IsSent, Zenon
<1>5. ASSUME faults = 0
      PROVE  t \notin Failures
  <2>1. Answered(k)
    BY <1>1, <1>4, <1>5, Zenon DEF ClientGood
  <2>2. ASSUME NEW a \in GoodAnswers, q = <<Answer(a)>>
        PROVE  t \in GoodAnswers
    <3>1. Head(<<Answer(a)>>).type = a
      BY OneMessage, AnswerTyped, Zenon DEF GoodAnswers
    <3> QED
      BY <2>2, <3>1, Zenon
  <2>3. ASSUME NEW a \in GoodAnswers
        PROVE  q # <<Answer("ready"), Answer(a)>>
    <3>1. Head(<<Answer("ready"), Answer(a)>>).type = "ready"
      BY TwoMessages, AnswerTyped, Zenon
    <3> QED
      BY <1>1, <3>1, Zenon
  <2>4. client[k].content \in Contents
    BY <1>1, Zenon DEF ClientGood, ClientSound
  <2>5. ASSUME NEW n \in Nat
        PROVE  q # Announced(n, Frames(n))
    <3>1. Frames(n) \in 0 .. Frames(n)
      BY FramesTyped, Zenon
    <3>2. Head(Announced(n, Frames(n))).type = "available"
      BY <3>1, AnnouncedIs, Zenon
    <3> QED
      BY <1>1, <3>2, Zenon
  <2>6. Size[client[k].content] \in Nat
    BY <2>4, LocalContentStoreAssumption, Zenon
  <2>7. t \in GoodAnswers
    BY <1>1, <2>1, <2>2, <2>3, <2>5, <2>6, Zenon DEF Answered
  <2> QED
    BY <2>7, Zenon DEF GoodAnswers
<1>6. "absent" \in Blobs /\ t \in Answers \cup {"broken", "fetched"}
  BY <1>3, Zenon DEF Answers, Blobs
<1> HIDE DEF t
<1> QED
  BY <1>1, <1>2, <1>5, <1>6, FinishKeeps, Zenon

LEMMA GiveUpKeeps ==
  ASSUME IInv, NEW k \in Clients, GiveUp(k)
  PROVE  IInv'
<1>1. /\ client[k] \in ClientRecords /\ ClientGood(k) /\ client[k].inbox = <<>>
      /\ session.client # k /\ Finish(k, "broken", "absent")
      /\ \/ client[k].pc \in {"answer", "stored"}
         \/ client[k].pc = "payload" /\ client[k].received < client[k].size
  BY ClientTyped, Zenon DEF GiveUp
<1>2. ASSUME faults = 0
      PROVE  FALSE
  <2>1. Answered(k)
    BY <1>1, <1>2, Zenon DEF ClientGood
  <2>2. client[k].pc \in {"answer", "stored"} => client[k].content \in Contents
    BY <1>1, Zenon DEF ClientGood, ClientSound
  <2>3. ASSUME NEW n \in Nat
        PROVE  <<>> # Announced(n, Frames(n))
    BY FramesTyped, AnnouncedIs, Zenon
  <2>4. client[k].content \in Contents => Size[client[k].content] \in Nat
    BY LocalContentStoreAssumption, Zenon
  <2>5. client[k].pc = "payload" /\ Flows(client[k].size, client[k].received, <<>>)
    BY <1>1, <2>1, <2>2, <2>3, <2>4 DEF Answered
  <2>6. client[k].size \in Nat
    BY <1>1, Zenon DEF ClientRecords
  <2>7. client[k].received = client[k].size
    BY <2>5, <2>6, FlowsEnd, Zenon
  <2> QED
    BY <1>1, <2>5, <2>6, <2>7
<1>3. "broken" \in Answers \cup {"broken", "fetched"} /\ "absent" \in Blobs /\ client[k].pc # "idle"
  BY <1>1, Zenon DEF Blobs
<1> QED
  BY <1>1, <1>2, <1>3, FinishKeeps, Zenon

-----------------------------------------------------------------------------
(* Steps of the listener *)

\* What the listener sends reaches the client it serves.
LEMMA Delivered ==
  ASSUME IInv, NEW k \in Clients, session.client = k, NEW m \in Seq(Messages), Deliver(m)
  PROVE  \E r \in ClientRecords :
           /\ client' = [client EXCEPT ![k] = r] /\ client'[k] = r
           /\ r.inbox = client[k].inbox \o m
           /\ r.pc = client[k].pc /\ r.op = client[k].op /\ r.content = client[k].content
           /\ r.size = client[k].size /\ r.received = client[k].received
           /\ r.bytes = client[k].bytes /\ r.result = client[k].result
           /\ r.excused = client[k].excused
<1>1. client[k] \in ClientRecords /\ client[k].inbox \in Seq(Messages) /\ k # None
  BY ClientTyped, Zenon
<1>2. client[k].inbox \o m \in Seq(Messages)
  BY <1>1, Joined, Zenon
<1>3. PICK q \in Seq(Messages) : q = client[k].inbox \o m
  BY <1>2, Zenon
<1> DEFINE r == [client[k] EXCEPT !.inbox = q]
<1>4. client' = [client EXCEPT ![k] = r]
  BY <1>1, <1>3, Zenon DEF Deliver
<1>5. /\ r \in ClientRecords /\ r.inbox = q
      /\ r.pc = client[k].pc /\ r.op = client[k].op /\ r.content = client[k].content
      /\ r.size = client[k].size /\ r.received = client[k].received
      /\ r.bytes = client[k].bytes /\ r.result = client[k].result
      /\ r.excused = client[k].excused
  BY <1>1, Zenon DEF ClientRecords
<1> HIDE DEF r
<1>6. client'[k] = r
  BY <1>4, Zenon DEF IInv, TransferTyped
<1> QED
  BY <1>3, <1>4, <1>5, <1>6, Zenon

\* The listener moves: its session, and the client it serves.
LEMMA SessionMoves ==
  ASSUME IInv, StoreInv', blob' = blob, faults' = 0 => faults = 0, ListenerSound',
         session' \in SessionRecords, session'.client \in {session.client, None},
         NEW m \in Seq(Messages), Deliver(m),
         \A k \in Clients : session.client = k => ClientGood(k)'
  PROVE  IInv'
<1>1. session.client \in Clients \cup {None}
  BY Zenon DEF IInv, TransferTyped, SessionRecords
<1>2. CASE session.client \in Clients
  <2>1. PICK k \in Clients : session.client = k
    BY <1>2, Zenon
  <2>2. PICK r \in ClientRecords : client' = [client EXCEPT ![k] = r]
    BY <2>1, Delivered
  <2>3. \A j \in Clients \ {k} : session.client # j /\ session'.client # j
    BY <2>1, ContentTransferAssumption, Zenon
  <2> QED
    BY <2>1, <2>2, <2>3, OthersStay, Zenon
<1>3. CASE session.client = None
  <2>1. client' = client /\ session'.client = None
    BY <1>3, Zenon DEF Deliver
  <2>2. TransferTyped'
    BY <2>1, Zenon DEF IInv, TransferTyped
  <2>3. ASSUME NEW k \in Clients
        PROVE  ClientGood(k)'
    <3>1. session.client # k /\ session'.client # k
      BY <1>3, <2>1, ContentTransferAssumption, Zenon
    <3> QED
      BY <2>1, <3>1, ClientKept, Zenon DEF IInv, SameClient
  <2> QED
    BY <2>2, <2>3, Zenon DEF IInv
<1> QED
  BY <1>1, <1>2, <1>3, Zenon

LEMMA TwoTogether ==
  ASSUME NEW S, NEW x \in S, NEW y \in S
  PROVE  <<x>> \o <<y>> = <<x, y>> /\ <<x>> # <<>>
<1>1. <<x>> \in Seq(S) /\ <<y>> \in Seq(S) /\ <<x, y>> \in Seq(S)
  OBVIOUS
<1>2. Len(<<x>>) = 1 /\ Len(<<y>>) = 1 /\ Len(<<x, y>>) = 2
  BY Zenon
<1>3. /\ <<x>> \o <<y>> \in Seq(S) /\ Len(<<x>> \o <<y>>) = 1 + 1
      /\ \A i \in 1 .. 1 + 1 : (<<x>> \o <<y>>)[i] = IF i <= 1 THEN <<x>>[i] ELSE <<y>>[i - 1]
  BY <1>1, <1>2, Joined
<1>4. \A i \in 1 .. 2 : (<<x>> \o <<y>>)[i] = <<x, y>>[i]
  BY <1>3
<1>5. Len(<<x>> \o <<y>>) = 2
  BY <1>3
<1>6. <<x>> \o <<y>> = <<x, y>>
  BY <1>1, <1>2, <1>3, <1>4, <1>5, SeqEqual, Zenon
<1> QED
  BY <1>6, Zenon

\* A last answer, to a client that waits for it.
LEMMA LastAnswer ==
  ASSUME IInv, NEW k \in Clients, session.client = k, session.pc \in {"request", "store"},
         NEW a \in Answers, Deliver(<<Answer(a)>>), session' = NoSession, blob' = blob,
         faults' = 0 => faults = 0 /\ a \in GoodAnswers,
         a = "stored" => Matches(blob[client[k].content]) \/ client[k].excused
  PROVE  ClientGood(k)'
<1> DEFINE q == client[k].inbox
<1>1. /\ client[k] \in ClientRecords /\ ClientGood(k) /\ q \in Seq(Messages) /\ k # None
  BY ClientTyped, Zenon
<1>2. Answer(a) \in Messages /\ Answer(a).type = a /\ <<Answer(a)>> \in Seq(Messages)
  BY AnswerTyped
<1>3. PICK r \in ClientRecords :
           /\ client'[k] = r /\ r.inbox = q \o <<Answer(a)>>
           /\ r.pc = client[k].pc /\ r.op = client[k].op /\ r.content = client[k].content
           /\ r.received = client[k].received /\ r.result = client[k].result
           /\ r.excused = client[k].excused
  BY <1>2, Delivered, Zenon
<1>4. /\ client[k].pc \in {"answer", "stored"}
      /\ \/ q = <<>>
         \/ client[k].pc = "answer" /\ client[k].op = "put" /\ q = <<Answer("ready")>>
  <2>1. InTouch(k)
    BY Served, Zenon
  <2> QED
    BY <2>1, Zenon DEF InTouch
<1>5. /\ r.inbox \in {<<Answer(a)>>, <<Answer("ready"), Answer(a)>>}
      /\ q = <<>> => r.inbox = <<Answer(a)>>
      /\ q = <<Answer("ready")>> => r.inbox = <<Answer("ready"), Answer(a)>>
  <2>1. CASE q = <<>>
    BY <1>2, <1>3, <2>1, JoinedEmpty
  <2>2. CASE q = <<Answer("ready")>>
    <3>1. Answer("ready") \in Messages
      BY AnswerTyped, Zenon
    <3>2. r.inbox = <<Answer("ready"), Answer(a)>> /\ q # <<>>
      BY <1>2, <1>3, <2>2, <3>1, TwoTogether, Zenon
    <3> QED
      BY <3>2, Zenon
  <2> QED
    BY <1>4, <2>1, <2>2, Zenon
<1>6. session'.client # k
  BY <1>1, Zenon DEF NoSession
<1>7. Promised(r.inbox) => a = "stored"
  <2>1. Answer("ready").type = "ready"
    BY AnswerTyped, Zenon
  <2>2. ASSUME Promised(<<Answer(a)>>)
        PROVE  a = "stored"
    BY <1>2, <2>2 DEF Promised
  <2>3. ASSUME Promised(<<Answer("ready"), Answer(a)>>)
        PROVE  a = "stored"
    BY <1>2, <2>1, <2>3 DEF Promised
  <2> QED
    BY <1>5, <2>2, <2>3, Zenon
<1>8. ClientSound(k)'
  BY <1>1, <1>3, <1>4, Zenon DEF ClientGood, ClientSound
<1>9. client[k].result = "none"
  BY <1>1, <1>4, Zenon DEF ClientGood, ClientSound
<1>10. Held(k)'
  BY <1>3, <1>7, <1>9, Zenon DEF Held
<1>11. faults' = 0 => Answered(k)'
  BY <1>3, <1>4, <1>5, Zenon DEF Answered
<1>12. Coming(k)'
  <2>1. Head(<<Answer(a)>>).type # "available"
    BY <1>2, OneMessage, Zenon DEF Answers
  <2>2. Head(<<Answer("ready"), Answer(a)>>).type # "available"
    <3>1. Answer("ready").type = "ready"
      BY AnswerTyped, Zenon
    <3>2. Head(<<Answer("ready"), Answer(a)>>) = Answer("ready")
      BY TwoMessages, Zenon
    <3> QED
      BY <3>1, <3>2, Zenon
  <2>3. client'[k].pc # "payload" /\ Head(client'[k].inbox).type # "available"
    BY <1>3, <1>4, <1>5, <2>1, <2>2, Zenon
  <2> QED
    BY <2>3, Zenon DEF Coming
<1> QED
  BY <1>3, <1>6, <1>8, <1>9, <1>10, <1>11, <1>12, Zenon DEF ClientGood, Failures

\* The listener comes back while its store is idle.
LEMMA ListenerBack ==
  ASSUME IInv, UNCHANGED <<pc, call>>, session' = NoSession, session.pc # "store"
  PROVE  ListenerSound'
<1>1. session'.pc = "accept"
  BY Zenon DEF NoSession
<1>2. ListenerSound
  BY Zenon DEF IInv
<1>3. SessionSound'
  BY <1>1, Zenon DEF SessionSound
<1> QED
  BY <1>1, <1>2, <1>3, Zenon DEF ListenerSound, Locked

\* A session that ends with an answer, the store idle.
LEMMA Concluded ==
  ASSUME IInv, UNCHANGED store, faults' \in {faults, faults + 1}, session' = NoSession,
         session.pc = "request", NEW a \in Answers, Deliver(<<Answer(a)>>),
         faults' = 0 => a \in GoodAnswers, a # "stored"
  PROVE  IInv'
<1>1. StoreInv' /\ (faults' = 0 => faults = 0) /\ UNCHANGED <<blob, pc, call>>
  BY StoreIdle, Zenon DEF IInv, store
<1>2. ListenerSound'
  BY <1>1, ListenerBack, Zenon
<1>3. \A k \in Clients : session.client = k => ClientGood(k)'
  BY <1>1, LastAnswer, Zenon
<1>4. <<Answer(a)>> \in Seq(Messages)
  BY AnswerTyped
<1>5. session' \in SessionRecords /\ session'.client = None
  BY NoSessionTyped, Zenon DEF NoSession
<1> QED
  BY <1>1, <1>2, <1>3, <1>4, <1>5, SessionMoves, Zenon

LEMMA RefuseKeeps ==
  ASSUME IInv, Refuse
  PROVE  IInv'
<1>1. /\ session.pc = "request" /\ Deliver(<<Answer("unauthorized")>>) /\ session' = NoSession
      /\ UNCHANGED store /\ faults' \in {faults, faults + 1}
  BY Zenon DEF Refuse, Conclude
<1>2. "unauthorized" \in Answers /\ "unauthorized" \in GoodAnswers
  BY Zenon DEF Answers, GoodAnswers, Failures
<1> QED
  BY <1>1, <1>2, Concluded, Zenon

LEMMA ServeExistsKeeps ==
  ASSUME IInv, ServeExists
  PROVE  IInv'
<1>1. PICK a \in {"exists", "missing"} :
      /\ session.pc = "request" /\ Deliver(<<Answer(a)>>) /\ session' = NoSession
      /\ UNCHANGED store /\ faults' \in {faults, faults + 1}
  BY Zenon DEF ServeExists, Conclude, Arrived
<1>2. a \in Answers /\ a \in GoodAnswers /\ a # "stored"
  BY <1>1, Zenon DEF Answers, GoodAnswers, Failures
<1> QED
  BY <1>1, <1>2, Concluded, Zenon

LEMMA ReadFailsKeeps ==
  ASSUME IInv, ReadFails
  PROVE  IInv'
<1>1. /\ session.pc = "request" /\ Deliver(<<Answer("failed")>>) /\ session' = NoSession
      /\ UNCHANGED store /\ faults' = faults + 1
  BY Zenon DEF ReadFails, Arrived
<1>2. "failed" \in Answers /\ faults' # 0 /\ faults' \in {faults, faults + 1}
  BY <1>1 DEF Answers, IInv, StoreInv, StoreTyped
<1> QED
  BY <1>1, <1>2, Concluded, Zenon

\* What the listener is asked for is what its client asked for.
LEMMA Asked ==
  ASSUME IInv, NEW t \in {"put", "get"}, Arrived(t)
  PROVE  /\ Head(session.inbox) \in Requests
         /\ Head(session.inbox).content \in Contents
         /\ session.pc = "request" /\ session.inbox # <<>>
         /\ session.received = 0 /\ Tail(session.inbox) = <<>>
         /\ \A k \in Clients : session.client = k =>
              /\ client[k].op = t /\ client[k].content = Head(session.inbox).content
              /\ Head(session.inbox) = Request(t, client[k].content)
              /\ client[k].inbox = <<>> /\ client[k].pc = "answer" /\ session.sent = 0
<1>1. /\ session.pc = "request" /\ session.inbox # <<>> /\ Head(session.inbox).type = t
      /\ session.inbox \in Seq(Messages \cup Requests)
  BY Zenon DEF Arrived, IInv, TransferTyped, SessionRecords
<1>2. Head(session.inbox) \in Messages \cup Requests
  BY <1>1, TailPromises, Zenon
<1>3. Head(session.inbox) \in Requests
  <2>1. \A m \in Messages : m.type \in Answers \cup {"ready", "available", "frame"}
    BY Zenon DEF Messages
  <2>2. t \notin Answers \cup {"ready", "available", "frame"}
    BY Zenon DEF Answers
  <2> QED
    BY <1>1, <1>2, <2>1, <2>2, Zenon
<1>4. Head(session.inbox).content \in Contents
  BY <1>3, Zenon DEF Requests
<1>5. ASSUME NEW k \in Clients, session.client = k
      PROVE  /\ client[k].op = t /\ client[k].content = Head(session.inbox).content
             /\ Head(session.inbox) = Request(t, client[k].content)
             /\ client[k].inbox = <<>> /\ client[k].pc = "answer" /\ session.sent = 0
  <2>1. InTouch(k)
    BY <1>5, Served, Zenon
  <2>2. /\ session.inbox = <<Request(client[k].op, client[k].content)>>
        /\ client[k].inbox = <<>> /\ client[k].pc = "answer" /\ session.sent = 0
    BY <1>1, <2>1, Zenon DEF InTouch
  <2>3. Head(session.inbox) = Request(client[k].op, client[k].content)
    BY <2>2, OneMessage, Zenon
  <2>4. client[k].op = t /\ client[k].content = Head(session.inbox).content
    BY <1>1, <2>3 DEF Request
  <2> QED
    BY <2>2, <2>3, <2>4, Zenon
<1>6. session.received = 0 /\ Tail(session.inbox) = <<>>
  BY <1>1, Zenon DEF IInv, ListenerSound, SessionSound
<1> QED
  BY <1>1, <1>3, <1>4, <1>5, <1>6, Zenon

LEMMA ServeGetKeeps ==
  ASSUME IInv, ServeGet
  PROVE  IInv'
<1>1. Arrived("get")
  BY Zenon DEF ServeGet
<1>2. PICK c \in Contents : c = Head(session.inbox).content
  BY <1>1, Asked, Zenon
<1>3. session.pc = "request" /\ Size[c] \in Nat /\ blob[c] \in Blobs
  BY <1>1, Asked, LocalContentStoreAssumption, Zenon DEF IInv, StoreInv, StoreTyped
<1>4. ASSUME NEW m, Conclude(m)
      PROVE  /\ Deliver(m) /\ session' = NoSession /\ UNCHANGED store
             /\ faults' = faults /\ faults' \in {faults, faults + 1}
  BY <1>4, Zenon DEF Conclude
<1>5. CASE blob[c] = "absent"
  <2>1. Conclude(<<Answer("unavailable")>>)
    BY <1>2, <1>5, Zenon DEF ServeGet, Matches
  <2>2. "unavailable" \in Answers /\ "unavailable" \in GoodAnswers
    BY Zenon DEF Answers, GoodAnswers, Failures
  <2> QED
    BY <1>3, <1>4, <2>1, <2>2, Concluded, Zenon
<1>6. CASE blob[c] # "absent" /\ ~Matches(blob[c])
  <2>1. Conclude(<<Answer("integrity")>>)
    BY <1>2, <1>6, Zenon DEF ServeGet
  <2>2. "integrity" \in Answers
    BY Zenon DEF Answers
  <2>3. faults # 0
    BY <1>3, <1>6, Zenon DEF IInv, StoreInv, BlobsAreWhole, Matches, Blobs
  <2> QED
    BY <1>3, <1>4, <2>1, <2>2, <2>3, Concluded, Zenon
<1>7. CASE blob[c] = "whole" /\ ~(Size[c] <= MaxTransfer)
  <2>1. Conclude(<<Answer("too_large")>>)
    BY <1>2, <1>7, Zenon DEF ServeGet, Matches
  <2>2. "too_large" \in Answers /\ "too_large" \in GoodAnswers
    BY Zenon DEF Answers, GoodAnswers, Failures
  <2> QED
    BY <1>3, <1>4, <2>1, <2>2, Concluded, Zenon
<1>8. CASE blob[c] = "whole" /\ Size[c] <= MaxTransfer
  <2> DEFINE n == Size[c]
             m == <<Message("available", n, "absent")>>
  <2>1. /\ Deliver(m) /\ UNCHANGED store /\ faults' = faults
        /\ session' = [session EXCEPT !.pc = "send", !.inbox = Tail(session.inbox),
                                      !.content = c, !.size = n, !.bytes = blob[c]]
    BY <1>2, <1>8, Zenon DEF ServeGet, Matches
  <2>2. m = Announced(n, 0) /\ 0 \in 0 .. Frames(n)
    <3>1. Part(n, 0, 0) = <<>> /\ Frames(n) \in Nat /\ Frames(n) \in 0 .. Frames(n)
      BY <1>3, FramesTyped, CarriesStart, Zenon
    <3>2. m \in Seq(Messages)
      <4>1. Message("available", n, "absent") \in Messages
        BY <1>3, MessageTyped, Zenon DEF Blobs
      <4> QED
        BY <4>1
    <3>3. m \o <<>> = m
      BY <3>2, JoinedEmpty, Zenon
    <3>4. 0 \in 0 .. Frames(n)
      BY <3>1
    <3> QED
      BY <3>1, <3>3, <3>4, Zenon DEF Announced
  <2>3. m \in Seq(Messages) /\ m # <<>> /\ ~Promised(m)
    <3>1. m \in Seq(Messages) /\ m # <<>>
      BY <1>3, <2>2, AnnouncedIs, Zenon
    <3>2. ~Promised(m)
      BY DEF Promised, Message
    <3> QED
      BY <3>1, <3>2, Zenon
  <2>4. StoreInv' /\ UNCHANGED <<blob, pc, call>>
    BY <2>1, StoreIdle, Zenon DEF IInv, store
  <2>5. session \in SessionRecords /\ Tail(session.inbox) \in Seq(Messages \cup Requests)
    <3>1. session.inbox \in Seq(Messages \cup Requests) /\ session.inbox # <<>>
      BY <1>1, Asked, Zenon DEF IInv, TransferTyped, SessionRecords
    <3> QED
      BY <3>1, TailPromises, Zenon DEF IInv, TransferTyped
  <2>6. /\ session' \in SessionRecords /\ session'.client = session.client
        /\ session'.pc = "send" /\ session'.content = c /\ session'.size = n
        /\ session'.bytes = "whole" /\ session'.sent = session.sent
    BY <1>3, <1>8, <2>1, <2>5, Zenon DEF SessionRecords, Blobs
  <2>7. ListenerSound'
    <3>1. ListenerSound /\ SessionSound' /\ session'.pc \notin {"payload", "store"}
          /\ session.pc # "store"
      BY <1>3, <2>6, Zenon DEF IInv, SessionSound
    <3> QED
      BY <2>4, <3>1, ListenerKept, Zenon
  <2> HIDE DEF m
  <2>8. ASSUME NEW k \in Clients, session.client = k
        PROVE  ClientGood(k)'
    <3>1. /\ client[k].op = "get" /\ client[k].content = c /\ client[k].inbox = <<>>
          /\ client[k].pc = "answer" /\ ClientGood(k) /\ session.sent = 0
      BY <1>1, <1>2, <2>8, Asked, ClientTyped, Zenon
    <3>2. PICK r \in ClientRecords :
            /\ client'[k] = r /\ r.inbox = client[k].inbox \o m
            /\ r.pc = client[k].pc /\ r.op = client[k].op /\ r.content = client[k].content
            /\ r.received = client[k].received /\ r.result = client[k].result
            /\ r.excused = client[k].excused
      BY <2>1, <2>3, <2>8, Delivered, Zenon
    <3>3. r.inbox = m
      BY <2>3, <3>1, <3>2, JoinedEmpty, Zenon
    <3>4. ClientSound(k)' /\ r.result = "none"
      BY <3>1, <3>2, Zenon DEF ClientGood, ClientSound
    <3>5. Held(k)'
      BY <2>3, <3>2, <3>3, <3>4, Zenon DEF Held
    <3>6. Coming(k)'
      BY <2>2, <3>1, <3>2, <3>3, Zenon DEF Coming
    <3>7. InTouch(k)'
      BY <1>3, <2>2, <2>6, <3>1, <3>2, <3>3, Zenon DEF InTouch
    <3> QED
      BY <2>6, <2>8, <3>2, <3>4, <3>5, <3>6, <3>7, Zenon DEF ClientGood, Failures
  <2> QED
    BY <2>1, <2>3, <2>4, <2>6, <2>7, <2>8, SessionMoves, Zenon
<1> QED
  BY <1>5, <1>6, <1>7, <1>8, Zenon DEF Matches

\* A message that promises nothing.
LEMMA JoinedPromises ==
  ASSUME NEW S, NEW q \in Seq(S), NEW m \in S, m.type # "stored", Promised(q \o <<m>>)
  PROVE  Promised(q)
<1>1. <<m>> \in Seq(S) /\ Len(<<m>>) = 1 /\ <<m>>[1] = m
  OBVIOUS
<1>2. /\ Len(q \o <<m>>) = Len(q) + 1
      /\ \A i \in 1 .. Len(q) + 1 :
           (q \o <<m>>)[i] = IF i <= Len(q) THEN q[i] ELSE <<m>>[i - Len(q)]
  BY <1>1, Joined
<1>3. PICK i \in 1 .. Len(q) + 1 : (q \o <<m>>)[i].type = "stored"
  BY <1>2, Zenon DEF Promised
<1>4. i <= Len(q)
  <2>1. CASE ~(i <= Len(q))
    <3>1. i - Len(q) = 1
      BY <1>3, <2>1
    <3>2. (q \o <<m>>)[i] = <<m>>[i - Len(q)]
      BY <1>2, <1>3, <2>1, Zenon
    <3> QED
      BY <1>1, <1>3, <3>1, <3>2
  <2> QED
    BY <2>1, Zenon
<1>5. i \in 1 .. Len(q) /\ (q \o <<m>>)[i] = q[i]
  BY <1>2, <1>3, <1>4
<1> QED
  BY <1>3, <1>5, Zenon DEF Promised

\* The next frame of the payload the client was told of.
LEMMA SendFrameKeeps ==
  ASSUME IInv, SendFrame
  PROVE  IInv'
<1>1. /\ session.pc = "send" /\ session.sent < Len(Payload) /\ session.client # None
      /\ Deliver(<<Payload[session.sent + 1]>>) /\ UNCHANGED store /\ faults' = faults
      /\ session' = [session EXCEPT !.sent = session.sent + 1] /\ session \in SessionRecords
  BY Zenon DEF SendFrame, SendsMore, HasRoom, IInv, TransferTyped
<1>2. session.client \in Clients \cup {None} /\ session.sent \in Nat
  BY <1>1, Zenon DEF SessionRecords
<1>3. PICK k \in Clients : session.client = k
  BY <1>1, <1>2, Zenon
<1> DEFINE n == Size[client[k].content]
           j == session.sent
           q == client[k].inbox
           f == Chunks(n, "whole")[j + 1]
<1>4. /\ client[k].content \in Contents /\ n \in Nat /\ j \in 0 .. Frames(n)
      /\ session.size = n /\ session.bytes = "whole"
      /\ client[k].pc \in {"answer", "payload"} /\ client[k].op = "get"
      /\ client[k].pc = "answer" => q = Announced(n, j)
      /\ client[k].pc = "payload" => Carries(n, client[k].received, q, j)
  BY <1>1, <1>3, IsSent, Zenon
<1>5. Payload = Chunks(n, "whole")
  BY <1>4, Zenon DEF Payload
<1>6. /\ Frames(n) \in Nat /\ Chunks(n, "whole") \in Seq(Messages)
      /\ Len(Chunks(n, "whole")) = Frames(n)
      /\ \A i \in 1 .. Frames(n) :
           Chunks(n, "whole")[i] = Message("frame", FrameSize(n, i), "whole")
  BY <1>4, ChunksTyped, Zenon
<1>7. j < Frames(n)
  BY <1>1, <1>5, <1>6, Zenon
<1>8. j + 1 \in 1 .. Frames(n) /\ j + 1 \in 0 .. Frames(n) /\ j + 1 \in Nat
  BY <1>2, <1>6, <1>7
<1>9. f \in Messages /\ f.type = "frame"
  <2>1. f \in Messages
    BY <1>6, <1>8, InSeq, Zenon
  <2>2. f = Message("frame", FrameSize(n, j + 1), "whole")
    BY <1>6, <1>8, Zenon
  <2>3. Message("frame", FrameSize(n, j + 1), "whole").type = "frame"
    BY Zenon DEF Message
  <2> QED
    BY <2>1, <2>2, <2>3, Zenon
<1>10. Deliver(<<f>>)
  BY <1>1, <1>5, Zenon
<1> HIDE DEF f
<1>11. <<f>> \in Seq(Messages)
  BY <1>9
<1>12. StoreInv' /\ UNCHANGED <<blob, pc, call>>
  BY <1>1, StoreIdle, Zenon DEF IInv, store
<1>13. /\ session' \in SessionRecords /\ session'.client = k /\ session'.pc = "send"
       /\ session'.content = session.content /\ session'.size = n /\ session'.bytes = "whole"
       /\ session'.sent = j + 1
  BY <1>1, <1>3, <1>4, <1>8, Zenon DEF SessionRecords
<1>14. ListenerSound'
  <2>1. ListenerSound /\ SessionSound' /\ session'.pc \notin {"payload", "store"}
        /\ session.pc # "store"
    BY <1>1, <1>13, Zenon DEF IInv, SessionSound
  <2> QED
    BY <1>12, <2>1, ListenerKept, Zenon
<1>15. ClientGood(k) /\ q \in Seq(Messages)
  BY ClientTyped, Zenon
<1>16. PICK r \in ClientRecords :
         /\ client' = [client EXCEPT ![k] = r] /\ client'[k] = r
         /\ r.inbox = q \o <<f>>
         /\ r.pc = client[k].pc /\ r.op = client[k].op /\ r.content = client[k].content
         /\ r.size = client[k].size /\ r.received = client[k].received
         /\ r.bytes = client[k].bytes /\ r.result = client[k].result
         /\ r.excused = client[k].excused
  BY <1>3, <1>10, <1>11, Delivered, Zenon
<1>17. client[k].pc = "answer" => r.inbox = Announced(n, j + 1)
  <2>1. Announced(n, j) \o <<f>> = Announced(n, j + 1)
    BY <1>4, <1>7, AnnouncedGrows, Zenon DEF f
  <2> QED
    BY <1>4, <1>16, <2>1, Zenon
<1>18. client[k].pc = "payload" => Carries(n, r.received, r.inbox, j + 1)
  <2>1. ASSUME client[k].pc = "payload"
        PROVE  Carries(n, client[k].received, q \o <<f>>, j + 1)
    BY <1>4, <1>7, <2>1, CarriesMore, Zenon DEF f
  <2> QED
    BY <1>16, <2>1, Zenon
<1>19. ClientGood(k)'
  <2>1. ClientSound(k)' /\ r.result = "none"
    BY <1>4, <1>15, <1>16, Zenon DEF ClientGood, ClientSound
  <2>2. Promised(r.inbox) => Promised(q)
    BY <1>9, <1>15, <1>16, JoinedPromises, Zenon
  <2>3. Held(k)'
    BY <1>12, <1>15, <1>16, <2>1, <2>2, Zenon DEF ClientGood, Held
  <2>4. Coming(k)'
    <3>1. ASSUME r.pc = "payload"
          PROVE  r.size = n /\ r.bytes = "whole"
      BY <1>15, <1>16, <3>1, Zenon DEF ClientGood, Coming
    <3>2. r.pc = "payload" => \E l \in 0 .. Frames(n) : Carries(n, r.received, r.inbox, l)
      BY <1>8, <1>16, <1>18, Zenon
    <3>3. r.pc = "answer" => \E l \in 0 .. Frames(n) : r.inbox = Announced(n, l)
      BY <1>8, <1>16, <1>17, Zenon
    <3>4. n = Size[client'[k].content] /\ client'[k] = r
      BY <1>16, Zenon
    <3> QED
      BY <3>1, <3>2, <3>3, <3>4 DEF Coming
  <2>5. InTouch(k)'
    BY <1>4, <1>8, <1>13, <1>16, <1>17, <1>18, Zenon DEF InTouch
  <2> QED
    BY <1>13, <1>16, <2>1, <2>3, <2>4, <2>5, Zenon DEF ClientGood, Failures
<1>20. \A i \in Clients : session.client = i => ClientGood(i)'
  BY <1>3, <1>19, Zenon
<1> QED
  BY <1>1, <1>3, <1>10, <1>11, <1>12, <1>13, <1>14, <1>20, SessionMoves, Zenon

LEMMA ServePutKeeps ==
  ASSUME IInv, ServePut
  PROVE  IInv'
<1> DEFINE q == Head(session.inbox)
<1>1. /\ Arrived("put") /\ Deliver(<<Answer("ready")>>) /\ UNCHANGED store /\ faults' = faults
      /\ session' = [session EXCEPT !.pc = "payload", !.inbox = Tail(session.inbox),
                                    !.content = q.content, !.size = q.size]
  BY Zenon DEF ServePut
<1>2. /\ q \in Requests /\ session.pc = "request" /\ session.inbox # <<>>
      /\ session \in SessionRecords
  BY <1>1, Asked, Zenon DEF IInv, TransferTyped
<1>3. q.content \in Contents /\ q.size \in Nat
  BY <1>2, Zenon DEF Requests
<1>4. Tail(session.inbox) \in Seq(Messages \cup Requests)
  BY <1>2, TailPromises, Zenon DEF SessionRecords
<1>5. /\ session' \in SessionRecords /\ session'.client = session.client
      /\ session'.pc = "payload" /\ session'.inbox = Tail(session.inbox)
      /\ session'.content = q.content /\ session'.size = q.size
      /\ session'.received = session.received
  BY <1>1, <1>2, <1>3, <1>4, Zenon DEF SessionRecords
<1>6. StoreInv' /\ UNCHANGED <<blob, pc, call>>
  BY <1>1, StoreIdle, Zenon DEF IInv, store
<1>7. ListenerSound'
  <2>1. ListenerSound /\ session'.pc # "store" /\ session.pc # "store"
    BY <1>2, <1>5, Zenon DEF IInv
  <2>2. session'.inbox = <<>> /\ session'.received = 0
    BY <1>1, <1>5, Asked, Zenon
  <2>3. 0 \in 0 .. Frames(q.size) /\ Carries(q.size, 0, <<>>, 0)
    <3>1. Frames(q.size) \in Nat /\ Frames(q.size) \in 0 .. Frames(q.size)
      BY <1>3, FramesTyped, Zenon
    <3>2. 0 \in 0 .. Frames(q.size)
      BY <3>1
    <3> QED
      BY <1>3, <3>1, <3>2, CarriesStart, Zenon
  <2>4. SessionSound'
    BY <1>5, <2>2, <2>3, Zenon DEF SessionSound
  <2> QED
    BY <1>3, <1>5, <1>6, <2>1, <2>4, ListenerKept, Zenon
<1>8. <<Answer("ready")>> \in Seq(Messages)
  BY AnswerTyped
<1>9. ASSUME NEW k \in Clients, session.client = k
      PROVE  ClientGood(k)'
  <2>1. /\ client[k].op = "put" /\ client[k].content = q.content
        /\ q = Request("put", client[k].content) /\ Tail(session.inbox) = <<>>
        /\ client[k].inbox = <<>> /\ client[k].pc = "answer" /\ session.received = 0
        /\ ClientGood(k)
    BY <1>1, <1>9, Asked, ClientTyped, Zenon
  <2>2. PICK r \in ClientRecords :
          /\ client'[k] = r /\ r.inbox = client[k].inbox \o <<Answer("ready")>>
          /\ r.pc = client[k].pc /\ r.op = client[k].op /\ r.content = client[k].content
          /\ r.received = client[k].received /\ r.result = client[k].result
          /\ r.excused = client[k].excused
    BY <1>1, <1>8, <1>9, Delivered, Zenon
  <2>3. r.inbox = <<Answer("ready")>>
    BY <1>8, <2>1, <2>2, JoinedEmpty, Zenon
  <2>4. q.size = Size[client[k].content]
    BY <2>1 DEF Request
  <2>5. InTouch(k)'
    BY <1>3, <1>5, <2>1, <2>2, <2>3, <2>4, Zenon DEF InTouch
  <2>6. ClientSound(k)' /\ r.result = "none"
    BY <2>1, <2>2, Zenon DEF ClientGood, ClientSound
  <2>7. ~Promised(<<Answer("ready")>>)
    BY AnswerTyped DEF Promised
  <2>8. Held(k)'
    BY <2>2, <2>3, <2>6, <2>7, Zenon DEF Held
  <2>9. Coming(k)'
    <3>1. Head(<<Answer("ready")>>).type = "ready"
      BY OneMessage, AnswerTyped, Zenon
    <3> QED
      BY <2>1, <2>2, <2>3, <3>1, Zenon DEF Coming
  <2> QED
    BY <1>5, <1>9, <2>2, <2>5, <2>6, <2>8, <2>9, Zenon DEF ClientGood, Failures
<1>10. faults' = 0 => faults = 0
  BY <1>1, Zenon
<1> QED
  BY <1>1, <1>5, <1>6, <1>7, <1>8, <1>9, <1>10, SessionMoves, Zenon

\* Nothing is sent: the client stays as it is.
LEMMA NothingSent ==
  ASSUME IInv, Deliver(<<>>), NEW k \in Clients, session.client = k
  PROVE  SameClient(k) /\ client'[k].excused = client[k].excused
<1>1. <<>> \in Seq(Messages)
  BY EmptySeq, Zenon
<1>2. PICK r \in ClientRecords :
        /\ client'[k] = r /\ r.inbox = client[k].inbox \o <<>>
        /\ r.pc = client[k].pc /\ r.op = client[k].op /\ r.content = client[k].content
        /\ r.size = client[k].size /\ r.received = client[k].received
        /\ r.bytes = client[k].bytes /\ r.result = client[k].result
        /\ r.excused = client[k].excused
  BY <1>1, Delivered, Zenon
<1>3. r.inbox = client[k].inbox
  BY <1>2, ClientTyped, JoinedEmpty, Zenon
<1> QED
  BY <1>2, <1>3, Zenon DEF SameClient

\* A client that knows of nothing new.
LEMMA ClientLeft ==
  ASSUME NEW k \in Clients, ClientGood(k), SameClient(k),
         client'[k].excused = client[k].excused, blob' = blob
  PROVE  ClientSound(k)' /\ Held(k)' /\ Coming(k)'
<1>1. ClientSound(k)'
  BY Zenon DEF ClientGood, ClientSound, SameClient
<1>2. Held(k)'
  BY Zenon DEF ClientGood, Held, SameClient
<1>3. Coming(k)'
  BY Zenon DEF ClientGood, Coming, SameClient
<1> QED
  BY <1>1, <1>2, <1>3, Zenon

LEMMA StillServed ==
  ASSUME IInv, NEW k \in Clients, session.client = k, session'.client = k, SameClient(k),
         client'[k].excused = client[k].excused, blob' = blob, faults' = faults, InTouch(k)'
  PROVE  ClientGood(k)'
<1>1. ClientGood(k)
  BY Zenon DEF IInv
<1>2. ClientSound(k)' /\ Held(k)' /\ Coming(k)'
  BY <1>1, ClientLeft, Zenon
<1> QED
  BY <1>1, <1>2, Zenon DEF ClientGood, SameClient

\* The whole payload is on its way.
LEMMA PayloadSentKeeps ==
  ASSUME IInv, PayloadSent
  PROVE  IInv'
<1>1. /\ session.pc = "send" /\ ~(session.sent < Len(Payload)) /\ Deliver(<<>>)
      /\ session' = NoSession /\ UNCHANGED store /\ faults' = faults
  BY Zenon DEF PayloadSent, SendsMore, Conclude
<1>2. StoreInv' /\ UNCHANGED <<blob, pc, call>>
  BY <1>1, StoreIdle, Zenon DEF IInv, store
<1>3. ListenerSound'
  BY <1>1, <1>2, ListenerBack, Zenon
<1>4. session' \in SessionRecords /\ session'.client = None
  BY <1>1, NoSessionTyped, Zenon DEF NoSession
<1>5. ASSUME NEW k \in Clients, session.client = k
      PROVE  ClientGood(k)'
  <2> DEFINE n == Size[client[k].content]
             j == session.sent
             q == client[k].inbox
  <2>1. /\ n \in Nat /\ j \in 0 .. Frames(n) /\ session.size = n /\ session.bytes = "whole"
        /\ client[k].pc \in {"answer", "payload"} /\ client[k].op = "get"
        /\ client[k].pc = "answer" => q = Announced(n, j)
        /\ client[k].pc = "payload" => Carries(n, client[k].received, q, j)
    BY <1>1, <1>5, IsSent, Zenon
  <2>2. Frames(n) \in Nat /\ Len(Payload) = Frames(n)
    BY <2>1, ChunksTyped, Zenon DEF Payload
  <2>3. j = Frames(n)
    BY <1>1, <2>1, <2>2
  <2>4. ClientGood(k) /\ k # None /\ SameClient(k) /\ client'[k].excused = client[k].excused
    BY <1>1, <1>5, ClientTyped, NothingSent, Zenon
  <2>5. ClientSound(k)' /\ Held(k)' /\ Coming(k)'
    BY <1>2, <2>4, ClientLeft, Zenon
  <2>6. Answered(k)
    <3>1. CASE client[k].pc = "answer"
      BY <2>1, <2>3, <3>1, Zenon DEF Answered
    <3>2. CASE client[k].pc = "payload"
      <4>1. client[k].size = n
        BY <2>4, <3>2, Zenon DEF ClientGood, Coming
      <4> QED
        BY <2>1, <2>3, <3>2, <4>1, Zenon DEF Answered, Flows
    <3> QED
      BY <2>1, <3>1, <3>2, Zenon
  <2>7. Answered(k)'
    BY <2>4, <2>6, Zenon DEF Answered, SameClient
  <2> QED
    BY <1>1, <1>4, <2>4, <2>5, <2>7, Zenon DEF ClientGood, SameClient
<1>6. <<>> \in Seq(Messages)
  BY EmptySeq, Zenon
<1> QED
  BY <1>1, <1>2, <1>3, <1>4, <1>5, <1>6, SessionMoves, Zenon

LEMMA ReceivePayloadKeeps ==
  ASSUME IInv, ReceivePayload
  PROVE  IInv'
<1> DEFINE q == Head(session.inbox)
           fits == FrameFits(q, session.received, session.size)
<1>1. /\ session.pc = "payload" /\ session.received < session.size /\ session.inbox # <<>>
      /\ session \in SessionRecords /\ UNCHANGED store /\ faults' = faults
  BY Zenon DEF ReceivePayload, IInv, TransferTyped
<1>2. /\ session.inbox \in Seq(Messages \cup Requests) /\ session.received \in Nat
      /\ session.client \in Clients \cup {None} /\ session.size \in Nat
  BY <1>1, Zenon DEF SessionRecords
<1>3. Tail(session.inbox) \in Seq(Messages \cup Requests)
  BY <1>1, <1>2, TailPromises, Zenon
<1>4. /\ StoreInv' /\ UNCHANGED <<blob, pc, call>> /\ ListenerSound
      /\ session.content \in Contents
  BY <1>1, StoreIdle, Zenon DEF IInv, store, ListenerSound
\* What arrives fits.
<1>8. PICK j \in 0 .. Frames(session.size) :
        Carries(session.size, session.received, session.inbox, j)
  BY <1>1, <1>4, Zenon DEF ListenerSound, SessionSound
<1>6. /\ fits /\ q.size \in Nat
      /\ Carries(session.size, session.received + q.size, Tail(session.inbox), j)
  BY <1>1, <1>2, <1>8, CarriesOn, Zenon
<1>5. ASSUME NEW k \in Clients, session.client = k
      PROVE  LET n == Size[client[k].content]
             IN  /\ client[k].pc = "stored" /\ client[k].content \in Contents
                 /\ session.content = client[k].content /\ session.size = n /\ n \in Nat
                 /\ client[k].inbox = <<>>
                 /\ Flows(n, session.received + q.size, Tail(session.inbox))
  <2>1. InTouch(k)
    BY <1>5, Served, Zenon
  <2>2. /\ client[k].pc = "stored" /\ client[k].content \in Contents
        /\ session.content = client[k].content /\ session.size = Size[client[k].content]
        /\ Flows(Size[client[k].content], session.received, session.inbox)
        /\ client[k].inbox = <<>>
    BY <1>1, <2>1, Zenon DEF InTouch
  <2>3. Size[client[k].content] \in Nat
    BY <2>2, LocalContentStoreAssumption, Zenon
  <2> QED
    BY <1>1, <2>2, <2>3, CarriesOn, Zenon DEF Flows
<1>7. QED
  <2>1. /\ Deliver(<<>>)
        /\ session' = [session EXCEPT !.received = session.received + q.size,
                                      !.inbox = Tail(session.inbox)]
    BY <1>6, Zenon DEF ReceivePayload
  <2>2. session.received + q.size \in Nat
    BY <1>2, <1>6
  <2>3. /\ session' \in SessionRecords /\ session'.client = session.client
        /\ session'.pc = "payload" /\ session'.content = session.content
        /\ session'.size = session.size /\ session'.inbox = Tail(session.inbox)
        /\ session'.received = session.received + q.size
    BY <1>1, <1>3, <2>1, <2>2, Zenon DEF SessionRecords
  <2>4. ListenerSound'
    <3>1. session'.pc # "store" /\ session.pc # "store"
      BY <1>1, <2>3, Zenon
    <3>2. SessionSound'
      BY <1>6, <1>8, <2>3, Zenon DEF SessionSound
    <3> QED
      BY <1>4, <2>3, <3>1, <3>2, ListenerKept, Zenon
  <2>5. ASSUME NEW k \in Clients, session.client = k
        PROVE  ClientGood(k)'
    <3>1. SameClient(k) /\ client'[k].excused = client[k].excused
      BY <2>1, <2>5, NothingSent, Zenon
    <3>2. InTouch(k)'
      BY <1>5, <2>3, <2>5, <3>1 DEF InTouch, SameClient
    <3> QED
      BY <1>1, <1>4, <2>3, <2>5, <3>1, <3>2, StillServed, Zenon
  <2>6. <<>> \in Seq(Messages)
    BY EmptySeq, Zenon
  <2> QED
    BY <1>1, <1>4, <2>1, <2>3, <2>4, <2>5, <2>6, SessionMoves, Zenon

LEMMA StorePayloadKeeps ==
  ASSUME IInv, StorePayload
  PROVE  IInv'
<1>1. /\ session.pc = "payload" /\ session.received = session.size /\ client' = client
      /\ session' = [session EXCEPT !.pc = "store"] /\ Begin(Listener, "put", session.content)
      /\ session \in SessionRecords /\ Listener \in Callers
  BY ContentTransferAssumption, Zenon DEF StorePayload, IInv, TransferTyped
<1>2. session.content \in Contents
  BY <1>1, Zenon DEF IInv, ListenerSound
<1>3. StoreInv' /\ blob' = blob /\ faults' = faults
  BY <1>1, <1>2, BeginStep, Zenon DEF IInv, Begin
<1>4. /\ session' \in SessionRecords /\ session'.pc = "store"
      /\ session'.client = session.client /\ session'.content = session.content
  BY <1>1, Zenon DEF SessionRecords
<1>5. /\ pc'[Listener] = "mutex"
      /\ call'[Listener] = [op |-> "put", content |-> session.content, written |-> 0]
  BY <1>1, Zenon DEF Begin, Goto, IInv, StoreInv, StoreTyped
<1>6. ListenerSound'
  BY <1>2, <1>4, <1>5 DEF ListenerSound, SessionSound, Locked
<1>7. ASSUME NEW k \in Clients
      PROVE  ClientGood(k)'
  <2>1. ClientGood(k) /\ SameClient(k) /\ client'[k].excused = client[k].excused
    BY <1>1, Zenon DEF IInv, SameClient
  <2>2. CASE session.client = k
    <3>1. InTouch(k)
      BY <2>2, Served, Zenon
    <3>2. InTouch(k)'
      BY <1>1, <1>2, <1>4, <3>1, Zenon DEF InTouch
    <3> QED
      BY <1>3, <1>4, <2>1, <2>2, <3>2, StillServed, Zenon
  <2>3. CASE session.client # k
    BY <1>3, <1>4, <2>1, <2>3, ClientKept, Zenon
  <2> QED
    BY <2>2, <2>3, Zenon
<1>8. TransferTyped'
  BY <1>1, <1>4, Zenon DEF IInv, TransferTyped
<1> QED
  BY <1>3, <1>6, <1>7, <1>8, Zenon DEF IInv

LEMMA AnswerPutKeeps ==
  ASSUME IInv, AnswerPut
  PROVE  IInv'
<1> DEFINE a == IF pc[Listener] = "ok" THEN "stored" ELSE pc[Listener]
<1>1. /\ session.pc = "store" /\ Take(Listener) /\ Deliver(<<Answer(a)>>)
      /\ session' = NoSession /\ Listener \in Callers /\ ListenerSound
  BY ContentTransferAssumption, Zenon DEF AnswerPut, IInv
<1>2. /\ StoreInv' /\ blob' = blob /\ faults' = faults /\ pc'[Listener] = "idle"
      /\ pc[Listener] \in {"ok", "no_space", "failed"}
  BY <1>1, TakeStep, Zenon DEF IInv, Take, Goto, StoreInv, StoreTyped
<1>3. /\ a \in {"stored", "no_space", "failed"} /\ a \in Answers
      /\ a = "stored" => pc[Listener] = "ok"
      /\ a # "failed" => a \in GoodAnswers
  BY <1>2, Zenon DEF Answers, GoodAnswers, Failures
<1>4. faults = 0 => a # "failed"
  BY <1>1, <1>2, Zenon DEF IInv, StoreInv
<1> HIDE DEF a
<1>5. <<Answer(a)>> \in Seq(Messages)
  BY <1>3, AnswerTyped
<1>6. session' \in SessionRecords /\ session'.client = None /\ session'.pc = "accept"
  BY <1>1, NoSessionTyped, Zenon DEF NoSession
<1>7. ListenerSound'
  BY <1>2, <1>6, Zenon DEF ListenerSound, SessionSound, Locked
<1>8. ASSUME NEW k \in Clients, session.client = k
      PROVE  ClientGood(k)'
  <2>1. InTouch(k)
    BY <1>8, Served, Zenon
  <2>2. client[k].content = session.content
    BY <1>1, <2>1, Zenon DEF InTouch
  <2>3. a = "stored" => Matches(blob[client[k].content]) \/ client[k].excused
    BY <1>1, <1>3, <1>8, <2>2, Zenon DEF ListenerSound
  <2>4. faults' = 0 => faults = 0 /\ a \in GoodAnswers
    BY <1>2, <1>3, <1>4, Zenon
  <2> QED
    BY <1>1, <1>2, <1>3, <1>8, <2>3, <2>4, LastAnswer, Zenon
<1> QED
  BY <1>1, <1>2, <1>5, <1>6, <1>7, <1>8, SessionMoves, Zenon

LEMMA SessionEndsKeeps ==
  ASSUME IInv, SessionEnds
  PROVE  IInv'
<1>1. /\ session.pc # "store" /\ session.client = None /\ Deliver(<<>>)
      /\ session' = NoSession /\ UNCHANGED store /\ faults' = faults
  BY Zenon DEF SessionEnds, Reads, SendsMore, Conclude
<1>2. StoreInv' /\ UNCHANGED <<blob, pc, call>>
  BY <1>1, StoreIdle, Zenon DEF IInv, store
<1>3. ListenerSound'
  BY <1>1, <1>2, ListenerBack, Zenon
<1>4. session' \in SessionRecords /\ session'.client = None
  BY <1>1, NoSessionTyped, Zenon DEF NoSession
<1>5. \A k \in Clients : session.client # k
  BY <1>1, ContentTransferAssumption, Zenon
<1>6. <<>> \in Seq(Messages)
  BY EmptySeq, Zenon
<1> QED
  BY <1>1, <1>2, <1>3, <1>4, <1>5, <1>6, SessionMoves, Zenon

\* A process ends.  When it is the agent, its connections end with it.
LEMMA ProcessEndsKeeps ==
  ASSUME IInv, NEW p \in Processes, ProcessEnds(p)
  PROVE  IInv'
<1>1. /\ Crash(p) /\ Listener \in Callers /\ client \in [Clients -> ClientRecords]
      /\ session \in SessionRecords /\ ListenerSound
  BY ContentTransferAssumption, Zenon DEF ProcessEnds, IInv, TransferTyped
<1>2. StoreInv' /\ blob' = blob
  BY <1>1, CrashStep, Zenon DEF IInv, Crash
<1>3. faults' # 0
  BY <1>1 DEF Crash, IInv, StoreInv, StoreTyped
<1>4. CASE p = Home[Listener]
  <2>1. session' = NoSession /\ pc'[Listener] = "idle" /\ AgentEnds
    BY <1>1, <1>4, Zenon DEF ProcessEnds, Crash, AgentEnds
  <2>6. PICK lost \in Cuts(Written) :
          client' = [k \in Clients |->
                       IF client[k].pc = "connect"
                       THEN [client[k] EXCEPT !.pc = "idle", !.result = "broken"]
                       ELSE IF session.client = k THEN [client[k] EXCEPT !.inbox = lost]
                       ELSE client[k]]
    BY <2>1, Zenon DEF AgentEnds
  <2>2. session' \in SessionRecords /\ session'.client = None /\ session'.pc = "accept"
    BY <2>1, NoSessionTyped, Zenon DEF NoSession
  <2>3. ListenerSound'
    BY <2>1, <2>2, Zenon DEF ListenerSound, SessionSound, Locked
  <2>4. ASSUME NEW k \in Clients
        PROVE  client'[k] \in ClientRecords /\ ClientGood(k)'
    <3>1. client[k] \in ClientRecords /\ ClientGood(k) /\ k # None
      BY ClientTyped, Zenon
    <3>2. session'.client # k
      BY <2>2, <3>1, Zenon
    <3>3. CASE client[k].pc = "connect"
      <4> DEFINE r == [client[k] EXCEPT !.pc = "idle", !.result = "broken"]
      <4>1. client'[k] = r
        BY <2>6, <3>3, Zenon
      <4>2. /\ r \in ClientRecords /\ r.pc = "idle" /\ r.result = "broken"
            /\ r.content = client[k].content /\ r.inbox = client[k].inbox
            /\ r.received = client[k].received
        BY <3>1, Zenon DEF ClientRecords
      <4> HIDE DEF r
      <4>3. /\ client[k].inbox = <<>> /\ client[k].content \in Contents
            /\ client[k].received = 0
        BY <3>1, <3>3, Zenon DEF ClientGood, ClientSound
      <4>4. ClientSound(k)' /\ Coming(k)'
        BY <4>1, <4>2, <4>3, Zenon DEF ClientSound, Coming
      <4>5. Held(k)'
        BY <4>1, <4>2, <4>3, NothingPromised, Zenon DEF Held
      <4> QED
        BY <1>3, <3>2, <4>1, <4>2, <4>4, <4>5, Zenon DEF ClientGood
    <3>4. CASE client[k].pc # "connect" /\ session.client = k
      <4>1. client'[k] = [client[k] EXCEPT !.inbox = lost]
        BY <2>6, <3>4, Zenon
      <4>2. lost \in Cuts(client[k].inbox)
        BY <2>6, <3>1, <3>4, Zenon DEF Written
      <4>3. client[k].pc \in {"answer", "stored", "payload"}
        BY <3>4, Served, Zenon
      <4>4. ClientSound(k)' /\ Held(k)' /\ Coming(k)' /\ client'[k] \in ClientRecords
        BY <1>2, <4>1, <4>2, <4>3, ComingCut, Zenon
      <4> QED
        BY <1>3, <3>2, <4>4, Zenon DEF ClientGood
    <3>5. CASE client[k].pc # "connect" /\ session.client # k
      <4>1. client'[k] = client[k]
        BY <2>6, <3>5, Zenon
      <4>2. SameClient(k) /\ client'[k].excused = client[k].excused
        BY <4>1, Zenon DEF SameClient
      <4>3. ClientSound(k)' /\ Held(k)' /\ Coming(k)'
        BY <1>2, <3>1, <4>2, ClientLeft, Zenon
      <4> QED
        BY <1>3, <3>1, <3>2, <4>1, <4>3, Zenon DEF ClientGood
    <3> QED
      BY <3>3, <3>4, <3>5, Zenon
  <2>5. client' \in [Clients -> ClientRecords]
    BY <2>6, <2>4, Zenon
  <2> QED
    BY <1>2, <2>2, <2>3, <2>4, <2>5, Zenon DEF IInv, TransferTyped
<1>5. CASE p # Home[Listener]
  <2>1. session' = session /\ client' = client
    BY <1>5, Zenon DEF ProcessEnds
  <2>2. SessionSound'
    BY <2>1, SessionStays, Zenon
  <2>3. pc'[Listener] = pc[Listener] /\ call'[Listener] = call[Listener]
    BY <1>1, <1>5, Zenon DEF Crash
  <2>4. session.pc \in {"payload", "store"} => session.content \in Contents
    BY <1>1, Zenon DEF ListenerSound
  <2>5. ListenerSound'
    BY <1>1, <1>2, <2>1, <2>2, <2>3, <2>4, ListenerKept, Zenon
  <2> QED
    BY <1>2, <1>3, <2>1, <2>5, StoreMoves, Zenon
<1> QED
  BY <1>4, <1>5, Zenon

-----------------------------------------------------------------------------
(* The theorems *)

\* An empty directory, idle callers and clients, and no connection.
LEMMA Starts ==
  ASSUME Init
  PROVE  IInv
<1>1. /\ blob = [c \in Contents |-> "absent"] /\ temporary = [c \in Contents |-> NoTemporary]
      /\ lockFile = None /\ pc = [x \in Callers |-> "idle"]
      /\ call = [x \in Callers |-> NoCall] /\ faults = 0
      /\ client = [k \in Clients |-> NoClient] /\ session = NoSession
  BY Zenon DEF Init, StoreInit
<1>2. StoreTyped
  BY <1>1, Zenon DEF StoreTyped, Blobs, Labels, Calls, NoCall
<1>3. BlobsAreWhole /\ \A c \in Contents : blob[c] # "damaged"
  BY <1>1, Zenon DEF BlobsAreWhole
<1>4. \A x \in Callers : pc[x] = "idle"
  BY <1>1, Zenon
<1>5. \A x \in Callers : CallSound(x)
  BY <1>4, Zenon DEF CallSound, Locked
<1>6. StoreInv
  BY <1>2, <1>3, <1>4, <1>5, Zenon DEF StoreInv
<1>7. TransferTyped
  BY <1>1, NoClientTyped, NoSessionTyped, Zenon DEF TransferTyped
<1>8. ListenerSound
  BY <1>1, <1>4, ContentTransferAssumption, Zenon
     DEF ListenerSound, SessionSound, NoSession, Locked
<1>9. ASSUME NEW k \in Clients
      PROVE  ClientGood(k)
  <2>1. client[k] = NoClient /\ session.client # k
    BY <1>1, ContentTransferAssumption, Zenon DEF NoSession
  <2>2. ClientSound(k) /\ Held(k) /\ Coming(k)
    BY <2>1, NothingPromised DEF ClientSound, Held, Coming, NoClient
  <2> QED
    BY <2>1, <2>2 DEF ClientGood, NoClient, Failures
<1> QED
  BY <1>6, <1>7, <1>8, <1>9, Zenon DEF IInv

LEMMA ClientStepKeeps ==
  ASSUME IInv, NEW k \in Clients, ClientStep(k)
  PROVE  IInv'
BY SendPayloadKeeps, ExpectPayloadKeeps, FetchPayloadKeeps, FetchedKeeps, TakeAnswerKeeps,
   GiveUpKeeps, Zenon DEF ClientStep

LEMMA ListenerStepKeeps ==
  ASSUME IInv, ListenerStep
  PROVE  IInv'
BY RefuseKeeps, ServeExistsKeeps, ServeGetKeeps, SendFrameKeeps, PayloadSentKeeps,
   ServePutKeeps, ReceivePayloadKeeps, StorePayloadKeeps, AnswerPutKeeps, SessionEndsKeeps, Zenon
   DEF ListenerStep

LEMMA CallerStepKeeps ==
  ASSUME IInv, NEW x \in Callers, CallerStep(x)
  PROVE  IInv'
BY LockMutexKeeps, LockFileKeeps, InspectKeeps, ReserveKeeps, WriteTemporaryKeeps, RenameKeeps,
   LocalTakes, UnlinkKeeps, Zenon DEF CallerStep

LEMMA StepKeeps ==
  ASSUME IInv, [Next]_vars
  PROVE  IInv'
<1>1. ASSUME NEW k \in Clients, NEW op \in {"put", "get", "exists"}, NEW c \in Contents,
             CallPeer(k, op, c)
      PROVE  IInv'
  BY <1>1, CallPeerKeeps, Zenon
<1>2. ASSUME NEW k \in Clients,
             Accept(k) \/ ConnectFails(k) \/ Disconnect(k) \/ ClientStep(k)
      PROVE  IInv'
  BY <1>2, AcceptKeeps, ConnectFailsKeeps, DisconnectKeeps, ClientStepKeeps, Zenon
<1>3. CASE ListenerStep \/ ReadFails
  BY <1>3, ListenerStepKeeps, ReadFailsKeeps, Zenon
<1>4. ASSUME NEW x \in Callers, CallerStep(x) \/ StoreFails(x)
      PROVE  IInv'
  BY <1>4, CallerStepKeeps, FailKeeps, Zenon
<1>5. ASSUME NEW x \in Local, NEW op \in {"put", "delete"}, NEW c \in LocalContents,
             CallStore(x, op, c)
      PROVE  IInv'
  BY <1>5, LocalCalls, Zenon
<1>6. ASSUME NEW p \in Processes, ProcessEnds(p)
      PROVE  IInv'
  BY <1>6, ProcessEndsKeeps, Zenon
<1>7. ASSUME NEW c \in Contents, FileSpoils(c)
      PROVE  IInv'
  BY <1>7, FileSpoilsKeeps, Zenon
<1>8. CASE UNCHANGED vars
  <2>1. UNCHANGED <<blob, temporary, mutex, lockFile, pc, call, faults, client, session>>
    BY <1>8, Zenon DEF vars, store
  <2>2. StoreInv' /\ ListenerSound'
    <3>1. UNCHANGED store
      BY <2>1, Zenon DEF store
    <3>2. StoreInv'
      BY <2>1, <3>1, StoreIdle, Zenon DEF IInv
    <3>3. ListenerSound'
      BY <2>1, Zenon DEF IInv, ListenerSound, SessionSound
    <3> QED
      BY <3>2, <3>3, Zenon
  <2> QED
    BY <2>1, <2>2, StoreMoves, Zenon
<1> QED
  BY <1>1, <1>2, <1>3, <1>4, <1>5, <1>6, <1>7, <1>8, Zenon DEF Next

LEMMA Always == Spec => []IInv
<1>1. Init => IInv
  BY Starts, Zenon
<1>2. IInv /\ [Next]_vars => IInv'
  BY StepKeeps, Zenon
<1> QED
  BY <1>1, <1>2, PTL DEF Spec

\* No blob carries its name before it has all of its bytes.
THEOREM BlobsStayWhole == Spec => []BlobsAreWhole
<1>1. IInv => BlobsAreWhole
  BY Zenon DEF IInv, StoreInv
<1> QED
  BY <1>1, Always, PTL

\* A peer that answers "stored" holds the blob, unless it was deleted or damaged
\* since the call began.
THEOREM StoredBlobsAreHeld == Spec => []StoredIsHeld
<1>1. IInv => StoredIsHeld
  BY Zenon DEF IInv, ClientGood, Held, Promised, StoredIsHeld
<1> QED
  BY <1>1, Always, PTL

\* A payload arrives whole or not at all, in frames that fit: a receiver that
\* has the announced length has all of the content, for payloads, frames and
\* windows of every size.
THEOREM PayloadsAreWhole == Spec => []PayloadIsWhole
<1>1. ASSUME IInv, NEW k \in Clients
      PROVE  /\ client[k].result # "invalid"
             /\ client[k].pc = "payload" /\ client[k].received = client[k].size =>
                  Matches(client[k].bytes) /\ client[k].received = Size[client[k].content]
  <2>1. client[k] \in ClientRecords /\ Coming(k)
    BY <1>1, ClientTyped, Zenon DEF ClientGood
  <2>2. client[k].result # "invalid"
    BY <2>1, Zenon DEF ClientRecords, Answers
  <2>3. client[k].pc = "payload" =>
          client[k].size = Size[client[k].content] /\ Matches(client[k].bytes)
    BY <2>1, Zenon DEF Coming, Matches
  <2> QED
    BY <2>2, <2>3, Zenon
<1>2. IInv => PayloadIsWhole
  BY <1>1, Zenon DEF PayloadIsWhole
<1> QED
  BY <1>2, Always, PTL

\* As long as nothing fails no transfer is broken or refused as damaged, for
\* payloads and frames of every length.
THEOREM TransfersFailForAReason == Spec => []TransferFailsForAReason
<1>1. IInv => TransferFailsForAReason
  BY Zenon DEF IInv, ClientGood, Failures, TransferFailsForAReason
<1> QED
  BY <1>1, Always, PTL
=============================================================================
