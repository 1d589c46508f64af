-------------------------- MODULE MembershipProofs --------------------------
(***************************************************************************)
(* The safety of clusters and joins, for any devices, founders and bounds; *)
(* and joins can be retried, as long as no coordinator answers with an     *)
(* error of its own.                                                       *)
(***************************************************************************)
EXTENDS Membership, FiniteSetTheorems, TLAPS

-----------------------------------------------------------------------------
(* The inductive invariant *)

\* Device d is in the cluster of coordinator k under credential c, and S is an
\* earlier roster of that cluster, not older than the entry of d.
InCluster(k, d, c, S) ==
  /\ k \in Devices
  /\ role[k] = "Coordinator"
  /\ S \subseteq roster[k]
  /\ [device |-> d, credential |-> c] \in S
  /\ [device |-> k, credential |-> credential[k]] \in S

\* A coordinator is in its own roster; codes are open only where codes were issued,
\* and only coordinators issue them.
CoordinatorSound(k) ==
  /\ role[k] = "Coordinator" => /\ home[k] = k
                                /\ Authorized(k, k, credential[k])
  /\ issued[k] # 0 => role[k] = "Coordinator"
  /\ invite[k] <= issued[k]

\* Joins are accepted by coordinators, from the device whose request id it is, and
\* are in the roster.
AcceptedSound(k) ==
  /\ IsFiniteSet(accepted[k])
  /\ \A a \in accepted[k] :
       /\ role[k] = "Coordinator"
       /\ Authorized(k, a.device, a.credential)
       /\ a.request.device = a.device

\* A join names a code that was issued and a request id that was drawn.
JoinSound(d, token, request) ==
  /\ token.number \in 1..issued[token.coordinator]
  /\ request.device = d
  /\ request.number <= requests[d]

\* A device with a pending join is in no cluster; exchanges are about the pending join.
PendingSound(d) ==
  /\ pending[d] # NoJoin => /\ role[d] = "none"
                            /\ JoinSound(d, pending[d].token, pending[d].request)
  /\ conn[d] # "idle" => pending[d] # NoJoin

\* What a grant on its way, a member's state and a roster on its way say is true.
AnswerSound(d) ==
  conn[d] = "answered" /\ answer[d].granted =>
    InCluster(pending[d].token.coordinator, d, answer[d].credential, answer[d].members)

MemberSound(d) ==
  role[d] = "Member" => InCluster(home[d], d, credential[d], roster[d])

FetchSound(d) ==
  \A t \in Threads :
    fetched[d][t] # {} =>
      role[d] = "Member" /\ InCluster(home[d], d, credential[d], fetched[d][t])

LateSound == \A m \in late : JoinSound(m.device, m.token, m.request)

\* A code that let a device in was issued and is closed.
CodesSound ==
  /\ OneIdentityPerCode
  /\ \A x \in admitted : /\ x.token.number \in 1..issued[x.token.coordinator]
                         /\ x.token.number # invite[x.token.coordinator]

Sound(d) == /\ CoordinatorSound(d) /\ AcceptedSound(d) /\ PendingSound(d)
            /\ AnswerSound(d) /\ MemberSound(d) /\ FetchSound(d)

IInv == TypeOK /\ (\A d \in Devices : Sound(d)) /\ LateSound /\ CodesSound

\* The first state satisfies the invariant.
LEMMA InitIInv == Init => IInv
<1> SUFFICES ASSUME Init PROVE IInv
  BY Zenon
<1>1. TypeOK
  BY MembershipAssumption, Zenon DEF Init, TypeOK, Refused, NoCredential, Endpoints, NoJoin
<1>2. ASSUME NEW d \in Devices
      PROVE  Sound(d)
  <2>1. CoordinatorSound(d) /\ PendingSound(d) /\ AnswerSound(d) /\ MemberSound(d)
    BY DEF Init, CoordinatorSound, PendingSound, AnswerSound, MemberSound
  <2>2. AcceptedSound(d)
    BY FS_EmptySet, Zenon DEF Init, AcceptedSound
  <2>3. FetchSound(d)
    BY Zenon DEF Init, FetchSound
  <2> QED
    BY <2>1, <2>2, <2>3, Zenon DEF Sound
<1>3. LateSound /\ CodesSound
  BY Zenon DEF Init, LateSound, CodesSound, OneIdentityPerCode
<1> QED
  BY <1>1, <1>2, <1>3, Zenon DEF IInv

-----------------------------------------------------------------------------
(* Types *)

\* No join is not a join.
LEMMA NoJoinFacts ==
  /\ NoJoin \notin Joins
  /\ NoJoin.at = Nowhere /\ NoJoin.token.coordinator = Nowhere
  /\ NoJoin.request.device = Nowhere
BY MembershipAssumption, Zenon DEF NoJoin, Joins, Tokens

\* The request of a device with a pending join.
LEMMA RequestType ==
  ASSUME TypeOK, NEW d \in Devices, pending[d] # NoJoin
  PROVE  /\ Request(d) \in Requested
         /\ Request(d).device = d
         /\ Request(d).token = pending[d].token
         /\ Request(d).request = pending[d].request
BY Zenon DEF TypeOK, Request, Requested, Joins

\* The update of a coordinator keeps the types.
LEMMA AcceptTypes ==
  ASSUME TypeOK, NEW m \in Requested, AcceptMember(m),
         IsFiniteSet(accepted[m.token.coordinator])
  PROVE  /\ roster' \in [Devices -> SUBSET Entries]
         /\ accepted' \in [Devices -> SUBSET AcceptedJoins]
         /\ invite' \in [Devices -> Nat]
         /\ admitted' \in SUBSET [token : Tokens, device : Devices]
<1> DEFINE k == m.token.coordinator
           c == [coordinator |-> k, number |-> Cardinality(accepted[k]) + 1]
<1>1. CASE UNCHANGED <<roster, accepted, invite, admitted>>
  BY <1>1, Zenon DEF TypeOK
<1>2. CASE Admit(m)
  <2>1. k \in Devices /\ m.token \in Tokens /\ m.device \in Devices /\ m.request \in RequestIds
    BY Zenon DEF Requested, Tokens
  <2>2. Cardinality(accepted[k]) \in Nat
    BY FS_CardinalityType, Zenon
  <2>3. c \in Credentials
    BY <2>1, <2>2 DEF Credentials
  <2>4. [device |-> m.device, credential |-> c] \in Entries
    BY <2>1, <2>3, Zenon DEF Entries
  <2>5. [request |-> m.request, device |-> m.device, credential |-> c] \in AcceptedJoins
    BY <2>1, <2>3, Zenon DEF AcceptedJoins
  <2>6. [token |-> m.token, device |-> m.device] \in [token : Tokens, device : Devices]
    BY <2>1, Zenon
  <2>7. /\ roster' = [roster EXCEPT ![k] = roster[k] \cup {[device |-> m.device, credential |-> c]}]
        /\ accepted' = [accepted EXCEPT ![k] = accepted[k] \cup
                          {[request |-> m.request, device |-> m.device, credential |-> c]}]
        /\ invite' = [invite EXCEPT ![k] = 0]
        /\ admitted' = admitted \cup {[token |-> m.token, device |-> m.device]}
    BY <1>2, Zenon DEF Admit
  <2> HIDE DEF c, k
  <2> QED
    BY <2>1, <2>4, <2>5, <2>6, <2>7 DEF TypeOK
<1> QED
  BY <1>1, <1>2, Zenon DEF AcceptMember

\* An answer has its type.
LEMMA AnswerTypes ==
  ASSUME NEW m \in Requested, roster' \in [Devices -> SUBSET Entries],
         accepted' \in [Devices -> SUBSET AcceptedJoins], NEW r \in Answers(m)'
  PROVE  r \in [granted : BOOLEAN, credential : Credentials \cup {NoCredential},
                members : SUBSET Entries]
<1>1. m.token.coordinator \in Devices
  BY Zenon DEF Requested, Tokens
<1>2. CASE r = Refused
  BY <1>2, Zenon DEF Refused
<1>3. CASE \E a \in Earlier(m)' : r = Grant(a.credential, roster'[m.token.coordinator])
  BY <1>1, <1>3 DEF Grant, Earlier, AcceptedJoins
<1> QED
  BY <1>2, <1>3, Zenon DEF Answers

\* Every step keeps the types.
LEMMA TypesStep ==
  ASSUME IInv, [Next]_vars
  PROVE  TypeOK'
<1> USE DEF IInv
<1>1. ASSUME NEW d \in Devices, CreateCluster(d) \/ CreateInvite(d)
      PROVE  TypeOK'
  <2>1. CASE CreateCluster(d)
    <3> DEFINE own == [coordinator |-> d, number |-> 0]
    <3>1. own \in Credentials /\ [device |-> d, credential |-> own] \in Entries
      BY Zenon DEF Credentials, Entries
    <3>2. /\ credential' = [credential EXCEPT ![d] = own]
          /\ roster' = [roster EXCEPT ![d] = {[device |-> d, credential |-> own]}]
      BY <2>1, Zenon DEF CreateCluster
    <3> HIDE DEF own
    <3> QED
      BY <2>1, <3>1, <3>2 DEF CreateCluster, TypeOK, Endpoints, transit
  <2>2. CASE CreateInvite(d)
    BY <2>2 DEF CreateInvite, TypeOK, transit
  <2> QED
    BY <1>1, <2>1, <2>2, Zenon
<1>2. ASSUME NEW d \in Devices, NEW k \in Devices, NEW n \in 1..MaxInvites, NEW at \in Endpoints,
             JoinCluster(d, [coordinator |-> k, number |-> n], at)
      PROVE  TypeOK'
  <2> DEFINE j == [at |-> at, token |-> [coordinator |-> k, number |-> n],
                   request |-> [device |-> d, number |-> requests[d] + 1]]
  <2>1. j \in Joins
    BY MembershipAssumption DEF TypeOK, Joins, Tokens, RequestIds
  <2>2. pending' \in [Devices -> Joins \cup {NoJoin}] /\ requests' \in [Devices -> Nat]
    <3>1. CASE UNCHANGED <<pending, requests>>
      BY <3>1, Zenon DEF TypeOK
    <3>2. CASE /\ pending' = [pending EXCEPT ![d] = j]
               /\ requests' = [requests EXCEPT ![d] = requests[d] + 1]
      <4> HIDE DEF j
      <4> QED BY <2>1, <3>2 DEF TypeOK
    <3> QED
      BY <1>2, <3>1, <3>2, Zenon DEF JoinCluster
  <2>3. conn' \in [Devices -> {"idle", "sent", "answered"}]
    BY <1>2, Zenon DEF JoinCluster, TypeOK
  <2> QED
    BY <1>2, <2>2, <2>3, Zenon DEF JoinCluster, TypeOK
<1>3. ASSUME NEW d \in Devices,
             GiveUp(d) \/ PeerIdentityMismatch(d) \/ JoinRefused(d) \/ HandleError(d)
      PROVE  TypeOK'
  <2>1. /\ conn' \in [Devices -> {"idle", "sent", "answered"}]
        /\ answer' \in [Devices -> [granted : BOOLEAN,
                                    credential : Credentials \cup {NoCredential},
                                    members : SUBSET Entries]]
    <3>1. /\ conn' = [conn EXCEPT ![d] = "idle"] \/ conn' = [conn EXCEPT ![d] = "answered"]
          /\ answer' = [answer EXCEPT ![d] = Refused]
      BY <1>3, Zenon DEF GiveUp, PeerIdentityMismatch, JoinRefused, HandleError, Hangup
    <3> QED
      BY <3>1, Zenon DEF Refused, TypeOK
  <2>2. late' \in SUBSET Requested
    <3>1. CASE UNCHANGED late
      BY <3>1, Zenon DEF TypeOK
    <3>2. CASE conn[d] = "sent" /\ late' = late \cup {Request(d)}
      BY <3>2, RequestType DEF TypeOK, Sound, PendingSound
    <3> QED
      BY <1>3, <3>1, <3>2, Zenon DEF GiveUp, PeerIdentityMismatch, JoinRefused, HandleError
  <2>3. pending' \in [Devices -> Joins \cup {NoJoin}] /\ errors' \in Nat
    <3>1. UNCHANGED pending \/ pending' = [pending EXCEPT ![d] = NoJoin]
      BY <1>3, Zenon DEF GiveUp, PeerIdentityMismatch, JoinRefused, HandleError, stored
    <3>2. UNCHANGED errors \/ errors' = errors + 1
      BY <1>3, Zenon DEF GiveUp, PeerIdentityMismatch, JoinRefused, HandleError
    <3>3. pending' \in [Devices -> Joins \cup {NoJoin}]
      BY <3>1, Zenon DEF TypeOK
    <3>4. errors' \in Nat
      BY <3>2 DEF TypeOK
    <3> QED
      BY <3>3, <3>4, Zenon
  <2> QED
    BY <1>3, <2>1, <2>2, <2>3, ZenonT(30)
       DEF GiveUp, PeerIdentityMismatch, JoinRefused, HandleError, stored, TypeOK
<1>4. ASSUME NEW d \in Devices, Joined(d)
      PROVE  TypeOK'
  <2>1. pending[d] # NoJoin
    BY <1>4, Zenon DEF Joined, Sound, PendingSound
  <2>2. pending[d].token.coordinator \in Devices
    BY <2>1, Zenon DEF TypeOK, Joins, Tokens
  <2>3. answer[d].credential \in Credentials \cup {NoCredential} /\ answer[d].members \subseteq Entries
    BY Zenon DEF TypeOK
  <2>4. answer' \in [Devices -> [granted : BOOLEAN,
                                credential : Credentials \cup {NoCredential},
                                members : SUBSET Entries]]
    BY <1>4, Zenon DEF Joined, Hangup, Refused, TypeOK
  <2> QED
    BY <1>4, <2>2, <2>3, <2>4, Zenon DEF Joined, Hangup, Endpoints, TypeOK
<1>5. ASSUME NEW d \in Devices, HandleJoin(d)
      PROVE  TypeOK'
  <2>1. PICK m \in Requested : m = Request(d) /\ AcceptMember(m)
                             /\ \E r \in Answers(m)' : answer' = [answer EXCEPT ![d] = r]
    BY <1>5, RequestType, Zenon DEF HandleJoin, Sound, PendingSound
  <2>2. m.token.coordinator \in Devices
    BY Zenon DEF Requested, Tokens
  <2>3. /\ roster' \in [Devices -> SUBSET Entries]
        /\ accepted' \in [Devices -> SUBSET AcceptedJoins]
        /\ invite' \in [Devices -> Nat]
        /\ admitted' \in SUBSET [token : Tokens, device : Devices]
    BY <2>1, <2>2, AcceptTypes, Zenon DEF Sound, AcceptedSound
  <2>4. answer' \in [Devices -> [granted : BOOLEAN,
                                credential : Credentials \cup {NoCredential},
                                members : SUBSET Entries]]
    BY <2>1, <2>3, AnswerTypes, ZenonT(30) DEF TypeOK
  <2> QED
    BY <1>5, <2>1, <2>3, <2>4, Zenon DEF HandleJoin, AcceptMember, TypeOK
<1>6. ASSUME HandleLate
      PROVE  TypeOK'
  <2>1. PICK m \in late : AcceptMember(m) /\ late' = late \ {m} /\ UNCHANGED <<conn, answer>>
    BY <1>6, Zenon DEF HandleLate
  <2>2. m \in Requested /\ m.token.coordinator \in Devices
    BY Zenon DEF TypeOK, Requested, Tokens
  <2>3. /\ roster' \in [Devices -> SUBSET Entries]
        /\ accepted' \in [Devices -> SUBSET AcceptedJoins]
        /\ invite' \in [Devices -> Nat]
        /\ admitted' \in SUBSET [token : Tokens, device : Devices]
    BY <2>1, <2>2, AcceptTypes, Zenon DEF Sound, AcceptedSound
  <2> QED
    BY <2>1, <2>3, Zenon DEF AcceptMember, TypeOK
<1>7. ASSUME NEW d \in Devices, NEW t \in Threads,
             FetchRoster(d, t) \/ StoreRoster(d, t) \/ LoseRoster(d, t)
      PROVE  TypeOK'
  <2>1. home[d] \in Devices \/ ~FetchRoster(d, t)
    BY Zenon DEF FetchRoster, Sound, MemberSound, InCluster
  <2>2. roster' \in [Devices -> SUBSET Entries]
    <3>1. UNCHANGED roster \/ roster' = [roster EXCEPT ![d] = fetched[d][t]]
      BY <1>7, Zenon DEF FetchRoster, StoreRoster, LoseRoster, stored
    <3>2. fetched[d] \in [Threads -> SUBSET Entries]
      BY Zenon DEF TypeOK
    <3>3. fetched[d][t] \in SUBSET Entries
      BY <3>2, Zenon
    <3> QED
      BY <3>1, <3>3, Zenon DEF TypeOK
  <2>3. PICK S \in SUBSET Entries : fetched' = [fetched EXCEPT ![d][t] = S]
    BY <1>7, <2>1, Zenon DEF FetchRoster, StoreRoster, LoseRoster, TypeOK
  <2>4. fetched' = [fetched EXCEPT ![d] = [fetched[d] EXCEPT ![t] = S]]
    BY <2>3, Zenon
  <2>5. [fetched[d] EXCEPT ![t] = S] \in [Threads -> SUBSET Entries]
    BY Zenon DEF TypeOK
  <2>6. fetched' \in [Devices -> [Threads -> SUBSET Entries]]
    BY <2>4, <2>5, Zenon DEF TypeOK
  <2>7. UNCHANGED <<role, home, credential, invite, issued, accepted, pending, requests, conn,
                    answer, late, errors, admitted>>
    BY <1>7, Zenon DEF FetchRoster, StoreRoster, LoseRoster, stored
  <2> QED
    BY <2>2, <2>6, <2>7, Zenon DEF TypeOK
<1>8. ASSUME NEW d \in Devices, Restart(d)
      PROVE  TypeOK'
  <2>1. /\ conn' \in [Devices -> {"idle", "sent", "answered"}]
        /\ answer' \in [Devices -> [granted : BOOLEAN,
                                    credential : Credentials \cup {NoCredential},
                                    members : SUBSET Entries]]
    BY <1>8, Zenon DEF Restart, Hangup, Refused, TypeOK
  <2>2. late' \in SUBSET Requested /\ fetched' \in [Devices -> [Threads -> SUBSET Entries]]
    BY <1>8, Zenon DEF Restart, TypeOK
  <2> QED
    BY <1>8, <2>1, <2>2, Zenon DEF Restart, TypeOK, stored
<1>9. CASE UNCHANGED vars
  BY <1>9, Zenon DEF vars, stored, transit, TypeOK
<1> QED
  BY <1>1, <1>2, <1>3, <1>4, <1>5, <1>6, <1>7, <1>8, <1>9, Zenon DEF Next

-----------------------------------------------------------------------------
(* What never goes back *)

\* A coordinator stays one, with its credential and a roster that only grows; the codes
\* issued, request ids drawn and joins accepted only grow.
Persists(k) ==
  /\ role[k] = "Coordinator" => /\ role'[k] = "Coordinator"
                                /\ home'[k] = home[k]
                                /\ credential'[k] = credential[k]
                                /\ roster[k] \subseteq roster'[k]
  /\ issued[k] <= issued'[k]
  /\ requests[k] <= requests'[k]
  /\ accepted[k] \subseteq accepted'[k]

\* Steps that change none of it for device k.
LEMMA StillPersists ==
  ASSUME TypeOK, NEW k \in Devices, UNCHANGED <<issued, requests, accepted>>,
         \/ UNCHANGED <<role, home, credential, roster>>
         \/ /\ role[k] = "Coordinator" => /\ role'[k] = role[k] /\ home'[k] = home[k]
                                          /\ credential'[k] = credential[k]
                                          /\ roster'[k] = roster[k]
  PROVE  Persists(k)
BY DEF Persists, TypeOK

\* The update of a coordinator.
LEMMA AcceptPersists ==
  ASSUME TypeOK, NEW k \in Devices, NEW m \in Requested, AcceptMember(m)
  PROVE  Persists(k)
<1>1. UNCHANGED <<role, home, credential, issued, requests>>
  BY Zenon DEF AcceptMember
<1>2. roster[k] \subseteq roster'[k] /\ accepted[k] \subseteq accepted'[k]
  <2>1. CASE UNCHANGED <<roster, accepted>>
    BY <2>1, Zenon
  <2>2. CASE \E e, a : /\ roster' = [roster EXCEPT ![m.token.coordinator] = @ \cup {e}]
                       /\ accepted' = [accepted EXCEPT ![m.token.coordinator] = @ \cup {a}]
    BY <2>2 DEF TypeOK
  <2> QED
    BY <2>1, <2>2, Zenon DEF AcceptMember, Admit
<1> QED
  BY <1>1, <1>2 DEF Persists, TypeOK

\* Every step.
LEMMA Persistence ==
  ASSUME IInv, [Next]_vars, NEW k \in Devices
  PROVE  Persists(k)
<1> USE DEF IInv
<1>1. ASSUME NEW d \in Devices, CreateCluster(d) \/ CreateInvite(d)
      PROVE  Persists(k)
  <2>1. CASE CreateCluster(d)
    <3>1. role[d] = "none" /\ issued[d] = 0
      BY <2>1, Zenon DEF CreateCluster, Sound, CoordinatorSound
    <3>2. \A x \in Devices \ {d} : /\ role'[x] = role[x] /\ home'[x] = home[x]
                                  /\ credential'[x] = credential[x] /\ roster'[x] = roster[x]
                                  /\ issued'[x] = issued[x]
      BY <2>1, Zenon DEF CreateCluster, TypeOK
    <3>3. UNCHANGED <<requests, accepted>> /\ issued'[d] = 1
      BY <2>1, Zenon DEF CreateCluster, TypeOK
    <3> QED
      BY <3>1, <3>2, <3>3 DEF Persists, TypeOK
  <2>2. CASE CreateInvite(d)
    <3>1. UNCHANGED <<role, home, credential, roster, requests, accepted>>
      BY <2>2, Zenon DEF CreateInvite
    <3>2. issued' = [issued EXCEPT ![d] = issued[d] + 1]
      BY <2>2, Zenon DEF CreateInvite
    <3>3. issued[k] <= issued'[k]
      BY <3>2 DEF TypeOK
    <3> QED
      BY <3>1, <3>3 DEF Persists, TypeOK
  <2> QED
    BY <1>1, <2>1, <2>2, Zenon
<1>2. ASSUME NEW d \in Devices, NEW j \in Devices, NEW n \in 1..MaxInvites, NEW at \in Endpoints,
             JoinCluster(d, [coordinator |-> j, number |-> n], at)
      PROVE  Persists(k)
  <2>1. UNCHANGED requests \/ requests' = [requests EXCEPT ![d] = requests[d] + 1]
    BY <1>2, Zenon DEF JoinCluster
  <2>2. requests[k] <= requests'[k]
    <3>1. requests \in [Devices -> Nat]
      BY Zenon DEF TypeOK
    <3>2. requests[k] \in Nat /\ (requests'[k] = requests[k] \/ requests'[k] = requests[k] + 1)
      BY <2>1, <3>1, Zenon
    <3> QED
      BY <3>2
  <2> QED
    BY <1>2, <2>2 DEF JoinCluster, Persists, TypeOK
<1>3. ASSUME NEW d \in Devices,
             \/ GiveUp(d) \/ PeerIdentityMismatch(d) \/ JoinRefused(d) \/ HandleError(d)
             \/ Restart(d)
      PROVE  Persists(k)
  BY <1>3, StillPersists, Zenon
     DEF GiveUp, PeerIdentityMismatch, JoinRefused, HandleError, Restart, stored
<1>4. ASSUME NEW d \in Devices, Joined(d)
      PROVE  Persists(k)
  <2>1. role[d] # "Coordinator"
    BY <1>4, Zenon DEF Joined, Sound, PendingSound
  <2> QED
    BY <1>4, <2>1, StillPersists, Zenon DEF Joined, TypeOK
<1>5. ASSUME NEW d \in Devices, HandleJoin(d)
      PROVE  Persists(k)
  <2>1. Request(d) \in Requested
    BY <1>5, RequestType, Zenon DEF HandleJoin, Sound, PendingSound
  <2> QED
    BY <1>5, <2>1, AcceptPersists, Zenon DEF HandleJoin
<1>6. ASSUME HandleLate
      PROVE  Persists(k)
  BY <1>6, AcceptPersists, Zenon DEF HandleLate, TypeOK
<1>7. ASSUME NEW d \in Devices, NEW t \in Threads,
             FetchRoster(d, t) \/ StoreRoster(d, t) \/ LoseRoster(d, t)
      PROVE  Persists(k)
  <2>1. fetched[d][t] # {} => role[d] # "Coordinator"
    BY Zenon DEF Sound, FetchSound
  <2>2. CASE StoreRoster(d, t)
    BY <2>1, <2>2, StillPersists, Zenon DEF StoreRoster, TypeOK
  <2> QED
    BY <1>7, <2>2, StillPersists, Zenon DEF FetchRoster, LoseRoster, stored
<1>8. CASE UNCHANGED vars
  BY <1>8, StillPersists, Zenon DEF vars, stored
<1> QED
  BY <1>1, <1>2, <1>3, <1>4, <1>5, <1>6, <1>7, <1>8, Zenon DEF Next

\* A coordinator whose codes and accepted joins a step leaves alone.
LEMMA CoordinatorLeftAlone ==
  ASSUME IInv, TypeOK', NEW k \in Devices, Persists(k),
         role'[k] = "Coordinator" => role[k] = "Coordinator",
         UNCHANGED <<invite[k], issued[k], accepted[k]>>
  PROVE  CoordinatorSound(k)' /\ AcceptedSound(k)'
<1>1. CoordinatorSound(k) /\ AcceptedSound(k)
  BY Zenon DEF IInv, Sound
<1>2. CoordinatorSound(k)'
  BY <1>1, Zenon DEF CoordinatorSound, Persists, Authorized
<1>3. AcceptedSound(k)'
  BY <1>1, Zenon DEF AcceptedSound, Persists, Authorized
<1> QED
  BY <1>2, <1>3, Zenon

\* Numbers are natural numbers.
LEMMA Counters ==
  ASSUME TypeOK, TypeOK', NEW d \in Devices
  PROVE  /\ issued[d] \in Nat /\ invite[d] \in Nat /\ requests[d] \in Nat
         /\ issued'[d] \in Nat /\ requests'[d] \in Nat
BY Zenon DEF TypeOK

\* Every variable of a device is a function on the devices.
LEMMA Shapes ==
  ASSUME TypeOK
  PROVE  /\ DOMAIN role = Devices /\ DOMAIN home = Devices /\ DOMAIN credential = Devices
         /\ DOMAIN invite = Devices /\ DOMAIN issued = Devices /\ DOMAIN roster = Devices
         /\ DOMAIN accepted = Devices /\ DOMAIN pending = Devices /\ DOMAIN conn = Devices
         /\ DOMAIN answer = Devices /\ DOMAIN fetched = Devices
         /\ \A d \in Devices : DOMAIN fetched[d] = Threads
BY Zenon DEF TypeOK

\* A join stays one that names a code that was issued and an id that was drawn.
LEMMA JoinSoundStays ==
  ASSUME TypeOK, TypeOK', \A k \in Devices : Persists(k), NEW d \in Devices, NEW t, NEW r,
         t.coordinator \in Devices, t.number \in Nat, r.number \in Nat, JoinSound(d, t, r)
  PROVE  JoinSound(d, t, r)'
<1>1. issued[t.coordinator] <= issued'[t.coordinator] /\ requests[d] <= requests'[d]
  BY Zenon DEF Persists
<1> QED
  BY <1>1, Counters DEF JoinSound

\* What a device knows stays true while it is left alone.
LEMMA DeviceLeftAlone ==
  ASSUME IInv, TypeOK', NEW d \in Devices, \A k \in Devices : Persists(k),
         UNCHANGED <<role[d], home[d], credential[d], pending[d], conn[d], answer[d], fetched[d]>>,
         role[d] = "Member" => roster'[d] = roster[d]
  PROVE  PendingSound(d)' /\ AnswerSound(d)' /\ MemberSound(d)' /\ FetchSound(d)'
<1>1. PendingSound(d) /\ AnswerSound(d) /\ MemberSound(d) /\ FetchSound(d)
  BY Zenon DEF IInv, Sound
<1>2. PendingSound(d)'
  <2>1. CASE pending[d] = NoJoin
    BY <1>1, <2>1, Zenon DEF PendingSound
  <2>2. CASE pending[d] # NoJoin
    <3>1. pending[d].token.coordinator \in Devices /\ pending[d].request.number \in Nat
          /\ pending[d].token.number \in Nat
      BY <2>2 DEF IInv, TypeOK, Joins, Tokens, RequestIds
    <3>2. PICK t, r : t = pending[d].token /\ r = pending[d].request
      BY Zenon
    <3>3. JoinSound(d, t, r)'
      BY <1>1, <2>2, <3>1, <3>2, JoinSoundStays, Zenon DEF PendingSound, IInv
    <3> QED
      BY <1>1, <2>2, <3>2, <3>3, Zenon DEF PendingSound
  <2> QED
    BY <2>1, <2>2, Zenon
<1>3. AnswerSound(d)'
  BY <1>1, ZenonT(30) DEF AnswerSound, InCluster, Persists
<1>4. MemberSound(d)'
  BY <1>1, Zenon DEF MemberSound, InCluster, Persists
<1>5. FetchSound(d)'
  BY <1>1, Zenon DEF FetchSound, InCluster, Persists
<1> QED
  BY <1>2, <1>3, <1>4, <1>5, Zenon

\* Requests on their way, and codes that were used, while no request is added and no
\* code opened or used.
LEMMA TransitLeftAlone ==
  ASSUME IInv, TypeOK', \A k \in Devices : Persists(k)
  PROVE  /\ late' \subseteq late => LateSound'
         /\ UNCHANGED <<invite, admitted>> => CodesSound'
<1>1. ASSUME NEW m \in late
      PROVE  JoinSound(m.device, m.token, m.request)'
  <2>1. /\ m.device \in Devices /\ m.token.coordinator \in Devices
        /\ m.request.number \in Nat /\ m.token.number \in Nat
    BY Zenon DEF IInv, TypeOK, Requested, Tokens, RequestIds
  <2>2. JoinSound(m.device, m.token, m.request)
    BY Zenon DEF IInv, LateSound
  <2> QED
    BY <2>1, <2>2, JoinSoundStays, Zenon DEF IInv
<1>2. ASSUME NEW x \in admitted
      PROVE  x.token.number \in 1..issued'[x.token.coordinator]
  <2>1. x.token.coordinator \in Devices /\ x.token.number \in Nat
    BY Zenon DEF IInv, TypeOK, Tokens
  <2>2. x.token.number \in 1..issued[x.token.coordinator]
    BY Zenon DEF IInv, CodesSound
  <2> QED
    BY <2>1, <2>2 DEF Persists, IInv, TypeOK
<1> QED
  BY <1>1, <1>2, Zenon DEF LateSound, CodesSound, IInv, OneIdentityPerCode

-----------------------------------------------------------------------------
(* Every action preserves the invariant *)

\* The invariant of the next state, when its types are known.
Preserved == (\A x \in Devices : Sound(x)') /\ LateSound' /\ CodesSound'

\* create_cluster
LEMMA CreateClusterSound ==
  ASSUME IInv, TypeOK', \A k \in Devices : Persists(k), NEW d \in Devices, CreateCluster(d)
  PROVE  Preserved
<1> USE DEF IInv
<1>1. /\ role[d] = "none" /\ issued[d] = 0 /\ pending[d] = NoJoin /\ conn[d] = "idle"
      /\ accepted[d] = {} /\ \A t \in Threads : fetched[d][t] = {}
  BY Zenon DEF CreateCluster, Sound, CoordinatorSound, PendingSound, AcceptedSound, FetchSound
<1>2. UNCHANGED <<accepted, pending, conn, answer, late, fetched, admitted>>
  BY Zenon DEF CreateCluster, transit
<1>3. /\ role'[d] = "Coordinator" /\ home'[d] = d /\ issued'[d] = 1 /\ invite'[d] = 1
      /\ Authorized(d, d, credential[d])'
  BY Shapes, Zenon DEF CreateCluster, Authorized
<1>4. ASSUME NEW x \in Devices, x # d
      PROVE  UNCHANGED <<role[x], home[x], credential[x], roster[x], invite[x], issued[x]>>
  BY <1>4, Shapes, Zenon DEF CreateCluster
<1>5. ASSUME NEW x \in Devices
      PROVE  Sound(x)'
  <2>1. CASE x # d
    BY <1>2, <1>4, <2>1, CoordinatorLeftAlone, DeviceLeftAlone, Zenon DEF Sound
  <2>2. CASE x = d
    <3>1. CoordinatorSound(d)'
      BY <1>3 DEF CoordinatorSound
    <3>2. AcceptedSound(d)'
      BY <1>1, <1>2, FS_EmptySet, Zenon DEF AcceptedSound
    <3>3. PendingSound(d)' /\ AnswerSound(d)' /\ MemberSound(d)' /\ FetchSound(d)'
      BY <1>1, <1>2, <1>3, Zenon DEF PendingSound, AnswerSound, MemberSound, FetchSound
    <3> QED
      BY <2>2, <3>1, <3>2, <3>3, Zenon DEF Sound
  <2> QED
    BY <2>1, <2>2, Zenon
<1>6. CodesSound'
  <2>1. ASSUME NEW x \in admitted
        PROVE  /\ x.token.number \in 1..issued'[x.token.coordinator]
               /\ x.token.number # invite'[x.token.coordinator]
    <3>1. /\ x.token.number \in 1..issued[x.token.coordinator]
          /\ x.token.number # invite[x.token.coordinator]
      BY Zenon DEF CodesSound
    <3>2. x.token.coordinator \in Devices /\ x.token.coordinator # d
      BY <1>1, <3>1 DEF TypeOK, Tokens
    <3> QED
      BY <1>4, <3>1, <3>2, Zenon
  <2> QED
    BY <1>2, <2>1, Zenon DEF CodesSound, OneIdentityPerCode
<1> QED
  BY <1>2, <1>5, <1>6, TransitLeftAlone, Zenon DEF Preserved

\* create_invite
LEMMA CreateInviteSound ==
  ASSUME IInv, TypeOK', \A k \in Devices : Persists(k), NEW d \in Devices, CreateInvite(d)
  PROVE  Preserved
<1> USE DEF IInv
<1>1. /\ role[d] = "Coordinator"
      /\ UNCHANGED <<role, home, credential, roster, accepted, pending, conn, answer, late,
                     fetched, admitted>>
  BY Zenon DEF CreateInvite, transit
<1>2. /\ invite' = [invite EXCEPT ![d] = issued[d] + 1]
      /\ issued' = [issued EXCEPT ![d] = issued[d] + 1]
  BY Zenon DEF CreateInvite
<1>3. ASSUME NEW x \in Devices
      PROVE  Sound(x)'
  <2>1. PendingSound(x)' /\ AnswerSound(x)' /\ MemberSound(x)' /\ FetchSound(x)'
    BY <1>1, DeviceLeftAlone, Zenon
  <2>2. AcceptedSound(x)'
    BY <1>1, Zenon DEF Sound, AcceptedSound, Authorized
  <2>3. CoordinatorSound(x)'
    <3>1. \/ UNCHANGED <<invite[x], issued[x]>>
          \/ x = d /\ invite'[d] = issued[d] + 1 /\ issued'[d] = issued[d] + 1
      BY <1>2, ZenonT(30) DEF TypeOK
    <3>2. invite'[x] <= issued'[x]
      BY <3>1, Counters DEF Sound, CoordinatorSound
    <3> QED
      BY <1>1, <3>1, <3>2, Zenon DEF Sound, CoordinatorSound, Authorized
  <2> QED
    BY <2>1, <2>2, <2>3, Zenon DEF Sound
<1>4. CodesSound'
  <2>1. ASSUME NEW x \in admitted
        PROVE  /\ x.token.number \in 1..issued'[x.token.coordinator]
               /\ x.token.number # invite'[x.token.coordinator]
    <3>1. /\ x.token.number \in 1..issued[x.token.coordinator]
          /\ x.token.number # invite[x.token.coordinator]
      BY Zenon DEF CodesSound
    <3>2. x.token.coordinator \in Devices /\ issued[x.token.coordinator] \in Nat
      BY Zenon DEF TypeOK, Tokens
    <3> QED
      BY <1>2, <3>1, <3>2 DEF TypeOK
  <2> QED
    BY <1>1, <2>1, Zenon DEF CodesSound, OneIdentityPerCode
<1> QED
  BY <1>1, <1>3, <1>4, TransitLeftAlone, Zenon DEF Preserved

\* join_cluster, up to the request
LEMMA JoinClusterSound ==
  ASSUME IInv, TypeOK', \A k \in Devices : Persists(k), NEW d \in Devices,
         NEW k \in Devices, NEW n \in 1..MaxInvites, NEW at \in Endpoints,
         JoinCluster(d, [coordinator |-> k, number |-> n], at)
  PROVE  Preserved
<1> USE DEF IInv
<1> DEFINE t == [coordinator |-> k, number |-> n]
<1>1. UNCHANGED <<role, home, credential, invite, issued, roster, accepted, answer, late,
                  fetched, admitted>>
  BY Zenon DEF JoinCluster
<1>2. role[d] = "none" /\ conn' = [conn EXCEPT ![d] = "sent"]
  BY Zenon DEF JoinCluster
<1>3. \A x \in Devices \ {d} : pending'[x] = pending[x] /\ conn'[x] = conn[x]
  BY Shapes, Zenon DEF JoinCluster
<1>4. PendingSound(d)'
  <2>1. CASE pending[d].token = t /\ UNCHANGED <<pending, requests>>
    <3>1. pending[d] # NoJoin
      BY <2>1, NoJoinFacts, MembershipAssumption
    <3> QED
      BY <1>1, <1>2, <2>1, <3>1, Zenon DEF Sound, PendingSound, JoinSound
  <2>2. CASE /\ pending' = [pending EXCEPT ![d] = [at |-> at, token |-> t,
                               request |-> [device |-> d, number |-> requests[d] + 1]]]
             /\ requests' = [requests EXCEPT ![d] = requests[d] + 1]
    <3>1. /\ pending'[d].token = t
          /\ pending'[d].request = [device |-> d, number |-> requests[d] + 1]
      BY <2>2, Zenon DEF TypeOK
    <3>2. t.number \in 1..issued'[t.coordinator]
      <4>1. t.number <= issued[t.coordinator]
        BY Zenon DEF JoinCluster
      <4>2. issued[k] \in Nat /\ n \in Nat /\ n >= 1 /\ MaxInvites \in Nat
        BY MembershipAssumption DEF TypeOK
      <4> QED
        BY <1>1, <4>1, <4>2
    <3>3. requests'[d] = requests[d] + 1 /\ requests[d] \in Nat
      BY <2>2, Zenon DEF TypeOK
    <3> HIDE DEF t
    <3>4. JoinSound(d, pending[d].token, pending[d].request)'
      BY <3>1, <3>2, <3>3 DEF JoinSound
    <3>5. pending'[d] # NoJoin
      BY <3>1, NoJoinFacts, MembershipAssumption
    <3> QED
      BY <1>1, <1>2, <3>4, <3>5, Zenon DEF PendingSound
  <2> QED
    BY <2>1, <2>2, Zenon DEF JoinCluster
<1>5. AnswerSound(d)' /\ MemberSound(d)' /\ FetchSound(d)'
  <2>1. conn'[d] = "sent" /\ role'[d] = "none"
    BY <1>1, <1>2 DEF TypeOK
  <2>2. \A h \in Threads : fetched'[d][h] = {}
    BY <1>1, <1>2, Zenon DEF Sound, FetchSound
  <2> QED
    BY <2>1, <2>2, Zenon DEF AnswerSound, MemberSound, FetchSound
<1>6. ASSUME NEW x \in Devices
      PROVE  Sound(x)'
  <2>1. CoordinatorSound(x)' /\ AcceptedSound(x)'
    BY <1>1, CoordinatorLeftAlone, Zenon
  <2>2. CASE x = d
    BY <1>4, <1>5, <2>1, <2>2, Zenon DEF Sound
  <2>3. CASE x # d
    BY <1>1, <1>3, <2>1, <2>3, DeviceLeftAlone, Zenon DEF Sound
  <2> QED
    BY <2>2, <2>3, Zenon
<1> QED
  BY <1>1, <1>6, TransitLeftAlone, Zenon DEF Preserved

\* The ends of an exchange that do not make a member, and a restart
LEMMA ExchangeEndsSound ==
  ASSUME IInv, TypeOK', \A k \in Devices : Persists(k), NEW d \in Devices,
         \/ GiveUp(d) \/ PeerIdentityMismatch(d) \/ JoinRefused(d) \/ HandleError(d)
         \/ Restart(d)
  PROVE  Preserved
<1> USE DEF IInv
<1>1. UNCHANGED <<role, home, credential, invite, issued, roster, accepted, requests, admitted>>
  BY Zenon DEF GiveUp, PeerIdentityMismatch, JoinRefused, HandleError, Restart, stored
<1>2. /\ answer' = [answer EXCEPT ![d] = Refused]
      /\ \/ conn' = [conn EXCEPT ![d] = "idle"]
         \/ conn' = [conn EXCEPT ![d] = "answered"] /\ conn[d] = "sent" /\ UNCHANGED pending
  BY Zenon DEF GiveUp, PeerIdentityMismatch, JoinRefused, HandleError, Restart, Hangup, stored
<1>3. UNCHANGED pending \/ pending' = [pending EXCEPT ![d] = NoJoin]
  BY Zenon DEF GiveUp, PeerIdentityMismatch, JoinRefused, HandleError, Restart, stored
<1>4. UNCHANGED fetched \/ fetched' = [fetched EXCEPT ![d] = [t \in Threads |-> {}]]
  BY Zenon DEF GiveUp, PeerIdentityMismatch, JoinRefused, HandleError, Restart
<1>5. ASSUME NEW x \in Devices, x # d
      PROVE  UNCHANGED <<pending[x], conn[x], answer[x], fetched[x]>>
  BY <1>2, <1>3, <1>4, <1>5, Shapes, Zenon
<1>6. PendingSound(d)'
  <2>1. conn'[d] # "idle" => pending'[d] # NoJoin
    BY <1>2, ZenonT(30) DEF Sound, PendingSound, TypeOK
  <2>2. pending'[d] # NoJoin => pending'[d] = pending[d]
    BY <1>3, Zenon DEF TypeOK
  <2> QED
    BY <1>1, <2>1, <2>2, Zenon DEF Sound, PendingSound, JoinSound
<1>7. AnswerSound(d)' /\ MemberSound(d)' /\ FetchSound(d)'
  <2>1. ~answer'[d].granted
    BY <1>2, Shapes, Zenon DEF Refused
  <2>2. FetchSound(d)'
    <3>1. \A t \in Threads : fetched'[d][t] # {} => fetched'[d][t] = fetched[d][t]
      BY <1>4, Shapes, Zenon
    <3> QED
      BY <1>1, <3>1, Zenon DEF Sound, FetchSound, InCluster
  <2>3. MemberSound(d)'
    BY <1>1, Zenon DEF Sound, MemberSound, InCluster
  <2> QED
    BY <2>1, <2>2, <2>3, Zenon DEF AnswerSound
<1>8. ASSUME NEW x \in Devices
      PROVE  Sound(x)'
  <2>1. CoordinatorSound(x)' /\ AcceptedSound(x)'
    BY <1>1, CoordinatorLeftAlone, Zenon
  <2>2. CASE x = d
    BY <1>6, <1>7, <2>1, <2>2, Zenon DEF Sound
  <2>3. CASE x # d
    BY <1>1, <1>5, <2>1, <2>3, DeviceLeftAlone, Zenon DEF Sound
  <2> QED
    BY <2>2, <2>3, Zenon
<1>9. LateSound'
  <2>1. CASE late' \subseteq late
    BY <2>1, TransitLeftAlone, Zenon
  <2>2. CASE conn[d] = "sent" /\ late' = late \cup {Request(d)}
    <3>1. pending[d] # NoJoin /\ JoinSound(d, pending[d].token, pending[d].request)
      BY <2>2, Zenon DEF Sound, PendingSound
    <3>2. PICK m : m = Request(d)
      BY Zenon
    <3>3. JoinSound(m.device, m.token, m.request)'
      BY <1>1, <3>1, <3>2, RequestType, Zenon DEF JoinSound
    <3>4. \A x \in late : JoinSound(x.device, x.token, x.request)'
      BY <1>1, Zenon DEF LateSound, JoinSound
    <3> QED
      BY <2>2, <3>2, <3>3, <3>4, Zenon DEF LateSound
  <2> QED
    BY <2>1, <2>2, Zenon DEF GiveUp, PeerIdentityMismatch, JoinRefused, HandleError, Restart
<1> QED
  BY <1>1, <1>8, <1>9, TransitLeftAlone, Zenon DEF Preserved

\* The end of an exchange that makes a member
LEMMA JoinedSound ==
  ASSUME IInv, TypeOK', \A k \in Devices : Persists(k), NEW d \in Devices, Joined(d)
  PROVE  Preserved
<1> USE DEF IInv
<1>1. UNCHANGED <<invite, issued, accepted, requests, late, fetched, admitted>>
  BY Zenon DEF Joined
<1>2. /\ role'[d] = "Member" /\ home'[d] = pending[d].token.coordinator
      /\ credential'[d] = answer[d].credential /\ roster'[d] = answer[d].members
      /\ pending'[d] = NoJoin /\ conn'[d] = "idle"
  BY Shapes, Zenon DEF Joined, Hangup
<1>3. ASSUME NEW x \in Devices, x # d
      PROVE  UNCHANGED <<role[x], home[x], credential[x], roster[x], pending[x], conn[x], answer[x]>>
  BY <1>3, Shapes, Zenon DEF Joined, Hangup
<1>4. /\ role[d] = "none"
      /\ InCluster(pending[d].token.coordinator, d, answer[d].credential, answer[d].members)
  BY Zenon DEF Joined, Sound, PendingSound, AnswerSound
<1>5. PendingSound(d)' /\ AnswerSound(d)'
  BY <1>2, Zenon DEF PendingSound, AnswerSound
<1>6. MemberSound(d)'
  <2>1. PICK k \in Devices : k = pending[d].token.coordinator
    BY <1>4, Zenon DEF InCluster
  <2>2. k # d /\ Persists(k)
    BY <1>4, <2>1, Zenon DEF InCluster
  <2> QED
    BY <1>2, <1>3, <1>4, <2>1, <2>2, Zenon DEF MemberSound, InCluster, Persists
<1>7. FetchSound(d)'
  BY <1>1, <1>4, Zenon DEF Sound, FetchSound
<1>8. ASSUME NEW x \in Devices
      PROVE  Sound(x)'
  <2>1. CoordinatorSound(x)' /\ AcceptedSound(x)'
    BY <1>1, <1>2, <1>3, CoordinatorLeftAlone, Zenon
  <2>2. CASE x = d
    BY <1>5, <1>6, <1>7, <2>1, <2>2, Zenon DEF Sound
  <2>3. CASE x # d
    BY <1>1, <1>3, <2>1, <2>3, DeviceLeftAlone, Zenon DEF Sound
  <2> QED
    BY <2>2, <2>3, Zenon
<1> QED
  BY <1>1, <1>8, TransitLeftAlone, Zenon DEF Preserved

\* remote_members, store_roster
LEMMA RosterSound ==
  ASSUME IInv, TypeOK', \A k \in Devices : Persists(k), NEW d \in Devices, NEW t \in Threads,
         FetchRoster(d, t) \/ StoreRoster(d, t) \/ LoseRoster(d, t)
  PROVE  Preserved
<1> USE DEF IInv
<1>1. UNCHANGED <<role, home, credential, invite, issued, accepted, pending, requests, conn,
                  answer, late, admitted>>
  BY Zenon DEF FetchRoster, StoreRoster, LoseRoster, stored
<1>2. ASSUME NEW x \in Devices, x # d
      PROVE  UNCHANGED <<roster[x], fetched[x]>>
  BY <1>2, Shapes, Zenon DEF FetchRoster, StoreRoster, LoseRoster, stored
<1>3. PICK S : /\ fetched' = [fetched EXCEPT ![d][t] = S]
               /\ S = {} \/ (FetchRoster(d, t) /\ S = roster[home[d]])
  BY Zenon DEF FetchRoster, StoreRoster, LoseRoster
<1>4. /\ fetched'[d][t] = S
      /\ \A h \in Threads \ {t} : fetched'[d][h] = fetched[d][h]
  BY <1>3, Shapes, Zenon
<1>5. S # {} => role[d] = "Member" /\ InCluster(home[d], d, credential[d], S)
  <2>1. ASSUME S # {}
        PROVE  role[d] = "Member" /\ InCluster(home[d], d, credential[d], S)
    <3>1. /\ role[d] = "Member" /\ InCluster(home[d], d, credential[d], roster[d])
          /\ S = roster[home[d]] /\ Authorized(home[d], d, credential[d])
      BY <1>3, <2>1, Zenon DEF FetchRoster, Sound, MemberSound
    <3>2. home[d] \in Devices /\ Authorized(home[d], home[d], credential[home[d]])
      BY <3>1, Zenon DEF InCluster, Sound, CoordinatorSound
    <3> QED
      BY <3>1, <3>2, Zenon DEF InCluster, Authorized
  <2> QED
    BY <2>1, Zenon
<1>6. FetchSound(d)'
  <2>1. ASSUME NEW h \in Threads, fetched'[d][h] # {}
        PROVE  role[d] = "Member" /\ InCluster(home[d], d, credential[d], fetched'[d][h])
    <3>1. CASE h = t
      BY <1>4, <1>5, <2>1, <3>1, Zenon
    <3>2. CASE h # t
      <4>1. fetched'[d][h] = fetched[d][h]
        BY <1>4, <3>2, Zenon
      <4> QED
        BY <2>1, <4>1, Zenon DEF Sound, FetchSound, InCluster
    <3> QED
      BY <3>1, <3>2, Zenon
  <2> QED
    BY <1>1, <2>1, Zenon DEF FetchSound, InCluster, Persists
<1>7. MemberSound(d)'
  <2>1. CASE UNCHANGED roster
    BY <1>1, <2>1, Zenon DEF Sound, MemberSound, InCluster
  <2>2. CASE StoreRoster(d, t)
    <3>1. roster'[d] = fetched[d][t] /\ fetched[d][t] # {}
      BY <2>2, Zenon DEF StoreRoster, TypeOK
    <3>2. InCluster(home[d], d, credential[d], fetched[d][t])
      BY <3>1, Zenon DEF Sound, FetchSound
    <3> QED
      BY <1>1, <3>1, <3>2, Zenon DEF MemberSound, InCluster, Persists
  <2> QED
    BY <2>1, <2>2, Zenon DEF FetchRoster, LoseRoster, stored
<1>8. ASSUME NEW x \in Devices
      PROVE  Sound(x)'
  <2>1. CoordinatorSound(x)' /\ AcceptedSound(x)'
    BY <1>1, CoordinatorLeftAlone, Zenon
  <2>2. CASE x = d
    <3>1. PendingSound(d)'
      BY <1>1, Zenon DEF Sound, PendingSound, JoinSound
    <3>2. AnswerSound(d)'
      BY <1>1, Zenon DEF Sound, AnswerSound, InCluster, Persists
    <3> QED
      BY <1>6, <1>7, <2>1, <2>2, <3>1, <3>2, Zenon DEF Sound
  <2>3. CASE x # d
    BY <1>1, <1>2, <2>1, <2>3, DeviceLeftAlone, Zenon DEF Sound
  <2> QED
    BY <2>2, <2>3, Zenon
<1> QED
  BY <1>1, <1>8, TransitLeftAlone, Zenon DEF Preserved

\* accept_member: a code is used up by the device it lets in.
LEMMA AcceptSound ==
  ASSUME IInv, TypeOK', \A k \in Devices : Persists(k), NEW m \in Requested,
         JoinSound(m.device, m.token, m.request), AcceptMember(m)
  PROVE  /\ \A x \in Devices : CoordinatorSound(x)' /\ AcceptedSound(x)'
         /\ \A x \in Devices : role[x] = "Member" => roster'[x] = roster[x]
         /\ CodesSound'
<1> USE DEF IInv
<1>1. UNCHANGED <<role, home, credential, issued, pending, requests, fetched>>
  BY Zenon DEF AcceptMember
<1>2. CASE UNCHANGED <<roster, accepted, invite, admitted>>
  <2>1. \A x \in Devices : CoordinatorSound(x)' /\ AcceptedSound(x)'
    BY <1>1, <1>2, CoordinatorLeftAlone, Zenon
  <2> QED
    BY <1>2, <2>1, TransitLeftAlone, Zenon
<1>3. CASE Admissible(m) /\ Admit(m)
  <2> DEFINE k == m.token.coordinator
             c == [coordinator |-> k, number |-> Cardinality(accepted[k]) + 1]
             a == [request |-> m.request, device |-> m.device, credential |-> c]
             e == [device |-> m.device, credential |-> c]
  <2>1. k \in Devices /\ m.token \in Tokens
    BY Zenon DEF Requested, Tokens
  <2>2. role[k] = "Coordinator" /\ invite[k] = m.token.number
    BY <1>3, Zenon DEF Admissible
  <2>3. /\ roster' = [roster EXCEPT ![k] = roster[k] \cup {e}]
        /\ accepted' = [accepted EXCEPT ![k] = accepted[k] \cup {a}]
        /\ invite' = [invite EXCEPT ![k] = 0]
        /\ admitted' = admitted \cup {[token |-> m.token, device |-> m.device]}
    BY <1>3, Zenon DEF Admit
  <2>4. a.device = m.device /\ a.credential = c /\ a.request = m.request
        /\ e = [device |-> m.device, credential |-> c]
    BY Zenon
  <2> HIDE DEF a, c, e
  <2>5. ASSUME NEW x \in Devices, x # k
        PROVE  UNCHANGED <<roster[x], accepted[x], invite[x]>>
    BY <2>1, <2>3, <2>5, Shapes, Zenon
  <2>6. /\ roster'[k] = roster[k] \cup {e} /\ accepted'[k] = accepted[k] \cup {a}
        /\ invite'[k] = 0
    BY <2>1, <2>3, Shapes, Zenon
  <2>7. ASSUME NEW x \in Devices
        PROVE  CoordinatorSound(x)' /\ AcceptedSound(x)'
    <3>1. CASE x # k
      BY <1>1, <2>5, <3>1, CoordinatorLeftAlone, Zenon
    <3>2. CASE x = k
      <4>1. CoordinatorSound(k) /\ AcceptedSound(k)
        BY <2>1, Zenon DEF Sound
      <4>2. CoordinatorSound(k)'
        <5>1. invite'[k] <= issued'[k]
          BY <1>1, <2>1, <2>6, Counters
        <5> QED
          BY <1>1, <2>6, <4>1, <5>1, Zenon DEF CoordinatorSound, Authorized
      <4>3. IsFiniteSet(accepted'[k])
        <5>1. IsFiniteSet(accepted[k])
          BY <4>1, Zenon DEF AcceptedSound
        <5> QED
          BY <2>6, <5>1, FS_AddElement, Zenon
      <4>4. ASSUME NEW y \in accepted'[k]
            PROVE  /\ Authorized(k, y.device, y.credential)'
                   /\ y.request.device = y.device
        <5>1. CASE y \in accepted[k]
          BY <2>6, <4>1, <5>1, Zenon DEF AcceptedSound, Authorized
        <5>2. CASE y = a
          BY <2>4, <2>6, <5>2, Zenon DEF Authorized, JoinSound
        <5> QED
          BY <2>6, <4>4, <5>1, <5>2, Zenon
      <4>5. AcceptedSound(k)'
        BY <1>1, <2>2, <4>3, <4>4, Zenon DEF AcceptedSound
      <4> QED
        BY <3>2, <4>2, <4>5, Zenon
    <3> QED
      BY <3>1, <3>2, Zenon
  <2>8. CodesSound'
    <3>1. m.token.number \in 1..issued[k]
      BY Zenon DEF JoinSound
    <3>2. ASSUME NEW x \in admitted
          PROVE  /\ x.token.number \in 1..issued[x.token.coordinator]
                 /\ x.token.number # invite'[x.token.coordinator]
                 /\ x.token # m.token
      <4>1. /\ x.token.number \in 1..issued[x.token.coordinator]
            /\ x.token.number # invite[x.token.coordinator]
            /\ x.token.coordinator \in Devices
        BY Zenon DEF CodesSound, TypeOK, Tokens
      <4>2. x.token # m.token
        BY <2>2, <4>1, Zenon
      <4>3. CASE x.token.coordinator = k
        <5>1. x.token.number # 0
          BY <4>1
        <5> QED
          BY <2>6, <4>1, <4>2, <4>3, <5>1, Zenon
      <4>4. CASE x.token.coordinator # k
        BY <2>5, <4>1, <4>2, <4>4, Zenon
      <4> QED
        BY <4>3, <4>4, Zenon
    <3>3. OneIdentityPerCode'
      BY <2>3, <3>2 DEF CodesSound, OneIdentityPerCode
    <3>4. ASSUME NEW x \in admitted'
          PROVE  /\ x.token.number \in 1..issued'[x.token.coordinator]
                 /\ x.token.number # invite'[x.token.coordinator]
      <4>1. CASE x \in admitted
        BY <1>1, <3>2, <4>1, Zenon
      <4>2. CASE x = [token |-> m.token, device |-> m.device]
        <5>1. x.token = m.token
          BY <4>2, Zenon
        <5>2. m.token.number # 0
          BY <3>1
        <5> QED
          BY <1>1, <2>6, <3>1, <5>1, <5>2, Zenon
      <4> QED
        BY <2>3, <4>1, <4>2, Zenon
    <3> QED
      BY <3>3, <3>4, Zenon DEF CodesSound
  <2>9. \A x \in Devices : role[x] = "Member" => roster'[x] = roster[x]
    BY <2>2, <2>5, Zenon
  <2> QED
    BY <2>7, <2>8, <2>9, Zenon
<1> QED
  BY <1>2, <1>3, Zenon DEF AcceptMember

\* What a grant says is so.
LEMMA GrantSound ==
  ASSUME NEW m \in Requested, m.request.device = m.device,
         \A x \in Devices : CoordinatorSound(x)' /\ AcceptedSound(x)',
         NEW r \in Answers(m)', r.granted
  PROVE  InCluster(m.token.coordinator, m.device, r.credential, r.members)'
<1>1. PICK k \in Devices : k = m.token.coordinator
  BY Zenon DEF Requested, Tokens
<1>2. PICK a \in accepted'[k] : a.request = m.request /\ r = Grant(a.credential, roster'[k])
  BY <1>1 DEF Answers, Earlier, Refused
<1>3. r.credential = a.credential /\ r.members = roster'[k]
  BY <1>2, Zenon DEF Grant
<1>4. /\ role'[k] = "Coordinator" /\ Authorized(k, a.device, a.credential)'
      /\ a.request.device = a.device
  BY <1>2, Zenon DEF AcceptedSound
<1>5. Authorized(k, k, credential[k])'
  BY <1>4, Zenon DEF CoordinatorSound
<1> QED
  BY <1>1, <1>2, <1>3, <1>4, <1>5, Zenon DEF InCluster, Authorized

\* The coordinator answers a request.
LEMMA HandleJoinSound ==
  ASSUME IInv, TypeOK', \A k \in Devices : Persists(k), NEW d \in Devices, HandleJoin(d)
  PROVE  Preserved
<1> USE DEF IInv
<1>1. pending[d] # NoJoin /\ role[d] = "none" /\ JoinSound(d, pending[d].token, pending[d].request)
  BY Zenon DEF HandleJoin, Sound, PendingSound
<1>2. PICK m \in Requested :
        /\ m = Request(d) /\ AcceptMember(m)
        /\ \E r \in Answers(m)' : answer' = [answer EXCEPT ![d] = r]
  BY <1>1, RequestType, Zenon DEF HandleJoin
<1>3. /\ m.device = d /\ m.token = pending[d].token /\ m.request = pending[d].request
      /\ JoinSound(m.device, m.token, m.request)
  BY <1>1, <1>2, RequestType, Zenon
<1>4. /\ UNCHANGED <<role, home, credential, issued, pending, requests, fetched, late>>
      /\ conn' = [conn EXCEPT ![d] = "answered"]
  BY <1>2, Zenon DEF AcceptMember, HandleJoin
<1>5. /\ \A x \in Devices : CoordinatorSound(x)' /\ AcceptedSound(x)'
      /\ \A x \in Devices : role[x] = "Member" => roster'[x] = roster[x]
      /\ CodesSound'
  BY <1>2, <1>3, AcceptSound, Zenon
<1>6. AnswerSound(d)'
  <2>1. PICK r \in Answers(m)' : answer'[d] = r
    BY <1>2, ZenonT(30) DEF TypeOK
  <2>2. r.granted => InCluster(m.token.coordinator, m.device, r.credential, r.members)'
    BY <1>3, <1>5, GrantSound, Zenon DEF JoinSound
  <2> QED
    BY <1>3, <1>4, <2>1, <2>2, Zenon DEF AnswerSound, InCluster
<1>7. PendingSound(d)'
  BY <1>1, <1>4, Zenon DEF PendingSound, JoinSound
<1>8. MemberSound(d)' /\ FetchSound(d)'
  BY <1>1, <1>4, Zenon DEF Sound, MemberSound, FetchSound
<1>9. ASSUME NEW x \in Devices
      PROVE  Sound(x)'
  <2>1. CASE x = d
    BY <1>5, <1>6, <1>7, <1>8, <2>1, Zenon DEF Sound
  <2>2. CASE x # d
    <3>1. UNCHANGED <<conn[x], answer[x]>>
      BY <1>2, <1>4, <2>2, Shapes, Zenon
    <3> QED
      BY <1>4, <1>5, <3>1, DeviceLeftAlone, Zenon DEF Sound
  <2> QED
    BY <2>1, <2>2, Zenon
<1> QED
  BY <1>4, <1>5, <1>9, TransitLeftAlone, Zenon DEF Preserved

\* A late request is handled.
LEMMA HandleLateSound ==
  ASSUME IInv, TypeOK', \A k \in Devices : Persists(k), HandleLate
  PROVE  Preserved
<1> USE DEF IInv
<1>1. PICK m \in late : AcceptMember(m) /\ late' = late \ {m} /\ UNCHANGED <<conn, answer>>
  BY Zenon DEF HandleLate
<1>2. m \in Requested /\ JoinSound(m.device, m.token, m.request)
  BY Zenon DEF TypeOK, LateSound
<1>3. /\ \A x \in Devices : CoordinatorSound(x)' /\ AcceptedSound(x)'
      /\ \A x \in Devices : role[x] = "Member" => roster'[x] = roster[x]
      /\ CodesSound'
  BY <1>1, <1>2, AcceptSound, Zenon
<1>4. UNCHANGED <<role, home, credential, pending, fetched>>
  BY <1>1, Zenon DEF AcceptMember
<1>5. \A x \in Devices : Sound(x)'
  BY <1>1, <1>3, <1>4, DeviceLeftAlone, Zenon DEF Sound
<1>6. late' \subseteq late
  BY <1>1, Zenon
<1> QED
  BY <1>3, <1>5, <1>6, TransitLeftAlone, Zenon DEF Preserved

\* The invariant is inductive.
LEMMA NextIInv == IInv /\ [Next]_vars => IInv'
<1> SUFFICES ASSUME IInv, [Next]_vars PROVE IInv'
  BY Zenon
<1>1. TypeOK' /\ \A k \in Devices : Persists(k)
  BY TypesStep, Persistence, Zenon
<1>2. CASE Next
  <2>1. Preserved
    BY <1>1, <1>2, CreateClusterSound, CreateInviteSound, JoinClusterSound, ExchangeEndsSound,
       JoinedSound, RosterSound, HandleJoinSound, HandleLateSound, Zenon DEF Next
  <2> QED
    BY <1>1, <2>1, Zenon DEF Preserved, IInv
<1>3. CASE UNCHANGED vars
  <2>1. \A x \in Devices : Sound(x)'
    BY <1>1, <1>3, CoordinatorLeftAlone, DeviceLeftAlone, Zenon DEF vars, stored, transit, Sound
  <2>2. LateSound' /\ CodesSound'
    BY <1>1, <1>3, TransitLeftAlone, Zenon DEF vars, stored, transit
  <2> QED
    BY <1>1, <2>1, <2>2, Zenon DEF IInv
<1> QED
  BY <1>2, <1>3, Zenon

\* It holds in every reachable state.
LEMMA Invariance == Spec => []IInv
BY InitIInv, NextIInv, PTL DEF Spec

-----------------------------------------------------------------------------
(* Theorems *)

\* "Possession of an unexpired pairing code authorizes one new identity" (ADR 0002):
\* accept_member lets in one device per code, whichever requests are repeated, late or
\* answered to nobody.
THEOREM CodesAdmitOne == Spec => []OneIdentityPerCode
<1>1. IInv => OneIdentityPerCode
  BY Zenon DEF IInv, CodesSound
<1> QED
  BY <1>1, Invariance, PTL

\* What join_cluster stored is what accept_member has on record.
THEOREM MembersAreAuthorized == Spec => []CredentialsAgree
<1>1. IInv => CredentialsAgree
  BY Zenon DEF IInv, Sound, MemberSound, InCluster, CredentialsAgree, Authorized
<1> QED
  BY <1>1, Invariance, PTL

\* A roster that store_roster wrote, however late, holds members of the cluster, the
\* device itself and the coordinator among them.
THEOREM RostersArePast == Spec => []RosterIsPast
<1>1. IInv => RosterIsPast
  BY Zenon DEF IInv, Sound, MemberSound, InCluster, RosterIsPast, Authorized
<1> QED
  BY <1>1, Invariance, PTL

\* Every variable has its type.
THEOREM MembershipTypeCorrect == Spec => []TypeOK
<1>1. IInv => TypeOK
  BY Zenon DEF IInv
<1> QED
  BY <1>1, Invariance, PTL

-----------------------------------------------------------------------------
(* The inductive invariant, beside IInv *)

\* A request that the coordinator would accept now.
Live(m) == Earlier(m) = {} /\ Admissible(m)

\* The join of request m is still pending at its device, at the right endpoint.
StillPending(m) ==
  LET p == pending[m.device]
  IN  p.request = m.request /\ p.token = m.token /\ p.at = m.token.coordinator

\* Who was accepted is a member or can retry.
AcceptedRetry ==
  \A k \in Devices : \A a \in accepted[k] :
    \/ role[a.device] = "Member" /\ home[a.device] = k
    \/ /\ pending[a.device].request = a.request
       /\ pending[a.device].token.coordinator = k
       /\ pending[a.device].at = k

\* A late request whose join was given up is not accepted any more.
LateRetry == \A m \in late : StillPending(m) \/ ~Live(m)

\* A refusal on its way is final.
RefusalFinal ==
  \A d \in Devices :
    conn[d] = "answered" /\ ~answer[d].granted =>
      Earlier(Request(d)) = {} /\ ~Admissible(Request(d))

RetrySound == AcceptedRetry /\ LateRetry /\ RefusalFinal

\* As long as no coordinator answered with an error of its own.
RetryInv == errors = 0 => RetrySound

-----------------------------------------------------------------------------
(* What a step can do *)

\* A pending join stays until its exchange ends.
LEMMA PendingFate ==
  ASSUME IInv, [Next]_vars, NEW d \in Devices, pending[d] # NoJoin
  PROVE  \/ pending'[d] = pending[d]
         \/ PeerIdentityMismatch(d) \/ JoinRefused(d) \/ Joined(d)
<1>1. TypeOK
  BY Zenon DEF IInv
<1>2. ASSUME NEW x \in Devices, NEW t, NEW at, JoinCluster(x, t, at)
      PROVE  pending'[d] = pending[d]
  BY <1>1, <1>2, Zenon DEF JoinCluster, TypeOK
<1>3. ASSUME NEW x \in Devices, PeerIdentityMismatch(x) \/ JoinRefused(x) \/ Joined(x)
      PROVE  pending'[d] = pending[d] \/ x = d
  BY <1>1, <1>3 DEF PeerIdentityMismatch, JoinRefused, Joined, TypeOK
<1>4. ASSUME NEW x \in Devices,
             \/ CreateCluster(x) \/ CreateInvite(x) \/ GiveUp(x) \/ HandleJoin(x)
             \/ HandleError(x) \/ Restart(x)
      PROVE  UNCHANGED pending
  BY <1>4, Zenon DEF CreateCluster, CreateInvite, GiveUp, HandleJoin, AcceptMember, HandleError,
     Restart, stored
<1>5. ASSUME NEW x \in Devices, NEW t \in Threads,
             FetchRoster(x, t) \/ StoreRoster(x, t) \/ LoseRoster(x, t)
      PROVE  UNCHANGED pending
  BY <1>5, Zenon DEF FetchRoster, StoreRoster, LoseRoster, stored
<1>6. HandleLate => UNCHANGED pending
  BY Zenon DEF HandleLate, AcceptMember
<1>7. UNCHANGED vars => UNCHANGED pending
  BY Zenon DEF vars, stored
<1> QED
  BY <1>2, <1>3, <1>4, <1>5, <1>6, <1>7, Zenon DEF Next

\* A member stays a member of its cluster.
LEMMA MemberFate ==
  ASSUME IInv, [Next]_vars, NEW d \in Devices, role[d] = "Member"
  PROVE  role'[d] = "Member" /\ home'[d] = home[d]
<1>1. TypeOK /\ PendingSound(d)
  BY Zenon DEF IInv, Sound
<1>2. ASSUME NEW x \in Devices, CreateCluster(x) \/ Joined(x)
      PROVE  role'[d] = "Member" /\ home'[d] = home[d]
  <2>1. x # d
    BY <1>1, <1>2, Zenon DEF CreateCluster, Joined, PendingSound
  <2> QED
    BY <1>1, <1>2, <2>1, Zenon DEF CreateCluster, Joined, TypeOK
<1>3. ASSUME NEW x \in Devices,
             \/ CreateInvite(x) \/ GiveUp(x) \/ PeerIdentityMismatch(x) \/ JoinRefused(x)
             \/ HandleJoin(x) \/ HandleError(x) \/ Restart(x)
      PROVE  UNCHANGED <<role, home>>
  BY <1>3, Zenon
     DEF CreateInvite, GiveUp, PeerIdentityMismatch, JoinRefused, HandleJoin, AcceptMember,
     HandleError, Restart, stored
<1>4. ASSUME NEW x \in Devices, NEW t, NEW at, JoinCluster(x, t, at)
      PROVE  UNCHANGED <<role, home>>
  BY <1>4, Zenon DEF JoinCluster
<1>5. ASSUME NEW x \in Devices, NEW t \in Threads,
             FetchRoster(x, t) \/ StoreRoster(x, t) \/ LoseRoster(x, t)
      PROVE  UNCHANGED <<role, home>>
  BY <1>5, Zenon DEF FetchRoster, StoreRoster, LoseRoster, stored
<1>6. HandleLate => UNCHANGED <<role, home>>
  BY Zenon DEF HandleLate, AcceptMember
<1>7. UNCHANGED vars => UNCHANGED <<role, home>>
  BY Zenon DEF vars, stored
<1> QED
  BY <1>2, <1>3, <1>4, <1>5, <1>6, <1>7, Zenon DEF Next

\* The code that is open at a coordinator is closed, or replaced by one that was never
\* issued before.
LEMMA CodeFate ==
  ASSUME IInv, [Next]_vars, NEW k \in Devices, issued[k] # 0
  PROVE  invite'[k] \in {invite[k], 0, issued[k] + 1}
<1>1. TypeOK /\ CoordinatorSound(k)
  BY Zenon DEF IInv, Sound
<1>2. ASSUME NEW x \in Devices, CreateCluster(x) \/ CreateInvite(x)
      PROVE  invite'[k] \in {invite[k], issued[k] + 1}
  <2>1. ~CreateCluster(x) \/ x # k
    BY <1>1, Zenon DEF CreateCluster, CoordinatorSound
  <2> QED
    BY <1>1, <1>2, <2>1 DEF CreateCluster, CreateInvite, TypeOK
<1>3. ASSUME NEW m \in Requested, AcceptMember(m)
      PROVE  invite'[k] \in {invite[k], 0}
  BY <1>1, <1>3 DEF AcceptMember, Admit, TypeOK
<1>4. ASSUME NEW x \in Devices, HandleJoin(x)
      PROVE  invite'[k] \in {invite[k], 0}
  BY <1>3, <1>4, RequestType, Zenon DEF HandleJoin, IInv, Sound, PendingSound
<1>5. HandleLate => invite'[k] \in {invite[k], 0}
  BY <1>1, <1>3, Zenon DEF HandleLate, TypeOK
<1>6. ASSUME NEW x \in Devices,
             \/ GiveUp(x) \/ PeerIdentityMismatch(x) \/ JoinRefused(x) \/ Joined(x)
             \/ HandleError(x) \/ Restart(x)
      PROVE  UNCHANGED invite
  BY <1>6, Zenon
     DEF GiveUp, PeerIdentityMismatch, JoinRefused, Joined, HandleError, Restart, stored
<1>7. ASSUME NEW x \in Devices, NEW t, NEW at, JoinCluster(x, t, at)
      PROVE  UNCHANGED invite
  BY <1>7, Zenon DEF JoinCluster
<1>8. ASSUME NEW x \in Devices, NEW t \in Threads,
             FetchRoster(x, t) \/ StoreRoster(x, t) \/ LoseRoster(x, t)
      PROVE  UNCHANGED invite
  BY <1>8, Zenon DEF FetchRoster, StoreRoster, LoseRoster, stored
<1>9. UNCHANGED vars => UNCHANGED invite
  BY Zenon DEF vars, stored
<1> QED
  BY <1>2, <1>4, <1>5, <1>6, <1>7, <1>8, <1>9, Zenon DEF Next

\* A request that is not admissible never becomes so, and one that was accepted stays
\* accepted.
LEMMA DeadStays ==
  ASSUME IInv, [Next]_vars, NEW m \in Requested, JoinSound(m.device, m.token, m.request)
  PROVE  /\ ~Admissible(m) => ~Admissible(m)'
         /\ Earlier(m) \subseteq Earlier(m)'
         /\ ~Live(m) => ~Live(m)'
<1>1. PICK k \in Devices : k = m.token.coordinator
  BY Zenon DEF Requested, Tokens
<1>2. m.token.number \in 1..issued[k] /\ issued[k] \in Nat /\ issued[k] # 0
  BY <1>1 DEF JoinSound, IInv, TypeOK
<1>3. Persists(k) /\ invite'[k] \in {invite[k], 0, issued[k] + 1}
  BY <1>2, Persistence, CodeFate, Zenon
<1>4. role[k] = "Coordinator" /\ role'[k] = "Coordinator" /\ roster[k] \subseteq roster'[k]
  BY <1>2, <1>3, Zenon DEF Persists, IInv, Sound, CoordinatorSound
<1>5. ~Admissible(m) => ~Admissible(m)'
  BY <1>1, <1>2, <1>3, <1>4 DEF Admissible
<1>6. Earlier(m) \subseteq Earlier(m)'
  BY <1>1, <1>3, Zenon DEF Persists, Earlier
<1> QED
  BY <1>5, <1>6, Zenon DEF Live

\* A join is accepted for a request of the device at its coordinator, or for a late one.
LEMMA AcceptedFate ==
  ASSUME IInv, [Next]_vars, NEW k \in Devices, NEW a \in accepted'[k], a \notin accepted[k]
  PROVE  \E m \in Requested :
           /\ Live(m) /\ k = m.token.coordinator
           /\ a.device = m.device /\ a.request = m.request
           /\ UNCHANGED pending
           /\ \/ m \in late
              \/ /\ conn[m.device] = "sent" /\ pending[m.device] # NoJoin
                 /\ m = Request(m.device) /\ pending[m.device].at = k
<1>1. TypeOK
  BY Zenon DEF IInv
<1>2. ASSUME NEW m \in Requested, AcceptMember(m)
      PROVE  /\ Live(m) /\ k = m.token.coordinator
             /\ a.device = m.device /\ a.request = m.request
             /\ UNCHANGED pending
  <2>1. Earlier(m) = {} /\ Admissible(m) /\ Admit(m) /\ UNCHANGED pending
    BY <1>2, Zenon DEF AcceptMember
  <2>2. PICK c : accepted' = [accepted EXCEPT ![m.token.coordinator] =
                   accepted[m.token.coordinator]
                     \cup {[request |-> m.request, device |-> m.device, credential |-> c]}]
    BY <2>1, Zenon DEF Admit
  <2>3. k = m.token.coordinator
        /\ a = [request |-> m.request, device |-> m.device, credential |-> c]
    BY <1>1, <2>2, Zenon DEF TypeOK
  <2> QED
    BY <2>1, <2>3, Zenon DEF Live
<1>3. ASSUME NEW x \in Devices, HandleJoin(x)
      PROVE  \E m \in Requested :
               /\ AcceptMember(m)
               /\ conn[m.device] = "sent" /\ pending[m.device] # NoJoin
               /\ m = Request(m.device) /\ pending[m.device].at = m.token.coordinator
  <2>1. pending[x] # NoJoin
    BY <1>3, Zenon DEF HandleJoin, IInv, Sound, PendingSound
  <2>2. PICK m \in Requested : m = Request(x) /\ AcceptMember(m)
    BY <1>1, <1>3, <2>1, RequestType, Zenon DEF HandleJoin
  <2>3. m.device = x /\ m.token = pending[x].token
    BY <1>1, <2>1, <2>2, RequestType, Zenon
  <2> QED
    BY <1>3, <2>1, <2>2, <2>3, Zenon DEF HandleJoin
<1>4. HandleLate => \E m \in Requested : AcceptMember(m) /\ m \in late
  BY <1>1, Zenon DEF HandleLate, TypeOK
<1>5. ASSUME NEW x \in Devices,
             \/ CreateCluster(x) \/ CreateInvite(x)
             \/ GiveUp(x) \/ PeerIdentityMismatch(x) \/ JoinRefused(x) \/ Joined(x)
             \/ HandleError(x) \/ Restart(x)
      PROVE  UNCHANGED accepted
  BY <1>5, Zenon
     DEF CreateCluster, CreateInvite, GiveUp, PeerIdentityMismatch, JoinRefused, Joined,
     HandleError, Restart, stored
<1>6. ASSUME NEW x \in Devices, NEW t, NEW at, JoinCluster(x, t, at)
      PROVE  UNCHANGED accepted
  BY <1>6, Zenon DEF JoinCluster
<1>7. ASSUME NEW x \in Devices, NEW t \in Threads,
             FetchRoster(x, t) \/ StoreRoster(x, t) \/ LoseRoster(x, t)
      PROVE  UNCHANGED accepted
  BY <1>7, Zenon DEF FetchRoster, StoreRoster, LoseRoster, stored
<1>8. UNCHANGED vars => UNCHANGED accepted
  BY Zenon DEF vars, stored
<1>9. (\E x \in Devices : HandleJoin(x)) \/ HandleLate
  BY <1>5, <1>6, <1>7, <1>8, Zenon DEF Next
<1> QED
  BY <1>2, <1>3, <1>4, <1>9, Zenon

\* A late request is one that its device gave up on.
LEMMA LateFate ==
  ASSUME IInv, [Next]_vars, NEW m \in late', m \notin late
  PROVE  m \in Requested /\ StillPending(m)'
<1>1. TypeOK
  BY Zenon DEF IInv
<1>2. ASSUME NEW x \in Devices, GiveUp(x)
      PROVE  m \in Requested /\ StillPending(m)'
  <2>1. /\ m = Request(x) /\ pending[x].at = pending[x].token.coordinator
        /\ UNCHANGED pending /\ pending[x] # NoJoin
    BY <1>2, Zenon DEF GiveUp, stored, IInv, Sound, PendingSound
  <2>2. m \in Requested /\ m.device = x /\ m.token = pending[x].token
        /\ m.request = pending[x].request
    BY <1>1, <2>1, RequestType, Zenon
  <2> QED
    BY <2>1, <2>2, Zenon DEF StillPending
<1>3. ASSUME NEW x \in Devices,
             \/ CreateCluster(x) \/ CreateInvite(x)
             \/ PeerIdentityMismatch(x) \/ JoinRefused(x) \/ Joined(x) \/ HandleJoin(x)
             \/ HandleError(x) \/ Restart(x)
      PROVE  late' \subseteq late
  BY <1>3, Zenon
     DEF CreateCluster, CreateInvite, PeerIdentityMismatch, JoinRefused, Joined, HandleJoin,
     HandleError, Restart, transit
<1>4. ASSUME NEW x \in Devices, NEW t, NEW at, JoinCluster(x, t, at)
      PROVE  UNCHANGED late
  BY <1>4, Zenon DEF JoinCluster
<1>5. ASSUME NEW x \in Devices, NEW t \in Threads,
             FetchRoster(x, t) \/ StoreRoster(x, t) \/ LoseRoster(x, t)
      PROVE  UNCHANGED late
  BY <1>5, Zenon DEF FetchRoster, StoreRoster, LoseRoster
<1>6. HandleLate => late' \subseteq late
  BY Zenon DEF HandleLate
<1>7. UNCHANGED vars => UNCHANGED late
  BY Zenon DEF vars, transit
<1> QED
  BY <1>2, <1>3, <1>4, <1>5, <1>6, <1>7, Zenon DEF Next

\* An answer comes from the coordinator and waits for its device.
LEMMA AnswerFate ==
  ASSUME IInv, [Next]_vars, NEW d \in Devices, conn'[d] = "answered"
  PROVE  \/ HandleJoin(d) \/ HandleError(d)
         \/ UNCHANGED <<conn[d], answer[d], pending[d]>>
<1>1. TypeOK
  BY Zenon DEF IInv
<1>2. ASSUME NEW x \in Devices,
             \/ GiveUp(x) \/ PeerIdentityMismatch(x) \/ JoinRefused(x) \/ Joined(x) \/ Restart(x)
      PROVE  UNCHANGED <<conn[d], answer[d]>>
  BY <1>1, <1>2, ZenonT(30)
     DEF GiveUp, PeerIdentityMismatch, JoinRefused, Joined, Restart, Hangup, TypeOK
<1>3. ASSUME NEW x \in Devices, HandleJoin(x) \/ HandleError(x)
      PROVE  x = d \/ UNCHANGED <<conn[d], answer[d]>>
  BY <1>1, <1>3 DEF HandleJoin, HandleError, TypeOK
<1>4. ASSUME NEW x \in Devices, NEW t, NEW at, JoinCluster(x, t, at)
      PROVE  UNCHANGED <<conn[d], answer[d]>>
  BY <1>1, <1>4 DEF JoinCluster, TypeOK
<1>5. ASSUME NEW x \in Devices, CreateCluster(x) \/ CreateInvite(x)
      PROVE  UNCHANGED <<conn[d], answer[d]>>
  BY <1>5, Zenon DEF CreateCluster, CreateInvite, transit
<1>6. ASSUME NEW x \in Devices, NEW t \in Threads,
             FetchRoster(x, t) \/ StoreRoster(x, t) \/ LoseRoster(x, t)
      PROVE  UNCHANGED <<conn[d], answer[d]>>
  BY <1>6, Zenon DEF FetchRoster, StoreRoster, LoseRoster
<1>7. HandleLate => UNCHANGED <<conn[d], answer[d]>>
  BY Zenon DEF HandleLate
<1>8. UNCHANGED vars => UNCHANGED <<conn[d], answer[d]>>
  BY Zenon DEF vars, transit
<1>9. \/ HandleJoin(d) \/ HandleError(d)
      \/ UNCHANGED <<conn[d], answer[d]>>
  BY <1>2, <1>3, <1>4, <1>5, <1>6, <1>7, <1>8, Zenon DEF Next
<1>10. UNCHANGED conn[d] => pending'[d] = pending[d]
  <2>1. SUFFICES ASSUME conn[d] = "answered" PROVE pending'[d] = pending[d]
    BY Zenon
  <2>2. pending[d] # NoJoin
    BY <2>1, Zenon DEF IInv, Sound, PendingSound
  <2>3. PeerIdentityMismatch(d) \/ JoinRefused(d) \/ Joined(d) => conn'[d] = "idle"
    BY <1>1 DEF PeerIdentityMismatch, JoinRefused, Joined, Hangup, TypeOK
  <2> QED
    BY <2>2, <2>3, PendingFate, Zenon
<1> QED
  BY <1>9, <1>10, Zenon

\* Errors of coordinators are counted.
LEMMA ErrorFate ==
  ASSUME IInv, [Next]_vars, errors' = 0
  PROVE  errors = 0 /\ \A d \in Devices : ~HandleError(d)
<1>1. errors \in Nat
  BY Zenon DEF IInv, TypeOK
<1>2. ASSUME NEW x \in Devices, HandleError(x)
      PROVE  FALSE
  BY <1>1, <1>2 DEF HandleError
<1>3. ASSUME NEW x \in Devices,
             \/ CreateCluster(x) \/ CreateInvite(x) \/ GiveUp(x)
             \/ PeerIdentityMismatch(x) \/ JoinRefused(x) \/ Joined(x) \/ HandleJoin(x)
             \/ Restart(x)
      PROVE  UNCHANGED errors
  BY <1>3, Zenon
     DEF CreateCluster, CreateInvite, GiveUp, PeerIdentityMismatch, JoinRefused, Joined,
     HandleJoin, AcceptMember, Restart
<1>4. ASSUME NEW x \in Devices, NEW t, NEW at, JoinCluster(x, t, at)
      PROVE  UNCHANGED errors
  BY <1>4, Zenon DEF JoinCluster
<1>5. ASSUME NEW x \in Devices, NEW t \in Threads,
             FetchRoster(x, t) \/ StoreRoster(x, t) \/ LoseRoster(x, t)
      PROVE  UNCHANGED errors
  BY <1>5, Zenon DEF FetchRoster, StoreRoster, LoseRoster
<1>6. HandleLate => UNCHANGED errors
  BY Zenon DEF HandleLate, AcceptMember
<1>7. UNCHANGED vars => UNCHANGED errors
  BY Zenon DEF vars
<1> QED
  BY <1>2, <1>3, <1>4, <1>5, <1>6, <1>7, Zenon DEF Next

-----------------------------------------------------------------------------
(* The invariant is inductive *)

\* Who was accepted keeps the means to retry until it is a member.
LEMMA AcceptedRetryStep ==
  ASSUME IInv, AcceptedRetry, LateRetry, RefusalFinal, [Next]_vars
  PROVE  AcceptedRetry'
<1> SUFFICES ASSUME NEW k \in Devices, NEW a \in accepted'[k]
             PROVE  \/ role'[a.device] = "Member" /\ home'[a.device] = k
                    \/ /\ pending'[a.device].request = a.request
                       /\ pending'[a.device].token.coordinator = k
                       /\ pending'[a.device].at = k
  BY Zenon DEF AcceptedRetry
<1>1. TypeOK
  BY Zenon DEF IInv
<1>2. CASE a \in accepted[k]
  <2>1. a \in AcceptedJoins
    BY <1>1, <1>2, Zenon DEF TypeOK
  <2>2. PICK d \in Devices : d = a.device
    BY <2>1, Zenon DEF AcceptedJoins
  <2>3. CASE role[d] = "Member" /\ home[d] = k
    BY <2>2, <2>3, MemberFate, Zenon
  <2>4. CASE /\ pending[d].request = a.request
             /\ pending[d].token.coordinator = k /\ pending[d].at = k
    <3>1. pending[d] # NoJoin
      BY <2>4, NoJoinFacts, MembershipAssumption, Zenon
    <3>2. ~PeerIdentityMismatch(d)
      BY <2>4, Zenon DEF PeerIdentityMismatch
    <3>3. ~JoinRefused(d)
      <4>1. /\ Request(d).token = pending[d].token
            /\ Request(d).request = pending[d].request
        BY <1>1, <3>1, RequestType, Zenon
      <4>2. a \in Earlier(Request(d))
        BY <1>2, <2>4, <4>1, Zenon DEF Earlier
      <4> QED
        BY <4>2, Zenon DEF RefusalFinal, JoinRefused
    <3>4. Joined(d) => role'[d] = "Member" /\ home'[d] = k
      BY <1>1, <2>4 DEF Joined, TypeOK
    <3> QED
      BY <2>2, <2>4, <3>1, <3>2, <3>3, <3>4, PendingFate, Zenon
  <2> QED
    BY <1>2, <2>2, <2>3, <2>4, Zenon DEF AcceptedRetry
<1>3. CASE a \notin accepted[k]
  <2>1. PICK m \in Requested :
          /\ Live(m) /\ k = m.token.coordinator
          /\ a.device = m.device /\ a.request = m.request
          /\ UNCHANGED pending
          /\ \/ m \in late
             \/ /\ conn[m.device] = "sent" /\ pending[m.device] # NoJoin
                /\ m = Request(m.device) /\ pending[m.device].at = k
    BY <1>3, AcceptedFate, Zenon
  <2>2. CASE m \in late
    BY <2>1, <2>2, Zenon DEF LateRetry, StillPending
  <2>3. CASE /\ pending[m.device] # NoJoin /\ m = Request(m.device)
             /\ pending[m.device].at = k
    <3>1. m.device \in Devices
      BY Zenon DEF Requested
    <3>2. m.token = pending[m.device].token /\ m.request = pending[m.device].request
      BY <1>1, <2>3, <3>1, RequestType, Zenon
    <3> QED
      BY <2>1, <2>3, <3>2, Zenon
  <2> QED
    BY <2>1, <2>2, <2>3, Zenon
<1> QED
  BY <1>2, <1>3, Zenon

\* A late request is accepted only while its device still waits for it.
LEMMA LateRetryStep ==
  ASSUME IInv, LateRetry, RefusalFinal, [Next]_vars
  PROVE  LateRetry'
<1> SUFFICES ASSUME NEW m \in late' PROVE StillPending(m)' \/ ~Live(m)'
  BY Zenon DEF LateRetry
<1>1. TypeOK
  BY Zenon DEF IInv
<1>2. CASE m \notin late
  BY <1>2, LateFate, Zenon
<1>3. CASE m \in late
  <2>1. m \in Requested /\ JoinSound(m.device, m.token, m.request)
    BY <1>1, <1>3, Zenon DEF TypeOK, IInv, LateSound
  <2>2. ~Live(m) => ~Live(m)'
    BY <2>1, DeadStays, Zenon
  <2>3. CASE StillPending(m)
    <3>1. PICK d \in Devices : d = m.device
      BY <2>1, Zenon DEF Requested
    <3>2. /\ pending[d].request = m.request /\ pending[d].token = m.token
          /\ pending[d].at = m.token.coordinator /\ m.request.device = d
      BY <2>1, <2>3, <3>1, Zenon DEF StillPending, JoinSound
    <3>3. pending[d] # NoJoin
      BY <3>2, NoJoinFacts, MembershipAssumption, Zenon
    <3>4. Request(d) = m
      BY <2>1, <3>1, <3>2, Zenon DEF Request, Requested
    <3>5. ~PeerIdentityMismatch(d)
      BY <3>2, Zenon DEF PeerIdentityMismatch
    <3>6. JoinRefused(d) => ~Live(m)
      BY <3>4, Zenon DEF JoinRefused, RefusalFinal, Live
    <3>7. Joined(d) => ~Live(m)
      <4>1. SUFFICES ASSUME Joined(d) PROVE ~Admissible(m)
        BY Zenon DEF Live
      <4>2. InCluster(m.token.coordinator, d, answer[d].credential, answer[d].members)
        BY <3>2, <4>1, Zenon DEF IInv, Sound, AnswerSound, Joined
      <4>3. [device |-> d, credential |-> answer[d].credential] \in roster[m.token.coordinator]
        BY <4>2, Zenon DEF InCluster
      <4> QED
        BY <3>1, <4>3, Zenon DEF Admissible
    <3>8. pending'[d] = pending[d] => StillPending(m)'
      BY <2>3, <3>1, Zenon DEF StillPending
    <3> QED
      BY <2>2, <3>3, <3>5, <3>6, <3>7, <3>8, PendingFate, Zenon
  <2> QED
    BY <1>3, <2>2, <2>3, Zenon DEF LateRetry
<1> QED
  BY <1>2, <1>3, Zenon

\* What the coordinator refused it does not accept later.
LEMMA RefusalFinalStep ==
  ASSUME IInv, LateRetry, RefusalFinal, [Next]_vars, \A d \in Devices : ~HandleError(d)
  PROVE  RefusalFinal'
<1> SUFFICES ASSUME NEW d \in Devices, conn'[d] = "answered", ~answer'[d].granted
             PROVE  Earlier(Request(d))' = {} /\ ~Admissible(Request(d))'
  BY Zenon DEF RefusalFinal
<1>1. TypeOK
  BY Zenon DEF IInv
<1>2. CASE HandleJoin(d)
  <2>1. pending[d] # NoJoin
    BY <1>2, Zenon DEF HandleJoin, IInv, Sound, PendingSound
  <2>2. PICK m \in Requested : /\ m = Request(d) /\ AcceptMember(m)
                               /\ \E r \in Answers(m)' : answer' = [answer EXCEPT ![d] = r]
    BY <1>1, <1>2, <2>1, RequestType, Zenon DEF HandleJoin
  <2>3. Earlier(m)' = {}
    BY <1>1, <2>2 DEF Answers, Grant, TypeOK
  <2>4. PICK k \in Devices : k = m.token.coordinator
    BY Zenon DEF Requested, Tokens
  <2>5. ~Admit(m)
    <3>1. SUFFICES ASSUME Admit(m) PROVE Earlier(m)' # {}
      BY <2>3, Zenon
    <3>2. PICK c : accepted' = [accepted EXCEPT ![k] =
                     accepted[k]
                       \cup {[request |-> m.request, device |-> m.device, credential |-> c]}]
      BY <2>4, <3>1, Zenon DEF Admit
    <3>3. [request |-> m.request, device |-> m.device, credential |-> c] \in accepted'[k]
      BY <1>1, <3>2, Zenon DEF TypeOK
    <3> QED
      BY <2>4, <3>3 DEF Earlier
  <2>6. UNCHANGED <<role, roster, accepted, invite, pending>>
        /\ (Earlier(m) # {} \/ ~Admissible(m))
    BY <2>2, <2>5, Zenon DEF AcceptMember
  <2>7. Earlier(m) = {} /\ ~Admissible(m)'
    BY <2>3, <2>6, Zenon DEF Earlier, Admissible
  <2>8. Request(d)' = m
    BY <2>2, <2>6, Zenon DEF Request
  <2>9. Earlier(Request(d))' = {} /\ ~Admissible(Request(d))'
    BY <2>3, <2>7, <2>8, Zenon DEF Earlier, Admissible
  <2> QED
    BY <2>9, Zenon
<1>3. CASE UNCHANGED <<conn[d], answer[d], pending[d]>>
  <2>1. pending[d] # NoJoin /\ JoinSound(d, pending[d].token, pending[d].request)
    BY <1>3, Zenon DEF IInv, Sound, PendingSound
  <2>2. PICK m \in Requested :
          /\ m = Request(d) /\ m.device = d /\ m.token = pending[d].token
          /\ m.request = pending[d].request
    BY <1>1, <2>1, RequestType, Zenon
  <2>3. Earlier(m) = {} /\ ~Admissible(m)
    BY <1>3, <2>2, Zenon DEF RefusalFinal
  <2>4. ~Admissible(m)'
    BY <2>1, <2>2, <2>3, DeadStays, Zenon
  <2>5. Earlier(m)' = {}
    <3>1. PICK k \in Devices : k = m.token.coordinator
      BY Zenon DEF Requested, Tokens
    <3>2. SUFFICES ASSUME NEW a \in accepted'[k], a.request = m.request PROVE FALSE
      BY <3>1, Zenon DEF Earlier
    <3>3. a \notin accepted[k]
      BY <2>3, <3>1, <3>2, Zenon DEF Earlier
    <3>4. PICK n \in Requested :
            /\ Live(n) /\ k = n.token.coordinator /\ a.request = n.request
            /\ \/ n \in late
               \/ /\ conn[n.device] = "sent" /\ pending[n.device] # NoJoin
                  /\ n = Request(n.device)
      BY <3>3, AcceptedFate
    <3>5. PICK x \in Devices : x = n.device
      BY Zenon DEF Requested
    <3>6. n.request.device = d
      BY <2>1, <2>2, <3>2, <3>4, Zenon DEF JoinSound
    <3>7. CASE n \in late
      <4>1. x = d
        BY <3>5, <3>6, <3>7, Zenon DEF IInv, LateSound, JoinSound
      <4>2. n.token = m.token
        BY <2>2, <3>4, <3>5, <3>7, <4>1, Zenon DEF LateRetry, StillPending
      <4> QED
        BY <2>2, <2>3, <3>4, <3>5, <4>1, <4>2, Zenon DEF Live, Admissible
    <3>8. CASE conn[x] = "sent" /\ pending[x] # NoJoin /\ n = Request(x)
      <4>1. n.request = pending[x].request /\ pending[x].request.device = x
        BY <1>1, <3>8, RequestType, Zenon DEF IInv, Sound, PendingSound, JoinSound
      <4>2. conn[d] = "answered"
        BY <1>3, Zenon
      <4> QED
        BY <3>6, <3>8, <4>1, <4>2, Zenon
    <3> QED
      BY <3>4, <3>5, <3>7, <3>8, Zenon
  <2>6. Request(d)' = m
    BY <1>3, <2>2, Zenon DEF Request
  <2>7. Earlier(Request(d))' = {} /\ ~Admissible(Request(d))'
    BY <2>4, <2>5, <2>6, Zenon DEF Earlier, Admissible
  <2> QED
    BY <2>7, Zenon
<1> QED
  BY <1>2, <1>3, AnswerFate, Zenon

\* The first state satisfies the invariant, and every step keeps it.
LEMMA InitRetryInv == Init => RetryInv
BY Zenon DEF Init, RetryInv, RetrySound, AcceptedRetry, LateRetry, RefusalFinal

LEMMA NextRetryInv == IInv /\ RetryInv /\ [Next]_vars => RetryInv'
<1> SUFFICES ASSUME IInv, RetryInv, [Next]_vars, errors' = 0 PROVE RetrySound'
  BY Zenon DEF RetryInv
<1>1. errors = 0 /\ \A d \in Devices : ~HandleError(d)
  BY ErrorFate, Zenon
<1>2. AcceptedRetry /\ LateRetry /\ RefusalFinal
  BY <1>1, Zenon DEF RetryInv, RetrySound
<1>3. AcceptedRetry' /\ LateRetry' /\ RefusalFinal'
  BY <1>1, <1>2, AcceptedRetryStep, LateRetryStep, RefusalFinalStep, Zenon
<1> QED
  BY <1>3, Zenon DEF RetrySound

-----------------------------------------------------------------------------
(* Theorem *)

\* "a persistent join transaction makes invite consumption retry-safe"
\* (docs/architecture.md): as long as no coordinator answers with an error of its own, a
\* device whose join accept_member accepted is a member or still holds the pending join
\* under which a retry gets the same answer, whatever is lost, late or restarted.
THEOREM JoinsAreRetrySafe == Spec => []JoinIsRetrySafeUnlessError
<1>1. RetryInv => JoinIsRetrySafeUnlessError
  BY Zenon DEF RetryInv, RetrySound, AcceptedRetry, JoinIsRetrySafeUnlessError, JoinIsRetrySafe
<1> QED
  BY <1>1, InitRetryInv, NextRetryInv, Invariance, PTL DEF Spec
=============================================================================
