----------------------------- MODULE Membership -----------------------------
(***************************************************************************)
(* Clusters of agents (kubeweft-transport, agent.rs): creating a cluster,  *)
(* pairing codes, the join transaction between a joining agent and a       *)
(* coordinator, and the roster that members fetch.                         *)
(*                                                                         *)
(* All variables down to `requests` are what an agent's cluster.json       *)
(* holds; ClusterStore::update changes them in one step and they survive   *)
(* the agent.  A device creates at most one cluster (none is ever left),   *)
(* so the coordinator's device stands for the cluster id.  Secrets are     *)
(* numbered instead of random; a digest stands for its credential.         *)
(*                                                                         *)
(* A request is one TCP exchange: it may fail at any point, and what the   *)
(* caller gave up on may still reach the coordinator later.  Names,        *)
(* endpoint validation and the text of errors are left out.                *)
(***************************************************************************)
EXTENDS Naturals, FiniteSets

CONSTANTS Devices,
          Founders,     \* bound: devices whose users create clusters
          Nowhere,      \* an endpoint where no agent listens
          MaxInvites,   \* bound: pairing codes of a coordinator
          MaxRequests,  \* bound: join request ids of a device
          MaxErrors     \* bound: transient errors of coordinators

ASSUME MembershipAssumption ==
  /\ Nowhere \notin Devices /\ Founders \in SUBSET Devices
  /\ MaxInvites \in Nat /\ MaxRequests \in Nat /\ MaxErrors \in Nat

VARIABLES role,       \* "none", "Coordinator", "Member"
          home,       \* the coordinator of the cluster, Nowhere if none
          credential, \* the own membership credential
          invite,     \* the code that is open, 0 if none
          issued,     \* codes issued so far
          roster,     \* members: a set of entries
          accepted,   \* accepted_joins
          pending,    \* pending_join
          requests,   \* request ids drawn so far
          conn,       \* the join exchange: "idle", "sent", "answered"
          answer,     \* its answer
          late,       \* join requests that were given up on but not lost
          fetched,    \* rosters on their way to a member, by thread
          errors,     \* transient errors so far
          admitted    \* history: codes and the devices they let in

stored == <<role, home, credential, invite, issued, roster, accepted, pending, requests>>
transit == <<conn, answer, late, fetched>>
vars == <<stored, transit, errors, admitted>>

Tokens == [coordinator : Devices, number : Nat]
Credentials == [coordinator : Devices, number : Nat]
NoCredential == [coordinator |-> Nowhere, number |-> 0]
Entries == [device : Devices, credential : Credentials]
RequestIds == [device : Devices, number : Nat]
AcceptedJoins == [request : RequestIds, device : Devices, credential : Credentials]

Endpoints == Devices \cup {Nowhere}
Joins == [at : Endpoints, token : Tokens, request : RequestIds]
NoJoin == [at |-> Nowhere, token |-> [coordinator |-> Nowhere, number |-> 0],
           request |-> [device |-> Nowhere, number |-> 0]]

Refused == [granted |-> FALSE, credential |-> NoCredential, members |-> {}]
Grant(c, members) == [granted |-> TRUE, credential |-> c, members |-> members]

\* The local control thread (cluster members) and the presence thread.
Threads == {"local", "presence"}

-----------------------------------------------------------------------------
Init ==
  /\ role = [d \in Devices |-> "none"]
  /\ home = [d \in Devices |-> Nowhere]
  /\ credential = [d \in Devices |-> NoCredential]
  /\ invite = [d \in Devices |-> 0]
  /\ issued = [d \in Devices |-> 0]
  /\ roster = [d \in Devices |-> {}]
  /\ accepted = [d \in Devices |-> {}]
  /\ pending = [d \in Devices |-> NoJoin]
  /\ requests = [d \in Devices |-> 0]
  /\ conn = [d \in Devices |-> "idle"]
  /\ answer = [d \in Devices |-> Refused]
  /\ late = {}
  /\ fetched = [d \in Devices |-> [t \in Threads |-> {}]]
  /\ errors = 0
  /\ admitted = {}

\* A request for the join that is pending at d.
Request(d) == [device |-> d, token |-> pending[d].token, request |-> pending[d].request]

Requested == [device : Devices, token : Tokens, request : RequestIds]

Hangup(d) == /\ conn' = [conn EXCEPT ![d] = "idle"]
             /\ answer' = [answer EXCEPT ![d] = Refused]

-----------------------------------------------------------------------------
(* create_cluster, create_invite *)

CreateCluster(d) ==
  /\ role[d] = "none" /\ pending[d] = NoJoin
  /\ d \in Founders /\ issued[d] < MaxInvites
  /\ role' = [role EXCEPT ![d] = "Coordinator"]
  /\ home' = [home EXCEPT ![d] = d]
  /\ LET own == [coordinator |-> d, number |-> 0]
     IN  /\ credential' = [credential EXCEPT ![d] = own]
         /\ roster' = [roster EXCEPT ![d] = {[device |-> d, credential |-> own]}]
  /\ invite' = [invite EXCEPT ![d] = 1]
  /\ issued' = [issued EXCEPT ![d] = 1]
  /\ UNCHANGED <<accepted, pending, requests, transit, errors, admitted>>

CreateInvite(k) ==
  /\ role[k] = "Coordinator"
  /\ issued[k] < MaxInvites
  /\ invite' = [invite EXCEPT ![k] = issued[k] + 1]
  /\ issued' = [issued EXCEPT ![k] = @ + 1]
  /\ UNCHANGED <<role, home, credential, roster, accepted, pending, requests, transit,
                 errors, admitted>>

-----------------------------------------------------------------------------
(* join_cluster: the joining agent *)

\* Up to the request on the wire.  A join that is pending already is taken up
\* again with its request id; another one is refused.
JoinCluster(d, t, at) ==
  /\ role[d] = "none" /\ conn[d] = "idle"
  /\ t.number <= issued[t.coordinator]
  /\ \/ /\ pending[d].token = t /\ pending[d].at = at
        /\ UNCHANGED <<pending, requests>>
     \/ /\ pending[d] = NoJoin
        /\ requests[d] < MaxRequests
        /\ requests' = [requests EXCEPT ![d] = @ + 1]
        /\ pending' = [pending EXCEPT ![d] =
                         [at |-> at, token |-> t,
                          request |-> [device |-> d, number |-> requests[d] + 1]]]
  /\ conn' = [conn EXCEPT ![d] = "sent"]
  /\ UNCHANGED <<role, home, credential, invite, issued, roster, accepted, answer, late,
                 fetched, errors, admitted>>

\* Mutant: the pending join is dropped on every error.
GiveUpForgetting(d) ==
  /\ conn[d] # "idle"
  /\ Hangup(d)
  /\ pending' = [pending EXCEPT ![d] = NoJoin]
  /\ UNCHANGED <<role, home, credential, invite, issued, roster, accepted, requests, late,
                 fetched, errors, admitted>>

\* An Io error or a timeout; the request may have got through to the
\* coordinator, or be there already.
GiveUp(d) ==
  /\ conn[d] # "idle"
  /\ Hangup(d)
  /\ \/ UNCHANGED late
     \/ /\ conn[d] = "sent" /\ pending[d].at = pending[d].token.coordinator
        /\ late' = late \cup {Request(d)}
  /\ UNCHANGED <<stored, fetched, errors, admitted>>

\* The peer at the endpoint is not the coordinator that the code names.
PeerIdentityMismatch(d) ==
  /\ conn[d] = "sent"
  /\ pending[d].at \in Devices \ {pending[d].token.coordinator}
  /\ pending' = [pending EXCEPT ![d] = NoJoin]
  /\ Hangup(d)
  /\ UNCHANGED <<role, home, credential, invite, issued, roster, accepted, requests, late,
                 fetched, errors, admitted>>

\* A TransportError::Remote, whatever its code.
JoinRefused(d) ==
  /\ conn[d] = "answered" /\ ~answer[d].granted
  /\ pending' = [pending EXCEPT ![d] = NoJoin]
  /\ Hangup(d)
  /\ UNCHANGED <<role, home, credential, invite, issued, roster, accepted, requests, late,
                 fetched, errors, admitted>>

Joined(d) ==
  /\ conn[d] = "answered" /\ answer[d].granted
  /\ role' = [role EXCEPT ![d] = "Member"]
  /\ home' = [home EXCEPT ![d] = pending[d].token.coordinator]
  /\ credential' = [credential EXCEPT ![d] = answer[d].credential]
  /\ roster' = [roster EXCEPT ![d] = answer[d].members]
  /\ pending' = [pending EXCEPT ![d] = NoJoin]
  /\ Hangup(d)
  /\ UNCHANGED <<invite, issued, accepted, requests, late, fetched, errors, admitted>>

-----------------------------------------------------------------------------
(* accept_member: the coordinator *)

\* The join that was accepted under the request id of m, if any.
Earlier(m) == {a \in accepted[m.token.coordinator] : a.request = m.request}

\* The checks for a request that was not accepted before.
Admissible(m) ==
  /\ role[m.token.coordinator] = "Coordinator"
  /\ invite[m.token.coordinator] = m.token.number
  /\ \A e \in roster[m.token.coordinator] : e.device # m.device

\* Mutant: the code stays open.
AdmitKeepingCode(m) ==
  LET k == m.token.coordinator
      c == [coordinator |-> k, number |-> Cardinality(accepted[k]) + 1]
  IN  /\ roster' = [roster EXCEPT ![k] = @ \cup {[device |-> m.device, credential |-> c]}]
      /\ accepted' = [accepted EXCEPT ![k] =
                        @ \cup {[request |-> m.request, device |-> m.device, credential |-> c]}]
      /\ admitted' = admitted \cup {[token |-> m.token, device |-> m.device]}
      /\ UNCHANGED invite

\* Mutant: the credential is blanked in the accepted join.
AdmitBlank(m) ==
  LET k == m.token.coordinator
      c == [coordinator |-> k, number |-> Cardinality(accepted[k]) + 1]
  IN  /\ roster' = [roster EXCEPT ![k] = @ \cup {[device |-> m.device, credential |-> c]}]
      /\ accepted' = [accepted EXCEPT ![k] =
           @ \cup {[request |-> m.request, device |-> m.device, credential |-> NoCredential]}]
      /\ invite' = [invite EXCEPT ![k] = 0]
      /\ admitted' = admitted \cup {[token |-> m.token, device |-> m.device]}

Admit(m) ==
  LET k == m.token.coordinator
      c == [coordinator |-> k, number |-> Cardinality(accepted[k]) + 1]
  IN  /\ roster' = [roster EXCEPT ![k] = @ \cup {[device |-> m.device, credential |-> c]}]
      /\ accepted' = [accepted EXCEPT ![k] =
                        @ \cup {[request |-> m.request, device |-> m.device, credential |-> c]}]
      /\ invite' = [invite EXCEPT ![k] = 0]
      /\ admitted' = admitted \cup {[token |-> m.token, device |-> m.device]}

\* The update: a first request uses up the code, a repeated one changes nothing.
AcceptMember(m) ==
  /\ \/ Earlier(m) = {} /\ Admissible(m) /\ Admit(m)
     \/ /\ Earlier(m) # {} \/ ~Admissible(m)
        /\ UNCHANGED <<roster, accepted, invite, admitted>>
  /\ UNCHANGED <<role, home, credential, issued, pending, requests, fetched, errors>>

\* Mutant: the roster of before the update is sent.
AnswersEarly(m) ==
  IF Earlier(m) = {} THEN {Refused}
  ELSE {Grant(a.credential, {e \in roster[m.token.coordinator] : e.device # m.device}) :
          a \in Earlier(m)}

\* The answer, from the state that the update leaves.
Answers(m) ==
  IF Earlier(m) = {} THEN {Refused}
  ELSE {Grant(a.credential, roster[m.token.coordinator]) : a \in Earlier(m)}

\* Mutant: a repeated request is answered with the secret just drawn.
HandleJoinAnew(d) ==
  /\ conn[d] = "sent" /\ pending[d].at = pending[d].token.coordinator
  /\ \E m \in {Request(d)} :
       /\ AcceptMember(m)
       /\ LET k == m.token.coordinator
              drawn == [coordinator |-> k, number |-> Cardinality(accepted[k]) + 1]
          IN  \E r \in IF Earlier(m) = {} THEN Answers(m)' ELSE {Grant(drawn, roster[k])} :
                answer' = [answer EXCEPT ![d] = r]
  /\ conn' = [conn EXCEPT ![d] = "answered"]
  /\ UNCHANGED late

HandleJoin(d) ==
  /\ conn[d] = "sent" /\ pending[d].at = pending[d].token.coordinator
  /\ \E m \in {Request(d)} :
       /\ AcceptMember(m)
       /\ \E r \in Answers(m)' : answer' = [answer EXCEPT ![d] = r]
  /\ conn' = [conn EXCEPT ![d] = "answered"]
  /\ UNCHANGED late

\* The caller of a late request is gone.
HandleLate ==
  \E m \in late :
    /\ AcceptMember(m)
    /\ late' = late \ {m}
    /\ UNCHANGED <<conn, answer>>

\* The coordinator answers with an error of its own (it could not read the
\* request in time, or not write its state) and changes nothing.
HandleError(d) ==
  /\ conn[d] = "sent" /\ pending[d].at = pending[d].token.coordinator
  /\ errors < MaxErrors /\ errors' = errors + 1
  /\ answer' = [answer EXCEPT ![d] = Refused]
  /\ conn' = [conn EXCEPT ![d] = "answered"]
  /\ UNCHANGED <<stored, late, fetched, admitted>>

-----------------------------------------------------------------------------
(* remote_members, store_roster *)

Authorized(k, d, c) == [device |-> d, credential |-> c] \in roster[k]

FetchRoster(d, t) ==
  /\ role[d] = "Member" /\ fetched[d][t] = {}
  /\ role[home[d]] = "Coordinator" /\ Authorized(home[d], d, credential[d])
  /\ fetched' = [fetched EXCEPT ![d][t] = roster[home[d]]]
  /\ UNCHANGED <<stored, conn, answer, late, errors, admitted>>

StoreRoster(d, t) ==
  /\ fetched[d][t] # {}
  /\ roster' = [roster EXCEPT ![d] = fetched[d][t]]
  /\ fetched' = [fetched EXCEPT ![d][t] = {}]
  /\ UNCHANGED <<role, home, credential, invite, issued, accepted, pending, requests, conn,
                 answer, late, errors, admitted>>

LoseRoster(d, t) ==
  /\ fetched[d][t] # {}
  /\ fetched' = [fetched EXCEPT ![d][t] = {}]
  /\ UNCHANGED <<stored, conn, answer, late, errors, admitted>>

\* The agent stops and starts again: its exchanges end, and requests that were
\* on their way to it are lost.
Restart(d) ==
  /\ Hangup(d)
  /\ late' = {m \in late : m.token.coordinator # d}
  /\ fetched' = [fetched EXCEPT ![d] = [t \in Threads |-> {}]]
  /\ UNCHANGED <<stored, errors, admitted>>

-----------------------------------------------------------------------------
Retry(d) == pending[d] # NoJoin /\ JoinCluster(d, pending[d].token, pending[d].at)

Next ==
  \/ \E d \in Devices :
       \/ CreateCluster(d) \/ CreateInvite(d)
       \/ \E k \in Devices, n \in 1..MaxInvites, at \in Endpoints :
            JoinCluster(d, [coordinator |-> k, number |-> n], at)
       \/ GiveUp(d) \/ PeerIdentityMismatch(d) \/ JoinRefused(d) \/ Joined(d)
       \/ HandleJoin(d) \/ HandleError(d)
       \/ \E t \in Threads : FetchRoster(d, t) \/ StoreRoster(d, t) \/ LoseRoster(d, t)
       \/ Restart(d)
  \/ HandleLate

Spec == Init /\ [][Next]_vars

\* The user repeats a join until it is answered, the presence thread fetches the
\* roster again and again, and an exchange that is tried over and over succeeds
\* in the end.
FairSpec ==
  /\ Spec
  /\ \A d \in Devices :
       /\ WF_vars(Retry(d)) /\ SF_vars(HandleJoin(d)) /\ SF_vars(Joined(d))
       /\ WF_vars(JoinRefused(d))
       /\ WF_vars(FetchRoster(d, "presence")) /\ SF_vars(StoreRoster(d, "presence"))

-----------------------------------------------------------------------------
(* Properties *)

TypeOK ==
  /\ role \in [Devices -> {"none", "Coordinator", "Member"}]
  /\ home \in [Devices -> Endpoints]
  /\ credential \in [Devices -> Credentials \cup {NoCredential}]
  /\ invite \in [Devices -> Nat] /\ issued \in [Devices -> Nat]
  /\ roster \in [Devices -> SUBSET Entries]
  /\ accepted \in [Devices -> SUBSET AcceptedJoins]
  /\ pending \in [Devices -> Joins \cup {NoJoin}]
  /\ requests \in [Devices -> Nat]
  /\ conn \in [Devices -> {"idle", "sent", "answered"}]
  /\ answer \in [Devices -> [granted : BOOLEAN, credential : Credentials \cup {NoCredential},
                             members : SUBSET Entries]]
  /\ late \in SUBSET Requested
  /\ fetched \in [Devices -> [Threads -> SUBSET Entries]]
  /\ errors \in Nat
  /\ admitted \in SUBSET [token : Tokens, device : Devices]

\* "Possession of an unexpired pairing code authorizes one new identity" (ADR
\* 0002): no code lets in two devices, however often requests are repeated,
\* delayed or answered to nobody.
OneIdentityPerCode ==
  \A x, y \in admitted : x.token = y.token => x.device = y.device

\* What a member stored is what its coordinator has on record for it: every
\* member is authorized in its cluster, whichever of its requests was the one
\* that was accepted or answered.
CredentialsAgree ==
  \A d \in Devices :
    role[d] = "Member" => /\ role[home[d]] = "Coordinator"
                          /\ Authorized(home[d], d, credential[d])

\* "a persistent join transaction makes invite consumption retry-safe"
\* (docs/architecture.md): a device whose join was accepted has become a member,
\* or still holds the request id under which a retry gets the same answer.
JoinIsRetrySafe ==
  \A k \in Devices : \A a \in accepted[k] :
    \/ role[a.device] = "Member" /\ home[a.device] = k
    \/ pending[a.device].request = a.request /\ pending[a.device].token.coordinator = k

\* The same as long as no coordinator answered with an error of its own.
JoinIsRetrySafeUnlessError == errors = 0 => JoinIsRetrySafe

\* A member's roster holds members of its cluster only, itself and the
\* coordinator among them, although rosters may be stored out of order.
RosterIsPast ==
  \A d \in Devices :
    role[d] = "Member" => /\ roster[d] \subseteq roster[home[d]]
                          /\ Authorized(d, d, credential[d])
                          /\ Authorized(d, home[d], credential[home[d]])

\* An accepted join is completed by retries.
AcceptedJoinCompletes ==
  \A d \in Devices :
    (\E k \in Devices : \E a \in accepted[k] : a.device = d) ~> role[d] = "Member"

\* The presence thread brings every member's roster up to date, even if an
\* answer to the local thread is stored late.
RosterConverges ==
  \A d \in Devices : <>[](role[d] = "Member" => roster[d] = roster[home[d]])
=============================================================================
