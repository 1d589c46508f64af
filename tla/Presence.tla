------------------------------ MODULE Presence ------------------------------
(***************************************************************************)
(* The presence tables of the agents of one cluster: run_presence and      *)
(* reconcile_presence (agent.rs), the handling of PresenceProbe, and       *)
(* PresenceTable (presence.rs).  Tables live in memory.                    *)
(*                                                                         *)
(* Membership is what module Membership describes, seen here as the roster *)
(* in each cluster.json; that of the coordinator is the cluster's.  The    *)
(* presence thread of an agent fetches the roster, stores it, loads it     *)
(* again and probes the members it then has; its local thread, on behalf   *)
(* of a user, joins the cluster or fetches the roster and stores it too.   *)
(* Each of their accesses to cluster.json or to the table is a step; the   *)
(* listener looks a prober up and observes it in one.                      *)
(* Times of observation are left out.                                      *)
(***************************************************************************)
EXTENDS Naturals, FiniteSets

CONSTANTS Agents, Coordinator,
          Founders,      \* members at the start, when all agents have just started
          MaxUnrest      \* bound: disturbances by the environment

ASSUME PresenceAssumption ==
  Coordinator \in Founders /\ Founders \in SUBSET Agents /\ MaxUnrest \in Nat

VARIABLES roster,   \* agent -> the members in its cluster.json, {} before it joined
          known,    \* history: agent -> members of every roster it ever had
          up,       \* agents that run and can be reached
          table,    \* agent -> agent -> state on record
          answer,   \* the local thread: the roster it was sent and has not stored
          pc,       \* the presence thread
          members,  \* the roster it fetched or loaded, then the members left to probe
          probed,   \* the member being probed
          outcome,  \* and what came of it
          unrest

thread == <<pc, members, probed, outcome>>
vars == <<roster, known, up, table, answer, thread, unrest>>

States == {"none", "Unknown", "Online", "Offline"}

Empty == [b \in Agents |-> "none"]

calm == unrest = MaxUnrest

IsMember(a) == roster[a] # {}

-----------------------------------------------------------------------------
Init ==
  /\ roster = [a \in Agents |-> IF a \in Founders THEN Founders ELSE {}]
  /\ known = roster
  /\ up = Agents
  /\ table = [a \in Agents |-> Empty]
  /\ answer = [a \in Agents |-> {}]
  /\ pc = [a \in Agents |-> "idle"]
  /\ members = [a \in Agents |-> {}]
  /\ probed = [a \in Agents |-> a]
  /\ outcome = [a \in Agents |-> "Offline"]
  /\ unrest = 0

\* cluster.json of a gets the roster r.
Put(a, r) ==
  /\ roster' = [roster EXCEPT ![a] = r]
  /\ known' = [known EXCEPT ![a] = @ \cup r]

-----------------------------------------------------------------------------
(* The presence thread *)

\* A member asks the coordinator for the roster; without an answer the pass ends.
FetchRoster(a) ==
  /\ a \in up /\ IsMember(a) /\ a # Coordinator /\ pc[a] = "idle"
  /\ Coordinator \in up /\ a \in roster[Coordinator]
  /\ members' = [members EXCEPT ![a] = roster[Coordinator]]
  /\ pc' = [pc EXCEPT ![a] = "store"]
  /\ UNCHANGED <<roster, known, up, table, answer, probed, outcome, unrest>>

StoreRoster(a) ==
  /\ pc[a] = "store"
  /\ Put(a, members[a])
  /\ pc' = [pc EXCEPT ![a] = "load"]
  /\ UNCHANGED <<up, table, answer, members, probed, outcome, unrest>>

\* The coordinator's pass begins here.
LoadMembers(a) ==
  /\ pc[a] = "load" \/ (a = Coordinator /\ a \in up /\ pc[a] = "idle")
  /\ members' = [members EXCEPT ![a] = roster[a]]
  /\ pc' = [pc EXCEPT ![a] = "sync"]
  /\ UNCHANGED <<roster, known, up, table, answer, probed, outcome, unrest>>

\* The loop goes on, or the pass ends.
NextProbe(left) == IF left = {} THEN "idle" ELSE "probe"

\* sync_members
Synced(a) ==
  [b \in Agents |-> IF b \notin members[a] THEN "none"
                    ELSE IF b = a THEN "Online"
                    ELSE IF table[a][b] = "none" THEN "Unknown" ELSE table[a][b]]

SyncMembers(a) ==
  /\ pc[a] = "sync"
  /\ table' = [table EXCEPT ![a] = Synced(a)]
  /\ members' = [members EXCEPT ![a] = @ \ {a}]
  /\ pc' = [pc EXCEPT ![a] = NextProbe(members[a] \ {a})]
  /\ UNCHANGED <<roster, known, up, answer, probed, outcome, unrest>>

\* observe
Observe(a, b, s) == table' = [table EXCEPT ![a][b] = s]

\* Mutant: the peer is not looked up in the roster.
AuthorizedAnyone(a, b) == b \in up

\* authorize_peer at b, against the roster that b has
Authorized(a, b) == b \in up /\ a \in roster[b]

Sent(a, b, s) ==
  /\ pc' = [pc EXCEPT ![a] = "record"]
  /\ members' = [members EXCEPT ![a] = @ \ {b}]
  /\ probed' = [probed EXCEPT ![a] = b]
  /\ outcome' = [outcome EXCEPT ![a] = s]
  /\ UNCHANGED <<roster, known, up, answer>>

\* b looks a up, observes it and acknowledges the probe; the answer may get lost.
ProbeAnswered(a, b) ==
  /\ pc[a] = "probe" /\ b \in members[a]
  /\ Authorized(a, b)
  /\ Observe(b, a, "Online")
  /\ \/ Sent(a, b, "Online") /\ UNCHANGED unrest
     \/ Sent(a, b, "Offline") /\ ~calm /\ unrest' = unrest + 1

\* Mutant: a failed probe puts the member back to Unknown.
ProbeFailedUnknown(a, b) ==
  /\ pc[a] = "probe" /\ b \in members[a]
  /\ ~Authorized(a, b)
  /\ Sent(a, b, "Unknown")
  /\ UNCHANGED <<table, unrest>>

\* Not reached, or not authorized.
ProbeFailed(a, b) ==
  /\ pc[a] = "probe" /\ b \in members[a]
  /\ ~Authorized(a, b)
  /\ Sent(a, b, "Offline")
  /\ UNCHANGED <<table, unrest>>

\* Mutant: failed probes are not recorded.
RecordAnswered(a) ==
  /\ pc[a] = "record"
  /\ IF outcome[a] = "Online" THEN Observe(a, probed[a], "Online") ELSE UNCHANGED table
  /\ pc' = [pc EXCEPT ![a] = NextProbe(members[a])]
  /\ probed' = [probed EXCEPT ![a] = a]
  /\ outcome' = [outcome EXCEPT ![a] = "Offline"]
  /\ UNCHANGED <<roster, known, up, answer, members, unrest>>

RecordProbe(a) ==
  /\ pc[a] = "record"
  /\ Observe(a, probed[a], outcome[a])
  /\ pc' = [pc EXCEPT ![a] = NextProbe(members[a])]
  /\ probed' = [probed EXCEPT ![a] = a]
  /\ outcome' = [outcome EXCEPT ![a] = "Offline"]
  /\ UNCHANGED <<roster, known, up, answer, members, unrest>>

Pass(a) ==
  \/ FetchRoster(a) \/ StoreRoster(a) \/ LoadMembers(a) \/ SyncMembers(a)
  \/ RecordProbe(a)
  \/ \E b \in Agents : ProbeAnswered(a, b) \/ ProbeFailed(a, b)

-----------------------------------------------------------------------------
(* The local thread *)

\* join_cluster or local_members stores what the coordinator sent.
StoreAnswer(a) ==
  /\ answer[a] # {}
  /\ Put(a, answer[a])
  /\ answer' = [answer EXCEPT ![a] = {}]
  /\ UNCHANGED <<up, table, thread, unrest>>

-----------------------------------------------------------------------------
(* The rest of the system, until it comes to rest *)

\* accept_member, for a new request or one made again; the answer, which carries
\* the roster, may get lost.
AcceptMember(a) ==
  /\ a \in up /\ ~IsMember(a) /\ answer[a] = {} /\ Coordinator \in up
  /\ Put(Coordinator, roster[Coordinator] \cup {a})
  /\ \E r \in {roster'[Coordinator], {}} : answer' = [answer EXCEPT ![a] = r]
  /\ UNCHANGED <<up, table, thread>>

\* local_members asks as the presence thread does.
RemoteMembers(a) ==
  /\ a \in up /\ IsMember(a) /\ a # Coordinator /\ answer[a] = {}
  /\ Coordinator \in up /\ a \in roster[Coordinator]
  /\ answer' = [answer EXCEPT ![a] = roster[Coordinator]]
  /\ UNCHANGED <<roster, known, up, table, thread>>

\* Everything but cluster.json is gone when an agent stops.
Stop(a) ==
  /\ a \in up /\ up' = up \ {a}
  /\ table' = [table EXCEPT ![a] = Empty]
  /\ answer' = [answer EXCEPT ![a] = {}]
  /\ pc' = [pc EXCEPT ![a] = "idle"]
  /\ members' = [members EXCEPT ![a] = {}]
  /\ probed' = [probed EXCEPT ![a] = a]
  /\ outcome' = [outcome EXCEPT ![a] = "Offline"]
  /\ UNCHANGED <<roster, known>>

Start(a) ==
  /\ a \notin up /\ up' = up \cup {a}
  /\ UNCHANGED <<roster, known, table, answer, thread>>

Environment ==
  /\ ~calm
  /\ \E a \in Agents : AcceptMember(a) \/ RemoteMembers(a) \/ Stop(a) \/ Start(a)
  /\ unrest' = unrest + 1

Next ==
  \/ Environment
  \/ \E a \in Agents : Pass(a) \/ StoreAnswer(a)

\* run_presence repeats its passes until the agent stops; a request that was taken
\* is handled to its end.
Spec ==
  /\ Init /\ [][Next]_vars
  /\ \A a \in Agents : WF_vars(Pass(a)) /\ WF_vars(StoreAnswer(a))

-----------------------------------------------------------------------------
(* Properties *)

TypeOK ==
  /\ roster \in [Agents -> SUBSET Agents]
  /\ known \in [Agents -> SUBSET Agents]
  /\ up \in SUBSET Agents
  /\ table \in [Agents -> [Agents -> States]]
  /\ answer \in [Agents -> SUBSET Agents]
  /\ pc \in [Agents -> {"idle", "store", "load", "sync", "probe", "record"}]
  /\ members \in [Agents -> SUBSET Agents]
  /\ probed \in [Agents -> Agents]
  /\ outcome \in [Agents -> {"Online", "Offline"}]
  /\ unrest \in 0..MaxUnrest

\* "Presence is an ephemeral observation made only after Noise identity and
\* roster credential validation" (docs/architecture.md): an agent has records only
\* of devices that the coordinator accepted and whose credential the agent had in
\* a roster itself.  Passes work on rosters fetched or loaded earlier, the local
\* thread may put an older roster back (agent.rs:774), the listener records peers
\* in between (agent.rs:424); the agent itself is never anything but Online.
OnlyMembersOnRecord ==
  \A a, b \in Agents :
    table[a][b] # "none" => /\ b \in known[a] \cap roster[Coordinator]
                            /\ a = b => table[a][b] = "Online"

\* The truth about agent b: a device that was accepted and never stored the
\* answer does not take part.
Actual(b) == IF b \in up /\ IsMember(b) THEN "Online" ELSE "Offline"

Accurate ==
  \A a \in up, b \in roster[Coordinator] : IsMember(a) => table[a][b] = Actual(b)

\* Once agents come to rest with the coordinator up, every table becomes right
\* and stays so: a lost answer, an older roster stored last, a refusal by a peer
\* with an old roster, and a result recorded after a newer observation are all
\* corrected.
PresenceSettles == <>calm => <>[](Coordinator \in up => Accurate)

\* "`cluster presence` shows current authenticated reachability observations"
\* (README.md): no agent goes on showing another as Online that has stopped,
\* whether or not the coordinator is up.
PresenceIsCurrent ==
  <>calm => <>[](\A a \in up, b \in Agents : table[a][b] = "Online" => b \in up)
=============================================================================
