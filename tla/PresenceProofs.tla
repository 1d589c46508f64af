--------------------------- MODULE PresenceProofs ---------------------------
(***************************************************************************)
(* What a presence table holds, for any number of agents and disturbances. *)
(***************************************************************************)
EXTENDS Presence, TLAPS

-----------------------------------------------------------------------------
(* The inductive invariant *)

\* Every roster, stored or on its way, is one that the coordinator had; nobody
\* sends the coordinator one.
RostersArePast ==
  /\ Coordinator \in roster[Coordinator] /\ answer[Coordinator] = {}
  /\ \A a \in Agents : /\ roster[a] \subseteq known[a] /\ known[a] \subseteq roster[Coordinator]
                       /\ answer[a] \subseteq roster[Coordinator]

\* A pass works on members that the agent knew at some time, and never on the
\* agent itself: what it records later is of a member still.
PassIsOfMembers(a) ==
  /\ pc[a] = "store" => a # Coordinator /\ members[a] \subseteq roster[Coordinator]
  /\ pc[a] = "sync" => members[a] \subseteq known[a]
  /\ pc[a] \in {"probe", "record"} => members[a] \subseteq known[a] \ {a}
  /\ pc[a] = "record" => probed[a] \in known[a] \ {a}

PassesAreOfMembers == \A a \in Agents : PassIsOfMembers(a)

IInv == TypeOK /\ RostersArePast /\ PassesAreOfMembers /\ OnlyMembersOnRecord

\* The first state satisfies the invariant.
LEMMA InitIInv == Init => IInv
<1> SUFFICES ASSUME Init PROVE IInv
  BY Zenon
<1>1. unrest \in 0 .. MaxUnrest
  BY PresenceAssumption DEF Init
<1>2. TypeOK
  BY <1>1, PresenceAssumption DEF Init, TypeOK, Empty, States
<1>3. RostersArePast /\ PassesAreOfMembers
  BY PresenceAssumption DEF Init, RostersArePast, PassesAreOfMembers, PassIsOfMembers
<1>4. OnlyMembersOnRecord
  BY DEF Init, OnlyMembersOnRecord, Empty
<1> QED
  BY <1>2, <1>3, <1>4, Zenon DEF IInv

-----------------------------------------------------------------------------
(* Every step preserves it *)

\* Disturbances are counted up to the bound.
LEMMA UnrestCounts ==
  ASSUME unrest \in 0 .. MaxUnrest, ~calm
  PROVE  unrest + 1 \in 0 .. MaxUnrest
BY PresenceAssumption DEF calm

\* An agent stores a roster that the coordinator had, or the coordinator a larger
\* one: nothing that was known gets lost.
LEMMA PutKeeps ==
  ASSUME IInv, NEW a \in Agents, NEW r \in SUBSET Agents, Put(a, r),
         IF a = Coordinator THEN roster[a] \subseteq r ELSE r \subseteq roster[Coordinator]
  PROVE  /\ roster' \in [Agents -> SUBSET Agents] /\ known' \in [Agents -> SUBSET Agents]
         /\ roster[Coordinator] \subseteq roster'[Coordinator]
         /\ \A b \in Agents : /\ known[b] \subseteq known'[b]
                              /\ roster'[b] \subseteq known'[b]
                              /\ known'[b] \subseteq roster'[Coordinator]
<1> USE PresenceAssumption
<1>1. /\ roster' = [b \in Agents |-> IF b = a THEN r ELSE roster[b]]
      /\ known' = [b \in Agents |-> IF b = a THEN known[b] \cup r ELSE known[b]]
  BY DEF Put, IInv, TypeOK
<1>2. Coordinator \in Agents /\ roster \in [Agents -> SUBSET Agents]
        /\ known \in [Agents -> SUBSET Agents]
  BY DEF IInv, TypeOK
<1> QED
  BY <1>1, <1>2 DEF IInv, RostersArePast

\* What the tables and the passes hold stays right while rosters change so.
LEMMA KnownKeeps ==
  ASSUME IInv, roster[Coordinator] \subseteq roster'[Coordinator],
         \A b \in Agents : known[b] \subseteq known'[b], UNCHANGED table
  PROVE  /\ OnlyMembersOnRecord'
         /\ \A b \in Agents : UNCHANGED <<pc[b], members[b], probed[b]>> => PassIsOfMembers(b)'
<1>1. OnlyMembersOnRecord'
  BY DEF IInv, OnlyMembersOnRecord
<1>2. ASSUME NEW b \in Agents, UNCHANGED <<pc[b], members[b], probed[b]>>
      PROVE  PassIsOfMembers(b)'
  BY <1>2 DEF IInv, PassesAreOfMembers, PassIsOfMembers
<1> QED
  BY <1>1, <1>2, Zenon

\* The beginning of a pass.
LEMMA PassSteps ==
  ASSUME IInv, NEW a \in Agents, FetchRoster(a) \/ LoadMembers(a) \/ SyncMembers(a)
  PROVE  IInv'
<1> USE PresenceAssumption
<1>1. CASE FetchRoster(a)
  <2>1. TypeOK'
    BY <1>1 DEF IInv, TypeOK, FetchRoster
  <2>2. RostersArePast' /\ OnlyMembersOnRecord'
    BY <1>1, Zenon DEF IInv, FetchRoster, RostersArePast, OnlyMembersOnRecord
  <2>3. PassesAreOfMembers'
    BY <1>1 DEF IInv, TypeOK, FetchRoster, PassesAreOfMembers, PassIsOfMembers
  <2> QED BY <2>1, <2>2, <2>3, Zenon DEF IInv
<1>2. CASE LoadMembers(a)
  <2>1. TypeOK'
    BY <1>2 DEF IInv, TypeOK, LoadMembers
  <2>2. RostersArePast' /\ OnlyMembersOnRecord'
    BY <1>2, Zenon DEF IInv, LoadMembers, RostersArePast, OnlyMembersOnRecord
  <2>3. PassesAreOfMembers'
    BY <1>2 DEF IInv, TypeOK, LoadMembers, RostersArePast, PassesAreOfMembers, PassIsOfMembers
  <2> QED BY <2>1, <2>2, <2>3, Zenon DEF IInv
<1>3. CASE SyncMembers(a)
  <2>1. Synced(a) \in [Agents -> States]
    BY DEF IInv, TypeOK, Synced, States
  <2>2. TypeOK'
    BY <1>3, <2>1 DEF IInv, TypeOK, SyncMembers, NextProbe
  <2>3. RostersArePast'
    BY <1>3, Zenon DEF IInv, SyncMembers, RostersArePast
  <2>4. members[a] \subseteq known[a] /\ known[a] \subseteq roster[Coordinator]
    BY <1>3 DEF IInv, SyncMembers, PassesAreOfMembers, PassIsOfMembers, RostersArePast
  <2>5. PassesAreOfMembers'
    BY <1>3, <2>4 DEF IInv, TypeOK, SyncMembers, NextProbe, PassesAreOfMembers, PassIsOfMembers
  <2>6. \A b \in Agents : Synced(a)[b] # "none" =>
          b \in members[a] /\ (a = b => Synced(a)[b] = "Online")
    BY DEF Synced
  <2>7. OnlyMembersOnRecord'
    BY <1>3, <2>4, <2>6 DEF IInv, TypeOK, SyncMembers, OnlyMembersOnRecord
  <2> QED BY <2>2, <2>3, <2>5, <2>7, Zenon DEF IInv
<1> QED
  BY <1>1, <1>2, <1>3, Zenon

\* The two threads that store a roster.
LEMMA StoreSteps ==
  ASSUME IInv, NEW a \in Agents, StoreRoster(a) \/ StoreAnswer(a)
  PROVE  IInv'
<1> USE PresenceAssumption
<1>1. CASE StoreRoster(a)
  <2>1. a # Coordinator /\ members[a] \subseteq roster[Coordinator] /\ members[a] \in SUBSET Agents
    BY <1>1 DEF IInv, TypeOK, StoreRoster, PassesAreOfMembers, PassIsOfMembers
  <2>2. /\ roster' \in [Agents -> SUBSET Agents] /\ known' \in [Agents -> SUBSET Agents]
        /\ roster[Coordinator] \subseteq roster'[Coordinator]
        /\ \A b \in Agents : /\ known[b] \subseteq known'[b]
                             /\ roster'[b] \subseteq known'[b]
                             /\ known'[b] \subseteq roster'[Coordinator]
    BY <1>1, <2>1, PutKeeps, Zenon DEF StoreRoster
  <2>3. TypeOK'
    BY <1>1, <2>2 DEF IInv, TypeOK, StoreRoster
  <2>4. RostersArePast'
    BY <1>1, <2>2 DEF IInv, RostersArePast, StoreRoster
  <2>5. OnlyMembersOnRecord'
    BY <1>1, <2>2, KnownKeeps, Zenon DEF StoreRoster
  <2>6. PassIsOfMembers(a)'
    BY <1>1 DEF StoreRoster, PassIsOfMembers, IInv, TypeOK
  <2>7. \A b \in Agents \ {a} : UNCHANGED <<pc[b], members[b], probed[b]>>
    BY <1>1, Zenon DEF StoreRoster, IInv, TypeOK
  <2>8. PassesAreOfMembers'
    BY <1>1, <2>2, <2>6, <2>7, KnownKeeps, Zenon DEF PassesAreOfMembers, StoreRoster
  <2> QED BY <2>3, <2>4, <2>5, <2>8, Zenon DEF IInv
<1>2. CASE StoreAnswer(a)
  <2>1. a # Coordinator /\ answer[a] \subseteq roster[Coordinator] /\ answer[a] \in SUBSET Agents
    BY <1>2 DEF IInv, TypeOK, StoreAnswer, RostersArePast
  <2>2. /\ roster' \in [Agents -> SUBSET Agents] /\ known' \in [Agents -> SUBSET Agents]
        /\ roster[Coordinator] \subseteq roster'[Coordinator]
        /\ \A b \in Agents : /\ known[b] \subseteq known'[b]
                             /\ roster'[b] \subseteq known'[b]
                             /\ known'[b] \subseteq roster'[Coordinator]
    BY <1>2, <2>1, PutKeeps, Zenon DEF StoreAnswer
  <2>3. TypeOK'
    BY <1>2, <2>2 DEF IInv, TypeOK, StoreAnswer, thread
  <2>4. RostersArePast'
    BY <1>2, <2>2 DEF IInv, TypeOK, RostersArePast, StoreAnswer
  <2>5. OnlyMembersOnRecord' /\ PassesAreOfMembers'
    BY <1>2, <2>2, KnownKeeps DEF StoreAnswer, thread, PassesAreOfMembers
  <2> QED BY <2>3, <2>4, <2>5, Zenon DEF IInv
<1> QED
  BY <1>1, <1>2, Zenon

\* The bookkeeping of a probe that was sent.
LEMMA SentKeeps ==
  ASSUME IInv, NEW a \in Agents, pc[a] = "probe", NEW b \in members[a],
         NEW s \in {"Online", "Offline"},
         Sent(a, b, s), table' \in [Agents -> [Agents -> States]], unrest' \in 0 .. MaxUnrest
  PROVE  TypeOK' /\ RostersArePast' /\ PassesAreOfMembers'
<1>1. b \in Agents /\ b \in known[a] \ {a}
  BY DEF IInv, TypeOK, PassesAreOfMembers, PassIsOfMembers
<1>2. TypeOK'
  BY <1>1 DEF IInv, TypeOK, Sent
<1>3. RostersArePast'
  BY Zenon DEF IInv, Sent, RostersArePast
<1>4. PassesAreOfMembers'
  BY <1>1 DEF IInv, TypeOK, Sent, PassesAreOfMembers, PassIsOfMembers
<1> QED
  BY <1>2, <1>3, <1>4, Zenon

\* A probe and its outcome.
LEMMA ProbeSteps ==
  ASSUME IInv, NEW a \in Agents, NEW b \in Agents, ProbeAnswered(a, b) \/ ProbeFailed(a, b)
  PROVE  IInv'
<1>1. CASE ProbeAnswered(a, b)
  <2>1. /\ pc[a] = "probe" /\ b \in members[a] /\ a \in roster[b]
        /\ table' = [table EXCEPT ![b][a] = "Online"]
    BY <1>1, Zenon DEF ProbeAnswered, Authorized, Observe
  <2>2. PICK s \in {"Online", "Offline"} :
          Sent(a, b, s) /\ (unrest' = unrest \/ (~calm /\ unrest' = unrest + 1))
    BY <1>1, Zenon DEF ProbeAnswered
  <2>3. unrest' \in 0 .. MaxUnrest
    BY <2>2, UnrestCounts, Zenon DEF IInv, TypeOK
  <2>4. table' \in [Agents -> [Agents -> States]]
    BY <2>1 DEF IInv, TypeOK, States
  <2>5. a \in known[b] \cap roster[Coordinator]
    BY <2>1 DEF IInv, RostersArePast
  <2>6. OnlyMembersOnRecord'
    BY <2>1, <2>2, <2>5 DEF IInv, TypeOK, OnlyMembersOnRecord, Sent
  <2>7. TypeOK' /\ RostersArePast' /\ PassesAreOfMembers'
    BY <2>1, <2>2, <2>3, <2>4, SentKeeps
  <2> QED BY <2>6, <2>7, Zenon DEF IInv
<1>2. CASE ProbeFailed(a, b)
  <2>1. pc[a] = "probe" /\ b \in members[a] /\ Sent(a, b, "Offline") /\ UNCHANGED <<table, unrest>>
    BY <1>2, Zenon DEF ProbeFailed
  <2>2. table' \in [Agents -> [Agents -> States]] /\ unrest' \in 0 .. MaxUnrest
    BY <2>1, Zenon DEF IInv, TypeOK
  <2>3. OnlyMembersOnRecord'
    BY <2>1, Zenon DEF IInv, OnlyMembersOnRecord, Sent
  <2> QED BY <2>1, <2>2, <2>3, SentKeeps, Zenon DEF IInv
<1> QED
  BY <1>1, <1>2, Zenon

\* The outcome gets on record, whatever the other threads wrote in between.
LEMMA RecordStep ==
  ASSUME IInv, NEW a \in Agents, RecordProbe(a)
  PROVE  IInv'
<1>1. /\ probed[a] \in Agents /\ probed[a] \in known[a] \ {a}
      /\ known[a] \subseteq roster[Coordinator]
      /\ outcome[a] \in {"Online", "Offline"}
  BY DEF IInv, TypeOK, PassesAreOfMembers, PassIsOfMembers, RecordProbe, RostersArePast
<1>2. TypeOK'
  BY <1>1 DEF IInv, TypeOK, RecordProbe, Observe, States, NextProbe
<1>3. RostersArePast'
  BY Zenon DEF IInv, RecordProbe, RostersArePast
<1>4. PassesAreOfMembers'
  BY DEF IInv, TypeOK, RecordProbe, NextProbe, PassesAreOfMembers, PassIsOfMembers
<1>5. OnlyMembersOnRecord'
  BY <1>1 DEF IInv, TypeOK, RecordProbe, Observe, OnlyMembersOnRecord
<1> QED
  BY <1>2, <1>3, <1>4, <1>5, Zenon DEF IInv

\* Agents join, ask for the roster, stop and start.
LEMMA EnvironmentSteps ==
  ASSUME IInv, Environment
  PROVE  IInv'
<1> USE PresenceAssumption
<1>1. unrest' \in 0 .. MaxUnrest
  BY UnrestCounts, Zenon DEF IInv, TypeOK, Environment
<1>2. PICK a \in Agents : AcceptMember(a) \/ RemoteMembers(a) \/ Stop(a) \/ Start(a)
  BY Zenon DEF Environment
<1>3. CASE AcceptMember(a)
  <2> DEFINE all == roster[Coordinator] \cup {a}
  <2>1. /\ Put(Coordinator, all) /\ UNCHANGED <<up, table, thread>> /\ a # Coordinator
        /\ roster' = [roster EXCEPT ![Coordinator] = all]
    BY <1>3 DEF AcceptMember, Put, IsMember, IInv, RostersArePast
  <2>2. Coordinator \in Agents /\ all \in SUBSET Agents /\ roster[Coordinator] \subseteq all
    BY DEF IInv, TypeOK
  <2>3. PICK r \in {all, {}} : answer' = [answer EXCEPT ![a] = r]
    BY <1>3, <2>1, <2>2 DEF AcceptMember, IInv, TypeOK
  <2> HIDE DEF all
  <2>4. /\ roster' \in [Agents -> SUBSET Agents] /\ known' \in [Agents -> SUBSET Agents]
        /\ roster[Coordinator] \subseteq roster'[Coordinator]
        /\ \A b \in Agents : /\ known[b] \subseteq known'[b]
                             /\ roster'[b] \subseteq known'[b]
                             /\ known'[b] \subseteq roster'[Coordinator]
    BY <2>1, <2>2, PutKeeps, Zenon
  <2>5. TypeOK'
    BY <1>1, <2>1, <2>2, <2>3, <2>4 DEF IInv, TypeOK, thread
  <2>6. roster'[Coordinator] = all
    BY <2>1, <2>2, Zenon DEF IInv, TypeOK
  <2>7. RostersArePast'
    BY <2>1, <2>2, <2>3, <2>4, <2>6 DEF IInv, TypeOK, RostersArePast
  <2>8. OnlyMembersOnRecord' /\ PassesAreOfMembers'
    BY <2>1, <2>4, KnownKeeps DEF thread, PassesAreOfMembers
  <2> QED BY <2>5, <2>7, <2>8, Zenon DEF IInv
<1>4. CASE RemoteMembers(a)
  <2>1. TypeOK'
    BY <1>1, <1>4 DEF IInv, TypeOK, RemoteMembers, thread
  <2>2. RostersArePast'
    BY <1>4 DEF IInv, TypeOK, RemoteMembers, RostersArePast
  <2>3. PassesAreOfMembers' /\ OnlyMembersOnRecord'
    BY <1>4, Zenon DEF IInv, RemoteMembers, thread, PassesAreOfMembers, PassIsOfMembers,
                       OnlyMembersOnRecord
  <2> QED BY <2>1, <2>2, <2>3, Zenon DEF IInv
<1>5. CASE Stop(a)
  <2>1. TypeOK'
    BY <1>1, <1>5 DEF IInv, TypeOK, Stop, Empty, States
  <2>2. RostersArePast'
    BY <1>5 DEF IInv, TypeOK, Stop, RostersArePast
  <2>3. PassesAreOfMembers'
    BY <1>5 DEF IInv, TypeOK, Stop, PassesAreOfMembers, PassIsOfMembers
  <2>4. OnlyMembersOnRecord'
    BY <1>5 DEF IInv, TypeOK, Stop, Empty, OnlyMembersOnRecord
  <2> QED BY <2>1, <2>2, <2>3, <2>4, Zenon DEF IInv
<1>6. CASE Start(a)
  <2>1. TypeOK'
    BY <1>1, <1>6 DEF IInv, TypeOK, Start, thread
  <2>2. RostersArePast' /\ PassesAreOfMembers' /\ OnlyMembersOnRecord'
    BY <1>6, Zenon DEF IInv, Start, thread, RostersArePast, PassesAreOfMembers, PassIsOfMembers,
                       OnlyMembersOnRecord
  <2> QED BY <2>1, <2>2, Zenon DEF IInv
<1> QED
  BY <1>2, <1>3, <1>4, <1>5, <1>6, Zenon

\* The invariant is inductive.
LEMMA NextIInv == IInv /\ [Next]_vars => IInv'
<1> SUFFICES ASSUME IInv, [Next]_vars
             PROVE  IInv'
  BY Zenon
<1>1. CASE Next
  BY <1>1, EnvironmentSteps, PassSteps, StoreSteps, ProbeSteps, RecordStep, Zenon DEF Next, Pass
<1>2. CASE UNCHANGED vars
  BY <1>2, Zenon
     DEF vars, thread, IInv, TypeOK, RostersArePast, PassesAreOfMembers, PassIsOfMembers,
         OnlyMembersOnRecord
<1> QED
  BY <1>1, <1>2, Zenon

\* It holds in every reachable state.
LEMMA Invariance == Spec => []IInv
BY InitIInv, NextIInv, PTL DEF Spec

-----------------------------------------------------------------------------
(* Results *)

\* Every variable has its type: a probe has one of two outcomes, and a record one of
\* the states of presence.rs.
THEOREM PresenceTypeCorrect == Spec => []TypeOK
<1>1. IInv => TypeOK
  BY Zenon DEF IInv
<1> QED
  BY <1>1, Invariance, PTL

\* However passes, the local thread, the probes of peers, joins, crashes and restarts
\* interleave, and whichever roster is stored last, a table has records only of
\* devices that the coordinator accepted and the agent knew of, and the agent itself
\* is never on record as anything but Online (sync_members, observe, authorize_peer).
THEOREM RecordsAreOfMembers == Spec => []OnlyMembersOnRecord
<1>1. IInv => OnlyMembersOnRecord
  BY Zenon DEF IInv
<1> QED
  BY <1>1, Invariance, PTL
=============================================================================
