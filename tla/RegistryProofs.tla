--------------------------- MODULE RegistryProofs ---------------------------
(***************************************************************************)
(* Theorems about the registry, for any sets of nodes, streams, sequence   *)
(* numbers, loads, URLs and threads and any thresholds.                    *)
(***************************************************************************)
EXTENDS Registry, ManifestProofs

-----------------------------------------------------------------------------
(* The window *)

\* What is required is made of committed segments.
LEMMA RequiredIsCommitted ==
    ASSUME NEW c \in [Streams -> SUBSET Sequences]
    PROVE  Required(c) \in SUBSET SegmentIds
<1> SUFFICES ASSUME NEW r \in Streams, NEW s \in Present(c[r])
             PROVE  <<r, s>> \in SegmentIds
    BY DEF Required
<1> QED BY DEF Present, SegmentIds

\* Nothing is required exactly as long as nothing is committed.
LEMMA EmptyWindow ==
    ASSUME NEW c \in [Streams -> SUBSET Sequences],
           \A r \in Streams : c[r] = {} \/ HasMax(c[r])
    PROVE  Required(c) = {} <=> \A r \in Streams : c[r] = {}
<1>1. ASSUME NEW r \in Streams, HasMax(c[r])
      PROVE  Present(c[r]) # {}
    BY <1>1, CacheNodesAssumption, EdgeIsPresent
<1>2. ASSUME NEW r \in Streams, c[r] = {}
      PROVE  Present(c[r]) = {}
    BY <1>2 DEF Present
<1>3. Required(c) = {} <=> \A r \in Streams : Present(c[r]) = {}
  <2>1. \A x : x \in Required(c) <=>
                 \E r \in Streams : \E s \in Present(c[r]) : x = <<r, s>>
      BY DEF Required
  <2> QED BY <2>1
<1> QED BY <1>1, <1>2, <1>3

-----------------------------------------------------------------------------
(* One evaluation *)

LEMMA NextStateType ==
    ASSUME NEW node \in CacheNode, NEW req, NEW now \in Nat
    PROVE  NextState(node, req, now) \in States
BY DEF NextState, CacheNode, States

LEMMA EvaluateStateType ==
    ASSUME NEW node \in CacheNode, NEW req, NEW now \in Nat
    PROVE  /\ EvaluateState(node, req, now) \in CacheNode
           /\ EvaluateState(node, req, now) =
                [node EXCEPT !.state = NextState(node, req, now)]
BY NextStateType DEF EvaluateState, CacheNode

\* COLD, ACTIVE and DRAINING carry no memory of their own: a node that is not
\* DEAD after its evaluation is ACTIVE exactly if its report qualifies it.
LEMMA ActiveIffQualifies ==
    ASSUME NEW node \in CacheNode, NEW req, NEW now \in Nat,
           NextState(node, req, now) # "DEAD"
    PROVE  NextState(node, req, now) = "ACTIVE" <=> Qualifies(node, req)
BY DEF NextState, CacheNode, States, Qualifies

-----------------------------------------------------------------------------
(* Type correctness *)

LEMMA EvaluateAllType ==
    ASSUME NEW ns, IsRegistry(ns), NEW req, NEW now \in Nat
    PROVE  /\ IsRegistry(EvaluateAll(ns, req, now))
           /\ DOMAIN EvaluateAll(ns, req, now) = DOMAIN ns
           /\ \A n \in DOMAIN ns :
                 EvaluateAll(ns, req, now)[n] = EvaluateState(ns[n], req, now)
BY EvaluateStateType DEF EvaluateAll, IsRegistry

LEMMA RegisterType ==
    ASSUME NEW ns, IsRegistry(ns), NEW n \in NodeIds, NEW url \in Urls,
           NEW now \in Nat
    PROVE  IsRegistry(Register(ns, n, url, now))
<1>1. NewCold(url, now) \in CacheNode
    BY CacheNodesAssumption DEF NewCold, CacheNode, States, Health
<1>2. ASSUME n \in DOMAIN ns
      PROVE  [ns[n] EXCEPT !.base_url = url, !.last_heartbeat_ms = now]
                \in CacheNode
    BY <1>2 DEF CacheNode, IsRegistry
<1> QED BY <1>1, <1>2 DEF Register, IsRegistry

\* The record of a node that sent a heartbeat.
AfterHeartbeat(node, health, load, retained, now) ==
    [node EXCEPT
        !.last_heartbeat_ms = now,
        !.health = health,
        !.load_score = load,
        !.state = IF node.state = "DEAD" THEN "COLD" ELSE node.state,
        !.retained = IF node.state = "DEAD" THEN {} ELSE retained]

LEMMA HeartbeatType ==
    ASSUME NEW ns, IsRegistry(ns), NEW n \in DOMAIN ns, NEW health \in Health,
           NEW load \in Loads, NEW retained \in SUBSET SegmentIds,
           NEW now \in Nat
    PROVE  /\ IsRegistry(Heartbeat(ns, n, health, load, retained, now))
           /\ DOMAIN Heartbeat(ns, n, health, load, retained, now) = DOMAIN ns
           /\ Heartbeat(ns, n, health, load, retained, now)[n] =
                 AfterHeartbeat(ns[n], health, load, retained, now)
           /\ \A m \in DOMAIN ns \ {n} :
                 Heartbeat(ns, n, health, load, retained, now)[m] = ns[m]
<1> DEFINE node == AfterHeartbeat(ns[n], health, load, retained, now)
<1>1. ns[n] \in CacheNode
    BY DEF IsRegistry
<1>2. Heartbeat(ns, n, health, load, retained, now) = [ns EXCEPT ![n] = node]
    BY DEF Heartbeat, AfterHeartbeat
<1>3. node \in CacheNode
    BY <1>1 DEF CacheNode, States, AfterHeartbeat
<1> QED BY <1>2, <1>3 DEF IsRegistry

LEMMA StampsAreTimes ==
    ASSUME TypeOK, NEW t \in Threads, stamps[t] # NoStamp
    PROVE  stamps[t] \in Times /\ stamps[t] \in Nat
BY RegistryAssumption DEF TypeOK, Times, NoStamp

LEMMA InitTypeOK == Init => TypeOK
<1> SUFFICES ASSUME Init
             PROVE  TypeOK
    OBVIOUS
<1>1. IsRegistry(nodes)
    BY DEF Init, IsRegistry
<1>2. 0 \in Times /\ 0 \in 0..MaxSetBacks
    BY RegistryAssumption DEF Times
<1>3. reply \in Replies
    BY DEF Init, Replies, NoReply
<1> QED BY <1>1, <1>2, <1>3 DEF Init, TypeOK

LEMMA NextTypeOK == TypeOK /\ [Next]_vars => TypeOK'
<1> SUFFICES ASSUME TypeOK, [Next]_vars
             PROVE  TypeOK'
    OBVIOUS
<1> USE RegistryAssumption
<1>r. required \in SUBSET SegmentIds
    BY RequiredIsCommitted DEF TypeOK, required
<1>t. IsRegistry(nodes)
    BY DEF TypeOK
<1>0. NoReply \in Replies
    BY DEF NoReply, Replies
<1>1. CASE Tick
    BY <1>0, <1>1 DEF Tick, TypeOK, Times
<1>b. CASE SetBack
  <2>1. clock' \in Times /\ setBacks' \in 0..MaxSetBacks
      BY <1>b DEF SetBack, TypeOK, Times
  <2> QED BY <1>0, <1>b, <2>1 DEF SetBack, TypeOK
<1>2. ASSUME NEW r \in Streams, NEW s \in Sequences, Publish(r, s)
      PROVE  TypeOK'
    BY <1>0, <1>2 DEF Publish, TypeOK
<1>3. ASSUME NEW t \in Threads, ReadClock(t)
      PROVE  TypeOK'
    BY <1>0, <1>3 DEF ReadClock, TypeOK, Times
<1>s. ASSUME NEW t \in Threads, Serves(t)
      PROVE  /\ committed' \in [Streams -> SUBSET Sequences]
             /\ clock' \in Times
             /\ setBacks' \in 0..MaxSetBacks
             /\ stamps' \in [Threads -> Times \cup {NoStamp}]
             /\ stamps[t] \in Times
             /\ stamps[t] \in Nat
    BY <1>s, StampsAreTimes DEF Serves, TypeOK
<1>4. ASSUME NEW t \in Threads, GetPlaylist(t)
      PROVE  TypeOK'
  <2>1. Serves(t)
      BY <1>4 DEF GetPlaylist
  <2>2. nodes' = EvaluateAll(nodes, required, stamps[t])
      BY <1>4 DEF GetPlaylist
  <2>3. reply' \in Replies
      BY <1>t, <1>4 DEF GetPlaylist, Replies, IsRegistry
  <2> QED BY <1>4, <1>s, <2>1, <2>2, <2>3, EvaluateAllType
             DEF GetPlaylist, TypeOK
<1>5. ASSUME NEW t \in Threads, NEW n \in NodeIds, HeartbeatUnknown(t, n)
      PROVE  TypeOK'
    BY <1>5, <1>s DEF HeartbeatUnknown, TypeOK, Replies
<1>6. ASSUME NEW t \in Threads, NEW n \in NodeIds, NEW url \in Urls,
             PutNode(t, n, url)
      PROVE  TypeOK'
  <2>1. Serves(t)
      BY <1>6 DEF PutNode
  <2>2. IsRegistry(nodes')
    <3>1. nodes' = Register(nodes, n, url, stamps[t])
        BY <1>6 DEF PutNode
    <3> QED BY <1>t, <1>s, <2>1, <3>1, RegisterType
  <2>3. reply' \in Replies
      BY <1>6 DEF PutNode, Replies
  <2>4. reported' \in [NodeIds -> BOOLEAN]
      BY <1>6 DEF PutNode, TypeOK
  <2>5. heard' \in [NodeIds -> Times]
      BY <1>6, <1>s, <2>1 DEF PutNode, TypeOK, Later
  <2> QED BY <1>s, <2>1, <2>2, <2>3, <2>4, <2>5 DEF TypeOK
<1>7. ASSUME NEW t \in Threads, NEW n \in NodeIds, NEW health \in Health,
             NEW load \in Loads, NEW retained \in SUBSET SegmentIds,
             PostHeartbeat(t, n, health, load, retained)
      PROVE  TypeOK'
  <2> DEFINE now == stamps[t]
             reportedNodes == Heartbeat(nodes, n, health, load, retained, now)
             updated == EvaluateAll(reportedNodes, required, now)
  <2>1. Serves(t) /\ n \in DOMAIN nodes /\ nodes' = updated
      BY <1>7 DEF PostHeartbeat
  <2>2. IsRegistry(reportedNodes) /\ DOMAIN reportedNodes = DOMAIN nodes
      BY <1>t, <1>s, <2>1, HeartbeatType
  <2>3. IsRegistry(updated) /\ DOMAIN updated = DOMAIN nodes
      BY <1>t, <1>s, <2>1, <2>2, EvaluateAllType
  <2>4. updated[n] \in CacheNode
      BY <2>1, <2>3 DEF IsRegistry
  <2>5. PrewarmPlan(updated[n], required) \in SUBSET SegmentIds
      BY <1>r DEF PrewarmPlan
  <2>6. reply' \in Replies
      BY <1>7, <2>4, <2>5 DEF PostHeartbeat, Replies, CacheNode
  <2>7. reported' \in [NodeIds -> BOOLEAN] /\ heard' \in [NodeIds -> Times]
      BY <1>7, <1>s, <2>1 DEF PostHeartbeat, TypeOK, Later
  <2> QED BY <1>s, <2>1, <2>3, <2>6, <2>7 DEF TypeOK
<1>8. CASE Restart
  <2>1. IsRegistry(nodes')
      BY <1>8 DEF Restart, IsRegistry
  <2> QED BY <1>0, <1>8, <2>1 DEF Restart, TypeOK, Times
<1>9. CASE UNCHANGED vars
    BY <1>9 DEF vars, TypeOK
<1> QED BY <1>1, <1>b, <1>2, <1>3, <1>4, <1>5, <1>6, <1>7, <1>8, <1>9 DEF Next

\* Type correctness of the control plane, for every instance.
THEOREM TypeCorrect == Spec => []TypeOK
BY InitTypeOK, NextTypeOK, PTL DEF Spec

-----------------------------------------------------------------------------
(* The inductive invariant *)

\* No handler holds a stamp from the future, unless the clock was set back.
StampsPast == setBacks = 0 => \A t \in Threads : stamps[t] <= clock

\* Until its report counts, a node that is not DEAD holds nothing in the
\* registry: the evaluation cannot mistake an old report for a new one.
UnreportedHoldsNothing ==
    \A n \in DOMAIN nodes :
        ~reported[n] /\ nodes[n].state # "DEAD" => nodes[n].retained = {}

\* Needed to tell an empty window from a window over nothing.
CommittedHasMax == \A r \in Streams : committed[r] = {} \/ HasMax(committed[r])

IInv == TypeOK /\ StampsPast /\ CommittedHasMax /\ UnreportedHoldsNothing

LEMMA InitIInv == Init => IInv
<1> SUFFICES ASSUME Init
             PROVE  IInv
    OBVIOUS
<1>1. TypeOK
    BY InitTypeOK
<1>2. StampsPast
    BY DEF Init, StampsPast, NoStamp
<1>3. CommittedHasMax
    BY DEF Init, CommittedHasMax
<1>4. UnreportedHoldsNothing
    BY DEF Init, UnreportedHoldsNothing
<1> QED BY <1>1, <1>2, <1>3, <1>4 DEF IInv

\* An evaluation pass changes nothing of a record but its state, and takes no
\* node out of DEAD.
LEMMA EvaluationKeeps ==
    ASSUME NEW node \in CacheNode, NEW req, NEW now \in Nat
    PROVE  LET after == EvaluateState(node, req, now)
           IN  /\ after.retained = node.retained
               /\ after.health = node.health
               /\ after.load_score = node.load_score
               /\ after.last_heartbeat_ms = node.last_heartbeat_ms
               /\ after.state = NextState(node, req, now)
               /\ node.state = "DEAD" => after.state = "DEAD"
BY NextStateType DEF EvaluateState, CacheNode, NextState, States

LEMMA NextIInv == IInv /\ [Next]_vars => IInv'
<1> SUFFICES ASSUME IInv, [Next]_vars
             PROVE  IInv'
    OBVIOUS
<1>t. TypeOK /\ TypeOK'
    BY NextTypeOK DEF IInv
<1>r. IsRegistry(nodes) /\ IsRegistry(nodes')
    BY <1>t DEF TypeOK
<1>c. clock \in Nat
    BY <1>t, RegistryAssumption DEF TypeOK, Times
<1>s. \A t \in Threads : stamps[t] \in Int
    BY <1>t, RegistryAssumption DEF TypeOK, Times, NoStamp
<1>1. StampsPast'
  <2>1. CASE Tick
      BY <1>c, <1>s, <2>1 DEF Tick, IInv, StampsPast
  <2>2. ASSUME NEW r \in Streams, NEW s \in Sequences, Publish(r, s)
        PROVE  StampsPast'
      BY <2>2 DEF Publish, IInv, StampsPast
  <2>3. ASSUME NEW t \in Threads, ReadClock(t)
        PROVE  StampsPast'
      BY <1>c, <1>t, <2>3 DEF ReadClock, IInv, StampsPast, TypeOK
  <2>4. ASSUME NEW t \in Threads, Serves(t)
        PROVE  StampsPast'
      BY <1>c, <1>t, <2>4 DEF Serves, IInv, StampsPast, TypeOK, NoStamp
  <2>5. CASE UNCHANGED vars
      BY <2>5 DEF vars, IInv, StampsPast
  <2>6. CASE Restart
      BY <1>c, <2>6 DEF Restart, StampsPast, NoStamp
  <2>7. CASE SetBack
    <3>1. setBacks' # 0
        BY <1>t, <2>7 DEF SetBack, TypeOK
    <3> QED BY <3>1 DEF StampsPast
  <2> QED BY <2>1, <2>2, <2>3, <2>4, <2>5, <2>6, <2>7
          DEF Next, GetPlaylist, HeartbeatUnknown, PutNode, PostHeartbeat
<1>2. CommittedHasMax'
  <2>1. ASSUME NEW r \in Streams, NEW s \in Sequences, Publish(r, s)
        PROVE  CommittedHasMax'
    <3> SUFFICES ASSUME NEW q \in Streams
                 PROVE  committed'[q] = {} \/ HasMax(committed'[q])
        BY DEF CommittedHasMax
    <3>1. CASE q # r
        BY <1>t, <2>1, <3>1 DEF Publish, IInv, CommittedHasMax, TypeOK
    <3>2. CASE q = r
      <4>1. committed'[r] = committed[r] \cup {s}
          BY <1>t, <2>1 DEF Publish, TypeOK
      <4>2. committed[r] \subseteq Nat /\ s \in Nat
          BY <1>t, CacheNodesAssumption DEF TypeOK
      <4>3. committed[r] = {} \/ HasMax(committed[r])
          BY DEF IInv, CommittedHasMax
      <4>4. CASE committed[r] = {}
          BY <3>2, <4>1, <4>2, <4>4 DEF HasMax
      <4>5. CASE HasMax(committed[r])
        <5>1. PICK m \in committed[r] : \A x \in committed[r] : m >= x
            BY <4>5 DEF HasMax
        <5>2. CASE m >= s
            BY <3>2, <4>1, <5>1, <5>2 DEF HasMax
        <5>3. CASE ~(m >= s)
            BY <3>2, <4>1, <4>2, <5>1, <5>3 DEF HasMax
        <5> QED BY <5>2, <5>3
      <4> QED BY <4>3, <4>4, <4>5
    <3> QED BY <3>1, <3>2
  <2>2. CASE UNCHANGED committed
      BY <2>2 DEF IInv, CommittedHasMax
  <2>3. CASE Restart
      BY <2>3 DEF Restart, CommittedHasMax
  <2> QED BY <2>1, <2>2, <2>3
          DEF Next, Tick, SetBack, ReadClock, Serves, GetPlaylist,
              HeartbeatUnknown, PutNode, PostHeartbeat, vars
<1>3. UnreportedHoldsNothing'
  <2>s. ASSUME NEW t \in Threads, Serves(t)
        PROVE  stamps[t] \in Nat
      BY <1>t, <2>s, StampsAreTimes DEF Serves
  <2>1. ASSUME NEW t \in Threads, GetPlaylist(t)
        PROVE  UnreportedHoldsNothing'
    <3>1. /\ stamps[t] \in Nat
          /\ nodes' = EvaluateAll(nodes, required, stamps[t])
          /\ reported' = reported
        BY <2>s, <2>1 DEF GetPlaylist
    <3> QED BY <1>r, <3>1, EvaluateAllType, EvaluationKeeps
            DEF IInv, UnreportedHoldsNothing, IsRegistry
  <2>2. ASSUME NEW t \in Threads, NEW n \in NodeIds, NEW url \in Urls,
               PutNode(t, n, url)
        PROVE  UnreportedHoldsNothing'
    <3>1. /\ nodes' = Register(nodes, n, url, stamps[t])
          /\ reported' = [reported EXCEPT ![n] = n \in DOMAIN nodes /\ @]
        BY <2>2 DEF PutNode
    <3>2. \A m \in DOMAIN nodes \ {n} :
             nodes'[m] = nodes[m] /\ reported'[m] = reported[m]
        BY <1>t, <1>r, <3>1 DEF Register, TypeOK, IsRegistry
    <3>3. n \in DOMAIN nodes =>
             /\ reported'[n] = reported[n]
             /\ nodes'[n].state = nodes[n].state
             /\ nodes'[n].retained = nodes[n].retained
        BY <1>t, <1>r, <3>1 DEF Register, TypeOK, IsRegistry, CacheNode
    <3>4. n \notin DOMAIN nodes => nodes'[n].retained = {}
        BY <1>r, <3>1 DEF Register, NewCold
    <3>5. DOMAIN nodes' = DOMAIN nodes \cup {n}
        BY <3>1 DEF Register
    <3> QED BY <3>2, <3>3, <3>4, <3>5 DEF IInv, UnreportedHoldsNothing
  <2>3. ASSUME NEW t \in Threads, NEW n \in NodeIds, NEW health \in Health,
               NEW load \in Loads, NEW retained \in SUBSET SegmentIds,
               PostHeartbeat(t, n, health, load, retained)
        PROVE  UnreportedHoldsNothing'
    <3> DEFINE now == stamps[t]
               heardOf == Heartbeat(nodes, n, health, load, retained, now)
    <3>1. /\ now \in Nat
          /\ n \in DOMAIN nodes
          /\ nodes' = EvaluateAll(heardOf, required, now)
          /\ reported' = [reported EXCEPT ![n] = nodes[n].state # "DEAD"]
        BY <2>s, <2>3 DEF PostHeartbeat
    <3>2. /\ IsRegistry(heardOf)
          /\ DOMAIN heardOf = DOMAIN nodes
          /\ heardOf[n] = AfterHeartbeat(nodes[n], health, load, retained, now)
          /\ \A m \in DOMAIN nodes \ {n} : heardOf[m] = nodes[m]
        BY <1>r, <3>1, HeartbeatType
    <3>3. \A m \in DOMAIN nodes :
             /\ nodes'[m].retained = heardOf[m].retained
             /\ heardOf[m].state = "DEAD" => nodes'[m].state = "DEAD"
        BY <3>1, <3>2, EvaluateAllType, EvaluationKeeps DEF IsRegistry
    <3>4. ASSUME NEW m \in DOMAIN nodes, m # n, ~reported'[m],
                 nodes'[m].state # "DEAD"
          PROVE  nodes'[m].retained = {}
        BY <1>t, <3>1, <3>2, <3>3, <3>4
           DEF IInv, UnreportedHoldsNothing, TypeOK
    <3>5. ASSUME ~reported'[n]
          PROVE  nodes'[n].retained = {}
      <4>1. nodes[n].state = "DEAD"
          BY <1>t, <1>r, <3>1, <3>5 DEF TypeOK, IsRegistry
      <4>2. heardOf[n].retained = {}
          BY <1>r, <3>1, <3>2, <4>1 DEF AfterHeartbeat, IsRegistry, CacheNode
      <4> QED BY <3>1, <3>3, <4>2
    <3>6. DOMAIN nodes' = DOMAIN nodes
        BY <3>1, <3>2, EvaluateAllType
    <3> QED BY <3>4, <3>5, <3>6 DEF UnreportedHoldsNothing
  <2>4. CASE UNCHANGED <<nodes, reported>>
      BY <2>4 DEF IInv, UnreportedHoldsNothing
  <2>5. CASE Restart
      BY <2>5 DEF Restart, UnreportedHoldsNothing
  <2> QED BY <2>1, <2>2, <2>3, <2>4, <2>5
          DEF Next, Tick, SetBack, Publish, ReadClock, HeartbeatUnknown, vars
<1> QED BY <1>t, <1>1, <1>2, <1>3 DEF IInv

\* The inductive invariant holds in every reachable state.
THEOREM Invariant == Spec => []IInv
BY InitIInv, NextIInv, PTL DEF Spec

-----------------------------------------------------------------------------
(* Routing *)

\* A step that answers no playlist request leaves no playlist answer behind.
LEMMA OnlyGetPlaylistRoutes ==
    ASSUME IInv, Next, reply'.kind \in {"routed", "unavailable"}
    PROVE  \E t \in Threads : GetPlaylist(t)
BY DEF Next, Tick, SetBack, Restart, Publish, ReadClock, HeartbeatUnknown,
       PutNode, PostHeartbeat, NoReply

\* What an evaluation leaves of a node, in the terms of the routing rule.
LEMMA EvaluatedNodes ==
    ASSUME NEW ns, IsRegistry(ns), NEW req, NEW now \in Nat,
           NEW n \in DOMAIN ns
    PROVE  LET after == EvaluateAll(ns, req, now)
           IN  \/ after[n].state = "DEAD"
               \/ after[n].state = "ACTIVE" <=> Qualifies(after[n], req)
<1> DEFINE after == EvaluateAll(ns, req, now)
<1>1. ns[n] \in CacheNode
    BY DEF IsRegistry
<1>2. after[n] = EvaluateState(ns[n], req, now)
    BY EvaluateAllType
<1>3. Qualifies(after[n], req) <=> Qualifies(ns[n], req)
    BY <1>1, <1>2, EvaluationKeeps DEF Qualifies, Overloaded, HasAll
<1>4. after[n].state = NextState(ns[n], req, now)
    BY <1>1, <1>2, EvaluationKeeps
<1> QED BY <1>1, <1>3, <1>4, ActiveIffQualifies

LEMMA GetPlaylistRoutes ==
    ASSUME IInv, NEW t \in Threads, GetPlaylist(t)
    PROVE  RoutingFollowsReports'
<1>1. /\ stamps[t] \in Nat
      /\ IsRegistry(nodes)
    BY StampsAreTimes DEF IInv, TypeOK, GetPlaylist, Serves
<1>2. /\ nodes' = EvaluateAll(nodes, required, stamps[t])
      /\ required' = required
    BY DEF GetPlaylist, Serves, required
<1>3. \A n \in DOMAIN nodes' :
         \/ nodes'[n].state = "DEAD"
         \/ nodes'[n].state = "ACTIVE" <=> Qualifies(nodes'[n], required)
    BY <1>1, <1>2, EvaluatedNodes, EvaluateAllType
<1>4. CASE ActiveNodes(nodes') = {} /\ reply' = [kind |-> "unavailable"]
    BY <1>2, <1>3, <1>4 DEF RoutingFollowsReports, ActiveNodes
<1>5. ASSUME NEW n \in DOMAIN nodes, IsSelected(nodes', n),
             reply' = [kind |-> "routed", node |-> n]
      PROVE  RoutingFollowsReports'
  <2>1. /\ nodes'[n].state = "ACTIVE"
        /\ n \in DOMAIN nodes'
        /\ \A m \in DOMAIN nodes' :
              nodes'[m].state = "ACTIVE" => Precedes(nodes', n, m)
      BY <1>5 DEF IsSelected, ActiveNodes
  <2>2. reply'.kind = "routed" /\ reply'.node = n
      BY <1>5
  <2> QED BY <1>2, <1>3, <2>1, <2>2 DEF RoutingFollowsReports, Precedes
<1> QED BY <1>2, <1>4, <1>5 DEF GetPlaylist

\* Every playlist answer follows the reports: see RoutingFollowsReports.
THEOREM RoutingCorrect == Spec => []RoutingFollowsReports
<1>1. Init => RoutingFollowsReports
    BY DEF Init, NoReply, RoutingFollowsReports
<1>2. IInv /\ RoutingFollowsReports /\ [Next]_vars => RoutingFollowsReports'
  <2> SUFFICES ASSUME IInv, RoutingFollowsReports, [Next]_vars
               PROVE  RoutingFollowsReports'
      OBVIOUS
  <2>1. CASE Next /\ reply'.kind \in {"routed", "unavailable"}
      BY <2>1, OnlyGetPlaylistRoutes, GetPlaylistRoutes
  <2>2. CASE reply'.kind \notin {"routed", "unavailable"}
      BY <2>2 DEF RoutingFollowsReports
  <2>3. CASE UNCHANGED vars
      BY <2>3 DEF vars, RoutingFollowsReports, required
  <2> QED BY <2>1, <2>2, <2>3
<1> QED BY <1>1, <1>2, Invariant, PTL DEF Spec

\* FR-032 for every instance: no node is routed to on a report that the core
\* applied before the node joined or resumed, once there is a window to hold.
THEOREM RoutedOnFreshReportHolds == Spec => []RoutedOnFreshReport
<1>1. ASSUME IInv, RoutingFollowsReports
      PROVE  RoutedOnFreshReport
  <2> SUFFICES ASSUME reply.kind = "routed", required # {}
               PROVE  reported[reply.node]
      BY DEF RoutedOnFreshReport
  <2>1. /\ nodes[reply.node].state = "ACTIVE"
        /\ required \subseteq nodes[reply.node].retained
        /\ reply.node \in DOMAIN nodes
      BY <1>1 DEF RoutingFollowsReports, Qualifies, HasAll
  <2> QED BY <1>1, <2>1 DEF IInv, UnreportedHoldsNothing
<1> QED BY <1>1, Invariant, RoutingCorrect, PTL

\* No client is sent to a node that has been silent for the timeout, as of the
\* stamp of the client's own request: see RoutedInTime.
THEOREM RoutedInTimeHolds == Spec => RoutedInTime
<1> DEFINE Step == \A t \in Threads :
        stamps[t] # NoStamp /\ stamps'[t] = NoStamp /\ reply'.kind = "routed" =>
            stamps[t] - nodes'[reply'.node].last_heartbeat_ms <= HeartbeatTimeout
<1>1. IInv /\ [Next]_vars => Step
  <2> SUFFICES ASSUME IInv, [Next]_vars, NEW t \in Threads, stamps[t] # NoStamp,
                      stamps'[t] = NoStamp, reply'.kind = "routed"
               PROVE  stamps[t] - nodes'[reply'.node].last_heartbeat_ms
                          <= HeartbeatTimeout
      OBVIOUS
  <2> DEFINE now == stamps[t]
             n == reply'.node
  <2>1. Next /\ IsRegistry(nodes) /\ now \in Nat
      BY StampsAreTimes DEF IInv, TypeOK, vars
  <2>2. PICK u \in Threads : GetPlaylist(u)
      BY <2>1, OnlyGetPlaylistRoutes
  <2>3. u = t
      BY <2>2 DEF GetPlaylist, Serves, IInv, TypeOK
  <2>4. nodes' = EvaluateAll(nodes, required, now)
      BY <2>2, <2>3 DEF GetPlaylist
  <2>5. n \in DOMAIN nodes /\ nodes'[n].state = "ACTIVE"
      BY <2>2, <2>4 DEF GetPlaylist, IsSelected, ActiveNodes
  <2>6. /\ nodes[n] \in CacheNode
        /\ nodes'[n].last_heartbeat_ms = nodes[n].last_heartbeat_ms
        /\ NextState(nodes[n], required, now) = "ACTIVE"
      BY <2>1, <2>4, <2>5, EvaluateAllType, EvaluationKeeps DEF IsRegistry
  <2>7. ~TimedOut(nodes[n], now)
      BY <2>6 DEF NextState
  <2> QED BY <2>1, <2>6, <2>7, CacheNodesAssumption
          DEF TimedOut, SatSub, CacheNode
<1> QED BY <1>1, Invariant, PTL DEF Spec, RoutedInTime

-----------------------------------------------------------------------------
(* Prewarming *)

\* A COLD or ACTIVE node that completes its plan qualifies.
LEMMA PlanSuffices ==
    ASSUME NEW node \in CacheNode, node.state \in {"COLD", "ACTIVE"},
           NEW req \in SUBSET SegmentIds, 0 < OverloadThreshold
    PROVE  NextState([node EXCEPT !.health = "ok", !.load_score = 0,
                                  !.retained = @ \cup PrewarmPlan(node, req)],
                     req, node.last_heartbeat_ms) = "ACTIVE"
<1> DEFINE fetched == [node EXCEPT !.health = "ok", !.load_score = 0,
                           !.retained = @ \cup PrewarmPlan(node, req)]
<1>1. /\ fetched.state = node.state
      /\ fetched.health = "ok"
      /\ fetched.load_score = 0
      /\ fetched.last_heartbeat_ms = node.last_heartbeat_ms
      /\ fetched.retained = node.retained \cup PrewarmPlan(node, req)
    BY DEF CacheNode
<1>2. req \subseteq fetched.retained
    BY <1>1 DEF PrewarmPlan
<1>3. Qualifies(fetched, req) /\ ~Overloaded(fetched)
    BY <1>1, <1>2, CacheNodesAssumption DEF Qualifies, Overloaded, HasAll
<1>4. ~TimedOut(fetched, node.last_heartbeat_ms)
    BY <1>1, CacheNodesAssumption DEF TimedOut, SatSub, CacheNode
<1> QED BY <1>1, <1>3, <1>4 DEF NextState

\* Every heartbeat answer leaves a willing node one full fetch from ACTIVE.
THEOREM PrewarmSufficesHolds == Spec => []PrewarmSuffices
<1>1. Init => PrewarmSuffices
    BY DEF Init, NoReply, PrewarmSuffices
<1>2. IInv /\ PrewarmSuffices /\ [Next]_vars => PrewarmSuffices'
  <2> SUFFICES ASSUME IInv, PrewarmSuffices, [Next]_vars
               PROVE  PrewarmSuffices'
      OBVIOUS
  <2>1. ASSUME NEW t \in Threads, NEW n \in NodeIds, NEW health \in Health,
               NEW load \in Loads, NEW retained \in SUBSET SegmentIds,
               PostHeartbeat(t, n, health, load, retained)
        PROVE  PrewarmSuffices'
    <3>1. /\ n \in DOMAIN nodes'
          /\ reply' = [kind |-> "heartbeat", node |-> n,
                       state |-> nodes'[n].state,
                       prewarm |-> PrewarmPlan(nodes'[n], required)]
          /\ required' = required
      <4>1. Serves(t) /\ n \in DOMAIN nodes
          BY <2>1 DEF PostHeartbeat
      <4>2. stamps[t] \in Nat /\ IsRegistry(nodes)
          BY <4>1, StampsAreTimes DEF IInv, TypeOK, Serves
      <4>3. DOMAIN nodes' = DOMAIN nodes
          BY <2>1, <4>1, <4>2, HeartbeatType, EvaluateAllType DEF PostHeartbeat
      <4> QED BY <2>1, <4>1, <4>3 DEF PostHeartbeat, Serves, required
    <3>2. nodes'[n] \in CacheNode
        BY <3>1, NextTypeOK DEF IInv, TypeOK, IsRegistry
    <3>3. required \in SUBSET SegmentIds
        BY RequiredIsCommitted DEF IInv, TypeOK, required
    <3> QED BY <3>1, <3>2, <3>3, PlanSuffices DEF PrewarmSuffices
  <2>2. CASE reply'.kind # "heartbeat"
      BY <2>2 DEF PrewarmSuffices
  <2>3. CASE UNCHANGED vars
      BY <2>3 DEF vars, PrewarmSuffices, required
  <2>4. CASE Next /\ reply'.kind = "heartbeat"
      BY <2>1, <2>4 DEF Next, Tick, SetBack, Restart, Publish, ReadClock, GetPlaylist,
                        HeartbeatUnknown, PutNode, NoReply
  <2> QED BY <2>2, <2>3, <2>4
<1> QED BY <1>1, <1>2, Invariant, PTL DEF Spec

-----------------------------------------------------------------------------
(* Death *)

\* An evaluation at "now" makes a node DEAD only after the timeout.
LEMMA DeathByTimeout ==
    ASSUME NEW node \in CacheNode, NEW req, NEW now \in Nat,
           node.state # "DEAD", NextState(node, req, now) = "DEAD"
    PROVE  now - node.last_heartbeat_ms > HeartbeatTimeout
<1>1. TimedOut(node, now)
    BY DEF NextState, CacheNode, States
<1> QED BY <1>1, CacheNodesAssumption DEF TimedOut, SatSub, CacheNode

\* A step that turns a node DEAD is the evaluation of a handler whose stamp is
\* past the timeout, and not a request of the node itself.
LEMMA DeathOfSilent ==
    ASSUME IInv, [Next]_vars, NEW m \in DOMAIN nodes \cap DOMAIN nodes',
           nodes[m].state # "DEAD", nodes'[m].state = "DEAD"
    PROVE  \E t \in Threads :
              /\ Serves(t)
              /\ stamps[t] - nodes[m].last_heartbeat_ms > HeartbeatTimeout
              /\ heard'[m] = heard[m]
<1> DEFINE Silent(t) ==
              /\ Serves(t)
              /\ stamps[t] - nodes[m].last_heartbeat_ms > HeartbeatTimeout
              /\ heard'[m] = heard[m]
<1>r. /\ IsRegistry(nodes) /\ nodes[m] \in CacheNode
      /\ heard \in [NodeIds -> Times]
    BY DEF IInv, TypeOK, IsRegistry
<1>s. ASSUME NEW t \in Threads, Serves(t)
      PROVE  stamps[t] \in Nat
    BY <1>s, StampsAreTimes DEF IInv, Serves
<1>1. ASSUME NEW t \in Threads, GetPlaylist(t)
      PROVE  Silent(t)
  <2>1. /\ stamps[t] \in Nat /\ Serves(t)
        /\ nodes' = EvaluateAll(nodes, required, stamps[t])
        /\ heard' = heard
      BY <1>s, <1>1 DEF GetPlaylist
  <2>2. NextState(nodes[m], required, stamps[t]) = "DEAD"
      BY <1>r, <2>1, EvaluateAllType, EvaluationKeeps
  <2> QED BY <1>r, <2>1, <2>2, DeathByTimeout
<1>2. ASSUME NEW t \in Threads, NEW n \in NodeIds, NEW url \in Urls,
             PutNode(t, n, url)
      PROVE  FALSE
  <2>1. nodes' = Register(nodes, n, url, stamps[t])
      BY <1>2 DEF PutNode
  <2> QED BY <1>r, <2>1 DEF Register, CacheNode
<1>3. ASSUME NEW t \in Threads, NEW n \in NodeIds, NEW health \in Health,
             NEW load \in Loads, NEW retained \in SUBSET SegmentIds,
             PostHeartbeat(t, n, health, load, retained)
      PROVE  Silent(t)
  <2> DEFINE now == stamps[t]
             heardOf == Heartbeat(nodes, n, health, load, retained, now)
  <2>1. /\ now \in Nat /\ Serves(t)
        /\ n \in DOMAIN nodes
        /\ nodes' = EvaluateAll(heardOf, required, now)
        /\ heard' = [heard EXCEPT ![n] = Later(heard[n], now)]
      BY <1>s, <1>3 DEF PostHeartbeat
  <2>2. /\ IsRegistry(heardOf)
        /\ DOMAIN heardOf = DOMAIN nodes
        /\ heardOf[n] = AfterHeartbeat(nodes[n], health, load, retained, now)
        /\ m # n => heardOf[m] = nodes[m]
      BY <1>r, <2>1, HeartbeatType
  <2>3. /\ heardOf[m] \in CacheNode
        /\ NextState(heardOf[m], required, now) = "DEAD"
      BY <2>1, <2>2, EvaluateAllType, EvaluationKeeps DEF IsRegistry
  <2>4. heardOf[m].state # "DEAD"
      BY <1>r, <2>2 DEF AfterHeartbeat, CacheNode
  <2>5. now - heardOf[m].last_heartbeat_ms > HeartbeatTimeout
      BY <2>1, <2>3, <2>4, DeathByTimeout
  <2>6. m # n
    <3> SUFFICES ASSUME m = n
                 PROVE  FALSE
        OBVIOUS
    <3>1. heardOf[m].last_heartbeat_ms = now
        BY <1>r, <2>2 DEF AfterHeartbeat, CacheNode
    <3> QED BY <2>1, <2>5, <3>1, CacheNodesAssumption
  <2>7. heard'[m] = heard[m]
      BY <1>r, <2>1, <2>6
  <2> QED BY <2>1, <2>2, <2>5, <2>6, <2>7
<1>4. ~UNCHANGED nodes /\ ~Restart
    BY DEF Restart
<1> QED BY <1>1, <1>2, <1>3, <1>4
        DEF Next, Tick, SetBack, Publish, ReadClock, HeartbeatUnknown, vars

\* The handler of a step is the one thread whose stamp goes.
LEMMA OneServes ==
    ASSUME TypeOK, NEW t \in Threads, Serves(t), NEW u \in Threads,
           stamps[u] # NoStamp, stamps'[u] = NoStamp
    PROVE  u = t
BY DEF Serves, TypeOK

\* No handler declares a node DEAD before the timeout has passed between the
\* stamp on its record and its own, however late it gets the mutex; the timeout
\* has then really passed, unless the clock was set back.
THEOREM DeadOnlyAfterSilenceHolds == Spec => DeadOnlyAfterSilence
<1> DEFINE Step == \A t \in Threads, n \in DOMAIN nodes \cap DOMAIN nodes' :
              /\ stamps[t] # NoStamp /\ stamps'[t] = NoStamp
              /\ nodes[n].state # "DEAD" /\ nodes'[n].state = "DEAD"
              => /\ stamps[t] - nodes[n].last_heartbeat_ms > HeartbeatTimeout
                 /\ setBacks = 0 =>
                       clock - nodes[n].last_heartbeat_ms > HeartbeatTimeout
<1>1. IInv /\ [Next]_vars => Step
  <2> SUFFICES ASSUME IInv, [Next]_vars, NEW t \in Threads,
                      NEW n \in DOMAIN nodes \cap DOMAIN nodes',
                      stamps[t] # NoStamp, stamps'[t] = NoStamp,
                      nodes[n].state # "DEAD", nodes'[n].state = "DEAD"
               PROVE  /\ stamps[t] - nodes[n].last_heartbeat_ms
                             > HeartbeatTimeout
                      /\ setBacks = 0 => clock - nodes[n].last_heartbeat_ms
                                             > HeartbeatTimeout
      OBVIOUS
  <2>1. stamps[t] - nodes[n].last_heartbeat_ms > HeartbeatTimeout
      BY DeathOfSilent, OneServes DEF IInv
  <2>2. setBacks = 0 => stamps[t] <= clock
      BY DEF IInv, StampsPast
  <2>3. /\ stamps[t] \in Nat /\ clock \in Nat
        /\ nodes[n].last_heartbeat_ms \in Nat
      BY StampsAreTimes, RegistryAssumption
         DEF IInv, TypeOK, Times, IsRegistry, CacheNode
  <2> QED BY <2>1, <2>2, <2>3, CacheNodesAssumption
<1> QED BY <1>1, Invariant, PTL DEF Spec, DeadOnlyAfterSilence

-----------------------------------------------------------------------------
(* The registry implements the abstract life of a node. *)

\* One evaluation moves a node along an edge of the lifecycle, if at all.
LEMMA EvaluationEdges ==
    ASSUME NEW node \in CacheNode, NEW req, NEW now \in Nat
    PROVE  Lifecycle!MayMove(node.state, NextState(node, req, now))
BY DEF NextState, CacheNode, States, Lifecycle!MayMove, Lifecycle!Edges

\* A node whose heartbeat resumes is evaluated from COLD with nothing held, at
\* the very stamp of the heartbeat.
LEMMA ResumedNode ==
    ASSUME NEW node \in CacheNode, node.state = "DEAD", NEW req,
           NEW health \in Health, NEW load \in Loads,
           NEW retained \in SUBSET SegmentIds, NEW now \in Nat
    PROVE  LET after == NextState(AfterHeartbeat(node, health, load, retained,
                                                 now), req, now)
           IN  after = "COLD" \/ (req \subseteq {} /\ after = "ACTIVE")
<1> DEFINE resumed == AfterHeartbeat(node, health, load, retained, now)
<1>1. /\ resumed.state = "COLD"
      /\ resumed.retained = {}
      /\ resumed.last_heartbeat_ms = now
    BY DEF AfterHeartbeat, CacheNode
<1>2. ~TimedOut(resumed, now)
    BY <1>1, CacheNodesAssumption DEF TimedOut, SatSub
<1> QED BY <1>1, <1>2 DEF NextState, Qualifies, HasAll

LEMMA InitImplements == Init => Lifecycle!LifecycleInit
<1> SUFFICES ASSUME Init
             PROVE  Lifecycle!LifecycleInit
    OBVIOUS
<1>1. required = {}
  <2>1. committed \in [Streams -> SUBSET Sequences]
      BY DEF Init
  <2> QED BY <2>1, EmptyWindow DEF Init, required
<1> QED BY <1>1 DEF Init, Lifecycle!LifecycleInit, StateOf

LEMMA StepImplements ==
    IInv /\ IInv' /\ [Next]_vars =>
        [Lifecycle!LifecycleNext]_(Lifecycle!lifecycleVars)
<1> DEFINE abs == [n \in NodeIds |-> StateOf(n)]
<1> SUFFICES ASSUME IInv, IInv', [Next]_vars
             PROVE  Lifecycle!LifecycleNext \/ UNCHANGED Lifecycle!lifecycleVars
    OBVIOUS
<1>r. IsRegistry(nodes) /\ IsRegistry(nodes')
    BY DEF IInv, TypeOK
<1>t. abs' \in [NodeIds -> {"ABSENT", "COLD", "ACTIVE", "DRAINING", "DEAD"}]
    BY <1>r DEF StateOf, IsRegistry, CacheNode, States
<1>s. ASSUME NEW t \in Threads, Serves(t)
      PROVE  stamps[t] \in Nat /\ required' = required
    BY <1>s, StampsAreTimes DEF IInv, Serves, required
<1>0. CASE UNCHANGED <<nodes, committed>>
    BY <1>0 DEF Lifecycle!lifecycleVars, StateOf, required
<1>1. ASSUME NEW r \in Streams, NEW s \in Sequences, Publish(r, s)
      PROVE  Lifecycle!FillWindow
  <2>1. required' # {}
    <3>1. committed'[r] # {}
        BY <1>1 DEF Publish, IInv, TypeOK
    <3> QED BY <3>1, EmptyWindow DEF IInv, TypeOK, CommittedHasMax, required
  <2>2. abs' = abs
      BY <1>1 DEF Publish, StateOf
  <2> QED BY <2>1, <2>2 DEF Lifecycle!FillWindow
<1>2. ASSUME NEW t \in Threads, NEW n \in NodeIds, NEW url \in Urls,
             PutNode(t, n, url), n \notin DOMAIN nodes
      PROVE  Lifecycle!Join(n)
  <2>1. nodes' = Register(nodes, n, url, stamps[t]) /\ required' = required
      BY <1>2, <1>s DEF PutNode
  <2>2. abs' = [abs EXCEPT ![n] = "COLD"]
      BY <1>r, <1>2, <2>1 DEF Register, NewCold, StateOf, IsRegistry
  <2>3. abs[n] = "ABSENT"
      BY <1>2 DEF StateOf
  <2> QED BY <2>1, <2>2, <2>3 DEF Lifecycle!Join
<1>3. ASSUME NEW t \in Threads, NEW n \in NodeIds, NEW url \in Urls,
             PutNode(t, n, url), n \in DOMAIN nodes
      PROVE  UNCHANGED Lifecycle!lifecycleVars
  <2>1. nodes' = Register(nodes, n, url, stamps[t]) /\ required' = required
      BY <1>3, <1>s DEF PutNode
  <2>2. DOMAIN nodes' = DOMAIN nodes
      BY <1>3, <2>1 DEF Register
  <2>3. \A m \in DOMAIN nodes : nodes'[m].state = nodes[m].state
      BY <1>r, <1>3, <2>1 DEF Register, IsRegistry, CacheNode
  <2> QED BY <2>1, <2>2, <2>3 DEF Lifecycle!lifecycleVars, StateOf
<1>4. ASSUME NEW t \in Threads, GetPlaylist(t)
      PROVE  Lifecycle!Evaluate
  <2>1. /\ stamps[t] \in Nat /\ required' = required
        /\ nodes' = EvaluateAll(nodes, required, stamps[t])
      BY <1>4, <1>s DEF GetPlaylist
  <2>2. \A m \in NodeIds : Lifecycle!MayMove(abs[m], abs'[m])
    <3>1. ASSUME NEW m \in DOMAIN nodes
          PROVE  Lifecycle!MayMove(nodes[m].state, nodes'[m].state)
        BY <1>r, <2>1, EvaluateAllType, EvaluationKeeps, EvaluationEdges
           DEF IsRegistry
    <3>2. DOMAIN nodes' = DOMAIN nodes
        BY <1>r, <2>1, EvaluateAllType
    <3>3. Lifecycle!MayMove("ABSENT", "ABSENT")
        BY DEF Lifecycle!MayMove
    <3> QED BY <3>1, <3>2, <3>3 DEF StateOf
  <2> QED BY <1>t, <2>1, <2>2 DEF Lifecycle!Evaluate, Lifecycle!EvaluateOnly
<1>5. ASSUME NEW t \in Threads, NEW n \in NodeIds, NEW health \in Health,
             NEW load \in Loads, NEW retained \in SUBSET SegmentIds,
             PostHeartbeat(t, n, health, load, retained)
      PROVE  Lifecycle!Evaluate \/ Lifecycle!Resume(n)
  <2> DEFINE now == stamps[t]
             heardOf == Heartbeat(nodes, n, health, load, retained, now)
  <2>1. /\ now \in Nat /\ required' = required
        /\ n \in DOMAIN nodes
        /\ nodes' = EvaluateAll(heardOf, required, now)
      BY <1>5, <1>s DEF PostHeartbeat
  <2>2. /\ IsRegistry(heardOf)
        /\ DOMAIN heardOf = DOMAIN nodes
        /\ heardOf[n] = AfterHeartbeat(nodes[n], health, load, retained, now)
        /\ \A m \in DOMAIN nodes \ {n} : heardOf[m] = nodes[m]
      BY <1>r, <2>1, HeartbeatType
  <2>3. \A m \in DOMAIN nodes :
           /\ nodes'[m].state = NextState(heardOf[m], required, now)
           /\ Lifecycle!MayMove(heardOf[m].state, nodes'[m].state)
      BY <2>1, <2>2, EvaluateAllType, EvaluationKeeps, EvaluationEdges
         DEF IsRegistry
  <2>4. DOMAIN nodes' = DOMAIN nodes
      BY <2>1, <2>2, EvaluateAllType
  <2>5. \A m \in NodeIds \ {n} : Lifecycle!MayMove(abs[m], abs'[m])
    <3>1. Lifecycle!MayMove("ABSENT", "ABSENT")
        BY DEF Lifecycle!MayMove
    <3> QED BY <2>2, <2>3, <2>4, <3>1 DEF StateOf
  <2>6. CASE nodes[n].state # "DEAD"
    <3>1. heardOf[n].state = nodes[n].state
        BY <1>r, <2>1, <2>2, <2>6 DEF AfterHeartbeat, IsRegistry, CacheNode
    <3>2. Lifecycle!MayMove(abs[n], abs'[n])
        BY <2>1, <2>3, <2>4, <3>1 DEF StateOf
    <3>3. \A m \in NodeIds : Lifecycle!MayMove(abs[m], abs'[m])
        BY <2>5, <3>2
    <3> QED BY <1>t, <2>1, <3>3 DEF Lifecycle!Evaluate, Lifecycle!EvaluateOnly
  <2>7. CASE nodes[n].state = "DEAD"
    <3>1. nodes[n] \in CacheNode
        BY <1>r, <2>1 DEF IsRegistry
    <3>2. \/ nodes'[n].state = "COLD"
          \/ required = {} /\ nodes'[n].state = "ACTIVE"
      <4>1. nodes'[n].state =
               NextState(AfterHeartbeat(nodes[n], health, load, retained, now),
                         required, now)
          BY <2>1, <2>2, <2>3
      <4> QED BY <2>1, <2>7, <3>1, <4>1, ResumedNode
    <3>3. abs[n] = "DEAD" /\ abs'[n] = nodes'[n].state
        BY <2>1, <2>4, <2>7 DEF StateOf
    <3> QED BY <1>t, <2>1, <2>5, <3>2, <3>3
            DEF Lifecycle!Resume, Lifecycle!EvaluateOnly
  <2> QED BY <2>6, <2>7
<1>6. ASSUME Restart
      PROVE  Lifecycle!Forget
  <2>1. required' = {}
    <3>1. committed' \in [Streams -> SUBSET Sequences]
        BY <1>6 DEF Restart
    <3> QED BY <1>6, <3>1, EmptyWindow DEF Restart, required
  <2>2. abs' = [n \in NodeIds |-> "ABSENT"]
      BY <1>6 DEF Restart, StateOf
  <2> QED BY <2>1, <2>2 DEF Lifecycle!Forget
<1> QED BY <1>0, <1>1, <1>2, <1>3, <1>4, <1>5, <1>6
        DEF Next, Lifecycle!LifecycleNext, Tick, SetBack, ReadClock,
            HeartbeatUnknown, Serves, vars

\* The registry, with its clocks, threads and reports, implements the abstract
\* life of the nodes.
THEOREM LifecycleImplemented == Spec => ImplementsLifecycle
BY InitImplements, StepImplements, Invariant, PTL
   DEF Spec, ImplementsLifecycle, Lifecycle!LifecycleSpec

-----------------------------------------------------------------------------
(* What the registry sees of ingest, and what a threshold of zero does *)

\* The write-once store, with the contents forgotten: the committed sequences
\* are all that placement looks at.
Commits ==
    INSTANCE SegmentStore
        WITH Ids <- SegmentIds, Contents <- {"stored"}, Nothing <- "free",
             store <- [id \in SegmentIds |->
                 IF id[2] \in committed[id[1]] THEN "stored" ELSE "free"]

\* Publish and Restart are the steps of the store that Origin implements with
\* files and failing writes: the two halves of the core meet there.
THEOREM CommitsImplemented == Spec => Commits!StoreSpec
<1> DEFINE seen == [id \in SegmentIds |->
                       IF id[2] \in committed[id[1]] THEN "stored" ELSE "free"]
<1>1. Init => Commits!StoreInit
    BY DEF Init, Commits!StoreInit, SegmentIds
<1>2. TypeOK /\ [Next]_vars => [Commits!StoreNext]_seen
  <2> SUFFICES ASSUME TypeOK, [Next]_vars
               PROVE  Commits!StoreNext \/ seen' = seen
      OBVIOUS
  <2>1. ASSUME NEW r \in Streams, NEW s \in Sequences, Publish(r, s)
        PROVE  Commits!StoreNext
    <3>1. /\ s \notin committed[r]
          /\ committed' = [committed EXCEPT ![r] = committed[r] \cup {s}]
          /\ committed \in [Streams -> SUBSET Sequences]
        BY <2>1 DEF Publish, TypeOK
    <3>2. <<r, s>> \in SegmentIds /\ seen[<<r, s>>] = "free"
        BY <3>1 DEF SegmentIds
    <3>3. \A id \in SegmentIds :
              id[2] \in committed'[id[1]] <=> id = <<r, s>> \/ id[2] \in committed[id[1]]
        BY <3>1 DEF SegmentIds
    <3>4. seen' = [seen EXCEPT ![<<r, s>>] = "stored"]
        BY <3>2, <3>3
    <3> QED BY <3>2, <3>4 DEF Commits!StoreNext, Commits!Write
  <2>2. CASE Restart
      BY <2>2 DEF Restart, SegmentIds, Commits!StoreNext, Commits!Forget
  <2>3. CASE UNCHANGED committed
      BY <2>3
  <2> QED BY <2>1, <2>2, <2>3
          DEF Next, Tick, SetBack, ReadClock, GetPlaylist, HeartbeatUnknown,
              PutNode, PostHeartbeat, Serves, vars
<1> QED BY <1>1, <1>2, TypeCorrect, PTL DEF Spec, Commits!StoreSpec

\* The threshold of zero that the configuration lets pass stops the service: as
\* long as no node reports a load below zero, no playlist is ever routed.
THEOREM ZeroThresholdServesNobody ==
    ASSUME OverloadThreshold = 0, \A load \in Loads : load >= 0
    PROVE  Spec => [](reply.kind # "routed")
<1>1. ASSUME IInv, RoutingFollowsReports
      PROVE  reply.kind # "routed"
    BY <1>1 DEF IInv, TypeOK, IsRegistry, CacheNode, RoutingFollowsReports,
                Qualifies, Overloaded
<1> QED BY <1>1, Invariant, RoutingCorrect, PTL
=============================================================================
