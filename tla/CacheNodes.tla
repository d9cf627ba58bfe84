----------------------------- MODULE CacheNodes -----------------------------
(***************************************************************************)
(* The pure half of the control plane: domain/cache_node.rs, the           *)
(* operations of core/registry.rs and the decisions of core/placement.rs.  *)
(* The registry is a function from the registered node ids to CacheNode    *)
(* records.  Node ids are naturals so that the BTreeMap order, which       *)
(* breaks load ties, is <; load scores are integers, of which the code     *)
(* uses the order only.                                                    *)
(***************************************************************************)
EXTENDS U64

CONSTANTS NodeIds,            \* node ids, ordered
          Urls,               \* base URLs a node may register
          Streams, Sequences, \* what a segment id is made of
          Loads,              \* load scores a node may report
          OverloadThreshold,  \* EvalParams::overload_threshold
          HeartbeatTimeout    \* EvalParams::heartbeat_timeout_ms

\* The threshold is validated to lie in 0.0..1.0; a node joins with load 0.0.
ASSUME CacheNodesAssumption ==
    /\ NodeIds \subseteq Nat
    /\ Sequences \subseteq Nat
    /\ Loads \subseteq Int
    /\ 0 \in Loads
    /\ OverloadThreshold \in Nat
    /\ HeartbeatTimeout \in Nat

SegmentIds == Streams \X Sequences     \* <<channel and rendition, sequence>>

States == {"COLD", "ACTIVE", "DRAINING", "DEAD"}

Health == {"ok", "bad"}

CacheNode == [base_url : Urls, state : States, last_heartbeat_ms : Nat,
              health : Health, load_score : Loads,
              retained : SUBSET SegmentIds]

\* Registry::nodes: a map from the ids registered so far.
IsRegistry(nodes) ==
    /\ DOMAIN nodes \subseteq NodeIds
    /\ nodes \in [DOMAIN nodes -> CacheNode]

\* Wrong on purpose: backdates the first stamp.
NewCold_Backdated(url, now) ==
    [base_url |-> url, state |-> "COLD", last_heartbeat_ms |-> now - 1,
     health |-> "ok", load_score |-> 0, retained |-> {}]

NewCold(url, now) ==
    [base_url |-> url, state |-> "COLD", last_heartbeat_ms |-> now,
     health |-> "ok", load_score |-> 0, retained |-> {}]

HasAll(node, required) == required \subseteq node.retained

-----------------------------------------------------------------------------
(* core/registry.rs *)

\* A known node keeps its state and its retained set: only the address and
\* the heartbeat stamp are refreshed.
Register(nodes, n, url, now) ==
    [m \in DOMAIN nodes \cup {n} |->
        IF m # n THEN nodes[m]
        ELSE IF n \in DOMAIN nodes
             THEN [nodes[n] EXCEPT !.base_url = url, !.last_heartbeat_ms = now]
             ELSE NewCold(url, now)]

\* Wrong on purpose: a resuming node's report counts at once.
Heartbeat_KeepsReport(nodes, n, health, load, retained, now) ==
    [nodes EXCEPT ![n] =
        [@ EXCEPT !.last_heartbeat_ms = now, !.health = health,
                  !.load_score = load, !.retained = retained,
                  !.state = IF nodes[n].state = "DEAD" THEN "COLD"
                            ELSE nodes[n].state]]

\* Wrong on purpose: a heartbeat leaves the stamp as it is.
Heartbeat_KeepsStamp(nodes, n, health, load, retained, now) ==
    [nodes EXCEPT ![n] =
        [@ EXCEPT !.health = health,
                  !.load_score = load,
                  !.state = IF nodes[n].state = "DEAD" THEN "COLD"
                            ELSE nodes[n].state,
                  !.retained = IF nodes[n].state = "DEAD" THEN {}
                               ELSE retained]]

\* A DEAD node resumes as COLD and what it reports is discarded (FR-032).
Heartbeat(nodes, n, health, load, retained, now) ==
    [nodes EXCEPT ![n] =
        [@ EXCEPT !.last_heartbeat_ms = now,
                  !.health = health,
                  !.load_score = load,
                  !.state = IF nodes[n].state = "DEAD" THEN "COLD"
                            ELSE nodes[n].state,
                  !.retained = IF nodes[n].state = "DEAD" THEN {}
                               ELSE retained]]

\* Wrong on purpose: the subtraction wraps.
TimedOut_Wraps(node, now) ==
    \/ now < node.last_heartbeat_ms
    \/ now - node.last_heartbeat_ms > HeartbeatTimeout

TimedOut(node, now) == SatSub(now, node.last_heartbeat_ms) > HeartbeatTimeout

Overloaded(node) == node.load_score >= OverloadThreshold

\* The conjunction the COLD and the DRAINING arms test.
Qualifies(node, required) ==
    node.health = "ok" /\ ~Overloaded(node) /\ HasAll(node, required)

\* Wrong on purpose: DRAINING is treated like ACTIVE.
NextState_DrainsToCold(node, required, now) ==
    IF TimedOut(node, now) \/ node.state = "DEAD" THEN "DEAD"
    ELSE IF Qualifies(node, required) THEN "ACTIVE"
    ELSE IF node.state = "ACTIVE" /\ Overloaded(node) THEN "DRAINING"
    ELSE "COLD"

NextState(node, required, now) ==
    CASE TimedOut(node, now) -> "DEAD"
      [] ~TimedOut(node, now) /\ node.state = "COLD" ->
            IF Qualifies(node, required) THEN "ACTIVE" ELSE "COLD"
      [] ~TimedOut(node, now) /\ node.state = "ACTIVE" ->
            IF Overloaded(node) THEN "DRAINING"
            ELSE IF Qualifies(node, required) THEN "ACTIVE" ELSE "COLD"
      [] ~TimedOut(node, now) /\ node.state = "DRAINING" ->
            IF Qualifies(node, required) THEN "ACTIVE" ELSE "DRAINING"
      [] ~TimedOut(node, now) /\ node.state = "DEAD" -> "DEAD"

EvaluateState(node, required, now) ==
    [node EXCEPT !.state = NextState(node, required, now)]

EvaluateAll(nodes, required, now) ==
    [n \in DOMAIN nodes |-> EvaluateState(nodes[n], required, now)]

-----------------------------------------------------------------------------
(* core/placement.rs *)

ActiveNodes(nodes) == {n \in DOMAIN nodes : nodes[n].state = "ACTIVE"}

\* The sort order of active_nodes: load score first, node id second.
Precedes(nodes, m, n) ==
    \/ nodes[m].load_score < nodes[n].load_score
    \/ nodes[m].load_score = nodes[n].load_score /\ m <= n

\* n is the node select_active returns.
IsSelected(nodes, n) ==
    /\ n \in ActiveNodes(nodes)
    /\ \A m \in ActiveNodes(nodes) : Precedes(nodes, n, m)

\* Wrong on purpose: only ACTIVE nodes are kept warm.
PrewarmPlan_ActiveOnly(node, required) ==
    IF node.state # "ACTIVE" THEN {} ELSE required \ node.retained

PrewarmPlan(node, required) ==
    IF node.state \in {"DEAD", "DRAINING"} THEN {}
    ELSE required \ node.retained
=============================================================================
