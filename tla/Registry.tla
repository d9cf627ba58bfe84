------------------------------ MODULE Registry ------------------------------
(***************************************************************************)
(* The control plane of the core: the registry behind the core mutex and   *)
(* the three handlers of core/http.rs that drive it.  There is no          *)
(* background evaluator: a node changes state only inside a heartbeat or a *)
(* playlist request.                                                       *)
(*                                                                         *)
(* Every handler reads the clock BEFORE it waits for the mutex, so it is   *)
(* two steps here: ReadClock, then the locked body with the stamp it read. *)
(* Handlers may take the mutex in any order whatever their stamps.  The    *)
(* clock is the wall clock (lib.rs: SystemTime), which may be set back.    *)
(* Ingest is visible here only through the committed sequences.            *)
(***************************************************************************)
EXTENDS CacheNodes, Manifest

CONSTANTS Threads,     \* worker threads serving requests
          MaxTime,     \* bound on the clock, in units of time
          MaxSetBacks  \* bound on how often the clock is set back

ASSUME RegistryAssumption == MaxTime \in Nat /\ MaxSetBacks \in Nat

VARIABLES nodes,       \* Registry::nodes
          committed,   \* committed sequences of each stream
          clock,       \* now_ms()
          setBacks,    \* how often the clock was set back
          stamps,      \* the "now" of each thread waiting for the mutex
          reply,       \* the response of the last step, if it gave one
          reported,    \* history: was a report of the node applied since it
                       \* joined or resumed, and not discarded?
          heard        \* history: latest stamp of a request from the node

vars == <<nodes, committed, clock, setBacks, stamps, reply, reported, heard>>

NoStamp == -1

Times == 0..MaxTime

required == Required(committed)

Replies ==
    [kind : {"none", "unavailable"}]
    \cup [kind : {"registered", "unknown", "routed"}, node : NodeIds]
    \cup [kind : {"heartbeat"}, node : NodeIds, state : States,
          prewarm : SUBSET SegmentIds]

NoReply == [kind |-> "none"]

TypeOK ==
    /\ IsRegistry(nodes)
    /\ committed \in [Streams -> SUBSET Sequences]
    /\ clock \in Times
    /\ setBacks \in 0..MaxSetBacks
    /\ stamps \in [Threads -> Times \cup {NoStamp}]
    /\ reply \in Replies
    /\ reported \in [NodeIds -> BOOLEAN]
    /\ heard \in [NodeIds -> Times]

Init ==
    /\ nodes = <<>>
    /\ committed = [r \in Streams |-> {}]
    /\ clock = 0
    /\ setBacks = 0
    /\ stamps = [t \in Threads |-> NoStamp]
    /\ reply = NoReply
    /\ reported = [n \in NodeIds |-> FALSE]
    /\ heard = [n \in NodeIds |-> 0]

-----------------------------------------------------------------------------
(* The environment *)

Tick ==
    /\ clock < MaxTime
    /\ clock' = clock + 1
    /\ reply' = NoReply
    /\ UNCHANGED <<nodes, committed, setBacks, stamps, reported, heard>>

\* The wall clock is set to an earlier time.
SetBack ==
    /\ setBacks < MaxSetBacks
    /\ setBacks' = setBacks + 1
    /\ clock' \in 0 .. (clock - 1)
    /\ reply' = NoReply
    /\ UNCHANGED <<nodes, committed, stamps, reported, heard>>

\* An accepted PUT of a segment, seen from the registry.
Publish(r, s) ==
    /\ s \notin committed[r]
    /\ committed' = [committed EXCEPT ![r] = @ \cup {s}]
    /\ reply' = NoReply
    /\ UNCHANGED <<nodes, clock, setBacks, stamps, reported, heard>>

\* The core stops and starts again: registry, streams and requests in hand are
\* gone, and nothing is read back from the disk (bin/edamame-core.rs).
Restart ==
    /\ nodes' = <<>>
    /\ committed' = [r \in Streams |-> {}]
    /\ stamps' = [t \in Threads |-> NoStamp]
    /\ reply' = NoReply
    /\ reported' = [n \in NodeIds |-> FALSE]
    /\ heard' = [n \in NodeIds |-> 0]
    /\ UNCHANGED <<clock, setBacks>>

-----------------------------------------------------------------------------
(* The handlers *)

ReadClock(t) ==
    /\ stamps[t] = NoStamp
    /\ stamps' = [stamps EXCEPT ![t] = clock]
    /\ reply' = NoReply
    /\ UNCHANGED <<nodes, committed, clock, setBacks, reported, heard>>

\* Thread t gets the mutex and answers.
Serves(t) ==
    /\ stamps[t] # NoStamp
    /\ stamps' = [stamps EXCEPT ![t] = NoStamp]
    /\ UNCHANGED <<committed, clock, setBacks>>

Later(a, b) == IF a >= b THEN a ELSE b

\* put_node
PutNode(t, n, url) ==
    /\ Serves(t)
    /\ nodes' = Register(nodes, n, url, stamps[t])
    /\ reply' = [kind |-> "registered", node |-> n]
    /\ reported' = [reported EXCEPT ![n] = n \in DOMAIN nodes /\ @]
    /\ heard' = [heard EXCEPT ![n] = Later(@, stamps[t])]

\* Wrong on purpose: a heartbeat makes an unknown node known.
HeartbeatUnknown_Registers(t, n) ==
    /\ Serves(t)
    /\ n \notin DOMAIN nodes
    /\ \E url \in Urls : nodes' = Register(nodes, n, url, stamps[t])
    /\ reply' = [kind |-> "unknown", node |-> n]
    /\ UNCHANGED <<reported, heard>>

\* post_heartbeat from a node the core does not know: 404.
HeartbeatUnknown(t, n) ==
    /\ Serves(t)
    /\ n \notin DOMAIN nodes
    /\ reply' = [kind |-> "unknown", node |-> n]
    /\ UNCHANGED <<nodes, reported, heard>>

\* post_heartbeat: apply the report, evaluate every node, answer with the
\* state and the prewarm plan.
PostHeartbeat(t, n, health, load, retained) ==
    LET now == stamps[t]
        updated == EvaluateAll(Heartbeat(nodes, n, health, load, retained, now),
                               required, now)
    IN  /\ Serves(t)
        /\ n \in DOMAIN nodes
        /\ nodes' = updated
        /\ reply' = [kind |-> "heartbeat", node |-> n,
                     state |-> updated[n].state,
                     prewarm |-> PrewarmPlan(updated[n], required)]
        /\ reported' = [reported EXCEPT ![n] = nodes[n].state # "DEAD"]
        /\ heard' = [heard EXCEPT ![n] = Later(@, now)]

\* Wrong on purpose: selects on the states as they are, without evaluating.
GetPlaylist_Unevaluated(t) ==
    /\ Serves(t)
    /\ \/ /\ ActiveNodes(nodes) = {}
          /\ reply' = [kind |-> "unavailable"]
       \/ \E n \in DOMAIN nodes :
            /\ IsSelected(nodes, n)
            /\ reply' = [kind |-> "routed", node |-> n]
    /\ UNCHANGED <<nodes, reported, heard>>

\* get_playlist up to the choice of the node: evaluate every node at the
\* handler's stamp, then select.  No ACTIVE node: 503.
GetPlaylist(t) ==
    LET evaluated == EvaluateAll(nodes, required, stamps[t])
    IN  /\ Serves(t)
        /\ nodes' = evaluated
        /\ \/ /\ ActiveNodes(evaluated) = {}
              /\ reply' = [kind |-> "unavailable"]
           \/ \E n \in DOMAIN nodes :
                /\ IsSelected(evaluated, n)
                /\ reply' = [kind |-> "routed", node |-> n]
        /\ UNCHANGED <<reported, heard>>

Next ==
    \/ Tick
    \/ SetBack
    \/ Restart
    \/ \E r \in Streams, s \in Sequences : Publish(r, s)
    \/ \E t \in Threads :
        \/ ReadClock(t)
        \/ GetPlaylist(t)
        \/ \E n \in NodeIds :
            \/ HeartbeatUnknown(t, n)
            \/ \E url \in Urls : PutNode(t, n, url)
            \/ \E health \in Health, load \in Loads,
                  retained \in SUBSET SegmentIds :
                    PostHeartbeat(t, n, health, load, retained)

Spec == Init /\ [][Next]_vars

-----------------------------------------------------------------------------
(* Properties *)

\* Routing follows the reports, whatever path of COLD, ACTIVE and DRAINING led
\* here.  A routed node is servable and no node that is not DEAD would be a
\* better choice; 503 is answered only when no node that is not DEAD is
\* servable (docs/api.md: all URLs on one ACTIVE node, 503 when there is none).
RoutingFollowsReports ==
    /\ reply.kind = "routed" =>
          /\ reply.node \in DOMAIN nodes
          /\ nodes[reply.node].state = "ACTIVE"
          /\ Qualifies(nodes[reply.node], required)
          /\ \A n \in DOMAIN nodes :
                \/ nodes[n].state = "DEAD"
                \/ ~Qualifies(nodes[n], required)
                \/ Precedes(nodes, reply.node, n)
    /\ reply.kind = "unavailable" =>
          \A n \in DOMAIN nodes :
              nodes[n].state = "DEAD" \/ ~Qualifies(nodes[n], required)

\* FR-032: once something is required, a node is routed to only on a report
\* the core applied after the node joined or resumed: what it applied before it
\* declared the node DEAD, and the report that resumed it, never count.
RoutedOnFreshReport ==
    reply.kind = "routed" /\ required # {} => reported[reply.node]

\* A heartbeat answer leaves a node that will serve it exactly one report away
\* from ACTIVE: a COLD or ACTIVE node that fetches the whole plan and then
\* reports itself healthy and idle is ACTIVE, if the window has not moved.
PrewarmSuffices ==
    reply.kind = "heartbeat" /\ reply.state \in {"COLD", "ACTIVE"} =>
        LET node == nodes[reply.node]
            fetched == [node EXCEPT !.health = "ok", !.load_score = 0,
                                    !.retained = @ \cup reply.prewarm]
        IN  0 < OverloadThreshold =>
               NextState(fetched, required, node.last_heartbeat_ms) = "ACTIVE"

\* A handler turns a node DEAD only when its own stamp is more than the timeout
\* past the one on the node's record: a handler with a stamp older than the
\* record's (it waited for the mutex, or the clock was set back) must not
\* underflow into a huge silence.  As long as the clock is never set back the
\* timeout has then really passed.
DeadOnlyAfterSilence ==
    [][\A t \in Threads, n \in DOMAIN nodes \cap DOMAIN nodes' :
          /\ stamps[t] # NoStamp /\ stamps'[t] = NoStamp
          /\ nodes[n].state # "DEAD" /\ nodes'[n].state = "DEAD"
          => /\ stamps[t] - nodes[n].last_heartbeat_ms > HeartbeatTimeout
             /\ setBacks = 0 =>
                   clock - nodes[n].last_heartbeat_ms > HeartbeatTimeout]_vars

\* Nobody looks at a node between two requests, and none needs to: a client is
\* never sent to a node whose record was older than the timeout when the request
\* read the clock, however long ago the node was last evaluated.
RoutedInTime ==
    [][\A t \in Threads :
          stamps[t] # NoStamp /\ stamps'[t] = NoStamp /\ reply'.kind = "routed" =>
              stamps[t] - nodes'[reply'.node].last_heartbeat_ms
                  <= HeartbeatTimeout]_vars

\* The registry implements the abstract life of a node: whatever the clocks,
\* loads and reports, a node moves along the edges of NodeLifecycle only.
StateOf(n) == IF n \in DOMAIN nodes THEN nodes[n].state ELSE "ABSENT"

Lifecycle ==
    INSTANCE NodeLifecycle
        WITH state <- [n \in NodeIds |-> StateOf(n)],
             windowEmpty <- required = {}

ImplementsLifecycle == Lifecycle!LifecycleSpec

-----------------------------------------------------------------------------
(* Claims of the documents that the code does not keep *)

\* docs/README.md:33: DRAINING is left for ACTIVE once the load is back and the
\* health is ok.
RecoveredIsActive ==
    \A n \in DOMAIN nodes :
        reply.kind = "heartbeat" /\ reply.node = n /\ reply.state = "DRAINING"
            => Overloaded(nodes[n]) \/ nodes[n].health = "bad"

\* docs/README.md:34, docs/api.md:31 and the comment of registry.rs:59: a DEAD
\* node whose heartbeat resumes goes back to COLD, never straight to ACTIVE.
ResumesCold ==
    [][\A n \in DOMAIN nodes \cap DOMAIN nodes' :
          nodes[n].state = "DEAD" /\ nodes'[n].state # "DEAD" =>
              nodes'[n].state = "COLD"]_vars

\* docs/README.md:34: DEAD means that no heartbeat arrived for the timeout.
DeadMeansSilent ==
    [][\A n \in DOMAIN nodes \cap DOMAIN nodes' :
          nodes[n].state # "DEAD" /\ nodes'[n].state = "DEAD" =>
              clock - heard[n] > HeartbeatTimeout]_vars
=============================================================================
