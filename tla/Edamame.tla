------------------------------- MODULE Edamame -------------------------------
(***************************************************************************)
(* The system of one channel: the core (Registry, with the channel's       *)
(* playlist snapshot), cache nodes with their registration and heartbeat   *)
(* loop (node/heartbeat.rs), and the HTTP requests between them, which may *)
(* be lost or late, before or after they took effect, or abandoned by the  *)
(* node while the core still has them.                                     *)
(*                                                                         *)
(* Every step of a core handler here IS the step of the same name of       *)
(* Registry; what is added is where the reports come from, what becomes of *)
(* the answers, and what a routed client can actually fetch.               *)
(***************************************************************************)
EXTENDS Registry, Retention

CONSTANTS MaxFaults,        \* bound on what goes wrong: messages lost, requests
                            \* abandoned, fetches failed, restarts, clock changes
          MaxNodeRestarts   \* bound on the restarts of each node among them

ASSUME EdamameAssumption == MaxFaults \in Nat /\ MaxNodeRestarts \in Nat

VARIABLES requests,     \* sent by a node and not yet taken by the core
          handling,     \* what each handler of the core is answering
          renditions,   \* ChannelState::renditions, those without segments too
          snapshot,     \* the segments the channel's snapshot lists, if any
          at,           \* where each node's loop is
          plan,         \* what the heartbeat answer told the node to fetch
          cache,        \* the ids each node holds
          connection,   \* the one each node uses: a new one each time it has
                        \* abandoned a request
          lives,        \* how often each node has restarted
          faults

netVars == <<requests, handling>>
nodeVars == <<at, plan, cache, connection, lives>>
channelVars == <<renditions, snapshot>>
edamameVars == <<vars, netVars, nodeVars, channelVars, faults>>

\* "report" is retained_segments; a registration carries none.
Requests == [kind : {"register", "heartbeat"}, node : NodeIds,
             connection : Nat, report : SUBSET SegmentIds]

Playlist == [kind |-> "playlist"]

Free == [kind |-> "free"]

EdamameTypeOK ==
    /\ TypeOK
    /\ requests \subseteq Requests
    /\ handling \in [Threads -> Requests \cup {Playlist, Free}]
    /\ renditions \subseteq Streams
    /\ snapshot \subseteq SegmentIds
    /\ at \in [NodeIds -> {"starting", "waiting", "ticking", "fetching"}]
    /\ plan \in [NodeIds -> SUBSET SegmentIds]
    /\ cache \in [NodeIds -> SUBSET SegmentIds]
    /\ connection \in [NodeIds -> Nat]
    /\ lives \in [NodeIds -> Nat]
    /\ faults \in 0..MaxFaults

EdamameInit ==
    /\ Init
    /\ requests = {}
    /\ handling = [t \in Threads |-> Free]
    /\ renditions = {}
    /\ snapshot = {}
    /\ at = [n \in NodeIds |-> "starting"]
    /\ plan = [n \in NodeIds |-> {}]
    /\ cache = [n \in NodeIds |-> {}]
    /\ connection = [n \in NodeIds |-> 0]
    /\ lives = [n \in NodeIds |-> 0]
    /\ faults = 0

Fault == faults < MaxFaults /\ faults' = faults + 1

-----------------------------------------------------------------------------
(* The node's loop *)

\* The node waits for the answer: the loop has no timeout of its own.
Send(n, kind, report) ==
    /\ requests' = requests \cup {[kind |-> kind, node |-> n,
                                   connection |-> connection[n],
                                   report |-> report]}
    /\ at' = [at EXCEPT ![n] = "waiting"]
    /\ UNCHANGED <<vars, channelVars, handling, plan, cache, connection, lives,
                   faults>>

\* register: once, when the process starts.
SendRegister(n) ==
    /\ at[n] = "starting"
    /\ Send(n, "register", {})

\* Wrong on purpose: a node with nothing to report does not report.
SendHeartbeat_OnlyNews(n) ==
    /\ at[n] = "ticking"
    /\ cache[n] # {}
    /\ Send(n, "heartbeat", cache[n])

\* Wrong on purpose: the loop does not wait for the answer.
SendHeartbeat_DoesNotWait(n) ==
    /\ at[n] = "ticking"
    /\ requests' = requests \cup {[kind |-> "heartbeat", node |-> n,
                                   connection |-> connection[n],
                                   report |-> cache[n]]}
    /\ UNCHANGED <<vars, channelVars, handling, nodeVars, faults>>

\* heartbeat_once: what is held is read under the lock, and sent after it.
SendHeartbeat(n) ==
    /\ at[n] = "ticking"
    /\ Send(n, "heartbeat", cache[n])

\* The node is through with its request and goes on with "items".
Proceeds(n, items) ==
    /\ at' = [at EXCEPT ![n] = IF items = {} THEN "ticking" ELSE "fetching"]
    /\ plan' = [plan EXCEPT ![n] = items]

\* fetch_and_store of the next item: the plan lists a rendition's segments in
\* ascending order.
FetchNext(n) ==
    \E id \in plan[n] :
        /\ at[n] = "fetching"
        /\ \A other \in plan[n] : other[1] = id[1] => id[2] <= other[2]
        /\ cache' = [cache EXCEPT ![n] = Keeping(@, id)]
        /\ Proceeds(n, plan[n] \ {id})
        /\ UNCHANGED <<vars, channelVars, netVars, connection, lives, faults>>

\* The first fetch that fails drops the rest of the plan.
FetchFails(n) ==
    /\ at[n] = "fetching"
    /\ Fault
    /\ Proceeds(n, {})
    /\ UNCHANGED <<vars, channelVars, netVars, cache, connection, lives>>

\* The connection breaks while the request is under way or in hand: the node
\* goes on, and the core may still serve what was abandoned.
GiveUp(n) ==
    /\ at[n] = "waiting"
    /\ Fault
    /\ connection' = [connection EXCEPT ![n] = @ + 1]
    /\ Proceeds(n, {})
    /\ UNCHANGED <<vars, channelVars, netVars, cache, lives>>

\* PUT /prewarm from outside, at any moment: of any segment at any URL, whether
\* the core has committed it or not.
Prewarm(n, id) ==
    /\ cache' = [cache EXCEPT ![n] = Keeping(@, id)]
    /\ UNCHANGED <<vars, channelVars, netVars, at, plan, connection, lives,
                   faults>>

\* The process starts again with an empty map; a request it had sent may still
\* reach the core.
NodeRestart(n) ==
    /\ lives[n] < MaxNodeRestarts
    /\ Fault
    /\ lives' = [lives EXCEPT ![n] = @ + 1]
    /\ connection' = [connection EXCEPT ![n] = @ + 1]
    /\ at' = [at EXCEPT ![n] = "starting"]
    /\ plan' = [plan EXCEPT ![n] = {}]
    /\ cache' = [cache EXCEPT ![n] = {}]
    /\ UNCHANGED <<vars, channelVars, netVars>>

-----------------------------------------------------------------------------
(* The network and the core *)

\* The node still waits for the answer of what it sent on its connection.
Awaited(q) ==
    q.kind \in {"register", "heartbeat"} /\ q.connection = connection[q.node]

\* The core never takes the request: refused, or lost with its connection.
RequestLost(q) ==
    /\ q \in requests
    /\ Fault
    /\ requests' = requests \ {q}
    /\ IF Awaited(q) THEN Proceeds(q.node, {}) ELSE UNCHANGED <<at, plan>>
    /\ UNCHANGED <<vars, channelVars, handling, cache, connection, lives>>

TimePasses ==
    /\ Tick
    /\ UNCHANGED <<netVars, nodeVars, channelVars, faults>>

TimeIsSetBack ==
    /\ SetBack
    /\ Fault
    /\ UNCHANGED <<netVars, nodeVars, channelVars>>

\* ingest_segment of a segment that is stored and committed.
Ingest(r, s) ==
    /\ Publish(r, s)
    /\ renditions' = renditions \cup {r}
    /\ UNCHANGED <<netVars, nodeVars, snapshot, faults>>

\* ingest_segment of the first segment of a rendition, which cannot be written:
\* the rendition is there all the same.
IngestFails(r) ==
    /\ committed[r] = {}
    /\ renditions' = renditions \cup {r}
    /\ UNCHANGED <<vars, netVars, nodeVars, snapshot, faults>>

\* A handler takes a request and reads the clock; the mutex comes later.
Arrive(t, q) ==
    /\ ReadClock(t)
    /\ q \in requests \cup {Playlist}
    /\ requests' = requests \ {q}
    /\ handling' = [handling EXCEPT ![t] = q]
    /\ UNCHANGED <<nodeVars, channelVars, faults>>

\* The node gets the answer of handler t, or loses it after it took effect.
Answered(t, items) ==
    LET q == handling[t]
    IN  /\ handling' = [handling EXCEPT ![t] = Free]
        /\ \/ Awaited(q) /\ Proceeds(q.node, items) /\ UNCHANGED faults
           \/ Awaited(q) /\ Proceeds(q.node, {}) /\ Fault
           \/ ~Awaited(q) /\ UNCHANGED <<at, plan, faults>>
        /\ UNCHANGED <<requests, channelVars, cache, connection, lives>>

\* The node does not look at the outcome of its registration.
ServeRegister(t) ==
    /\ handling[t].kind = "register"
    /\ \E url \in Urls : PutNode(t, handling[t].node, url)
    /\ Answered(t, {})

ServeUnknown(t) ==
    /\ handling[t].kind = "heartbeat"
    /\ HeartbeatUnknown(t, handling[t].node)
    /\ Answered(t, {})

\* A node reports itself healthy and idle, always (heartbeat.rs).
ServeHeartbeat(t) ==
    /\ handling[t].kind = "heartbeat"
    /\ PostHeartbeat(t, handling[t].node, "ok", 0, handling[t].report)
    /\ Answered(t, reply'.prewarm)

\* The channel as regenerate sees it, renditions without a segment included.
Channel ==
    [r \in renditions |-> [segments |-> [s \in committed[r] |-> s]]]

\* get_playlist: with a node to route to, the snapshot is regenerated if that
\* is valid now, and kept as it is if not.
ServePlaylist(t) ==
    /\ handling[t] = Playlist
    /\ GetPlaylist(t)
    /\ snapshot' = IF reply'.kind = "routed" /\ Regenerable(Channel)
                   THEN required ELSE snapshot
    /\ handling' = [handling EXCEPT ![t] = Free]
    /\ UNCHANGED <<requests, nodeVars, renditions, faults>>

Serve(t) ==
    ServeRegister(t) \/ ServeUnknown(t) \/ ServeHeartbeat(t) \/ ServePlaylist(t)

\* The core stops and starts again: a node whose request was in hand gives up
\* on it, one whose request is under way still gets an answer.
CoreRestart ==
    /\ Fault
    /\ Restart
    /\ handling' = [t \in Threads |-> Free]
    /\ renditions' = {}
    /\ snapshot' = {}
    /\ at' = [n \in NodeIds |->
                 IF \E t \in Threads :
                       Awaited(handling[t]) /\ handling[t].node = n
                 THEN "ticking" ELSE at[n]]
    /\ UNCHANGED <<requests, plan, cache, connection, lives>>

EdamameNext ==
    \/ TimePasses
    \/ TimeIsSetBack
    \/ \E r \in Streams :
        \/ IngestFails(r)
        \/ \E s \in Sequences : Ingest(r, s)
    \/ CoreRestart
    \/ \E q \in requests : RequestLost(q)
    \/ \E t \in Threads :
        \/ \E q \in requests \cup {Playlist} : Arrive(t, q)
        \/ Serve(t)
    \/ \E n \in NodeIds :
        \/ SendRegister(n) \/ SendHeartbeat(n)
        \/ FetchNext(n) \/ FetchFails(n)
        \/ GiveUp(n)
        \/ NodeRestart(n)
        \/ \E id \in SegmentIds : Prewarm(n, id)

EdamameSpec == EdamameInit /\ [][EdamameNext]_edamameVars

\* What the processes do whenever they can: a node's loop goes on, the core
\* accepts what keeps arriving and every handler gets the mutex in the end.
Fairness ==
    /\ \A n \in NodeIds :
        /\ WF_edamameVars(SendRegister(n) \/ SendHeartbeat(n) \/ FetchNext(n))
        /\ SF_edamameVars(\E t \in Threads, q \in requests :
                              q.node = n /\ Arrive(t, q))
    /\ \A t \in Threads : WF_edamameVars(Serve(t))

FairSpec == EdamameSpec /\ Fairness

-----------------------------------------------------------------------------
(* Properties *)

\* Every step of the core is a step of the registry, so what is proved of it
\* for all reports holds for those that nodes send (RegistryTheoremsHold).
ImplementsRegistry == Spec

\* The node holds something newer than everything the core has committed of that
\* stream: fetched before the core restarted, or prewarmed from outside.
AheadOfCore(n) ==
    \E id \in cache[n] : \A s \in committed[id[1]] : s < id[2]

\* FR-031, as far as the code keeps it.  A node that has not restarted holds
\* every segment of the playlist a client is sent to it with, for as long as the
\* answer is the latest news, whatever was lost, late or restarted: as long as
\* the playlist is not a snapshot kept because the window is not valid now, the
\* node holds nothing the core has not committed yet that may have pushed the
\* live segments out, and it keeps at least the live window.
FreshRoutedCanServe ==
    \/ reply.kind # "routed"
    \/ ~Regenerable(Channel)
    \/ lives[reply.node] > 0
    \/ AheadOfCore(reply.node)
    \/ WindowSize > Retention + 1
    \/ snapshot \subseteq cache[reply.node]

\* A report never overstates, however late it is: what a node that has not
\* restarted has said it holds, in flight, in hand, abandoned or on record, it
\* still holds, or it has evicted it for something newer it does hold.
Outrun(n, id) ==
    \E newer \in cache[n] : newer[1] = id[1] /\ newer[2] - id[2] > Retention

StillHeld(n, report) == \A id \in report : id \in cache[n] \/ Outrun(n, id)

ReportsHold ==
    /\ \A q \in requests : lives[q.node] = 0 => StillHeld(q.node, q.report)
    /\ \A t \in Threads :
          LET q == handling[t]
          IN  q \in Requests /\ lives[q.node] = 0 => StillHeld(q.node, q.report)
    /\ \A n \in DOMAIN nodes :
          lives[n] = 0 => StillHeld(n, nodes[n].retained)

\* What a node cannot hold at once it never reports, through all restarts, so a
\* playlist is routed only while what is required of each stream fits within the
\* retention of the nodes (proved; a live window that is wider is WindowFits).
Fits(ids) ==
    \A newer, older \in ids :
        newer[1] = older[1] => newer[2] - older[2] <= Retention

ReportsFit ==
    /\ \A q \in requests : Fits(q.report)
    /\ \A t \in Threads : handling[t] \in Requests => Fits(handling[t].report)
    /\ \A n \in DOMAIN nodes : Fits(nodes[n].retained)
    /\ reply.kind = "routed" => Fits(required)

\* A node that keeps at least the live window gives up a segment the core
\* requires only by restarting, or for something the core has not committed: it
\* evicts by the edge of what it happens to hold, the core requires by the edge
\* of what is committed.
KeepsRequired ==
    [][lives' = lives /\ WindowSize <= Retention + 1 =>
          \A n \in NodeIds : \A id \in cache[n] \ cache'[n] :
              id \in required' => AheadOfCore(n)']_edamameVars

\* A node waits exactly as long as one request of its present connection is
\* under way, and never has two: it never waits for an answer that nobody is
\* going to give, whatever is lost, abandoned or restarted, and only a request
\* it has given up on can overtake, or be overtaken by, another of its own.
Sent(n) == {q \in requests : Awaited(q) /\ q.node = n}

InHand(n) == {t \in Threads : Awaited(handling[t]) /\ handling[t].node = n}

OneRequestUnderWay ==
    \A n \in NodeIds :
        /\ at[n] = "waiting" <=> Sent(n) # {} \/ InHand(n) # {}
        /\ Sent(n) = {} \/ InHand(n) = {}
        /\ \A p, q \in Sent(n) : p = q
        /\ \A t, u \in InHand(n) : t = u

\* docs/README.md:34, as far as the code keeps it: with a clock that is never
\* set back, a node that has never given up on a request, nor restarted, is
\* declared DEAD only when the latest stamp of any request of its own is older
\* than the timeout, whatever order the handlers get the mutex in.
OnlySilentNodesDie ==
    [][\A n \in DOMAIN nodes \cap DOMAIN nodes' :
          /\ connection[n] = 0 /\ setBacks = 0
          /\ nodes[n].state # "DEAD" /\ nodes'[n].state = "DEAD"
          => clock - heard'[n] > HeartbeatTimeout]_edamameVars

\* Once its registration is lost, or the core has forgotten it, a node never
\* serves again, whatever it reports: its heartbeats are refused, and only its
\* own restart makes it register again.
Lost(n) ==
    /\ n \notin DOMAIN nodes
    /\ at[n] # "starting"
    /\ \A q \in requests \cup {handling[t] : t \in Threads} :
          q.kind = "register" => q.node # n

LostForGood ==
    [][\A n \in NodeIds :
          Lost(n) /\ lives'[n] = lives[n] => Lost(n)']_edamameVars

\* The caches of the running system are the sets of ids NodeCache implements.
Caches ==
    INSTANCE HeldSet
        WITH Holders <- NodeIds, Ids <- SegmentIds, held <- cache

ImplementsHeldSets == Caches!HeldSpec

\* The node holds something so far ahead of a segment the core requires that it
\* evicts the segment the moment it stores it.
Overshot(n) == \E id \in required : Outrun(n, id)

\* Whatever is lost, late, abandoned or repeated on the way: once the faults,
\* the clock and the publisher come to rest, a node the core knows becomes and
\* stays ACTIVE, unless it holds something that evicts what is required of it.
KnownBecomesActive ==
    \A n \in NodeIds :
        <>[](n \in DOMAIN nodes => nodes[n].state = "ACTIVE" \/ Overshot(n))

-----------------------------------------------------------------------------
(* Claims of the documents that the code does not keep *)

\* docs/running.md:83: --retention-window of the core is how far behind the
\* live edge segments are kept, and covers the live window; docs/README.md:32:
\* a healthy, idle node that has fetched what it needs is ACTIVE.  So a node the
\* core knows gets there, unless it holds something that is not committed.
WindowFits ==
    \A n \in NodeIds :
        n \in DOMAIN nodes
            ~> \/ n \in DOMAIN nodes /\ nodes[n].state = "ACTIVE"
               \/ AheadOfCore(n)

\* node/heartbeat.rs:45 and docs/README.md:31: a node registers as COLD, and
\* COLD it is not used until it has fetched what is missing.  So registering a
\* node leaves no record by which the next playlist would be routed to it while
\* it lacks a required segment.
RegisteredCanServe ==
    [][\A t \in Threads :
          handling[t].kind = "register" /\ reply'.kind = "registered"
              /\ handling'[t] = Free =>
              LET n == handling[t].node
              IN  NextState(nodes'[n], required', clock') = "ACTIVE" =>
                      required' \subseteq cache'[n]]_edamameVars
==============================================================================
