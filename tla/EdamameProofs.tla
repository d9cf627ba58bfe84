---------------------------- MODULE EdamameProofs ----------------------------
(***************************************************************************)
(* Theorems about the running system, for any nodes, streams, sequences,   *)
(* window and retention sizes and any number of handlers: what is proved   *)
(* of the registry carries over, reports hold, what is required is kept,   *)
(* and fresh playlists can be served.                                      *)
(***************************************************************************)
EXTENDS Edamame, RegistryProofs, RetentionProofs

\* The steps of a request handler, named in one place.
Handles(t) ==
    \/ \E n \in NodeIds, url \in Urls : PutNode(t, n, url)
    \/ \E n \in NodeIds : HeartbeatUnknown(t, n)
    \/ \E n \in NodeIds, report \in SUBSET SegmentIds :
          PostHeartbeat(t, n, "ok", 0, report)
    \/ GetPlaylist(t)

-----------------------------------------------------------------------------
(* Every step is a step of the registry. *)

LEMMA HandledRequest ==
    ASSUME EdamameTypeOK, NEW t \in Threads,
           handling[t].kind \in {"register", "heartbeat"}
    PROVE  handling[t] \in Requests
BY DEF EdamameTypeOK, Playlist, Free

LEMMA RequestParts ==
    ASSUME NEW q \in Requests
    PROVE  /\ q.kind \in {"register", "heartbeat"}
           /\ q.node \in NodeIds
           /\ q.connection \in Nat
           /\ q.report \in SUBSET SegmentIds
BY DEF Requests

LEMMA ServeHandles ==
    ASSUME EdamameTypeOK, NEW t \in Threads, Serve(t)
    PROVE  Handles(t)
<1>1. CASE ServeRegister(t)
  <2>1. handling[t].node \in NodeIds
      BY <1>1, HandledRequest, RequestParts DEF ServeRegister
  <2> QED BY <1>1, <2>1 DEF ServeRegister, Handles
<1>2. CASE ServeUnknown(t)
  <2>1. handling[t].node \in NodeIds
      BY <1>2, HandledRequest, RequestParts DEF ServeUnknown
  <2> QED BY <1>2, <2>1 DEF ServeUnknown, Handles
<1>3. CASE ServeHeartbeat(t)
  <2>1. handling[t].node \in NodeIds /\ handling[t].report \in SUBSET SegmentIds
      BY <1>3, HandledRequest, RequestParts DEF ServeHeartbeat
  <2> QED BY <1>3, <2>1 DEF ServeHeartbeat, Handles
<1>4. CASE ServePlaylist(t)
    BY <1>4 DEF ServePlaylist, Handles
<1> QED BY <1>1, <1>2, <1>3, <1>4 DEF Serve

LEMMA HandlesNext ==
    ASSUME NEW t \in Threads, Handles(t)
    PROVE  Next
BY CacheNodesAssumption DEF Handles, Next, Health

LEMMA StepOfRegistry ==
    EdamameTypeOK /\ [EdamameNext]_edamameVars => [Next]_vars
<1> SUFFICES ASSUME EdamameTypeOK, [EdamameNext]_edamameVars
             PROVE  [Next]_vars
    OBVIOUS
<1>1. CASE TimePasses \/ TimeIsSetBack
    BY <1>1 DEF TimePasses, TimeIsSetBack, Next
<1>2. ASSUME NEW r \in Streams, NEW s \in Sequences, Ingest(r, s)
      PROVE  Next
    BY <1>2 DEF Ingest, Next
<1>3. CASE CoreRestart
    BY <1>3 DEF CoreRestart, Next
<1>4. ASSUME NEW t \in Threads, NEW q \in requests \cup {Playlist}, Arrive(t, q)
      PROVE  Next
    BY <1>4 DEF Arrive, Next
<1>5. ASSUME NEW t \in Threads, Serve(t)
      PROVE  Next
    BY <1>5, ServeHandles, HandlesNext
<1>6. CASE UNCHANGED vars
    BY <1>6
<1> QED BY <1>1, <1>2, <1>3, <1>4, <1>5, <1>6
        DEF EdamameNext, IngestFails, RequestLost, SendRegister, SendHeartbeat,
            Send, FetchNext, FetchFails, GiveUp, Prewarm, NodeRestart,
            edamameVars

-----------------------------------------------------------------------------
(* Type correctness *)

\* The variables of Edamame that are not the registry's.
OwnTypeOK ==
    /\ requests \subseteq Requests
    /\ handling \in [Threads -> Requests \cup {Playlist, Free}]
    /\ renditions \subseteq Streams
    /\ snapshot \subseteq SegmentIds
    /\ at \in [NodeIds -> {"starting", "waiting", "ticking", "fetching"}]
    /\ plan \in [NodeIds -> SUBSET SegmentIds]
    /\ cache \in [NodeIds -> SUBSET SegmentIds]
    /\ connection \in [NodeIds -> Nat]
    /\ lives \in [NodeIds -> Nat]
    /\ faults \in 0..MaxFaults

LEMMA TypeParts == EdamameTypeOK <=> TypeOK /\ OwnTypeOK
BY DEF EdamameTypeOK, OwnTypeOK

LEMMA EdamameInitTypeOK == EdamameInit => EdamameTypeOK
<1> SUFFICES ASSUME EdamameInit
             PROVE  TypeOK /\ OwnTypeOK
    BY TypeParts
<1>1. TypeOK
    BY InitTypeOK DEF EdamameInit
<1>2. 0 \in 0..MaxFaults
    BY EdamameAssumption
<1> QED BY <1>1, <1>2 DEF EdamameInit, OwnTypeOK

LEMMA ProceedsType ==
    ASSUME OwnTypeOK, NEW n \in NodeIds, NEW items \in SUBSET SegmentIds,
           Proceeds(n, items)
    PROVE  /\ at' \in [NodeIds ->
                         {"starting", "waiting", "ticking", "fetching"}]
           /\ plan' \in [NodeIds -> SUBSET SegmentIds]
BY DEF Proceeds, OwnTypeOK

LEMMA FaultType ==
    ASSUME OwnTypeOK, Fault
    PROVE  faults' \in 0..MaxFaults
BY EdamameAssumption DEF OwnTypeOK, Fault

\* What the node of a handled request may be told.
LEMMA AnsweredType ==
    ASSUME OwnTypeOK, NEW t \in Threads, handling[t] \in Requests,
           NEW items \in SUBSET SegmentIds, Answered(t, items)
    PROVE  /\ handling' \in [Threads -> Requests \cup {Playlist, Free}]
           /\ at' \in [NodeIds ->
                         {"starting", "waiting", "ticking", "fetching"}]
           /\ plan' \in [NodeIds -> SUBSET SegmentIds]
           /\ faults' \in 0..MaxFaults
           /\ UNCHANGED <<requests, channelVars, cache, connection, lives>>
<1> DEFINE n == handling[t].node
<1>1. n \in NodeIds
    BY RequestParts
<1>2. /\ handling' = [handling EXCEPT ![t] = Free]
      /\ UNCHANGED <<requests, channelVars, cache, connection, lives>>
    BY DEF Answered
<1>3. \/ Proceeds(n, items) /\ UNCHANGED faults
      \/ Proceeds(n, {}) /\ Fault
      \/ UNCHANGED <<at, plan, faults>>
    BY DEF Answered
<1>4. handling' \in [Threads -> Requests \cup {Playlist, Free}]
    BY <1>2 DEF OwnTypeOK
<1>5. CASE Proceeds(n, items) /\ UNCHANGED faults
    BY <1>1, <1>2, <1>4, <1>5, ProceedsType DEF OwnTypeOK
<1>6. CASE Proceeds(n, {}) /\ Fault
    BY <1>1, <1>2, <1>4, <1>6, ProceedsType, FaultType
<1>7. CASE UNCHANGED <<at, plan, faults>>
    BY <1>2, <1>4, <1>7 DEF OwnTypeOK
<1> QED BY <1>3, <1>5, <1>6, <1>7

\* A node is told to fetch nothing but what the window requires.
LEMMA ServeAnswers ==
    ASSUME EdamameTypeOK, NEW t \in Threads,
           ServeRegister(t) \/ ServeUnknown(t) \/ ServeHeartbeat(t)
    PROVE  /\ handling[t] \in Requests
           /\ \E items \in SUBSET required : Answered(t, items)
           /\ UNCHANGED channelVars
<1>1. CASE ServeRegister(t) \/ ServeUnknown(t)
    BY <1>1, HandledRequest DEF ServeRegister, ServeUnknown, Answered
<1>2. CASE ServeHeartbeat(t)
  <2>1. \E node : reply'.prewarm = PrewarmPlan(node, required)
      BY <1>2 DEF ServeHeartbeat, PostHeartbeat
  <2>2. reply'.prewarm \subseteq required
      BY <2>1 DEF PrewarmPlan
  <2> QED BY <1>2, <2>2, HandledRequest DEF ServeHeartbeat, Answered
<1> QED BY <1>1, <1>2

LEMMA EdamameNextTypeOK ==
    EdamameTypeOK /\ [EdamameNext]_edamameVars => EdamameTypeOK'
<1> SUFFICES ASSUME EdamameTypeOK, [EdamameNext]_edamameVars
             PROVE  EdamameTypeOK'
    OBVIOUS
<1>0. TypeOK /\ OwnTypeOK /\ TypeOK'
    BY TypeParts, StepOfRegistry, NextTypeOK
<1>r. required \in SUBSET SegmentIds
    BY <1>0, RequiredIsCommitted DEF TypeOK, required
<1> SUFFICES OwnTypeOK'
    BY <1>0, TypeParts DEF EdamameTypeOK, OwnTypeOK
<1>1. CASE TimePasses \/ TimeIsSetBack
    BY <1>0, <1>1, FaultType
       DEF TimePasses, TimeIsSetBack, netVars, nodeVars, channelVars, OwnTypeOK
<1>i. ASSUME NEW r \in Streams,
             IngestFails(r) \/ \E s \in Sequences : Ingest(r, s)
      PROVE  OwnTypeOK'
    BY <1>0, <1>i, FaultType
       DEF Ingest, IngestFails, netVars, nodeVars, OwnTypeOK
<1>2. CASE CoreRestart
  <2>1. /\ handling' \in [Threads -> Requests \cup {Playlist, Free}]
        /\ renditions' \subseteq Streams
        /\ snapshot' \subseteq SegmentIds
      BY <1>2 DEF CoreRestart
  <2>2. at' \in [NodeIds -> {"starting", "waiting", "ticking", "fetching"}]
      BY <1>0, <1>2 DEF CoreRestart, OwnTypeOK
  <2>3. faults' \in 0..MaxFaults
      BY <1>0, <1>2, FaultType DEF CoreRestart
  <2> QED BY <1>0, <1>2, <2>1, <2>2, <2>3 DEF CoreRestart, OwnTypeOK
<1>3. ASSUME NEW q \in requests, RequestLost(q)
      PROVE  OwnTypeOK'
  <2>1. q \in Requests /\ q.node \in NodeIds
      BY <1>0, RequestParts DEF OwnTypeOK
  <2>2. Proceeds(q.node, {}) \/ UNCHANGED <<at, plan>>
      BY <1>3 DEF RequestLost
  <2>3. /\ at' \in [NodeIds -> {"starting", "waiting", "ticking", "fetching"}]
        /\ plan' \in [NodeIds -> SUBSET SegmentIds]
      BY <1>0, <2>1, <2>2, ProceedsType DEF OwnTypeOK
  <2>4. faults' \in 0..MaxFaults
      BY <1>0, <1>3, FaultType DEF RequestLost
  <2> QED BY <1>0, <1>3, <2>3, <2>4 DEF RequestLost, channelVars, OwnTypeOK
<1>4. ASSUME NEW t \in Threads, NEW q \in requests \cup {Playlist}, Arrive(t, q)
      PROVE  OwnTypeOK'
    BY <1>0, <1>4 DEF Arrive, nodeVars, channelVars, OwnTypeOK
<1>5. ASSUME NEW t \in Threads,
             ServeRegister(t) \/ ServeUnknown(t) \/ ServeHeartbeat(t)
      PROVE  OwnTypeOK'
  <2>1. PICK items \in SUBSET required : Answered(t, items)
      BY <1>5, ServeAnswers
  <2>2. handling[t] \in Requests
      BY <1>5, ServeAnswers
  <2>3. items \in SUBSET SegmentIds
      BY <1>r
  <2> QED BY <1>0, <2>1, <2>2, <2>3, AnsweredType DEF channelVars, OwnTypeOK
<1>6. ASSUME NEW t \in Threads, ServePlaylist(t)
      PROVE  OwnTypeOK'
    BY <1>0, <1>r, <1>6 DEF ServePlaylist, nodeVars, OwnTypeOK
<1>7. ASSUME NEW n \in NodeIds, SendRegister(n) \/ SendHeartbeat(n)
      PROVE  OwnTypeOK'
  <2>1. PICK kind \in {"register", "heartbeat"}, report \in SUBSET SegmentIds :
           Send(n, kind, report)
      BY <1>0, <1>7 DEF SendRegister, SendHeartbeat, OwnTypeOK
  <2>2. [kind |-> kind, node |-> n, connection |-> connection[n],
         report |-> report] \in Requests
      BY <1>0 DEF OwnTypeOK, Requests
  <2> QED BY <1>0, <2>1, <2>2 DEF Send, channelVars, OwnTypeOK
<1>8. ASSUME NEW n \in NodeIds, FetchNext(n)
      PROVE  OwnTypeOK'
  <2>1. PICK id \in plan[n] :
           /\ cache' = [cache EXCEPT ![n] = Keeping(@, id)]
           /\ Proceeds(n, plan[n] \ {id})
           /\ UNCHANGED <<vars, channelVars, netVars, connection, lives,
                          faults>>
      BY <1>8 DEF FetchNext
  <2>2. id \in SegmentIds /\ plan[n] \ {id} \in SUBSET SegmentIds
      BY <1>0, <2>1 DEF OwnTypeOK
  <2>3. Keeping(cache[n], id) \in SUBSET SegmentIds
      BY <1>0, <2>2 DEF Keeping, OwnTypeOK
  <2> QED BY <1>0, <2>1, <2>2, <2>3, ProceedsType
          DEF netVars, channelVars, OwnTypeOK
<1>9. ASSUME NEW n \in NodeIds, FetchFails(n)
      PROVE  OwnTypeOK'
    BY <1>0, <1>9, ProceedsType, FaultType
       DEF FetchFails, netVars, channelVars, OwnTypeOK
<1>g. ASSUME NEW n \in NodeIds, GiveUp(n)
      PROVE  OwnTypeOK'
    BY <1>0, <1>g, ProceedsType, FaultType
       DEF GiveUp, netVars, channelVars, OwnTypeOK
<1>10. ASSUME NEW n \in NodeIds, NEW id \in SegmentIds, Prewarm(n, id)
       PROVE  OwnTypeOK'
  <2>1. Keeping(cache[n], id) \in SUBSET SegmentIds
      BY <1>0 DEF Keeping, OwnTypeOK
  <2> QED BY <1>0, <1>10, <2>1 DEF Prewarm, netVars, channelVars, OwnTypeOK
<1>11. ASSUME NEW n \in NodeIds, NodeRestart(n)
       PROVE  OwnTypeOK'
    BY <1>0, <1>11, FaultType DEF NodeRestart, netVars, channelVars, OwnTypeOK
<1>12. CASE UNCHANGED edamameVars
    BY <1>0, <1>12 DEF edamameVars, netVars, nodeVars, channelVars, OwnTypeOK
<1> QED BY <1>1, <1>i, <1>2, <1>3, <1>4, <1>5, <1>6, <1>7, <1>8, <1>9, <1>g,
           <1>10, <1>11, <1>12 DEF EdamameNext, Serve

\* Type correctness of the running system, for every instance.
THEOREM EdamameTypeCorrect == EdamameSpec => []EdamameTypeOK
BY EdamameInitTypeOK, EdamameNextTypeOK, PTL DEF EdamameSpec

\* Every action on the core is one of the registry, which is how
\* RegistryTheoremsHold carries the registry's theorems over.
LEMMA RegistryImplemented == EdamameSpec => ImplementsRegistry
<1>1. EdamameInit => Init
    BY DEF EdamameInit
<1> QED BY <1>1, StepOfRegistry, EdamameTypeCorrect, PTL
           DEF EdamameSpec, ImplementsRegistry, Spec

-----------------------------------------------------------------------------
(* Reports hold. *)

\* The edge a node evicts by is a maximum: it exists whatever the node holds.
CachesHaveNewest == \A n \in NodeIds : HaveNewest(cache[n])

\* ReportsHold needs to know what a store leaves of a cache.
EIInv == EdamameTypeOK /\ IInv /\ CachesHaveNewest /\ ReportsHold

LEMMA LivesGrow ==
    ASSUME EdamameTypeOK, [EdamameNext]_edamameVars, NEW n \in NodeIds,
           lives'[n] = 0
    PROVE  lives[n] = 0 /\ ~NodeRestart(n)
<1>0. lives \in [NodeIds -> Nat] /\ lives[n] \in Nat
    BY DEF EdamameTypeOK
<1>1. ASSUME NEW m \in NodeIds, NodeRestart(m)
      PROVE  m # n /\ lives'[n] = lives[n]
    BY <1>0, <1>1 DEF NodeRestart
<1>2. CASE UNCHANGED lives
  <2>1. ~NodeRestart(n)
      BY <1>1
  <2> QED BY <1>2, <2>1
<1>3. CASE \E m \in NodeIds : NodeRestart(m)
    BY <1>1, <1>3
<1>4. ASSUME NEW t \in Threads, Serve(t)
      PROVE  UNCHANGED lives
    BY <1>4 DEF Serve, ServeRegister, ServeUnknown, ServeHeartbeat,
                ServePlaylist, Answered, nodeVars
<1> QED BY <1>2, <1>3, <1>4
        DEF EdamameNext, CoreRestart, TimePasses, TimeIsSetBack, Ingest,
            IngestFails, RequestLost, Arrive, SendRegister, SendHeartbeat, Send,
            FetchNext, FetchFails, GiveUp, Prewarm, nodeVars, edamameVars

\* A cache changes by storing one segment, or by losing everything.
LEMMA CacheSteps ==
    ASSUME EdamameTypeOK, [EdamameNext]_edamameVars, NEW n \in NodeIds
    PROVE  \/ cache'[n] = cache[n]
           \/ \E id \in SegmentIds :
                 /\ cache'[n] = Keeping(cache[n], id)
                 /\ committed' = committed
           \/ NodeRestart(n) /\ cache'[n] = {}
<1>0. /\ cache \in [NodeIds -> SUBSET SegmentIds]
      /\ plan \in [NodeIds -> SUBSET SegmentIds]
    BY DEF EdamameTypeOK
<1>1. ASSUME NEW m \in NodeIds, FetchNext(m)
      PROVE  \/ cache'[n] = cache[n]
             \/ \E id \in SegmentIds : /\ cache'[n] = Keeping(cache[n], id)
                                       /\ committed' = committed
  <2>1. PICK id \in plan[m] : /\ cache' = [cache EXCEPT ![m] = Keeping(@, id)]
                              /\ committed' = committed
      BY <1>1 DEF FetchNext, vars
  <2>2. id \in SegmentIds
      BY <1>0
  <2> QED BY <1>0, <2>1, <2>2
<1>2. ASSUME NEW m \in NodeIds, NEW id \in SegmentIds, Prewarm(m, id)
      PROVE  \/ cache'[n] = cache[n]
             \/ /\ cache'[n] = Keeping(cache[n], id)
                /\ committed' = committed
    BY <1>0, <1>2 DEF Prewarm, vars
<1>3. ASSUME NEW m \in NodeIds, NodeRestart(m)
      PROVE  cache'[n] = cache[n] \/ (m = n /\ cache'[n] = {})
    BY <1>0, <1>3 DEF NodeRestart
<1>4. ASSUME NEW t \in Threads, Serve(t)
      PROVE  UNCHANGED cache
    BY <1>4 DEF Serve, ServeRegister, ServeUnknown, ServeHeartbeat,
                ServePlaylist, Answered, nodeVars
<1>5. CASE UNCHANGED cache
    BY <1>5
<1> QED BY <1>0, <1>1, <1>2, <1>3, <1>4, <1>5
        DEF EdamameNext, CoreRestart, TimePasses, TimeIsSetBack, Ingest,
            IngestFails, RequestLost, Arrive, SendRegister, SendHeartbeat, Send,
            FetchFails, GiveUp, nodeVars, edamameVars

\* What a store leaves of a cache: what is evicted, the new segment included,
\* is more than the retention behind something that is kept.
LEMMA StoreFacts ==
    ASSUME EdamameTypeOK, CachesHaveNewest, NEW n \in NodeIds,
           NEW got \in SegmentIds
    PROVE  /\ Keeping(cache[n], got) \subseteq cache[n] \cup {got}
           /\ HaveNewest(Keeping(cache[n], got))
           /\ \A lost \in (cache[n] \cup {got}) \ Keeping(cache[n], got) :
                 \E newer \in Keeping(cache[n], got) :
                     newer[1] = lost[1] /\ newer[2] - lost[2] > Retention
<1>1. /\ Sequences \in SUBSET Nat
      /\ cache[n] \in SUBSET (Streams \X Sequences)
      /\ got \in Streams \X Sequences
      /\ HaveNewest(cache[n])
    BY CacheNodesAssumption DEF CachesHaveNewest, EdamameTypeOK, SegmentIds
<1> QED BY <1>1, KeepingFacts

\* What has outrun a segment is evicted only for something newer still.
LEMMA OutrunStays ==
    ASSUME EdamameTypeOK, CachesHaveNewest, NEW n \in NodeIds,
           NEW got \in SegmentIds, cache'[n] = Keeping(cache[n], got),
           NEW id \in SegmentIds, Outrun(n, id)
    PROVE  Outrun(n, id)'
<1>1. PICK newer \in cache[n] : newer[1] = id[1] /\ newer[2] - id[2] > Retention
    BY DEF Outrun
<1>2. /\ newer \in SegmentIds /\ cache'[n] \subseteq SegmentIds
      /\ \A other \in SegmentIds : other[2] \in Nat
    BY CacheNodesAssumption DEF EdamameTypeOK, SegmentIds, Keeping
<1>3. CASE newer \in cache'[n]
    BY <1>1, <1>3 DEF Outrun
<1>4. CASE newer \notin cache'[n]
  <2>1. PICK newest \in cache'[n] :
           newest[1] = newer[1] /\ newest[2] - newer[2] > Retention
      BY <1>4, StoreFacts
  <2>2. newest[2] - id[2] > Retention
      BY <1>1, <1>2, <2>1, RetentionAssumption
  <2> QED BY <1>1, <2>1, <2>2 DEF Outrun
<1> QED BY <1>3, <1>4

\* A report that holds goes on holding, whatever the system does.
LEMMA StillHeldStays ==
    ASSUME EIInv, [EdamameNext]_edamameVars,
           NEW n \in NodeIds, lives'[n] = 0,
           NEW report \in SUBSET SegmentIds, StillHeld(n, report)
    PROVE  StillHeld(n, report)'
<1>0. EdamameTypeOK /\ CachesHaveNewest /\ ~NodeRestart(n)
    BY LivesGrow DEF EIInv
<1> SUFFICES ASSUME NEW id \in report
             PROVE  id \in cache'[n] \/ Outrun(n, id)'
    BY DEF StillHeld
<1>1. id \in cache[n] \/ Outrun(n, id)
    BY DEF StillHeld
<1>2. CASE cache'[n] = cache[n]
    BY <1>1, <1>2 DEF Outrun
<1>3. ASSUME NEW got \in SegmentIds, cache'[n] = Keeping(cache[n], got)
      PROVE  id \in cache'[n] \/ Outrun(n, id)'
  <2>1. CASE Outrun(n, id)
      BY <1>0, <1>3, <2>1, OutrunStays
  <2>2. CASE id \in cache[n] /\ id \notin cache'[n]
    <3>1. \E newer \in cache'[n] :
             newer[1] = id[1] /\ newer[2] - id[2] > Retention
        BY <1>0, <1>3, <2>2, StoreFacts
    <3> QED BY <3>1 DEF Outrun
  <2> QED BY <1>1, <2>1, <2>2
<1> QED BY <1>0, <1>2, <1>3, CacheSteps

LEMMA NextCachesHaveNewest ==
    ASSUME EIInv, [EdamameNext]_edamameVars
    PROVE  CachesHaveNewest'
<1> SUFFICES ASSUME NEW n \in NodeIds
             PROVE  HaveNewest(cache'[n])
    BY DEF CachesHaveNewest
<1>1. EdamameTypeOK /\ CachesHaveNewest /\ HaveNewest(cache[n])
    BY DEF EIInv, CachesHaveNewest
<1>2. ASSUME NEW id \in SegmentIds, cache'[n] = Keeping(cache[n], id)
      PROVE  HaveNewest(cache'[n])
    BY <1>1, <1>2, StoreFacts
<1>3. HaveNewest({})
    BY DEF HaveNewest
<1> QED BY <1>1, <1>2, <1>3, CacheSteps

\* What the registry has on record after a step was on record before, or is
\* the report a handler had in hand.
LEMMA RetainedSteps ==
    ASSUME EIInv, [EdamameNext]_edamameVars, NEW n \in DOMAIN nodes'
    PROVE  \/ nodes'[n].retained = {}
           \/ n \in DOMAIN nodes /\ nodes'[n].retained = nodes[n].retained
           \/ \E t \in Threads : /\ handling[t] \in Requests
                                 /\ handling[t].node = n
                                 /\ nodes'[n].retained = handling[t].report
<1>0. EdamameTypeOK /\ IsRegistry(nodes)
    BY DEF EIInv, IInv, TypeOK
<1>s. ASSUME NEW t \in Threads, Serves(t)
      PROVE  stamps[t] \in Nat
    BY <1>s, StampsAreTimes DEF EIInv, IInv, Serves
<1>1. ASSUME NEW t \in Threads, ServeRegister(t)
      PROVE  \/ nodes'[n].retained = {}
             \/ n \in DOMAIN nodes /\ nodes'[n].retained = nodes[n].retained
  <2>1. PICK url \in Urls : PutNode(t, handling[t].node, url)
      BY <1>1 DEF ServeRegister
  <2>2. nodes' = Register(nodes, handling[t].node, url, stamps[t])
      BY <2>1 DEF PutNode
  <2> QED BY <1>0, <2>2 DEF Register, NewCold, IsRegistry, CacheNode
<1>2. ASSUME NEW t \in Threads, ServeHeartbeat(t)
      PROVE  \/ nodes'[n].retained = {}
             \/ n \in DOMAIN nodes /\ nodes'[n].retained = nodes[n].retained
             \/ /\ handling[t] \in Requests
                /\ handling[t].node = n
                /\ nodes'[n].retained = handling[t].report
  <2> DEFINE q == handling[t]
             now == stamps[t]
             heardOf == Heartbeat(nodes, q.node, "ok", 0, q.report, now)
  <2>1. q \in Requests /\ q.report \in SUBSET SegmentIds
      BY <1>0, <1>2, HandledRequest, RequestParts DEF ServeHeartbeat
  <2>2. /\ now \in Nat
        /\ q.node \in DOMAIN nodes
        /\ nodes' = EvaluateAll(heardOf, required, now)
      BY <1>s, <1>2 DEF ServeHeartbeat, PostHeartbeat
  <2>3. /\ IsRegistry(heardOf)
        /\ DOMAIN heardOf = DOMAIN nodes
        /\ heardOf[q.node] = AfterHeartbeat(nodes[q.node], "ok", 0, q.report, now)
        /\ \A m \in DOMAIN nodes \ {q.node} : heardOf[m] = nodes[m]
    <3>1. "ok" \in Health /\ 0 \in Loads
        BY CacheNodesAssumption DEF Health
    <3> QED BY <1>0, <2>1, <2>2, <3>1, HeartbeatType
  <2>4. n \in DOMAIN nodes /\ nodes'[n].retained = heardOf[n].retained
      BY <2>2, <2>3, EvaluateAllType, EvaluationKeeps DEF IsRegistry
  <2>5. CASE n = q.node
    <3>1. nodes[n] \in CacheNode
        BY <1>0, <2>2, <2>5 DEF IsRegistry
    <3>2. heardOf[n] = AfterHeartbeat(nodes[n], "ok", 0, q.report, now)
        BY <2>3, <2>5
    <3>3. heardOf[n].retained =
             IF nodes[n].state = "DEAD" THEN {} ELSE q.report
        BY <3>1, <3>2 DEF AfterHeartbeat, CacheNode
    <3> QED BY <2>1, <2>4, <2>5, <3>3
  <2>6. CASE n # q.node
      BY <2>3, <2>4, <2>6
  <2> QED BY <2>5, <2>6
<1>3. ASSUME NEW t \in Threads, ServePlaylist(t)
      PROVE  n \in DOMAIN nodes /\ nodes'[n].retained = nodes[n].retained
  <2>1. /\ stamps[t] \in Nat
        /\ nodes' = EvaluateAll(nodes, required, stamps[t])
      BY <1>s, <1>3 DEF ServePlaylist, GetPlaylist
  <2> QED BY <1>0, <2>1, EvaluateAllType, EvaluationKeeps DEF IsRegistry
<1>4. CASE CoreRestart
    BY <1>4 DEF CoreRestart, Restart
<1>5. CASE UNCHANGED nodes
    BY <1>5
<1> QED BY <1>1, <1>2, <1>3, <1>4, <1>5
        DEF EdamameNext, Serve, ServeUnknown, HeartbeatUnknown, TimePasses, Tick,
            TimeIsSetBack, SetBack, Ingest, Publish, IngestFails, RequestLost,
            Arrive, ReadClock, SendRegister, SendHeartbeat, Send, FetchNext,
            FetchFails, GiveUp, Prewarm, NodeRestart, edamameVars, vars

\* A request that is new is an empty registration or says what is held.
LEMMA RequestSteps ==
    ASSUME EdamameTypeOK, [EdamameNext]_edamameVars
    PROVE  /\ \A q \in requests' :
                 \/ q \in requests
                 \/ q.report = {} /\ q.node \in NodeIds
                 \/ q.report = cache[q.node] /\ q.node \in NodeIds
           /\ \A t \in Threads :
                 \/ handling'[t] = handling[t]
                 \/ handling'[t] \in requests \cup {Playlist, Free}
<1>0. handling \in [Threads -> Requests \cup {Playlist, Free}]
    BY DEF EdamameTypeOK
<1>1. ASSUME NEW n \in NodeIds, SendRegister(n) \/ SendHeartbeat(n)
      PROVE  /\ \A q \in requests' :
                   \/ q \in requests
                   \/ q.report = {} /\ q.node \in NodeIds
                   \/ q.report = cache[q.node] /\ q.node \in NodeIds
             /\ handling' = handling
    BY <1>1 DEF SendRegister, SendHeartbeat, Send
<1>2. ASSUME NEW t \in Threads, NEW q \in requests \cup {Playlist}, Arrive(t, q)
      PROVE  /\ requests' \subseteq requests
             /\ handling' = [handling EXCEPT ![t] = q]
    BY <1>2 DEF Arrive
<1>3. ASSUME NEW t \in Threads, Serve(t)
      PROVE  /\ requests' = requests
             /\ handling' = [handling EXCEPT ![t] = Free]
    BY <1>3 DEF Serve, ServeRegister, ServeUnknown, ServeHeartbeat,
                ServePlaylist, Answered
<1>4. CASE CoreRestart
    BY <1>4 DEF CoreRestart
<1>5. CASE requests' \subseteq requests /\ handling' = handling
    BY <1>5
<1> QED BY <1>0, <1>1, <1>2, <1>3, <1>4, <1>5
        DEF EdamameNext, TimePasses, TimeIsSetBack, Ingest, IngestFails,
            RequestLost, FetchNext, FetchFails, GiveUp, Prewarm, NodeRestart,
            netVars, edamameVars

LEMMA NextReportsHold ==
    ASSUME EIInv, [EdamameNext]_edamameVars
    PROVE  ReportsHold'
\* StillHeld after the step, of a report that may itself be read after it.
<1> DEFINE Holds(n, report) ==
              \A id \in report :
                  \/ id \in cache'[n]
                  \/ \E newer \in cache'[n] :
                        newer[1] = id[1] /\ newer[2] - id[2] > Retention
<1> SUFFICES /\ \A q \in requests' :
                   lives'[q.node] = 0 => Holds(q.node, q.report)
             /\ \A t \in Threads :
                   handling'[t] \in Requests /\ lives'[handling'[t].node] = 0 =>
                       Holds(handling'[t].node, handling'[t].report)
             /\ \A n \in DOMAIN nodes' :
                   lives'[n] = 0 => Holds(n, nodes'[n].retained)
    BY Zenon DEF ReportsHold, StillHeld, Outrun
<1>0. /\ EdamameTypeOK /\ EdamameTypeOK' /\ IInv /\ IInv'
    BY EdamameNextTypeOK, StepOfRegistry, NextIInv DEF EIInv
\* One report, wherever it was and wherever it goes.
<1>1. ASSUME NEW n \in NodeIds, lives'[n] = 0,
             NEW report \in SUBSET SegmentIds, StillHeld(n, report)
      PROVE  Holds(n, report)
    BY <1>1, StillHeldStays DEF StillHeld, Outrun
<1>2. /\ requests \subseteq Requests
      /\ cache \in [NodeIds -> SUBSET SegmentIds]
    BY <1>0 DEF EdamameTypeOK
<1> HIDE DEF Holds
<1>3. ASSUME NEW q \in requests', lives'[q.node] = 0
      PROVE  Holds(q.node, q.report)
  <2>1. CASE q \in requests
    <3>1. q.node \in NodeIds /\ q.report \in SUBSET SegmentIds
        BY <1>2, <2>1, RequestParts
    <3>2. lives[q.node] = 0
        BY <1>0, <1>3, <3>1, LivesGrow
    <3>3. StillHeld(q.node, q.report)
        BY <2>1, <3>2 DEF EIInv, ReportsHold
    <3> QED BY <1>1, <1>3, <3>1, <3>3
  <2>2. CASE q.report = {}
      BY <2>2 DEF Holds
  <2>3. CASE q.report = cache[q.node] /\ q.node \in NodeIds
    <3>1. q.report \in SUBSET SegmentIds /\ StillHeld(q.node, q.report)
        BY <1>2, <2>3 DEF StillHeld
    <3> QED BY <1>1, <1>3, <2>3, <3>1
  <2> QED BY <1>0, <2>1, <2>2, <2>3, RequestSteps
<1>4. ASSUME NEW t \in Threads, handling'[t] \in Requests,
             lives'[handling'[t].node] = 0
      PROVE  Holds(handling'[t].node, handling'[t].report)
  <2> DEFINE q == handling'[t]
  <2>1. q.node \in NodeIds /\ q.report \in SUBSET SegmentIds
      BY <1>4, RequestParts
  <2>2. lives[q.node] = 0
      BY <1>0, <1>4, <2>1, LivesGrow
  <2>3. StillHeld(q.node, q.report)
    <3>1. CASE handling'[t] = handling[t]
        BY <1>4, <2>2, <3>1 DEF EIInv, ReportsHold
    <3>2. CASE q \in requests
        BY <2>2, <3>2 DEF EIInv, ReportsHold
    <3>3. CASE q \in {Playlist, Free}
        BY <1>4, <3>3, RequestParts DEF Playlist, Free
    <3> QED BY <1>0, <3>1, <3>2, <3>3, RequestSteps
  <2> QED BY <1>1, <1>4, <2>1, <2>3
<1>5. ASSUME NEW n \in DOMAIN nodes', lives'[n] = 0
      PROVE  Holds(n, nodes'[n].retained)
  <2>1. n \in NodeIds /\ nodes'[n].retained \in SUBSET SegmentIds
      BY <1>0 DEF IInv, TypeOK, IsRegistry, CacheNode
  <2>2. lives[n] = 0
      BY <1>0, <1>5, <2>1, LivesGrow
  <2>3. CASE nodes'[n].retained = {}
      BY <2>3 DEF Holds
  <2>4. CASE n \in DOMAIN nodes /\ nodes'[n].retained = nodes[n].retained
    <3>1. StillHeld(n, nodes'[n].retained)
        BY <2>2, <2>4 DEF EIInv, ReportsHold
    <3> QED BY <1>1, <1>5, <2>1, <3>1
  <2>5. ASSUME NEW t \in Threads, handling[t] \in Requests,
               handling[t].node = n, nodes'[n].retained = handling[t].report
        PROVE  Holds(n, nodes'[n].retained)
    <3>1. StillHeld(n, nodes'[n].retained)
        BY <2>2, <2>5 DEF EIInv, ReportsHold
    <3> QED BY <1>1, <1>5, <2>1, <3>1
  <2> QED BY <2>3, <2>4, <2>5, RetainedSteps
<1> QED BY <1>3, <1>4, <1>5

LEMMA InitEIInv == EdamameInit => EIInv
<1> SUFFICES ASSUME EdamameInit
             PROVE  EIInv
    OBVIOUS
<1>1. EdamameTypeOK /\ IInv
    BY EdamameInitTypeOK, InitIInv DEF EdamameInit
<1>2. CachesHaveNewest
    BY DEF EdamameInit, CachesHaveNewest, HaveNewest
<1>3. ReportsHold
  <2>1. Free \notin Requests
      BY RequestParts DEF Free
  <2>2. DOMAIN nodes = {}
      BY DEF EdamameInit, Init
  <2> QED BY <2>1, <2>2 DEF EdamameInit, ReportsHold
<1> QED BY <1>1, <1>2, <1>3 DEF EIInv

LEMMA NextEIInv == EIInv /\ [EdamameNext]_edamameVars => EIInv'
<1> SUFFICES ASSUME EIInv, [EdamameNext]_edamameVars
             PROVE  EIInv'
    OBVIOUS
<1>1. EdamameTypeOK' /\ IInv'
    BY EdamameNextTypeOK, StepOfRegistry, NextIInv DEF EIInv
<1> QED BY <1>1, NextCachesHaveNewest, NextReportsHold DEF EIInv

\* The inductive invariant of the running system: reports hold in every state.
THEOREM EdamameInvariant == EdamameSpec => []EIInv
BY InitEIInv, NextEIInv, PTL DEF EdamameSpec

\* A report never overstates what a node that has not restarted holds: what it
\* lacks it has evicted for something newer, however long the report was on its
\* way and whatever was fetched, or prewarmed from outside, meanwhile.
THEOREM ReportsHoldAlways == EdamameSpec => []ReportsHold
<1>1. EIInv => ReportsHold
    BY DEF EIInv
<1> QED BY <1>1, EdamameInvariant, PTL

-----------------------------------------------------------------------------
(* A fresh playlist can be served. *)

\* The playlist answered from a valid window lists exactly what is required.
FreshIsRequired ==
    reply.kind = "routed" /\ Regenerable(Channel) => snapshot = required

LEMMA NextFreshIsRequired ==
    ASSUME EIInv, FreshIsRequired, [EdamameNext]_edamameVars
    PROVE  FreshIsRequired'
<1>1. ASSUME NEW t \in Threads, ServePlaylist(t)
      PROVE  FreshIsRequired'
  <2>1. /\ committed' = committed /\ renditions' = renditions
        /\ snapshot' = IF reply'.kind = "routed" /\ Regenerable(Channel)
                       THEN required ELSE snapshot
      BY <1>1 DEF ServePlaylist, GetPlaylist, Serves
  <2>2. Channel' = Channel /\ required' = required
      BY <2>1 DEF Channel, required
  <2> QED BY <2>1, <2>2 DEF FreshIsRequired
<1>2. CASE reply'.kind # "routed"
    BY <1>2 DEF FreshIsRequired
<1>3. CASE UNCHANGED <<vars, channelVars>>
  <2>1. Channel' = Channel /\ required' = required
      BY <1>3 DEF vars, channelVars, Channel, required
  <2> QED BY <1>3, <2>1 DEF vars, channelVars, FreshIsRequired
<1>i. ASSUME NEW r \in Streams, IngestFails(r)
      PROVE  FreshIsRequired'
  <2>1. committed'[r] = {} /\ r \in renditions'
      BY <1>i DEF IngestFails, vars
  <2>2. r \in DOMAIN Channel' /\ DOMAIN (Channel'[r].segments) = {}
      BY <2>1 DEF Channel
  <2>3. ~Regenerable(Channel)'
      BY <2>2 DEF Regenerable, ValidMedia
  <2> QED BY <2>3 DEF FreshIsRequired
<1>4. ASSUME \/ Tick
             \/ SetBack
             \/ Restart
             \/ \E r \in Streams, s \in Sequences : Publish(r, s)
             \/ \E t \in Threads : ReadClock(t)
      PROVE  reply'.kind # "routed"
    BY <1>4 DEF Tick, SetBack, Restart, Publish, ReadClock, NoReply
<1>5. ASSUME NEW t \in Threads,
             ServeRegister(t) \/ ServeUnknown(t) \/ ServeHeartbeat(t)
      PROVE  reply'.kind # "routed"
    BY <1>5 DEF ServeRegister, ServeUnknown, ServeHeartbeat, PutNode,
                HeartbeatUnknown, PostHeartbeat
<1> QED BY <1>1, <1>2, <1>3, <1>i, <1>4, <1>5
        DEF EdamameNext, Serve, TimePasses, TimeIsSetBack, Ingest, CoreRestart,
            Arrive, RequestLost, SendRegister, SendHeartbeat, Send, FetchNext,
            FetchFails, GiveUp, Prewarm, NodeRestart, edamameVars

\* What is required is never further than the window behind what is committed,
\* so only something that is not committed outruns it.
LEMMA RequiredNotOutrun ==
    ASSUME EIInv, WindowSize <= Retention + 1, NEW id \in required,
           NEW n \in NodeIds, Outrun(n, id)
    PROVE  AheadOfCore(n)
<1>1. id \in SegmentIds /\ id[2] \in Present(committed[id[1]])
    BY RequiredIsCommitted DEF EIInv, IInv, TypeOK, required, Required
<1>2. /\ committed[id[1]] \in SUBSET Nat
      /\ HasMax(committed[id[1]])
    BY <1>1, CacheNodesAssumption
       DEF EIInv, IInv, TypeOK, CommittedHasMax, SegmentIds, Present
<1> DEFINE edge == LiveEdge(committed[id[1]])
<1>3. edge \in Nat /\ \A s \in committed[id[1]] : s <= edge /\ s \in Nat
    BY <1>2, EdgeIsPresent
<1>4. id[2] \in LiveRange(edge)
    BY <1>1 DEF Present
<1> HIDE DEF edge
<1>5. edge - id[2] <= Retention
    BY <1>3, <1>4, WindowAssumption, RetentionAssumption
       DEF LiveRange, LiveStart, SatSub
<1>6. id[2] \in Nat
    BY <1>1, <1>2 DEF Present
<1>7. PICK newer \in cache[n] : newer[1] = id[1] /\ newer[2] - id[2] > Retention
    BY DEF Outrun
<1>8. newer[2] \in Nat
  <2>1. cache[n] \subseteq SegmentIds
      BY DEF EIInv, EdamameTypeOK
  <2> QED BY <2>1, CacheNodesAssumption DEF SegmentIds
<1>9. \A s \in committed[newer[1]] : s < newer[2]
    BY <1>3, <1>5, <1>6, <1>7, <1>8, RetentionAssumption
<1> QED BY <1>9 DEF AheadOfCore

\* FR-031 for every instance: what FreshRoutedCanServe states.
THEOREM FreshRoutedCanServeHolds == EdamameSpec => []FreshRoutedCanServe
<1>1. ASSUME EIInv, FreshIsRequired, RoutingFollowsReports
      PROVE  FreshRoutedCanServe
  <2> DEFINE n == reply.node
  <2> SUFFICES ASSUME reply.kind = "routed", Regenerable(Channel),
                      ~(lives[n] > 0), ~AheadOfCore(n),
                      ~(WindowSize > Retention + 1),
                      NEW id \in snapshot
               PROVE  id \in cache[n]
      BY DEF FreshRoutedCanServe
  <2>1. snapshot = required
      BY <1>1 DEF FreshIsRequired
  <2>2. n \in DOMAIN nodes /\ required \subseteq nodes[n].retained
      BY <1>1 DEF RoutingFollowsReports, Qualifies, HasAll
  <2>3. n \in NodeIds
      BY <1>1, <2>2 DEF EIInv, IInv, TypeOK, IsRegistry
  <2>4. lives[n] = 0
      BY <1>1, <2>3 DEF EIInv, EdamameTypeOK
  <2>5. StillHeld(n, nodes[n].retained)
      BY <1>1, <2>2, <2>4 DEF EIInv, ReportsHold
  <2>6. ~Outrun(n, id)
      BY <1>1, <2>1, <2>3, RequiredNotOutrun, WindowAssumption,
         RetentionAssumption
  <2> QED BY <2>1, <2>2, <2>5, <2>6 DEF StillHeld
<1>2. EdamameInit => FreshIsRequired
    BY DEF EdamameInit, Init, NoReply, FreshIsRequired
<1>3. EdamameSpec => Spec
    BY RegistryImplemented DEF ImplementsRegistry
<1> QED BY <1>1, <1>2, <1>3, NextFreshIsRequired, EdamameInvariant,
           RoutingCorrect, PTL DEF EdamameSpec

-----------------------------------------------------------------------------
(* Nothing required is given up, and caches are sets such as NodeCache's. *)

\* What is evicted is too far behind something held, and nothing required is,
\* for every window that the retention covers, unless that is not committed.
THEOREM KeepsRequiredHolds == EdamameSpec => KeepsRequired
<1> DEFINE Step == lives' = lives /\ WindowSize <= Retention + 1 =>
                      \A n \in NodeIds : \A id \in cache[n] \ cache'[n] :
                          id \in required' => AheadOfCore(n)'
           OnlyByTheUncommitted ==
              WindowSize <= Retention + 1 =>
                  \A n \in NodeIds : \A id \in required :
                      Outrun(n, id) => AheadOfCore(n)
<1>0. EIInv => OnlyByTheUncommitted
    BY RequiredNotOutrun
<1>1. EIInv /\ OnlyByTheUncommitted' /\ [EdamameNext]_edamameVars => Step
  <2> SUFFICES ASSUME EIInv, OnlyByTheUncommitted', [EdamameNext]_edamameVars,
                      lives' = lives, WindowSize <= Retention + 1,
                      NEW n \in NodeIds, NEW id \in cache[n] \ cache'[n],
                      id \in required'
               PROVE  AheadOfCore(n)'
      OBVIOUS
  <2>1. EdamameTypeOK /\ CachesHaveNewest
      BY DEF EIInv
  <2>2. ~NodeRestart(n)
      BY <2>1 DEF NodeRestart, EdamameTypeOK
  <2>3. PICK got \in SegmentIds : cache'[n] = Keeping(cache[n], got)
      BY <2>1, <2>2, CacheSteps
  <2>4. \E newer \in cache'[n] :
           newer[1] = id[1] /\ newer[2] - id[2] > Retention
      BY <2>1, <2>3, StoreFacts
  <2>5. Outrun(n, id)'
      BY <2>4 DEF Outrun
  <2> QED BY <2>5
<1> QED BY <1>0, <1>1, EdamameInvariant, PTL DEF EdamameSpec, KeepsRequired

\* One node at a time stores one segment, or loses all.
LEMMA CachesStep ==
    ASSUME [EdamameNext]_edamameVars
    PROVE  \/ cache' = cache
           \/ \E n \in NodeIds : cache' = [cache EXCEPT ![n] = {}]
           \/ \E n \in NodeIds : \E id \in plan[n] \cup SegmentIds :
                 cache' = [cache EXCEPT ![n] = Keeping(cache[n], id)]
<1>1. ASSUME NEW n \in NodeIds, FetchNext(n)
      PROVE  \E id \in plan[n] :
                cache' = [cache EXCEPT ![n] = Keeping(cache[n], id)]
    BY <1>1 DEF FetchNext
<1>2. ASSUME NEW n \in NodeIds, NEW id \in SegmentIds, Prewarm(n, id)
      PROVE  cache' = [cache EXCEPT ![n] = Keeping(cache[n], id)]
    BY <1>2 DEF Prewarm
<1>3. ASSUME NEW n \in NodeIds, NodeRestart(n)
      PROVE  cache' = [cache EXCEPT ![n] = {}]
    BY <1>3 DEF NodeRestart
<1>4. ASSUME NEW t \in Threads, Serve(t)
      PROVE  cache' = cache
    BY <1>4 DEF Serve, ServeRegister, ServeUnknown, ServeHeartbeat,
                ServePlaylist, Answered, nodeVars
<1>5. CASE UNCHANGED cache
    BY <1>5
<1> QED BY <1>1, <1>2, <1>3, <1>4, <1>5
        DEF EdamameNext, CoreRestart, TimePasses, TimeIsSetBack, Ingest,
            IngestFails, RequestLost, Arrive, SendRegister, SendHeartbeat, Send,
            FetchFails, GiveUp, nodeVars, edamameVars

\* The caches of the running system implement the sets of ids that NodeCache
\* implements with files and tasks: the two models of a node meet there.
THEOREM HeldSetsImplemented == EdamameSpec => ImplementsHeldSets
<1>1. EdamameInit => Caches!HeldInit
    BY DEF EdamameInit, Caches!HeldInit
<1>2. EIInv /\ [EdamameNext]_edamameVars => [Caches!HeldNext]_cache
  <2> SUFFICES ASSUME EIInv, [EdamameNext]_edamameVars
               PROVE  Caches!HeldNext \/ cache' = cache
      OBVIOUS
  <2>1. ASSUME NEW n \in NodeIds, cache' = [cache EXCEPT ![n] = {}]
        PROVE  Caches!HeldNext
      BY <2>1 DEF Caches!HeldNext, Caches!Lose
  <2>2. ASSUME NEW n \in NodeIds, NEW id \in plan[n] \cup SegmentIds,
               cache' = [cache EXCEPT ![n] = Keeping(cache[n], id)]
        PROVE  Caches!HeldNext
    <3>1. id \in SegmentIds
        BY DEF EIInv, EdamameTypeOK
    <3>2. /\ Sequences \in SUBSET Nat
          /\ cache[n] \in SUBSET (Streams \X Sequences)
          /\ id \in Streams \X Sequences
          /\ HaveNewest(cache[n])
        BY <3>1, CacheNodesAssumption
           DEF EIInv, CachesHaveNewest, EdamameTypeOK, SegmentIds
    <3>3. Keeping(cache[n], id) =
             {old \in cache[n] \cup {id} :
                 ~\E newer \in cache[n] \cup {id} :
                     newer[1] = old[1] /\ newer[2] - old[2] > Retention}
        BY <3>2, KeepingDeclared
    <3>4. Keeping(cache[n], id) = Caches!Kept(cache[n] \cup {id})
        BY <3>3, Zenon DEF Caches!Kept, Caches!TooFarBehind
    <3>5. Caches!Keep(n, id)
        BY <2>2, <3>4 DEF Caches!Keep
    <3> QED BY <3>1, <3>5 DEF Caches!HeldNext
  <2> QED BY <2>1, <2>2, CachesStep
<1> QED BY <1>1, <1>2, EdamameInvariant, PTL
        DEF EdamameSpec, ImplementsHeldSets, Caches!HeldSpec

-----------------------------------------------------------------------------
(* What is proved of the registry holds of the running system. *)

\* The routing, prewarming, death and life cycle of nodes are as the registry's
\* theorems say, with the reports that nodes really send, late or lost.
THEOREM RegistryTheoremsHold ==
    EdamameSpec => /\ []RoutingFollowsReports
                   /\ []RoutedOnFreshReport
                   /\ []PrewarmSuffices
                   /\ DeadOnlyAfterSilence
                   /\ RoutedInTime
                   /\ ImplementsLifecycle
<1>1. EdamameSpec => Spec
    BY RegistryImplemented DEF ImplementsRegistry
<1> QED BY <1>1, RoutingCorrect, RoutedOnFreshReportHolds, PrewarmSufficesHolds,
           DeadOnlyAfterSilenceHolds, RoutedInTimeHolds, LifecycleImplemented,
           PTL
=============================================================================
