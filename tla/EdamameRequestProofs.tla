------------------------- MODULE EdamameRequestProofs -------------------------
(***************************************************************************)
(* Theorems about the requests of the running system, for any number of    *)
(* nodes, handlers, restarts, lost messages and abandoned requests: a node *)
(* has one request of its connection under way exactly while it waits, so  *)
(* while it has given up on none its heartbeats are served in the order it *)
(* sent them and only its silence kills it; a node the core has forgotten  *)
(* is lost for good; and no report names more than a cache can hold.       *)
(***************************************************************************)
EXTENDS EdamameProofs

\* No request is from a connection that its node has not come to use.
PastConnections ==
    /\ \A q \in requests : q.connection <= connection[q.node]
    /\ \A t \in Threads :
          handling[t] \in Requests =>
              handling[t].connection <= connection[handling[t].node]

\* A handler holds a stamp exactly while it has something to answer.
StampedWhileHandling ==
    \A t \in Threads : stamps[t] = NoStamp <=> handling[t] = Free

\* OneRequestUnderWay needs to know that nothing is under way yet on the
\* connection a node goes on with, and that a handler takes a request only when
\* it is free.
FlowInv ==
    /\ EdamameTypeOK /\ PastConnections
    /\ StampedWhileHandling /\ OneRequestUnderWay

-----------------------------------------------------------------------------
(* What a step does to the requests *)

LEMMA NotAwaited == ~Awaited(Playlist) /\ ~Awaited(Free)
BY DEF Awaited, Playlist, Free

LEMMA RequestKinds ==
    ASSUME NEW q \in Requests
    PROVE  q # Playlist /\ q # Free
BY RequestParts DEF Playlist, Free

LEMMA AwaitedInHand ==
    ASSUME EdamameTypeOK, NEW t \in Threads, Awaited(handling[t])
    PROVE  handling[t] \in Requests
BY NotAwaited DEF EdamameTypeOK

\* A node that does not wait has nothing under way.
LEMMA NotWaiting ==
    ASSUME OneRequestUnderWay, NEW n \in NodeIds, at[n] # "waiting"
    PROVE  Sent(n) = {} /\ InHand(n) = {}
BY DEF OneRequestUnderWay

\* A step that leaves the requests of a node as they are keeps the invariant of
\* that node when it also leaves alone whether the node waits.
OneOf(n) ==
    /\ at[n] = "waiting" <=> Sent(n) # {} \/ InHand(n) # {}
    /\ Sent(n) = {} \/ InHand(n) = {}
    /\ \A p, q \in Sent(n) : p = q
    /\ \A t, u \in InHand(n) : t = u

LEMMA OneOfEach == OneRequestUnderWay <=> \A n \in NodeIds : OneOf(n)
BY DEF OneRequestUnderWay, OneOf

LEMMA OneOfStays ==
    ASSUME NEW n \in NodeIds, OneOf(n),
           Sent(n)' = Sent(n), InHand(n)' = InHand(n),
           at'[n] = "waiting" <=> at[n] = "waiting"
    PROVE  OneOf(n)'
BY DEF OneOf

LEMMA OneOfDone ==
    ASSUME NEW n \in NodeIds, Sent(n)' = {}, InHand(n)' = {}, at'[n] # "waiting"
    PROVE  OneOf(n)'
BY DEF OneOf

\* Requests untouched, and every connection the same.
LEMMA SameRequests ==
    ASSUME requests' = requests, handling' = handling,
           connection' = connection
    PROVE  \A n \in NodeIds : Sent(n)' = Sent(n) /\ InHand(n)' = InHand(n)
BY DEF Sent, InHand, Awaited

-----------------------------------------------------------------------------
(* Connections and stamps *)

LEMMA ConnectionsGrow ==
    ASSUME EdamameTypeOK, [EdamameNext]_edamameVars
    PROVE  \A n \in NodeIds : connection[n] <= connection'[n]
<1>0. connection \in [NodeIds -> Nat]
    BY DEF EdamameTypeOK
<1>1. ASSUME NEW m \in NodeIds, NodeRestart(m) \/ GiveUp(m)
      PROVE  connection' = [connection EXCEPT ![m] = connection[m] + 1]
    BY <1>1 DEF NodeRestart, GiveUp
<1>2. ASSUME NEW t \in Threads, Serve(t)
      PROVE  UNCHANGED connection
    BY <1>2 DEF Serve, ServeRegister, ServeUnknown, ServeHeartbeat,
                ServePlaylist, Answered, nodeVars
<1>3. \/ UNCHANGED connection
      \/ \E m \in NodeIds :
            connection' = [connection EXCEPT ![m] = connection[m] + 1]
    BY <1>1, <1>2
       DEF EdamameNext, CoreRestart, TimePasses, TimeIsSetBack, Ingest,
           IngestFails, RequestLost, Arrive, SendRegister, SendHeartbeat, Send,
           FetchNext, FetchFails, Prewarm, nodeVars, edamameVars
<1> QED BY <1>0, <1>3

LEMMA NextPastConnections ==
    ASSUME EdamameTypeOK, PastConnections, [EdamameNext]_edamameVars
    PROVE  PastConnections'
<1>0. /\ requests \subseteq Requests
      /\ handling \in [Threads -> Requests \cup {Playlist, Free}]
      /\ \A n \in NodeIds : connection[n] \in Nat
      /\ \A n \in NodeIds : connection'[n] \in Nat
  <2>1. EdamameTypeOK'
      BY EdamameNextTypeOK
  <2> QED BY <2>1 DEF EdamameTypeOK
<1>1. ASSUME NEW n \in NodeIds, SendRegister(n) \/ SendHeartbeat(n)
      PROVE  /\ \A q \in requests' :
                   q \in requests \/ (q.node = n /\ q.connection = connection[n])
             /\ handling' = handling /\ connection' = connection
    BY <1>1 DEF SendRegister, SendHeartbeat, Send
<1>2. ASSUME NEW t \in Threads, NEW q \in requests \cup {Playlist}, Arrive(t, q)
      PROVE  requests' \subseteq requests /\ handling' = [handling EXCEPT ![t] = q]
    BY <1>2 DEF Arrive
<1>3. ASSUME NEW t \in Threads, Serve(t)
      PROVE  requests' = requests /\ handling' = [handling EXCEPT ![t] = Free]
    BY <1>3 DEF Serve, ServeRegister, ServeUnknown, ServeHeartbeat,
                ServePlaylist, Answered
<1>4. CoreRestart => requests' = requests /\ handling' = [t \in Threads |-> Free]
    BY DEF CoreRestart
<1>5. /\ \A q \in requests' :
            \/ q \in requests
            \/ \E n \in NodeIds : /\ q.node = n /\ q.connection = connection[n]
                                  /\ connection' = connection
      /\ \A t \in Threads :
            \/ handling'[t] = handling[t]
            \/ handling'[t] \in requests \cup {Playlist, Free}
    BY <1>0, <1>1, <1>2, <1>3, <1>4
       DEF EdamameNext, CoreRestart, TimePasses, TimeIsSetBack, Ingest,
           IngestFails, RequestLost, FetchNext, FetchFails, GiveUp, Prewarm,
           NodeRestart, netVars, edamameVars
<1>6. ASSUME NEW q \in Requests, q.connection <= connection[q.node]
      PROVE  q.connection <= connection'[q.node]
  <2>1. q.node \in NodeIds /\ q.connection \in Nat
      BY RequestParts
  <2>2. connection[q.node] <= connection'[q.node]
      BY <2>1, ConnectionsGrow
  <2> QED BY <1>0, <1>6, <2>1, <2>2
<1>7. ASSUME NEW q \in requests'
      PROVE  q.connection <= connection'[q.node]
  <2>1. CASE q \in requests
      BY <1>0, <1>6, <2>1 DEF PastConnections
  <2>2. ASSUME NEW n \in NodeIds, q.node = n, q.connection = connection[n],
               connection' = connection
        PROVE  q.connection <= connection'[q.node]
      BY <1>0, <2>2
  <2> QED BY <1>5, <2>1, <2>2
<1>8. ASSUME NEW t \in Threads, handling'[t] \in Requests
      PROVE  handling'[t].connection <= connection'[handling'[t].node]
  <2>1. handling'[t] \in requests \/ handling'[t] = handling[t]
      BY <1>5, <1>8, RequestKinds
  <2> QED BY <1>0, <1>6, <1>8, <2>1 DEF PastConnections
<1> QED BY <1>7, <1>8 DEF PastConnections

LEMMA NextStampedWhileHandling ==
    ASSUME EdamameTypeOK, StampedWhileHandling, [EdamameNext]_edamameVars
    PROVE  StampedWhileHandling'
<1>0. /\ handling \in [Threads -> Requests \cup {Playlist, Free}]
      /\ requests \subseteq Requests
      /\ stamps \in [Threads -> Times \cup {NoStamp}]
      /\ clock \in Times /\ clock # NoStamp
    BY RegistryAssumption DEF EdamameTypeOK, TypeOK, Times, NoStamp
<1>1. ASSUME NEW t \in Threads, NEW q \in requests \cup {Playlist}, Arrive(t, q)
      PROVE  StampedWhileHandling'
  <2>1. q # Free
      BY <1>0, RequestKinds DEF Playlist, Free
  <2>2. /\ handling' = [handling EXCEPT ![t] = q]
        /\ stamps' = [stamps EXCEPT ![t] = clock]
      BY <1>1 DEF Arrive, ReadClock
  <2> QED BY <1>0, <2>1, <2>2 DEF StampedWhileHandling
<1>2. ASSUME NEW t \in Threads, Serve(t)
      PROVE  StampedWhileHandling'
  <2>1. handling' = [handling EXCEPT ![t] = Free]
      BY <1>2 DEF Serve, ServeRegister, ServeUnknown, ServeHeartbeat,
                  ServePlaylist, Answered
  <2>2. stamps' = [stamps EXCEPT ![t] = NoStamp]
      BY <1>2 DEF Serve, ServeRegister, ServeUnknown, ServeHeartbeat,
                  ServePlaylist, PutNode, HeartbeatUnknown, PostHeartbeat,
                  GetPlaylist, Serves
  <2> QED BY <1>0, <2>1, <2>2 DEF StampedWhileHandling
<1>3. CASE CoreRestart
    BY <1>3 DEF CoreRestart, Restart, StampedWhileHandling
<1>4. CASE UNCHANGED <<handling, stamps>>
    BY <1>4 DEF StampedWhileHandling
<1> QED BY <1>1, <1>2, <1>3, <1>4
        DEF EdamameNext, TimePasses, Tick, TimeIsSetBack, SetBack, Ingest,
            Publish, IngestFails, RequestLost, SendRegister, SendHeartbeat, Send,
            FetchNext, FetchFails, GiveUp, Prewarm, NodeRestart, netVars, vars,
            edamameVars

-----------------------------------------------------------------------------
(* One request under way *)

\* A node that does not wait sends a request, and waits for that one.
LEMMA SendFlow ==
    ASSUME FlowInv, NEW m \in NodeIds, at[m] # "waiting",
           NEW kind \in {"register", "heartbeat"}, NEW report \in SUBSET SegmentIds,
           Send(m, kind, report), NEW n \in NodeIds
    PROVE  OneOf(n)'
<1> DEFINE q == [kind |-> kind, node |-> m, connection |-> connection[m],
                report |-> report]
<1>1. /\ requests' = requests \cup {q}
      /\ at' = [at EXCEPT ![m] = "waiting"]
      /\ handling' = handling /\ connection' = connection
    BY DEF Send
<1>2. at \in [NodeIds -> {"starting", "waiting", "ticking", "fetching"}]
    BY DEF FlowInv, EdamameTypeOK
<1>3. InHand(n)' = InHand(n)
    BY <1>1 DEF InHand, Awaited
<1>4. CASE n = m
  <2>1. Sent(n) = {} /\ InHand(n) = {}
      BY <1>4, NotWaiting DEF FlowInv
  <2>2. Sent(n)' = {q}
      BY <1>1, <1>4, <2>1 DEF Sent, Awaited
  <2> QED BY <1>1, <1>2, <1>3, <1>4, <2>1, <2>2 DEF OneOf
<1>5. CASE n # m
  <2>1. Sent(n)' = Sent(n)
      BY <1>1, <1>5 DEF Sent, Awaited
  <2>2. at'[n] = at[n]
      BY <1>1, <1>2, <1>5
  <2> QED BY <1>3, <2>1, <2>2, OneOfStays, OneOfEach DEF FlowInv
<1> QED BY <1>4, <1>5

\* A handler that is free takes a request: what was sent is in hand.
LEMMA ArriveFlow ==
    ASSUME FlowInv, NEW t \in Threads, NEW q \in requests \cup {Playlist},
           Arrive(t, q), NEW n \in NodeIds
    PROVE  OneOf(n)'
<1>1. /\ requests' = requests \ {q}
      /\ handling' = [handling EXCEPT ![t] = q]
      /\ at' = at /\ connection' = connection
      /\ stamps[t] = NoStamp
    BY DEF Arrive, ReadClock, nodeVars
<1>2. /\ handling \in [Threads -> Requests \cup {Playlist, Free}]
      /\ requests \subseteq Requests
      /\ OneOf(n)
    BY OneOfEach DEF FlowInv, EdamameTypeOK
<1>3. handling[t] = Free
    BY <1>1 DEF FlowInv, StampedWhileHandling
<1>4. t \notin InHand(n)
    BY <1>3, NotAwaited DEF InHand
<1>5. CASE Awaited(q) /\ q.node = n
  <2>1. q \in Sent(n)
      BY <1>5, NotAwaited DEF Sent
  <2>2. InHand(n) = {} /\ Sent(n) = {q} /\ at[n] = "waiting"
      BY <1>2, <2>1 DEF OneOf
  <2>3. Sent(n)' = {}
      BY <1>1, <2>2 DEF Sent, Awaited
  <2>4. InHand(n)' = {t}
      BY <1>1, <1>2, <1>5, <2>2 DEF InHand, Awaited
  <2> QED BY <1>1, <2>2, <2>3, <2>4 DEF OneOf
<1>6. CASE ~(Awaited(q) /\ q.node = n)
  <2>1. Sent(n)' = Sent(n)
      BY <1>1, <1>6 DEF Sent, Awaited
  <2>2. InHand(n)' = InHand(n)
      BY <1>1, <1>2, <1>4, <1>6 DEF InHand, Awaited
  <2> QED BY <1>1, <1>2, <2>1, <2>2, OneOfStays
<1> QED BY <1>5, <1>6

\* A node proceeds: it does not wait any more, and no other node notices.
LEMMA ProceedsAt ==
    ASSUME EdamameTypeOK, NEW m \in NodeIds, NEW items, Proceeds(m, items)
    PROVE  /\ at'[m] # "waiting"
           /\ \A n \in NodeIds \ {m} : at'[n] = at[n]
BY DEF EdamameTypeOK, Proceeds

\* A request of a node is answered, or its answer is lost: whoever waited for it
\* does not wait any more.
LEMMA AnsweredFlow ==
    ASSUME FlowInv, NEW t \in Threads, handling[t] \in Requests,
           NEW items, Answered(t, items), NEW n \in NodeIds
    PROVE  OneOf(n)'
<1> DEFINE q == handling[t]
<1>1. /\ handling' = [handling EXCEPT ![t] = Free]
      /\ requests' = requests /\ connection' = connection
      /\ \/ Awaited(q) /\ \E some : Proceeds(q.node, some)
         \/ ~Awaited(q) /\ at' = at
    BY DEF Answered
<1>2. /\ handling \in [Threads -> Requests \cup {Playlist, Free}]
      /\ OneOf(n) /\ EdamameTypeOK /\ q.node \in NodeIds
    BY OneOfEach, RequestParts DEF FlowInv, EdamameTypeOK
<1>3. Sent(n)' = Sent(n)
    BY <1>1 DEF Sent, Awaited
<1>4. CASE Awaited(q) /\ q.node = n
  <2>1. t \in InHand(n)
      BY <1>4 DEF InHand
  <2>2. InHand(n) = {t} /\ Sent(n) = {}
      BY <1>2, <2>1 DEF OneOf
  <2>3. \A u \in Threads : u \in InHand(n)' <=> u \in InHand(n) /\ u # t
      BY <1>1, <1>2, NotAwaited DEF InHand, Awaited
  <2>4. InHand(n)' = {}
      BY <2>2, <2>3 DEF InHand
  <2>5. at'[n] # "waiting"
      BY <1>1, <1>2, <1>4, ProceedsAt
  <2> QED BY <1>3, <2>2, <2>4, <2>5, OneOfDone
<1>5. CASE ~(Awaited(q) /\ q.node = n)
  <2>1. t \notin InHand(n)
      BY <1>5 DEF InHand
  <2>2. \A u \in Threads : u \in InHand(n)' <=> u \in InHand(n)
      BY <1>1, <1>2, <2>1, NotAwaited DEF InHand, Awaited
  <2>3. InHand(n)' = InHand(n)
      BY <2>2 DEF InHand
  <2>4. at'[n] = at[n]
      BY <1>1, <1>2, <1>5, ProceedsAt
  <2> QED BY <1>2, <1>3, <2>3, <2>4, OneOfStays
<1> QED BY <1>4, <1>5

LEMMA LostFlow ==
    ASSUME FlowInv, NEW q \in requests, RequestLost(q), NEW n \in NodeIds
    PROVE  OneOf(n)'
<1>1. /\ requests' = requests \ {q}
      /\ handling' = handling /\ connection' = connection
      /\ \/ Awaited(q) /\ Proceeds(q.node, {})
         \/ ~Awaited(q) /\ at' = at
    BY DEF RequestLost
<1>2. OneOf(n) /\ EdamameTypeOK /\ q.node \in NodeIds
    BY OneOfEach, RequestParts DEF FlowInv, EdamameTypeOK
<1>3. InHand(n)' = InHand(n)
    BY <1>1 DEF InHand, Awaited
<1>4. CASE Awaited(q) /\ q.node = n
  <2>1. q \in Sent(n)
      BY <1>4 DEF Sent
  <2>2. InHand(n) = {} /\ Sent(n) = {q}
      BY <1>2, <2>1 DEF OneOf
  <2>3. Sent(n)' = {}
      BY <1>1, <2>2 DEF Sent, Awaited
  <2>4. at'[n] # "waiting"
      BY <1>1, <1>2, <1>4, ProceedsAt
  <2> QED BY <1>3, <2>2, <2>3, <2>4, OneOfDone
<1>5. CASE ~(Awaited(q) /\ q.node = n)
  <2>1. Sent(n)' = Sent(n)
      BY <1>1, <1>5 DEF Sent, Awaited
  <2>2. at'[n] = at[n]
      BY <1>1, <1>2, <1>5, ProceedsAt
  <2> QED BY <1>2, <1>3, <2>1, <2>2, OneOfStays
<1> QED BY <1>4, <1>5

\* The restart of the core drops what is in hand, and those who waited for it
\* notice; a request that is still under way is served by the new process.
LEMMA CoreRestartFlow ==
    ASSUME FlowInv, CoreRestart, NEW n \in NodeIds
    PROVE  OneOf(n)'
<1>1. /\ requests' = requests /\ connection' = connection
      /\ handling' = [t \in Threads |-> Free]
      /\ at'[n] = IF InHand(n) # {} THEN "ticking" ELSE at[n]
    BY DEF CoreRestart, InHand
<1>2. OneOf(n)
    BY OneOfEach DEF FlowInv
<1>3. Sent(n)' = Sent(n)
    BY <1>1 DEF Sent, Awaited
<1>4. InHand(n)' = {}
    BY <1>1 DEF InHand, Awaited, Free
<1> QED BY <1>1, <1>2, <1>3, <1>4 DEF OneOf

\* The node that starts again, or gives up, waits for nothing that it has sent.
LEMMA AbandonedFlow ==
    ASSUME FlowInv, NEW m \in NodeIds, NodeRestart(m) \/ GiveUp(m),
           NEW n \in NodeIds
    PROVE  OneOf(n)'
<1>0. /\ at \in [NodeIds -> {"starting", "waiting", "ticking", "fetching"}]
      /\ connection \in [NodeIds -> Nat]
      /\ requests \subseteq Requests
      /\ EdamameTypeOK /\ OneOf(n)
    BY OneOfEach DEF FlowInv, EdamameTypeOK
<1>1. /\ requests' = requests /\ handling' = handling
      /\ connection' = [connection EXCEPT ![m] = connection[m] + 1]
    BY DEF NodeRestart, GiveUp, netVars
<1>2. at'[m] # "waiting" /\ \A p \in NodeIds \ {m} : at'[p] = at[p]
    BY <1>0, ProceedsAt DEF NodeRestart, GiveUp
<1>3. CASE n = m
  <2>1. ASSUME NEW q \in Requests, q.node = m, q.connection <= connection[m]
        PROVE  q.connection # connection'[q.node]
    <3>1. q.connection \in Nat
        BY RequestParts
    <3> QED BY <1>0, <1>1, <2>1, <3>1
  <2>2. \A q \in requests : q.node = m => ~Awaited(q)'
      BY <1>0, <2>1 DEF FlowInv, PastConnections, Awaited
  <2>3. Sent(n)' = {}
      BY <1>1, <1>3, <2>2 DEF Sent
  <2>4. ASSUME NEW t \in Threads, handling[t] \in Requests, handling[t].node = m
        PROVE  handling[t].connection # connection'[handling[t].node]
      BY <2>1, <2>4 DEF FlowInv, PastConnections
  <2>5. ASSUME NEW t \in Threads, handling[t] \notin Requests
        PROVE  handling[t].kind \notin {"register", "heartbeat"}
      BY <1>0, <2>5, HandledRequest
  <2>6. InHand(n)' = {}
      BY <1>1, <1>3, <2>4, <2>5 DEF InHand, Awaited
  <2> QED BY <1>2, <1>3, <2>3, <2>6, OneOfDone
<1>4. CASE n # m
  <2>1. Sent(n)' = Sent(n)
      BY <1>0, <1>1, <1>4 DEF Sent, Awaited
  <2>2. InHand(n)' = InHand(n)
      BY <1>0, <1>1, <1>4 DEF InHand, Awaited
  <2> QED BY <1>0, <1>2, <1>4, <2>1, <2>2, OneOfStays
<1> QED BY <1>3, <1>4

LEMMA NextOneRequestUnderWay ==
    ASSUME FlowInv, [EdamameNext]_edamameVars
    PROVE  OneRequestUnderWay'
<1> SUFFICES ASSUME NEW n \in NodeIds
             PROVE  OneOf(n)'
    BY DEF OneRequestUnderWay, OneOf
<1>0. EdamameTypeOK /\ OneOf(n)
    BY OneOfEach DEF FlowInv
\* The requests stay where they are, and so does who waits.
<1>q. ASSUME requests' = requests, handling' = handling,
             connection' = connection,
             at'[n] = "waiting" <=> at[n] = "waiting"
      PROVE  OneOf(n)'
    BY <1>0, <1>q, SameRequests, OneOfStays
<1>1. ASSUME NEW t \in Threads,
             ServeRegister(t) \/ ServeUnknown(t) \/ ServeHeartbeat(t)
      PROVE  OneOf(n)'
    BY <1>0, <1>1, ServeAnswers, AnsweredFlow
<1>2. ASSUME NEW t \in Threads, ServePlaylist(t)
      PROVE  OneOf(n)'
  <2>1. /\ handling[t] = Playlist
        /\ handling' = [handling EXCEPT ![t] = Free]
        /\ requests' = requests /\ at' = at /\ connection' = connection
      BY <1>2 DEF ServePlaylist, nodeVars
  <2>2. handling \in [Threads -> Requests \cup {Playlist, Free}]
      BY <1>0 DEF EdamameTypeOK
  <2>3. Sent(n)' = Sent(n)
      BY <2>1 DEF Sent, Awaited
  <2>4. \A u \in Threads : u \in InHand(n)' <=> u \in InHand(n)
      BY <2>1, <2>2, NotAwaited DEF InHand, Awaited
  <2>5. InHand(n)' = InHand(n)
      BY <2>4 DEF InHand
  <2> QED BY <1>0, <2>1, <2>3, <2>5, OneOfStays
<1>3. ASSUME NEW m \in NodeIds, SendRegister(m) \/ SendHeartbeat(m)
      PROVE  OneOf(n)'
  <2>1. PICK kind \in {"register", "heartbeat"}, report \in SUBSET SegmentIds :
           Send(m, kind, report)
      BY <1>0, <1>3 DEF SendRegister, SendHeartbeat, EdamameTypeOK
  <2>2. at[m] # "waiting"
      BY <1>3 DEF SendRegister, SendHeartbeat
  <2> QED BY <2>1, <2>2, SendFlow
<1>4. ASSUME NEW m \in NodeIds, FetchNext(m) \/ FetchFails(m)
      PROVE  OneOf(n)'
  <2>1. /\ requests' = requests /\ handling' = handling
        /\ connection' = connection
        /\ at[m] = "fetching"
        /\ \E items : Proceeds(m, items)
      BY <1>4 DEF FetchNext, FetchFails, netVars
  <2>2. at'[n] = "waiting" <=> at[n] = "waiting"
      BY <1>0, <2>1, ProceedsAt
  <2> QED BY <1>q, <2>1, <2>2
<1>5. CASE UNCHANGED <<requests, handling, connection, at>>
    BY <1>5, <1>q
<1> QED BY <1>1, <1>2, <1>3, <1>4, <1>5,
           ArriveFlow, LostFlow, CoreRestartFlow, AbandonedFlow
        DEF EdamameNext, Serve, TimePasses, TimeIsSetBack, Ingest, IngestFails,
            Prewarm, netVars, nodeVars, edamameVars

LEMMA InitFlowInv == EdamameInit => FlowInv
<1> SUFFICES ASSUME EdamameInit
             PROVE  FlowInv
    OBVIOUS
<1>1. EdamameTypeOK
    BY EdamameInitTypeOK
<1>2. PastConnections
    BY RequestKinds DEF EdamameInit, PastConnections
<1>3. StampedWhileHandling
    BY DEF EdamameInit, Init, StampedWhileHandling
<1>4. OneRequestUnderWay
    BY DEF EdamameInit, OneRequestUnderWay, Sent, InHand, Awaited, Free
<1> QED BY <1>1, <1>2, <1>3, <1>4 DEF FlowInv

LEMMA NextFlowInv == FlowInv /\ [EdamameNext]_edamameVars => FlowInv'
BY EdamameNextTypeOK, NextPastConnections, NextStampedWhileHandling,
   NextOneRequestUnderWay DEF FlowInv

\* The inductive invariant of the requests, for every instance.
THEOREM FlowInvariant == EdamameSpec => []FlowInv
BY InitFlowInv, NextFlowInv, PTL DEF EdamameSpec

\* A node waits exactly while one request of its present connection is under
\* way, and never has two of it, with any handlers, losses and restarts, and
\* with connections that break at any moment.
THEOREM OneRequestUnderWayHolds == EdamameSpec => []OneRequestUnderWay
<1>1. FlowInv => OneRequestUnderWay
    BY DEF FlowInv
<1> QED BY <1>1, FlowInvariant, PTL

-----------------------------------------------------------------------------
(* Only silent nodes die. *)

\* With a clock that was never set back, a node on its first connection is heard
\* in the order it spoke: its record has the latest stamp, and what it has in
\* hand is not older.
InOrder ==
    setBacks = 0 => \A n \in NodeIds : connection[n] = 0 =>
        /\ n \in DOMAIN nodes => nodes[n].last_heartbeat_ms = heard[n]
        /\ \A t \in InHand(n) : heard[n] <= stamps[t]
        /\ heard[n] <= clock

OrderInv == FlowInv /\ IInv /\ InOrder

\* A registration or a heartbeat stamps the record of its own node, and counts
\* as heard of that node.
LEMMA ServedStamps ==
    ASSUME EdamameTypeOK, IInv, NEW t \in Threads,
           ServeRegister(t) \/ ServeHeartbeat(t)
    PROVE  /\ handling[t] \in Requests
           /\ stamps[t] \in Nat /\ (setBacks = 0 => stamps[t] <= clock)
           /\ heard' = [heard EXCEPT ![handling[t].node] =
                           Later(heard[handling[t].node], stamps[t])]
           /\ handling[t].node \in DOMAIN nodes'
                 => nodes'[handling[t].node].last_heartbeat_ms = stamps[t]
           /\ \A n \in DOMAIN nodes' \ {handling[t].node} :
                 /\ n \in DOMAIN nodes
                 /\ nodes'[n].last_heartbeat_ms = nodes[n].last_heartbeat_ms
<1> DEFINE q == handling[t]
           now == stamps[t]
<1>1. q \in Requests /\ q.node \in NodeIds /\ q.report \in SUBSET SegmentIds
    BY HandledRequest, RequestParts DEF ServeRegister, ServeHeartbeat
<1>2. now \in Nat /\ (setBacks = 0 => now <= clock) /\ IsRegistry(nodes)
    BY StampsAreTimes
       DEF IInv, TypeOK, StampsPast, ServeRegister, ServeHeartbeat, PutNode,
           PostHeartbeat, Serves
<1>3. CASE ServeRegister(t)
  <2>1. PICK url \in Urls : PutNode(t, q.node, url)
      BY <1>3 DEF ServeRegister
  <2>2. /\ nodes' = Register(nodes, q.node, url, now)
        /\ heard' = [heard EXCEPT ![q.node] = Later(heard[q.node], now)]
      BY <2>1 DEF PutNode
  <2> QED BY <1>1, <1>2, <2>2 DEF Register, NewCold, IsRegistry, CacheNode
<1>4. CASE ServeHeartbeat(t)
  <2> DEFINE heardOf == Heartbeat(nodes, q.node, "ok", 0, q.report, now)
  <2>1. /\ q.node \in DOMAIN nodes
        /\ nodes' = EvaluateAll(heardOf, required, now)
        /\ heard' = [heard EXCEPT ![q.node] = Later(heard[q.node], now)]
      BY <1>4 DEF ServeHeartbeat, PostHeartbeat
  <2>2. /\ IsRegistry(heardOf)
        /\ DOMAIN heardOf = DOMAIN nodes
        /\ heardOf[q.node] = AfterHeartbeat(nodes[q.node], "ok", 0, q.report, now)
        /\ \A m \in DOMAIN nodes \ {q.node} : heardOf[m] = nodes[m]
    <3>1. "ok" \in Health /\ 0 \in Loads
        BY CacheNodesAssumption DEF Health
    <3> QED BY <1>1, <1>2, <2>1, <3>1, HeartbeatType
  <2>3. /\ DOMAIN nodes' = DOMAIN nodes
        /\ \A n \in DOMAIN nodes :
              nodes'[n].last_heartbeat_ms = heardOf[n].last_heartbeat_ms
      BY <1>2, <2>1, <2>2, EvaluateAllType, EvaluationKeeps DEF IsRegistry
  <2>4. heardOf[q.node].last_heartbeat_ms = now
    <3>1. nodes[q.node] \in CacheNode
        BY <1>2, <2>1 DEF IsRegistry
    <3> QED BY <2>2, <3>1 DEF AfterHeartbeat, CacheNode
  <2> QED BY <1>1, <1>2, <2>1, <2>2, <2>3, <2>4
<1> QED BY <1>3, <1>4

\* The record of a node and the time it was heard of, for steps that serve
\* neither a registration nor a heartbeat.
LEMMA UnservedStamps ==
    ASSUME EdamameTypeOK, IInv, [EdamameNext]_edamameVars,
           \A t \in Threads : ~ServeRegister(t) /\ ~ServeHeartbeat(t),
           ~CoreRestart
    PROVE  /\ heard' = heard
           /\ DOMAIN nodes' = DOMAIN nodes
           /\ \A n \in DOMAIN nodes :
                 nodes'[n].last_heartbeat_ms = nodes[n].last_heartbeat_ms
<1>1. ASSUME NEW t \in Threads, ServePlaylist(t)
      PROVE  /\ heard' = heard
             /\ DOMAIN nodes' = DOMAIN nodes
             /\ \A n \in DOMAIN nodes :
                   nodes'[n].last_heartbeat_ms = nodes[n].last_heartbeat_ms
  <2>1. /\ stamps[t] \in Nat
        /\ nodes' = EvaluateAll(nodes, required, stamps[t])
        /\ heard' = heard
      BY <1>1, StampsAreTimes DEF IInv, ServePlaylist, GetPlaylist, Serves
  <2> QED BY <2>1, EvaluateAllType, EvaluationKeeps DEF IInv, TypeOK, IsRegistry
<1>2. CASE UNCHANGED <<nodes, heard>>
    BY <1>2
<1> QED BY <1>1, <1>2
        DEF EdamameNext, Serve, ServeUnknown, HeartbeatUnknown, TimePasses, Tick,
            TimeIsSetBack, SetBack, Ingest, Publish, IngestFails, RequestLost,
            Arrive, ReadClock, SendRegister, SendHeartbeat, Send, FetchNext,
            FetchFails, GiveUp, Prewarm, NodeRestart, edamameVars, vars

\* What a handler has in hand keeps its stamp, and what it takes is stamped now.
LEMMA InHandStamps ==
    ASSUME EdamameTypeOK, [EdamameNext]_edamameVars,
           NEW n \in NodeIds, connection'[n] = connection[n],
           NEW t \in InHand(n)'
    PROVE  \/ t \in InHand(n) /\ stamps'[t] = stamps[t]
           \/ stamps'[t] = clock
<1>0. /\ handling \in [Threads -> Requests \cup {Playlist, Free}]
      /\ stamps \in [Threads -> Times \cup {NoStamp}]
      /\ t \in Threads
      /\ Awaited(handling[t])' /\ handling'[t].node = n
      /\ connection'[n] = connection[n]
    BY DEF EdamameTypeOK, TypeOK, InHand
\* The connection is the same, so what is in hand was in hand.
<1>h. ASSUME handling'[t] = handling[t]
      PROVE  t \in InHand(n)
    BY <1>0, <1>h DEF InHand, Awaited
<1>1. ASSUME NEW u \in Threads, NEW q \in requests \cup {Playlist}, Arrive(u, q)
      PROVE  \/ t \in InHand(n) /\ stamps'[t] = stamps[t]
             \/ stamps'[t] = clock
    BY <1>0, <1>1, <1>h DEF Arrive, ReadClock
<1>2. ASSUME NEW u \in Threads, Serve(u)
      PROVE  t \in InHand(n) /\ stamps'[t] = stamps[t]
  <2>1. handling' = [handling EXCEPT ![u] = Free]
      BY <1>2 DEF Serve, ServeRegister, ServeUnknown, ServeHeartbeat,
                  ServePlaylist, Answered
  <2>2. stamps' = [stamps EXCEPT ![u] = NoStamp]
      BY <1>2 DEF Serve, ServeRegister, ServeUnknown, ServeHeartbeat,
                  ServePlaylist, PutNode, HeartbeatUnknown, PostHeartbeat,
                  GetPlaylist, Serves
  <2>3. t # u
      BY <1>0, <2>1 DEF Awaited, Free
  <2> QED BY <1>0, <1>h, <2>1, <2>2, <2>3
<1>3. ~CoreRestart
    BY <1>0 DEF CoreRestart, Awaited, Free
<1>4. CASE UNCHANGED <<handling, stamps>>
    BY <1>4, <1>h
<1> QED BY <1>1, <1>2, <1>3, <1>4
        DEF EdamameNext, TimePasses, Tick, TimeIsSetBack, SetBack, Ingest,
            Publish, IngestFails, RequestLost, SendRegister, SendHeartbeat, Send,
            FetchNext, FetchFails, GiveUp, Prewarm, NodeRestart, netVars, vars,
            edamameVars

LEMMA ClockSteps ==
    ASSUME EdamameTypeOK, [EdamameNext]_edamameVars, setBacks' = 0
    PROVE  /\ clock \in Nat /\ clock' \in Nat /\ clock <= clock'
           /\ setBacks = 0
<1>1. clock \in Nat /\ setBacks \in Nat
    BY RegistryAssumption DEF EdamameTypeOK, TypeOK, Times
<1>2. [Next]_vars
    BY StepOfRegistry
<1>3. ~SetBack
    BY <1>1 DEF SetBack
<1>4. /\ clock' = clock \/ clock' = clock + 1
      /\ setBacks' = setBacks
    BY <1>2, <1>3 DEF Next, Tick, Restart, Publish, ReadClock, GetPlaylist,
                HeartbeatUnknown, PutNode, PostHeartbeat, Serves, vars
<1> QED BY <1>1, <1>4

LEMMA NextInOrder ==
    ASSUME OrderInv, [EdamameNext]_edamameVars
    PROVE  InOrder'
<1> SUFFICES ASSUME setBacks' = 0, NEW n \in NodeIds, connection'[n] = 0
             PROVE  /\ n \in DOMAIN nodes'
                          => nodes'[n].last_heartbeat_ms = heard'[n]
                    /\ \A t \in InHand(n)' : heard'[n] <= stamps'[t]
                    /\ heard'[n] <= clock'
    BY DEF InOrder
<1>0. /\ EdamameTypeOK /\ IInv /\ FlowInv /\ setBacks = 0
      /\ clock \in Nat /\ clock' \in Nat /\ clock <= clock'
      /\ heard \in [NodeIds -> Times]
      /\ \A m \in NodeIds : heard[m] \in Nat
      /\ \A t \in Threads : stamps[t] \in Int
    BY ClockSteps, RegistryAssumption
       DEF OrderInv, FlowInv, EdamameTypeOK, TypeOK, Times, NoStamp
<1>c. connection[n] = 0
  <2>1. connection[n] \in Nat /\ connection[n] <= connection'[n]
      BY <1>0, ConnectionsGrow DEF EdamameTypeOK
  <2> QED BY <2>1
<1>1. /\ n \in DOMAIN nodes => nodes[n].last_heartbeat_ms = heard[n]
      /\ \A t \in InHand(n) : heard[n] <= stamps[t]
      /\ heard[n] <= clock
    BY <1>0, <1>c DEF OrderInv, InOrder
\* Nothing is heard of n: what comes to hand is stamped later.
<1>2. ASSUME heard'[n] = heard[n]
      PROVE  /\ \A t \in InHand(n)' : heard'[n] <= stamps'[t]
             /\ heard'[n] <= clock'
    BY <1>0, <1>c, <1>1, <1>2, InHandStamps
<1>3. ASSUME NEW t \in Threads, ServeRegister(t) \/ ServeHeartbeat(t)
      PROVE  /\ n \in DOMAIN nodes'
                   => nodes'[n].last_heartbeat_ms = heard'[n]
             /\ \A u \in InHand(n)' : heard'[n] <= stamps'[u]
             /\ heard'[n] <= clock'
  <2> DEFINE q == handling[t]
  <2>1. /\ q \in Requests /\ q.node \in NodeIds
        /\ stamps[t] \in Nat /\ stamps[t] <= clock
        /\ heard' = [heard EXCEPT ![q.node] = Later(heard[q.node], stamps[t])]
        /\ q.node \in DOMAIN nodes'
                 => nodes'[q.node].last_heartbeat_ms = stamps[t]
        /\ \A m \in DOMAIN nodes' \ {q.node} :
              /\ m \in DOMAIN nodes
              /\ nodes'[m].last_heartbeat_ms = nodes[m].last_heartbeat_ms
      BY <1>0, <1>3, ServedStamps, RequestParts
  <2>2. CASE q.node = n
    <3>1. q.connection \in Nat /\ q.connection <= connection[n]
        BY <1>0, <2>1, <2>2, RequestParts DEF FlowInv, PastConnections
    <3>2. t \in InHand(n)
        BY <1>c, <2>1, <2>2, <3>1, RequestParts DEF InHand, Awaited
    <3>3. heard[n] <= stamps[t]
        BY <1>1, <3>2
    <3>4. heard'[n] = stamps[t]
        BY <1>0, <2>1, <2>2, <3>3 DEF Later
    <3>5. InHand(n)' = {}
      <4>1. \A u \in InHand(n) : u = t
          BY <1>0, <3>2 DEF FlowInv, OneRequestUnderWay
      <4>2. /\ handling' = [handling EXCEPT ![t] = Free]
            /\ connection' = connection
            /\ handling \in [Threads -> Requests \cup {Playlist, Free}]
          BY <1>0, <1>3 DEF ServeRegister, ServeHeartbeat, Answered, EdamameTypeOK
      <4>3. \A u \in Threads : u \in InHand(n)' => u \in InHand(n) /\ u # t
          BY <4>2, NotAwaited DEF InHand, Awaited
      <4> QED BY <4>1, <4>3 DEF InHand
    <3> QED BY <1>0, <2>1, <2>2, <3>4, <3>5
  <2>3. CASE q.node # n
    <3>1. heard'[n] = heard[n]
        BY <1>0, <2>1, <2>3
    <3> QED BY <1>1, <1>2, <2>1, <2>3, <3>1
  <2> QED BY <2>2, <2>3
<1>4. CASE CoreRestart
  <2>1. nodes' = <<>> /\ heard' = [m \in NodeIds |-> 0]
      BY <1>4 DEF CoreRestart, Restart
  <2>2. \A t \in Threads : t \notin InHand(n)'
      BY <1>4 DEF CoreRestart, InHand, Awaited, Free
  <2>3. InHand(n)' = {}
      BY <2>2 DEF InHand
  <2> QED BY <1>0, <2>1, <2>3
<1>5. CASE /\ \A t \in Threads : ~ServeRegister(t) /\ ~ServeHeartbeat(t)
           /\ ~CoreRestart
  <2>1. /\ heard' = heard
        /\ DOMAIN nodes' = DOMAIN nodes
        /\ \A m \in DOMAIN nodes :
              nodes'[m].last_heartbeat_ms = nodes[m].last_heartbeat_ms
      BY <1>0, <1>5, UnservedStamps
  <2> QED BY <1>1, <1>2, <2>1
<1> QED BY <1>3, <1>4, <1>5

\* For every instance: with a clock that was never set back, a node that has
\* given up on no request dies of silence only, whatever order the core serves
\* the requests of all nodes in.
THEOREM OnlySilentNodesDieHolds == EdamameSpec => OnlySilentNodesDie
<1> DEFINE Step == \A n \in DOMAIN nodes \cap DOMAIN nodes' :
                      /\ connection[n] = 0 /\ setBacks = 0
                      /\ nodes[n].state # "DEAD" /\ nodes'[n].state = "DEAD"
                      => clock - heard'[n] > HeartbeatTimeout
<1>1. EdamameInit => OrderInv
  <2>1. EdamameInit => InOrder
      BY DEF EdamameInit, Init, InOrder, InHand, Awaited, Free
  <2> QED BY <2>1, InitFlowInv, InitIInv DEF EdamameInit, OrderInv
<1>2. OrderInv /\ [EdamameNext]_edamameVars => OrderInv'
    BY NextFlowInv, NextIInv, StepOfRegistry, NextInOrder DEF OrderInv, FlowInv
<1>3. OrderInv /\ [EdamameNext]_edamameVars => Step
  <2> SUFFICES ASSUME OrderInv, [EdamameNext]_edamameVars,
                      NEW n \in DOMAIN nodes \cap DOMAIN nodes',
                      connection[n] = 0, setBacks = 0,
                      nodes[n].state # "DEAD", nodes'[n].state = "DEAD"
               PROVE  clock - heard'[n] > HeartbeatTimeout
      OBVIOUS
  <2>1. IInv /\ [Next]_vars /\ n \in NodeIds
      BY StepOfRegistry DEF OrderInv, FlowInv, IInv, TypeOK, IsRegistry
  <2>2. nodes[n].last_heartbeat_ms = heard[n] /\ heard[n] \in Nat
      BY <2>1, RegistryAssumption DEF OrderInv, InOrder, IInv, TypeOK, Times
  <2>3. PICK t \in Threads :
           /\ Serves(t)
           /\ stamps[t] - nodes[n].last_heartbeat_ms > HeartbeatTimeout
           /\ heard'[n] = heard[n]
      BY <2>1, DeathOfSilent
  <2>4. stamps[t] \in Nat /\ clock \in Nat /\ stamps[t] <= clock
      BY <2>1, <2>3, StampsAreTimes, RegistryAssumption
         DEF Serves, IInv, StampsPast, TypeOK, Times
  <2> QED BY <2>2, <2>3, <2>4, CacheNodesAssumption
<1> QED BY <1>1, <1>2, <1>3, PTL DEF EdamameSpec, OnlySilentNodesDie

-----------------------------------------------------------------------------
(* A lost registration is lost for good. *)

\* The registry comes to know a node only by serving a registration of it.
LEMMA OnlyRegisteringJoins ==
    ASSUME EdamameTypeOK, [EdamameNext]_edamameVars,
           NEW n \in DOMAIN nodes' \ DOMAIN nodes
    PROVE  \E t \in Threads : handling[t].kind = "register"
                              /\ handling[t].node = n
<1>0. IsRegistry(nodes)
    BY DEF EdamameTypeOK, TypeOK
<1>1. ASSUME NEW t \in Threads, ServeRegister(t)
      PROVE  handling[t].kind = "register" /\ handling[t].node = n
    BY <1>0, <1>1 DEF ServeRegister, PutNode, Register, IsRegistry
<1>2. ASSUME NEW t \in Threads, ServeHeartbeat(t)
      PROVE  FALSE
    BY <1>2 DEF ServeHeartbeat, PostHeartbeat, EvaluateAll, Heartbeat
<1>3. ASSUME NEW t \in Threads, ServePlaylist(t)
      PROVE  FALSE
    BY <1>3 DEF ServePlaylist, GetPlaylist, EvaluateAll
<1>4. ASSUME NEW t \in Threads, ServeUnknown(t)
      PROVE  FALSE
    BY <1>4 DEF ServeUnknown, HeartbeatUnknown
<1>5. ~CoreRestart
    BY DEF CoreRestart, Restart
<1>6. ~(UNCHANGED nodes)
    OBVIOUS
<1> QED BY <1>1, <1>2, <1>3, <1>4, <1>5, <1>6
        DEF EdamameNext, Serve, TimePasses, Tick, TimeIsSetBack, SetBack,
            Ingest, Publish, IngestFails, RequestLost, Arrive, ReadClock,
            SendRegister, SendHeartbeat, Send, FetchNext, FetchFails, GiveUp,
            Prewarm, NodeRestart, edamameVars, vars

\* Only a process that starts is about to register.
LEMMA OnlyRestartingStarts ==
    ASSUME EdamameTypeOK, [EdamameNext]_edamameVars, NEW n \in NodeIds,
           at[n] # "starting", lives'[n] = lives[n]
    PROVE  at'[n] # "starting"
<1>0. /\ at \in [NodeIds -> {"starting", "waiting", "ticking", "fetching"}]
      /\ lives[n] \in Nat /\ lives \in [NodeIds -> Nat]
    BY DEF EdamameTypeOK
<1>1. ASSUME NEW m \in NodeIds, NEW items, Proceeds(m, items)
      PROVE  at'[n] # "starting"
    BY <1>0, <1>1 DEF Proceeds
<1>2. ASSUME NEW m \in NodeIds, SendRegister(m) \/ SendHeartbeat(m)
      PROVE  at'[n] # "starting"
    BY <1>0, <1>2 DEF SendRegister, SendHeartbeat, Send
<1>3. ASSUME NEW m \in NodeIds, FetchNext(m) \/ FetchFails(m) \/ GiveUp(m)
      PROVE  at'[n] # "starting"
    BY <1>1, <1>3 DEF FetchNext, FetchFails, GiveUp
<1>4. ASSUME NEW m \in NodeIds, NodeRestart(m)
      PROVE  at'[n] # "starting"
    BY <1>0, <1>4 DEF NodeRestart
<1>5. ASSUME NEW q \in requests, RequestLost(q)
      PROVE  at'[n] # "starting"
  <2>1. q.node \in NodeIds
      BY RequestParts DEF EdamameTypeOK
  <2> QED BY <1>1, <1>5, <2>1 DEF RequestLost
<1>6. ASSUME NEW t \in Threads,
             ServeRegister(t) \/ ServeUnknown(t) \/ ServeHeartbeat(t)
      PROVE  at'[n] # "starting"
  <2>1. PICK items : Answered(t, items)
      BY <1>6, ServeAnswers
  <2>2. handling[t].node \in NodeIds
      BY <1>6, ServeAnswers, RequestParts
  <2>3. \/ \E some : Proceeds(handling[t].node, some)
        \/ UNCHANGED at
      BY <2>1 DEF Answered
  <2> QED BY <1>1, <2>2, <2>3
<1>7. CASE CoreRestart
    BY <1>0, <1>7 DEF CoreRestart
<1>8. CASE UNCHANGED at
    BY <1>8
<1> QED BY <1>2, <1>3, <1>4, <1>5, <1>6, <1>7, <1>8
        DEF EdamameNext, Serve, ServePlaylist, TimePasses, TimeIsSetBack, Ingest,
            IngestFails, Arrive, Prewarm, nodeVars, edamameVars

\* Only a process that starts sends a registration.
LEMMA OnlyStartingRegisters ==
    ASSUME EdamameTypeOK, [EdamameNext]_edamameVars
    PROVE  \A q \in requests' :
              \/ q \in requests
              \/ q.kind = "register" => at[q.node] = "starting"
<1>1. ASSUME NEW m \in NodeIds, SendRegister(m) \/ SendHeartbeat(m),
             NEW q \in requests' \ requests, q.kind = "register"
      PROVE  at[q.node] = "starting"
    BY <1>1 DEF SendRegister, SendHeartbeat, Send
<1>2. ASSUME NEW t \in Threads, Serve(t)
      PROVE  requests' = requests
    BY <1>2 DEF Serve, ServeRegister, ServeUnknown, ServeHeartbeat,
                ServePlaylist, Answered
<1>3. CASE requests' \subseteq requests
    BY <1>3
<1> QED BY <1>1, <1>2, <1>3
        DEF EdamameNext, CoreRestart, TimePasses, TimeIsSetBack, Ingest,
            IngestFails, RequestLost, Arrive, FetchNext, FetchFails, GiveUp,
            Prewarm, NodeRestart, netVars, edamameVars

\* For every instance: a node whose registration is lost, or forgotten by the
\* core, stays unknown as long as its process lives.
THEOREM LostForGoodHolds == EdamameSpec => LostForGood
<1> DEFINE Step == \A n \in NodeIds :
                      Lost(n) /\ lives'[n] = lives[n] => Lost(n)'
<1>1. EdamameTypeOK /\ [EdamameNext]_edamameVars => Step
  <2> SUFFICES ASSUME EdamameTypeOK, [EdamameNext]_edamameVars,
                      NEW n \in NodeIds, Lost(n), lives'[n] = lives[n]
               PROVE  Lost(n)'
      OBVIOUS
  <2>1. n \notin DOMAIN nodes'
      BY OnlyRegisteringJoins DEF Lost
  <2>2. at'[n] # "starting"
      BY OnlyRestartingStarts DEF Lost
  <2>3. ASSUME NEW q \in requests', q.kind = "register"
        PROVE  q.node # n
      BY <2>3, OnlyStartingRegisters DEF Lost
  <2>4. ASSUME NEW t \in Threads, handling'[t].kind = "register"
        PROVE  handling'[t].node # n
      BY <2>4, RequestSteps DEF Lost, Playlist, Free
  <2> QED BY <2>1, <2>2, <2>3, <2>4 DEF Lost
<1> QED BY <1>1, EdamameTypeCorrect, PTL DEF EdamameSpec, LostForGood

-----------------------------------------------------------------------------
(* Nothing is reported that does not fit into a cache. *)

CachesFit == \A n \in NodeIds : Fits(cache[n])

\* A report is what a cache held at one moment, so it fits as the cache did.
FitInv ==
    /\ CachesFit
    /\ \A q \in requests : Fits(q.report)
    /\ \A t \in Threads : handling[t] \in Requests => Fits(handling[t].report)
    /\ \A n \in DOMAIN nodes : Fits(nodes[n].retained)

LEMMA NothingFits == Fits({})
BY DEF Fits

LEMMA NextCachesFit ==
    ASSUME EIInv, CachesFit, [EdamameNext]_edamameVars
    PROVE  CachesFit'
<1> SUFFICES ASSUME NEW n \in NodeIds
             PROVE  Fits(cache'[n])
    BY Zenon DEF CachesFit, Fits
<1>1. /\ Sequences \in SUBSET Nat
      /\ cache[n] \in SUBSET (Streams \X Sequences)
      /\ HaveNewest(cache[n])
    BY CacheNodesAssumption
       DEF EIInv, CachesHaveNewest, EdamameTypeOK, SegmentIds
<1>2. ASSUME NEW id \in SegmentIds, cache'[n] = Keeping(cache[n], id)
      PROVE  Fits(cache'[n])
  <2>1. \A newer, older \in Keeping(cache[n], id) :
            newer[1] = older[1] => newer[2] - older[2] <= Retention
      BY <1>1, <1>2, KeepingFacts DEF SegmentIds
  <2> QED BY <1>2, <2>1 DEF Fits
<1>3. Fits(cache[n])
    BY DEF CachesFit
<1> QED BY <1>2, <1>3, NothingFits, CacheSteps DEF EIInv

LEMMA NextFitInv ==
    ASSUME EIInv, FitInv, [EdamameNext]_edamameVars
    PROVE  FitInv'
<1>1. CachesFit'
    BY NextCachesFit DEF FitInv
<1>2. ASSUME NEW q \in requests'
      PROVE  Fits(q.report)
    BY <1>2, NothingFits, RequestSteps DEF EIInv, FitInv, CachesFit
<1>3. ASSUME NEW t \in Threads, handling'[t] \in Requests
      PROVE  Fits(handling'[t].report)
  <2>1. handling'[t] # Playlist /\ handling'[t] # Free
      BY <1>3, RequestKinds
  <2> QED BY <1>3, <2>1, RequestSteps DEF EIInv, FitInv
<1>4. ASSUME NEW n \in DOMAIN nodes'
      PROVE  Fits(nodes'[n].retained)
    BY <1>4, NothingFits, RetainedSteps DEF FitInv
<1> QED BY <1>1, <1>2, <1>3, <1>4 DEF FitInv, Fits

LEMMA InitFitInv == EdamameInit => FitInv
<1> SUFFICES ASSUME EdamameInit
             PROVE  FitInv
    OBVIOUS
<1>1. Free \notin Requests
    BY RequestParts DEF Free
<1>2. DOMAIN nodes = {}
    BY DEF EdamameInit, Init
<1> QED BY <1>1, <1>2, NothingFits DEF EdamameInit, FitInv, CachesFit

\* For every window and retention, and through all restarts: a report fits, so a
\* client is routed only while what is required of each stream fits.
THEOREM ReportsFitHolds == EdamameSpec => []ReportsFit
<1>1. ASSUME FitInv, RoutingFollowsReports
      PROVE  ReportsFit
  <2>1. ASSUME reply.kind = "routed"
        PROVE  Fits(required)
    <3>1. /\ reply.node \in DOMAIN nodes
          /\ required \subseteq nodes[reply.node].retained
        BY <1>1, <2>1 DEF RoutingFollowsReports, Qualifies, HasAll
    <3>2. Fits(nodes[reply.node].retained)
        BY <1>1, <3>1 DEF FitInv
    <3> QED BY <3>1, <3>2 DEF Fits
  <2> QED BY <1>1, <2>1 DEF FitInv, ReportsFit
<1> QED BY <1>1, InitFitInv, NextFitInv, EdamameInvariant,
           RegistryTheoremsHold, PTL DEF EdamameSpec
=============================================================================
