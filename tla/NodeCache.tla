------------------------------ MODULE NodeCache ------------------------------
(***************************************************************************)
(* The data plane of one cache node: node/cache.rs and node/prewarm.rs.    *)
(* The map of held segments lives in memory behind the node's mutex, the   *)
(* bytes in files named after the id AND the extension.                    *)
(*                                                                         *)
(* A fetch waits for the origin without the mutex, so fetches are tasks:   *)
(* requests from outside (PUT /prewarm) and the node's own heartbeat loop, *)
(* which calls the same function.  Storing holds the mutex throughout.     *)
(***************************************************************************)
EXTENDS Retention

CONSTANTS Streams, Sequences,   \* what a segment id is made of
          Exts,                 \* file name extensions
          Bodies,               \* what the origin may answer with
          Wanted,               \* the files that are asked of the node
          Tasks,                \* fetches that may be in hand at once
          NoFetch,              \* a task with nothing to fetch
          Torn, Missing,        \* a file cut short, and no file at all
          MaxFaults,            \* bound on the storing steps that go wrong
          MaxRestarts           \* bound on the restarts of the node

SegmentIds == Streams \X Sequences

\* path_for: one file per id and extension.
Files == SegmentIds \X Exts

ASSUME NodeCacheAssumption ==
    /\ Sequences \subseteq Nat
    /\ Torn \notin Bodies /\ Missing \notin Bodies /\ Torn # Missing
    /\ Wanted \subseteq Files
    /\ NoFetch \notin Files
    /\ MaxFaults \in Nat
    /\ MaxRestarts \in Nat

VARIABLES retained,     \* NodeCache::retained, from ids to extensions
          disk,         \* the files under the cache directory
          fetches,      \* the file each task is fetching
          reply,        \* the response of the last step, if it gave one
          stored,       \* history: what the last store of each id has left of
                        \* it: a body, or Torn
          faults, restarts

vars == <<retained, disk, fetches, reply, stored, faults, restarts>>

held == DOMAIN retained

Replies ==
    [kind : {"none"}]
    \cup [kind : {"accepted", "bad gateway", "failed", "not found"},
          id : SegmentIds]
    \cup [kind : {"segment"}, id : SegmentIds, bytes : Bodies \cup {Torn}]

NoReply == [kind |-> "none"]

TypeOK ==
    /\ held \subseteq SegmentIds
    /\ retained \in [held -> Exts]
    /\ disk \in [Files -> Bodies \cup {Torn, Missing}]
    /\ fetches \in [Tasks -> Files \cup {NoFetch}]
    /\ reply \in Replies
    /\ stored \in [SegmentIds -> Bodies \cup {Torn, Missing}]
    /\ faults \in 0..MaxFaults
    /\ restarts \in 0..MaxRestarts

Init ==
    /\ retained = <<>>
    /\ disk = [file \in Files |-> Missing]
    /\ fetches = [t \in Tasks |-> NoFetch]
    /\ reply = NoReply
    /\ stored = [id \in SegmentIds |-> Missing]
    /\ faults = 0
    /\ restarts = 0

-----------------------------------------------------------------------------
(* Fetching *)

\* put_prewarm, or one item of a heartbeat's plan: the origin is asked.  What
\* the node already holds is not looked at.
BeginFetch(t, file) ==
    /\ fetches[t] = NoFetch
    /\ fetches' = [fetches EXCEPT ![t] = file]
    /\ reply' = NoReply
    /\ UNCHANGED <<retained, disk, stored, faults, restarts>>

\* The task is done with its segment, and answers.
Ends(t, answer) ==
    /\ fetches[t] # NoFetch
    /\ fetches' = [fetches EXCEPT ![t] = NoFetch]
    /\ reply' = [kind |-> answer, id |-> fetches[t][1]]
    /\ UNCHANGED restarts

\* The origin does not answer, answers with an error, or breaks off: 502.
FetchFails(t) ==
    /\ Ends(t, "bad gateway")
    /\ UNCHANGED <<retained, disk, stored, faults>>

-----------------------------------------------------------------------------
(* Storing *)

\* NodeCache::store with the body in hand, mutex held.  A file that cannot be
\* removed stays, and nobody is told.
Store(t, body) ==
    LET file == fetches[t]
        id == file[1]
        ext == [i \in held \cup {id} |-> IF i = id THEN file[2] ELSE retained[i]]
        kept == Keeping(held, id)
        evicted == {<<i, ext[i]>> : i \in DOMAIN ext \ kept}
    IN  /\ Ends(t, "accepted")
        /\ retained' = [i \in kept |-> ext[i]]
        /\ \E stuck \in SUBSET evicted :
              /\ disk' = [f \in Files |->
                             IF f \in evicted \ stuck THEN Missing
                             ELSE IF f = file THEN body
                             ELSE disk[f]]
              /\ \/ stuck = {} /\ UNCHANGED faults
                 \/ stuck # {} /\ faults < MaxFaults /\ faults' = faults + 1
        /\ stored' = [stored EXCEPT ![id] = body]

\* Wrong on purpose: the id is recorded before its bytes are written.
StoreFails_RecordedFirst(t) ==
    LET file == fetches[t]
    IN  /\ Ends(t, "failed")
        /\ faults < MaxFaults
        /\ faults' = faults + 1
        /\ retained' = [i \in held \cup {file[1]} |->
                           IF i = file[1] THEN file[2] ELSE retained[i]]
        /\ UNCHANGED <<disk, stored>>

\* The directory cannot be made, or the write stops half way: 500.  What the
\* node holds is as before, even when the cut file is one of them.
StoreFails(t) ==
    LET file == fetches[t]
        onRecord == file[1] \in held /\ retained[file[1]] = file[2]
    IN  /\ Ends(t, "failed")
        /\ faults < MaxFaults
        /\ faults' = faults + 1
        /\ \/ UNCHANGED <<disk, stored>>
           \/ /\ disk' = [disk EXCEPT ![file] = Torn]
              /\ stored' = [stored EXCEPT ![file[1]] =
                                IF onRecord THEN Torn ELSE @]
        /\ UNCHANGED retained

-----------------------------------------------------------------------------
(* Serving, and the process *)

\* NodeCache::get: the bytes under the extension on record, or nothing.
Get(id) == IF id \in held THEN disk[<<id, retained[id]>>] ELSE Missing

\* Wrong on purpose: the file that the request names is sent, held or not.
GetSegment_Unchecked(id) ==
    /\ \E ext \in Exts :
          reply' = [kind |-> "segment", id |-> id, bytes |-> disk[<<id, ext>>]]
    /\ UNCHANGED <<retained, disk, fetches, stored, faults, restarts>>

\* get_segment: the extension in the request is not looked at.
GetSegment(id) ==
    /\ \/ Get(id) # Missing
          /\ reply' = [kind |-> "segment", id |-> id, bytes |-> Get(id)]
       \/ Get(id) = Missing
          /\ reply' = [kind |-> "not found", id |-> id]
    /\ UNCHANGED <<retained, disk, fetches, stored, faults, restarts>>

\* The process stops, perhaps inside a write, and starts with an empty map.
Restart ==
    /\ restarts < MaxRestarts
    /\ restarts' = restarts + 1
    /\ retained' = <<>>
    /\ \/ UNCHANGED disk
       \/ \E t \in Tasks :
             /\ fetches[t] # NoFetch
             /\ disk' = [disk EXCEPT ![fetches[t]] = Torn]
    /\ fetches' = [t \in Tasks |-> NoFetch]
    /\ reply' = NoReply
    /\ UNCHANGED <<stored, faults>>

Next ==
    \/ Restart
    \/ \E id \in SegmentIds : GetSegment(id)
    \/ \E t \in Tasks :
        \/ \E file \in Wanted : BeginFetch(t, file)
        \/ FetchFails(t)
        \/ StoreFails(t)
        \/ \E body \in Bodies : Store(t, body)

Spec == Init /\ [][Next]_vars

-----------------------------------------------------------------------------
(* Properties *)

\* What the node reports it can serve: the file of a held segment is there,
\* under the extension on record, with the body that was last stored under the
\* id, by whichever task and under whichever extension.  It is cut short only if
\* a later store of that very file failed on the way.
ServesLatest ==
    \A id \in held :
        /\ disk[<<id, retained[id]>>] = stored[id]
        /\ stored[id] # Missing

\* The cache is bounded whatever arrives in whatever order: no two held
\* segments of one stream are more than the retention apart.
SpanBounded ==
    \A newer, older \in held :
        newer[1] = older[1] => newer[2] - older[2] <= Retention

\* A running node gives a segment up only for one of the same stream, more
\* than the retention ahead, which it holds; nothing else ever costs it one.
LeavesOnlyBehind ==
    [][restarts' = restarts =>
          \A id \in held \ held' :
              \E newer \in held' :
                  newer[1] = id[1] /\ newer[2] - id[2] > Retention]_vars

\* Seen from outside, the map, the files, the tasks and the edges in saturating
\* arithmetic are a set of ids of which none falls too far behind.
ThisNode == "this node"

HeldIds ==
    INSTANCE HeldSet
        WITH Holders <- {ThisNode}, Ids <- SegmentIds,
             held <- [n \in {ThisNode} |-> held]

ImplementsHeldSet == HeldIds!HeldSpec
==============================================================================
