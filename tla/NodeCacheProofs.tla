-------------------------- MODULE NodeCacheProofs --------------------------
(***************************************************************************)
(* Theorems about one cache node, for any retention, any streams, sequence *)
(* numbers, extensions and bodies, and any number of fetches in hand.      *)
(***************************************************************************)
EXTENDS NodeCache, RetentionProofs

\* The inductive invariant: ServesLatest and SpanBounded lean on the types,
\* and on every stream having a newest held segment for the edge to be.
IInv == TypeOK /\ HaveNewest(held) /\ SpanBounded /\ ServesLatest

\* "held" is only a name for the domain of the map.
USE DEF held

-----------------------------------------------------------------------------
(* Storing *)

\* What a completed store leaves in memory and on disk.
LEMMA StoreFacts ==
    ASSUME IInv, NEW t \in Tasks, NEW body \in Bodies, Store(t, body)
    PROVE  LET file == fetches[t]
               kept == Keeping(held, file[1])
           IN  /\ file \in Files
               /\ file[1] \in SegmentIds /\ file[2] \in Exts
               /\ kept \subseteq held \cup {file[1]}
               /\ held' = kept
               /\ \A i \in kept : retained'[i] = IF i = file[1] THEN file[2]
                                                 ELSE retained[i]
               /\ disk' \in [Files -> Bodies \cup {Torn, Missing}]
               /\ file[1] \in kept => disk'[file] = body
               /\ \A f \in Files :
                     f[1] \in kept /\ f # file => disk'[f] = disk[f]
<1> DEFINE file == fetches[t]
           id == file[1]
           kept == Keeping(held, id)
           ext == [i \in held \cup {id} |-> IF i = id THEN file[2] ELSE retained[i]]
           evicted == {<<i, ext[i]>> : i \in DOMAIN ext \ kept}
<1>1. file \in Files /\ id \in SegmentIds /\ file[2] \in Exts
    BY DEF Store, Ends, IInv, TypeOK, Files
<1>2. kept \subseteq held \cup {id}
    BY DEF Keeping
<1>3. retained' = [i \in kept |-> ext[i]]
    BY DEF Store
<1>4. PICK stuck \in SUBSET evicted :
         disk' = [f \in Files |-> IF f \in evicted \ stuck THEN Missing
                                  ELSE IF f = file THEN body
                                  ELSE disk[f]]
    BY DEF Store
<1>5. \A f \in evicted : f[1] \notin kept
  <2> HIDE DEF kept, ext
  <2>1. \A i \in DOMAIN ext \ kept : <<i, ext[i]>>[1] = i
      OBVIOUS
  <2> QED BY <2>1
<1>6. disk' \in [Files -> Bodies \cup {Torn, Missing}]
    BY <1>4 DEF IInv, TypeOK
<1>7. \A f \in Files : f[1] \in kept =>
         disk'[f] = IF f = file THEN body ELSE disk[f]
    BY <1>4, <1>5
<1>8. held' = kept /\ \A i \in kept : retained'[i] = ext[i]
    BY <1>3
<1>9. \A i \in kept : ext[i] = IF i = id THEN file[2] ELSE retained[i]
    BY <1>2
<1> QED BY <1>1, <1>2, <1>6, <1>7, <1>8, <1>9

LEMMA HeldType ==
    ASSUME TypeOK
    PROVE  Sequences \in SUBSET Nat /\ held \in SUBSET (Streams \X Sequences)
BY NodeCacheAssumption DEF TypeOK, SegmentIds

-----------------------------------------------------------------------------
(* Type correctness *)

LEMMA InitTypeOK == Init => TypeOK
<1> SUFFICES ASSUME Init
             PROVE  TypeOK
    OBVIOUS
<1>1. held = {}
    BY DEF Init
<1>2. reply \in Replies
    BY DEF Init, NoReply, Replies
<1> QED BY <1>1, <1>2, NodeCacheAssumption DEF Init, TypeOK

LEMMA EndsType ==
    ASSUME TypeOK, NEW t \in Tasks,
           NEW answer \in {"accepted", "bad gateway", "failed"},
           Ends(t, answer)
    PROVE  /\ fetches' \in [Tasks -> Files \cup {NoFetch}]
           /\ reply' \in Replies
           /\ restarts' \in 0..MaxRestarts
           /\ fetches[t] \in Files
<1>1. fetches[t] \in Files
    BY DEF Ends, TypeOK
<1>2. fetches[t][1] \in SegmentIds
    BY <1>1 DEF Files
<1>3. reply' \in Replies
    BY <1>2 DEF Ends, Replies
<1> QED BY <1>1, <1>3 DEF Ends, TypeOK

LEMMA NextTypeOK == IInv /\ [Next]_vars => TypeOK'
<1> SUFFICES ASSUME IInv, [Next]_vars
             PROVE  TypeOK'
    OBVIOUS
<1> USE NodeCacheAssumption
<1>t. TypeOK
    BY DEF IInv
<1>0. NoReply \in Replies
    BY DEF NoReply, Replies
<1>1. ASSUME NEW t \in Tasks, NEW file \in Wanted, BeginFetch(t, file)
      PROVE  TypeOK'
    BY <1>t, <1>0, <1>1 DEF BeginFetch, TypeOK
<1>2. ASSUME NEW t \in Tasks, FetchFails(t)
      PROVE  TypeOK'
    BY <1>t, <1>2, EndsType DEF FetchFails, TypeOK
<1>3. ASSUME NEW t \in Tasks, StoreFails(t)
      PROVE  TypeOK'
  <2>1. Ends(t, "failed")
      BY <1>3 DEF StoreFails
  <2>2. faults' \in 0..MaxFaults
      BY <1>t, <1>3 DEF StoreFails, TypeOK
  <2>3. disk' \in [Files -> Bodies \cup {Torn, Missing}]
      BY <1>t, <1>3 DEF StoreFails, TypeOK
  <2>4. stored' \in [SegmentIds -> Bodies \cup {Torn, Missing}]
      BY <1>t, <1>3 DEF StoreFails, TypeOK
  <2> QED BY <1>t, <1>3, <2>1, <2>2, <2>3, <2>4, EndsType DEF StoreFails, TypeOK
<1>4. ASSUME NEW t \in Tasks, NEW body \in Bodies, Store(t, body)
      PROVE  TypeOK'
  <2> DEFINE file == fetches[t]
             kept == Keeping(held, file[1])
  <2>1. /\ file[1] \in SegmentIds /\ file[2] \in Exts
        /\ kept \subseteq held \cup {file[1]}
        /\ held' = kept
        /\ \A i \in kept : retained'[i] = IF i = file[1] THEN file[2]
                                          ELSE retained[i]
        /\ disk' \in [Files -> Bodies \cup {Torn, Missing}]
      BY <1>4, StoreFacts
  <2>2. held' \subseteq SegmentIds
      BY <1>t, <2>1 DEF TypeOK
  <2>3. retained' \in [held' -> Exts]
    <3>1. retained' = [i \in held' |-> retained'[i]]
        BY <1>4, <2>1 DEF Store
    <3>2. \A i \in held' : retained'[i] \in Exts
        BY <1>t, <2>1 DEF TypeOK
    <3> QED BY <3>1, <3>2
  <2>4. faults' \in 0..MaxFaults
      BY <1>t, <1>4 DEF Store, TypeOK
  <2>5. stored' \in [SegmentIds -> Bodies \cup {Torn, Missing}]
      BY <1>t, <1>4 DEF Store, TypeOK
  <2>6. Ends(t, "accepted")
      BY <1>4 DEF Store
  <2> QED BY <1>t, <2>1, <2>2, <2>3, <2>4, <2>5, <2>6, EndsType DEF TypeOK
<1>5. ASSUME NEW id \in SegmentIds, GetSegment(id)
      PROVE  TypeOK'
  <2>1. reply' \in Replies
    <3>1. ASSUME id \in held, disk[<<id, retained[id]>>] # Missing
          PROVE  disk[<<id, retained[id]>>] \in Bodies \cup {Torn}
      <4>1. <<id, retained[id]>> \in Files
          BY <1>t, <3>1 DEF TypeOK, Files
      <4> QED BY <1>t, <3>1, <4>1 DEF TypeOK
    <3>2. \A bytes \in Bodies \cup {Torn} :
             [kind |-> "segment", id |-> id, bytes |-> bytes] \in Replies
        BY DEF Replies
    <3>3. [kind |-> "not found", id |-> id] \in Replies
        BY DEF Replies
    <3>4. CASE id \in held /\ disk[<<id, retained[id]>>] # Missing
      <4>1. reply' = [kind |-> "segment", id |-> id,
                      bytes |-> disk[<<id, retained[id]>>]]
          BY <1>5, <3>4 DEF GetSegment, Get
      <4> QED BY <3>1, <3>2, <3>4, <4>1
    <3>5. CASE ~(id \in held /\ disk[<<id, retained[id]>>] # Missing)
      <4>1. reply' = [kind |-> "not found", id |-> id]
          BY <1>5, <3>5 DEF GetSegment, Get
      <4> QED BY <3>3, <4>1
    <3> QED BY <3>4, <3>5
  <2> QED BY <1>t, <1>5, <2>1 DEF GetSegment, Get, TypeOK
<1>6. CASE Restart
  <2>1. held' = {}
      BY <1>6 DEF Restart
  <2>2. disk' \in [Files -> Bodies \cup {Torn, Missing}]
      BY <1>t, <1>6 DEF Restart, TypeOK
  <2> QED BY <1>t, <1>0, <1>6, <2>1, <2>2 DEF Restart, TypeOK
<1>7. CASE UNCHANGED vars
    BY <1>t, <1>7 DEF vars, TypeOK
<1> QED BY <1>1, <1>2, <1>3, <1>4, <1>5, <1>6, <1>7 DEF Next

-----------------------------------------------------------------------------
(* The inductive invariant *)

LEMMA InitIInv == Init => IInv
<1> SUFFICES ASSUME Init
             PROVE  IInv
    OBVIOUS
<1>1. held = {}
    BY DEF Init
<1> QED BY <1>1, InitTypeOK DEF IInv, HaveNewest, SpanBounded, ServesLatest

\* Storing keeps the newest of every stream and nothing too far behind it.
LEMMA StoreKeepsSpan ==
    ASSUME IInv, NEW t \in Tasks, NEW body \in Bodies, Store(t, body)
    PROVE  HaveNewest(held)' /\ SpanBounded'
<1> DEFINE id == fetches[t][1]
<1>1. held' = Keeping(held, id) /\ id \in Streams \X Sequences
    BY StoreFacts DEF SegmentIds
<1>2. Sequences \in SUBSET Nat /\ held \in SUBSET (Streams \X Sequences)
    BY HeldType DEF IInv
<1>3. HaveNewest(held)
    BY DEF IInv
<1>4. /\ HaveNewest(Keeping(held, id))
      /\ \A newer, older \in Keeping(held, id) :
            newer[1] = older[1] => newer[2] - older[2] <= Retention
    BY <1>1, <1>2, <1>3, KeepingFacts
<1> QED BY <1>1, <1>4 DEF SpanBounded, HaveNewest, IsNewest

LEMMA StoreServesLatest ==
    ASSUME IInv, NEW t \in Tasks, NEW body \in Bodies, Store(t, body)
    PROVE  ServesLatest'
<1> DEFINE file == fetches[t]
           kept == Keeping(held, file[1])
<1>1. /\ file \in Files
      /\ file[1] \in SegmentIds /\ file[2] \in Exts
      /\ kept \subseteq held \cup {file[1]}
      /\ held' = kept
      /\ \A i \in kept : retained'[i] = IF i = file[1] THEN file[2]
                                        ELSE retained[i]
      /\ file[1] \in kept => disk'[file] = body
      /\ \A f \in Files : f[1] \in kept /\ f # file => disk'[f] = disk[f]
    BY StoreFacts
<1>2. stored' = [stored EXCEPT ![file[1]] = body]
    BY DEF Store
<1> SUFFICES ASSUME NEW i \in held'
             PROVE  /\ disk'[<<i, retained'[i]>>] = stored'[i]
                    /\ stored'[i] # Missing
    BY DEF ServesLatest
<1>4. CASE i = file[1]
  <2>1. <<i, retained'[i]>> = file
      BY <1>1, <1>4 DEF Files
  <2>2. stored'[i] = body
      BY <1>1, <1>2, <1>4 DEF IInv, TypeOK
  <2> QED BY <1>1, <1>4, <2>1, <2>2, NodeCacheAssumption
<1>5. CASE i # file[1]
  <2>1. i \in held /\ i \in kept /\ retained'[i] = retained[i]
      BY <1>1, <1>5
  <2>2. <<i, retained[i]>> \in Files /\ <<i, retained[i]>> # file
      BY <1>5, <2>1 DEF IInv, TypeOK, Files
  <2>3. disk'[<<i, retained[i]>>] = disk[<<i, retained[i]>>]
      BY <1>1, <2>1, <2>2
  <2>4. stored'[i] = stored[i]
      BY <1>2, <1>5, <2>1 DEF IInv, TypeOK
  <2> QED BY <2>1, <2>3, <2>4 DEF IInv, ServesLatest
<1> QED BY <1>4, <1>5

LEMMA StoreFailsServesLatest ==
    ASSUME IInv, NEW t \in Tasks, StoreFails(t)
    PROVE  ServesLatest'
<1> DEFINE file == fetches[t]
           onRecord == file[1] \in held /\ retained[file[1]] = file[2]
<1>1. /\ file \in Files /\ file = <<file[1], file[2]>>
      /\ file[1] \in SegmentIds
      /\ disk \in [Files -> Bodies \cup {Torn, Missing}]
      /\ stored \in [SegmentIds -> Bodies \cup {Torn, Missing}]
      /\ \A i \in held : i \in SegmentIds /\ <<i, retained[i]>> \in Files
    BY DEF StoreFails, Ends, IInv, TypeOK, Files
<1>2. retained' = retained
    BY DEF StoreFails
<1>3. CASE disk' = disk /\ stored' = stored
    BY <1>2, <1>3 DEF IInv, ServesLatest
<1>4. CASE /\ disk' = [disk EXCEPT ![file] = Torn]
           /\ stored' = [stored EXCEPT ![file[1]] =
                             IF onRecord THEN Torn ELSE stored[file[1]]]
  <2> SUFFICES ASSUME NEW i \in held
               PROVE  /\ disk'[<<i, retained[i]>>] = stored'[i]
                      /\ stored'[i] # Missing
      BY <1>2 DEF ServesLatest
  <2>1. disk[<<i, retained[i]>>] = stored[i] /\ stored[i] # Missing
      BY DEF IInv, ServesLatest
  <2>2. CASE <<i, retained[i]>> = file
    <3>1. i = file[1] /\ onRecord
        BY <2>2
    <3> QED BY <1>1, <1>4, <2>2, <3>1, NodeCacheAssumption
  <2>3. CASE <<i, retained[i]>> # file
    <3>1. disk'[<<i, retained[i]>>] = disk[<<i, retained[i]>>]
        BY <1>1, <1>4, <2>3
    <3>2. i = file[1] => ~onRecord
        BY <1>1, <2>3
    <3>3. stored'[i] = stored[i]
        BY <1>1, <1>4, <3>2
    <3> QED BY <2>1, <3>1, <3>3
  <2> QED BY <2>2, <2>3
<1> QED BY <1>3, <1>4 DEF StoreFails

LEMMA NextIInv == IInv /\ [Next]_vars => IInv'
<1> SUFFICES ASSUME IInv, [Next]_vars
             PROVE  IInv'
    OBVIOUS
<1>t. TypeOK'
    BY NextTypeOK
<1>1. ASSUME NEW t \in Tasks, NEW body \in Bodies, Store(t, body)
      PROVE  IInv'
    BY <1>t, <1>1, StoreKeepsSpan, StoreServesLatest DEF IInv
<1>2. ASSUME NEW t \in Tasks, StoreFails(t)
      PROVE  IInv'
    BY <1>t, <1>2, StoreFailsServesLatest
       DEF IInv, StoreFails, HaveNewest, IsNewest, SpanBounded
<1>3. CASE Restart
  <2>1. held' = {}
      BY <1>3 DEF Restart
  <2> QED BY <1>t, <2>1 DEF IInv, HaveNewest, SpanBounded, ServesLatest
<1>4. CASE UNCHANGED <<retained, disk, stored>>
    BY <1>t, <1>4
       DEF IInv, HaveNewest, IsNewest, SpanBounded, ServesLatest
<1> QED BY <1>1, <1>2, <1>3, <1>4
        DEF Next, BeginFetch, FetchFails, GetSegment, vars

THEOREM Invariant == Spec => []IInv
BY InitIInv, NextIInv, PTL DEF Spec

\* Type correctness of the data plane, for every instance.
THEOREM TypeCorrect == Spec => []TypeOK
<1>1. IInv => TypeOK
    BY DEF IInv
<1> QED BY <1>1, Invariant, PTL

\* A node can serve what it reports: see ServesLatest.
THEOREM ServesLatestHolds == Spec => []ServesLatest
<1>1. IInv => ServesLatest
    BY DEF IInv
<1> QED BY <1>1, Invariant, PTL

\* The cache is bounded by the retention, whatever is fetched in what order.
THEOREM SpanBoundedHolds == Spec => []SpanBounded
<1>1. IInv => SpanBounded
    BY DEF IInv
<1> QED BY <1>1, Invariant, PTL

\* A running node gives a segment up only for a much newer one of its stream.
THEOREM LeavesOnlyBehindHolds == Spec => LeavesOnlyBehind
<1> DEFINE Step == restarts' = restarts =>
                      \A id \in held \ held' :
                          \E newer \in held' :
                              newer[1] = id[1] /\ newer[2] - id[2] > Retention
<1>1. IInv /\ [Next]_vars => Step
  <2> SUFFICES ASSUME IInv, [Next]_vars
               PROVE  Step
      OBVIOUS
  <2>1. ASSUME NEW t \in Tasks, NEW body \in Bodies, Store(t, body)
        PROVE  Step
    <3> DEFINE id == fetches[t][1]
    <3>1. held' = Keeping(held, id) /\ id \in Streams \X Sequences
        BY <2>1, StoreFacts DEF SegmentIds
    <3>2. /\ Sequences \in SUBSET Nat /\ held \in SUBSET (Streams \X Sequences)
          /\ HaveNewest(held)
        BY HeldType DEF IInv
    <3>3. \A lost \in (held \cup {id}) \ Keeping(held, id) :
             \E newer \in Keeping(held, id) :
                 newer[1] = lost[1] /\ newer[2] - lost[2] > Retention
        BY <3>1, <3>2, KeepingFacts
    <3> QED BY <3>1, <3>3
  <2>2. CASE Restart
      BY <2>2, NodeCacheAssumption DEF Restart, IInv, TypeOK
  <2>3. CASE UNCHANGED retained
      BY <2>3
  <2> QED BY <2>1, <2>2, <2>3
          DEF Next, BeginFetch, FetchFails, StoreFails, GetSegment, vars
<1> QED BY <1>1, Invariant, PTL DEF Spec, LeavesOnlyBehind

-----------------------------------------------------------------------------
(* The refinement *)

LEMMA InitImplements == Init => HeldIds!HeldInit
BY DEF Init, HeldIds!HeldInit

LEMMA StepImplements ==
    ASSUME IInv, [Next]_vars
    PROVE  \/ held' = held
           \/ held' = {}
           \/ \E id \in SegmentIds : held' = HeldIds!Kept(held \cup {id})
<1>1. ASSUME NEW t \in Tasks, NEW body \in Bodies, Store(t, body)
      PROVE  \E id \in SegmentIds : held' = HeldIds!Kept(held \cup {id})
  <2> DEFINE id == fetches[t][1]
  <2>1. id \in SegmentIds /\ held' = Keeping(held, id)
      BY <1>1, StoreFacts
  <2>2. /\ Sequences \in SUBSET Nat /\ held \in SUBSET (Streams \X Sequences)
        /\ HaveNewest(held) /\ id \in Streams \X Sequences
      BY <2>1, HeldType DEF IInv, SegmentIds
  <2> HIDE DEF id
  <2>3. Keeping(held, id) =
           {old \in held \cup {id} :
               ~\E newer \in held \cup {id} :
                   newer[1] = old[1] /\ newer[2] - old[2] > Retention}
      BY <2>2, KeepingDeclared
  <2>4. Keeping(held, id) = HeldIds!Kept(held \cup {id})
      BY <2>3, Zenon DEF HeldIds!Kept, HeldIds!TooFarBehind
  <2> QED BY <2>1, <2>4
<1>2. CASE Restart
    BY <1>2 DEF Restart
<1>3. CASE UNCHANGED retained
    BY <1>3
<1> QED BY <1>1, <1>2, <1>3
        DEF Next, BeginFetch, FetchFails, StoreFails, GetSegment, vars

\* The node, with its map, files, tasks and failures, implements the set of ids
\* that the running system takes its cache to be.
THEOREM HeldSetImplemented == Spec => ImplementsHeldSet
<1> DEFINE ids == [n \in {ThisNode} |-> held]
<1>1. IInv /\ [Next]_vars => [HeldIds!HeldNext]_ids
  <2> SUFFICES ASSUME IInv, [Next]_vars
               PROVE  HeldIds!HeldNext \/ ids' = ids
      OBVIOUS
  <2>1. CASE held' = held
      BY <2>1
  <2>2. CASE held' = {}
      BY <2>2 DEF HeldIds!HeldNext, HeldIds!Lose
  <2>3. ASSUME NEW id \in SegmentIds, held' = HeldIds!Kept(held \cup {id})
        PROVE  HeldIds!HeldNext
      BY <2>3 DEF HeldIds!HeldNext, HeldIds!Keep
  <2> QED BY <2>1, <2>2, <2>3, StepImplements
<1> QED BY <1>1, InitImplements, Invariant, PTL
        DEF Spec, ImplementsHeldSet, HeldIds!HeldSpec
=============================================================================
