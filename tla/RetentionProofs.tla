--------------------------- MODULE RetentionProofs ---------------------------
(***************************************************************************)
(* What NodeCache::evict leaves and takes, for any retention and any set   *)
(* of held segments in which every stream has a newest one.                *)
(***************************************************************************)
EXTENDS Retention, TLAPS

\* "top" is the newest of its stream among the ids in "held".
IsNewest(held, top) ==
    \A other \in held : other[1] = top[1] => other[2] <= top[2]

\* Needed to know what CHOOSE yields in NodeEdge.
HaveNewest(held) ==
    \A id \in held : \E top \in held : top[1] = id[1] /\ IsNewest(held, top)

LEMMA EdgeOfNewest ==
    ASSUME NEW S, NEW Q \in SUBSET Nat, NEW held \in SUBSET (S \X Q),
           NEW top \in held, IsNewest(held, top)
    PROVE  NodeEdge(held, top[1]) = top[2]
<1> DEFINE seqs == {id[2] : id \in HeldOf(held, top[1])}
<1>1. top[2] \in seqs
    BY DEF HeldOf
<1>2. \A s \in seqs : s \in Nat /\ s <= top[2]
    BY DEF HeldOf, IsNewest
<1>3. \A x \in seqs : (\A s \in seqs : x >= s) => x = top[2]
    BY <1>1, <1>2
<1>4. \A s \in seqs : top[2] >= s
    BY <1>1, <1>2
<1>5. Max(seqs) = top[2]
    BY <1>1, <1>3, <1>4 DEF Max
<1> QED BY <1>5 DEF NodeEdge

\* One more segment, and every stream still has a newest one.
LEMMA NewestOfMore ==
    ASSUME NEW S, NEW Q \in SUBSET Nat, NEW held \in SUBSET (S \X Q),
           NEW id \in S \X Q, HaveNewest(held)
    PROVE  HaveNewest(held \cup {id})
<1> DEFINE more == held \cup {id}
<1>0. \A other \in more : other[2] \in Nat
    OBVIOUS
<1> SUFFICES ASSUME NEW i \in more
             PROVE  \E top \in more : top[1] = i[1] /\ IsNewest(more, top)
    BY DEF HaveNewest
<1>1. CASE i[1] # id[1]
  <2>1. PICK top \in held : top[1] = i[1] /\ IsNewest(held, top)
      BY <1>1 DEF HaveNewest
  <2>2. IsNewest(more, top)
      BY <1>1, <2>1 DEF IsNewest
  <2> QED BY <2>1, <2>2
<1>2. CASE i[1] = id[1] /\ \E top \in held : top[1] = id[1]
  <2>1. PICK top \in held : top[1] = id[1] /\ IsNewest(held, top)
      BY <1>2 DEF HaveNewest
  <2>2. CASE id[2] <= top[2]
    <3>1. IsNewest(more, top)
        BY <2>1, <2>2 DEF IsNewest
    <3> QED BY <1>2, <2>1, <3>1
  <2>3. CASE ~(id[2] <= top[2])
    <3>1. IsNewest(more, id)
        BY <1>0, <2>1, <2>3 DEF IsNewest
    <3> QED BY <1>2, <3>1
  <2> QED BY <2>2, <2>3
<1>3. CASE i[1] = id[1] /\ ~\E top \in held : top[1] = id[1]
  <2>1. IsNewest(more, id)
      BY <1>0, <1>3 DEF IsNewest
  <2> QED BY <1>3, <2>1
<1> QED BY <1>1, <1>2, <1>3

\* A segment is evicted exactly if a held one of its stream is too far ahead.
LEMMA EvictedIsBehind ==
    ASSUME NEW S, NEW Q \in SUBSET Nat, NEW held \in SUBSET (S \X Q),
           HaveNewest(held), NEW id \in held
    PROVE  id \in Evicted(held) <=>
              \E newer \in held : newer[1] = id[1] /\ newer[2] - id[2] > Retention
<1>1. PICK top \in held : top[1] = id[1] /\ IsNewest(held, top)
    BY DEF HaveNewest
<1>2. NodeEdge(held, id[1]) = top[2]
    BY <1>1, EdgeOfNewest
<1>3. id \in Evicted(held) <=> id[2] < SatSub(top[2], Retention)
    BY <1>2 DEF Evicted, IsEvictable
<1>4. id[2] \in Nat /\ top[2] \in Nat
    OBVIOUS
<1>5. id[2] < SatSub(top[2], Retention) <=> top[2] - id[2] > Retention
    BY <1>4, RetentionAssumption DEF SatSub
<1>6. \A newer \in held :
         newer[1] = id[1] => newer[2] \in Nat /\ newer[2] <= top[2]
    BY <1>1 DEF IsNewest
<1>7. ASSUME NEW newer \in held, newer[1] = id[1],
             newer[2] - id[2] > Retention
      PROVE  top[2] - id[2] > Retention
  <2>1. newer[2] \in Nat /\ newer[2] <= top[2]
      BY <1>6, <1>7
  <2> QED BY <1>4, <1>7, <2>1, RetentionAssumption
<1> QED BY <1>1, <1>3, <1>5, <1>7

\* The newest of a stream stays, whatever is evicted.
LEMMA NewestStays ==
    ASSUME NEW S, NEW Q \in SUBSET Nat, NEW held \in SUBSET (S \X Q),
           HaveNewest(held), NEW top \in held, IsNewest(held, top)
    PROVE  top \notin Evicted(held)
<1>1. \A newer \in held : newer[2] \in Nat
    OBVIOUS
<1>2. ASSUME NEW newer \in held, newer[1] = top[1]
      PROVE  ~(newer[2] - top[2] > Retention)
  <2>1. newer[2] \in Nat /\ top[2] \in Nat /\ newer[2] <= top[2]
      BY <1>1, <1>2 DEF IsNewest
  <2> QED BY <2>1, RetentionAssumption
<1> QED BY <1>2, EvictedIsBehind

\* What a node holds once it has stored a segment.
LEMMA KeepingFacts ==
    ASSUME NEW S, NEW Q \in SUBSET Nat, NEW held \in SUBSET (S \X Q),
           NEW id \in S \X Q, HaveNewest(held)
    PROVE  /\ Keeping(held, id) \subseteq held \cup {id}
           /\ HaveNewest(Keeping(held, id))
           /\ \A lost \in (held \cup {id}) \ Keeping(held, id) :
                 \E newer \in Keeping(held, id) :
                     newer[1] = lost[1] /\ newer[2] - lost[2] > Retention
           /\ \A newer, older \in Keeping(held, id) :
                 newer[1] = older[1] => newer[2] - older[2] <= Retention
<1> DEFINE more == held \cup {id}
           kept == Keeping(held, id)
<1>0. more \in SUBSET (S \X Q)
    OBVIOUS
<1>1. HaveNewest(more)
    BY NewestOfMore
<1>2. kept = more \ Evicted(more)
    BY DEF Keeping
<1>3. ASSUME NEW i \in more
      PROVE  \E top \in kept : top[1] = i[1] /\ IsNewest(more, top)
  <2>1. PICK top \in more : top[1] = i[1] /\ IsNewest(more, top)
      BY <1>1, <1>3 DEF HaveNewest
  <2>2. top \notin Evicted(more)
      BY <1>0, <1>1, <2>1, NewestStays
  <2> QED BY <1>2, <2>1, <2>2
<1>4. HaveNewest(kept)
  <2>1. \A top \in kept : IsNewest(more, top) => IsNewest(kept, top)
      BY <1>2 DEF IsNewest
  <2> QED BY <1>2, <1>3, <2>1 DEF HaveNewest
<1>5. ASSUME NEW lost \in more \ kept
      PROVE  \E newer \in kept :
                newer[1] = lost[1] /\ newer[2] - lost[2] > Retention
  <2>1. PICK newer \in more : newer[1] = lost[1] /\ newer[2] - lost[2] > Retention
      BY <1>0, <1>1, <1>2, <1>5, EvictedIsBehind
  <2>2. PICK top \in kept : top[1] = lost[1] /\ IsNewest(more, top)
      BY <1>3
  <2>3. newer[2] <= top[2]
      BY <2>1, <2>2 DEF IsNewest
  <2>4. newer[2] \in Nat /\ top[2] \in Nat /\ lost[2] \in Nat
      BY <1>0, <1>2
  <2> QED BY <2>1, <2>2, <2>3, <2>4, RetentionAssumption
<1>6. ASSUME NEW newer \in kept, NEW older \in kept, newer[1] = older[1]
      PROVE  newer[2] - older[2] <= Retention
  <2>1. ~(newer[2] - older[2] > Retention)
      BY <1>0, <1>1, <1>2, <1>6, EvictedIsBehind
  <2>2. newer[2] \in Nat /\ older[2] \in Nat
      BY <1>0, <1>2
  <2> QED BY <2>1, <2>2, RetentionAssumption
<1> QED BY <1>2, <1>4, <1>5, <1>6

\* What eviction does with edges and saturating arithmetic, said without them:
\* of the held and the stored, those stay that have nothing too far ahead.
LEMMA KeepingDeclared ==
    ASSUME NEW S, NEW Q \in SUBSET Nat, NEW held \in SUBSET (S \X Q),
           NEW id \in S \X Q, HaveNewest(held)
    PROVE  Keeping(held, id) =
              {old \in held \cup {id} :
                  ~\E newer \in held \cup {id} :
                      newer[1] = old[1] /\ newer[2] - old[2] > Retention}
<1> DEFINE more == held \cup {id}
<1>1. more \in SUBSET (S \X Q) /\ HaveNewest(more)
    BY NewestOfMore
<1>2. \A old \in more :
         old \in Evicted(more) <=>
            \E newer \in more : newer[1] = old[1] /\ newer[2] - old[2] > Retention
    BY <1>1, EvictedIsBehind
<1>3. Keeping(held, id) = more \ Evicted(more)
    BY DEF Keeping
<1> QED BY <1>2, <1>3
==============================================================================
