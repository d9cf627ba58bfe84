--------------------------- MODULE ManifestProofs ---------------------------
(***************************************************************************)
(* Facts about the live window and the media playlists cut out of it, for  *)
(* every window size and every set of committed sequence numbers.          *)
(***************************************************************************)
EXTENDS Manifest, FiniteSetTheorems, WellFoundedInduction, TLAPS

\* A set with a greatest element: every committed set is empty or has one.
HasMax(S) == \E m \in S : \A s \in S : m >= s

\* The live edge is the greatest committed sequence and is always listed.
LEMMA EdgeIsPresent ==
    ASSUME NEW S \in SUBSET Nat, HasMax(S)
    PROVE  /\ LiveEdge(S) \in Present(S)
           /\ LiveEdge(S) \in Nat
           /\ \A s \in S : s <= LiveEdge(S)
           /\ HasMax(Present(S))
           /\ Max(Present(S)) = LiveEdge(S)
<1> DEFINE edge == LiveEdge(S)
<1>1. edge \in S /\ \A s \in S : s <= edge
    BY DEF LiveEdge, Max, HasMax
<1>2. edge \in Nat /\ WindowSize \in Nat
    BY <1>1, WindowAssumption
<1>3. edge \in LiveRange(edge)
    BY <1>2, WindowAssumption DEF LiveRange, LiveStart, SatSub
<1>4. edge \in Present(S)
    BY <1>1, <1>3 DEF Present
<1>5. \A s \in Present(S) : s <= edge /\ s \in Nat
    BY <1>1 DEF Present
<1> HIDE DEF edge
<1>6. HasMax(Present(S))
    BY <1>4, <1>5 DEF HasMax
<1>7. Max(Present(S)) = edge
  <2>1. /\ Max(Present(S)) \in Present(S)
        /\ \A s \in Present(S) : Max(Present(S)) >= s
      BY <1>6 DEF Max, HasMax
  <2>2. Max(Present(S)) \in Nat /\ Max(Present(S)) <= edge
      BY <1>5, <2>1
  <2>3. Max(Present(S)) >= edge
      BY <1>4, <2>1
  <2> QED BY <1>2, <2>2, <2>3
<1> QED BY <1>1, <1>2, <1>4, <1>6, <1>7 DEF edge

LEMMA MinOfNaturals ==
    ASSUME NEW T \in SUBSET Nat, T # {}
    PROVE  Min(T) \in T /\ \A t \in T : Min(T) <= t
<1>1. \E m \in T : \A t \in T : <<t, m>> \notin OpToRel(<, Nat)
    BY NatLessThanWellFounded, WFMin
<1>2. ASSUME NEW m \in Nat, NEW t \in Nat, <<t, m>> \notin OpToRel(<, Nat)
      PROVE  m <= t
  <2>1. <<t, m>> \in Nat \X Nat /\ <<t, m>>[1] = t /\ <<t, m>>[2] = m
      OBVIOUS
  <2>2. ~(t < m)
      BY <1>2, <2>1 DEF OpToRel
  <2> QED BY <2>2
<1>3. \E m \in T : \A t \in T : m <= t
    BY <1>1, <1>2
<1> QED BY <1>3 DEF Min

\* A playlist never lists more than a window.
LEMMA PresentFitsWindow ==
    ASSUME NEW S \in SUBSET Nat, HasMax(S)
    PROVE  Cardinality(Present(S)) <= WindowSize
<1> DEFINE edge == LiveEdge(S)
<1>1. edge \in Nat /\ WindowSize \in Nat /\ WindowSize >= 1
    BY EdgeIsPresent, WindowAssumption
<1>2. LiveStart(edge) \in Nat /\ edge - LiveStart(edge) + 1 <= WindowSize
      /\ LiveStart(edge) <= edge
    BY <1>1 DEF LiveStart, SatSub
<1>3. /\ IsFiniteSet(LiveRange(edge))
      /\ Cardinality(LiveRange(edge)) <= WindowSize
    BY <1>1, <1>2, FS_Interval DEF LiveRange
<1>4. Present(S) \in SUBSET LiveRange(edge)
    BY DEF Present
<1>5. /\ Cardinality(Present(S)) <= Cardinality(LiveRange(edge))
      /\ Cardinality(Present(S)) \in Nat
      /\ Cardinality(LiveRange(edge)) \in Nat
    BY <1>3, <1>4, FS_Subset, FS_CardinalityType
<1> QED BY <1>1, <1>3, <1>5

\* Two gap-free windows with the same ends list the same sequences: comparing
\* the ends, as regenerate does, is enough.
LEMMA SameEndsSameWindow ==
    ASSUME NEW S \in SUBSET Nat, HasMax(S), NoGap(Present(S)),
           NEW T \in SUBSET Nat, HasMax(T), NoGap(Present(T)),
           Min(Present(S)) = Min(Present(T)),
           Max(Present(S)) = Max(Present(T))
    PROVE  Present(S) = Present(T)
<1>1. ASSUME NEW U \in SUBSET Nat, HasMax(U), NoGap(Present(U))
      PROVE  Present(U) = Min(Present(U))..Max(Present(U))
  <2>1. Present(U) \in SUBSET Nat /\ Present(U) # {}
      BY <1>1, EdgeIsPresent DEF Present
  <2>2. \A u \in Present(U) : Min(Present(U)) <= u
      BY <2>1, MinOfNaturals
  <2>3. \A u \in Present(U) : u <= Max(Present(U))
      BY <1>1, EdgeIsPresent DEF Present
  <2>4. \A u \in Min(Present(U))..Max(Present(U)) : u \in Present(U)
      BY <1>1 DEF NoGap
  <2>5. Min(Present(U)) \in Nat /\ Max(Present(U)) \in Nat
      BY <1>1, <2>1, MinOfNaturals, EdgeIsPresent
  <2>6. \A u \in Present(U) : u \in Min(Present(U))..Max(Present(U))
      BY <2>1, <2>2, <2>3, <2>5
  <2> QED BY <2>4, <2>6
<1> QED BY <1>1

\* What is committed and not listed has fallen out at the old end.
LEMMA UnlistedIsOlder ==
    ASSUME NEW S \in SUBSET Nat, HasMax(S), NEW s \in S \ Present(S),
           NEW q \in Present(S)
    PROVE  s < q
<1> DEFINE edge == LiveEdge(S)
<1>1. edge \in Nat /\ s <= edge /\ s \in Nat
    BY EdgeIsPresent
<1>2. LiveStart(edge) \in Nat
    BY <1>1, WindowAssumption DEF LiveStart, SatSub
<1>3. ~(LiveStart(edge) <= s)
    BY <1>1, <1>2 DEF Present, LiveRange
<1>4. q \in Nat /\ LiveStart(edge) <= q
    BY <1>1, <1>2 DEF Present, LiveRange
<1> QED BY <1>1, <1>2, <1>3, <1>4

\* generate_media_playlist looks for gaps by counting: the listed sequences are
\* as many as the distance from the first of them to the live edge says.
CountIsComplete(S) ==
    Cardinality(Present(S)) = LiveEdge(S) - Min(Present(S)) + 1

\* The count of the code finds a gap exactly when there is one, and what is
\* counted is finite and never empty, so that the first and the subtraction
\* of the code are defined.
THEOREM CountFindsGaps ==
    ASSUME NEW S \in SUBSET Nat, HasMax(S)
    PROVE  /\ IsFiniteSet(Present(S)) /\ Present(S) # {}
           /\ Min(Present(S)) \in Nat /\ Min(Present(S)) <= LiveEdge(S)
           /\ NoGap(Present(S)) <=> CountIsComplete(S)
<1> DEFINE T == Present(S)
           first == Min(T)
           edge == LiveEdge(S)
<1>1. T \in SUBSET Nat /\ T # {} /\ edge \in T /\ Max(T) = edge
    BY EdgeIsPresent DEF Present
<1>2. first \in T /\ \A t \in T : first <= t /\ t <= edge
    BY <1>1, MinOfNaturals, EdgeIsPresent DEF Present
<1>3. first \in Nat /\ edge \in Nat /\ first <= edge
    BY <1>1, <1>2
<1> HIDE DEF T, first, edge
<1>4. IsFiniteSet(first..edge) /\ Cardinality(first..edge) = edge - first + 1
    BY <1>3, FS_Interval
<1>5. T \in SUBSET (first..edge)
    BY <1>1, <1>2, <1>3
<1>6. IsFiniteSet(T) /\ (Cardinality(first..edge) = Cardinality(T) => T = first..edge)
    BY <1>4, <1>5, FS_Subset
<1>7. NoGap(T) <=> T = first..edge
    BY <1>1, <1>5 DEF NoGap, first
<1>8. NoGap(T) <=> Cardinality(T) = edge - first + 1
    BY <1>4, <1>6, <1>7
<1> QED BY <1>1, <1>3, <1>6, <1>8 DEF T, first, edge, CountIsComplete
=============================================================================
