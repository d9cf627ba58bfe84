------------------------------ MODULE Retention ------------------------------
(***************************************************************************)
(* What a cache node keeps: LiveWindow::is_evictable of domain/window.rs   *)
(* and the choice NodeCache::evict makes with it, as pure operators on     *)
(* sets of held segment ids <<stream, sequence>>.  The edge is the node's  *)
(* own: the highest sequence it holds of the stream, whatever the core's.  *)
(***************************************************************************)
EXTENDS U64, FiniteSetsExt

CONSTANT Retention      \* NodeCache::retention_window

ASSUME RetentionAssumption == Retention \in Nat

\* Wrong on purpose: off by one.
IsEvictable_Inclusive(edge, sequence) == sequence <= SatSub(edge, Retention)

IsEvictable(edge, sequence) == sequence < SatSub(edge, Retention)

HeldOf(held, stream) == {id \in held : id[1] = stream}

NodeEdge(held, stream) == Max({id[2] : id \in HeldOf(held, stream)})

\* Wrong on purpose: one edge for the node instead of one per rendition.
Evicted_OneEdge(held) ==
    {id \in held : IsEvictable(Max({other[2] : other \in held}), id[2])}

\* NodeCache::evict: what is too far behind the edge of its own stream.
Evicted(held) ==
    {id \in held : IsEvictable(NodeEdge(held, id[1]), id[2])}

\* Wrong on purpose: evicts before the new segment counts.
Keeping_EvictsFirst(held, id) == (held \ Evicted(held)) \cup {id}

\* The ids held once a segment has been stored: NodeCache::store.
Keeping(held, id) ==
    LET stored == held \cup {id}
    IN  stored \ Evicted(stored)
==============================================================================
