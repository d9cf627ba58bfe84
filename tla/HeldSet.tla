------------------------------ MODULE HeldSet ------------------------------
(***************************************************************************)
(* What cache nodes promise about the segments they hold, as sets of ids   *)
(* <<stream, sequence>>, without files, extensions, fetches or edges.      *)
(*                                                                         *)
(* Every segment that is stored counts at once, against the others and     *)
(* they against it; what is then too far behind a segment of its stream is *)
(* gone.  Nothing else is ever given up, except everything, by a restart.  *)
(***************************************************************************)
EXTENDS Integers

CONSTANTS Holders,     \* the nodes
          Ids,         \* the segments there may be
          Retention    \* how far behind another one a segment may be

VARIABLE held          \* the ids each node holds

HeldInit == held = [n \in Holders |-> {}]

TooFarBehind(id, others) ==
    \E newer \in others : newer[1] = id[1] /\ newer[2] - id[2] > Retention

Kept(ids) == {id \in ids : ~TooFarBehind(id, ids)}

Keep(n, id) == held' = [held EXCEPT ![n] = Kept(held[n] \cup {id})]

Lose(n) == held' = [held EXCEPT ![n] = {}]

HeldNext ==
    \E n \in Holders :
        \/ Lose(n)
        \/ \E id \in Ids : Keep(n, id)

HeldSpec == HeldInit /\ [][HeldNext]_held
=============================================================================
