----------------------------- MODULE MCRegistry -----------------------------
(* Small instances of the registry for TLC. *)
EXTENDS Registry, TLC

MCNodeIds == 1..2
MCOneNode == {1}
MCLoads == {0, 1}
MCSequences == 0..1
MCOneSequence == {0}
=============================================================================
