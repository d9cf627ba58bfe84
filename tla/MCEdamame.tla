------------------------------ MODULE MCEdamame ------------------------------
(* Small instances of the running system for TLC. *)
EXTENDS Edamame, TLC

MCOneNode == {1}
MCLoads == {0}
MCOneSequence == {0}
MCTwoSequences == 0..1
MCThreeSequences == 0..2

\* No operator tells one rendition from another, or one handler.
NameSymmetry == Permutations(Streams) \cup Permutations(Threads)
==============================================================================
