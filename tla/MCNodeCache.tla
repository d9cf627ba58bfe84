---------------------------- MODULE MCNodeCache ----------------------------
(* A small instance of one cache node for TLC. *)
EXTENDS NodeCache, TLC

CONSTANTS a, b, ts, mp4

MCSequences == 0..2

\* One id in two extensions, one far enough ahead of it, and another stream.
MCWanted == {<<<<a, 0>>, ts>>, <<<<a, 0>>, mp4>>, <<<<a, 2>>, ts>>, <<<<b, 0>>, ts>>}

\* No operator tells one body from another, or one task.
BodyTaskSymmetry == Permutations(Bodies) \cup Permutations(Tasks)
============================================================================
