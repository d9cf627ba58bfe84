------------------------------ MODULE MCOrigin ------------------------------
(* Small instances of the origin for TLC. *)
EXTENDS Origin, TLC

CONSTANTS b1, b2, b3

MCOneSequence == {0}
MCTwoSequences == 0..1
MCFourSequences == 0..3

\* b1 and b3 collide.
MCHash == (b1 :> 1) @@ (b2 :> 2) @@ (b3 :> 1)
MCHashApart == (b1 :> 1) @@ (b2 :> 2)
MCHashOne == (b1 :> 1)

MCAllFiles == Files

\* No operator tells one rendition from another.
RenditionSymmetry == Permutations(Renditions)
=============================================================================
