--------------------------- MODULE MCThreadResponse ---------------------------
(***************************************************************************)
(* Instances of ThreadResponse for TLC.                                    *)
(***************************************************************************)
EXTENDS ThreadResponseProperties, TLC

CONSTANTS c1, c2, n1, n2

TwoLoaded == {c1, c2}
TwoReplies == {n1, n2}

Symmetry == Permutations(TwoLoaded) \cup Permutations(TwoReplies)
=============================================================================
