--------------------------- MODULE MCDragAndDrop ---------------------------
(***************************************************************************)
(* Instances of DragAndDrop for TLC.                                       *)
(***************************************************************************)
EXTENDS DragAndDropProperties

CONSTANTS atom, box, f1, f2, t1

\* A box with two fields on it, a reusable atom with one.
TwoDraggables == <<box, atom>>
TwoFields == [d \in {box, atom} |-> IF d = box THEN <<f1, f2>> ELSE <<f1>>]
OneBase == <<t1>>
ReusableAtom == {atom}
=============================================================================
