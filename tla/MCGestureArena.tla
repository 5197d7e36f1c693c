--------------------------- MODULE MCGestureArena ---------------------------
(***************************************************************************)
(* PointerArena on a 2 x 2 window, with positions inside it, on its far    *)
(* edge and outside of it.                                                 *)
(***************************************************************************)
EXTENDS PointerArena

CONSTANT mouse

OnePointer == {mouse}

SomePositions == {<<0, 0>>, <<2, 2>>, <<3, 1>>, <<-1, 4>>}
=============================================================================
