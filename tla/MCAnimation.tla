----------------------------- MODULE MCAnimation -----------------------------
(***************************************************************************)
(* A controller from 0 to 4 whose way back is shorter than its way out, or *)
(* takes no time; or that takes none at all.  Styles are shorter than      *)
(* these, as long, or longer.                                              *)
(***************************************************************************)
EXTENDS Animation, TLC

SomeDurations == {<<2, 1>>, <<1, 0>>, <<0, None>>}
Middle == {2}
SomeTargets == {1, 6}
SomeStyles == {None, 0, 1, 3}
ThrowForward == 0 :> 0 @@ 1 :> 3 @@ 2 :> 5
AnyLogging == BOOLEAN
=============================================================================
