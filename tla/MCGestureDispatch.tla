------------------------- MODULE MCGestureDispatch -------------------------
(***************************************************************************)
(* GestureDispatch on windows of one or two elements.                      *)
(***************************************************************************)
EXTENDS GestureDispatch

\* Two ticks for double_tap_timeout against three for the long press keep
\* the order of the defaults (300 ms, 500 ms); a press released and repeated
\* within one tick is under double_tap_min_time.
Centre == <<0, 0>>
Sideways == <<3, 0>>     \* beyond a slop of 2, along the horizontal axis
Upwards == <<0, 3>>      \* beyond it along the vertical one

TwoPlaces == {Centre, Sideways}
ThreePlaces == {Centre, Sideways, Upwards}

Nested == {"inner", "outer"}

Beside == {"left", "right"}

\* Two elements next to each other.
LeftOrRight(pos) == IF pos = Centre THEN <<"left">> ELSE <<"right">>

\* An element that reaches out of the one in front of it.
HitNested(pos) == IF pos = Upwards THEN <<"outer">> ELSE <<"inner", "outer">>

\* Axis drags compete with the taps of one element and the pan of another.
Mixed ==
  [w \in Nested |-> IF w = "inner" THEN <<"Tap", "HorizontalDrag", "LongPress">>
                    ELSE <<"DoubleTap", "Pan", "Scale">>]

\* The hypothesis of the theorems about one winner holds of these windows.
ASSUME WindowsHaveFewLongPresses == FewLongPresses

TwoDoubleTaps == [w \in Beside |-> <<"Tap", "DoubleTap">>]
=============================================================================
