---------------------------- MODULE PointerInput ----------------------------
(***************************************************************************)
(* PointerSanitizer::convert (gesture/dispatch.rs): what a window makes of *)
(* one platform mouse event before the recognizers see it.  The desktop    *)
(* has one pointer, DESKTOP_MOUSE_POINTER.                                 *)
(*                                                                         *)
(* A position is a pair of integers; one unit stands for at least          *)
(* DUPLICATE_DOWN_SLOP_PX, so a Down repeats the last one iff the two      *)
(* positions are equal.  Modifiers, pressure, deltas and timestamps are    *)
(* left out: nothing here or in the recognizers branches on them.          *)
(***************************************************************************)
EXTENDS Integers, Sequences

CONSTANTS
  Width, Height,    \* the window's content bounds
  Positions         \* the positions the platform reports

ASSUME BoundsAssumption == Width \in Nat /\ Height \in Nat
ASSUME PositionsAssumption == Positions \subseteq Int \X Int

\* mouse_button_to_pointer_buttons: a navigation button has no bit.
ButtonBits(b) == IF b = "navigate" THEN {} ELSE {b}

Buttons == {"primary", "secondary", "navigate"}

\* WindowPointerState, with the fields the conversion branches on.
SanitizerStates(positions) ==
  [buttons : SUBSET {"primary", "secondary"},
   mouse_down : BOOLEAN,
   last_down : positions]

NoPress == [buttons |-> {}, mouse_down |-> FALSE, last_down |-> <<0, 0>>]

Clamped(x, hi) == IF x < 0 THEN 0 ELSE IF x > hi THEN hi ELSE x

\* clamp_to_bounds; bounds that are not known yet let everything through.
Clamp(pos) ==
  IF Width = 0 \/ Height = 0 THEN pos
  ELSE <<Clamped(pos[1], Width), Clamped(pos[2], Height)>>

Event(phase, pos, buttons) == [phase |-> phase, pos |-> pos, buttons |-> buttons]

-----------------------------------------------------------------------------
(* translate_one, phase by phase: the event and the state it leaves.       *)

\* As if a press did not remember where it began.
MouseDownAnywhere(b, pos, s) ==
  LET held == s.buttons \cup ButtonBits(b)
  IN  [event |-> Event("Down", Clamp(pos), held),
       state |-> [s EXCEPT !.buttons = held, !.mouse_down = TRUE]]

MouseDown(b, pos, s) ==
  LET held == s.buttons \cup ButtonBits(b)
  IN  [event |-> Event("Down", Clamp(pos), held),
       state |-> [buttons |-> held, mouse_down |-> TRUE,
                  last_down |-> Clamp(pos)]]

\* The press lasts until its last button is released, but every release is
\* reported as an Up.
MouseUp(b, pos, s) ==
  LET held == s.buttons \ ButtonBits(b)
  IN  [event |-> Event("Up", Clamp(pos), held),
       state |-> [s EXCEPT !.buttons = held,
                           !.mouse_down = s.mouse_down /\ held # {}]]

\* `pressed': the platform says a button is down (a MouseMove with a
\* pressed_button, or a MousePressure, which is always a Move).
MouseMove(pressed, pos, s) ==
  [event |-> Event(IF s.mouse_down \/ pressed THEN "Move" ELSE "Hover",
                   Clamp(pos), s.buttons),
   state |-> s]

\* The device left the window; a press in progress is not forgotten.
MouseExit(pos, s) ==
  [event |-> Event("Removed", Clamp(pos), s.buttons), state |-> s]

Translate(in, s) ==
  CASE in.type = "MouseDown" -> MouseDown(in.button, in.pos, s)
    [] in.type = "MouseUp"   -> MouseUp(in.button, in.pos, s)
    [] in.type = "MouseMove" -> MouseMove(in.pressed, in.pos, s)
    [] in.type = "MouseExit" -> MouseExit(in.pos, s)

-----------------------------------------------------------------------------
\* As if no Cancel were synthesized.
ConvertWithoutCancel(in, s) ==
  LET t == Translate(in, s)
  IN  IF in.type = "MouseDown" /\ s.mouse_down /\ in.pos = s.last_down
      THEN [events |-> <<>>, state |-> s]
      ELSE [events |-> <<t.event>>, state |-> t.state]

\* A repeated Down is dropped; a Down during a press first cancels it.
\* Nobody reads the position of a Cancel (last_mouse_position in the code).
Convert(in, s) ==
  IF in.type = "MouseDown" /\ s.mouse_down
  THEN IF in.pos = s.last_down
       THEN [events |-> <<>>, state |-> s]
       ELSE LET t == Translate(in, [s EXCEPT !.mouse_down = FALSE, !.buttons = {}])
            IN  [events |-> <<Event("Cancel", s.last_down, s.buttons), t.event>>,
                 state |-> t.state]
  ELSE LET t == Translate(in, s) IN [events |-> <<t.event>>, state |-> t.state]
=============================================================================
