---------------------------- MODULE Recognizers ----------------------------
(***************************************************************************)
(* The built-in gesture recognizers (gesture/recognizers), as functions of *)
(* their state and of one call: add_pointer, handle_event, sweep_accepted, *)
(* rejected and, for the long press, its timer.  The desktop has a single  *)
(* pointer, so a recognizer tracks it or is Idle.                          *)
(*                                                                         *)
(* Time is counted in ticks: one tick is more than double_tap_min_time     *)
(* long.  Positions are pairs of integers in units of a slop's fraction.   *)
(***************************************************************************)
EXTENDS Integers

CONSTANTS
  Slop,            \* touch_slop, pan_slop and long_press_slop
  DoubleTapMin,    \* double_tap_min_time, in ticks
  DoubleTapMax,    \* double_tap_timeout
  LongPressTime    \* long_press_timeout

ASSUME SettingsAssumption ==
  /\ Slop \in Nat
  /\ DoubleTapMin \in Nat /\ DoubleTapMax \in Nat /\ LongPressTime \in Nat \ {0}
  /\ DoubleTapMin < DoubleTapMax

Kinds == {"Tap", "DoubleTap", "LongPress",
          "Pan", "HorizontalDrag", "VerticalDrag", "Scale"}

DragKinds == {"Pan", "HorizontalDrag", "VerticalDrag"}

\* What is not reset is written by add_pointer before it is read again.
Fresh(kind) ==
  [kind |-> kind,
   st |-> "Idle",        \* Idle: `pointer' is None
   at |-> <<0, 0>>,      \* down_position, first_position
   pending |-> FALSE,    \* Tap: pending_up is Some
   firstUp |-> 0,        \* DoubleTap: ticks since first_up_time, plus 1
   accepted |-> FALSE,   \* LongPress
   timer |-> 0,          \* LongPress: ticks until its task is due, plus 1
   slot |-> 0]           \* LongPress: the entry index of pointer_indexes, plus 1

Reset(r) == Fresh(r.kind)

States(positions, slots) ==
  [kind : Kinds,
   st : {"Idle", "Down", "AwaitSecond", "SecondDown", "Accepted"},
   at : positions, pending : BOOLEAN, firstUp : 0 .. DoubleTapMax + 2,
   accepted : BOOLEAN, timer : 0 .. LongPressTime + 1, slot : slots]

-----------------------------------------------------------------------------
Dx(a, b) == IF a[1] > b[1] THEN a[1] - b[1] ELSE b[1] - a[1]
Dy(a, b) == IF a[2] > b[2] THEN a[2] - b[2] ELSE b[2] - a[2]

Far(a, b) == Dx(a, b) * Dx(a, b) + Dy(a, b) * Dy(a, b) > Slop * Slop

Along(near, across) == near > Slop /\ near > 2 * across

\* axis_passes_slop
PassesSlop(kind, a, b) ==
  CASE kind = "Pan" -> Far(a, b)
    [] kind = "HorizontalDrag" -> Along(Dx(a, b), Dy(a, b))
    [] kind = "VerticalDrag" -> Along(Dy(a, b), Dx(a, b))

\* axis_rejected
AxisRejected(kind, a, b) ==
  CASE kind = "Pan" -> FALSE
    [] kind = "HorizontalDrag" -> Along(Dy(a, b), Dx(a, b))
    [] kind = "VerticalDrag" -> Along(Dx(a, b), Dy(a, b))

-----------------------------------------------------------------------------
(* An answer: the recognizer's new state, the disposition it returns and   *)
(* the callback it calls.                                                  *)

Answer(r, verdict, calls) == [r |-> r, verdict |-> verdict, calls |-> calls]
Possible(r) == Answer(r, "Possible", "none")
Quit(r) == Answer(Reset(r), "Rejected", "none")

Tap(r, ev) ==
  CASE ev.phase = "Down" -> Answer(r, "Possible", "tap_down")
    [] ev.phase = "Move" -> IF Far(ev.pos, r.at) THEN Quit(r) ELSE Possible(r)
    [] ev.phase = "Up" -> Possible([r EXCEPT !.pending = TRUE])
    [] ev.phase \in {"Cancel", "Removed"} ->
         Answer(Reset(r), "Rejected", "tap_cancel")
    [] OTHER -> Possible(r)

\* The second Down is in the window and near the first.
SecondInWindow(r, pos) ==
  /\ r.firstUp - 1 >= DoubleTapMin
  /\ r.firstUp - 1 <= DoubleTapMax
  /\ ~Far(pos, r.at)

DoubleTap(r, ev) ==
  CASE ev.phase = "Cancel" -> Quit(r)
    [] ev.phase = "Move" /\ r.st \in {"Down", "SecondDown"} ->
         IF Far(ev.pos, r.at) THEN Quit(r) ELSE Possible(r)
    [] ev.phase = "Up" /\ r.st = "Down" ->
         Possible([r EXCEPT !.st = "AwaitSecond", !.firstUp = 1])
    [] ev.phase = "Down" /\ r.st = "AwaitSecond" ->
         IF SecondInWindow(r, ev.pos)
         THEN Possible([r EXCEPT !.st = "SecondDown"]) ELSE Quit(r)
    [] ev.phase = "Up" /\ r.st = "SecondDown" ->
         Answer(Reset(r), "Accepted", "double_tap")
    [] OTHER -> Possible(r)

\* A Down replaces the timer task: the old one is dropped.
LongPress(r, ev) ==
  CASE ev.phase = "Down" -> Possible([r EXCEPT !.timer = LongPressTime + 1])
    [] ev.phase = "Move" ->
         IF Far(ev.pos, r.at) THEN Quit(r)
         ELSE Answer(r, "Possible",
                     IF r.accepted THEN "long_press_move" ELSE "none")
    [] ev.phase = "Up" ->
         IF r.accepted THEN Answer(Reset(r), "Accepted", "long_press_end")
         ELSE Quit(r)
    [] ev.phase \in {"Cancel", "Removed"} -> Quit(r)
    [] OTHER -> Possible(r)

Drag(r, ev) ==
  CASE ev.phase = "Move" /\ r.st = "Accepted" ->
         Answer(r, "Possible", "drag_update")
    [] ev.phase = "Move" /\ r.st = "Down" ->
         IF AxisRejected(r.kind, ev.pos, r.at) THEN Quit(r)
         ELSE IF PassesSlop(r.kind, ev.pos, r.at)
         THEN Answer([r EXCEPT !.st = "Accepted"], "Accepted", "drag_start")
         ELSE Possible(r)
    [] ev.phase = "Up" ->
         IF r.st = "Accepted" THEN Answer(Reset(r), "Accepted", "drag_end")
         ELSE Quit(r)
    [] ev.phase \in {"Cancel", "Removed"} -> Quit(r)
    [] OTHER -> Possible(r)

\* With one pointer a scale never starts; it only forgets a lifted pointer.
Scale(r, ev) ==
  IF ev.phase \in {"Up", "Cancel", "Removed"} THEN Possible(Reset(r))
  ELSE Possible(r)

\* handle_event
Handle(r, ev) ==
  IF r.st = "Idle" THEN Possible(r)
  ELSE CASE r.kind = "Tap" -> Tap(r, ev)
         [] r.kind = "DoubleTap" -> DoubleTap(r, ev)
         [] r.kind = "LongPress" -> LongPress(r, ev)
         [] r.kind \in DragKinds -> Drag(r, ev)
         [] r.kind = "Scale" -> Scale(r, ev)

\* add_pointer on the recognizer a Down has just registered.
AddPointer(r, ev) ==
  IF r.kind = "Scale" \/ "primary" \in ev.buttons
  THEN [r EXCEPT !.st = "Down", !.at = ev.pos] ELSE r

\* sweep_accepted
SweepAccepted(r) ==
  IF r.kind = "LongPress" THEN Possible(r)
  ELSE Answer(Reset(r), "Possible",
              IF r.kind = "Tap" /\ r.pending THEN "tap" ELSE "none")

\* As if a loser kept its state.
RejectKeepingState(r) ==
  Answer(r, "Rejected", IF r.kind = "Tap" THEN "tap_cancel" ELSE "none")

\* rejected
Reject(r) ==
  Answer(Reset(r), "Rejected", IF r.kind = "Tap" THEN "tap_cancel" ELSE "none")

\* The callbacks that tell an application its gesture happened.
Successes == {"tap", "double_tap", "long_press_start", "drag_start"}

\* One tick of a recognizer's own clocks.
Aged(r) ==
  [r EXCEPT !.firstUp = IF r.firstUp = 0 \/ r.firstUp = DoubleTapMax + 2
                        THEN r.firstUp ELSE r.firstUp + 1,
            !.timer = IF r.timer > 1 THEN r.timer - 1 ELSE r.timer]
=============================================================================
