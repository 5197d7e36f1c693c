-------------------------- MODULE PointerSanitizer --------------------------
(***************************************************************************)
(* The stream of pointer events a window's sanitizer produces from any     *)
(* sequence of platform mouse events: presses that never end, buttons that *)
(* overlap, a pointer that leaves during a press.                          *)
(***************************************************************************)
EXTENDS PointerInput

VARIABLES
  sanitizer,   \* WindowPointerState
  input,       \* the last platform event
  events,      \* what convert made of it
  open         \* the consumers have seen a Down and no Up or Cancel since

vars == <<sanitizer, input, events, open>>

Inputs ==
  [type : {"MouseDown", "MouseUp"}, button : Buttons, pos : Positions]
    \cup [type : {"MouseMove"}, pressed : BOOLEAN, pos : Positions]
    \cup [type : {"MouseExit"}, pos : Positions]

Phases == {"Down", "Up", "Move", "Hover", "Removed", "Cancel"}

TypeOK ==
  /\ sanitizer \in SanitizerStates(Int \X Int)
  /\ input \in Inputs \cup {[type |-> "none"]}
  /\ \A i \in DOMAIN events : events[i].phase \in Phases
  /\ open \in BOOLEAN

Init ==
  /\ sanitizer = NoPress
  /\ input = [type |-> "none"]
  /\ events = <<>>
  /\ open = FALSE

\* What one event does to a consumer that tracks presses.
OpenAfter(phase, was) ==
  CASE phase = "Down" -> TRUE
    [] phase \in {"Up", "Cancel"} -> FALSE
    [] OTHER -> was

Consume(evs, was) ==
  CASE evs = <<>> -> was
    [] Len(evs) = 1 -> OpenAfter(evs[1].phase, was)
    [] OTHER -> OpenAfter(evs[2].phase, OpenAfter(evs[1].phase, was))

Receive(in) ==
  LET c == Convert(in, sanitizer)
  IN  /\ input' = in
      /\ events' = c.events
      /\ sanitizer' = c.state
      /\ open' = Consume(c.events, open)

Next == \E in \in Inputs : Receive(in)

Spec == Init /\ [][Next]_vars

-----------------------------------------------------------------------------
\* The consumers never see a second Down before the first has ended in an
\* Up or a Cancel, whatever the platform lost (orphan-Cancel synthesis).
DownsAreSeparated ==
  [][\A i \in DOMAIN events' :
       events'[i].phase = "Down" =>
         \/ i = 1 /\ ~open
         \/ i = 2 /\ events'[1].phase = "Cancel"]_vars

\* A MouseDown that repeats the one before it is dropped, where the platform
\* reports positions inside the window.  (Outside, the raw position is
\* compared with the clamped one and the press starts again.)
RepeatedDownInsideIsDropped ==
  [][input.type = "MouseDown" /\ input' = input /\ Clamp(input.pos) = input.pos
       => events' = <<>>]_vars
=============================================================================
