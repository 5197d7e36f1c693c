---------------------------- MODULE PointerArena ----------------------------
(***************************************************************************)
(* The arena of the desktop's one pointer, driven by what the window's     *)
(* sanitizer makes of the platform's mouse events (the loop over sanitized *)
(* events in Window::dispatch_event).  The recognizers may answer anything *)
(* (GestureArena), the platform may report anything (PointerSanitizer).    *)
(***************************************************************************)
EXTENDS GestureArena, Integers, Sequences

CONSTANTS
  Width, Height,    \* the window's content bounds
  Positions         \* the positions the platform reports

VARIABLES sanitizer, input, events, open

streamVars == <<sanitizer, input, events, open>>
allVars == <<vars, streamVars>>

Stream == INSTANCE PointerSanitizer

PointerInit == Init /\ Stream!Init

\* The arena's action for what one platform event is made into.  Whether a
\* Down is preceded by a Cancel (OrphanDown) is up to the sanitizer.
Handled(p, phases) ==
  \/ phases = <<>> /\ UNCHANGED vars
  \/ phases = <<"Down">> /\ DownOn(p, arena[p], holdTimer[p])
  \/ phases = <<"Cancel", "Down">> /\ DownOn(p, Cancelled(arena[p]), FALSE)
  \/ phases \in {<<"Move">>, <<"Hover">>} /\ Move(p)
  \/ phases = <<"Up">> /\ Up(p)
  \/ phases = <<"Removed">> /\ Removed(p)

\* contact is the sanitizer's mouse_down.
DispatchEvent(p) ==
  /\ Stream!Next
  /\ Handled(p, [i \in DOMAIN events' |-> events'[i].phase])
  /\ contact'[p] = sanitizer'.mouse_down

Task(p) == (ReleaseFire(p) \/ BackChannel(p)) /\ UNCHANGED streamVars

PointerNext == \E p \in Pointers : DispatchEvent(p) \/ Task(p)

PointerSpec == PointerInit /\ [][PointerNext]_allVars

FairPointerSpec ==
  /\ PointerSpec
  /\ \A p \in Pointers : WF_allVars(ReleaseFire(p) /\ UNCHANGED streamVars)

DownsAreSeparated == Stream!DownsAreSeparated
RepeatedDownInsideIsDropped == Stream!RepeatedDownInsideIsDropped
=============================================================================
