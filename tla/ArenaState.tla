----------------------------- MODULE ArenaState -----------------------------
(***************************************************************************)
(* One pointer's gesture arena (gesture/arena.rs, struct GestureArena) and *)
(* the operations of GestureArenaManager that touch only its scalar        *)
(* fields.  The competing recognizers are a parameter: GestureArena counts *)
(* them, GestureDispatch keeps them in a sequence.  `Empty' is the value   *)
(* of the `entries' field when nobody has registered.                      *)
(***************************************************************************)
EXTENDS Naturals

CONSTANTS
  Empty,      \* the value of `entries' in a fresh arena
  HoldMax     \* where hold_count saturates (u32::MAX in the code)

\* `winner' is 0 for None and i for Some(i - 1).
NewArena == [entries |-> Empty, winner |-> 0, is_open |-> TRUE, hold_count |-> 0]

\* No row for this pointer in GestureArenaManager::arenas.
NoArena == [entries |-> Empty, winner |-> 0, is_open |-> FALSE, hold_count |-> 0]

Present(a) == a # NoArena

\* GestureArenaManager::add opens the arena for the first recognizer.
Opened(a) == IF Present(a) THEN a ELSE NewArena

\* As if a resolved arena kept its holds.
CloseKeepingHold(a) == [a EXCEPT !.is_open = FALSE]

Close(a) == [a EXCEPT !.is_open = FALSE, !.hold_count = 0]

\* A closed arena that nobody holds is removed.
Gc(a) == IF Present(a) /\ ~a.is_open /\ a.hold_count = 0 THEN NoArena ELSE a

Hold(a) ==
  IF Present(a) /\ a.hold_count < HoldMax
  THEN [a EXCEPT !.hold_count = a.hold_count + 1] ELSE a

\* The decrement of GestureArenaManager::release (saturating_sub).
Unhold(a) ==
  IF a.hold_count > 0 THEN [a EXCEPT !.hold_count = a.hold_count - 1] ELSE a

\* The guard of GestureArenaManager::sweep.
Sweepable(a) ==
  Present(a) /\ a.hold_count = 0 /\ a.winner = 0 /\ a.is_open

\* The state sweep leaves before gc: the captain, entries[0], has won.
Swept(a) == [a EXCEPT !.winner = 1, !.is_open = FALSE]

\* ArenaTerminalResolution::resolved.
TerminalResolved(a) == ~Present(a) \/ a.winner # 0 \/ ~a.is_open
=============================================================================
