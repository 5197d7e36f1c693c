---------------------------- MODULE GestureArena ----------------------------
(***************************************************************************)
(* What the gesture arena of every pointer promises, whatever recognizers  *)
(* compete in it (gesture/arena.rs, gesture/binding.rs and the gesture     *)
(* pass of Window::dispatch_event).  The recognizers are abstracted to     *)
(* their number and to an arbitrary answer (GestureDisposition) to every   *)
(* event, so the theorems hold for every set of recognizers, built-in or   *)
(* written by an application.                                              *)
(*                                                                         *)
(* One action is one sanitized pointer event, handled to the end of the    *)
(* loop body of dispatch_event, or one firing of a timer task: all of them *)
(* run on the main thread and none is interrupted by another.              *)
(***************************************************************************)
EXTENDS Naturals

CONSTANTS
  Pointers,      \* pointer ids
  MaxEntries,    \* bound on the recognizers of one arena
  HoldMax        \* where hold_count saturates

ASSUME MaxEntriesAssumption == MaxEntries \in Nat
ASSUME HoldMaxNatAssumption == HoldMax \in Nat \ {0}

VARIABLES
  arena,      \* arena[p]: the row of p in GestureArenaManager::arenas
  holdTimer,  \* holdTimer[p]: a release task of p is pending
  contact     \* contact[p]: the sanitizer's mouse_down

vars == <<arena, holdTimer, contact>>

INSTANCE ArenaState WITH Empty <- 0

Arenas ==
  [entries : Nat, winner : Nat, is_open : BOOLEAN, hold_count : 0 .. HoldMax]

TypeOK ==
  /\ arena \in [Pointers -> Arenas]
  /\ holdTimer \in [Pointers -> BOOLEAN]
  /\ contact \in [Pointers -> BOOLEAN]

Init ==
  /\ arena = [p \in Pointers |-> NoArena]
  /\ holdTimer = [p \in Pointers |-> FALSE]
  /\ contact = [p \in Pointers |-> FALSE]

-----------------------------------------------------------------------------
(* GestureArenaManager::dispatch, as the set of its possible results.      *)

Won(a, i, terminal) ==
  LET w == [a EXCEPT !.winner = i]
  IN  Gc(IF terminal THEN Close(w) ELSE w)

\* k entries answered Rejected and nobody Accepted.
Dropped(a, k) ==
  LET d == [a EXCEPT !.entries = a.entries - k]
  IN  Gc(IF d.entries = 0 THEN Close(d) ELSE d)

Undecided(a, terminal) ==
  {Won(a, i, terminal) : i \in 1 .. a.entries}
    \cup {Dropped(a, k) : k \in 0 .. a.entries}

\* Only the winner is asked; it may give up by answering Rejected.
Decided(a, terminal) ==
  IF terminal THEN {Gc(Close(a))} ELSE {Gc(a), Gc(Close(a))}

Dispatch(a, terminal) ==
  IF ~Present(a) \/ ~a.is_open THEN {a}
  ELSE IF a.winner # 0 THEN Decided(a, terminal)
  ELSE Undecided(a, terminal)

Sweep(a) == IF Sweepable(a) THEN Gc(Swept(a)) ELSE a

\* As if the last release did not sweep.
ReleaseWithoutSweep(a) == IF Present(a) THEN Unhold(a) ELSE a

\* GestureArenaManager::release sweeps when the last hold is gone.
Release(a) ==
  IF Present(a) THEN Sweep(Unhold(a)) ELSE a

\* As if a timer could overrule the winner.
DeclareAnyTime(a, i) ==
  IF Present(a) /\ a.is_open /\ i <= a.entries
  THEN Gc([a EXCEPT !.winner = i]) ELSE a

DeclareWinner(a, i) ==
  IF Present(a) /\ a.is_open /\ a.winner = 0 /\ i <= a.entries
  THEN Gc([a EXCEPT !.winner = i]) ELSE a

\* Every entry is told `rejected' and the arena goes.
Cancelled(a) ==
  IF Present(a) THEN Gc([Close(a) EXCEPT !.winner = 0]) ELSE a

-----------------------------------------------------------------------------
Registered(a, n) ==
  IF n = 0 THEN a
  ELSE LET o == Opened(a) IN [o EXCEPT !.entries = o.entries + n]

\* A Down drains what paint parked under the hit path: n recognizers join,
\* and one hold and one release task are taken for all of those that asked,
\* even if the arena is held already: by another element, or by the same one
\* before it was repainted.
DownOn(p, a, timer) ==
  \E n \in 0 .. MaxEntries, hold \in BOOLEAN :
    /\ a.entries + n <= MaxEntries
    /\ hold => n > 0
    /\ LET r == Registered(a, n)
       IN  \E b \in Dispatch(IF hold THEN Hold(r) ELSE r, FALSE) :
             arena' = [arena EXCEPT ![p] = b]
    /\ holdTimer' = [holdTimer EXCEPT ![p] = timer \/ hold]
    /\ contact' = [contact EXCEPT ![p] = TRUE]

Down(p) == ~contact[p] /\ DownOn(p, arena[p], holdTimer[p])

\* The sanitizer puts a Cancel before a Down that follows no Up; Cancel
\* empties the arena and drops the release task.
OrphanDown(p) == contact[p] /\ DownOn(p, Cancelled(arena[p]), FALSE)

\* A Move, or a Hover: both are dispatched whether or not a press is in
\* progress, and a recognizer of a held arena may answer either.
Move(p) ==
  /\ \E b \in Dispatch(arena[p], FALSE) : arena' = [arena EXCEPT ![p] = b]
  /\ UNCHANGED <<holdTimer, contact>>

\* As if an Up always dropped the release task.
UpDroppingTimer(p) ==
  /\ \E b \in Dispatch(arena[p], TRUE) :
       LET s == Sweep(b)
       IN  arena' = [arena EXCEPT ![p] =
                       IF TerminalResolved(s) THEN Gc(Close(s)) ELSE s]
  /\ holdTimer' = [holdTimer EXCEPT ![p] = FALSE]
  /\ \E still \in {FALSE, contact[p]} : contact' = [contact EXCEPT ![p] = still]

\* An Up of a button that is not the pressed one leaves mouse_down set.
Up(p) ==
  /\ \E b \in Dispatch(arena[p], TRUE) :
       LET s == Sweep(b)
       IN  IF TerminalResolved(s)
           THEN /\ arena' = [arena EXCEPT ![p] = Gc(Close(s))]
                /\ holdTimer' = [holdTimer EXCEPT ![p] = FALSE]
           ELSE /\ arena' = [arena EXCEPT ![p] = s]
                /\ UNCHANGED holdTimer
  /\ \E still \in {FALSE, contact[p]} : contact' = [contact EXCEPT ![p] = still]

\* The pointer left the window: the arena is cancelled, mouse_down is kept.
Removed(p) ==
  /\ \E b \in Dispatch(arena[p], TRUE) :
       arena' = [arena EXCEPT ![p] = Cancelled(b)]
  /\ holdTimer' = [holdTimer EXCEPT ![p] = FALSE]
  /\ UNCHANGED contact

ReleaseFire(p) ==
  /\ holdTimer[p]
  /\ holdTimer' = [holdTimer EXCEPT ![p] = FALSE]
  /\ arena' = [arena EXCEPT ![p] = Release(arena[p])]
  /\ UNCHANGED contact

\* A recognizer's own timer or task declares a winner, at any time: that of
\* a LongPress does during its press, an application's may between presses.
BackChannel(p) ==
  /\ \E i \in 1 .. MaxEntries :
       arena' = [arena EXCEPT ![p] = DeclareWinner(arena[p], i)]
  /\ UNCHANGED <<holdTimer, contact>>

Next ==
  \E p \in Pointers :
    \/ Down(p) \/ OrphanDown(p) \/ Move(p) \/ Up(p) \/ Removed(p)
    \/ ReleaseFire(p) \/ BackChannel(p)

Spec == Init /\ [][Next]_vars

\* A release task that is pending is eventually run by the executor.
FairSpec == Spec /\ \A p \in Pointers : WF_vars(ReleaseFire(p))

-----------------------------------------------------------------------------
(* Safety.                                                                 *)

\* A closed arena is never kept: whichever path resolves an arena also
\* removes its row, so the next press cannot join a dead arena whose
\* dispatch is a no-op (the leak the comment on gc describes).
NoClosedArenaKept ==
  \A p \in Pointers : Present(arena[p]) => arena[p].is_open

\* The winner's index stays valid although entries are dropped by index
\* around it: dispatch never finds the winner missing, sweep never an
\* arena without a captain.
WinnerIsAnEntry ==
  \A p \in Pointers :
    Present(arena[p]) =>
      arena[p].entries > 0 /\ arena[p].winner <= arena[p].entries

\* An undecided arena that outlives its press is held (the comment on
\* terminal_resolution): nobody's competition is left open by accident.
RestingArenaIsHeld ==
  \A p \in Pointers :
    Present(arena[p]) /\ ~contact[p] /\ arena[p].winner = 0
      => arena[p].hold_count > 0

\* A held arena that no release task will release.
Untimed(p) == Present(arena[p]) /\ arena[p].hold_count > 0 /\ ~holdTimer[p]

\* A held arena loses its release task in one way only: the task runs, and
\* the arena was held more often than the one time it releases.  No event,
\* no answer and no declaration takes the task from an arena that it leaves
\* held, during a press or between two.
HoldsKeepTheirTask ==
  [][\A p \in Pointers :
       Untimed(p)' /\ ~Untimed(p) =>
         holdTimer[p] /\ ~holdTimer'[p] /\ arena[p].hold_count > 1]_vars

\* Once a recognizer has won an arena, nobody else wins that arena: the
\* winner changes only by the arena going away.
WinnerIsFinal ==
  [][\A p \in Pointers :
       Present(arena[p]) /\ arena[p].winner # 0 =>
         \/ ~Present(arena'[p])
         \/ arena'[p].winner = arena[p].winner
         \/ OrphanDown(p)]_vars

\* Undecided between two presses.
Waiting(p) == Present(arena[p]) /\ ~contact[p] /\ arena[p].winner = 0

\* An arena that waits, held once and with its task, does not wait for ever:
\* it is decided by an event or a declaration, joined by a press, swept by
\* its task or cancelled.
RestingArenaResolves ==
  \A p \in Pointers :
    Waiting(p) /\ arena[p].hold_count = 1 /\ holdTimer[p] ~> ~Waiting(p)
=============================================================================
