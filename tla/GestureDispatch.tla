-------------------------- MODULE GestureDispatch --------------------------
(***************************************************************************)
(* One window's gesture pass, end to end: platform mouse events through    *)
(* the sanitizer (PointerInput), the recognizers that paint parked under   *)
(* the hit-tested elements (Recognizers), the arena they compete in        *)
(* (ArenaState, GestureArenaManager), and the two timer tasks that reach   *)
(* the arena from outside an event: the release of a held arena and the    *)
(* acceptance of a long press.                                             *)
(***************************************************************************)
EXTENDS PointerInput, Recognizers, SequencesExt

CONSTANTS
  Widgets,        \* the elements with recognizers
  RecognizersOf,  \* RecognizersOf[w]: their kinds, in registration order
  HitPath(_),     \* the elements hit at a position, front to back, cut at
                  \* the first opaque one
  PressButtons,   \* the buttons the user presses
  Filtered,       \* kinds whose AllowedButtonsFilter wants the primary button
  Cached,         \* elements of cached views, which a frame may reuse
  RepaintLive,    \* may a frame be drawn while an arena is live?
  HoldMax,        \* where hold_count saturates
  MaxEntries      \* bound on the recognizers of the arena

ASSUME ElementsAssumption ==
  /\ RecognizersOf \in [Widgets -> Seq(Kinds)]
  /\ \A pos \in Positions : HitPath(Clamp(pos)) \in Seq(Widgets)
  /\ PressButtons \subseteq Buttons /\ Filtered \subseteq Kinds
  /\ Cached \subseteq Widgets
  /\ MaxEntries \in Nat /\ HoldMax \in Nat \ {0}

VARIABLES
  sanitizer,  \* WindowPointerState
  parked,     \* the elements with an entry in pending_recognizers
  arena,      \* the pointer's GestureArena, its entries the recognizers
  release,    \* the release task: ticks until it is due, plus 1; 0 if none
  begun       \* recognizers of this arena that reported a success

vars == <<sanitizer, parked, arena, release, begun>>

INSTANCE ArenaState WITH Empty <- <<>>

ArenaAndTask == [arena |-> arena, release |-> release, parked |-> parked, begun |-> begun]

\* Where events and presses are.
Places == {Clamp(pos) : pos \in Positions} \cup {<<0, 0>>}

TypeOK ==
  /\ sanitizer \in SanitizerStates(Places)
  /\ parked \subseteq Widgets
  /\ arena \in [entries : Seq(States(Places, Nat)), winner : Nat,
               is_open : BOOLEAN, hold_count : 0 .. HoldMax]
  /\ arena.winner <= Len(arena.entries)
  /\ release \in 0 .. DoubleTapMax + 1
  /\ begun \in 0 .. 2

Init ==
  /\ sanitizer = NoPress
  /\ parked = Widgets
  /\ arena = NoArena
  /\ release = 0
  /\ begun = 0

-----------------------------------------------------------------------------
\* The j-th smallest of a set of indices, and what a sequence keeps at them.
Nth(keep, j) == CHOOSE k \in keep : Cardinality(keep \cap 1 .. k) = j
Selected(s, keep) == [j \in 1 .. Cardinality(keep) |-> s[Nth(keep, j)]]

(* GestureArenaManager, on the record g of all that an event may change.   *)

Successful(answers) == Cardinality({i \in DOMAIN answers : answers[i].calls \in Successes})

\* Two is as many as the properties tell apart.
Count(b, answers) == IF b + Successful(answers) > 2 THEN 2 ELSE b + Successful(answers)

After(answers) == [i \in DOMAIN answers |-> answers[i].r]

\* As if the losers were told what a sweep tells the captain.
OthersSwept(answers, winner) ==
  [i \in DOMAIN answers |->
     IF i = winner THEN answers[i] ELSE SweepAccepted(answers[i].r)]

\* `winner' has won: everybody else is told `rejected', those that quit in
\* the same pass included.
OthersRejected(answers, winner) ==
  [i \in DOMAIN answers |->
     IF i = winner THEN answers[i] ELSE Reject(answers[i].r)]

Final(ev) == ev.phase \in {"Up", "Cancel", "Removed"}

\* A final event, or the winner's own Rejected, ends the arena.
WinnerAnswered(g, ev, ans) ==
  LET kept == [g.arena EXCEPT !.entries[g.arena.winner] = ans.r]
  IN  [g EXCEPT !.arena = Gc(IF Final(ev) \/ ans.verdict = "Rejected"
                             THEN Close(kept) ELSE kept),
                !.begun = Count(g.begun, <<ans>>)]

\* The winner alone is asked.
DispatchToWinner(g, ev) ==
  WinnerAnswered(g, ev, Handle(g.arena.entries[g.arena.winner], ev))

\* The recognizers are asked in order, none after the first that accepts.
UpToFirstAccepted(entries, all) ==
  LET accepting == {i \in DOMAIN all : all[i].verdict = "Accepted"}
      first == IF accepting = {} THEN 0 ELSE Min(accepting)
  IN  [first |-> first,
       answers |-> [i \in DOMAIN all |->
                      IF first = 0 \/ i <= first THEN all[i]
                      ELSE Possible(entries[i])]]

Chosen(g, ev, winner, answers) ==
  LET won == [g.arena EXCEPT !.entries = After(answers), !.winner = winner]
  IN  [g EXCEPT !.arena = Gc(IF Final(ev) THEN Close(won) ELSE won),
                !.begun = Count(g.begun, answers)]

\* Those that answered Rejected are dropped.
NobodyChosen(g, answers) ==
  LET stay == {i \in DOMAIN answers : answers[i].verdict # "Rejected"}
      left == [g.arena EXCEPT !.entries = Selected(After(answers), stay)]
  IN  [g EXCEPT !.arena = Gc(IF stay = {} THEN Close(left) ELSE left),
                !.begun = Count(g.begun, answers)]

Decide(g, ev, asked) ==
  IF asked.first # 0
  THEN Chosen(g, ev, asked.first, OthersRejected(asked.answers, asked.first))
  ELSE NobodyChosen(g, asked.answers)

DispatchUndecided(g, ev) ==
  Decide(g, ev, UpToFirstAccepted(g.arena.entries,
    [i \in DOMAIN g.arena.entries |-> Handle(g.arena.entries[i], ev)]))

\* dispatch
Dispatch(g, ev) ==
  IF ~Present(g.arena) \/ ~g.arena.is_open THEN g
  ELSE IF g.arena.winner # 0 THEN DispatchToWinner(g, ev)
  ELSE DispatchUndecided(g, ev)

SweptWith(g, answers) ==
  [g EXCEPT !.arena = Gc([Swept(g.arena) EXCEPT !.entries = After(answers)]),
            !.begun = Count(g.begun, answers)]

\* The captain, the first entry, wins by default.
Sweep(g) ==
  IF Sweepable(g.arena)
  THEN SweptWith(g, [i \in DOMAIN g.arena.entries |->
                       IF i = 1 THEN SweepAccepted(g.arena.entries[i])
                       ELSE Reject(g.arena.entries[i])])
  ELSE g

\* cancel: every entry is told `rejected', which fires nothing that counts.
CancelArena(g) ==
  IF Present(g.arena) THEN [g EXCEPT !.arena = NoArena] ELSE g

\* declare_winner
Declare(a, k) ==
  IF Present(a) /\ a.is_open /\ a.winner = 0 /\ k <= Len(a.entries)
  THEN [a EXCEPT !.winner = k,
                 !.entries = [i \in DOMAIN a.entries |->
                                IF i = k THEN a.entries[i]
                                ELSE Reject(a.entries[i]).r]]
  ELSE a

-----------------------------------------------------------------------------
(* Window::dispatch_event.                                                 *)

\* What the elements under the pointer have parked and their filters admit.
Joining(path, ready, ev) ==
  LET batch(w) == IF w \in ready THEN RecognizersOf[w] ELSE <<>>
      drained == FlattenSeq([i \in DOMAIN path |-> batch(path[i])])
  IN  Selected(drained, {i \in DOMAIN drained :
                           drained[i] \in Filtered => "primary" \in ev.buttons})

\* No press brings three long presses.
ThreeLongPresses(kinds) ==
  \E i, j, m \in DOMAIN kinds :
    i < j /\ j < m /\ {kinds[i], kinds[j], kinds[m]} = {"LongPress"}

FewLongPresses ==
  \A pos \in Positions, ready \in SUBSET Widgets, held \in SUBSET Buttons :
    ~ThreeLongPresses(Joining(HitPath(Clamp(pos)), ready, Event("Down", Clamp(pos), held)))

\* register_recognizer and add_pointer, for a whole batch: a long press is
\* told its entry index now, whatever happens to the entries later.
Register(entries, kinds, ev) ==
  LET member(i) == IF kinds[i] = "LongPress"
                   THEN [Fresh(kinds[i]) EXCEPT !.slot = Len(entries) + i]
                   ELSE Fresh(kinds[i])
  IN  entries \o [i \in DOMAIN kinds |-> AddPointer(member(i), ev)]

Joined(o, kinds, ev) == [o EXCEPT !.entries = Register(o.entries, kinds, ev)]

\* One hold and one release task if any of the newcomers is a DoubleTap.  The
\* task of an earlier press is replaced.
JoinArenaWith(g, ev, kinds) ==
  LET holds == "DoubleTap" \in Range(kinds)
      joined == Joined(Opened(g.arena), kinds, ev)
  IN  [g EXCEPT
         !.parked = g.parked \ Range(HitPath(ev.pos)),
         !.arena = IF kinds = <<>> THEN g.arena
                   ELSE IF holds THEN Hold(joined) ELSE joined,
         !.release = IF holds THEN DoubleTapMax + 1 ELSE g.release,
         !.begun = IF Present(g.arena) THEN g.begun ELSE 0]

\* The Down of a press.
JoinArena(g, ev) == JoinArenaWith(g, ev, Joining(HitPath(ev.pos), g.parked, ev))

\* The end of an arena, unless it stays undecided.
EndUnlessHeld(g) ==
  IF TerminalResolved(g.arena)
  THEN [g EXCEPT !.release = 0, !.arena = Gc(Close(g.arena))] ELSE g

\* As if the release task outlived the cancelled arena.
FinishRemovedKeepingTask(g) == CancelArena(g)

FinishRemoved(g) == [CancelArena(g) EXCEPT !.release = 0]

Finish(g, ev) ==
  CASE ev.phase = "Up" -> EndUnlessHeld(Sweep(g))
    [] ev.phase \in {"Cancel", "Removed"} -> FinishRemoved(g)
    [] OTHER -> g

OnPointerEvent(g, ev) ==
  Finish(Dispatch(IF ev.phase = "Down" THEN JoinArena(g, ev) ELSE g, ev), ev)

Become(g) ==
  /\ arena' = g.arena
  /\ release' = g.release
  /\ parked' = g.parked
  /\ begun' = g.begun

DispatchEvent(in) ==
  \E c \in {Convert(in, sanitizer)} :
    /\ sanitizer' = c.state
    /\ \E g \in {FoldLeft(OnPointerEvent, ArenaAndTask, c.events)} : Become(g)

\* The bound on the arena: MaxEntries.  A Down during a press empties it first.
Room(b, pos) ==
  LET ev == MouseDown(b, pos, NoPress).event
      before == IF sanitizer.mouse_down THEN 0 ELSE Len(arena.entries)
  IN  before + Len(Joining(HitPath(ev.pos), parked, ev)) <= MaxEntries

Press == \E b \in PressButtons, pos \in Positions :
           /\ Room(b, pos)
           /\ DispatchEvent([type |-> "MouseDown", button |-> b, pos |-> pos])

Lift == \E b \in PressButtons, pos \in Positions :
          DispatchEvent([type |-> "MouseUp", button |-> b, pos |-> pos])

\* The platform may report a button as held that no Down was seen for.
MovePointer == \E pos \in Positions, pressed \in BOOLEAN :
                 DispatchEvent([type |-> "MouseMove", pressed |-> pressed, pos |-> pos])

Leave == \E pos \in Positions : DispatchEvent([type |-> "MouseExit", pos |-> pos])

\* Window::draw clears pending_recognizers and the elements it paints park
\* fresh ones; the paint of a reused view is replayed without them.
Draw(reused) ==
  /\ RepaintLive \/ ~Present(arena)
  /\ parked' = Widgets \ reused
  /\ UNCHANGED <<sanitizer, arena, release, begun>>

\* As if the last release did not sweep.
ReleaseWithoutSweep(g) ==
  IF Present(g.arena) THEN [g EXCEPT !.arena = Unhold(g.arena)] ELSE g

Release(g) ==
  IF Present(g.arena) THEN Sweep([g EXCEPT !.arena = Unhold(g.arena)]) ELSE g

\* The release task runs: GestureArenaManager::release.
ReleaseFire ==
  /\ release = 1
  /\ Become(Release([ArenaAndTask EXCEPT !.release = 0]))
  /\ UNCHANGED sanitizer

\* The timer of the long press at entry i runs.  It looks itself up by the
\* index it was registered with.
LongPressFire(i) ==
  /\ arena.entries[i].timer = 1
  /\ LET k == arena.entries[i].slot
         ran == [arena EXCEPT !.entries[i].timer = 0]
         found == k \in DOMAIN arena.entries /\ arena.entries[k].kind = "LongPress"
         started == IF found THEN [ran EXCEPT !.entries[k].accepted = TRUE] ELSE ran
     IN  /\ arena' = IF k \in DOMAIN arena.entries THEN Declare(started, k) ELSE ran
         /\ begun' = IF found /\ begun < 2 THEN begun + 1 ELSE begun
  /\ UNCHANGED <<sanitizer, parked, release>>

\* Time passes once every task that is due has run.
Tick ==
  /\ release # 1
  /\ \A i \in DOMAIN arena.entries : arena.entries[i].timer # 1
  /\ release' = IF release = 0 THEN 0 ELSE release - 1
  /\ arena' = [arena EXCEPT !.entries =
                 [i \in DOMAIN arena.entries |-> Aged(arena.entries[i])]]
  /\ UNCHANGED <<sanitizer, parked, begun>>

Next ==
  \/ Press \/ Lift \/ MovePointer \/ Leave
  \/ \E reused \in SUBSET Cached : Draw(reused)
  \/ ReleaseFire \/ (\E i \in DOMAIN arena.entries : LongPressFire(i))
  \/ Tick

Spec == Init /\ [][Next]_vars

\* Time passes, and the executor runs the tasks that are due.  Nothing is
\* assumed of the user.
Fairness ==
  /\ WF_vars(Tick)
  /\ WF_vars(ReleaseFire)
  /\ WF_vars(\E i \in DOMAIN arena.entries : LongPressFire(i))

FairSpec == Spec /\ Fairness

-----------------------------------------------------------------------------
(* What the arena promises whatever the recognizers do (GestureArena).     *)

\* The arena as GestureArena sees it: the competitors are only counted.
Counted == [arena EXCEPT !.entries = Len(arena.entries)]

Mouse == {"DESKTOP_MOUSE_POINTER"}

Abstract == INSTANCE GestureArena WITH
  Pointers <- Mouse,
  arena <- [p \in Mouse |-> Counted],
  holdTimer <- [p \in Mouse |-> release # 0],
  contact <- [p \in Mouse |-> sanitizer.mouse_down]

\* Every event, every task and every frame is a step of the abstract arena
\* or leaves it alone: the built-in recognizers, the sanitizer and the
\* dispatcher's own bookkeeping stay within what its theorems assume.
ImplementsArena == Abstract!Spec

-----------------------------------------------------------------------------
(* Safety.                                                                 *)

\* An arena is one competition: from its first Down to its end at most one
\* of its recognizers reports a success, however many presses it spans.
AtMostOneGesture == begun < 2

\* Once an arena has a winner every other recognizer in it is back to Idle
\* with no timer task: nothing can call it back into life.  And a drag or a
\* long press that has started owns the arena: nobody else can win, and no
\* sweep can hand the gesture to the captain.
OnlyTheWinnerActs ==
  \A i \in DOMAIN arena.entries :
    LET e == arena.entries[i]
    IN /\ arena.winner \notin {0, i} => e.st = "Idle" /\ e.timer = 0
       /\ e.st = "Accepted" \/ e.accepted => arena.winner = i

\* While nobody has won, a pending double tap has a hold to keep its arena
\* past the Up; without it the sweep would give the first Up to the captain.
PendingDoubleTapIsHeld ==
  arena.winner = 0 =>
    \A i \in DOMAIN arena.entries :
      arena.entries[i].st \in {"AwaitSecond", "SecondDown"} =>
        arena.hold_count > 0

\* An arena kept between presses is resolved by its release task, or a press
\* joins it: window.rs:5172-5178 says of the task that it "eventually"
\* releases an arena whose second tap does not come.
HeldArenaResolves ==
  Present(arena) /\ ~sanitizer.mouse_down
    ~> ~Present(arena) \/ sanitizer.mouse_down
=============================================================================
