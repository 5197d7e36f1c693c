------------------------------ MODULE Animation ------------------------------
(***************************************************************************)
(* flui-core/src/animation/controller.rs: AnimationController, together    *)
(* with what drives it: the AnimationTick walk of App::run_frame           *)
(* (app.rs drive_animation_tick, the `active_animations' set) or the       *)
(* platform's own frames (window.rs on_request_frame), and a view that     *)
(* renders each controller with animated() (animation/animated.rs).        *)
(*                                                                         *)
(* Time is kept relative to the start of a controller's segment: `age' is  *)
(* the clock minus start_time (or sim_start_time), `seen' what the age was *)
(* at last_tick_instant.  Both stop at Cap, beyond which nothing changes.  *)
(* The curve is linear, rounded down to the integers.                      *)
(***************************************************************************)
EXTENDS Integers

CONSTANTS
  Controller,       \* the controllers, each an entity with its view
  Lower, Upper,     \* lower_bound and upper_bound
  Durations,        \* duration and reverse_duration of the controllers
  Targets,          \* what animate_to and animate_back are given
  Styles,           \* their style.duration, None when the style sets none
  Throw,            \* how far a simulation is from its origin after a time
  SimEnd,           \* Simulation::is_done from this age on
  Origins,          \* where a simulation given to animate_with may start
  Logging,          \* whether log::debug! evaluates its arguments
  Cap,              \* a bound of the model: age no duration exceeds
  MaxCalls,         \* a bound of the model: calls made on controllers
  None              \* no Option is None

ASSUME AnimationAssumption ==
  /\ Lower \in Int /\ Upper \in Int /\ Lower < Upper
  /\ Durations \subseteq Nat \X (Nat \cup {None})
  /\ Targets \subseteq Int
  /\ Styles \subseteq Nat \cup {None}
  /\ SimEnd \in Nat
  /\ Throw \in [0 .. SimEnd -> Int] /\ Throw[0] = 0
  /\ Origins \subseteq Lower .. Upper
  /\ Logging \subseteq BOOLEAN
  /\ Cap \in Nat
  /\ \A d \in (Styles \ {None}) \cup {SimEnd} : d <= Cap
  /\ \A p \in Durations : p[1] <= Cap /\ (p[2] # None => p[2] <= Cap)
  /\ MaxCalls \in Nat
  /\ None \notin Int

VARIABLES
  ctrl,     \* ctrl[c]: the fields of a controller
  alive,    \* the controllers whose entity has not been dropped
  active,   \* App::active_animations
  dirty,    \* the controllers whose view has been notified
  due,      \* those whose view has requested the next animation frame
  drawn,    \* drawn[c]: the value the view of c has been drawn with
  frame,    \* "idle", or "paint" from the tick of a frame to its draw
  driver,   \* "pipeline" when run_frame drives the frames, else "platform"
  calls     \* calls made so far

views == <<dirty, due, drawn>>
vars == <<ctrl, alive, active, views, frame, driver, calls>>

Least(a, b) == IF a <= b THEN a ELSE b
Greatest(a, b) == IF a >= b THEN a ELSE b
Clamp(x) == Greatest(Lower, Least(x, Upper))

AnimationStatus == {"Dismissed", "Forward", "Reverse", "Completed"}

\* `drive' says which of start_time and simulation is set; `from' is
\* start_value, or the origin of the simulation.
ControllerState ==
  [duration : Nat, reverse : Nat \cup {None}, value : Int, status : AnimationStatus,
   drive : {"none", "curve", "simulation"}, from : Int,
   target : Int \cup {None}, style : Nat \cup {None}, repeating : BOOLEAN,
   age : Nat, seen : Nat \cup {None}, cache : Int \cup {None}]

-----------------------------------------------------------------------------
\* Reading a controller.

\* The instant value() and is_animating() work with: that of the last tick
\* when there was one, the clock's otherwise.
Elapsed(r) == IF r.seen # None THEN r.seen ELSE r.age

DefaultDuration(r) ==
  IF r.status = "Reverse" /\ r.reverse # None THEN r.reverse ELSE r.duration

Length(r) == IF r.style # None THEN r.style ELSE DefaultDuration(r)

End(r) ==
  IF r.target # None THEN r.target
  ELSE IF r.status \in {"Forward", "Completed"} THEN Upper ELSE Lower

\* What value() computes when it has nothing cached.
Computed(r) ==
  CASE r.drive = "simulation" ->
         Clamp(r.from + Throw[Least(Elapsed(r), SimEnd)])
    [] r.drive = "curve" ->
         IF Length(r) = 0 THEN End(r)
         ELSE LET t == Least(Elapsed(r), Length(r))
              IN  r.from + ((End(r) - r.from) * t) \div Length(r)
    [] OTHER -> r.value

\* As if every read computed the value anew.
ValueRecomputed(r) == Computed(r)

\* The cache is that of the last tick's frame, so it counts until the next.
Value(r) == IF r.seen # None /\ r.cache # None THEN r.cache ELSE Computed(r)

\* Reading fills the cache of a controller that has been ticked.
Read(r) == IF r.seen # None THEN [r EXCEPT !.cache = Value(r)] ELSE r

IsAnimating(r) ==
  \/ r.drive = "simulation" /\ Elapsed(r) < SimEnd
  \/ /\ r.drive = "curve"
     /\ IF Elapsed(r) >= DefaultDuration(r)
        THEN r.repeating
        ELSE r.status \in {"Forward", "Reverse"}

-----------------------------------------------------------------------------
\* What the calls make of a controller's fields.

ClearOverrides(r) == [r EXCEPT !.target = None, !.style = None]

\* forward and reverse drop the simulation and the overrides before they
\* read where the controller is.
Cleared(r) ==
  ClearOverrides([r EXCEPT !.drive = IF @ = "simulation" THEN "none" ELSE @])

\* A segment starts now: later than the last tick, whose elapsed time is 0.
Started(r, drive, from, status) ==
  [r EXCEPT !.drive = drive, !.from = from, !.status = status, !.age = 0,
            !.seen = IF @ = None THEN None ELSE 0]

\* The arguments of log::debug! read the value when the level is enabled.
Logged(r, logging) == IF logging THEN Read(r) ELSE r

Toward(r, status, logging) ==
  LET s == Cleared(Logged(r, logging))
  IN  [Started(Read(s), "curve", Value(s), status) EXCEPT !.repeating = FALSE]

ToTarget(r, target, style, status) ==
  [Started(Read(r), "curve", Value(r), status)
     EXCEPT !.target = target, !.style = style, !.repeating = FALSE]

Repeated(r) ==
  [Started(Cleared(r), "curve", Lower, "Forward") EXCEPT !.repeating = TRUE]

\* animate_with leaves `repeating' alone.
Simulated(r, origin) ==
  Started(ClearOverrides(r), "simulation", origin, "Forward")

Idle(r, status) ==
  [ClearOverrides(r) EXCEPT !.drive = "none", !.repeating = FALSE,
     !.status = status, !.age = 0, !.seen = IF @ = None THEN None ELSE 0]

\* As if stop read the value after it has dropped the segment.
StoppedAfterClearing(r) ==
  LET s == Idle(r, r.status)
      v == Value(s)
  IN  [Idle(Read(s), IF v = Upper THEN "Completed"
                     ELSE IF v = Lower THEN "Dismissed" ELSE r.status)
         EXCEPT !.value = v]

Stopped(r) ==
  LET v == Value(r)
  IN  [Idle(Read(r), IF v = Upper THEN "Completed"
                     ELSE IF v = Lower THEN "Dismissed" ELSE r.status)
         EXCEPT !.value = v]

\* reset keeps what value() has cached.
ResetTo(r) == [Idle(r, "Dismissed") EXCEPT !.value = Lower]

-----------------------------------------------------------------------------
New(duration, reverse) ==
  [duration |-> duration, reverse |-> reverse, value |-> Lower,
   status |-> "Dismissed", drive |-> "none", from |-> Lower, target |-> None,
   style |-> None, repeating |-> FALSE, age |-> 0, seen |-> None, cache |-> None]

Init ==
  /\ ctrl \in [Controller -> {New(p[1], p[2]) : p \in Durations}]
  /\ alive = Controller
  /\ active = {}
  /\ dirty = {}
  /\ due = {}
  /\ drawn = [c \in Controller |-> Lower]
  /\ frame = "idle"
  /\ driver \in {"pipeline", "platform"}
  /\ calls = 0

\* As if a call did not notify.
CallSilent(c, r) ==
  /\ c \in alive
  /\ calls < MaxCalls
  /\ calls' = calls + 1
  /\ ctrl' = [ctrl EXCEPT ![c] = r]
  /\ UNCHANGED <<alive, views, frame, driver>>

\* A call ends with cx.notify(), which the view observes.
Call(c, r) ==
  /\ c \in alive
  /\ calls < MaxCalls
  /\ calls' = calls + 1
  /\ ctrl' = [ctrl EXCEPT ![c] = r]
  /\ dirty' = dirty \cup {c}
  /\ UNCHANGED <<alive, due, drawn, frame, driver>>

Start(c, r) == Call(c, r) /\ active' = active \cup {c}
Settle(c, r) == Call(c, r) /\ active' = active \ {c}

Forward(c) ==
  \E logging \in Logging : Start(c, Toward(ctrl[c], "Forward", logging))

Reverse(c) ==
  \E logging \in Logging : Start(c, Toward(ctrl[c], "Reverse", logging))

Toggle(c) ==
  IF ctrl[c].status \in {"Forward", "Completed"} THEN Reverse(c) ELSE Forward(c)

AnimateTo(c) ==
  \E target \in Targets, style \in Styles :
    LET status == IF Clamp(target) >= Value(ctrl[c])
                  THEN "Forward" ELSE "Reverse"
    IN  Start(c, ToTarget(ctrl[c], Clamp(target), style, status))

AnimateBack(c) ==
  \E target \in Targets, style \in Styles :
    Start(c, ToTarget(ctrl[c], Clamp(target), style, "Reverse"))

Repeat(c) == Start(c, Repeated(ctrl[c]))

\* As if animate_with did not register for the tick.
AnimateWithUnregistered(c) ==
  \E origin \in Origins :
    Call(c, Simulated(ctrl[c], origin)) /\ UNCHANGED active

AnimateWith(c) ==
  \E origin \in Origins : Start(c, Simulated(ctrl[c], origin))

\* fling reads the value for the simulation it starts from there.
Fling(c) == Start(c, Simulated(Read(ctrl[c]), Value(ctrl[c])))

Stop(c) == Settle(c, Stopped(ctrl[c]))

Reset(c) == Settle(c, ResetTo(ctrl[c]))

\* Anyone may read the value at any time.
ReadValue(c) ==
  /\ c \in alive
  /\ ctrl' = [ctrl EXCEPT ![c] = Read(@)]
  /\ UNCHANGED <<alive, active, views, frame, driver, calls>>

\* The last handle of the entity is dropped; active_animations is weak.
DropEntity(c) ==
  /\ c \in alive
  /\ alive' = alive \ {c}
  /\ UNCHANGED <<ctrl, active, views, frame, driver, calls>>

-----------------------------------------------------------------------------
\* Frames.

\* As if a tick left the cached value.
TickedKeepingCache(r) == [r EXCEPT !.seen = r.age]

\* TickTarget::tick.
Ticked(r) == [r EXCEPT !.seen = r.age, !.cache = None]

\* drive_animation_tick: the entries that say Continue stay in the set.
Visited == active \cap alive
Continuing == {c \in Visited : IsAnimating(Ticked(ctrl[c]))}

\* PreFrame runs the callbacks request_animation_frame left, each a notify
\* of its view; AnimationTick then ticks and notifies the continuing.  The
\* platform's frames have no AnimationTick.
BeginFrame ==
  /\ frame = "idle"
  /\ frame' = "paint"
  /\ due' = {}
  /\ IF driver = "pipeline"
     THEN /\ ctrl' = [c \in Controller |->
                        IF c \in Visited THEN Ticked(ctrl[c]) ELSE ctrl[c]]
          /\ active' = Continuing
          /\ dirty' = dirty \cup due \cup Continuing
     ELSE /\ dirty' = dirty \cup due
          /\ UNCHANGED <<ctrl, active>>
  /\ UNCHANGED <<alive, drawn, driver, calls>>

\* The views that were notified render: animated() reads the value and, when
\* the controller is animating, requests another frame.
Drawing == dirty \cap alive

Paint ==
  /\ frame = "paint"
  /\ frame' = "idle"
  /\ ctrl' = [c \in Controller |->
                IF c \in Drawing THEN Read(ctrl[c]) ELSE ctrl[c]]
  /\ drawn' = [c \in Controller |->
                 IF c \in Drawing THEN Value(ctrl[c]) ELSE drawn[c]]
  /\ due' = due \cup {c \in Drawing : IsAnimating(ctrl[c])}
  /\ dirty' = {}
  /\ UNCHANGED <<alive, active, driver, calls>>

\* The clock moves.
Older(r) == IF r.drive = "none" THEN r ELSE [r EXCEPT !.age = Least(@ + 1, Cap)]

Advance ==
  /\ ctrl' = [c \in Controller |-> Older(ctrl[c])]
  /\ UNCHANGED <<alive, active, views, frame, driver, calls>>

Next ==
  \/ \E c \in Controller :
       \/ Forward(c) \/ Reverse(c) \/ Toggle(c)
       \/ AnimateTo(c) \/ AnimateBack(c)
       \/ Repeat(c) \/ AnimateWith(c) \/ Fling(c)
       \/ Stop(c) \/ Reset(c)
       \/ ReadValue(c) \/ DropEntity(c)
  \/ BeginFrame \/ Paint
  \/ Advance

Spec == Init /\ [][Next]_vars

\* The clock does not stand still, and frames keep coming: the platform
\* calls on_request_frame at every refresh of its display.
Fairness == WF_vars(Advance) /\ WF_vars(BeginFrame) /\ WF_vars(Paint)

FairSpec == Spec /\ Fairness

-----------------------------------------------------------------------------
TypeOK ==
  /\ ctrl \in [Controller -> ControllerState]
  /\ \A c \in Controller :
       /\ {ctrl[c].value, ctrl[c].from, Value(ctrl[c])} \subseteq Lower .. Upper
       /\ ctrl[c].target \in (Lower .. Upper) \cup {None}
       /\ ctrl[c].style \in Styles \cup {None}
       /\ ctrl[c].age <= Cap
  /\ alive \subseteq Controller
  /\ active \subseteq Controller
  /\ dirty \subseteq Controller
  /\ due \subseteq Controller
  /\ drawn \in [Controller -> Lower .. Upper]
  /\ frame \in {"idle", "paint"}
  /\ driver \in {"pipeline", "platform"}
  /\ calls \in 0 .. MaxCalls

\* A frame of run_frame reaches every controller that animates: none of them
\* is missing from active_animations, whatever calls and ticks did to it.
RunningIsTicked ==
  driver = "pipeline" =>
    \A c \in alive : IsAnimating(ctrl[c]) => c \in active

\* Axiom P3: a value read of a ticked controller stays the value until it is
\* ticked again, whatever the clock and the calls do.
ReadsAgree ==
  [][\A c \in Controller :
       ctrl[c].seen # None /\ ctrl[c].cache # None /\ ~BeginFrame
         => Value(ctrl'[c]) = ctrl[c].cache]_vars

\* A segment that only depends on the controller's own bounds.
IsPlain(r) == r.drive # "simulation" /\ r.target = None /\ r.style = None

\* animate_to, animate_back, fling and stop leave the value where it was, and so
\* do forward and reverse unless they interrupt an override or a simulation:
\* nothing jumps when a segment replaces another.  A segment without a
\* duration is at its end at once.
CallsKeepPlace ==
  [][\A c \in Controller :
       (\/ AnimateTo(c) \/ AnimateBack(c) \/ Fling(c) \/ Stop(c)
        \/ IsPlain(ctrl[c]) /\ (Forward(c) \/ Reverse(c)))
         => \/ Value(ctrl'[c]) = Value(ctrl[c])
            \/ ctrl'[c].drive = "curve" /\ Length(ctrl'[c]) = 0]_vars

\* is_animating goes by the controller's own durations where value() goes by the
\* style's: a segment whose style is longer is taken for over while its value
\* still moves.  One that is over as it starts asks for no frame to show it.
Misjudged(r) ==
  /\ ~IsAnimating(r)
  /\ \/ /\ r.drive = "curve"
        /\ DefaultDuration(r) = 0 \/ DefaultDuration(r) < Length(r)
     \/ r.drive = "simulation" /\ SimEnd = 0

\* A view whose picture is not the controller's value is going to be drawn
\* again: it has been notified, or it has asked for another frame.  Segments
\* that is_animating misjudges are left out.
OutdatedViewIsDue ==
  \A c \in alive :
    drawn[c] # Value(ctrl[c]) /\ ~Misjudged(ctrl[c]) => c \in dirty \cup due

\* Where the segment is going.
Final(r) ==
  IF r.drive = "simulation" THEN Clamp(r.from + Throw[SimEnd]) ELSE End(r)

\* The view of a controller with a segment that does not repeat shows its end.
Arrived(c) ==
  c \in alive /\ ctrl[c].drive # "none" /\ ~(ctrl[c].drive = "curve" /\ ctrl[c].repeating)
    => drawn[c] = Final(ctrl[c])

\* A segment that nothing replaces comes to its end in the picture, unless it is
\* misjudged or repeats; and only controllers that animate stay in the active
\* set, from which the entries of dropped entities are swept out.
AnimationSettles ==
  /\ \A c \in Controller : <>[](Misjudged(ctrl[c]) \/ Arrived(c))
  /\ <>[](driver = "pipeline" => \A c \in active : c \in alive /\ IsAnimating(ctrl[c]))

\* Every segment that does not repeat comes to its end in the picture: the style
\* of animate_to and animate_back overrides the controller's duration.
SegmentsArrive == \A c \in Controller : <>[]Arrived(c)
=============================================================================
