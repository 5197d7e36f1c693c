----------------------------- MODULE AppEffects -----------------------------
(***************************************************************************)
(* The update cycle of App (app.rs): updates and frames queue effects, a   *)
(* flush drains them, and the callbacks it runs queue more, subscribe,     *)
(* unsubscribe, nest updates and panic.                                    *)
(*                                                                         *)
(* The app runs on one thread, and what is interleaved is its own call     *)
(* stack: `at' says which loop or callback is on top.  A callback is any   *)
(* sequence of the operations below.  Of the effects, Notify and Defer are *)
(* kept: Emit is a Notify without the deduplication, RefreshWindows and    *)
(* EntityCreated touch nothing that the properties speak of.               *)
(***************************************************************************)
EXTENDS SubscriberSet, SequencesExt

CONSTANTS
  Jobs,         \* deferred callbacks; bounds how many are queued at once
  MaxQueue,     \* bound on the effects that are queued
  MaxNesting,   \* bound on pending_updates
  MaxPanics,    \* bound on panics
  PanicIn       \* the entry points whose panics are caught above the app

ASSUME BoundsAssumption ==
  /\ MaxQueue \in Nat /\ MaxNesting \in Nat \ {0} /\ MaxPanics \in Nat
  /\ PanicIn \subseteq {"update", "frame", "idle"}

Placements == {"EndOfUpdate", "NextFrameStart", "PostFrame", "Idle"}

FramePhases == <<"PreFrame", "AnimationTick", "Build", "Layout", "Prepaint",
                 "Paint", "PostFrame">>

VARIABLES
  observers,       \* App::observers
  active,          \* the subscribers whose `active' cell is set
  held,            \* the subscribers whose Subscription is not dropped
  entity,          \* "alive", "dropped" (its handles are gone) or "released"
  queue,           \* App::pending_effects
  pending,         \* App::pending_notifications
  pendingUpdates,  \* App::pending_updates
  flushing,        \* App::flushing_effects
  phase,           \* App::current_phase
  at,              \* what is on top of the call stack
  scope,           \* the FlushScope of flush_effects_at, less its phase
  carry,           \* its local `carry'
  pass,            \* the locals of SubscriberSet::retain
  panics,          \* history: panics so far
  owed,            \* history: observers a notify is still to reach
  excused,         \* history: observers that ended, or that a panic took
  missed           \* history: drops that `retain' could not see

app == <<observers, active, held, entity, queue, pending>>
stack == <<pendingUpdates, flushing, phase, at, scope, carry, pass>>
history == <<panics, owed, excused, missed>>
vars == <<app, stack, history>>

NoPass == [emitter |-> CHOOSE e \in Emitters : TRUE, todo |-> {}, kept |-> {}, now |-> 0]

Notify(e) == [kind |-> "Notify", emitter |-> e]

\* `born' is history: queued outside frames, by an earlier frame, or by this one,
\* in the drain at the entry of a phase or later in the phase.
Origins == {"update", "earlier", "entry", "frame"}

Defer(p, j, born) == [kind |-> "Defer", placement |-> p, job |-> j, born |-> born]

\* new_observer defers the activation of subscriber i.
Activation(i) == Defer("EndOfUpdate", i, "update")

Effects ==
  [kind : {"Notify"}, emitter : Emitters] \cup
  [kind : {"Defer"}, placement : Placements, job : Jobs \cup Ids,
   born : Origins]

InPass == at \in {"pass", "callback"}

TypeOK ==
  /\ observers \in SubscriberSets
  /\ active \subseteq Ids /\ held \subseteq Known(observers)
  /\ entity \in [Emitters -> {"alive", "dropped", "released"}]
  /\ queue \in Seq(Effects) /\ carry \in Seq(Effects)
  /\ Len(queue) + Len(carry) <= MaxQueue
  /\ pending \subseteq Emitters
  /\ pendingUpdates \in 0 .. MaxNesting
  /\ flushing \in BOOLEAN
  /\ phase \in Range(FramePhases) \cup {"Idle"}
  /\ at \in {"rest", "body", "drain", "pass", "callback", "deferred", "phase"}
  /\ scope \in {"Legacy", "Phase", "PhasePost"}
  /\ pass \in [emitter : Emitters, todo : SUBSET Ids, kept : SUBSET Ids, now : Ids \cup {0}]
               \cup {NoPass}
  /\ panics \in 0 .. MaxPanics
  /\ owed \subseteq Ids /\ excused \subseteq Ids /\ missed \subseteq Ids

Init ==
  /\ observers = EmptySet /\ active = {} /\ held = {}
  /\ entity = [e \in Emitters |-> "alive"]
  /\ queue = <<>> /\ pending = {}
  /\ pendingUpdates = 0 /\ flushing = FALSE /\ phase = "Idle"
  /\ at = "rest" /\ scope = "Legacy" /\ carry = <<>> /\ pass = NoPass
  /\ panics = 0 /\ owed = {} /\ excused = {} /\ missed = {}

-----------------------------------------------------------------------------
(* What code given a `cx' may do.                                          *)

\* Build, Layout and Prepaint have no body; a controller's tick can only notify.
UserCode ==
  \/ at \in {"body", "callback", "deferred"}
  \/ at = "phase" /\ phase \in {"PreFrame", "Paint", "PostFrame"}

Room == Len(queue) + Len(carry) < MaxQueue

\* App::observe: inert until the flush reaches its activation.
Observe(e) ==
  /\ UserCode /\ Room
  /\ entity[e] = "alive"
  /\ Len(observers.keys) < MaxSubs
  /\ observers' = Insert(observers, e)
  /\ held' = held \cup {Len(observers'.keys)}
  /\ queue' = Append(queue, Activation(Len(observers'.keys)))
  /\ UNCHANGED <<active, entity, pending, stack, history>>

\* A Subscription is dropped by a callback, or with an entity that owns it.
DropSubscription(i) ==
  /\ at # "pass"
  /\ i \in held
  /\ observers' = Unsubscribe(observers, i)
  /\ held' = held \ {i}
  /\ owed' = owed \ {i}
  /\ LET e == observers.keys[i]
     IN  missed' = IF InPass /\ pass.emitter = e /\ observers.entry[e].kind # "taken"
                   THEN missed \cup {i} ELSE missed
  /\ UNCHANGED <<active, entity, queue, pending, stack, panics, excused>>

\* As if a notify joined the pass that is calling the emitter's observers.
PushNotifyOutsidePasses(e) ==
  LET known == e \in pending \/ (InPass /\ pass.emitter = e)
  IN  /\ entity[e] = "alive"
      /\ known \/ Room
      /\ queue' = IF known THEN queue ELSE Append(queue, Notify(e))
      /\ pending' = IF known THEN pending ELSE pending \cup {e}
      /\ owed' = owed \cup {i \in (active \cap held) \ excused : observers.keys[i] = e}
      /\ UNCHANGED <<observers, active, held, entity, stack, panics, excused, missed>>

\* App::notify: push_effect drops the second Notify of an emitter.  (For an
\* entity that a window drew, nothing is pushed while that window is drawing.)
PushNotify(e) ==
  /\ entity[e] = "alive"
  /\ e \in pending \/ Room
  /\ queue' = IF e \in pending THEN queue ELSE Append(queue, Notify(e))
  /\ pending' = pending \cup {e}
  /\ owed' = owed \cup {i \in (active \cap held) \ excused : observers.keys[i] = e}
  /\ UNCHANGED <<observers, active, held, entity, stack, panics, excused, missed>>

NotifyObservers(e) ==
  /\ UserCode \/ (at = "phase" /\ phase = "AnimationTick")
  /\ PushNotify(e)

Queued == {x.job : x \in {y \in Range(queue \o carry) : y.kind = "Defer"}}

Origin ==
  CASE phase = "Idle" -> "update"
    [] at # "phase" /\ scope = "Phase" -> "entry"
    [] OTHER -> "frame"

\* App::defer_to.
DeferTo(p, j) ==
  /\ UserCode /\ Room
  /\ j \notin Queued
  /\ queue' = Append(queue, Defer(p, j, Origin))
  /\ UNCHANGED <<observers, active, held, entity, pending, stack, history>>

\* The last handle goes: in a callback, also the one it was called with, or on
\* another thread, where it may happen at any instant of a flush or a frame.
\* take_dropped waits for a handle that is being dropped (upgradable_read).
DropEntity(e) ==
  /\ entity[e] = "alive"
  /\ entity' = [entity EXCEPT ![e] = "dropped"]
  /\ owed' = {i \in owed : observers.keys[i] # e}
  /\ UNCHANGED <<observers, active, held, queue, pending, stack, panics, excused, missed>>

-----------------------------------------------------------------------------
(* App::update.                                                            *)

\* What pending_updates was when the code on top of the stack was called.
Base == IF at = "body" \/ scope # "Legacy" THEN 0 ELSE 1

StartUpdate ==
  /\ at = "rest" \/ UserCode
  /\ pendingUpdates < MaxNesting
  /\ pendingUpdates' = pendingUpdates + 1
  /\ at' = IF at = "rest" THEN "body" ELSE at
  /\ UNCHANGED <<app, flushing, phase, scope, carry, pass, history>>

\* finish_update: only the outermost update, outside any flush, flushes.
FinishUpdate ==
  /\ UserCode /\ pendingUpdates > Base
  /\ IF ~flushing /\ pendingUpdates = 1
     THEN /\ flushing' = TRUE /\ at' = "drain" /\ scope' = "Legacy"
          /\ UNCHANGED pendingUpdates
     ELSE /\ pendingUpdates' = pendingUpdates - 1
          /\ at' = IF at = "body" /\ pendingUpdates = 1 THEN "rest" ELSE at
          /\ UNCHANGED <<flushing, scope>>
  /\ UNCHANGED <<app, phase, carry, pass, history>>

-----------------------------------------------------------------------------
(* flush_effects_at.                                                       *)

\* As if a phase's own placement could run on its way out.
AdmitsAtExit(p) ==
  \/ scope = "Legacy"
  \/ p = "EndOfUpdate"
  \/ <<phase, p>> \in {<<"PreFrame", "NextFrameStart">>,
                       <<"PostFrame", "PostFrame">>, <<"Idle", "Idle">>}

\* FlushScope::admits.
Admits(p) ==
  \/ scope = "Legacy"
  \/ p = "EndOfUpdate"
  \/ /\ scope = "Phase"
     /\ <<phase, p>> \in {<<"PreFrame", "NextFrameStart">>,
                          <<"PostFrame", "PostFrame">>, <<"Idle", "Idle">>}

Dropped == {e \in Emitters : entity[e] = "dropped"}

\* release_dropped_entities, on the way round the loop.
Released == RemoveAll(observers, Dropped)

ReleaseEntities ==
  entity' = [e \in Emitters |-> IF e \in Dropped THEN "released" ELSE entity[e]]

\* An effect whose placement has to wait.
CarryEffect ==
  /\ at = "drain" /\ queue # <<>>
  /\ Head(queue).kind = "Defer" /\ ~Admits(Head(queue).placement)
  /\ carry' = Append(carry, Head(queue))
  /\ queue' = Tail(queue)
  /\ observers' = Released /\ ReleaseEntities
  /\ UNCHANGED <<active, held, pending, pendingUpdates, flushing, phase, at,
                 scope, pass, history>>

\* apply_defer_effect; an activation sets the subscriber's cell and returns.
ApplyDefer ==
  /\ at = "drain" /\ queue # <<>>
  /\ Head(queue).kind = "Defer" /\ Admits(Head(queue).placement)
  /\ queue' = Tail(queue)
  /\ IF Head(queue).job \in Ids
     THEN active' = active \cup {Head(queue).job} /\ UNCHANGED at
     ELSE at' = "deferred" /\ UNCHANGED active
  /\ observers' = Released /\ ReleaseEntities
  /\ UNCHANGED <<held, pending, pendingUpdates, flushing, phase, scope, carry,
                 pass, history>>

\* As if the emitter stayed in pending_notifications while it is handled.
ApplyNotifyLate ==
  /\ at = "drain" /\ queue # <<>>
  /\ Head(queue).kind = "Notify"
  /\ LET e == Head(queue).emitter
     IN  IF Released.entry[e].kind = "here"
         THEN /\ observers' = Take(Released, e)
              /\ pass' = [emitter |-> e, todo |-> Released.entry[e].ids, kept |-> {}, now |-> 0]
              /\ at' = "pass" /\ UNCHANGED pending
         ELSE /\ observers' = Released /\ pending' = pending \ {e}
              /\ UNCHANGED <<pass, at>>
  /\ queue' = Tail(queue) /\ ReleaseEntities
  /\ UNCHANGED <<active, held, pendingUpdates, flushing, phase, scope, carry, history>>

\* apply_notify_effect, up to the first call of retain.
ApplyNotify ==
  /\ at = "drain" /\ queue # <<>>
  /\ Head(queue).kind = "Notify"
  /\ queue' = Tail(queue) /\ ReleaseEntities
  /\ LET e == Head(queue).emitter
     IN  /\ pending' = pending \ {e}
         /\ IF Released.entry[e].kind = "here"
            THEN /\ observers' = Take(Released, e)
                 /\ pass' = [emitter |-> e, todo |-> Released.entry[e].ids, kept |-> {}, now |-> 0]
                 /\ at' = "pass"
            ELSE observers' = Released /\ UNCHANGED <<pass, at>>
  /\ UNCHANGED <<active, held, pendingUpdates, flushing, phase, scope, carry, history>>

\* As if the carried effects came back last one first.
FlushEndsReversed ==
  /\ at = "drain" /\ queue = <<>>
  /\ queue' = Reverse(carry) /\ carry' = <<>>
  /\ observers' = Released /\ ReleaseEntities

\* The queue is drained: what was carried goes back to its front.
FlushEnds ==
  /\ at = "drain" /\ queue = <<>>
  /\ queue' = carry /\ carry' = <<>>
  /\ observers' = Released /\ ReleaseEntities

\* The rest of finish_update.
UpdateEnds ==
  /\ scope = "Legacy" /\ FlushEnds
  /\ flushing' = FALSE /\ pendingUpdates' = pendingUpdates - 1
  /\ at' = "rest"
  /\ UNCHANGED <<active, held, pending, phase, scope, pass, history>>

-----------------------------------------------------------------------------
(* SubscriberSet::retain, called by apply_notify_effect.                   *)

Least(S) == CHOOSE i \in S : \A k \in S : i <= k

\* The next subscriber in the order of ids.
Due == Least(pass.todo)

\* Inert subscribers are kept for a later pass.
SkipInert ==
  /\ at = "pass" /\ pass.todo # {} /\ Due \notin active
  /\ pass' = [pass EXCEPT !.todo = @ \ {Due}, !.kept = @ \cup {Due}]
  /\ UNCHANGED <<app, pendingUpdates, flushing, phase, at, scope, carry, history>>

\* observe_internal: the entity cannot be upgraded, the subscriber goes.
SkipReleased ==
  /\ at = "pass" /\ pass.todo # {} /\ Due \in active
  /\ entity[pass.emitter] # "alive"
  /\ pass' = [pass EXCEPT !.todo = @ \ {Due}]
  /\ excused' = excused \cup {Due}
  /\ UNCHANGED <<app, pendingUpdates, flushing, phase, at, scope, carry, panics,
                 owed, missed>>

CallObserver ==
  /\ at = "pass" /\ pass.todo # {} /\ Due \in active
  /\ entity[pass.emitter] = "alive"
  /\ at' = "callback"
  /\ pass' = [pass EXCEPT !.todo = @ \ {Due}, !.now = Due]
  /\ owed' = owed \ {Due}
  /\ UNCHANGED <<app, pendingUpdates, flushing, phase, scope, carry, panics,
                 excused, missed>>

\* A callback returns whether it wants to be called again.
ObserverReturns(again) ==
  /\ at = "callback" /\ pendingUpdates = Base
  /\ at' = "pass"
  /\ pass' = [pass EXCEPT !.now = 0, !.kept = IF again THEN @ \cup {pass.now} ELSE @]
  /\ excused' = IF again THEN excused ELSE excused \cup {pass.now}
  /\ owed' = IF again THEN owed ELSE owed \ {pass.now}
  /\ UNCHANGED <<app, pendingUpdates, flushing, phase, scope, carry, panics, missed>>

EndPass ==
  /\ at = "pass" /\ pass.todo = {}
  /\ observers' = PutBack(observers, pass.emitter, pass.kept)
  /\ pass' = NoPass
  /\ at' = "drain"
  /\ UNCHANGED <<active, held, entity, queue, pending, pendingUpdates, flushing,
                 phase, scope, carry, history>>

DeferReturns ==
  /\ at = "deferred" /\ pendingUpdates = Base
  /\ at' = "drain"
  /\ UNCHANGED <<app, pendingUpdates, flushing, phase, scope, carry, pass, history>>

-----------------------------------------------------------------------------
(* App::run_frame.                                                         *)

\* The history of a deferred callback, when the frame that queued it is over.
Aged(q) ==
  [n \in DOMAIN q |-> IF q[n].kind = "Defer" /\ q[n].born # "update"
                      THEN [q[n] EXCEPT !.born = "earlier"] ELSE q[n]]

\* Its debug_asserts: no frame is in flight, and nothing is flushing.
RunFrame ==
  /\ at = "rest" /\ phase = "Idle" /\ ~flushing
  /\ phase' = Head(FramePhases) /\ flushing' = TRUE
  /\ at' = "drain" /\ scope' = "Phase"
  /\ queue' = Aged(queue)
  /\ UNCHANGED <<observers, active, held, entity, pending, pendingUpdates, carry,
                 pass, history>>

\* run_phase, after the drain at its entry.
EnterPhase ==
  /\ scope = "Phase" /\ phase # "Idle" /\ FlushEnds
  /\ at' = "phase"
  /\ UNCHANGED <<active, held, pending, pendingUpdates, flushing, phase, scope,
                 pass, history>>

EndPhaseBody ==
  /\ at = "phase" /\ pendingUpdates = Base
  /\ at' = "drain" /\ scope' = "PhasePost"
  /\ UNCHANGED <<app, pendingUpdates, flushing, phase, carry, pass, history>>

Following(p) ==
  LET n == CHOOSE k \in DOMAIN FramePhases : FramePhases[k] = p
  IN  IF n = Len(FramePhases) THEN "Idle" ELSE FramePhases[n + 1]

\* The drain at its exit is over; after PostFrame comes the drain of Idle.
LeavePhase ==
  /\ scope = "PhasePost" /\ FlushEnds
  /\ phase' = Following(phase) /\ scope' = "Phase"
  /\ UNCHANGED <<active, held, pending, pendingUpdates, flushing, at, pass, history>>

FrameEnds ==
  /\ scope = "Phase" /\ phase = "Idle" /\ FlushEnds
  /\ flushing' = FALSE /\ at' = "rest"
  /\ UNCHANGED <<active, held, pending, pendingUpdates, phase, scope, pass, history>>

-----------------------------------------------------------------------------
(* Panics.                                                                 *)

\* Unwinding drops the locals of retain and flush_effects_at.
Unwind ==
  /\ panics < MaxPanics /\ panics' = panics + 1
  /\ LET taken == pass.todo \cup pass.kept \cup ({pass.now} \ {0})
     IN  excused' = excused \cup taken /\ owed' = owed \ taken
  /\ pass' = NoPass /\ carry' = <<>>
  /\ UNCHANGED <<observers, active, held, entity, pending, missed>>

Entered == IF at = "body" \/ scope = "Legacy" THEN "update"
           ELSE IF phase = "Idle" THEN "idle" ELSE "frame"

Panicking == UserCode /\ Entered \in PanicIn

\* As if abort_update_after_panic left flushing_effects alone.
AbortKeepingFlush ==
  /\ Panicking /\ Entered = "update" /\ Unwind
  /\ pendingUpdates' = 0 /\ at' = "rest"
  /\ UNCHANGED <<flushing, phase, scope, queue>>

\* abort_update_after_panic, for each update on the stack.
AbortUpdate ==
  /\ Panicking /\ Entered = "update" /\ Unwind
  /\ pendingUpdates' = 0 /\ flushing' = FALSE /\ at' = "rest"
  /\ UNCHANGED <<phase, scope, queue>>

\* abort_frame_after_panic, and the update of the window that run_frame adds.
AbortFrame ==
  /\ Panicking /\ Entered = "frame" /\ Unwind
  /\ phase' = "Idle" /\ queue' = Aged(queue)
  /\ pendingUpdates' = 1 /\ flushing' = TRUE
  /\ at' = "drain" /\ scope' = "Legacy"

\* The drain of Idle is outside every catch_unwind; the updates that a callback
\* nests in it still clear flushing_effects as they unwind.
AbortIdle ==
  /\ Panicking /\ Entered = "idle" /\ Unwind
  /\ pendingUpdates' = 0 /\ flushing' = (pendingUpdates = 0) /\ at' = "rest"
  /\ UNCHANGED <<phase, scope, queue>>

Abort == AbortUpdate \/ AbortFrame \/ AbortIdle

-----------------------------------------------------------------------------
Callbacks ==
  \/ \E e \in Emitters : Observe(e) \/ NotifyObservers(e) \/ DropEntity(e)
  \/ \E i \in Ids : DropSubscription(i)
  \/ \E p \in Placements, j \in Jobs : DeferTo(p, j)

Drain == CarryEffect \/ ApplyDefer \/ ApplyNotify
Pass == SkipInert \/ SkipReleased \/ CallObserver \/ EndPass
Returns ==
  \/ \E again \in BOOLEAN : ObserverReturns(again)
  \/ DeferReturns \/ EndPhaseBody
Ends == UpdateEnds \/ EnterPhase \/ LeavePhase \/ FrameEnds

Next ==
  \/ Callbacks \/ StartUpdate \/ FinishUpdate \/ RunFrame
  \/ Drain \/ Pass \/ Returns \/ Ends \/ Abort

Spec == Init /\ [][Next]_vars

\* Callbacks return, loops go on, and the platform keeps calling.
FairSpec ==
  /\ Spec
  /\ WF_vars(Drain \/ Pass \/ Ends)
  /\ SF_vars(Returns)
  /\ \A n \in 1 .. MaxNesting : SF_vars(FinishUpdate /\ pendingUpdates = n)
  /\ WF_vars(at = "rest" /\ StartUpdate)

-----------------------------------------------------------------------------
\* Between two entries of the platform nothing of an update, a flush or a
\* frame is left behind, whatever panicked in between: the next update
\* flushes again (abort_update_after_panic, abort_frame_after_panic).
AppIsUsable ==
  at = "rest" => pendingUpdates = 0 /\ ~flushing /\ phase = "Idle" /\ carry = <<>>

\* An observer that was active when its entity notified, and was not called
\* since, has a call coming: the deduplication of push_effect loses nothing.
OwedIsScheduled ==
  \A i \in owed :
    LET e == observers.keys[i]
    IN  e \in pending \/ (InPass /\ pass.emitter = e /\ i \in pass.todo)

\* A subscriber whose Subscription lives and whose entity lives is in the set
\* or in the pass that took it, whatever callbacks did to the set meanwhile.
LiveSubscribersAreKept ==
  \A i \in held \ excused :
    LET e == observers.keys[i]
    IN  \/ entity[e] # "alive"
        \/ i \in observers.entry[e].ids
        \/ InPass /\ pass.emitter = e /\ i \in pass.todo \cup pass.kept \cup {pass.now}

InSet(i) == i \in observers.entry[observers.keys[i]].ids

\* A dropped Subscription is out of the set once no pass runs, unless the
\* set could not see the drop.
DropsAreHonoured ==
  ~InPass => \A i \in Known(observers) \ (held \cup missed) : ~InSet(i)

\* The jobs of a queue that were deferred to a placement, in their order.
Placed(p, q) ==
  LET first[n \in 0 .. Len(q)] ==
        IF n = 0 THEN <<>>
        ELSE IF q[n].kind = "Defer" /\ q[n].placement = p
             THEN Append(first[n - 1], q[n].job) ELSE first[n - 1]
  IN  first[Len(q)]

\* The deferred callbacks of one placement are first in, first out, however
\* often they are carried over a phase boundary.
DefersKeepOrder ==
  [][panics' = panics =>
       \A p \in Placements :
         LET old == Placed(p, carry \o queue)
             new == Placed(p, carry' \o queue')
         IN  \/ new = old
             \/ new # <<>> /\ Front(new) = old
             \/ old # <<>> /\ new = Tail(old)]_vars

\* The job that a step of the flush starts.
Starts(p) ==
  at = "drain" /\ at' = "deferred" /\ Head(queue).placement = p

\* A NextFrameStart callback that the body or the exit of a phase queues does
\* not run in that frame.
NextFrameStartWaits ==
  [][Starts("NextFrameStart") /\ scope # "Legacy" => Head(queue).born # "frame"]_vars

\* A queued Notify is handled, however often callbacks notify again.
NotifyIsHandled == \A e \in Emitters : e \in pending ~> e \notin pending
=============================================================================
