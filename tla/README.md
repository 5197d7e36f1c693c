# flui: specifications and proofs

This directory holds TLA+ models of flui, a declarative UI framework in Rust:
modules translated from the source, TLC configurations that model-check them on
small instances, and theorems about them that TLAPS checks for every value of
the constants. `PROJECT.json` lists components, runs, mutants, hazards,
theorems, and for every definition the source lines it stands for.

The program's logic of interest is in `crates/flui-core` (application, effects,
frames, gestures, animation, keyboard, tasks, windows) and in
`crates/flui-navigator`. Most of it runs on the main thread. What is hard about
that part is not data races but re-entrancy: callbacks that run in the middle of
a loop over the very data they change, timer tasks that fire between two events,
frames and updates that cut into each other, panics that unwind through
half-done work. Truly concurrent are the threads that run background tasks, the
wake-ups they send to the main thread, and the handles of entities they drop.

    tlc -workers 2 -config MCSubscribers.cfg MCAppEffects
    tlapm GestureArenaProofs.tla

## 1. Inventory

For each part: what it keeps (S), what it does (O), what it interacts with (I),
what is hard (H) and what makes it correct (P).

**Pointer input** (`gesture/dispatch.rs`). S: `WindowPointerState` per window:
buttons down, `mouse_down`, position of the last Down. O: `convert` turns one
platform mouse event into zero, one or two pointer events. I: called by
`Window::dispatch_event`, feeds the arena. H: the platform loses Ups, repeats
Downs, leaves the window during a press. P: the stream consumers see is
bracketed; a repeated Down is dropped; no button of a cancelled press survives.
*Modelled: PointerInput, PointerSanitizer.*

**Gesture arena** (`gesture/arena.rs`, `gesture/binding.rs`). S: per pointer an
arena (entries, winner, `is_open`, `hold_count`) and the release task in
`arena_hold_timers`. O: add, dispatch, close, sweep, hold, release, cancel,
declare_winner, gc. I: events from the window, answers from the recognizers, a
task on the executor that comes back through `update_window`. H: several ways
to the end (Up, Cancel, Removed, timer, back-channel) in any order, Hover and
declarations between two presses; holds and tasks counted apart. P: one winner,
which stays; no dead arena kept; an undecided arena kept between presses is held,
keeps its task and gets released.
*Modelled: ArenaState, GestureArena, PointerArena; proved: GestureArenaProofs.*

**Recognizers** (`gesture/recognizers/`). S: each one's own state machine. O:
`add_pointer`, `handle_event`, `sweep_accepted`, `rejected`, the long-press
timer. I: through the arena, and back to it by a `Weak` back-channel. H: events
after the end, timers that outlive what they were for. P: only the winner acts,
at most one success per arena. *Modelled: Recognizers.*

**Gesture pass of the window** (`window.rs`, `window/core.rs`, the registration
in `elements/div.rs`). S: `pending_recognizers` parked by paint, the sanitizer,
the arena. O: `dispatch_event`'s gesture loop, `draw`, the two timers. H: parked
recognizers drained by one Down, not repainted before the next, or lost when a
cached view is reused. *Modelled: GestureDispatch.*

**Subscriptions** (`subscription.rs`). S: `SubscriberSet`: subscribers per
emitter (or `None` while they are being called), marks of those dropped
meanwhile, the next id. O: insert, activate, unsubscribe on drop, remove,
retain. I: every observer list of `App` and `Window`. H: all of it happens
inside `retain`'s callbacks. P: live subscribers survive, dropped ones go.
*Modelled: SubscriberSet, used by AppEffects.*

**App: updates and effects** (`app.rs`). S: `pending_effects`,
`pending_notifications`, `pending_updates`, `flushing_effects`, observers. O:
`update`, `finish_update`, `flush_effects_at`, `notify`, `observe`, `defer_to`,
the aborts after a panic. I: everything. H: nesting, deduplication, carrying,
panics. P: no notify is lost, deferred callbacks keep their order, and the app
can flush again whatever happened. *Modelled: AppEffects, with Notify and Defer.*

**Frames** (`frame/`, `App::run_frame`). S: `current_phase`, the frame clock,
the set of active animations. O: seven phases, each between two drains, then the
drain of Idle; the tick. H: placements admitted at a wrong boundary; panics in a
phase. P: a callback runs at its boundary; what animates is ticked.
*Modelled: phases and drains in AppEffects, the tick in Animation.*

**Entity map** (`app/entity_map.rs`). S: entities, reference counts (behind a
lock; handles may be dropped on other threads), leases, reservations. O:
reserve, insert, lease, end_lease, take_dropped. H: a last handle that goes
while its observers are being called. P: observers of live entities survive it,
those of dead ones go. *In AppEffects: the last drop, on any thread at any
instant, and the release.*

**Animation** (`animation/controller.rs`, `animated.rs`). S: per controller
status, value, what drives it (a curve, a simulation or nothing), overrides, the
value cached since the last tick. O: forward, reverse, toggle, animate_to,
animate_back, repeat, animate_with, fling, stop, reset; tick; `animated()`. I:
`active_animations` of the App, the phases of `run_frame` or the platform's
frames, the view that draws it. H: calls between a tick and a draw, segments
that replace others, frames that do not come from `run_frame`. P: what animates
is ticked; a value read stays until the next tick; nothing jumps; the last
picture shows the end. *Modelled: Animation; proved: AnimationProofs.*

**Executors and dispatchers** (`queue.rs`, `platform_scheduler.rs`,
`platform/{linux,windows,web}/dispatcher.rs`). S: three queues by priority, a
Condvar, counters of senders and receivers; on the main thread calloop's ping
and idle callbacks, Windows' `wake_posted` and messages, the web's mailbox. O:
dispatch, recv, pop by a loaded die; `process_events`, `run_foreground_task`,
`run_waker_loop`. I: every task of the program. H: a push that races a thread on
its way to sleep; a flag cleared after the last look at the queue; panics of
tasks; `PostMessageW` that fails. P: nobody sleeps on work; each task is started
once, in the order of its priority class. *Modelled: PriorityQueue,
BackgroundPool, MainThread; proved: BackgroundPoolProofs, MainThreadProofs.*

**Navigator** (`flui-navigator`). S: history entries and cursor, registered
routes, the chain resolved for the current path. O: push, replace, back,
forward, add_route, each through a pipeline of guards, middleware, `on_exit`,
`on_enter`, all of which may deny or redirect. I: outlets render the chain. H:
four ways to match a path to routes; redirects after the history has moved. P:
the history is a browser's; the chain is that of the current path; what is
shown was guarded; navigation ends. *Modelled: RouteTree, Navigator; proved:
NavigatorProofs.*

**Keyboard and focus** (`key_dispatch.rs`, `keymap.rs`, `window.rs`). S: the
keymap, the focus, the last frame, pending keystrokes and their timer. O:
dispatch of a key event, replay, the timeout, focus, blur, draw. I: bindings and
listeners, which may move the focus. H: a prefix of a longer binding that turns
out to be none; a timer against the next key; focus that moves between and
during frames. P: keystrokes keep their order, pending text is delivered, and
listeners are told a coherent story. *Modelled: KeyDispatch, KeyInput; proved:
KeyInputProofs.*

The parts that are not modelled are in section 8.

## 2. Modules

| module | stands for |
|---|---|
| `ArenaState` | one arena's scalar fields and the operations on them; the entries are a parameter |
| `GestureArena` | what the arenas of all pointers promise, for *any* recognizers (each answers every event arbitrarily) |
| `PointerInput` | `PointerSanitizer::convert` as a function |
| `PointerSanitizer` | the stream it makes of any sequence of platform events |
| `PointerArena` | the two composed: the arenas of `GestureArena` driven by the sanitizer's stream, as in the loop of `dispatch_event` |
| `Recognizers` | the seven built-in recognizers, as functions of state and call |
| `GestureDispatch` | one window's gesture pass: sanitizer, parked recognizers, arena, timers |
| `SubscriberSet` | the set of subscribers, its `retain` split at its callbacks |
| `AppEffects` | updates, the flush, frames and panics of one `App` |
| `Animation` | controllers, the tick, the two drivers of frames, the views that draw them |
| `PriorityQueue` | the three queues and the die of `pop_inner`, as operators |
| `BackgroundPool` | the background threads around that queue |
| `MainThread` | how runnables reach the main thread on Linux, headless, Windows and the web |
| `TaskDelivery` | what a dispatcher promises |
| `RouteTree` | the tree of routes and the ways of matching, as recursive functions; what resolution means, without the search |
| `Navigator` | history, chain and pipeline of the router |
| `BrowserHistory` | what back and forward promise |
| `KeyDispatch` | precedence of bindings, pending keystrokes and replay, as functions |
| `KeyInput` | one window's focus, frames and keyboard input over time |
| `...Proofs` | theorems about the module of that name |
| `MC*` | small instances |

Three specifications are abstract, and what implements them is shown to:

- `GestureDispatch` implements `GestureArena` (`ImplementsArena`, proved): the
  concrete arena is mapped to its number of entries, the release task to
  "pending", the sanitizer to its `mouse_down`. What is proved of the abstract
  arena for any recognizers thus holds of the built-in ones in any window.
- `Navigator` implements `BrowserHistory` (`ImplementsHistory`, proved): entries
  before the cursor are behind, those after it ahead.
- `BackgroundPool` and `MainThread` implement `TaskDelivery`
  (`ImplementsDelivery`, proved for both): per priority, and for the main thread
  the idle callbacks of calloop together with the queue.

### How state and actions correspond to the code

*Gesture pass.* One action is one platform event taken to the end of the loop
body of `dispatch_event` (`Press`, `Lift`, `MovePointer`, `Leave`), one firing
of a task (`ReleaseFire`, `LongPressFire`), one frame (`Draw`), or a tick of the
clock. All of these run on the main thread to completion, so they are atomic. A
task that is due runs before time goes on; between two tasks and an event that
are due together every order is explored. Pixels and milliseconds become small
integers that keep every comparison the code makes: one tick is longer than
`double_tap_min_time`, `double_tap_timeout` is shorter than
`long_press_timeout`, as in the defaults. Velocities, pressure, deltas and
modifiers are left out. Mouse-down listeners run in another pass of
`dispatch_event` and are left out.

*Arenas.* `GestureArena` puts no condition on recognizers: an answer or a
declaration may come at any time, to a Hover between two presses too, since
`dispatch_event` hands every pointer event to the arena that is there
(`Move`), and `ArenaBackChannel` asks for no press (`BackChannel`). Its `contact`
is only what the guards of `Down`, `OrphanDown` and `Up` go by. In
`PointerArena` one step is one platform event: the sanitizer's step gives the
events, `Handled` the arena's action for them, and `contact` stays equal to
`mouse_down`.

*App.* The program's call stack is what interleaves: `at` names the loop or the
callback on top of it, `pass` holds the locals of `retain`, `carry` and `scope`
those of `flush_effects_at`. A callback is any sequence of the operations a
`cx` offers (observe, notify, drop a subscription or an entity, defer, nested
updates), then it returns or panics. `pendingUpdates > Base` says how many
updates the callback itself has opened. Callbacks of a phase are those of its
body; Build, Layout and Prepaint have none, and AnimationTick can only notify.
The last handle of an entity may also go on another thread, so `DropEntity` has
no guard on the stack. `owed`, `excused`, `missed`, `panics` and the `born` of a
deferred callback are history variables: no guard of the code's actions reads
them, except the bound on `panics`. Left out of the lines mapped: `Emit`,
`RefreshWindows`, `EntityCreated` and global notifications in the loop of
`flush_effects_at`, the window redraws at the end of a flush in test builds, the
time budget (never set by a caller), profiling.

*Animation.* A call on a controller is one action and ends with `cx.notify()`,
which makes its view dirty. A frame is two actions, because calls come between
them: `BeginFrame` (the callbacks of `request_animation_frame`, then the tick)
and `Paint`. `driver` chooses who calls them: `run_frame`, or the platform, whose
frames have no tick. The durations a controller is made with are its own fields,
chosen at the start among `Durations`, zero and a missing reverse duration
included; a style's duration may be longer or shorter. Instants are kept relative to the start of a segment (`age`)
and stop at `Cap`, beyond which no comparison changes. Floats are integers and
the curve is linear; `Throw` is any table of positions of a simulation.

*Tasks.* What a thread does with the queue's lock held is one action; what it
reads outside (`sender_count`, `receiver_count`, `wake_posted`, the signal in
shared memory) is one of its own. Between push and signal
(`sending`) any thread may be stopped. On the web other threads push and signal
the mailbox, and the main thread calls setTimeout (`SetTimeout`,
`schedule_runnable`). The browser's timers are external: those of one delay fire
in the order they were set, and a timer set by a timer may be one of those that
the browser clamps to some milliseconds (`clamped`; it does so from the fifth
nested one on, the model at any). The die's throw is the set of outcomes
its probabilities leave possible.

*Navigator.* A route owns its children, so the tree has no cycle
(`RouteTreeAssumption`). A search is a function of where it stands: `Leads` says
whether `resolve_recursive` succeeds from there, `Search` which chain it leaves
in the stack. A navigation is a sequence of actions, one per stage of
`navigate_with_pipeline`; nothing else can happen meanwhile, since hooks get an
`&App`, but the properties are asked in between, where hooks look. Hooks answer
as they like. Paths are sequences of segments, as every caller trims and splits
them; captured parameters are left out. `entered` is a history variable: who was
told `on_enter`, and at which path, since it was last told `on_exit`; an
`on_enter` that redirects has been called like any other.

*Keyboard.* A key event or a timer makes a `job`: runs of keystrokes to replay,
then one run to dispatch or keystrokes to keep. A step hands one run to the
application, whose code may move the focus or blur. `Draw` is `Window::draw` as
far as focus goes; a listener it calls may move the focus again. `owed` and
`restored` are history variables.

## 3. Runs

| run | question | bounds |
|---|---|---|
| `arena` | do arenas come to an end, with one winner, whatever the platform reports and the recognizers answer? are presses bracketed? | 1 pointer, 3 entries, 2 holds; 2 x 2 window, 4 positions: inside, on the far edge, outside on both sides; 3 buttons |
| `dispatch` | do the built-in recognizers, with their timers and frames, keep to one gesture, and implement `GestureArena`? | Tap, horizontal drag and LongPress in front of DoubleTap, Pan and Scale, on an element that reaches out of the other and is cached; 3 positions, 2 buttons, 6 entries |
| `subscribers` | what becomes of subscribers that come, go, notify, drop their entity, nest updates and panic while they are called? | 1 emitter, 3 subscribers, 3 queued effects, 2 nested updates, 1 panic (in an update or a phase) |
| `frames` | do deferred callbacks of every placement run in order and at their boundary? | 2 jobs, 1 subscriber, 3 effects, 2 nested updates, 1 panic (anywhere, the Idle drain included) |
| `navigation` | does the history stay a browser's and the chain that of the path, through every mix of denials and redirects? | the tree of ten routes drawn in `MCNavigator`, which needs backtracking and default children; 6 paths, 2 history entries, 5 redirects; lifecycles on three routes, one nested, one registered late |
| `animation` | does what animates get ticked and drawn to its end, under both drivers? | 1 controller, 3 calls, durations 0 to 2, with and without one for the reverse, styles of 0, 1 and 3 |
| `workers` | does the pool lose a wake-up or starve a task? | 3 threads, 1 caller, 4 tasks of any priority, 2 panics, the dispatcher dropped at any time |
| `main_thread` | does the main thread sleep on runnables, or run them twice or out of order, on any platform? | 3 threads besides it, 5 runnables, 1 failure of `PostMessageW` |
| `keyboard` | do keystrokes, focus and listeners stay in step? | 2 focusable elements, one in the other; 4 keystrokes of 3 keys, 3 changes of focus, views, activation or keymap, 2 keymaps |
| `held_forever`, `web_mailbox`, `long_style` | three claims of the repository the code does not keep (section 6) | smallest that shows it |

Why the bounds are enough. Arenas of different pointers share nothing but the
manager's map, and a window has one mouse: one pointer covers every interaction
(the proofs are for any number); three entries give a
winner, a loser before it and a loser after it. `Room`, `MaxQueue`, `MaxSubs`
and `MaxEntries` bound what the environment starts, never what the code does
with it. One emitter is enough for `SubscriberSet`, whose maps of different
emitters meet only in `dropped_subscribers` (the proofs cover any number).
Three subscribers give one that was called, one that is being called and one
that is to be called; a subscriber of the fresh map is one that comes while
another is called. Two jobs give an order. One panic leaves everything a panic
can leave; a second one starts from the same states. Two history entries are
the least that a push can cut, drop or move back in; `MAX_REDIRECT_DEPTH` is the
code's own five. Controllers share only `active_animations`, of which each
touches its own member; three calls replace a segment by each other kind and
replace it again, and a style of 3 is longer than every duration. Three threads besides a sleeper are enough for one to take
what another was woken for; two of three may die, since with none left
`dispatch` panics by itself. Five runnables are more than the places where one
can wait on any platform. Four keystrokes outgrow the longest binding (three) by
one, which starts a replay with something left over.

Deadlock is checked where the system may not stop. `workers`, `main_thread`,
`web_mailbox` and `keyboard` have `CHECK_DEADLOCK FALSE`: a model that has used
up its tasks or keystrokes rests, and the web's loop may exit.

The `TypeOK` of a module that is run says what its variables hold; all of them
are proved, those of `BackgroundPool` and `MainThread` as part of `PoolInv` and
`SignalInv` (section 4).

### Fairness

- Gestures: in `arena` and `held_forever` tasks that are due are run (the
  executor's timers), and in `held_forever` the clock goes on. Nothing is assumed of the user, who may
  press for ever. `dispatch` needs none, its properties are of safety.
- App: loops go on (`WF` on drains and passes); callbacks return, even if they
  open updates on the way (`SF` on returns and on the end of an update at each
  depth: the callback may alternate between open and closed updates, never
  staying at the return); the platform keeps calling (`WF` on a new update at
  rest: every event and every vsync enters the app through `update`). Without
  the last one a notify queued just before a panic would stay queued, which the
  code allows as well.
- Navigation: a navigation is one synchronous call, so its pipeline goes on.
- Animation: the clock does not stop, and frames begin and are painted: the
  platform calls `on_request_frame` at every refresh.
- Background pool: the system runs every thread that can run, and a task ends or
  panics. Main thread: the same of its loop and of every sender; and `SF` on
  `RunTask`, because `run_foreground_task` could be out of time before its first
  runnable every single time only if paint and input took all of it.
- Keyboard: the executor runs timers that are due, the update cycle its deferred
  effects, and the steps of one dispatch follow each other.

## 4. Theorems

TLC checks these on the instances above; TLAPS proves them for every value of
the constants that satisfies the modules' `ASSUME`s. (`RestingArenaIsHeld`,
`WinnerIsAnEntry` and the facts on types are theorems only.)

*GestureArenaProofs* (any pointers, recognizers, `HoldMax >= 1`). `ArenaInv`
says that an arena is absent, or open with entries and a winner among them; it is
inductive by itself and gives `ArenasAreSound`. `RestInv` adds that an undecided
arena between presses is held (`RestingArenas`): only an Up or the release task
can leave such an arena, and both sweep the one that nobody holds. It asks that
nobody has won: a recognizer may answer a Hover, or declare from a task, and the
arena it decides may be left without a hold (section 6). The two action
properties follow from `ArenaInv`. `WinnersAreFinal` is about the winner.
`HoldsAreTimed` (`TaskKept`) is about the hold and its task: whatever happens to
an arena, during a press or between two, it does not lose its task while it is
held, except that the task itself releases one hold of several; that is the
defect of `held_forever`, and this says that it is the only one of its kind.

The last section of that module is about the events the arenas are driven by
(any window, any positions, any sequence of platform events). `StreamInv` ties
the sanitizer's state to what its consumers have seen and to the last event: who
has seen a press is in one (`open => mouse_down`; the converse fails, a release
of another button ends the press of one that is still down), and after a
MouseDown the sanitizer remembers it. `PressesAreBracketed` and
`RepeatedDownsAreDropped` follow, the latter only for positions inside the
window (section 6). `StreamDrivesArena` is what the guards of `GestureArena` take
for granted of its `contact`: it begins with a Down, and a Down that finds it set
brings a Cancel with it (`OrphanDown`). Of a Move they ask nothing.

*GestureDispatchProofs* (any elements, hit paths, recognizers with any filters
and settings). The argument goes from the recognizers up. `Sane` says what any
of the seven may answer to a call, and what state it is in afterwards; a lemma
per kind proves it. From it follows what the dispatcher makes of a pass over the
entries: who has won (`WonBy`), who is kept and in which order (`KeptAt`), what
the indices that long presses were told point at. `WindowInv` is inductive by
itself: a kept arena is open, has a captain and its winner is one of its entries;
a DoubleTap in an undecided arena has a hold; between presses nobody has won and
no drag or long press is under way (`Rested`). It gives `WindowTypes`,
`PendingIsHeld` and the refinement `WindowImplementsArena`, event by event.
`OneGesture` and `WinnerActsAlone` need `Owned` besides: what is started has the
arena, and while nobody has won no long press finds another's entry at its
index. That is an invariant only if no press brings three long presses
(`FewLongPresses`): with three, and an entry in front of them that is dropped,
two of them start (section 6).

*AppEffectsProofs* (any entities, subscribers, jobs, bounds on queue, nesting and
panics).

- `AppStaysUsable`: `[]AppIsUsable`, assuming that no panic is caught above the
  Idle drain (with one it is false, section 6). `AppIsUsable` speaks of
  the bottom of the stack only; `UsableInv` says for every place of the stack
  what the counter, the flag, the phase and `carry` are, because an abort cuts
  the stack anywhere.
- `SubscribersAreKept`, `NotifiesAreOwed`, `DroppedSubscribersGo`. All three
  stand on `SetInv`: the set is well-formed (a subscriber sits under the emitter
  it subscribed to, nobody under a `None`), what `retain` has on its stack
  belongs to the emitter of the pass, a subscriber that is marked as dropped is
  not held. `KeptInv` is `LiveSubscribersAreKept` itself. `OwedInv` needs it:
  who is owed a call is active, held and alive, so when the Notify is taken from
  the queue he is among those that `retain` takes. `GoneInv` adds that who was
  dropped during a pass is marked, or the set could not see the drop.
- `DefersStayInOrder` (`DefersKeepOrder`) and `NextFrameWaits`
  (`NextFrameStartWaits`) follow from `FlowInv`, about what a flush may carry:
  only what its scope does not admit; and in the drain at the entry of PreFrame
  nothing that the running frame deferred from a body or an exit, because
  `run_frame` ages what older frames left and `Following` never leads back to
  PreFrame. It needs nothing of where panics are caught: `PlaceInv` is what
  is left of `UsableInv` if they strike the Idle drain too. An effect that is
  admitted is then the first of its placement in both queues
  (`PlacedConcat`, `PlacedNone`), whatever is carried in front of it.
- `AppTypes`: every field, the stack of a pass and both queues included, keeps
  its type and its bound, wherever panics are caught. `RecordInv` is for the
  counts of calls and misses, `CountInv` ties the depth of updates to the place
  in the stack, and `RoomInv` says that what a place still has to queue fits:
  the environment's bound is a bound on the code. It needs room for one update
  (`BoundsAssumption`), which the panic path of `run_frame` opens to notify.
- The steps are sorted first (`StepKinds`, `FlowKinds`): those that do not concern
  subscribers, those that only release entities, panics, and the operations of
  `SubscriberSet`, each of which has a lemma (`InsertFacts` ... `PutBackFacts`).

*NavigatorProofs* (any tree, paths, hooks and bounds). `HistoryIsSound`: the
cursor is on one of at most `max_size` entries. `HistoryInv` is inductive
because it also says that a pending `back` or `forward` was called where there
was an entry to go to, and that only the pipeline's own step moves the cursor
before it is reached. `HistoryIsBrowsers` is the refinement: each operation on
the vector is an operation on what is behind, here and ahead.
`ShownChainIsCurrent` holds because every action that changes the history or the
routes resolves the chain again, or keeps the path. `NavigatorTypes` needs that
what a walk meets are routes of the tree (`WalkedAreRoutes`).

`StackAnswers` and `ShownAreWalked` are about the recursive functions of
`RouteTree`, on trees of any shape. That such a function exists and obeys its
equation is itself a theorem here: `Recursion` builds it wherever the descent is
`Grounded` (every set of places has one with nothing of the set below it), and
`FromBelow` proves what is handed up from below. A search is grounded by
`MAX_DEPTH`, a walk and the default children by the tree, a chain by its length.
`LeadsIsComplete`: the search succeeds at a spot if and only if a lineage of at
most the depth that is left begins there and spells what remains of the path.
`SearchAnswers`: what it returns is such a lineage with the default children of
its last route behind it. With `ResolveAnswers`, `ShownChainIsCurrent` then is
`StackAnswersPath`. `SearchIsWalked`: the search and the walk for hooks, which
compares whole prefixes of the path instead of what remains of it, have taken
the same segments when they meet a route. `WalkInv` adds what time does: the
routes walked are those of the target, and the target is where the router is
once it has moved.

`EnteredAreShown` is `EnteredRoutesAreShown` for any tree and any lifecycles:
siblings that claim the same path, nested routes and default children included.
`EnterInv` is inductive: between the exit and the next entrance nobody awaits its
`on_exit` whom `current_route` names for the path it was entered at, because what
`on_exit` asks is that very lookup at that very path (`CurrentStays`: a
route that is added is searched after the others, and is nobody's child by
`NavigatorAssumption`, as it is moved into the list); then only the leaf of the
chain is entered, be it to redirect at once. A leaf that `current_route` does not
name is never told that it is left; the property leaves it out (`Named`), and
section 6 has the disagreement.

*AnimationProofs* (any controllers, bounds, durations, targets, simulations). A
lemma per operation on a controller's fields keeps `Sound` (types, bounds, the
last tick is not in the future) and `Current` (once a segment was ticked at an
instant after its start, the cached value is what `value()` computes). `Inv` adds that
the active set holds only what is driven, and the platform's frames never tick.
`ControllersAreTyped`, `AnimationsAreTicked`, `ValuesAgree`, `SegmentsKeepPlace`
follow. `ViewsAreDue` needs `ShownInv` (a view that is neither dirty nor due
shows a controller that no longer moves). It assumes nothing of durations and
styles: the segments that `is_animating` judges wrongly are left out one by one
where they are in that state (`Misjudged`: a curve that takes longer than the
controller's own duration, a duration or a simulation that is over as it starts),
and the views of the others are due, also when they replace such a segment
or are replaced by one. Both parts of `Misjudged` are needed; `long_style` shows
the first, section 6 has the second.

*BackgroundPoolProofs* (any finite set of threads, any callers and bounds).
`PoolInv` is `SleepersAreSpare` with the types and "a thread has a task while it
runs one": each push adds a task and, while anyone sleeps, a thread on its way;
a thread that takes a task leaves both counts; it goes to sleep only on an empty
queue. `TheDieIsFair` is arithmetic on the weights. `TasksKeepOrder` is the
refinement of `TaskDelivery`.

*MainThreadProofs* (any senders, platforms and bounds). `NoWakeUpIsLost` needs
`SignalInv`: on Windows a set `wake_posted` promises a message that is posted or
about to be, wherever the main thread is not going to look at the queue again
(`FlagIsPromise`, `MessageOrOnTheWay`); with calloop the ping must be there
before the idle callbacks run (`PingedOrOnTheWay`). `RunnablesKeepOrder` is the
refinement of `TaskDelivery` on all four platforms. Its classes are what was
pushed and the two kinds of browser timers, which are empty but on the web: on
Linux and Windows it says that runnables are run in the order dispatched. On the
web each class keeps its own order and nothing relates them; mail may be late
for ever (`web_mailbox`), never twice.

*KeyInputProofs* (any tree of elements and any keymap). `FrameInv` gives `FocusIsTold` and `FocusEventsAreChained`: what
listeners were told last is what the frame on the screen holds, and a window
that is not dirty shows its state but for a focus moved while it was drawn.
`InputInv` gives `ObserversHearInput`: a job holds all that is kept, a timeout
calls the observers before it replays, and keystrokes outlive the focus they
were typed under only by a blur. `KeysStayInOrder` needs `KeysInv`, which adds
the types of what is pending: a key event hands on what was pending and its own
keystroke, once each and in that order, whichever bindings are found, because
`DispatchKey` and the flush cut the keystrokes in pieces and lose none. Both are
recursive; `DownRecursion` shows that they exist, and a smallest counterexample
that they keep the keystrokes. `KeyTypes` stands on the same invariant.

Only model-checked:

- what `Matches` and `CurrentRoute` find, which no property is about;
- liveness under fairness: `RestingArenaResolves`, `NotifyIsHandled`,
  `NavigationEnds`, `AnimationSettles`, `TasksStart`, `TasksRun`,
  `TextIsDelivered`. TLAPS has no rule for it here.

The library's theorems on induction take an operator as a parameter and cannot
be cited with the provers at hand. The recursive functions are therefore reasoned
about by smallest counterexamples and by `FromBelow`, whose parameter is a set.

## 5. Properties and what breaks them

Every property of a passing run has a mutant in `PROJECT.json`: a definition of
the model changed as a bug in that code would change it (an operator before the
definition, with a comment that begins "As if"), with which TLC finds the
property violated.

## 6. Where the code and its documentation disagree

With a run that shows it:

- `long_style`: `animate_to` and `animate_back` with a style longer than the
  controller's duration stop midway under the platform's frames, because
  `is_animating` compares with that duration (`controller.rs:363`), although
  the style "overrides the controller's default duration" (`controller.rs:483`).

- `held_forever`: two quick taps on two double-tap elements leave `hold_count`
  1 and no release task; the arena is never swept (`window.rs:5172`,
  `binding.rs:335`).
- `web_mailbox`: `run_waker_loop` resets the mailbox's signal before it waits.
  What is posted between the end of a drain and the reset stays in the mailbox
  until something else is posted; what is posted between the reset and
  `Atomics.waitAsync` ends the loop for good (`platform/web/dispatcher.rs:92`;
  line 57: "TODO-Wasm: Verify this lock-free protocol").

Read in the code while modelling, without a run of their own:

*Gestures.*

- The release task counts from the first Down, the doc of the timeout from the
  first Up; a second press can lose its arena (`double_tap.rs:60`).
- The long press finds itself by an entry index that dropping an earlier entry
  has shifted (`long_press.rs:199`). With three long presses on one path and an
  entry dropped in front of them, the first timer starts the second one's
  gesture and makes it the winner, and the winner's own timer then starts the
  third: two `long_press_start` in one arena. Two long presses are safe
  (`OneGesture`).
- A cached view that is reused repaints no recognizers: its elements stop
  hearing gestures until they are painted (`window.rs:3135`).
- A redraw between two presses on one double-tap element registers a second
  recognizer; the arena may keep a hold without a timer, as in `held_forever`.
- The second tap of a double tap may be made with another button than the
  filter allows (`double_tap.rs:217`).
- Outside the window a repeated Down is never a duplicate: the raw position is
  compared with a clamped one (`dispatch.rs:158`).
- A recognizer that quits in the pass another one wins is told `rejected` again.
- Between the presses of a double tap a Hover is dispatched to the held arena
  (`window.rs:5162`), and a recognizer's own task may declare a winner
  (`arena.rs:199`). The built-in ones do neither; an application's that does
  leaves a decided arena that stays until the next terminal event. The release
  task may find no hold there, which trips the `debug_assert` of
  `GestureArenaManager::release`.
- The release task also cuts off a long press held on a double-tap element.

*App.*

- A Subscription dropped in a pass after a new one was inserted for the same
  emitter stays subscribed (`subscription.rs:156`, `:77`).
- A `NextFrameStart` callback queued during the drain at the entry of PreFrame
  runs in that drain (`app.rs:3485`).
- A panic in the Idle drain leaves `flushing_effects` set (`app.rs:2080`).
- `defer_to`'s doc says where a placement drains; the flush of a plain update
  between frames drains every placement (`app.rs:990`).
- A panic in a phase drops the effects `flush_effects_at` had carried, and the
  update that `run_frame` adds flushes the rest at once; the doc says the queue
  drains at the next boundary (`app.rs:2503`).
- A panic in a tick loses the set of active animations the doc says tick again,
  and the leased controller (`app.rs:2443`).
- An observer that subscribes while a Notify of its entity is queued is
  activated after that Notify, and a later notify is deduplicated into it.
- Closing a window inside a window-closed observer calls nobody for it: the
  inner `retain` finds the set taken (`app.rs:1866`).
- After a panic in a callback, marks left in `dropped_subscribers` trip a
  `debug_assert` of the next `retain` (`subscription.rs:146`).

*Navigator.*

- `on_exit` asks the top-level `current_route` (`context.rs:463`,
  `state.rs:182`), `on_enter` the leaf of the chain (`context.rs:474`). A nested
  route, or one of two that match the same path, is told `on_enter` and never
  `on_exit` where the two differ, though `lifecycle.rs:184` says `on_exit` is
  called on leaving the route. `MCNavigator` has such a route (`edit`);
  `EnteredRoutesAreShown` speaks of the others.
- The guards and middleware of a default child `index` are not among those asked
  for the path of its parent.
- A pattern with `*` is matched by `Route::matches` (`route.rs:908`) and never by
  `resolve_match_stack`, which the outlets render.
- `push_with_state` attaches its state to whatever a redirect made current.
- A navigation that `on_enter` redirects at the last allowed depth is reported as
  blocked although the history has moved.
- The middleware before a navigation runs without the one after it when
  `on_exit` denies; `on_exit` is told although it denies.
- An override of the next transition survives a blocked navigation
  (`transition.rs:29`).
- `state_mut()` and `clear` change the history without resolving the chain.

*Animation.*

- No status becomes Completed by itself: only `stop` computes it.
- The tick that ends an animation emits no Notify: a view that observes the
  controller and asks for no frames never draws the end.
- A segment of duration zero, or a simulation that is done at once, with a value
  cached, leaves a stale picture: nothing animates, so no frame is asked for.
- `forward` and `reverse` drop overrides and simulation before they read the
  value, so they jump when nothing is cached. Enabling `log::debug!` reads it
  first and changes that.
- `repeat` (`controller.rs:646`, "Animate forward and repeat indefinitely.") stays
  at the upper bound: nothing starts the segment again. `AnimationSettles` and
  `SegmentsArrive` say nothing of segments that are to repeat.
- `animate_with` leaves `repeating` set.
- `reset` keeps the cached value, though `status.rs:16` says Dismissed means
  "At lower bound, idle."
- `run_frame` is called by `TestApp` alone: frames of a platform have no tick,
  and `animated()` then reads the value and `is_animating` at two instants.

*Tasks.*

- Dropping the last sender notifies nobody, so a `recv` that waits hangs though
  its doc promises an error (`queue.rs:156`).
- Linux' drop of the sender pings before the count goes down, so `Closed` may be
  missed (`linux/dispatcher.rs:233`).
- A `PostMessageW` that fails leaves `wake_posted` set: nothing wakes the main
  thread until something else drains the queue (`windows/dispatcher.rs:149`).
- Low priority is served only with probability while higher ones keep coming.
- On the headless platform a runnable that wakes itself keeps `process_events`
  from ending.

- On the web runnables are not run in the order dispatched, though
  `executor.rs:428` says that they "run in order on the main thread": those
  of other threads go through the mailbox, those of the main thread through
  setTimeout (`web/dispatcher.rs:250`, `:316`), and the two overtake each other;
  so do timers that the browser clamps and timers that it does not.

*Keyboard.*

- A NoAction or Unbind for a longer sequence removes it from what is pending
  without regard to its depth (`keymap.rs:236`): a binding of the focused
  element that would win cannot be typed if a shallower context disables the
  same keys later (`keymap.rs:163` documents the contrary); `Unbind` removes
  those of other actions too. TLC finds such keymaps.
- A chord that matches, whose action nobody handles, swallows its keystrokes.
- An action that dispatches a keystroke itself while others are being replayed
  overwrites what is pending.
- The dispatch path is computed once, before handlers move the focus.
- The timer that finds nothing focused forgets the keystrokes without calling
  the observers of pending input (`window.rs:5405`).
- A focus listener that moves the focus during the draw asks for no frame
  (`window.rs:1702`): its own change is neither drawn nor told until something
  else draws. `FocusIsHeard` leaves this case out (`restored`).

## 7. Plan

Done: gestures and their theorems; subscriptions, updates, frames and their
theorems; navigator, animation, tasks and keyboard, with theirs. Every safety
property that a passing run checks is a theorem. To prove next:
`FocusIsHeard` and `ObserversAgree` without the cases they leave out, as
statements of how long listeners stay wrong.

## 8. Not modelled

Modelled partly, with what is missing of them:

- *Gestures*: scroll and pinch signals, `diff_hover`, several touches at once in
  one recognizer, `merge_by_pointer_id` (nothing registers recognizers from a
  callback). **Arena teams** are exported and used by no code but their tests.
- *App*: `Emit`, globals, `EntityCreated`, the redraws and window bookkeeping at
  the end of a flush, quitting. They go through the same queue and the same
  `SubscriberSet` as what is modelled.
- *Frames*: `FrameClock` and the profiles, which only measure.
- *Entity map*: counts and weak upgrades, leases and reservations. A last drop
  and the release after it are what observers can see of them; the lock makes
  each of them atomic, which the model assumes.
- *Animation*: value listeners, `velocity`, curves, combinators and tweens.
- *Tasks*: timers (`dispatch_after`), realtime threads and what the web makes of
  them (`RealtimeFunction`, microtasks), its loop without shared memory, the shutdown of the main
  loops, modal loops that nest `run_foreground_task`, `TestScheduler`; the thread
  pools of macOS and Windows are the systems' own.
- *Navigator*: captured parameters, caches of widgets, named routes and outlets,
  transitions, and what bypasses the pipeline (`state_mut`, `clear`).
- *Keyboard*: tab order (`tab_stop.rs`), keystrokes of modifiers alone, input
  methods, `disable_focus`.

Not modelled at all:

- **Re-entrancy guards and AppCell** (`reentrancy.rs`, `app/cell.rs`): run-time
  checks that refuse a nested borrow of what the models take as atomic.
- **Contexts**: wrappers around `App`.
- **Providers**: values found by walking up one frame's tree; no protocol.
- **Views, elements and lists**: layout and painting of one frame. What gestures
  see of view caching is in `GestureDispatch`.
- **Windows**: drawing, prompts, handles, removal. Their gesture pass, keyboard
  and focus are modelled as components of their own.
- **Platforms, rendering, text, layout, assets**: I/O and numeric code without a
  protocol of its own; the parts of the platforms that wake the main thread are
  in `MainThread`.
- **Scroll physics** (types without a user), **macros** (generated code), and
  the **widget, theme and framework crates**, which have no state machines.
