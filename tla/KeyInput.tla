------------------------------ MODULE KeyInput ------------------------------
(***************************************************************************)
(* The keyboard input of one window (window.rs): the focused element, the  *)
(* frames in which focus listeners hear of it, and the keystrokes that     *)
(* wait until it is clear whether they begin a longer binding.             *)
(*                                                                         *)
(* An event or a timer starts a job, which replays runs of keystrokes and  *)
(* ends with one more run or with the keystrokes to keep.  A step hands    *)
(* one run to the application, whose code may move the focus; nothing else *)
(* happens in the window until the job is done.  An interceptor that stops *)
(* a keystroke changes nothing here.                                       *)
(***************************************************************************)
EXTENDS KeyDispatch

CONSTANTS
  Elements,    \* the focusable elements
  Parent,      \* Parent[e]: the focusable element around e, or "none"
  TextField,   \* the element that accepts text when it has the focus
  Keys,        \* the keystrokes the user types
  TextKeys,    \* those with a character
  KeyMaps,     \* the keymaps the application installs
  MaxKeys,     \* a bound of the model: keystrokes typed
  MaxChanges   \* a bound of the model: changes of anything else

ASSUME KeyInputAssumption ==
  /\ "none" \notin Elements /\ TextField \in Elements /\ TextKeys \subseteq Keys
  /\ Parent \in [Elements -> Elements \cup {"none"}]
  /\ MaxKeys \in Nat /\ MaxChanges \in Nat

VARIABLES
  keymap,     \* the keymap of the application
  focus,      \* Window.focus, "none" when nothing is focused
  shown,      \* the elements the views render
  active,     \* whether the platform's window is active
  dirty,      \* whether the window is to be drawn
  frame,      \* rendered_frame: what was shown, focused and active in it
  told,       \* the focus event the listeners heard last
  pending,    \* pending_input; its timer runs when it needs a timeout
  seen,       \* the pending keystrokes when their observers were last called
  deferred,   \* whether a call of these observers is deferred
  job,        \* what is left of the dispatch of an event
  restored,   \* whether a focus listener moved the focus in the last frame
  owed,       \* history: a keystroke kept is text, or bound by what precedes it
  typed, changes

window == <<focus, shown, active, dirty, frame, told, restored>>
keyboard == <<keymap, pending, seen, deferred, job, owed>>
vars == <<window, keyboard, typed, changes>>

\* The focusable elements of a frame from the root to one of them.
Ancestry(elements, e) ==
  LET Path[n \in 0 .. Cardinality(elements), x \in Elements \cup {"none"}] ==
        IF n = 0 \/ x \notin elements THEN <<>> ELSE Append(Path[n - 1, Parent[x]], x)
  IN Path[Cardinality(elements), e]

\* DispatchTree::focus_path, empty for what is not in the frame.
PathIn(elements, e) == IF e \in elements THEN Ancestry(elements, e) ELSE <<>>

\* focus_node_id_in_rendered_frame, and the contexts from the root to it.
Stack == <<"Workspace">> \o PathIn(frame.shown, focus)

FocusPath(f) == PathIn(f.shown, f.focus)

NoKeys == [keys |-> <<>>, focus |-> "none", timeout |-> FALSE]

NoJob == [replay |-> <<>>, last |-> <<>>, keep |-> NoKeys, for |-> "none"]

Idle == job.for = "none"

\* The keystrokes that the application has not been given.
Undelivered == FlattenSeq(job.replay) \o job.last \o job.keep.keys \o pending.keys

Init ==
  /\ keymap \in KeyMaps
  /\ focus = "none" /\ shown \in SUBSET Elements /\ active \in BOOLEAN /\ dirty = TRUE
  /\ frame = [shown |-> {}, focus |-> "none", active |-> FALSE]
  /\ told = [prev |-> <<>>, now |-> <<>>]
  /\ pending = NoKeys /\ seen = <<>> /\ deferred = FALSE /\ job = NoJob
  /\ restored = FALSE /\ owed = FALSE /\ typed = 0 /\ changes = 0

-----------------------------------------------------------------------------
Change == changes < MaxChanges /\ changes' = changes + 1 /\ UNCHANGED typed

\* Window::focus, but for its refresh: it forgets what is pending and defers
\* the call of the observers.
FocusOn(e) ==
  /\ e # focus /\ focus' = e
  /\ pending' = NoKeys
  /\ deferred' = TRUE

\* Window::blur, but for its refresh: it keeps what is pending.
FocusOff ==
  /\ focus # "none" /\ focus' = "none"
  /\ UNCHANGED <<pending, deferred>>

MoveFocus == FocusOff \/ \E e \in Elements : FocusOn(e)

\* By a click or the application, or when the last handle of the focused
\* element is dropped (release_dropped_focus_handles blurs it).
Refocus ==
  /\ Idle /\ Change
  /\ MoveFocus /\ dirty' = TRUE
  /\ UNCHANGED <<keymap, shown, active, frame, told, seen, job, restored, owed>>

\* A view renders other elements.
Render(elements) ==
  /\ Idle /\ Change
  /\ shown' = elements /\ shown' # shown /\ dirty' = TRUE
  /\ UNCHANGED <<keyboard, focus, active, frame, told, restored>>

\* on_active_status_change
Activate ==
  /\ Idle /\ Change
  /\ active' = ~active /\ dirty' = TRUE
  /\ UNCHANGED <<keyboard, focus, shown, frame, told, restored>>

\* bind_keys and clear_key_bindings
BindKeys ==
  /\ Idle /\ Change
  /\ keymap' \in KeyMaps /\ keymap' # keymap /\ dirty' = TRUE
  /\ UNCHANGED <<focus, shown, active, frame, told, restored, pending, seen, deferred, job, owed>>

\* App::clear_pending_keystrokes
ClearPending ==
  /\ Idle /\ Change
  /\ pending # NoKeys /\ pending' = NoKeys /\ seen' = <<>>
  /\ UNCHANGED <<window, keymap, deferred, job, owed>>

\* The deferred call of the observers of pending input.
RunDeferred ==
  /\ Idle /\ deferred
  /\ deferred' = FALSE /\ seen' = pending.keys
  /\ UNCHANGED <<window, keymap, pending, job, owed, typed, changes>>

-----------------------------------------------------------------------------
\* The frame that is drawn now.
NextFrame ==
  [shown |-> shown, focus |-> IF focus \in shown THEN focus ELSE "none", active |-> active]

\* As if the listeners heard only when the focus path had changed.
TellsOfPaths == FocusPath(NextFrame) # FocusPath(frame)

Tells == FocusPath(NextFrame) # FocusPath(frame) \/ active # frame.active

\* As if the event named the focused path of a window that was not active.
EventOfPaths ==
  [prev |-> FocusPath(frame), now |-> IF active THEN FocusPath(NextFrame) ELSE <<>>]

\* WindowFocusEvent
Event ==
  [prev |-> IF frame.active THEN FocusPath(frame) ELSE <<>>,
   now |-> IF active THEN FocusPath(NextFrame) ELSE <<>>]

\* Window::draw.  A focus listener may move the focus, and no other frame
\* follows then: refresh does nothing while the window is drawn.
Draw ==
  /\ Idle /\ dirty
  /\ dirty' = FALSE /\ frame' = NextFrame
  /\ told' = IF Tells THEN Event ELSE told
  /\ \/ restored' = FALSE /\ UNCHANGED <<focus, pending, deferred, changes>>
     \/ /\ Tells /\ changes < MaxChanges /\ changes' = changes + 1
        /\ MoveFocus
        /\ restored' = TRUE
  /\ UNCHANGED <<keymap, shown, active, seen, job, owed, typed>>

-----------------------------------------------------------------------------
\* What the application may do when it is given keystrokes.
MayMoveFocus ==
  \/ UNCHANGED <<window, pending, deferred, changes>>
  \/ /\ changes < MaxChanges /\ changes' = changes + 1
     /\ MoveFocus /\ dirty' = TRUE
     /\ UNCHANGED <<shown, active, frame, told, restored>>

AcceptsText(key) == key \in TextKeys /\ TextField \in shown /\ frame.focus = TextField

\* As if each keystroke decided anew whether the pending ones may wait.
NeedsTimeoutItself(kept, result, key) == result.bound \/ AcceptsText(key)

\* needs_timeout, once the keystroke is kept with those kept before it.
NeedsTimeout(kept, result, key) == kept.timeout \/ result.bound \/ AcceptsText(key)

\* dispatch_key_event, up to the replay.  A dirty window was drawn before.
KeyDown(key) ==
  /\ Idle /\ ~dirty /\ typed < MaxKeys
  /\ LET kept == IF pending.focus \notin {"none", focus} THEN NoKeys ELSE pending
         result == DispatchKey(keymap, kept.keys, key, Stack)
     IN /\ job' = [for |-> "key", replay |-> result.replay, last |-> result.last,
                   keep |-> IF result.pending = <<>> THEN NoKeys
                            ELSE [keys |-> result.pending, focus |-> "none",
                                  timeout |-> NeedsTimeout(kept, result, key)]]
        /\ owed' = \/ result.bound \/ AcceptsText(key)
                   \/ owed /\ kept # NoKeys /\ result.replay = <<>>
  /\ pending' = NoKeys
  /\ typed' = typed + 1
  /\ UNCHANGED <<window, keymap, seen, deferred, changes>>

\* As if nobody was called when the pending keystrokes were replayed.
TimeoutUnheard ==
  /\ Idle /\ pending.timeout
  /\ pending' = NoKeys
  /\ IF pending.focus # focus THEN UNCHANGED job
     ELSE job' = [NoJob EXCEPT !.for = "timeout", !.replay = Flush(keymap, pending.keys, Stack)]
  /\ UNCHANGED <<window, keymap, seen, deferred, owed, typed, changes>>

\* The second that pending keystrokes wait for is over.  Keystrokes typed
\* under another focus are forgotten, and nobody is called.
Timeout ==
  /\ Idle /\ pending.timeout
  /\ pending' = NoKeys
  /\ IF pending.focus # focus THEN UNCHANGED <<job, seen>>
     ELSE /\ job' = [NoJob EXCEPT !.for = "timeout", !.replay = Flush(keymap, pending.keys, Stack)]
          /\ seen' = <<>>
  /\ UNCHANGED <<window, keymap, deferred, owed, typed, changes>>

\* replay_pending_input: one run.  Of a binding's keystrokes only the last is
\* given to those who listen for keys.
Replay ==
  /\ job.replay # <<>>
  /\ job' = [job EXCEPT !.replay = Tail(@)]
  /\ MayMoveFocus
  /\ UNCHANGED <<keymap, seen, owed, typed>>

\* dispatch_key_event, from the replay on: the keystrokes to keep are kept
\* under the focus of this moment.
Keep ==
  /\ ~Idle /\ job.replay = <<>> /\ job.keep # NoKeys
  /\ pending' = [keys |-> job.keep.keys, focus |-> focus, timeout |-> job.keep.timeout]
  /\ seen' = pending'.keys
  /\ job' = NoJob
  /\ UNCHANGED <<window, keymap, deferred, owed, typed, changes>>

\* The keystrokes are given to the bindings or the listeners, and then the
\* observers of pending input are called.  After a timeout nothing is left.
Finish ==
  /\ ~Idle /\ job.replay = <<>> /\ job.keep = NoKeys
  /\ IF job.for = "timeout" THEN UNCHANGED <<window, pending, seen, deferred, changes>>
     ELSE MayMoveFocus /\ seen' = <<>>
  /\ job' = NoJob
  /\ UNCHANGED <<keymap, owed, typed>>

-----------------------------------------------------------------------------
Next ==
  \/ Refocus \/ Activate \/ BindKeys \/ ClearPending \/ RunDeferred
  \/ \E elements \in SUBSET Elements : Render(elements)
  \/ Draw
  \/ \E key \in Keys : KeyDown(key)
  \/ Timeout \/ Replay \/ Keep \/ Finish

Spec == Init /\ [][Next]_vars

\* The executor runs timers that are due, and the update cycle its effects;
\* the steps of a job are those of one function.
FairSpec ==
  /\ Spec
  /\ WF_vars(Replay) /\ WF_vars(Keep) /\ WF_vars(Finish)
  /\ WF_vars(Timeout) /\ WF_vars(RunDeferred)

-----------------------------------------------------------------------------
TypeOK ==
  /\ keymap \in KeyMaps
  /\ {focus, frame.focus, pending.focus} \subseteq Elements \cup {"none"}
  /\ shown \cup frame.shown \subseteq Elements
  /\ {active, dirty, deferred, restored, owed, pending.timeout} \subseteq BOOLEAN
  /\ \A keys \in {pending.keys, seen, job.last, job.keep.keys} : keys \in Seq(Keys)
  /\ job.for \in {"none", "key", "timeout"} /\ job.replay \in Seq(Seq(Keys))
  /\ typed \in 0 .. MaxKeys /\ changes \in 0 .. MaxChanges

\* What the observers of pending input saw last is what is pending, whenever
\* no call of theirs is deferred.  Left out is the blur: a timeout that finds
\* nothing focused forgets the keystrokes without calling them.
ObserversAgree ==
  Idle /\ ~deferred => seen = pending.keys \/ (pending = NoKeys /\ focus = "none")

\* Every frame leaves the focus listeners told of the element that has the
\* focus in an active window, unless one of them moved the focus.
FocusIsHeard ==
  ~dirty /\ ~restored => told.now = IF active THEN PathIn(frame.shown, focus) ELSE <<>>

\* A listener is told that a path lost the focus only after it was told that
\* the path had it, however frames, focus and activation interleave.
FocusEventsChain == [][told' # told => told'.prev = told.now]_vars

\* Keystrokes reach the application in the order typed, each one once: what
\* is undelivered grows at its end and shrinks at its beginning.  Nothing is
\* forgotten but what is pending, at request or once the focus has moved.
KeysKeepOrder ==
  [][LET FocusMoved == focus' # focus \/ pending.focus \notin {"none", focus}
     IN \/ Undelivered' = Undelivered
        \/ ~Idle /\ \E n \in 1 .. Len(Undelivered) : Undelivered' = From(Undelivered, n)
        \/ \E key \in Keys :
             /\ KeyDown(key)
             /\ \/ Undelivered' = Append(Undelivered, key)
                \/ Undelivered' = <<key>> /\ FocusMoved
        \/ Undelivered' = <<>> /\ (ClearPending \/ FocusMoved)]_vars

\* Text that waits for the rest of a binding, or keystrokes that are bound
\* themselves, do not wait for ever: a keystroke typed meanwhile that is
\* neither does not take the timeout away.
TextIsDelivered == (pending # NoKeys /\ owed) ~> (pending = NoKeys)
=============================================================================
