----------------------------- MODULE MainThread -----------------------------
(***************************************************************************)
(* How runnables reach the main thread, on each platform that feeds it     *)
(* from a PriorityQueue: dispatch_on_main_thread pushes and then signals,  *)
(* and the main thread, which sleeps in its event loop, must be woken and  *)
(* must drain what it was woken for.                                       *)
(*                                                                         *)
(*   "linux"     calloop with a ping; runnables run as idle callbacks      *)
(*               (X11, Wayland)                                            *)
(*   "headless"  the same, run inside the source's callback                *)
(*   "windows"   a message, posted only by whoever sets wake_posted        *)
(*   "web"       a mailbox with a signal in shared memory for the other    *)
(*               threads (multithreaded), and the browser's timers for     *)
(*               what the main thread itself dispatches                    *)
(*                                                                         *)
(* Foreground runnables all have the default priority (platform_           *)
(* scheduler.rs): one of the three queues is enough.                       *)
(***************************************************************************)
EXTENDS Naturals, Sequences, SequencesExt

CONSTANTS
  Platforms,   \* the platforms of interest
  Senders,     \* background threads
  MaxTasks,    \* a bound of the model: tasks dispatched
  MaxFailures  \* a bound of the model: failures of PostMessageW

ASSUME MainThreadAssumption ==
  /\ Platforms \subseteq {"linux", "headless", "windows", "web"}
  /\ Platforms # {}
  /\ "main" \notin Senders
  /\ MaxTasks \in Nat /\ MaxFailures \in Nat

VARIABLES
  platform,  \* chosen when the program is built
  queue,     \* the priority queue; tasks are named in the order dispatched
  pushed,    \* tasks dispatched so far
  sending,   \* sending[t]: how far t is in dispatch_on_main_thread
  at,        \* where the main thread is in its loop
  running,   \* the task it runs there, 0 for none
  idles,     \* calloop's idle callbacks
  ping,      \* the ping's file is readable
  took,      \* process_events has popped something: not is_empty
  flag,      \* wake_posted, or the mailbox's signal
  messages,  \* wake-ups in the message queue
  failures,  \* failures of PostMessageW so far
  soon,      \* the browser's timers of no delay
  clamped    \* and those it delays although they were set with none

calloop == <<idles, ping, took>>
windows == <<messages, failures>>
timers == <<soon, clamped>>
vars == <<platform, queue, pushed, sending, at, running, calloop, flag, windows, timers>>

Threads == Senders \cup {"main"}
Calloop == platform \in {"linux", "headless"}

Places == {"waiting", "batch", "idles", "handlers", "drained", "cleared", "found",
           "sizing", "reset", "arming", "armed", "resolved", "exited"}

TypeOK ==
  /\ platform \in Platforms
  /\ pushed \in 0 .. MaxTasks
  /\ queue \in Seq(1 .. MaxTasks) /\ idles \in Seq(1 .. MaxTasks)
  /\ sending \in [Threads -> {"no", "pushed", "claimed", "stored"}]
  /\ at \in Places /\ running \in 0 .. MaxTasks
  /\ ping \in BOOLEAN /\ took \in BOOLEAN /\ flag \in BOOLEAN
  /\ messages \in Nat /\ failures \in 0 .. MaxFailures
  /\ soon \in Seq(1 .. MaxTasks) /\ clamped \in Seq(1 .. MaxTasks)

Init ==
  /\ platform \in Platforms
  /\ queue = <<>> /\ pushed = 0
  /\ sending = [t \in Threads |-> "no"]
  /\ at = IF platform = "web" THEN "reset" ELSE "waiting"
  /\ running = 0
  /\ idles = <<>> /\ ping = FALSE /\ took = FALSE
  /\ flag = FALSE /\ messages = 0 /\ failures = 0
  /\ soon = <<>> /\ clamped = <<>>

-----------------------------------------------------------------------------
(* dispatch_on_main_thread, on any thread.                                 *)

\* Where the browser may run something else, the waker loop in its await or
\* gone.
Browsing == at \in {"armed", "resolved", "exited"}

\* The main thread dispatches from a task or from the handler of another event.
MayDispatch(t) ==
  /\ sending[t] = "no" /\ pushed < MaxTasks
  /\ t = "main" => /\ running # 0 \/ at \in {"waiting", "handlers"} \/ Browsing
                   /\ at # "found"

\* on_main_thread: on the web its own runnables do not go through the mailbox.
SetsTimers(t) == platform = "web" /\ t = "main"

Push(t) ==
  /\ MayDispatch(t) /\ ~SetsTimers(t)
  /\ queue' = Append(queue, pushed + 1) /\ pushed' = pushed + 1
  /\ sending' = [sending EXCEPT ![t] = "pushed"]
  /\ UNCHANGED <<platform, at, running, calloop, flag, windows, timers>>

\* schedule_runnable: setTimeout of 0.  A timer that is set by a timer may be
\* one that the browser clamps to some milliseconds.
SetTimeout ==
  /\ MayDispatch("main") /\ SetsTimers("main")
  /\ \/ soon' = Append(soon, pushed + 1) /\ UNCHANGED clamped
     \/ /\ Browsing /\ running # 0
        /\ clamped' = Append(clamped, pushed + 1) /\ UNCHANGED soon
  /\ pushed' = pushed + 1
  /\ UNCHANGED <<platform, queue, sending, at, running, calloop, flag, windows>>

Sent(t, step) ==
  /\ sending' = [sending EXCEPT ![t] = step]
  /\ UNCHANGED <<platform, queue, pushed, running, idles, took, timers>>

\* PriorityQueueCalloopSender::send
Ping(t) ==
  /\ Calloop /\ sending[t] = "pushed"
  /\ ping' = TRUE
  /\ Sent(t, "no") /\ UNCHANGED <<at, flag, windows>>

\* wake_posted.swap(true)
Claim(t) ==
  /\ platform = "windows" /\ sending[t] = "pushed"
  /\ flag' = TRUE
  /\ Sent(t, IF flag THEN "no" ELSE "claimed") /\ UNCHANGED <<at, ping, windows>>

\* PostMessageW: the message queue may be full.
PostMessage ==
  \/ messages' = messages + 1 /\ UNCHANGED failures
  \/ failures < MaxFailures /\ failures' = failures + 1 /\ UNCHANGED messages

\* Whose failure is only logged: wake_posted stays set.
PostWake(t) ==
  /\ sending[t] = "claimed"
  /\ PostMessage
  /\ Sent(t, "no") /\ UNCHANGED <<at, ping, flag>>

\* MainThreadMailbox::post, Atomics.store and Atomics.notify.
Store(t) ==
  /\ platform = "web" /\ sending[t] = "pushed"
  /\ flag' = TRUE
  /\ Sent(t, "stored") /\ UNCHANGED <<at, ping, windows>>

Notify(t) ==
  /\ sending[t] = "stored"
  /\ at' = IF at = "armed" THEN "resolved" ELSE at
  /\ Sent(t, "no") /\ UNCHANGED <<ping, flag, windows>>

Signal(t) == Ping(t) \/ Claim(t) \/ PostWake(t) \/ Store(t) \/ Notify(t)

-----------------------------------------------------------------------------
(* The main thread, between tasks.                                         *)

Between(place) == at = place /\ running = 0 /\ sending["main"] = "no"

Goto(place) ==
  /\ at' = place
  /\ UNCHANGED <<platform, queue, pushed, sending, running, timers>>

\* Start the first task of the queue, in the middle of what goes on at `place'.
RunFirst(place) ==
  /\ queue # <<>>
  /\ running' = Head(queue) /\ queue' = Tail(queue)
  /\ at' = place
  /\ UNCHANGED <<platform, pushed, sending, timers>>

TaskEnds ==
  /\ running # 0 /\ at # "found" /\ sending["main"] = "no"
  /\ running' = 0
  /\ UNCHANGED <<platform, queue, pushed, sending, at, calloop, flag, windows, timers>>

\* calloop finds the ping readable, and reads it.
Poll ==
  /\ Calloop /\ Between("waiting") /\ ping
  /\ ping' = FALSE /\ took' = FALSE
  /\ Goto("batch") /\ UNCHANGED <<idles, flag, windows>>

\* process_events, its try_iter: the client makes an idle callback of each
\* runnable.
MakeIdle ==
  /\ platform = "linux" /\ Between("batch") /\ queue # <<>>
  /\ idles' = Append(idles, Head(queue)) /\ queue' = Tail(queue)
  /\ took' = TRUE
  /\ UNCHANGED <<platform, pushed, sending, at, running, ping, flag, windows, timers>>

\* The headless client runs it at once.
RunInCallback ==
  /\ platform = "headless" /\ Between("batch")
  /\ RunFirst("batch")
  /\ took' = TRUE /\ UNCHANGED <<idles, ping, flag, windows>>

\* As if it stopped after one runnable and did not ping itself.
EndBatchEarly ==
  /\ Calloop /\ Between("batch") /\ (took \/ queue = <<>>)
  /\ Goto("idles") /\ UNCHANGED <<calloop, flag, windows>>

\* Its end: unless the queue was empty from the start it pings itself.
EndBatch ==
  /\ Calloop /\ Between("batch") /\ queue = <<>>
  /\ ping' = (ping \/ took)
  /\ Goto("idles") /\ UNCHANGED <<idles, took, flag, windows>>

\* As if the idle callbacks were a stack.
RunLastIdle ==
  /\ Between("idles") /\ idles # <<>>
  /\ running' = Last(idles) /\ idles' = Front(idles)
  /\ UNCHANGED <<platform, queue, pushed, sending, at, ping, took, flag, windows, timers>>

RunIdle ==
  /\ Between("idles") /\ idles # <<>>
  /\ running' = Head(idles) /\ idles' = Tail(idles)
  /\ UNCHANGED <<platform, queue, pushed, sending, at, ping, took, flag, windows, timers>>

EndIdles ==
  /\ Between("idles") /\ idles = <<>>
  /\ Goto("waiting") /\ UNCHANGED <<calloop, flag, windows>>

-----------------------------------------------------------------------------
(* WindowsPlatformInner::run_foreground_task.                              *)

GetMessage ==
  /\ Between("waiting") /\ messages > 0
  /\ messages' = messages - 1
  /\ Goto("batch") /\ UNCHANGED <<calloop, flag, failures>>

\* 'timeout_loop
RunTask ==
  /\ platform = "windows" /\ Between("batch")
  /\ RunFirst("batch") /\ UNCHANGED <<calloop, flag, windows>>

\* MAIN_TASK_TIMEOUT: paint and input are handled first.
Timeout ==
  /\ platform = "windows" /\ Between("batch")
  /\ Goto("handlers") /\ UNCHANGED <<calloop, flag, windows>>

\* It comes back with a message of its own.
Repost ==
  /\ Between("handlers")
  /\ PostMessage
  /\ flag' = (flag /\ failures' = failures)
  /\ Goto("waiting") /\ UNCHANGED calloop

RanDry ==
  /\ platform = "windows" /\ Between("batch") /\ queue = <<>>
  /\ Goto("drained") /\ UNCHANGED <<calloop, flag, windows>>

\* As if the queue were not looked at again.
ClearAndLeave ==
  /\ Between("drained")
  /\ flag' = FALSE
  /\ Goto("waiting") /\ UNCHANGED <<calloop, windows>>

\* wake_posted.store(false)
Clear ==
  /\ Between("drained")
  /\ flag' = FALSE
  /\ Goto("cleared") /\ UNCHANGED <<calloop, windows>>

\* The queue is looked at once more, and if a runnable came in meanwhile
\* wake_posted is set again.
NoneMissed ==
  /\ Between("cleared") /\ queue = <<>>
  /\ Goto("waiting") /\ UNCHANGED <<calloop, flag, windows>>

TakeMissed ==
  /\ Between("cleared")
  /\ RunFirst("found") /\ UNCHANGED <<calloop, flag, windows>>

\* wake_posted.store(true), before the runnable that was found is run.
MarkMissed ==
  /\ at = "found"
  /\ flag' = TRUE
  /\ Goto("batch") /\ UNCHANGED <<calloop, windows>>

\* While the user sizes a window a timer drains the queue (handle_timer_msg).
SizeWindow ==
  /\ platform = "windows" /\ Between("waiting")
  /\ Goto("sizing") /\ UNCHANGED <<calloop, flag, windows>>

RunWhileSizing ==
  /\ Between("sizing")
  /\ RunFirst("sizing") /\ UNCHANGED <<calloop, flag, windows>>

EndSizing ==
  /\ Between("sizing") /\ queue = <<>>
  /\ Goto("waiting") /\ UNCHANGED <<calloop, flag, windows>>

-----------------------------------------------------------------------------
(* MainThreadMailbox::run_waker_loop.                                      *)

ResetSignal ==
  /\ Between("reset")
  /\ flag' = FALSE
  /\ Goto("arming") /\ UNCHANGED <<calloop, windows>>

\* Atomics.waitAsync answers at once when the signal is not 0; then the loop
\* is left for good.
WaitAsync ==
  /\ Between("arming")
  /\ Goto(IF flag THEN "exited" ELSE "armed") /\ UNCHANGED <<calloop, flag, windows>>

Awaited ==
  /\ Between("resolved")
  /\ Goto("batch") /\ UNCHANGED <<calloop, flag, windows>>

\* drain
RunMail ==
  /\ platform = "web" /\ Between("batch")
  /\ RunFirst("batch") /\ UNCHANGED <<calloop, flag, windows>>

EndMail ==
  /\ platform = "web" /\ Between("batch") /\ queue = <<>>
  /\ Goto("reset") /\ UNCHANGED <<calloop, flag, windows>>

-----------------------------------------------------------------------------
(* The browser runs the callbacks of timers between the steps of that loop: *)
(* those of one delay in the order they were set, and a clamped one after   *)
(* every earlier timer of no delay.                                         *)

Fire(t) ==
  /\ Browsing /\ running = 0
  /\ running' = t
  /\ UNCHANGED <<platform, queue, pushed, sending, at, calloop, flag, windows>>

FireSoon ==
  /\ soon # <<>> /\ Fire(Head(soon))
  /\ soon' = Tail(soon) /\ UNCHANGED clamped

FireClamped ==
  /\ clamped # <<>> /\ Fire(Head(clamped))
  /\ \A t \in Range(soon) : t > Head(clamped)
  /\ clamped' = Tail(clamped) /\ UNCHANGED soon

-----------------------------------------------------------------------------
LinuxLoop == Poll \/ MakeIdle \/ RunInCallback \/ EndBatch \/ RunIdle \/ EndIdles

WindowsLoop ==
  \/ GetMessage \/ RunTask \/ Timeout \/ Repost \/ RanDry
  \/ Clear \/ NoneMissed \/ TakeMissed \/ MarkMissed
  \/ RunWhileSizing \/ EndSizing

WebLoop ==
  \/ ResetSignal \/ WaitAsync \/ Awaited \/ RunMail \/ EndMail
  \/ FireSoon \/ FireClamped

Loop == TaskEnds \/ LinuxLoop \/ WindowsLoop \/ WebLoop

Next ==
  \/ \E t \in Threads : Push(t) \/ Signal(t)
  \/ SetTimeout \/ Loop \/ SizeWindow

Spec == Init /\ [][Next]_vars

\* Threads run, tasks come to an end, and not every run_foreground_task is
\* out of time before its first task; the browser runs the timers that are due.
FairSpec ==
  /\ Spec
  /\ \A t \in Threads : WF_vars(Signal(t))
  /\ WF_vars(Loop) /\ SF_vars(RunTask)

-----------------------------------------------------------------------------
Asleep == at = "waiting" /\ running = 0

OnTheWay == \E t \in Threads : sending[t] # "no"

\* On Linux and Windows the main thread does not sleep on a queue that is not
\* empty: it is about to be woken, or whoever pushed has still to signal it;
\* unless PostMessageW has failed.
QueuedIsSignalled ==
  platform # "web" /\ queue # <<>> /\ Asleep /\ failures = 0 =>
    ping \/ messages > 0 \/ OnTheWay

\* The same of the web's mailbox, whose protocol its comments ask to verify.
MailIsSignalled == queue # <<>> /\ at \in {"armed", "exited"} => OnTheWay

Unstarted == Range(idles \o queue \o soon \o clamped)

\* Every runnable dispatched is run, unless PostMessageW has failed or it is
\* in the web's mailbox.
TasksRun ==
  \A t \in 1 .. MaxTasks :
    t \in Unstarted ~>
      \/ t \notin Unstarted
      \/ failures > 0
      \/ platform = "web" /\ t \in Range(queue)

\* What has not been started, by what keeps it in order.
Classes == {"queued", "soon", "clamped"}

Waiting(c) ==
  CASE c = "queued" -> idles \o queue
    [] c = "soon" -> soon
    [] c = "clamped" -> clamped

Delivery == INSTANCE TaskDelivery WITH
  Threads <- {"main"},
  accepted <- pushed,
  waiting <- [c \in Classes |-> Waiting(c)],
  running <- [t \in {"main"} |-> running]

\* Runnables are run once and one at a time, whatever the loop was doing.  On
\* Linux and Windows they are run in the order they were dispatched, whatever
\* thread dispatched them.  On the web that is so of the mail of the other
\* threads and of the main thread's own timers of either kind, each for
\* itself: mail and timers overtake each other.
ImplementsDelivery == Delivery!Spec
=============================================================================
