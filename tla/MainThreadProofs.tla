-------------------------- MODULE MainThreadProofs --------------------------
(***************************************************************************)
(* Proofs about MainThread, for every set of senders, every set of         *)
(* platforms and every bound: on Linux and Windows a queued runnable is    *)
(* never left without a wake-up, and on every platform runnables are run   *)
(* once each, in the order they were dispatched; on the web that order is  *)
(* kept within the mailbox and within the timers of one kind only.         *)
(*                                                                         *)
(* QueuedIsSignalled is not inductive.  On Windows a thread that finds     *)
(* wake_posted set posts nothing, so that wherever the main thread is not  *)
(* going to look at the queue again the flag must promise a message        *)
(* (FlagIsPromise); with calloop the ping must already be there when the   *)
(* idle callbacks run, before the main thread sleeps (PingedOrOnTheWay).   *)
(***************************************************************************)
EXTENDS MainThread, SequenceTheorems, TLAPS

PlacesOf ==
  [p \in {"linux", "headless", "windows", "web"} |->
     CASE p \in {"linux", "headless"} -> {"waiting", "batch", "idles"}
       [] p = "windows" -> {"waiting", "batch", "handlers", "drained", "cleared",
                            "found", "sizing"}
       [] p = "web" -> {"batch", "reset", "arming", "armed", "resolved", "exited"}]

\* Each platform's variables and places are its own.
Placed ==
  /\ at \in PlacesOf[platform]
  /\ platform # "linux" => idles = <<>>
  /\ platform # "windows" => messages = 0
  /\ platform # "web" => soon = <<>> /\ clamped = <<>>
  /\ \A t \in Threads : sending[t] = "claimed" => platform = "windows"
  /\ \A t \in Threads : sending[t] = "stored" => platform = "web"

Promised == messages > 0 \/ \E t \in Threads : sending[t] = "claimed"

\* Where the main thread will not look at the queue again, wake_posted means
\* that a message is there or about to be posted.
FlagIsPromise ==
  platform = "windows" /\ failures = 0 /\ flag
  /\ at \in {"waiting", "sizing", "cleared"} => Promised

MessageOrOnTheWay ==
  platform = "windows" /\ failures = 0 /\ queue # <<>> /\ at = "waiting" =>
    messages > 0 \/ OnTheWay

PingedOrOnTheWay ==
  Calloop /\ queue # <<>> /\ at \in {"waiting", "idles"} => ping \/ OnTheWay

SignalInv ==
  /\ TypeOK
  /\ Placed
  /\ FlagIsPromise
  /\ MessageOrOnTheWay
  /\ PingedOrOnTheWay

-----------------------------------------------------------------------------
LEMMA SignalInit == Init => SignalInv
<1> SUFFICES ASSUME Init PROVE SignalInv
  OBVIOUS
<1> USE MainThreadAssumption DEF Init, MainThreadAssumption
<1>1. TypeOK
  <2>1. /\ queue \in Seq(1 .. MaxTasks) /\ idles \in Seq(1 .. MaxTasks)
        /\ soon \in Seq(1 .. MaxTasks) /\ clamped \in Seq(1 .. MaxTasks)
    BY EmptySeq
  <2>2. pushed \in 0 .. MaxTasks /\ running \in 0 .. MaxTasks /\ failures \in 0 .. MaxFailures
    OBVIOUS
  <2> QED
    BY <2>1, <2>2 DEF TypeOK, Places
<1>2. Placed
  BY DEF Placed, PlacesOf, Threads
<1>3. FlagIsPromise /\ MessageOrOnTheWay /\ PingedOrOnTheWay
  BY DEF FlagIsPromise, MessageOrOnTheWay, PingedOrOnTheWay
<1> QED
  BY <1>1, <1>2, <1>3 DEF SignalInv

LEMMA TypeStep == TypeOK /\ [Next]_vars => TypeOK'
<1> SUFFICES ASSUME TypeOK, [Next]_vars PROVE TypeOK'
  OBVIOUS
<1> USE MainThreadAssumption DEF TypeOK, Places
<1>1. ASSUME NEW t \in Threads, Push(t) PROVE TypeOK'
  <2>1. pushed + 1 \in 1 .. MaxTasks /\ pushed' \in 0 .. MaxTasks
    BY <1>1 DEF Push, MayDispatch, MainThreadAssumption
  <2>2. queue' \in Seq(1 .. MaxTasks)
    BY <1>1, <2>1 DEF Push
  <2> QED
    BY <1>1, <2>1, <2>2 DEF Push, calloop, windows, timers
<1>2. ASSUME NEW t \in Threads, Signal(t) PROVE TypeOK'
  <2>1. CASE Ping(t) \/ Claim(t) \/ Store(t) \/ Notify(t)
    BY <2>1 DEF Ping, Claim, Store, Notify, Sent, windows, timers
  <2>2. CASE PostWake(t)
    <3>1. messages' \in Nat /\ failures' \in 0 .. MaxFailures
      BY <2>2 DEF PostWake, PostMessage, MainThreadAssumption
    <3> QED
      BY <2>2, <3>1 DEF PostWake, Sent, timers
  <2> QED
    BY <1>2, <2>1, <2>2 DEF Signal
<1>3. CASE Poll \/ EndBatch \/ EndIdles
  BY <1>3 DEF Poll, EndBatch, EndIdles, Goto, Between, calloop, windows, timers
<1>4. ASSUME queue # <<>>, running = 0
      PROVE  Head(queue) \in 0 .. MaxTasks /\ Tail(queue) \in Seq(1 .. MaxTasks)
  BY <1>4, HeadTailProperties
<1>5. CASE MakeIdle
  <2>1. idles' \in Seq(1 .. MaxTasks)
    BY <1>5 DEF MakeIdle
  <2> QED
    BY <1>4, <1>5, <2>1 DEF MakeIdle, Between, windows, timers
<1>6. ASSUME NEW place \in Places, running = 0, RunFirst(place)
      PROVE  /\ platform' = platform /\ pushed' = pushed /\ sending' = sending
             /\ queue' \in Seq(1 .. MaxTasks) /\ running' \in 0 .. MaxTasks
             /\ at' \in Places /\ soon' = soon /\ clamped' = clamped
  BY <1>4, <1>6 DEF RunFirst, timers
<1>7. CASE RunInCallback
  BY <1>6, <1>7 DEF RunInCallback, Between, windows
<1>8. CASE RunIdle
  <2>1. Head(idles) \in 1 .. MaxTasks /\ Tail(idles) \in Seq(1 .. MaxTasks)
    BY <1>8, HeadTailProperties DEF RunIdle
  <2> QED
    BY <1>8, <2>1 DEF RunIdle, windows, timers
<1>9. CASE RunTask \/ TakeMissed \/ RunWhileSizing \/ RunMail
  BY <1>6, <1>9 DEF RunTask, TakeMissed, RunWhileSizing, RunMail, Between, windows, calloop
<1>10. CASE TaskEnds
  BY <1>10 DEF TaskEnds, windows, calloop, timers
<1>11. CASE GetMessage
  <2>1. messages' \in Nat
    BY <1>11 DEF GetMessage
  <2> QED
    BY <1>11, <2>1 DEF GetMessage, Goto, calloop, timers
<1>15. CASE Timeout \/ RanDry \/ Clear \/ NoneMissed
  BY <1>15 DEF Timeout, RanDry, Clear, NoneMissed, Goto, Between, windows, calloop, timers
<1>12. CASE Repost
  BY <1>12 DEF Repost, PostMessage, Goto, calloop, timers, MainThreadAssumption
<1>13. CASE MarkMissed \/ SizeWindow \/ EndSizing \/ ResetSignal \/ WaitAsync \/ Awaited \/ EndMail
  BY <1>13 DEF MarkMissed, SizeWindow, EndSizing, ResetSignal, WaitAsync, Awaited, EndMail,
    Goto, windows, calloop, timers
<1>14. CASE UNCHANGED vars
  BY <1>14 DEF vars, calloop, windows, timers
<1>16. CASE SetTimeout
  <2>1. pushed + 1 \in 1 .. MaxTasks /\ pushed' \in 0 .. MaxTasks
    BY <1>16 DEF SetTimeout, MayDispatch, MainThreadAssumption
  <2>2. soon' \in Seq(1 .. MaxTasks) /\ clamped' \in Seq(1 .. MaxTasks)
    <3>1. CASE soon' = Append(soon, pushed + 1) /\ clamped' = clamped
      BY <2>1, <3>1
    <3>2. CASE clamped' = Append(clamped, pushed + 1) /\ soon' = soon
      BY <2>1, <3>2
    <3> QED
      BY <1>16, <3>1, <3>2 DEF SetTimeout
  <2> QED
    BY <1>16, <2>1, <2>2 DEF SetTimeout, calloop, windows
<1>17. CASE FireSoon \/ FireClamped
  <2>1. ASSUME NEW s \in Seq(1 .. MaxTasks), s # <<>>
        PROVE  Head(s) \in 0 .. MaxTasks /\ Tail(s) \in Seq(1 .. MaxTasks)
    BY <2>1, HeadTailProperties
  <2>2. /\ running' \in 0 .. MaxTasks
        /\ soon' \in Seq(1 .. MaxTasks) /\ clamped' \in Seq(1 .. MaxTasks)
    BY <1>17, <2>1 DEF FireSoon, FireClamped, Fire
  <2> QED
    BY <1>17, <2>2 DEF FireSoon, FireClamped, Fire, calloop, windows
<1> QED
  BY <1>1, <1>2, <1>3, <1>5, <1>7, <1>8, <1>9, <1>10, <1>11, <1>12, <1>13, <1>14,
     <1>15, <1>16, <1>17
  DEF Next, Loop, LinuxLoop, WindowsLoop, WebLoop

LEMMA PlacedStep == TypeOK /\ Placed /\ [Next]_vars => Placed'
<1> SUFFICES ASSUME TypeOK, Placed, [Next]_vars PROVE Placed'
  OBVIOUS
<1> USE DEF Placed, PlacesOf
<1>0. platform \in {"linux", "headless", "windows", "web"} /\ messages \in Nat
      /\ sending \in [Threads -> {"no", "pushed", "claimed", "stored"}]
  BY MainThreadAssumption DEF TypeOK, MainThreadAssumption
<1>1. ASSUME NEW t \in Threads, Push(t) PROVE Placed'
  BY <1>0, <1>1 DEF Push, SetsTimers, calloop, windows, timers
<1>2. ASSUME NEW t \in Threads, Signal(t) PROVE Placed'
  BY <1>0, <1>2 DEF Signal, Ping, Claim, PostWake, Store, Notify, Sent, PostMessage, windows,
    timers
<1>3. CASE LinuxLoop
  BY <1>0, <1>3 DEF LinuxLoop, Poll, MakeIdle, RunInCallback, EndBatch, RunIdle, EndIdles,
    RunFirst, Goto, Between, windows, calloop, timers, Calloop
<1>4. CASE GetMessage \/ RunTask \/ Timeout \/ Repost \/ RanDry
  BY <1>0, <1>4 DEF GetMessage, RunTask, Timeout, Repost, RanDry, PostMessage,
    RunFirst, Goto, Between, windows, calloop, timers
<1>5. CASE Clear \/ NoneMissed \/ TakeMissed \/ MarkMissed \/ RunWhileSizing \/ EndSizing
           \/ SizeWindow
  BY <1>0, <1>5 DEF Clear, NoneMissed, TakeMissed, MarkMissed, RunWhileSizing, EndSizing,
    SizeWindow, RunFirst, Goto, Between, windows, calloop, timers
<1>6. CASE WebLoop
  BY <1>0, <1>6 DEF WebLoop, ResetSignal, WaitAsync, Awaited, RunMail, EndMail,
    FireSoon, FireClamped, Fire, Browsing, RunFirst, Goto, Between, windows, calloop, timers
<1>7. CASE TaskEnds
  BY <1>7 DEF TaskEnds, windows, calloop, timers
<1>8. CASE UNCHANGED vars
  BY <1>8 DEF vars, calloop, windows, timers
<1>9. CASE SetTimeout
  BY <1>0, <1>9 DEF SetTimeout, SetsTimers, calloop, windows
<1> QED
  BY <1>1, <1>2, <1>3, <1>4, <1>5, <1>6, <1>7, <1>8, <1>9 DEF Next, Loop, WindowsLoop

LEMMA FlagStep == TypeOK /\ Placed /\ FlagIsPromise /\ [Next]_vars => FlagIsPromise'
<1> SUFFICES ASSUME TypeOK, Placed, FlagIsPromise, [Next]_vars,
                    platform' = "windows", failures' = 0, flag',
                    at' \in {"waiting", "sizing", "cleared"}
             PROVE  Promised'
  BY DEF FlagIsPromise
<1> USE DEF FlagIsPromise, Promised
<1>0. /\ messages \in Nat /\ failures \in Nat /\ flag \in BOOLEAN
      /\ sending \in [Threads -> {"no", "pushed", "claimed", "stored"}]
  BY MainThreadAssumption DEF TypeOK, MainThreadAssumption
<1>1. ASSUME NEW t \in Threads, Push(t) PROVE Promised'
  BY <1>0, <1>1 DEF Push, MayDispatch, calloop, windows
<1>2. ASSUME NEW t \in Threads, Signal(t) PROVE Promised'
  <2>1. CASE Claim(t)
    <3>1. CASE flag
      <4>1. PICK u \in Threads : messages > 0 \/ sending[u] = "claimed"
        BY <1>0, <2>1, <3>1 DEF Claim, Sent, windows
      <4> QED
        BY <1>0, <2>1, <4>1 DEF Claim, Sent, windows
    <3>2. CASE ~flag
      BY <1>0, <2>1, <3>2 DEF Claim, Sent
    <3> QED
      BY <3>1, <3>2
  <2>2. CASE PostWake(t)
    BY <1>0, <2>2 DEF PostWake, PostMessage
  <2>3. CASE Ping(t) \/ Store(t) \/ Notify(t)
    BY <1>0, <2>3 DEF Ping, Store, Notify, Sent, Placed, Calloop
  <2> QED
    BY <1>2, <2>1, <2>2, <2>3 DEF Signal
<1>3. CASE LinuxLoop \/ WebLoop
  BY <1>3 DEF LinuxLoop, Poll, MakeIdle, RunInCallback, EndBatch, RunIdle, EndIdles,
    WebLoop, ResetSignal, WaitAsync, Awaited, RunMail, EndMail, FireSoon, FireClamped, Fire, Browsing,
    RunFirst, Goto, Between, Placed, PlacesOf, Calloop
<1>4. CASE GetMessage \/ RunTask \/ Timeout \/ RanDry \/ TakeMissed \/ MarkMissed \/ Clear
  BY <1>4 DEF GetMessage, RunTask, Timeout, RanDry, TakeMissed, MarkMissed, Clear,
    RunFirst, Goto
<1>5. CASE Repost
  BY <1>0, <1>5 DEF Repost, PostMessage, Goto
<1>6. CASE NoneMissed \/ RunWhileSizing \/ EndSizing \/ SizeWindow \/ TaskEnds
  BY <1>0, <1>6 DEF NoneMissed, RunWhileSizing, EndSizing, SizeWindow, TaskEnds,
    RunFirst, Goto, Between, windows, calloop
<1>7. CASE UNCHANGED vars
  BY <1>7 DEF vars, windows
<1>8. CASE SetTimeout
  BY <1>8 DEF SetTimeout, SetsTimers
<1> QED
  BY <1>1, <1>2, <1>3, <1>4, <1>5, <1>6, <1>7, <1>8 DEF Next, Loop, WindowsLoop

LEMMA MessageStep ==
  SignalInv /\ [Next]_vars => MessageOrOnTheWay'
<1> SUFFICES ASSUME SignalInv, [Next]_vars, platform' = "windows", failures' = 0,
                    queue' # <<>>, at' = "waiting"
             PROVE  messages' > 0 \/ OnTheWay'
  BY DEF MessageOrOnTheWay
<1> USE DEF OnTheWay
<1>0. /\ messages \in Nat /\ failures \in Nat /\ flag \in BOOLEAN
      /\ sending \in [Threads -> {"no", "pushed", "claimed", "stored"}]
  BY MainThreadAssumption DEF SignalInv, TypeOK, MainThreadAssumption
<1>1. ASSUME NEW t \in Threads, Push(t) PROVE OnTheWay'
  BY <1>0, <1>1 DEF Push
<1>2. ASSUME NEW t \in Threads, Signal(t) PROVE messages' > 0 \/ OnTheWay'
  <2>1. CASE Claim(t)
    <3>1. CASE flag
      <4>1. PICK u \in Threads : messages > 0 \/ sending[u] = "claimed"
        BY <1>0, <2>1, <3>1 DEF SignalInv, FlagIsPromise, Promised, Claim, Sent, windows
      <4> QED
        BY <1>0, <2>1, <4>1 DEF Claim, Sent, windows
    <3>2. CASE ~flag
      BY <1>0, <2>1, <3>2 DEF Claim, Sent
    <3> QED
      BY <3>1, <3>2
  <2>2. CASE PostWake(t)
    BY <1>0, <2>2 DEF PostWake, PostMessage
  <2>3. CASE Ping(t) \/ Store(t) \/ Notify(t)
    BY <1>0, <2>3 DEF Ping, Store, Notify, Sent, SignalInv, Placed, Calloop
  <2> QED
    BY <1>2, <2>1, <2>2, <2>3 DEF Signal
<1>3. CASE LinuxLoop \/ WebLoop
  BY <1>3 DEF LinuxLoop, Poll, MakeIdle, RunInCallback, EndBatch, RunIdle, EndIdles,
    WebLoop, ResetSignal, WaitAsync, Awaited, RunMail, EndMail, FireSoon, FireClamped, Fire, Browsing,
    RunFirst, Goto, Between, SignalInv, Placed, PlacesOf, Calloop
<1>4. CASE GetMessage \/ RunTask \/ Timeout \/ RanDry \/ TakeMissed \/ MarkMissed \/ Clear
           \/ RunWhileSizing \/ SizeWindow \/ NoneMissed \/ EndSizing
  BY <1>4 DEF GetMessage, RunTask, Timeout, RanDry, TakeMissed, MarkMissed, Clear,
    RunWhileSizing, SizeWindow, NoneMissed, EndSizing, RunFirst, Goto
<1>5. CASE Repost
  BY <1>0, <1>5 DEF Repost, PostMessage, Goto
<1>6. CASE TaskEnds \/ UNCHANGED vars
  BY <1>6 DEF SignalInv, MessageOrOnTheWay, TaskEnds, vars, windows
<1>7. CASE SetTimeout
  BY <1>7 DEF SetTimeout, SetsTimers
<1> QED
  BY <1>1, <1>2, <1>3, <1>4, <1>5, <1>6, <1>7 DEF Next, Loop, WindowsLoop

LEMMA PingStep ==
  SignalInv /\ [Next]_vars => PingedOrOnTheWay'
<1> SUFFICES ASSUME SignalInv, [Next]_vars, Calloop', queue' # <<>>,
                    at' \in {"waiting", "idles"}
             PROVE  ping' \/ OnTheWay'
  BY DEF PingedOrOnTheWay
<1> USE DEF OnTheWay
<1>0. /\ platform' = platform /\ Calloop
      /\ sending \in [Threads -> {"no", "pushed", "claimed", "stored"}]
  <2>1. UNCHANGED vars => platform' = platform
    BY DEF vars
  <2>2. ASSUME NEW t \in Threads, Push(t) \/ Signal(t) \/ SetTimeout
        PROVE  platform' = platform
    BY <2>2 DEF Push, SetTimeout, Signal, Ping, Claim, PostWake, Store, Notify, Sent
  <2>3. LinuxLoop \/ WebLoop => platform' = platform
    BY DEF LinuxLoop, Poll, MakeIdle, RunInCallback, EndBatch, RunIdle, EndIdles,
      WebLoop, ResetSignal, WaitAsync, Awaited, RunMail, EndMail, FireSoon, FireClamped, Fire,
      RunFirst, Goto
  <2>4. WindowsLoop \/ SizeWindow \/ TaskEnds => platform' = platform
    BY DEF WindowsLoop, GetMessage, RunTask, Timeout, Repost, RanDry, Clear, NoneMissed,
      TakeMissed, MarkMissed, RunWhileSizing, EndSizing, SizeWindow, TaskEnds, RunFirst, Goto
  <2>5. platform' = platform
    BY <2>1, <2>2, <2>3, <2>4 DEF Next, Loop, Threads
  <2> QED
    BY <2>5 DEF Calloop, SignalInv, TypeOK
<1>1. ASSUME NEW t \in Threads, Push(t) PROVE OnTheWay'
  BY <1>0, <1>1 DEF Push
<1>2. ASSUME NEW t \in Threads, Signal(t) PROVE ping' \/ OnTheWay'
  BY <1>0, <1>2 DEF Signal, Ping, Claim, PostWake, Store, Notify, Sent, SignalInv, Placed,
    Calloop
<1>3. CASE Poll \/ MakeIdle \/ RunInCallback \/ EndBatch
  BY <1>3 DEF Poll, MakeIdle, RunInCallback, EndBatch, RunFirst, Goto, Between
<1>4. CASE RunIdle \/ EndIdles \/ TaskEnds \/ UNCHANGED vars
  BY <1>0, <1>4 DEF RunIdle, EndIdles, TaskEnds, Goto, Between, vars, calloop, SignalInv,
    PingedOrOnTheWay
<1>5. CASE WindowsLoop \/ SizeWindow
  BY <1>0, <1>5 DEF WindowsLoop, GetMessage, RunTask, Timeout, Repost, RanDry, Clear,
    NoneMissed, TakeMissed, MarkMissed, RunWhileSizing, EndSizing, SizeWindow, RunFirst,
    Goto, Between, SignalInv, Placed, PlacesOf, Calloop
<1>6. CASE WebLoop
  BY <1>0, <1>6 DEF WebLoop, ResetSignal, WaitAsync, Awaited, RunMail, EndMail, FireSoon, FireClamped, Fire, Browsing,
    RunFirst, Goto, Between, SignalInv, Placed, PlacesOf, Calloop
<1>7. CASE SetTimeout
  BY <1>0, <1>7 DEF SetTimeout, SetsTimers, Calloop
<1> QED
  BY <1>1, <1>2, <1>3, <1>4, <1>5, <1>6, <1>7 DEF Next, Loop, LinuxLoop

LEMMA SignalStep == SignalInv /\ [Next]_vars => SignalInv'
BY TypeStep, PlacedStep, FlagStep, MessageStep, PingStep DEF SignalInv

\* The invariant the two theorems below rest on.
LEMMA SignalsAreSound == Spec => []SignalInv
BY SignalInit, SignalStep, PTL DEF Spec

\* The main thread does not sleep on a queued runnable: the ping, the posted
\* message or the swap of wake_posted cannot be lost between a push on another
\* thread and the end of a drain (process_events, run_foreground_task).
THEOREM NoWakeUpIsLost == Spec => []QueuedIsSignalled
<1>1. SignalInv => QueuedIsSignalled
  <2> SUFFICES ASSUME SignalInv, platform # "web", queue # <<>>, Asleep, failures = 0
               PROVE  ping \/ messages > 0 \/ OnTheWay
    BY DEF QueuedIsSignalled
  <2>1. platform \in {"linux", "headless", "windows"}
    BY MainThreadAssumption DEF SignalInv, TypeOK, MainThreadAssumption
  <2>2. at = "waiting"
    BY <2>1 DEF Asleep, SignalInv, Placed, PlacesOf
  <2> QED
    BY <2>1, <2>2 DEF SignalInv, MessageOrOnTheWay, PingedOrOnTheWay, Calloop
<1> QED
  BY <1>1, SignalsAreSound, PTL

-----------------------------------------------------------------------------
(* The order of the runnables.                                             *)

LEMMA AppendToBacklog ==
  ASSUME NEW S, NEW s \in Seq(S), NEW t \in Seq(S), NEW e \in S
  PROVE  s \o Append(t, e) = Append(s \o t, e)
OBVIOUS

LEMMA HeadToBacklog ==
  ASSUME NEW S, NEW s \in Seq(S), NEW t \in Seq(S), t # <<>>
  PROVE  Append(s, Head(t)) \o Tail(t) = s \o t
OBVIOUS

LEMMA HeadOfBacklog ==
  ASSUME NEW S, NEW s \in Seq(S), NEW t \in Seq(S), s # <<>>
  PROVE  /\ s \o t # <<>> /\ Head(s \o t) = Head(s)
         /\ Tail(s \o t) = Tail(s) \o t
OBVIOUS

\* What the dispatcher still has to start of what was pushed.
Backlog == idles \o queue

WaitingMap == [c \in Classes |-> Waiting(c)]

LEMMA QuietDelivery ==
  ASSUME UNCHANGED <<pushed, idles, queue, running, timers>>
  PROVE  UNCHANGED Delivery!tasks
BY DEF Delivery!tasks, timers, Waiting

LEMMA UpdatedAt ==
  ASSUME NEW D, NEW f, NEW g, NEW c \in D, NEW e,
         f = [d \in D |-> f[d]], g = [d \in D |-> g[d]],
         \A d \in D : g[d] = IF d = c THEN e ELSE f[d]
  PROVE  g = [f EXCEPT ![c] = e]
OBVIOUS

\* A runnable is accepted when it is appended to what one class waits for, and
\* the other classes keep what they have.
LEMMA LastIsAccepted ==
  ASSUME NEW c \in Classes, pushed' = pushed + 1, running' = running,
         \A d \in Classes : Waiting(d)' = IF d = c THEN Append(Waiting(d), pushed + 1)
                                          ELSE Waiting(d)
  PROVE  Delivery!Accept(c)
<1>1. WaitingMap' = [WaitingMap EXCEPT ![c] = Append(WaitingMap[c], pushed + 1)]
  BY UpdatedAt DEF WaitingMap
<1> QED
  BY <1>1 DEF Delivery!Accept, WaitingMap

\* It is started when one class loses its head to `running'.
LEMMA HeadStarts ==
  ASSUME NEW c \in Classes, running = 0, Waiting(c) # <<>>, Head(Waiting(c)) # 0,
         running' = Head(Waiting(c)), pushed' = pushed,
         \A d \in Classes : Waiting(d)' = IF d = c THEN Tail(Waiting(d)) ELSE Waiting(d)
  PROVE  Delivery!Next
<1>1. WaitingMap' = [WaitingMap EXCEPT ![c] = Tail(WaitingMap[c])]
  BY UpdatedAt DEF WaitingMap
<1>2. Delivery!Start(c, "main")
  BY <1>1 DEF Delivery!Start, WaitingMap
<1> QED
  BY <1>2 DEF Delivery!Next

LEMMA PushAccepts ==
  ASSUME TypeOK, NEW t \in Threads, Push(t)
  PROVE  Delivery!Accept("queued")
<1>1. pushed + 1 \in 1 .. MaxTasks
  BY MainThreadAssumption DEF Push, MayDispatch, TypeOK, MainThreadAssumption
<1>2. idles' = idles /\ queue' = Append(queue, pushed + 1)
  BY DEF Push, calloop
<1>3. Backlog' = Append(Backlog, pushed + 1)
  BY <1>1, <1>2, AppendToBacklog DEF Backlog, TypeOK
<1>4. soon' = soon /\ clamped' = clamped /\ pushed' = pushed + 1 /\ running' = running
  BY DEF Push, timers
<1> QED
  BY <1>3, <1>4, LastIsAccepted DEF Waiting, Classes, Backlog

LEMMA SetTimeoutAccepts ==
  ASSUME SetTimeout
  PROVE  Delivery!Accept("soon") \/ Delivery!Accept("clamped")
<1>1. Backlog' = Backlog /\ pushed' = pushed + 1 /\ running' = running
  BY DEF SetTimeout, Backlog, calloop
<1>2. CASE soon' = Append(soon, pushed + 1) /\ clamped' = clamped
  BY <1>1, <1>2, LastIsAccepted DEF Waiting, Classes, Backlog
<1>3. CASE clamped' = Append(clamped, pushed + 1) /\ soon' = soon
  BY <1>1, <1>3, LastIsAccepted DEF Waiting, Classes, Backlog
<1> QED
  BY <1>2, <1>3 DEF SetTimeout

LEMMA FiredStarts ==
  ASSUME TypeOK, FireSoon \/ FireClamped
  PROVE  Delivery!Next
<1>1. Backlog' = Backlog /\ pushed' = pushed /\ running = 0
  BY DEF FireSoon, FireClamped, Fire, Backlog, calloop
<1>2. ASSUME NEW s \in Seq(1 .. MaxTasks), s # <<>> PROVE Head(s) # 0
  <2>1. Head(s) \in 1 .. MaxTasks
    BY <1>2, HeadTailProperties
  <2> QED
    BY <2>1
<1>3. CASE FireSoon
  <2>1. /\ soon # <<>> /\ running' = Head(soon) /\ Head(soon) # 0
        /\ soon' = Tail(soon) /\ clamped' = clamped
    BY <1>2, <1>3 DEF FireSoon, Fire, TypeOK
  <2> QED
    BY <1>1, <2>1, HeadStarts DEF Waiting, Classes, Backlog
<1>4. CASE FireClamped
  <2>1. /\ clamped # <<>> /\ running' = Head(clamped) /\ Head(clamped) # 0
        /\ clamped' = Tail(clamped) /\ soon' = soon
    BY <1>2, <1>4 DEF FireClamped, Fire, TypeOK
  <2> QED
    BY <1>1, <2>1, HeadStarts DEF Waiting, Classes, Backlog
<1> QED
  BY <1>3, <1>4

LEMMA BacklogStarts ==
  ASSUME TypeOK, running = 0, Backlog # <<>>, Head(Backlog) \in 1 .. MaxTasks,
         Backlog' = Tail(Backlog), running' = Head(Backlog), pushed' = pushed,
         UNCHANGED timers
  PROVE  Delivery!Next
<1>1. soon' = soon /\ clamped' = clamped /\ Head(Backlog) # 0
  BY DEF timers
<1> QED
  BY <1>1, HeadStarts DEF Waiting, Classes, Backlog

LEMMA FirstStarts ==
  ASSUME TypeOK, NEW place, RunFirst(place), running = 0, idles = <<>>, idles' = idles
  PROVE  Delivery!Next
<1>1. Backlog = queue /\ Backlog' = queue'
  <2>1. queue \in Seq(1 .. MaxTasks) /\ queue' \in Seq(1 .. MaxTasks)
    BY HeadTailProperties DEF TypeOK, RunFirst
  <2> QED
    BY <2>1, ConcatEmptySeq DEF Backlog
<1>2. Head(queue) \in 1 .. MaxTasks
  BY HeadTailProperties DEF TypeOK, RunFirst
<1> QED
  BY <1>1, <1>2, BacklogStarts DEF RunFirst

LEMMA DeliveryStep ==
  SignalInv /\ [Next]_vars => [Delivery!Next]_Delivery!tasks
<1> SUFFICES ASSUME SignalInv, [Next]_vars
             PROVE  [Delivery!Next]_Delivery!tasks
  OBVIOUS
<1>0. TypeOK /\ (platform # "linux" => idles = <<>>) /\ at \in PlacesOf[platform]
      /\ platform \in {"linux", "headless", "windows", "web"}
  BY MainThreadAssumption DEF SignalInv, Placed, TypeOK, MainThreadAssumption
<1>1. ASSUME NEW t \in Threads, Push(t) PROVE Delivery!Next
  BY <1>0, <1>1, PushAccepts DEF Delivery!Next, Classes
<1>2. ASSUME NEW t \in Threads, Signal(t)
      PROVE  UNCHANGED <<pushed, idles, queue, running, timers>>
  BY <1>2 DEF Signal, Ping, Claim, PostWake, Store, Notify, Sent
<1>3. CASE MakeIdle
  <2>1. Backlog' = Backlog
    BY <1>0, <1>3, HeadToBacklog DEF MakeIdle, Backlog, TypeOK
  <2>2. soon' = soon /\ clamped' = clamped /\ pushed' = pushed /\ running' = running
    BY <1>3 DEF MakeIdle, timers
  <2>3. \A c \in Classes : Waiting(c)' = Waiting(c)
    BY <2>1, <2>2 DEF Waiting, Backlog, Classes
  <2> QED
    BY <2>2, <2>3 DEF Delivery!tasks
<1>4. CASE RunInCallback \/ RunTask \/ TakeMissed \/ RunWhileSizing \/ RunMail
  <2>1. platform # "linux"
    BY <1>0, <1>4 DEF RunInCallback, RunTask, TakeMissed, RunWhileSizing, RunMail, Between,
      PlacesOf
  <2>2. running = 0 /\ idles' = idles /\ \E place \in Places : RunFirst(place)
    BY <1>4 DEF RunInCallback, RunTask, TakeMissed, RunWhileSizing, RunMail, Between,
      calloop, Places
  <2> QED
    BY <1>0, <2>1, <2>2, FirstStarts
<1>5. CASE RunIdle
  <2>1. Backlog # <<>> /\ Head(Backlog) = Head(idles) /\ Backlog' = Tail(Backlog)
    BY <1>0, <1>5, HeadOfBacklog DEF RunIdle, Backlog, TypeOK
  <2>2. Head(idles) \in 1 .. MaxTasks
    BY <1>0, <1>5, HeadTailProperties DEF RunIdle, TypeOK
  <2> QED
    BY <1>0, <1>5, <2>1, <2>2, BacklogStarts DEF RunIdle, Between
<1>6. CASE TaskEnds
  <2>1. /\ running # 0 /\ running' = 0 /\ pushed' = pushed
        /\ idles' = idles /\ queue' = queue /\ soon' = soon /\ clamped' = clamped
    BY <1>6 DEF TaskEnds, calloop, timers
  <2>2. \A c \in Classes : Waiting(c)' = Waiting(c)
    BY <2>1 DEF Waiting, Classes
  <2>3. Delivery!End("main")
    BY <2>1, <2>2 DEF Delivery!End
  <2> QED
    BY <2>3 DEF Delivery!Next
<1>7. CASE Poll \/ EndBatch \/ EndIdles
  BY <1>7, QuietDelivery DEF Poll, EndBatch, EndIdles, Goto, calloop
<1>8. CASE GetMessage \/ Timeout \/ Repost \/ RanDry \/ Clear \/ NoneMissed \/ MarkMissed
           \/ EndSizing \/ SizeWindow
  BY <1>8, QuietDelivery DEF GetMessage, Timeout, Repost, RanDry, Clear, NoneMissed,
    MarkMissed, EndSizing, SizeWindow, Goto, calloop
<1>9. CASE ResetSignal \/ WaitAsync \/ Awaited \/ EndMail
  BY <1>9, QuietDelivery DEF ResetSignal, WaitAsync, Awaited, EndMail, Goto, calloop
<1>11. CASE SetTimeout
  BY <1>11, SetTimeoutAccepts DEF Delivery!Next, Classes
<1>12. CASE FireSoon \/ FireClamped
  BY <1>0, <1>12, FiredStarts
<1>10. CASE UNCHANGED vars
  BY <1>10, QuietDelivery DEF vars, calloop
<1> QED
  BY <1>1, <1>2, <1>3, <1>4, <1>5, <1>6, <1>7, <1>8, <1>9, <1>10, <1>11,
     <1>12, QuietDelivery
  DEF Next, Loop, LinuxLoop, WindowsLoop, WebLoop

\* Runnables are started once each and one at a time on every platform, and on
\* Linux and Windows in the order of dispatch_on_main_thread, calloop's idle
\* callbacks, the time limit on Windows and the timer of a window being sized
\* included.  On the web the other threads' mail keeps its order and so do the
\* main thread's own timers of each kind (schedule_runnable), but no order
\* relates the mail to the timers.
THEOREM RunnablesKeepOrder == Spec => ImplementsDelivery
<1>1. Init => Delivery!Init
  BY EmptySeq, ConcatEmptySeq DEF Init, Delivery!Init, Waiting, Classes
<1>2. SignalInv /\ [Next]_vars => [Delivery!Next]_Delivery!tasks
  BY DeliveryStep
<1> QED
  BY <1>1, <1>2, SignalsAreSound, PTL DEF Spec, ImplementsDelivery, Delivery!Spec
=============================================================================
