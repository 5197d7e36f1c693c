---------------------------- MODULE BackgroundPool ----------------------------
(***************************************************************************)
(* The background threads of LinuxDispatcher (platform/linux/              *)
(* dispatcher.rs) and the priority queue they are fed from (queue.rs): a   *)
(* Mutex with a Condvar, and two counters that are read without the lock.  *)
(*                                                                         *)
(* What a thread does with the lock held is one step.  A worker is `free'  *)
(* when it is about to lock the queue, `asleep' in the Condvar, `woken'    *)
(* when it was notified and has to lock the queue again, `running' a task, *)
(* or `gone'.                                                              *)
(***************************************************************************)
EXTENDS PriorityQueue, FiniteSets

CONSTANTS
  Workers,    \* the background threads
  Callers,    \* the threads that dispatch, workers in a task among them
  MaxTasks,   \* a bound of the model: tasks dispatched
  MaxPanics   \* a bound of the model: tasks that panic

ASSUME PoolAssumption ==
  /\ IsFiniteSet(Workers) /\ Workers # {}
  /\ MaxTasks \in Nat
  /\ MaxPanics \in Nat /\ MaxPanics < Cardinality(Workers)

VARIABLES
  queues,    \* PriorityQueueState::queues; tasks are named in the order pushed
  pushed,    \* tasks pushed so far
  worker,    \* worker[w]: what the thread w is doing
  task,      \* task[w]: the runnable w runs, 0 when there is none
  calling,   \* calling[c]: the priority c is about to push with, or "none"
  sender,    \* sender_count > 0: there is only one PriorityQueueSender
  panics     \* tasks that panicked so far

vars == <<queues, pushed, worker, task, calling, sender, panics>>

WorkerStates == {"free", "asleep", "woken", "running", "gone"}

TypeOK ==
  /\ queues \in QueuesOf(1 .. MaxTasks)
  /\ pushed \in 0 .. MaxTasks
  /\ worker \in [Workers -> WorkerStates]
  /\ task \in [Workers -> 0 .. MaxTasks]
  /\ calling \in [Callers -> Priorities \cup {"none"}]
  /\ sender \in BOOLEAN
  /\ panics \in 0 .. MaxPanics

Init ==
  /\ queues = NothingQueued /\ pushed = 0
  /\ worker = [w \in Workers |-> "free"]
  /\ task = [w \in Workers |-> 0]
  /\ calling = [c \in Callers |-> "none"]
  /\ sender = TRUE
  /\ panics = 0

InState(states) == {w \in Workers : worker[w] \in states}

\* receiver_count: the receiver of a thread that ends is dropped with it.
Receivers == InState(WorkerStates \ {"gone"})

-----------------------------------------------------------------------------
\* send, up to the lock.  Without a receiver `dispatch' panics.
CheckReceivers(c, p) ==
  /\ sender /\ calling[c] = "none" /\ Receivers # {}
  /\ calling' = [calling EXCEPT ![c] = p]
  /\ UNCHANGED <<queues, pushed, worker, task, sender, panics>>

\* As if a task of low priority woke nobody.
PushAndSometimesNotify(c) ==
  /\ calling[c] # "none" /\ pushed < MaxTasks
  /\ queues' = Push(queues, calling[c], pushed + 1)
  /\ pushed' = pushed + 1
  /\ IF InState({"asleep"}) = {} \/ calling[c] = "Low" THEN UNCHANGED worker
     ELSE \E w \in InState({"asleep"}) : worker' = [worker EXCEPT ![w] = "woken"]
  /\ calling' = [calling EXCEPT ![c] = "none"]
  /\ UNCHANGED <<task, sender, panics>>

\* The rest of send: lock, push, notify_one.
PushAndNotify(c) ==
  /\ calling[c] # "none" /\ pushed < MaxTasks
  /\ queues' = Push(queues, calling[c], pushed + 1)
  /\ pushed' = pushed + 1
  /\ IF InState({"asleep"}) = {} THEN UNCHANGED worker
     ELSE \E w \in InState({"asleep"}) : worker' = [worker EXCEPT ![w] = "woken"]
  /\ calling' = [calling EXCEPT ![c] = "none"]
  /\ UNCHANGED <<task, sender, panics>>

\* The dispatcher is dropped, when nobody can be calling it any more.
DropSender ==
  /\ sender /\ \A c \in Callers : calling[c] = "none"
  /\ sender' = FALSE
  /\ UNCHANGED <<queues, pushed, worker, task, calling, panics>>

-----------------------------------------------------------------------------
\* The lock is held and there is something to pop: pop_inner.
Take(w) ==
  \E p \in Throw(queues) :
    /\ queues' = PopFront(queues, p)
    /\ task' = [task EXCEPT ![w] = Head(queues[p])]
    /\ worker' = [worker EXCEPT ![w] = "running"]
    /\ UNCHANGED <<pushed, calling, sender, panics>>

Become(w, state) ==
  /\ worker' = [worker EXCEPT ![w] = state]
  /\ UNCHANGED <<queues, pushed, task, calling, sender, panics>>

\* As if a thread left once the sender was gone, with tasks queued or not.
RecvLeavingTasks(w) ==
  /\ worker[w] = "free"
  /\ IF ~sender THEN Become(w, "gone")
     ELSE IF IsEmpty(queues) THEN Become(w, "asleep") ELSE Take(w)

\* recv: with nothing to pop it ends the thread's loop when there is no
\* sender any more, and waits otherwise.
Recv(w) ==
  /\ worker[w] = "free"
  /\ IF IsEmpty(queues) THEN Become(w, IF sender THEN "asleep" ELSE "gone")
     ELSE Take(w)

\* The loop around Condvar::wait.
Wake(w) ==
  /\ worker[w] = "woken"
  /\ IF IsEmpty(queues) THEN Become(w, "asleep") ELSE Take(w)

Return(w, state) ==
  /\ worker[w] = "running"
  /\ worker' = [worker EXCEPT ![w] = state]
  /\ task' = [task EXCEPT ![w] = 0]
  /\ UNCHANGED <<queues, pushed, calling, sender>>

TaskEnds(w) == Return(w, "free") /\ UNCHANGED panics

\* Nothing between the task and the thread's start catches a panic.
TaskPanics(w) ==
  /\ panics < MaxPanics /\ panics' = panics + 1
  /\ Return(w, "gone")

-----------------------------------------------------------------------------
Next ==
  \/ \E c \in Callers : PushAndNotify(c) \/ \E p \in Priorities : CheckReceivers(c, p)
  \/ DropSender
  \/ \E w \in Workers : Recv(w) \/ Wake(w) \/ TaskEnds(w) \/ TaskPanics(w)

Spec == Init /\ [][Next]_vars

\* The system runs every thread that can run, and tasks come to an end.
FairSpec ==
  /\ Spec
  /\ \A w \in Workers :
       /\ WF_vars(Recv(w)) /\ WF_vars(Wake(w))
       /\ WF_vars(TaskEnds(w) \/ TaskPanics(w))

-----------------------------------------------------------------------------
\* A thread sleeps only while each queued task has another thread on its way
\* to the lock: one notify_one per push is enough, whoever the notified
\* thread finds to have been quicker, and whatever panicked.
SleepersAreSpare ==
  InState({"asleep"}) # {} => Size(queues) <= Cardinality(InState({"free", "woken"}))

\* pop_inner takes something whenever something is queued, and each class
\* with something to offer may be the one: `pop' may unwrap, and no class
\* waits for the others to be empty.
DieIsFair ==
  /\ Throw(queues) = {p \in Priorities : queues[p] # <<>>}
  /\ ~IsEmpty(queues) => ~MayFallThrough(queues)

Tasks == UNION {{queues[p][i] : i \in DOMAIN queues[p]} : p \in Priorities}

\* Every task dispatched is started, whatever its priority, also when the
\* dispatcher is dropped first and when other tasks panic.
TasksStart == \A t \in 1 .. MaxTasks : t \in Tasks ~> t \notin Tasks

Delivery == INSTANCE TaskDelivery WITH
  Classes <- Priorities,
  Threads <- Workers,
  accepted <- pushed,
  waiting <- queues,
  running <- task

\* Tasks are started once each, those of one priority in their order.
ImplementsDelivery == Delivery!Spec
=============================================================================
