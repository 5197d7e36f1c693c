---------------------------- MODULE TaskDelivery ----------------------------
(***************************************************************************)
(* What a dispatcher promises of the runnables it is given                 *)
(* (PlatformDispatcher::dispatch, dispatch_on_main_thread): each is run,   *)
(* once, and those of one class are started in the order they came in.     *)
(***************************************************************************)
EXTENDS Naturals, Sequences

CONSTANTS
  Classes,   \* what the dispatcher may treat differently: its priorities
  Threads    \* the threads it runs tasks on

VARIABLES
  accepted,  \* how many tasks came in; they are named 1, 2, ...
  waiting,   \* those that have not been started, per class
  running    \* running[t]: the task that runs on thread t, 0 for none

tasks == <<accepted, waiting, running>>

Init ==
  /\ accepted = 0
  /\ waiting = [c \in Classes |-> <<>>]
  /\ running = [t \in Threads |-> 0]

Accept(c) ==
  /\ accepted' = accepted + 1
  /\ waiting' = [waiting EXCEPT ![c] = Append(@, accepted + 1)]
  /\ UNCHANGED running

Start(c, t) ==
  /\ waiting[c] # <<>> /\ running[t] = 0
  /\ running' = [running EXCEPT ![t] = Head(waiting[c])]
  /\ waiting' = [waiting EXCEPT ![c] = Tail(@)]
  /\ UNCHANGED accepted

End(t) ==
  /\ running[t] # 0
  /\ running' = [running EXCEPT ![t] = 0]
  /\ UNCHANGED <<accepted, waiting>>

Next ==
  \/ \E c \in Classes : Accept(c) \/ \E t \in Threads : Start(c, t)
  \/ \E t \in Threads : End(t)

Spec == Init /\ [][Next]_tasks
=============================================================================
