------------------------ MODULE BackgroundPoolProofs ------------------------
(***************************************************************************)
(* Proofs about PriorityQueue and BackgroundPool, for every finite set of  *)
(* threads, every set of callers and every bound: the die of pop_inner is  *)
(* fair, no thread sleeps while there is work for it, and tasks of one     *)
(* priority are started once each, in their order.                         *)
(*                                                                         *)
(* SleepersAreSpare is inductive once the queues are known to be sequences *)
(* of tasks: each push adds a task and, while anyone sleeps, a thread on   *)
(* its way; each thread that takes a task leaves both counts; and a thread *)
(* goes to sleep only on an empty queue.                                   *)
(***************************************************************************)
EXTENDS BackgroundPool, SequenceTheorems, FiniteSetTheorems, TLAPS

PoolInv ==
  /\ TypeOK
  /\ SleepersAreSpare
  /\ \A w \in Workers : worker[w] = "running" <=> task[w] # 0

-----------------------------------------------------------------------------
(* The die.                                                                *)

\* pop_inner finds something in every queue that is not empty, and any class
\* with something to offer may be what it finds (the unwrap in recv and pop).
LEMMA DieFindsAll ==
  ASSUME NEW q \in QueuesOf(1 .. MaxTasks)
  PROVE  /\ Throw(q) = {p \in Priorities : q[p] # <<>>}
         /\ ~IsEmpty(q) => ~MayFallThrough(q)
<1>1. Weight["High"] = 60 /\ Weight["Medium"] = 30 /\ Weight["Low"] = 10
  BY DEF Weight, Priorities
<1>2. /\ Offer(q, "High") = IF q["High"] = <<>> THEN 0 ELSE 60
      /\ Offer(q, "Medium") = IF q["Medium"] = <<>> THEN 0 ELSE 30
      /\ Offer(q, "Low") = IF q["Low"] = <<>> THEN 0 ELSE 10
  BY <1>1 DEF Offer
<1>3. /\ Mass(q, "High") = Offer(q, "High") + Offer(q, "Medium") + Offer(q, "Low")
      /\ Mass(q, "Medium") = Offer(q, "Medium") + Offer(q, "Low")
      /\ Mass(q, "Low") = Offer(q, "Low")
  BY DEF Mass
<1>4. /\ MayMiss(q, "High") <=> q["High"] = <<>> \/ q["Medium"] # <<>> \/ q["Low"] # <<>>
      /\ MayMiss(q, "Medium") <=> q["Medium"] = <<>> \/ q["Low"] # <<>>
      /\ MayMiss(q, "Low") <=> q["Low"] = <<>>
  BY <1>1, <1>2, <1>3 DEF MayMiss
<1>5. ASSUME NEW p \in Priorities, q[p] # <<>> PROVE Reached(q, p)
  BY <1>4, <1>5 DEF Reached, Priorities
<1>6. ~IsEmpty(q) => ~MayFallThrough(q)
  BY <1>4 DEF IsEmpty, MayFallThrough, Priorities
<1> QED
  BY <1>5, <1>6 DEF Throw

-----------------------------------------------------------------------------
(* The queues as sequences.                                                *)

LEMMA SizeChanges ==
  ASSUME NEW q, NEW r, NEW p \in Priorities, NEW d \in Int,
         \A c \in Priorities : Len(q[c]) \in Nat,
         \A c \in Priorities : Len(r[c]) = IF c = p THEN Len(q[c]) + d ELSE Len(q[c])
  PROVE  Size(r) = Size(q) + d /\ Size(q) \in Nat
<1> DEFINE LenOf(x, c) == Len(x[c])
<1>1. /\ LenOf(q, "High") \in Nat /\ LenOf(q, "Medium") \in Nat /\ LenOf(q, "Low") \in Nat
      /\ LenOf(r, "High") = IF p = "High" THEN LenOf(q, "High") + d ELSE LenOf(q, "High")
      /\ LenOf(r, "Medium") =
           IF p = "Medium" THEN LenOf(q, "Medium") + d ELSE LenOf(q, "Medium")
      /\ LenOf(r, "Low") = IF p = "Low" THEN LenOf(q, "Low") + d ELSE LenOf(q, "Low")
  BY DEF Priorities
<1>2. /\ Size(q) = LenOf(q, "High") + LenOf(q, "Medium") + LenOf(q, "Low")
      /\ Size(r) = LenOf(r, "High") + LenOf(r, "Medium") + LenOf(r, "Low")
  BY DEF Size
<1> HIDE DEF LenOf
<1> QED
  BY <1>1, <1>2 DEF Priorities

LEMMA PushedQueue ==
  ASSUME NEW q \in QueuesOf(1 .. MaxTasks), NEW p \in Priorities, NEW e \in 1 .. MaxTasks
  PROVE  /\ Push(q, p, e) \in QueuesOf(1 .. MaxTasks)
         /\ Size(Push(q, p, e)) = Size(q) + 1
<1>1. Append(q[p], e) \in Seq(1 .. MaxTasks) /\ Len(Append(q[p], e)) = Len(q[p]) + 1
  BY DEF QueuesOf
<1>2. Push(q, p, e) \in QueuesOf(1 .. MaxTasks)
  BY <1>1 DEF Push, QueuesOf
<1>3. \A r \in Priorities : Len(q[r]) \in Nat
  BY LenProperties DEF QueuesOf
<1>4. \A r \in Priorities :
        Len(Push(q, p, e)[r]) = IF r = p THEN Len(q[r]) + 1 ELSE Len(q[r])
  <2>1. \A r \in Priorities : Push(q, p, e)[r] = IF r = p THEN Append(q[p], e) ELSE q[r]
    BY DEF Push, QueuesOf
  <2> QED
    BY <1>1, <2>1
<1>5. Size(Push(q, p, e)) = Size(q) + 1
  BY <1>3, <1>4, SizeChanges
<1> QED
  BY <1>2, <1>5

LEMMA PoppedQueue ==
  ASSUME NEW q \in QueuesOf(1 .. MaxTasks), NEW p \in Priorities, q[p] # <<>>
  PROVE  /\ PopFront(q, p) \in QueuesOf(1 .. MaxTasks)
         /\ Size(PopFront(q, p)) = Size(q) - 1
         /\ Head(q[p]) \in 1 .. MaxTasks
<1>1. /\ Tail(q[p]) \in Seq(1 .. MaxTasks) /\ Len(Tail(q[p])) = Len(q[p]) - 1
      /\ Head(q[p]) \in 1 .. MaxTasks
  BY HeadTailProperties DEF QueuesOf
<1>2. PopFront(q, p) \in QueuesOf(1 .. MaxTasks)
  BY <1>1 DEF PopFront, QueuesOf
<1>3. \A r \in Priorities : Len(q[r]) \in Nat
  BY LenProperties DEF QueuesOf
<1>4. \A r \in Priorities :
        Len(PopFront(q, p)[r]) = IF r = p THEN Len(q[r]) + (-1) ELSE Len(q[r])
  <2>1. \A r \in Priorities : PopFront(q, p)[r] = IF r = p THEN Tail(q[p]) ELSE q[r]
    BY DEF PopFront, QueuesOf
  <2> QED
    BY <1>1, <2>1
<1>5. Size(PopFront(q, p)) = Size(q) + (-1) /\ Size(q) \in Nat
  BY <1>3, <1>4, SizeChanges
<1> QED
  BY <1>1, <1>2, <1>5

LEMMA SizeOfEmpty ==
  ASSUME NEW q, IsEmpty(q)
  PROVE  Size(q) = 0
<1>1. q["High"] = <<>> /\ q["Medium"] = <<>> /\ q["Low"] = <<>>
  BY DEF IsEmpty, Priorities
<1> QED
  BY <1>1 DEF Size

-----------------------------------------------------------------------------
(* The threads.                                                            *)

Awake == InState({"free", "woken"})

Asleep == InState({"asleep"})

LEMMA ThreadsAreFinite ==
  ASSUME NEW states
  PROVE  /\ IsFiniteSet(InState(states)) /\ Cardinality(InState(states)) \in Nat
         /\ IsFiniteSet(InState(states)') /\ Cardinality(InState(states)') \in Nat
<1>1. /\ IsFiniteSet(Workers)
      /\ InState(states) \in SUBSET Workers /\ InState(states)' \in SUBSET Workers
  BY PoolAssumption DEF PoolAssumption, InState
<1> QED
  BY <1>1, FS_Subset, FS_CardinalityType

LEMMA PoolInit == Init => PoolInv /\ Delivery!Init
<1> SUFFICES ASSUME Init PROVE PoolInv /\ Delivery!Init
  OBVIOUS
<1>1. TypeOK
  BY EmptySeq, PoolAssumption
  DEF Init, TypeOK, QueuesOf, NothingQueued, WorkerStates, PoolAssumption
<1>2. SleepersAreSpare
  BY DEF Init, SleepersAreSpare, InState
<1>3. Delivery!Init
  BY DEF Init, Delivery!Init, NothingQueued
<1> QED
  BY <1>1, <1>2, <1>3 DEF PoolInv, Init

\* A thread that takes a task: one task and one awake thread less.
LEMMA TakeStep ==
  ASSUME PoolInv, NEW w \in Workers, worker[w] \in {"free", "woken"}, Take(w)
  PROVE  PoolInv' /\ Delivery!Next
<1>1. PICK p \in Throw(queues) : 
        /\ queues' = PopFront(queues, p)
        /\ task' = [task EXCEPT ![w] = Head(queues[p])]
        /\ worker' = [worker EXCEPT ![w] = "running"]
        /\ UNCHANGED <<pushed, calling, sender, panics>>
  BY DEF Take
<1>2. p \in Priorities /\ queues[p] # <<>>
  BY DEF Throw
<1>3. /\ queues' \in QueuesOf(1 .. MaxTasks) /\ Size(queues') = Size(queues) - 1
      /\ Head(queues[p]) \in 1 .. MaxTasks
  BY <1>1, <1>2, PoppedQueue DEF PoolInv, TypeOK
<1>4. TypeOK'
  BY <1>1, <1>3 DEF PoolInv, TypeOK, WorkerStates
<1>5. Asleep' = Asleep /\ Awake' = Awake \ {w} /\ w \in Awake
  BY <1>1 DEF PoolInv, TypeOK, InState, Awake, Asleep
<1>6. Cardinality(Awake') = Cardinality(Awake) - 1
  BY <1>5, ThreadsAreFinite, FS_RemoveElement DEF Awake
<1>7. Size(queues) \in Nat
  BY LenProperties DEF Size, PoolInv, TypeOK, QueuesOf, Priorities
<1>8. SleepersAreSpare'
  BY <1>3, <1>5, <1>6, <1>7, ThreadsAreFinite DEF PoolInv, SleepersAreSpare, Awake, Asleep
<1>9. Delivery!Start(p, w)
  BY <1>1, <1>2 DEF Delivery!Start, PoolInv, TypeOK, PopFront
<1>10. Delivery!Next
  BY <1>2, <1>9 DEF Delivery!Next
<1>11. (\A v \in Workers : worker[v] = "running" <=> task[v] # 0)'
  BY <1>1, <1>3 DEF PoolInv, TypeOK
<1> QED
  BY <1>4, <1>8, <1>10, <1>11 DEF PoolInv

\* A thread that finds nothing goes to sleep, or ends: the queue is empty.
LEMMA IdleStep ==
  ASSUME PoolInv, NEW w \in Workers, worker[w] \in {"free", "woken"}, IsEmpty(queues),
         NEW state \in {"asleep", "gone"}, Become(w, state)
  PROVE  PoolInv' /\ UNCHANGED Delivery!tasks
<1>1. TypeOK'
  BY DEF PoolInv, TypeOK, Become, WorkerStates
<1>2. Size(queues') = 0
  BY SizeOfEmpty DEF Become
<1>3. SleepersAreSpare'
  BY <1>2, ThreadsAreFinite DEF SleepersAreSpare
<1>4. (\A v \in Workers : worker[v] = "running" <=> task[v] # 0)'
  BY DEF PoolInv, TypeOK, Become
<1> QED
  BY <1>1, <1>3, <1>4 DEF PoolInv, Become, Delivery!tasks

LEMMA PushStep ==
  ASSUME PoolInv, NEW c \in Callers, PushAndNotify(c)
  PROVE  PoolInv' /\ Delivery!Next
<1>1. calling[c] \in Priorities /\ pushed + 1 \in 1 .. MaxTasks
  BY PoolAssumption DEF PoolInv, TypeOK, PushAndNotify, PoolAssumption
<1>2. queues' \in QueuesOf(1 .. MaxTasks) /\ Size(queues') = Size(queues) + 1
  BY <1>1, PushedQueue DEF PushAndNotify, PoolInv, TypeOK
<1>3. \/ Asleep = {} /\ worker' = worker
      \/ \E w \in Asleep : worker' = [worker EXCEPT ![w] = "woken"]
  BY DEF PushAndNotify, Asleep
<1>4. worker' \in [Workers -> WorkerStates]
  BY <1>3 DEF PoolInv, TypeOK, Asleep, InState, WorkerStates
<1>5. calling' \in [Callers -> Priorities \cup {"none"}]
  BY DEF PushAndNotify, PoolInv, TypeOK
<1>6. TypeOK'
  BY <1>1, <1>2, <1>4, <1>5 DEF PushAndNotify, PoolInv, TypeOK
<1>7. SleepersAreSpare'
  <2>1. CASE Asleep = {} /\ worker' = worker
    BY <2>1 DEF SleepersAreSpare, Asleep, InState
  <2>2. ASSUME NEW w \in Asleep, worker' = [worker EXCEPT ![w] = "woken"]
        PROVE  SleepersAreSpare'
    <3>1. Awake' = Awake \cup {w} /\ w \notin Awake
      BY <2>2 DEF Awake, Asleep, InState, PoolInv, TypeOK
    <3>2. Cardinality(Awake') = Cardinality(Awake) + 1
      BY <3>1, ThreadsAreFinite, FS_AddElement DEF Awake
    <3>3. Size(queues) <= Cardinality(Awake) /\ Size(queues) \in Nat
      BY <2>2, LenProperties
      DEF PoolInv, SleepersAreSpare, Asleep, Awake, Size, TypeOK, QueuesOf, Priorities
    <3> QED
      BY <1>2, <3>2, <3>3, ThreadsAreFinite DEF SleepersAreSpare, Awake
  <2> QED
    BY <1>3, <2>1, <2>2
<1>8. (\A v \in Workers : worker[v] = "running" <=> task[v] # 0)'
  BY <1>3 DEF PushAndNotify, PoolInv, TypeOK, Asleep, InState
<1>9. Delivery!Accept(calling[c])
  BY DEF PushAndNotify, Push, Delivery!Accept
<1> QED
  BY <1>1, <1>6, <1>7, <1>8, <1>9 DEF PoolInv, Delivery!Next

LEMMA ReturnStep ==
  ASSUME PoolInv, NEW w \in Workers, NEW state \in {"free", "gone"}, Return(w, state),
         panics' \in 0 .. MaxPanics
  PROVE  PoolInv' /\ Delivery!Next
<1>1. TypeOK'
  BY PoolAssumption DEF Return, PoolInv, TypeOK, WorkerStates, PoolAssumption
<1>2. Asleep' = Asleep
  BY DEF Return, PoolInv, TypeOK, Asleep, InState
<1>3. Awake' = Awake \/ Awake' = Awake \cup {w}
  BY DEF Return, PoolInv, TypeOK, Awake, InState
<1>4. Cardinality(Awake) <= Cardinality(Awake') /\ Cardinality(Awake') \in Nat
  <2>1. Cardinality(Awake) \in Nat /\ IsFiniteSet(Awake)
    BY ThreadsAreFinite DEF Awake
  <2>2. Cardinality(Awake \cup {w}) \in {Cardinality(Awake), Cardinality(Awake) + 1}
    BY <2>1, FS_AddElement
  <2>3. Cardinality(Awake') \in {Cardinality(Awake), Cardinality(Awake) + 1}
    BY <1>3, <2>2
  <2> QED
    BY <2>1, <2>3
<1>5. queues' = queues /\ Size(queues) \in Nat
  BY LenProperties DEF Return, Size, PoolInv, TypeOK, QueuesOf, Priorities
<1>6. SleepersAreSpare'
  BY <1>2, <1>4, <1>5, ThreadsAreFinite DEF PoolInv, SleepersAreSpare, Asleep, Awake
<1>7. (\A v \in Workers : worker[v] = "running" <=> task[v] # 0)'
  BY DEF Return, PoolInv, TypeOK
<1>8. Delivery!End(w)
  BY DEF Return, PoolInv, Delivery!End
<1> QED
  BY <1>1, <1>6, <1>7, <1>8 DEF PoolInv, Delivery!Next

LEMMA QuietStep ==
  ASSUME PoolInv, UNCHANGED <<queues, pushed, worker, task, panics>>,
         sender' \in BOOLEAN, calling' \in [Callers -> Priorities \cup {"none"}]
  PROVE  PoolInv' /\ UNCHANGED Delivery!tasks
BY DEF PoolInv, TypeOK, SleepersAreSpare, InState, Delivery!tasks

LEMMA PoolStep ==
  PoolInv /\ [Next]_vars => PoolInv' /\ [Delivery!Next]_Delivery!tasks
<1> SUFFICES ASSUME PoolInv, [Next]_vars
             PROVE  PoolInv' /\ [Delivery!Next]_Delivery!tasks
  OBVIOUS
<1>1. ASSUME NEW c \in Callers, PushAndNotify(c)
      PROVE  PoolInv' /\ Delivery!Next
  BY <1>1, PushStep
<1>2. ASSUME NEW c \in Callers, NEW p \in Priorities, CheckReceivers(c, p)
      PROVE  PoolInv' /\ UNCHANGED Delivery!tasks
  BY <1>2, QuietStep DEF CheckReceivers, PoolInv, TypeOK
<1>3. CASE DropSender
  BY <1>3, QuietStep DEF DropSender, PoolInv, TypeOK
<1>4. ASSUME NEW w \in Workers, Recv(w) \/ Wake(w)
      PROVE  PoolInv' /\ [Delivery!Next]_Delivery!tasks
  <2>1. worker[w] \in {"free", "woken"}
    BY <1>4 DEF Recv, Wake
  <2>2. CASE IsEmpty(queues)
    <3>1. \E state \in {"asleep", "gone"} : Become(w, state)
      BY <1>4, <2>2 DEF Recv, Wake
    <3> QED
      BY <2>1, <2>2, <3>1, IdleStep
  <2>3. CASE ~IsEmpty(queues)
    BY <1>4, <2>1, <2>3, TakeStep DEF Recv, Wake
  <2> QED
    BY <2>2, <2>3
<1>5. ASSUME NEW w \in Workers, TaskEnds(w) \/ TaskPanics(w)
      PROVE  PoolInv' /\ Delivery!Next
  <2>1. panics' \in 0 .. MaxPanics
    BY <1>5, PoolAssumption DEF TaskEnds, TaskPanics, PoolInv, TypeOK, PoolAssumption
  <2> QED
    BY <1>5, <2>1, ReturnStep DEF TaskEnds, TaskPanics
<1>6. CASE UNCHANGED vars
  BY <1>6, QuietStep DEF vars, PoolInv, TypeOK
<1> QED
  BY <1>1, <1>2, <1>3, <1>4, <1>5, <1>6 DEF Next

LEMMA PoolIsSound == Spec => []PoolInv
<1>1. Init => PoolInv
  BY PoolInit
<1>2. PoolInv /\ [Next]_vars => PoolInv'
  BY PoolStep
<1> QED
  BY <1>1, <1>2, PTL DEF Spec

\* While a thread sleeps, every queued task has another thread on its way to the
\* lock, whatever the order of pushes, wake-ups and panics: the one notify_one per
\* push loses nothing (PriorityQueueState::send and recv).
THEOREM NobodySleepsThroughWork == Spec => []SleepersAreSpare
<1>1. PoolInv => SleepersAreSpare
  BY DEF PoolInv
<1> QED
  BY <1>1, PoolIsSound, PTL

\* The unwraps on what pop_inner returns are safe, and no class has to wait for
\* another to be empty.
THEOREM TheDieIsFair == Spec => []DieIsFair
<1>1. PoolInv => DieIsFair
  BY DieFindsAll DEF PoolInv, TypeOK, DieIsFair
<1> QED
  BY <1>1, PoolIsSound, PTL

\* Tasks are started once each and those of one priority in the order dispatched,
\* although several threads take them, threads die of panics and the dispatcher may
\* be dropped.
THEOREM TasksKeepOrder == Spec => ImplementsDelivery
<1>1. Init => Delivery!Init
  BY PoolInit
<1>2. PoolInv /\ [Next]_vars => [Delivery!Next]_Delivery!tasks
  BY PoolStep
<1> QED
  BY <1>1, <1>2, PoolIsSound, PTL DEF Spec, ImplementsDelivery, Delivery!Spec
=============================================================================
