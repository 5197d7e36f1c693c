---------------------------- MODULE PriorityQueue ----------------------------
(***************************************************************************)
(* The three queues of queue.rs and the loaded die that chooses among them *)
(* (pop_inner), as pure operators.  A throw of the die is any outcome its  *)
(* probabilities leave possible.                                           *)
(***************************************************************************)
EXTENDS Naturals, Sequences

\* RealtimeAudio is never queued: it runs on a thread of its own.
Priorities == {"High", "Medium", "Low"}

Weight == [p \in Priorities |-> CASE p = "High" -> 60
                                  [] p = "Medium" -> 30
                                  [] p = "Low" -> 10]

\* PriorityQueues
QueuesOf(Item) == [Priorities -> Seq(Item)]

NothingQueued == [p \in Priorities |-> <<>>]

IsEmpty(queues) == \A p \in Priorities : queues[p] = <<>>

Size(queues) == Len(queues["High"]) + Len(queues["Medium"]) + Len(queues["Low"])

\* As if the newest task went first.
PushFront(queues, p, item) == [queues EXCEPT ![p] = <<item>> \o @]

Push(queues, p, item) == [queues EXCEPT ![p] = Append(@, item)]

PopFront(queues, p) == [queues EXCEPT ![p] = Tail(@)]

\* The weight of a class that has something to offer.
Offer(queues, p) == IF queues[p] = <<>> THEN 0 ELSE Weight[p]

\* As if `mass' were not reduced by the classes the die has missed.
FullMass(queues, p) ==
  Offer(queues, "High") + Offer(queues, "Medium") + Offer(queues, "Low")

\* `mass' when the die comes to class p.
Mass(queues, p) ==
  CASE p = "High" ->
         Offer(queues, "High") + Offer(queues, "Medium") + Offer(queues, "Low")
    [] p = "Medium" -> Offer(queues, "Medium") + Offer(queues, "Low")
    [] p = "Low" -> Offer(queues, "Low")

\* random_ratio(weight, mass) may come up false.
MayMiss(queues, p) == queues[p] = <<>> \/ Weight[p] < Mass(queues, p)

Reached(queues, p) ==
  /\ p \in {"Medium", "Low"} => MayMiss(queues, "High")
  /\ p = "Low" => MayMiss(queues, "Medium")

\* The classes pop_inner may take from.
Throw(queues) == {p \in Priorities : queues[p] # <<>> /\ Reached(queues, p)}

\* It falls through every class and returns None.
MayFallThrough(queues) == \A p \in Priorities : MayMiss(queues, p)
=============================================================================
