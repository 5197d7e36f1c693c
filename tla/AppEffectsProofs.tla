-------------------------- MODULE AppEffectsProofs --------------------------
(***************************************************************************)
(* The safety properties of AppEffects, for any number of entities,        *)
(* subscribers, deferred callbacks, nested updates and panics.             *)
(*                                                                         *)
(* UsableInv follows the call stack: what pending_updates, the flag and    *)
(* the phase are, depending on what is on top.  SetInv says that the set   *)
(* of subscribers and the locals of retain are well-formed and disagree in *)
(* nothing; KeptInv, OwedInv and GoneInv add what happens to a subscriber  *)
(* that lives, one that is owed a call, and one that was dropped.  FlowInv  *)
(* says of the two queues of effects where a flush may be for an effect to *)
(* be carried, and that the first drain of a frame finds nothing that the  *)
(* frame itself deferred from a body or an exit.                           *)
(***************************************************************************)
EXTENDS AppEffects, SequenceTheorems, WellFoundedInduction, TLAPS

\* What the counter, the flag, the phase and `carry' are, by what is on top of
\* the stack: needed because an abort may cut the stack at any depth.
UsableInv ==
  /\ pendingUpdates \in Nat
  /\ at \in {"rest", "body", "drain", "pass", "callback", "deferred", "phase"}
  /\ at = "rest" => pendingUpdates = 0 /\ ~flushing
  /\ at = "body" => pendingUpdates > 0 /\ ~flushing
  /\ at \notin {"rest", "body"} => flushing
  /\ at \in {"rest", "body"} \/ scope = "Legacy" => phase = "Idle"
  /\ at \in {"rest", "body", "phase"} => carry = <<>>
  /\ at = "phase" => scope = "Phase" /\ phase # "Idle"
  /\ at \in {"drain", "pass"} => pendingUpdates = Base
  /\ at \in {"callback", "deferred", "phase"} => pendingUpdates >= Base

-----------------------------------------------------------------------------
(* The call stack.                                                         *)

LEMMA UsableInit == Init => UsableInv
  BY DEF Init, UsableInv

LEMMA UsableStep ==
  ASSUME "idle" \notin PanicIn
  PROVE  UsableInv /\ [Next]_vars => UsableInv'
<1> SUFFICES ASSUME UsableInv, [Next]_vars
             PROVE  UsableInv'
  OBVIOUS
<1> USE DEF UsableInv, Base, UserCode
<1>1. ASSUME Callbacks PROVE UsableInv'
  BY <1>1 DEF Callbacks, Observe, NotifyObservers, PushNotify, DropEntity,
              DropSubscription, DeferTo, stack
<1>2. CASE StartUpdate
  BY <1>2 DEF StartUpdate
<1>3. CASE FinishUpdate
  BY <1>3 DEF FinishUpdate
<1>4. CASE RunFrame
  <2>1. phase' = "PreFrame"
    BY <1>4 DEF RunFrame, FramePhases
  <2> QED BY <1>4, <2>1 DEF RunFrame
<1>5. CASE Drain
  BY <1>5 DEF Drain, CarryEffect, ApplyDefer, ApplyNotify
<1>6. CASE Pass
  BY <1>6 DEF Pass, SkipInert, SkipReleased, CallObserver, EndPass, app
<1>7. CASE Returns
  BY <1>7 DEF Returns, ObserverReturns, DeferReturns, EndPhaseBody, app
<1>8. CASE Ends
  <2>1. CASE UpdateEnds
    BY <2>1 DEF UpdateEnds, FlushEnds
  <2>2. CASE EnterPhase
    BY <2>2 DEF EnterPhase, FlushEnds
  <2>3. CASE LeavePhase
    BY <2>3 DEF LeavePhase, FlushEnds
  <2>4. CASE FrameEnds
    BY <2>4 DEF FrameEnds, FlushEnds
  <2> QED BY <1>8, <2>1, <2>2, <2>3, <2>4 DEF Ends
<1>9. CASE Abort
  <2>1. CASE AbortUpdate
    BY <2>1 DEF AbortUpdate, Panicking, Entered, Unwind
  <2>2. CASE AbortFrame
    BY <2>2 DEF AbortFrame, Panicking, Entered, Unwind
  <2>3. ~AbortIdle
    BY DEF AbortIdle, Panicking
  <2> QED BY <1>9, <2>1, <2>2, <2>3 DEF Abort
<1>10. CASE UNCHANGED vars
  BY <1>10 DEF vars, stack
<1> QED BY <1>1, <1>2, <1>3, <1>4, <1>5, <1>6, <1>7, <1>8, <1>9, <1>10 DEF Next

\* abort_update_after_panic and abort_frame_after_panic restore whatever an
\* update, a flush or a frame had set up, at any depth of nesting.  The Idle
\* drain is excepted: run_frame does not guard it.
THEOREM AppStaysUsable ==
  ASSUME "idle" \notin PanicIn
  PROVE  Spec => []AppIsUsable
<1>1. UsableInv => AppIsUsable
  BY DEF UsableInv, AppIsUsable
<1> QED BY <1>1, UsableInit, UsableStep, PTL DEF Spec

-----------------------------------------------------------------------------
(* The operations of SubscriberSet.                                        *)

SetType ==
  [entry : [Emitters -> Entries], dropped : SUBSET (Emitters \X Ids),
   keys : Seq(Emitters)]

\* Subscribers are kept under the emitter they subscribed to, and under a None
\* there are none.
WellFormed(set) ==
  /\ set \in SetType
  /\ Len(set.keys) <= MaxSubs
  /\ \A e \in Emitters : set.entry[e].kind # "here" => set.entry[e].ids = {}
  /\ \A e \in Emitters : \A i \in set.entry[e].ids :
       i \in Known(set) /\ set.keys[i] = e

\* What retain may hold of the subscribers of e.
TakenFrom(set, e, ids) ==
  ids \in SUBSET Ids /\ \A i \in ids : i \in Known(set) /\ set.keys[i] = e

Marked(set) == {d[2] : d \in set.dropped}

\* What it puts back.
Remaining(set, e, kept) == (kept \cup set.entry[e].ids) \ Marked(set)

\* insert adds a new subscriber and moves no other.
LEMMA InsertFacts ==
  ASSUME NEW set, WellFormed(set), NEW e \in Emitters, Len(set.keys) < MaxSubs,
         NEW t, t = Insert(set, e)
  PROVE  /\ WellFormed(t)
         /\ t.dropped = set.dropped
         /\ Len(set.keys) + 1 \in Ids
         /\ t.keys = Append(set.keys, e)
         /\ Known(t) = Known(set) \cup {Len(set.keys) + 1}
         /\ Len(set.keys) + 1 \notin Known(set)
         /\ \A f \in Emitters : \A i :
              i \in t.entry[f].ids <=>
                i \in set.entry[f].ids \/ (f = e /\ i = Len(set.keys) + 1)
<1> DEFINE n == Len(set.keys) + 1
<1>1. /\ set \in SetType /\ Len(set.keys) \in Nat /\ n \in Ids
      /\ set.keys \in Seq(Emitters) /\ set.entry \in [Emitters -> Entries]
  BY MaxSubsAssumption DEF WellFormed, SetType, Ids
<1>2. /\ t.dropped = set.dropped
      /\ t.keys = Append(set.keys, e)
      /\ t.entry = [set.entry EXCEPT ![e] = Here(set.entry[e].ids \cup {n})]
      /\ t = [entry |-> t.entry, dropped |-> t.dropped, keys |-> t.keys]
  BY <1>1 DEF Insert, SetType
<1>3. /\ t.keys \in Seq(Emitters) /\ Len(t.keys) = n /\ t.keys[n] = e
      /\ \A i \in Known(set) : t.keys[i] = set.keys[i]
      /\ Known(t) = Known(set) \cup {n} /\ n \notin Known(set)
  BY <1>1, <1>2 DEF Known
<1>4. \A f \in Emitters :
        t.entry[f] = IF f = e THEN Here(set.entry[e].ids \cup {n}) ELSE set.entry[f]
  BY <1>1, <1>2
<1>5. set.entry[e].ids \in SUBSET Ids
  BY <1>1 DEF Entries
<1>6. t.entry \in [Emitters -> Entries]
  BY <1>1, <1>2, <1>5 DEF Entries, Here
<1>7. \A f \in Emitters :
        t.entry[f].ids = IF f = e THEN set.entry[e].ids \cup {n} ELSE set.entry[f].ids
  <2> DEFINE more == set.entry[e].ids \cup {n}
  <2>1. Here(more).ids = more
    BY DEF Here
  <2> QED BY <1>4, <2>1, Zenon
<1>8. WellFormed(t)
  <2>1. Len(t.keys) <= MaxSubs
    BY <1>1, <1>3, MaxSubsAssumption
  <2>2. t.dropped \in SUBSET (Emitters \X Ids)
    BY <1>1, <1>2 DEF SetType
  <2>3. t \in SetType
    <3>1. t.keys \in Seq(Emitters)
      BY <1>3
    <3> QED BY <1>2, <1>6, <2>2, <3>1 DEF SetType
  <2>4. \A f \in Emitters : t.entry[f].kind # "here" => t.entry[f].ids = {}
    <3> SUFFICES ASSUME NEW f \in Emitters, t.entry[f].kind # "here"
                 PROVE  t.entry[f].ids = {}
      OBVIOUS
    <3>1. f # e
      BY <1>4 DEF Here
    <3> QED BY <1>4, <3>1 DEF WellFormed
  <2>5. \A f \in Emitters : \A i \in t.entry[f].ids : i \in Known(t) /\ t.keys[i] = f
    BY <1>3, <1>7 DEF WellFormed
  <2> QED BY <2>1, <2>3, <2>4, <2>5 DEF WellFormed
<1>9. \A f \in Emitters : \A i :
        i \in t.entry[f].ids <=> i \in set.entry[f].ids \/ (f = e /\ i = n)
  BY <1>7
<1> QED BY <1>1, <1>2, <1>3, <1>8, <1>9

\* Dropping a Subscription takes its subscriber out, or marks it.
LEMMA UnsubscribeFacts ==
  ASSUME NEW set, WellFormed(set), NEW i \in Known(set),
         NEW t, t = Unsubscribe(set, i)
  PROVE  /\ WellFormed(t)
         /\ t.keys = set.keys
         /\ \A f \in Emitters : \A k :
              k \in t.entry[f].ids <=> k \in set.entry[f].ids /\ k # i
         /\ set.dropped \subseteq t.dropped
         /\ \A d \in t.dropped : d \in set.dropped \/ d[2] = i
         /\ set.entry[set.keys[i]].kind = "taken" => \E d \in t.dropped : d[2] = i
<1> DEFINE e == set.keys[i]
<1>1. /\ set \in SetType /\ Len(set.keys) \in Nat /\ e \in Emitters /\ i \in Ids
      /\ set.keys \in Seq(Emitters) /\ set.entry \in [Emitters -> Entries]
      /\ set.entry[e] \in Entries
  BY MaxSubsAssumption DEF WellFormed, SetType, Ids, Known
<1>2. \A f \in Emitters : f # e => i \notin set.entry[f].ids
  BY DEF WellFormed
<1>3. CASE set.entry[e].kind = "absent"
  BY <1>1, <1>2, <1>3 DEF WellFormed, Unsubscribe
<1>4. CASE set.entry[e].kind = "here"
  <2> DEFINE rest == set.entry[e].ids \ {i}
             new == IF rest = {} THEN Absent ELSE Here(rest)
  <2>1. /\ new \in Entries /\ new.ids = rest /\ (new.kind # "here" => rest = {})
    BY <1>1 DEF Entries, Absent, Here
  <2>2. /\ t.keys = set.keys /\ t.dropped = set.dropped
        /\ t.entry = [set.entry EXCEPT ![e] = new]
        /\ t = [entry |-> t.entry, dropped |-> t.dropped, keys |-> t.keys]
    BY <1>1, <1>4 DEF Unsubscribe, SetType
  <2>3. \A f \in Emitters : t.entry[f] = IF f = e THEN new ELSE set.entry[f]
    BY <1>1, <2>2
  <2>4. t \in SetType
    BY <1>1, <2>1, <2>2 DEF SetType
  <2> HIDE DEF new
  <2>5. \A f \in Emitters : t.entry[f].ids = set.entry[f].ids \ {i}
    BY <1>2, <2>1, <2>3
  <2>6. WellFormed(t)
    BY <2>1, <2>2, <2>3, <2>4, <2>5 DEF WellFormed, Known
  <2> QED BY <1>4, <2>2, <2>5, <2>6
<1>5. CASE set.entry[e].kind = "taken"
  <2>1. t = [set EXCEPT !.dropped = set.dropped \cup {<<e, i>>}]
    BY <1>5 DEF Unsubscribe
  <2>2. t \in SetType
    BY <1>1, <2>1 DEF SetType
  <2>3. /\ t.entry = set.entry /\ t.keys = set.keys
        /\ t.dropped = set.dropped \cup {<<e, i>>}
    BY <1>1, <2>1 DEF SetType
  <2>4. set.entry[e].ids = {}
    BY <1>1, <1>5 DEF WellFormed
  <2>5. <<e, i>> \in t.dropped /\ <<e, i>>[2] = i
    BY <2>3
  <2>6. WellFormed(t)
    BY <2>2, <2>3 DEF WellFormed, Known
  <2>7. \A f \in Emitters : \A k : k \in t.entry[f].ids <=> k \in set.entry[f].ids /\ k # i
    BY <1>2, <2>3, <2>4
  <2>8. set.dropped \subseteq t.dropped /\ \A d \in t.dropped : d \in set.dropped \/ d[2] = i
    BY <2>3
  <2> QED BY <2>3, <2>5, <2>6, <2>7, <2>8
<1> QED BY <1>1, <1>3, <1>4, <1>5 DEF Entries

\* remove forgets the subscribers of the emitters in E, and nothing else.
LEMMA RemoveAllFacts ==
  ASSUME NEW set, WellFormed(set), NEW E, NEW t, t = RemoveAll(set, E)
  PROVE  /\ WellFormed(t)
         /\ t.keys = set.keys /\ t.dropped = set.dropped
         /\ \A f \in Emitters :
              t.entry[f].ids = IF f \in E THEN {} ELSE set.entry[f].ids
<1>1. set \in SetType /\ set.entry \in [Emitters -> Entries]
  BY DEF WellFormed, SetType
<1>2. /\ t.keys = set.keys /\ t.dropped = set.dropped
      /\ t.entry = [f \in Emitters |-> IF f \in E THEN Absent ELSE set.entry[f]]
      /\ t = [entry |-> t.entry, dropped |-> t.dropped, keys |-> t.keys]
  BY <1>1 DEF RemoveAll, SetType
<1>3. Absent \in Entries
  BY DEF Absent, Entries
<1>4. t \in SetType
  BY <1>1, <1>2, <1>3 DEF SetType
<1> QED BY <1>1, <1>2, <1>4 DEF WellFormed, Known, Absent

\* retain takes all the subscribers of one emitter.
LEMMA TakeFacts ==
  ASSUME NEW set, WellFormed(set), NEW e \in Emitters, NEW t, t = Take(set, e)
  PROVE  /\ WellFormed(t)
         /\ t.keys = set.keys /\ t.dropped = set.dropped
         /\ \A f \in Emitters :
              t.entry[f].ids = IF f = e THEN {} ELSE set.entry[f].ids
<1>1. set \in SetType /\ set.entry \in [Emitters -> Entries]
  BY DEF WellFormed, SetType
<1>2. /\ t.keys = set.keys /\ t.dropped = set.dropped
      /\ t.entry = [set.entry EXCEPT ![e] = Taken]
      /\ t = [entry |-> t.entry, dropped |-> t.dropped, keys |-> t.keys]
  BY <1>1 DEF Take, SetType
<1>3. Taken \in Entries
  BY DEF Taken, Entries
<1>4. t \in SetType
  BY <1>1, <1>2, <1>3 DEF SetType
<1>5. \A f \in Emitters : t.entry[f] = IF f = e THEN Taken ELSE set.entry[f]
  BY <1>1, <1>2
<1> QED BY <1>1, <1>2, <1>4, <1>5 DEF WellFormed, Known, Taken

\* retain puts back what it kept beside what came meanwhile, less the marked.
LEMMA PutBackFacts ==
  ASSUME NEW set, WellFormed(set), NEW e \in Emitters,
         NEW kept, TakenFrom(set, e, kept), NEW t, t = PutBack(set, e, kept)
  PROVE  /\ WellFormed(t)
         /\ t.keys = set.keys /\ t.dropped = {}
         /\ \A f \in Emitters :
              t.entry[f].ids =
                IF f = e THEN Remaining(set, e, kept) ELSE set.entry[f].ids
<1> DEFINE left == Remaining(set, e, kept)
           new == IF left = {} THEN Absent ELSE Here(left)
<1>1. /\ set \in SetType /\ set.entry \in [Emitters -> Entries]
      /\ set.entry[e].ids \in SUBSET Ids
  BY DEF WellFormed, SetType, Entries
<1>2. /\ t.keys = set.keys /\ t.dropped = {}
      /\ t.entry = [set.entry EXCEPT ![e] = new]
      /\ t = [entry |-> t.entry, dropped |-> t.dropped, keys |-> t.keys]
  BY <1>1 DEF PutBack, SetType, Marked, Remaining
<1>3. left \in SUBSET Ids
  BY <1>1 DEF TakenFrom, Remaining
<1> HIDE DEF left
<1>4. new \in Entries /\ new.ids = left /\ (new.kind # "here" => left = {})
  BY <1>3 DEF Entries, Absent, Here
<1> HIDE DEF new
<1>5. t \in SetType
  BY <1>1, <1>2, <1>4 DEF SetType
<1>6. \A f \in Emitters : t.entry[f] = IF f = e THEN new ELSE set.entry[f]
  BY <1>1, <1>2
<1>7. \A i \in left : i \in Known(set) /\ set.keys[i] = e
  BY DEF left, WellFormed, TakenFrom, Remaining
<1>8. WellFormed(t)
  BY <1>1, <1>2, <1>4, <1>5, <1>6, <1>7 DEF WellFormed, Known
<1> QED BY <1>2, <1>4, <1>6, <1>8 DEF left

-----------------------------------------------------------------------------
(* The next subscriber of a pass.                                          *)

LEMMA IdsAreNat == Ids \subseteq Nat /\ 0 \notin Ids
  BY MaxSubsAssumption DEF Ids

LEMMA LeastIn == ASSUME NEW S \in SUBSET Nat, S # {} PROVE Least(S) \in S
<1> DEFINE R == OpToRel(<, Nat)
<1>1. IsWellFoundedOn(R, Nat)
  BY NatLessThanWellFounded
<1>2. \A x, y \in Nat : <<x, y>> \in R <=> x < y
  BY DEF OpToRel
<1> HIDE DEF R
<1>3. \E x \in S : \A y \in S : ~(<<y, x>> \in R)
  BY <1>1, WFMin, Zenon
<1>4. \E x \in S : \A y \in S : x <= y
  <2>1. PICK x \in S : \A y \in S : ~(<<y, x>> \in R)
    BY <1>3
  <2>2. \A y \in S : x \in Nat /\ y \in Nat /\ ~(y < x)
    BY <1>2, <2>1
  <2> QED BY <2>2
<1> QED BY <1>4 DEF Least

-----------------------------------------------------------------------------
(* The invariants of the subscribers.                                      *)

\* Enough of TypeOK to know what a flush finds in the queue.
TypeInv ==
  /\ queue \in Seq(Effects) /\ carry \in Seq(Effects)
  /\ entity \in [Emitters -> {"alive", "dropped", "released"}]
  /\ at \in {"rest", "body", "drain", "pass", "callback", "deferred", "phase"}
  /\ at \notin {"rest", "body"} => flushing
  /\ pass \in [emitter : {pass.emitter}, todo : SUBSET Ids, kept : SUBSET Ids,
               now : Ids \cup {0}]
  /\ at = "callback" => pass.now \in Ids

\* The subscribers that retain holds on its stack.
Taking == pass.todo \cup pass.kept \cup ({pass.now} \ {0})

SetInv ==
  /\ WellFormed(observers)
  /\ InPass => pass.emitter \in Emitters
  /\ at # "callback" => pass.now = 0
  /\ ~InPass => Taking = {}
  /\ \A i \in Taking : i \in Known(observers) /\ observers.keys[i] = pass.emitter
  /\ held \subseteq Known(observers)
  /\ \A d \in observers.dropped : d[2] \in Known(observers) \ held

\* LiveSubscribersAreKept is inductive together with SetInv.
KeptInv == LiveSubscribersAreKept

\* Who is owed a call is active and held, of a live entity.
OwedInv ==
  /\ owed \subseteq (active \cap held) \ excused
  /\ \A i \in owed : entity[observers.keys[i]] = "alive"
  /\ OwedIsScheduled

\* Who was dropped is out of the set, or marked while a pass has it.
GoneInv ==
  \A i \in Known(observers) \ (held \cup missed) :
    /\ ~InSet(i)
    /\ i \in Taking => \E d \in observers.dropped : d[2] = i

-----------------------------------------------------------------------------
(* What the steps have in common.                                          *)

\* Nothing that concerns subscribers changes.
Quiet ==
  /\ UNCHANGED <<observers, active, held, entity, pending, pass, owed, excused, missed>>
  /\ InPass' = InPass /\ (at' = "callback") = (at = "callback")

\* The loop of a flush goes round, and what was dropped is released.
Releases ==
  /\ observers' = Released /\ ReleaseEntities
  /\ active \subseteq active'
  /\ UNCHANGED <<held, pending, pass, owed, excused, missed>>
  /\ ~InPass /\ ~InPass'

Panics ==
  /\ Unwind
  /\ UNCHANGED active
  /\ ~InPass'

LEMMA StepKinds ==
  ASSUME TypeInv, [Next]_vars
  PROVE  \/ Quiet \/ Releases \/ Panics
         \/ \E e \in Emitters : Observe(e) \/ PushNotify(e) \/ DropEntity(e)
         \/ \E i \in Ids : DropSubscription(i)
         \/ ApplyNotify \/ SkipInert \/ SkipReleased \/ CallObserver \/ EndPass
         \/ \E again \in BOOLEAN : ObserverReturns(again)
<1> USE DEF InPass, UserCode, TypeInv
<1>1. CASE Callbacks
  <2>1. ASSUME NEW p \in Placements, NEW j \in Jobs, DeferTo(p, j) PROVE Quiet
    BY <2>1 DEF DeferTo, Quiet, stack, history
  <2> QED BY <1>1, <2>1 DEF Callbacks, NotifyObservers
<1>2. CASE StartUpdate
  BY <1>2 DEF StartUpdate, Quiet, app, history
<1>3. CASE FinishUpdate
  BY <1>3 DEF FinishUpdate, Quiet, app, history
<1>4. CASE RunFrame
  BY <1>4 DEF RunFrame, Quiet, history
<1>5. CASE CarryEffect \/ ApplyDefer
  BY <1>5 DEF CarryEffect, ApplyDefer, Releases, history
<1>6. CASE Ends
  BY <1>6 DEF Ends, UpdateEnds, EnterPhase, LeavePhase, FrameEnds, FlushEnds,
              Releases, history
<1>7. CASE DeferReturns \/ EndPhaseBody
  BY <1>7 DEF DeferReturns, EndPhaseBody, Quiet, app, history
<1>8. CASE Abort
  BY <1>8 DEF Abort, AbortUpdate, AbortFrame, AbortIdle, Panics, Unwind
<1>9. CASE UNCHANGED vars
  BY <1>9 DEF vars, app, stack, history, Quiet
<1> QED BY <1>1, <1>2, <1>3, <1>4, <1>5, <1>6, <1>7, <1>8, <1>9
        DEF Next, Drain, Pass, Returns


-----------------------------------------------------------------------------
(* Types.                                                                  *)

LEMMA AgedType == ASSUME NEW q \in Seq(Effects) PROVE Aged(q) \in Seq(Effects)
<1>1. \A x \in Effects :
        x.kind = "Defer" => [x EXCEPT !.born = "earlier"] \in Effects
  BY DEF Effects, Origins
<1>2. Len(q) \in Nat /\ DOMAIN q = 1 .. Len(q) /\ \A n \in DOMAIN q : q[n] \in Effects
  OBVIOUS
<1>3. Aged(q) \in [1 .. Len(q) -> Effects]
  BY <1>1, <1>2 DEF Aged
<1> QED BY <1>2, <1>3, SeqDef

LEMMA TypeInit == Init => TypeInv
  BY EmptySeq DEF Init, TypeInv, NoPass

LEMMA TypeStep == TypeInv /\ SetInv /\ [Next]_vars => TypeInv'
<1> SUFFICES ASSUME TypeInv, SetInv, [Next]_vars
             PROVE  TypeInv'
  OBVIOUS
<1> USE DEF TypeInv
<1>1. CASE Callbacks
  <2>1. ASSUME NEW e \in Emitters, Observe(e) PROVE TypeInv'
    <3>1. Len(observers'.keys) \in Ids
      <4>1. /\ WellFormed(observers) /\ Len(observers.keys) < MaxSubs
            /\ observers' = Insert(observers, e)
        BY <2>1 DEF Observe, SetInv
      <4>2. observers.keys \in Seq(Emitters)
        BY <4>1 DEF WellFormed, SetType
      <4>3. observers'.keys = Append(observers.keys, e)
        BY <4>1, <4>2, InsertFacts
      <4> QED BY <4>1, <4>2, <4>3, MaxSubsAssumption DEF Ids
    <3>2. Activation(Len(observers'.keys)) \in Effects
      BY <3>1 DEF Activation, Defer, Effects, Placements, Origins
    <3> QED BY <2>1, <3>2 DEF Observe, stack
  <2>2. ASSUME NEW e \in Emitters, PushNotify(e) PROVE TypeInv'
    <3>1. Notify(e) \in Effects
      BY DEF Notify, Effects
    <3> QED BY <2>2, <3>1 DEF PushNotify, stack
  <2>3. ASSUME NEW e \in Emitters, DropEntity(e) PROVE TypeInv'
    BY <2>3 DEF DropEntity, stack
  <2>4. ASSUME NEW i \in Ids, DropSubscription(i) PROVE TypeInv'
    BY <2>4 DEF DropSubscription, stack
  <2>5. ASSUME NEW p \in Placements, NEW j \in Jobs, DeferTo(p, j) PROVE TypeInv'
    <3>1. Defer(p, j, Origin) \in Effects
      BY DEF Defer, Effects, Origin, Origins
    <3> QED BY <2>5, <3>1 DEF DeferTo, stack
  <2> QED BY <1>1, <2>1, <2>2, <2>3, <2>4, <2>5 DEF Callbacks, NotifyObservers
<1>2. CASE StartUpdate \/ FinishUpdate
  BY <1>2 DEF StartUpdate, FinishUpdate, UserCode, app
<1>3. CASE RunFrame
  BY <1>3, AgedType DEF RunFrame
<1>4. ReleaseEntities => entity' \in [Emitters -> {"alive", "dropped", "released"}]
  BY DEF ReleaseEntities
<1>5. CASE Drain
  <2>1. queue # <<>> => Head(queue) \in Effects /\ Tail(queue) \in Seq(Effects)
    OBVIOUS
  <2>2. CASE CarryEffect
    BY <1>4, <2>1, <2>2 DEF CarryEffect
  <2>3. CASE ApplyDefer
    BY <1>4, <2>1, <2>3 DEF ApplyDefer
  <2>4. CASE ApplyNotify
    <3> DEFINE e == Head(queue).emitter
    <3>1. e \in Emitters
      <4>1. queue # <<>> /\ Head(queue).kind = "Notify"
        BY <2>4 DEF ApplyNotify
      <4> QED BY <2>1, <4>1 DEF Effects
    <3>2. Released.entry[e].ids \in SUBSET Ids
      <4>1. WellFormed(Released)
        BY RemoveAllFacts DEF SetInv, Released
      <4> QED BY <3>1, <4>1 DEF WellFormed, SetType, Entries
    <3>3. pass' \in [emitter : {pass'.emitter}, todo : SUBSET Ids, kept : SUBSET Ids,
                     now : Ids \cup {0}]
      BY <2>4, <3>2 DEF ApplyNotify
    <3> QED BY <1>4, <2>1, <2>4, <3>3 DEF ApplyNotify
  <2> QED BY <1>5, <2>2, <2>3, <2>4 DEF Drain
<1>6. CASE Pass
  <2>1. pass.todo # {} => Due \in pass.todo
    BY LeastIn, IdsAreNat DEF Due
  <2>2. CASE SkipInert \/ SkipReleased
    <3>1. /\ UNCHANGED <<queue, carry, entity, at, flushing>>
          /\ Due \in Ids
      BY <2>1, <2>2 DEF SkipInert, SkipReleased, app
    <3>2. pass' \in [emitter : {pass'.emitter}, todo : SUBSET Ids, kept : SUBSET Ids,
                     now : Ids \cup {0}]
      <4>1. CASE SkipInert
        BY <3>1, <4>1 DEF SkipInert
      <4>2. CASE SkipReleased
        BY <3>1, <4>2 DEF SkipReleased
      <4> QED BY <2>2, <4>1, <4>2
    <3>3. at # "callback"
      BY <2>2 DEF SkipInert, SkipReleased
    <3> QED BY <3>1, <3>2, <3>3
  <2>3. CASE CallObserver
    BY <2>1, <2>3 DEF CallObserver, app
  <2>4. CASE EndPass
    BY <2>4 DEF EndPass, NoPass
  <2> QED BY <1>6, <2>2, <2>3, <2>4 DEF Pass
<1>7. CASE Returns
  <2>1. ASSUME NEW again \in BOOLEAN, ObserverReturns(again) PROVE TypeInv'
    BY <2>1 DEF ObserverReturns, app
  <2> QED BY <1>7, <2>1 DEF Returns, DeferReturns, EndPhaseBody, app
<1>8. CASE Ends
  <2>1. FlushEnds /\ UNCHANGED pass
    BY <1>8 DEF Ends, UpdateEnds, EnterPhase, LeavePhase, FrameEnds
  <2>2. queue' \in Seq(Effects) /\ carry' \in Seq(Effects)
    BY <2>1, EmptySeq DEF FlushEnds
  <2>3. /\ at' \in {"rest", "phase", "drain"}
        /\ at' # "rest" => flushing'
    BY <1>8 DEF Ends, UpdateEnds, EnterPhase, LeavePhase, FrameEnds, FlushEnds
  <2> QED BY <1>4, <2>1, <2>2, <2>3 DEF FlushEnds
<1>9. CASE Abort
  <2>1. Unwind
    BY <1>9 DEF Abort, AbortUpdate, AbortFrame, AbortIdle
  <2>2. queue' \in Seq(Effects)
    <3>1. CASE AbortFrame
      BY <3>1, AgedType DEF AbortFrame
    <3>2. CASE AbortUpdate \/ AbortIdle
      BY <3>2 DEF AbortUpdate, AbortIdle
    <3> QED BY <1>9, <3>1, <3>2 DEF Abort
  <2>3. at' = "rest" \/ (at' = "drain" /\ flushing')
    BY <1>9 DEF Abort, AbortUpdate, AbortFrame, AbortIdle
  <2>4. /\ carry' \in Seq(Effects) /\ UNCHANGED entity
        /\ pass' \in [emitter : {pass'.emitter}, todo : SUBSET Ids,
                       kept : SUBSET Ids, now : Ids \cup {0}]
    BY <2>1, EmptySeq DEF Unwind, NoPass
  <2> QED BY <2>2, <2>3, <2>4
<1>10. CASE UNCHANGED vars
  BY <1>10 DEF vars, app, stack
<1> QED BY <1>1, <1>2, <1>3, <1>5, <1>6, <1>7, <1>8, <1>9, <1>10 DEF Next


-----------------------------------------------------------------------------
(* What the steps do to the set and to the locals of retain.               *)

LEMMA ReleasesFacts ==
  ASSUME TypeInv, SetInv, observers' = Released
  PROVE  /\ WellFormed(observers')
         /\ UNCHANGED <<observers.keys, observers.dropped>>
         /\ \A f \in Emitters :
              observers'.entry[f].ids = IF f \in Dropped THEN {} ELSE observers.entry[f].ids
  BY RemoveAllFacts DEF SetInv, Released

\* After the guard of retain, what was under the key is on its stack.
LEMMA ApplyNotifyFacts ==
  ASSUME TypeInv, SetInv, ApplyNotify, NEW e, e = Head(queue).emitter
  PROVE  /\ e \in Emitters /\ ~InPass
         /\ WellFormed(observers')
         /\ UNCHANGED <<observers.keys, observers.dropped, active, held, owed,
                        excused, missed>>
         /\ \A f \in Emitters :
              observers'.entry[f].ids = IF f = e \/ f \in Dropped THEN {}
                                        ELSE observers.entry[f].ids
         /\ ReleaseEntities /\ pending' = pending \ {e}
         /\ pass'.todo = IF e \in Dropped THEN {} ELSE observers.entry[e].ids
         /\ pass'.kept = {} /\ pass'.now = 0 /\ at' # "callback"
         /\ InPass' => pass'.emitter = e
         /\ pass'.todo # {} => InPass'
<1>1. e \in Emitters
  <2>1. queue # <<>> /\ Head(queue).kind = "Notify"
    BY DEF ApplyNotify
  <2>2. Head(queue) \in Effects
    BY <2>1 DEF TypeInv
  <2> QED BY <2>1, <2>2 DEF Effects
<1>2. /\ WellFormed(Released)
      /\ Released.keys = observers.keys /\ Released.dropped = observers.dropped
      /\ \A f \in Emitters :
           Released.entry[f].ids = IF f \in Dropped THEN {} ELSE observers.entry[f].ids
  BY RemoveAllFacts DEF SetInv, Released
<1>3. /\ ~InPass /\ at = "drain" /\ ReleaseEntities /\ pending' = pending \ {e}
      /\ UNCHANGED <<active, held, owed, excused, missed>>
  BY DEF ApplyNotify, InPass, history
<1>4. CASE Released.entry[e].kind = "here"
  <2>1. /\ observers' = Take(Released, e) /\ at' = "pass"
        /\ pass' = [emitter |-> e, todo |-> Released.entry[e].ids, kept |-> {}, now |-> 0]
    BY <1>4 DEF ApplyNotify
  <2>2. /\ WellFormed(observers')
        /\ observers'.keys = Released.keys /\ observers'.dropped = Released.dropped
        /\ \A f \in Emitters :
             observers'.entry[f].ids = IF f = e THEN {} ELSE Released.entry[f].ids
    BY <1>1, <1>2, <2>1, TakeFacts
  <2> QED BY <1>1, <1>2, <1>3, <2>1, <2>2 DEF InPass
<1>5. CASE Released.entry[e].kind # "here"
  <2>1. observers' = Released /\ pass' = pass /\ at' = "drain"
    BY <1>3, <1>5 DEF ApplyNotify
  <2>2. Released.entry[e].ids = {}
    BY <1>1, <1>2, <1>5 DEF WellFormed
  <2>3. pass.todo = {} /\ pass.kept = {} /\ pass.now = 0
    BY <1>3 DEF SetInv, Taking
  <2> QED BY <1>1, <1>2, <1>3, <2>1, <2>2, <2>3 DEF InPass
<1> QED BY <1>4, <1>5

\* A pass puts back whom it kept and who came meanwhile, less the marked ones.
LEMMA EndPassFacts ==
  ASSUME TypeInv, SetInv, EndPass, NEW e, e = pass.emitter
  PROVE  /\ e \in Emitters /\ ~InPass' /\ at' # "callback"
         /\ WellFormed(observers')
         /\ UNCHANGED <<observers.keys, active, held, entity, pending, owed,
                        excused, missed>>
         /\ observers'.dropped = {}
         /\ Taking = pass.kept /\ Taking' = {} /\ pass'.now = 0
         /\ \A f \in Emitters :
              observers'.entry[f].ids =
                IF f = e THEN Remaining(observers, e, Taking) ELSE observers.entry[f].ids
<1>1. /\ at = "pass" /\ at' = "drain" /\ pass' = NoPass
      /\ observers' = PutBack(observers, e, pass.kept)
      /\ UNCHANGED <<active, held, entity, pending, owed, excused, missed>>
  BY DEF EndPass, history
<1>2. e \in Emitters /\ Taking = pass.kept /\ pass.kept \in SUBSET Ids
  BY DEF EndPass, SetInv, TypeInv, InPass, Taking
<1>3. TakenFrom(observers, e, pass.kept)
  BY <1>2 DEF SetInv, TakenFrom
<1>4. /\ WellFormed(observers')
      /\ observers'.keys = observers.keys /\ observers'.dropped = {}
      /\ \A f \in Emitters :
           observers'.entry[f].ids =
             IF f = e THEN Remaining(observers, e, pass.kept) ELSE observers.entry[f].ids
  <2>1. WellFormed(observers)
    BY DEF SetInv
  <2>2. observers' = PutBack(observers, e, pass.kept)
    BY <1>1
  <2> QED BY <1>2, <1>3, <2>1, <2>2, PutBackFacts
<1>5. Taking' = {} /\ pass'.now = 0 /\ ~InPass' /\ at' # "callback"
  BY <1>1 DEF NoPass, Taking, InPass
<1> QED BY <1>1, <1>2, <1>4, <1>5

\* The steps of a pass move the due subscriber, or let it go.
LEMMA PassFacts ==
  ASSUME TypeInv, SetInv, SkipInert \/ SkipReleased \/ CallObserver
  PROVE  /\ Due \in pass.todo /\ InPass /\ InPass'
         /\ UNCHANGED <<observers, active, held, entity, pending, missed, pass.emitter>>
         /\ pass'.todo = pass.todo \ {Due}
         /\ Taking' \subseteq Taking /\ Taking \subseteq Taking' \cup excused'
         /\ excused \subseteq excused'
         /\ at' # "callback" => pass'.now = 0
<1>1. /\ at = "pass" /\ pass.todo # {} /\ pass.now = 0 /\ pass.kept \in SUBSET Ids
      /\ pass.todo \in SUBSET Ids
      /\ pass \in [emitter : {pass.emitter}, todo : SUBSET Ids, kept : SUBSET Ids,
                   now : Ids \cup {0}]
  BY DEF SkipInert, SkipReleased, CallObserver, TypeInv, SetInv
<1>2. Due \in pass.todo /\ Due # 0
  BY <1>1, LeastIn, IdsAreNat DEF Due
<1>3. CASE SkipInert
  <2>1. /\ Due \notin active /\ at' = at
        /\ pass'.todo = pass.todo \ {Due} /\ pass'.kept = pass.kept \cup {Due}
        /\ pass'.now = 0 /\ pass'.emitter = pass.emitter
    BY <1>1, <1>3 DEF SkipInert
  <2> QED BY <1>1, <1>2, <1>3, <2>1 DEF SkipInert, app, history, InPass, Taking
<1>4. CASE SkipReleased
  <2>1. /\ Due \in active /\ entity[pass.emitter] # "alive" /\ at' = at
        /\ pass'.todo = pass.todo \ {Due} /\ pass'.kept = pass.kept
        /\ pass'.now = 0 /\ pass'.emitter = pass.emitter
    BY <1>1, <1>4 DEF SkipReleased
  <2>2. excused' = excused \cup {Due} /\ UNCHANGED <<app, missed>>
    BY <1>4 DEF SkipReleased
  <2> QED BY <1>1, <1>2, <2>1, <2>2 DEF app, InPass, Taking
<1>5. CASE CallObserver
  <2>1. /\ Due \in active /\ entity[pass.emitter] = "alive" /\ at' = "callback"
        /\ pass'.todo = pass.todo \ {Due} /\ pass'.kept = pass.kept
        /\ pass'.now = Due /\ pass'.emitter = pass.emitter
    BY <1>1, <1>5 DEF CallObserver
  <2> QED BY <1>1, <1>2, <1>5, <2>1 DEF CallObserver, app, InPass, Taking
<1> QED BY <1>3, <1>4, <1>5


LEMMA ReturnFacts ==
  ASSUME TypeInv, SetInv, NEW again, ObserverReturns(again)
  PROVE  /\ InPass /\ InPass' /\ at' # "callback" /\ pass'.now = 0
         /\ UNCHANGED <<observers, active, held, entity, pending, missed,
                        pass.emitter, pass.todo>>
         /\ Taking' \subseteq Taking /\ Taking \subseteq Taking' \cup excused'
         /\ excused \subseteq excused'
<1>1. /\ at = "callback" /\ at' = "pass" /\ pass.now \in Ids /\ pass.now # 0
      /\ pass \in [emitter : {pass.emitter}, todo : SUBSET Ids, kept : SUBSET Ids,
                   now : Ids \cup {0}]
      /\ UNCHANGED <<observers, active, held, entity, pending, missed>>
  BY IdsAreNat DEF ObserverReturns, TypeInv, app
<1>2. CASE again
  <2>1. /\ pass'.emitter = pass.emitter /\ pass'.todo = pass.todo
        /\ pass'.kept = pass.kept \cup {pass.now} /\ pass'.now = 0
        /\ excused' = excused
    BY <1>1, <1>2 DEF ObserverReturns
  <2> QED BY <1>1, <2>1 DEF InPass, Taking
<1>3. CASE ~again
  <2>1. /\ pass'.emitter = pass.emitter /\ pass'.todo = pass.todo
        /\ pass'.kept = pass.kept /\ pass'.now = 0
        /\ excused' = excused \cup {pass.now}
    BY <1>1, <1>3 DEF ObserverReturns
  <2> QED BY <1>1, <2>1 DEF InPass, Taking
<1> QED BY <1>2, <1>3

LEMMA PanicFacts ==
  ASSUME TypeInv, SetInv, Panics
  PROVE  /\ ~InPass' /\ at' # "callback" /\ Taking' = {} /\ pass'.now = 0
         /\ UNCHANGED <<observers, active, held, entity, pending, missed>>
         /\ excused' = excused \cup Taking /\ owed' = owed \ Taking
  BY DEF Panics, Unwind, Taking, NoPass, InPass

-----------------------------------------------------------------------------
(* The set is well-formed, and agrees with the locals of retain.           *)

LEMMA SetInit == Init => SetInv
<1> SUFFICES ASSUME Init PROVE SetInv
  OBVIOUS
<1>1. /\ observers = EmptySet /\ held = {} /\ at = "rest" /\ pass = NoPass
  BY DEF Init
<1>2. EmptySet \in SetType /\ Len(EmptySet.keys) = 0
  BY EmptySeq DEF EmptySet, SetType, Entries, Absent
<1>3. WellFormed(EmptySet)
  BY <1>2, MaxSubsAssumption DEF WellFormed, EmptySet, Absent
<1>4. Taking = {} /\ pass.now = 0
  BY <1>1 DEF Taking, NoPass
<1>5. observers.dropped = {}
  BY <1>1 DEF EmptySet
<1> QED BY <1>1, <1>3, <1>4, <1>5 DEF SetInv, InPass

LEMMA SetStep == TypeInv /\ SetInv /\ [Next]_vars => SetInv'
<1> SUFFICES ASSUME TypeInv, SetInv, [Next]_vars
             PROVE  SetInv'
  OBVIOUS
<1>1. /\ WellFormed(observers) /\ observers.keys \in Seq(Emitters)
      /\ Len(observers.keys) \in Nat /\ held \subseteq Known(observers)
      /\ \A d \in observers.dropped : d[2] \in Known(observers) \ held
      /\ \A i \in Taking : i \in Known(observers) /\ observers.keys[i] = pass.emitter
  BY DEF SetInv, WellFormed, SetType
<1>2. ASSUME Quiet PROVE SetInv'
  BY <1>2 DEF SetInv, Quiet, Taking, Known
<1>3. ASSUME Releases PROVE SetInv'
  <2>1. /\ WellFormed(observers') /\ UNCHANGED <<observers.keys, observers.dropped>>
    BY <1>3, ReleasesFacts DEF Releases
  <2>2. ~InPass /\ ~InPass' /\ UNCHANGED <<held, pass>> /\ Taking' = Taking
    BY <1>3 DEF Releases, Taking
  <2> QED BY <1>1, <2>1, <2>2 DEF SetInv, InPass, Known
<1>4. ASSUME Panics PROVE SetInv'
  BY <1>4, <1>1, PanicFacts DEF SetInv, Known
<1>5. ASSUME NEW e \in Emitters, Observe(e) PROVE SetInv'
  <2> DEFINE n == Len(observers.keys) + 1
  <2>1. /\ observers' = Insert(observers, e) /\ n \in Nat
        /\ Len(observers.keys) < MaxSubs
        /\ UNCHANGED <<pass, at>>
    BY <1>1, <1>5 DEF Observe, stack
  <2>2. /\ WellFormed(observers') /\ observers'.dropped = observers.dropped
        /\ observers'.keys = Append(observers.keys, e)
        /\ Known(observers') = Known(observers) \cup {n}
        /\ n \notin Known(observers)
    BY <1>1, <2>1, InsertFacts
  <2>6. /\ \A i \in Known(observers) : observers'.keys[i] = observers.keys[i]
        /\ Len(observers'.keys) = n
    BY <1>1, <2>2 DEF Known
  <2>5. Known(observers)' = Known(observers')
    BY DEF Known
  <2>3. held' = held \cup {n}
    BY <1>5, <2>6 DEF Observe
  <2>4. Taking' = Taking /\ InPass' = InPass
    BY <2>1 DEF Taking, InPass
  <2> HIDE DEF n
  <2>7. WellFormed(observers')
    BY <2>2
  <2>8. /\ InPass' => pass'.emitter \in Emitters
        /\ at' # "callback" => pass'.now = 0
        /\ ~InPass' => Taking' = {}
    BY <2>1, <2>4 DEF SetInv
  <2>9. \A i \in Taking' : i \in Known(observers') /\ observers'.keys[i] = pass'.emitter
    <3> TAKE i \in Taking'
    <3>1. i \in Known(observers) /\ observers.keys[i] = pass.emitter
      BY <1>1, <2>4
    <3> QED BY <2>1, <2>2, <2>6, <3>1
  <2>10. held' \subseteq Known(observers')
    BY <1>1, <2>2, <2>3
  <2>11. \A d \in observers'.dropped : d[2] \in Known(observers') \ held'
    <3> TAKE d \in observers'.dropped
    <3>1. d[2] \in Known(observers) \ held
      BY <1>1, <2>2
    <3> QED BY <2>2, <2>3, <3>1
  <2> QED BY <2>7, <2>8, <2>9, <2>10, <2>11 DEF SetInv
<1>6. ASSUME NEW e \in Emitters, PushNotify(e) \/ DropEntity(e) PROVE SetInv'
  BY <1>6 DEF SetInv, PushNotify, DropEntity, stack, Taking, Known, InPass
<1>7. ASSUME NEW i \in Ids, DropSubscription(i) PROVE SetInv'
  <2>1. /\ observers' = Unsubscribe(observers, i) /\ held' = held \ {i}
        /\ i \in Known(observers) /\ UNCHANGED <<pass, at>>
    BY <1>1, <1>7 DEF DropSubscription, stack
  <2>2. /\ WellFormed(observers') /\ observers'.keys = observers.keys
        /\ \A d \in observers'.dropped : d \in observers.dropped \/ d[2] = i
    BY <1>1, <2>1, UnsubscribeFacts
  <2>3. Taking' = Taking /\ InPass' = InPass /\ Known(observers)' = Known(observers)
    BY <2>1, <2>2 DEF Taking, InPass, Known
  <2>4. \A d \in observers'.dropped : d[2] \in Known(observers) \ held'
    BY <1>1, <2>1, <2>2
  <2> QED BY <1>1, <2>1, <2>2, <2>3, <2>4 DEF SetInv
<1>8. ASSUME ApplyNotify PROVE SetInv'
  <2> DEFINE e == Head(queue).emitter
  <2>1. /\ e \in Emitters /\ WellFormed(observers')
        /\ UNCHANGED <<observers.keys, observers.dropped, held>>
        /\ pass'.todo \subseteq observers.entry[e].ids
        /\ Taking' = pass'.todo /\ pass'.now = 0 /\ at' # "callback"
        /\ InPass' => pass'.emitter = e
        /\ Taking' # {} => InPass'
    BY <1>8, ApplyNotifyFacts DEF Taking
  <2>2. Known(observers)' = Known(observers)
    BY <2>1 DEF Known
  <2>3. \A i \in Taking' : i \in Known(observers) /\ observers.keys[i] = e
    BY <1>1, <2>1 DEF WellFormed
  <2> HIDE DEF e
  <2> QED BY <1>1, <2>1, <2>2, <2>3 DEF SetInv
<1>9. ASSUME SkipInert \/ SkipReleased \/ CallObserver PROVE SetInv'
  BY <1>9, <1>1, PassFacts DEF SetInv, Known
<1>10. ASSUME EndPass PROVE SetInv'
  <2>1. /\ ~InPass' /\ at' # "callback" /\ WellFormed(observers')
        /\ UNCHANGED <<observers.keys, held>>
        /\ observers'.dropped = {} /\ Taking' = {} /\ pass'.now = 0
    BY <1>10, EndPassFacts
  <2> QED BY <1>1, <2>1 DEF SetInv, Known
<1>11. ASSUME NEW again, ObserverReturns(again) PROVE SetInv'
  BY <1>11, <1>1, ReturnFacts DEF SetInv, Known
<1> QED BY <1>2, <1>3, <1>4, <1>5, <1>6, <1>7, <1>8, <1>9, <1>10, <1>11, StepKinds


-----------------------------------------------------------------------------
(* A subscriber that lives is kept.                                        *)

LEMMA KeptInit == Init => KeptInv
  BY DEF Init, KeptInv, LiveSubscribersAreKept

LEMMA KeptStep == TypeInv /\ SetInv /\ KeptInv /\ [Next]_vars => KeptInv'
<1> SUFFICES ASSUME TypeInv, SetInv, KeptInv, [Next]_vars
             PROVE  KeptInv'
  OBVIOUS
<1> DEFINE Kept(i) == \/ entity[observers.keys[i]] # "alive"
                      \/ i \in observers.entry[observers.keys[i]].ids
                      \/ InPass /\ pass.emitter = observers.keys[i] /\ i \in Taking
<1>1. KeptInv <=> \A i \in held \ excused : Kept(i)
  <2>1. 0 \notin held
    BY DEF SetInv, Known
  <2> QED BY <2>1 DEF KeptInv, LiveSubscribersAreKept, Taking
<1>2. KeptInv' <=> \A i \in held' \ excused' : Kept(i)'
  <2>1. 0 \notin held'
    BY SetStep DEF SetInv, Known
  <2> QED BY <2>1 DEF KeptInv, LiveSubscribersAreKept, Taking
<1>3. /\ WellFormed(observers) /\ observers.keys \in Seq(Emitters)
      /\ Len(observers.keys) \in Nat /\ held \subseteq Known(observers)
      /\ \A i \in Known(observers) : observers.keys[i] \in Emitters
      /\ \A i \in Taking : observers.keys[i] = pass.emitter
      /\ ~InPass => Taking = {}
  BY DEF SetInv, WellFormed, SetType, Known
<1>4. ASSUME Quiet PROVE KeptInv'
  BY <1>1, <1>2, <1>4 DEF Quiet, Taking
<1>5. ASSUME Releases PROVE KeptInv'
  <2>1. /\ UNCHANGED <<observers.keys, held, excused>> /\ ~InPass
        /\ \A f \in Emitters :
             observers'.entry[f].ids = IF f \in Dropped THEN {} ELSE observers.entry[f].ids
        /\ \A f \in Emitters : entity'[f] = IF f \in Dropped THEN "released" ELSE entity[f]
    BY <1>5, ReleasesFacts DEF Releases, ReleaseEntities
  <2>2. ASSUME NEW i \in held' \ excused' PROVE Kept(i)'
    <3>1. Kept(i) /\ observers.keys[i] \in Emitters
      BY <1>1, <1>3, <2>1, <2>2
    <3> QED BY <2>1, <3>1
  <2> QED BY <1>2, <2>2
<1>6. ASSUME Panics PROVE KeptInv'
  <2>1. ASSUME NEW i \in held' \ excused' PROVE Kept(i)'
    BY <1>1, <1>6, <2>1, PanicFacts
  <2> QED BY <1>2, <2>1
<1>7. ASSUME NEW e \in Emitters, Observe(e) PROVE KeptInv'
  <2> DEFINE n == Len(observers.keys) + 1
  <2>1. /\ observers' = Insert(observers, e) /\ Len(observers.keys) < MaxSubs
        /\ UNCHANGED <<pass, at, entity, excused>>
    BY <1>7 DEF Observe, stack, history
  <2>2. /\ observers'.keys = Append(observers.keys, e)
        /\ \A f \in Emitters : \A i :
             i \in observers'.entry[f].ids <=>
               i \in observers.entry[f].ids \/ (f = e /\ i = n)
    BY <1>3, <2>1, InsertFacts
  <2>3. held' = held \cup {n} /\ observers'.keys[n] = e
    BY <1>3, <1>7, <2>2 DEF Observe
  <2>4. \A i \in Known(observers) : observers'.keys[i] = observers.keys[i]
    BY <1>3, <2>2 DEF Known
  <2>5. Taking' = Taking /\ InPass' = InPass
    BY <2>1 DEF Taking, InPass
  <2> HIDE DEF n
  <2>6. ASSUME NEW i \in held' \ excused' PROVE Kept(i)'
    <3>1. CASE i = n
      BY <2>2, <2>3, <3>1
    <3>2. CASE i \in held
      BY <1>1, <1>3, <2>1, <2>2, <2>4, <2>5, <2>6, <3>2
    <3> QED BY <2>3, <3>1, <3>2
  <2> QED BY <1>2, <2>6
<1>8. ASSUME NEW e \in Emitters, PushNotify(e) \/ DropEntity(e) PROVE KeptInv'
  <2>1. /\ UNCHANGED <<observers, held, excused, pass, at>>
        /\ \A f \in Emitters : entity[f] # "alive" => entity'[f] # "alive"
    BY <1>8 DEF PushNotify, DropEntity, stack, TypeInv
  <2>2. ASSUME NEW i \in held' \ excused' PROVE Kept(i)'
    <3>1. Kept(i) /\ observers.keys[i] \in Emitters
      BY <1>1, <1>3, <2>1, <2>2
    <3> QED BY <2>1, <3>1 DEF InPass, Taking
  <2> QED BY <1>2, <2>2
<1>9. ASSUME NEW k \in Ids, DropSubscription(k) PROVE KeptInv'
  <2>1. /\ observers' = Unsubscribe(observers, k) /\ held' = held \ {k}
        /\ k \in Known(observers) /\ UNCHANGED <<pass, at, entity, excused>>
    BY <1>3, <1>9 DEF DropSubscription, stack
  <2>2. /\ observers'.keys = observers.keys
        /\ \A f \in Emitters : \A i :
             i \in observers'.entry[f].ids <=> i \in observers.entry[f].ids /\ i # k
    BY <1>3, <2>1, UnsubscribeFacts
  <2>3. ASSUME NEW i \in held' \ excused' PROVE Kept(i)'
    <3>1. Kept(i) /\ observers.keys[i] \in Emitters /\ i # k
      BY <1>1, <1>3, <2>1, <2>3
    <3> QED BY <2>1, <2>2, <3>1 DEF InPass, Taking
  <2> QED BY <1>2, <2>3
<1>10. ASSUME ApplyNotify PROVE KeptInv'
  <2> DEFINE e == Head(queue).emitter
  <2>1. /\ e \in Emitters /\ ~InPass
        /\ UNCHANGED <<observers.keys, held, excused>>
        /\ \A f \in Emitters :
             observers'.entry[f].ids = IF f = e \/ f \in Dropped THEN {}
                                       ELSE observers.entry[f].ids
        /\ ReleaseEntities
        /\ pass'.todo = IF e \in Dropped THEN {} ELSE observers.entry[e].ids
        /\ InPass' => pass'.emitter = e
        /\ pass'.todo # {} => InPass'
    BY <1>10, ApplyNotifyFacts
  <2>2. \A f \in Emitters : entity'[f] = IF f \in Dropped THEN "released" ELSE entity[f]
    BY <2>1 DEF ReleaseEntities
  <2>3. pass'.todo \subseteq Taking'
    BY DEF Taking
  <2> HIDE DEF e
  <2>4. ASSUME NEW i \in held' \ excused' PROVE Kept(i)'
    <3>1. Kept(i) /\ observers.keys[i] \in Emitters
      BY <1>1, <1>3, <2>1, <2>4
    <3> QED BY <2>1, <2>2, <2>3, <3>1
  <2> QED BY <1>2, <2>4
<1>11. ASSUME SkipInert \/ SkipReleased \/ CallObserver PROVE KeptInv'
  <2>1. ASSUME NEW i \in held' \ excused' PROVE Kept(i)'
    <3>1. /\ UNCHANGED <<observers, held, entity, pass.emitter>> /\ InPass'
          /\ Taking \subseteq Taking' \cup excused' /\ excused \subseteq excused'
      BY <1>11, PassFacts
    <3> QED BY <1>1, <2>1, <3>1
  <2> QED BY <1>2, <2>1
<1>12. ASSUME EndPass PROVE KeptInv'
  <2> DEFINE e == pass.emitter
  <2>1. /\ UNCHANGED <<observers.keys, held, excused, entity>>
        /\ \A f \in Emitters :
             observers'.entry[f].ids =
               IF f = e THEN Remaining(observers, e, Taking) ELSE observers.entry[f].ids
    BY <1>12, EndPassFacts
  <2>2. ASSUME NEW i \in held' \ excused' PROVE Kept(i)'
    <3>1. Kept(i) /\ observers.keys[i] \in Emitters
      BY <1>1, <1>3, <2>1, <2>2
    <3>2. i \notin Marked(observers)
      BY <2>1, <2>2 DEF SetInv, Marked
    <3>3. observers.keys[i] = e /\ i \in Taking \cup observers.entry[e].ids
            => i \in Remaining(observers, e, Taking)
      BY <3>2 DEF Remaining
    <3> QED BY <2>1, <3>1, <3>3
  <2> QED BY <1>2, <2>2
<1>13. ASSUME NEW again, ObserverReturns(again) PROVE KeptInv'
  <2>1. ASSUME NEW i \in held' \ excused' PROVE Kept(i)'
    <3>1. /\ UNCHANGED <<observers, held, entity, pass.emitter>> /\ InPass'
          /\ Taking \subseteq Taking' \cup excused' /\ excused \subseteq excused'
      BY <1>13, ReturnFacts
    <3> QED BY <1>1, <2>1, <3>1
  <2> QED BY <1>2, <2>1
<1> QED BY <1>4, <1>5, <1>6, <1>7, <1>8, <1>9, <1>10, <1>11, <1>12, <1>13, StepKinds


-----------------------------------------------------------------------------
(* A notify that an observer is owed reaches it.                           *)

LEMMA OwedInit == Init => OwedInv
  BY DEF Init, OwedInv, OwedIsScheduled

LEMMA OwedStep == TypeInv /\ SetInv /\ KeptInv /\ OwedInv /\ [Next]_vars => OwedInv'
<1> SUFFICES ASSUME TypeInv, SetInv, KeptInv, OwedInv, [Next]_vars
             PROVE  OwedInv'
  OBVIOUS
<1> DEFINE Coming(i) == \/ observers.keys[i] \in pending
                        \/ InPass /\ pass.emitter = observers.keys[i] /\ i \in pass.todo
           Awaits(i) == /\ i \in (active \cap held) \ excused
                      /\ entity[observers.keys[i]] = "alive"
                      /\ Coming(i)
<1>1. /\ OwedInv <=> \A i \in owed : Awaits(i)
      /\ OwedInv' <=> \A i \in owed' : Awaits(i)'
  BY DEF OwedInv, OwedIsScheduled
<1>2. \A i \in owed : Awaits(i)
  BY <1>1
<1>3. /\ WellFormed(observers) /\ observers.keys \in Seq(Emitters)
      /\ Len(observers.keys) \in Nat /\ held \subseteq Known(observers)
      /\ \A i \in held : observers.keys[i] \in Emitters /\ i # 0
      /\ InPass => \A i \in Taking : observers.keys[i] = pass.emitter
  BY DEF SetInv, WellFormed, SetType, Known
<1>4. ASSUME Quiet PROVE OwedInv'
  BY <1>1, <1>4 DEF Quiet
<1>5. ASSUME Releases PROVE OwedInv'
  <2>1. /\ UNCHANGED <<observers.keys, held, excused, owed, pending>> /\ ~InPass
        /\ active \subseteq active'
        /\ \A f \in Emitters : entity'[f] = IF f \in Dropped THEN "released" ELSE entity[f]
    BY <1>5, ReleasesFacts DEF Releases, ReleaseEntities
  <2>2. ASSUME NEW i \in owed' PROVE Awaits(i)'
    <3>1. Awaits(i) /\ observers.keys[i] \in Emitters
      BY <1>2, <1>3, <2>1, <2>2
    <3> QED BY <2>1, <3>1 DEF Dropped
  <2> QED BY <1>1, <2>2
<1>6. ASSUME Panics PROVE OwedInv'
  <2>1. /\ UNCHANGED <<observers, active, held, entity, pending>>
        /\ excused' = excused \cup Taking /\ owed' = owed \ Taking
    BY <1>6, PanicFacts
  <2>2. ASSUME NEW i \in owed' PROVE Awaits(i)'
    <3>1. Awaits(i) /\ i \notin Taking
      BY <1>2, <2>1, <2>2
    <3> QED BY <2>1, <3>1 DEF Taking
  <2> QED BY <1>1, <2>2
<1>7. ASSUME NEW e \in Emitters, Observe(e) PROVE OwedInv'
  <2>1. /\ observers' = Insert(observers, e) /\ Len(observers.keys) < MaxSubs
        /\ UNCHANGED <<pass, at, active, entity, excused, pending, owed>>
        /\ held \subseteq held'
    BY <1>7 DEF Observe, stack, history
  <2>2. observers'.keys = Append(observers.keys, e)
    BY <1>3, <2>1, InsertFacts
  <2>3. \A i \in Known(observers) : observers'.keys[i] = observers.keys[i]
    BY <1>3, <2>2 DEF Known
  <2>4. ASSUME NEW i \in owed' PROVE Awaits(i)'
    BY <1>2, <1>3, <2>1, <2>3, <2>4 DEF InPass
  <2> QED BY <1>1, <2>4
<1>8. ASSUME NEW e \in Emitters, PushNotify(e) PROVE OwedInv'
  <2>1. /\ UNCHANGED <<observers, active, held, entity, excused, pass, at>>
        /\ entity[e] = "alive" /\ pending' = pending \cup {e}
        /\ owed' = owed \cup {i \in (active \cap held) \ excused : observers.keys[i] = e}
    BY <1>8 DEF PushNotify, stack
  <2>2. ASSUME NEW i \in owed' PROVE Awaits(i)'
    <3>1. CASE i \in owed
      BY <1>2, <2>1, <3>1 DEF InPass
    <3>2. CASE i \in (active \cap held) \ excused /\ observers.keys[i] = e
      BY <2>1, <3>2
    <3> QED BY <2>1, <2>2, <3>1, <3>2
  <2> QED BY <1>1, <2>2
<1>9. ASSUME NEW e \in Emitters, DropEntity(e) PROVE OwedInv'
  <2>1. /\ UNCHANGED <<observers, active, held, excused, pending, pass, at>>
        /\ entity' = [entity EXCEPT ![e] = "dropped"]
        /\ owed' = {i \in owed : observers.keys[i] # e}
    BY <1>9 DEF DropEntity, stack
  <2>2. ASSUME NEW i \in owed' PROVE Awaits(i)'
    <3>1. Awaits(i) /\ observers.keys[i] # e
      BY <1>2, <2>1, <2>2
    <3>2. entity'[observers.keys[i]] = entity[observers.keys[i]]
      BY <2>1, <3>1, <1>3 DEF TypeInv
    <3> QED BY <2>1, <3>1, <3>2 DEF InPass
  <2> QED BY <1>1, <2>2
<1>10. ASSUME NEW k \in Ids, DropSubscription(k) PROVE OwedInv'
  <2>1. /\ observers' = Unsubscribe(observers, k) /\ held' = held \ {k}
        /\ k \in Known(observers) /\ owed' = owed \ {k}
        /\ UNCHANGED <<pass, at, active, entity, excused, pending>>
    BY <1>3, <1>10 DEF DropSubscription, stack
  <2>2. observers'.keys = observers.keys
    BY <1>3, <2>1, UnsubscribeFacts
  <2>3. ASSUME NEW i \in owed' PROVE Awaits(i)'
    BY <1>2, <2>1, <2>2, <2>3 DEF InPass
  <2> QED BY <1>1, <2>3
<1>11. ASSUME ApplyNotify PROVE OwedInv'
  <2> DEFINE e == Head(queue).emitter
  <2>1. /\ e \in Emitters /\ ~InPass
        /\ UNCHANGED <<observers.keys, active, held, owed, excused>>
        /\ ReleaseEntities /\ pending' = pending \ {e}
        /\ pass'.todo = IF e \in Dropped THEN {} ELSE observers.entry[e].ids
        /\ InPass' => pass'.emitter = e
        /\ pass'.todo # {} => InPass'
    BY <1>11, ApplyNotifyFacts
  <2>2. \A f \in Emitters : entity'[f] = IF f \in Dropped THEN "released" ELSE entity[f]
    BY <2>1 DEF ReleaseEntities
  <2> HIDE DEF e
  <2>3. ASSUME NEW i \in owed' PROVE Awaits(i)'
    <3>1. Awaits(i) /\ observers.keys[i] \in Emitters /\ observers.keys[i] \notin Dropped
      BY <1>2, <1>3, <2>1, <2>3 DEF Dropped
    <3>2. i \in observers.entry[observers.keys[i]].ids
      BY <2>1, <3>1 DEF KeptInv, LiveSubscribersAreKept
    <3>3. CASE observers.keys[i] = e
      BY <2>1, <2>2, <3>1, <3>2, <3>3
    <3>4. CASE observers.keys[i] # e
      BY <2>1, <2>2, <3>1, <3>4
    <3> QED BY <3>3, <3>4
  <2> QED BY <1>1, <2>3
<1>12. ASSUME SkipInert \/ SkipReleased \/ CallObserver PROVE OwedInv'
  <2>1. /\ Due \in pass.todo /\ InPass /\ InPass'
        /\ UNCHANGED <<observers, active, held, entity, pending, pass.emitter>>
        /\ pass'.todo = pass.todo \ {Due}
    BY <1>12, PassFacts
  <2>2. observers.keys[Due] = pass.emitter
    BY <1>3, <2>1 DEF Taking
  <2>3. /\ owed' \subseteq owed /\ Due \notin owed'
        /\ excused' \subseteq excused \cup {Due}
    <3>1. CASE SkipInert
      BY <1>2, <3>1 DEF SkipInert, history
    <3>2. CASE SkipReleased
      BY <1>2, <2>2, <3>2 DEF SkipReleased
    <3>3. CASE CallObserver
      BY <3>3 DEF CallObserver
    <3> QED BY <1>12, <3>1, <3>2, <3>3
  <2>4. ASSUME NEW i \in owed' PROVE Awaits(i)'
    <3>1. Awaits(i) /\ i # Due
      BY <1>2, <2>3, <2>4
    <3> QED BY <2>1, <2>3, <3>1
  <2> QED BY <1>1, <2>4
<1>13. ASSUME EndPass PROVE OwedInv'
  <2>1. UNCHANGED <<observers.keys, active, held, entity, pending, owed, excused>>
    BY <1>13, EndPassFacts
  <2>2. pass.todo = {}
    BY <1>13 DEF EndPass
  <2>3. ASSUME NEW i \in owed' PROVE Awaits(i)'
    <3>1. Awaits(i) /\ observers.keys[i] \in pending
      BY <1>2, <2>1, <2>2, <2>3
    <3> QED BY <2>1, <3>1
  <2> QED BY <1>1, <2>3
<1>14. ASSUME NEW again, ObserverReturns(again) PROVE OwedInv'
  <2>1. /\ InPass /\ InPass'
        /\ UNCHANGED <<observers, active, held, entity, pending, pass.emitter, pass.todo>>
    BY <1>14, ReturnFacts
  <2>2. /\ owed' \subseteq owed
        /\ \A i \in excused' : i \in excused \/ i \notin owed'
    BY <1>14 DEF ObserverReturns
  <2>3. ASSUME NEW i \in owed' PROVE Awaits(i)'
    <3>1. Awaits(i) /\ i \notin excused'
      BY <1>2, <2>2, <2>3
    <3> QED BY <2>1, <3>1
  <2> QED BY <1>1, <2>3
<1> QED BY <1>4, <1>5, <1>6, <1>7, <1>8, <1>9, <1>10, <1>11, <1>12, <1>13, <1>14,
           StepKinds


-----------------------------------------------------------------------------
(* A subscriber that was dropped goes.                                     *)

LEMMA GoneInit == Init => GoneInv
  BY DEF Init, GoneInv, Known, EmptySet

LEMMA GoneStep == TypeInv /\ SetInv /\ GoneInv /\ [Next]_vars => GoneInv'
<1> SUFFICES ASSUME TypeInv, SetInv, GoneInv, [Next]_vars
             PROVE  GoneInv'
  OBVIOUS
<1> DEFINE Gone(i) ==
      /\ ~InSet(i)
      /\ i \in Taking => \E d \in observers.dropped : d[2] = i
<1>1. /\ \A i \in Known(observers) \ (held \cup missed) : Gone(i)
      /\ GoneInv' <=> \A i \in Known(observers)' \ (held' \cup missed') : Gone(i)'
  BY DEF GoneInv
<1>2. /\ WellFormed(observers) /\ observers.keys \in Seq(Emitters)
      /\ Len(observers.keys) \in Nat /\ held \subseteq Known(observers)
      /\ \A i \in Known(observers) : observers.keys[i] \in Emitters
      /\ \A i \in Taking : observers.keys[i] = pass.emitter
      /\ ~InPass => Taking = {}
  BY DEF SetInv, WellFormed, SetType, Known
<1>3. ASSUME Quiet PROVE GoneInv'
  BY <1>1, <1>3 DEF Quiet, Taking, Known, InSet
<1>4. ASSUME Releases PROVE GoneInv'
  <2>1. /\ UNCHANGED <<observers.keys, observers.dropped, held, missed, pass>>
        /\ \A f \in Emitters :
             observers'.entry[f].ids = IF f \in Dropped THEN {} ELSE observers.entry[f].ids
    BY <1>4, ReleasesFacts DEF Releases
  <2>2. ASSUME NEW i \in Known(observers)' \ (held' \cup missed') PROVE Gone(i)'
    <3>1. Gone(i) /\ observers.keys[i] \in Emitters
      BY <1>1, <1>2, <2>1, <2>2 DEF Known
    <3> QED BY <2>1, <3>1 DEF InSet, Taking
  <2> QED BY <1>1, <2>2
<1>5. ASSUME Panics PROVE GoneInv'
  <2>1. UNCHANGED <<observers, held, missed>> /\ Taking' = {}
    BY <1>5, PanicFacts
  <2> QED BY <1>1, <2>1 DEF InSet, Known
<1>6. ASSUME NEW e \in Emitters, Observe(e) PROVE GoneInv'
  <2> DEFINE n == Len(observers.keys) + 1
  <2>1. /\ observers' = Insert(observers, e) /\ Len(observers.keys) < MaxSubs
        /\ UNCHANGED <<pass, missed>>
    BY <1>6 DEF Observe, stack, history
  <2>2. /\ observers'.dropped = observers.dropped
        /\ observers'.keys = Append(observers.keys, e)
        /\ Known(observers') = Known(observers) \cup {n}
        /\ \A f \in Emitters : \A i :
             i \in observers'.entry[f].ids <=>
               i \in observers.entry[f].ids \/ (f = e /\ i = n)
    BY <1>2, <2>1, InsertFacts
  <2>3. held' = held \cup {n}
    BY <1>2, <1>6, <2>2 DEF Observe
  <2>4. \A i \in Known(observers) : observers'.keys[i] = observers.keys[i]
    BY <1>2, <2>2 DEF Known
  <2>5. Known(observers)' = Known(observers') /\ Taking' = Taking
    BY <2>1 DEF Known, Taking
  <2> HIDE DEF n
  <2>6. ASSUME NEW i \in Known(observers)' \ (held' \cup missed') PROVE Gone(i)'
    <3>1. Gone(i) /\ i \in Known(observers) /\ i # n
      BY <1>1, <2>1, <2>2, <2>3, <2>5, <2>6
    <3> QED BY <1>2, <2>2, <2>4, <2>5, <3>1 DEF InSet
  <2> QED BY <1>1, <2>6
<1>7. ASSUME NEW e \in Emitters, PushNotify(e) \/ DropEntity(e) PROVE GoneInv'
  BY <1>1, <1>7 DEF PushNotify, DropEntity, stack, InSet, Taking, Known
<1>8. ASSUME NEW k \in Ids, DropSubscription(k) PROVE GoneInv'
  <2> DEFINE e == observers.keys[k]
  <2>1. /\ observers' = Unsubscribe(observers, k) /\ held' = held \ {k}
        /\ k \in Known(observers) /\ UNCHANGED pass
        /\ missed \subseteq missed'
    BY <1>2, <1>8 DEF DropSubscription, stack
  <2>2. /\ observers'.keys = observers.keys
        /\ \A f \in Emitters : \A i :
             i \in observers'.entry[f].ids <=> i \in observers.entry[f].ids /\ i # k
        /\ observers.dropped \subseteq observers'.dropped
        /\ observers.entry[e].kind = "taken" => \E d \in observers'.dropped : d[2] = k
    BY <1>2, <2>1, UnsubscribeFacts
  <2>3. Taking' = Taking /\ Known(observers)' = Known(observers)
    BY <2>1, <2>2 DEF Taking, Known
  <2>4. ASSUME NEW i \in Known(observers)' \ (held' \cup missed') PROVE Gone(i)'
    <3>1. CASE i = k
      <4>1. InPass /\ pass.emitter = e => observers.entry[e].kind = "taken"
        BY <1>8, <2>4, <3>1 DEF DropSubscription
      <4>2. ~InSet(k)'
        BY <1>2, <2>1, <2>2 DEF InSet
      <4>3. k \in Taking => \E d \in observers'.dropped : d[2] = k
        BY <1>2, <2>2, <4>1
      <4> QED BY <2>3, <3>1, <4>2, <4>3
    <3>2. CASE i # k
      <4>1. Gone(i) /\ observers.keys[i] \in Emitters
        BY <1>1, <1>2, <2>1, <2>3, <2>4, <3>2
      <4> QED BY <2>2, <2>3, <4>1 DEF InSet
    <3> QED BY <3>1, <3>2
  <2> QED BY <1>1, <2>4
<1>9. ASSUME ApplyNotify PROVE GoneInv'
  <2> DEFINE e == Head(queue).emitter
  <2>1. /\ e \in Emitters
        /\ UNCHANGED <<observers.keys, held, missed>>
        /\ \A f \in Emitters :
             observers'.entry[f].ids = IF f = e \/ f \in Dropped THEN {}
                                       ELSE observers.entry[f].ids
        /\ pass'.todo = IF e \in Dropped THEN {} ELSE observers.entry[e].ids
        /\ pass'.kept = {} /\ pass'.now = 0
    BY <1>9, ApplyNotifyFacts
  <2>2. Taking' = pass'.todo /\ Known(observers)' = Known(observers)
    BY <2>1 DEF Taking, Known
  <2> HIDE DEF e
  <2>3. ASSUME NEW i \in Known(observers)' \ (held' \cup missed') PROVE Gone(i)'
    <3>1. Gone(i) /\ observers.keys[i] \in Emitters
      BY <1>1, <1>2, <2>1, <2>2, <2>3
    <3>2. ~InSet(i)'
      BY <2>1, <3>1 DEF InSet
    <3>3. i \notin Taking'
      BY <1>2, <2>1, <2>2, <3>1 DEF InSet, WellFormed
    <3> QED BY <3>2, <3>3
  <2> QED BY <1>1, <2>3
<1>10. ASSUME SkipInert \/ SkipReleased \/ CallObserver PROVE GoneInv'
  <2>1. UNCHANGED <<observers, held, missed>> /\ Taking' \subseteq Taking
    BY <1>10, PassFacts
  <2> QED BY <1>1, <2>1 DEF InSet, Known
<1>11. ASSUME EndPass PROVE GoneInv'
  <2> DEFINE e == pass.emitter
  <2>1. /\ UNCHANGED <<observers.keys, held, missed>> /\ Taking' = {} /\ e \in Emitters
        /\ \A f \in Emitters :
             observers'.entry[f].ids =
               IF f = e THEN Remaining(observers, e, Taking) ELSE observers.entry[f].ids
    BY <1>11, EndPassFacts
  <2>2. ASSUME NEW i \in Known(observers)' \ (held' \cup missed') PROVE Gone(i)'
    <3>1. Gone(i) /\ observers.keys[i] \in Emitters
      BY <1>1, <1>2, <2>1, <2>2 DEF Known
    <3>2. observers.keys[i] = e => i \notin Remaining(observers, e, Taking)
      BY <3>1 DEF InSet, Remaining, Marked
    <3> QED BY <2>1, <3>1, <3>2 DEF InSet
  <2> QED BY <1>1, <2>2
<1>12. ASSUME NEW again, ObserverReturns(again) PROVE GoneInv'
  <2>1. UNCHANGED <<observers, held, missed>> /\ Taking' \subseteq Taking
    BY <1>12, ReturnFacts
  <2> QED BY <1>1, <2>1 DEF InSet, Known
<1> QED BY <1>3, <1>4, <1>5, <1>6, <1>7, <1>8, <1>9, <1>10, <1>11, <1>12, StepKinds

-----------------------------------------------------------------------------
(* The jobs of a queue that were deferred to one placement.                *)

\* A set of numbers has a smallest one.
LEMMA SmallestNat ==
  ASSUME NEW B \in SUBSET Nat, B # {}
  PROVE  \E m \in B : \A l \in B : m <= l
<1> DEFINE R == OpToRel(<, Nat)
<1>1. IsWellFoundedOn(R, Nat)
  BY NatLessThanWellFounded
<1>2. \A x, y \in Nat : <<x, y>> \in R <=> x < y
  BY DEF OpToRel
<1> HIDE DEF R
<1>3. PICK m \in B : \A l \in B : ~ (<<l, m>> \in R)
  BY <1>1, WFMin, Zenon
<1>4. \A l \in B : m \in Nat /\ l \in Nat /\ ~ (l < m)
  BY <1>2, <1>3
<1> QED BY <1>4

\* The effect is deferred to the placement.
For(p, x) == x.kind = "Defer" /\ x.placement = p

\* The equation of Placed's local function, for the first n effects.
Selects(f, p, q, n) ==
  f = [i \in 0 .. n |->
         IF i = 0 THEN <<>>
         ELSE IF For(p, q[i]) THEN Append(f[i - 1], q[i].job) ELSE f[i - 1]]

\* There is one for every length: take the least for which there is none.
LEMMA SelectionExists ==
  ASSUME NEW p, NEW q, NEW n \in Nat
  PROVE  \E f : Selects(f, p, q, n)
<1> DEFINE B == {m \in Nat : ~ \E f : Selects(f, p, q, m)}
<1>1. SUFFICES ASSUME B # {} PROVE FALSE
  OBVIOUS
<1>2. PICK m \in B : \A l \in B : m <= l
  <2>1. B \in SUBSET Nat
    OBVIOUS
  <2> HIDE DEF B
  <2> QED BY <1>1, <2>1, SmallestNat
<1>3. m # 0
  <2>1. Selects([i \in 0 .. 0 |-> <<>>], p, q, 0)
    BY DEF Selects
  <2>2. 0 \notin B
    BY <2>1
  <2> QED BY <1>2, <2>2
<1>4. m \in Nat /\ m - 1 \in Nat /\ m - 1 \notin B
  BY <1>2, <1>3
<1>5. PICK g : Selects(g, p, q, m - 1)
  BY <1>4
<1> DEFINE f == [i \in 0 .. m |->
                   IF i = m
                   THEN IF For(p, q[m]) THEN Append(g[m - 1], q[m].job) ELSE g[m - 1]
                   ELSE g[i]]
           Value(h, i) == IF i = 0 THEN <<>>
                          ELSE IF For(p, q[i]) THEN Append(h[i - 1], q[i].job) ELSE h[i - 1]
<1>6. ASSUME NEW i \in 0 .. m PROVE f[i] = Value(f, i)
  <2>1. CASE i = m
    <3>1. i # 0 /\ i - 1 \in 0 .. m /\ i - 1 # m
      BY <1>3, <1>4, <2>1
    <3>2. f[i - 1] = g[m - 1]
      BY <2>1, <3>1
    <3> QED BY <2>1, <3>1, <3>2
  <2>2. CASE i # m
    <3>1. i \in 0 .. (m - 1)
      BY <1>4, <2>2
    <3>2. g[i] = Value(g, i)
      BY <1>5, <3>1 DEF Selects
    <3>3. i # 0 => i - 1 \in 0 .. m /\ i - 1 # m
      BY <1>4, <3>1
    <3>4. i # 0 => f[i - 1] = g[i - 1]
      BY <3>3
    <3>5. f[i] = g[i]
      BY <2>2
    <3> QED BY <3>2, <3>4, <3>5
  <2> QED BY <2>1, <2>2
<1>7. f = [i \in 0 .. m |-> Value(f, i)]
  <2>1. f = [i \in 0 .. m |-> f[i]]
    OBVIOUS
  <2> HIDE DEF f, Value
  <2> QED BY <1>6, <2>1
<1>8. Selects(f, p, q, m)
  <2> HIDE DEF f
  <2> QED BY <1>7 DEF Selects
<1> QED BY <1>2, <1>8

\* Placed is the last value of such a function.
LEMMA PlacedIs ==
  ASSUME NEW p, NEW S, NEW q \in Seq(S)
  PROVE  \E f : Selects(f, p, q, Len(q)) /\ Placed(p, q) = f[Len(q)]
<1> DEFINE F == CHOOSE f : Selects(f, p, q, Len(q))
<1>1. Placed(p, q) = F[Len(q)]
  BY DEF Placed, Selects, For
<1>2. Selects(F, p, q, Len(q))
  <2>1. Len(q) \in Nat
    OBVIOUS
  <2> QED BY <2>1, SelectionExists
<1> QED BY <1>1, <1>2

\* Selections of queues that are alike up to n are the same up to n.
LEMMA SelectionsAgree ==
  ASSUME NEW p, NEW f, NEW q, NEW k \in Nat, Selects(f, p, q, k),
         NEW g, NEW r, NEW l \in Nat, Selects(g, p, r, l),
         NEW n \in Nat, n <= k, n <= l,
         \A i \in 1 .. n : /\ For(p, q[i]) <=> For(p, r[i])
                           /\ For(p, q[i]) => q[i].job = r[i].job
  PROVE  f[n] = g[n]
<1> DEFINE B == {m \in 0 .. n : f[m] # g[m]}
<1>1. SUFFICES ASSUME B # {} PROVE FALSE
  OBVIOUS
<1>2. PICK m \in B : \A j \in B : m <= j
  <2>1. B \in SUBSET Nat
    OBVIOUS
  <2> HIDE DEF B
  <2> QED BY <1>1, <2>1, SmallestNat
<1>3. m \in 0 .. n /\ m \in 0 .. k /\ m \in 0 .. l /\ f[m] # g[m]
  BY <1>2
<1>4. /\ f[m] = IF m = 0 THEN <<>>
                ELSE IF For(p, q[m]) THEN Append(f[m - 1], q[m].job) ELSE f[m - 1]
      /\ g[m] = IF m = 0 THEN <<>>
                ELSE IF For(p, r[m]) THEN Append(g[m - 1], r[m].job) ELSE g[m - 1]
  BY <1>3 DEF Selects
<1>5. m # 0
  BY <1>3, <1>4
<1>6. m - 1 \in 0 .. n /\ ~(m <= m - 1) /\ m \in 1 .. n
  BY <1>3, <1>5
<1>7. f[m - 1] = g[m - 1]
  BY <1>2, <1>6
<1> QED BY <1>3, <1>4, <1>5, <1>6, <1>7

\* Queues of the same placements and jobs select the same.
LEMMA PlacedAlike ==
  ASSUME NEW p, NEW S, NEW q \in Seq(S), NEW T, NEW r \in Seq(T), Len(q) = Len(r),
         \A i \in 1 .. Len(q) : /\ For(p, q[i]) <=> For(p, r[i])
                                /\ For(p, q[i]) => q[i].job = r[i].job
  PROVE  Placed(p, q) = Placed(p, r)
<1>1. Len(q) \in Nat
  OBVIOUS
<1>2. PICK f : Selects(f, p, q, Len(q)) /\ Placed(p, q) = f[Len(q)]
  BY PlacedIs
<1>3. PICK g : Selects(g, p, r, Len(r)) /\ Placed(p, r) = g[Len(r)]
  BY PlacedIs
<1>4. f[Len(q)] = g[Len(q)]
  BY <1>1, <1>2, <1>3, SelectionsAgree
<1> QED BY <1>2, <1>3, <1>4

\* What an effect alone adds.
Job(p, x) == IF For(p, x) THEN <<x.job>> ELSE <<>>

LEMMA PlacedEmpty == \A p : Placed(p, <<>>) = <<>>
<1> TAKE p
<1>1. <<>> \in Seq({}) /\ Len(<<>>) = 0
  OBVIOUS
<1>2. PICK f : Selects(f, p, <<>>, 0) /\ Placed(p, <<>>) = f[0]
  BY <1>1, PlacedIs
<1> QED BY <1>2 DEF Selects

\* One more effect adds its job, or nothing.
LEMMA PlacedAppend ==
  ASSUME NEW p, NEW S, NEW q \in Seq(S), NEW x \in S
  PROVE  Placed(p, Append(q, x)) =
           IF For(p, x) THEN Append(Placed(p, q), x.job) ELSE Placed(p, q)
<1> DEFINE n == Len(q)  r == Append(q, x)
<1>1. /\ n \in Nat /\ r \in Seq(S) /\ Len(r) = n + 1 /\ r[n + 1] = x
      /\ \A i \in 1 .. n : r[i] = q[i]
  OBVIOUS
<1>2. PICK f : Selects(f, p, q, n) /\ Placed(p, q) = f[n]
  BY PlacedIs
<1> HIDE DEF n, r
<1>3. PICK g : Selects(g, p, r, n + 1) /\ Placed(p, r) = g[n + 1]
  BY <1>1, PlacedIs
<1>4. f[n] = g[n]
  <2>1. n + 1 \in Nat /\ n <= n /\ n <= n + 1
    BY <1>1
  <2> QED BY <1>1, <1>2, <1>3, <2>1, SelectionsAgree
<1>5. g[n + 1] = IF For(p, r[n + 1]) THEN Append(g[n], r[n + 1].job) ELSE g[n]
  <2>1. n + 1 \in 0 .. (n + 1) /\ n + 1 # 0 /\ (n + 1) - 1 = n
    BY <1>1
  <2> QED BY <1>3, <2>1 DEF Selects
<1> QED BY <1>1, <1>2, <1>3, <1>4, <1>5 DEF r

\* They are jobs.
LEMMA PlacedType ==
  ASSUME NEW p, NEW q \in Seq(Effects)
  PROVE  Placed(p, q) \in Seq(Jobs \cup Ids)
<1> DEFINE V == Jobs \cup Ids
<1>1. PICK f : Selects(f, p, q, Len(q)) /\ Placed(p, q) = f[Len(q)]
  BY PlacedIs
<1> DEFINE B == {m \in 0 .. Len(q) : f[m] \notin Seq(V)}
<1>2. Len(q) \in Nat
  OBVIOUS
<1>3. CASE B = {}
  BY <1>1, <1>2, <1>3
<1>4. CASE B # {}
  <2>1. PICK m \in B : \A j \in B : m <= j
    <3>1. B \in SUBSET Nat
      OBVIOUS
    <3> HIDE DEF B
    <3> QED BY <1>4, <3>1, SmallestNat
  <2>2. m \in 0 .. Len(q) /\ f[m] \notin Seq(V)
    BY <2>1
  <2>3. f[m] = IF m = 0 THEN <<>>
               ELSE IF For(p, q[m]) THEN Append(f[m - 1], q[m].job) ELSE f[m - 1]
    BY <1>1, <2>2 DEF Selects
  <2>4. m # 0
    BY <2>2, <2>3
  <2>5. m - 1 \in 0 .. Len(q) /\ ~(m <= m - 1) /\ m \in 1 .. Len(q)
    BY <1>2, <2>2, <2>4
  <2>6. f[m - 1] \in Seq(V)
    BY <2>1, <2>5
  <2>7. q[m] \in Effects
    BY <2>5
  <2>8. For(p, q[m]) => q[m].job \in V
    BY <2>7 DEF For, Effects
  <2> HIDE DEF V
  <2> QED BY <2>2, <2>3, <2>4, <2>6, <2>8
<1> QED BY <1>3, <1>4

LEMMA PlacedOne ==
  ASSUME NEW p, NEW x \in Effects
  PROVE  Placed(p, <<x>>) = Job(p, x) /\ Job(p, x) \in Seq(Jobs \cup Ids)
<1>1. <<>> \in Seq(Effects) /\ Append(<<>>, x) = <<x>> /\ <<x>> \in Seq(Effects)
  OBVIOUS
<1>2. Placed(p, <<x>>) = IF For(p, x) THEN Append(Placed(p, <<>>), x.job) ELSE Placed(p, <<>>)
  <2> DEFINE none == <<>>
  <2>1. none \in Seq(Effects) /\ Append(none, x) = <<x>>
    BY <1>1
  <2> HIDE DEF none
  <2>2. Placed(p, Append(none, x)) =
          IF For(p, x) THEN Append(Placed(p, none), x.job) ELSE Placed(p, none)
    BY <2>1, PlacedAppend
  <2> QED BY <2>1, <2>2, Zenon DEF none
<1>3. Placed(p, <<x>>) = Job(p, x)
  BY <1>2, PlacedEmpty DEF Job
<1> QED BY <1>1, <1>3, PlacedType

\* An element that follows both of two sequences follows the second.
AppendsLast(s, t, x) == Append(s \o t, x) = s \o Append(t, x)

LEMMA AppendIsLast ==
  ASSUME NEW S, NEW s \in Seq(S), NEW t \in Seq(S), NEW x \in S
  PROVE  AppendsLast(s, t, x)
BY DEF AppendsLast

\* The jobs of two queues, one after the other.
LEMMA PlacedConcat ==
  ASSUME NEW p, NEW q \in Seq(Effects)
  PROVE  \A r \in Seq(Effects) : Placed(p, q \o r) = Placed(p, q) \o Placed(p, r)
<1> DEFINE Holds(r) == Placed(p, q \o r) = Placed(p, q) \o Placed(p, r)
           B == {n \in Nat : \E r \in Seq(Effects) : Len(r) = n /\ ~Holds(r)}
<1>1. CASE B = {}
  <2>1. ASSUME NEW r \in Seq(Effects) PROVE Holds(r)
    <3>1. Len(r) \in Nat
      OBVIOUS
    <3> HIDE DEF Holds
    <3> QED BY <1>1, <3>1
  <2> QED BY <2>1
<1>2. CASE B # {}
  <2>1. PICK n \in B : \A j \in B : n <= j
    <3>1. B \in SUBSET Nat
      OBVIOUS
    <3> HIDE DEF B
    <3> QED BY <1>2, <3>1, SmallestNat
  <2>2. PICK r \in Seq(Effects) : Len(r) = n /\ ~Holds(r)
    BY <2>1
  <2>3. r # <<>>
    <3>1. q \o <<>> = q
      OBVIOUS
    <3>2. Placed(p, q) \o <<>> = Placed(p, q)
      BY PlacedType
    <3>3. Holds(<<>>)
      BY <3>1, <3>2, PlacedEmpty
    <3> HIDE DEF Holds
    <3> QED BY <2>2, <3>3
  <2> DEFINE s == SubSeq(r, 1, n - 1)  x == r[n]
  <2>4. /\ s \in Seq(Effects) /\ x \in Effects /\ r = Append(s, x) /\ Len(s) = n - 1
        /\ n - 1 \in Nat /\ ~(n <= n - 1)
    <3>1. n \in Nat /\ n > 0 /\ n = Len(r)
      BY <2>2, <2>3
    <3>2. /\ s \in Seq(Effects) /\ Len(s) = n - 1 /\ x \in Effects
          /\ \A i \in 1 .. (n - 1) : s[i] = r[i]
      BY <3>1
    <3>3. r = Append(s, x)
      <4> HIDE DEF s
      <4>1. /\ Append(s, x) \in Seq(Effects) /\ Len(Append(s, x)) = n
            /\ \A i \in 1 .. (n - 1) : Append(s, x)[i] = s[i]
            /\ Append(s, x)[n] = x
        BY <3>1, <3>2
      <4>2. \A i \in 1 .. Len(r) : r[i] = Append(s, x)[i]
        BY <3>1, <3>2, <4>1
      <4> QED BY <3>1, <4>1, <4>2, SeqEqual
    <3> QED BY <3>1, <3>2, <3>3
  <2> HIDE DEF s, x
  <2>5. Holds(s)
    <3>1. n - 1 \notin B
      BY <2>1, <2>4
    <3> HIDE DEF Holds
    <3> QED BY <2>4, <3>1
  <2>6. q \o r = Append(q \o s, x) /\ q \o s \in Seq(Effects)
    BY <2>4
  <2> DEFINE a == Placed(p, q)  b == Placed(p, s)
  <2>7. a \in Seq(Jobs \cup Ids) /\ b \in Seq(Jobs \cup Ids)
    BY <2>4, PlacedType
  <2>8. For(p, x) => x.job \in Jobs \cup Ids
    BY <2>4 DEF For, Effects
  <2>9. Placed(p, q \o r) = IF For(p, x) THEN Append(a \o b, x.job) ELSE a \o b
    <3>1. Placed(p, q \o s) = a \o b
      BY <2>5
    <3> DEFINE u == q \o s
    <3>2. u \in Seq(Effects) /\ q \o r = Append(u, x) /\ Placed(p, u) = a \o b
      BY <2>6, <3>1
    <3> HIDE DEF u, a, b
    <3>3. Placed(p, Append(u, x)) = IF For(p, x) THEN Append(Placed(p, u), x.job) ELSE Placed(p, u)
      BY <2>4, <3>2, PlacedAppend
    <3> QED BY <3>2, <3>3, Zenon
  <2>10. Placed(p, r) = IF For(p, x) THEN Append(b, x.job) ELSE b
    BY <2>4, PlacedAppend
  <2> HIDE DEF a, b
  <2>11. Placed(p, q \o r) = a \o Placed(p, r)
    <3> DEFINE j == x.job
    <3> HIDE DEF j
    <3>1. ASSUME j \in Jobs \cup Ids PROVE Append(a \o b, j) = a \o Append(b, j)
      <4> DEFINE V == Jobs \cup Ids
      <4>1. a \in Seq(V) /\ b \in Seq(V) /\ j \in V
        BY <2>7, <3>1
      <4> HIDE DEF V
      <4>2. AppendsLast(a, b, j)
        BY <4>1, AppendIsLast
      <4> QED BY <4>2, Zenon DEF AppendsLast
    <3> QED BY <2>8, <2>9, <2>10, <3>1 DEF j
  <2> QED BY <2>2, <2>11 DEF a
<1> QED BY <1>1, <1>2

\* The first effect of a queue comes before the others.
LEMMA PlacedHead ==
  ASSUME NEW p, NEW q \in Seq(Effects), q # <<>>
  PROVE  Placed(p, q) = Job(p, Head(q)) \o Placed(p, Tail(q))
<1>1. /\ Head(q) \in Effects /\ Tail(q) \in Seq(Effects) /\ q = <<Head(q)>> \o Tail(q)
      /\ <<Head(q)>> \in Seq(Effects)
  OBVIOUS
<1> DEFINE h == <<Head(q)>>  t == Tail(q)
<1>2. Placed(p, h \o t) = Placed(p, h) \o Placed(p, t)
  <2> HIDE DEF h, t
  <2> QED BY <1>1, PlacedConcat DEF h, t
<1> QED BY <1>1, <1>2, PlacedOne

\* A queue with none of the placement has no jobs for it.
LEMMA PlacedNone ==
  ASSUME NEW p, NEW q \in Seq(Effects), \A i \in 1 .. Len(q) : ~For(p, q[i])
  PROVE  Placed(p, q) = <<>>
<1>1. PICK f : Selects(f, p, q, Len(q)) /\ Placed(p, q) = f[Len(q)]
  BY PlacedIs
<1> DEFINE B == {m \in 0 .. Len(q) : f[m] # <<>>}
<1>2. Len(q) \in Nat
  OBVIOUS
<1>3. CASE B = {}
  BY <1>1, <1>2, <1>3
<1>4. CASE B # {}
  <2>1. PICK m \in B : \A j \in B : m <= j
    <3>1. B \in SUBSET Nat
      OBVIOUS
    <3> HIDE DEF B
    <3> QED BY <1>4, <3>1, SmallestNat
  <2>2. m \in 0 .. Len(q) /\ f[m] # <<>>
    BY <2>1
  <2>3. f[m] = IF m = 0 THEN <<>>
               ELSE IF For(p, q[m]) THEN Append(f[m - 1], q[m].job) ELSE f[m - 1]
    BY <1>1, <2>2 DEF Selects
  <2>4. m # 0 /\ m - 1 \in 0 .. Len(q) /\ ~(m <= m - 1) /\ m \in 1 .. Len(q)
    BY <1>2, <2>2, <2>3
  <2>5. f[m - 1] = <<>>
    BY <2>1, <2>4
  <2> QED BY <2>2, <2>3, <2>4, <2>5
<1> QED BY <1>3, <1>4

-----------------------------------------------------------------------------
(* Where a flush is, and what it carries.                                  *)

\* An effect that the running drain carries over.
Waits(x) == x.kind = "Defer" /\ ~Admits(x.placement)

\* The drain at the entry of the first phase.
FirstDrain ==
  /\ scope = "Phase" /\ phase = "PreFrame"
  /\ at \in {"drain", "pass", "callback", "deferred"}

\* This frame deferred none of them from a body or an exit.
Older(q) == \A i \in 1 .. Len(q) : q[i].kind = "Defer" => q[i].born # "frame"

\* What is left of UsableInv when a panic may also unwind the drain of Idle.
PlaceInv ==
  /\ panics \in Nat
  /\ phase \in {"PreFrame", "AnimationTick", "Build", "Layout", "Prepaint", "Paint",
                "PostFrame", "Idle"}
  /\ scope \in {"Legacy", "Phase", "PhasePost"}
  /\ at \in {"rest", "body"} \/ scope = "Legacy" => phase = "Idle"
  /\ at = "phase" => scope = "Phase" /\ phase # "Idle"
  /\ scope = "PhasePost" /\ at \notin {"rest", "body"} => phase # "Idle"
  /\ at \in {"rest", "body", "phase"} => carry = <<>>

FlowInv ==
  /\ PlaceInv
  /\ \A i \in 1 .. Len(carry) : Waits(carry[i])
  /\ FirstDrain => Older(queue) /\ Older(carry)

\* The next phase is another than the first.
LEMMA FollowingFacts ==
  ASSUME NEW p \in {"PreFrame", "AnimationTick", "Build", "Layout", "Prepaint", "Paint",
                    "PostFrame"}
  PROVE  Following(p) \in {"AnimationTick", "Build", "Layout", "Prepaint", "Paint",
                           "PostFrame", "Idle"}
<1> DEFINE n == CHOOSE k \in DOMAIN FramePhases : FramePhases[k] = p
<1>1. DOMAIN FramePhases = 1 .. 7 /\ Len(FramePhases) = 7
  BY DEF FramePhases
<1>2. \E k \in DOMAIN FramePhases : FramePhases[k] = p
  <2>1. /\ FramePhases[1] = "PreFrame" /\ FramePhases[2] = "AnimationTick"
        /\ FramePhases[3] = "Build" /\ FramePhases[4] = "Layout"
        /\ FramePhases[5] = "Prepaint" /\ FramePhases[6] = "Paint"
        /\ FramePhases[7] = "PostFrame"
    BY DEF FramePhases
  <2>2. 1 \in 1 .. 7 /\ 2 \in 1 .. 7 /\ 3 \in 1 .. 7 /\ 4 \in 1 .. 7 /\ 5 \in 1 .. 7
        /\ 6 \in 1 .. 7 /\ 7 \in 1 .. 7
    OBVIOUS
  <2> QED BY <1>1, <2>1, <2>2, Zenon
<1>3. n \in 1 .. 7
  BY <1>1, <1>2
<1>4. Following(p) = IF n = 7 THEN "Idle" ELSE FramePhases[n + 1]
  BY <1>1 DEF Following
<1> HIDE DEF n
<1>5. n = 7 \/ n \in 1 .. 6
  BY <1>3
<1>6. n \in 1 .. 6 => FramePhases[n + 1] \in {"AnimationTick", "Build", "Layout", "Prepaint",
                                              "Paint", "PostFrame"}
  BY DEF FramePhases
<1> QED BY <1>4, <1>5, <1>6

\* The call stack moves as in UsableStep; no bound on PanicIn is needed.
LEMMA PlaceStep == TypeInv /\ PlaceInv /\ [Next]_vars => PlaceInv'
<1> SUFFICES ASSUME TypeInv, PlaceInv, [Next]_vars PROVE PlaceInv'
  OBVIOUS
<1> USE DEF PlaceInv, UserCode, history
<1>0. at \notin {"rest", "body"} => flushing
  BY DEF TypeInv
<1>1. CASE Callbacks
  BY <1>1 DEF Callbacks, Observe, NotifyObservers, PushNotify, DropEntity,
              DropSubscription, DeferTo, stack
<1>2. CASE StartUpdate
  BY <1>2 DEF StartUpdate
<1>3. CASE FinishUpdate
  BY <1>0, <1>3 DEF FinishUpdate
<1>4. CASE RunFrame
  <2>1. phase' = "PreFrame"
    BY <1>4 DEF RunFrame, FramePhases
  <2> QED BY <1>4, <2>1 DEF RunFrame
<1>5. CASE Drain
  BY <1>5 DEF Drain, CarryEffect, ApplyDefer, ApplyNotify
<1>6. CASE Pass
  BY <1>6 DEF Pass, SkipInert, SkipReleased, CallObserver, EndPass, app
<1>7. CASE Returns
  BY <1>7 DEF Returns, ObserverReturns, DeferReturns, EndPhaseBody, app
<1>8. CASE Ends
  <2>1. CASE UpdateEnds
    BY <2>1 DEF UpdateEnds, FlushEnds
  <2>2. CASE EnterPhase
    BY <2>2 DEF EnterPhase, FlushEnds
  <2>3. CASE LeavePhase
    <3>1. phase # "Idle"
      BY <2>3 DEF LeavePhase, FlushEnds
    <3>2. phase' \in {"AnimationTick", "Build", "Layout", "Prepaint", "Paint",
                      "PostFrame", "Idle"}
      BY <2>3, <3>1, FollowingFacts DEF LeavePhase
    <3> QED BY <2>3, <3>2 DEF LeavePhase, FlushEnds
  <2>4. CASE FrameEnds
    BY <2>4 DEF FrameEnds, FlushEnds
  <2> QED BY <1>8, <2>1, <2>2, <2>3, <2>4 DEF Ends
<1>9. CASE Abort
  <2>1. CASE AbortUpdate
    BY <2>1 DEF AbortUpdate, Panicking, Entered, Unwind
  <2>2. CASE AbortFrame
    BY <2>2 DEF AbortFrame, Panicking, Entered, Unwind
  <2>3. CASE AbortIdle
    BY <2>3 DEF AbortIdle, Panicking, Entered, Unwind
  <2> QED BY <1>9, <2>1, <2>2, <2>3 DEF Abort
<1>10. CASE UNCHANGED vars
  BY <1>10 DEF vars, stack
<1> QED BY <1>1, <1>2, <1>3, <1>4, <1>5, <1>6, <1>7, <1>8, <1>9, <1>10 DEF Next

\* What the steps do to the two queues: nothing,
Keeps ==
  /\ UNCHANGED <<queue, carry>>
  /\ FirstDrain' => FirstDrain
  /\ UNCHANGED <<scope, phase>> \/ carry = <<>>

\* one more effect,
Queues(x) ==
  /\ queue' = Append(queue, x)
  /\ UNCHANGED <<stack, panics>>
  /\ FirstDrain /\ x.kind = "Defer" => x.born # "frame"

\* what was carried comes back,
Returned ==
  /\ queue = <<>> /\ queue' = carry /\ carry' = <<>>
  /\ ~FirstDrain'

\* a frame starts,
Ages == queue' = Aged(queue) /\ carry = <<>> /\ carry' = <<>>

\* or what was carried is lost.
Loses ==
  /\ panics' # panics /\ carry' = <<>>
  /\ ~FirstDrain'

\* Each action is one of these, or takes the first effect of the queue.
LEMMA FlowKinds ==
  ASSUME TypeInv, SetInv, PlaceInv, [Next]_vars
  PROVE  \/ Keeps \/ Returned \/ Ages \/ Loses
         \/ \E x \in Effects : Queues(x)
         \/ CarryEffect \/ ApplyDefer \/ ApplyNotify
<1> USE DEF PlaceInv, UserCode, FirstDrain
<1>0. at \notin {"rest", "body"} => flushing
  BY DEF TypeInv
<1>1. CASE Callbacks
  <2>1. ASSUME NEW e \in Emitters, Observe(e) PROVE \E x \in Effects : Queues(x)
    <3> DEFINE x == Activation(Len(observers'.keys))
    <3>1. Len(observers'.keys) \in Ids
      <4>1. /\ WellFormed(observers) /\ Len(observers.keys) < MaxSubs
            /\ observers' = Insert(observers, e)
        BY <2>1 DEF Observe, SetInv
      <4>2. observers.keys \in Seq(Emitters)
        BY <4>1 DEF WellFormed, SetType
      <4>3. observers'.keys = Append(observers.keys, e)
        BY <4>1, <4>2, InsertFacts
      <4> QED BY <4>1, <4>2, <4>3, MaxSubsAssumption DEF Ids
    <3>2. x \in Effects /\ x.born = "update"
      BY <3>1 DEF Activation, Defer, Effects, Placements, Origins
    <3>3. Queues(x)
      <4>1. queue' = Append(queue, x) /\ UNCHANGED <<stack, panics>>
        BY <2>1 DEF Observe, history
      <4> HIDE DEF x
      <4> QED BY <3>2, <4>1 DEF Queues
    <3> QED BY <3>2, <3>3
  <2>2. ASSUME NEW e \in Emitters, PushNotify(e) PROVE Keeps \/ \E x \in Effects : Queues(x)
    <3>1. CASE e \in pending
      BY <2>2, <3>1 DEF PushNotify, stack, Keeps
    <3>2. CASE e \notin pending
      <4>1. Notify(e) \in Effects /\ Notify(e).kind = "Notify"
        BY DEF Notify, Effects
      <4>2. Queues(Notify(e))
        BY <2>2, <3>2, <4>1 DEF PushNotify, Queues
      <4> QED BY <4>1, <4>2
    <3> QED BY <3>1, <3>2
  <2>3. ASSUME NEW e \in Emitters, DropEntity(e) PROVE Keeps
    BY <2>3 DEF DropEntity, stack, Keeps
  <2>4. ASSUME NEW i \in Ids, DropSubscription(i) PROVE Keeps
    BY <2>4 DEF DropSubscription, stack, Keeps
  <2>5. ASSUME NEW p \in Placements, NEW j \in Jobs, DeferTo(p, j)
        PROVE  \E x \in Effects : Queues(x)
    <3> DEFINE x == Defer(p, j, Origin)
    <3>1. x \in Effects /\ x.born = Origin
      BY DEF Defer, Effects, Origin, Origins
    <3>2. FirstDrain => Origin = "entry"
      BY DEF Origin
    <3>3. queue' = Append(queue, x) /\ UNCHANGED <<stack, panics>>
      BY <2>5 DEF DeferTo, history
    <3>4. Queues(x)
      <4> HIDE DEF x, FirstDrain
      <4> QED BY <3>1, <3>2, <3>3 DEF Queues
    <3> QED BY <3>1, <3>4
  <2> QED BY <1>1, <2>1, <2>2, <2>3, <2>4, <2>5 DEF Callbacks, NotifyObservers
<1>2. CASE StartUpdate
  BY <1>2 DEF StartUpdate, app, Keeps
<1>3. CASE FinishUpdate
  BY <1>0, <1>3 DEF FinishUpdate, app, Keeps
<1>4. CASE RunFrame
  BY <1>4 DEF RunFrame, Ages
<1>5. CASE Pass
  BY <1>5 DEF Pass, SkipInert, SkipReleased, CallObserver, EndPass, app, Keeps
<1>6. CASE Returns
  BY <1>6 DEF Returns, ObserverReturns, DeferReturns, EndPhaseBody, app, Keeps
<1>7. CASE Ends
  <2>1. CASE LeavePhase
    <3>1. phase # "Idle"
      BY <2>1 DEF LeavePhase, FlushEnds
    <3>2. phase' # "PreFrame"
      BY <2>1, <3>1, FollowingFacts DEF LeavePhase
    <3> QED BY <2>1, <3>2 DEF LeavePhase, FlushEnds, Returned
  <2>2. CASE UpdateEnds \/ EnterPhase \/ FrameEnds
    BY <2>2 DEF UpdateEnds, EnterPhase, FrameEnds, FlushEnds, Returned
  <2> QED BY <1>7, <2>1, <2>2 DEF Ends
<1>8. CASE Abort
  BY <1>8 DEF Abort, AbortUpdate, AbortFrame, AbortIdle, Unwind, Loses
<1>9. CASE UNCHANGED vars
  BY <1>9 DEF vars, app, stack, Keeps
<1> QED BY <1>1, <1>2, <1>3, <1>4, <1>5, <1>6, <1>7, <1>8, <1>9 DEF Next, Drain

\* run_frame renames no job and moves none.
LEMMA AgedFacts ==
  ASSUME NEW q \in Seq(Effects)
  PROVE  /\ Aged(q) \in Seq(Effects) /\ Len(Aged(q)) = Len(q) /\ Older(Aged(q))
         /\ \A p : Placed(p, Aged(q)) = Placed(p, q)
<1>1. Aged(q) \in Seq(Effects)
  BY AgedType
<1>2. Len(Aged(q)) = Len(q) /\ Len(q) \in Nat
  <2>1. DOMAIN Aged(q) = 1 .. Len(q)
    BY DEF Aged
  <2> QED BY <1>1, <2>1
<1>3. ASSUME NEW i \in 1 .. Len(q)
      PROVE  /\ Aged(q)[i].kind = q[i].kind
             /\ q[i].kind = "Defer" =>
                  /\ Aged(q)[i].placement = q[i].placement /\ Aged(q)[i].job = q[i].job
                  /\ Aged(q)[i].born \in {"update", "earlier"}
  <2>1. q[i] \in Effects
    OBVIOUS
  <2>2. Aged(q)[i] = IF q[i].kind = "Defer" /\ q[i].born # "update"
                     THEN [q[i] EXCEPT !.born = "earlier"] ELSE q[i]
    BY DEF Aged
  <2>3. CASE q[i].kind = "Defer"
    <3>1. q[i] \in [kind : {"Defer"}, placement : Placements, job : Jobs \cup Ids, born : Origins]
      BY <2>1, <2>3 DEF Effects
    <3> QED BY <2>2, <3>1
  <2>4. CASE q[i].kind # "Defer"
    BY <2>2, <2>4
  <2> QED BY <2>3, <2>4
<1>4. Older(Aged(q))
  BY <1>2, <1>3 DEF Older
<1>5. ASSUME NEW p PROVE Placed(p, Aged(q)) = Placed(p, q)
  <2> DEFINE r == Aged(q)
  <2>1. /\ r \in Seq(Effects) /\ Len(r) = Len(q)
        /\ \A i \in 1 .. Len(r) : /\ For(p, r[i]) <=> For(p, q[i])
                                  /\ For(p, r[i]) => r[i].job = q[i].job
    BY <1>1, <1>2, <1>3 DEF For
  <2> HIDE DEF r
  <2> QED BY <2>1, PlacedAlike DEF r
<1> QED BY <1>1, <1>2, <1>4, <1>5

LEMMA TailFacts ==
  ASSUME NEW q \in Seq(Effects), q # <<>>
  PROVE  /\ Head(q) = q[1] /\ Head(q) \in Effects /\ 1 \in 1 .. Len(q)
         /\ Tail(q) \in Seq(Effects) /\ Len(Tail(q)) = Len(q) - 1
         /\ \A i \in 1 .. Len(Tail(q)) : i + 1 \in 1 .. Len(q) /\ Tail(q)[i] = q[i + 1]
OBVIOUS

LEMMA AppendFacts ==
  ASSUME NEW q \in Seq(Effects), NEW x \in Effects
  PROVE  /\ Append(q, x) \in Seq(Effects) /\ Len(Append(q, x)) = Len(q) + 1
         /\ \A i \in 1 .. Len(Append(q, x)) :
              \/ i \in 1 .. Len(q) /\ Append(q, x)[i] = q[i]
              \/ Append(q, x)[i] = x
OBVIOUS

\* The invariant needs no more than these kinds of step.
LEMMA FlowStep == TypeInv /\ SetInv /\ FlowInv /\ [Next]_vars => FlowInv'
<1> SUFFICES ASSUME TypeInv, SetInv, FlowInv, [Next]_vars PROVE FlowInv'
  OBVIOUS
<1>1. PlaceInv /\ PlaceInv'
  BY PlaceStep DEF FlowInv
<1>2. queue \in Seq(Effects) /\ carry \in Seq(Effects)
  BY DEF TypeInv
<1>3. /\ \A i \in 1 .. Len(carry) : Waits(carry[i])
      /\ FirstDrain => Older(queue) /\ Older(carry)
  BY DEF FlowInv
<1> DEFINE Waiting == \A i \in 1 .. Len(carry) : Waits(carry[i])
<1>4. SUFFICES Waiting' /\ (FirstDrain' => Older(queue') /\ Older(carry'))
  BY <1>1 DEF FlowInv, Older
<1>5. CASE Keeps
  <2>1. UNCHANGED <<scope, phase>> => \A x : Waits(x)' = Waits(x)
    BY DEF Waits, Admits
  <2> QED BY <1>3, <1>5, <2>1 DEF Keeps, Older, Waits, Admits
<1>6. CASE Returned
  BY <1>6 DEF Returned
<1>7. CASE Loses
  BY <1>7 DEF Loses
<1>8. CASE Ages
  BY <1>2, <1>8, AgedFacts DEF Ages, Older
<1>9. ASSUME NEW x \in Effects, Queues(x)
      PROVE  Waiting' /\ (FirstDrain' => Older(queue') /\ Older(carry'))
  <2>1. UNCHANGED <<scope, phase, at, carry>>
    BY <1>9 DEF Queues, stack
  <2>2. Waiting'
    BY <1>3, <2>1 DEF Waits, Admits
  <2>3. FirstDrain' => FirstDrain
    BY <2>1 DEF FirstDrain
  <2>4. FirstDrain => Older(queue')
    BY <1>2, <1>3, <1>9, AppendFacts DEF Queues, Older
  <2> QED BY <1>3, <2>1, <2>2, <2>3, <2>4
<1>10. CASE CarryEffect
  <2>1. /\ queue # <<>> /\ Waits(Head(queue)) /\ UNCHANGED <<scope, phase, at>>
        /\ carry' = Append(carry, Head(queue)) /\ queue' = Tail(queue)
    BY <1>10 DEF CarryEffect, Waits
  <2>2. \A x : Waits(x)' = Waits(x)
    BY <2>1 DEF Waits, Admits
  <2>3. Waiting'
    BY <1>2, <1>3, <2>1, <2>2, TailFacts, AppendFacts
  <2>4. FirstDrain' => FirstDrain
    BY <2>1 DEF FirstDrain
  <2>5. FirstDrain => Older(queue')
    BY <1>2, <1>3, <2>1, TailFacts DEF Older
  <2>6. FirstDrain => Older(carry')
    BY <1>2, <1>3, <2>1, TailFacts, AppendFacts DEF Older
  <2> QED BY <2>3, <2>4, <2>5, <2>6
<1>11. CASE ApplyDefer \/ ApplyNotify
  <2>1. /\ queue # <<>> /\ at = "drain" /\ UNCHANGED <<scope, phase, carry>>
        /\ queue' = Tail(queue)
    BY <1>11 DEF ApplyDefer, ApplyNotify
  <2>2. \A x : Waits(x)' = Waits(x)
    BY <2>1 DEF Waits, Admits
  <2>3. FirstDrain' => FirstDrain
    BY <2>1 DEF FirstDrain
  <2>4. FirstDrain => Older(queue')
    BY <1>2, <1>3, <2>1, TailFacts DEF Older
  <2> QED BY <1>3, <2>1, <2>2, <2>3, <2>4
<1> QED BY <1>1, <1>5, <1>6, <1>7, <1>8, <1>9, <1>10, <1>11, FlowKinds

LEMMA FlowInit == Init => FlowInv
  BY DEF Init, FlowInv, PlaceInv, FirstDrain

\* Only apply_defer_effect starts a deferred callback.
LEMMA StartsWait ==
  ASSUME TypeInv, FlowInv, Next, Starts("NextFrameStart"), scope # "Legacy"
  PROVE  Head(queue).born # "frame"
<1>1. at = "drain" /\ at' = "deferred" /\ Head(queue).placement = "NextFrameStart"
  BY DEF Starts
<1>2. ApplyDefer
  <2> USE DEF UserCode
  <2>1. ~(Callbacks \/ StartUpdate \/ FinishUpdate \/ RunFrame)
    BY <1>1 DEF Callbacks, Observe, NotifyObservers, PushNotify, DropEntity,
                DropSubscription, DeferTo, stack, StartUpdate, FinishUpdate, RunFrame
  <2>2. ~(CarryEffect \/ ApplyNotify \/ Pass \/ Returns)
    BY <1>1 DEF CarryEffect, ApplyNotify, Pass, SkipInert, SkipReleased, CallObserver,
                EndPass, Returns, ObserverReturns, DeferReturns, EndPhaseBody
  <2>3. ~(Ends \/ Abort)
    BY <1>1 DEF Ends, UpdateEnds, EnterPhase, LeavePhase, FrameEnds,
                Abort, AbortUpdate, AbortFrame, AbortIdle
  <2> QED BY <2>1, <2>2, <2>3 DEF Next, Drain
<1>3. scope = "Phase" /\ phase = "PreFrame" /\ queue # <<>> /\ Head(queue).kind = "Defer"
  BY <1>1, <1>2 DEF ApplyDefer, Admits
<1>4. Older(queue) /\ queue \in Seq(Effects)
  BY <1>1, <1>3 DEF FlowInv, FirstDrain, TypeInv
<1> QED BY <1>3, <1>4, TailFacts DEF Older

\* One step changes the jobs of a placement from `old' to `new'.
Fifo(old, new) ==
  \/ new = old
  \/ new # <<>> /\ Front(new) = old
  \/ old # <<>> /\ new = Tail(old)

LEMMA FifoAppend ==
  ASSUME NEW S, NEW s \in Seq(S), NEW x \in S
  PROVE  Fifo(s, Append(s, x))
<1> DEFINE t == Append(s, x)
<1>1. t # <<>> /\ Len(t) = Len(s) + 1 /\ Len(s) \in Nat /\ \A i \in 1 .. Len(s) : t[i] = s[i]
  OBVIOUS
<1>2. Front(t) = SubSeq(t, 1, Len(t) - 1)
  BY DEF Front
<1>3. t \in Seq(S)
  OBVIOUS
<1> HIDE DEF t
<1>4. Front(t) = s
  <2> DEFINE u == SubSeq(t, 1, Len(t) - 1)
  <2>1. u \in Seq(S) /\ Len(u) = Len(s) /\ \A i \in 1 .. Len(s) : u[i] = t[i]
    BY <1>1, <1>3
  <2> HIDE DEF u
  <2>2. u = s
    BY <1>1, <2>1, SeqEqual
  <2> QED BY <1>2, <2>2 DEF u
<1> QED BY <1>1, <1>4 DEF Fifo, t

\* One step does that to the jobs of every placement: what is admitted is not
\* carried, so that it is the first of its placement in both queues.
LEMMA OrderStep ==
  ASSUME TypeInv, SetInv, FlowInv, Next, panics' = panics, NEW p \in Placements
  PROVE  Fifo(Placed(p, carry \o queue), Placed(p, carry' \o queue'))
<1> DEFINE V == Jobs \cup Ids
           old == Placed(p, carry \o queue)
           new == Placed(p, carry' \o queue')
<1>1. /\ queue \in Seq(Effects) /\ carry \in Seq(Effects) /\ carry \o queue \in Seq(Effects)
      /\ PlaceInv
  BY DEF TypeInv, FlowInv
<1>2. SUFFICES \/ new = old
               \/ Fifo(old, new)
               \/ \E j \in V : new = Append(old, j)
  <2>1. old \in Seq(V)
    BY <1>1, PlacedType
  <2> HIDE DEF V, old, new
  <2>2. \A j \in V : Fifo(old, Append(old, j))
    BY <2>1, FifoAppend
  <2>3. new = old => Fifo(old, new)
    BY DEF Fifo
  <2> QED BY <2>2, <2>3 DEF old, new
<1>3. CASE Keeps
  BY <1>3 DEF Keeps
<1>4. CASE Returned
  <2>1. carry \o queue = carry /\ carry' \o queue' = carry
    BY <1>1, <1>4 DEF Returned
  <2> QED BY <2>1, Zenon
<1>5. ~Loses
  BY DEF Loses
<1>6. CASE Ages
  <2>1. carry \o queue = queue /\ carry' \o queue' = Aged(queue)
    BY <1>1, <1>6, AgedFacts DEF Ages
  <2> QED BY <1>1, <2>1, AgedFacts
<1>7. ASSUME NEW x \in Effects, Queues(x)
      PROVE  new = old \/ \E j \in V : new = Append(old, j)
  <2>1. queue' = Append(queue, x) /\ carry' = carry
    BY <1>7 DEF Queues, stack
  <2>2. carry' \o queue' = Append(carry \o queue, x)
    BY <1>1, <2>1
  <2> DEFINE u == carry \o queue
  <2>3. u \in Seq(Effects) /\ new = Placed(p, Append(u, x)) /\ old = Placed(p, u)
    BY <1>1, <2>2
  <2> HIDE DEF u, old, new
  <2>4. new = IF For(p, x) THEN Append(old, x.job) ELSE old
    <3>1. Placed(p, Append(u, x)) = IF For(p, x) THEN Append(Placed(p, u), x.job) ELSE Placed(p, u)
      BY <2>3, PlacedAppend
    <3> QED BY <2>3, <3>1, Zenon
  <2>5. For(p, x) => x.job \in V
    BY DEF For, Effects
  <2> HIDE DEF V
  <2> QED BY <2>4, <2>5, Zenon
<1>8. CASE CarryEffect
  <2>1. carry' \o queue' = carry \o queue
    <3> DEFINE h == Head(queue)  t == Tail(queue)
    <3>1. /\ h \in Effects /\ t \in Seq(Effects) /\ queue = <<h>> \o t
          /\ <<h>> \in Seq(Effects)
      BY <1>1, <1>8 DEF CarryEffect
    <3>2. carry' = Append(carry, h) /\ queue' = t
      BY <1>8 DEF CarryEffect
    <3> HIDE DEF h, t
    <3>3. Append(carry, h) = carry \o <<h>>
      BY <1>1, <3>1
    <3>4. (carry \o <<h>>) \o t = carry \o (<<h>> \o t)
      <4> DEFINE E == Effects
      <4>1. carry \in Seq(E) /\ <<h>> \in Seq(E) /\ t \in Seq(E)
        BY <1>1, <3>1
      <4> HIDE DEF E
      <4> QED BY <4>1, ConcatAssociative
    <3> QED BY <3>1, <3>2, <3>3, <3>4, Zenon
  <2> QED BY <2>1, Zenon
<1>9. CASE ApplyDefer \/ ApplyNotify
  <2> DEFINE h == Head(queue)  t == Tail(queue)
  <2>1. queue # <<>> /\ queue' = t /\ carry' = carry
    BY <1>9 DEF ApplyDefer, ApplyNotify
  <2>2. t \in Seq(Effects) /\ h \in Effects
    BY <1>1, <2>1
  <2>3. old = Placed(p, carry) \o Placed(p, queue)
    BY <1>1, PlacedConcat
  <2>4. new = Placed(p, carry) \o Placed(p, t)
    <3>1. Placed(p, carry \o t) = Placed(p, carry) \o Placed(p, t)
      <4> HIDE DEF t
      <4> QED BY <1>1, <2>2, PlacedConcat
    <3> QED BY <2>1, <3>1, Zenon
  <2>5. Placed(p, queue) = Job(p, h) \o Placed(p, t)
    BY <1>1, <2>1, PlacedHead
  <2>6. Placed(p, t) \in Seq(V)
    <3> HIDE DEF t
    <3> QED BY <2>2, PlacedType
  <2>7. CASE ~For(p, h)
    <3>1. Job(p, h) = <<>>
      BY <2>7 DEF Job
    <3> DEFINE w == Placed(p, t)
    <3> HIDE DEF w, V
    <3>2. <<>> \o w = w
      BY <2>6 DEF w
    <3>3. Placed(p, queue) = Placed(p, t)
      BY <2>5, <3>1, <3>2, Zenon DEF w
    <3> QED BY <2>3, <2>4, <3>3, Zenon
  <2>8. CASE For(p, h)
    <3>1. Admits(p)
      BY <1>9, <2>8 DEF ApplyDefer, ApplyNotify, For
    <3>2. \A i \in 1 .. Len(carry) : ~For(p, carry[i])
      BY <3>1 DEF FlowInv, Waits, For
    <3>3. Placed(p, carry) = <<>>
      BY <1>1, <3>2, PlacedNone
    <3> DEFINE w == Placed(p, t)  j == h.job
    <3>4. Job(p, h) = <<j>> /\ j \in V
      BY <2>2, <2>8 DEF Job, For, Effects
    <3>5. old = <<>> \o (<<j>> \o w) /\ new = <<>> \o w
      BY <2>3, <2>4, <2>5, <3>3, <3>4, Zenon
    <3> HIDE DEF w, j, V, old, new
    <3>6. old # <<>> /\ new = Tail(old)
      BY <2>6, <3>4, <3>5 DEF w
    <3> QED BY <3>6 DEF Fifo
  <2> QED BY <2>7, <2>8
<1> HIDE DEF old, new, V
<1> QED BY <1>1, <1>3, <1>4, <1>5, <1>6, <1>7, <1>8, <1>9, FlowKinds

-----------------------------------------------------------------------------
(* The theorems.                                                           *)

LEMMA SetInvariant == Spec => [](TypeInv /\ SetInv)
<1>1. Init => TypeInv /\ SetInv
  BY TypeInit, SetInit
<1>2. (TypeInv /\ SetInv) /\ [Next]_vars => (TypeInv /\ SetInv)'
  BY TypeStep, SetStep
<1> QED BY <1>1, <1>2, PTL DEF Spec

\* Whatever an observer does to the set that calls it - subscribe, unsubscribe,
\* drop the entity, notify again, panic -, and however many there are, a
\* subscriber with a live Subscription on a live entity is not lost by retain.
THEOREM SubscribersAreKept == Spec => []LiveSubscribersAreKept
<1>1. TypeInv /\ SetInv /\ KeptInv /\ [Next]_vars => KeptInv'
  BY KeptStep
<1>2. KeptInv => LiveSubscribersAreKept
  BY DEF KeptInv
<1> QED BY <1>1, <1>2, KeptInit, SetInvariant, PTL DEF Spec

\* The deduplication of push_effect never swallows a notify: whoever was
\* active at the time is in a pass, or its emitter is pending.
THEOREM NotifiesAreOwed == Spec => []OwedIsScheduled
<1>1. TypeInv /\ SetInv /\ KeptInv /\ OwedInv /\ [Next]_vars => KeptInv' /\ OwedInv'
  BY KeptStep, OwedStep
<1>2. OwedInv => OwedIsScheduled
  BY DEF OwedInv
<1> QED BY <1>1, <1>2, KeptInit, OwedInit, SetInvariant, PTL DEF Spec

\* A drop that the set could see takes the subscriber out for good, also when
\* it happens while the subscriber itself or one beside it is being called.
THEOREM DroppedSubscribersGo == Spec => []DropsAreHonoured
<1>1. TypeInv /\ SetInv /\ GoneInv /\ [Next]_vars => GoneInv'
  BY GoneStep
<1>2. GoneInv => DropsAreHonoured
  BY DEF GoneInv, DropsAreHonoured
<1> QED BY <1>1, <1>2, GoneInit, SetInvariant, PTL DEF Spec

LEMMA FlowInvariant == Spec => [](TypeInv /\ SetInv /\ FlowInv)
<1>1. TypeInv /\ SetInv /\ FlowInv /\ [Next]_vars => FlowInv'
  BY FlowStep
<1> QED BY <1>1, FlowInit, SetInvariant, PTL DEF Spec

\* The callbacks deferred to one placement run in the order in which they were
\* deferred, whatever flush or phase carries them over.
THEOREM DefersStayInOrder == Spec => DefersKeepOrder
<1> DEFINE InOrder ==
      panics' = panics =>
        \A p \in Placements :
          LET old == Placed(p, carry \o queue)
              new == Placed(p, carry' \o queue')
          IN  \/ new = old
              \/ new # <<>> /\ Front(new) = old
              \/ old # <<>> /\ new = Tail(old)
<1>1. TypeInv /\ SetInv /\ FlowInv /\ [Next]_vars => [InOrder]_vars
  BY OrderStep DEF Fifo
<1>2. DefersKeepOrder <=> [][InOrder]_vars
  BY DEF DefersKeepOrder
<1> HIDE DEF InOrder
<1> QED BY <1>1, <1>2, FlowInvariant, PTL DEF Spec

\* A callback that a phase defers to the start of the next frame does not run
\* before the frame that queued it is over.
THEOREM NextFrameWaits == Spec => NextFrameStartWaits
<1> DEFINE Waited == Starts("NextFrameStart") /\ scope # "Legacy" => Head(queue).born # "frame"
<1>1. TypeInv /\ SetInv /\ FlowInv /\ [Next]_vars => [Waited]_vars
  BY StartsWait
<1>2. NextFrameStartWaits <=> [][Waited]_vars
  BY DEF NextFrameStartWaits
<1> HIDE DEF Waited
<1> QED BY <1>1, <1>2, FlowInvariant, PTL DEF Spec

-----------------------------------------------------------------------------
(* What the variables hold, within the bounds.                             *)

\* The counter of updates is what the top of the stack was called with, but
\* for what user code opened since.
CountInv ==
  /\ pendingUpdates \in 0 .. MaxNesting
  /\ flushing \in BOOLEAN
  /\ at = "rest" => pendingUpdates = 0
  /\ at \in {"drain", "pass"} => pendingUpdates = Base

\* An effect is queued only where there is room, and moves between the queues.
RoomInv == Len(queue) + Len(carry) <= MaxQueue

\* Nothing but entities and subscribers is recorded.
RecordInv ==
  /\ pending \subseteq Emitters
  /\ active \subseteq Ids /\ owed \subseteq Ids /\ excused \subseteq Ids /\ missed \subseteq Ids
  /\ panics \in 0 .. MaxPanics
  /\ ~InPass => pass = NoPass

LEMMA CountStep == TypeInv /\ PlaceInv /\ CountInv /\ [Next]_vars => CountInv'
<1> SUFFICES ASSUME TypeInv, PlaceInv, CountInv, [Next]_vars PROVE CountInv'
  OBVIOUS
<1>0. /\ at \notin {"rest", "body"} => flushing
      /\ at \in {"rest", "body", "drain", "pass", "callback", "deferred", "phase"}
      /\ at = "phase" => scope = "Phase"
      /\ MaxNesting \in Nat /\ MaxNesting >= 1
  BY BoundsAssumption DEF TypeInv, PlaceInv
<1> USE DEF CountInv, Base, UserCode
<1>1. CASE Callbacks
  BY <1>1 DEF Callbacks, Observe, NotifyObservers, PushNotify, DropEntity,
              DropSubscription, DeferTo, stack
<1>2. CASE StartUpdate
  BY <1>0, <1>2 DEF StartUpdate
<1>3. CASE FinishUpdate
  <2>1. Base \in {0, 1} /\ pendingUpdates > Base /\ pendingUpdates \in 1 .. MaxNesting
    BY <1>0, <1>3 DEF FinishUpdate
  <2>2. CASE ~flushing /\ pendingUpdates = 1
    BY <1>0, <1>3, <2>2 DEF FinishUpdate
  <2>3. CASE ~ (~flushing /\ pendingUpdates = 1)
    <3>1. /\ pendingUpdates' = pendingUpdates - 1 /\ flushing' = flushing
          /\ at' = IF at = "body" /\ pendingUpdates = 1 THEN "rest" ELSE at
          /\ at \in {"body", "callback", "deferred", "phase"}
      BY <1>3, <2>3 DEF FinishUpdate
    <3>2. pendingUpdates' \in 0 .. MaxNesting /\ (pendingUpdates = 1 => pendingUpdates' = 0)
      BY <1>0, <2>1, <3>1
    <3> QED BY <3>1, <3>2
  <2> QED BY <2>2, <2>3
<1>4. CASE RunFrame
  BY <1>4 DEF RunFrame
<1>5. CASE Drain
  BY <1>5 DEF Drain, CarryEffect, ApplyDefer, ApplyNotify
<1>6. CASE Pass
  BY <1>6 DEF Pass, SkipInert, SkipReleased, CallObserver, EndPass, app
<1>7. CASE Returns
  BY <1>0, <1>7 DEF Returns, ObserverReturns, DeferReturns, EndPhaseBody, app
<1>8. CASE Ends
  <2>1. CASE UpdateEnds
    <3>1. /\ scope = "Legacy" /\ at = "drain" /\ pendingUpdates = 1
          /\ pendingUpdates' = pendingUpdates - 1 /\ flushing' = FALSE /\ at' = "rest"
      BY <2>1 DEF UpdateEnds, FlushEnds
    <3>2. pendingUpdates' = 0 /\ 0 \in 0 .. MaxNesting
      BY <1>0, <3>1
    <3> QED BY <3>1, <3>2
  <2>2. CASE EnterPhase
    BY <2>2 DEF EnterPhase, FlushEnds
  <2>3. CASE LeavePhase
    BY <2>3 DEF LeavePhase, FlushEnds
  <2>4. CASE FrameEnds
    BY <2>4 DEF FrameEnds, FlushEnds
  <2> QED BY <1>8, <2>1, <2>2, <2>3, <2>4 DEF Ends
<1>9. CASE Abort
  <2>1. 0 \in 0 .. MaxNesting /\ 1 \in 0 .. MaxNesting
    BY <1>0
  <2>2. CASE AbortUpdate
    BY <2>1, <2>2 DEF AbortUpdate
  <2>3. CASE AbortFrame
    BY <2>1, <2>3 DEF AbortFrame
  <2>4. CASE AbortIdle
    BY <2>1, <2>4 DEF AbortIdle
  <2> QED BY <1>9, <2>2, <2>3, <2>4 DEF Abort
<1>10. CASE UNCHANGED vars
  BY <1>10 DEF vars, stack
<1> QED BY <1>1, <1>2, <1>3, <1>4, <1>5, <1>6, <1>7, <1>8, <1>9, <1>10 DEF Next

LEMMA RoomStep == TypeInv /\ SetInv /\ RoomInv /\ [Next]_vars => RoomInv'
<1> SUFFICES ASSUME TypeInv, SetInv, RoomInv, [Next]_vars PROVE RoomInv'
  OBVIOUS
<1>1. /\ queue \in Seq(Effects) /\ carry \in Seq(Effects)
      /\ Len(queue) \in Nat /\ Len(carry) \in Nat /\ MaxQueue \in Nat
  BY BoundsAssumption DEF TypeInv
<1>2. ASSUME NEW x, queue' = Append(queue, x), carry' = carry, Room PROVE RoomInv'
  <2>1. Len(queue') = Len(queue) + 1
    BY <1>1, <1>2
  <2> QED BY <1>1, <1>2, <2>1 DEF Room, RoomInv
<1>3. ASSUME UNCHANGED <<queue, carry>> PROVE RoomInv'
  BY <1>3 DEF RoomInv
<1>4. ASSUME NEW q \in Seq(Effects) PROVE Len(Aged(q)) = Len(q)
  <2>1. DOMAIN Aged(q) = 1 .. Len(q) /\ Len(q) \in Nat /\ Aged(q) \in Seq(Effects)
    BY AgedType DEF Aged
  <2> QED BY <2>1
<1>5. CASE Callbacks
  <2>1. ASSUME NEW e \in Emitters, Observe(e) PROVE RoomInv'
    BY <1>2, <2>1 DEF Observe, stack
  <2>2. ASSUME NEW e \in Emitters, PushNotify(e) PROVE RoomInv'
    BY <1>2, <1>3, <2>2 DEF PushNotify, stack
  <2>3. ASSUME NEW e \in Emitters, DropEntity(e) PROVE RoomInv'
    BY <1>3, <2>3 DEF DropEntity, stack
  <2>4. ASSUME NEW i \in Ids, DropSubscription(i) PROVE RoomInv'
    BY <1>3, <2>4 DEF DropSubscription, stack
  <2>5. ASSUME NEW p \in Placements, NEW j \in Jobs, DeferTo(p, j) PROVE RoomInv'
    BY <1>2, <2>5 DEF DeferTo, stack
  <2> QED BY <1>5, <2>1, <2>2, <2>3, <2>4, <2>5 DEF Callbacks, NotifyObservers
<1>6. CASE StartUpdate \/ FinishUpdate
  BY <1>3, <1>6 DEF StartUpdate, FinishUpdate, app
<1>7. CASE RunFrame
  BY <1>1, <1>4, <1>7 DEF RunFrame, RoomInv
<1>8. CASE Drain
  <2>1. queue # <<>> => Len(Tail(queue)) = Len(queue) - 1
    BY <1>1
  <2>2. Len(Append(carry, Head(queue))) = Len(carry) + 1
    BY <1>1
  <2> QED BY <1>1, <1>8, <2>1, <2>2 DEF Drain, CarryEffect, ApplyDefer, ApplyNotify, RoomInv
<1>9. CASE Pass \/ Returns
  BY <1>3, <1>9 DEF Pass, SkipInert, SkipReleased, CallObserver, EndPass,
                    Returns, ObserverReturns, DeferReturns, EndPhaseBody, app
<1>10. CASE Ends
  <2>1. FlushEnds
    BY <1>10 DEF Ends, UpdateEnds, EnterPhase, LeavePhase, FrameEnds
  <2> QED BY <1>1, <2>1 DEF FlushEnds, RoomInv
<1>11. CASE Abort
  <2>1. carry' = <<>> /\ (queue' = queue \/ queue' = Aged(queue))
    BY <1>11 DEF Abort, AbortUpdate, AbortFrame, AbortIdle, Unwind
  <2> QED BY <1>1, <1>4, <2>1 DEF RoomInv
<1>12. CASE UNCHANGED vars
  BY <1>3, <1>12 DEF vars, app, stack
<1> QED BY <1>5, <1>6, <1>7, <1>8, <1>9, <1>10, <1>11, <1>12 DEF Next

LEMMA RecordStep == TypeInv /\ SetInv /\ RecordInv /\ [Next]_vars => RecordInv'
<1> SUFFICES ASSUME TypeInv, SetInv, RecordInv, [Next]_vars PROVE RecordInv'
  OBVIOUS
<1> USE DEF RecordInv, InPass, UserCode
<1>1. Taking \subseteq Ids
  BY DEF TypeInv, Taking
<1>2. CASE Callbacks
  <2>1. ASSUME NEW e \in Emitters, Observe(e) PROVE RecordInv'
    BY <2>1 DEF Observe, stack, history
  <2>2. ASSUME NEW e \in Emitters, PushNotify(e) PROVE RecordInv'
    BY <2>2 DEF PushNotify, stack
  <2>3. ASSUME NEW e \in Emitters, DropEntity(e) PROVE RecordInv'
    BY <2>3 DEF DropEntity, stack
  <2>4. ASSUME NEW i \in Ids, DropSubscription(i) PROVE RecordInv'
    BY <2>4 DEF DropSubscription, stack
  <2>5. ASSUME NEW p \in Placements, NEW j \in Jobs, DeferTo(p, j) PROVE RecordInv'
    BY <2>5 DEF DeferTo, stack, history
  <2> QED BY <1>2, <2>1, <2>2, <2>3, <2>4, <2>5 DEF Callbacks, NotifyObservers
<1>3. CASE StartUpdate \/ FinishUpdate
  BY <1>3 DEF StartUpdate, FinishUpdate, app, history, TypeInv
<1>4. CASE RunFrame
  BY <1>4 DEF RunFrame, history
<1>5. CASE Drain
  BY <1>5 DEF Drain, CarryEffect, ApplyDefer, ApplyNotify, history
<1>6. CASE Pass
  <2>1. pass.todo # {} => Due \in Ids
    <3>1. pass.todo \subseteq Ids /\ pass.todo \in SUBSET Nat
      BY IdsAreNat DEF TypeInv
    <3> QED BY <3>1, LeastIn DEF Due
  <2>2. CASE SkipInert \/ CallObserver
    BY <2>2 DEF SkipInert, CallObserver, app, history
  <2>3. CASE SkipReleased
    BY <2>1, <2>3 DEF SkipReleased, app
  <2>4. CASE EndPass
    BY <2>4 DEF EndPass, history
  <2> QED BY <1>6, <2>2, <2>3, <2>4 DEF Pass
<1>7. CASE Returns
  <2>1. ASSUME NEW again \in BOOLEAN, ObserverReturns(again) PROVE RecordInv'
    <3>1. pass.now \in Ids
      BY <2>1 DEF ObserverReturns, TypeInv
    <3> QED BY <2>1, <3>1 DEF ObserverReturns, app
  <2>2. CASE DeferReturns \/ EndPhaseBody
    BY <2>2 DEF DeferReturns, EndPhaseBody, app, history
  <2> QED BY <1>7, <2>1, <2>2 DEF Returns
<1>8. CASE Ends
  BY <1>8 DEF Ends, UpdateEnds, EnterPhase, LeavePhase, FrameEnds, FlushEnds, history
<1>9. CASE Abort
  <2>1. Unwind /\ active' = active /\ at' \in {"rest", "drain"}
    BY <1>9 DEF Abort, AbortUpdate, AbortFrame, AbortIdle, Unwind
  <2>2. excused' = excused \cup Taking /\ owed' = owed \ Taking
    BY <2>1 DEF Unwind, Taking
  <2>3. panics' \in 0 .. MaxPanics
    BY <2>1, BoundsAssumption DEF Unwind
  <2> QED BY <1>1, <2>1, <2>2, <2>3 DEF Unwind
<1>10. CASE UNCHANGED vars
  BY <1>10 DEF vars, app, stack, history
<1> QED BY <1>2, <1>3, <1>4, <1>5, <1>6, <1>7, <1>8, <1>9, <1>10 DEF Next

\* The keys of a well-formed set are no more than the subscribers there may be.
LEMMA WellFormedType == ASSUME NEW set, WellFormed(set) PROVE set \in SubscriberSets
<1>1. set \in SetType /\ Len(set.keys) \in 0 .. MaxSubs
  BY MaxSubsAssumption DEF WellFormed, SetType
<1>2. set.keys \in [1 .. Len(set.keys) -> Emitters]
  BY <1>1 DEF SetType
<1>3. set.keys \in UNION {[1 .. n -> Emitters] : n \in 0 .. MaxSubs}
  BY <1>1, <1>2
<1> QED BY <1>1, <1>3 DEF SetType, SubscriberSets

\* The variables hold what they are meant to: pending_updates neither wraps
\* below zero nor outgrows the nesting, wherever a panic cuts the stack, also
\* in the Idle drain (finish_update, abort_update_after_panic).
THEOREM AppTypes == Spec => []TypeOK
<1> DEFINE BoundInv == CountInv /\ RoomInv /\ RecordInv
<1>1. Init => BoundInv
  <2> SUFFICES ASSUME Init PROVE BoundInv
    OBVIOUS
  <2>1. 0 \in 0 .. MaxNesting /\ 0 \in 0 .. MaxPanics /\ 0 <= MaxQueue
    BY BoundsAssumption
  <2>2. CountInv
    BY <2>1 DEF Init, CountInv
  <2>3. RoomInv
    BY <2>1 DEF Init, RoomInv
  <2>4. RecordInv
    BY <2>1 DEF Init, RecordInv
  <2> QED BY <2>2, <2>3, <2>4
<1>2. TypeInv /\ SetInv /\ FlowInv /\ BoundInv /\ [Next]_vars => BoundInv'
  BY CountStep, RoomStep, RecordStep DEF FlowInv
<1>3. TypeInv /\ SetInv /\ FlowInv /\ BoundInv => TypeOK
  <2> SUFFICES ASSUME TypeInv, SetInv, FlowInv, BoundInv PROVE TypeOK
    OBVIOUS
  <2>1. observers \in SubscriberSets
    BY WellFormedType DEF SetInv
  <2>2. phase \in Range(FramePhases) \cup {"Idle"}
    <3>1. DOMAIN FramePhases = 1 .. 7
      BY DEF FramePhases
    <3>2. /\ FramePhases[1] = "PreFrame" /\ FramePhases[2] = "AnimationTick"
          /\ FramePhases[3] = "Build" /\ FramePhases[4] = "Layout"
          /\ FramePhases[5] = "Prepaint" /\ FramePhases[6] = "Paint"
          /\ FramePhases[7] = "PostFrame"
      BY DEF FramePhases
    <3>3. \A n \in 1 .. 7 : FramePhases[n] \in Range(FramePhases)
      BY <3>1 DEF Range
    <3>4. 1 \in 1 .. 7 /\ 2 \in 1 .. 7 /\ 3 \in 1 .. 7 /\ 4 \in 1 .. 7 /\ 5 \in 1 .. 7
          /\ 6 \in 1 .. 7 /\ 7 \in 1 .. 7
      OBVIOUS
    <3>5. {"PreFrame", "AnimationTick", "Build", "Layout", "Prepaint", "Paint", "PostFrame"}
            \subseteq Range(FramePhases)
      BY <3>2, <3>3, <3>4, Zenon
    <3> QED BY <3>5 DEF FlowInv, PlaceInv
  <2>3. pass \in [emitter : Emitters, todo : SUBSET Ids, kept : SUBSET Ids, now : Ids \cup {0}]
                  \cup {NoPass}
    <3>1. CASE InPass
      BY <3>1 DEF TypeInv, SetInv
    <3>2. CASE ~InPass
      BY <3>2 DEF RecordInv
    <3> QED BY <3>1, <3>2
  <2>4. scope \in {"Legacy", "Phase", "PhasePost"}
    BY DEF FlowInv, PlaceInv
  <2>5. held \subseteq Known(observers)
    BY DEF SetInv
  <2> QED BY <2>1, <2>2, <2>3, <2>4, <2>5
          DEF TypeOK, TypeInv, CountInv, RoomInv, RecordInv
<1> HIDE DEF BoundInv
<1> QED BY <1>1, <1>2, <1>3, FlowInvariant, PTL DEF Spec
=============================================================================
