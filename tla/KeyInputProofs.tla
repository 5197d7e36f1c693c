--------------------------- MODULE KeyInputProofs ---------------------------
(***************************************************************************)
(* What the focus listeners and the observers of pending input have been   *)
(* told, and what became of the keystrokes typed, for every tree of        *)
(* elements and every keymap.                                              *)
(*                                                                         *)
(* What Flush and DispatchKey make of a sequence is a recursion on what is *)
(* left of it.  A statement about all its values is proved with the        *)
(* smallest counterexample: DownRecursion shows that the function exists,  *)
(* and the lemma that uses it takes the place nearest to the end where the *)
(* statement fails.  Which bindings are found, how long a bound prefix is  *)
(* beyond its bounds, and PathIn stay unexpanded: nothing depends on them. *)
(***************************************************************************)
EXTENDS KeyInput, SequenceTheorems, WellFoundedInduction, TLAPS

-----------------------------------------------------------------------------
\* The elements and the focus are what the model says they are.
Places ==
  /\ shown \subseteq Elements /\ frame.shown \subseteq Elements
  /\ focus \in Elements \cup {"none"}
  /\ frame = [shown |-> frame.shown, focus |-> frame.focus, active |-> frame.active]

\* What the listeners were told last is what the frame holds.
ToldOfFrame == told.now = IF frame.active THEN FocusPath(frame) ELSE <<>>

\* A window that is not dirty shows its state, but for a focus that was
\* moved while it was drawn.
FrameIsCurrent ==
  ~dirty =>
    /\ frame.shown = shown /\ frame.active = active
    /\ ~restored => frame.focus = NextFrame.focus

FrameInv == Places /\ ToldOfFrame /\ FrameIsCurrent

\* The steps that leave the frame alone, and make the window dirty when
\* they change anything a frame shows.
LeavesFrame ==
  /\ UNCHANGED <<frame, told, restored>>
  /\ shown' \subseteq Elements /\ focus' \in Elements \cup {"none"}
  /\ dirty' \/ UNCHANGED <<focus, shown, active, dirty>>

LEMMA FrameInit == Init => FrameInv
  BY DEF Init, FrameInv, Places, ToldOfFrame, FrameIsCurrent, FocusPath, PathIn

LEMMA MoveFocusStays ==
  ASSUME Places, MoveFocus
  PROVE  focus' \in Elements \cup {"none"}
  BY DEF Places, MoveFocus, FocusOff, FocusOn

\* Every step but Draw.
LEMMA LeavingFrame ==
  ASSUME FrameInv, [Next]_vars, ~Draw
  PROVE  LeavesFrame
<1> USE DEF FrameInv, Places, LeavesFrame
<1>1. CASE Refocus
  BY <1>1, MoveFocusStays DEF Refocus
<1>2. CASE Activate \/ BindKeys \/ ClearPending \/ RunDeferred
  BY <1>2 DEF Activate, BindKeys, ClearPending, RunDeferred, window
<1>3. ASSUME NEW elements \in SUBSET Elements, Render(elements) PROVE LeavesFrame
  BY <1>3 DEF Render
<1>4. ASSUME NEW key \in Keys, KeyDown(key) PROVE LeavesFrame
  BY <1>4 DEF KeyDown, window
<1>5. CASE Timeout \/ Keep
  BY <1>5 DEF Timeout, Keep, window
<1>6. ASSUME MayMoveFocus PROVE LeavesFrame
  BY <1>6, MoveFocusStays DEF MayMoveFocus, window
<1>7. CASE Replay
  BY <1>6, <1>7 DEF Replay
<1>8. CASE Finish
  BY <1>6, <1>8 DEF Finish, window
<1>9. CASE UNCHANGED vars
  BY <1>9 DEF vars, window
<1> QED
  BY <1>1, <1>2, <1>3, <1>4, <1>5, <1>7, <1>8, <1>9 DEF Next

\* A drawn frame holds the state, and the event names its path.
LEMMA Drawing ==
  ASSUME FrameInv, Draw
  PROVE  FrameInv'
<1>1. /\ frame' = NextFrame /\ shown' = shown /\ active' = active /\ dirty' = FALSE
      /\ ~restored' => focus' = focus
  BY DEF Draw
<1>2. /\ frame'.shown = shown /\ frame'.active = active
      /\ frame'.focus = IF focus \in shown THEN focus ELSE "none"
  BY <1>1 DEF NextFrame
<1>3. Places'
  <2>1. focus' \in Elements \cup {"none"}
    BY MoveFocusStays DEF Draw, FrameInv, Places
  <2> QED
    BY <1>1, <1>2, <2>1 DEF FrameInv, Places, NextFrame
<1>4. ToldOfFrame'
  <2>1. CASE Tells
    BY <1>1, <2>1 DEF Draw, Event, ToldOfFrame, FocusPath, NextFrame
  <2>2. CASE ~Tells
    <3>1. told' = told /\ FocusPath(NextFrame) = FocusPath(frame) /\ active = frame.active
      BY <2>2 DEF Draw, Tells
    <3>2. FocusPath(frame)' = FocusPath(frame)
      BY <1>1, <3>1 DEF FocusPath
    <3> QED
      BY <1>2, <3>1, <3>2 DEF ToldOfFrame, FrameInv
  <2> QED
    BY <2>1, <2>2
<1>5. FrameIsCurrent'
  BY <1>1, <1>2 DEF FrameIsCurrent, NextFrame
<1> QED
  BY <1>3, <1>4, <1>5 DEF FrameInv

LEMMA FrameStep == FrameInv /\ [Next]_vars => FrameInv'
<1> SUFFICES ASSUME FrameInv, [Next]_vars, ~Draw PROVE FrameInv'
  BY Drawing
<1>1. LeavesFrame
  BY LeavingFrame
<1> QED
  BY <1>1 DEF LeavesFrame, FrameInv, Places, ToldOfFrame, FrameIsCurrent, FocusPath, NextFrame

\* The focus listeners are told of the element that has the focus in an
\* active window, by the frame that shows it (window.rs:2710-2742).
THEOREM FocusIsTold == Spec => []FocusIsHeard
<1>1. FrameInv => FocusIsHeard
  <2>1. "none" \notin Elements
    BY KeyInputAssumption
  <2> QED
    BY <2>1 DEF FrameInv, Places, ToldOfFrame, FrameIsCurrent, FocusIsHeard, FocusPath,
                NextFrame, PathIn
<1> QED
  BY <1>1, FrameInit, FrameStep, PTL DEF Spec

\* The event of a frame begins with what the last event ended with, so that
\* a listener hears of a focus that goes only after it came.
THEOREM FocusEventsAreChained == Spec => FocusEventsChain
<1>1. FrameInv /\ [Next]_vars => [told' # told => told'.prev = told.now]_vars
  <2> SUFFICES ASSUME FrameInv, [Next]_vars, told' # told PROVE told'.prev = told.now
    OBVIOUS
  <2>1. Draw
    BY LeavingFrame DEF LeavesFrame
  <2> QED
    BY <2>1 DEF Draw, Event, FrameInv, ToldOfFrame
<1> QED
  BY <1>1, FrameInit, FrameStep, PTL DEF Spec, FocusEventsChain

-----------------------------------------------------------------------------
\* A job holds all that is kept, and one started by a timeout keeps nothing.
JobIsAlone ==
  /\ job.for \in {"none", "key", "timeout"}
  /\ job = [replay |-> job.replay, last |-> job.last, keep |-> job.keep, for |-> job.for]
  /\ Idle => job = NoJob
  /\ ~Idle => pending = NoKeys
  /\ job.for = "timeout" => job.keep = NoKeys

\* The observers were called before the replay that a timeout starts.
TimeoutIsHeard == job.for = "timeout" => seen = <<>> \/ deferred

\* Keystrokes outlive the focus they were typed under only by a blur.
KeptUnderFocus == pending # NoKeys => pending.focus = focus \/ focus = "none"

InputInv == JobIsAlone /\ TimeoutIsHeard /\ KeptUnderFocus /\ ObserversAgree

LEMMA InputInit == Init => InputInv
  BY DEF Init, InputInv, JobIsAlone, TimeoutIsHeard, KeptUnderFocus, ObserversAgree,
         NoJob, NoKeys, Idle

\* Moving the focus forgets what is pending, or keeps it without a focus.
LEMMA MovingFocus ==
  ASSUME InputInv, MoveFocus, job' = job, seen' = seen
  PROVE  InputInv'
<1> USE DEF InputInv, JobIsAlone, TimeoutIsHeard, KeptUnderFocus, ObserversAgree, Idle
<1>1. CASE FocusOff
  BY <1>1 DEF FocusOff
<1>2. ASSUME NEW e \in Elements, FocusOn(e) PROVE InputInv'
  BY <1>2 DEF FocusOn, NoKeys
<1> QED
  BY <1>1, <1>2 DEF MoveFocus

LEMMA InputStep == InputInv /\ [Next]_vars => InputInv'
<1> SUFFICES ASSUME InputInv, [Next]_vars PROVE InputInv'
  OBVIOUS
<1> USE DEF InputInv, JobIsAlone, TimeoutIsHeard, KeptUnderFocus, ObserversAgree, Idle
<1>1. CASE Refocus
  BY <1>1, MovingFocus DEF Refocus
<1>2. CASE Activate
  BY <1>2 DEF Activate, keyboard
<1>3. CASE BindKeys
  BY <1>3 DEF BindKeys
<1>4. CASE ClearPending
  BY <1>4 DEF ClearPending, window, NoKeys
<1>5. CASE RunDeferred
  BY <1>5 DEF RunDeferred, window
<1>6. ASSUME NEW elements \in SUBSET Elements, Render(elements) PROVE InputInv'
  BY <1>6 DEF Render, keyboard
<1>7. CASE Draw
  <2>1. CASE UNCHANGED <<focus, pending, deferred>>
    BY <1>7, <2>1 DEF Draw
  <2>2. CASE MoveFocus
    BY <1>7, <2>2, MovingFocus DEF Draw
  <2> QED
    BY <1>7, <2>1, <2>2 DEF Draw
<1>8. ASSUME NEW key \in Keys, KeyDown(key) PROVE InputInv'
  BY <1>8 DEF KeyDown, window
<1>9. CASE Timeout
  <2>1. CASE pending.focus # focus
    BY <1>9, <2>1 DEF Timeout, window
  <2>2. CASE pending.focus = focus
    <3>1. /\ job' = [replay |-> Flush(keymap, pending.keys, Stack), last |-> <<>>,
                     keep |-> NoKeys, for |-> "timeout"]
          /\ pending' = NoKeys /\ seen' = <<>> /\ deferred' = deferred /\ focus' = focus
      BY <1>9, <2>2 DEF Timeout, window, NoJob
    <3> QED
      BY <3>1
  <2> QED
    BY <2>1, <2>2
<1>10. CASE Replay
  <2>1. /\ ~Idle /\ pending = NoKeys
        /\ job' = [replay |-> Tail(job.replay), last |-> job.last, keep |-> job.keep,
                   for |-> job.for]
    <3>1. ~Idle
      BY <1>10 DEF Replay, NoJob
    <3> QED
      BY <1>10, <3>1 DEF Replay
  <2>2. pending' = NoKeys /\ (deferred => deferred') /\ seen' = seen
    BY <1>10, <2>1 DEF Replay, MayMoveFocus, MoveFocus, FocusOff, FocusOn
  <2> QED
    BY <2>1, <2>2
<1>11. CASE Keep
  BY <1>11 DEF Keep, window, NoJob
<1>12. CASE Finish
  <2>1. job' = NoJob /\ pending = NoKeys
    BY <1>12 DEF Finish
  <2>2. CASE job.for = "timeout"
    BY <1>12, <2>1, <2>2 DEF Finish, NoJob, NoKeys
  <2>3. CASE job.for # "timeout"
    <3>1. seen' = <<>> /\ pending' = NoKeys
      BY <1>12, <2>1, <2>3 DEF Finish, MayMoveFocus, MoveFocus, FocusOff, FocusOn
    <3> QED
      BY <2>1, <3>1 DEF NoJob, NoKeys
  <2> QED
    BY <2>2, <2>3
<1>13. CASE UNCHANGED vars
  BY <1>13 DEF vars, window, keyboard
<1> QED
  BY <1>1, <1>2, <1>3, <1>4, <1>5, <1>6, <1>7, <1>8, <1>9, <1>10, <1>11, <1>12, <1>13 DEF Next

\* The observers of pending input saw what is pending, or are about to be
\* called, or the keystrokes timed out without a focus (window.rs:5399-5431).
THEOREM ObserversHearInput == Spec => []ObserversAgree
<1>1. InputInv => ObserversAgree
  BY DEF InputInv
<1> QED
  BY <1>1, InputInit, InputStep, PTL DEF Spec

-----------------------------------------------------------------------------
(* Sequences.                                                              *)

\* Every set of numbers that is not empty has a smallest member.
LEMMA SmallestNat ==
  ASSUME NEW B \in SUBSET Nat, B # {}
  PROVE  \E m \in B : \A l \in B : m <= l
<1> DEFINE R == OpToRel(<, Nat)
<1>1. IsWellFoundedOn(R, Nat)
  BY NatLessThanWellFounded
<1>2. \A x, y \in Nat : <<x, y>> \in R <=> x < y
  BY DEF OpToRel
<1> HIDE DEF R
<1>3. PICK m \in B : \A l \in B : ~ (<<l, m>> \in R)
  BY <1>1, WFMin, Zenon
<1>4. \A l \in B : m \in Nat /\ l \in Nat /\ ~ (l < m)
  BY <1>2, <1>3
<1> QED BY <1>4

\* What is left of a sequence after n of its members.
LEMMA Rest ==
  ASSUME NEW S, NEW s \in Seq(S), NEW n \in 0 .. Len(s)
  PROVE  /\ From(s, n) \in Seq(S)
         /\ Len(From(s, n)) = Len(s) - n
         /\ From(s, n) = <<>> <=> n = Len(s)
<1>1. n + 1 \in Int /\ Len(s) \in Int /\ \A i \in (n + 1) .. Len(s) : s[i] \in S
  OBVIOUS
<1>2. /\ From(s, n) \in Seq(S)
      /\ Len(From(s, n)) = IF n + 1 <= Len(s) THEN Len(s) - (n + 1) + 1 ELSE 0
  BY <1>1, SubSeqProperties DEF From
<1>3. Len(From(s, n)) = Len(s) - n
  BY <1>2
<1> QED BY <1>2, <1>3

\* The first l members of what is left, and what is left after them.
LEMMA CutOne ==
  ASSUME NEW S, NEW s \in Seq(S), NEW n \in 0 .. Len(s), NEW l \in 1 .. (Len(s) - n)
  PROVE  /\ SubSeq(From(s, n), 1, l) \in Seq(S)
         /\ Len(SubSeq(From(s, n), 1, l)) = l
         /\ SubSeq(From(s, n), 1, l) \o From(s, n + l) = From(s, n)
<1> DEFINE r == From(s, n)
<1>1. r \in Seq(S) /\ Len(r) = Len(s) - n
  BY Rest
<1>2. \A i \in 1 .. Len(r) : r[i] = s[n + i]
  <2>1. n + 1 \in Int /\ Len(s) \in Int /\ \A i \in (n + 1) .. Len(s) : s[i] \in S
    OBVIOUS
  <2>2. \A i \in 1 .. Len(s) - (n + 1) + 1 : r[i] = s[(n + 1) + i - 1]
    BY <2>1, SubSeqProperties DEF From
  <2> QED BY <1>1, <2>2
<1> HIDE DEF r
<1> DEFINE a == SubSeq(r, 1, l)
           b == From(s, n + l)
<1>3. a \in Seq(S) /\ Len(a) = l /\ \A i \in 1 .. l : a[i] = r[i]
  <2>1. 1 \in Int /\ l \in Int /\ \A i \in 1 .. l : r[i] \in S
    BY <1>1
  <2>2. /\ a \in Seq(S) /\ Len(a) = IF 1 <= l THEN l - 1 + 1 ELSE 0
        /\ \A i \in 1 .. l - 1 + 1 : a[i] = r[1 + i - 1]
    BY <2>1, SubSeqProperties
  <2> QED BY <1>1, <2>2
<1>4. b \in Seq(S) /\ Len(b) = Len(s) - n - l /\ \A i \in 1 .. Len(b) : b[i] = s[n + l + i]
  <2>1. n + l \in 0 .. Len(s)
    OBVIOUS
  <2>2. b \in Seq(S) /\ Len(b) = Len(s) - (n + l)
    BY <2>1, Rest
  <2>3. n + l + 1 \in Int /\ Len(s) \in Int /\ \A i \in (n + l + 1) .. Len(s) : s[i] \in S
    OBVIOUS
  <2>4. \A i \in 1 .. Len(s) - (n + l + 1) + 1 : b[i] = s[(n + l + 1) + i - 1]
    <3> DEFINE m == n + l + 1
    <3>1. b = SubSeq(s, m, Len(s))
      BY DEF From
    <3> HIDE DEF m, b
    <3>2. \A i \in 1 .. Len(s) - m + 1 : b[i] = s[m + i - 1]
      BY <2>3, <3>1, SubSeqProperties DEF m
    <3> QED BY <3>2 DEF m
  <2> HIDE DEF a, b
  <2>5. n + l \in Nat /\ Len(s) \in Nat /\ Len(b) = Len(s) - n - l
    BY <2>2
  <2>6. \A i \in 1 .. Len(b) : b[i] = s[n + l + i]
    BY <2>2, <2>4, <2>5
  <2> QED BY <2>2, <2>5, <2>6
<1> HIDE DEF a, b
<1>5. /\ a \o b \in Seq(S) /\ Len(a \o b) = l + Len(b)
      /\ \A i \in 1 .. l + Len(b) : (a \o b)[i] = IF i <= l THEN a[i] ELSE b[i - l]
  BY <1>3, <1>4, ConcatProperties
<1>6. ASSUME NEW i \in 1 .. Len(r) PROVE (a \o b)[i] = r[i]
  <2>1. CASE i <= l
    BY <2>1, <1>1, <1>3, <1>4, <1>5
  <2>2. CASE i > l
    <3>1. i - l \in 1 .. Len(b) /\ n + l + (i - l) = n + i /\ i \in 1 .. l + Len(b)
      BY <2>2, <1>1, <1>4
    <3>2. (a \o b)[i] = b[i - l]
      BY <2>2, <3>1, <1>5
    <3>3. b[i - l] = s[n + l + (i - l)]
      BY <3>1, <1>4
    <3>4. r[i] = s[n + i]
      BY <1>2
    <3> QED BY <3>1, <3>2, <3>3, <3>4
  <2>3. i <= l \/ i > l
    BY <1>1
  <2> QED BY <2>1, <2>2, <2>3
<1>7. Len(a \o b) = Len(r)
  BY <1>1, <1>4, <1>5
<1>8. \A i \in 1 .. Len(a \o b) : (a \o b)[i] = r[i]
  BY <1>6, <1>7
<1>9. a \o b = r
  BY <1>1, <1>5, <1>7, <1>8, SeqEqual
<1> QED BY <1>3, <1>9 DEF a, b, r

\* The equation of FlattenSeq's local function, for the first n sequences.
Flattens(f, ss, n) ==
  f = [i \in 1 .. n |-> IF i = 1 THEN ss[i] ELSE f[i - 1] \o ss[i]]

LEMMA FlattenExists ==
  ASSUME NEW S, NEW ss \in Seq(Seq(S)), NEW n \in 1 .. Len(ss)
  PROVE  \E f : Flattens(f, ss, n)
<1> DEFINE B == {m \in 1 .. Len(ss) : ~ \E f : Flattens(f, ss, m)}
<1>1. SUFFICES ASSUME B # {} PROVE FALSE
  OBVIOUS
<1>2. B \in SUBSET Nat
  OBVIOUS
<1>3. PICK m \in B : \A l \in B : m <= l
  BY <1>1, <1>2, SmallestNat
<1>4. m # 1
  <2>1. Flattens([i \in 1 .. 1 |-> ss[i]], ss, 1)
    BY DEF Flattens
  <2>2. 1 \notin B
    BY <2>1
  <2> QED BY <1>3, <2>2
<1>5. m \in 1 .. Len(ss) /\ m - 1 \in 1 .. Len(ss) /\ m - 1 \notin B
  <2>1. m \in 1 .. Len(ss) /\ Len(ss) \in Nat
    BY <1>3
  <2>2. m - 1 \in 1 .. Len(ss) /\ ~(m <= m - 1)
    BY <1>4, <2>1
  <2> QED BY <1>3, <2>1, <2>2
<1>6. PICK g : Flattens(g, ss, m - 1)
  BY <1>5
<1> DEFINE f == [i \in 1 .. m |-> IF i = m
                                  THEN g[m - 1] \o ss[m]
                                  ELSE g[i]]
<1>7. ASSUME NEW i \in 1 .. m
      PROVE  f[i] = IF i = 1 THEN ss[i] ELSE f[i - 1] \o ss[i]
  <2>1. CASE i = m
    <3>1. i # 1 /\ i - 1 \in 1 .. m /\ i - 1 # m
      BY <1>5, <2>1
    <3> QED BY <2>1, <3>1
  <2>2. CASE i # m
    <3>1. i \in 1 .. (m - 1)
      BY <1>5, <2>2
    <3>2. g[i] = IF i = 1 THEN ss[i] ELSE g[i - 1] \o ss[i]
      BY <1>6, <3>1 DEF Flattens
    <3>3. i # 1 => i - 1 \in 1 .. m /\ i - 1 # m
      BY <1>5, <3>1
    <3> QED BY <2>2, <3>2, <3>3
  <2> QED BY <2>1, <2>2
<1>8. Flattens(f, ss, m)
  BY <1>7 DEF Flattens
<1> QED BY <1>3, <1>8

LEMMA FlattenedType ==
  ASSUME NEW S, NEW ss \in Seq(Seq(S)), NEW f, Flattens(f, ss, Len(ss)), NEW n \in 1 .. Len(ss)
  PROVE  f[n] \in Seq(S)
<1> DEFINE B == {m \in 1 .. Len(ss) : f[m] \notin Seq(S)}
<1>1. SUFFICES ASSUME B # {} PROVE FALSE
  OBVIOUS
<1>2. B \in SUBSET Nat
  OBVIOUS
<1>3. PICK m \in B : \A l \in B : m <= l
  BY <1>1, <1>2, SmallestNat
<1>4. m \in 1 .. Len(ss) /\ ss[m] \in Seq(S) /\ f[m] \notin Seq(S)
  BY <1>3
<1>5. f[m] = IF m = 1 THEN ss[m] ELSE f[m - 1] \o ss[m]
  BY <1>4 DEF Flattens
<1>6. m # 1
  BY <1>4, <1>5
<1>7. m - 1 \in 1 .. Len(ss) /\ m - 1 \notin B
  BY <1>3, <1>4, <1>6
<1>8. f[m - 1] \in Seq(S)
  BY <1>7
<1> QED BY <1>4, <1>5, <1>6, <1>8

\* A flattened sequence has the members of the parts.
LEMMA FlattenType ==
  ASSUME NEW S, NEW ss \in Seq(Seq(S))
  PROVE  FlattenSeq(ss) \in Seq(S)
<1>1. CASE Len(ss) = 0
  <2>1. ss = <<>>
    BY <1>1
  <2> QED BY <1>1, <2>1 DEF FlattenSeq
<1>2. CASE Len(ss) # 0
  <2> DEFINE F == CHOOSE f : Flattens(f, ss, Len(ss))
  <2>1. Len(ss) \in 0 .. Len(ss) /\ Len(ss) \in 1 .. Len(ss)
    BY <1>2
  <2>2. Flattens(F, ss, Len(ss))
    BY <2>1, FlattenExists
  <2>3. F[Len(ss)] \in Seq(S)
    BY <2>1, <2>2, FlattenedType
  <2>4. FlattenSeq(ss) = F[Len(ss)]
    BY <1>2 DEF FlattenSeq, Flattens
  <2> QED BY <2>3, <2>4
<1> QED BY <1>1, <1>2

LEMMA FlattenIs ==
  ASSUME NEW S, NEW ss \in Seq(Seq(S)), ss # <<>>
  PROVE  \E f : Flattens(f, ss, Len(ss)) /\ FlattenSeq(ss) = f[Len(ss)]
<1> DEFINE F == CHOOSE f : Flattens(f, ss, Len(ss))
<1>1. Len(ss) # 0 /\ Len(ss) \in 1 .. Len(ss)
  OBVIOUS
<1>2. Flattens(F, ss, Len(ss))
  BY <1>1, FlattenExists
<1>3. FlattenSeq(ss) = F[Len(ss)]
  BY <1>1 DEF FlattenSeq, Flattens
<1> QED BY <1>2, <1>3

LEMMA FlattenNothing == FlattenSeq(<<>>) = <<>>
BY DEF FlattenSeq

\* The first of the sequences comes first.
LEMMA FlattenCons ==
  ASSUME NEW S, NEW x \in Seq(S), NEW t \in Seq(Seq(S))
  PROVE  FlattenSeq(<<x>> \o t) = x \o FlattenSeq(t)
<1>0. \A p, q, r \in Seq(S) : (p \o q) \o r = p \o (q \o r)
  BY ConcatAssociative
<1> DEFINE ss == <<x>> \o t
<1>1. /\ ss \in Seq(Seq(S)) /\ Len(ss) = Len(t) + 1 /\ ss # <<>> /\ ss[1] = x
      /\ \A i \in 1 .. Len(t) : ss[i + 1] = t[i]
  OBVIOUS
<1> HIDE DEF ss
<1>2. PICK f : Flattens(f, ss, Len(ss)) /\ FlattenSeq(ss) = f[Len(ss)]
  BY <1>1, FlattenIs
<1>3. \A i \in 1 .. Len(ss) : f[i] = IF i = 1 THEN ss[i] ELSE f[i - 1] \o ss[i]
  BY <1>2 DEF Flattens
<1>4. f[1] = x
  BY <1>1, <1>3
<1>5. CASE t = <<>>
  <2>1. Len(ss) = 1 /\ x \o <<>> = x
    BY <1>1, <1>5
  <2> QED BY <1>2, <1>4, <1>5, <2>1, FlattenNothing DEF ss
<1>6. CASE t # <<>>
  <2>1. PICK g : Flattens(g, t, Len(t)) /\ FlattenSeq(t) = g[Len(t)]
    BY <1>6, FlattenIs
  <2>2. \A i \in 1 .. Len(t) : g[i] = IF i = 1 THEN t[i] ELSE g[i - 1] \o t[i]
    BY <2>1 DEF Flattens
  <2> DEFINE B == {m \in 1 .. Len(t) : f[m + 1] # x \o g[m]}
  <2>3. B = {}
    <3>1. SUFFICES ASSUME B # {} PROVE FALSE
      OBVIOUS
    <3>2. B \in SUBSET Nat
      OBVIOUS
    <3>3. PICK m \in B : \A l \in B : m <= l
      BY <3>1, <3>2, SmallestNat
    <3>4. /\ m \in 1 .. Len(t) /\ f[m + 1] # x \o g[m]
          /\ m - 1 \in 1 .. Len(t) => f[m - 1 + 1] = x \o g[m - 1]
      <4>1. m \in 1 .. Len(t) /\ f[m + 1] # x \o g[m]
        BY <3>3
      <4>2. m - 1 \notin B
        <5>1. m \in Nat /\ \A l \in B : m <= l
          BY <3>3
        <5> HIDE DEF B
        <5> QED BY <5>1
      <4> QED BY <4>1, <4>2
    <3> HIDE DEF B
    <3>5. f[m + 1] = f[m] \o t[m]
      <4> DEFINE k == m + 1
      <4>1. k \in 1 .. Len(ss) /\ k # 1 /\ k - 1 = m
        BY <1>1, <3>4
      <4>2. f[k] = f[m] \o ss[k]
        <5> HIDE DEF k
        <5>1. f[k] = IF k = 1 THEN ss[k] ELSE f[k - 1] \o ss[k]
          BY <1>3, <4>1
        <5> QED BY <4>1, <5>1, Zenon
      <4>3. ss[k] = t[m]
        BY <1>1, <3>4
      <4> QED BY <4>2, <4>3, Zenon
    <3>6. m # 1
      <4>1. CASE m = 1
        BY <1>4, <2>2, <3>4, <3>5, <4>1
      <4> QED BY <4>1
    <3>7. m - 1 \in 1 .. Len(t) /\ m - 1 + 1 = m
      BY <3>4, <3>6
    <3>8. f[m] = x \o g[m - 1]
      BY <3>4, <3>7
    <3>9. g[m] = g[m - 1] \o t[m]
      BY <2>2, <3>4, <3>6
    <3>10. g[m - 1] \in Seq(S) /\ t[m] \in Seq(S)
      BY <2>1, <3>4, <3>7, FlattenedType
    <3>11. (x \o g[m - 1]) \o t[m] = x \o (g[m - 1] \o t[m])
      BY <1>0, <3>10, Zenon
    <3> QED BY <3>4, <3>5, <3>8, <3>9, <3>11
  <2>4. Len(t) \in 1 .. Len(t) /\ Len(ss) = Len(t) + 1
    BY <1>1, <1>6
  <2>5. f[Len(t) + 1] = x \o g[Len(t)]
    BY <2>3, <2>4
  <2> QED BY <1>2, <2>1, <2>4, <2>5 DEF ss
<1> QED BY <1>5, <1>6

\* A recursion from every number up to N to a larger one, L[n] further, unless
\* it stops with base[n].
Descends(L, N, stop) == \A n \in (0 .. N) \ stop : L[n] \in 1 .. (N - n)

StaysIn(C, N, stop, V) == \A n \in (0 .. N) \ stop : \A v \in V : C[<<n, v>>] \in V

Recurs(f, N, stop, base, C, L) ==
  \A n \in 0 .. N : f[n] = IF n \in stop THEN base[n] ELSE C[<<n, f[n + L[n]]>>]

\* It has a solution.
LEMMA DownRecursion ==
  ASSUME NEW N \in Nat, NEW V, NEW stop, NEW base \in [0 .. N -> V], NEW C, NEW L,
         Descends(L, N, stop), StaysIn(C, N, stop, V)
  PROVE  \E f \in [0 .. N -> V] : Recurs(f, N, stop, base, C, L)
<1> USE DEF Descends, StaysIn, Recurs
<1> DEFINE Solves(f, a) ==
             \A n \in 0 .. N :
               a <= n => f[n] = IF n \in stop THEN base[n] ELSE C[<<n, f[n + L[n]]>>]
           Solvable(a) == \E f \in [0 .. N -> V] : Solves(f, a)
           B == {d \in 0 .. N : ~ Solvable(N - d)}
<1>1. SUFFICES ASSUME B # {} PROVE FALSE
  <2>1. SUFFICES Solvable(0)
    OBVIOUS
  <2> HIDE DEF Solvable
  <2>2. SUFFICES ASSUME B = {} PROVE Solvable(0)
    OBVIOUS
  <2>3. N \in 0 .. N /\ N - N = 0
    OBVIOUS
  <2>4. N \notin B
    BY <2>2
  <2> QED BY <2>3, <2>4
<1> HIDE DEF Solvable
<1>2. B \in SUBSET Nat
  OBVIOUS
<1>3. PICK d \in B : \A l \in B : d <= l
  BY <1>1, <1>2, SmallestNat
<1>4. d \in 0 .. N /\ ~ Solvable(N - d) /\ (d - 1 \in 0 .. N => Solvable(N - (d - 1)))
  <2>1. d \in 0 .. N /\ ~ Solvable(N - d)
    BY <1>3
  <2>2. d - 1 \notin B
    BY <1>3, <2>1
  <2> QED BY <2>1, <2>2
<1> HIDE DEF B
<1> USE DEF Solvable
<1>5. d # 0
  <2>1. Solves(base, N)
    OBVIOUS
  <2> QED BY <1>4, <2>1
<1>6. PICK g \in [0 .. N -> V] : Solves(g, N - (d - 1))
  BY <1>4, <1>5
<1> DEFINE a == N - d
           v == IF a \in stop THEN base[a] ELSE C[<<a, g[a + L[a]]>>]
           f == [g EXCEPT ![a] = v]
<1>7. a \in 0 .. N /\ N - (d - 1) = a + 1
  BY <1>4
<1> HIDE DEF a
<1>8. v \in V
  <2>1. a \notin stop => a + L[a] \in 0 .. N
    BY <1>7
  <2> QED BY <1>7, <2>1
<1> HIDE DEF v
<1>9. f \in [0 .. N -> V] /\ f[a] = v /\ \A n \in 0 .. N : n # a => f[n] = g[n]
  BY <1>7, <1>8
<1> HIDE DEF f
<1>10. ASSUME NEW n \in 0 .. N, a <= n
       PROVE  f[n] = IF n \in stop THEN base[n] ELSE C[<<n, f[n + L[n]]>>]
  <2>1. n \notin stop => n + L[n] \in 0 .. N /\ n + L[n] # a
    BY <1>7, <1>10
  <2>2. n \notin stop => f[n + L[n]] = g[n + L[n]]
    BY <1>9, <2>1
  <2>3. CASE n = a
    BY <1>9, <2>2, <2>3 DEF v
  <2>4. CASE n # a
    <3>1. N - (d - 1) <= n
      BY <1>7, <1>10, <2>4
    <3>2. g[n] = IF n \in stop THEN base[n] ELSE C[<<n, g[n + L[n]]>>]
      BY <1>6, <3>1
    <3> QED BY <1>9, <2>2, <2>4, <3>2
  <2> QED BY <2>3, <2>4
<1>11. Solves(f, a)
  BY <1>10
<1> QED BY <1>4, <1>9, <1>11 DEF a

-----------------------------------------------------------------------------
(* Keystrokes that are replayed.                                           *)

\* Some positions of a sequence have a last one.
LEMMA LargestIndex ==
  ASSUME NEW n \in Nat, NEW K \in SUBSET (1 .. n), K # {}
  PROVE  Max(K) \in K
<1> DEFINE U == {u \in Nat : \A k \in K : k <= u}
<1>1. n \in U
  OBVIOUS
<1>2. PICK m \in U : \A l \in U : m <= l
  BY <1>1, SmallestNat
<1>3. PICK k \in K : TRUE
  OBVIOUS
<1>4. m # 0 /\ m - 1 \in Nat /\ m - 1 \notin U
  BY <1>2, <1>3
<1>5. PICK j \in K : ~ (j <= m - 1)
  BY <1>4
<1>6. m \in K /\ \A y \in K : m >= y
  BY <1>2, <1>5
<1> QED BY <1>6 DEF Max

LEMMA RunLength ==
  ASSUME NEW S, NEW s \in Seq(S), s # <<>>, NEW km, NEW st
  PROVE  PrefixLength(km, s, st) \in 1 .. Len(s)
<1> DEFINE K == {1} \cup {m \in DOMAIN s : Found(km, SubSeq(s, 1, m), st) # {}}
<1>1. Len(s) \in Nat /\ K \in SUBSET (1 .. Len(s)) /\ K # {}
  OBVIOUS
<1>2. PrefixLength(km, s, st) = Max(K)
  BY DEF PrefixLength
<1> HIDE DEF K
<1> QED BY <1>1, <1>2, LargestIndex

\* Each of the runs takes at least one keystroke of those that are left, in
\* their order.
RunAt(km, s, st, n) == PrefixLength(km, From(s, n), st)

TakesRun(S, km, s, st, n) ==
  LET l == RunAt(km, s, st, n)
  IN  /\ From(s, n) # <<>> /\ l \in 1 .. (Len(s) - n) /\ n + l \in 0 .. Len(s)
      /\ SubSeq(From(s, n), 1, l) \in Seq(S)
      /\ SubSeq(From(s, n), 1, l) \o From(s, n + l) = From(s, n)

LEMMA RunTakes ==
  ASSUME NEW S, NEW s \in Seq(S), NEW km, NEW st, NEW n \in (0 .. Len(s)) \ {Len(s)}
  PROVE  TakesRun(S, km, s, st, n)
<1> DEFINE l == RunAt(km, s, st, n)
<1>1. From(s, n) \in Seq(S) /\ Len(From(s, n)) = Len(s) - n /\ From(s, n) # <<>>
  BY Rest
<1>2. l \in 1 .. (Len(s) - n)
  BY <1>1, RunLength DEF RunAt
<1> HIDE DEF l
<1>3. /\ SubSeq(From(s, n), 1, l) \in Seq(S)
      /\ SubSeq(From(s, n), 1, l) \o From(s, n + l) = From(s, n)
  BY <1>2, CutOne
<1>4. n + l \in 0 .. Len(s)
  BY <1>2
<1> QED BY <1>1, <1>2, <1>3, <1>4 DEF l, TakesRun

\* The equation of Flush's local function.
Cuts(f, km, s, st) ==
  f = [n \in 0 .. Len(s) |->
         IF From(s, n) = <<>> THEN <<>>
         ELSE <<SubSeq(From(s, n), 1, RunAt(km, s, st, n))>> \o f[n + RunAt(km, s, st, n)]]

LEMMA CutsExist ==
  ASSUME NEW S, NEW s \in Seq(S), NEW km, NEW st
  PROVE  \E f : Cuts(f, km, s, st)
<1> DEFINE N == Len(s)
           V == Seq(Seq(S))
           Run(n) == SubSeq(From(s, n), 1, RunAt(km, s, st, n))
           base == [n \in 0 .. N |-> <<>>]
           C == [p \in (0 .. N) \X V |-> <<Run(p[1])>> \o p[2]]
           L == [n \in 0 .. N |-> RunAt(km, s, st, n)]
<1>1. N \in Nat /\ base \in [0 .. N -> V]
  OBVIOUS
<1>2. \A n \in (0 .. N) \ {N} : L[n] \in 1 .. (N - n) /\ Run(n) \in Seq(S) /\ From(s, n) # <<>>
  <2>1. ASSUME NEW n \in (0 .. N) \ {N}
        PROVE  L[n] \in 1 .. (N - n) /\ Run(n) \in Seq(S) /\ From(s, n) # <<>>
    <3>1. TakesRun(S, km, s, st, n)
      BY RunTakes
    <3> QED BY <3>1 DEF TakesRun
  <2> QED BY <2>1
<1>3. \A n \in (0 .. N) \ {N} : \A v \in V : C[<<n, v>>] = <<Run(n)>> \o v
  OBVIOUS
<1>4. From(s, N) = <<>>
  BY <1>1, Rest
<1>5. \A n \in 0 .. N : L[n] = RunAt(km, s, st, n) /\ base[n] = <<>>
  OBVIOUS
<1> HIDE DEF base, C, L, Run
<1>6. \A n \in (0 .. N) \ {N} : \A v \in V : C[<<n, v>>] \in V
  <2>1. ASSUME NEW x \in Seq(S), NEW v \in V PROVE <<x>> \o v \in V
    OBVIOUS
  <2> QED BY <1>2, <1>3, <2>1
<1> DEFINE stop == {N}
<1>7. PICK f \in [0 .. N -> V] : Recurs(f, N, stop, base, C, L)
  <2>1. Descends(L, N, stop)
    BY <1>2 DEF Descends
  <2>2. StaysIn(C, N, stop, V)
    BY <1>6 DEF StaysIn
  <2> HIDE DEF N, V, stop
  <2> QED BY <1>1, <2>1, <2>2, DownRecursion
<1>8. ASSUME NEW n \in 0 .. N
      PROVE  f[n] = IF From(s, n) = <<>> THEN <<>> ELSE <<Run(n)>> \o f[n + L[n]]
  <2>1. CASE n = N
    BY <1>4, <1>5, <1>7, <2>1 DEF Recurs
  <2>2. CASE n # N
    <3>1. n + L[n] \in 0 .. N
      BY <1>1, <1>2, <2>2
    <3>2. f[n + L[n]] \in V
      BY <1>7, <3>1
    <3>3. f[n] = C[<<n, f[n + L[n]]>>]
      BY <1>7, <2>2 DEF Recurs
    <3> QED BY <1>2, <1>3, <2>2, <3>2, <3>3
  <2> QED BY <2>1, <2>2
<1>9. f = [n \in 0 .. N |-> f[n]]
  BY <1>7
<1>10. f = [n \in 0 .. N |-> IF From(s, n) = <<>> THEN <<>> ELSE <<Run(n)>> \o f[n + L[n]]]
  BY <1>8, <1>9
<1>11. \A n \in 0 .. N : L[n] = RunAt(km, s, st, n)
  BY <1>5
<1> HIDE DEF N
<1>12. Cuts(f, km, s, st)
  BY <1>10, <1>11 DEF Cuts, Run, N
<1> QED BY <1>12

\* flush_dispatch cuts the keystrokes into runs: put together again, they are
\* what they were.
LEMMA FlushKeepsKeys ==
  ASSUME NEW S, NEW s \in Seq(S), NEW km, NEW st
  PROVE  Flush(km, s, st) \in Seq(Seq(S)) /\ FlattenSeq(Flush(km, s, st)) = s
<1> DEFINE N == Len(s)
           F == CHOOSE f : Cuts(f, km, s, st)
           L(n) == RunAt(km, s, st, n)
           Run(n) == SubSeq(From(s, n), 1, L(n))
<1>1. Cuts(F, km, s, st)
  BY CutsExist
<1>2. Flush(km, s, st) = F[0]
  BY DEF Flush, Cuts, RunAt
<1> HIDE DEF F
<1>3. \A n \in 0 .. N : F[n] = IF From(s, n) = <<>> THEN <<>> ELSE <<Run(n)>> \o F[n + L(n)]
  BY <1>1 DEF Cuts
<1>4. ASSUME NEW n \in (0 .. N) \ {N}
      PROVE  /\ From(s, n) # <<>> /\ L(n) \in 1 .. (N - n) /\ Run(n) \in Seq(S)
             /\ Run(n) \o From(s, n + L(n)) = From(s, n) /\ n + L(n) \in 0 .. N
  <2>1. TakesRun(S, km, s, st, n)
    BY RunTakes
  <2> QED BY <2>1 DEF TakesRun
<1>5. From(s, N) = <<>> /\ From(s, 0) = s /\ N \in Nat
  <2>1. 0 + 1 = 1 /\ SubSeq(s, 1, Len(s)) = s
    BY SubSeqFull
  <2>2. From(s, 0) = s
    BY <2>1 DEF From
  <2> QED BY <2>2, Rest
<1> HIDE DEF Run, L
<1> DEFINE Whole(n) == F[n] \in Seq(Seq(S)) /\ FlattenSeq(F[n]) = From(s, n)
           B == {d \in 0 .. N : ~ Whole(N - d)}
<1> HIDE DEF Whole
<1>6. ASSUME B # {} PROVE FALSE
  <2>1. B \in SUBSET Nat
    OBVIOUS
  <2>2. PICK d \in B : \A l \in B : d <= l
    BY <1>6, <2>1, SmallestNat
  <2> DEFINE n == N - d
  <2>3. n \in 0 .. N /\ ~ Whole(n)
    BY <1>5, <2>2
  <2>4. ASSUME NEW m \in 0 .. N, m > n PROVE Whole(m)
    <3>1. N - m \in 0 .. N /\ N - (N - m) = m /\ ~ (d <= N - m)
      BY <1>5, <2>2, <2>4
    <3>2. N - m \notin B
      BY <2>2, <3>1
    <3> QED BY <3>1, <3>2
  <2> HIDE DEF n, B
  <2>5. CASE n = N
    <3>1. F[n] = <<>> /\ From(s, n) = <<>>
      BY <1>3, <1>5, <2>3, <2>5
    <3> QED BY <2>3, <3>1, FlattenNothing DEF Whole
  <2>6. CASE n # N
    <3>1. F[n] = <<Run(n)>> \o F[n + L(n)]
      BY <1>3, <1>4, <2>3, <2>6
    <3>2. n + L(n) \in 0 .. N /\ n + L(n) > n /\ Run(n) \in Seq(S)
      BY <1>4, <1>5, <2>3, <2>6
    <3>3. F[n + L(n)] \in Seq(Seq(S)) /\ FlattenSeq(F[n + L(n)]) = From(s, n + L(n))
      BY <2>4, <3>2 DEF Whole
    <3>4. F[n] \in Seq(Seq(S))
      BY <3>1, <3>2, <3>3
    <3>5. FlattenSeq(F[n]) = Run(n) \o From(s, n + L(n))
      BY <3>1, <3>2, <3>3, FlattenCons
    <3>6. Run(n) \o From(s, n + L(n)) = From(s, n)
      BY <1>4, <2>3, <2>6
    <3> QED BY <2>3, <3>4, <3>5, <3>6 DEF Whole
  <2> QED BY <2>5, <2>6
<1>7. Whole(0)
  <2>1. N \in 0 .. N /\ N - N = 0
    BY <1>5
  <2> QED BY <1>6, <2>1
<1> QED BY <1>2, <1>5, <1>7 DEF Whole

Results(S) == [replay : Seq(Seq(S)), pending : Seq(S), bound : BOOLEAN, last : Seq(S)]

\* What dispatch_key makes of a keystroke after those from n on when it need
\* not replay any.
Decided(km, s, key, st, n) ==
  LET input == Append(From(s, n), key)
  IN  IF MayGrow(km, input, st)
        THEN [replay |-> <<>>, pending |-> input,
              bound |-> Found(km, input, st) # {}, last |-> <<>>]
        ELSE [replay |-> <<>>, pending |-> <<>>, bound |-> FALSE, last |-> input]

Decides(km, s, key, st, n) ==
  LET input == Append(From(s, n), key)
  IN  MayGrow(km, input, st) \/ Found(km, input, st) # {} \/ From(s, n) = <<>>

Prefixed(result, run) == [result EXCEPT !.replay = <<run>> \o @]

\* The equation of DispatchKey's local function.
Dispatches(f, km, s, key, st) ==
  f = [n \in 0 .. Len(s) |->
         IF MayGrow(km, Append(From(s, n), key), st)
           THEN [replay |-> <<>>, pending |-> Append(From(s, n), key),
                 bound |-> Found(km, Append(From(s, n), key), st) # {}, last |-> <<>>]
         ELSE IF Found(km, Append(From(s, n), key), st) # {} \/ From(s, n) = <<>>
           THEN [replay |-> <<>>, pending |-> <<>>, bound |-> FALSE,
                 last |-> Append(From(s, n), key)]
         ELSE [f[n + PrefixLength(km, From(s, n), st)] EXCEPT
                 !.replay = <<SubSeq(From(s, n), 1, PrefixLength(km, From(s, n), st))>> \o @]]

\* The same, by what is done.
LEMMA DispatchesAt ==
  ASSUME NEW f, NEW km, NEW s, NEW key, NEW st
  PROVE  Dispatches(f, km, s, key, st) <=>
           f = [n \in 0 .. Len(s) |->
                  IF Decides(km, s, key, st, n) THEN Decided(km, s, key, st, n)
                  ELSE Prefixed(f[n + RunAt(km, s, st, n)],
                                SubSeq(From(s, n), 1, RunAt(km, s, st, n)))]
<1> DEFINE One(n) ==
             IF MayGrow(km, Append(From(s, n), key), st)
               THEN [replay |-> <<>>, pending |-> Append(From(s, n), key),
                     bound |-> Found(km, Append(From(s, n), key), st) # {}, last |-> <<>>]
             ELSE IF Found(km, Append(From(s, n), key), st) # {} \/ From(s, n) = <<>>
               THEN [replay |-> <<>>, pending |-> <<>>, bound |-> FALSE,
                     last |-> Append(From(s, n), key)]
             ELSE [f[n + PrefixLength(km, From(s, n), st)] EXCEPT
                     !.replay = <<SubSeq(From(s, n), 1, PrefixLength(km, From(s, n), st))>> \o @]
           Other(n) ==
             IF Decides(km, s, key, st, n) THEN Decided(km, s, key, st, n)
             ELSE Prefixed(f[n + RunAt(km, s, st, n)],
                           SubSeq(From(s, n), 1, RunAt(km, s, st, n)))
<1>1. ASSUME NEW n PROVE One(n) = Other(n)
  BY Zenon DEF Decides, Decided, Prefixed, RunAt
<1>2. Dispatches(f, km, s, key, st) <=> f = [n \in 0 .. Len(s) |-> One(n)]
  BY DEF Dispatches
<1> HIDE DEF One, Other
<1>3. [n \in 0 .. Len(s) |-> One(n)] = [n \in 0 .. Len(s) |-> Other(n)]
  BY <1>1, Zenon
<1>4. Dispatches(f, km, s, key, st) <=> f = [n \in 0 .. Len(s) |-> Other(n)]
  BY <1>2, <1>3, Zenon
<1> QED BY <1>4 DEF Other

LEMMA DecidedType ==
  ASSUME NEW S, NEW s \in Seq(S), NEW key \in S, NEW km, NEW st, NEW n \in 0 .. Len(s)
  PROVE  Decided(km, s, key, st, n) \in Results(S)
<1> DEFINE input == Append(From(s, n), key)
           bound == Found(km, input, st) # {}
<1>1. input \in Seq(S) /\ bound \in BOOLEAN
  BY Rest
<1>2. <<>> \in Seq(S) /\ <<>> \in Seq(Seq(S))
  OBVIOUS
<1> HIDE DEF input, bound
<1>3. [replay |-> <<>>, pending |-> input, bound |-> bound, last |-> <<>>] \in Results(S)
  BY <1>1, <1>2 DEF Results
<1>4. [replay |-> <<>>, pending |-> <<>>, bound |-> FALSE, last |-> input] \in Results(S)
  BY <1>1, <1>2 DEF Results
<1> QED BY <1>3, <1>4, Zenon DEF Decided, input, bound

LEMMA PrefixedType ==
  ASSUME NEW S, NEW result \in Results(S), NEW run \in Seq(S)
  PROVE  /\ Prefixed(result, run) \in Results(S)
         /\ Prefixed(result, run).replay = <<run>> \o result.replay
         /\ Prefixed(result, run).pending = result.pending
         /\ Prefixed(result, run).last = result.last
<1>1. result.replay \in Seq(Seq(S))
  BY DEF Results
<1> DEFINE rs == <<run>> \o result.replay
<1>2. rs \in Seq(Seq(S))
  BY <1>1
<1>3. Prefixed(result, run) = [result EXCEPT !.replay = rs]
  BY DEF Prefixed
<1> HIDE DEF rs
<1>4. /\ Prefixed(result, run) \in Results(S) /\ Prefixed(result, run).replay = rs
      /\ Prefixed(result, run).pending = result.pending
      /\ Prefixed(result, run).last = result.last
  BY <1>2, <1>3 DEF Results
<1> QED BY <1>4 DEF rs

LEMMA DispatchExists ==
  ASSUME NEW S, NEW s \in Seq(S), NEW key \in S, NEW km, NEW st
  PROVE  \E f : Dispatches(f, km, s, key, st)
<1> DEFINE N == Len(s)
           V == Results(S)
           Run(n) == SubSeq(From(s, n), 1, RunAt(km, s, st, n))
           base == [n \in 0 .. N |-> Decided(km, s, key, st, n)]
           C == [p \in (0 .. N) \X V |-> Prefixed(p[2], Run(p[1]))]
           L == [n \in 0 .. N |-> RunAt(km, s, st, n)]
           stop == {n \in 0 .. N : Decides(km, s, key, st, n)}
<1>1. N \in Nat /\ base \in [0 .. N -> V]
  BY DecidedType
<1>2. ASSUME NEW n \in (0 .. N) \ stop
      PROVE  L[n] \in 1 .. (N - n) /\ Run(n) \in Seq(S) /\ n + L[n] \in 0 .. N
  <2>1. From(s, n) # <<>>
    BY <1>2 DEF Decides
  <2>2. n \in (0 .. Len(s)) \ {Len(s)}
    BY <2>1, Rest
  <2>3. TakesRun(S, km, s, st, n)
    BY <2>2, RunTakes
  <2> QED BY <2>3 DEF TakesRun
<1>3. \A n \in 0 .. N : \A v \in V : C[<<n, v>>] = Prefixed(v, Run(n))
  OBVIOUS
<1>4. \A n \in 0 .. N : L[n] = RunAt(km, s, st, n) /\ base[n] = Decided(km, s, key, st, n)
  OBVIOUS
<1>5. \A n \in 0 .. N : n \in stop <=> Decides(km, s, key, st, n)
  OBVIOUS
<1> HIDE DEF base, C, L, Run, stop
<1>6. PICK f \in [0 .. N -> V] : Recurs(f, N, stop, base, C, L)
  <2>1. Descends(L, N, stop)
    BY <1>2 DEF Descends
  <2>2. StaysIn(C, N, stop, V)
    BY <1>2, <1>3, PrefixedType DEF StaysIn
  <2> HIDE DEF N, V
  <2> QED BY <1>1, <2>1, <2>2, DownRecursion
<1>7. ASSUME NEW n \in 0 .. N
      PROVE  f[n] = IF Decides(km, s, key, st, n) THEN Decided(km, s, key, st, n)
                    ELSE Prefixed(f[n + L[n]], Run(n))
  <2>1. CASE n \in stop
    BY <1>4, <1>5, <1>6, <2>1 DEF Recurs
  <2>2. CASE n \notin stop
    <3>1. f[n] = C[<<n, f[n + L[n]]>>]
      BY <1>6, <2>2 DEF Recurs
    <3>2. f[n + L[n]] \in V
      BY <1>2, <1>6, <2>2
    <3> QED BY <1>3, <1>5, <2>2, <3>1, <3>2
  <2> QED BY <2>1, <2>2
<1>8. f = [n \in 0 .. N |-> f[n]]
  BY <1>6
<1> HIDE DEF N
<1>9. f = [n \in 0 .. N |->
             IF Decides(km, s, key, st, n) THEN Decided(km, s, key, st, n)
             ELSE Prefixed(f[n + RunAt(km, s, st, n)], Run(n))]
  BY <1>4, <1>7, <1>8
<1>10. Dispatches(f, km, s, key, st)
  BY <1>9, DispatchesAt DEF N, Run
<1> QED BY <1>10

LEMMA AppendAfter ==
  ASSUME NEW S, NEW x \in Seq(S), NEW y \in Seq(S), NEW e \in S
  PROVE  x \o Append(y, e) = Append(x \o y, e)
<1>1. x \o y \in Seq(S) /\ <<e>> \in Seq(S)
  BY ConcatProperties
<1>2. Append(y, e) = y \o <<e>> /\ Append(x \o y, e) = (x \o y) \o <<e>>
  BY <1>1, AppendIsConcat
<1>3. (x \o y) \o <<e>> = x \o (y \o <<e>>)
  BY <1>1, ConcatAssociative
<1> QED BY <1>2, <1>3

\* All the keystrokes of a result, in the order in which they are given.
AllOf(result) == FlattenSeq(result.replay) \o result.last \o result.pending

LEMMA PrefixedKeeps ==
  ASSUME NEW S, NEW result \in Results(S), NEW run \in Seq(S)
  PROVE  AllOf(Prefixed(result, run)) = run \o AllOf(result)
<1> DEFINE new == Prefixed(result, run)
           a == FlattenSeq(result.replay)
           b == result.last
           c == result.pending
<1>0. \A x, y, z \in Seq(S) : (x \o y) \o z = x \o (y \o z)
  BY ConcatAssociative
<1>1. /\ new.replay = <<run>> \o result.replay /\ new.last = b /\ new.pending = c
      /\ result.replay \in Seq(Seq(S)) /\ b \in Seq(S) /\ c \in Seq(S)
  BY PrefixedType DEF Results
<1>2. FlattenSeq(new.replay) = run \o a /\ a \in Seq(S)
  BY <1>1, FlattenCons, FlattenType
<1>3. AllOf(new) = ((run \o a) \o b) \o c /\ AllOf(result) = (a \o b) \o c
  BY <1>1, <1>2, Zenon DEF AllOf
<1> HIDE DEF new, a, b, c
<1>4. a \o b \in Seq(S)
  BY <1>1, <1>2, ConcatProperties
<1>5. (run \o a) \o b = run \o (a \o b)
  BY <1>0, <1>1, <1>2, Zenon
<1>6. (run \o (a \o b)) \o c = run \o ((a \o b) \o c)
  <2> DEFINE ab == a \o b
  <2>1. ab \in Seq(S) /\ run \in Seq(S) /\ c \in Seq(S)
    BY <1>1, <1>4
  <2> HIDE DEF ab
  <2>2. (run \o ab) \o c = run \o (ab \o c)
    BY <2>1, ConcatAssociative
  <2> QED BY <2>2, Zenon DEF ab
<1>7. AllOf(new) = run \o AllOf(result)
  BY <1>3, <1>5, <1>6
<1> QED BY <1>7 DEF new

LEMMA DecidedKeeps ==
  ASSUME NEW S, NEW s \in Seq(S), NEW key \in S, NEW km, NEW st, NEW n \in 0 .. Len(s)
  PROVE  /\ AllOf(Decided(km, s, key, st, n)) = Append(From(s, n), key)
         /\ Decided(km, s, key, st, n).pending # <<>> => Decided(km, s, key, st, n).last = <<>>
<1> DEFINE input == Append(From(s, n), key)
           d == Decided(km, s, key, st, n)
<1>1. input \in Seq(S)
  BY Rest
<1>2. /\ d.replay = <<>>
      /\ \/ d.pending = input /\ d.last = <<>>
         \/ d.pending = <<>> /\ d.last = input
  BY DEF Decided
<1>3. AllOf(d) = (<<>> \o d.last) \o d.pending
  BY <1>2, FlattenNothing DEF AllOf
<1>4. (<<>> \o input) \o <<>> = input /\ (<<>> \o <<>>) \o input = input
  <2> HIDE DEF input
  <2>1. <<>> \o input = input /\ input \o <<>> = input
    BY <1>1, ConcatEmptySeq
  <2>2. <<>> \in Seq(S)
    OBVIOUS
  <2>3. <<>> \o <<>> = <<>>
    BY <2>2, ConcatEmptySeq
  <2> QED BY <2>1, <2>3
<1> HIDE DEF input, d
<1>5. AllOf(d) = input
  BY <1>2, <1>3, <1>4
<1>6. d.pending # <<>> => d.last = <<>>
  BY <1>2
<1> QED BY <1>5, <1>6 DEF input, d

\* dispatch_key gives or keeps the pending keystrokes and the new one, in this
\* order, and keeps none when it gives a last run.
LEMMA DispatchKeepsKeys ==
  ASSUME NEW S, NEW s \in Seq(S), NEW key \in S, NEW km, NEW st
  PROVE  /\ DispatchKey(km, s, key, st) \in Results(S)
         /\ AllOf(DispatchKey(km, s, key, st)) = Append(s, key)
         /\ DispatchKey(km, s, key, st).pending # <<>>
              => DispatchKey(km, s, key, st).last = <<>>
<1> DEFINE N == Len(s)
           F == CHOOSE f : Dispatches(f, km, s, key, st)
           L(n) == RunAt(km, s, st, n)
           Run(n) == SubSeq(From(s, n), 1, L(n))
<1>1. Dispatches(F, km, s, key, st)
  BY DispatchExists
<1>2. DispatchKey(km, s, key, st) = F[0]
  BY DEF DispatchKey, Dispatches
<1> HIDE DEF F
<1>3. F = [n \in 0 .. Len(s) |->
             IF Decides(km, s, key, st, n) THEN Decided(km, s, key, st, n)
             ELSE Prefixed(F[n + L(n)], Run(n))]
  BY <1>1, DispatchesAt
<1>4. \A n \in 0 .. N :
        F[n] = IF Decides(km, s, key, st, n) THEN Decided(km, s, key, st, n)
               ELSE Prefixed(F[n + L(n)], Run(n))
  BY <1>3
<1>5. ASSUME NEW n \in 0 .. N, ~ Decides(km, s, key, st, n)
      PROVE  /\ L(n) \in 1 .. (N - n) /\ Run(n) \in Seq(S) /\ n + L(n) \in 0 .. N
             /\ Run(n) \o From(s, n + L(n)) = From(s, n)
  <2>1. From(s, n) # <<>>
    BY <1>5 DEF Decides
  <2>2. n \in (0 .. Len(s)) \ {Len(s)}
    BY <2>1, Rest
  <2>3. TakesRun(S, km, s, st, n)
    BY <2>2, RunTakes
  <2> QED BY <2>3 DEF TakesRun
<1>6. From(s, 0) = s /\ N \in Nat
  <2>1. 0 + 1 = 1 /\ SubSeq(s, 1, Len(s)) = s
    BY SubSeqFull
  <2> QED BY <2>1 DEF From
<1> HIDE DEF Run, L
<1> DEFINE Whole(n) ==
             /\ F[n] \in Results(S) /\ AllOf(F[n]) = Append(From(s, n), key)
             /\ F[n].pending # <<>> => F[n].last = <<>>
           B == {d \in 0 .. N : ~ Whole(N - d)}
<1> HIDE DEF Whole
<1>7. ASSUME B # {} PROVE FALSE
  <2>1. B \in SUBSET Nat
    OBVIOUS
  <2>2. PICK d \in B : \A l \in B : d <= l
    BY <1>7, <2>1, SmallestNat
  <2> DEFINE n == N - d
  <2>3. n \in 0 .. N /\ ~ Whole(n)
    BY <1>6, <2>2
  <2>4. ASSUME NEW m \in 0 .. N, m > n PROVE Whole(m)
    <3>1. N - m \in 0 .. N /\ N - (N - m) = m /\ ~ (d <= N - m)
      BY <1>6, <2>2, <2>4
    <3>2. N - m \notin B
      BY <2>2, <3>1
    <3> QED BY <3>1, <3>2
  <2> HIDE DEF n, B
  <2>5. CASE Decides(km, s, key, st, n)
    <3>1. F[n] = Decided(km, s, key, st, n)
      BY <1>4, <2>3, <2>5
    <3> QED BY <2>3, <3>1, DecidedType, DecidedKeeps DEF Whole
  <2>6. CASE ~ Decides(km, s, key, st, n)
    <3> DEFINE v == F[n + L(n)]
               rest == From(s, n + L(n))
    <3>1. F[n] = Prefixed(v, Run(n))
      BY <1>4, <2>3, <2>6
    <3>2. n + L(n) \in 0 .. N /\ n + L(n) > n /\ Run(n) \in Seq(S)
      BY <1>5, <1>6, <2>3, <2>6
    <3>3. v \in Results(S) /\ AllOf(v) = Append(rest, key) /\ (v.pending # <<>> => v.last = <<>>)
      BY <2>4, <3>2 DEF Whole
    <3>4. rest \in Seq(S) /\ Run(n) \o rest = From(s, n)
      BY <1>5, <2>3, <2>6, <3>2, Rest
    <3> HIDE DEF v, rest
    <3>5. F[n] \in Results(S) /\ F[n].pending = v.pending /\ F[n].last = v.last
      <4> DEFINE run == Run(n)
      <4>1. run \in Seq(S)
        BY <3>2
      <4> HIDE DEF run
      <4>2. /\ Prefixed(v, run) \in Results(S) /\ Prefixed(v, run).pending = v.pending
            /\ Prefixed(v, run).last = v.last
        BY <3>3, <4>1, PrefixedType
      <4> QED BY <3>1, <4>2 DEF run
    <3>6. AllOf(F[n]) = Run(n) \o Append(rest, key)
      BY <3>1, <3>2, <3>3, PrefixedKeeps
    <3>7. Run(n) \o Append(rest, key) = Append(From(s, n), key)
      BY <3>2, <3>4, AppendAfter
    <3> QED BY <2>3, <3>3, <3>5, <3>6, <3>7 DEF Whole
  <2> QED BY <2>5, <2>6
<1>8. Whole(0)
  <2>1. N \in 0 .. N /\ N - N = 0
    BY <1>6
  <2> QED BY <1>7, <2>1
<1> QED BY <1>2, <1>6, <1>8 DEF Whole

-----------------------------------------------------------------------------
(* The keystrokes that the application has not been given.                 *)

\* What follows the first of two sequences.
LEMMA Following ==
  ASSUME NEW S, NEW x \in Seq(S), NEW y \in Seq(S)
  PROVE  From(x \o y, Len(x)) = y
<1> DEFINE s == x \o y
           r == From(s, Len(x))
<1>1. /\ s \in Seq(S) /\ Len(s) = Len(x) + Len(y)
      /\ \A i \in 1 .. Len(x) + Len(y) : s[i] = IF i <= Len(x) THEN x[i] ELSE y[i - Len(x)]
  BY ConcatProperties
<1> HIDE DEF s
<1>2. Len(x) \in 0 .. Len(s) /\ Len(x) \in Nat /\ Len(y) \in Nat
  BY <1>1
<1>3. r \in Seq(S) /\ Len(r) = Len(y)
  BY <1>1, <1>2, Rest
<1>4. \A i \in 1 .. Len(s) - (Len(x) + 1) + 1 : r[i] = s[(Len(x) + 1) + i - 1]
  <2>1. /\ Len(x) + 1 \in Int /\ Len(s) \in Int
        /\ \A i \in (Len(x) + 1) .. Len(s) : s[i] \in S
    BY <1>1, <1>2
  <2> QED BY <2>1, SubSeqProperties DEF From
<1> HIDE DEF r
<1>5. ASSUME NEW i \in 1 .. Len(y) PROVE r[i] = y[i]
  <2> DEFINE m == Len(x) + i
  <2>1. m \in 1 .. Len(x) + Len(y) /\ ~ (m <= Len(x)) /\ m - Len(x) = i
    BY <1>2
  <2>2. s[m] = y[i]
    BY <1>1, <2>1
  <2>3. (Len(x) + 1) + i - 1 = m /\ i \in 1 .. Len(s) - (Len(x) + 1) + 1
    BY <1>1, <1>2
  <2> HIDE DEF m
  <2> QED BY <1>4, <2>2, <2>3
<1>6. r = y
  BY <1>3, <1>5, SeqEqual
<1> QED BY <1>6 DEF r, s

\* They are keystrokes, and a job that keeps some gives no run at its end.
KeysTyped ==
  /\ pending.keys \in Seq(Keys)
  /\ job.replay \in Seq(Seq(Keys)) /\ job.last \in Seq(Keys) /\ job.keep.keys \in Seq(Keys)
  /\ job.keep # NoKeys => job.last = <<>>

KeysInv == InputInv /\ KeysTyped

\* Between jobs they are what is pending, during one they are in the job.
LEMMA Waiting ==
  pending.keys \in Seq(Keys) /\ job = NoJob => Undelivered = pending.keys
<1> SUFFICES ASSUME pending.keys \in Seq(Keys), job = NoJob
             PROVE  Undelivered = pending.keys
  OBVIOUS
<1>1. Undelivered = ((FlattenSeq(<<>>) \o <<>>) \o <<>>) \o pending.keys
  BY DEF Undelivered, NoJob, NoKeys
<1>2. <<>> \o <<>> = <<>> /\ <<>> \o pending.keys = pending.keys
  <2>1. <<>> \in Seq(Keys)
    OBVIOUS
  <2> QED BY <2>1, ConcatEmptySeq
<1> QED BY <1>1, <1>2, FlattenNothing

LEMMA InHand ==
  KeysTyped /\ pending.keys = <<>> =>
    Undelivered = (FlattenSeq(job.replay) \o job.last) \o job.keep.keys
<1> SUFFICES ASSUME KeysTyped, pending.keys = <<>>
             PROVE  Undelivered = (FlattenSeq(job.replay) \o job.last) \o job.keep.keys
  OBVIOUS
<1>1. FlattenSeq(job.replay) \in Seq(Keys)
  BY FlattenType DEF KeysTyped
<1>2. (FlattenSeq(job.replay) \o job.last) \o job.keep.keys \in Seq(Keys)
  <2>1. FlattenSeq(job.replay) \o job.last \in Seq(Keys)
    BY <1>1, ConcatProperties DEF KeysTyped
  <2> QED BY <2>1, ConcatProperties DEF KeysTyped
<1> QED BY <1>2, ConcatEmptySeq DEF Undelivered

\* What the focus may forget, and what it may keep.
LEMMA MovingKeys ==
  ASSUME MoveFocus
  PROVE  \/ pending' = pending
         \/ pending' = NoKeys /\ focus' # focus
  BY DEF MoveFocus, FocusOff, FocusOn

LEMMA MayMoveKeys ==
  ASSUME MayMoveFocus, pending = NoKeys
  PROVE  pending' = NoKeys
<1>1. CASE MoveFocus
  BY <1>1, MovingKeys
<1> QED BY <1>1 DEF MayMoveFocus

LEMMA NothingTyped == (pending = NoKeys /\ job = NoJob => KeysTyped)
<1>1. /\ NoJob.replay = <<>> /\ NoJob.last = <<>> /\ NoJob.keep = NoKeys
      /\ NoKeys.keys = <<>>
  BY DEF NoJob, NoKeys
<1>2. <<>> \in Seq(Keys) /\ <<>> \in Seq(Seq(Keys))
  OBVIOUS
<1> QED BY <1>1, <1>2 DEF KeysTyped

\* A keystroke goes behind those that are pending.
TakenIn(kept, key) ==
  KeysTyped' /\ Undelivered' = Append(kept.keys, key)

LEMMA TakingIn ==
  ASSUME KeysInv, NEW key \in Keys, KeyDown(key)
  PROVE  TakenIn(IF pending.focus \notin {"none", focus} THEN NoKeys ELSE pending, key)
<1> DEFINE kept == IF pending.focus \notin {"none", focus} THEN NoKeys ELSE pending
           result == DispatchKey(keymap, kept.keys, key, Stack)
           keep == IF result.pending = <<>> THEN NoKeys
                   ELSE [keys |-> result.pending, focus |-> "none",
                         timeout |-> NeedsTimeout(kept, result, key)]
<1>1. kept.keys \in Seq(Keys)
  BY DEF KeysInv, KeysTyped, NoKeys
<1>2. /\ job' = [for |-> "key", replay |-> result.replay, last |-> result.last, keep |-> keep]
      /\ pending' = NoKeys
  BY DEF KeyDown
<1> HIDE DEF kept
<1>3. /\ result \in Results(Keys) /\ AllOf(result) = Append(kept.keys, key)
      /\ result.pending # <<>> => result.last = <<>>
  BY <1>1, DispatchKeepsKeys
<1> HIDE DEF result
<1>4. keep.keys = result.pending /\ (keep # NoKeys => result.pending # <<>>)
  BY DEF NoKeys
<1> HIDE DEF keep
<1>5. /\ result.replay \in Seq(Seq(Keys)) /\ result.last \in Seq(Keys)
      /\ result.pending \in Seq(Keys)
  BY <1>3 DEF Results
<1>6. /\ job'.replay = result.replay /\ job'.last = result.last /\ job'.keep = keep
      /\ pending'.keys = <<>>
  BY <1>2 DEF NoKeys
<1>7. KeysTyped'
  BY <1>3, <1>4, <1>5, <1>6 DEF KeysTyped
<1>8. Undelivered' = (FlattenSeq(job'.replay) \o job'.last) \o job'.keep.keys
  <2>1. (KeysTyped /\ pending.keys = <<>> =>
          Undelivered = (FlattenSeq(job.replay) \o job.last) \o job.keep.keys)'
    BY InHand, PTL
  <2> QED BY <1>6, <1>7, <2>1
<1>9. Undelivered' = AllOf(result)
  BY <1>4, <1>6, <1>8 DEF AllOf
<1> QED BY <1>3, <1>7, <1>9 DEF TakenIn, kept

\* The keystrokes that waited too long are replayed, or forgotten.
LEMMA TimingOut ==
  ASSUME KeysInv, Timeout
  PROVE  /\ KeysTyped'
         /\ \/ Undelivered' = Undelivered
            \/ Undelivered' = <<>> /\ pending.focus \notin {"none", focus}
<1>1. pending' = NoKeys /\ Idle /\ job = NoJob /\ pending.timeout
  BY DEF Timeout, KeysInv, InputInv, JobIsAlone
<1>2. pending.keys \in Seq(Keys) /\ pending'.keys = <<>> /\ Undelivered = pending.keys
  BY <1>1, Waiting DEF KeysInv, KeysTyped, NoKeys
<1>3. CASE pending.focus # focus
  <2>1. job' = NoJob
    BY <1>1, <1>3 DEF Timeout
  <2>2. KeysTyped'
    <3>1. (pending = NoKeys /\ job = NoJob => KeysTyped)'
      BY NothingTyped, PTL
    <3> QED BY <1>1, <2>1, <3>1
  <2>3. (pending.keys \in Seq(Keys) /\ job = NoJob => Undelivered = pending.keys)'
    BY Waiting, PTL
  <2>4. Undelivered' = <<>>
    BY <1>2, <2>1, <2>3
  <2>5. pending # NoKeys
    BY <1>1 DEF NoKeys
  <2>6. pending.focus # "none"
    BY <1>3, <2>5 DEF KeysInv, InputInv, KeptUnderFocus
  <2> QED BY <1>3, <2>2, <2>4, <2>6
<1>4. CASE pending.focus = focus
  <2> DEFINE runs == Flush(keymap, pending.keys, Stack)
  <2>1. runs \in Seq(Seq(Keys)) /\ FlattenSeq(runs) = pending.keys
    BY <1>2, FlushKeepsKeys
  <2>2. job' = [NoJob EXCEPT !.for = "timeout", !.replay = runs]
    BY <1>4 DEF Timeout
  <2> HIDE DEF runs
  <2>3. job'.replay = runs /\ job'.last = <<>> /\ job'.keep = NoKeys
    BY <2>2 DEF NoJob
  <2>4. KeysTyped'
    BY <1>1, <2>1, <2>3 DEF KeysTyped, NoKeys
  <2>5. (KeysTyped /\ pending.keys = <<>> =>
          Undelivered = (FlattenSeq(job.replay) \o job.last) \o job.keep.keys)'
    BY InHand, PTL
  <2>6. Undelivered' = (pending.keys \o <<>>) \o <<>>
    BY <1>2, <2>1, <2>3, <2>4, <2>5 DEF NoKeys
  <2>7. pending.keys \o <<>> = pending.keys
    BY <1>2, ConcatEmptySeq
  <2> QED BY <1>2, <2>4, <2>6, <2>7
<1> QED BY <1>3, <1>4

\* A run goes from the front.
LEMMA Replaying ==
  ASSUME KeysInv, Replay
  PROVE  /\ KeysTyped' /\ ~Idle
         /\ \/ Undelivered' = Undelivered
            \/ \E n \in 1 .. Len(Undelivered) : Undelivered' = From(Undelivered, n)
<1>0. \A x, y, z \in Seq(Keys) : (x \o y) \o z = x \o (y \o z)
  BY ConcatAssociative
<1>1. ~Idle /\ pending = NoKeys
  BY DEF Replay, KeysInv, InputInv, JobIsAlone, NoJob
<1>2. /\ job.replay \in Seq(Seq(Keys)) /\ job.replay # <<>>
      /\ job.last \in Seq(Keys) /\ job.keep.keys \in Seq(Keys)
      /\ job.keep # NoKeys => job.last = <<>>
  BY DEF Replay, KeysInv, KeysTyped
<1>3. pending' = NoKeys
  BY <1>1, MayMoveKeys DEF Replay
<1>4. /\ job'.replay = Tail(job.replay) /\ job'.last = job.last /\ job'.keep = job.keep
  BY DEF Replay, KeysInv, InputInv, JobIsAlone
<1> DEFINE r == Head(job.replay)
           t == Tail(job.replay)
           f == FlattenSeq(t)
           l == job.last
           k == job.keep.keys
           rest == (f \o l) \o k
<1>5. r \in Seq(Keys) /\ t \in Seq(Seq(Keys)) /\ job.replay = <<r>> \o t
  BY <1>2
<1>6. KeysTyped'
  BY <1>2, <1>3, <1>4, <1>5 DEF KeysTyped, NoKeys
<1>7. Undelivered' = rest
  <2>1. (KeysTyped /\ pending.keys = <<>> =>
          Undelivered = (FlattenSeq(job.replay) \o job.last) \o job.keep.keys)'
    BY InHand, PTL
  <2>2. pending'.keys = <<>>
    BY <1>3 DEF NoKeys
  <2> QED BY <1>4, <1>6, <2>1, <2>2
<1>8. Undelivered = ((r \o f) \o l) \o k
  <2>1. KeysTyped /\ pending.keys = <<>>
    BY <1>1 DEF KeysInv, NoKeys
  <2>2. FlattenSeq(job.replay) = r \o f
    <3> HIDE DEF r, t
    <3> QED BY <1>5, FlattenCons
  <2> QED BY <2>1, <2>2, InHand
<1>9. f \in Seq(Keys) /\ l \in Seq(Keys) /\ k \in Seq(Keys)
  BY <1>2, <1>5, FlattenType
<1> HIDE DEF r, t, f, l, k
<1>10. f \o l \in Seq(Keys) /\ rest \in Seq(Keys)
  <2>1. f \o l \in Seq(Keys)
    BY <1>9, ConcatProperties
  <2> QED BY <1>9, <2>1, ConcatProperties
<1>11. (r \o f) \o l = r \o (f \o l)
  BY <1>0, <1>5, <1>9, Zenon
<1>12. (r \o (f \o l)) \o k = r \o rest
  BY <1>0, <1>5, <1>9, <1>10, Zenon
<1>13. Undelivered = r \o rest
  BY <1>8, <1>11, <1>12
<1> HIDE DEF rest
<1>14. CASE r = <<>>
  <2>1. r \o rest = rest
    BY <1>10, <1>14, ConcatEmptySeq
  <2> QED BY <1>1, <1>6, <1>7, <1>13, <2>1
<1>15. CASE r # <<>>
  <2>1. Len(r) \in 1 .. Len(r \o rest)
    <3>1. Len(r \o rest) = Len(r) + Len(rest)
      BY <1>5, <1>10, ConcatProperties
    <3>2. Len(r) \in Nat /\ Len(r) # 0 /\ Len(rest) \in Nat
      BY <1>5, <1>10, <1>15
    <3> QED BY <3>1, <3>2
  <2>2. From(r \o rest, Len(r)) = rest
    BY <1>5, <1>10, Following
  <2> QED BY <1>1, <1>6, <1>7, <1>13, <2>1, <2>2
<1> QED BY <1>14, <1>15

\* Nothing is given and nothing is typed: the focus may move, and then what is
\* pending is kept or forgotten.
LEMMA Resting ==
  ASSUME KeysInv, Idle, job' = job,
         pending' = pending \/ (pending' = NoKeys /\ (focus' # focus \/ ClearPending))
  PROVE  /\ KeysTyped'
         /\ \/ Undelivered' = Undelivered
            \/ Undelivered' = <<>> /\ (focus' # focus \/ ClearPending)
<1>1. job = NoJob
  BY DEF KeysInv, InputInv, JobIsAlone
<1>2. CASE pending' = pending
  BY <1>2 DEF KeysInv, KeysTyped, Undelivered
<1>3. CASE pending' = NoKeys
  <2>1. (pending = NoKeys /\ job = NoJob => KeysTyped)'
    BY NothingTyped, PTL
  <2>2. KeysTyped'
    BY <1>1, <1>3, <2>1
  <2>3. (pending.keys \in Seq(Keys) /\ job = NoJob => Undelivered = pending.keys)'
    BY Waiting, PTL
  <2>4. pending'.keys = <<>> /\ pending'.keys \in Seq(Keys)
    BY <1>3 DEF NoKeys
  <2>5. Undelivered' = <<>>
    BY <1>1, <2>3, <2>4
  <2>6. CASE pending = NoKeys
    BY <1>2, <1>3, <2>6
  <2>7. CASE pending # NoKeys
    BY <1>3, <2>2, <2>5, <2>7
  <2> QED BY <2>6, <2>7
<1> QED BY <1>2, <1>3

\* What was to be kept becomes pending.
LEMMA Keeping ==
  ASSUME KeysInv, Keep
  PROVE  KeysTyped' /\ Undelivered' = Undelivered
<1> DEFINE k == job.keep.keys
<1>1. /\ ~Idle /\ pending = NoKeys /\ job.replay = <<>> /\ job.last = <<>>
      /\ k \in Seq(Keys) /\ KeysTyped
  BY DEF Keep, KeysInv, KeysTyped, InputInv, JobIsAlone
<1>2. job' = NoJob /\ pending'.keys = k
  BY DEF Keep
<1>3. Undelivered = (<<>> \o <<>>) \o k
  <2>1. pending.keys = <<>>
    BY <1>1 DEF NoKeys
  <2> QED BY <1>1, <2>1, InHand, FlattenNothing
<1> HIDE DEF k
<1>4. (<<>> \o <<>>) \o k = k
  <2>1. <<>> \in Seq(Keys)
    OBVIOUS
  <2>2. <<>> \o <<>> = <<>> /\ <<>> \o k = k
    BY <1>1, <2>1, ConcatEmptySeq
  <2> QED BY <2>2
<1>5. (pending.keys \in Seq(Keys) /\ job = NoJob => Undelivered = pending.keys)'
  BY Waiting, PTL
<1>6. Undelivered' = k
  BY <1>1, <1>2, <1>5
<1>7. KeysTyped'
  <2>1. /\ NoJob.replay = <<>> /\ NoJob.last = <<>> /\ NoJob.keep = NoKeys
        /\ NoKeys.keys = <<>>
    BY DEF NoJob, NoKeys
  <2>2. <<>> \in Seq(Keys) /\ <<>> \in Seq(Seq(Keys))
    OBVIOUS
  <2> QED BY <1>1, <1>2, <2>1, <2>2 DEF KeysTyped
<1> QED BY <1>3, <1>4, <1>6, <1>7

\* The last run goes, and with it the job.
LEMMA Finishing ==
  ASSUME KeysInv, Finish
  PROVE  /\ KeysTyped' /\ ~Idle
         /\ \/ Undelivered' = Undelivered
            \/ \E n \in 1 .. Len(Undelivered) : Undelivered' = From(Undelivered, n)
<1> DEFINE l == job.last
<1>1. /\ ~Idle /\ pending = NoKeys /\ job.replay = <<>> /\ job.keep = NoKeys
      /\ l \in Seq(Keys) /\ KeysTyped /\ job' = NoJob
  BY DEF Finish, KeysInv, KeysTyped, InputInv, JobIsAlone
<1>2. pending' = NoKeys
  <2>1. CASE job.for = "timeout"
    BY <1>1, <2>1 DEF Finish
  <2>2. CASE job.for # "timeout"
    BY <1>1, <2>2, MayMoveKeys DEF Finish
  <2> QED BY <2>1, <2>2
<1>3. KeysTyped'
  <2>1. (pending = NoKeys /\ job = NoJob => KeysTyped)'
    BY NothingTyped, PTL
  <2> QED BY <1>1, <1>2, <2>1
<1>4. Undelivered' = <<>>
  <2>1. (pending.keys \in Seq(Keys) /\ job = NoJob => Undelivered = pending.keys)'
    BY Waiting, PTL
  <2>2. pending'.keys = <<>> /\ pending'.keys \in Seq(Keys)
    BY <1>2 DEF NoKeys
  <2> QED BY <1>1, <2>1, <2>2
<1>5. Undelivered = (<<>> \o l) \o <<>>
  <2>1. pending.keys = <<>> /\ job.keep.keys = <<>>
    BY <1>1 DEF NoKeys
  <2> QED BY <1>1, <2>1, InHand, FlattenNothing
<1> HIDE DEF l
<1>6. Undelivered = l
  <2>1. <<>> \o l = l /\ l \o <<>> = l
    BY <1>1, ConcatEmptySeq
  <2> QED BY <1>5, <2>1
<1>7. CASE l = <<>>
  BY <1>1, <1>3, <1>4, <1>6, <1>7
<1>8. CASE l # <<>>
  <2>1. Len(l) \in 1 .. Len(l) /\ Len(l) \in 0 .. Len(l)
    BY <1>1, <1>8
  <2>2. From(l, Len(l)) = <<>>
    BY <1>1, <2>1, Rest
  <2> QED BY <1>1, <1>3, <1>4, <1>6, <2>1, <2>2
<1> QED BY <1>7, <1>8

\* What a step does to the keystrokes that are undelivered.
FocusMoves == focus' # focus \/ pending.focus \notin {"none", focus}

KeepsOrder ==
  \/ Undelivered' = Undelivered
  \/ ~Idle /\ \E n \in 1 .. Len(Undelivered) : Undelivered' = From(Undelivered, n)
  \/ \E key \in Keys :
       /\ KeyDown(key)
       /\ \/ Undelivered' = Append(Undelivered, key)
          \/ Undelivered' = <<key>> /\ FocusMoves
  \/ Undelivered' = <<>> /\ (ClearPending \/ FocusMoves)

LEMMA KeysStep == KeysInv /\ [Next]_vars => KeysTyped' /\ KeepsOrder
<1> SUFFICES ASSUME KeysInv, [Next]_vars PROVE KeysTyped' /\ KeepsOrder
  OBVIOUS
<1>1. ASSUME Idle, job' = job,
             pending' = pending \/ (pending' = NoKeys /\ (focus' # focus \/ ClearPending))
      PROVE  KeysTyped' /\ KeepsOrder
  BY <1>1, Resting DEF KeepsOrder, FocusMoves
<1>2. CASE Refocus
  BY <1>1, <1>2, MovingKeys DEF Refocus
<1>3. CASE Activate \/ RunDeferred
  BY <1>1, <1>3 DEF Activate, RunDeferred, keyboard
<1>4. CASE BindKeys
  BY <1>1, <1>4 DEF BindKeys
<1>5. CASE ClearPending
  <2>1. Idle /\ pending' = NoKeys /\ job' = job
    BY <1>5 DEF ClearPending
  <2> QED BY <1>1, <1>5, <2>1
<1>6. ASSUME NEW elements \in SUBSET Elements, Render(elements)
      PROVE  KeysTyped' /\ KeepsOrder
  BY <1>1, <1>6 DEF Render, keyboard
<1>7. CASE Draw
  BY <1>1, <1>7, MovingKeys DEF Draw
<1>8. ASSUME NEW key \in Keys, KeyDown(key) PROVE KeysTyped' /\ KeepsOrder
  <2>1. CASE pending.focus \notin {"none", focus}
    <3>1. KeysTyped' /\ Undelivered' = Append(NoKeys.keys, key)
      BY <1>8, <2>1, TakingIn DEF TakenIn
    <3>2. Append(NoKeys.keys, key) = <<key>>
      BY DEF NoKeys
    <3> QED BY <1>8, <2>1, <3>1, <3>2 DEF KeepsOrder, FocusMoves
  <2>2. CASE ~ (pending.focus \notin {"none", focus})
    <3>1. KeysTyped' /\ Undelivered' = Append(pending.keys, key)
      BY <1>8, <2>2, TakingIn DEF TakenIn
    <3>2. Undelivered = pending.keys
      <4>1. job = NoJob /\ pending.keys \in Seq(Keys)
        BY <1>8 DEF KeyDown, KeysInv, KeysTyped, InputInv, JobIsAlone
      <4> QED BY <4>1, Waiting
    <3> QED BY <1>8, <3>1, <3>2 DEF KeepsOrder
  <2> QED BY <2>1, <2>2
<1>9. CASE Timeout
  BY <1>9, TimingOut DEF KeepsOrder, FocusMoves
<1>10. CASE Replay
  BY <1>10, Replaying DEF KeepsOrder
<1>11. CASE Keep
  BY <1>11, Keeping DEF KeepsOrder
<1>12. CASE Finish
  BY <1>12, Finishing DEF KeepsOrder
<1>13. CASE UNCHANGED vars
  BY <1>13 DEF vars, keyboard, KeysInv, KeysTyped, KeepsOrder, Undelivered
<1> QED
  BY <1>2, <1>3, <1>4, <1>5, <1>6, <1>7, <1>8, <1>9, <1>10, <1>11, <1>12, <1>13 DEF Next

\* The keystrokes are accounted for in every state.
LEMMA KeysInvariant == Spec => []KeysInv
<1>1. Init => KeysInv
  <2>1. Init => pending = NoKeys /\ job = NoJob
    BY DEF Init
  <2> QED BY <2>1, InputInit, NothingTyped DEF KeysInv
<1>2. KeysInv /\ [Next]_vars => KeysInv'
  BY InputStep, KeysStep DEF KeysInv
<1> QED
  BY <1>1, <1>2, PTL DEF Spec

\* Whatever is bound, and wherever the focus goes meanwhile, the keystrokes
\* reach the application in the order typed, each one once, and none is
\* forgotten but on request or because the focus has moved
\* (window.rs:5308-5496, key_dispatch.rs:476-561).
THEOREM KeysStayInOrder == Spec => KeysKeepOrder
<1>1. KeysInv /\ [Next]_vars =>
        [LET FocusMoved == focus' # focus \/ pending.focus \notin {"none", focus}
         IN \/ Undelivered' = Undelivered
            \/ ~Idle /\ \E n \in 1 .. Len(Undelivered) : Undelivered' = From(Undelivered, n)
            \/ \E key \in Keys :
                 /\ KeyDown(key)
                 /\ \/ Undelivered' = Append(Undelivered, key)
                    \/ Undelivered' = <<key>> /\ FocusMoved
            \/ Undelivered' = <<>> /\ (ClearPending \/ FocusMoved)]_vars
  BY KeysStep DEF KeepsOrder, FocusMoves
<1> QED
  BY <1>1, KeysInvariant, PTL DEF Spec, KeysKeepOrder

-----------------------------------------------------------------------------
(* What the variables hold.                                                *)

\* What Places and KeysTyped do not say.
InputTyped ==
  /\ keymap \in KeyMaps
  /\ frame.focus \in Elements \cup {"none"} /\ pending.focus \in Elements \cup {"none"}
  /\ active \in BOOLEAN /\ dirty \in BOOLEAN /\ deferred \in BOOLEAN
  /\ restored \in BOOLEAN /\ owed \in BOOLEAN
  /\ pending.timeout \in BOOLEAN /\ job.keep.timeout \in BOOLEAN
  /\ seen \in Seq(Keys)
  /\ job.for \in {"none", "key", "timeout"}
  /\ typed \in 0 .. MaxKeys /\ changes \in 0 .. MaxChanges

\* One more, below the bound.
LEMMA CountedOn ==
  ASSUME NEW n, NEW Bound \in Nat, n \in 0 .. Bound, n < Bound
  PROVE  n + 1 \in 0 .. Bound
  OBVIOUS

\* The focus moves, or stays, and the keystrokes pending with it.
LEMMA MovingTyped ==
  ASSUME Places, InputTyped, MoveFocus
  PROVE  /\ pending'.focus \in Elements \cup {"none"}
         /\ pending'.timeout \in BOOLEAN /\ deferred' \in BOOLEAN
<1>1. NoKeys.focus = "none" /\ NoKeys.timeout = FALSE
  BY DEF NoKeys
<1>2. CASE FocusOff
  BY <1>2 DEF FocusOff, InputTyped
<1>3. ASSUME NEW e \in Elements, FocusOn(e)
      PROVE  pending' = NoKeys /\ deferred' = TRUE
  BY <1>3 DEF FocusOn
<1> QED BY <1>1, <1>2, <1>3 DEF MoveFocus

LEMMA MayMoveTyped ==
  ASSUME Places, InputTyped, MayMoveFocus
  PROVE  /\ pending'.focus \in Elements \cup {"none"}
         /\ pending'.timeout \in BOOLEAN /\ deferred' \in BOOLEAN
         /\ changes' \in 0 .. MaxChanges /\ dirty' \in BOOLEAN
         /\ UNCHANGED <<active, frame, restored>>
<1>1. CASE UNCHANGED <<window, pending, deferred, changes>>
  BY <1>1 DEF window, InputTyped
<1>2. CASE /\ changes < MaxChanges /\ changes' = changes + 1
           /\ MoveFocus /\ dirty' = TRUE
           /\ UNCHANGED <<shown, active, frame, told, restored>>
  <2>1. changes' \in 0 .. MaxChanges
    BY <1>2, KeyInputAssumption, CountedOn DEF InputTyped
  <2> QED BY <1>2, <2>1, MovingTyped
<1> QED BY <1>1, <1>2 DEF MayMoveFocus

LEMMA TypedInit == Init => InputTyped
<1> SUFFICES ASSUME Init PROVE InputTyped
  OBVIOUS
<1>1. 0 \in 0 .. MaxKeys /\ 0 \in 0 .. MaxChanges /\ <<>> \in Seq(Keys)
  BY KeyInputAssumption
<1> QED BY <1>1 DEF Init, InputTyped, NoKeys, NoJob

\* Every action keeps InputTyped.
LEMMA TypedStep == Places /\ KeysInv /\ InputTyped /\ [Next]_vars => InputTyped'
<1> SUFFICES ASSUME Places, KeysInv, InputTyped, [Next]_vars PROVE InputTyped'
  OBVIOUS
<1>1. Change => changes' \in 0 .. MaxChanges /\ typed' = typed
  BY KeyInputAssumption, CountedOn DEF Change, InputTyped
<1>2. pending.keys \in Seq(Keys) /\ job.keep.keys \in Seq(Keys) /\ <<>> \in Seq(Keys)
      /\ focus \in Elements \cup {"none"}
  BY DEF KeysInv, KeysTyped, Places
<1>3. NoKeys.focus = "none" /\ NoKeys.timeout = FALSE /\ NoJob.keep = NoKeys
      /\ NoJob.for = "none"
  BY DEF NoKeys, NoJob
<1>4. CASE Refocus
  BY <1>1, <1>4, MovingTyped DEF Refocus, InputTyped
<1>5. CASE Activate \/ BindKeys \/ ClearPending
  BY <1>1, <1>2, <1>3, <1>5 DEF Activate, BindKeys, ClearPending, InputTyped, keyboard, window
<1>6. CASE RunDeferred
  BY <1>2, <1>6 DEF RunDeferred, InputTyped, window
<1>7. ASSUME NEW elements \in SUBSET Elements, Render(elements) PROVE InputTyped'
  BY <1>1, <1>7 DEF Render, InputTyped, keyboard
<1>8. CASE Draw
  <2>1. frame'.focus \in Elements \cup {"none"}
    BY <1>2, <1>8 DEF Draw, NextFrame
  <2>2. /\ dirty' = FALSE
        /\ \/ restored' = FALSE /\ UNCHANGED <<focus, pending, deferred, changes>>
           \/ /\ changes < MaxChanges /\ changes' = changes + 1 /\ MoveFocus
              /\ restored' = TRUE
        /\ UNCHANGED <<keymap, active, seen, job, owed, typed>>
    BY <1>8 DEF Draw
  <2>3. changes' \in 0 .. MaxChanges
    BY <2>2, KeyInputAssumption, CountedOn DEF InputTyped
  <2>4. /\ pending'.focus \in Elements \cup {"none"}
        /\ pending'.timeout \in BOOLEAN /\ deferred' \in BOOLEAN
    BY <2>2, MovingTyped DEF InputTyped
  <2> QED BY <2>1, <2>2, <2>3, <2>4 DEF InputTyped
<1>9. ASSUME NEW key \in Keys, KeyDown(key) PROVE InputTyped'
  <2> DEFINE kept == IF pending.focus \notin {"none", focus} THEN NoKeys ELSE pending
             result == DispatchKey(keymap, kept.keys, key, Stack)
             keep == IF result.pending = <<>> THEN NoKeys
                     ELSE [keys |-> result.pending, focus |-> "none",
                           timeout |-> NeedsTimeout(kept, result, key)]
  <2>1. /\ job' = [for |-> "key", replay |-> result.replay, last |-> result.last, keep |-> keep]
        /\ owed' = (\/ result.bound \/ AcceptsText(key)
                    \/ owed /\ kept # NoKeys /\ result.replay = <<>>)
        /\ pending' = NoKeys /\ typed < MaxKeys /\ typed' = typed + 1
        /\ UNCHANGED <<window, keymap, seen, deferred, changes>>
    BY <1>9 DEF KeyDown
  <2>2. NeedsTimeout(kept, result, key) \in BOOLEAN
    BY DEF NeedsTimeout
  <2> HIDE DEF kept, result
  <2>3. job'.keep = keep /\ job'.for = "key" /\ keep.timeout \in BOOLEAN
    BY <1>3, <2>1, <2>2
  <2>4. owed' \in BOOLEAN
    BY <2>1
  <2>5. typed' \in 0 .. MaxKeys
    BY <2>1, KeyInputAssumption, CountedOn DEF InputTyped
  <2> HIDE DEF keep
  <2> QED BY <1>3, <2>1, <2>3, <2>4, <2>5 DEF InputTyped, window
<1>10. CASE Timeout
  <2>1. \/ job' = job
        \/ job' = [NoJob EXCEPT !.for = "timeout", !.replay = Flush(keymap, pending.keys, Stack)]
    BY <1>10 DEF Timeout
  <2>2. job'.for \in {"none", "key", "timeout"} /\ job'.keep.timeout \in BOOLEAN
    BY <1>3, <2>1 DEF InputTyped, NoJob
  <2>3. seen' \in Seq(Keys)
    BY <1>2, <1>10 DEF Timeout, InputTyped
  <2> QED BY <1>3, <1>10, <2>2, <2>3 DEF Timeout, InputTyped, window
<1>11. CASE Replay
  <2>1. job'.for = job.for /\ job'.keep = job.keep
    <3>1. job' = [job EXCEPT !.replay = Tail(@)]
      BY <1>11 DEF Replay
    <3> QED BY <3>1
  <2> QED BY <1>11, <2>1, MayMoveTyped DEF Replay, InputTyped
<1>12. CASE Keep
  BY <1>2, <1>3, <1>12 DEF Keep, InputTyped, window
<1>13. CASE Finish
  <2>1. CASE job.for = "timeout"
    BY <1>3, <1>13, <2>1 DEF Finish, InputTyped, window
  <2>2. CASE job.for # "timeout"
    BY <1>2, <1>3, <1>13, <2>2, MayMoveTyped DEF Finish, InputTyped
  <2> QED BY <2>1, <2>2
<1>14. CASE UNCHANGED vars
  BY <1>14 DEF vars, window, keyboard, InputTyped
<1> QED
  BY <1>4, <1>5, <1>6, <1>7, <1>8, <1>9, <1>10, <1>11, <1>12, <1>13, <1>14 DEF Next

\* The variables hold what they are meant to: what is pending, replayed, kept
\* and shown to the observers are keystrokes, whatever flush_dispatch and
\* dispatch_key made of them.
THEOREM KeyTypes == Spec => []TypeOK
<1>1. FrameInv => Places
  BY DEF FrameInv
<1>2. Places /\ KeysInv /\ InputTyped => TypeOK
  BY DEF Places, KeysInv, KeysTyped, InputTyped, TypeOK
<1> QED
  BY <1>1, <1>2, KeysInvariant, FrameInit, FrameStep, TypedInit, TypedStep, PTL DEF Spec
=============================================================================
