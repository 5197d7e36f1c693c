--------------------------- MODULE AnimationProofs ---------------------------
(***************************************************************************)
(* Theorems about Animation for every set of controllers, bounds,          *)
(* durations, simulations and targets.  `Sound' and `Current' say what     *)
(* holds of the fields of one controller; a lemma for each operation on    *)
(* the fields shows that it keeps them; `Inv' adds what relates them to    *)
(* the active set and to the views.                                        *)
(***************************************************************************)
EXTENDS Animation, TLAPS

\* The fields of a controller: TypeOK's part of it, and that the last tick
\* is not in the future.
Sound(r) ==
  /\ r \in ControllerState
  /\ r.value \in Lower .. Upper
  /\ r.from \in Lower .. Upper
  /\ r.cache \in (Lower .. Upper) \cup {None}
  /\ r.target \in (Lower .. Upper) \cup {None}
  /\ r.style \in Styles \cup {None}
  /\ r.age <= Cap
  /\ r.seen # None => r.seen <= r.age
  /\ r.drive = "curve" => r.status \in {"Forward", "Reverse"}

\* Once a segment has been ticked at a later instant than its start, the
\* cache is what value() computes.
Current(r) ==
  r.drive # "none" /\ r.seen \notin {None, 0} /\ r.cache # None
    => r.cache = Computed(r)

\* The same segment of the same controller, at some instant.
SameSegment(r, s) ==
  /\ s.duration = r.duration /\ s.reverse = r.reverse
  /\ s.value = r.value /\ s.status = r.status /\ s.drive = r.drive
  /\ s.from = r.from /\ s.target = r.target /\ s.style = r.style
  /\ s.repeating = r.repeating

-----------------------------------------------------------------------------
(* Arithmetic: a part t of l of the way d is between 0 and d.              *)

LEMMA ClampInRange ==
  ASSUME NEW x \in Int
  PROVE  Clamp(x) \in Lower .. Upper
BY AnimationAssumption DEF Clamp, Least, Greatest

LEMMA PartOfTheWay ==
  ASSUME NEW d \in Int, NEW t \in Int, NEW l \in Int, 0 <= t, t <= l, l > 0
  PROVE  /\ (d * t) \div l \in Int
         /\ d >= 0 => 0 <= (d * t) \div l /\ (d * t) \div l <= d
         /\ d <= 0 => d <= (d * t) \div l /\ (d * t) \div l <= 0
<1> DEFINE q == (d * t) \div l
<1>1. q \in Int /\ q * l <= d * t /\ d * t < q * l + l
  OBVIOUS
<1> HIDE DEF q
<1>2. d >= 0 => 0 <= d * t /\ d * t <= d * l
  OBVIOUS
<1>3. d <= 0 => d * l <= d * t /\ d * t <= 0
  OBVIOUS
<1>4. ASSUME NEW a \in Int, NEW b \in Int, a * l <= b * l PROVE a <= b
  BY <1>4
<1>5. ASSUME NEW a \in Int, NEW b \in Int, a * l < b * l PROVE a < b
  BY <1>5
<1>6. d * t < (q + 1) * l
  BY <1>1
<1>7. d >= 0 => 0 <= q /\ q <= d
  BY <1>1, <1>2, <1>4, <1>5, <1>6
<1>8. d <= 0 => d <= q /\ q <= 0
  BY <1>1, <1>3, <1>4, <1>5, <1>6
<1> QED
  BY <1>1, <1>7, <1>8 DEF q

LEMMA EndInRange ==
  ASSUME NEW r, Sound(r)
  PROVE  End(r) \in Lower .. Upper
BY AnimationAssumption DEF Sound, End, ControllerState

LEMMA SameLength ==
  ASSUME NEW r, NEW s, SameSegment(r, s)
  PROVE  /\ Length(s) = Length(r) /\ DefaultDuration(s) = DefaultDuration(r)
         /\ End(s) = End(r)
BY DEF SameSegment, Length, DefaultDuration, End

LEMMA LengthIsDuration ==
  ASSUME NEW r, Sound(r)
  PROVE  Length(r) \in Nat /\ Elapsed(r) \in Nat /\ DefaultDuration(r) \in Nat
BY AnimationAssumption
DEF Sound, Length, DefaultDuration, Elapsed, ControllerState

\* What value() returns is between the bounds.
LEMMA ValueInRange ==
  ASSUME NEW r, Sound(r)
  PROVE  Computed(r) \in Lower .. Upper /\ Value(r) \in Lower .. Upper
<1>1. CASE r.drive = "simulation"
  <2>1. Throw[Least(Elapsed(r), SimEnd)] \in Int
    BY LengthIsDuration, AnimationAssumption DEF Least
  <2>2. Computed(r) \in Lower .. Upper
    BY <1>1, <2>1, ClampInRange, AnimationAssumption DEF Sound, Computed
  <2> QED
    BY <2>2 DEF Sound, Value
<1>2. CASE r.drive = "curve" /\ Length(r) = 0
  BY <1>2, EndInRange DEF Sound, Computed, Value
<1>3. CASE r.drive = "curve" /\ Length(r) # 0
  <2> DEFINE t == Least(Elapsed(r), Length(r))
             d == End(r) - r.from
             p == (d * t) \div Length(r)
  <2>1. t \in Int /\ 0 <= t /\ t <= Length(r) /\ Length(r) \in Int /\ Length(r) > 0
    BY <1>3, LengthIsDuration DEF Least
  <2>2. d \in Int /\ r.from \in Lower .. Upper /\ End(r) \in Lower .. Upper
    BY EndInRange, AnimationAssumption DEF Sound
  <2>3. /\ p \in Int
        /\ d >= 0 => 0 <= p /\ p <= d
        /\ d <= 0 => d <= p /\ p <= 0
    <3> HIDE DEF t, d
    <3> QED BY <2>1, <2>2, PartOfTheWay
  <2>4. Computed(r) = r.from + p
    BY <1>3 DEF Computed
  <2>5. r.from + p \in Lower .. Upper
    <3> HIDE DEF p
    <3> QED BY <2>2, <2>3, AnimationAssumption
  <2> QED
    BY <2>4, <2>5 DEF Sound, Value
<1>4. CASE r.drive = "none"
  BY <1>4 DEF Sound, Computed, Value
<1> QED
  BY <1>1, <1>2, <1>3, <1>4 DEF Sound, ControllerState

\* A segment that starts now is where it starts from, unless it is over at
\* once.
LEMMA StartsWhereItStarts ==
  ASSUME NEW r, Sound(r), Elapsed(r) = 0
  PROVE  /\ r.drive = "curve" /\ Length(r) # 0 => Computed(r) = r.from
         /\ r.drive = "simulation" => Computed(r) = r.from
<1>1. CASE r.drive = "curve" /\ Length(r) # 0
  <2> DEFINE d == End(r) - r.from
  <2>1. d \in Int /\ Length(r) \in Nat \ {0}
    BY <1>1, EndInRange, LengthIsDuration, AnimationAssumption DEF Sound
  <2>2. Computed(r) = r.from + (d * 0) \div Length(r)
    BY <1>1, <2>1 DEF Computed, Least
  <2> HIDE DEF d
  <2>3. (d * 0) \div Length(r) = 0
    BY <2>1
  <2> QED
    BY <1>1, <2>2, <2>3, AnimationAssumption DEF Sound
<1>2. CASE r.drive = "simulation"
  BY <1>2, AnimationAssumption
  DEF Sound, Computed, Clamp, Least, Greatest
<1> QED
  BY <1>1, <1>2

-----------------------------------------------------------------------------
(* What the operations keep.                                               *)

LEMMA CacheField ==
  ASSUME NEW r \in ControllerState, NEW v \in Int
  PROVE  LET s == [r EXCEPT !.cache = v]
         IN  /\ s \in ControllerState /\ SameSegment(r, s)
             /\ s.cache = v /\ s.age = r.age /\ s.seen = r.seen
BY DEF ControllerState, SameSegment

LEMMA ReadKeeps ==
  ASSUME NEW r, Sound(r)
  PROVE  /\ Sound(Read(r))
         /\ Current(r) => Current(Read(r))
         /\ Value(Read(r)) = Value(r)
         /\ IsAnimating(r) <=> IsAnimating(Read(r))
         /\ Misjudged(r) <=> Misjudged(Read(r))
         /\ Read(r).seen = r.seen
         /\ Read(r).drive = r.drive
<1>1. CASE r.seen = None
  BY <1>1 DEF Read
<1>2. CASE r.seen # None
  <2> DEFINE s == [r EXCEPT !.cache = Value(r)]
  <2>1. Read(r) = s
    BY <1>2 DEF Read
  <2>2. Value(r) \in Lower .. Upper /\ Value(r) # None
    BY ValueInRange, AnimationAssumption
  <2>3. /\ s \in ControllerState /\ SameSegment(r, s)
        /\ s.cache = Value(r) /\ s.age = r.age /\ s.seen = r.seen
    BY <2>2, CacheField, AnimationAssumption DEF Sound
  <2> HIDE DEF s
  <2>4. /\ Elapsed(s) = Elapsed(r) /\ Length(s) = Length(r)
        /\ DefaultDuration(s) = DefaultDuration(r) /\ End(s) = End(r)
    BY <2>3, SameLength DEF Elapsed
  <2>5. Computed(s) = Computed(r)
    BY <2>3, <2>4 DEF Computed, SameSegment
  <2>6. Sound(s)
    BY <2>2, <2>3 DEF Sound, SameSegment
  <2>7. Current(r) => Current(s)
    BY <2>3, <2>5 DEF Current, Value, SameSegment
  <2>8. Value(s) = Value(r)
    BY <1>2, <2>2, <2>3 DEF Value
  <2>9. IsAnimating(r) <=> IsAnimating(s)
    BY <2>3, <2>4 DEF IsAnimating, SameSegment
  <2>10. Misjudged(r) <=> Misjudged(s)
    BY <2>3, <2>4, <2>9 DEF Misjudged, SameSegment
  <2> QED
    BY <2>1, <2>3, <2>6, <2>7, <2>8, <2>9, <2>10 DEF SameSegment
<1> QED
  BY <1>1, <1>2

LEMMA ClearedKeeps ==
  ASSUME NEW r, Sound(r)
  PROVE  /\ Sound(Cleared(r))
         /\ Cleared(r).seen = r.seen
BY DEF Cleared, ClearOverrides, Sound, ControllerState

\* A controller that has just been given the segment of s.
Begins(r, s) ==
  /\ Sound(s)
  /\ Current(s)
  /\ s.drive # "none"
  /\ s.seen = IF r.seen = None THEN None ELSE 0
  /\ Elapsed(s) = 0

LEMMA StartedFields ==
  ASSUME NEW r, Sound(r), NEW drive \in {"curve", "simulation"},
         NEW from \in Lower .. Upper, NEW status \in {"Forward", "Reverse"}
  PROVE  LET t == Started(r, drive, from, status)
         IN  /\ t \in ControllerState
             /\ t.age = 0 /\ t.seen = IF r.seen = None THEN None ELSE 0
             /\ t.drive = drive /\ t.from = from /\ t.status = status
             /\ t.cache = r.cache /\ t.value = r.value
             /\ t.target = r.target /\ t.style = r.style
<1> DEFINE t == Started(r, drive, from, status)
           seen == IF r.seen = None THEN None ELSE 0
<1>1. r \in ControllerState /\ from \in Int /\ status \in AnimationStatus
  BY AnimationAssumption DEF Sound, AnimationStatus
<1>2. seen \in Nat \cup {None}
  OBVIOUS
<1>3. t = [r EXCEPT !.drive = drive, !.from = from, !.status = status,
                    !.age = 0, !.seen = seen]
  BY DEF Started
<1> HIDE DEF seen, t
<1>4. t \in ControllerState
  BY <1>1, <1>2, <1>3 DEF ControllerState
<1>5. t.age = 0 /\ t.seen = seen /\ t.drive = drive /\ t.from = from
  BY <1>1, <1>3 DEF ControllerState
<1>6. /\ t.status = status /\ t.cache = r.cache /\ t.value = r.value
      /\ t.target = r.target /\ t.style = r.style
  BY <1>1, <1>3 DEF ControllerState
<1> QED
  BY <1>4, <1>5, <1>6 DEF seen, t

LEMMA StartedBegins ==
  ASSUME NEW r, NEW s, Sound(r), s \in ControllerState, s.age = 0,
         s.seen = IF r.seen = None THEN None ELSE 0,
         s.drive \in {"curve", "simulation"},
         s.from \in Lower .. Upper, s.status \in {"Forward", "Reverse"},
         s.target \in (Lower .. Upper) \cup {None}, s.style \in Styles \cup {None},
         s.cache = r.cache, s.value = r.value
  PROVE  Begins(r, s)
<1>1. Sound(s)
  BY AnimationAssumption DEF Sound
<1>2. Current(s) /\ Elapsed(s) = 0
  BY AnimationAssumption DEF Current, Elapsed
<1> QED
  BY <1>1, <1>2 DEF Begins

\* The place is kept when the new segment starts from the value that was
\* shown, and a ticked controller still has it in its cache.
LEMMA BeginsInPlace ==
  ASSUME NEW r, NEW s, Sound(r), Begins(r, s),
         s.from = Value(r), s.seen # None => s.cache = Value(r)
  PROVE  Value(s) = Value(r) \/ (s.drive = "curve" /\ Length(s) = 0)
<1>1. Value(r) # None
  BY ValueInRange, AnimationAssumption
<1>2. CASE s.seen # None
  BY <1>1, <1>2 DEF Value
<1>3. CASE s.seen = None
  BY <1>3, StartsWhereItStarts DEF Begins, Value, Sound, ControllerState
<1> QED
  BY <1>2, <1>3

LEMMA ToTargetBegins ==
  ASSUME NEW r, Sound(r), NEW target \in Lower .. Upper, NEW style \in Styles,
         NEW status \in {"Forward", "Reverse"}
  PROVE  LET s == ToTarget(r, target, style, status)
         IN  /\ Begins(r, s)
             /\ Value(s) = Value(r) \/ (s.drive = "curve" /\ Length(s) = 0)
<1> DEFINE s == ToTarget(r, target, style, status)
<1>1. Sound(Read(r)) /\ Read(r).seen = r.seen /\ Value(r) \in Lower .. Upper
  BY ReadKeeps, ValueInRange
<1>2. /\ s \in ControllerState /\ s.age = 0
      /\ s.seen = IF Read(r).seen = None THEN None ELSE 0
      /\ s.drive = "curve" /\ s.from = Value(r) /\ s.status = status
      /\ s.target = target /\ s.style = style
      /\ s.cache = Read(r).cache /\ s.value = Read(r).value
  <2> DEFINE t == Started(Read(r), "curve", Value(r), status)
  <2>1. /\ t \in ControllerState
        /\ t.age = 0 /\ t.seen = IF Read(r).seen = None THEN None ELSE 0
        /\ t.drive = "curve" /\ t.from = Value(r) /\ t.status = status
        /\ t.cache = Read(r).cache /\ t.value = Read(r).value
    BY <1>1, StartedFields
  <2>2. s = [t EXCEPT !.target = target, !.style = style, !.repeating = FALSE]
    BY DEF ToTarget
  <2> HIDE DEF s, t
  <2>3. target \in Int \cup {None} /\ style \in Nat \cup {None}
    BY AnimationAssumption
  <2> QED
    BY <2>1, <2>2, <2>3 DEF ControllerState
<1>3. r.seen # None => Read(r).cache = Value(r)
  BY DEF Read, Sound, ControllerState
<1> HIDE DEF s
<1>4. Begins(r, s)
  <2>1. Begins(Read(r), s)
    BY <1>1, <1>2, StartedBegins
  <2> QED
    BY <1>1, <2>1 DEF Begins
<1>5. s.seen # None => s.cache = Value(r)
  BY <1>2, <1>3, <1>4, AnimationAssumption DEF Begins
<1> QED
  BY <1>2, <1>4, <1>5, BeginsInPlace DEF s

LEMMA LoggedKeeps ==
  ASSUME NEW r, Sound(r), NEW logging
  PROVE  /\ Sound(Logged(r, logging))
         /\ Logged(r, logging).seen = r.seen
         /\ Logged(r, logging).drive = r.drive
         /\ Logged(r, logging).target = r.target
         /\ Logged(r, logging).style = r.style
         /\ Value(Logged(r, logging)) = Value(r)
<1>1. Read(r).target = r.target /\ Read(r).style = r.style
  BY DEF Read, Sound, ControllerState
<1> QED
  BY <1>1, ReadKeeps DEF Logged

\* A plain segment has nothing to clear.
LEMMA ClearedPlain ==
  ASSUME NEW r, Sound(r), IsPlain(r)
  PROVE  Value(Cleared(r)) = Value(r)
<1> DEFINE s == Cleared(r)
<1>1. /\ SameSegment(r, s)
      /\ s.age = r.age /\ s.seen = r.seen /\ s.cache = r.cache
  BY DEF Cleared, ClearOverrides, Sound, ControllerState, IsPlain, SameSegment
<1> HIDE DEF s
<1>2. /\ Elapsed(s) = Elapsed(r) /\ Length(s) = Length(r) /\ End(s) = End(r)
  BY <1>1, SameLength DEF Elapsed
<1>3. Computed(s) = Computed(r)
  BY <1>1, <1>2 DEF Computed, SameSegment
<1>4. Value(s) = Value(r)
  BY <1>1, <1>3 DEF Value
<1> QED
  BY <1>4 DEF s

LEMMA TowardBegins ==
  ASSUME NEW r, Sound(r), NEW status \in {"Forward", "Reverse"}, NEW logging
  PROVE  LET s == Toward(r, status, logging)
         IN  /\ Begins(r, s)
             /\ IsPlain(r) =>
                  Value(s) = Value(r) \/ (s.drive = "curve" /\ Length(s) = 0)
<1> DEFINE u == Cleared(Logged(r, logging))
           t == Started(Read(u), "curve", Value(u), status)
           s == Toward(r, status, logging)
<1>1. Sound(u) /\ u.seen = r.seen
  BY LoggedKeeps, ClearedKeeps
<1>2. u.target = None /\ u.style = None
  BY LoggedKeeps DEF Cleared, ClearOverrides, Sound, ControllerState
<1>3. s = [t EXCEPT !.repeating = FALSE]
  BY DEF Toward
<1>4. IsPlain(r) => Value(u) = Value(r)
  BY LoggedKeeps, ClearedPlain DEF IsPlain
<1> HIDE DEF s, u
<1>5. /\ Sound(Read(u)) /\ Read(u).seen = u.seen /\ Value(u) \in Lower .. Upper
      /\ Read(u).target = None /\ Read(u).style = None
  BY <1>1, <1>2, ReadKeeps, ValueInRange DEF Read, Sound, ControllerState
<1>6. /\ t \in ControllerState
      /\ t.age = 0 /\ t.seen = IF Read(u).seen = None THEN None ELSE 0
      /\ t.drive = "curve" /\ t.from = Value(u) /\ t.status = status
      /\ t.cache = Read(u).cache /\ t.value = Read(u).value
      /\ t.target = None /\ t.style = None
  BY <1>5, StartedFields
<1> HIDE DEF t
<1>7. /\ s \in ControllerState
      /\ s.age = 0 /\ s.seen = IF Read(u).seen = None THEN None ELSE 0
      /\ s.drive = "curve" /\ s.from = Value(u) /\ s.status = status
      /\ s.cache = Read(u).cache /\ s.value = Read(u).value
      /\ s.target = None /\ s.style = None
  BY <1>3, <1>6 DEF ControllerState
<1>8. Begins(Read(u), s)
  BY <1>5, <1>7, StartedBegins
<1>9. Begins(r, s) /\ Begins(u, s)
  BY <1>1, <1>5, <1>8 DEF Begins
<1>10. u.seen # None => Read(u).cache = Value(u)
  BY <1>1 DEF Read, Sound, ControllerState
<1>11. s.seen # None => s.cache = Value(u)
  BY <1>5, <1>7, <1>10, AnimationAssumption
<1>12. Value(s) = Value(u) \/ (s.drive = "curve" /\ Length(s) = 0)
  BY <1>1, <1>7, <1>9, <1>11, BeginsInPlace
<1> QED
  BY <1>4, <1>9, <1>12 DEF s

LEMMA RepeatedBegins ==
  ASSUME NEW r, Sound(r)
  PROVE  Begins(r, Repeated(r))
<1> DEFINE u == Cleared(r)
           t == Started(u, "curve", Lower, "Forward")
           s == Repeated(r)
<1>1. Sound(u) /\ u.seen = r.seen /\ Lower \in Lower .. Upper
  BY ClearedKeeps, AnimationAssumption
<1>2. s = [t EXCEPT !.repeating = TRUE]
  BY DEF Repeated
<1> HIDE DEF s, u
<1>3. /\ t \in ControllerState
      /\ t.age = 0 /\ t.seen = IF u.seen = None THEN None ELSE 0
      /\ t.drive = "curve" /\ t.from = Lower /\ t.status = "Forward"
      /\ t.cache = u.cache /\ t.value = u.value
      /\ t.target = u.target /\ t.style = u.style
  BY <1>1, StartedFields
<1> HIDE DEF t
<1>4. /\ s \in ControllerState
      /\ s.age = 0 /\ s.seen = IF u.seen = None THEN None ELSE 0
      /\ s.drive = "curve" /\ s.from = Lower /\ s.status = "Forward"
      /\ s.cache = u.cache /\ s.value = u.value
      /\ s.target = u.target /\ s.style = u.style
  BY <1>2, <1>3 DEF ControllerState
<1>5. u.target \in (Lower .. Upper) \cup {None} /\ u.style \in Styles \cup {None}
  BY <1>1 DEF Sound
<1>6. Begins(u, s)
  BY <1>1, <1>4, <1>5, StartedBegins
<1> QED
  BY <1>1, <1>6 DEF Begins, s

LEMMA SimulatedBegins ==
  ASSUME NEW r, Sound(r), NEW origin \in Lower .. Upper
  PROVE  LET s == Simulated(r, origin)
         IN  Begins(r, s) /\ s.from = origin /\ s.cache = r.cache
<1> DEFINE u == ClearOverrides(r)
           s == Simulated(r, origin)
<1>1. Sound(u) /\ u.seen = r.seen /\ u.cache = r.cache
  BY DEF ClearOverrides, Sound, ControllerState
<1>2. u.target \in (Lower .. Upper) \cup {None} /\ u.style \in Styles \cup {None}
  BY <1>1 DEF Sound
<1>3. s = Started(u, "simulation", origin, "Forward")
  BY DEF Simulated
<1> HIDE DEF s, u
<1>4. /\ s \in ControllerState
      /\ s.age = 0 /\ s.seen = IF u.seen = None THEN None ELSE 0
      /\ s.drive = "simulation" /\ s.from = origin /\ s.status = "Forward"
      /\ s.cache = u.cache /\ s.value = u.value
      /\ s.target = u.target /\ s.style = u.style
  BY <1>1, <1>3, StartedFields
<1>5. Begins(u, s)
  BY <1>1, <1>2, <1>4, StartedBegins
<1> QED
  BY <1>1, <1>4, <1>5 DEF Begins, s

\* A fling starts from the value that was shown.
LEMMA FlingBegins ==
  ASSUME NEW r, Sound(r)
  PROVE  LET s == Simulated(Read(r), Value(r))
         IN  Begins(r, s) /\ Value(s) = Value(r)
<1> DEFINE s == Simulated(Read(r), Value(r))
<1>1. Sound(Read(r)) /\ Read(r).seen = r.seen /\ Value(r) \in Lower .. Upper
  BY ReadKeeps, ValueInRange
<1>2. Begins(Read(r), s) /\ s.from = Value(r) /\ s.cache = Read(r).cache
  BY <1>1, SimulatedBegins
<1>3. s.drive = "simulation"
  BY <1>1 DEF Simulated, Started, ClearOverrides, Sound, ControllerState
<1> HIDE DEF s
<1>4. Begins(r, s)
  BY <1>1, <1>2 DEF Begins
<1>5. r.seen # None => Read(r).cache = Value(r)
  BY DEF Read, Sound, ControllerState
<1>6. s.seen # None => s.cache = Value(r)
  BY <1>2, <1>4, <1>5, AnimationAssumption DEF Begins
<1>7. Value(s) = Value(r)
  BY <1>2, <1>3, <1>4, <1>6, BeginsInPlace
<1> QED
  BY <1>4, <1>7 DEF s

-----------------------------------------------------------------------------
\* A controller that has been settled by stop or reset.
Ends(r, s) ==
  /\ Sound(s)
  /\ s.drive = "none"
  /\ s.seen = IF r.seen = None THEN None ELSE 0

LEMMA IdleFields ==
  ASSUME NEW r, Sound(r), NEW status \in AnimationStatus
  PROVE  LET s == Idle(r, status)
         IN  /\ s \in ControllerState
             /\ s.age = 0 /\ s.seen = IF r.seen = None THEN None ELSE 0
             /\ s.drive = "none" /\ s.from = r.from
             /\ s.target = None /\ s.style = None
             /\ s.value = r.value /\ s.cache = r.cache
<1> DEFINE s == Idle(r, status)
           u == ClearOverrides(r)
           seen == IF r.seen = None THEN None ELSE 0
<1>1. /\ u \in ControllerState
      /\ u.target = None /\ u.style = None
      /\ u.value = r.value /\ u.cache = r.cache /\ u.from = r.from
      /\ u.seen = r.seen
  BY DEF ClearOverrides, Sound, ControllerState
<1>2. seen \in Nat \cup {None}
  OBVIOUS
<1>3. s = [u EXCEPT !.drive = "none", !.repeating = FALSE, !.status = status,
                    !.age = 0, !.seen = seen]
  BY <1>1 DEF Idle
<1> HIDE DEF s, u, seen
<1>4. s \in ControllerState
  BY <1>1, <1>2, <1>3 DEF ControllerState
<1>5. /\ s.age = 0 /\ s.seen = seen /\ s.drive = "none" /\ s.from = u.from
      /\ s.target = u.target /\ s.style = u.style
      /\ s.value = u.value /\ s.cache = u.cache
  BY <1>1, <1>3 DEF ControllerState
<1> QED
  BY <1>1, <1>4, <1>5 DEF s, seen

LEMMA StoppedEnds ==
  ASSUME NEW r, Sound(r)
  PROVE  Ends(r, Stopped(r)) /\ Value(Stopped(r)) = Value(r)
<1> DEFINE status == IF Value(r) = Upper THEN "Completed"
                     ELSE IF Value(r) = Lower THEN "Dismissed" ELSE r.status
           u == Idle(Read(r), status)
           s == Stopped(r)
<1>1. Sound(Read(r)) /\ Read(r).seen = r.seen /\ Value(r) \in Lower .. Upper
  BY ReadKeeps, ValueInRange
<1>2. status \in AnimationStatus
  BY DEF Sound, ControllerState, AnimationStatus
<1>3. s = [u EXCEPT !.value = Value(r)]
  BY DEF Stopped
<1> HIDE DEF s, status
<1>4. /\ u \in ControllerState
      /\ u.age = 0 /\ u.seen = IF Read(r).seen = None THEN None ELSE 0
      /\ u.drive = "none" /\ u.from = Read(r).from
      /\ u.target = None /\ u.style = None
      /\ u.value = Read(r).value /\ u.cache = Read(r).cache
  BY <1>1, <1>2, IdleFields
<1> HIDE DEF u
<1>5. Value(r) \in Int /\ Value(r) # None
  BY <1>1, AnimationAssumption
<1>6. /\ s \in ControllerState /\ s.value = Value(r)
      /\ s.age = u.age /\ s.seen = u.seen /\ s.drive = u.drive
      /\ s.from = u.from /\ s.target = u.target /\ s.style = u.style
      /\ s.cache = u.cache
  BY <1>3, <1>4, <1>5 DEF ControllerState
<1>7. Ends(r, s)
  BY <1>1, <1>4, <1>6, AnimationAssumption DEF Ends, Sound
<1>8. r.seen # None => Read(r).cache = Value(r)
  BY DEF Read, Sound, ControllerState
<1>9. Value(s) = Value(r)
  BY <1>1, <1>4, <1>6, <1>8 DEF Value, Computed
<1> QED
  BY <1>7, <1>9 DEF s

LEMMA ResetEnds ==
  ASSUME NEW r, Sound(r)
  PROVE  Ends(r, ResetTo(r))
<1> DEFINE u == Idle(r, "Dismissed")
           s == ResetTo(r)
<1>1. /\ u \in ControllerState
      /\ u.age = 0 /\ u.seen = IF r.seen = None THEN None ELSE 0
      /\ u.drive = "none" /\ u.from = r.from
      /\ u.target = None /\ u.style = None /\ u.cache = r.cache
  BY IdleFields DEF AnimationStatus
<1>2. s = [u EXCEPT !.value = Lower]
  BY DEF ResetTo
<1> HIDE DEF s, u
<1>3. /\ s \in ControllerState /\ s.value = Lower
      /\ s.age = u.age /\ s.seen = u.seen /\ s.drive = u.drive
      /\ s.from = u.from /\ s.target = u.target /\ s.style = u.style
      /\ s.cache = u.cache
  BY <1>1, <1>2, AnimationAssumption DEF ControllerState
<1>4. Ends(r, s)
  BY <1>1, <1>3, AnimationAssumption DEF Ends, Sound
<1> QED
  BY <1>4 DEF s

-----------------------------------------------------------------------------
(* Time and ticks.                                                         *)

\* A controller that does not animate will not by itself, and where it is does
\* not depend on the instant it is read at, unless it is misjudged.
LEMMA RestsStill ==
  ASSUME NEW r, NEW s, Sound(r), Sound(s), ~IsAnimating(r), SameSegment(r, s),
         Elapsed(s) >= Elapsed(r)
  PROVE  /\ ~IsAnimating(s)
         /\ Misjudged(r) => Misjudged(s)
         /\ ~Misjudged(r) => Computed(s) = Computed(r)
<1>1. /\ Length(s) = Length(r) /\ DefaultDuration(s) = DefaultDuration(r)
      /\ End(s) = End(r)
  BY SameLength
<1>2. /\ Elapsed(r) \in Nat /\ Elapsed(s) \in Nat /\ Length(r) \in Nat
      /\ DefaultDuration(r) \in Nat /\ SimEnd \in Nat
  BY LengthIsDuration, AnimationAssumption
<1>3. r.drive = "curve" => ~r.repeating /\ Elapsed(r) >= DefaultDuration(r)
  BY <1>2 DEF IsAnimating, Sound
<1>4. r.drive = "simulation" => Elapsed(r) >= SimEnd
  BY <1>2 DEF IsAnimating
<1>5. ~IsAnimating(s)
  BY <1>1, <1>2, <1>3, <1>4 DEF IsAnimating, SameSegment
<1>6. Misjudged(r) => Misjudged(s)
  BY <1>1, <1>5 DEF Misjudged, SameSegment
<1>7. ASSUME ~Misjudged(r), r.drive = "simulation" PROVE Computed(s) = Computed(r)
  <2>1. Least(Elapsed(r), SimEnd) = SimEnd /\ Least(Elapsed(s), SimEnd) = SimEnd
    BY <1>2, <1>4, <1>7 DEF Least
  <2> QED BY <1>7, <2>1 DEF Computed, SameSegment
<1>8. ASSUME ~Misjudged(r), r.drive = "curve" PROVE Computed(s) = Computed(r)
  <2>1. Length(r) <= DefaultDuration(r)
    BY <1>2, <1>8 DEF Misjudged
  <2>2. Least(Elapsed(r), Length(r)) = Length(r) /\ Least(Elapsed(s), Length(r)) = Length(r)
    BY <1>2, <1>3, <1>8, <2>1 DEF Least
  <2> QED
    BY <1>1, <1>8, <2>2 DEF Computed, SameSegment
<1>9. r.drive = "none" => Computed(s) = Computed(r)
  BY DEF Computed, SameSegment
<1> QED
  BY <1>5, <1>6, <1>7, <1>8, <1>9 DEF Sound, ControllerState

LEMMA TickedKeeps ==
  ASSUME NEW r, Sound(r)
  PROVE  LET s == Ticked(r)
         IN  /\ Sound(s) /\ Current(s) /\ SameSegment(r, s)
             /\ s.seen = r.age /\ s.cache = None /\ Elapsed(s) >= Elapsed(r)
<1> DEFINE s == Ticked(r)
<1>1. /\ s \in ControllerState /\ SameSegment(r, s)
      /\ s.seen = r.age /\ s.cache = None /\ s.age = r.age
  BY DEF Ticked, Sound, ControllerState, SameSegment
<1> HIDE DEF s
<1>2. Sound(s) /\ Current(s)
  BY <1>1 DEF Sound, Current, ControllerState, SameSegment
<1>3. Elapsed(s) >= Elapsed(r)
  BY <1>1, AnimationAssumption DEF Elapsed, Sound, ControllerState
<1> QED
  BY <1>1, <1>2, <1>3 DEF s

LEMMA OlderKeeps ==
  ASSUME NEW r, Sound(r)
  PROVE  LET s == Older(r)
         IN  /\ Sound(s) /\ SameSegment(r, s)
             /\ s.seen = r.seen /\ s.cache = r.cache
             /\ Elapsed(s) >= Elapsed(r)
             /\ r.seen # None => Elapsed(s) = Elapsed(r)
<1>1. CASE r.drive = "none"
  BY <1>1, LengthIsDuration DEF Older, SameSegment
<1>2. CASE r.drive # "none"
  <2> DEFINE age == Least(r.age + 1, Cap)
             s == Older(r)
  <2>1. age \in Nat /\ age >= r.age /\ age <= Cap
    BY AnimationAssumption DEF Least, Sound, ControllerState
  <2>2. s = [r EXCEPT !.age = age]
    BY <1>2 DEF Older
  <2> HIDE DEF s, age
  <2>3. /\ s \in ControllerState /\ SameSegment(r, s) /\ s.age = age
        /\ s.seen = r.seen /\ s.cache = r.cache
    BY <2>1, <2>2 DEF Sound, ControllerState, SameSegment
  <2>4. Sound(s)
    BY <2>1, <2>3 DEF Sound, ControllerState, SameSegment
  <2>5. Elapsed(s) >= Elapsed(r) /\ (r.seen # None => Elapsed(s) = Elapsed(r))
    BY <2>1, <2>3, LengthIsDuration DEF Elapsed
  <2> QED
    BY <2>3, <2>4, <2>5 DEF s
<1> QED
  BY <1>1, <1>2

-----------------------------------------------------------------------------
(* The inductive invariant.                                                *)

TypeInv ==
  /\ ctrl \in [Controller -> ControllerState]
  /\ alive \subseteq Controller
  /\ active \subseteq Controller
  /\ dirty \subseteq Controller
  /\ due \subseteq Controller
  /\ drawn \in [Controller -> Lower .. Upper]
  /\ frame \in {"idle", "paint"}
  /\ driver \in {"pipeline", "platform"}
  /\ calls \in 0 .. MaxCalls

FieldsInv == \A c \in Controller : Sound(ctrl[c]) /\ Current(ctrl[c])

\* The platform's frames tick nothing.
PlatformInv == driver = "platform" => \A c \in Controller : ctrl[c].seen = None

\* Only a controller with a segment is in the active set.
ActiveInv == \A c \in active : ctrl[c].drive # "none"

Inv == TypeInv /\ FieldsInv /\ PlatformInv /\ ActiveInv /\ RunningIsTicked

\* A view that nothing will draw again shows where its controller rests.
ShownInv ==
  \A c \in alive :
    c \notin dirty \cup due =>
      ~IsAnimating(ctrl[c]) /\ (Misjudged(ctrl[c]) \/ drawn[c] = Value(ctrl[c]))

LEMMA InitInv ==
  ASSUME Init
  PROVE  Inv /\ ShownInv
<1>1. \A c \in Controller :
        /\ ctrl[c] \in ControllerState
        /\ ctrl[c].value = Lower /\ ctrl[c].from = Lower
        /\ ctrl[c].cache = None /\ ctrl[c].target = None
        /\ ctrl[c].style = None /\ ctrl[c].age = 0 /\ ctrl[c].seen = None
        /\ ctrl[c].drive = "none"
  <2> TAKE c \in Controller
  <2>1. PICK p \in Durations : ctrl[c] = New(p[1], p[2])
    BY DEF Init
  <2>2. p[1] \in Nat /\ p[2] \in Nat \cup {None}
    BY AnimationAssumption
  <2> QED
    BY <2>1, <2>2, AnimationAssumption DEF New, ControllerState, AnimationStatus
<1>2. TypeInv
  <2>1. ctrl \in [Controller -> ControllerState]
    <3>1. ctrl = [c \in Controller |-> ctrl[c]]
      BY DEF Init
    <3> QED BY <1>1, <3>1
  <2>2. drawn \in [Controller -> Lower .. Upper] /\ calls \in 0 .. MaxCalls
    BY AnimationAssumption DEF Init
  <2> QED
    BY <2>1, <2>2 DEF Init, TypeInv
<1>3. FieldsInv
  <2> SUFFICES ASSUME NEW c \in Controller
               PROVE  Sound(ctrl[c]) /\ Current(ctrl[c])
    BY DEF FieldsInv
  <2> QED
    BY <1>1, AnimationAssumption DEF Sound, Current
<1>4. PlatformInv /\ ActiveInv /\ RunningIsTicked
  BY <1>1 DEF Init, PlatformInv, ActiveInv, RunningIsTicked, IsAnimating
<1>5. ShownInv
  BY <1>1 DEF Init, ShownInv, IsAnimating, Value, Computed
<1> QED
  BY <1>2, <1>3, <1>4, <1>5 DEF Inv

\* A call that gives c a segment, or settles it.
LEMMA CallStep ==
  ASSUME Inv, NEW c \in Controller, NEW s, Call(c, s),
         \/ Begins(ctrl[c], s) /\ active' = active \cup {c}
         \/ Ends(ctrl[c], s) /\ active' = active \ {c}
  PROVE  Inv' /\ (ShownInv => ShownInv')
<1>1. Sound(s) /\ Current(s) /\ s.seen = IF ctrl[c].seen = None THEN None ELSE 0
  BY DEF Begins, Ends, Current
<1>2. /\ c \in alive /\ ctrl' = [ctrl EXCEPT ![c] = s]
      /\ dirty' = dirty \cup {c} /\ due' = due /\ drawn' = drawn
      /\ alive' = alive /\ frame' = frame /\ driver' = driver
      /\ calls < MaxCalls /\ calls' = calls + 1
  BY DEF Call
<1>3. ctrl \in [Controller -> ControllerState] /\ s \in ControllerState
  BY <1>1 DEF Inv, TypeInv, Sound
<1>4. ctrl'[c] = s /\ \A d \in Controller \ {c} : ctrl'[d] = ctrl[d]
  BY <1>2, <1>3
<1>5. TypeInv'
  <2>1. ctrl' \in [Controller -> ControllerState]
    BY <1>2, <1>3
  <2>2. calls' \in 0 .. MaxCalls
    BY <1>2, AnimationAssumption DEF Inv, TypeInv
  <2> QED
    BY <1>2, <2>1, <2>2 DEF Inv, TypeInv
<1>6. FieldsInv'
  BY <1>1, <1>4 DEF Inv, FieldsInv
<1>7. PlatformInv'
  BY <1>1, <1>2, <1>4 DEF Inv, PlatformInv
<1>8. ActiveInv'
  BY <1>4 DEF Inv, TypeInv, ActiveInv, Begins
<1>9. RunningIsTicked'
  BY <1>2, <1>4 DEF Inv, TypeInv, RunningIsTicked, Ends, IsAnimating
<1>10. ShownInv => ShownInv'
  BY <1>2, <1>4 DEF Inv, TypeInv, ShownInv
<1> QED
  BY <1>5, <1>6, <1>7, <1>8, <1>9, <1>10 DEF Inv

LEMMA ReadStep ==
  ASSUME Inv, NEW c \in Controller, ReadValue(c)
  PROVE  Inv' /\ (ShownInv => ShownInv')
<1>1. /\ ctrl' = [ctrl EXCEPT ![c] = Read(ctrl[c])]
      /\ alive' = alive /\ active' = active
      /\ dirty' = dirty /\ due' = due /\ drawn' = drawn
      /\ frame' = frame /\ driver' = driver /\ calls' = calls
  BY DEF ReadValue, views
<1>2. /\ Sound(Read(ctrl[c])) /\ Current(Read(ctrl[c]))
      /\ Value(Read(ctrl[c])) = Value(ctrl[c])
      /\ IsAnimating(ctrl[c]) <=> IsAnimating(Read(ctrl[c]))
      /\ Misjudged(ctrl[c]) <=> Misjudged(Read(ctrl[c]))
      /\ Read(ctrl[c]).seen = ctrl[c].seen
      /\ Read(ctrl[c]).drive = ctrl[c].drive
  BY ReadKeeps DEF Inv, FieldsInv
<1>3. /\ ctrl'[c] = Read(ctrl[c])
      /\ \A d \in Controller \ {c} : ctrl'[d] = ctrl[d]
  BY <1>1 DEF Inv, TypeInv
<1>4. ctrl' \in [Controller -> ControllerState]
  BY <1>1, <1>2 DEF Inv, TypeInv, Sound
<1>5. TypeInv'
  BY <1>1, <1>4 DEF Inv, TypeInv
<1>6. FieldsInv'
  BY <1>2, <1>3 DEF Inv, FieldsInv
<1>7. PlatformInv' /\ ActiveInv' /\ RunningIsTicked'
  BY <1>1, <1>2, <1>3
  DEF Inv, TypeInv, PlatformInv, ActiveInv, RunningIsTicked
<1>8. ShownInv => ShownInv'
  BY <1>1, <1>2, <1>3 DEF Inv, TypeInv, ShownInv
<1> QED
  BY <1>5, <1>6, <1>7, <1>8 DEF Inv

LEMMA DropStep ==
  ASSUME Inv, NEW c \in Controller, DropEntity(c)
  PROVE  Inv' /\ (ShownInv => ShownInv')
BY DEF DropEntity, views, Inv, TypeInv, FieldsInv, PlatformInv, ActiveInv,
       RunningIsTicked, ShownInv

LEMMA FrameStep ==
  ASSUME Inv, BeginFrame
  PROVE  Inv' /\ (ShownInv => ShownInv')
<1> DEFINE IsVisited(c) == driver = "pipeline" /\ c \in Visited
<1>1. /\ frame' = "paint" /\ alive' = alive /\ driver' = driver
      /\ calls' = calls
  BY DEF BeginFrame
<1>2. /\ \A c \in Controller :
           ctrl'[c] = IF IsVisited(c) THEN Ticked(ctrl[c]) ELSE ctrl[c]
      /\ ctrl' = [c \in Controller |-> ctrl'[c]]
  BY DEF BeginFrame, Inv, TypeInv
<1>3. active' = IF driver = "pipeline" THEN Continuing ELSE active
  BY DEF BeginFrame
<1>4. /\ dirty \subseteq dirty' /\ due \subseteq dirty' /\ due' = {}
      /\ driver = "pipeline" => Continuing \subseteq dirty'
      /\ dirty' \subseteq Controller /\ drawn' = drawn
  BY DEF BeginFrame, Continuing, Visited, Inv, TypeInv
<1>5. \A c \in Controller :
        LET s == Ticked(ctrl[c])
        IN  /\ Sound(s) /\ Current(s) /\ SameSegment(ctrl[c], s)
            /\ s.drive = ctrl[c].drive
            /\ s.seen = ctrl[c].age /\ s.cache = None
            /\ Elapsed(s) >= Elapsed(ctrl[c])
  BY TickedKeeps DEF Inv, FieldsInv, SameSegment
<1>6. TypeInv'
  <2>1. ctrl' \in [Controller -> ControllerState]
    BY <1>2, <1>5 DEF Inv, TypeInv, Sound
  <2>2. active' \subseteq Controller
    BY <1>3 DEF Continuing, Visited, Inv, TypeInv
  <2> QED
    BY <1>1, <1>4, <2>1, <2>2 DEF Inv, TypeInv
<1>7. FieldsInv'
  BY <1>2, <1>5 DEF Inv, FieldsInv
<1>8. PlatformInv'
  BY <1>1, <1>2 DEF Inv, PlatformInv
<1>9. ActiveInv'
  <2> SUFFICES ASSUME NEW c \in active'
               PROVE  ctrl'[c].drive # "none"
    BY DEF ActiveInv
  <2>1. c \in active /\ c \in Controller
    BY <1>3 DEF Continuing, Visited, Inv, TypeInv
  <2> QED
    BY <1>2, <1>5, <2>1 DEF Inv, ActiveInv
<1>10. RunningIsTicked'
  <2> SUFFICES ASSUME driver = "pipeline", NEW c \in alive,
                      IsAnimating(ctrl'[c])
               PROVE  c \in Continuing
    BY <1>1, <1>3 DEF RunningIsTicked
  <2>1. c \in Controller
    BY DEF Inv, TypeInv
  <2>2. CASE c \in active
    BY <1>2, <2>1, <2>2 DEF Continuing, Visited
  <2>3. CASE c \notin active
    BY <1>2, <2>1, <2>3 DEF Visited, Inv, RunningIsTicked
  <2> QED
    BY <2>2, <2>3
<1>11. ASSUME ShownInv
       PROVE  ShownInv'
  <2> SUFFICES ASSUME NEW c \in alive, c \notin dirty'
               PROVE  /\ ~IsAnimating(ctrl'[c])
                      /\ Misjudged(ctrl'[c]) \/ drawn[c] = Value(ctrl'[c])
    BY <1>1, <1>4 DEF ShownInv, Misjudged, IsAnimating, Value, Computed, Elapsed,
       DefaultDuration, Length, End
  <2>1. /\ c \in Controller /\ ~IsAnimating(ctrl[c])
        /\ Misjudged(ctrl[c]) \/ drawn[c] = Value(ctrl[c])
    BY <1>4, <1>11 DEF Inv, TypeInv, ShownInv
  <2>2. CASE ~IsVisited(c)
    BY <1>2, <2>1, <2>2
  <2>3. CASE IsVisited(c)
    <3> DEFINE r == ctrl[c]
               s == Ticked(r)
    <3>1. r.drive # "none" /\ Sound(r) /\ Current(r) /\ ctrl'[c] = s
      BY <1>2, <2>1, <2>3 DEF Visited, Inv, ActiveInv, FieldsInv
    <3>2. /\ ~IsAnimating(s) /\ (Misjudged(r) => Misjudged(s))
          /\ ~Misjudged(r) => Computed(s) = Computed(r)
      BY <1>5, <2>1, <3>1, RestsStill
    <3>3. ASSUME ~Misjudged(r) PROVE Value(s) = Value(r)
      <4>1. r.drive \in {"curve", "simulation"}
        BY <3>1 DEF Sound, ControllerState
      <4>2. Elapsed(r) > 0
        BY <2>1, <3>1, <3>3, <4>1, LengthIsDuration, AnimationAssumption
        DEF Misjudged, IsAnimating, Sound
      <4>3. Value(r) = Computed(r)
        BY <3>1, <4>2 DEF Value, Current, Elapsed
      <4>4. Value(s) = Computed(s)
        BY <1>5, <2>1 DEF Value
      <4> QED BY <3>2, <3>3, <4>3, <4>4
    <3> QED
      BY <2>1, <3>1, <3>2, <3>3
  <2> QED
    BY <2>2, <2>3
<1> QED
  BY <1>6, <1>7, <1>8, <1>9, <1>10, <1>11 DEF Inv

LEMMA PaintStep ==
  ASSUME Inv, Paint
  PROVE  Inv' /\ (ShownInv => ShownInv')
<1>1. /\ frame' = "idle" /\ alive' = alive /\ active' = active
      /\ driver' = driver /\ calls' = calls
  BY DEF Paint
<1>2. /\ \A c \in Controller :
           ctrl'[c] = IF c \in Drawing THEN Read(ctrl[c]) ELSE ctrl[c]
      /\ ctrl' = [c \in Controller |-> ctrl'[c]]
  BY DEF Paint
<1>3. \A c \in Controller :
        /\ Sound(ctrl'[c]) /\ Current(ctrl'[c])
        /\ Value(ctrl'[c]) = Value(ctrl[c])
        /\ IsAnimating(ctrl[c]) <=> IsAnimating(ctrl'[c])
        /\ Misjudged(ctrl[c]) <=> Misjudged(ctrl'[c])
        /\ ctrl'[c].seen = ctrl[c].seen
        /\ ctrl'[c].drive = ctrl[c].drive
  BY <1>2, ReadKeeps DEF Inv, FieldsInv
<1>4. /\ drawn' = [c \in Controller |->
                     IF c \in Drawing THEN Value(ctrl[c]) ELSE drawn[c]]
      /\ due' = due \cup {c \in Drawing : IsAnimating(ctrl[c])}
      /\ dirty' = {} /\ Drawing = dirty \cap alive
  BY DEF Paint, Drawing
<1>5. TypeInv'
  <2>1. ctrl' \in [Controller -> ControllerState]
    BY <1>2, <1>3 DEF Sound
  <2>2. \A c \in Controller : Value(ctrl[c]) \in Lower .. Upper
    BY ValueInRange DEF Inv, FieldsInv
  <2>3. drawn' \in [Controller -> Lower .. Upper]
    BY <1>4, <2>2 DEF Inv, TypeInv
  <2> QED
    BY <1>1, <1>4, <2>1, <2>3 DEF Inv, TypeInv
<1>6. FieldsInv'
  BY <1>3 DEF FieldsInv
<1>7. PlatformInv' /\ ActiveInv' /\ RunningIsTicked'
  BY <1>1, <1>3 DEF Inv, TypeInv, PlatformInv, ActiveInv, RunningIsTicked
<1>8. ASSUME ShownInv
      PROVE  ShownInv'
  <2> SUFFICES ASSUME NEW c \in alive, c \notin due'
               PROVE  /\ ~IsAnimating(ctrl'[c])
                      /\ Misjudged(ctrl'[c]) \/ drawn'[c] = Value(ctrl'[c])
    BY <1>1 DEF ShownInv, Misjudged, IsAnimating, Value, Computed, Elapsed,
       DefaultDuration, Length, End
  <2>1. c \in Controller
    BY DEF Inv, TypeInv
  <2>2. CASE c \in Drawing
    <3>1. ~IsAnimating(ctrl[c]) /\ drawn'[c] = Value(ctrl[c])
      BY <1>4, <2>1, <2>2
    <3> QED
      BY <1>3, <2>1, <3>1
  <2>3. CASE c \notin Drawing
    <3>1. /\ ~IsAnimating(ctrl[c]) /\ drawn'[c] = drawn[c]
          /\ Misjudged(ctrl[c]) \/ drawn[c] = Value(ctrl[c])
      BY <1>4, <1>8, <2>1, <2>3 DEF ShownInv
    <3> QED
      BY <1>3, <2>1, <3>1
  <2> QED
    BY <2>2, <2>3
<1> QED
  BY <1>5, <1>6, <1>7, <1>8 DEF Inv

LEMMA AdvanceStep ==
  ASSUME Inv, Advance
  PROVE  Inv' /\ (ShownInv => ShownInv')
<1>1. /\ alive' = alive /\ active' = active
      /\ dirty' = dirty /\ due' = due /\ drawn' = drawn
      /\ frame' = frame /\ driver' = driver /\ calls' = calls
      /\ ctrl' = [c \in Controller |-> Older(ctrl[c])]
  BY DEF Advance, views
<1>2. \A c \in Controller :
        LET r == ctrl[c]
            s == ctrl'[c]
        IN  /\ Sound(r) /\ Current(r) /\ Sound(s) /\ SameSegment(r, s)
            /\ s.drive = r.drive /\ s.seen = r.seen /\ s.cache = r.cache
            /\ Elapsed(s) >= Elapsed(r)
            /\ r.seen # None => Elapsed(s) = Elapsed(r)
  BY <1>1, OlderKeeps DEF Inv, FieldsInv, SameSegment
<1>3. TypeInv'
  BY <1>1, <1>2 DEF Inv, TypeInv, Sound
<1>4. \A c \in Controller :
        ctrl[c].seen # None => Computed(ctrl'[c]) = Computed(ctrl[c])
  BY <1>2, SameLength DEF Computed, SameSegment
<1>5. FieldsInv'
  BY <1>2, <1>4 DEF FieldsInv, Current
<1>6. PlatformInv' /\ ActiveInv'
  BY <1>1, <1>2 DEF Inv, TypeInv, PlatformInv, ActiveInv
<1>7. RunningIsTicked'
  <2>1. \A c \in Controller : IsAnimating(ctrl'[c]) => IsAnimating(ctrl[c])
    BY <1>2, RestsStill
  <2> QED
    BY <1>1, <2>1 DEF Inv, TypeInv, RunningIsTicked
<1>8. ASSUME ShownInv
      PROVE  ShownInv'
  <2> SUFFICES ASSUME NEW c \in alive, c \notin dirty \cup due
               PROVE  /\ ~IsAnimating(ctrl'[c])
                      /\ Misjudged(ctrl'[c]) \/ drawn[c] = Value(ctrl'[c])
    BY <1>1 DEF ShownInv, Misjudged, IsAnimating, Value, Computed, Elapsed,
       DefaultDuration, Length, End
  <2>1. /\ c \in Controller /\ ~IsAnimating(ctrl[c])
        /\ Misjudged(ctrl[c]) \/ drawn[c] = Value(ctrl[c])
    BY <1>8 DEF Inv, TypeInv, ShownInv
  <2>2. /\ ~IsAnimating(ctrl'[c]) /\ (Misjudged(ctrl[c]) => Misjudged(ctrl'[c]))
        /\ ~Misjudged(ctrl[c]) => Computed(ctrl'[c]) = Computed(ctrl[c])
    BY <1>2, <2>1, RestsStill
  <2>3. ~Misjudged(ctrl[c]) => Value(ctrl'[c]) = Value(ctrl[c])
    BY <1>2, <2>1, <2>2 DEF Value
  <2> QED
    BY <2>1, <2>2, <2>3
<1> QED
  BY <1>3, <1>5, <1>6, <1>7, <1>8 DEF Inv

\* animate_to and animate_back hold the target between the bounds.
LEMMA TargetCalls ==
  ASSUME NEW c \in Controller, AnimateTo(c) \/ AnimateBack(c)
  PROVE  \E target \in Lower .. Upper, style \in Styles,
            status \in {"Forward", "Reverse"} :
           Start(c, ToTarget(ctrl[c], target, style, status))
<1>1. \A target \in Targets : Clamp(target) \in Lower .. Upper
  BY ClampInRange, AnimationAssumption
<1>2. CASE AnimateTo(c)
  BY <1>1, <1>2 DEF AnimateTo
<1>3. CASE AnimateBack(c)
  BY <1>1, <1>3 DEF AnimateBack
<1> QED
  BY <1>2, <1>3

LEMMA NextKeepsInv ==
  ASSUME Inv, [Next]_vars
  PROVE  Inv' /\ (ShownInv => ShownInv')
<1>1. ASSUME NEW c \in Controller
      PROVE  /\ Sound(ctrl[c])
             /\ Forward(c) \/ Reverse(c) => Inv' /\ (ShownInv => ShownInv')
  <2>1. Sound(ctrl[c])
    BY DEF Inv, FieldsInv
  <2>2. ASSUME NEW status \in {"Forward", "Reverse"}, NEW logging,
               Start(c, Toward(ctrl[c], status, logging))
        PROVE  Inv' /\ (ShownInv => ShownInv')
    BY <2>1, <2>2, TowardBegins, CallStep DEF Start
  <2> QED
    BY <2>1, <2>2 DEF Forward, Reverse
<1>2. ASSUME NEW c \in Controller, AnimateTo(c) \/ AnimateBack(c)
      PROVE  Inv' /\ (ShownInv => ShownInv')
  <2>1. PICK target \in Lower .. Upper, style \in Styles,
             status \in {"Forward", "Reverse"} :
          Start(c, ToTarget(ctrl[c], target, style, status))
    BY <1>2, TargetCalls
  <2> QED
    BY <1>1, <2>1, ToTargetBegins, CallStep DEF Start
<1>3. ASSUME NEW c \in Controller, Repeat(c)
      PROVE  Inv' /\ (ShownInv => ShownInv')
  BY <1>1, <1>3, RepeatedBegins, CallStep DEF Repeat, Start
<1>4. ASSUME NEW c \in Controller, AnimateWith(c)
      PROVE  Inv' /\ (ShownInv => ShownInv')
  <2>1. PICK origin \in Origins : Start(c, Simulated(ctrl[c], origin))
    BY <1>4 DEF AnimateWith
  <2>2. origin \in Lower .. Upper
    BY AnimationAssumption
  <2> QED
    BY <1>1, <2>1, <2>2, SimulatedBegins, CallStep DEF Start
<1>5. ASSUME NEW c \in Controller, Fling(c)
      PROVE  Inv' /\ (ShownInv => ShownInv')
  BY <1>1, <1>5, FlingBegins, CallStep DEF Fling, Start
<1>6. ASSUME NEW c \in Controller, Stop(c)
      PROVE  Inv' /\ (ShownInv => ShownInv')
  BY <1>1, <1>6, StoppedEnds, CallStep DEF Stop, Settle
<1>7. ASSUME NEW c \in Controller, Reset(c)
      PROVE  Inv' /\ (ShownInv => ShownInv')
  BY <1>1, <1>7, ResetEnds, CallStep DEF Reset, Settle
<1>8. CASE UNCHANGED vars
  BY <1>8
  DEF vars, views, Inv, TypeInv, FieldsInv, PlatformInv, ActiveInv,
      RunningIsTicked, ShownInv
<1> QED
  BY <1>1, <1>2, <1>3, <1>4, <1>5, <1>6, <1>7, <1>8, ReadStep, DropStep,
     FrameStep, PaintStep, AdvanceStep
  DEF Next, Toggle

\* The types, and that a controller never shows a value outside its bounds.
THEOREM ControllersAreTyped == Spec => []TypeOK
<1>1. Inv => TypeOK
  <2> SUFFICES ASSUME Inv PROVE TypeOK
    OBVIOUS
  <2>1. ASSUME NEW c \in Controller
        PROVE  /\ {ctrl[c].value, ctrl[c].from, Value(ctrl[c])}
                    \subseteq Lower .. Upper
               /\ ctrl[c].target \in (Lower .. Upper) \cup {None}
               /\ ctrl[c].style \in Styles \cup {None}
               /\ ctrl[c].age <= Cap
    BY ValueInRange DEF Inv, FieldsInv, Sound
  <2> QED
    BY <2>1 DEF Inv, TypeInv, TypeOK
<1>2. Init => Inv
  BY InitInv
<1>3. Inv /\ [Next]_vars => Inv'
  BY NextKeepsInv
<1> QED
  BY <1>1, <1>2, <1>3, PTL DEF Spec

\* Every controller that is animating is in the active set that the frames
\* of run_frame walk: for every set of controllers and however many calls.
THEOREM AnimationsAreTicked == Spec => []RunningIsTicked
<1>1. Init => Inv
  BY InitInv
<1>2. Inv /\ [Next]_vars => Inv'
  BY NextKeepsInv
<1>3. Inv => RunningIsTicked
  BY DEF Inv
<1> QED
  BY <1>1, <1>2, <1>3, PTL DEF Spec

\* A view that shows an old value will be drawn again, for every duration, style
\* and simulation, under either driver, but for the segments that is_animating
\* misjudges.
THEOREM ViewsAreDue == Spec => []OutdatedViewIsDue
<1>1. Init => Inv /\ ShownInv
  BY InitInv
<1>2. Inv /\ ShownInv /\ [Next]_vars => Inv' /\ ShownInv'
  BY NextKeepsInv
<1>3. Inv /\ ShownInv => OutdatedViewIsDue
  BY DEF ShownInv, OutdatedViewIsDue
<1> QED
  BY <1>1, <1>2, <1>3, PTL DEF Spec

-----------------------------------------------------------------------------
\* What every call keeps of a value that a frame has handed out.
Keeps(r, s) ==
  r.seen # None /\ r.cache # None => s.seen # None /\ s.cache = r.cache

LEMMA ReadKeepsCache ==
  ASSUME NEW r, Sound(r)
  PROVE  /\ Keeps(r, Read(r)) /\ Keeps(r, Cleared(r))
         /\ \A logging : Keeps(r, Logged(r, logging))
BY DEF Keeps, Read, Value, Logged, Cleared, ClearOverrides, Sound,
       ControllerState

LEMMA TowardKeepsCache ==
  ASSUME NEW r, Sound(r), NEW status \in {"Forward", "Reverse"}, NEW logging
  PROVE  Keeps(r, Toward(r, status, logging))
<1> DEFINE l == Logged(r, logging)
           u == Cleared(l)
           t == Started(Read(u), "curve", Value(u), status)
           s == Toward(r, status, logging)
<1>1. Sound(l) /\ Sound(u) /\ Sound(Read(u)) /\ Value(u) \in Lower .. Upper
  BY LoggedKeeps, ClearedKeeps, ReadKeeps, ValueInRange
<1>2. Keeps(r, l) /\ Keeps(l, u) /\ Keeps(u, Read(u))
  BY <1>1, ReadKeepsCache
<1>3. s = [t EXCEPT !.repeating = FALSE]
  BY DEF Toward
<1> HIDE DEF s, u, l
<1>4. /\ t \in ControllerState /\ t.cache = Read(u).cache
      /\ t.seen = IF Read(u).seen = None THEN None ELSE 0
  BY <1>1, StartedFields
<1> HIDE DEF t
<1>5. s.cache = t.cache /\ s.seen = t.seen
  BY <1>3, <1>4 DEF ControllerState
<1> QED
  BY <1>2, <1>4, <1>5, AnimationAssumption DEF Keeps, s

LEMMA ToTargetKeepsCache ==
  ASSUME NEW r, Sound(r), NEW target \in Lower .. Upper, NEW style \in Styles,
         NEW status \in {"Forward", "Reverse"}
  PROVE  Keeps(r, ToTarget(r, target, style, status))
<1> DEFINE t == Started(Read(r), "curve", Value(r), status)
           s == ToTarget(r, target, style, status)
<1>1. Sound(Read(r)) /\ Value(r) \in Lower .. Upper /\ Keeps(r, Read(r))
  BY ReadKeeps, ValueInRange, ReadKeepsCache
<1>2. s = [t EXCEPT !.target = target, !.style = style, !.repeating = FALSE]
  BY DEF ToTarget
<1>3. /\ t \in ControllerState /\ t.cache = Read(r).cache
      /\ t.seen = IF Read(r).seen = None THEN None ELSE 0
  BY <1>1, StartedFields
<1> HIDE DEF s, t
<1>4. s.cache = t.cache /\ s.seen = t.seen
  BY <1>2, <1>3 DEF ControllerState
<1> QED
  BY <1>1, <1>3, <1>4, AnimationAssumption DEF Keeps, s

LEMMA RepeatedKeepsCache ==
  ASSUME NEW r, Sound(r)
  PROVE  Keeps(r, Repeated(r))
<1> DEFINE u == Cleared(r)
           t == Started(u, "curve", Lower, "Forward")
           s == Repeated(r)
<1>1. Sound(u) /\ Lower \in Lower .. Upper /\ Keeps(r, u)
  BY ClearedKeeps, ReadKeepsCache, AnimationAssumption
<1>2. s = [t EXCEPT !.repeating = TRUE]
  BY DEF Repeated
<1> HIDE DEF s, u
<1>3. /\ t \in ControllerState /\ t.cache = u.cache
      /\ t.seen = IF u.seen = None THEN None ELSE 0
  BY <1>1, StartedFields
<1> HIDE DEF t
<1>4. s.cache = t.cache /\ s.seen = t.seen
  BY <1>2, <1>3 DEF ControllerState
<1> QED
  BY <1>1, <1>3, <1>4, AnimationAssumption DEF Keeps, s

LEMMA SimulatedKeepsCache ==
  ASSUME NEW r, Sound(r), NEW origin \in Lower .. Upper
  PROVE  Keeps(r, Simulated(r, origin))
BY SimulatedBegins, AnimationAssumption DEF Keeps, Begins

LEMMA FlingKeepsCache ==
  ASSUME NEW r, Sound(r)
  PROVE  Keeps(r, Simulated(Read(r), Value(r)))
<1>1. Sound(Read(r)) /\ Value(r) \in Lower .. Upper /\ Keeps(r, Read(r))
  BY ReadKeeps, ValueInRange, ReadKeepsCache
<1>2. Keeps(Read(r), Simulated(Read(r), Value(r)))
  BY <1>1, SimulatedKeepsCache
<1> QED
  BY <1>1, <1>2 DEF Keeps

LEMMA SettledKeepsCache ==
  ASSUME NEW r, Sound(r)
  PROVE  Keeps(r, Stopped(r)) /\ Keeps(r, ResetTo(r))
<1>1. ASSUME NEW q, Sound(q), NEW status \in AnimationStatus, NEW v
      PROVE  Keeps(q, [Idle(q, status) EXCEPT !.value = v])
  <2> DEFINE u == Idle(q, status)
             s == [u EXCEPT !.value = v]
  <2>1. /\ u \in ControllerState /\ u.cache = q.cache
        /\ u.seen = IF q.seen = None THEN None ELSE 0
    BY <1>1, IdleFields
  <2> HIDE DEF u
  <2>2. s.cache = u.cache /\ s.seen = u.seen
    BY <2>1 DEF ControllerState
  <2> HIDE DEF s
  <2>3. Keeps(q, s)
    BY <2>1, <2>2, AnimationAssumption DEF Keeps
  <2> QED
    BY <2>3 DEF s, u
<1>2. Keeps(r, ResetTo(r))
  BY <1>1 DEF ResetTo, AnimationStatus
<1>3. Keeps(r, Stopped(r))
  <2> DEFINE status == IF Value(r) = Upper THEN "Completed"
                       ELSE IF Value(r) = Lower THEN "Dismissed" ELSE r.status
  <2>1. status \in AnimationStatus
    BY DEF Sound, ControllerState, AnimationStatus
  <2>2. Stopped(r) = [Idle(Read(r), status) EXCEPT !.value = Value(r)]
    BY DEF Stopped
  <2>3. Sound(Read(r)) /\ Keeps(r, Read(r))
    BY ReadKeeps, ReadKeepsCache
  <2> HIDE DEF status
  <2>4. Keeps(Read(r), Stopped(r))
    BY <1>1, <2>1, <2>2, <2>3
  <2> QED
    BY <2>3, <2>4 DEF Keeps
<1> QED
  BY <1>2, <1>3

\* Axiom P3 for every set of controllers: a value read of a ticked controller
\* is the value until the next tick.
THEOREM ValuesAgree == Spec => ReadsAgree
<1> DEFINE Agree ==
      \A c \in Controller :
        ctrl[c].seen # None /\ ctrl[c].cache # None /\ ~BeginFrame
          => Value(ctrl'[c]) = ctrl[c].cache
<1>1. Inv /\ [Next]_vars => Agree
  <2> SUFFICES ASSUME Inv, [Next]_vars, ~BeginFrame, NEW c \in Controller
               PROVE  Keeps(ctrl[c], ctrl'[c])
    BY DEF Keeps, Value
  <2>1. \A d \in Controller : Sound(ctrl[d])
    BY DEF Inv, FieldsInv
  <2>2. ASSUME NEW d \in Controller, NEW s, Call(d, s), Keeps(ctrl[d], s)
        PROVE  Keeps(ctrl[c], ctrl'[c])
    BY <2>2 DEF Call, Inv, TypeInv, Keeps
  <2>3. ASSUME NEW d \in Controller, Forward(d) \/ Reverse(d) \/ Toggle(d)
        PROVE  Keeps(ctrl[c], ctrl'[c])
    <3>1. PICK status \in {"Forward", "Reverse"}, logging \in Logging :
            Start(d, Toward(ctrl[d], status, logging))
      BY <2>3 DEF Forward, Reverse, Toggle
    <3> QED
      BY <2>1, <2>2, <3>1, TowardKeepsCache DEF Start
  <2>4. ASSUME NEW d \in Controller, AnimateTo(d) \/ AnimateBack(d)
        PROVE  Keeps(ctrl[c], ctrl'[c])
    <3>1. PICK target \in Lower .. Upper, style \in Styles,
               status \in {"Forward", "Reverse"} :
            Start(d, ToTarget(ctrl[d], target, style, status))
      BY <2>4, TargetCalls
    <3> QED
      BY <2>1, <2>2, <3>1, ToTargetKeepsCache DEF Start
  <2>5. ASSUME NEW d \in Controller, Repeat(d) \/ AnimateWith(d) \/ Fling(d)
        PROVE  Keeps(ctrl[c], ctrl'[c])
    <3>1. CASE Repeat(d)
      BY <2>1, <2>2, <3>1, RepeatedKeepsCache DEF Repeat, Start
    <3>2. CASE AnimateWith(d)
      BY <2>1, <2>2, <3>2, SimulatedKeepsCache, AnimationAssumption
      DEF AnimateWith, Start
    <3>3. CASE Fling(d)
      BY <2>1, <2>2, <3>3, FlingKeepsCache DEF Fling, Start
    <3> QED
      BY <2>5, <3>1, <3>2, <3>3
  <2>6. ASSUME NEW d \in Controller, Stop(d) \/ Reset(d)
        PROVE  Keeps(ctrl[c], ctrl'[c])
    BY <2>1, <2>2, <2>6, SettledKeepsCache DEF Stop, Reset, Settle
  <2>7. ASSUME NEW d \in Controller, ReadValue(d)
        PROVE  Keeps(ctrl[c], ctrl'[c])
    BY <2>1, <2>7, ReadKeepsCache DEF ReadValue, Inv, TypeInv, Keeps
  <2>8. ASSUME NEW d \in Controller, DropEntity(d)
        PROVE  Keeps(ctrl[c], ctrl'[c])
    BY <2>8 DEF DropEntity, Keeps
  <2>9. CASE Paint
    BY <2>1, <2>9, ReadKeepsCache DEF Paint, Keeps
  <2>10. CASE Advance
    BY <2>1, <2>10, OlderKeeps DEF Advance, Keeps
  <2>11. CASE UNCHANGED vars
    BY <2>11 DEF vars, Keeps
  <2> QED
    BY <2>3, <2>4, <2>5, <2>6, <2>7, <2>8, <2>9, <2>10, <2>11 DEF Next
<1>2. Init => Inv
  BY InitInv
<1>3. Inv /\ [Next]_vars => Inv'
  BY NextKeepsInv
<1>4. Spec => [][Agree]_vars
  <2> HIDE DEF Agree
  <2> QED BY <1>1, <1>2, <1>3, PTL DEF Spec
<1> QED
  BY <1>4 DEF ReadsAgree

\* animate_to, animate_back, fling and stop never move the value, and neither do
\* forward and reverse of a plain segment, for every duration and bound.
THEOREM SegmentsKeepPlace == Spec => CallsKeepPlace
<1> DEFINE InPlace ==
      \A c \in Controller :
        (\/ AnimateTo(c) \/ AnimateBack(c) \/ Fling(c) \/ Stop(c)
         \/ IsPlain(ctrl[c]) /\ (Forward(c) \/ Reverse(c)))
          => \/ Value(ctrl'[c]) = Value(ctrl[c])
             \/ ctrl'[c].drive = "curve" /\ Length(ctrl'[c]) = 0
<1>1. Inv => InPlace
  <2> SUFFICES ASSUME Inv, NEW c \in Controller
               PROVE  (\/ AnimateTo(c) \/ AnimateBack(c) \/ Fling(c) \/ Stop(c)
                       \/ IsPlain(ctrl[c]) /\ (Forward(c) \/ Reverse(c)))
                        => \/ Value(ctrl'[c]) = Value(ctrl[c])
                           \/ ctrl'[c].drive = "curve" /\ Length(ctrl'[c]) = 0
    OBVIOUS
  <2>1. Sound(ctrl[c])
    BY DEF Inv, FieldsInv
  <2>2. \A s : Call(c, s) => ctrl'[c] = s
    BY DEF Call, Inv, TypeInv
  <2>3. CASE AnimateTo(c) \/ AnimateBack(c)
    <3>1. PICK target \in Lower .. Upper, style \in Styles,
               status \in {"Forward", "Reverse"} :
            Start(c, ToTarget(ctrl[c], target, style, status))
      BY <2>3, TargetCalls
    <3> QED
      BY <2>1, <2>2, <3>1, ToTargetBegins DEF Start
  <2>4. CASE Fling(c)
    BY <2>1, <2>2, <2>4, FlingBegins DEF Fling, Start
  <2>5. CASE Stop(c)
    BY <2>1, <2>2, <2>5, StoppedEnds DEF Stop, Settle
  <2>6. CASE IsPlain(ctrl[c]) /\ (Forward(c) \/ Reverse(c))
    BY <2>1, <2>2, <2>6, TowardBegins DEF Forward, Reverse, Start
  <2> QED
    BY <2>3, <2>4, <2>5, <2>6
<1>2. Init => Inv
  BY InitInv
<1>3. Inv /\ [Next]_vars => Inv'
  BY NextKeepsInv
<1>4. Spec => [][InPlace]_vars
  <2> HIDE DEF InPlace
  <2> QED BY <1>1, <1>2, <1>3, PTL DEF Spec
<1> QED
  BY <1>4 DEF CallsKeepPlace
=============================================================================
