------------------------- MODULE GestureArenaProofs -------------------------
(***************************************************************************)
(* The safety properties of GestureArena, for any set of pointers, any     *)
(* number of recognizers and any HoldMax.                                  *)
(*                                                                         *)
(* ArenaInv is inductive by itself.  RestInv relates the arena to the      *)
(* press.  That holds keep their release task is shown of each step, from  *)
(* ArenaInv alone.                                                         *)
(*                                                                         *)
(* The last section is about the events that drive the arenas: what        *)
(* PointerSanitizer promises of its stream, by StreamInv, and that this is *)
(* what the guards of the arenas' actions take for granted.                *)
(***************************************************************************)
EXTENDS PointerArena, TLAPS

\* An arena that is kept is open, has competitors, and its winner is one.
Sound(a) ==
  /\ a \in Arenas
  /\ \/ a = NoArena
     \/ a.is_open /\ a.entries > 0 /\ a.winner <= a.entries

ArenaInv ==
  /\ TypeOK
  /\ \A p \in Pointers : Sound(arena[p])

\* An undecided arena and the press of its pointer.
Settled(a, press) == Present(a) /\ ~press /\ a.winner = 0 => a.hold_count > 0

RestInv == \A p \in Pointers : Settled(arena[p], contact[p])

\* Between an arena with its release task and those a step leaves: the task
\* is gone from a held arena only if it was held twice.
TaskKept(a, timer, b, left) ==
  Present(b) /\ b.hold_count > 0 /\ ~left =>
    \/ Present(a) /\ a.hold_count > 0 /\ ~timer
    \/ timer /\ a.hold_count > 1

-----------------------------------------------------------------------------
(* The operations on one arena.                                            *)

\* The empty row is sound.
LEMMA NoArenaSound == Sound(NoArena)
  BY HoldMaxNatAssumption DEF Sound, Arenas, NoArena

\* Dispatch keeps an arena sound and never touches its holds; a winner, once
\* there, stays, and after a final event nobody is left as a winner.
LEMMA DispatchSound ==
  ASSUME NEW a, Sound(a), NEW terminal \in BOOLEAN, NEW b \in Dispatch(a, terminal)
  PROVE  /\ Sound(b)
         /\ Present(b) => Present(a) /\ b.hold_count = a.hold_count
         /\ Present(b) /\ a.winner # 0 => b.winner = a.winner
         /\ Present(b) /\ terminal => b.winner = 0
<1>1. CASE a = NoArena
  <2>1. b = a
    BY <1>1 DEF Dispatch, Present
  <2> QED BY <1>1, <2>1 DEF Present
<1>2. CASE a # NoArena
  <2>1. /\ a.is_open /\ a.entries > 0 /\ a.winner <= a.entries
        /\ a \in Arenas
    BY <1>2 DEF Sound
  <2>2. CASE a.winner # 0
    <3>1. b = NoArena \/ (b = a /\ ~terminal)
      BY <1>2, <2>1, <2>2 DEF Dispatch, Decided, Gc, Close, Present, Arenas
    <3> QED BY <1>2, <2>2, <3>1, NoArenaSound DEF Present
  <2>3. CASE a.winner = 0
    <3>1. b \in Undecided(a, terminal)
      BY <1>2, <2>1, <2>3 DEF Dispatch, Present
    <3>2. CASE \E i \in 1 .. a.entries : b = Won(a, i, terminal)
      <4>1. PICK i \in 1 .. a.entries : b = Won(a, i, terminal)
        BY <3>2
      <4>2. b = NoArena \/ (b = [a EXCEPT !.winner = i] /\ ~terminal)
        BY <2>1, <4>1 DEF Won, Gc, Close, Present, Arenas
      <4> QED BY <1>2, <2>1, <2>3, <4>2, NoArenaSound DEF Present, Sound, Arenas
    <3>3. CASE \E k \in 0 .. a.entries : b = Dropped(a, k)
      <4>1. PICK k \in 0 .. a.entries : b = Dropped(a, k)
        BY <3>3
      <4>2. \/ b = NoArena
            \/ b = [a EXCEPT !.entries = a.entries - k] /\ a.entries - k > 0
        BY <2>1, <4>1 DEF Dropped, Gc, Close, Present, Arenas
      <4> QED BY <1>2, <2>1, <2>3, <4>2, NoArenaSound DEF Present, Sound, Arenas
    <3> QED BY <3>1, <3>2, <3>3 DEF Undecided
  <2> QED BY <2>2, <2>3
<1> QED BY <1>1, <1>2

\* A sweep leaves a sound arena alone or removes it, and it leaves no
\* undecided arena that nobody holds.
LEMMA SweepSound ==
  ASSUME NEW a, Sound(a)
  PROVE  /\ Sweep(a) = a \/ Sweep(a) = NoArena
         /\ Present(Sweep(a)) => a.winner # 0 \/ a.hold_count > 0
<1>1. CASE Sweepable(a)
  BY <1>1 DEF Sweep, Sweepable, Swept, Gc, Present, Sound, Arenas
<1>2. CASE ~Sweepable(a)
  BY <1>2 DEF Sweep, Sweepable, Present, Sound, Arenas
<1> QED BY <1>1, <1>2

\* Cancelling removes the arena.
LEMMA CancelledGone == ASSUME NEW a, Sound(a) PROVE Cancelled(a) = NoArena
  BY DEF Sound, Arenas, Cancelled, Gc, Close, Present, NoArena

\* A release takes one hold at most, and removes an undecided arena with
\* its last one.
LEMMA ReleaseSound ==
  ASSUME NEW a, Sound(a)
  PROVE  /\ Sound(Release(a))
         /\ Present(Release(a)) =>
              /\ Present(a)
              /\ Release(a).winner = a.winner
              /\ Release(a).hold_count =
                   IF a.hold_count > 0 THEN a.hold_count - 1 ELSE 0
              /\ a.winner # 0 \/ Release(a).hold_count > 0
<1>1. CASE ~Present(a)
  BY <1>1 DEF Release, Present
<1>2. CASE Present(a)
  <2> DEFINE u == Unhold(a)
  <2>1. /\ Sound(u) /\ u.winner = a.winner
        /\ u.hold_count = IF a.hold_count > 0 THEN a.hold_count - 1 ELSE 0
    <3>1. a \in Arenas /\ a.is_open /\ a.entries > 0 /\ a.winner <= a.entries
      BY <1>2 DEF Sound, Present
    <3>2. CASE a.hold_count > 0
      <4>1. u = [a EXCEPT !.hold_count = a.hold_count - 1]
        BY <3>2 DEF Unhold
      <4>2. a.hold_count - 1 \in 0 .. HoldMax
        BY <3>1, <3>2, HoldMaxNatAssumption DEF Arenas
      <4> HIDE DEF u
      <4>3. /\ u \in Arenas /\ u.is_open = a.is_open
            /\ u.entries = a.entries /\ u.winner = a.winner
            /\ u.hold_count = a.hold_count - 1
        BY <3>1, <4>1, <4>2 DEF Arenas
      <4> QED BY <3>1, <3>2, <4>3 DEF Sound
    <3>3. CASE ~(a.hold_count > 0)
      <4>1. u = a
        BY <3>3 DEF Unhold
      <4>2. a.hold_count = 0
        BY <3>1, <3>3 DEF Arenas
      <4> QED BY <3>3, <4>1, <4>2
    <3> QED BY <3>2, <3>3
  <2>2. Release(a) = Sweep(u)
    BY <1>2 DEF Release
  <2> HIDE DEF u
  <2> QED BY <1>2, <2>1, <2>2, SweepSound, NoArenaSound DEF Present
<1> QED BY <1>1, <1>2

\* Declaring a winner only ever sets the winner of an undecided arena.
LEMMA DeclareSound ==
  ASSUME NEW a, Sound(a), NEW i \in 1 .. MaxEntries
  PROVE  /\ Sound(DeclareWinner(a, i))
         /\ Present(DeclareWinner(a, i)) => Present(a)
         /\ DeclareWinner(a, i).hold_count = a.hold_count
         /\ a.winner # 0 => DeclareWinner(a, i) = a
<1> i \in Nat /\ i > 0
  BY MaxEntriesAssumption
<1>1. CASE Present(a) /\ a.is_open /\ a.winner = 0 /\ i <= a.entries
  <2>1. DeclareWinner(a, i) = [a EXCEPT !.winner = i]
    BY <1>1 DEF DeclareWinner, Gc, Present, Sound, Arenas
  <2> QED BY <1>1, <2>1 DEF Sound, Arenas, Present, NoArena
<1>2. CASE ~(Present(a) /\ a.is_open /\ a.winner = 0 /\ i <= a.entries)
  BY <1>2 DEF DeclareWinner
<1> QED BY <1>1, <1>2

\* The arena a Down dispatches to is sound, and held if it took a hold.
LEMMA JoinSound ==
  ASSUME NEW a, Sound(a), NEW n \in Nat, NEW hold \in BOOLEAN, hold => n > 0
  PROVE  LET j == IF hold THEN Hold(Registered(a, n)) ELSE Registered(a, n)
         IN  /\ Sound(j)
             /\ j.winner = a.winner
             /\ hold => Present(j) /\ j.hold_count > 0
             /\ hold /\ a.hold_count = 0 => j.hold_count = 1
             /\ ~hold => j.hold_count = a.hold_count
             /\ a.hold_count > 0 => j.hold_count > 0
<1> DEFINE r == Registered(a, n)
<1>1. /\ Sound(r) /\ r.winner = a.winner /\ r.hold_count = a.hold_count
      /\ n > 0 => Present(r)
  <2>1. CASE n = 0
    BY <2>1 DEF Registered
  <2>2. CASE n # 0 /\ a = NoArena
    <3>1. Opened(a) = NewArena
      BY <2>2 DEF Opened, Present
    <3>2. r = [NewArena EXCEPT !.entries = NewArena.entries + n]
      BY <2>2, <3>1 DEF Registered
    <3> HIDE DEF r
    <3>3. /\ NewArena \in Arenas /\ NewArena.is_open /\ NewArena.entries = 0
          /\ NewArena.winner = 0 /\ NewArena.hold_count = 0
      BY HoldMaxNatAssumption DEF NewArena, Arenas
    <3>4. /\ r \in Arenas /\ r.is_open /\ r.entries = n
          /\ r.winner = 0 /\ r.hold_count = 0
      BY <3>2, <3>3 DEF Arenas
    <3> QED BY <2>2, <3>4 DEF Sound, Present, NoArena
  <2>3. CASE n # 0 /\ a # NoArena
    <3>1. Opened(a) = a
      BY <2>3 DEF Opened, Present
    <3>2. r = [a EXCEPT !.entries = a.entries + n]
      BY <2>3, <3>1 DEF Registered
    <3>3. a \in Arenas /\ a.is_open /\ a.entries > 0 /\ a.winner <= a.entries
      BY <2>3 DEF Sound
    <3> HIDE DEF r
    <3>4. /\ r \in Arenas /\ r.is_open /\ r.entries = a.entries + n
          /\ r.winner = a.winner /\ r.hold_count = a.hold_count
      BY <3>2, <3>3 DEF Arenas
    <3> QED BY <2>3, <3>3, <3>4 DEF Sound, Present, NoArena, Arenas
  <2> QED BY <2>1, <2>2, <2>3
<1>2. CASE hold
  <2>1. Present(r)
    BY <1>1, <1>2
  <2> HIDE DEF r
  <2>2. /\ Sound(Hold(r)) /\ Present(Hold(r)) /\ Hold(r).winner = r.winner
        /\ Hold(r).hold_count > 0
        /\ r.hold_count = 0 => Hold(r).hold_count = 1
    BY <1>1, <2>1, HoldMaxNatAssumption DEF Hold, Present, Sound, Arenas, NoArena
  <2> QED BY <1>1, <1>2, <2>2 DEF r
<1>3. CASE ~hold
  BY <1>1, <1>3
<1> QED BY <1>2, <1>3

-----------------------------------------------------------------------------
(* The steps.                                                              *)

\* A press, on the arena a it finds and the task it leaves pending.
LEMMA DownStep ==
  ASSUME TypeOK, NEW p \in Pointers, NEW a, Sound(a), NEW timer \in BOOLEAN,
         DownOn(p, a, timer)
  PROVE  /\ \A q \in Pointers \ {p} :
              /\ arena'[q] = arena[q]
              /\ holdTimer'[q] = holdTimer[q]
              /\ contact'[q] = contact[q]
         /\ TypeOK'
         /\ Sound(arena'[p])
         /\ contact'[p]
         /\ timer => holdTimer'[p]
         /\ Present(arena'[p]) /\ arena'[p].hold_count > 0 /\ ~holdTimer'[p]
              => Present(a) /\ a.hold_count > 0
         /\ Present(arena'[p]) /\ a.winner # 0 => arena'[p].winner = a.winner
<1>1. PICK n \in 0 .. MaxEntries, hold \in BOOLEAN :
        /\ hold => n > 0
        /\ LET r == Registered(a, n)
           IN  \E b \in Dispatch(IF hold THEN Hold(r) ELSE r, FALSE) :
                 arena' = [arena EXCEPT ![p] = b]
        /\ holdTimer' = [holdTimer EXCEPT ![p] = timer \/ hold]
        /\ contact' = [contact EXCEPT ![p] = TRUE]
  BY DEF DownOn
<1> DEFINE j == IF hold THEN Hold(Registered(a, n)) ELSE Registered(a, n)
<1>2. PICK b \in Dispatch(j, FALSE) : arena' = [arena EXCEPT ![p] = b]
  BY <1>1
<1>3. /\ Sound(j) /\ j.winner = a.winner
      /\ hold => Present(j) /\ j.hold_count > 0
      /\ hold /\ a.hold_count = 0 => j.hold_count = 1
      /\ ~hold => j.hold_count = a.hold_count
      /\ a.hold_count > 0 => j.hold_count > 0
  BY <1>1, JoinSound, MaxEntriesAssumption
<1> HIDE DEF j
<1>4. /\ Sound(b)
      /\ Present(b) => Present(j) /\ b.hold_count = j.hold_count
      /\ Present(b) /\ j.winner # 0 => b.winner = j.winner
  BY <1>3, DispatchSound
<1>5. /\ arena'[p] = b /\ holdTimer'[p] = (timer \/ hold) /\ contact'[p]
      /\ \A q \in Pointers \ {p} :
           /\ arena'[q] = arena[q]
           /\ holdTimer'[q] = holdTimer[q]
           /\ contact'[q] = contact[q]
      /\ TypeOK'
  BY <1>1, <1>2, <1>4 DEF TypeOK, Sound
<1>6. ASSUME Present(b), b.hold_count > 0, ~holdTimer'[p]
      PROVE  Present(a) /\ a.hold_count > 0
  <2>1. ~hold /\ b.hold_count = j.hold_count /\ j.hold_count = a.hold_count
    BY <1>3, <1>4, <1>5, <1>6
  <2> QED BY <1>6, <2>1 DEF Present, NoArena
<1> QED BY <1>3, <1>4, <1>5, <1>6

\* An Up leaves the pointer's arena undecided, held and with its task
\* unchanged, or gone without a task.
LEMMA UpStep ==
  ASSUME ArenaInv, NEW p \in Pointers, Up(p)
  PROVE  /\ \A q \in Pointers \ {p} :
              /\ arena'[q] = arena[q]
              /\ holdTimer'[q] = holdTimer[q]
              /\ contact'[q] = contact[q]
         /\ TypeOK'
         /\ Sound(arena'[p])
         /\ \/ ~Present(arena'[p]) /\ ~holdTimer'[p]
            \/ /\ Present(arena[p]) /\ arena[p].winner = 0
               /\ arena'[p].winner = 0
               /\ arena'[p].hold_count > 0
               /\ arena'[p].hold_count = arena[p].hold_count
               /\ holdTimer'[p] = holdTimer[p]
<1>1. PICK b \in Dispatch(arena[p], TRUE) :
        LET s == Sweep(b)
        IN  IF TerminalResolved(s)
            THEN /\ arena' = [arena EXCEPT ![p] = Gc(Close(s))]
                 /\ holdTimer' = [holdTimer EXCEPT ![p] = FALSE]
            ELSE /\ arena' = [arena EXCEPT ![p] = s]
                 /\ UNCHANGED holdTimer
  BY DEF Up
<1>2. PICK still \in {FALSE, contact[p]} : contact' = [contact EXCEPT ![p] = still]
  BY DEF Up
<1>3. Sound(arena[p])
  BY DEF ArenaInv
<1>4. /\ Sound(b)
      /\ Present(b) => Present(arena[p]) /\ b.hold_count = arena[p].hold_count
      /\ Present(b) /\ arena[p].winner # 0 => b.winner = arena[p].winner
      /\ Present(b) => b.winner = 0
  BY <1>3, DispatchSound
<1> DEFINE s == Sweep(b)
<1>5. /\ s = b \/ s = NoArena
      /\ Present(s) => b.winner # 0 \/ b.hold_count > 0
  BY <1>4, SweepSound
<1>6. Sound(s)
  BY <1>4, <1>5, NoArenaSound
<1>7. Gc(Close(s)) = NoArena
  BY <1>6 DEF Gc, Close, Present, NoArena, Sound, Arenas
<1>8. IF TerminalResolved(s)
      THEN /\ arena' = [arena EXCEPT ![p] = NoArena]
           /\ holdTimer' = [holdTimer EXCEPT ![p] = FALSE]
      ELSE /\ arena' = [arena EXCEPT ![p] = s]
           /\ UNCHANGED holdTimer
  BY <1>1, <1>7
<1> HIDE DEF s
<1>9. CASE TerminalResolved(s)
  BY <1>2, <1>8, <1>9, NoArenaSound DEF ArenaInv, TypeOK, Sound, Present
<1>10. CASE ~TerminalResolved(s)
  <2>1. Present(s) /\ s = b /\ s.winner = 0
    BY <1>5, <1>10 DEF TerminalResolved, Present
  <2> QED BY <1>2, <1>4, <1>5, <1>6, <1>8, <1>10, <2>1 DEF ArenaInv, TypeOK, Sound
<1> QED BY <1>9, <1>10

\* A pointer that leaves loses its arena and its task.
LEMMA RemovedStep ==
  ASSUME ArenaInv, NEW p \in Pointers, Removed(p)
  PROVE  /\ arena' = [arena EXCEPT ![p] = NoArena]
         /\ holdTimer' = [holdTimer EXCEPT ![p] = FALSE]
         /\ contact' = contact
<1>1. PICK b \in Dispatch(arena[p], TRUE) :
        arena' = [arena EXCEPT ![p] = Cancelled(b)]
  BY DEF Removed
<1>2. Sound(b)
  BY DispatchSound DEF ArenaInv
<1> QED BY <1>1, <1>2, CancelledGone DEF Removed

-----------------------------------------------------------------------------
(* The invariants and the theorems.                                        *)

LEMMA ArenaInvInit == Init => ArenaInv
  BY NoArenaSound DEF Init, ArenaInv, TypeOK, Sound

\* Every step keeps every arena sound.
LEMMA ArenaInvStep == ArenaInv /\ [Next]_vars => ArenaInv'
<1> SUFFICES ASSUME ArenaInv, [Next]_vars PROVE ArenaInv'
  OBVIOUS
<1>1. CASE UNCHANGED vars
  BY <1>1 DEF ArenaInv, TypeOK, vars
<1>2. ASSUME NEW p \in Pointers, Down(p) PROVE ArenaInv'
  BY <1>2, DownStep DEF Down, ArenaInv, TypeOK
<1>3. ASSUME NEW p \in Pointers, OrphanDown(p) PROVE ArenaInv'
  BY <1>3, DownStep, CancelledGone, NoArenaSound DEF OrphanDown, ArenaInv
<1>4. ASSUME NEW p \in Pointers, Move(p) PROVE ArenaInv'
  <2>1. PICK b \in Dispatch(arena[p], FALSE) : arena' = [arena EXCEPT ![p] = b]
    BY <1>4 DEF Move
  <2>2. Sound(b)
    BY DispatchSound DEF ArenaInv
  <2> QED BY <1>4, <2>1, <2>2 DEF Move, ArenaInv, TypeOK, Sound
<1>5. ASSUME NEW p \in Pointers, Up(p) PROVE ArenaInv'
  BY <1>5, UpStep DEF ArenaInv
<1>6. ASSUME NEW p \in Pointers, Removed(p) PROVE ArenaInv'
  BY <1>6, RemovedStep, NoArenaSound DEF ArenaInv, TypeOK, Sound
<1>7. ASSUME NEW p \in Pointers, ReleaseFire(p) PROVE ArenaInv'
  BY <1>7, ReleaseSound DEF ReleaseFire, ArenaInv, TypeOK, Sound
<1>8. ASSUME NEW p \in Pointers, BackChannel(p) PROVE ArenaInv'
  BY <1>8, DeclareSound DEF BackChannel, ArenaInv, TypeOK, Sound
<1> QED BY <1>1, <1>2, <1>3, <1>4, <1>5, <1>6, <1>7, <1>8 DEF Next

\* Every reachable arena is open, has competitors, and its winner, if it has
\* one, is among them: the resolution paths of GestureArenaManager never
\* leave a closed arena behind nor an index without its recognizer.
THEOREM ArenasAreSound ==
  Spec => [](TypeOK /\ NoClosedArenaKept /\ WinnerIsAnEntry)
<1>1. ArenaInv => TypeOK /\ NoClosedArenaKept /\ WinnerIsAnEntry
  BY DEF ArenaInv, Sound, NoClosedArenaKept, WinnerIsAnEntry, Present
<1> QED BY <1>1, ArenaInvInit, ArenaInvStep, PTL DEF Spec

-----------------------------------------------------------------------------
LEMMA RestInvInit == Init => RestInv
  BY DEF Init, RestInv, Settled, Present

\* Only an Up and a release task may leave an undecided arena behind, and both
\* sweep the one that nobody holds; what else happens between two presses
\* leaves the holds alone.
LEMMA RestInvStep == ArenaInv /\ RestInv /\ [Next]_vars => RestInv'
<1> SUFFICES ASSUME ArenaInv, RestInv, [Next]_vars PROVE RestInv'
  OBVIOUS
<1>1. CASE UNCHANGED vars
  BY <1>1 DEF RestInv, Settled, vars
<1>2. ASSUME NEW p \in Pointers, Down(p) PROVE RestInv'
  <2>1. /\ \A q \in Pointers \ {p} : arena'[q] = arena[q] /\ contact'[q] = contact[q]
        /\ contact'[p]
    BY <1>2, DownStep DEF Down, ArenaInv, TypeOK
  <2> QED BY <2>1 DEF RestInv, Settled
<1>3. ASSUME NEW p \in Pointers, OrphanDown(p) PROVE RestInv'
  <2>1. DownOn(p, NoArena, FALSE)
    BY <1>3, CancelledGone DEF OrphanDown, ArenaInv
  <2>2. /\ \A q \in Pointers \ {p} : arena'[q] = arena[q] /\ contact'[q] = contact[q]
        /\ contact'[p]
    BY <2>1, DownStep, NoArenaSound DEF ArenaInv
  <2> QED BY <2>2 DEF RestInv, Settled
<1>4. ASSUME NEW p \in Pointers, Move(p) PROVE RestInv'
  <2>1. PICK b \in Dispatch(arena[p], FALSE) : arena' = [arena EXCEPT ![p] = b]
    BY <1>4 DEF Move
  <2>2. /\ Present(b) => Present(arena[p]) /\ b.hold_count = arena[p].hold_count
        /\ Present(b) /\ arena[p].winner # 0 => b.winner = arena[p].winner
    BY DispatchSound DEF ArenaInv
  <2> QED BY <1>4, <2>1, <2>2 DEF Move, RestInv, Settled, ArenaInv, TypeOK
<1>5. ASSUME NEW p \in Pointers, Up(p) PROVE RestInv'
  <2>1. /\ \A q \in Pointers \ {p} : arena'[q] = arena[q] /\ contact'[q] = contact[q]
        /\ ~Present(arena'[p]) \/ arena'[p].hold_count > 0
    BY <1>5, UpStep
  <2> QED BY <2>1 DEF RestInv, Settled
<1>6. ASSUME NEW p \in Pointers, Removed(p) PROVE RestInv'
  BY <1>6, RemovedStep DEF RestInv, Settled, Present, ArenaInv, TypeOK
<1>7. ASSUME NEW p \in Pointers, ReleaseFire(p) PROVE RestInv'
  <2>1. /\ arena' = [arena EXCEPT ![p] = Release(arena[p])]
        /\ contact' = contact
    BY <1>7 DEF ReleaseFire
  <2>2. Present(Release(arena[p])) =>
          /\ Release(arena[p]).winner = arena[p].winner
          /\ arena[p].winner # 0 \/ Release(arena[p]).hold_count > 0
    BY ReleaseSound DEF ArenaInv
  <2> QED BY <2>1, <2>2 DEF RestInv, Settled, ArenaInv, TypeOK
<1>8. ASSUME NEW p \in Pointers, BackChannel(p) PROVE RestInv'
  <2>1. PICK i \in 1 .. MaxEntries :
          arena' = [arena EXCEPT ![p] = DeclareWinner(arena[p], i)]
    BY <1>8 DEF BackChannel
  <2>2. /\ Present(DeclareWinner(arena[p], i)) => Present(arena[p])
        /\ DeclareWinner(arena[p], i).hold_count = arena[p].hold_count
        /\ arena[p].winner # 0 => DeclareWinner(arena[p], i) = arena[p]
    BY DeclareSound DEF ArenaInv
  <2> QED BY <1>8, <2>1, <2>2 DEF BackChannel, RestInv, Settled, ArenaInv, TypeOK
<1> QED BY <1>1, <1>2, <1>3, <1>4, <1>5, <1>6, <1>7, <1>8 DEF Next

\* An undecided arena that outlives its press is held, for any recognizers,
\* those that answer a Hover or decide from a task of their own included.
THEOREM RestingArenas == Spec => []RestingArenaIsHeld
<1>1. RestInv => RestingArenaIsHeld
  BY DEF RestInv, Settled, RestingArenaIsHeld
<1>2. Spec => [](ArenaInv /\ RestInv)
  BY ArenaInvInit, ArenaInvStep, RestInvInit, RestInvStep, PTL DEF Spec
<1> QED BY <1>1, <1>2, PTL

-----------------------------------------------------------------------------
\* What a step does to one pointer's arena and its task.
KeepsTask(q) == TaskKept(arena[q], holdTimer[q], arena'[q], holdTimer'[q])

LEMMA NextKeepsTasks == ArenaInv /\ [Next]_vars => \A q \in Pointers : KeepsTask(q)
<1> SUFFICES ASSUME ArenaInv, [Next]_vars, NEW q \in Pointers PROVE KeepsTask(q)
  OBVIOUS
<1>1. CASE UNCHANGED vars
  BY <1>1 DEF KeepsTask, TaskKept, vars
<1>0. ASSUME arena'[q] = arena[q], holdTimer'[q] = holdTimer[q] PROVE KeepsTask(q)
  BY <1>0 DEF KeepsTask, TaskKept
<1>2. ASSUME NEW p \in Pointers, Down(p) PROVE KeepsTask(q)
  <2>1. /\ \A r \in Pointers \ {p} :
             arena'[r] = arena[r] /\ holdTimer'[r] = holdTimer[r]
        /\ holdTimer[p] => holdTimer'[p]
        /\ Present(arena'[p]) /\ arena'[p].hold_count > 0 /\ ~holdTimer'[p]
             => Present(arena[p]) /\ arena[p].hold_count > 0
    BY <1>2, DownStep DEF Down, ArenaInv, TypeOK
  <2> QED BY <1>0, <2>1 DEF KeepsTask, TaskKept
<1>3. ASSUME NEW p \in Pointers, OrphanDown(p) PROVE KeepsTask(q)
  <2>1. DownOn(p, NoArena, FALSE)
    BY <1>3, CancelledGone DEF OrphanDown, ArenaInv
  <2>2. /\ \A r \in Pointers \ {p} :
             arena'[r] = arena[r] /\ holdTimer'[r] = holdTimer[r]
        /\ Present(arena'[p]) /\ arena'[p].hold_count > 0 /\ ~holdTimer'[p]
             => Present(NoArena)
    BY <2>1, DownStep, NoArenaSound DEF ArenaInv
  <2> QED BY <1>0, <2>2 DEF KeepsTask, TaskKept, Present
<1>4. ASSUME NEW p \in Pointers, Move(p) PROVE KeepsTask(q)
  <2>1. PICK b \in Dispatch(arena[p], FALSE) : arena' = [arena EXCEPT ![p] = b]
    BY <1>4 DEF Move
  <2>2. Present(b) => Present(arena[p]) /\ b.hold_count = arena[p].hold_count
    BY DispatchSound DEF ArenaInv
  <2> QED BY <1>0, <1>4, <2>1, <2>2 DEF Move, KeepsTask, TaskKept, ArenaInv, TypeOK
<1>5. ASSUME NEW p \in Pointers, Up(p) PROVE KeepsTask(q)
  <2>1. /\ \A r \in Pointers \ {p} :
             arena'[r] = arena[r] /\ holdTimer'[r] = holdTimer[r]
        /\ \/ ~Present(arena'[p])
           \/ /\ Present(arena[p])
              /\ arena'[p].hold_count = arena[p].hold_count
              /\ holdTimer'[p] = holdTimer[p]
    BY <1>5, UpStep
  <2> QED BY <1>0, <2>1 DEF KeepsTask, TaskKept
<1>6. ASSUME NEW p \in Pointers, Removed(p) PROVE KeepsTask(q)
  BY <1>0, <1>6, RemovedStep DEF KeepsTask, TaskKept, Present, ArenaInv, TypeOK
<1>7. ASSUME NEW p \in Pointers, ReleaseFire(p) PROVE KeepsTask(q)
  <2>1. /\ holdTimer[p]
        /\ arena' = [arena EXCEPT ![p] = Release(arena[p])]
        /\ holdTimer' = [holdTimer EXCEPT ![p] = FALSE]
    BY <1>7 DEF ReleaseFire
  <2>2. Present(Release(arena[p])) =>
          Release(arena[p]).hold_count =
            IF arena[p].hold_count > 0 THEN arena[p].hold_count - 1 ELSE 0
    BY ReleaseSound DEF ArenaInv
  <2>3. arena[p].hold_count \in 0 .. HoldMax
    BY DEF ArenaInv, TypeOK, Arenas
  <2>4. Present(Release(arena[p])) /\ Release(arena[p]).hold_count > 0
          => arena[p].hold_count > 1
    BY <2>2, <2>3, HoldMaxNatAssumption
  <2> QED BY <1>0, <2>1, <2>4 DEF KeepsTask, TaskKept, ArenaInv, TypeOK
<1>8. ASSUME NEW p \in Pointers, BackChannel(p) PROVE KeepsTask(q)
  <2>1. PICK i \in 1 .. MaxEntries :
          arena' = [arena EXCEPT ![p] = DeclareWinner(arena[p], i)]
    BY <1>8 DEF BackChannel
  <2>2. /\ Present(DeclareWinner(arena[p], i)) => Present(arena[p])
        /\ DeclareWinner(arena[p], i).hold_count = arena[p].hold_count
    BY DeclareSound DEF ArenaInv
  <2> QED BY <1>0, <1>8, <2>1, <2>2
         DEF BackChannel, KeepsTask, TaskKept, ArenaInv, TypeOK
<1> QED BY <1>1, <1>2, <1>3, <1>4, <1>5, <1>6, <1>7, <1>8 DEF Next

\* No step takes the release task from an arena that it leaves held, but the
\* task itself when it releases one hold of several.
THEOREM HoldsAreTimed == Spec => HoldsKeepTheirTask
<1>1. ASSUME ArenaInv, [Next]_vars, NEW p \in Pointers, Untimed(p)', ~Untimed(p)
      PROVE  holdTimer[p] /\ ~holdTimer'[p] /\ arena[p].hold_count > 1
  <2>1. KeepsTask(p)
    BY <1>1, NextKeepsTasks
  <2> QED BY <1>1, <2>1 DEF Untimed, KeepsTask, TaskKept
<1>2. ArenaInv /\ [Next]_vars =>
        [\A p \in Pointers :
           Untimed(p)' /\ ~Untimed(p) =>
             holdTimer[p] /\ ~holdTimer'[p] /\ arena[p].hold_count > 1]_vars
  BY <1>1
<1>3. Spec => []ArenaInv
  BY ArenaInvInit, ArenaInvStep, PTL DEF Spec
<1> QED BY <1>2, <1>3, PTL DEF Spec, HoldsKeepTheirTask

-----------------------------------------------------------------------------
\* Once an arena has a winner, that arena never has another one.
THEOREM WinnersAreFinal == Spec => WinnerIsFinal
<1> DEFINE Final(p) ==
      Present(arena[p]) /\ arena[p].winner # 0 =>
        \/ ~Present(arena'[p])
        \/ arena'[p].winner = arena[p].winner
        \/ OrphanDown(p)
<1>1. ASSUME ArenaInv, [Next]_vars, NEW q \in Pointers PROVE Final(q)
  <2> USE <1>1
  <2>1. CASE UNCHANGED vars
    BY <2>1 DEF vars
  <2>2. ASSUME NEW p \in Pointers, Down(p) PROVE Final(q)
    BY <2>2, DownStep DEF Down, ArenaInv, TypeOK
  <2>3. ASSUME NEW p \in Pointers, OrphanDown(p) PROVE Final(q)
    <3>1. DownOn(p, NoArena, FALSE)
      BY <2>3, CancelledGone DEF OrphanDown, ArenaInv
    <3>2. \A r \in Pointers \ {p} : arena'[r] = arena[r]
      BY <3>1, DownStep, NoArenaSound DEF ArenaInv
    <3> QED BY <2>3, <3>2
  <2>4. ASSUME NEW p \in Pointers, Move(p) PROVE Final(q)
    <3>1. PICK b \in Dispatch(arena[p], FALSE) :
            arena' = [arena EXCEPT ![p] = b]
      BY <2>4 DEF Move
    <3>2. Present(b) /\ arena[p].winner # 0 => b.winner = arena[p].winner
      BY DispatchSound DEF ArenaInv
    <3> QED BY <3>1, <3>2 DEF ArenaInv, TypeOK
  <2>5. ASSUME NEW p \in Pointers, Up(p) PROVE Final(q)
    BY <2>5, UpStep
  <2>6. ASSUME NEW p \in Pointers, Removed(p) PROVE Final(q)
    BY <2>6, RemovedStep DEF Present, ArenaInv, TypeOK
  <2>7. ASSUME NEW p \in Pointers, ReleaseFire(p) PROVE Final(q)
    BY <2>7, ReleaseSound DEF ReleaseFire, ArenaInv, TypeOK
  <2>8. ASSUME NEW p \in Pointers, BackChannel(p) PROVE Final(q)
    BY <2>8, DeclareSound DEF BackChannel, ArenaInv, TypeOK
  <2> QED BY <2>1, <2>2, <2>3, <2>4, <2>5, <2>6, <2>7, <2>8 DEF Next
<1>2. ArenaInv /\ [Next]_vars =>
        [\A p \in Pointers :
           Present(arena[p]) /\ arena[p].winner # 0 =>
             \/ ~Present(arena'[p])
             \/ arena'[p].winner = arena[p].winner
             \/ OrphanDown(p)]_vars
  BY <1>1
<1>3. Spec => []ArenaInv
  BY ArenaInvInit, ArenaInvStep, PTL DEF Spec
<1> QED BY <1>2, <1>3, PTL DEF Spec, WinnerIsFinal

-----------------------------------------------------------------------------
(* The stream that drives the arenas.  Down, Move, Up and Removed are the  *)
(* events of PointerSanitizer, and contact[p] is its mouse_down: what the  *)
(* guards of these actions take for granted is proved of it here.          *)

Emitted(phase) == \E i \in DOMAIN events : events[i].phase = phase

\* Whoever sees a press is in one; and after a Down the sanitizer remembers it,
\* and where, if that was inside the window.
StreamInv ==
  /\ sanitizer = [buttons |-> sanitizer.buttons, mouse_down |-> sanitizer.mouse_down,
                  last_down |-> sanitizer.last_down]
  /\ open => sanitizer.mouse_down
  /\ input.type = "MouseDown" =>
       /\ sanitizer.mouse_down
       /\ Stream!Clamp(input.pos) = input.pos => sanitizer.last_down = input.pos

\* What the consumers take for granted of the events of a step.
Bracketed ==
  \A i \in DOMAIN events' :
    events'[i].phase = "Down" =>
      \/ i = 1 /\ ~open
      \/ i = 2 /\ events'[1].phase = "Cancel"

RepeatIsDropped ==
  input.type = "MouseDown" /\ input' = input /\ Stream!Clamp(input.pos) = input.pos
    => events' = <<>>

\* A press begins with a Down, a Cancel only interrupts one by another, and a
\* Move belongs to one unless the platform says that a button is down.
DrivesContact ==
  /\ Emitted("Down")' => sanitizer'.mouse_down
  /\ sanitizer'.mouse_down /\ ~sanitizer.mouse_down => Emitted("Down")'
  /\ Emitted("Cancel")' => sanitizer.mouse_down /\ Emitted("Down")'
  /\ Emitted("Move")' => sanitizer.mouse_down \/ input'.pressed
  /\ events' = <<>> => UNCHANGED sanitizer

\* One event is handed on as it is.
LEMMA PassedOn ==
  ASSUME StreamInv, NEW in \in Stream!Inputs, Stream!Receive(in),
         NEW e, NEW state, Stream!Convert(in, sanitizer) = [events |-> <<e>>, state |-> state]
  PROVE  /\ input' = in /\ sanitizer' = state
         /\ events' = <<e>> /\ DOMAIN events' = {1} /\ events'[1] = e /\ events' # <<>>
         /\ open' = Stream!OpenAfter(e.phase, open)
<1>1. /\ input' = in /\ sanitizer' = state /\ events' = <<e>>
      /\ open' = Stream!Consume(<<e>>, open)
  BY DEF Stream!Receive
<1>2. Len(<<e>>) = 1 /\ <<e>> # <<>> /\ DOMAIN <<e>> = {1} /\ <<e>>[1] = e
  OBVIOUS
<1>3. Stream!Consume(<<e>>, open) = Stream!OpenAfter(e.phase, open)
  BY <1>2 DEF Stream!Consume
<1> QED BY <1>1, <1>2, <1>3

\* The four kinds of platform event, and a Down during a press apart.
LEMMA StreamEvent ==
  ASSUME StreamInv, NEW in \in Stream!Inputs, Stream!Receive(in)
  PROVE  StreamInv' /\ Bracketed /\ RepeatIsDropped /\ DrivesContact
<1> DEFINE Goal == StreamInv' /\ Bracketed /\ RepeatIsDropped /\ DrivesContact
<1> USE DEF StreamInv, Bracketed, RepeatIsDropped, DrivesContact, Emitted
<1>1. CASE in.type = "MouseDown" /\ ~sanitizer.mouse_down
  <2> DEFINE t == Stream!MouseDown(in.button, in.pos, sanitizer)
  <2>1. Stream!Convert(in, sanitizer) = [events |-> <<t.event>>, state |-> t.state]
    BY <1>1 DEF Stream!Convert, Stream!Translate
  <2>2. /\ t.event.phase = "Down" /\ t.state.mouse_down
        /\ t.state = [buttons |-> t.state.buttons, mouse_down |-> t.state.mouse_down,
                      last_down |-> t.state.last_down]
        /\ t.state.last_down = Stream!Clamp(in.pos)
    BY DEF Stream!MouseDown, Stream!Event
  <2> HIDE DEF t
  <2>3. /\ input' = in /\ sanitizer' = t.state
        /\ DOMAIN events' = {1} /\ events'[1] = t.event /\ events' # <<>>
        /\ open' = Stream!OpenAfter(t.event.phase, open)
    BY <2>1, PassedOn
  <2>4. Stream!Clamp(input') = Stream!Clamp(in)
    BY <2>3
  <2> QED BY <1>1, <2>2, <2>3
<1>2. CASE in.type = "MouseDown" /\ sanitizer.mouse_down /\ in.pos = sanitizer.last_down
  <2>1. /\ Stream!Convert(in, sanitizer) = [events |-> <<>>, state |-> sanitizer]
    BY <1>2 DEF Stream!Convert
  <2>2. /\ input' = in /\ sanitizer' = sanitizer /\ events' = <<>>
        /\ open' = Stream!Consume(<<>>, open)
    BY <2>1 DEF Stream!Receive
  <2>3. open' = open /\ DOMAIN events' = {}
    BY <2>2 DEF Stream!Consume
  <2> QED BY <1>2, <2>2, <2>3
<1>3. CASE in.type = "MouseDown" /\ sanitizer.mouse_down /\ in.pos # sanitizer.last_down
  <2> DEFINE s == [sanitizer EXCEPT !.mouse_down = FALSE, !.buttons = {}]
             t == Stream!MouseDown(in.button, in.pos, s)
             cancel == Stream!Event("Cancel", sanitizer.last_down, sanitizer.buttons)
  <2>1. Stream!Convert(in, sanitizer) = [events |-> <<cancel, t.event>>, state |-> t.state]
    BY <1>3 DEF Stream!Convert, Stream!Translate
  <2>2. /\ t.event.phase = "Down" /\ t.state.mouse_down
        /\ t.state = [buttons |-> t.state.buttons, mouse_down |-> t.state.mouse_down,
                      last_down |-> t.state.last_down]
        /\ t.state.last_down = Stream!Clamp(in.pos) /\ cancel.phase = "Cancel"
    BY DEF Stream!MouseDown, Stream!Event
  <2> HIDE DEF t, s, cancel
  <2>3. /\ input' = in /\ sanitizer' = t.state /\ events' = <<cancel, t.event>>
    BY <2>1 DEF Stream!Receive
  <2>4. /\ DOMAIN events' = {1, 2} /\ events'[1] = cancel /\ events'[2] = t.event
        /\ events' # <<>>
    BY <2>3
  <2>5. RepeatIsDropped
    BY <1>3, <2>3
  <2> QED BY <1>3, <2>2, <2>3, <2>4, <2>5
<1>4. CASE in.type = "MouseUp"
  <2> DEFINE t == Stream!MouseUp(in.button, in.pos, sanitizer)
  <2>1. Stream!Convert(in, sanitizer) = [events |-> <<t.event>>, state |-> t.state]
    BY <1>4 DEF Stream!Convert, Stream!Translate
  <2>2. t.event.phase = "Up"
    BY DEF Stream!MouseUp, Stream!Event
  <2>3. /\ t.state.mouse_down => sanitizer.mouse_down
        /\ t.state = [buttons |-> t.state.buttons, mouse_down |-> t.state.mouse_down,
                      last_down |-> t.state.last_down]
    BY DEF Stream!MouseUp
  <2> HIDE DEF t
  <2>4. /\ input' = in /\ sanitizer' = t.state
        /\ DOMAIN events' = {1} /\ events'[1] = t.event /\ events' # <<>>
        /\ open' = Stream!OpenAfter(t.event.phase, open)
    BY <2>1, PassedOn
  <2>5. ~open'
    BY <2>2, <2>4 DEF Stream!OpenAfter
  <2> QED BY <1>4, <2>2, <2>3, <2>4, <2>5
<1>5. CASE in.type \in {"MouseMove", "MouseExit"}
  <2> DEFINE t == Stream!Translate(in, sanitizer)
  <2>1. Stream!Convert(in, sanitizer) = [events |-> <<t.event>>, state |-> t.state]
    BY <1>5 DEF Stream!Convert
  <2>2. /\ t.state = sanitizer /\ t.event.phase \in {"Move", "Hover", "Removed"}
        /\ t.event.phase = "Move" => sanitizer.mouse_down \/ in.pressed
    BY <1>5 DEF Stream!Translate, Stream!MouseMove, Stream!MouseExit, Stream!Event
  <2> HIDE DEF t
  <2>3. /\ input' = in /\ sanitizer' = t.state
        /\ DOMAIN events' = {1} /\ events'[1] = t.event /\ events' # <<>>
        /\ open' = Stream!OpenAfter(t.event.phase, open)
    BY <2>1, PassedOn
  <2>4. open' = open
    BY <2>2, <2>3 DEF Stream!OpenAfter
  <2> QED BY <1>5, <2>2, <2>3, <2>4
<1>6. in.type \in {"MouseDown", "MouseUp", "MouseMove", "MouseExit"}
  BY DEF Stream!Inputs
<1> QED BY <1>1, <1>2, <1>3, <1>4, <1>5, <1>6

LEMMA StreamInit == Stream!Init => StreamInv
BY DEF Stream!Init, Stream!NoPress, StreamInv

LEMMA StreamStep ==
  StreamInv /\ [Stream!Next]_Stream!vars =>
    /\ StreamInv'
    /\ [Bracketed]_Stream!vars /\ [RepeatIsDropped]_Stream!vars /\ [DrivesContact]_Stream!vars
<1>1. CASE UNCHANGED Stream!vars
  BY <1>1 DEF Stream!vars, StreamInv
<1>2. CASE StreamInv /\ Stream!Next
  BY <1>2, StreamEvent DEF Stream!Next
<1> QED BY <1>1, <1>2

\* The consumers never see a second Down before the first has ended in an Up or
\* a Cancel, for any window, any positions and any events the platform loses,
\* repeats or makes up (PointerSanitizer::convert).
THEOREM PressesAreBracketed == Stream!Spec => DownsAreSeparated
<1>1. DownsAreSeparated <=> [][Bracketed]_Stream!vars
  BY DEF DownsAreSeparated, Stream!DownsAreSeparated, Bracketed
<1> QED BY <1>1, StreamInit, StreamStep, PTL DEF Stream!Spec

\* A MouseDown that repeats the one before it inside the window reaches nobody
\* (is_duplicate_down).
THEOREM RepeatedDownsAreDropped == Stream!Spec => RepeatedDownInsideIsDropped
<1>1. RepeatedDownInsideIsDropped <=> [][RepeatIsDropped]_Stream!vars
  BY DEF RepeatedDownInsideIsDropped, Stream!RepeatedDownInsideIsDropped, RepeatIsDropped
<1> QED BY <1>1, StreamInit, StreamStep, PTL DEF Stream!Spec

\* The sanitizer's mouse_down is what the arena's actions are guarded by: it
\* begins with a Down, a Down that finds it set comes with a Cancel before it
\* (OrphanDown).  Nothing is asked of a Move, which a platform may report with a
\* button held that no Down was seen for.
THEOREM StreamDrivesArena == Stream!Spec => [][DrivesContact]_Stream!vars
BY StreamInit, StreamStep, PTL DEF Stream!Spec

\* A position moved to the window's bounds is a position.
LEMMA ClampedPosition ==
  ASSUME Width \in Nat, Height \in Nat, NEW pos \in Int \X Int
  PROVE  Stream!Clamp(pos) \in Int \X Int
BY DEF Stream!Clamp, Stream!Clamped

\* What an event leaves, and the phase it has.
StreamTyped(c) ==
  /\ c.state \in Stream!SanitizerStates(Int \X Int)
  /\ \A i \in DOMAIN c.events : c.events[i].phase \in Stream!Phases

LEMMA TranslationIsTyped ==
  ASSUME Width \in Nat, Height \in Nat, Positions \subseteq Int \X Int,
         NEW in \in Stream!Inputs, NEW s \in Stream!SanitizerStates(Int \X Int),
         NEW t, t = Stream!Translate(in, s)
  PROVE  t.state \in Stream!SanitizerStates(Int \X Int) /\ t.event.phase \in Stream!Phases
<1>1. CASE in.type = "MouseDown"
  <2> DEFINE held == s.buttons \cup Stream!ButtonBits(in.button)
             m == Stream!MouseDown(in.button, in.pos, s)
  <2>1. in.button \in Stream!Buttons /\ in.pos \in Int \X Int
    BY <1>1 DEF Stream!Inputs
  <2>2. Stream!Clamp(in.pos) \in Int \X Int
    BY <2>1, ClampedPosition
  <2>3. held \in SUBSET {"primary", "secondary"}
    BY <2>1 DEF Stream!Buttons, Stream!ButtonBits, Stream!SanitizerStates
  <2>4. /\ m.state = [buttons |-> held, mouse_down |-> TRUE, last_down |-> Stream!Clamp(in.pos)]
        /\ m.event.phase = "Down"
    BY DEF Stream!MouseDown, Stream!Event
  <2>5. t = m
    BY <1>1 DEF Stream!Translate
  <2> HIDE DEF held, m
  <2>6. m.state \in Stream!SanitizerStates(Int \X Int)
    BY <2>2, <2>3, <2>4 DEF Stream!SanitizerStates
  <2>7. m.event.phase \in Stream!Phases
    BY <2>4 DEF Stream!Phases
  <2> QED BY <2>5, <2>6, <2>7
<1> USE DEF Stream!SanitizerStates, Stream!Phases, Stream!Translate, Stream!Event
<1>2. CASE in.type = "MouseUp"
  BY <1>2 DEF Stream!MouseUp
<1>3. CASE in.type = "MouseMove"
  BY <1>3 DEF Stream!MouseMove
<1>4. CASE in.type = "MouseExit"
  BY <1>4 DEF Stream!MouseExit
<1> QED BY <1>1, <1>2, <1>3, <1>4 DEF Stream!Inputs

LEMMA ConversionIsTyped ==
  ASSUME Width \in Nat, Height \in Nat, Positions \subseteq Int \X Int,
         NEW in \in Stream!Inputs, NEW s \in Stream!SanitizerStates(Int \X Int)
  PROVE  StreamTyped(Stream!Convert(in, s))
<1>1. ASSUME NEW e, e.phase \in Stream!Phases,
             NEW state \in Stream!SanitizerStates(Int \X Int)
      PROVE  StreamTyped([events |-> <<e>>, state |-> state])
  BY <1>1 DEF StreamTyped
<1>2. CASE ~ (in.type = "MouseDown" /\ s.mouse_down)
  <2> DEFINE t == Stream!Translate(in, s)
  <2>1. Stream!Convert(in, s) = [events |-> <<t.event>>, state |-> t.state]
    BY <1>2 DEF Stream!Convert
  <2>2. t.state \in Stream!SanitizerStates(Int \X Int) /\ t.event.phase \in Stream!Phases
    BY TranslationIsTyped
  <2> HIDE DEF t
  <2> QED BY <1>1, <2>1, <2>2
<1>3. CASE in.type = "MouseDown" /\ s.mouse_down /\ in.pos = s.last_down
  <2>1. Stream!Convert(in, s) = [events |-> <<>>, state |-> s]
    BY <1>3 DEF Stream!Convert
  <2> QED BY <2>1 DEF StreamTyped
<1>4. CASE in.type = "MouseDown" /\ s.mouse_down /\ in.pos # s.last_down
  <2> DEFINE fresh == [s EXCEPT !.mouse_down = FALSE, !.buttons = {}]
             t == Stream!Translate(in, fresh)
             cancel == Stream!Event("Cancel", s.last_down, s.buttons)
  <2>1. Stream!Convert(in, s) = [events |-> <<cancel, t.event>>, state |-> t.state]
    BY <1>4 DEF Stream!Convert
  <2>2. fresh \in Stream!SanitizerStates(Int \X Int)
    BY DEF Stream!SanitizerStates
  <2>3. cancel.phase \in Stream!Phases
    BY DEF Stream!Event, Stream!Phases
  <2> HIDE DEF fresh, cancel
  <2>4. t.state \in Stream!SanitizerStates(Int \X Int) /\ t.event.phase \in Stream!Phases
    BY <2>2, TranslationIsTyped
  <2> HIDE DEF t
  <2> QED BY <2>1, <2>3, <2>4 DEF StreamTyped
<1> QED BY <1>2, <1>3, <1>4

\* The sanitizer's fields keep their types, and what it emits is an event of
\* one of the six phases, for the windows and the positions that
\* PointerSanitizer assumes.
THEOREM StreamTypes ==
  ASSUME Width \in Nat, Height \in Nat, Positions \subseteq Int \X Int
  PROVE  Stream!Spec => []Stream!TypeOK
<1>1. Stream!Init => Stream!TypeOK
  <2>1. <<0, 0>> \in Int \X Int /\ {} \in SUBSET {"primary", "secondary"}
        /\ DOMAIN <<>> = {}
    OBVIOUS
  <2>2. Stream!NoPress \in Stream!SanitizerStates(Int \X Int)
    BY <2>1 DEF Stream!NoPress, Stream!SanitizerStates
  <2> QED BY <2>1, <2>2 DEF Stream!Init, Stream!TypeOK
<1>2. ASSUME NEW in \in Stream!Inputs, Stream!TypeOK, Stream!Receive(in)
      PROVE  Stream!TypeOK'
  <2> DEFINE c == Stream!Convert(in, sanitizer)
  <2>1. StreamTyped(c)
    BY <1>2, ConversionIsTyped DEF Stream!TypeOK
  <2>2. /\ sanitizer' = c.state /\ events' = c.events /\ input' = in
        /\ open' = Stream!Consume(c.events, open)
    BY <1>2 DEF Stream!Receive
  <2>3. Stream!Consume(c.events, open) \in BOOLEAN
    BY <1>2 DEF Stream!Consume, Stream!OpenAfter, Stream!TypeOK
  <2> HIDE DEF c
  <2> QED BY <2>1, <2>2, <2>3 DEF StreamTyped, Stream!TypeOK
<1>3. Stream!TypeOK /\ [Stream!Next]_Stream!vars => Stream!TypeOK'
  BY <1>2 DEF Stream!Next, Stream!vars, Stream!TypeOK
<1> QED BY <1>1, <1>3, PTL DEF Stream!Spec
=============================================================================
