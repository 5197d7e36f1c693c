--------------------------- MODULE NavigatorProofs ---------------------------
(***************************************************************************)
(* Proofs about Navigator, for every route tree, every set of paths and    *)
(* hooks, and every bound: the cursor stays inside a history of bounded    *)
(* size, the history is that of a browser, the chain of routes shown is    *)
(* always that of the current path, it is what the path deserves of the    *)
(* tree, its routes had their hooks run, and who was entered is on the     *)
(* screen until it is told that it is left.                                *)
(*                                                                         *)
(* HistoryInv is inductive because of its last two parts: back and forward *)
(* look at the entry they lead to when they are called, and only the       *)
(* pipeline's own step moves the cursor before it is reached.              *)
(*                                                                         *)
(* The functions of RouteTree are recursive: down the children of a route, *)
(* or from one route of a chain to the next.  Grounded says that such a    *)
(* descent ends; Recursion, that what is defined by one exists; FromBelow, *)
(* that what it hands up holds everywhere.                                 *)
(***************************************************************************)
EXTENDS Navigator, SequenceTheorems, WellFoundedInduction, TLAPS

Pending == {"guards", "deactivate", "exit", "perform"}

NavOK ==
  nav \in [stage : Stages \cup {"idle"}, op : Ops, to : Path, depth : Nat,
           state : States \cup {NoState}]

CursorOK ==
  /\ entries \in Seq(Entry) /\ cursor \in 1..Len(entries)
  /\ MaxHistory > 0 => Len(entries) <= MaxHistory

HistoryInv ==
  /\ NavOK
  /\ CursorOK
  /\ nav.stage \in Pending /\ nav.op = "Back" => cursor > 1
  /\ nav.stage \in Pending /\ nav.op = "Forward" => cursor < Len(entries)

\* The first n elements of a sequence.
LEMMA FirstElements ==
  ASSUME NEW S, NEW s \in Seq(S), NEW n \in 0..Len(s)
  PROVE  /\ SubSeq(s, 1, n) \in Seq(S) /\ Len(SubSeq(s, 1, n)) = n
         /\ \A i \in 1..n : SubSeq(s, 1, n)[i] = s[i]
<1>1. \A i \in 1..n : s[i] \in S
  OBVIOUS
<1>2. n \in Int /\ 1 \in Int /\ (IF 1 <= n THEN n - 1 + 1 ELSE 0) = n
  OBVIOUS
<1> QED
  BY <1>1, <1>2, SubSeqProperties

\* History::push keeps the cursor on the new entry, the last one, and behind it
\* what a browser keeps.
LEMMA PushKeepsHistory ==
  ASSUME NavigatorAssumption, CursorOK, NEW entry \in Entry, Pushed(entry)
  PROVE  CursorOK' /\ Browser!Visit(entry)
<1> DEFINE full == Append(SubSeq(entries, 1, cursor), entry)
           drop == IF MaxHistory > 0 /\ Len(full) > MaxHistory
                     THEN Len(full) - MaxHistory ELSE 0
<1>1. /\ entries' = SubSeq(full, drop + 1, Len(full))
      /\ cursor' = cursor + 1 - drop
  BY DEF Pushed, From
<1>2. /\ SubSeq(entries, 1, cursor) \in Seq(Entry)
      /\ Len(SubSeq(entries, 1, cursor)) = cursor
      /\ \A i \in 1..cursor : SubSeq(entries, 1, cursor)[i] = entries[i]
  BY DEF CursorOK
<1>3. /\ full \in Seq(Entry) /\ Len(full) = cursor + 1
      /\ \A i \in 1..cursor : full[i] = entries[i]
      /\ full[cursor + 1] = entry
  BY <1>2 DEF CursorOK
<1>4. drop \in {0, 1} /\ (drop = 1 <=> MaxHistory > 0 /\ cursor + 1 > MaxHistory)
  BY <1>3 DEF CursorOK, NavigatorAssumption
<1> HIDE DEF full, drop
<1>5. /\ entries' \in Seq(Entry) /\ Len(entries') = cursor + 1 - drop
      /\ \A i \in 1..(cursor + 1 - drop) : entries'[i] = full[i + drop]
  BY <1>1, <1>3, <1>4 DEF CursorOK
<1>6. CursorOK'
  <2>1. cursor \in Nat \ {0} /\ cursor <= Len(entries) /\ Len(entries) \in Nat
    BY DEF CursorOK
  <2>2. cursor' = Len(entries') /\ cursor' \in Nat \ {0}
    BY <2>1, <1>1, <1>4, <1>5
  <2>3. MaxHistory > 0 => Len(entries') <= MaxHistory
    BY <2>1, <1>4, <1>5 DEF CursorOK, NavigatorAssumption
  <2> QED
    BY <2>2, <2>3, <1>5 DEF CursorOK
<1>7. entries'[cursor'] = entry
  BY <1>1, <1>3, <1>4, <1>5 DEF CursorOK
<1>8. From(entries, cursor + 1)' = <<>>
  BY <1>1, <1>4, <1>5 DEF From, CursorOK
<1> DEFINE behind == Append(SubSeq(entries, 1, cursor - 1), entries[cursor])
<1>9. /\ behind \in Seq(Entry) /\ Len(behind) = cursor
      /\ \A i \in 1..cursor : behind[i] = entries[i]
  BY DEF CursorOK
<1>10. /\ Tail(behind) \in Seq(Entry) /\ Len(Tail(behind)) = cursor - 1
       /\ \A i \in 1..(cursor - 1) : Tail(behind)[i] = entries[i + 1]
  <2>1. behind # <<>> /\ cursor \in Nat
    BY <1>9 DEF CursorOK
  <2> HIDE DEF behind
  <2>2. /\ Tail(behind) \in Seq(Entry) /\ Len(Tail(behind)) = Len(behind) - 1
        /\ \A i \in 1..Len(Tail(behind)) : Tail(behind)[i] = behind[i + 1]
    BY <1>9, <2>1, HeadTailProperties
  <2>3. ASSUME NEW i \in 1..(cursor - 1) PROVE Tail(behind)[i] = entries[i + 1]
    <3>1. i + 1 \in 1..cursor /\ i \in 1..Len(Tail(behind))
      BY <1>9, <2>1, <2>2
    <3> QED
      BY <1>9, <2>2, <3>1
  <2> QED
    BY <1>9, <2>1, <2>2, <2>3
<1> HIDE DEF behind
<1>11. Browser!Kept(behind) = IF drop = 1 THEN Tail(behind) ELSE behind
  BY <1>4, <1>9 DEF Browser!Kept, CursorOK, NavigatorAssumption
<1>12. /\ SubSeq(entries, 1, cursor - 1)' \in Seq(Entry)
       /\ Len(SubSeq(entries, 1, cursor - 1)') = cursor - drop
       /\ \A i \in 1..(cursor - drop) : (SubSeq(entries, 1, cursor - 1)')[i] = full[i + drop]
  <2>1. cursor' - 1 = cursor - drop /\ cursor' - 1 \in 0..Len(entries')
    BY <1>1, <1>4, <1>5 DEF CursorOK
  <2>2. /\ SubSeq(entries', 1, cursor' - 1) \in Seq(Entry)
        /\ Len(SubSeq(entries', 1, cursor' - 1)) = cursor' - 1
        /\ \A i \in 1..(cursor' - 1) : SubSeq(entries', 1, cursor' - 1)[i] = entries'[i]
    BY <2>1, <1>5, FirstElements
  <2>3. ASSUME NEW i \in 1..(cursor - drop)
        PROVE  (SubSeq(entries, 1, cursor - 1)')[i] = full[i + drop]
    <3>1. i \in 1..(cursor' - 1) /\ i \in 1..(cursor + 1 - drop)
      BY <2>1, <1>4 DEF CursorOK
    <3> QED
      BY <3>1, <2>2, <1>5
  <2> QED
    BY <2>1, <2>2, <2>3
<1>13. SubSeq(entries, 1, cursor - 1)' = Browser!Kept(behind)
  <2>1. CASE drop = 1
    <3>1. \A i \in 1..(cursor - 1) : (SubSeq(entries, 1, cursor - 1)')[i] = Tail(behind)[i]
      BY <2>1, <1>3, <1>10, <1>12 DEF CursorOK
    <3> QED
      BY <2>1, <3>1, <1>10, <1>11, <1>12, SeqEqual
  <2>2. CASE drop = 0
    <3>1. ASSUME NEW i \in 1..cursor
          PROVE  (SubSeq(entries, 1, cursor - 1)')[i] = behind[i]
      <4>1. i \in 1..(cursor - drop) /\ i + drop = i
        BY <2>2 DEF CursorOK
      <4> QED
        BY <4>1, <1>3, <1>9, <1>12
    <3>2. Len(SubSeq(entries, 1, cursor - 1)') = Len(behind)
      BY <2>2, <1>9, <1>12 DEF CursorOK
    <3>3. SubSeq(entries, 1, cursor - 1)' = behind
      BY <3>1, <3>2, <1>9, <1>12, SeqEqual
    <3> QED
      BY <2>2, <3>3, <1>11
  <2> QED
    BY <2>1, <2>2, <1>4
<1> QED
  BY <1>6, <1>7, <1>8, <1>13 DEF Browser!Visit, behind

\* One step back is one page back.
LEMMA BackIsGoBack ==
  ASSUME CursorOK, cursor > 1, cursor' = cursor - 1, UNCHANGED entries
  PROVE  Browser!GoBack
<1> DEFINE behind == SubSeq(entries, 1, cursor - 1)
<1>1. /\ cursor - 1 \in 1..Len(entries) /\ cursor - 2 \in 0..Len(entries)
      /\ cursor \in 1..Len(entries) /\ Len(entries) \in cursor..Len(entries)
      /\ entries \in Seq(Entry)
  BY DEF CursorOK
<1>2. /\ behind \in Seq(Entry) /\ Len(behind) = cursor - 1
      /\ \A i \in 1..(cursor - 1) : behind[i] = entries[i]
  BY <1>1, FirstElements
<1>3. SubSeq(entries, 1, cursor - 1)' = SubSeq(behind, 1, Len(behind) - 1)
  <2>1. /\ SubSeq(entries, 1, cursor - 2) \in Seq(Entry)
        /\ Len(SubSeq(entries, 1, cursor - 2)) = cursor - 2
        /\ \A i \in 1..(cursor - 2) : SubSeq(entries, 1, cursor - 2)[i] = entries[i]
    BY <1>1, FirstElements
  <2>2. Len(behind) - 1 = cursor - 2 /\ cursor - 2 \in 0..Len(behind)
    BY <1>1, <1>2
  <2>3. /\ SubSeq(behind, 1, cursor - 2) \in Seq(Entry)
        /\ Len(SubSeq(behind, 1, cursor - 2)) = cursor - 2
        /\ \A i \in 1..(cursor - 2) : SubSeq(behind, 1, cursor - 2)[i] = behind[i]
    BY <1>2, <2>2, FirstElements
  <2>4. \A i \in 1..(cursor - 2) : i \in 1..(cursor - 1)
    BY <1>1
  <2>5. SubSeq(entries, 1, cursor - 2) = SubSeq(behind, 1, cursor - 2)
    BY <1>2, <2>1, <2>3, <2>4, SeqEqual
  <2>6. cursor' - 1 = cursor - 2
    BY <1>1
  <2> QED
    BY <2>2, <2>5, <2>6
<1>4. entries'[cursor'] = behind[Len(behind)]
  BY <1>1, <1>2
<1>5. From(entries, cursor + 1)' = <<entries[cursor]>> \o From(entries, cursor + 1)
  <2>1. cursor' + 1 = cursor
    BY <1>1
  <2> QED
    BY <1>1, <2>1, SubSeqRecursiveFirst DEF From
<1>6. behind # <<>>
  BY <1>1, <1>2
<1> QED
  BY <1>3, <1>4, <1>5, <1>6 DEF Browser!GoBack

\* One step forward is one page forward.
LEMMA ForwardIsGoForward ==
  ASSUME CursorOK, cursor < Len(entries), cursor' = cursor + 1, UNCHANGED entries
  PROVE  Browser!GoForward
<1> DEFINE ahead == SubSeq(entries, cursor + 1, Len(entries))
<1>1. /\ cursor \in 1..Len(entries) /\ cursor + 1 \in 1..Len(entries)
      /\ cursor - 1 \in 0..Len(entries) /\ Len(entries) \in (cursor + 1)..Len(entries)
      /\ entries \in Seq(Entry)
  BY DEF CursorOK
<1>2. ahead = <<entries[cursor + 1]>> \o SubSeq(entries, cursor + 2, Len(entries))
  <2>1. cursor + 1 + 1 = cursor + 2
    BY <1>1
  <2> QED
    BY <1>1, <2>1, SubSeqRecursiveFirst
<1>3. SubSeq(entries, cursor + 2, Len(entries)) \in Seq(Entry)
  <2>1. \A i \in (cursor + 2)..Len(entries) : entries[i] \in Entry
    BY <1>1
  <2>2. cursor + 2 \in Int /\ Len(entries) \in Int
    BY <1>1
  <2> QED
    BY <2>1, <2>2, SubSeqProperties
<1>4. /\ ahead # <<>> /\ ahead[1] = entries[cursor + 1]
      /\ Tail(ahead) = SubSeq(entries, cursor + 2, Len(entries))
  <2> HIDE DEF ahead
  <2>1. entries[cursor + 1] \in Entry
    BY <1>1
  <2>2. /\ Head(SubSeq(entries, cursor + 1, Len(entries))) = entries[cursor + 1]
        /\ Tail(SubSeq(entries, cursor + 1, Len(entries)))
             = SubSeq(entries, (cursor + 1) + 1, Len(entries))
    BY <1>1, HeadTailOfSubSeq
  <2>3. (cursor + 1) + 1 = cursor + 2
    BY <1>1
  <2>4. ahead # <<>> /\ ahead[1] = entries[cursor + 1]
    BY <1>2, <1>3, <2>1
  <2> QED
    BY <2>2, <2>3, <2>4 DEF ahead
<1>5. SubSeq(entries, 1, cursor - 1)' = Append(SubSeq(entries, 1, cursor - 1), entries[cursor])
  <2>1. /\ SubSeq(entries, 1, cursor) = SubSeq(entries, 1, cursor - 1) \o <<entries[cursor]>>
        /\ 1 \in 1..Len(entries) /\ cursor \in 1..Len(entries)
    BY <1>1, SubSeqRecursiveSecond
  <2>2. SubSeq(entries, 1, cursor - 1) \in Seq(Entry) /\ entries[cursor] \in Entry
    BY <1>1, FirstElements
  <2>3. cursor' - 1 = cursor
    BY <1>1
  <2> QED
    BY <2>1, <2>2, <2>3
<1>6. From(entries, cursor + 1)' = Tail(From(entries, cursor + 1))
  <2>1. cursor' + 1 = cursor + 2
    BY <1>1
  <2> QED
    BY <2>1, <1>4 DEF From
<1>7. entries'[cursor'] = ahead[1]
  BY <1>4
<1> QED
  BY <1>4, <1>5, <1>6, <1>7 DEF Browser!GoForward, From

\* A replaced entry leaves what is behind and ahead alone.
LEMMA ReplaceKeepsHistory ==
  ASSUME CursorOK, NEW entry \in Entry, Replaced(entry)
  PROVE  CursorOK' /\ Len(entries') = Len(entries) /\ Browser!Become(entry)
<1>1. /\ entries' \in Seq(Entry) /\ Len(entries') = Len(entries)
      /\ entries'[cursor] = entry
      /\ \A i \in 1..Len(entries) : i # cursor => entries'[i] = entries[i]
  BY DEF CursorOK, Replaced
<1>2. CursorOK' /\ cursor' = cursor
  BY <1>1 DEF CursorOK, Replaced
<1>3. SubSeq(entries, 1, cursor - 1)' = SubSeq(entries, 1, cursor - 1)
  <2>1. cursor - 1 \in 0..Len(entries) /\ cursor - 1 \in 0..Len(entries')
    BY <1>1 DEF CursorOK
  <2>2. \A i \in 1..(cursor - 1) : i \in 1..Len(entries) /\ i # cursor
    BY DEF CursorOK
  <2>3. /\ SubSeq(entries, 1, cursor - 1) \in Seq(Entry)
        /\ Len(SubSeq(entries, 1, cursor - 1)) = cursor - 1
        /\ \A i \in 1..(cursor - 1) : SubSeq(entries, 1, cursor - 1)[i] = entries[i]
    BY <2>1, FirstElements DEF CursorOK
  <2>4. /\ SubSeq(entries', 1, cursor - 1) \in Seq(Entry)
        /\ Len(SubSeq(entries', 1, cursor - 1)) = cursor - 1
        /\ \A i \in 1..(cursor - 1) : SubSeq(entries', 1, cursor - 1)[i] = entries'[i]
    BY <1>1, <2>1, FirstElements
  <2>5. SubSeq(entries', 1, cursor - 1) = SubSeq(entries, 1, cursor - 1)
    BY <1>1, <2>2, <2>3, <2>4, SeqEqual
  <2> QED
    BY <1>2, <2>5
<1>4. From(entries, cursor + 1)' = From(entries, cursor + 1)
  <2> DEFINE n == Len(entries)
             old == SubSeq(entries, cursor + 1, n)
             new == SubSeq(entries', cursor + 1, n)
  <2>1. /\ cursor + 1 \in Int /\ n \in Int
        /\ \A i \in (cursor + 1)..n : entries[i] \in Entry /\ entries'[i] \in Entry
    BY <1>1 DEF CursorOK
  <2>2. /\ old \in Seq(Entry)
        /\ Len(old) = IF cursor + 1 <= n THEN n - (cursor + 1) + 1 ELSE 0
        /\ \A i \in 1..(n - (cursor + 1) + 1) : old[i] = entries[cursor + 1 + i - 1]
    BY <2>1, SubSeqProperties
  <2>3. /\ new \in Seq(Entry)
        /\ Len(new) = IF cursor + 1 <= n THEN n - (cursor + 1) + 1 ELSE 0
        /\ \A i \in 1..(n - (cursor + 1) + 1) : new[i] = entries'[cursor + 1 + i - 1]
    BY <2>1, SubSeqProperties
  <2> HIDE DEF old, new
  <2>4. ASSUME NEW i \in 1..Len(old) PROVE old[i] = new[i]
    <3>1. /\ i \in 1..(n - (cursor + 1) + 1)
          /\ cursor + 1 + i - 1 \in 1..n /\ cursor + 1 + i - 1 # cursor
      BY <2>2 DEF CursorOK
    <3> QED
      BY <3>1, <2>2, <2>3, <1>1
  <2>5. old = new
    BY <2>2, <2>3, <2>4, SeqEqual
  <2> QED
    BY <1>1, <1>2, <2>5 DEF From, old, new
<1> QED
  BY <1>1, <1>2, <1>3, <1>4 DEF Browser!Become

-----------------------------------------------------------------------------
(* The invariant and the refinement, action by action.                     *)

LEMMA HistoryInit == Init => HistoryInv /\ Browser!Init
<1> SUFFICES ASSUME Init PROVE HistoryInv /\ Browser!Init
  OBVIOUS
<1>1. [path |-> Root, state |-> NoState] \in Entry /\ MaxHistory \in Nat
  BY NavigatorAssumption DEF Entry
<1>2. CursorOK
  BY <1>1 DEF Init, CursorOK
<1>3. NavOK /\ nav.stage = "idle"
  BY NavigatorAssumption DEF Init, NavOK, Idle, Ops
<1>4. Browser!Init
  BY <1>1 DEF Init, Browser!Init, From
<1> QED
  BY <1>2, <1>3, <1>4 DEF HistoryInv, Pending

\* A step that leaves the history alone is none of the browser's.
LEMMA QuietStep ==
  ASSUME CursorOK, UNCHANGED history
  PROVE  CursorOK' /\ UNCHANGED Browser!pages
BY DEF CursorOK, history, Browser!pages, From

\* A request is well-formed, and only that of back and forward needs an entry.
LEMMA RequestKeepsNav ==
  ASSUME NEW op \in Ops, NEW to \in Path, NEW depth \in Nat,
         NEW state \in States \cup {NoState}, Request(op, to, depth, state)
  PROVE  NavOK' /\ (nav'.stage = "idle" \/ nav'.op = op)
BY NavigatorAssumption DEF Request, NavOK, Idle, Ops, Stages

\* A redirect pushes.
LEMMA RedirectKeepsNav ==
  ASSUME NavOK, NEW to \in Targets, Redirected(to)
  PROVE  NavOK' /\ (nav'.stage = "idle" \/ nav'.op = "Push")
<1>1. /\ "Push" \in Ops /\ to \in Path /\ nav.depth + 1 \in Nat
      /\ nav.state \in States \cup {NoState}
  BY NavigatorAssumption DEF NavOK, Ops
<1> QED
  BY <1>1, RequestKeepsNav DEF Redirected

LEMMA ProceedKeepsNav ==
  ASSUME NavOK, NEW stage \in Stages, Proceed(stage)
  PROVE  NavOK' /\ nav'.stage = stage /\ nav'.op = nav.op
BY DEF Proceed, NavOK

LEMMA BlockedKeepsNav ==
  ASSUME Blocked
  PROVE  NavOK' /\ nav'.stage = "idle"
BY NavigatorAssumption DEF Blocked, NavOK, Idle, Ops

\* The bookkeeping of the back and forward navigations, when the history stays.
LEMMA QuietInv ==
  ASSUME HistoryInv, UNCHANGED history, NavOK',
         \/ nav'.stage \notin Pending
         \/ nav'.op = "Push" \/ nav'.op = "Replace"
         \/ nav.stage \in Pending /\ nav'.op = nav.op
         \/ nav'.op = "Back" /\ cursor > 1
         \/ nav'.op = "Forward" /\ cursor < Len(entries)
  PROVE  HistoryInv' /\ UNCHANGED Browser!pages
<1>1. CursorOK' /\ UNCHANGED Browser!pages
  BY QuietStep DEF HistoryInv
<1>2. UNCHANGED <<entries, cursor>>
  BY DEF history
<1>3. nav'.stage \in Pending /\ nav'.op = "Back" => cursor' > 1
  BY <1>2 DEF HistoryInv
<1>4. nav'.stage \in Pending /\ nav'.op = "Forward" => cursor' < Len(entries')
  BY <1>2 DEF HistoryInv
<1> QED
  BY <1>1, <1>3, <1>4 DEF HistoryInv

\* Every action keeps HistoryInv, and is a step of the browser or a stutter.
LEMMA HistoryStep ==
  HistoryInv /\ [Next]_vars => HistoryInv' /\ [Browser!Next]_Browser!pages
<1> SUFFICES ASSUME HistoryInv, [Next]_vars
             PROVE  HistoryInv' /\ [Browser!Next]_Browser!pages
  OBVIOUS
<1> USE DEF Pending
<1>1. NavOK /\ CursorOK /\ MaxHistory \in Nat /\ 0 \in Nat
  BY NavigatorAssumption DEF HistoryInv
<1>2. ASSUME NEW op \in Ops, NEW to \in Path, NEW state \in States \cup {NoState},
             Call(op, to, state),
             op = "Back" => cursor > 1, op = "Forward" => cursor < Len(entries)
      PROVE  HistoryInv' /\ UNCHANGED Browser!pages
  <2>1. NavOK' /\ (nav'.stage = "idle" \/ nav'.op = op)
    BY <1>1, <1>2, RequestKeepsNav DEF Call
  <2>2. UNCHANGED history
    BY <1>2 DEF Call
  <2> QED
    BY <1>2, <2>1, <2>2, QuietInv DEF Ops
<1>3. CASE Push \/ Replace
  BY <1>2, <1>3 DEF Push, Replace, Ops
<1>4. CASE Back
  <2>1. cursor - 1 \in 1..Len(entries) /\ entries[cursor - 1] \in Entry
    BY <1>1, <1>4 DEF Back, CursorOK
  <2>2. entries[cursor - 1].path \in Path
    BY <2>1 DEF Entry
  <2> QED
    BY <1>2, <1>4, <2>2 DEF Back, Ops
<1>5. CASE Forward
  <2>1. cursor + 1 \in 1..Len(entries) /\ entries[cursor + 1] \in Entry
    BY <1>1, <1>5 DEF Forward, CursorOK
  <2>2. entries[cursor + 1].path \in Path
    BY <2>1 DEF Entry
  <2> QED
    BY <1>2, <1>5, <2>2 DEF Forward, Ops
<1>6. ASSUME NEW route \in Late, AddRoute(route)
      PROVE  HistoryInv' /\ UNCHANGED Browser!pages
  <2>1. NavOK' /\ nav' = nav /\ nav.stage = "idle" /\ UNCHANGED history
    BY <1>1, <1>6 DEF AddRoute, IsIdle, Idle, NavOK
  <2> QED
    BY <2>1, QuietInv
<1>7. CASE RunGuards
  <2>1. nav.stage = "guards" /\ UNCHANGED history
    BY <1>7 DEF RunGuards
  <2>2. CASE Proceed("deactivate")
    BY <1>1, <2>1, <2>2, ProceedKeepsNav, QuietInv DEF Stages
  <2>3. CASE Blocked
    BY <2>1, <2>3, BlockedKeepsNav, QuietInv
  <2>4. CASE \E to \in Targets : Redirected(to)
    BY <1>1, <2>1, <2>4, RedirectKeepsNav, QuietInv
  <2> QED
    BY <1>7, <2>2, <2>3, <2>4 DEF RunGuards
<1>8. CASE CanDeactivate
  <2>1. nav.stage = "deactivate" /\ UNCHANGED history
    BY <1>8 DEF CanDeactivate
  <2>2. CASE Proceed("exit")
    BY <1>1, <2>1, <2>2, ProceedKeepsNav, QuietInv DEF Stages
  <2>3. CASE Blocked
    BY <2>1, <2>3, BlockedKeepsNav, QuietInv
  <2>4. CASE \E to \in Targets : Redirected(to)
    BY <1>1, <2>1, <2>4, RedirectKeepsNav, QuietInv
  <2> QED
    BY <1>8, <2>2, <2>3, <2>4 DEF CanDeactivate
<1>9. CASE OnExit
  <2>1. nav.stage = "exit" /\ UNCHANGED history
    BY <1>9 DEF OnExit
  <2>2. CASE Proceed("perform")
    BY <1>1, <2>1, <2>2, ProceedKeepsNav, QuietInv DEF Stages
  <2>3. CASE Blocked
    BY <2>1, <2>3, BlockedKeepsNav, QuietInv
  <2> QED
    BY <1>9, <2>2, <2>3 DEF OnExit
<1>10. CASE PerformNavigation
  <2> DEFINE entry == [path |-> nav.to, state |-> NoState]
  <2>1. /\ nav.stage = "perform" /\ entry \in Entry
        /\ nav.op = "Back" => cursor > 1
        /\ nav.op = "Forward" => cursor < Len(entries)
    BY <1>1, <1>10 DEF PerformNavigation, NavOK, Entry, HistoryInv
  <2>2. NavOK' /\ nav'.stage = "enter"
    BY <1>1, <1>10, ProceedKeepsNav DEF PerformNavigation, Stages
  <2>3. CASE nav.op = "Push" /\ Pushed(entry)
    BY <1>1, <2>1, <2>2, <2>3, PushKeepsHistory, NavigatorAssumption
    DEF HistoryInv, Browser!Next
  <2>4. CASE nav.op = "Replace" /\ Replaced(entry)
    BY <1>1, <2>1, <2>2, <2>4, ReplaceKeepsHistory DEF HistoryInv, Browser!Next
  <2>5. CASE nav.op = "Back" /\ cursor' = cursor - 1 /\ UNCHANGED entries
    <3>1. CursorOK'
      BY <1>1, <2>1, <2>5 DEF CursorOK
    <3> QED
      BY <1>1, <2>1, <2>2, <2>5, <3>1, BackIsGoBack DEF HistoryInv, Browser!Next
  <2>6. CASE nav.op = "Forward" /\ cursor' = cursor + 1 /\ UNCHANGED entries
    <3>1. CursorOK'
      BY <1>1, <2>1, <2>6 DEF CursorOK
    <3> QED
      BY <1>1, <2>1, <2>2, <2>6, <3>1, ForwardIsGoForward DEF HistoryInv, Browser!Next
  <2> QED
    BY <1>10, <2>3, <2>4, <2>5, <2>6 DEF PerformNavigation
<1>11. CASE OnEnter
  <2>1. UNCHANGED history
    BY <1>11 DEF OnEnter
  <2>2. CASE Proceed("after")
    BY <1>1, <2>1, <2>2, ProceedKeepsNav, QuietInv DEF Stages
  <2>3. CASE \E to \in Targets : Redirected(to)
    BY <1>1, <2>1, <2>3, RedirectKeepsNav, QuietInv
  <2> QED
    BY <1>11, <2>2, <2>3 DEF OnEnter
<1>12. CASE Finish
  <2>1. NavOK' /\ nav'.stage = "idle"
    BY <1>12, NavigatorAssumption DEF Finish, NavOK, Idle, Ops
  <2>2. CASE UNCHANGED history
    BY <2>1, <2>2, QuietInv
  <2>3. CASE Replaced([path |-> Here, state |-> nav.state])
    <3>1. entries[cursor] \in Entry
      BY <1>1 DEF CursorOK
    <3>2. [path |-> Here, state |-> nav.state] \in Entry
      BY <1>1, <3>1 DEF Entry, Here, NavOK
    <3> QED
      BY <1>1, <2>1, <2>3, <3>2, ReplaceKeepsHistory DEF HistoryInv, Browser!Next
  <2> QED
    BY <1>12, <2>2, <2>3 DEF Finish
<1>13. CASE UNCHANGED vars
  <2>1. UNCHANGED history /\ nav' = nav /\ NavOK'
    BY <1>1, <1>13 DEF vars, history, NavOK
  <2> QED
    BY <2>1, QuietInv
<1> QED
  BY <1>3, <1>4, <1>5, <1>6, <1>7, <1>8, <1>9, <1>10, <1>11, <1>12, <1>13
  DEF Next, Pipeline

\* The cursor is inside the history, the history within its limit, and a back
\* or forward under way has its entry, whatever the hooks answer (history.rs).
THEOREM HistoryIsSound == Spec => []HistoryInv
<1>1. Init => HistoryInv
  BY HistoryInit
<1>2. HistoryInv /\ [Next]_vars => HistoryInv'
  BY HistoryStep
<1> QED
  BY <1>1, <1>2, PTL DEF Spec

\* Every step of the router is one of a browser's history, or none: guards,
\* redirects and the state attached afterwards included (navigate_with_pipeline).
THEOREM HistoryIsBrowsers == Spec => ImplementsHistory
<1>1. Init => Browser!Init
  BY HistoryInit
<1>2. HistoryInv /\ [Next]_vars => [Browser!Next]_Browser!pages
  BY HistoryStep
<1> QED
  BY <1>1, <1>2, HistoryIsSound, PTL DEF Spec, ImplementsHistory, Browser!Spec

-----------------------------------------------------------------------------
(* The chain of routes.                                                    *)

\* Every action that moves the cursor or adds a route resolves again.
LEMMA StackStep ==
  CursorOK /\ MatchStackIsCurrent /\ [Next]_vars => MatchStackIsCurrent'
<1> SUFFICES ASSUME CursorOK, MatchStackIsCurrent, [Next]_vars
             PROVE  MatchStackIsCurrent'
  OBVIOUS
<1>1. ASSUME UNCHANGED <<entries, cursor, registered, stack>>
      PROVE  MatchStackIsCurrent'
  BY <1>1 DEF MatchStackIsCurrent, Here
<1>2. CASE Push \/ Replace \/ Back \/ Forward
  BY <1>1, <1>2 DEF Push, Replace, Back, Forward, Call, history
<1>3. ASSUME NEW route \in Late, AddRoute(route)
      PROVE  MatchStackIsCurrent'
  <2>1. Here' = Here
    BY <1>3 DEF AddRoute, history, Here
  <2> QED
    BY <1>3, <2>1 DEF AddRoute, MatchStackIsCurrent
<1>4. CASE RunGuards \/ CanDeactivate \/ OnExit \/ OnEnter
  BY <1>1, <1>4 DEF RunGuards, CanDeactivate, OnExit, OnEnter, history
<1>5. CASE PerformNavigation
  BY <1>5 DEF PerformNavigation, MatchStackIsCurrent
<1>6. CASE Finish
  <2>1. CASE UNCHANGED history
    BY <1>1, <1>6, <2>1 DEF Finish, history
  <2>2. CASE Replaced([path |-> Here, state |-> nav.state])
    <3>1. Here' = Here
      BY <2>2 DEF Replaced, Here, CursorOK
    <3> QED
      BY <1>6, <3>1 DEF Finish, MatchStackIsCurrent
  <2> QED
    BY <1>6, <2>1, <2>2 DEF Finish
<1>7. CASE UNCHANGED vars
  BY <1>1, <1>7 DEF vars
<1> QED
  BY <1>2, <1>3, <1>4, <1>5, <1>6, <1>7 DEF Next, Pipeline

\* What the outlets render is what the current path resolves to, in every state
\* that a hook or a frame can see (re_resolve, perform_navigation).
THEOREM ShownChainIsCurrent == Spec => []MatchStackIsCurrent
<1>1. Init => MatchStackIsCurrent
  BY DEF Init, MatchStackIsCurrent, Here
<1>2. HistoryInv => CursorOK
  BY DEF HistoryInv
<1> QED
  BY <1>1, <1>2, StackStep, HistoryIsSound, PTL DEF Spec

-----------------------------------------------------------------------------
(* The first element found, and segments taken from a path.                *)

\* A set of numbers has a smallest one.
LEMMA SmallestNat ==
  ASSUME NEW B \in SUBSET Nat, B # {}
  PROVE  \E m \in B : \A l \in B : m <= l
<1> DEFINE R == OpToRel(<, Nat)
<1>1. IsWellFoundedOn(R, Nat)
  BY NatLessThanWellFounded
<1>2. \A x, y \in Nat : <<x, y>> \in R <=> x < y
  BY DEF OpToRel
<1> HIDE DEF R
<1>3. PICK m \in B : \A l \in B : ~ (<<l, m>> \in R)
  BY <1>1, WFMin, Zenon
<1>4. \A l \in B : m \in Nat /\ l \in Nat /\ ~ (l < m)
  BY <1>2, <1>3
<1> QED BY <1>4

\* What FirstIn finds is in the sequence and in the set, and it finds something
\* if they meet.
LEMMA FirstFound ==
  ASSUME NEW S, NEW seq \in Seq(S), NEW good
  PROVE  \/ FirstIn(seq, good) = <<>> /\ \A x \in Range(seq) : x \notin good
         \/ \E x \in Range(seq) : x \in good /\ FirstIn(seq, good) = <<x>>
<1> DEFINE at == {i \in DOMAIN seq : seq[i] \in good}
<1>1. CASE at = {}
  BY <1>1 DEF FirstIn, Range
<1>2. CASE at # {}
  <2>1. at \in SUBSET Nat
    OBVIOUS
  <2>2. \E m \in at : \A l \in at : m <= l
    <3> HIDE DEF at
    <3> QED BY <1>2, <2>1, SmallestNat
  <2>3. Min(at) \in at
    BY <2>2 DEF Min
  <2>4. FirstIn(seq, good) = <<seq[Min(at)]>>
    BY <1>2 DEF FirstIn
  <2> QED BY <2>3, <2>4 DEF Range
<1> QED BY <1>1, <1>2

\* What is left of a path after n of its segments.
LEMMA Remaining ==
  ASSUME NEW S, NEW path \in Seq(S), NEW n \in Nat
  PROVE  /\ From(path, n + 1) \in Seq(S)
         /\ n <= Len(path) =>
              /\ Len(From(path, n + 1)) = Len(path) - n
              /\ \A i \in 1..(Len(path) - n) : From(path, n + 1)[i] = path[n + i]
<1>1. n + 1 \in Int /\ Len(path) \in Int /\ \A i \in (n + 1)..Len(path) : path[i] \in S
  OBVIOUS
<1>2. /\ SubSeq(path, n + 1, Len(path)) \in Seq(S)
      /\ Len(SubSeq(path, n + 1, Len(path)))
           = IF n + 1 <= Len(path) THEN Len(path) - (n + 1) + 1 ELSE 0
      /\ \A i \in 1..(Len(path) - (n + 1) + 1) :
           SubSeq(path, n + 1, Len(path))[i] = path[n + 1 + i - 1]
  BY <1>1, SubSeqProperties
<1>3. ASSUME NEW i \in 1..(Len(path) - n), n <= Len(path)
      PROVE  SubSeq(path, n + 1, Len(path))[i] = path[n + i]
  <2>1. i \in 1..(Len(path) - (n + 1) + 1) /\ n + 1 + i - 1 = n + i
    BY <1>1
  <2> QED BY <1>2, <2>1
<1>4. n <= Len(path) => Len(SubSeq(path, n + 1, Len(path))) = Len(path) - n
  BY <1>1, <1>2
<1> QED BY <1>2, <1>3, <1>4 DEF From

\* A pattern and then another fit a path that the one begins and the other goes
\* on with.
LEMMA FitsOn ==
  ASSUME NEW above \in Seq(Segment), NEW pattern \in Seq(Segment),
         NEW path \in Seq(Segment), FitsPrefix(above, path),
         FitsPrefix(pattern, From(path, Len(above) + 1))
  PROVE  /\ FitsPrefix(above \o pattern, path)
         /\ From(path, Len(above \o pattern) + 1)
              = From(From(path, Len(above) + 1), Len(pattern) + 1)
<1> DEFINE a == Len(above)  b == Len(pattern)  l == Len(path)
           rest == From(path, a + 1)  full == above \o pattern
<1>1. a \in Nat /\ b \in Nat /\ l \in Nat /\ a <= l
  BY DEF FitsPrefix
<1>2. /\ rest \in Seq(Segment) /\ Len(rest) = l - a
      /\ \A i \in 1..(l - a) : rest[i] = path[a + i]
  BY <1>1, Remaining
<1>3. b <= l - a /\ \A i \in 1..b : pattern[i] \in Params \/ pattern[i] = rest[i]
  BY <1>2 DEF FitsPrefix
<1>4. /\ full \in Seq(Segment) /\ Len(full) = a + b
      /\ \A i \in 1..a : full[i] = above[i]
      /\ \A i \in 1..b : full[a + i] = pattern[i]
  BY ConcatProperties
<1>5. /\ From(path, a + b + 1) \in Seq(Segment)
      /\ Len(From(path, a + b + 1)) = l - (a + b)
      /\ \A i \in 1..(l - (a + b)) : From(path, a + b + 1)[i] = path[a + b + i]
  BY <1>1, <1>3, Remaining
<1>6. /\ From(rest, b + 1) \in Seq(Segment)
      /\ Len(From(rest, b + 1)) = (l - a) - b
      /\ \A i \in 1..((l - a) - b) : From(rest, b + 1)[i] = rest[b + i]
  <2>1. b <= Len(rest) /\ rest \in Seq(Segment) /\ b \in Nat
    BY <1>1, <1>2, <1>3
  <2> HIDE DEF rest, b, a, l
  <2>2. /\ From(rest, b + 1) \in Seq(Segment)
        /\ Len(From(rest, b + 1)) = Len(rest) - b
        /\ \A i \in 1..(Len(rest) - b) : From(rest, b + 1)[i] = rest[b + i]
    BY <2>1, Remaining
  <2> QED BY <2>2, <1>2
<1>7. \A i \in 1..a : above[i] \in Params \/ above[i] = path[i]
  BY DEF FitsPrefix
<1> HIDE DEF a, b, l, rest, full
<1>8. ASSUME NEW i \in 1..(l - (a + b))
      PROVE  From(path, a + b + 1)[i] = From(rest, b + 1)[i]
  <2>1. i \in 1..((l - a) - b) /\ b + i \in 1..(l - a) /\ a + (b + i) = a + b + i
    BY <1>1, <1>3
  <2>2. From(rest, b + 1)[i] = rest[b + i] /\ rest[b + i] = path[a + (b + i)]
    BY <1>2, <1>6, <2>1
  <2>3. From(path, a + b + 1)[i] = path[a + b + i]
    BY <1>5
  <2> QED BY <2>1, <2>2, <2>3
<1>9. From(path, a + b + 1) = From(rest, b + 1)
  <2>1. l - (a + b) = (l - a) - b
    BY <1>1
  <2> QED BY <1>5, <1>6, <1>8, <2>1, SeqEqual
<1>10. ASSUME NEW i \in 1..(a + b)
       PROVE  full[i] \in Params \/ full[i] = path[i]
  <2>1. CASE i <= a
    <3>1. i \in 1..a
      BY <1>1, <2>1
    <3> QED BY <3>1, <1>4, <1>7
  <2>2. CASE i > a
    <3>1. i - a \in 1..b /\ i - a \in 1..(l - a) /\ a + (i - a) = i
      BY <1>1, <1>3, <2>2
    <3>2. full[i] = pattern[i - a] /\ rest[i - a] = path[i]
      BY <3>1, <1>2, <1>4
    <3> QED BY <3>1, <3>2, <1>3
  <2> QED BY <1>1, <2>1, <2>2
<1>11. FitsPrefix(full, path)
  <2>1. a + b <= l /\ DOMAIN full = 1..(a + b)
    BY <1>1, <1>3, <1>4
  <2> QED BY <1>4, <1>10, <2>1 DEF FitsPrefix, l
<1> QED BY <1>4, <1>9, <1>11 DEF a, b, rest, full

-----------------------------------------------------------------------------
(* Recursion over a set on which a descent ends.                           *)

\* `Step' makes a function on D of a function on D; at each place it looks only
\* at the places below it, and nothing is below itself.
Grounded(D, Below) ==
  /\ Below \in [D -> SUBSET D]
  /\ \A S \in SUBSET D : S # {} => \E x \in S : Below[x] \cap S = {}

LooksBelow(D, V, Below, Step) ==
  /\ Step \in [[D -> V] -> [D -> V]]
  /\ \A f, g \in [D -> V] : \A x \in D :
       (\A y \in Below[x] : f[y] = g[y]) => Step[f][x] = Step[g][x]

\* The function solves the equation on a set that is closed.
SolvesOn(f, C, D, Below, Step) ==
  /\ C \in SUBSET D
  /\ \A x \in C : Below[x] \subseteq C
  /\ \A x \in C : f[x] = Step[f][x]

\* Two solutions of a grounded equation agree where both are defined.
LEMMA SolutionsAgree ==
  ASSUME NEW D, NEW V, NEW Below, NEW Step,
         Grounded(D, Below), LooksBelow(D, V, Below, Step)
  PROVE  \A f, g \in [D -> V] : \A C, E :
           SolvesOn(f, C, D, Below, Step) /\ SolvesOn(g, E, D, Below, Step)
             => \A x \in C \cap E : f[x] = g[x]
<1> SUFFICES ASSUME NEW f \in [D -> V], NEW g \in [D -> V], NEW C, NEW E,
                    SolvesOn(f, C, D, Below, Step), SolvesOn(g, E, D, Below, Step),
                    NEW x \in C \cap E
             PROVE  f[x] = g[x]
  OBVIOUS
<1> DEFINE S == {y \in C \cap E : f[y] # g[y]}
<1>1. SUFFICES ASSUME S # {} PROVE FALSE
  OBVIOUS
<1>2. S \in SUBSET D
  BY DEF SolvesOn
<1>3. PICK y \in S : Below[y] \cap S = {}
  <2> HIDE DEF S
  <2> QED BY <1>1, <1>2 DEF Grounded
<1>4. \A z \in Below[y] : f[z] = g[z]
  BY <1>3 DEF SolvesOn
<1>5. y \in D /\ y \in C /\ y \in E /\ f[y] # g[y]
  BY <1>2, <1>3
<1> HIDE DEF S
<1>6. Step[f][y] = Step[g][y]
  BY <1>4, <1>5 DEF LooksBelow
<1> QED BY <1>5, <1>6 DEF SolvesOn

\* A grounded equation has a solution on the whole set.
LEMMA Recursion ==
  ASSUME NEW D, NEW V, NEW v \in V, NEW Below, NEW Step,
         Grounded(D, Below), LooksBelow(D, V, Below, Step)
  PROVE  \E f \in [D -> V] : Step[f] = f
<1> DEFINE Solution(f, C) == SolvesOn(f, C, D, Below, Step)
           Solves(f, x) == \E C : Solution(f, C) /\ x \in C
           U == {x \in D : \E f \in [D -> V] : Solves(f, x)}
           G == [x \in D |-> IF x \in U THEN (CHOOSE f \in [D -> V] : Solves(f, x))[x] ELSE v]
<1>1. \A f, g \in [D -> V] : \A C, E :
        SolvesOn(f, C, D, Below, Step) /\ SolvesOn(g, E, D, Below, Step)
          => \A x \in C \cap E : f[x] = g[x]
  BY SolutionsAgree
<1>2. G \in [D -> V]
  <2>1. ASSUME NEW x \in U PROVE (CHOOSE f \in [D -> V] : Solves(f, x))[x] \in V
    <3>1. \E f \in [D -> V] : Solves(f, x)
      OBVIOUS
    <3>2. x \in D
      OBVIOUS
    <3> HIDE DEF Solves, U, G
    <3> DEFINE g == CHOOSE f \in [D -> V] : Solves(f, x)
    <3>3. g \in [D -> V]
      BY <3>1
    <3> HIDE DEF g
    <3>4. g[x] \in V
      BY <3>2, <3>3
    <3> QED BY <3>4 DEF g
  <2> HIDE DEF U, Solves
  <2> QED BY <2>1
<1>3. ASSUME NEW f \in [D -> V], NEW C, Solution(f, C), NEW x \in C
      PROVE  x \in U /\ G[x] = f[x]
  <2>1. x \in D /\ Solves(f, x)
    BY <1>3 DEF SolvesOn
  <2> DEFINE g == CHOOSE h \in [D -> V] : Solves(h, x)
  <2>2. x \in U /\ G[x] = g[x]
    BY <2>1
  <2>3. g \in [D -> V] /\ Solves(g, x)
    <3> HIDE DEF Solves
    <3> QED BY <2>1
  <2> HIDE DEF g
  <2>4. PICK E : Solution(g, E) /\ x \in E
    BY <2>3
  <2>5. f[x] = g[x]
    <3>1. /\ SolvesOn(f, C, D, Below, Step) /\ SolvesOn(g, E, D, Below, Step)
          /\ x \in C \cap E
      BY <1>3, <2>4
    <3> HIDE DEF U, G, Solves, Solution
    <3>2. f \in [D -> V]
      OBVIOUS
    <3> QED BY <1>1, <2>3, <3>1, <3>2
  <2> QED BY <2>2, <2>5
<1>4. Solution(G, U)
  <2>1. ASSUME NEW x \in U PROVE Below[x] \subseteq U /\ G[x] = Step[G][x]
    <3>1. PICK f \in [D -> V] : Solves(f, x)
      OBVIOUS
    <3>2. PICK C : Solution(f, C) /\ x \in C
      BY <3>1
    <3>3. x \in D /\ Below[x] \subseteq C /\ f[x] = Step[f][x]
      BY <3>2 DEF SolvesOn
    <3> HIDE DEF U, G, Solution
    <3>4. Below[x] \subseteq U /\ G[x] = f[x] /\ \A y \in Below[x] : f[y] = G[y]
      BY <1>3, <3>2, <3>3
    <3>5. Step[f][x] = Step[G][x]
      BY <1>2, <3>3, <3>4 DEF LooksBelow
    <3> QED BY <3>3, <3>4, <3>5
  <2>2. U \in SUBSET D
    OBVIOUS
  <2> HIDE DEF U, G
  <2> QED BY <2>1, <2>2 DEF SolvesOn
<1>5. U = D
  <2>1. SUFFICES ASSUME D \ U # {} PROVE FALSE
    OBVIOUS
  <2>2. PICK x \in D \ U : Below[x] \cap (D \ U) = {}
    <3> HIDE DEF U
    <3> QED BY <2>1 DEF Grounded
  <2> DEFINE H == [G EXCEPT ![x] = Step[G][x]]
             W == U \cup {x}
  <2>3. x \in D /\ Below[x] \subseteq U /\ U \in SUBSET D
    <3> HIDE DEF U
    <3>1. U \in SUBSET D
      BY DEF U
    <3> QED BY <2>2, <3>1 DEF Grounded
  <2> HIDE DEF U, G, Solution
  <2>4. /\ H \in [D -> V] /\ H[x] = Step[G][x]
        /\ \A y \in U : H[y] = G[y]
    <3>1. Step[G] \in [D -> V]
      BY <1>2 DEF LooksBelow
    <3> QED BY <1>2, <2>2, <2>3, <3>1
  <2> HIDE DEF H
  <2>5. ASSUME NEW y \in U PROVE Below[y] \subseteq U /\ H[y] = Step[H][y]
    <3>1. Below[y] \subseteq U /\ G[y] = Step[G][y]
      BY <1>4 DEF SolvesOn, Solution
    <3>2. Step[H][y] = Step[G][y]
      BY <1>2, <2>3, <2>4, <3>1 DEF LooksBelow
    <3> QED BY <2>4, <3>1, <3>2
  <2>6. H[x] = Step[H][x]
    <3>1. Step[H][x] = Step[G][x]
      BY <1>2, <2>3, <2>4 DEF LooksBelow
    <3> QED BY <2>4, <3>1
  <2>7. Solution(H, W)
    BY <2>3, <2>5, <2>6 DEF SolvesOn, Solution
  <2>8. x \in U
    BY <1>3, <2>4, <2>7
  <2> QED BY <2>2, <2>8
<1>6. \A x \in D : G[x] = Step[G][x]
  <2>1. SolvesOn(G, U, D, Below, Step)
    BY <1>4
  <2> HIDE DEF U, G, Solution, Solves
  <2> QED BY <1>5, <2>1 DEF SolvesOn
<1> HIDE DEF G
<1>7. Step[G] \in [D -> V]
  BY <1>2 DEF LooksBelow
<1>8. Step[G] = G
  <2>1. G = [x \in D |-> G[x]] /\ Step[G] = [x \in D |-> Step[G][x]]
    BY <1>2, <1>7
  <2> QED BY <1>6, <2>1
<1> QED BY <1>2, <1>8

\* The equation of IndexChain, with f in its place.
Defaults(f, route) ==
  LET empty == FirstIn(Children[route], {r \in Route : Pattern[r] = <<>>})
      named == FirstIn(Children[route], {r \in Route : Pattern[r] = <<Index>>})
  IN  IF empty = <<>> THEN named ELSE empty \o f[empty[1]]

\* What holds of a place if it holds of all those below it holds of all.
LEMMA FromBelow ==
  ASSUME NEW D, NEW B, Grounded(D, B), NEW T, \A x \in D : B[x] \subseteq T => x \in T
  PROVE  D \subseteq T
<1>1. SUFFICES ASSUME D \ T # {} PROVE FALSE
  OBVIOUS
<1>2. PICK x \in D \ T : B[x] \cap (D \ T) = {}
  BY <1>1 DEF Grounded
<1>3. B[x] \subseteq T
  BY <1>2 DEF Grounded
<1> QED BY <1>2, <1>3

\* No route is below itself.
LEMMA ChildrenAreGrounded ==
  Grounded(Route, [r \in Route |-> Range(Children[r])])
<1> DEFINE B == [r \in Route |-> Range(Children[r])]
<1>1. ASSUME NEW r \in Route PROVE Range(Children[r]) \in SUBSET Route
  BY RouteTreeAssumption DEF Range
<1>2. B \in [Route -> SUBSET Route]
  BY <1>1
<1>3. ASSUME NEW S \in SUBSET Route, S # {} PROVE \E x \in S : B[x] \cap S = {}
  BY <1>3, RouteTreeAssumption
<1> QED BY <1>2, <1>3 DEF Grounded

\* IndexChain is what its equation says, on every route.
LEMMA IndexChainDefined ==
  /\ IndexChain \in [Route -> Seq(Route)]
  /\ \A r \in Route : IndexChain[r] = Defaults(IndexChain, r)
<1> DEFINE D == Route  V == Seq(Route)
           B == [r \in Route |-> Range(Children[r])]
           Step == [f \in [D -> V] |-> [r \in D |-> Defaults(f, r)]]
<1>1. ASSUME NEW r \in Route, NEW good
      PROVE  \/ FirstIn(Children[r], good) = <<>>
             \/ \E c \in Range(Children[r]) : c \in Route /\ FirstIn(Children[r], good) = <<c>>
  <2>1. Children[r] \in Seq(Route)
    BY RouteTreeAssumption
  <2>2. Range(Children[r]) \subseteq Route
    BY <2>1 DEF Range
  <2> QED BY <2>1, <2>2, FirstFound
<1>2. ASSUME NEW r \in D, NEW f \in [D -> V] PROVE Defaults(f, r) \in V
  <2>1. ASSUME NEW c \in Route PROVE <<c>> \in V /\ <<c>> \o f[<<c>>[1]] \in V
    OBVIOUS
  <2>2. <<>> \in V
    OBVIOUS
  <2> QED BY <1>1, <2>1, <2>2 DEF Defaults
<1>3. Step \in [[D -> V] -> [D -> V]]
  BY <1>2
<1>4. ASSUME NEW f \in [D -> V], NEW g \in [D -> V], NEW r \in D,
             \A y \in B[r] : f[y] = g[y]
      PROVE  Step[f][r] = Step[g][r]
  <2> DEFINE empty == FirstIn(Children[r], {x \in Route : Pattern[x] = <<>>})
  <2>1. empty = <<>> \/ \E c \in B[r] : empty = <<c>>
    BY <1>1
  <2> HIDE DEF empty
  <2>2. empty = <<>> \/ f[empty[1]] = g[empty[1]]
    BY <1>4, <2>1
  <2>3. Defaults(f, r) = Defaults(g, r)
    BY <2>2 DEF Defaults, empty
  <2> QED BY <2>3
<1>5. Grounded(D, B)
  BY ChildrenAreGrounded
<1>6. <<>> \in V
  OBVIOUS
<1>7. LooksBelow(D, V, B, Step)
  <2> HIDE DEF D, V, B, Step
  <2> QED BY <1>3, <1>4 DEF LooksBelow
<1>8. PICK f \in [D -> V] : Step[f] = f
  <2> HIDE DEF D, V, B, Step
  <2> QED BY <1>5, <1>6, <1>7, Recursion
<1> DEFINE Equation(h) == h = [r \in Route |-> Defaults(h, r)]
<1>9. Equation(f)
  BY <1>8
<1>10. IndexChain = CHOOSE h : Equation(h)
  BY DEF IndexChain, Defaults
<1>11. Equation(IndexChain)
  <2> HIDE DEF Equation
  <2> QED BY <1>9, <1>10
<1>12. \A r \in Route : IndexChain[r] = Defaults(IndexChain, r)
  BY <1>11
<1> HIDE DEF Step
<1>13. ASSUME NEW r \in D, B[r] \subseteq {x \in D : IndexChain[x] \in V}
       PROVE  r \in {x \in D : IndexChain[x] \in V}
  <2>1. ASSUME NEW c \in Range(Children[r]), c \in Route
        PROVE  <<c>> \in V /\ <<c>> \o IndexChain[<<c>>[1]] \in V
    <3>1. IndexChain[c] \in V
      BY <1>13, <2>1
    <3> QED BY <2>1, <3>1
  <2> DEFINE empty == FirstIn(Children[r], {x \in Route : Pattern[x] = <<>>})
             named == FirstIn(Children[r], {x \in Route : Pattern[x] = <<Index>>})
  <2>2. /\ empty = <<>> \/ \E c \in Range(Children[r]) : c \in Route /\ empty = <<c>>
        /\ named = <<>> \/ \E c \in Range(Children[r]) : c \in Route /\ named = <<c>>
    BY <1>1
  <2>3. Defaults(IndexChain, r) = IF empty = <<>> THEN named ELSE empty \o IndexChain[empty[1]]
    BY DEF Defaults
  <2> HIDE DEF empty, named
  <2>4. Defaults(IndexChain, r) \in V
    BY <1>6, <2>1, <2>2, <2>3
  <2> QED BY <1>12, <2>4
<1>14. \A r \in D : IndexChain[r] \in V
  <2> DEFINE T == {x \in D : IndexChain[x] \in V}
  <2>1. \A r \in D : B[r] \subseteq T => r \in T
    BY <1>13
  <2> HIDE DEF B, T, D
  <2>2. D \subseteq T
    BY <1>5, <2>1, FromBelow
  <2> QED BY <2>2 DEF T
<1>15. IndexChain = [r \in Route |-> IndexChain[r]]
  BY <1>11
<1>16. IndexChain \in [Route -> Seq(Route)]
  <2> HIDE DEF V
  <2>1. \A r \in Route : IndexChain[r] \in V
    BY <1>14
  <2>2. IndexChain \in [Route -> V]
    BY <1>15, <2>1
  <2> QED BY <2>2 DEF V
<1> QED BY <1>12, <1>16

-----------------------------------------------------------------------------
(* The search for the routes of a path.                                    *)

\* Where a search stands: a depth, a route and the segments that remain.
Spots == Nat \X Route \X Seq(Segment)

\* The segments after those of the route's pattern.
After(at) == From(at[3], Len(Pattern[at[2]]) + 1)

Deeper == [at \in Spots |->
             IF at[1] < MaxDepth
             THEN {<<at[1] + 1, c, After(at)>> : c \in Range(Children[at[2]])} ELSE {}]

LEMMA SpotBelow ==
  ASSUME NEW at \in Spots, NEW c \in Range(Children[at[2]])
  PROVE  <<at[1] + 1, c, After(at)>> \in Spots
<1>1. at[1] \in Nat /\ at[2] \in Route /\ at[3] \in Seq(Segment)
  BY DEF Spots
<1>2. c \in Route
  BY <1>1, RouteTreeAssumption DEF Range
<1>3. After(at) \in Seq(Segment)
  <2>1. Len(Pattern[at[2]]) \in Nat
    BY <1>1, RouteTreeAssumption
  <2> QED BY <1>1, <2>1, Remaining DEF After
<1> QED BY <1>1, <1>2, <1>3 DEF Spots

\* A search ends, at MAX_DEPTH at the latest.
LEMMA DepthIsGrounded == Grounded(Spots, Deeper)
<1>1. Deeper \in [Spots -> SUBSET Spots]
  BY SpotBelow DEF Deeper
<1>2. ASSUME NEW S \in SUBSET Spots, S # {}
      PROVE  \E at \in S : Deeper[at] \cap S = {}
  <2> DEFINE K == {n \in Nat : \E at \in S : at[1] + n >= MaxDepth}
  <2>1. MaxDepth \in Nat /\ \A at \in S : at \in Spots /\ at[1] \in Nat
    BY RouteTreeAssumption DEF Spots
  <2>2. K \in SUBSET Nat /\ K # {}
    <3>1. PICK at \in S : TRUE
      BY <1>2
    <3>2. at[1] + MaxDepth >= MaxDepth
      BY <2>1
    <3> QED BY <2>1, <3>2
  <2>3. PICK n \in K : \A m \in K : n <= m
    <3> HIDE DEF K
    <3> QED BY <2>2, SmallestNat
  <2>4. n \in Nat /\ (n > 0 => n - 1 \notin K)
    BY <2>3
  <2>5. PICK at \in S : at[1] + n >= MaxDepth
    OBVIOUS
  <2>6. ASSUME NEW b \in Deeper[at] PROVE b \notin S
    <3>1. at[1] < MaxDepth /\ b[1] = at[1] + 1
      BY <2>1 DEF Deeper
    <3>2. n > 0 /\ b[1] + (n - 1) >= MaxDepth /\ n - 1 \in Nat
      BY <2>1, <2>4, <2>5, <3>1
    <3> QED BY <2>4, <3>2
  <2> QED BY <2>6
<1> QED BY <1>1, <1>2 DEF Grounded

\* The equation of Leads.
Succeeds(f, at) ==
  LET route == at[2]
      after == From(at[3], Len(Pattern[route]) + 1)
  IN  /\ at[1] < MaxDepth
      /\ FitsPrefix(Pattern[route], at[3])
      /\ \/ after = <<>>
         \/ \E c \in Range(Children[route]) : f[<<at[1] + 1, c, after>>]

\* Leads is what its equation says, at every spot.
LEMMA LeadsDefined == \A at \in Spots : Leads[at] = Succeeds(Leads, at)
<1> DEFINE V == BOOLEAN
           Step == [f \in [Spots -> V] |-> [at \in Spots |-> Succeeds(f, at)]]
<1>1. Step \in [[Spots -> V] -> [Spots -> V]]
  BY DEF Succeeds
<1>2. ASSUME NEW f \in [Spots -> V], NEW g \in [Spots -> V], NEW at \in Spots,
             \A y \in Deeper[at] : f[y] = g[y]
      PROVE  Step[f][at] = Step[g][at]
  <2>1. ASSUME at[1] < MaxDepth, NEW c \in Range(Children[at[2]])
        PROVE  f[<<at[1] + 1, c, After(at)>>] = g[<<at[1] + 1, c, After(at)>>]
    <3>1. <<at[1] + 1, c, After(at)>> \in Deeper[at]
      BY <2>1 DEF Deeper
    <3> QED BY <1>2, <3>1
  <2>2. CASE at[1] < MaxDepth
    <3>1. (\E c \in Range(Children[at[2]]) : f[<<at[1] + 1, c, After(at)>>])
            = (\E c \in Range(Children[at[2]]) : g[<<at[1] + 1, c, After(at)>>])
      BY <2>1, <2>2, Zenon
    <3>2. Succeeds(f, at) = Succeeds(g, at)
      BY <3>1, Zenon DEF Succeeds, After
    <3> QED BY <3>2
  <2>3. CASE ~(at[1] < MaxDepth)
    BY <2>3, Zenon DEF Succeeds
  <2>4. Succeeds(f, at) = Succeeds(g, at)
    BY <2>2, <2>3, Zenon
  <2> QED BY <2>4
<1>3. LooksBelow(Spots, V, Deeper, Step)
  <2> HIDE DEF V, Step
  <2> QED BY <1>1, <1>2 DEF LooksBelow
<1>4. PICK f \in [Spots -> V] : Step[f] = f
  <2>1. PICK v : v \in V
    OBVIOUS
  <2> HIDE DEF V, Step
  <2> QED BY <1>3, <2>1, DepthIsGrounded, Recursion
<1> DEFINE Equation(h) == h = [at \in Spots |-> Succeeds(h, at)]
<1>5. Equation(f)
  BY <1>4
<1>6. Leads = CHOOSE h : Equation(h)
  BY DEF Leads, Succeeds, Spots
<1>7. Equation(Leads)
  <2> HIDE DEF Equation
  <2> QED BY <1>5, <1>6
<1> QED BY <1>7

\* The equation of Search.
Chain(f, at) ==
  LET route == at[2]
      after == From(at[3], Len(Pattern[route]) + 1)
      next == FirstLeading(at[1] + 1, Children[route], after)
  IN  IF ~Leads[at] THEN <<>>
      ELSE <<route>> \o IF after = <<>> THEN IndexChain[route]
                        ELSE f[<<at[1] + 1, next[1], after>>]

\* The search goes on from a child where it succeeds.
GoesOn(at) ==
  /\ at[1] < MaxDepth /\ FitsPrefix(Pattern[at[2]], at[3])
  /\ After(at) # <<>> =>
       \E c \in Range(Children[at[2]]) :
         /\ Leads[<<at[1] + 1, c, After(at)>>]
         /\ FirstLeading(at[1] + 1, Children[at[2]], After(at)) = <<c>>

\* Where the search succeeds, it ends or goes on from the first such child.
LEMMA LeadingGoesOn ==
  ASSUME NEW at \in Spots, Leads[at]
  PROVE  GoesOn(at)
<1>1. Succeeds(Leads, at)
  BY LeadsDefined
<1>2. at[1] < MaxDepth /\ FitsPrefix(Pattern[at[2]], at[3])
  BY <1>1 DEF Succeeds
<1>3. ASSUME After(at) # <<>>
      PROVE  \E c \in Range(Children[at[2]]) :
               /\ Leads[<<at[1] + 1, c, After(at)>>]
               /\ FirstLeading(at[1] + 1, Children[at[2]], After(at)) = <<c>>
  <2> DEFINE kids == Children[at[2]]
             good == {r \in Range(kids) : Leads[<<at[1] + 1, r, After(at)>>]}
  <2>1. \E c \in Range(kids) : c \in good
    BY <1>1, <1>3 DEF Succeeds, After
  <2>2. kids \in Seq(Route)
    BY RouteTreeAssumption DEF Spots
  <2>3. PICK c \in Range(kids) : c \in good /\ FirstIn(kids, good) = <<c>>
    <3> HIDE DEF good, kids
    <3> QED BY <2>1, <2>2, FirstFound
  <2> QED BY <2>3 DEF FirstLeading
<1> QED BY <1>2, <1>3 DEF GoesOn

\* Search is what its equation says, at every spot.
LEMMA SearchDefined ==
  /\ Search \in [Spots -> Seq(Route)]
  /\ \A at \in Spots : Search[at] = Chain(Search, at)
<1> DEFINE V == Seq(Route)
           Step == [f \in [Spots -> V] |-> [at \in Spots |-> Chain(f, at)]]
<1>1. ASSUME NEW at \in Spots, NEW f, NEW g, \A y \in Deeper[at] : f[y] = g[y]
      PROVE  Chain(f, at) = Chain(g, at)
  <2>1. CASE Leads[at] /\ After(at) # <<>>
    <3>1. PICK c \in Range(Children[at[2]]) :
            /\ at[1] < MaxDepth
            /\ FirstLeading(at[1] + 1, Children[at[2]], After(at)) = <<c>>
      BY <2>1, LeadingGoesOn DEF GoesOn
    <3>2. <<at[1] + 1, c, After(at)>> \in Deeper[at]
      BY <3>1 DEF Deeper
    <3>3. f[<<at[1] + 1, c, After(at)>>] = g[<<at[1] + 1, c, After(at)>>]
      BY <1>1, <3>2
    <3> QED BY <3>1, <3>3 DEF Chain, After
  <2>2. CASE ~Leads[at] \/ After(at) = <<>>
    BY <2>2 DEF Chain, After
  <2> QED BY <2>1, <2>2
<1>2. ASSUME NEW at \in Spots, NEW f, \A y \in Deeper[at] : f[y] \in V
      PROVE  Chain(f, at) \in V
  <2>1. at[2] \in Route /\ IndexChain[at[2]] \in V
    BY IndexChainDefined DEF Spots
  <2>2. CASE Leads[at] /\ After(at) # <<>>
    <3>1. PICK c \in Range(Children[at[2]]) :
            /\ at[1] < MaxDepth
            /\ FirstLeading(at[1] + 1, Children[at[2]], After(at)) = <<c>>
      BY <2>2, LeadingGoesOn DEF GoesOn
    <3>2. <<at[1] + 1, c, After(at)>> \in Deeper[at]
      BY <3>1 DEF Deeper
    <3>3. f[<<at[1] + 1, c, After(at)>>] \in V
      BY <1>2, <3>2
    <3>4. Chain(f, at) = <<at[2]>> \o f[<<at[1] + 1, c, After(at)>>]
      BY <2>2, <3>1 DEF Chain, After
    <3> QED BY <2>1, <3>3, <3>4
  <2>3. CASE Leads[at] /\ After(at) = <<>>
    <3>1. Chain(f, at) = <<at[2]>> \o IndexChain[at[2]]
      BY <2>3 DEF Chain, After
    <3> QED BY <2>1, <3>1
  <2>4. CASE ~Leads[at]
    BY <2>4 DEF Chain
  <2> QED BY <2>2, <2>3, <2>4
<1>3. \A at \in Spots : Deeper[at] \subseteq Spots
  BY DepthIsGrounded DEF Grounded
<1>4. Step \in [[Spots -> V] -> [Spots -> V]]
  <2> HIDE DEF V
  <2>1. ASSUME NEW f \in [Spots -> V], NEW at \in Spots PROVE Chain(f, at) \in V
    BY <1>2, <1>3
  <2> QED BY <2>1
<1>5. ASSUME NEW f \in [Spots -> V], NEW g \in [Spots -> V], NEW at \in Spots,
             \A y \in Deeper[at] : f[y] = g[y]
      PROVE  Step[f][at] = Step[g][at]
  <2>1. Chain(f, at) = Chain(g, at)
    BY <1>1, <1>5
  <2> HIDE DEF V
  <2> QED BY <2>1
<1>6. LooksBelow(Spots, V, Deeper, Step)
  <2> HIDE DEF V, Step
  <2> QED BY <1>4, <1>5 DEF LooksBelow
<1>7. PICK f \in [Spots -> V] : Step[f] = f
  <2>1. <<>> \in V
    OBVIOUS
  <2> HIDE DEF V, Step
  <2> QED BY <1>6, <2>1, DepthIsGrounded, Recursion
<1> DEFINE Equation(h) == h = [at \in Spots |-> Chain(h, at)]
<1>8. Equation(f)
  <2> HIDE DEF V
  <2> QED BY <1>7
<1>9. Search = CHOOSE h : Equation(h)
  BY DEF Search, Chain, Spots
<1>10. Equation(Search)
  <2> HIDE DEF Equation
  <2> QED BY <1>8, <1>9
<1>11. \A at \in Spots : Search[at] = Chain(Search, at)
  BY <1>10
<1> DEFINE T == {at \in Spots : Search[at] \in V}
<1>12. ASSUME NEW at \in Spots, Deeper[at] \subseteq T PROVE at \in T
  <2> HIDE DEF V
  <2>1. \A y \in Deeper[at] : Search[y] \in V
    BY <1>12
  <2>2. Chain(Search, at) \in V
    BY <1>2, <2>1
  <2> QED BY <1>11, <2>2
<1>13. Spots \subseteq T
  <2> HIDE DEF T
  <2> QED BY <1>12, DepthIsGrounded, FromBelow
<1>14. Search = [at \in Spots |-> Search[at]]
  BY <1>10
<1>15. Search \in [Spots -> V]
  <2> HIDE DEF V
  <2>1. \A at \in Spots : Search[at] \in V
    BY <1>13
  <2> QED BY <1>14, <2>1
<1> QED BY <1>11, <1>15

-----------------------------------------------------------------------------
(* The walk for hooks, and the search: the routes found are walked.        *)

\* Where a walk stands: the path, the patterns above a route, and the route.
Trails == Seq(Segment) \X Seq(Segment) \X Route

Full(at) == at[2] \o Pattern[at[3]]

Further == [at \in Trails |-> {<<at[1], Full(at), c>> : c \in Range(Children[at[3]])}]

LEMMA TrailBelow ==
  ASSUME NEW at \in Trails
  PROVE  /\ Full(at) \in Seq(Segment)
         /\ \A c \in Range(Children[at[3]]) : <<at[1], Full(at), c>> \in Trails
<1>1. at[1] \in Seq(Segment) /\ at[2] \in Seq(Segment) /\ at[3] \in Route
  BY DEF Trails
<1>2. Pattern[at[3]] \in Seq(Segment) /\ Children[at[3]] \in Seq(Route)
  BY <1>1, RouteTreeAssumption
<1>3. Full(at) \in Seq(Segment)
  BY <1>1, <1>2 DEF Full
<1>4. \A c \in Range(Children[at[3]]) : c \in Route
  BY <1>2 DEF Range
<1> QED BY <1>1, <1>3, <1>4 DEF Trails

\* A walk ends, because no route is below itself.
LEMMA FurtherIsGrounded == Grounded(Trails, Further)
<1>1. Further \in [Trails -> SUBSET Trails]
  BY TrailBelow DEF Further
<1>2. ASSUME NEW S \in SUBSET Trails, S # {}
      PROVE  \E at \in S : Further[at] \cap S = {}
  <2> DEFINE R == {at[3] : at \in S}
  <2>1. R \in SUBSET Route /\ R # {}
    BY <1>2 DEF Trails
  <2>2. PICK r \in R : Range(Children[r]) \cap R = {}
    <3> HIDE DEF R
    <3> QED BY <2>1, RouteTreeAssumption
  <2>3. PICK at \in S : at[3] = r
    OBVIOUS
  <2>4. ASSUME NEW b \in Further[at] PROVE b \notin S
    <3>1. at \in Trails
      OBVIOUS
    <3>2. b[3] \in Range(Children[r])
      BY <2>3, <3>1 DEF Further
    <3> QED BY <2>2, <3>2
  <2> QED BY <2>4
<1> QED BY <1>1, <1>2 DEF Grounded

\* The equation of Walk.
Visited(f, at) ==
  LET full == at[2] \o Pattern[at[3]] IN
  IF FitsPrefix(full, at[1])
    THEN {at[3]} \cup UNION {f[<<at[1], full, c>>] : c \in Range(Children[at[3]])}
    ELSE {}

\* Walk is what its equation says, on every trail.
LEMMA WalkDefined == \A at \in Trails : Walk[at] = Visited(Walk, at)
<1> DEFINE V == SUBSET Route
           Step == [f \in [Trails -> V] |-> [at \in Trails |-> Visited(f, at)]]
<1>1. ASSUME NEW f \in [Trails -> V], NEW at \in Trails PROVE Visited(f, at) \in V
  <2>1. \A c \in Range(Children[at[3]]) : f[<<at[1], Full(at), c>>] \in V
    BY TrailBelow
  <2>2. at[3] \in Route
    BY DEF Trails
  <2> QED BY <2>1, <2>2 DEF Visited, Full
<1>2. Step \in [[Trails -> V] -> [Trails -> V]]
  <2> HIDE DEF V
  <2> QED BY <1>1
<1>3. ASSUME NEW f \in [Trails -> V], NEW g \in [Trails -> V], NEW at \in Trails,
             \A y \in Further[at] : f[y] = g[y]
      PROVE  Step[f][at] = Step[g][at]
  <2>1. \A c \in Range(Children[at[3]]) :
          f[<<at[1], Full(at), c>>] = g[<<at[1], Full(at), c>>]
    BY <1>3 DEF Further
  <2>2. Visited(f, at) = Visited(g, at)
    BY <2>1 DEF Visited, Full
  <2> HIDE DEF V
  <2> QED BY <2>2
<1>4. LooksBelow(Trails, V, Further, Step)
  <2> HIDE DEF V, Step
  <2> QED BY <1>2, <1>3 DEF LooksBelow
<1>5. PICK f \in [Trails -> V] : Step[f] = f
  <2>1. {} \in V
    OBVIOUS
  <2> HIDE DEF V, Step
  <2> QED BY <1>4, <2>1, FurtherIsGrounded, Recursion
<1> DEFINE Equation(h) == h = [at \in Trails |-> Visited(h, at)]
<1>6. Equation(f)
  <2> HIDE DEF V
  <2> QED BY <1>5
<1>7. Walk = CHOOSE h : Equation(h)
  BY DEF Walk, Visited, Trails
<1>8. Equation(Walk)
  <2> HIDE DEF Equation
  <2> QED BY <1>6, <1>7
<1> QED BY <1>8

\* A walk visits a route it fits, and goes on to its children.
LEMMA WalkGoesOn ==
  ASSUME NEW at \in Trails, FitsPrefix(Full(at), at[1])
  PROVE  /\ at[3] \in Walk[at]
         /\ \A c \in Range(Children[at[3]]) : Walk[<<at[1], Full(at), c>>] \subseteq Walk[at]
<1>1. Walk[at] = {at[3]} \cup UNION {Walk[<<at[1], Full(at), c>>] : c \in Range(Children[at[3]])}
  BY WalkDefined DEF Visited, Full
<1> QED BY <1>1

\* The routes of a chain are in a set, but for a default child named `index'.
AmongOrIndex(chain, S) ==
  \A i \in DOMAIN chain : Pattern[chain[i]] = <<Index>> \/ chain[i] \in S

LEMMA AmongJoined ==
  ASSUME NEW r \in Route, NEW chain \in Seq(Route), NEW S, r \in S, AmongOrIndex(chain, S)
  PROVE  AmongOrIndex(<<r>> \o chain, S)
<1>1. /\ Len(<<r>> \o chain) = 1 + Len(chain)
      /\ (<<r>> \o chain)[1] = r
      /\ \A i \in 1..Len(chain) : (<<r>> \o chain)[1 + i] = chain[i]
      /\ DOMAIN (<<r>> \o chain) = 1..(1 + Len(chain))
  OBVIOUS
<1>2. ASSUME NEW i \in 1..(1 + Len(chain)), i # 1
      PROVE  i - 1 \in 1..Len(chain) /\ 1 + (i - 1) = i
  BY <1>2
<1> QED BY <1>1, <1>2 DEF AmongOrIndex

\* The default children of a route that a walk visits are visited too.
LEMMA DefaultsAreWalked ==
  ASSUME NEW path \in Seq(Segment)
  PROVE  \A r \in Route : \A above \in Seq(Segment) :
           FitsPrefix(above \o Pattern[r], path)
             => AmongOrIndex(IndexChain[r], Walk[<<path, above, r>>])
<1> DEFINE Good(r) == \A above \in Seq(Segment) :
                        FitsPrefix(above \o Pattern[r], path)
                          => AmongOrIndex(IndexChain[r], Walk[<<path, above, r>>])
           T == {r \in Route : Good(r)}
           B == [r \in Route |-> Range(Children[r])]
<1>1. ASSUME NEW r \in Route, B[r] \subseteq T PROVE Good(r)
  <2> SUFFICES ASSUME NEW above \in Seq(Segment), FitsPrefix(above \o Pattern[r], path)
               PROVE  AmongOrIndex(IndexChain[r], Walk[<<path, above, r>>])
    OBVIOUS
  <2> DEFINE at == <<path, above, r>>
             empty == FirstIn(Children[r], {x \in Route : Pattern[x] = <<>>})
             named == FirstIn(Children[r], {x \in Route : Pattern[x] = <<Index>>})
  <2>1. at \in Trails /\ at[1] = path /\ at[2] = above /\ at[3] = r
    BY DEF Trails
  <2>2. Full(at) = above \o Pattern[r] /\ FitsPrefix(Full(at), at[1])
    BY <2>1 DEF Full
  <2>3. Children[r] \in Seq(Route)
    BY RouteTreeAssumption
  <2>4. IndexChain[r] = IF empty = <<>> THEN named ELSE empty \o IndexChain[empty[1]]
    BY IndexChainDefined DEF Defaults
  <2> DEFINE Finds(seq, good) ==
               \/ FirstIn(seq, good) = <<>>
               \/ \E c \in Range(seq) : c \in good /\ FirstIn(seq, good) = <<c>>
  <2> HIDE DEF Finds
  <2>5. \A good : Finds(Children[r], good)
    BY <2>3, FirstFound DEF Finds
  <2>6. Range(Children[r]) \subseteq Route
    BY <2>3 DEF Range
  <2>7. CASE empty = <<>>
    <3>1. IndexChain[r] = named
      BY <2>4, <2>7
    <3>2. named = <<>> \/ \E c \in Range(Children[r]) : Pattern[c] = <<Index>> /\ named = <<c>>
      BY <2>5, <2>6 DEF Finds
    <3> HIDE DEF named
    <3> QED BY <3>1, <3>2 DEF AmongOrIndex
  <2>8. CASE empty # <<>>
    <3>1. PICK c \in Range(Children[r]) : c \in Route /\ Pattern[c] = <<>> /\ empty = <<c>>
      BY <2>5, <2>8, <2>6 DEF Finds
    <3>2. c \in Range(Children[at[3]]) /\ <<path, Full(at), c>> \in Trails
      BY <2>1, <3>1, TrailBelow
    <3>3. Full(<<path, Full(at), c>>) = Full(at)
      <4>1. Full(at) \in Seq(Segment)
        BY <2>1, TrailBelow
      <4>2. Full(at) \o <<>> = Full(at)
        BY <4>1
      <4> HIDE DEF at
      <4>3. Full(<<path, Full(at), c>>) = Full(at) \o Pattern[c]
        BY DEF Full
      <4> QED BY <3>1, <4>2, <4>3
    <3>4. c \in Walk[<<path, Full(at), c>>]
      BY <2>2, <3>2, <3>3, WalkGoesOn
    <3>5. Walk[<<path, Full(at), c>>] \subseteq Walk[at]
      BY <2>1, <2>2, <3>2, WalkGoesOn
    <3>6. AmongOrIndex(IndexChain[c], Walk[<<path, Full(at), c>>])
      <4>1. Good(c)
        BY <1>1, <3>1
      <4>2. Full(at) \in Seq(Segment) /\ FitsPrefix(Full(at) \o Pattern[c], path)
        BY <2>1, <2>2, <3>3, TrailBelow DEF Full
      <4> QED BY <4>1, <4>2
    <3>7. AmongOrIndex(IndexChain[c], Walk[at]) /\ c \in Walk[at] /\ IndexChain[c] \in Seq(Route)
      BY <3>1, <3>4, <3>5, <3>6, IndexChainDefined DEF AmongOrIndex
    <3>8. IndexChain[r] = <<c>> \o IndexChain[c]
      <4>1. IndexChain[r] = empty \o IndexChain[empty[1]]
        BY <2>4, <2>8
      <4> HIDE DEF empty
      <4> QED BY <3>1, <4>1
    <3> HIDE DEF at
    <3>9. AmongOrIndex(IndexChain[r], Walk[at])
      BY <3>1, <3>7, <3>8, AmongJoined
    <3> QED BY <3>9 DEF at
  <2> QED BY <2>7, <2>8
<1>2. Route \subseteq T
  <2>1. Grounded(Route, B)
    BY ChildrenAreGrounded
  <2>2. \A r \in Route : B[r] \subseteq T => r \in T
    BY <1>1
  <2> HIDE DEF T, B
  <2> QED BY <2>1, <2>2, FromBelow
<1> QED BY <1>2

\* The hooks of every route that the search goes through are met on the walk:
\* both have taken the same segments when they come to it.
LEMMA SearchIsWalked ==
  ASSUME NEW path \in Seq(Segment)
  PROVE  \A at \in Spots : \A above \in Seq(Segment) :
           FitsPrefix(above, path) /\ at[3] = From(path, Len(above) + 1)
             => AmongOrIndex(Search[at], Walk[<<path, above, at[2]>>])
<1> DEFINE Good(at) ==
             \A above \in Seq(Segment) :
               FitsPrefix(above, path) /\ at[3] = From(path, Len(above) + 1)
                 => AmongOrIndex(Search[at], Walk[<<path, above, at[2]>>])
           T == {at \in Spots : Good(at)}
<1>1. ASSUME NEW at \in Spots, Deeper[at] \subseteq T PROVE Good(at)
  <2> SUFFICES ASSUME NEW above \in Seq(Segment), FitsPrefix(above, path),
                      at[3] = From(path, Len(above) + 1)
               PROVE  AmongOrIndex(Search[at], Walk[<<path, above, at[2]>>])
    OBVIOUS
  <2> DEFINE r == at[2]
             on == <<path, above, r>>
             full == above \o Pattern[r]
  <2>1. /\ r \in Route /\ Pattern[r] \in Seq(Segment)
        /\ on \in Trails /\ on[1] = path /\ on[3] = r /\ Full(on) = full
    BY RouteTreeAssumption DEF Spots, Trails, Full
  <2>2. CASE ~Leads[at]
    <3>1. Search[at] = <<>>
      BY <2>2, SearchDefined DEF Chain
    <3> QED BY <3>1 DEF AmongOrIndex
  <2>3. CASE Leads[at]
    <3>1. GoesOn(at)
      BY <2>3, LeadingGoesOn
    <3>2. FitsPrefix(Pattern[r], From(path, Len(above) + 1))
      BY <3>1 DEF GoesOn
    <3>3. /\ FitsPrefix(full, path)
          /\ From(path, Len(full) + 1) = After(at)
      <4>1. From(path, Len(full) + 1) = From(From(path, Len(above) + 1), Len(Pattern[r]) + 1)
        BY <2>1, <3>2, FitsOn
      <4>2. FitsPrefix(full, path)
        BY <2>1, <3>2, FitsOn
      <4> QED BY <4>1, <4>2 DEF After
    <3>4. full \in Seq(Segment)
      BY <2>1
    <3> HIDE DEF full, on
    <3>5. r \in Walk[on] /\ \A c \in Range(Children[r]) : Walk[<<path, full, c>>] \subseteq Walk[on]
      BY <2>1, <3>3, WalkGoesOn
    <3>6. CASE After(at) = <<>>
      <4>1. Search[at] = <<r>> \o IndexChain[r]
        BY <2>3, <3>6, SearchDefined DEF Chain, After
      <4>2. AmongOrIndex(IndexChain[r], Walk[on])
        BY <2>1, <3>3, DefaultsAreWalked DEF on, full
      <4>3. IndexChain[r] \in Seq(Route)
        BY <2>1, IndexChainDefined
      <4> HIDE DEF r
      <4>4. AmongOrIndex(Search[at], Walk[on])
        BY <2>1, <3>5, <4>1, <4>2, <4>3, AmongJoined
      <4> QED BY <4>4 DEF on, r
    <3>7. CASE After(at) # <<>>
      <4>1. PICK c \in Range(Children[r]) :
              /\ at[1] < MaxDepth
              /\ FirstLeading(at[1] + 1, Children[r], After(at)) = <<c>>
        BY <3>1, <3>7 DEF GoesOn
      <4> DEFINE next == <<at[1] + 1, c, After(at)>>
      <4>2. next \in Deeper[at] /\ next \in Spots
        BY <4>1, SpotBelow DEF Deeper
      <4>3. Search[at] = <<r>> \o Search[next]
        <5> DEFINE at1 == FirstLeading(at[1] + 1, Children[r], After(at))
        <5>1. Search[at] = Chain(Search, at)
          BY SearchDefined
        <5>2. Chain(Search, at) = <<r>> \o Search[<<at[1] + 1, at1[1], After(at)>>]
          BY <2>3, <3>7 DEF Chain, After
        <5>3. at1[1] = c
          BY <4>1
        <5> QED BY <5>1, <5>2, <5>3
      <4>4. Search[next] \in Seq(Route)
        <5> HIDE DEF next
        <5> QED BY <4>2, SearchDefined
      <4>5. AmongOrIndex(Search[next], Walk[<<path, full, c>>])
        <5>1. next[3] = After(at) /\ next[2] = c /\ Good(next)
          <6>1. next[3] = After(at) /\ next[2] = c
            OBVIOUS
          <6> HIDE DEF next, Good
          <6> QED BY <1>1, <4>2, <6>1
        <5> HIDE DEF next
        <5> QED BY <3>3, <3>4, <5>1
      <4>6. AmongOrIndex(Search[next], Walk[on])
        BY <3>5, <4>5 DEF AmongOrIndex
      <4> HIDE DEF r, next
      <4>7. AmongOrIndex(Search[at], Walk[on])
        BY <2>1, <3>5, <4>3, <4>4, <4>6, AmongJoined
      <4> QED BY <4>7 DEF on, r
    <3> QED BY <3>6, <3>7
  <2> QED BY <2>2, <2>3
<1>2. \A at \in Spots : Deeper[at] \subseteq T => at \in T
  BY <1>1
<1>3. Spots \subseteq T
  <2> HIDE DEF T
  <2> QED BY <1>2, DepthIsGrounded, FromBelow
<1> QED BY <1>3

\* The routes that a path resolves to are routes whose guards are asked, but
\* for a default child named `index'.
LEMMA ResolvedAreWalked ==
  ASSUME NEW routes \in Seq(Route), NEW path \in Seq(Segment)
  PROVE  AmongOrIndex(Resolve(routes, path), Walked(routes, path))
<1> DEFINE first == FirstLeading(0, routes, path)
<1>1. CASE first = <<>>
  BY <1>1 DEF Resolve, ChainFrom, AmongOrIndex
<1>2. CASE first # <<>>
  <2>1. PICK r \in Range(routes) : first = <<r>>
    BY <1>2, FirstFound DEF FirstLeading
  <2> DEFINE at == <<0, r, path>>
  <2>2. Resolve(routes, path) = Search[at]
    <3>1. Resolve(routes, path) = Search[<<0, first[1], path>>]
      BY <1>2 DEF Resolve, ChainFrom
    <3> HIDE DEF first
    <3> QED BY <2>1, <3>1
  <2>3. r \in Route
    BY DEF Range
  <2>4. at \in Spots /\ at[2] = r /\ at[3] = path
    BY <2>3 DEF Spots
  <2>5. <<>> \in Seq(Segment) /\ FitsPrefix(<<>>, path) /\ path = From(path, Len(<<>>) + 1)
    <3>1. Len(path) \in Nat /\ path = SubSeq(path, 1, Len(path)) /\ Len(<<>>) + 1 = 1
      OBVIOUS
    <3> QED BY <3>1 DEF FitsPrefix, From
  <2> HIDE DEF at
  <2>6. AmongOrIndex(Search[at], Walk[<<path, <<>>, r>>])
    BY <2>4, <2>5, SearchIsWalked
  <2>7. Walk[<<path, <<>>, r>>] \subseteq Walked(routes, path)
    BY DEF Walked
  <2> QED BY <2>2, <2>6, <2>7 DEF AmongOrIndex
<1> QED BY <1>1, <1>2

-----------------------------------------------------------------------------
(* The lineages of a path, and the search: it finds one if there is one.   *)

\* A chain without its first route, and what makes that smaller.
Shorter == [chain \in Seq(Route) |-> IF chain = <<>> THEN {} ELSE {Tail(chain)}]

LEMMA ShorterIsGrounded == Grounded(Seq(Route), Shorter)
<1>1. ASSUME NEW c \in Seq(Route), c # <<>>
      PROVE  Tail(c) \in Seq(Route) /\ Len(Tail(c)) < Len(c)
  BY <1>1
<1>2. Shorter \in [Seq(Route) -> SUBSET Seq(Route)]
  BY <1>1 DEF Shorter
<1>3. ASSUME NEW S \in SUBSET Seq(Route), S # {}
      PROVE  \E c \in S : Shorter[c] \cap S = {}
  <2> DEFINE K == {Len(c) : c \in S}
  <2>1. K \in SUBSET Nat /\ K # {}
    <3>1. \A c \in S : Len(c) \in Nat
      OBVIOUS
    <3> QED BY <1>3, <3>1
  <2>2. PICK n \in K : \A m \in K : n <= m
    <3> HIDE DEF K
    <3> QED BY <2>1, SmallestNat
  <2>3. PICK c \in S : Len(c) = n
    OBVIOUS
  <2>4. ASSUME NEW b \in Shorter[c] PROVE b \notin S
    <3>1. c \in Seq(Route) /\ c # <<>> /\ b = Tail(c)
      BY DEF Shorter
    <3>2. b \in Seq(Route) /\ Len(b) < n /\ Len(b) \in Nat /\ n \in Nat
      BY <1>1, <2>3, <3>1
    <3>3. ~(n <= Len(b))
      BY <3>2
    <3> HIDE DEF K
    <3>4. Len(b) \notin K
      BY <2>2, <3>3
    <3> QED BY <3>4 DEF K
  <2> QED BY <2>4
<1> QED BY <1>2, <1>3 DEF Grounded

\* The equation of FullPattern.
EndToEnd(f, chain) ==
  IF chain = <<>> THEN <<>> ELSE Pattern[Head(chain)] \o f[Tail(chain)]

\* FullPattern is what its equation says, for every chain.
LEMMA FullPatternDefined ==
  /\ FullPattern \in [Seq(Route) -> Seq(Segment)]
  /\ \A chain \in Seq(Route) : FullPattern[chain] = EndToEnd(FullPattern, chain)
<1> DEFINE D == Seq(Route)  V == Seq(Segment)
           Step == [f \in [D -> V] |-> [c \in D |-> EndToEnd(f, c)]]
<1>1. ASSUME NEW f, NEW c \in D, \A y \in Shorter[c] : f[y] \in V
      PROVE  EndToEnd(f, c) \in V
  <2>1. CASE c = <<>>
    BY <2>1 DEF EndToEnd
  <2>2. CASE c # <<>>
    <3>1. Head(c) \in Route
      BY <2>2
    <3>2. f[Tail(c)] \in V
      <4> HIDE DEF V
      <4> QED BY <1>1, <2>2 DEF Shorter
    <3>3. Pattern[Head(c)] \in V
      BY <3>1, RouteTreeAssumption
    <3> QED BY <2>2, <3>2, <3>3 DEF EndToEnd
  <2> QED BY <2>1, <2>2
<1>2. Step \in [[D -> V] -> [D -> V]]
  <2>1. ASSUME NEW f \in [D -> V], NEW c \in D PROVE EndToEnd(f, c) \in V
    <3>1. Shorter[c] \subseteq D
      BY ShorterIsGrounded DEF Grounded
    <3> HIDE DEF D, V
    <3> QED BY <1>1, <3>1
  <2> HIDE DEF D, V
  <2> QED BY <2>1
<1>3. ASSUME NEW f \in [D -> V], NEW g \in [D -> V], NEW c \in D,
             \A y \in Shorter[c] : f[y] = g[y]
      PROVE  Step[f][c] = Step[g][c]
  <2>1. EndToEnd(f, c) = EndToEnd(g, c)
    BY <1>3 DEF EndToEnd, Shorter
  <2> HIDE DEF D, V
  <2> QED BY <2>1
<1>4. Grounded(D, Shorter)
  BY ShorterIsGrounded
<1>5. LooksBelow(D, V, Shorter, Step)
  <2> HIDE DEF D, V, Step
  <2> QED BY <1>2, <1>3 DEF LooksBelow
<1>6. PICK f \in [D -> V] : Step[f] = f
  <2>1. <<>> \in V
    OBVIOUS
  <2> HIDE DEF D, V, Step
  <2> QED BY <1>4, <1>5, <2>1, Recursion
<1> DEFINE Equation(h) == h = [c \in Seq(Route) |-> EndToEnd(h, c)]
<1>7. Equation(f)
  <2> HIDE DEF V
  <2> QED BY <1>6
<1>8. FullPattern = CHOOSE h : Equation(h)
  BY DEF FullPattern, EndToEnd
<1>9. Equation(FullPattern)
  <2> HIDE DEF Equation
  <2> QED BY <1>7, <1>8
<1>10. \A c \in D : FullPattern[c] = EndToEnd(FullPattern, c)
  BY <1>9
<1> DEFINE T == {c \in D : FullPattern[c] \in V}
<1>11. ASSUME NEW c \in D, Shorter[c] \subseteq T PROVE c \in T
  <2>1. \A y \in Shorter[c] : FullPattern[y] \in V
    BY <1>11
  <2> HIDE DEF D, V
  <2> QED BY <1>1, <1>10, <2>1
<1>12. D \subseteq T
  <2> HIDE DEF D, T
  <2> QED BY <1>4, <1>11, FromBelow
<1>13. FullPattern = [c \in D |-> FullPattern[c]]
  BY <1>9
<1>14. FullPattern \in [D -> V]
  <2>1. \A c \in D : FullPattern[c] \in V
    BY <1>12
  <2> HIDE DEF D, V
  <2> QED BY <1>13, <2>1
<1> QED BY <1>10, <1>14

\* The numbers of routes in a lineage.
Fewer == [n \in Nat |-> IF n = 0 THEN {} ELSE {n - 1}]

LEMMA FewerIsGrounded == Grounded(Nat, Fewer)
<1>1. Fewer \in [Nat -> SUBSET Nat]
  BY DEF Fewer
<1>2. ASSUME NEW S \in SUBSET Nat, S # {} PROVE \E n \in S : Fewer[n] \cap S = {}
  <2>1. PICK n \in S : \A m \in S : n <= m
    BY <1>2, SmallestNat
  <2>2. ASSUME NEW b \in Fewer[n] PROVE b \notin S
    <3>1. b = n - 1 /\ n \in Nat
      BY DEF Fewer
    <3> QED BY <2>1, <3>1
  <2> QED BY <2>2
<1> QED BY <1>1, <1>2 DEF Grounded

\* A route, or a route before a chain that begins with a child of it.
Lengthened(chains) ==
  {<<r>> : r \in Route}
    \cup UNION {{<<r>> \o c : c \in {d \in chains : d[1] \in Range(Children[r])}}
                 : r \in Route}

\* The equation of LineagesTo.
UpTo(f, n) == IF n = 0 THEN {} ELSE Lengthened(f[n - 1])

\* LineagesTo is what its equation says, for every length.
LEMMA LineagesDefined ==
  /\ LineagesTo \in [Nat -> SUBSET (Seq(Route) \ {<<>>})]
  /\ \A n \in Nat : LineagesTo[n] = UpTo(LineagesTo, n)
<1> DEFINE V == SUBSET (Seq(Route) \ {<<>>})
           Step == [f \in [Nat -> V] |-> [n \in Nat |-> UpTo(f, n)]]
<1>1. ASSUME NEW f, NEW n \in Nat, \A y \in Fewer[n] : f[y] \in V
      PROVE  UpTo(f, n) \in V
  <2>1. CASE n = 0
    BY <2>1 DEF UpTo, Lengthened
  <2>2. CASE n # 0
    <3>1. f[n - 1] \in V
      BY <1>1, <2>2 DEF Fewer
    <3>2. ASSUME NEW r \in Route, NEW c \in f[n - 1]
          PROVE  <<r>> \o c \in Seq(Route) /\ <<r>> \o c # <<>>
      <4>1. c \in Seq(Route)
        BY <3>1
      <4> QED BY <4>1
    <3>3. ASSUME NEW x \in UpTo(f, n) PROVE x \in Seq(Route) /\ x # <<>>
      <4>1. CASE \E r \in Route : x = <<r>>
        BY <4>1
      <4>2. CASE \E r \in Route : \E c \in f[n - 1] : x = <<r>> \o c
        BY <3>2, <4>2
      <4> QED BY <2>2, <4>1, <4>2 DEF UpTo, Lengthened
    <3> QED BY <3>3
  <2> QED BY <2>1, <2>2
<1>2. Step \in [[Nat -> V] -> [Nat -> V]]
  <2>1. ASSUME NEW f \in [Nat -> V], NEW n \in Nat PROVE UpTo(f, n) \in V
    <3>1. Fewer[n] \subseteq Nat
      BY FewerIsGrounded DEF Grounded
    <3> HIDE DEF V
    <3> QED BY <1>1, <3>1
  <2> HIDE DEF V
  <2> QED BY <2>1
<1>3. ASSUME NEW f \in [Nat -> V], NEW g \in [Nat -> V], NEW n \in Nat,
             \A y \in Fewer[n] : f[y] = g[y]
      PROVE  Step[f][n] = Step[g][n]
  <2>1. n # 0 => f[n - 1] = g[n - 1]
    BY <1>3 DEF Fewer
  <2>2. UpTo(f, n) = UpTo(g, n)
    <3>1. CASE n = 0
      BY <3>1 DEF UpTo, Lengthened
    <3>2. CASE n # 0
      <4> HIDE DEF V
      <4>1. f[n - 1] = g[n - 1]
        BY <2>1, <3>2
      <4> QED BY <4>1 DEF UpTo
    <3> QED BY <3>1, <3>2
  <2> HIDE DEF V
  <2> QED BY <2>2
<1>4. LooksBelow(Nat, V, Fewer, Step)
  <2> HIDE DEF V, Step
  <2> QED BY <1>2, <1>3 DEF LooksBelow
<1>5. PICK f \in [Nat -> V] : Step[f] = f
  <2>1. {} \in V
    OBVIOUS
  <2> HIDE DEF V, Step
  <2> QED BY <1>4, <2>1, FewerIsGrounded, Recursion
<1> DEFINE Equation(h) == h = [n \in Nat |-> UpTo(h, n)]
<1>6. Equation(f)
  <2> HIDE DEF V
  <2> QED BY <1>5
<1>7. LineagesTo = CHOOSE h : Equation(h)
  BY DEF LineagesTo, UpTo, Lengthened
<1>8. Equation(LineagesTo)
  <2> HIDE DEF Equation
  <2> QED BY <1>6, <1>7
<1>9. \A n \in Nat : LineagesTo[n] = UpTo(LineagesTo, n)
  BY <1>8
<1> DEFINE T == {n \in Nat : LineagesTo[n] \in V}
<1>10. ASSUME NEW n \in Nat, Fewer[n] \subseteq T PROVE n \in T
  <2>1. \A y \in Fewer[n] : LineagesTo[y] \in V
    BY <1>10
  <2> HIDE DEF V
  <2> QED BY <1>1, <1>9, <2>1
<1>11. Nat \subseteq T
  <2> HIDE DEF T
  <2> QED BY <1>10, FewerIsGrounded, FromBelow
<1>12. LineagesTo = [n \in Nat |-> LineagesTo[n]]
  BY <1>8
<1>13. LineagesTo \in [Nat -> V]
  <2>1. \A n \in Nat : LineagesTo[n] \in V
    BY <1>11
  <2> HIDE DEF V
  <2> QED BY <1>12, <2>1
<1> QED BY <1>9, <1>13

\* A pattern in two parts fits a path part by part.
LEMMA FitsApart ==
  ASSUME NEW above \in Seq(Segment), NEW pattern \in Seq(Segment),
         NEW path \in Seq(Segment), FitsPrefix(above \o pattern, path)
  PROVE  FitsPrefix(above, path) /\ FitsPrefix(pattern, From(path, Len(above) + 1))
<1> DEFINE a == Len(above)  b == Len(pattern)  l == Len(path)
           rest == From(path, a + 1)  full == above \o pattern
<1>1. a \in Nat /\ b \in Nat /\ l \in Nat
  OBVIOUS
<1>2. /\ full \in Seq(Segment) /\ Len(full) = a + b /\ DOMAIN full = 1..(a + b)
      /\ \A i \in 1..a : full[i] = above[i]
      /\ \A i \in 1..b : full[a + i] = pattern[i]
  BY ConcatProperties
<1>3. a + b <= l /\ \A i \in 1..(a + b) : full[i] \in Params \/ full[i] = path[i]
  BY <1>2 DEF FitsPrefix
<1>4. DOMAIN above = 1..a /\ DOMAIN pattern = 1..b
  OBVIOUS
<1>5. /\ rest \in Seq(Segment) /\ Len(rest) = l - a
      /\ \A i \in 1..(l - a) : rest[i] = path[a + i]
  <2>1. a <= Len(path)
    BY <1>1, <1>3
  <2> QED BY <1>1, <2>1, Remaining
<1> HIDE DEF a, b, l, rest, full
<1>6. ASSUME NEW i \in 1..a PROVE above[i] \in Params \/ above[i] = path[i]
  <2>1. i \in 1..(a + b)
    BY <1>1
  <2> QED BY <1>2, <1>3, <2>1
<1>7. ASSUME NEW i \in 1..b PROVE pattern[i] \in Params \/ pattern[i] = rest[i]
  <2>1. a + i \in 1..(a + b) /\ i \in 1..(l - a)
    BY <1>1, <1>3
  <2> QED BY <1>2, <1>3, <1>5, <2>1
<1>8. a <= l /\ b <= l - a
  BY <1>1, <1>3
<1>9. FitsPrefix(above, path)
  BY <1>4, <1>6, <1>8 DEF FitsPrefix, a, l
<1>10. FitsPrefix(pattern, rest)
  BY <1>4, <1>5, <1>7, <1>8 DEF FitsPrefix, b
<1> QED BY <1>9, <1>10 DEF rest, a

\* The chain reaches the path's end if its first route takes the first segments
\* and the others reach the end of the rest.
LEMMA ReachesOn ==
  ASSUME NEW r \in Route, NEW c \in Seq(Route), NEW path \in Seq(Segment)
  PROVE  Reaches(<<r>> \o c, path)
           <=> /\ FitsPrefix(Pattern[r], path)
               /\ Reaches(c, From(path, Len(Pattern[r]) + 1))
<1> DEFINE p == Pattern[r]  f == FullPattern[c]  full == FullPattern[<<r>> \o c]
           rest == From(path, Len(p) + 1)
<1>1. p \in Seq(Segment) /\ f \in Seq(Segment)
  BY RouteTreeAssumption, FullPatternDefined
<1>2. full = p \o f
  <2>1. <<r>> \o c \in Seq(Route) /\ <<r>> \o c # <<>>
    OBVIOUS
  <2>2. Head(<<r>> \o c) = r /\ Tail(<<r>> \o c) = c
    OBVIOUS
  <2> QED BY <2>1, <2>2, FullPatternDefined DEF EndToEnd
<1> HIDE DEF p, f, full
<1>3. Len(full) = Len(p) + Len(f) /\ Len(p) \in Nat /\ Len(f) \in Nat /\ Len(path) \in Nat
  BY <1>1, <1>2
<1>4. ASSUME FitsPrefix(p, path) PROVE Len(rest) = Len(path) - Len(p)
  <2>1. Len(p) <= Len(path)
    BY <1>4 DEF FitsPrefix
  <2> QED BY <1>3, <2>1, Remaining
<1>5. ASSUME Len(full) = Len(path), FitsPrefix(full, path)
      PROVE  FitsPrefix(p, path) /\ Len(f) = Len(rest) /\ FitsPrefix(f, rest)
  <2>1. FitsPrefix(p, path) /\ FitsPrefix(f, rest)
    BY <1>1, <1>2, <1>5, FitsApart
  <2> HIDE DEF rest
  <2> QED BY <1>3, <1>4, <1>5, <2>1
<1>6. ASSUME FitsPrefix(p, path), Len(f) = Len(rest), FitsPrefix(f, rest)
      PROVE  Len(full) = Len(path) /\ FitsPrefix(full, path)
  <2>1. FitsPrefix(full, path)
    BY <1>1, <1>2, <1>6, FitsOn
  <2> HIDE DEF rest
  <2> QED BY <1>3, <1>4, <1>6, <2>1
<1> QED BY <1>5, <1>6 DEF Reaches, p, f, full

\* A route alone reaches the end of a path that its pattern exhausts.
LEMMA ReachesAlone ==
  ASSUME NEW r \in Route, NEW path \in Seq(Segment)
  PROVE  Reaches(<<r>>, path)
           <=> FitsPrefix(Pattern[r], path) /\ From(path, Len(Pattern[r]) + 1) = <<>>
<1> DEFINE rest == From(path, Len(Pattern[r]) + 1)
<1>1. Pattern[r] \in Seq(Segment) /\ Len(Pattern[r]) \in Nat
  BY RouteTreeAssumption
<1>2. rest \in Seq(Segment)
  BY <1>1, Remaining
<1>3. <<r>> = <<r>> \o <<>> /\ <<>> \in Seq(Route)
  OBVIOUS
<1>4. FullPattern[<<>>] = <<>>
  BY <1>3, FullPatternDefined DEF EndToEnd
<1> HIDE DEF rest
<1>5. Reaches(<<>>, rest) <=> rest = <<>>
  BY <1>2, <1>4 DEF Reaches, FitsPrefix
<1>6. Reaches(<<r>> \o <<>>, path) <=> FitsPrefix(Pattern[r], path) /\ Reaches(<<>>, rest)
  BY <1>3, ReachesOn DEF rest
<1> QED BY <1>3, <1>5, <1>6 DEF rest

\* The lineages of at most n routes, from their first one on.
LEMMA LineageParts ==
  ASSUME NEW n \in Nat \ {0}
  PROVE  /\ LineagesTo[n - 1] \subseteq Seq(Route) \ {<<>>}
         /\ \A r \in Route : <<r>> \in LineagesTo[n]
         /\ \A r \in Route : \A c \in LineagesTo[n - 1] :
              c[1] \in Range(Children[r]) => <<r>> \o c \in LineagesTo[n]
         /\ \A d \in LineagesTo[n] :
              \/ \E r \in Route : d = <<r>>
              \/ \E r \in Route : \E c \in LineagesTo[n - 1] :
                   c[1] \in Range(Children[r]) /\ d = <<r>> \o c
<1>1. n \in Nat /\ n - 1 \in Nat /\ n # 0
  OBVIOUS
<1>2. LineagesTo[n] = Lengthened(LineagesTo[n - 1])
  BY <1>1, LineagesDefined DEF UpTo
<1> DEFINE L == LineagesTo[n - 1]
<1>3. L \subseteq Seq(Route) \ {<<>>}
  BY <1>1, LineagesDefined
<1> HIDE DEF L
<1>4. /\ \A r \in Route : <<r>> \in Lengthened(L)
      /\ \A r \in Route : \A c \in L : c[1] \in Range(Children[r]) => <<r>> \o c \in Lengthened(L)
  BY DEF Lengthened
<1>5. ASSUME NEW d \in Lengthened(L)
      PROVE  \/ \E r \in Route : d = <<r>>
             \/ \E r \in Route : \E c \in L : c[1] \in Range(Children[r]) /\ d = <<r>> \o c
  BY DEF Lengthened
<1> QED BY <1>2, <1>3, <1>4, <1>5 DEF L

\* A chain of routes that the path deserves, from a spot on.
HasLineage(at) ==
  \E c \in LineagesTo[MaxDepth - at[1]] : c[1] = at[2] /\ Reaches(c, at[3])

\* The search succeeds where there is a lineage, and only there.
LEMMA LeadsIsComplete ==
  \A at \in Spots : at[1] <= MaxDepth => (Leads[at] <=> HasLineage(at))
<1> DEFINE T == {at \in Spots : at[1] <= MaxDepth => (Leads[at] <=> HasLineage(at))}
<1>1. ASSUME NEW at \in Spots, Deeper[at] \subseteq T, at[1] <= MaxDepth
      PROVE  Leads[at] <=> HasLineage(at)
  <2> DEFINE d == at[1]  r == at[2]  p == at[3]  n == MaxDepth - d
  <2>1. d \in Nat /\ r \in Route /\ p \in Seq(Segment) /\ MaxDepth \in Nat
    BY RouteTreeAssumption DEF Spots
  <2>2. CASE d = MaxDepth
    <3>1. ~Leads[at]
      <4>1. ~(at[1] < MaxDepth)
        BY <2>1, <2>2
      <4>2. Leads[at] = Succeeds(Leads, at)
        BY LeadsDefined
      <4> QED BY <4>1, <4>2, Zenon DEF Succeeds
    <3>2. n = 0
      BY <2>1, <2>2
    <3>3. LineagesTo[n] = {}
      BY <3>2, LineagesDefined DEF UpTo
    <3> QED BY <3>1, <3>3 DEF HasLineage
  <2>3. CASE d < MaxDepth
    <3>1. n \in Nat \ {0} /\ MaxDepth - (d + 1) = n - 1 /\ d + 1 <= MaxDepth
      BY <2>1, <2>3
    <3>2. After(at) \in Seq(Segment)
      <4>1. Pattern[r] \in Seq(Segment) /\ Len(Pattern[r]) \in Nat
        BY <2>1, RouteTreeAssumption
      <4> QED BY <2>1, <4>1, Remaining DEF After
    <3>3. ASSUME NEW c \in Range(Children[r])
          PROVE  Leads[<<d + 1, c, After(at)>>]
                   <=> \E e \in LineagesTo[n - 1] : e[1] = c /\ Reaches(e, After(at))
      <4> DEFINE s == <<d + 1, c, After(at)>>
      <4>1. s \in Deeper[at]
        BY <2>3 DEF Deeper
      <4>2. s \in T /\ s[1] = d + 1 /\ s[2] = c /\ s[3] = After(at)
        BY <1>1, <4>1
      <4> HIDE DEF s
      <4>3. Leads[s] <=> HasLineage(s)
        BY <3>1, <4>2
      <4>4. HasLineage(s) <=> \E e \in LineagesTo[n - 1] : e[1] = c /\ Reaches(e, After(at))
        BY <3>1, <4>2, Zenon DEF HasLineage
      <4> QED BY <4>3, <4>4 DEF s
    <3>4. ASSUME Leads[at] PROVE HasLineage(at)
      <4>1. GoesOn(at)
        BY <3>4, LeadingGoesOn
      <4>2. CASE After(at) = <<>>
        <5>1. Reaches(<<r>>, p)
          BY <2>1, <4>1, <4>2, ReachesAlone DEF GoesOn, After
        <5>2. <<r>> \in LineagesTo[n] /\ <<r>>[1] = r
          BY <2>1, <3>1, LineageParts
        <5> QED BY <5>1, <5>2 DEF HasLineage
      <4>3. CASE After(at) # <<>>
        <5>1. PICK c \in Range(Children[r]) : Leads[<<d + 1, c, After(at)>>]
          BY <4>1, <4>3 DEF GoesOn
        <5>2. PICK e \in LineagesTo[n - 1] : e[1] = c /\ Reaches(e, After(at))
          BY <3>3, <5>1
        <5>3. e \in Seq(Route) /\ <<r>> \o e \in LineagesTo[n]
          BY <2>1, <3>1, <5>2, LineageParts
        <5>4. Reaches(<<r>> \o e, p)
          BY <2>1, <4>1, <5>2, <5>3, ReachesOn DEF GoesOn, After
        <5>5. (<<r>> \o e)[1] = r
          BY <5>3
        <5> QED BY <5>3, <5>4, <5>5 DEF HasLineage
      <4> QED BY <4>2, <4>3
    <3>5. ASSUME HasLineage(at) PROVE Leads[at]
      <4>1. PICK e \in LineagesTo[n] : e[1] = r /\ Reaches(e, p)
        BY <3>5 DEF HasLineage
      <4>2. CASE \E x \in Route : e = <<x>>
        <5>1. e = <<r>>
          BY <4>1, <4>2
        <5>2. FitsPrefix(Pattern[r], p) /\ After(at) = <<>>
          BY <2>1, <4>1, <5>1, ReachesAlone DEF After
        <5>3. Succeeds(Leads, at)
          BY <2>3, <5>2 DEF Succeeds, After
        <5> QED BY <5>3, LeadsDefined
      <4>3. CASE \E x \in Route : \E c \in LineagesTo[n - 1] :
                   c[1] \in Range(Children[x]) /\ e = <<x>> \o c
        <5>1. PICK c \in LineagesTo[n - 1] : c[1] \in Range(Children[r]) /\ e = <<r>> \o c
          <6>1. PICK x \in Route, c \in LineagesTo[n - 1] :
                  c[1] \in Range(Children[x]) /\ e = <<x>> \o c
            BY <4>3
          <6>2. c \in Seq(Route)
            BY <3>1, LineageParts
          <6>3. (<<x>> \o c)[1] = x
            BY <6>2
          <6> QED BY <4>1, <6>1, <6>3
        <5>2. c \in Seq(Route)
          BY <3>1, LineageParts
        <5>3. FitsPrefix(Pattern[r], p) /\ Reaches(c, After(at))
          BY <2>1, <4>1, <5>1, <5>2, ReachesOn DEF After
        <5>4. Leads[<<d + 1, c[1], After(at)>>]
          BY <3>3, <5>1, <5>3
        <5>5. Succeeds(Leads, at)
          BY <2>3, <5>1, <5>3, <5>4 DEF Succeeds, After
        <5> QED BY <5>5, LeadsDefined
      <4> QED BY <2>1, <3>1, <4>2, <4>3, LineageParts
    <3> QED BY <3>4, <3>5
  <2> QED BY <1>1, <2>1, <2>2, <2>3
<1>2. \A at \in Spots : Deeper[at] \subseteq T => at \in T
  BY <1>1
<1>3. Spots \subseteq T
  <2> HIDE DEF T
  <2> QED BY <1>2, DepthIsGrounded, FromBelow
<1> QED BY <1>3

\* A chain begins with a route and goes from parent to child.
Descent(r, chain) ==
  chain \in Seq(Route) /\ chain # <<>> /\ chain[1] = r /\ IsLineage(chain)

\* A route before a descent from a child of it is a descent.
LEMMA DescentOn ==
  ASSUME NEW r \in Route, NEW c \in Range(Children[r]), NEW chain, Descent(c, chain)
  PROVE  Descent(r, <<r>> \o chain)
<1> DEFINE on == <<r>> \o chain
<1>1. chain \in Seq(Route) /\ Len(chain) \in Nat /\ Len(chain) > 0
  BY DEF Descent
<1>2. /\ on \in Seq(Route) /\ on # <<>> /\ Len(on) = Len(chain) + 1 /\ on[1] = r
      /\ \A i \in 1..Len(chain) : on[i + 1] = chain[i]
  BY <1>1
<1> HIDE DEF on
<1>3. ASSUME NEW i \in 1..(Len(on) - 1)
      PROVE  on[i + 1] \in Range(Children[on[i]])
  <2>1. i \in 1..Len(chain) /\ on[i + 1] = chain[i]
    BY <1>1, <1>2
  <2>2. CASE i = 1
    BY <1>2, <2>1, <2>2 DEF Descent
  <2>3. CASE i # 1
    <3>1. i - 1 \in 1..Len(chain) /\ (i - 1) + 1 = i /\ i - 1 \in 1..(Len(chain) - 1)
      BY <1>1, <2>1, <2>3
    <3>2. on[i] = chain[i - 1]
      BY <1>2, <3>1
    <3>3. chain[(i - 1) + 1] \in Range(Children[chain[i - 1]])
      BY <3>1 DEF Descent, IsLineage
    <3> QED BY <2>1, <3>1, <3>2, <3>3
  <2> QED BY <2>2, <2>3
<1>4. IsLineage(on)
  BY <1>3 DEF IsLineage
<1>5. Descent(r, on)
  BY <1>2, <1>4 DEF Descent
<1> QED BY <1>5 DEF on

LEMMA DescentAlone == \A r \in Route : Descent(r, <<r>>)
BY DEF Descent, IsLineage

\* The default children go from parent to child.
LEMMA DefaultsDescend == \A r \in Route : Descent(r, <<r>> \o IndexChain[r])
<1> DEFINE T == {r \in Route : Descent(r, <<r>> \o IndexChain[r])}
           B == [r \in Route |-> Range(Children[r])]
<1>1. ASSUME NEW r \in Route, B[r] \subseteq T
      PROVE  Descent(r, <<r>> \o IndexChain[r])
  <2> DEFINE empty == FirstIn(Children[r], {x \in Route : Pattern[x] = <<>>})
             named == FirstIn(Children[r], {x \in Route : Pattern[x] = <<Index>>})
  <2>1. Children[r] \in Seq(Route) /\ Range(Children[r]) \subseteq Route
    BY RouteTreeAssumption DEF Range
  <2>2. IndexChain[r] = IF empty = <<>> THEN named ELSE empty \o IndexChain[empty[1]]
    BY IndexChainDefined DEF Defaults
  <2> DEFINE Finds(first) == first = <<>> \/ \E c \in Range(Children[r]) : first = <<c>>
  <2>3. Finds(empty) /\ Finds(named)
    <3>1. \A good : Finds(FirstIn(Children[r], good))
      BY <2>1, FirstFound
    <3> HIDE DEF Finds
    <3> QED BY <3>1
  <2> HIDE DEF empty, named
  <2>4. CASE empty = <<>> /\ named = <<>>
    <3>1. <<r>> \o <<>> = <<r>>
      OBVIOUS
    <3> QED BY <2>2, <2>4, <3>1, DescentAlone
  <2>5. CASE empty = <<>> /\ named # <<>>
    <3>1. PICK c \in Range(Children[r]) : named = <<c>>
      BY <2>3, <2>5
    <3>2. Descent(c, named)
      BY <2>1, <3>1, DescentAlone
    <3>3. IndexChain[r] = named
      BY <2>2, <2>5
    <3> QED BY <3>2, <3>3, DescentOn
  <2>6. CASE empty # <<>>
    <3>1. PICK c \in Range(Children[r]) : empty = <<c>>
      BY <2>3, <2>6
    <3>2. Descent(c, <<c>> \o IndexChain[c])
      BY <1>1, <3>1
    <3>3. IndexChain[r] = <<c>> \o IndexChain[c]
      BY <2>2, <2>6, <3>1
    <3> QED BY <3>2, <3>3, DescentOn
  <2> QED BY <2>4, <2>5, <2>6
<1>2. Route \subseteq T
  <2>1. Grounded(Route, B)
    BY ChildrenAreGrounded
  <2>2. \A r \in Route : B[r] \subseteq T => r \in T
    BY <1>1
  <2> HIDE DEF T, B
  <2> QED BY <2>1, <2>2, FromBelow
<1> QED BY <1>2

\* Where the segments end in a chain, only default children follow.
EndsIn(chain, path) ==
  \E n \in DOMAIN chain : Reaches(SubSeq(chain, 1, n), path) /\ IndexEnd(chain, n)

LEMMA EndsOn ==
  ASSUME NEW r \in Route, NEW chain \in Seq(Route), NEW path \in Seq(Segment),
         FitsPrefix(Pattern[r], path),
         EndsIn(chain, From(path, Len(Pattern[r]) + 1))
  PROVE  EndsIn(<<r>> \o chain, path)
<1> DEFINE on == <<r>> \o chain  rest == From(path, Len(Pattern[r]) + 1)  l == Len(chain)
<1>1. PICK n \in DOMAIN chain : Reaches(SubSeq(chain, 1, n), rest) /\ IndexEnd(chain, n)
  BY DEF EndsIn
<1>2. n \in 1..l /\ l \in Nat
  OBVIOUS
<1>3. /\ on \in Seq(Route) /\ Len(on) = l + 1 /\ DOMAIN on = 1..(l + 1) /\ on[1] = r
      /\ \A i \in 1..l : on[i + 1] = chain[i]
  OBVIOUS
<1> HIDE DEF on
<1>4. SubSeq(chain, 1, n) \in Seq(Route) /\ Len(SubSeq(chain, 1, n)) = n
      /\ \A i \in 1..n : SubSeq(chain, 1, n)[i] = chain[i]
  BY <1>2
<1>5. SubSeq(on, 1, n + 1) \in Seq(Route) /\ Len(SubSeq(on, 1, n + 1)) = n + 1
      /\ \A i \in 1..(n + 1) : SubSeq(on, 1, n + 1)[i] = on[i]
  BY <1>2, <1>3
<1>6. SubSeq(on, 1, n + 1) = <<r>> \o SubSeq(chain, 1, n)
  <2> DEFINE s == SubSeq(chain, 1, n)  t == SubSeq(on, 1, n + 1)
  <2> HIDE DEF s, t
  <2>1. /\ <<r>> \o s \in Seq(Route) /\ Len(<<r>> \o s) = n + 1 /\ (<<r>> \o s)[1] = r
        /\ \A i \in 1..n : (<<r>> \o s)[i + 1] = s[i]
    BY <1>4 DEF s
  <2>2. ASSUME NEW i \in 1..(n + 1) PROVE t[i] = (<<r>> \o s)[i]
    <3>1. CASE i = 1
      BY <1>2, <1>3, <1>5, <2>1, <3>1 DEF t
    <3>2. CASE i # 1
      <4>1. i - 1 \in 1..n /\ i - 1 \in 1..l /\ (i - 1) + 1 = i
        BY <1>2, <3>2
      <4>2. (<<r>> \o s)[i] = chain[i - 1]
        BY <1>4, <2>1, <4>1 DEF s
      <4>3. t[i] = chain[i - 1]
        BY <1>3, <1>5, <4>1 DEF t
      <4> QED BY <4>2, <4>3
    <3> QED BY <3>1, <3>2
  <2>3. t \in Seq(Route) /\ Len(t) = n + 1
    BY <1>5 DEF t
  <2>4. t = <<r>> \o s
    BY <2>1, <2>2, <2>3, SeqEqual
  <2> QED BY <2>4 DEF s, t
<1>7. Reaches(SubSeq(on, 1, n + 1), path)
  BY <1>1, <1>4, <1>6, ReachesOn
<1>8. IndexEnd(on, n + 1)
  <2> HIDE DEF l
  <2>1. l = Len(chain) /\ n \in Nat /\ l \in Nat /\ n <= l
    BY <1>2 DEF l
  <2>2. /\ From(chain, n + 1) \in Seq(Route) /\ Len(From(chain, n + 1)) = l - n
        /\ \A i \in 1..(l - n) : From(chain, n + 1)[i] = chain[n + i]
    BY <2>1, Remaining
  <2> DEFINE m == n + 1
  <2>3. m \in Nat /\ m <= Len(on) /\ Len(on) - m = l - n
    BY <1>3, <2>1
  <2>4. /\ From(on, m + 1) \in Seq(Route) /\ Len(From(on, m + 1)) = Len(on) - m
        /\ \A i \in 1..(Len(on) - m) : From(on, m + 1)[i] = on[m + i]
    <3> HIDE DEF m
    <3> QED BY <1>3, <2>3, Remaining
  <2>5. ASSUME NEW i \in 1..(l - n) PROVE From(on, m + 1)[i] = From(chain, n + 1)[i]
    <3>1. n + i \in 1..l /\ m + i = (n + i) + 1
      BY <2>1
    <3>2. on[m + i] = chain[n + i]
      BY <1>3, <3>1
    <3> HIDE DEF m
    <3> QED BY <2>2, <2>3, <2>4, <3>2
  <2>6. From(on, m + 1) = From(chain, n + 1)
    <3> DEFINE s == From(on, m + 1)  t == From(chain, n + 1)
    <3>1. /\ s \in Seq(Route) /\ t \in Seq(Route) /\ Len(s) = Len(t)
          /\ Len(s) = l - n
      BY <2>2, <2>3, <2>4
    <3>2. \A i \in 1..(l - n) : s[i] = t[i]
      BY <2>5
    <3> HIDE DEF s, t
    <3>3. s = t
      BY <3>1, <3>2, SeqEqual
    <3> QED BY <3>3 DEF s, t
  <2>7. on[n + 1] = chain[n]
    BY <1>2, <1>3
  <2> QED BY <1>1, <2>6, <2>7 DEF IndexEnd
<1>9. n + 1 \in DOMAIN on
  BY <1>2, <1>3
<1>10. EndsIn(on, path)
  BY <1>7, <1>8, <1>9 DEF EndsIn
<1> QED BY <1>10 DEF on

\* Where it succeeds, the search descends from its route, and only default
\* children follow the end of the segments.
LEMMA SearchAnswers ==
  \A at \in Spots :
    Leads[at] => Descent(at[2], Search[at]) /\ EndsIn(Search[at], at[3])
<1> DEFINE Good(at) ==
             Leads[at] => Descent(at[2], Search[at]) /\ EndsIn(Search[at], at[3])
           T == {at \in Spots : Good(at)}
<1>1. ASSUME NEW at \in Spots, Deeper[at] \subseteq T, Leads[at]
      PROVE  Descent(at[2], Search[at]) /\ EndsIn(Search[at], at[3])
  <2> DEFINE r == at[2]  p == at[3]
  <2>1. r \in Route /\ p \in Seq(Segment)
    BY DEF Spots
  <2>2. GoesOn(at) /\ FitsPrefix(Pattern[r], p)
    BY <1>1, LeadingGoesOn DEF GoesOn
  <2>3. CASE After(at) = <<>>
    <3>1. Search[at] = <<r>> \o IndexChain[r]
      BY <1>1, <2>3, SearchDefined DEF Chain, After
    <3>2. Descent(r, <<r>> \o IndexChain[r])
      BY <2>1, DefaultsDescend
    <3>3. IndexChain[r] \in Seq(Route)
      BY <2>1, IndexChainDefined
    <3>4. Reaches(<<r>>, p)
      BY <2>1, <2>2, <2>3, ReachesAlone DEF After
    <3> DEFINE rest == IndexChain[r]  chain == <<r>> \o rest
    <3> HIDE DEF rest
    <3>5. rest \in Seq(Route) /\ Len(rest) \in Nat
      BY <3>3 DEF rest
    <3>6. /\ chain \in Seq(Route) /\ Len(chain) = Len(rest) + 1 /\ chain[1] = r
          /\ 1 \in DOMAIN chain
          /\ \A i \in 1..Len(rest) : chain[i + 1] = rest[i]
      BY <2>1, <3>5
    <3> HIDE DEF chain
    <3>7. SubSeq(chain, 1, 1) = <<r>>
      <4>1. /\ SubSeq(chain, 1, 1) \in Seq(Route) /\ Len(SubSeq(chain, 1, 1)) = 1
            /\ SubSeq(chain, 1, 1)[1] = r
        BY <3>5, <3>6
      <4>2. <<r>> \in Seq(Route) /\ Len(<<r>>) = 1 /\ <<r>>[1] = r
        BY <2>1
      <4> HIDE DEF r
      <4>3. \A i \in 1..1 : SubSeq(chain, 1, 1)[i] = <<r>>[i]
        BY <4>1, <4>2
      <4> QED BY <4>1, <4>2, <4>3, SeqEqual
    <3>8. From(chain, 2) = rest
      <4> DEFINE n == 1
      <4>1. n \in Nat /\ n <= Len(chain) /\ n + 1 = 2 /\ Len(chain) - n = Len(rest)
        BY <3>5, <3>6
      <4>2. \A i \in 1..Len(rest) : n + i = i + 1
        BY <3>5
      <4> HIDE DEF n
      <4>3. /\ From(chain, n + 1) \in Seq(Route)
            /\ Len(From(chain, n + 1)) = Len(chain) - n
            /\ \A i \in 1..(Len(chain) - n) : From(chain, n + 1)[i] = chain[n + i]
        BY <3>6, <4>1, Remaining
      <4>4. /\ From(chain, 2) \in Seq(Route) /\ Len(From(chain, 2)) = Len(rest)
            /\ \A i \in 1..Len(rest) : From(chain, 2)[i] = rest[i]
        BY <3>6, <4>1, <4>2, <4>3
      <4> QED BY <3>5, <4>4, SeqEqual
    <3>9. EndsIn(chain, p)
      <4>1. IndexEnd(chain, 1)
        BY <3>6, <3>8 DEF IndexEnd, rest
      <4> QED BY <3>4, <3>6, <3>7, <4>1 DEF EndsIn
    <3> QED BY <3>1, <3>2, <3>9 DEF chain, rest
  <2>4. CASE After(at) # <<>>
    <3>1. PICK c \in Range(Children[r]) :
            /\ Leads[<<at[1] + 1, c, After(at)>>]
            /\ FirstLeading(at[1] + 1, Children[r], After(at)) = <<c>>
      BY <2>2, <2>4 DEF GoesOn
    <3> DEFINE next == <<at[1] + 1, c, After(at)>>
    <3>2. next \in Deeper[at] /\ next \in Spots /\ next[2] = c /\ next[3] = After(at)
      BY <2>2, SpotBelow DEF Deeper, GoesOn
    <3>3. Search[at] = <<r>> \o Search[next]
      <4> DEFINE first == FirstLeading(at[1] + 1, Children[r], After(at))
      <4>1. Search[at] = Chain(Search, at)
        BY SearchDefined
      <4>2. Chain(Search, at) = <<r>> \o Search[<<at[1] + 1, first[1], After(at)>>]
        BY <1>1, <2>4 DEF Chain, After
      <4>3. first[1] = c
        BY <3>1
      <4> QED BY <4>1, <4>2, <4>3
    <3>4. Leads[next]
      BY <3>1
    <3> HIDE DEF next
    <3>5. Descent(c, Search[next]) /\ EndsIn(Search[next], After(at))
      BY <1>1, <3>2, <3>4
    <3>6. Descent(r, <<r>> \o Search[next])
      BY <2>1, <3>5, DescentOn
    <3>7. Search[next] \in Seq(Route)
      BY <3>2, SearchDefined
    <3>8. EndsIn(<<r>> \o Search[next], p)
      BY <2>1, <2>2, <3>5, <3>7, EndsOn DEF After
    <3> QED BY <3>3, <3>6, <3>8
  <2> QED BY <2>3, <2>4
<1>2. \A at \in Spots : Deeper[at] \subseteq T => at \in T
  BY <1>1
<1>3. Spots \subseteq T
  <2> HIDE DEF T
  <2> QED BY <1>2, DepthIsGrounded, FromBelow
<1> QED BY <1>3

\* FirstIn asks of a set only which elements of the sequence it has.
LEMMA FirstSame ==
  ASSUME NEW seq, NEW A, NEW B, \A x \in Range(seq) : x \in A <=> x \in B
  PROVE  FirstIn(seq, A) = FirstIn(seq, B)
<1>1. \A i \in DOMAIN seq : seq[i] \in A <=> seq[i] \in B
  BY DEF Range
<1>2. {i \in DOMAIN seq : seq[i] \in A} = {i \in DOMAIN seq : seq[i] \in B}
  BY <1>1
<1> QED BY <1>2 DEF FirstIn

\* Resolve answers every path, whatever the routes.
LEMMA ResolveAnswers ==
  ASSUME NEW routes \in Seq(Route), NEW path \in Seq(Segment)
  PROVE  Answers(Resolve(routes, path), routes, path)
<1> DEFINE Has(r) == \E c \in Lineages : c[1] = r /\ Reaches(c, path)
           At(r) == <<0, r, path>>
           first == FirstLeading(0, routes, path)
           able == {r \in Range(routes) : Leads[At(r)]}
           deserving == {r \in Route : Has(r)}
<1>1. Range(routes) \subseteq Route
  BY DEF Range
<1>2. ASSUME NEW r \in Route PROVE At(r) \in Spots /\ (Leads[At(r)] <=> Has(r))
  <2> DEFINE at == At(r)
  <2>1. at \in Spots /\ at[1] = 0 /\ at[2] = r /\ at[3] = path
    BY DEF Spots
  <2>2. MaxDepth \in Nat /\ 0 <= MaxDepth /\ MaxDepth - 0 = MaxDepth
    BY RouteTreeAssumption
  <2> HIDE DEF at
  <2>3. Leads[at] <=> HasLineage(at)
    BY <2>1, <2>2, LeadsIsComplete
  <2>4. HasLineage(at) <=> Has(r)
    BY <2>1, <2>2, Zenon DEF HasLineage, Lineages
  <2> QED BY <2>1, <2>3, <2>4 DEF at
<1> HIDE DEF Has
<1>3. first = FirstIn(routes, able) /\ first = FirstIn(routes, deserving)
  <2>1. first = FirstIn(routes, able)
    BY DEF FirstLeading
  <2>2. \A r \in Range(routes) : r \in able <=> r \in deserving
    BY <1>1, <1>2
  <2> HIDE DEF able, deserving, first
  <2> QED BY <2>1, <2>2, FirstSame
<1> DEFINE chain == Resolve(routes, path)
<1>4. \/ FirstIn(routes, able) = <<>> /\ \A x \in Range(routes) : x \notin able
      \/ \E x \in Range(routes) : x \in able /\ FirstIn(routes, able) = <<x>>
  <2> HIDE DEF able
  <2> QED BY FirstFound
<1>5. CASE first = <<>>
  <2>1. ASSUME NEW r \in Range(routes) PROVE ~Has(r)
    <3>1. \A x \in Range(routes) : x \notin able
      <4>1. \A x : <<x>> # <<>>
        OBVIOUS
      <4> HIDE DEF able, first
      <4>2. FirstIn(routes, able) = <<>>
        BY <1>3, <1>5
      <4> QED BY <1>4, <4>1, <4>2, Zenon
    <3>2. ~Leads[At(r)]
      BY <3>1
    <3> HIDE DEF At
    <3> QED BY <1>1, <1>2, <3>2
  <2>2. chain = <<>>
    BY <1>5 DEF Resolve, ChainFrom
  <2> QED BY <2>1, <2>2 DEF Answers, Has
<1>6. CASE first # <<>>
  <2>1. PICK r \in Range(routes) : r \in able /\ first = <<r>>
    <3> HIDE DEF able, first
    <3> QED BY <1>3, <1>6, <1>4
  <2>2. r \in Route /\ Leads[At(r)]
    BY <1>1, <2>1
  <2>3. chain = Search[At(r)]
    <3>1. chain = Search[<<0, first[1], path>>]
      BY <1>6 DEF Resolve, ChainFrom
    <3> HIDE DEF first
    <3>2. first[1] = r
      BY <2>1
    <3> QED BY <3>1, <3>2
  <2>4. Descent(r, chain) /\ EndsIn(chain, path)
    <3>1. At(r)[2] = r /\ At(r)[3] = path
      OBVIOUS
    <3> HIDE DEF At, chain
    <3> QED BY <1>2, <2>2, <2>3, <3>1, SearchAnswers
  <2>5. Has(r)
    BY <1>2, <2>2
  <2> HIDE DEF chain, first, deserving, able
  <2>6. /\ IsLineage(chain) /\ chain # <<>>
        /\ <<chain[1]>> = FirstIn(routes, deserving)
    BY <1>3, <2>1, <2>4 DEF Descent
  <2>7. \E n \in DOMAIN chain : Reaches(SubSeq(chain, 1, n), path) /\ IndexEnd(chain, n)
    BY <2>4 DEF EndsIn
  <2>8. \E x \in Range(routes) : Has(x)
    BY <2>5
  <2> QED BY <2>6, <2>7, <2>8, Zenon DEF Answers, Has, deserving, chain
<1> QED BY <1>5, <1>6

-----------------------------------------------------------------------------
(* The routes shown, as the router goes.                                   *)

Asked == {"deactivate", "exit", "perform", "enter", "after"}
Arrived == {"enter", "after"}

\* The routes walked are those of the target once the guards were asked, and the
\* target is where the router is once it has moved; a back or forward under way
\* leads to the entry next to it.
WalkInv ==
  /\ registered \in Seq(Route)
  /\ nav.stage \in Asked => walked = Walked(registered, nav.to)
  /\ nav.stage \in Arrived => Here = nav.to
  /\ nav.stage \in Pending /\ nav.op = "Back" => nav.to = entries[cursor - 1].path
  /\ nav.stage \in Pending /\ nav.op = "Forward" => nav.to = entries[cursor + 1].path
  /\ result = "Success" => nav.stage = "idle" /\ walked = Walked(registered, Here)

LEMMA WalkInit == Init => WalkInv
BY NavigatorAssumption DEF Init, WalkInv, Idle, Asked, Arrived, Pending

\* A request starts over, or ends the navigation.
LEMMA RequestWalks ==
  ASSUME WalkInv, NEW op, NEW to, NEW depth, NEW state, Request(op, to, depth, state),
         UNCHANGED <<entries, cursor, registered>>,
         op = "Back" => to = entries[cursor - 1].path,
         op = "Forward" => to = entries[cursor + 1].path
  PROVE  WalkInv'
<1>1. CASE depth < MaxRedirects
  <2>1. nav'.stage = "guards" /\ nav'.op = op /\ nav'.to = to /\ result' = "None"
    BY <1>1 DEF Request
  <2> QED BY <2>1 DEF WalkInv, Asked, Arrived
<1>2. CASE ~(depth < MaxRedirects)
  <2>1. nav'.stage = "idle" /\ result' = "Blocked"
    BY <1>2 DEF Request, Idle
  <2> QED BY <2>1 DEF WalkInv, Asked, Arrived, Pending
<1> QED BY <1>1, <1>2

LEMMA RedirectWalks ==
  ASSUME WalkInv, NEW to, Redirected(to), UNCHANGED <<entries, cursor, registered>>
  PROVE  WalkInv'
BY RequestWalks DEF Redirected

LEMMA BlockedWalks ==
  ASSUME WalkInv, Blocked, UNCHANGED <<entries, cursor, registered>>
  PROVE  WalkInv'
<1>1. nav'.stage = "idle" /\ result' = "Blocked"
  BY DEF Blocked, Idle
<1> QED BY <1>1 DEF WalkInv, Asked, Arrived, Pending

\* The stages that come after one another without moving.
LEMMA ProceedWalks ==
  ASSUME NavOK, WalkInv, NEW stage \in Asked, Proceed(stage), nav.stage # "idle",
         UNCHANGED <<entries, cursor, registered>>,
         walked' = Walked(registered, nav.to),
         nav.stage \in Pending \/ stage \notin Pending,
         stage \in Arrived => Here = nav.to
  PROVE  WalkInv'
<1>1. nav'.stage = stage /\ nav'.op = nav.op /\ nav'.to = nav.to /\ result' = result
  BY DEF Proceed, NavOK
<1> QED BY <1>1 DEF WalkInv, Here

\* Every action keeps WalkInv.
LEMMA WalkStep == HistoryInv /\ WalkInv /\ [Next]_vars => WalkInv'
<1> SUFFICES ASSUME HistoryInv, WalkInv, [Next]_vars PROVE WalkInv'
  OBVIOUS
<1>1. NavOK /\ CursorOK
  BY DEF HistoryInv
<1>2. ASSUME NEW op, NEW to, NEW state, Call(op, to, state),
             op = "Back" => to = entries[cursor - 1].path,
             op = "Forward" => to = entries[cursor + 1].path
      PROVE  WalkInv'
  <2>1. Request(op, to, 0, state) /\ UNCHANGED <<entries, cursor, registered>>
    BY <1>2 DEF Call, history
  <2> QED BY <1>2, <2>1, RequestWalks
<1>3. CASE Push \/ Replace \/ Back \/ Forward
  BY <1>2, <1>3 DEF Push, Replace, Back, Forward
<1>4. ASSUME NEW route \in Late, AddRoute(route) PROVE WalkInv'
  <2>1. /\ nav.stage = "idle" /\ nav' = nav /\ result' = "None"
        /\ registered' = Append(registered, route)
    BY <1>4 DEF AddRoute, IsIdle, Idle
  <2>2. registered' \in Seq(Route)
    BY <2>1, NavigatorAssumption DEF WalkInv
  <2> QED BY <2>1, <2>2 DEF WalkInv, Asked, Arrived, Pending
<1>5. CASE RunGuards
  <2>1. nav.stage = "guards" /\ UNCHANGED <<entries, cursor, registered>>
    BY <1>5 DEF RunGuards, history
  <2>2. CASE Proceed("deactivate") /\ walked' = Walked(registered, nav.to)
    BY <1>1, <2>1, <2>2, ProceedWalks DEF Asked, Arrived, Pending
  <2> QED BY <1>5, <2>1, <2>2, BlockedWalks, RedirectWalks DEF RunGuards
<1>6. CASE CanDeactivate
  <2>1. nav.stage = "deactivate" /\ UNCHANGED <<entries, cursor, registered, walked>>
    BY <1>6 DEF CanDeactivate, history
  <2>2. CASE Proceed("exit")
    BY <1>1, <2>1, <2>2, ProceedWalks DEF Asked, Arrived, Pending, WalkInv
  <2> QED BY <1>6, <2>1, <2>2, BlockedWalks, RedirectWalks DEF CanDeactivate
<1>7. CASE OnExit
  <2>1. nav.stage = "exit" /\ UNCHANGED <<entries, cursor, registered, walked>>
    BY <1>7 DEF OnExit, history
  <2>2. CASE Proceed("perform")
    BY <1>1, <2>1, <2>2, ProceedWalks DEF Asked, Arrived, Pending, WalkInv
  <2> QED BY <1>7, <2>1, <2>2, BlockedWalks DEF OnExit
<1>8. CASE PerformNavigation
  <2> DEFINE entry == [path |-> nav.to, state |-> NoState]
  <2>1. /\ nav.stage = "perform" /\ UNCHANGED <<registered, walked>> /\ Proceed("enter")
    BY <1>8 DEF PerformNavigation
  <2>2. entry \in Entry
    BY <1>1 DEF NavOK, Entry
  <2>3. Here' = nav.to
    <3>1. CASE nav.op = "Push" /\ Pushed(entry)
      <4>1. Browser!Visit(entry)
        BY <1>1, <2>2, <3>1, PushKeepsHistory, NavigatorAssumption
      <4> QED BY <4>1 DEF Browser!Visit, Here
    <3>2. CASE nav.op = "Replace" /\ Replaced(entry)
      <4>1. Browser!Become(entry)
        BY <1>1, <2>2, <3>2, ReplaceKeepsHistory
      <4> QED BY <4>1 DEF Browser!Become, Here
    <3>3. CASE nav.op = "Back" /\ cursor' = cursor - 1 /\ UNCHANGED entries
      BY <2>1, <3>3 DEF WalkInv, Here, Pending
    <3>4. CASE nav.op = "Forward" /\ cursor' = cursor + 1 /\ UNCHANGED entries
      BY <2>1, <3>4 DEF WalkInv, Here, Pending
    <3> QED BY <1>8, <3>1, <3>2, <3>3, <3>4 DEF PerformNavigation
  <2>4. nav'.stage = "enter" /\ nav'.to = nav.to /\ result' = result
    BY <1>1, <2>1 DEF Proceed, NavOK
  <2>5. walked = Walked(registered, nav.to) /\ result # "Success"
    BY <2>1 DEF WalkInv, Asked
  <2> QED BY <2>1, <2>3, <2>4, <2>5 DEF WalkInv, Pending
<1>9. CASE OnEnter
  <2>1. nav.stage = "enter" /\ UNCHANGED <<entries, cursor, registered, walked>>
    BY <1>9 DEF OnEnter, history
  <2>2. CASE Proceed("after")
    BY <1>1, <2>1, <2>2, ProceedWalks DEF Asked, Arrived, Pending, WalkInv
  <2> QED BY <1>9, <2>1, <2>2, RedirectWalks DEF OnEnter
<1>10. CASE Finish
  <2>1. /\ nav.stage = "after" /\ nav'.stage = "idle" /\ result' = "Success"
        /\ UNCHANGED <<registered, walked>>
    BY <1>10 DEF Finish, Idle
  <2>2. Here' = Here
    <3>1. CASE UNCHANGED history
      BY <3>1 DEF history, Here
    <3>2. CASE Replaced([path |-> Here, state |-> nav.state])
      BY <1>1, <3>2 DEF Replaced, Here, CursorOK
    <3> QED BY <1>10, <3>1, <3>2 DEF Finish
  <2>3. walked = Walked(registered, Here)
    BY <2>1 DEF WalkInv, Asked, Arrived
  <2> QED BY <2>1, <2>2, <2>3 DEF WalkInv, Asked, Arrived, Pending
<1>11. CASE UNCHANGED vars
  BY <1>11 DEF vars, WalkInv, Here
<1> QED
  BY <1>3, <1>4, <1>5, <1>6, <1>7, <1>8, <1>9, <1>10, <1>11 DEF Next, Pipeline

\* The path on top of the history is a path.
LEMMA HereIsPath == HistoryInv => Here \in Seq(Segment)
<1>1. HistoryInv => entries[cursor] \in Entry
  BY DEF HistoryInv, CursorOK
<1> QED BY <1>1, NavigatorAssumption DEF Entry, Here

\* The routes shown after a navigation had their guards asked and their
\* middleware run for it, whatever the tree, but for a default child named
\* `index' (resolve_recursive, walk_matching_routes).
THEOREM ShownAreWalked == Spec => []ShownRoutesAreWalked
<1>1. HistoryInv /\ MatchStackIsCurrent /\ WalkInv => ShownRoutesAreWalked
  <2> SUFFICES ASSUME HistoryInv, MatchStackIsCurrent, WalkInv, result = "Success"
               PROVE  AmongOrIndex(stack, walked)
    BY DEF ShownRoutesAreWalked, AmongOrIndex
  <2>1. Here \in Seq(Segment)
    BY HereIsPath
  <2>2. AmongOrIndex(Resolve(registered, Here), Walked(registered, Here))
    BY <2>1, ResolvedAreWalked DEF WalkInv
  <2> QED BY <2>2 DEF WalkInv, MatchStackIsCurrent
<1> QED
  BY <1>1, WalkInit, WalkStep, HistoryIsSound, ShownChainIsCurrent, PTL DEF Spec

\* The chain of routes shown is what the current path deserves, whatever the
\* tree: a lineage of the first registered route that has one for it, found by
\* backtracking, then its default children; and none only if no route has one
\* (resolve_match_stack, resolve_recursive).
THEOREM StackAnswers == Spec => []StackAnswersPath
<1>1. HistoryInv /\ MatchStackIsCurrent /\ WalkInv => StackAnswersPath
  <2> SUFFICES ASSUME HistoryInv, MatchStackIsCurrent, WalkInv
               PROVE  Answers(stack, registered, Here)
    BY DEF StackAnswersPath
  <2>1. registered \in Seq(Route) /\ Here \in Seq(Segment)
    BY HereIsPath DEF WalkInv
  <2> QED BY <2>1, ResolveAnswers DEF MatchStackIsCurrent
<1> QED
  BY <1>1, WalkInit, WalkStep, HistoryIsSound, ShownChainIsCurrent, PTL DEF Spec

-----------------------------------------------------------------------------
(* The routes that were entered.                                           *)

\* The route is registered, or a child of another.
InTree(r) == r \in Range(registered) \/ \E q \in Route : r \in Range(Children[q])

\* Of those that current_route names, only the leaf of the chain waits, between
\* its on_enter and the on_exit of the path it was entered at.
Awaits(e) ==
  /\ nav.stage \notin {"perform", "enter"}
  /\ e[2] = Here
  /\ e[1] \in Range(stack)

EnterInv ==
  /\ entered \subseteq Lifecycles \X Path
  /\ \A e \in entered : InTree(e[1]) /\ (Named(e) => Awaits(e))

\* The first element found stays the first when others are put behind it.
LEMMA FirstStays ==
  ASSUME NEW S, NEW seq \in Seq(S), NEW x \in S, NEW A, NEW B,
         FirstIn(seq, A) # <<>>, \A y \in Range(seq) : y \in A <=> y \in B
  PROVE  FirstIn(Append(seq, x), B) = FirstIn(seq, A)
<1> DEFINE at == {i \in DOMAIN seq : seq[i] \in A}
           longer == Append(seq, x)
           later == {i \in DOMAIN longer : longer[i] \in B}
           n == Len(seq)
<1>1. /\ DOMAIN seq = 1 .. n /\ n \in Nat /\ DOMAIN longer = 1 .. (n + 1)
      /\ \A i \in 1 .. n : longer[i] = seq[i]
  OBVIOUS
<1>2. at # {} /\ FirstIn(seq, A) = <<seq[Min(at)]>>
  BY DEF FirstIn
<1>3. \A i \in 1 .. n : i \in at <=> i \in later
  BY <1>1 DEF Range
<1>4. at \subseteq 1 .. n /\ later \subseteq 1 .. (n + 1)
  BY <1>1
<1> HIDE DEF at, longer, later, n
<1>5. PICK m \in at : \A l \in at : m <= l
  <2>1. at \in SUBSET Nat
    BY <1>1, <1>4
  <2> QED BY <1>2, <2>1, SmallestNat
<1>6. \A l \in at : l \in Nat /\ (l <= m => l = m)
  BY <1>1, <1>4, <1>5
<1>7. m \in 1 .. n /\ m \in later /\ \A l \in later : m <= l
  <2>1. m \in 1 .. n /\ m \in later
    BY <1>3, <1>4, <1>5
  <2>2. ASSUME NEW l \in later PROVE m <= l
    <3>1. l \in at \/ l = n + 1
      BY <1>1, <1>3, <1>4
    <3> QED BY <1>1, <1>5, <2>1, <3>1
  <2> QED BY <2>1, <2>2
<1>8. \A l \in later : l \in Nat /\ (l <= m => l = m)
  BY <1>1, <1>4, <1>7
<1>9. Min(at) = m
  BY <1>5, <1>6 DEF Min
<1>10. Min(later) = m
  BY <1>7, <1>8 DEF Min
<1>11. FirstIn(longer, B) = <<longer[Min(later)]>>
  BY <1>7 DEF FirstIn, later
<1> QED BY <1>1, <1>2, <1>7, <1>9, <1>10, <1>11 DEF longer

\* A route that is added is searched after the others.
LEMMA ResolveStays ==
  ASSUME NEW routes \in Seq(Route), NEW r \in Route, NEW path \in Seq(Segment),
         Resolve(routes, path) # <<>>
  PROVE  Resolve(Append(routes, r), path) = Resolve(routes, path)
<1> DEFINE A == {q \in Range(routes) : Leads[<<0, q, path>>]}
           B == {q \in Range(Append(routes, r)) : Leads[<<0, q, path>>]}
<1>1. FirstLeading(0, routes, path) = FirstIn(routes, A)
  BY DEF FirstLeading
<1>2. FirstLeading(0, Append(routes, r), path) = FirstIn(Append(routes, r), B)
  BY DEF FirstLeading
<1>3. FirstIn(routes, A) # <<>>
  BY <1>1 DEF Resolve, ChainFrom
<1>4. \A q \in Range(routes) : q \in A <=> q \in B
  <2>1. Range(routes) \subseteq Range(Append(routes, r))
    BY DEF Range
  <2> QED BY <2>1
<1> HIDE DEF A, B
<1>5. FirstIn(Append(routes, r), B) = FirstIn(routes, A)
  BY <1>3, <1>4, FirstStays
<1> QED BY <1>1, <1>2, <1>5 DEF Resolve

\* A route that is added is asked after the others.
LEMMA CurrentStays ==
  ASSUME NEW routes \in Seq(Route), NEW r \in Route, NEW path
  PROVE  \/ CurrentRoute(Append(routes, r), path) = CurrentRoute(routes, path)
         \/ Range(CurrentRoute(Append(routes, r), path)) \subseteq {r}
<1> DEFINE claims == {q \in Route :
             \/ Matches(q, path)
             \/ Pattern[q] # <<>> /\ IsPrefix(Pattern[q], path)
             \/ Pattern[q] = <<>> /\ Children[q] # <<>>}
           more == Append(routes, r)
<1>1. /\ CurrentRoute(routes, path) = FirstIn(routes, claims)
      /\ CurrentRoute(more, path) = FirstIn(more, claims)
  BY DEF CurrentRoute
<1>2. more \in Seq(Route) /\ Range(more) \subseteq Range(routes) \cup {r}
  BY DEF Range
<1> HIDE DEF claims, more
<1>3. CASE FirstIn(routes, claims) # <<>>
  BY <1>1, <1>3, FirstStays DEF more
<1>4. CASE FirstIn(routes, claims) = <<>>
  <2>1. \A x \in Range(routes) : x \notin claims
    <3>1. \A x : <<x>> # <<>>
      OBVIOUS
    <3> QED BY <1>4, <3>1, FirstFound
  <2>2. CASE FirstIn(more, claims) = <<>>
    BY <1>1, <1>4, <2>2 DEF more
  <2>3. CASE \E x \in Range(more) : x \in claims /\ FirstIn(more, claims) = <<x>>
    <3>1. FirstIn(more, claims) = <<r>>
      BY <1>2, <2>1, <2>3
    <3> QED BY <1>1, <3>1 DEF Range, more
  <2> QED BY <1>2, <2>2, <2>3, FirstFound
<1> QED BY <1>3, <1>4

\* What Resolve returns is a lineage that takes the path, from a route
\* that is registered, or nothing.
LEMMA ResolveShape ==
  ASSUME NEW routes \in Seq(Route), NEW path \in Seq(Segment)
  PROVE  LET chain == Resolve(routes, path)
         IN  /\ chain \in Seq(Route)
             /\ chain # <<>> =>
                  IsLineage(chain) /\ EndsIn(chain, path) /\ chain[1] \in Range(routes)
<1> DEFINE able == {q \in Range(routes) : Leads[<<0, q, path>>]}
           first == FirstIn(routes, able)
           chain == Resolve(routes, path)
<1>1. chain = ChainFrom(first, path)
  BY DEF Resolve, FirstLeading
<1> HIDE DEF first, chain
<1>2. CASE first = <<>>
  BY <1>1, <1>2 DEF ChainFrom, chain
<1>3. CASE first # <<>>
  <2>1. PICK q \in Range(routes) : q \in able /\ first = <<q>>
    <3> HIDE DEF able
    <3> QED BY <1>3, FirstFound DEF first
  <2> DEFINE at == <<0, q, path>>
  <2>2. at \in Spots /\ Leads[at] /\ at[2] = q /\ at[3] = path
    BY <2>1 DEF Spots, Range
  <2>3. chain = Search[at]
    BY <1>1, <1>3, <2>1 DEF ChainFrom
  <2> HIDE DEF at
  <2>4. Descent(at[2], chain) /\ EndsIn(chain, path)
    BY <2>2, <2>3, SearchAnswers
  <2>5. /\ chain \in Seq(Route) /\ IsLineage(chain) /\ EndsIn(chain, path)
        /\ chain[1] \in Range(routes)
    BY <2>1, <2>2, <2>4 DEF Descent
  <2> QED BY <2>5 DEF chain
<1> QED BY <1>2, <1>3

\* The leaf of the chain, if it has a lifecycle, is a route of the tree.
LEMMA LeafIsInTree ==
  ASSUME HistoryInv, WalkInv, MatchStackIsCurrent, NEW r \in Entering
  PROVE  r \in Lifecycles /\ r \in Range(stack) /\ InTree(r)
<1>1. stack # <<>> /\ r = stack[Len(stack)] /\ r \in Lifecycles
  BY DEF Entering
<1>2. registered \in Seq(Route) /\ Here \in Seq(Segment)
  BY HereIsPath DEF WalkInv
<1>3. stack \in Seq(Route) /\ IsLineage(stack) /\ stack[1] \in Range(registered)
  BY <1>1, <1>2, ResolveShape DEF MatchStackIsCurrent
<1> DEFINE n == Len(stack)
<1>4. n \in Nat \ {0} /\ DOMAIN stack = 1 .. n
  BY <1>1, <1>3
<1>5. \A i \in 1 .. n : stack[i] \in Route
  BY <1>3
<1>6. \A i \in 1 .. (n - 1) : stack[i + 1] \in Range(Children[stack[i]])
  BY <1>3 DEF IsLineage
<1>7. r = stack[n]
  BY <1>1
<1> HIDE DEF n
<1>8. r \in Range(stack)
  BY <1>4, <1>7 DEF Range
<1>9. CASE n = 1
  BY <1>1, <1>3, <1>7, <1>8, <1>9 DEF InTree
<1>10. CASE n # 1
  <2>1. n - 1 \in 1 .. (n - 1) /\ n - 1 \in 1 .. n /\ (n - 1) + 1 = n
    BY <1>4, <1>10
  <2> DEFINE q == stack[n - 1]
  <2>2. q \in Route /\ r \in Range(Children[q])
    BY <1>5, <1>6, <1>7, <2>1
  <2> HIDE DEF q
  <2> QED BY <1>1, <1>8, <2>2 DEF InTree
<1> QED BY <1>9, <1>10

LEMMA EnterInit == Init => EnterInv
  BY DEF Init, EnterInv

\* A step of the pipeline, or a call, that leaves the chain and the history as
\* they are, and whoever still waits where the route is not being changed.
LEMMA EnterQuiet ==
  ASSUME EnterInv, UNCHANGED <<history, registered, stack>>, entered' \subseteq entered,
         nav'.stage \notin {"perform", "enter"}
  PROVE  EnterInv'
<1>1. Here' = Here /\ registered' = registered /\ stack' = stack
  BY DEF Here, history
<1>2. ASSUME NEW e \in entered' PROVE InTree(e[1])' /\ (Named(e)' => Awaits(e)')
  <2>1. InTree(e[1]) /\ (Named(e) => Awaits(e))
    BY <1>2 DEF EnterInv
  <2> QED BY <1>1, <2>1 DEF InTree, Named, Awaits
<1> QED BY <1>2 DEF EnterInv

\* Every action keeps EnterInv.
LEMMA EnterStep ==
  HistoryInv /\ MatchStackIsCurrent /\ WalkInv /\ EnterInv /\ [Next]_vars => EnterInv'
<1> SUFFICES ASSUME HistoryInv, MatchStackIsCurrent, WalkInv, EnterInv, [Next]_vars
             PROVE  EnterInv'
  OBVIOUS
<1>1. NavOK /\ registered \in Seq(Route) /\ Here \in Path /\ Here \in Seq(Segment)
  <2>1. entries[cursor] \in Entry
    BY DEF HistoryInv, CursorOK
  <2> QED BY <2>1, NavigatorAssumption DEF HistoryInv, WalkInv, Entry, Here
<1>2. /\ entered \subseteq Lifecycles \X Path
      /\ \A e \in entered : InTree(e[1]) /\ (Named(e) => Awaits(e))
  BY DEF EnterInv
<1>3. \A to : Redirected(to) => nav'.stage \notin {"perform", "enter"}
  BY DEF Redirected, Request, Idle
<1>4. Blocked => nav'.stage \notin {"perform", "enter"}
  BY DEF Blocked, Idle
<1>5. \A stage : Proceed(stage) => nav'.stage = stage
  BY <1>1 DEF Proceed, NavOK
<1>6. CASE Push \/ Replace \/ Back \/ Forward
  <2>1. UNCHANGED <<history, registered, stack, entered>> /\ nav'.stage \notin {"perform", "enter"}
    BY <1>6 DEF Push, Replace, Back, Forward, Call, Request, Idle
  <2> QED BY <2>1, EnterQuiet
<1>7. ASSUME NEW route \in Late, AddRoute(route) PROVE EnterInv'
  <2>1. /\ nav' = nav /\ nav.stage = "idle" /\ entered' = entered
        /\ route \notin Range(registered) /\ registered' = Append(registered, route)
        /\ stack' = Resolve(registered', Here') /\ Here' = Here
    BY <1>7 DEF AddRoute, IsIdle, Idle, history, Here
  <2>2. route \in Route /\ \A q \in Route : route \notin Range(Children[q])
    BY NavigatorAssumption
  <2>3. Range(registered) \subseteq Range(registered')
    BY <1>1, <2>1, <2>2 DEF Range
  <2>4. ASSUME NEW e \in entered PROVE InTree(e[1])' /\ (Named(e)' => Awaits(e)')
    <3>1. InTree(e[1]) /\ e[1] # route
      BY <1>2, <2>1, <2>2 DEF InTree
    <3>2. InTree(e[1])'
      BY <2>3, <3>1 DEF InTree
    <3>3. ASSUME Named(e)' PROVE Awaits(e)'
      <4>1. e[1] \in Range(CurrentRoute(Append(registered, route), e[2]))
        BY <2>1, <3>3 DEF Named
      <4>2. CurrentRoute(Append(registered, route), e[2]) = CurrentRoute(registered, e[2])
        BY <1>1, <2>2, <3>1, <4>1, CurrentStays
      <4>3. Awaits(e)
        BY <1>2, <4>1, <4>2 DEF Named
      <4>4. stack = Resolve(registered, Here) /\ stack # <<>>
        BY <4>3 DEF Awaits, MatchStackIsCurrent, Range
      <4>5. stack' = stack
        BY <1>1, <2>1, <2>2, <4>4, ResolveStays
      <4> QED BY <2>1, <4>3, <4>5 DEF Awaits
    <3> QED BY <3>2, <3>3
  <2> QED BY <1>2, <2>1, <2>4 DEF EnterInv
<1>8. CASE RunGuards \/ CanDeactivate
  <2>1. UNCHANGED <<history, registered, stack, entered>>
    BY <1>8 DEF RunGuards, CanDeactivate
  <2>2. nav'.stage \notin {"perform", "enter"}
    BY <1>3, <1>4, <1>5, <1>8 DEF RunGuards, CanDeactivate
  <2> QED BY <2>1, <2>2, EnterQuiet
<1>9. CASE OnExit
  <2>1. /\ UNCHANGED <<history, registered, stack>>
        /\ entered' = {e \in entered : e[1] \notin Leaving}
    BY <1>9 DEF OnExit
  <2>2. ASSUME NEW e \in entered' PROVE InTree(e[1])' /\ ~Named(e)'
    <3>1. e \in entered /\ e[1] \notin Leaving /\ e[1] \in Lifecycles
      BY <1>2, <2>1
    <3>2. InTree(e[1])'
      BY <1>2, <2>1, <3>1 DEF InTree
    <3>3. ~Named(e)
      BY <1>2, <3>1 DEF Named, Awaits, Leaving
    <3> QED BY <2>1, <3>2, <3>3 DEF Named
  <2> QED BY <1>2, <2>1, <2>2 DEF EnterInv
<1>10. CASE PerformNavigation
  <2>1. nav.stage = "perform" /\ UNCHANGED <<registered, entered>>
    BY <1>10 DEF PerformNavigation
  <2>2. \A e \in entered : InTree(e[1]) /\ ~Named(e)
    BY <1>2, <2>1 DEF Awaits
  <2> QED BY <1>2, <2>1, <2>2 DEF EnterInv, InTree, Named
<1>11. CASE OnEnter
  <2>1. /\ nav.stage = "enter" /\ UNCHANGED <<history, registered, stack>> /\ Here' = Here
        /\ entered' = entered \cup {<<r, Here>> : r \in Entering}
    BY <1>11 DEF OnEnter, history, Here
  <2>2. nav'.stage \notin {"perform", "enter"}
    BY <1>3, <1>5, <1>11 DEF OnEnter
  <2>3. ASSUME NEW e \in entered PROVE InTree(e[1])' /\ ~Named(e)'
    BY <1>2, <2>1 DEF Awaits, InTree, Named
  <2>4. ASSUME NEW r \in Entering
        PROVE  r \in Lifecycles /\ InTree(r)' /\ Awaits(<<r, Here>>)'
    <3>1. r \in Lifecycles /\ r \in Range(stack) /\ InTree(r)
      BY LeafIsInTree
    <3> QED BY <2>1, <2>2, <3>1 DEF InTree, Awaits
  <2>5. \A e \in entered' : e \in entered \/ \E r \in Entering : e = <<r, Here>>
    BY <2>1
  <2>6. ASSUME NEW e \in entered'
        PROVE  e \in Lifecycles \X Path /\ InTree(e[1])' /\ (Named(e)' => Awaits(e)')
    <3>1. CASE e \in entered
      BY <1>2, <2>3, <3>1
    <3>2. CASE \E r \in Entering : e = <<r, Here>>
      <4>1. PICK r \in Entering : e = <<r, Here>>
        BY <3>2
      <4>2. e \in Lifecycles \X Path /\ e[1] = r
        BY <1>1, <2>4, <4>1
      <4> QED BY <2>1, <2>4, <4>1, <4>2 DEF Awaits
    <3> QED BY <2>5, <3>1, <3>2
  <2> QED BY <2>6 DEF EnterInv
<1>12. CASE Finish
  <2>1. /\ nav'.stage = "idle" /\ UNCHANGED <<registered, stack, entered>>
        /\ UNCHANGED history \/ Replaced([path |-> Here, state |-> nav.state])
    BY <1>12 DEF Finish, Idle
  <2>2. Here' = Here
    <3>1. CursorOK
      BY DEF HistoryInv
    <3> QED BY <2>1, <3>1 DEF Replaced, Here, CursorOK, history
  <2>3. ASSUME NEW e \in entered PROVE InTree(e[1])' /\ (Named(e)' => Awaits(e)')
    <3>1. InTree(e[1]) /\ (Named(e) => Awaits(e))
      BY <1>2
    <3> QED BY <2>1, <2>2, <3>1 DEF InTree, Named, Awaits
  <2> QED BY <1>2, <2>1, <2>3 DEF EnterInv
<1>13. CASE UNCHANGED vars
  BY <1>13 DEF vars, EnterInv, InTree, Named, Awaits, Here
<1> QED
  BY <1>6, <1>7, <1>8, <1>9, <1>10, <1>11, <1>12, <1>13 DEF Next, Pipeline

\* Who was entered is on the screen until it is told that it is left, whatever
\* the tree, and wherever guards and hooks block or redirect, its own on_enter
\* among them: of the routes that current_route, by which on_exit is told, names
\* for the path they were entered at (run_lifecycle_on_enter,
\* run_lifecycle_on_exit).
THEOREM EnteredAreShown == Spec => []EnteredRoutesAreShown
<1>1. EnterInv => EnteredRoutesAreShown
  BY DEF EnterInv, Awaits, EnteredRoutesAreShown
<1> QED
  BY <1>1, EnterInit, EnterStep, WalkInit, WalkStep, HistoryIsSound, ShownChainIsCurrent,
     PTL DEF Spec

-----------------------------------------------------------------------------
(* What the variables hold.                                                *)

\* A walk visits routes of the tree.
LEMMA WalkedAreRoutes ==
  ASSUME NEW routes \in Seq(Route), NEW path \in Seq(Segment)
  PROVE  Walked(routes, path) \subseteq Route
<1> DEFINE T == {at \in Trails : Walk[at] \subseteq Route}
<1>1. ASSUME NEW at \in Trails, Further[at] \subseteq T PROVE at \in T
  <2>1. \A c \in Range(Children[at[3]]) : <<at[1], Full(at), c>> \in T
    BY <1>1 DEF Further
  <2>2. \A c \in Range(Children[at[3]]) : Walk[<<at[1], Full(at), c>>] \subseteq Route
    BY <2>1
  <2>3. at[3] \in Route /\ Walk[at] = Visited(Walk, at)
    BY WalkDefined DEF Trails
  <2> HIDE DEF T
  <2> DEFINE deeper == UNION {Walk[<<at[1], Full(at), c>>] : c \in Range(Children[at[3]])}
  <2>4. deeper \subseteq Route
    BY <2>2
  <2>5. Walk[at] = IF FitsPrefix(Full(at), at[1]) THEN {at[3]} \cup deeper ELSE {}
    BY <2>3 DEF Visited, Full
  <2> HIDE DEF deeper
  <2>6. Walk[at] \subseteq Route
    BY <2>3, <2>4, <2>5
  <2> QED BY <2>6 DEF T
<1>2. Trails \subseteq T
  <2> HIDE DEF T
  <2> QED BY <1>1, FurtherIsGrounded, FromBelow
<1>3. \A r \in Range(routes) : <<path, <<>>, r>> \in Trails
  <2>1. <<>> \in Seq(Segment) /\ \A r \in Range(routes) : r \in Route
    BY DEF Range
  <2> QED BY <2>1 DEF Trails
<1>4. \A r \in Range(routes) : Walk[<<path, <<>>, r>>] \subseteq Route
  BY <1>2, <1>3
<1> QED BY <1>4 DEF Walked

\* A navigation is idle, or one of the pipeline's stages at a depth of redirects
\* below the limit.
NavTyped ==
  nav \in [stage : Stages, op : Ops, to : Path, depth : 0 .. (MaxRedirects - 1),
           state : States \cup {NoState}] \cup {Idle}

TypeInv ==
  /\ NavTyped
  /\ result \in {"None", "Success", "Blocked"}
  /\ walked \subseteq Route
  /\ entered \subseteq Lifecycles \X Path

LEMMA RequestIsTyped ==
  ASSUME NEW op \in Ops, NEW to \in Path, NEW depth \in Nat,
         NEW state \in States \cup {NoState}, Request(op, to, depth, state)
  PROVE  NavTyped' /\ result' \in {"None", "Success", "Blocked"}
<1>1. MaxRedirects \in Nat
  BY NavigatorAssumption
<1>2. depth < MaxRedirects => depth \in 0 .. (MaxRedirects - 1)
  BY <1>1
<1> QED BY <1>2 DEF Request, NavTyped, Stages

LEMMA RedirectIsTyped ==
  ASSUME NavOK, NEW to \in Targets, Redirected(to)
  PROVE  NavTyped' /\ result' \in {"None", "Success", "Blocked"}
<1>1. /\ "Push" \in Ops /\ to \in Path /\ nav.depth + 1 \in Nat
      /\ nav.state \in States \cup {NoState}
  BY NavigatorAssumption DEF NavOK, Ops
<1> QED BY <1>1, RequestIsTyped DEF Redirected

LEMMA ProceedIsTyped ==
  ASSUME NavTyped, nav.stage # "idle", NEW stage \in Stages, Proceed(stage)
  PROVE  NavTyped' /\ result' = result
BY DEF NavTyped, Idle, Proceed

LEMMA BlockedIsTyped ==
  ASSUME Blocked
  PROVE  NavTyped' /\ result' \in {"None", "Success", "Blocked"}
BY DEF Blocked, NavTyped

LEMMA TypeInit == Init => TypeInv
BY DEF Init, TypeInv, NavTyped

\* Every action keeps TypeInv.
LEMMA TypeStep == HistoryInv /\ WalkInv /\ TypeInv /\ [Next]_vars => TypeInv'
<1> SUFFICES ASSUME HistoryInv, WalkInv, TypeInv, [Next]_vars PROVE TypeInv'
  OBVIOUS
<1> DEFINE ResultTyped == result \in {"None", "Success", "Blocked"}
<1>1. NavOK /\ CursorOK /\ NavTyped /\ ResultTyped /\ walked \subseteq Route
      /\ entered \subseteq Lifecycles \X Path
  BY DEF HistoryInv, TypeInv
<1>2. ASSUME NEW op \in Ops, NEW to \in Path, NEW state \in States \cup {NoState},
             Call(op, to, state)
      PROVE  TypeInv'
  <2>1. Request(op, to, 0, state) /\ walked' = {} /\ entered' = entered
    BY <1>2 DEF Call
  <2>2. NavTyped' /\ ResultTyped'
    BY <2>1, RequestIsTyped
  <2> QED BY <1>1, <2>1, <2>2 DEF TypeInv
<1>3. CASE Push \/ Replace
  BY <1>2, <1>3 DEF Push, Replace, Ops
<1>4. CASE Back \/ Forward
  <2>1. PICK n \in 1 .. Len(entries), op \in Ops : Call(op, entries[n].path, NoState)
    <3>1. CASE Back
      <4>1. cursor - 1 \in 1 .. Len(entries) /\ "Back" \in Ops
        BY <1>1, <3>1 DEF Back, CursorOK, Ops
      <4> QED BY <3>1, <4>1 DEF Back
    <3>2. CASE Forward
      <4>1. cursor + 1 \in 1 .. Len(entries) /\ "Forward" \in Ops
        BY <1>1, <3>2 DEF Forward, CursorOK, Ops
      <4> QED BY <3>2, <4>1 DEF Forward
    <3> QED BY <1>4, <3>1, <3>2
  <2>2. entries[n] \in Entry
    BY <1>1 DEF CursorOK
  <2>3. entries[n].path \in Path
    BY <2>2 DEF Entry
  <2> QED BY <1>2, <2>1, <2>3
<1>5. ASSUME NEW route \in Late, AddRoute(route) PROVE TypeInv'
  BY <1>1, <1>5 DEF AddRoute, TypeInv, NavTyped
<1>6. CASE RunGuards
  <2>1. nav.stage = "guards" /\ entered' = entered
    BY <1>6 DEF RunGuards
  <2>2. CASE Proceed("deactivate") /\ walked' = Walked(registered, nav.to)
    <3>1. nav.to \in Seq(Segment) /\ registered \in Seq(Route)
      BY <1>1, NavigatorAssumption DEF NavOK, WalkInv
    <3>2. walked' \subseteq Route
      BY <2>2, <3>1, WalkedAreRoutes
    <3>3. NavTyped' /\ ResultTyped'
      BY <1>1, <2>1, <2>2, ProceedIsTyped DEF Stages
    <3> QED BY <1>1, <2>1, <3>2, <3>3 DEF TypeInv
  <2>3. CASE Blocked /\ UNCHANGED walked
    <3>1. NavTyped' /\ ResultTyped'
      BY <2>3, BlockedIsTyped
    <3> QED BY <1>1, <2>1, <2>3, <3>1 DEF TypeInv
  <2>4. CASE (\E to \in Targets : Redirected(to)) /\ UNCHANGED walked
    <3>1. NavTyped' /\ ResultTyped'
      BY <1>1, <2>4, RedirectIsTyped
    <3> QED BY <1>1, <2>1, <2>4, <3>1 DEF TypeInv
  <2> QED BY <1>6, <2>2, <2>3, <2>4 DEF RunGuards
<1>7. ASSUME nav.stage # "idle", walked' = walked, entered' \subseteq Lifecycles \X Path,
             \/ \E stage \in Stages : Proceed(stage)
             \/ Blocked
             \/ \E to \in Targets : Redirected(to)
      PROVE  TypeInv'
  <2>1. NavTyped' /\ ResultTyped'
    BY <1>1, <1>7, ProceedIsTyped, BlockedIsTyped, RedirectIsTyped
  <2> QED BY <1>1, <1>7, <2>1 DEF TypeInv
<1>8. CASE CanDeactivate
  BY <1>1, <1>7, <1>8 DEF CanDeactivate, Stages
<1>9. CASE OnExit
  BY <1>1, <1>7, <1>9 DEF OnExit, Stages
<1>10. CASE PerformNavigation
  <2>1. nav.stage = "perform" /\ Proceed("enter") /\ UNCHANGED <<walked, entered>>
    BY <1>10 DEF PerformNavigation
  <2> QED BY <1>1, <1>7, <2>1 DEF Stages
<1>11. CASE OnEnter
  <2>1. entries[cursor] \in Entry
    BY <1>1 DEF CursorOK
  <2>2. Here \in Path
    BY <2>1 DEF Entry, Here
  <2> QED BY <1>1, <1>7, <1>11, <2>2 DEF OnEnter, Stages, Entering
<1>12. CASE Finish
  BY <1>1, <1>12 DEF Finish, TypeInv, NavTyped
<1>13. CASE UNCHANGED vars
  BY <1>1, <1>13 DEF vars, TypeInv, NavTyped
<1> QED
  BY <1>3, <1>4, <1>5, <1>6, <1>8, <1>9, <1>10, <1>11, <1>12, <1>13 DEF Next, Pipeline

\* The variables hold what they are meant to, whatever the hooks answer; of the
\* pipeline, no redirect goes on at the limit (navigate_with_pipeline).
THEOREM NavigatorTypes == Spec => []TypeOK
<1>1. HistoryInv /\ WalkInv /\ MatchStackIsCurrent /\ TypeInv => TypeOK
  <2> SUFFICES ASSUME HistoryInv, WalkInv, MatchStackIsCurrent, TypeInv PROVE TypeOK
    OBVIOUS
  <2>1. registered \in Seq(Route) /\ Here \in Seq(Segment)
    BY HereIsPath DEF WalkInv
  <2>2. stack \in Seq(Route)
    BY <2>1, ResolveShape DEF MatchStackIsCurrent
  <2> QED BY <2>1, <2>2 DEF TypeOK, TypeInv, NavTyped, HistoryInv, CursorOK
<1> QED
  BY <1>1, TypeInit, TypeStep, WalkInit, WalkStep, HistoryIsSound, ShownChainIsCurrent,
     PTL DEF Spec
=============================================================================
