---------------------------- MODULE BrowserHistory ----------------------------
(***************************************************************************)
(* What navigation promises about its history, as a user of the back and   *)
(* forward buttons sees it (history.rs): the pages behind, the page here   *)
(* and the pages ahead.  At most `Limit' pages are kept; the oldest goes   *)
(* first.                                                                  *)
(***************************************************************************)
EXTENDS Naturals, Sequences

CONSTANTS
  Page,   \* what the user may visit
  Limit   \* max_size; 0 means that nothing is ever forgotten

VARIABLES
  behind,  \* the pages `back' leads to, the oldest first
  here,
  ahead    \* the pages `forward' leads to, the nearest first

pages == <<behind, here, ahead>>

TypeOK ==
  /\ behind \in Seq(Page) /\ here \in Page /\ ahead \in Seq(Page)

\* The pages kept of those behind, when all the others are here.
Kept(seq) ==
  IF Limit > 0 /\ Len(seq) + 1 > Limit THEN Tail(seq) ELSE seq

Init == behind = <<>> /\ here \in Page /\ ahead = <<>>

\* To a new page: what was ahead is forgotten.
Visit(page) ==
  /\ behind' = Kept(Append(behind, here))
  /\ here' = page
  /\ ahead' = <<>>

\* This page is another one, or holds another state.
Become(page) == here' = page /\ UNCHANGED <<behind, ahead>>

GoBack ==
  /\ behind # <<>>
  /\ behind' = SubSeq(behind, 1, Len(behind) - 1)
  /\ here' = behind[Len(behind)]
  /\ ahead' = <<here>> \o ahead

GoForward ==
  /\ ahead # <<>>
  /\ behind' = Append(behind, here)
  /\ here' = ahead[1]
  /\ ahead' = Tail(ahead)

Next ==
  \/ \E page \in Page : Visit(page) \/ Become(page)
  \/ GoBack
  \/ GoForward

Spec == Init /\ [][Next]_pages
=============================================================================
