---------------------------- MODULE SubscriberSet ----------------------------
(***************************************************************************)
(* SubscriberSet (subscription.rs): who listens to what.  The set maps an  *)
(* emitter to the subscribers it has; while `retain' calls them, it holds  *)
(* them itself and leaves None under the emitter.  A pass is what retain   *)
(* keeps on its stack meanwhile.  Callbacks may insert, drop and notify    *)
(* between any two calls of a pass, so retain is three operations here.    *)
(***************************************************************************)
EXTENDS Naturals, Sequences, FiniteSets

CONSTANTS
  Emitters,    \* entities
  MaxSubs      \* bound on next_subscriber_id

ASSUME MaxSubsAssumption == MaxSubs \in Nat

Ids == 1 .. MaxSubs

\* What `subscribers' holds for an emitter: no key, Some(None), Some(Some(ids)).
Absent == [kind |-> "absent", ids |-> {}]
Taken == [kind |-> "taken", ids |-> {}]
Here(ids) == [kind |-> "here", ids |-> ids]

Entries == [kind : {"absent", "taken", "here"}, ids : SUBSET Ids]

\* keys[i] is the emitter_key that the unsubscribe closure of subscriber i
\* captured; Len(keys) + 1 is next_subscriber_id.
SubscriberSets ==
  [entry : [Emitters -> Entries],
   dropped : SUBSET (Emitters \X Ids),
   keys : UNION {[1 .. n -> Emitters] : n \in 0 .. MaxSubs}]

EmptySet == [entry |-> [e \in Emitters |-> Absent], dropped |-> {}, keys |-> <<>>]

Known(set) == 1 .. Len(set.keys)

Insert(set, e) ==
  [set EXCEPT !.entry[e] = Here(@.ids \cup {Len(set.keys) + 1}),
              !.keys = Append(@, e)]

\* As if a drop during a pass were forgotten.
UnsubscribeOutsidePasses(set, i) ==
  LET e == set.keys[i]
      rest == set.entry[e].ids \ {i}
  IN  IF set.entry[e].kind = "here"
      THEN [set EXCEPT !.entry[e] = IF rest = {} THEN Absent ELSE Here(rest)]
      ELSE set

\* Dropping the Subscription of i: the closure `insert' returned.
Unsubscribe(set, i) ==
  LET e == set.keys[i]
      rest == set.entry[e].ids \ {i}
  IN  CASE set.entry[e].kind = "absent" -> set
        [] set.entry[e].kind = "here" ->
             [set EXCEPT !.entry[e] = IF rest = {} THEN Absent ELSE Here(rest)]
        [] OTHER -> [set EXCEPT !.dropped = @ \cup {<<e, i>>}]

\* SubscriberSet::remove, for each emitter of E.
RemoveAll(set, E) ==
  [set EXCEPT !.entry = [e \in Emitters |-> IF e \in E THEN Absent ELSE @[e]]]

\* retain, first part: take the subscribers, if they are there to take.
Take(set, e) == [set EXCEPT !.entry[e] = Taken]

\* As if what retain kept replaced what came meanwhile.
PutBackOver(set, e, kept) ==
  LET left == kept \ {d[2] : d \in set.dropped}
  IN  [set EXCEPT !.entry[e] = IF left = {} THEN Absent ELSE Here(left),
                  !.dropped = {}]

\* retain, last part: what it kept, what came meanwhile, less what was dropped.
PutBack(set, e, kept) ==
  LET left == (kept \cup set.entry[e].ids) \ {d[2] : d \in set.dropped}
  IN  [set EXCEPT !.entry[e] = IF left = {} THEN Absent ELSE Here(left),
                  !.dropped = {}]
=============================================================================
