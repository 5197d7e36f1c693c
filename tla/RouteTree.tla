------------------------------ MODULE RouteTree ------------------------------
(***************************************************************************)
(* The route tree of flui-navigator and the four ways its code matches a   *)
(* path against it (resolve.rs, state.rs, context.rs, route.rs).           *)
(*                                                                         *)
(* A path, and a route's pattern, is the sequence of its segments: the     *)
(* slashes around it are trimmed by every caller (normalize_path,          *)
(* trim_slashes).  The values captured by parameters are left out: no      *)
(* choice of the router depends on them.                                   *)
(***************************************************************************)
EXTENDS Naturals, Sequences, SequencesExt

CONSTANTS
  Route,      \* the routes of the application
  Segment,    \* the segments of paths and patterns
  Pattern,    \* Route -> Seq(Segment): config.path, split
  Children,   \* Route -> Seq(Route), in the order of registration
  Params,     \* the segments that start with `:'
  Star,       \* the segment `*'
  Index,      \* the segment `index'
  MaxDepth    \* MAX_DEPTH, 16 in the code

\* A route owns its children, so no route is below itself.
ASSUME RouteTreeAssumption ==
  /\ Pattern \in [Route -> Seq(Segment)]
  /\ Children \in [Route -> Seq(Route)]
  /\ \A S \in SUBSET Route : S # {} => \E r \in S : Range(Children[r]) \cap S = {}
  /\ Params \subseteq Segment
  /\ MaxDepth \in Nat

\* The segments at and after position n.
From(path, n) == SubSeq(path, n, Len(path))

\* The pattern takes the first segments of `path', one by one.
FitsPrefix(pattern, path) ==
  /\ Len(pattern) <= Len(path)
  /\ \A i \in DOMAIN pattern : pattern[i] \in Params \/ pattern[i] = path[i]

\* The first element of a sequence that is in a set, as a sequence of it alone;
\* the empty sequence if there is none.
FirstIn(seq, good) ==
  LET at == {i \in DOMAIN seq : seq[i] \in good} IN
  IF at = {} THEN <<>> ELSE <<seq[Min(at)]>>

\* The chain of default children below a route whose segments end the path: a
\* child with an empty pattern before one named `index', and only the former
\* brings its own children.
IndexChain[route \in Route] ==
  LET empty == FirstIn(Children[route], {r \in Route : Pattern[r] = <<>>})
      named == FirstIn(Children[route], {r \in Route : Pattern[r] = <<Index>>})
  IN  IF empty = <<>> THEN named ELSE empty \o IndexChain[empty[1]]

\* A depth-first search with backtracking succeeds, at a depth, from a route
\* down, for the segments that remain.
Leads[at \in Nat \X Route \X Seq(Segment)] ==
  LET route == at[2]
      after == From(at[3], Len(Pattern[route]) + 1)
  IN  /\ at[1] < MaxDepth
      /\ FitsPrefix(Pattern[route], at[3])
      /\ \/ after = <<>>
         \/ \E c \in Range(Children[route]) : Leads[<<at[1] + 1, c, after>>]

\* The first of `routes' from which it succeeds.
FirstLeading(depth, routes, remaining) ==
  FirstIn(routes, {r \in Range(routes) : Leads[<<depth, r, remaining>>]})

\* The chain of routes it finds there: where the segments end, the default
\* children are added.
Search[at \in Nat \X Route \X Seq(Segment)] ==
  LET route == at[2]
      after == From(at[3], Len(Pattern[route]) + 1)
      next == FirstLeading(at[1] + 1, Children[route], after)
  IN  IF ~Leads[at] THEN <<>>
      ELSE <<route>> \o IF after = <<>> THEN IndexChain[route]
                        ELSE Search[<<at[1] + 1, next[1], after>>]

\* The chain from the first route of a sequence of at most one.
ChainFrom(first, path) == IF first = <<>> THEN <<>> ELSE Search[<<0, first[1], path>>]

\* As if the first route that takes a segment kept the path.
ResolveWithoutBacktracking(routes, path) ==
  ChainFrom(FirstIn(routes, {r \in Route : FitsPrefix(Pattern[r], path)}), path)

Resolve(routes, path) == ChainFrom(FirstLeading(0, routes, path), path)

\* Route::matches: the pattern is the whole path, or reaches a `*' on its way.
Matches(route, path) ==
  LET pattern == Pattern[route] IN
  \/ Len(path) = Len(pattern) /\ Star \notin Range(pattern) /\ FitsPrefix(pattern, path)
  \/ \E i \in DOMAIN pattern :
       /\ pattern[i] = Star
       /\ FitsPrefix(SubSeq(pattern, 1, i - 1), path)

\* RouterState::current_route: the first registered route that matches, or is
\* letter by letter a prefix of the path, or is a root with children.
CurrentRoute(routes, path) ==
  FirstIn(routes, {r \in Route :
    \/ Matches(r, path)
    \/ Pattern[r] # <<>> /\ IsPrefix(Pattern[r], path)
    \/ Pattern[r] = <<>> /\ Children[r] # <<>>})

\* walk_matching_routes: on the way of a path, the routes from a route down
\* whose pattern, with those of its ancestors before it, is a prefix of the path.
Walk[at \in Seq(Segment) \X Seq(Segment) \X Route] ==
  LET full == at[2] \o Pattern[at[3]] IN
  IF FitsPrefix(full, at[1])
    THEN {at[3]} \cup UNION {Walk[<<at[1], full, c>>] : c \in Range(Children[at[3]])}
    ELSE {}

\* As if only the top-level routes were visited.
WalkedAtTop(routes, path) == {r \in Range(routes) : FitsPrefix(Pattern[r], path)}

Walked(routes, path) == UNION {Walk[<<path, <<>>, r>>] : r \in Range(routes)}

-----------------------------------------------------------------------------
(* What resolution means, said without the search: the lineages whose      *)
(* patterns, end to end, are the path.                                     *)

IsLineage(chain) ==
  \A i \in 1..(Len(chain) - 1) : chain[i + 1] \in Range(Children[chain[i]])

\* The patterns of a chain, end to end.
FullPattern[chain \in Seq(Route)] ==
  IF chain = <<>> THEN <<>> ELSE Pattern[Head(chain)] \o FullPattern[Tail(chain)]

Reaches(chain, path) ==
  Len(FullPattern[chain]) = Len(path) /\ FitsPrefix(FullPattern[chain], path)

\* The lineages of at most n routes.
LineagesTo[n \in Nat] ==
  IF n = 0 THEN {}
  ELSE {<<r>> : r \in Route}
         \cup UNION {{<<r>> \o c : c \in {d \in LineagesTo[n - 1] : d[1] \in Range(Children[r])}}
                      : r \in Route}

Lineages == LineagesTo[MaxDepth]

\* `chain' ends with the default children of one of its routes.
IndexEnd(chain, n) ==
  From(chain, n + 1) = IndexChain[chain[n]]

\* `chain' is what the path deserves: a lineage of the first registered route
\* that has one for it, then default children; and empty only if no route does.
Answers(chain, routes, path) ==
  LET Has(r) == \E c \in Lineages : c[1] = r /\ Reaches(c, path) IN
  IF \E r \in Range(routes) : Has(r)
    THEN /\ IsLineage(chain)
         /\ chain # <<>> /\ <<chain[1]>> = FirstIn(routes, {r \in Route : Has(r)})
         /\ \E n \in DOMAIN chain :
              Reaches(SubSeq(chain, 1, n), path) /\ IndexEnd(chain, n)
    ELSE chain = <<>>
=============================================================================
