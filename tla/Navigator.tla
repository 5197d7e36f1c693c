------------------------------ MODULE Navigator ------------------------------
(***************************************************************************)
(* The router of flui-navigator (context.rs, state.rs, history.rs): its    *)
(* history with a cursor, the routes registered so far, the chain of       *)
(* routes resolved for the current path, and the pipeline that every       *)
(* navigation runs through.                                                *)
(*                                                                         *)
(* The pipeline holds the router until it returns: its callbacks get an    *)
(* &App and cannot navigate, so a redirect is an answer, not a call.  What *)
(* guards and lifecycle hooks answer is the application's choice.          *)
(***************************************************************************)
EXTENDS RouteTree

CONSTANTS
  Path,          \* the paths the application navigates to
  Targets,       \* the paths hooks redirect to
  Initial, Late, \* the routes of init_router, and those added afterwards
  Hooked,        \* the routes with guards and middleware
  Lifecycles,    \* the routes with a lifecycle
  States,        \* HistoryState values
  NoState,       \* None
  MaxHistory,    \* History::max_size, 1000 in the code
  MaxRedirects   \* MAX_REDIRECT_DEPTH, 5 in the code

Root == <<>>

\* add_route takes the route it adds: it is not also some other's child.
ASSUME NavigatorAssumption ==
  /\ Path \subseteq Seq(Segment) /\ Root \in Path /\ Targets \subseteq Path
  /\ Initial \in Seq(Route) /\ Late \subseteq Route
  /\ \A r \in Late, q \in Route : r \notin Range(Children[q])
  /\ NoState \notin States
  /\ MaxHistory \in Nat
  /\ MaxRedirects \in Nat \ {0}

VARIABLES
  entries,     \* History::entries
  cursor,      \* History::current + 1
  registered,  \* RouterState::routes
  stack,       \* GlobalRouter::match_stack
  nav,         \* the navigation under way
  result,      \* what the last navigation returned
  walked,      \* its routes whose guards were asked and middleware run
  entered      \* the routes told on_enter, with the path, and not yet on_exit

history == <<entries, cursor>>
vars == <<entries, cursor, registered, stack, nav, result, walked, entered>>

Entry == [path : Path, state : States \cup {NoState}]
Here == entries[cursor].path

Ops == {"Push", "Replace", "Back", "Forward"}
Stages == {"guards", "deactivate", "exit", "perform", "enter", "after"}

\* No navigation runs.
Idle == [stage |-> "idle", op |-> "Push", to |-> Root, depth |-> 0, state |-> NoState]
IsIdle == nav = Idle

TypeOK ==
  /\ entries \in Seq(Entry) /\ cursor \in 1..Len(entries)
  /\ MaxHistory > 0 => Len(entries) <= MaxHistory
  /\ registered \in Seq(Route)
  /\ stack \in Seq(Route)
  /\ nav \in [stage : Stages, op : Ops, to : Path, depth : 0..(MaxRedirects - 1),
              state : States \cup {NoState}] \cup {Idle}
  /\ result \in {"None", "Success", "Blocked"}
  /\ walked \subseteq Route
  /\ entered \subseteq Lifecycles \X Path

Init ==
  /\ entries = <<[path |-> Root, state |-> NoState]>>
  /\ cursor = 1
  /\ registered = Initial
  /\ stack = Resolve(Initial, Root)
  /\ nav = Idle
  /\ result = "None"
  /\ walked = {}
  /\ entered = {}

-----------------------------------------------------------------------------
(* The calls.                                                              *)

\* As if the depth of redirects were not counted.
RedirectedForever(to) ==
  nav' = [nav EXCEPT !.stage = "guards", !.op = "Push", !.to = to] /\ UNCHANGED result

\* navigate_with_pipeline: the request is made, unless it is one redirect too
\* many.
Request(op, to, depth, state) ==
  IF depth < MaxRedirects
    THEN /\ nav' = [stage |-> "guards", op |-> op, to |-> to, depth |-> depth, state |-> state]
         /\ result' = "None"
    ELSE nav' = Idle /\ result' = "Blocked"

Redirected(to) == Request("Push", to, nav.depth + 1, nav.state)

Call(op, to, state) ==
  /\ IsIdle
  /\ Request(op, to, 0, state)
  /\ walked' = {}
  /\ UNCHANGED <<history, registered, stack, entered>>

\* push, replace, push_with_state and replace_with_state.
Push == \E to \in Path, state \in States \cup {NoState} : Call("Push", to, state)
Replace == \E to \in Path, state \in States \cup {NoState} : Call("Replace", to, state)

\* back and forward do nothing at their end of the history.
Back == cursor > 1 /\ Call("Back", entries[cursor - 1].path, NoState)
Forward == cursor < Len(entries) /\ Call("Forward", entries[cursor + 1].path, NoState)

\* As if the chain of the current path were not resolved again.
AddRouteStale(route) ==
  /\ IsIdle
  /\ route \notin Range(registered)
  /\ registered' = Append(registered, route)
  /\ result' = "None"
  /\ UNCHANGED <<history, stack, nav, walked, entered>>

\* add_route, with the routes resolved again.
AddRoute(route) ==
  /\ IsIdle
  /\ route \notin Range(registered)
  /\ registered' = Append(registered, route)
  /\ stack' = Resolve(registered', Here)
  /\ result' = "None"
  /\ UNCHANGED <<history, nav, walked, entered>>

-----------------------------------------------------------------------------
(* The pipeline.                                                           *)

Proceed(stage) ==
  nav' = [nav EXCEPT !.stage = stage] /\ UNCHANGED result

Blocked == nav' = Idle /\ result' = "Blocked"

\* The first guard that does not continue decides; there may be one only if
\* some route on the way to the target has guards.
RunGuards ==
  /\ nav.stage = "guards"
  /\ LET met == Walked(registered, nav.to) IN
     \/ Proceed("deactivate") /\ walked' = met
     \/ met \cap Hooked # {} /\ Blocked /\ UNCHANGED walked
     \/ /\ met \cap Hooked # {}
        /\ \E to \in Targets : Redirected(to)
        /\ UNCHANGED walked
  /\ UNCHANGED <<history, registered, stack, entered>>

\* As if the route of the target were asked.
LeavingTarget == Range(CurrentRoute(registered, nav.to)) \cap Lifecycles

\* The route that is asked, and told, that it is left.
Leaving == Range(CurrentRoute(registered, Here)) \cap Lifecycles

CanDeactivate ==
  /\ nav.stage = "deactivate"
  /\ \/ Proceed("exit")
     \/ Leaving # {} /\ Blocked
     \/ Leaving # {} /\ \E to \in Targets : Redirected(to)
  /\ UNCHANGED <<history, registered, stack, walked, entered>>

\* The middleware before it runs the same routes' hooks again.  Of on_exit,
\* only a denial counts.
OnExit ==
  /\ nav.stage = "exit"
  /\ entered' = {e \in entered : e[1] \notin Leaving}
  /\ \/ Proceed("perform")
     \/ Leaving # {} /\ Blocked
  /\ UNCHANGED <<history, registered, stack, walked>>

\* As if the new entry were put after what is ahead.
PushedAtEnd(entry) ==
  LET kept == Append(entries, entry)
      excess == IF MaxHistory > 0 /\ Len(kept) > MaxHistory THEN Len(kept) - MaxHistory ELSE 0
  IN  /\ entries' = From(kept, excess + 1)
      /\ cursor' = Len(kept) - excess

\* History::push: what is ahead is cut off, and the oldest entry goes when
\* there is no room.
Pushed(entry) ==
  LET kept == Append(SubSeq(entries, 1, cursor), entry)
      excess == IF MaxHistory > 0 /\ Len(kept) > MaxHistory THEN Len(kept) - MaxHistory ELSE 0
  IN  /\ entries' = From(kept, excess + 1)
      /\ cursor' = cursor + 1 - excess

Replaced(entry) ==
  entries' = [entries EXCEPT ![cursor] = entry] /\ UNCHANGED cursor

PerformNavigation ==
  /\ nav.stage = "perform"
  /\ LET entry == [path |-> nav.to, state |-> NoState] IN
     \/ nav.op = "Push" /\ Pushed(entry)
     \/ nav.op = "Replace" /\ Replaced(entry)
     \/ nav.op = "Back" /\ cursor' = cursor - 1 /\ UNCHANGED entries
     \/ nav.op = "Forward" /\ cursor' = cursor + 1 /\ UNCHANGED entries
  /\ stack' = Resolve(registered, Here')
  /\ Proceed("enter")
  /\ UNCHANGED <<registered, walked, entered>>

\* The leaf of the new chain.
Entering == {stack[i] : i \in {Len(stack)} \ {0}} \cap Lifecycles

\* A denial is only logged; a route that redirects has been entered too.
OnEnter ==
  /\ nav.stage = "enter"
  /\ \/ Proceed("after")
     \/ Entering # {} /\ \E to \in Targets : Redirected(to)
  /\ entered' = entered \cup {<<r, Here>> : r \in Entering}
  /\ UNCHANGED <<history, registered, stack, walked>>

\* The middleware after it, and the state of push_with_state: on the entry
\* that is current now, whatever the redirects made of it.
Finish ==
  /\ nav.stage = "after"
  /\ IF nav.state = NoState THEN UNCHANGED history
     ELSE Replaced([path |-> Here, state |-> nav.state])
  /\ nav' = Idle
  /\ result' = "Success"
  /\ UNCHANGED <<registered, stack, walked, entered>>

Pipeline ==
  RunGuards \/ CanDeactivate \/ OnExit \/ PerformNavigation \/ OnEnter \/ Finish

Next ==
  \/ Push \/ Replace \/ Back \/ Forward
  \/ \E route \in Late : AddRoute(route)
  \/ Pipeline

Spec == Init /\ [][Next]_vars

\* A navigation is one synchronous call: once begun it is carried on.
FairSpec == Spec /\ WF_vars(Pipeline)

-----------------------------------------------------------------------------
(* Properties.                                                             *)

\* The outlets render what the current path resolves to, in every state a
\* hook can look at: re_resolve and perform_navigation leave no stale chain.
MatchStackIsCurrent == stack = Resolve(registered, Here)

\* resolve_match_stack finds a chain whenever the tree has one for the path,
\* from the first registered route that does, through a backtracking search.
StackAnswersPath == Answers(stack, registered, Here)

\* The routes shown after a navigation had their guards asked and their
\* middleware run for it: the walk for hooks and the search for outlets agree
\* on the routes of a path, but for a default child named `index'.
ShownRoutesAreWalked ==
  result = "Success" =>
    \A i \in DOMAIN stack : Pattern[stack[i]] = <<Index>> \/ stack[i] \in walked

\* current_route, which on_exit goes by, names the route that was entered for
\* the path it was entered at.
Named(e) == e[1] \in Range(CurrentRoute(registered, e[2]))

\* A route that was entered is told when it is left, also where its on_enter
\* redirected, a guard blocked or a hook denied on the way: outside a
\* navigation, whoever awaits its on_exit is on the screen.  on_enter is told
\* to the leaf of the chain, on_exit to the top-level route of another lookup:
\* a route that only the former finds waits for ever, and is left out.
EnteredRoutesAreShown ==
  IsIdle => \A e \in entered : e[1] \in Range(stack) \/ ~Named(e)

\* A navigation ends, however its hooks redirect it.
NavigationEnds == ~IsIdle ~> IsIdle

\* The history is that of a browser.
Browser == INSTANCE BrowserHistory WITH
  Page <- Entry,
  Limit <- MaxHistory,
  behind <- SubSeq(entries, 1, cursor - 1),
  here <- entries[cursor],
  ahead <- From(entries, cursor + 1)

ImplementsHistory == Browser!Spec
=============================================================================
