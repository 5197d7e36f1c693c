----------------------------- MODULE MCNavigator -----------------------------
(***************************************************************************)
(* Navigator on a tree that needs its search to backtrack: /dash/edit is   *)
(* not below `dash' but below the parameter `any', registered after it.    *)
(*                                                                         *)
(*   home ""   users "users"    dash "dash"           any ":any"           *)
(*              |                |       |             |                   *)
(*             user ":id"       list    layout ""     edit "edit"          *)
(*              |               "index"  |                                 *)
(*             page ""                  settings "set"                     *)
(***************************************************************************)
EXTENDS Navigator

CONSTANTS home, users, user, page, dash, list, layout, settings, any, edit

Tree == {home, users, user, page, dash, list, layout, settings, any, edit}
Segments == {"users", "dash", "set", "edit", "index", ":", "*"}

TreePattern ==
  [r \in Tree |->
     CASE r = users -> <<"users">> [] r \in {user, any} -> <<":">>
       [] r = dash -> <<"dash">> [] r = list -> <<"index">>
       [] r = settings -> <<"set">> [] r = edit -> <<"edit">>
       [] OTHER -> <<>>]

TreeChildren ==
  [r \in Tree |->
     CASE r = users -> <<user>> [] r = user -> <<page>>
       [] r = dash -> <<list, layout>> [] r = layout -> <<settings>>
       [] r = any -> <<edit>> [] OTHER -> <<>>]

Colon == {":"}
ThreeRoots == <<home, users, dash>>
LateAny == {any}

Paths ==
  {<<>>, <<"users", "set">>, <<"dash">>, <<"dash", "set">>, <<"dash", "edit">>,
   <<"set">>}
Elsewhere == {<<"users", "set">>, <<"dash">>}

HookedRoutes == {user, settings}
\* The leaves of /, /set and /dash/edit.  on_exit finds the first two by the
\* lookup of current_route, the second as soon as it is registered; it does not
\* find the third, since dash comes before.
SomeLifecycles == {home, any, edit}
EveryState == {"scroll"}
=============================================================================
