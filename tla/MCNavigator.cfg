SPECIFICATION FairSpec
CONSTANTS
  home = home users = users user = user page = page dash = dash
  list = list layout = layout settings = settings any = any edit = edit
  Route <- Tree
  Segment <- Segments
  Pattern <- TreePattern
  Children <- TreeChildren
  Params <- Colon
  Star = "*"
  Index = "index"
  MaxDepth = 4
  Path <- Paths
  Targets <- Elsewhere
  Initial <- ThreeRoots
  Late <- LateAny
  Hooked <- HookedRoutes
  Lifecycles <- SomeLifecycles
  States <- EveryState
  NoState = NoState
  MaxHistory = 2
  MaxRedirects = 5
INVARIANTS
  MatchStackIsCurrent
  StackAnswersPath
  ShownRoutesAreWalked
  EnteredRoutesAreShown
PROPERTIES
  ImplementsHistory
  NavigationEnds
