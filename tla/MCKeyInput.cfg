SPECIFICATION FairSpec
CONSTANTS
  Elements <- DialogAndField
  Parent <- ParentIn
  TextField = "field"
  Keys = {"g", "x", "y"}
  TextKeys = {"g"}
  KeyMaps <- SomeMaps
  MaxKeys = 4
  MaxChanges = 3
INVARIANTS
  ObserversAgree
  FocusIsHeard
PROPERTIES
  FocusEventsChain
  KeysKeepOrder
  TextIsDelivered
CHECK_DEADLOCK FALSE
