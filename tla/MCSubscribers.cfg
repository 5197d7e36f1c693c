SPECIFICATION FairSpec
CONSTANTS
  Emitters = {e1}
  MaxSubs = 3
  Jobs = {}
  MaxQueue = 3
  MaxNesting = 2
  MaxPanics = 1
  PanicIn <- Guarded
INVARIANTS AppIsUsable OwedIsScheduled LiveSubscribersAreKept
  DropsAreHonoured
PROPERTIES NotifyIsHandled
