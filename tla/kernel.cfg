SPECIFICATION FairSpec
CONSTANTS
  p1 = p1
  p2 = p2
  eMaster = eMaster
  eSlave = eSlave
  sig = sig
  Procs <- MCProcs2
  Events <- MCEvents
  Sigs <- MCSigs
  Chain <- MCChain
  Delays = {1, 2}
  Duration = 2
  MaxDelta = 2
INVARIANTS
  TypeOK
  SubscriptionsExact
  TimersExact
  WritesSettle
  NoSlicePastEnd
PROPERTIES
  WakeupNotLost
  TimersSpec
  Terminates
