SPECIFICATION CFairSpec
CONSTANTS
  p1 = p1
  p2 = p2
  v0 = v0
  v1 = v1
  NoVal = NoVal
  InSig = InSig
  OutEvent = OutEvent
  Procs <- MCProcs
  Events <- MCEvents
  Sigs <- MCSigs
  Chain <- MCChain
  Vals <- MCVals
  InDflt = v0
  OutDflt = v0
  MaxChanges = 2
  SlowAnswers = TRUE
  Delays = {1,2}
  Duration = 2
  MaxDelta = 4
PROPERTY
  HdlEnds
