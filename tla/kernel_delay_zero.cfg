SPECIFICATION Spec
CONSTANTS
  p1 = p1
  p2 = p2
  eMaster = eMaster
  eSlave = eSlave
  sig = sig
  Procs <- MCProcs2
  Events <- MCEvents
  Sigs <- MCSigs
  Chain <- MCChain
  Delays = {0, 2}
  Duration = 2
  MaxDelta = 2
PROPERTIES
  AdvancesToEarliest
