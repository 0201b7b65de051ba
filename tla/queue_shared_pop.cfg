SPECIFICATION QSpec
CONSTANTS
  p1 = p1
  p2 = p2
  p3 = p3
  c1 = c1
  c2 = c2
  Enqueued = Enqueued
  Updated = Updated
  Signal = Signal
  Dflt = Dflt
  Producers <- MCProducers
  Pushers <- MCNoPusher
  Consumers <- MCTwoConsumers
  Procs <- MCTwoConsumersProcs
  Events <- MCEvents
  Sigs <- MCSigs
  Chain <- MCChain
  MaxItems = 2
  Delays = {1, 2}
  Duration = 3
  MaxDelta = 20
INVARIANTS
  BpopWaits
