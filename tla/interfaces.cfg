SPECIFICATION MCSpec
CONSTANTS
  Procs = {p1, p2}
  Sigs = {"a"}
  Events <- ValueEvents
  Chain <- ValueChain
  Waits <- ValueWaits
  Sliced = {}
  Pushed = {"a"}
  Bits = {0}
  Delays = {1}
  Duration = 1
  MaxDelta = 3
SYMMETRY Symmetry
INVARIANTS
  ChangeExact
  EdgeSeen
PROPERTIES
  ReadsStable
  SlicesStable
