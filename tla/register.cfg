SPECIFICATION ISpec
CONSTANTS
  FF = "FF"
  FIFO = "FIFO"
  Clk = "Clk"
  Gen = "Gen"
  Rdy = "Rdy"
  Procs = {"FF", "FIFO", "Clk", "Gen", "Rdy"}
  Events <- MCEvents
  Sigs <- MCSigs
  Chain <- MCChain
  HalfPeriod = 1
  MaxItems = 3
  Delays = {1, 2}
  Duration = 7
  MaxDelta = 20
INVARIANT
  NoBubble
PROPERTY
  TransferSpec
