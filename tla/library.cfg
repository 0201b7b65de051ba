SPECIFICATION MCSpec
CONSTANTS
  Procs = {"main", "clk", "acquire", "send", "design", "recv", "passive", "compare"}
  Sigs = {"in", "dut", "ref", "clk", "bus", "ready", "pipe"}
  Events = {"in.enqueued", "in.updated", "dut.enqueued", "dut.updated", "ref.enqueued", "ref.updated", "clk.posedge", "last_data_event"}
  Chain <- TlmChain
  Lens <- BurstLens
  SendDelays = {0, 1, 3}
  Latency = 1
  Stalls = TRUE
  HalfPeriod = 1
  Delays = {1, 3}
  Duration = 18
  MaxDelta = 20
  Signals = {"s1", "s2"}
  Declared = {"s1"}
  TraceValues = {0, 1}
  UserCalls = {"u1", "u2"}
  Hooked <- TwoCalls
  Step = 1
  Letters = 2
  MaxTime = 2
  MaxDeltas = 2
INVARIANTS
  BurstsWhole
  ScoreboardExact
  BitsExact
  ValidityHonest
  BitsKept
  HooksExact
  FileExact
  SameSeedSameItems
