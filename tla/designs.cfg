SPECIFICATION MCSpec
CONSTANTS
  Top = "Top"
  Classes <- MCClasses
  Kids <- MCKids
  Archs <- MCArchs
  Ports <- MCPorts
  Type <- MCType
  Acquires <- MCAcquires
  ModNames <- MCModNames
  Chop <- MCChop
  Confs <- MCConfs
  MaxComps = 10
  Channels = {"c1", "c2", "c3", "c4", "c5", "c6", "c7"}
  Intfs <- WIntfs
  Kind <- WKind
  Dtype <- WDtype
  Data <- WData
  Dout <- WDout
  Plan <- WPlan
  Writes <- WWrites
  Names = {"changed"}
  MaxItems = 2
INVARIANTS
  SlavesConnected
  EventsReach
  SlavesReceive
  ConnectsToItsName
  PassiveOutputsApart
  PassiveOnlyWatches
  EverySlaveServed
