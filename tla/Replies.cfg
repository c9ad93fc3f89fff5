SPECIFICATION Spec
CONSTANTS
  Numbers <- MCNumbers
  PortScenes <- MCPortScenes
  TableScenes <- MCTableScenes
  FlowScenes <- MCFlowScenes
  TraceScenes <- MCTraceScenes
  PortNames = {"p1", "p2"}
  BridgePorts <- MCBridgePorts
  Zones = {"2", "3"}
  LimitMaps <- MCLimitMaps
  PortNumber <- MCPortNumber
  Requests <- MCRequests
  MaxSteps = 3
INVARIANTS
  TypeOK
  OkIsTruth
  RestoredIsAsked
PROPERTY
  ListedIsDeletable
CHECK_DEADLOCK FALSE
