SPECIFICATION Spec
CONSTANTS
  eth1 = eth1
  vlan10 = vlan10
  vlan5000 = vlan5000
  vlan40000 = vlan40000
  Nics = {eth1}
  Vlans = {vlan10, vlan5000, vlan40000}
  VlanId <- MCVlanId
  Tags = {0, 20, 5000}
  Trunks = {"none", "10-20", "all"}
  NoTrunks = "none"
  BadTrunks = {"all"}
  NoPort = NoPort
  MaxFaults = 1
  MaxCrashes = 1
  MaxRequests = 3
  MaxStops = 1
INVARIANTS
  TypeOK
  MovedIsTagged
PROPERTIES
  AnsweredIsDone
  ErrorHasCause
  HandlersReturn
CHECK_DEADLOCK FALSE
