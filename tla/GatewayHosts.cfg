SPECIFICATION Spec
CONSTANTS
  Addr <- MCAddr
  Port = {p80}
  Mac = {m1, m2}
  PrefixLen <- NoPrefixLen
  NoAddr = NoAddr
  Devs = {vlan10, vlan20, eth}
  VlanDevs = {vlan10, vlan20}
  Hosts = {a1}
  Gateways = {NoAddr, a2}
  Locals = {a2}
  NoMac = NoMac
  NoVal = NoVal
  SocketLen = 2
  MaxChanges = 3
  MaxFaults = 1
  MaxRestarts = 1
  a1 = a1
  a2 = a2
  vlan10 = vlan10
  vlan20 = vlan20
  eth = eth
  m1 = m1
  m2 = m2
INVARIANTS
  TypeOK
  FibIsListed
  InSync
PROPERTIES
  EventuallyInSync
CHECK_DEADLOCK FALSE
