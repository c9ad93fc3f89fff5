SPECIFICATION Spec
CONSTANTS
  Addr <- MCAddr
  Port = {p80}
  Mac = {m1, m2}
  PrefixLen <- MCPrefixLen
  NoAddr = NoAddr
  Devs = {vlan10, eth}
  VlanDevs = {vlan10}
  Hosts = {}
  Gateways = {NoAddr, a2}
  Locals = {}
  NoMac = NoMac
  NoVal = NoVal
  SocketLen = 2
  MaxChanges = 3
  MaxFaults = 0
  MaxRestarts = 0
  a1 = a1
  a2 = a2
  vlan10 = vlan10
  vlan20 = vlan20
  eth = eth
  m1 = m1
  m2 = m2
INVARIANTS
  ListedIsProgrammed
CHECK_DEADLOCK FALSE
