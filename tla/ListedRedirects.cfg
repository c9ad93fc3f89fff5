SPECIFICATION Spec
CONSTANTS
  wan = wan
  web = web
  pc = pc
  http = http
  none = none
  NoAddr = NoAddr
  NoPort = none
  NoVal = NoVal
  NoKey = NoKey
  Addr <- MCAddr
  Port <- MCPort
  Mac = {m1}
  PrefixLen <- MCPrefixLen
  Sources <- MCSources
  SnatTos = {wan}
  DnatTexts <- MCDnatTexts
  ToTexts <- MCToTexts
  MaxFaults = 0
  MaxCrashes = 1
  MaxRequests = 3
INVARIANT ListedRedirects
CHECK_DEADLOCK FALSE
