SPECIFICATION LiveSpec
CONSTANTS
  a = a
  w1 = w1
  x = x
  y = y
  HostKeys = {a}
  WorkloadKeys = {w1}
  Hostnames = {x, y}
  NoHostname = NoHostname
  Nobody = Nobody
  MaxRuns = 2
  MaxUids = 2
  MaxChanges = 4
  MaxFaults = 1
PROPERTIES
  RoutesReturn
INVARIANTS
  TablesAgree
  NoStaleRoute
  RequestsReachLiveHosts
