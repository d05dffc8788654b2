\* Two instances and two requests; two hosts and three changes; two keys;
\* three backups and lines for four rotations; two connections of one context
\* and an address that comes and goes.
CONSTANTS
  Procs = {p1, p2}
  Requests = {r1, r2}
  Ports = {8888}
  Params = {a, b}
  NoParams = NoParams
  NoPort = NoPort
  Torn = Torn
  NoOne = NoOne
  Hosts <- MCHosts
  NoHost = NoHost
  Walkers = {w1}
  MaxChanges = 3
  Ids = {k1, k2}
  Comments = {a, b}
  NoKey = NoKey
  MaxFileSize = 2
  MaxBackupFiles = 3
  MaxLines = 9
  Conns = {c1, c2}
  Contexts = {x1}
  Addrs = {ip1}
  MaxAddrChanges = 2
SPECIFICATION MCSpec
INVARIANTS
  EnvInv
  DiskFollowsMemory
  TransportFollows
  RouteMatches
  MemoryOnDisk
  CounterExact
  TablesExact
PROPERTIES
  CrashKeepsOthers
  OnlyOldestLost
  ContextCloses
  AddressCloses
CHECK_DEADLOCK FALSE
