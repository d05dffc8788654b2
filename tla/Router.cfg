\* Three hosts, one below the other, and two changes of the list.
CONSTANTS
  Hosts <- MCHosts
  NoHost = NoHost
  Walkers = {w1}
  MaxChanges = 2
SPECIFICATION Spec
INVARIANT MoreSpecificWins
CHECK_DEADLOCK FALSE
