\* Two rows, three hosts, a message and two actions of the user.
CONSTANTS
  NRows = 2
  NHosts = 3
  MaxMessages = 2
  MaxActions = 2
SPECIFICATION Spec
INVARIANTS
  ClicksWaitForRequests
CHECK_DEADLOCK FALSE
