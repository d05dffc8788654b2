\* A dial meets a reconnect that waits.
CONSTANTS
  Nil = Nil
  Dials = {1, 2}
  Reconnects = {r1}
  Boot = boot
  password = password
  keyid = keyid
  empty = empty
  Params = {password, empty}
  OkOutcomes <- MCOkOutcomes
  MaxConn = 2
SPECIFICATION FairSpec
PROPERTIES
  ReconnectReturns
CHECK_DEADLOCK FALSE
