\* Three dials share sessions of two connections each, or two dials race with
\* two changes of the server parameters.
CONSTANTS
  Nil = Nil
  Dials = {1, 2, 3}
  Reconnects = {r1, r2}
  Boot = boot
  password = password
  keyid = keyid
  empty = empty
  Params = {password, keyid}
  OkOutcomes <- MCOkOutcomes
  MaxConn = 2
SPECIFICATION MCSpec
INVARIANTS
  Inv
  Accounting
  RefcntBounded
  NoLostWakeup
  ContextIsolation
  DisconnectComplete
  ConnStateFollowsConfig
PROPERTIES
  DialReturns
CHECK_DEADLOCK FALSE
