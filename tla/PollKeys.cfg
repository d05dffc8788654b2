\* The keys: a change that fails on disk has been made in memory.
CONSTANTS
  Pollers = {p1}
  Writers = {w1}
  Failing = {w1}
  Contents = {a, b}
  Changed = Changed
  NoTag = NoTag
  NoEvent = NoEvent
SPECIFICATION FairSpec
PROPERTIES
  ChangeAnswered
CHECK_DEADLOCK FALSE
