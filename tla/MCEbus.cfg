\* A subscriber that may list no events, the event of startup and another.
CONSTANTS
  Raisers = {r1}
  Subscribers = {s1}
  Events <- MCEvents
  NoEvent = NoEvent
  Nil = Nil
SPECIFICATION FairSpec
PROPERTIES
  ImplementsEventBus
CHECK_DEADLOCK FALSE
