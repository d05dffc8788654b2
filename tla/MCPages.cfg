\* Two goroutines raise three kinds of events, a subscriber comes and goes;
\* a request polls a resource with three contents that two writers change;
\* a page follows two paths; two rows, three hosts, a message and two
\* actions of the user.
CONSTANTS
  Pollers = {p1}
  Writers = {w1, w2}
  Failing = {}
  Contents = {a, b, c}
  Changed = Changed
  NoTag = NoTag
  NoEvent = NoEvent
  Raisers = {r1, r2}
  Subscribers = {s1}
  Events <- MCEvents
  Paths = {sites, state}
  SockContents = {x, y}
  NRows = 2
  NHosts = 3
  MaxMessages = 2
  MaxActions = 2
SPECIFICATION MCSpec
INVARIANTS
  PagesInv
  WakeupExact
  NoMissedChange
  CheckedIsShown
  RequestsCounted
PROPERTIES
  ImplementsAllButStartup
  LowestDelivered
  ChangeAnswered
  AbandonedEnds
  PageFollows
CHECK_DEADLOCK FALSE
