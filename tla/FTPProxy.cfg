\* Three requests for a site share idle connections, with fairness.
CONSTANTS
  Requests = {r1, r2, r3}
  Sites = {s1}
  Nil = Nil
SPECIFICATION FairSpec
INVARIANTS
  ExclusiveUse
PROPERTIES
  RequestsAnswered
  IdleExpires
CHECK_DEADLOCK FALSE
