\* Two commands, each with an instance that it may start.
CONSTANTS
  Adms = {a1, a2}
  MaxTries = 1
  NoOne = NoOne
SPECIFICATION Spec
INVARIANTS
  RemovesAlone
CHECK_DEADLOCK FALSE
