\* Two rows, three hosts, a message and a click.
CONSTANTS
  NRows = 2
  NHosts = 3
  MaxMessages = 2
  MaxActions = 2
SPECIFICATION Spec
INVARIANTS
  UpdateSendsWhatIsShown
CHECK_DEADLOCK FALSE
