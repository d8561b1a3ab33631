\* Two requests of calls with and without a row, and an edit of the webhook tool.
SPECIFICATION ToolsSpec
CONSTANTS
  Requests = {r1, r2}
  Sessions = {row, stranger}
  Rows = {row}
  Subscribers = {kim, lee}
  Profiles = {kim}
  None = None
  Stored = TRUE
  MaxEdits = 1
  Ids = {}
  MaxAttempts = 0
  MayThrow = FALSE
INVARIANTS
  TicketAfterLookup
  ToldIsTrue
  SealedAsDefined
SYMMETRY Symmetry
CHECK_DEADLOCK FALSE
