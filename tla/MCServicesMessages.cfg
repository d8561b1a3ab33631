\* Two messages, the default three attempts, calls may be rejected.
SPECIFICATION MessagesSpec
CONSTANTS
  Requests = {}
  Sessions = {}
  Rows = {}
  Subscribers = {}
  Profiles = {}
  None = None
  Stored = TRUE
  MaxEdits = 0
  Ids = {n1, n2}
  MaxAttempts = 3
  MayThrow = TRUE
PROPERTIES
  ImplementsStatus
  AnsweredLeavesQueue
CHECK_DEADLOCK FALSE
