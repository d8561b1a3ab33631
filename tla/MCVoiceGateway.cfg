SPECIFICATION Spec
CONSTANTS
  Calls = {c1, c2}
  Copies = {1, 2}
  Utterances = {hello}
  shopA = shopA
  shopB = shopB
  Tenants = {shopA, shopB}
  None = None
  MaxVersion = 1
  MaxEvents = 1
  Holder <- MCHolder
INVARIANTS
  CallsKeepApart
  FreshPrompt
  NothingLost
PROPERTIES
  ImplementsCallRecord
  EndSettles
CHECK_DEADLOCK FALSE
