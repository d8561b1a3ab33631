\* One call, webhooks in any order, call.initiated perhaps twice (with different
\* answers of the tenant lookup), adapters may reject.
SPECIFICATION FairSpec
CONSTANTS
  None = None
  Calls = {c1}
  MaxCopies = 2
  Redelivered = {"initiated"}
  MaxTurns = 1
  Tools <- MCTools
  CanRecord = TRUE
  CanTransfer = TRUE
  MayThrow = TRUE
INVARIANTS
  RecordingAfterConsent
  RecordingFiledWithConsent
  AnswerNotDropped
  StoredOutcomeCurrent
  TornDown
PROPERTIES
  ImplementsLedger
  EndIsFiled
  UnknownTenantIsReleased
CHECK_DEADLOCK FALSE
