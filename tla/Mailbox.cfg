CONSTANTS
  Recipient = {r1}
  Capacity = 2
  Ttl = {1}
  BaseBackoff = 1
  MaxBackoff = 2
  MaxEnvelopes = 3
  MaxSubmissions = 3
  MaxTime = 2
SPECIFICATION RetrySpec
INVARIANTS
  TypeOK
  SlotsSound
  SavedIsNotLost
PROPERTIES
  LetterSpec
  AttemptsSpread
CHECK_DEADLOCK FALSE
