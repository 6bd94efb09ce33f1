CONSTANTS
  Client = {alice, bob}
  Body = {hi, yo}
  NoSession = NoSession
  MaxKeypairs = 2
  MaxResponses = 2
  MaxSends = 1
SPECIFICATION Spec
SYMMETRY Symmetry
INVARIANTS
  TypeOK
  NonceNeverReused
  SecretsPairUp
  SentIsStored
  HistoryMatchesReceipts
PROPERTY
  ChannelSpec
CHECK_DEADLOCK FALSE
