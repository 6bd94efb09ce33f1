CONSTANTS
  Client = {alice, bob}
  Body = {hi, yo}
  NoSession = NoSession
  MaxKeypairs = 2
  MaxResponses = 2
  MaxSends = 1
SPECIFICATION Spec
INVARIANT ReplyIsSendable
CHECK_DEADLOCK FALSE
