CONSTANTS
  Fingerprint = {"f1"}
  Route = {"none", "endpoint", "onion"}
  MaxChats = 1
  MaxMessages = 2
  MaxManagers = 2
  ChannelSize = 1
SPECIFICATION Spec
INVARIANT TypeOK
PROPERTIES
  GoneStaysGone
  EventuallyDelivered
CHECK_DEADLOCK FALSE
