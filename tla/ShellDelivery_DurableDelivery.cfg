CONSTANTS
  Fingerprint = {"f1"}
  Route = {"none", "endpoint", "onion"}
  MaxChats = 1
  MaxMessages = 1
  MaxManagers = 1
  ChannelSize = 1
SPECIFICATION Spec
PROPERTY DurableDelivery
CHECK_DEADLOCK FALSE
