CONSTANTS
  Fingerprint = {"f1", "f2"}
  Route = {"none", "onion"}
  MaxChats = 1
  MaxMessages = 1
  MaxManagers = 2
  ChannelSize = 1
SPECIFICATION Spec
INVARIANT RoutesResolve
PROPERTY OutboxSpec
CHECK_DEADLOCK FALSE
