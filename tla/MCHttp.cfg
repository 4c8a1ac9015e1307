SPECIFICATION Spec
CONSTANTS
  Calls = {1, 2}
  MaxConnections = 2
  BodyLength = 1
  ReplyKinds = {"length", "close", "invalid", "garbage", "short"}
INVARIANT ResponseMatches
INVARIANT ObjectsLive
PROPERTY CallsReturn
CHECK_DEADLOCK FALSE
