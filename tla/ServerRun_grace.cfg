SPECIFICATION ServerFairSpec
CONSTANTS
  Kinds = {"http", "proxy", "grpc"}
  MaxActive = 2
PROPERTIES GraceBoundsStop
CHECK_DEADLOCK FALSE
