SPECIFICATION PlatformSpec
CHECK_DEADLOCK FALSE
CONSTANTS
  Names = {1, 2}
  BadNames = {9}
  Puts <- MCPuts
  MaxStandard = 1
  MaxAdvanced = 2
  MaxPage = 2
  MaxVersion = 2
  MaxFaults = 1
  Conns = {"c1", "c2"}
  Services = {"mail", "s3"}
  Topics = {"mail"}
  QueueSize = 1
  MaxWire = 1
  MaxEvents = 2
INVARIANTS  ParametersKept ControlPlanesKept RedisHonest EventsKnown
PROPERTY ImplementsStore
