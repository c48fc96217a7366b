SPECIFICATION DispatchSpec
CONSTANTS
  MaxId = 2
  Callers = {"a", "b"}
  Kinds = {"login"}
  MaxDraws = 4
  MaxServices = 4
  MaxEvents = 3
  Scenarios <- AgentScenarios
INVARIANTS DispatchTypeOK Delivered UpdatesOnce ShownIsOwn ListStringsFreed IdsInRange IdsDistinct
CHECK_DEADLOCK FALSE
