CONSTANTS
  c1 = c1
  c2 = c2
  Clients = {c1, c2}
  NoClient = NoClient
  MaxInits = 1
  RepeatInit = FALSE
  MaxFaults = 2
  AnyFaults = 2
  ResetSecret = FALSE
  SyncErrors = {"connect"}
  LongBits = 12
  MaxPower = 6
  Factor = 5
  MinBackoff = 10
  MaxBackoff = 300
SPECIFICATION FairSpec
PROPERTY AlwaysReconnects
