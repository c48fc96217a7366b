CONSTANTS
  c1 = c1
  c2 = c2
  Clients = {c1, c2}
  NoClient = NoClient
  MaxInits = 3
  RepeatInit = TRUE
  MaxFaults = 8
  AnyFaults = 2
  ResetSecret = TRUE
  SyncErrors = {"prepare", "create", "connect"}
  LongBits = 12
  MaxPower = 6
  Factor = 10
  MinBackoff = 10
  MaxBackoff = 300
SPECIFICATION FairSpec
INVARIANTS TypeOK FlagMatchesClient OneClient StaysDisconnected WaitInBounds NoDanglingClient
PROPERTIES Reconnects CallsEnd
