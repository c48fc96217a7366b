SPECIFICATION Spec
CONSTANTS
  r1 = r1
  r2 = r2
  NoRule = NoRule
  RuleIds <- MCRuleIds
  Versions <- MCVersions
  Payloads <- FaultyPayloads
  Shadows <- FaultyShadows
  InitialFiles <- NoFileOrEmpty
  MirrorBound = 2
  StorageFirst = FALSE
  IoFaults = TRUE
  RestartDuringSave = TRUE
INVARIANTS LockMatchesSections UniqueIds MemoryInMirror
PROPERTIES ImplementsRuleMap
