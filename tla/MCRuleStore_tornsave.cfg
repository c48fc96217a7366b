SPECIFICATION Spec
CONSTANTS
  r1 = r1
  r2 = r2
  NoRule = NoRule
  RuleIds <- MCRuleIds
  Versions <- MCVersions
  Payloads <- GoodPayloads
  Shadows <- MCShadows
  InitialFiles <- MCFiles
  MirrorBound = 4
  StorageFirst = TRUE
  IoFaults = FALSE
  RestartDuringSave = TRUE
PROPERTIES RestartKeepsRules
