SPECIFICATION FairSpec
CONSTANTS
  r1 = r1
  r2 = r2
  NoRule = NoRule
  RuleIds <- MCRuleIds
  Versions <- MCVersions
  Payloads <- ReadablePayloads
  Shadows <- MCShadows
  InitialFiles <- ReadableFiles
  MirrorBound = 4
  StorageFirst = TRUE
  IoFaults = FALSE
  RestartDuringSave = FALSE
PROPERTIES RestartKeepsRules OperationsEnd
