SPECIFICATION Spec
CONSTANTS
  a = a
  b = b
  c = c
  None = None
  Tasks = {a, b}
  Homes = {"h"}
  HomeOf <- OneHome
  Prefixes = {"p"}
  PrefixOf <- OnePrefix
  Runs = {"r", "s"}
  RunOf <- RunsRS
  Schemas = {"users"}
  SchemaOf <- OneSchema
  StaleRunAfter <- Age4
  KeptFailedFor <- Age2
  IdleTemplateAfter <- Age4
  KeepFailed <- KeepA
  Inspected <- TestDbOfA
  OldRuns <- OldRunR
  OldTemplates = {}
  MaxTime = 6
  SetupLimit = 3
  TestLimit = 3
  Mortal = {b}
  Severed = {a}
  Faulty = {b}
INVARIANTS LocksMatchRegions Tracked OnlyFailuresOutlive
PROPERTIES KeptUntilOld
