SPECIFICATION FairSpec
CONSTANTS
  a = a
  b = b
  c = c
  None = None
  Tasks = {a, b}
  Homes = {"h"}
  HomeOf <- OneHome
  Prefixes = {"p"}
  PrefixOf <- OnePrefix
  Runs = {"r", "s"}
  RunOf <- RunsRS
  Schemas = {"users", "posts"}
  SchemaOf <- SchemasUP
  StaleRunAfter <- Age0
  KeptFailedFor <- Age0
  IdleTemplateAfter <- Age0
  KeepFailed <- KeepA
  Inspected = {}
  OldRuns = {}
  OldTemplates <- OldOfB
  MaxTime = 1
  SetupLimit = 1
  TestLimit = 1
  Mortal = {a}
  Severed = {a}
  Faulty = {b}
PROPERTIES EveryTestEnds InUseNeverForced
