SPECIFICATION Spec
CONSTANTS
  a = a
  b = b
  c = c
  None = None
  Tasks = {a, b, c}
  Homes = {"h"}
  HomeOf <- OneHome
  Prefixes = {"p"}
  PrefixOf <- OnePrefix
  Runs = {"r"}
  RunOf <- OneRun
  Schemas = {"users", "posts"}
  SchemaOf <- SchemasUUP
  StaleRunAfter <- Age4
  KeptFailedFor <- Age4
  IdleTemplateAfter <- Age4
  KeepFailed <- KeepNone
  Inspected = {}
  OldRuns = {}
  OldTemplates = {}
  MaxTime = 0
  SetupLimit = 3
  TestLimit = 3
  Mortal = {a, b}
  Severed = {b}
  Faulty = {a, c}
INVARIANTS TypeOK LocksMatchRegions DatabasesComplete PublishFindsRoom OrphansHaveNoBuilder
PROPERTIES InUseNeverForced ImplementsStore
