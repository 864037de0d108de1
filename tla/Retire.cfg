SPECIFICATION Spec
CONSTANTS
  a = a
  b = b
  c = c
  None = None
  Tasks = {a, b}
  Homes = {"h"}
  HomeOf <- OneHome
  Prefixes = {"p"}
  PrefixOf <- OnePrefix
  Runs = {"r", "s"}
  RunOf <- RunsRS
  Schemas = {"users", "posts"}
  SchemaOf <- SchemasUP
  StaleRunAfter <- Age4
  KeptFailedFor <- Age4
  IdleTemplateAfter <- Age2
  KeepFailed <- KeepNone
  Inspected <- TemplateOfB
  OldRuns = {}
  OldTemplates <- OldOfB
  MaxTime = 4
  SetupLimit = 2
  TestLimit = 3
  Mortal = {b}
  Severed = {}
  Faulty = {}
INVARIANTS SecondCloneFindsTemplate
