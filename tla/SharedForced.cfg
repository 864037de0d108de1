SPECIFICATION Spec
CONSTANTS
  a = a
  b = b
  c = c
  None = None
  Tasks = {a, b, c}
  Homes = {"h", "k", "z"}
  HomeOf <- HomesHKK
  Prefixes = {"p"}
  PrefixOf <- OnePrefix
  Runs = {a, b, c}
  RunOf <- OwnRun
  Schemas = {"users", "posts"}
  SchemaOf <- SchemasPPU
  StaleRunAfter <- Age4
  KeptFailedFor <- Age4
  IdleTemplateAfter <- Age2
  KeepFailed <- KeepNone
  Inspected = {}
  OldRuns = {}
  OldTemplates <- OldOfZ
  MaxTime = 0
  SetupLimit = 2
  TestLimit = 3
  Mortal = {}
  Severed = {}
  Faulty = {}
PROPERTIES InUseNeverForced
