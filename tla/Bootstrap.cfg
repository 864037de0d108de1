SPECIFICATION FairSpec
CONSTANTS
  Tasks = {a, b, c}
  Tables = {"runs", "databases", "templates"}
  None = None
  Mortal = {a, b}
  Severed = {}
  Faulty = {b, c}
INVARIANTS ReadyHasTables OneCreator
PROPERTIES TablesAppearTogether EveryBootstrapEnds
