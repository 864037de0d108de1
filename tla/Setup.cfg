SPECIFICATION Spec
CONSTANTS
  a = a
  b = b
  Unset = Unset
  Garbled = Garbled
  NotGiven = Unset
  Tests = {a, b}
  Processes = {1, 2}
  Segments <- SegmentsUsed
  Initials <- InitialsUsed
  Length <- LengthOf
  Hex <- HexSegments
  MaxIdentifier = 39
  MaxSecs = 15
  SecsPerMin = 4
  Default <- Defaults
  Placements <- Placed
  FirstDisks <- FirstFiles
  Functions <- FunctionsUsed
  Files <- FilesUsed
  Dirs = {"pkg", "root"}
  Ancestors <- PathsOfTwo
  Explicits = {Unset, "root"}
  Urls = {Unset, Garbled, "env"}
  OwnConfig <- OwnConfigs
  Contents <- ContentsUsed
  Chars = {"x", "y", "z", "row"}
  Directories <- DirectoriesUsed
  Migrators <- MigratorsUsed
  MaxEdits = 1
INVARIANTS ClonesMatchSource OneConfigPerProcess AttributeDecides LongerSettingLongerAge NamesFit NamesTellKinds ListsCatchTheirOwn
