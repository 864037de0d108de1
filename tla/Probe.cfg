SPECIFICATION FairSpec
CONSTANTS
  a = a
  b = b
  c = c
  Callers = {a, b}
  Timeout <- ShortLongEqual
  BusyTimeout <- LongShortEqual
  Retry = 1
  LastStart = 1
  MaxTime = 5
  None = None
INVARIANTS WaitIsBounded FullIsWaitedFor RestartIsWaitedFor
PROPERTIES ProbedTogether EveryProbeEnds
