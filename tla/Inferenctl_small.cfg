SPECIFICATION CtlSpec
CONSTANTS
  ModelIds = {m1, m2}
  Capacity = 1
  MaxTime = 1
  Limit = 10
  RequestFrame = 4
  ChunkFrame = 2
  Large <- mcLarge
  Prompts = {0, 6, 7}
INVARIANTS
  CtlTypeOK
  AnswersMatch
  DescribedIsServed
  ReportedIsDone
  GrowthIsPinned
PROPERTIES
  OneAnswer
  PinsAreKept
  CommandsEnd
