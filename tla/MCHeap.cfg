SPECIFICATION FairSpec
CONSTANTS
  Memory = 8
  NewSizes <- SomeSizes
  StringSizes <- SomeStrings
  Foreign <- SomeForeign
  MaxAllocs = 4
INVARIANTS
  HeapInv
  ChainComplete
  ExitReleasesAll
PROPERTIES
  DisposeFreesItsOwn
  NotFoundOnlyForeign
  LoopsEnd
  ImplementsHeapSpec
CHECK_DEADLOCK FALSE
