SPECIFICATION DiskSpec
CONSTANTS
  Startup = Startup
  Libs = Libs
  Prefs = Prefs
  Devs = Devs
  Blocks = 14
  Slots = 2
  MaxEntries = 4
  Root = 4
  Names <- SomeNames
  Hash <- SomeHash
  Files <- SomeFiles
SYMMETRY Symmetric
INVARIANTS
  EverythingFound
  BlocksApart
  FinishedSound
CHECK_DEADLOCK FALSE
