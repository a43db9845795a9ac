SPECIFICATION FairSpec
CONSTANTS
  AutoLibs <- SomeAuto
  ModuleLibs <- SomeModule
  Codes <- SomeCodes
  Fails <- System
  MostOwn = 2
INVARIANTS
  MessageReplied
  NotUnloadedEarly
  ExitReleases
  ExitCodeKept
PROPERTY
  GetsThrough
CHECK_DEADLOCK FALSE
