SPECIFICATION Spec
CONSTANTS
  Evo = TRUE
  Sources <- SomeSources
  Bodies <- SomeBodies
  Junk <- SomeJunk
  JunkLength = 2
INVARIANTS
  RoundTrip
  NothingLostSilently
