\* Press-once, no load failures: the engine always comes to rest.
CONSTANTS
  HoldToTalk = FALSE
  LoadMayFail = FALSE
  MaxSecs = 2
  MaxSeq = 2
  MaxCuts = 1
  MaxBacklog = 1
SPECIFICATION Spec
PROPERTIES
  ComesToRest
