\* A cancelled utterance leaves a hypothesis behind for the next one.
CONSTANTS
  HoldToTalk = TRUE
  LoadMayFail = FALSE
  MaxSecs = 1
  MaxSeq = 3
  MaxCuts = 1
  MaxBacklog = 1
SPECIFICATION Spec
INVARIANT
  LastHypIsThisUtterances
CHECK_DEADLOCK FALSE
