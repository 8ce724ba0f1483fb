\* Silence longer than the pause, as shipped (700 and 500 ms), both modes.
CONSTANTS
  Modes = {TRUE, FALSE}
  Preroll = 2
  SilenceWin = 4
  PauseWin = 3
  MinVoiced = 2
  MaxWindows = 9
SPECIFICATION Spec
INVARIANTS
  TypeOK
  NoWordSplit
  WordsAreDecoded
  NoNoiseDecoded
  ConcludesAsAssumed
CHECK_DEADLOCK FALSE
