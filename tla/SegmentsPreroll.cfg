\* As shipped: the pre-roll (750 ms) is longer than the silence (700 ms).
CONSTANTS
  Modes = {FALSE}
  Preroll = 5
  SilenceWin = 4
  PauseWin = 3
  MinVoiced = 2
  MaxWindows = 8
SPECIFICATION Spec
INVARIANT
  SilenceIsTrailing
CHECK_DEADLOCK FALSE
