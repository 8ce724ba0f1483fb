\* The pause that cuts is as long as the silence that ends.
CONSTANTS
  Modes = {FALSE}
  Preroll = 1
  SilenceWin = 4
  PauseWin = 4
  MinVoiced = 2
  MaxWindows = 9
SPECIFICATION Spec
INVARIANT
  WordsAreDecoded
CHECK_DEADLOCK FALSE
