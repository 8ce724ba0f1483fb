\* A key pressed during one utterance, and then another utterance.
CONSTANTS
  Fields = {"field"}
  MaxUtts = 2
  MaxConvs = 1
  MaxCommands = 2
  MaxMoves = 1
SPECIFICATION Spec
INVARIANT
  MidWordCostsNothing
CHECK_DEADLOCK FALSE
