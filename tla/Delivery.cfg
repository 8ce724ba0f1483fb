\* Two fields and a window without one, two utterances, one conversion.
CONSTANTS
  Fields = {"left", "right"}
  MaxUtts = 2
  MaxConvs = 1
  MaxCommands = 2
  MaxMoves = 2
SPECIFICATION Spec
INVARIANTS
  TypeOK
  LandsAtMostOnce
  LostOnlyInTheGap
  SteadyLeavesNothing
  PartialsStayHome
CHECK_DEADLOCK FALSE
