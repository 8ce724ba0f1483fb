\* A letter, a latch and the trigger; two presses, three changes of the field.
CONSTANTS
  Keys = {"letter", "latch", "pedal"}
  NoKey = NoKey
  Latches = {"latch"}
  Trigger = "pedal"
  MaxPresses = 2
  MaxChanges = 3
  MaxLosses = 1
SPECIFICATION Spec
INVARIANTS
  TypeOK
  GrabFollowsField
  SecretsStayHome
  RepeatOnlyHeld
  NoKeyStuck
CHECK_DEADLOCK FALSE
