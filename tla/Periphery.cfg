\* Six components, one at a time; the smallest instances that mix two of
\* everything.
CONSTANTS
  Procs = {"left", "right"}
  Triggers = {"f13", "f14"}
  FirstTrigger = "f13"
  Cap = 1
  MaxHappens = 2
  Cycle <- TheCycle
  Registers = {"mozc"}
  Modes = {"A", "H"}
  FirstMode = "A"
  MaxChanges = 3
  MaxFaults = 1
  Tables <- TheTables
  Slots = 2
  MaxSignals = 4
  Chars = {"a", "w"}
  Wide = {"w"}
  Fields <- TheFields
  Drains <- TheDrains
  MaxText = 2
  MaxSteps = 4
  Hypotheses <- TheHypotheses
  Finals <- TheFinals
  Window = 2
  Budget = 2
  Room = 2
  MaxUtts = 2
  MaxHyps = 3
  Capacity = 4
  Block = 2
  Dequeued = 3
  Preroll = 2
  Captured = 8
SPECIFICATION Spec
INVARIANTS
  TypeOK
  CaughtUp
  ShownIsInEffect
  BusyIsHonest
  KnowsTheField
  DeletesWhatWasAsked
  TypesWhatWasSaid
  ReadsWhatWasCaptured
PROPERTIES
  SomebodyTakesOver
  ContextComesBack
  PopupSettles
CHECK_DEADLOCK FALSE
