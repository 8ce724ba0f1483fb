\* Hold-to-talk, two utterances, models that may fail to load: the engine
\* stops once both recogniser threads are gone, so deadlock is not checked.
CONSTANTS
  HoldToTalk = TRUE
  LoadMayFail = TRUE
  MaxSecs = 1
  MaxSeq = 3
  MaxCuts = 1
  MaxBacklog = 1
SPECIFICATION Spec
INVARIANTS
  TypeOK
  WaitCountsOutstanding
  WaitingForSomething
  InSpokenOrder
  RestingIsShown
  HypothesesArePure
PROPERTIES
  CommitsWholeUtterance
  ImplementsPromise
CHECK_DEADLOCK FALSE
