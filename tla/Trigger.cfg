\* Two ordinary keys and Escape, a channel of two.
CONSTANTS
  Keys = {"f13", "f14", "esc"}
  Esc = "esc"
  FirstTrigger = "f13"
  HoldToTalk = TRUE
  ChannelCap = 2
  MaxUnread = 2
SPECIFICATION Spec
INVARIANTS
  TypeOK
  OneAnswerPerRebind
  TriggersAgree
  ChoiceIsNoEdge
PROPERTY
  RebindEnds
