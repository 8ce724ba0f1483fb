\* The watcher thread may end at any time.
CONSTANTS
  Keys = {"f13", "esc"}
  Esc = "esc"
  FirstTrigger = "f13"
  HoldToTalk = TRUE
  ChannelCap = 1
  MaxUnread = 1
SPECIFICATION Spec
PROPERTY
  SocketPathAlive
