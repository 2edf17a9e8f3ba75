CONSTANTS
  c1 = c1
  c2 = c2
  Chat = {c1, c2}
  Arrivals = 2
  ChatOf <- MCChatOf
  MaxGeneration = 3
  MaxConnect = 1
  MaxRestart = 1
SPECIFICATION LiveSpec
INVARIANTS
  TypeOK
  NothingSkipped
  PollingHonest
PROPERTIES
  StoredIsFinal
  PolledIsDealt
CHECK_DEADLOCK FALSE
