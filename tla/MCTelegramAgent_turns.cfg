CONSTANTS
  m1 = m1
  m2 = m2
  m3 = m3
  c1 = c1
  c2 = c2
  Run = {m1, m2}
  Message = {m1, m2}
  Chat = {c1}
  NoChat = NoChat
  NoTask = NoTask
  OldTask = OldTask
  Earlier = {c1}
  ChatOf <- MCOneChat
  Kept = 6
  Compact = 2
  MaxRestart = 0
SPECIFICATION Spec
PROPERTIES
  TurnsAddUp
CHECK_DEADLOCK FALSE
