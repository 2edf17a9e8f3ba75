CONSTANTS
  m1 = m1
  m2 = m2
  m3 = m3
  c1 = c1
  c2 = c2
  Run = {m1, m2, m3, w1}
  Message = {m1, m2, m3}
  Chat = {c1, c2}
  NoChat = NoChat
  NoTask = NoTask
  OldTask = OldTask
  Earlier = {c1}
  ChatOf <- MCChatOf
  Kept = 2
  Compact = 1
  MaxRestart = 1
SPECIFICATION Spec
SYMMETRY Symmetry
INVARIANTS
  TypeOK
  OneTaskAtATime
  NoStrandedTask
  RecordsTrue
  TranscriptSound
CHECK_DEADLOCK FALSE
