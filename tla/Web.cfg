SPECIFICATION WebSpec
CONSTANTS
  Users = {u1, u2}
  Chats = {c1, c2}
  Turns = {t1, t2}
  MaxMounts = 2
  MaxFaults = 1
  None = none
  Tabs = {b1, b2}
  Ids = {i1, i2}
  Keys = {"session"}
  HistoryLimit = 1
  MaxRefusals = 1
  Null = null
SYMMETRY Symmetry
INVARIANTS WebTypeOK FinishedTurnsStay
PROPERTIES TranscriptsLoseNothing ConsentIsHonoured
CHECK_DEADLOCK FALSE
