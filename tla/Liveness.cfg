SPECIFICATION BothSpec
CONSTANTS
  Users = {u1}
  Readers = {u1, u2}
  Turns = {t1}
  Votes = {}
  Erasers = {e1}
  Anchors = {"answer"}
  Nightly = nightlyJob
  None = none
  TTL = 1
  MaxTime = 1
  MaxFaults = 1
  Chats = {c1}
  Questions = {q1}
  MaxMounts = 2
CHECK_DEADLOCK FALSE
PROPERTIES ErasuresEnd ExpiredAreReclaimed ComposerReturns
