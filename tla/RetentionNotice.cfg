SPECIFICATION HSpec
CONSTANTS
  Users = {u1}
  Turns = {t1}
  Votes = {}
  Erasers = {}
  Anchors = {"answer"}
  Nightly = nightlyJob
  None = none
  TTL = 2
  MaxTime = 2
  MaxFaults = 0
PROPERTIES KeptWhileUsed
