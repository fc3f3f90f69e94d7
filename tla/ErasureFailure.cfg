SPECIFICATION HSpec
CONSTANTS
  Users = {u1}
  Turns = {t1}
  Votes = {}
  Erasers = {e1}
  Anchors = {"answer"}
  Nightly = nightlyJob
  None = none
  TTL = 1
  MaxTime = 1
  MaxFaults = 1
PROPERTIES FailedErasureKeepsRows
