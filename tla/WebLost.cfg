SPECIFICATION Spec
CONSTANTS
  Users = {u1, u2}
  Chats = {c1}
  Turns = {t1}
  MaxMounts = 2
  MaxFaults = 0
  None = none
PROPERTIES LostSessionStartsFresh
CHECK_DEADLOCK FALSE
