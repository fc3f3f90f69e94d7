SPECIFICATION Spec
CONSTANTS
  Users = {u1}
  Chats = {c1}
  Turns = {t1, t2}
  MaxMounts = 1
  MaxFaults = 0
  None = none
PROPERTIES NewConversationIsFresh
CHECK_DEADLOCK FALSE
