SPECIFICATION ChatSpec
CONSTANTS
  Users = {u1, u2}
  Turns = {t1, t2}
  Votes = {v1, v2}
  Erasers = {e1}
  Anchors = {"answer", "citation"}
  Nightly = nightlyJob
  None = none
  TTL = 1
  MaxTime = 1
  MaxFaults = 1
SYMMETRY Symmetry
INVARIANTS TypeOK SchemaHolds ErasureIsFinal FinalCheckPasses AnswersAreTraced TurnsStayWithTheirUser VerdictsAreGrounded
PROPERTIES OnlyAskedOrExpired ImplementsPromise
