SPECIFICATION EvalSpec
CONSTANTS
  e1 = e1 e2 = e2 e3 = e3
  Labels = {e1, e2, e3}
  TypeOf <- MCTypeOf
  IdentityOf <- MCIdentityOf
  Fixtures <- MCFixtures
  HeldOuts <- MCHeldOuts
  RequiredTags <- MCTags
  Sizes = {2, 3}
  RetryBudget = 1
  CostCap = 1
CHECK_DEADLOCK FALSE
INVARIANTS NothingSpentOnRetry
