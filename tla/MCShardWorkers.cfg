SPECIFICATION Spec
CONSTANTS
  Workers = {w1, w2}
  None = None
  Times = {1, 4, 6000}
  InitialSizes = {60, 9000}
  MaxKey = 3
  MaxPlans = 2
  MaxDeaths = 1
SYMMETRY Symmetry
INVARIANTS StatusHonest CopiedOncePerPlan OptimizerHonest
CHECK_DEADLOCK FALSE
