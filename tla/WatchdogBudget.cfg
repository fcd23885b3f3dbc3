SPECIFICATION WatchdogFairSpec
CONSTANTS
  Handler = {h1}
  Mutation = {"running"}
  Window = 2
  Cooldown = 2
  MaxTime = 3
  MaxFaults = 1
  MaxBack = 1
INVARIANTS SteadyBudget
PROPERTIES FailuresDecide
