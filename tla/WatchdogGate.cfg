SPECIFICATION FairSpec
CONSTANTS
  Handler = {h1, h2}
  Mutation = {"create", "running", "maintenance"}
  Window = 4
  Cooldown = 6
  MaxTime = 1
  MaxBack = 0
  MaxFaults = 1
INVARIANTS RepairExclusive
PROPERTIES MutationProceeds SuppressionSettles IntentIsKept
