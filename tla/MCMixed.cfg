SPECIFICATION Spec
CONSTANTS
  Registry <- MixedRegistry
  NodeMap <- NodeAddresses
  NoRecipe = NoRecipe
  Flaky = {}
  Clients = {c1}
  NoClient = NoClient
  UnknownId = Unknown
  Confirms <- Both
  LinkFaults = FALSE
  MaxCalls = 2
  MaxJobs = 4
  MaxFaults = 0
  MaxRestarts = 0
  Durable = TRUE
  ReconcileOnBoot = FALSE
INVARIANT LaneExclusive
CHECK_DEADLOCK FALSE
