SPECIFICATION Spec
CONSTANTS
  Registry <- ThreeRegistry
  NodeMap <- NodeAddresses
  NoRecipe = NoRecipe
  Flaky = {}
  Clients = {c1, c2}
  NoClient = NoClient
  UnknownId = Unknown
  Confirms <- Both
  LinkFaults = FALSE
  MaxCalls = 3
  MaxJobs = 6
  MaxFaults = 0
  MaxRestarts = 0
  Durable = TRUE
  ReconcileOnBoot = FALSE
PROPERTY ConfirmedHolder
SYMMETRY ClientSymmetry
CHECK_DEADLOCK FALSE
