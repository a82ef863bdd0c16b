SPECIFICATION Spec
CONSTANTS
  Registry <- LaneRegistry
  NodeMap <- NodeAddresses
  NoRecipe = NoRecipe
  Flaky = {}
  Clients = {c1, c2}
  NoClient = NoClient
  UnknownId = Unknown
  Confirms <- Both
  LinkFaults = FALSE
  MaxCalls = 3
  MaxJobs = 6
  MaxFaults = 0
  MaxRestarts = 1
  Durable = TRUE
  ReconcileOnBoot = FALSE
INVARIANTS AtMostOneScript StraysInv LaneExclusive
PROPERTY ImplementsLane
SYMMETRY ClientSymmetry
CHECK_DEADLOCK FALSE
