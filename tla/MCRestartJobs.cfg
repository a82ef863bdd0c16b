SPECIFICATION FairSpec
CONSTANTS
  Registry <- LaneRegistry
  NodeMap <- NodeAddresses
  NoRecipe = NoRecipe
  Flaky = {}
  Clients = {c1}
  NoClient = NoClient
  UnknownId = Unknown
  Confirms <- Both
  LinkFaults = FALSE
  MaxCalls = 1
  MaxJobs = 2
  MaxFaults = 0
  MaxRestarts = 1
  Durable = TRUE
  ReconcileOnBoot = FALSE
PROPERTY JobsEnd
CHECK_DEADLOCK FALSE
