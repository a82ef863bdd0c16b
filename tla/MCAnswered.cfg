SPECIFICATION FairSpec
CONSTANTS
  Registry <- LabelledRegistry
  NodeMap <- NodeAddresses
  NoRecipe = NoRecipe
  Flaky = {"C"}
  Clients = {c1, c2}
  NoClient = NoClient
  UnknownId = Unknown
  Confirms <- Both
  LinkFaults = TRUE
  MaxCalls = 2
  MaxJobs = 4
  MaxFaults = 1
  MaxRestarts = 0
  Durable = TRUE
  ReconcileOnBoot = FALSE
PROPERTIES AlreadyStoppedTruthful CallsAnswered JobsEnd
CHECK_DEADLOCK FALSE
