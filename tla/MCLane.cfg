SPECIFICATION Spec
CONSTANTS
  Registry <- LaneAndSide
  NodeMap <- NodeAddresses
  NoRecipe = NoRecipe
  Flaky = {"A"}
  Clients = {c1, c2}
  NoClient = NoClient
  UnknownId = Unknown
  Confirms <- Both
  LinkFaults = FALSE
  MaxCalls = 2
  MaxJobs = 4
  MaxFaults = 1
  MaxRestarts = 0
  Durable = TRUE
  ReconcileOnBoot = FALSE
INVARIANTS TypeOK OneOperation LaneExclusive Inv
PROPERTIES StartsOnFreeLane SwapWindowClosed AlreadyUpTruthful AnswerFitsLane DoneMeansServing
SYMMETRY ClientSymmetry
CHECK_DEADLOCK FALSE
