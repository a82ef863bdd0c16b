SPECIFICATION DashboardSpec
CONSTANTS
  Registry <- DeclaredRegistry
  NodeMap <- NodeAddresses
  NoRecipe = NoRecipe
  Flaky = {"A", "B"}
  MaxOps = 2
INVARIANT TypeOK
PROPERTIES RunningTruthful IdleWhenOffered SteadyNotStopped LockedTruthful
CHECK_DEADLOCK FALSE
