SPECIFICATION Spec
CONSTANTS
  Registry <- TwoRecipes
  NodeMap <- OneNode
  NoRecipe = NoRecipe
  Statuses <- RunningOrNot
  DefaultRecipe = "A"
  Fingers = 1
  Gets = {g1, g2, g3}
  Posts = {p1, p2}
  MaxOps = 1
  MaxChanges = 1
INVARIANTS TypeOK PendingTruthful
PROPERTY StopHeld
