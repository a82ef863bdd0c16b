SPECIFICATION FairSpec
CONSTANTS
  Registry <- TwoRecipes
  NodeMap <- OneNode
  NoRecipe = NoRecipe
  Statuses <- RunningOrNot
  DefaultRecipe = "A"
  Fingers = 0
  Gets = {g1, g2}
  Posts = {p1}
  MaxOps = 2
  MaxChanges = 1
PROPERTIES PendingClears ShowsTruth
