SPECIFICATION Spec
CONSTANTS
  Registry <- TwoRecipes
  NodeMap <- OneNode
  NoRecipe = NoRecipe
  Statuses <- RunningOrNot
  DefaultRecipe = "A"
  Fingers = 1
  Gets = {g1, g2}
  Posts = {p1}
  MaxOps = 1
  MaxChanges = 1
PROPERTY StartNeedsTap
