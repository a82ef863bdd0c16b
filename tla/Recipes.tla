------------------------------ MODULE Recipes ------------------------------
(***************************************************************************)
(* The recipe registry (recipes.py): which recipes exist, where they serve *)
(* and which of them fight for the same lane.                              *)
(*                                                                         *)
(* Registry is the recipes in the order of the configuration file, which   *)
(* is the order RecipeRegistry.all() returns them in (a dict keeps its     *)
(* insertion order).  A recipe keeps the fields the control logic reads;   *)
(* its scripts and time limits are not needed here.  FromConfig builds it  *)
(* from the entries of the file.                                           *)
(***************************************************************************)
EXTENDS Integers, Sequences, FiniteSets

CONSTANTS
  Registry,   \* sequence of recipe records, in configuration order
  NodeMap,    \* node key -> address, possibly partial ([nodes] of the config)
  NoRecipe    \* no recipe (None in the code), unlike every id

RecipeType ==
  [ id : STRING, served_model : STRING, nodes : Seq(STRING),
    head_node : STRING, port : Nat,
    compose_project : STRING, containers : SUBSET STRING,
    conflicts : SUBSET STRING ]

\* What from_config enforces: every recipe lists a node, and the dict it
\* builds has one entry per id.
ASSUME RegistryAssumption ==
  /\ Registry \in Seq(RecipeType)
  /\ \A i \in DOMAIN Registry : Registry[i].nodes # <<>>
  /\ \A i, k \in DOMAIN Registry :
       Registry[i].id = Registry[k].id => i = k

\* recipes[recipe_id] = recipe: a dict keeps the place of a key it has.
Put(recipes, entry) ==
  IF \E i \in DOMAIN recipes : recipes[i].id = entry.id
    THEN [ i \in DOMAIN recipes |->
             IF recipes[i].id = entry.id THEN entry ELSE recipes[i] ]
    ELSE Append(recipes, entry)

\* RecipeRegistry.from_config on the entries of the file, none of which lacks
\* a key or its nodes (the gateway does not start otherwise).
FromConfig(raw) ==
  LET built[i \in 0..Len(raw)] ==
        IF i = 0 THEN << >> ELSE Put(built[i - 1], raw[i])
  IN  built[Len(raw)]

RecipeIds == { Registry[i].id : i \in DOMAIN Registry }

RecipeOf(id) ==
  Registry[CHOOSE i \in DOMAIN Registry : Registry[i].id = id]

NodeSet(recipe) == { recipe.nodes[i] : i \in DOMAIN recipe.nodes }

\* Recipe.head(): the override, or the first node.
HeadNode(recipe) ==
  IF recipe.head_node # "" THEN recipe.head_node ELSE recipe.nodes[1]

\* ServerControl._host: an unmapped key is its own address.
Host(node) == IF node \in DOMAIN NodeMap THEN NodeMap[node] ELSE node

\* What health_url(recipe) addresses: the head's address and the port.
Endpoint(id) ==
  LET recipe == RecipeOf(id) IN << Host(HeadNode(recipe)), recipe.port >>

\* Two recipes on one port with a node in common.
SamePort(a, b) == a.port = b.port /\ NodeSet(a) \cap NodeSet(b) # {}

\* RecipeRegistry.conflicting: the others that fight id for port or nodes,
\* or that either side declares.
Conflicting(id) ==
  { other \in RecipeIds \ {id} :
      \/ SamePort(RecipeOf(other), RecipeOf(id))
      \/ id \in RecipeOf(other).conflicts
      \/ other \in RecipeOf(id).conflicts }

-----------------------------------------------------------------------------
\* What a dict makes of the first n entries: each id they mention is there
\* once, in the order of first mention, and with its latest contents.
IsDict(recipes, raw, n) ==
  /\ { recipes[i].id : i \in DOMAIN recipes } = { raw[m].id : m \in 1..n }
  /\ \A i \in DOMAIN recipes : \E m \in 1..n :
       recipes[i] = raw[m] /\ \A l \in (m + 1)..n : raw[l].id # raw[m].id
  /\ \A i, k \in DOMAIN recipes : i < k =>
       \E m \in 1..n :
         raw[m].id = recipes[i].id /\ \A l \in 1..m : raw[l].id # recipes[k].id

=============================================================================
