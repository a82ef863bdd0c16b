----------------------------- MODULE LaneLemmas -----------------------------
(***************************************************************************)
(* What a registry needs for the lane to be safe, as the repository's      *)
(* example configuration has it, and what the probes see there.            *)
(***************************************************************************)
EXTENDS Cluster, RecipesProofs

\* No two recipes share a container name or a label.
OwnMarks == \A a, b \in RecipeIds : a # b => Marks(a) \cap Marks(b) = {}

\* Recipes that answer on one address and port fight for it.
OwnEndpoints ==
  \A a, b \in RecipeIds : a # b /\ Endpoint(a) = Endpoint(b) => b \in Conflicting(a)

\* What is detected by its label is not found paused.
Noticed == \A id \in Flaky \cap RecipeIds : RecipeOf(id).containers # {}

\* The recipes that fight for the lane come first: each one fights with all
\* before it, or with nobody at all.
LaneFirst ==
  \A i, k \in DOMAIN Registry :
    i < k => \/ Registry[k].id \in Conflicting(Registry[i].id)
             \/ Conflicting(Registry[k].id) = {}

\* No two recipes that are up fight for a lane.
Peace == \A a, b \in up : b \notin Conflicting(a)

-----------------------------------------------------------------------------
(* One lane is the special case the example configuration is *)

LEMMA OneLaneIsFirst ==
  ASSUME \A a, b \in RecipeIds : a # b => b \in Conflicting(a)
  PROVE  OwnEndpoints /\ LaneFirst
  <1>1. OwnEndpoints
    BY DEF OwnEndpoints
  <1>2. ASSUME NEW i \in DOMAIN Registry, NEW k \in DOMAIN Registry, i < k
        PROVE  Registry[k].id \in Conflicting(Registry[i].id)
    <2>1. i # k
      BY <1>2, RegistryAssumption
    <2>2. Registry[i].id # Registry[k].id
      BY <2>1, RegistryAssumption
    <2>. QED
      BY <2>2 DEF RecipeIds
  <1>. QED
    BY <1>1, <1>2 DEF LaneFirst

-----------------------------------------------------------------------------
(* The probes *)

\* Without shared marks a recipe is listed for itself alone, and only a paused
\* one that is detected by its label is missed.
LEMMA OwnProbes ==
  ASSUME OwnMarks, up \subseteq RecipeIds, NEW id \in RecipeIds
  PROVE  /\ Present(id) <=> id \in up
         /\ Detected(id) => id \in up
         /\ Noticed /\ paused \subseteq Flaky => (Detected(id) <=> id \in up)
         /\ Sharing(id) = {id}
  <1>1. DetectionKeys(id) # {} /\ DetectionKeys(id) \subseteq Marks(id) /\ Marks(id) # {}
    BY DEF DetectionKeys, Marks, Named, Labelled
  <1>2. Listed(id) = up \cap {id} /\ Sharing(id) = {id}
    BY <1>1 DEF OwnMarks, Listed, Sharing
  <1>3. CASE id \notin up
    BY <1>2, <1>3 DEF Detected, Present, ContainerState
  <1>4. CASE id \in up
    <2>1. Listed(id) = {id}
      BY <1>2, <1>4
    <2>2. Present(id)
      BY <2>1 DEF Present, ContainerState
    <2>3. ASSUME Noticed, paused \subseteq Flaky PROVE Detected(id)
      <3>1. Listed(id) \subseteq paused => RecipeOf(id).containers # {}
        BY <2>1, <2>3 DEF Noticed
      <3>. QED
        BY <2>1, <3>1 DEF Detected, ContainerState
    <2>. QED
      BY <1>2, <1>4, <2>2, <2>3
  <1>. QED
    BY <1>3, <1>4

\* Whoever answers on a recipe's address is that recipe, while what is up
\* leaves it in peace.
LEMMA OwnAnswer ==
  ASSUME OwnEndpoints, NEW id \in RecipeIds, up \subseteq RecipeIds,
         up \cap Conflicting(id) = {}, NEW d \in up, Endpoint(d) = Endpoint(id)
  PROVE  d = id
  BY DEF OwnEndpoints

\* The first recipe that is up tells of all that are up: whoever fights for a
\* lane that is taken fights with that recipe.
LEMMA FirstTells ==
  ASSUME LaneFirst, Peace, up \subseteq RecipeIds, NEW i \in DOMAIN Registry,
         Registry[i].id \in up, \A k \in 1..(i - 1) : Registry[k].id \notin up,
         NEW id \in RecipeIds
  PROVE  up \cap Conflicting(id) \subseteq {Registry[i].id}
  <1>. SUFFICES ASSUME NEW d \in up, d \in Conflicting(id), d # Registry[i].id
                PROVE  FALSE
    OBVIOUS
  <1>1. PICK k \in DOMAIN Registry : Registry[k].id = d
    BY DEF RecipeIds
  <1>2. i \in Nat /\ k \in Nat \ {0} /\ i # k
    BY <1>1, RegistryAssumption
  <1>3. i < k
    BY <1>1, <1>2
  <1>4. id \in Conflicting(d)
    BY ConflictsAreMutual
  <1>5. d \in Conflicting(Registry[i].id)
    BY <1>1, <1>3, <1>4 DEF LaneFirst
  <1>. QED
    BY <1>5 DEF Peace

-----------------------------------------------------------------------------
(* The scripts *)

\* A start on a lane at peace with it keeps the peace.
LEMMA BringUpKeepsPeace ==
  ASSUME OwnMarks, Peace, up \subseteq RecipeIds, NEW id \in RecipeIds,
         up \cap Conflicting(id) = {}, BringUp(id)
  PROVE  /\ Peace' /\ up' = up \cup {id} /\ up' \cap Conflicting(id) = {}
         /\ paused' \subseteq paused
  <1>1. up' = up \cup {id} /\ paused' \subseteq paused
    BY OwnProbes DEF BringUp
  <1>2. id \notin Conflicting(id)
    BY DEF Conflicting
  <1>3. \A a \in up : id \notin Conflicting(a)
    BY ConflictsAreMutual
  <1>. QED
    BY <1>1, <1>2, <1>3 DEF Peace

\* The first deployments are at peace.
LEMMA PeaceAtFirst == ClusterInit => Peace
  BY DEF ClusterInit, Peace

=============================================================================
