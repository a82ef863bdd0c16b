------------------------------ MODULE Cluster ------------------------------
(***************************************************************************)
(* External: the nodes behind ssh, as the gateway's probes see them and as *)
(* the wrapped scripts change them.  The scripts are not in the            *)
(* repository: their effect is taken from how lifecycle.py and recipes.py  *)
(* use them (the start script brings the recipe's containers up, the stop  *)
(* script is keyed by the compose project, both are idempotent).           *)
(*                                                                         *)
(* A deployment is one recipe's containers.  Only the gateway's scripts    *)
(* bring deployments up; any of them may die at any time, and those of     *)
(* Flaky may be found paused or restarting by docker: there, holding port  *)
(* and memory, and not serving.                                            *)
(***************************************************************************)
EXTENDS Recipes

CONSTANT Flaky   \* the recipes whose containers may be paused or restarting

VARIABLES
  up,       \* the recipes whose containers exist and are not stopped
  ready,    \* those whose server has loaded its model and answers /health
  paused    \* those docker calls paused or restarting

clusterVars == << up, ready, paused >>

\* What a deployment leaves on its head node: container names, a label.
Named(recipe) ==
  { << Host(HeadNode(recipe)), "name", name >> : name \in recipe.containers }
Labelled(recipe) ==
  { << Host(HeadNode(recipe)), "label", recipe.compose_project >> }
Marks(id) == Named(RecipeOf(id)) \cup Labelled(RecipeOf(id))

\* What _container_state looks for: the names, or the label without names.
DetectionKeys(id) ==
  IF RecipeOf(id).containers # {}
    THEN Named(RecipeOf(id))
    ELSE Labelled(RecipeOf(id))

\* What docker ps lists for id: the deployments that carry one of the marks,
\* whichever recipe brought them up.
Listed(id) == { d \in up : DetectionKeys(id) \cap Marks(d) # {} }

\* Faulty ContainerState: a name must belong to a container docker calls
\* running, too.
ContainerStateStrict(id) ==
  CASE Listed(id) = {} -> "absent"
    [] Listed(id) # {} /\ Listed(id) \subseteq paused -> "paused"
    [] ~(Listed(id) \subseteq paused) -> "running"

\* ServerControl._container_state(id): a listed name counts as running; by
\* label, parse_docker_state wants one container that docker calls so.
ContainerState(id) ==
  CASE Listed(id) = {} -> "absent"
    [] /\ Listed(id) # {} /\ Listed(id) \subseteq paused
       /\ RecipeOf(id).containers = {} -> "paused"
    [] \/ ~(Listed(id) \subseteq paused)
       \/ Listed(id) # {} /\ RecipeOf(id).containers # {} -> "running"

\* What detect_active and _start ask, and what _stop asks.
Detected(id) == ContainerState(id) = "running"
Present(id) == ContainerState(id) # "absent"

\* _health_ok(health_url(id)): any server on that address and port answers.
Healthy(id) == \E d \in ready : Endpoint(d) = Endpoint(id)

\* The deployments that share a container or a compose project with id.
Sharing(id) == { d \in RecipeIds : Marks(d) \cap Marks(id) # {} }

-----------------------------------------------------------------------------
\* The first deployments: any set that does not fight for a lane already.
ClusterInit ==
  /\ up \in { s \in SUBSET RecipeIds :
                \A a, b \in s : b \notin Conflicting(a) \cup (Sharing(a) \ {a}) }
  /\ ready \in SUBSET up
  /\ paused = {}

\* A start script took effect: id's containers replace any that share a mark.
BringUp(id) ==
  /\ up' = (up \ Sharing(id)) \cup {id}
  /\ ready' = ready \ (Sharing(id) \ {id})
  /\ paused' = paused \ Sharing(id)

\* A stop script took effect: it removes the compose project's containers.
TakeDown(id) ==
  /\ up' = up \ Sharing(id)
  /\ ready' = ready \ Sharing(id)
  /\ paused' = paused \ Sharing(id)

\* The model is loaded (ten minutes and more after the script returned).
Loads(id) ==
  /\ id \in up \ (ready \cup paused)
  /\ ready' = ready \cup {id}
  /\ UNCHANGED << up, paused >>

\* The containers crash, or are removed on the node.
Dies(id) ==
  /\ id \in up
  /\ up' = up \ {id}
  /\ ready' = ready \ {id}
  /\ paused' = paused \ {id}

\* docker pause, or a container in its restart loop ...
Falters(id) ==
  /\ id \in (up \cap Flaky) \ paused
  /\ paused' = paused \cup {id}
  /\ ready' = ready \ {id}
  /\ UNCHANGED up

\* ... and back; the server has to answer anew.
Recovers(id) ==
  /\ id \in paused
  /\ paused' = paused \ {id}
  /\ UNCHANGED << up, ready >>

\* Nobody's doing.
NodesMove == \E id \in RecipeIds : Loads(id) \/ Dies(id) \/ Falters(id) \/ Recovers(id)

=============================================================================
