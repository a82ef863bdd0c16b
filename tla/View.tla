-------------------------------- MODULE View --------------------------------
(***************************************************************************)
(* What the dashboard is told (ui.py and the end of server_status), as     *)
(* functions of what was read: the status of the lane and a job.           *)
(*                                                                         *)
(* A status is [state, active].  A job snapshot keeps the job's number,    *)
(* what it does, and whether it is pending or running.                     *)
(***************************************************************************)
EXTENDS Recipes

\* Faulty MatchServedModel: the recipe the containers pointed at is kept.
MatchContainers(id, model) == id

\* ServerControl._match_served_model: the first recipe that serves model, or
\* the one the containers pointed at.
MatchServedModel(id, model) ==
  LET serving == { i \in DOMAIN Registry : Registry[i].served_model = model }
  IN  IF serving = {}
        THEN id
        ELSE Registry[CHOOSE i \in serving : \A k \in serving : i <= k].id

\* The end of server_status.
StatusState(unreachable, active, healthy) ==
  CASE unreachable -> "unreachable"
    [] ~unreachable /\ active = NoRecipe -> "stopped"
    [] ~unreachable /\ active # NoRecipe /\ healthy -> "running"
    [] ~unreachable /\ active # NoRecipe /\ ~healthy -> "starting"

NoJob == [ id |-> 0, op |-> "none", busy |-> FALSE ]

\* view_model: a job in flight hides the state of the lane.
ShownState(state, job) ==
  CASE job.busy /\ job.op = "start" -> "starting"
    [] job.busy /\ job.op = "stop" -> "stopping"
    [] ~job.busy -> state

\* The main button: what it does, "none" when it is disabled.
Button(state) ==
  CASE state = "running" -> "stop"
    [] state = "stopped" -> "start"
    [] state \in {"starting", "stopping", "unreachable"} -> "none"

ViewModel(status, job) ==
  [ state |-> ShownState(status.state, job), active |-> status.active, job |-> job ]

\* Faulty Locked: a conflict that only the other recipe declares is missed.
LockedOneSided(id, active) ==
  /\ active # NoRecipe /\ id # active
  /\ \/ SamePort(RecipeOf(id), RecipeOf(active))
     \/ id \in RecipeOf(active).conflicts

\* recipe_catalog: starting id would displace the active recipe.
Locked(id, active) == active # NoRecipe /\ id \in Conflicting(active)

=============================================================================
