----------------------------- MODULE Dashboard -----------------------------
(***************************************************************************)
(* GET /api/ui (app.py): server_status probes the nodes, looks for the     *)
(* active recipe, asks for its health and its model, each over an await,   *)
(* and then the job is read.  Nothing is locked meanwhile: operations,     *)
(* models and containers go on (Lane).  One step is one probe's answer;    *)
(* the last step puts the view together, later than the last probe.        *)
(***************************************************************************)
EXTENDS Lane, View

ASSUME DashboardAssumption == MaxOps \in Nat /\ NoRecipe \notin RecipeIds

VARIABLES
  read,      \* the request being answered: where it is and what it read
  view,      \* the last answer, until the next request
  seen,      \* ghost: the recipes that served at some time of the read
  steady,    \* ghost: those whose containers ran all the time
  still      \* ghost: nothing changed on the nodes

readVars == << read, view, seen, steady, still >>
vars == << laneVars, readVars >>

NodeKeys == UNION { NodeSet(Registry[i]) : i \in DOMAIN Registry }

NoRead ==
  [ at |-> "idle", follow |-> 0, probed |-> 0, reachable |-> FALSE, scan |-> 0,
    failed |-> FALSE, active |-> NoRecipe, healthy |-> FALSE, model |-> "" ]
NoView ==
  [ state |-> "none", active |-> NoRecipe, job |-> NoJob,
    follow |-> 0, model |-> "", locked |-> {} ]

DashboardInit ==
  /\ Init
  /\ read = NoRead /\ view = NoView
  /\ seen = {} /\ steady = {} /\ still = TRUE

-----------------------------------------------------------------------------
Reads == UNCHANGED << laneVars, view, seen, steady, still >>

\* A request arrives, without a job_id (0) or with that of a job once made.
Begin(follow) ==
  /\ read.at = "idle"
  /\ read' = [ NoRead EXCEPT !.at = "nodes", !.follow = follow ]
  /\ view' = NoView
  /\ seen' = ready /\ steady' = up \ paused /\ still' = TRUE
  /\ UNCHANGED laneVars

\* Faulty ProbeNode: a node that several recipes use is probed for each.
ProbeNodeAgain ==
  /\ read.at = "nodes" /\ read.probed < 2 * Cardinality(NodeKeys)
  /\ \E reachable \in BOOLEAN :
       read' = [ read EXCEPT !.probed = @ + 1, !.reachable = @ \/ reachable ]
  /\ Reads

\* _probe_node, for every node of every recipe once.
ProbeNode ==
  /\ read.at = "nodes" /\ read.probed < Cardinality(NodeKeys)
  /\ \E reachable \in BOOLEAN :
       read' = [ read EXCEPT !.probed = @ + 1, !.reachable = @ \/ reachable ]
  /\ Reads

NodesDone ==
  /\ read.at = "nodes" /\ read.probed = Cardinality(NodeKeys)
  /\ read' = IF Registry = << >>
               THEN [ read EXCEPT !.at = "job", !.probed = 0 ]
               ELSE [ read EXCEPT !.at = "scan", !.probed = 0, !.scan = 1 ]
  /\ Reads

\* A probe over ssh outlasts its timeout: nothing catches the TimeoutError.  Or
\* a probe over HTTP raises what its except clause does not list.
ReadFails ==
  /\ \/ read.at = "nodes" /\ read.probed < Cardinality(NodeKeys)
     \/ read.at \in {"scan", "health", "model"}
  /\ read' = NoRead
  /\ Reads

\* Faulty ScanRecipe: no fallback to the compose label.
ScanNamesOnly ==
  LET recipe == Registry[read.scan]
      found == recipe.containers # {} /\ Detected(recipe.id)
  IN  /\ read.at = "scan"
      /\ \/ /\ found
            /\ read' = [ read EXCEPT !.at = "health", !.scan = 0, !.active = recipe.id ]
         \/ /\ ~found /\ read.scan < Len(Registry)
            /\ read' = [ read EXCEPT !.scan = @ + 1 ]
         \/ /\ ~found /\ read.scan = Len(Registry)
            /\ read' = [ read EXCEPT !.at = "job", !.scan = 0 ]
      /\ Reads

\* detect_active: the first recipe whose containers run, or an error.
ScanRecipe ==
  LET id == Registry[read.scan].id
  IN  /\ read.at = "scan"
      /\ \/ /\ Detected(id)
            /\ read' = [ read EXCEPT !.at = "health", !.scan = 0, !.active = id ]
         \/ /\ ~Detected(id) /\ read.scan < Len(Registry)
            /\ read' = [ read EXCEPT !.scan = @ + 1 ]
         \/ /\ ~Detected(id) /\ read.scan = Len(Registry)
            /\ read' = [ read EXCEPT !.at = "job", !.scan = 0 ]
         \/ read' = [ read EXCEPT !.at = "job", !.scan = 0, !.failed = TRUE ]
      /\ Reads

\* _health_ok, which may also fail on a healthy server.
ReadHealth ==
  /\ read.at = "health"
  /\ \/ /\ Healthy(read.active)
        /\ read' = [ read EXCEPT !.at = "model", !.healthy = TRUE ]
     \/ read' = [ read EXCEPT !.at = "job" ]
  /\ Reads

\* _served_model: whoever serves at that address names its model, or nobody
\* answers.
ReadModel ==
  /\ read.at = "model"
  /\ \/ \E d \in ready :
          LET model == RecipeOf(d).served_model
          IN  /\ Endpoint(d) = Endpoint(read.active)
              /\ read' = [ read EXCEPT !.at = "job", !.model = model,
                             !.active = MatchServedModel(@, model) ]
     \/ read' = [ read EXCEPT !.at = "job" ]
  /\ Reads

Snapshot(op) == [ id |-> op.id, op |-> op.op, busy |-> op.state = "busy" ]

\* Faulty JobShown: only a job that is asked for is looked at.
JobAsked(follow) ==
  IF follow = last.id /\ follow # 0 THEN Snapshot(last) ELSE NoJob

\* The job with the id asked for (one older than the newest is over), or the
\* one in flight when no id is given.
JobShown(follow) ==
  CASE follow = 0 -> IF Busy THEN Snapshot(last) ELSE NoJob
    [] follow # 0 /\ follow = last.id -> Snapshot(last)
    [] follow # 0 /\ follow # last.id -> [ NoJob EXCEPT !.id = follow ]

StatusRead ==
  [ state |-> StatusState(read.failed \/ ~read.reachable, read.active, read.healthy),
    active |-> read.active ]

\* The rest of ui_view runs without an await.
Answer ==
  /\ read.at = "job"
  /\ view' = LET vm == ViewModel(StatusRead, JobShown(read.follow))
             IN  [ state |-> vm.state, active |-> vm.active, job |-> vm.job,
                   follow |-> read.follow, model |-> read.model,
                   locked |-> { id \in RecipeIds : Locked(id, vm.active) } ]
  /\ read' = NoRead
  /\ seen' = {} /\ steady' = {} /\ still' = TRUE
  /\ UNCHANGED laneVars

ReaderStep ==
  \/ ProbeNode \/ NodesDone \/ ReadFails \/ ScanRecipe
  \/ ReadHealth \/ ReadModel \/ Answer

\* What goes on meanwhile, and what the ghosts note of it during a read.
LaneStep ==
  /\ Next
  /\ IF read.at = "idle"
       THEN UNCHANGED << seen, steady, still >>
       ELSE /\ seen' = seen \cup ready'
            /\ steady' = (steady \cap up') \ paused'
            /\ still' = (still /\ UNCHANGED clusterVars)
  /\ UNCHANGED << read, view >>

DashboardNext ==
  \/ \E follow \in 0..last.id : Begin(follow)
  \/ ReaderStep
  \/ LaneStep

DashboardSpec == DashboardInit /\ [][DashboardNext]_vars

-----------------------------------------------------------------------------
\* The shape of the state.
TypeOK ==
  /\ last \in OpType /\ up \subseteq RecipeIds /\ ready \subseteq up /\ paused \subseteq up
  /\ read.at \in {"idle", "nodes", "scan", "health", "model", "job"}
  /\ read.follow \in 0..last.id
  /\ read.probed \in 0..Cardinality(NodeKeys)
  /\ read.scan \in 0..Len(Registry)
  /\ read.at \in {"health", "model"} => read.active \in RecipeIds
  /\ view.active \in RecipeIds \cup {NoRecipe} /\ view.locked \subseteq RecipeIds
  /\ seen \subseteq RecipeIds /\ steady \subseteq RecipeIds /\ still \in BOOLEAN

Answers == read.at = "job" /\ read'.at = "idle"

\* "Real status": a view that says running and names a model names a recipe
\* that was serving during the read, though its containers, its health and
\* its model were read at different times.
RunningTruthful ==
  [][ Answers /\ view'.state = "running" /\ view'.model # ""
        => view'.active \in seen ]_vars

\* A view read without a job id enables the main button only while no
\* operation is busy, though the status it rests on is older.
IdleWhenOffered ==
  [][ Answers /\ view'.follow = 0 /\ Button(view'.state) # "none" => ~Busy ]_vars

\* A lane whose containers ran all through the read is never shown stopped.
SteadyNotStopped ==
  [][ Answers /\ view'.state = "stopped" => steady = {} ]_vars

\* What _start would answer now: it asks before displacing the holder.
HolderNow ==
  IF \E i \in DOMAIN Registry : Detected(Registry[i].id)
    THEN Registry[CHOOSE i \in DOMAIN Registry :
                    /\ Detected(Registry[i].id)
                    /\ \A k \in 1..(i - 1) : ~Detected(Registry[k].id)].id
    ELSE NoRecipe
WouldAsk(id) ==
  ~(Detected(id) /\ Healthy(id)) /\ HolderNow \in Conflicting(id)

\* The catalog's lock is shown exactly on the recipes whose start would ask
\* for confirmation, when nothing changed (and no probe failed) meanwhile.
LockedTruthful ==
  [][ Answers /\ still /\ ~read.failed
        => \A id \in RecipeIds \ {view'.active} :
             id \in view'.locked <=> WouldAsk(id) ]_vars

=============================================================================
