-------------------------------- MODULE Lane --------------------------------
(***************************************************************************)
(* What the gateway promises to whoever looks at it from outside: start    *)
(* and stop operations one at a time, a start only onto a lane that no     *)
(* other recipe holds, and verdicts that are true when they are given.     *)
(* How it keeps that (locks, checks, probes, jobs, swaps) is ServerControl *)
(* and LaneRefinement relates the two.                                     *)
(***************************************************************************)
EXTENDS Cluster

CONSTANT MaxOps    \* bound: operations ever accepted

VARIABLE last      \* the newest operation, still busy or with its verdict

laneVars == << last, clusterVars >>

NoOp == [ id |-> 0, op |-> "none", recipe |-> NoRecipe, state |-> "none" ]
OpType ==
  {NoOp} \cup
  [ id : 1..MaxOps, op : {"start", "stop"}, recipe : RecipeIds,
    state : {"busy", "done", "failed"} ]

Busy == last.state = "busy"

Init == last = NoOp /\ ClusterInit

\* A request ends with a new job.
Accept(op, id) ==
  /\ ~Busy /\ last.id < MaxOps
  /\ op = "start" => up \cap Conflicting(id) = {}
  /\ last' = [ id |-> last.id + 1, op |-> op, recipe |-> id, state |-> "busy" ]
  /\ UNCHANGED clusterVars

\* The operation's script takes effect.
Acts ==
  /\ Busy
  /\ \/ last.op = "start" /\ BringUp(last.recipe)
     \/ last.op = "stop" /\ TakeDown(last.recipe)
  /\ UNCHANGED last

\* The job ends.  Done means what it says: started and serving, or gone.
Finishes(verdict) ==
  /\ Busy
  /\ verdict = "done" =>
       IF last.op = "start" THEN last.recipe \in ready ELSE last.recipe \notin up
  /\ last' = [ last EXCEPT !.state = verdict ]
  /\ UNCHANGED clusterVars

\* Models load, containers die or falter at any time.
Drifts == NodesMove /\ UNCHANGED last

Next ==
  \/ \E op \in {"start", "stop"}, id \in RecipeIds : Accept(op, id)
  \/ Acts
  \/ \E verdict \in {"done", "failed"} : Finishes(verdict)
  \/ Drifts

Spec == Init /\ [][Next]_laneVars

=============================================================================
