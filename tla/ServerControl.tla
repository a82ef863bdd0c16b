--------------------------- MODULE ServerControl ---------------------------
(***************************************************************************)
(* The control plane of the gateway (lifecycle.py): HTTP handlers that run *)
(* ServerControl.start and .stop, the jobs they submit, the executor that  *)
(* runs a job's script over ssh, and the cluster the scripts change.       *)
(*                                                                         *)
(* One step is what the event loop does between two awaits.  A step that   *)
(* waits for a probe is one step with the probe: while it is in flight the *)
(* handler holds the operation lock and reads nothing but the answer.      *)
(*                                                                         *)
(* A script runs on a node.  The executor only waits for ssh: when that    *)
(* wait ends early (ssh timeout, lost connection, gateway restart) the     *)
(* script goes on, and nobody in the gateway knows: it is a stray.         *)
(*                                                                         *)
(* A write of the job store may raise: out of submit into the handler, or  *)
(* in a task, which then ends without a verdict in its row.  Reads of the  *)
(* store succeed.                                                          *)
(***************************************************************************)
EXTENDS Cluster

CONSTANTS
  Clients,          \* concurrent HTTP requests
  NoClient,         \* nobody, unlike every client
  UnknownId,        \* an id in the URL that no recipe has
  Confirms,         \* the confirm_swap values clients send
  LinkFaults,       \* may ssh give up on a script that still runs?
  MaxCalls,         \* bound: requests ever made
  MaxJobs, MaxFaults, MaxRestarts, Durable, ReconcileOnBoot   \* see JobRunner

ASSUME ServerControlAssumption ==
  /\ NoRecipe \notin RecipeIds \cup {UnknownId}
  /\ UnknownId \notin RecipeIds
  /\ NoClient \notin Clients
  /\ Confirms \subseteq BOOLEAN /\ LinkFaults \in BOOLEAN
  /\ MaxCalls \in Nat /\ MaxJobs \in Nat
  /\ MaxFaults \in Nat /\ MaxRestarts \in Nat
  /\ Durable \in BOOLEAN /\ ReconcileOnBoot \in BOOLEAN
  /\ MaxJobs >= 2 * MaxCalls    \* a request submits at most two jobs

VARIABLES
  pc,       \* client -> where its handler waits
  call,     \* client -> the handler's arguments and locals
  reply,    \* client -> the last answer it got
  lock,     \* who holds op_lock
  queue,    \* who waits for op_lock, in order
  calls,    \* number of requests made
  exec,     \* job -> what its executor waits for
  strays,   \* "op:recipe" of the scripts that run on with no executor
  ledger, disk, faults, task, restarts    \* see JobRunner

gateVars == << pc, call, reply, lock, queue, calls >>
execVars == << exec, strays >>
jobVars == << ledger, disk, faults, task, restarts >>
vars == << gateVars, execVars, jobVars, clusterVars >>

Ops == {"start", "stop"}
Labels == [ op : Ops, recipe : RecipeIds ]     \* "start:<id>" / "stop:<id>"

Jobs == INSTANCE JobRunner WITH Actions <- Labels

JobIds == Jobs!JobIds
InFlight == Jobs!InFlight
Job(j) == ledger[j].action

NoCall ==
  [ op |-> "none", recipe |-> NoRecipe, confirm |-> FALSE, asked |-> NoRecipe,
    scan |-> 0, holder |-> NoRecipe, job |-> 0 ]
NoReply == [ kind |-> "none", recipe |-> NoRecipe, holder |-> NoRecipe ]

Init ==
  /\ pc = [ c \in Clients |-> "idle" ]
  /\ call = [ c \in Clients |-> NoCall ]
  /\ reply = [ c \in Clients |-> NoReply ]
  /\ lock = NoClient /\ queue = << >> /\ calls = 0
  /\ exec = [ j \in JobIds |-> "none" ]
  /\ strays = {}
  /\ Jobs!Init
  /\ ClusterInit

-----------------------------------------------------------------------------
(* Handlers *)

\* The status the routes answer with: errors of a kind the table does not list,
\* and exceptions nobody catches, are 500.  (0: no answer.)
HttpStatus(kind) ==
  CASE kind = "accepted" -> 202
    [] kind \in {"already-up", "already-stopped"} -> 200
    [] kind \in {"op-in-progress", "needs-confirm"} -> 409
    [] kind = "unknown-recipe" -> 404
    [] kind = "unreachable" -> 503
    [] kind \in {"stop-failed", "internal-error"} -> 500
    [] kind \in {"none", "lost"} -> 0

\* The handler returns: the answer, and the end of its locals.
Answer(c, request, kind, holder) ==
  /\ pc' = [ pc EXCEPT ![c] = "idle" ]
  /\ call' = [ call EXCEPT ![c] = NoCall ]
  /\ reply' = [ reply EXCEPT ![c] =
       [ kind |-> kind, recipe |-> request.recipe, holder |-> holder ] ]

\* It returns from inside `async with op_lock`.
Leave(c, kind, holder) ==
  /\ Answer(c, call[c], kind, holder)
  /\ lock' = NoClient

\* It goes on inside the lock, with these locals.
GoOn(c, place, locals) ==
  /\ pc' = [ pc EXCEPT ![c] = place ]
  /\ call' = [ call EXCEPT ![c] = locals ]
  /\ UNCHANGED << reply, lock >>

\* Faulty Enter: no second check.
EnterUnchecked(c, request) ==
  IF request.recipe \in RecipeIds
    THEN /\ pc' = [ pc EXCEPT ![c] = "probe" ]
         /\ call' = [ call EXCEPT ![c] = request ]
         /\ lock' = c
         /\ UNCHANGED reply
    ELSE Answer(c, request, "unknown-recipe", NoRecipe) /\ lock' = NoClient

\* With the lock just acquired: the second check, then registry.get.
Enter(c, request) ==
  \/ /\ InFlight # {}
     /\ Answer(c, request, "op-in-progress", NoRecipe)
     /\ lock' = NoClient
  \/ /\ InFlight = {} /\ request.recipe \notin RecipeIds
     /\ Answer(c, request, "unknown-recipe", NoRecipe)
     /\ lock' = NoClient
  \/ /\ InFlight = {} /\ request.recipe \in RecipeIds
     /\ pc' = [ pc EXCEPT ![c] = "probe" ]
     /\ call' = [ call EXCEPT ![c] = request ]
     /\ lock' = c
     /\ UNCHANGED reply

\* A POST arrives: the check without the lock, then the lock or its queue
\* (an asyncio.Lock passes to its waiters first, in order).
Arrive(c, request) ==
  /\ pc[c] = "idle" /\ calls < MaxCalls
  /\ calls' = calls + 1
  /\ \/ /\ InFlight # {}
        /\ Answer(c, request, "op-in-progress", NoRecipe)
        /\ UNCHANGED << lock, queue >>
     \/ /\ InFlight = {} /\ lock = NoClient /\ queue = << >>
        /\ Enter(c, request)
        /\ UNCHANGED queue
     \/ /\ InFlight = {} /\ ~(lock = NoClient /\ queue = << >>)
        /\ pc' = [ pc EXCEPT ![c] = "queued" ]
        /\ call' = [ call EXCEPT ![c] = request ]
        /\ queue' = Append(queue, c)
        /\ UNCHANGED << reply, lock >>
  /\ UNCHANGED << execVars, jobVars, clusterVars >>

\* The holder the user was shown, when this is the call that confirms it.
\* (A client is free to send confirm_swap unasked.)
Asked(c, id, confirm) ==
  IF confirm /\ reply[c].kind = "needs-confirm" /\ reply[c].recipe = id
    THEN reply[c].holder
    ELSE NoRecipe

\* start(recipe_id, confirm_swap) and stop(recipe_id), for any id in the URL.
ArriveAny(c) ==
  \E op \in Ops, id \in RecipeIds \cup {UnknownId}, confirm \in Confirms :
    /\ op = "stop" => ~confirm
    /\ Arrive(c, [ op |-> op, recipe |-> id, confirm |-> confirm,
                   asked |-> Asked(c, id, confirm),
                   scan |-> 0, holder |-> NoRecipe, job |-> 0 ])

\* The lock was released and c waited longest.
Resume(c) ==
  /\ pc[c] = "queued" /\ lock = NoClient /\ queue # << >> /\ Head(queue) = c
  /\ queue' = Tail(queue)
  /\ Enter(c, call[c])
  /\ UNCHANGED << calls, execVars, jobVars, clusterVars >>

\* jobs.submit raises, and nothing catches that.
SubmitFails(c, label) ==
  /\ \E j \in JobIds : Jobs!SubmitRaises(j, label)
  /\ Leave(c, "internal-error", NoRecipe)

\* jobs.submit, as the last thing the handler does.
SubmitAndLeave(c, op, id) ==
  LET label == [ op |-> op, recipe |-> id ]
  IN  \/ /\ \E j \in JobIds : Jobs!Submit(j, label)
         /\ Leave(c, "accepted", NoRecipe)
      \/ SubmitFails(c, label)

\* The end of _start's arbitration: who holds the lane, and may we stop it?
Decide(c, holder) ==
  LET id == call[c].recipe
      swap == holder \in Conflicting(id)
  IN  \/ ~swap /\ SubmitAndLeave(c, "start", id)
      \/ /\ swap /\ ~call[c].confirm
         /\ Leave(c, "needs-confirm", holder)
         /\ UNCHANGED jobVars
      \/ /\ swap /\ call[c].confirm
         /\ GoOn(c, "holder", [ call[c] EXCEPT !.holder = holder ])
         /\ UNCHANGED jobVars

handlerFrame == << queue, calls, execVars, clusterVars >>

\* A docker ps over ssh fails: ConnectionError becomes unreachable, the
\* TimeoutError of the adapter is caught nowhere.
ProbeFails(c) ==
  /\ pc[c] \in {"probe", "scan", "holder"}
  /\ \E kind \in {"unreachable", "internal-error"} : Leave(c, kind, NoRecipe)
  /\ UNCHANGED << jobVars, handlerFrame >>

\* Faulty ProbeForStop: only containers that docker calls running are stopped.
ProbeForStopRunning(c) ==
  /\ pc[c] = "probe" /\ call[c].op = "stop"
  /\ \/ /\ ~Detected(call[c].recipe)
        /\ Leave(c, "already-stopped", NoRecipe)
        /\ UNCHANGED jobVars
     \/ /\ Detected(call[c].recipe)
        /\ SubmitAndLeave(c, "stop", call[c].recipe)
  /\ UNCHANGED handlerFrame

\* _stop: nothing to stop, or a stop job.
ProbeForStop(c) ==
  /\ pc[c] = "probe" /\ call[c].op = "stop"
  /\ \/ /\ ~Present(call[c].recipe)
        /\ Leave(c, "already-stopped", NoRecipe)
        /\ UNCHANGED jobVars
     \/ /\ Present(call[c].recipe)
        /\ SubmitAndLeave(c, "stop", call[c].recipe)
  /\ UNCHANGED handlerFrame

\* _start: is the recipe itself running?
ProbeForStart(c) ==
  /\ pc[c] = "probe" /\ call[c].op = "start"
  /\ IF Detected(call[c].recipe)
       THEN GoOn(c, "health", call[c])
       ELSE GoOn(c, "scan", [ call[c] EXCEPT !.scan = 1 ])
  /\ UNCHANGED << jobVars, handlerFrame >>

\* Faulty CheckHealth: running containers are taken for a serving model.
CheckHealthAssumed(c) ==
  /\ pc[c] = "health"
  /\ Leave(c, "already-up", NoRecipe)
  /\ UNCHANGED << jobVars, handlerFrame >>

\* ... and does it answer?  The probe may also fail on a healthy server, with
\* an exception _health_ok counts as no, or with one it does not list.
CheckHealth(c) ==
  /\ pc[c] = "health"
  /\ \/ /\ Healthy(call[c].recipe)
        /\ Leave(c, "already-up", NoRecipe)
     \/ GoOn(c, "scan", [ call[c] EXCEPT !.scan = 1 ])
     \/ Leave(c, "internal-error", NoRecipe)
  /\ UNCHANGED << jobVars, handlerFrame >>

\* Faulty Scan: it does not stop at the last recipe.
ScanPastEnd(c) ==
  LET i == call[c].scan IN
  /\ pc[c] = "scan"
  /\ \/ Detected(Registry[i].id) /\ Decide(c, Registry[i].id)
     \/ /\ ~Detected(Registry[i].id)
        /\ GoOn(c, "scan", [ call[c] EXCEPT !.scan = i + 1 ])
        /\ UNCHANGED jobVars
  /\ UNCHANGED handlerFrame

\* detect_active, one recipe at a time: the first one found is the holder.
Scan(c) ==
  LET i == call[c].scan IN
  /\ pc[c] = "scan"
  /\ \/ Detected(Registry[i].id) /\ Decide(c, Registry[i].id)
     \/ ~Detected(Registry[i].id) /\ i = Len(Registry) /\ Decide(c, NoRecipe)
     \/ /\ ~Detected(Registry[i].id) /\ i < Len(Registry)
        /\ GoOn(c, "scan", [ call[c] EXCEPT !.scan = i + 1 ])
        /\ UNCHANGED jobVars
  /\ UNCHANGED handlerFrame

\* Faulty StopHolder: the lock is given up while the stop job runs.
StopHolderUnlocked(c) ==
  /\ pc[c] = "holder"
  /\ \/ /\ ~Present(call[c].holder)
        /\ SubmitAndLeave(c, "start", call[c].recipe)
     \/ /\ Present(call[c].holder)
        /\ \E j \in JobIds :
             /\ Jobs!Submit(j, [ op |-> "stop", recipe |-> call[c].holder ])
             /\ pc' = [ pc EXCEPT ![c] = "swap" ]
             /\ call' = [ call EXCEPT ![c].job = j ]
             /\ lock' = NoClient /\ UNCHANGED reply
  /\ UNCHANGED handlerFrame

\* _stop(holder) inside a confirmed swap: nothing left to stop, or a stop
\* job that the handler waits for without giving up the lock.
StopHolder(c) ==
  /\ pc[c] = "holder"
  /\ \/ /\ ~Present(call[c].holder)
        /\ SubmitAndLeave(c, "start", call[c].recipe)
     \/ /\ Present(call[c].holder)
        /\ \E j \in JobIds :
             /\ Jobs!Submit(j, [ op |-> "stop", recipe |-> call[c].holder ])
             /\ GoOn(c, "swap", [ call[c] EXCEPT !.job = j ])
     \/ /\ Present(call[c].holder)
        /\ SubmitFails(c, [ op |-> "stop", recipe |-> call[c].holder ])
  /\ UNCHANGED handlerFrame

\* Faulty SwapPolls: any end of the stop job will do; the wait is too short;
\* only done ends the wait.
SwapPollAnyEnd(c) ==
  /\ pc[c] = "swap"
  /\ ledger[call[c].job].state \in Jobs!TerminalStates
  /\ SubmitAndLeave(c, "start", call[c].recipe)
  /\ UNCHANGED handlerFrame
SwapPollImpatient(c) ==
  /\ pc[c] = "swap"
  /\ \/ /\ ledger[call[c].job].state = "done"
        /\ SubmitAndLeave(c, "start", call[c].recipe)
     \/ /\ ledger[call[c].job].state # "done"
        /\ Leave(c, "stop-failed", NoRecipe)
        /\ UNCHANGED jobVars
  /\ UNCHANGED handlerFrame
SwapPollDoneOnly(c) ==
  /\ pc[c] = "swap"
  /\ ledger[call[c].job].state = "done"
  /\ SubmitAndLeave(c, "start", call[c].recipe)
  /\ UNCHANGED handlerFrame

\* _wait_job sees the stop job's verdict, or its 600 s run out.  A stop job is
\* over after 360 s at the latest (its timeout), so they run out only when it
\* has ended without a verdict in its row.
SwapPoll(c) ==
  LET job == call[c].job IN
  /\ pc[c] = "swap"
  /\ \/ /\ ledger[job].state = "done"
        /\ SubmitAndLeave(c, "start", call[c].recipe)
     \/ /\ \/ ledger[job].state \in {"failed", "unknown"}
           \/ ledger[job].state # "done" /\ task[job] = "none"
        /\ Leave(c, "stop-failed", NoRecipe)
        /\ UNCHANGED jobVars
  /\ UNCHANGED handlerFrame

-----------------------------------------------------------------------------
(* RecipeScriptExecutor, inside JobRunner._run *)

execFrame == << strays, gateVars, clusterVars >>

\* The task's first step: RUNNING, then ssh is dialled.
JobBegins(j) ==
  /\ \/ Jobs!Begin(j) /\ exec' = [ exec EXCEPT ![j] = "dial" ]
     \/ Jobs!BeginRaises(j) /\ UNCHANGED exec
  /\ UNCHANGED execFrame

\* execute returned or raised.
JobEnds(j, outcome) ==
  /\ Jobs!End(j, outcome)
  /\ exec' = [ exec EXCEPT ![j] = "none" ]

\* A line of output, put out before the script or after it, cannot be saved.
\* (One that can changes no row's state and leaves nothing uncommitted, which
\* here is so already: see StoreSettled.)
OutputLost(j) ==
  /\ exec[j] \in {"dial", "ok", "bad", "health"}
  /\ Jobs!EmitRaises(j)
  /\ exec' = [ exec EXCEPT ![j] = "none" ]
  /\ UNCHANGED execFrame

DialFails(j) ==
  /\ exec[j] = "dial"
  /\ JobEnds(j, "failed")
  /\ UNCHANGED execFrame

ScriptStarts(j) ==
  /\ exec[j] = "dial"
  /\ exec' = [ exec EXCEPT ![j] = "script" ]
  /\ UNCHANGED << jobVars, execFrame >>

\* Faulty ScriptReturns: the script's exit code is the job's, for a start too.
ScriptReturnsUnpolled(j) ==
  /\ \/ exec[j] = "bad" /\ JobEnds(j, "failed")
     \/ exec[j] = "ok" /\ JobEnds(j, "done")
  /\ UNCHANGED execFrame

\* ssh hands back the exit code: a started recipe is polled for health.
ScriptReturns(j) ==
  /\ \/ /\ exec[j] = "bad"
        /\ JobEnds(j, "failed")
     \/ /\ exec[j] = "ok" /\ Job(j).op = "stop"
        /\ JobEnds(j, "done")
     \/ /\ exec[j] = "ok" /\ Job(j).op = "start"
        /\ exec' = [ exec EXCEPT ![j] = "health" ]
        /\ UNCHANGED jobVars
  /\ UNCHANGED execFrame

\* ssh's timeout, a lost connection: execute raises, the script goes on.
LinkLost(j) ==
  /\ LinkFaults /\ exec[j] = "script"
  /\ JobEnds(j, "failed")
  /\ strays' = strays \cup {Job(j)}
  /\ UNCHANGED << gateVars, clusterVars >>

\* _wait_healthy: a poll succeeds, or the deadline (its own or the job's)
\* passes.
HealthArrives(j) ==
  /\ exec[j] = "health" /\ Healthy(Job(j).recipe)
  /\ JobEnds(j, "done")
  /\ UNCHANGED execFrame

\* Faulty HealthTimesOut: the polls have no deadline.
HealthKeepsPolling(j) ==
  /\ exec[j] = "health" /\ ~Healthy(Job(j).recipe)
  /\ UNCHANGED vars

HealthTimesOut(j) ==
  /\ exec[j] = "health"
  /\ JobEnds(j, "failed")
  /\ UNCHANGED execFrame

-----------------------------------------------------------------------------
(* The nodes and the gateway process *)

\* A script ends; one that fails may have done its work or not.  (One that
\* succeeds is taken to have: the gateway never looks again.)
Effect(label, verdict) ==
  \/ label.op = "start" /\ BringUp(label.recipe)
  \/ label.op = "stop" /\ TakeDown(label.recipe)
  \/ verdict = "bad" /\ UNCHANGED clusterVars

ScriptExits(j, verdict) ==
  /\ exec[j] = "script"
  /\ Effect(Job(j), verdict)
  /\ exec' = [ exec EXCEPT ![j] = verdict ]
  /\ UNCHANGED << strays, gateVars, jobVars >>

StrayExits(label, verdict) ==
  /\ label \in strays
  /\ Effect(label, verdict)
  /\ strays' = strays \ {label}
  /\ UNCHANGED << exec, gateVars, jobVars >>

AnyScriptExits ==
  \E verdict \in {"ok", "bad"} :
    \/ \E j \in JobIds : ScriptExits(j, verdict)
    \/ \E label \in strays : StrayExits(label, verdict)

ClusterMoves == NodesMove /\ UNCHANGED << gateVars, execVars, jobVars >>

\* Faulty Restart: reconcile frees the lane while a script may still run.
RestartReconciled ==
  /\ restarts < MaxRestarts
  /\ restarts' = restarts + 1
  /\ task' = [ j \in JobIds |-> "none" ]
  /\ ledger' = Jobs!Reconciled(disk) /\ disk' = ledger' /\ faults' = 0
  /\ exec' = [ j \in JobIds |-> "none" ]
  /\ strays' = strays \cup { Job(j) : j \in { k \in JobIds : exec[k] = "script" } }
  /\ pc' = [ c \in Clients |-> "idle" ]
  /\ call' = [ c \in Clients |-> NoCall ]
  /\ lock' = NoClient /\ queue' = << >>
  /\ UNCHANGED << reply, calls, clusterVars >>

\* The process stops and starts again.  Requests in flight are lost with the
\* lock, scripts on the nodes are not.
Restart ==
  /\ Jobs!Restart
  /\ exec' = [ j \in JobIds |-> "none" ]
  /\ strays' = strays \cup { Job(j) : j \in { k \in JobIds : exec[k] = "script" } }
  /\ pc' = [ c \in Clients |-> "idle" ]
  /\ call' = [ c \in Clients |-> NoCall ]
  /\ reply' = [ c \in Clients |->
       IF pc[c] = "idle" THEN reply[c] ELSE [ NoReply EXCEPT !.kind = "lost" ] ]
  /\ lock' = NoClient /\ queue' = << >>
  /\ UNCHANGED << calls, clusterVars >>

HandlerStep(c) ==
  \/ Resume(c) \/ ProbeFails(c) \/ ProbeForStop(c) \/ ProbeForStart(c)
  \/ CheckHealth(c) \/ Scan(c) \/ StopHolder(c) \/ SwapPoll(c)

ExecutorStep(j) ==
  \/ JobBegins(j) \/ OutputLost(j) \/ DialFails(j) \/ ScriptStarts(j)
  \/ ScriptReturns(j) \/ LinkLost(j) \/ HealthArrives(j) \/ HealthTimesOut(j)

Next ==
  \/ \E c \in Clients : ArriveAny(c) \/ HandlerStep(c)
  \/ \E j \in JobIds : ExecutorStep(j)
  \/ AnyScriptExits
  \/ ClusterMoves
  \/ Restart

Spec == Init /\ [][Next]_vars

\* The event loop runs every handler and task whose await is over, and every
\* await of theirs ends: ssh and urlopen have timeouts, _wait_healthy a
\* deadline.  Nothing is assumed of the scripts, the models or the clients, and
\* no executor may count on a failing write to get it on.
Fairness ==
  /\ \A c \in Clients : WF_vars(HandlerStep(c))
  /\ \A j \in JobIds : WF_vars(ExecutorStep(j) /\ UNCHANGED faults)

FairSpec == Spec /\ Fairness

-----------------------------------------------------------------------------
(* Properties *)

InLock == {"probe", "health", "scan", "holder", "swap"}

CallType ==
  [ op : Ops \cup {"none"}, recipe : RecipeIds \cup {UnknownId, NoRecipe},
    confirm : BOOLEAN, asked : RecipeIds \cup {NoRecipe},
    scan : 0..Len(Registry), holder : RecipeIds \cup {NoRecipe},
    job : JobIds \cup {0} ]

ReplyKinds ==
  { "none", "accepted", "already-up", "already-stopped", "op-in-progress",
    "needs-confirm", "unknown-recipe", "unreachable", "internal-error",
    "stop-failed", "lost" }

ReplyType ==
  [ kind : ReplyKinds, recipe : RecipeIds \cup {UnknownId, NoRecipe},
    holder : RecipeIds \cup {NoRecipe} ]

GateTypeOK ==
  /\ pc \in [ Clients -> InLock \cup {"idle", "queued"} ]
  /\ call \in [ Clients -> CallType ]
  /\ reply \in [ Clients -> ReplyType ]
  /\ lock \in Clients \cup {NoClient}
  /\ queue \in Seq(Clients)
  /\ calls \in 0..MaxCalls

ExecTypeOK ==
  /\ exec \in [ JobIds -> {"none", "dial", "script", "ok", "bad", "health"} ]
  /\ strays \subseteq Labels

\* The shape of the state.
TypeOK ==
  /\ GateTypeOK
  /\ ExecTypeOK
  /\ Jobs!TypeOK
  /\ up \subseteq RecipeIds /\ ready \subseteq up /\ paused \subseteq up

\* One operation at a time: two start/stop jobs are never in flight together,
\* whatever requests interleave around the two checks, the lock and a swap.
OneOperation == \A j, k \in InFlight : j = k

\* The lock is held exactly by the handler that is past its second check.
LockHeld == \A c \in Clients : pc[c] \in InLock <=> lock = c

\* What the second check saw stays true until the handler lets go: nothing is
\* in flight but, in a swap, the handler's own stop job.
LaneGuarded ==
  \A c \in Clients :
    pc[c] \in InLock => InFlight \subseteq IF pc[c] = "swap" THEN {call[c].job} ELSE {}

\* A handler's locals are what its place in the code needs them to be.
LocalsOK ==
  \A c \in Clients :
    /\ pc[c] \in InLock => call[c].recipe \in RecipeIds
    /\ pc[c] \in InLock \ {"probe"} => call[c].op = "start"
    /\ pc[c] = "scan" => call[c].scan \in DOMAIN Registry
    /\ pc[c] = "holder" => call[c].holder \in RecipeIds
    /\ pc[c] = "swap" => call[c].job \in JobIds

\* Executor, task and row agree on every job the process works on.
TasksMatch ==
  \A j \in JobIds :
    /\ exec[j] # "none" <=> task[j] = "executing"
    /\ task[j] = "executing" => ledger[j].state = "running"
    /\ task[j] = "scheduled" => ledger[j].state = "pending"

\* Nothing is left uncommitted while a task is there, nor before a write has
\* failed; what is committed, and may come back when a write is rolled back,
\* holds the lane once too, and is no row that the process has not.
StoreSettled ==
  /\ (\E j \in JobIds : task[j] # "none") \/ faults = 0 => disk = ledger
  /\ \A j \in JobIds : ledger[j] = Jobs!NoRow => disk[j] = Jobs!NoRow
  /\ \A j, k \in JobIds :
       disk[j].state \in Jobs!NonTerminal /\ disk[k].state \in Jobs!NonTerminal => j = k

\* A swap waits in vain only after a write failed.
SwapAttended ==
  \A c \in Clients :
    pc[c] = "swap" /\ call[c].job \in InFlight => faults > 0 \/ task[call[c].job] # "none"

\* The inductive invariant behind OneOperation and SwapWindowClosed.
Inv ==
  /\ TypeOK
  /\ LockHeld
  /\ LaneGuarded
  /\ LocalsOK
  /\ TasksMatch
  /\ OneOperation
  /\ StoreSettled
  /\ SwapAttended

\* What a crash leaves behind blocks the lane: there is at most one stray
\* script, and a row in flight that no task works on.
StraysBlock ==
  strays # {} => \E k \in InFlight : task[k] = "none" /\ disk[k] = ledger[k]
StraysInv == StraysBlock /\ (\A a, b \in strays : a = b)

\* The scripts now running on the nodes, attended or not.
Attended == { j \in JobIds : exec[j] = "script" }

\* "Instead of launching a concurrent, conflicting process": at most one
\* script runs anywhere.
AtMostOneScript ==
  /\ \A j, k \in Attended : j = k
  /\ \A a, b \in strays : a = b
  /\ Attended = {} \/ strays = {}

\* Only one recipe holds a lane: no two running deployments conflict.
LaneExclusive == \A a, b \in up : b \notin Conflicting(a)

Submitted(j) == ledger[j] = Jobs!NoRow /\ ledger'[j] # Jobs!NoRow

\* A start is submitted only while nothing that conflicts with it runs: what
\* the probes of the arbitration saw, one ssh call after the other, is still
\* so when the job is created, and after a swap the holder is really gone.
StartsOnFreeLane ==
  [][ \A j \in JobIds :
        Submitted(j) /\ ledger'[j].action.op = "start"
          => up \cap Conflicting(ledger'[j].action.recipe) = {} ]_vars

\* Between a swap's stop and its start nobody else gets a job in: while c
\* waits for its stop job, the only job ever created is c's own start.
SwapWindowClosed ==
  [][ \A c \in Clients, j \in JobIds :
        pc[c] = "swap" /\ Submitted(j)
          => /\ ledger[call[c].job].state = "done"
             /\ ledger'[j].action = [ op |-> "start", recipe |-> call[c].recipe ] ]_vars

\* "already up" is said only of a recipe that is itself up and serving.
AlreadyUpTruthful ==
  [][ \A c \in Clients :
        pc[c] = "health" /\ pc'[c] = "idle" /\ reply'[c].kind = "already-up"
          => call[c].recipe \in ready ]_vars

\* "already stopped" is said only when no container of the recipe is left, the
\* paused and the restarting ones included.
AlreadyStoppedTruthful ==
  [][ \A c \in Clients :
        pc[c] = "probe" /\ pc'[c] = "idle" /\ reply'[c].kind = "already-stopped"
          => call[c].recipe \notin up ]_vars

\* What a request did is what its status says, whichever writes of the store
\* fail: 202 leaves exactly the job that was asked for in flight, with its task;
\* any other answer from inside the lock leaves no task at work, the failed
\* swap's included, and a row in flight only with a 500 after a write failed.
AnswerFitsLane ==
  [][ \A c \in Clients :
        pc[c] \in InLock /\ pc'[c] = "idle" /\ reply'[c].kind # "lost"
          => LET status == HttpStatus(reply'[c].kind) IN
             IF status = 202
               THEN \E j \in JobIds :
                      /\ InFlight' = {j} /\ task'[j] = "scheduled"
                      /\ ledger'[j].action =
                           [ op |-> call[c].op, recipe |-> call[c].recipe ]
               ELSE /\ \A j \in JobIds : task'[j] = "none"
                    /\ InFlight' # {} => status = 500 /\ faults' > 0 ]_vars

\* A start job is done only when the recipe it started is serving.
DoneMeansServing ==
  [][ \A j \in JobIds :
        ledger[j].state = "running" /\ ledger'[j].state = "done" /\ Job(j).op = "start"
          => Job(j).recipe \in ready ]_vars

\* A confirmed swap stops the recipe the user was shown, no other.  (Not so:
\* with a third recipe the lane may change hands before the second call.)
ConfirmedHolder ==
  [][ \A c \in Clients :
        pc[c] = "holder" /\ pc'[c] = "swap" /\ call[c].asked # NoRecipe
          => call[c].holder = call[c].asked ]_vars

\* Every request is answered.
CallsAnswered == \A c \in Clients : pc[c] # "idle" ~> pc[c] = "idle"

\* Every accepted job ends, so the lane never stays busy for good, unless a
\* write fails.
JobsEnd == Jobs!JobsEnd

=============================================================================
