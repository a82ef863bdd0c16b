----------------------------- MODULE LaneProofs -----------------------------
(***************************************************************************)
(* Proofs about the lane: on a registry as FirstLane describes it, no two  *)
(* recipes that fight for a lane are ever up together, whichever writes of *)
(* the job store fail; and while none fails, ServerControl implements      *)
(* Lane.                                                                   *)
(***************************************************************************)
EXTENDS LaneRefinement, ServerControlProofs, LaneLemmas

-----------------------------------------------------------------------------
(* The inductive invariant *)

\* ssh outlasts the scripts, the ledger is a file, no boot reconciles it.
Attentive == ~LinkFaults /\ Durable /\ ~ReconcileOnBoot

\* Recipes that keep to themselves, the lane before the others.
FirstLane == OwnMarks /\ Noticed /\ LaneFirst

\* Nothing that fights a recipe is up.
FreeFor(id) == up \cap Conflicting(id) = {}

\* What is up is at peace, with the start that is under way too.
Peaceful ==
  /\ paused \subseteq Flaky
  /\ Peace
  /\ \A j \in JobIds : task[j] # "none" /\ Job(j).op = "start" => FreeFor(Job(j).recipe)
  /\ \A label \in strays : label.op = "start" => FreeFor(label.recipe)

\* No handler is in the lock while a stray runs; a script that stopped its
\* recipe left it gone.
ScriptsOwned ==
  /\ \A c \in Clients : pc[c] \in InLock => strays = {}
  /\ \A j \in JobIds : exec[j] = "health" => Job(j).op = "start"
  /\ \A j \in JobIds : exec[j] = "ok" /\ Job(j).op = "stop" => Job(j).recipe \notin up

\* What the handler in the lock has found out is still so.
Seen(c) ==
  /\ pc[c] = "health" => FreeFor(call[c].recipe)
  /\ pc[c] = "scan" => \A i \in 1..(call[c].scan - 1) : Registry[i].id \notin up
  /\ pc[c] \in {"holder", "swap"} =>
       up \cap Conflicting(call[c].recipe) \subseteq {call[c].holder}
  /\ pc[c] = "swap" =>
       /\ ledger[call[c].job] # Jobs!NoRow
       /\ Job(call[c].job) = [ op |-> "stop", recipe |-> call[c].holder ]
       /\ ledger[call[c].job].state = "done" => FreeFor(call[c].recipe)

LaneInv ==
  /\ Peaceful
  /\ ScriptsOwned
  /\ \A c \in Clients : Seen(c)

-----------------------------------------------------------------------------
(* Jobs and their executors *)

\* The writes of a task: what its row is to become.
Writes(j, state) ==
  \/ state = "running" /\ (Jobs!Begin(j) \/ Jobs!BeginRaises(j))
  \/ state = "failed" /\ Jobs!EmitRaises(j)
  \/ state \in {"done", "failed"} /\ Jobs!End(j, state)

\* A task's write changes the state of its row, or fails to, and nothing else.
LEMMA TaskWrites ==
  ASSUME JobsOK, NEW j \in JobIds, NEW state \in {"running", "done", "failed"},
         Writes(j, state)
  PROVE  /\ task[j] # "none" /\ InFlight = {j} /\ disk = ledger
         /\ \A k \in JobIds : Job(k)' = Job(k)
         /\ \A k \in JobIds \ {j} : ledger'[k] = ledger[k]
         /\ ledger'[j].state \in {ledger[j].state, state}
         /\ faults' = faults => ledger'[j].state = state
         /\ MadeJobs' = MadeJobs
         /\ \A k \in JobIds : task'[k] # "none" => task[k] # "none"
         /\ disk' \in {ledger, ledger'}
  <1>1. /\ task[j] # "none"
        /\ \E end \in {"none", "executing"} : task' = [ task EXCEPT ![j] = end ]
    BY DEF Writes, Jobs!Begin, Jobs!BeginRaises, Jobs!End, Jobs!EmitRaises
  <1>2. InFlight = {j} /\ ledger[j] \in JobRow /\ disk = ledger
    BY <1>1, TaskAlone
  <1>3. /\ ledger \in [ JobIds -> Jobs!Rows ] /\ faults \in Nat
        /\ task \in [ JobIds -> {"none", "scheduled", "executing"} ]
    BY ServerControlAssumption DEF JobsOK, Jobs!TypeOK, JobIds
  <1>. DEFINE written == [ ledger EXCEPT ![j].state = state ]
  <1>4. /\ written[j].state = state /\ written[j].action = ledger[j].action
        /\ \A k \in JobIds \ {j} : written[k] = ledger[k]
    BY <1>2, <1>3 DEF JobRow
  <1>5. \/ ledger' = written /\ disk' = written
        \/ faults' # faults /\ ledger' \in {ledger, written} /\ disk' \in {ledger, ledger'}
    <2>1. CASE Jobs!EmitRaises(j) /\ state = "failed"
      BY <1>2, <1>3, <2>1 DEF Jobs!EmitRaises
    <2>2. CASE Jobs!Saves(written)
      BY <2>2 DEF Jobs!Saves
    <2>3. CASE Jobs!Loses(written)
      BY <1>2, <1>3, <2>3 DEF Jobs!Loses, Jobs!Leftovers
    <2>. QED
      BY <2>1, <2>2, <2>3
         DEF Writes, Jobs!Begin, Jobs!BeginRaises, Jobs!End, Jobs!Marked
  <1>. HIDE DEF written
  <1>6. ledger[j] # Jobs!NoRow /\ written[j] # Jobs!NoRow
    BY <1>2, <1>4 DEF JobRow, Jobs!NoRow, Jobs!NonTerminal, Jobs!TerminalStates
  <1>7. MadeJobs' = MadeJobs
    BY <1>4, <1>5, <1>6 DEF MadeJobs
  <1>8. \A k \in JobIds : Job(k)' = Job(k)
    BY <1>4, <1>5 DEF Job
  <1>. QED
    BY <1>1, <1>2, <1>3, <1>4, <1>5, <1>7, <1>8

\* An executor ends by a write of its task.
LEMMA EndsWrite ==
  ASSUME NEW j \in JobIds, NEW outcome \in {"done", "failed"}, JobEnds(j, outcome)
  PROVE  Writes(j, outcome) /\ exec' = [ exec EXCEPT ![j] = "none" ]
  BY DEF JobEnds, Writes

\* A script with an executor, or one that lost it.
UnderWay(label) ==
  label \in strays \/ \E j \in JobIds : exec[j] # "none" /\ Job(j) = label

\* No other script and no other task is there with it.
LEMMA AloneUnderWay ==
  ASSUME Inv, StraysInv, NEW label, UnderWay(label)
  PROVE  /\ label \in Labels
         /\ \A other \in strays : other = label
         /\ \A j \in JobIds : task[j] # "none" => Job(j) = label
  <1>. JobsOK
    BY Halves
  <1>1. ASSUME NEW j \in JobIds, task[j] # "none"
        PROVE  strays = {} /\ \A k \in JobIds : task[k] # "none" => k = j
    <2>1. InFlight = {j} /\ \A k \in JobIds \ {j} : task[k] = "none"
      BY <1>1, TaskAlone
    <2>. QED
      BY <1>1, <2>1 DEF StraysInv, StraysBlock
  <1>2. CASE label \in strays
    BY <1>1, <1>2 DEF StraysInv, Inv, TypeOK, ExecTypeOK
  <1>3. ASSUME NEW k \in JobIds, exec[k] # "none", Job(k) = label
        PROVE  /\ label \in Labels
               /\ \A other \in strays : other = label
               /\ \A j \in JobIds : task[j] # "none" => Job(j) = label
    <2>1. task[k] # "none" /\ label \in Labels
      BY <1>3, ExecutorLabelled
    <2>. QED
      BY <1>1, <1>3, <2>1
  <1>. QED
    BY <1>2, <1>3 DEF UnderWay

\* While a start is under way nobody is in the lock.
LEMMA StartUnlocks ==
  ASSUME Inv, LaneInv, NEW label, UnderWay(label), label.op = "start", NEW c \in Clients
  PROVE  pc[c] \notin InLock
  <1>. SUFFICES ASSUME pc[c] \in InLock PROVE FALSE
    OBVIOUS
  <1>1. PICK k \in JobIds : exec[k] # "none" /\ Job(k) = label
    BY DEF LaneInv, ScriptsOwned, UnderWay
  <1>2. k \in InFlight
    BY <1>1, ExecutorLabelled
  <1>3. pc[c] = "swap" /\ k = call[c].job
    BY <1>2 DEF Inv, LaneGuarded
  <1>4. Job(k) = [ op |-> "stop", recipe |-> call[c].holder ]
    BY <1>3 DEF LaneInv, Seen
  <1>. QED
    BY <1>1, <1>4

\* The rows of the new state, when no row changed.
LEMMA SameRows ==
  ASSUME ledger' = ledger
  PROVE  /\ InFlight' = InFlight /\ MadeJobs' = MadeJobs
         /\ \A j : Job(j)' = Job(j)
  BY DEF InFlight, Jobs!InFlight, MadeJobs, Job, JobIds

-----------------------------------------------------------------------------
(* The scripts and the nodes *)

\* Deployments only go, and no job moves.
LEMMA ShrinkKeeps ==
  ASSUME LaneInv, up' \subseteq up, paused' \subseteq Flaky,
         UNCHANGED << pc, call, ledger, task >>, strays' \subseteq strays,
         \A j \in JobIds : exec'[j] = "health" => Job(j).op = "start",
         \A j \in JobIds : exec'[j] = "ok" /\ Job(j).op = "stop"
                             => exec[j] = "ok" \/ Job(j).recipe \notin up'
  PROVE  LaneInv'
  <1>1. \A j : Job(j)' = Job(j)
    BY SameRows
  <1>2. Peaceful'
    BY <1>1 DEF LaneInv, Peaceful, Peace, FreeFor
  <1>3. ScriptsOwned'
    BY <1>1 DEF LaneInv, ScriptsOwned
  <1>4. \A c \in Clients : Seen(c)'
    BY <1>1 DEF LaneInv, Seen, FreeFor
  <1>. QED
    BY <1>2, <1>3, <1>4 DEF LaneInv

\* The script of a start takes effect.
LEMMA BringUpKeeps ==
  ASSUME FirstLane, Inv, StraysInv, LaneInv, NEW label, UnderWay(label),
         label.op = "start", BringUp(label.recipe),
         UNCHANGED << pc, call, ledger, task >>, strays' \subseteq strays,
         \A j \in JobIds : exec'[j] # exec[j] => exec'[j] # "health" /\ exec[j] # "none"
  PROVE  LaneInv'
  <1>. DEFINE id == label.recipe
  <1>1. \A j : Job(j)' = Job(j)
    BY SameRows
  <1>2. /\ label \in Labels
        /\ \A other \in strays : other = label
        /\ \A j \in JobIds : task[j] # "none" => Job(j) = label
    BY AloneUnderWay
  <1>3. id \in RecipeIds /\ up \subseteq RecipeIds /\ paused \subseteq Flaky
    BY <1>2 DEF Inv, TypeOK, Labels, LaneInv, Peaceful
  <1>4. Peace /\ up \cap Conflicting(id) = {}
    <2>1. ASSUME NEW j \in JobIds, exec[j] # "none", Job(j) = label
          PROVE  FreeFor(Job(j).recipe)
      BY <2>1, ExecutorLabelled DEF LaneInv, Peaceful
    <2>. QED
      BY <2>1 DEF LaneInv, Peaceful, UnderWay, FreeFor
  <1>5. Peace' /\ up' \cap Conflicting(id) = {} /\ paused' \subseteq Flaky
    BY <1>3, <1>4, BringUpKeepsPeace DEF FirstLane
  <1>6. Peaceful'
    <2>1. \A j \in JobIds : task'[j] # "none" => Job(j)' = label
      BY <1>1, <1>2
    <2>2. \A other \in strays' : other = label
      BY <1>2
    <2>3. FreeFor(id)'
      BY <1>5 DEF FreeFor
    <2>. QED
      BY <1>5, <2>1, <2>2, <2>3 DEF Peaceful
  <1>7. \A c \in Clients : pc[c] \notin InLock
    BY StartUnlocks
  <1>8. ScriptsOwned'
    <2>1. ASSUME NEW j \in JobIds, exec'[j] = "ok" PROVE Job(j).op = "start"
      <3>1. exec[j] # "none"
        BY <2>1
      <3>2. task[j] # "none"
        BY <3>1, ExecutorLabelled
      <3>. QED
        BY <1>2, <3>2
    <2>2. \A j \in JobIds : exec'[j] = "health" => Job(j).op = "start"
      BY DEF LaneInv, ScriptsOwned
    <2>. QED
      BY <1>1, <1>7, <2>1, <2>2 DEF ScriptsOwned
  <1>9. \A c \in Clients : Seen(c)'
    BY <1>7 DEF Seen, InLock
  <1>. QED
    BY <1>6, <1>8, <1>9 DEF LaneInv

LEMMA LaneScriptExits ==
  ASSUME FirstLane, Inv, StraysInv, LaneInv, AnyScriptExits
  PROVE  LaneInv'
  <1>1. UNCHANGED << pc, call, ledger, task >>
    BY DEF AnyScriptExits, ScriptExits, StrayExits, gateVars, jobVars
  <1>2. ASSUME NEW id \in RecipeIds, TakeDown(id)
        PROVE  up' \subseteq up /\ paused' \subseteq Flaky /\ id \notin up'
    <2>1. Sharing(id) = {id}
      BY OwnProbes DEF FirstLane, Inv, TypeOK
    <2>. QED
      BY <1>2, <2>1 DEF TakeDown, LaneInv, Peaceful
  <1>3. ASSUME NEW verdict \in {"ok", "bad"}, NEW j \in JobIds, ScriptExits(j, verdict)
        PROVE  LaneInv'
    <2>1. /\ exec[j] = "script" /\ exec' = [ exec EXCEPT ![j] = verdict ]
          /\ strays' = strays /\ Effect(Job(j), verdict)
      BY <1>3 DEF ScriptExits
    <2>2. UnderWay(Job(j))
      BY <2>1 DEF UnderWay
    <2>3. Job(j) \in Labels
      BY <2>1, ExecutorLabelled
    <2>4. \A k \in JobIds : exec'[k] = IF k = j THEN verdict ELSE exec[k]
      BY <2>1 DEF Inv, TypeOK, ExecTypeOK
    <2>5. CASE Job(j).op = "start" /\ BringUp(Job(j).recipe)
      BY <1>1, <2>1, <2>2, <2>4, <2>5, BringUpKeeps
    <2>6. CASE Job(j).op = "stop" /\ TakeDown(Job(j).recipe)
      <3>1. up' \subseteq up /\ paused' \subseteq Flaky /\ Job(j).recipe \notin up'
        BY <1>2, <2>3, <2>6 DEF Labels
      <3>. QED
        BY <1>1, <2>1, <2>4, <3>1, ShrinkKeeps DEF LaneInv, ScriptsOwned
    <2>7. CASE verdict = "bad" /\ UNCHANGED clusterVars
      <3>1. up' \subseteq up /\ paused' \subseteq Flaky
        BY <2>7 DEF clusterVars, LaneInv, Peaceful
      <3>. QED
        BY <1>1, <2>1, <2>4, <2>7, <3>1, ShrinkKeeps DEF LaneInv, ScriptsOwned
    <2>. QED
      BY <2>1, <2>5, <2>6, <2>7 DEF Effect
  <1>4. ASSUME NEW verdict \in {"ok", "bad"}, NEW label \in strays, StrayExits(label, verdict)
        PROVE  LaneInv'
    <2>1. strays' \subseteq strays /\ exec' = exec /\ Effect(label, verdict)
      BY <1>4 DEF StrayExits
    <2>2. UnderWay(label)
      BY DEF UnderWay
    <2>3. label \in Labels
      BY DEF Inv, TypeOK, ExecTypeOK
    <2>4. CASE label.op = "start" /\ BringUp(label.recipe)
      BY <1>1, <2>1, <2>2, <2>4, BringUpKeeps
    <2>5. CASE label.op = "stop" /\ TakeDown(label.recipe)
      <3>1. up' \subseteq up /\ paused' \subseteq Flaky
        BY <1>2, <2>3, <2>5 DEF Labels
      <3>. QED
        BY <1>1, <2>1, <3>1, ShrinkKeeps DEF LaneInv, ScriptsOwned
    <2>6. CASE UNCHANGED clusterVars
      <3>1. up' \subseteq up /\ paused' \subseteq Flaky
        BY <2>6 DEF clusterVars, LaneInv, Peaceful
      <3>. QED
        BY <1>1, <2>1, <3>1, ShrinkKeeps DEF LaneInv, ScriptsOwned
    <2>. QED
      BY <2>1, <2>4, <2>5, <2>6 DEF Effect
  <1>. QED
    BY <1>3, <1>4 DEF AnyScriptExits

LEMMA LaneClusterMoves ==
  ASSUME LaneInv, ClusterMoves
  PROVE  LaneInv'
  <1>1. up' \subseteq up /\ paused' \subseteq Flaky
    BY DEF ClusterMoves, NodesMove, Loads, Dies, Falters, Recovers, LaneInv, Peaceful
  <1>2. UNCHANGED << pc, call, ledger, task, strays, exec >>
    BY DEF ClusterMoves, gateVars, execVars, jobVars
  <1>. QED
    BY <1>1, <1>2, ShrinkKeeps DEF LaneInv, ScriptsOwned

-----------------------------------------------------------------------------
(* The executor *)

\* A task begins or ends; a stop job that is done left its recipe gone.
LEMMA LaneTaskWrites ==
  ASSUME Inv, LaneInv, NEW j \in JobIds, NEW state \in {"running", "done", "failed"},
         Writes(j, state), \A k \in JobIds : exec'[k] \in {exec[k], "none", "dial"},
         UNCHANGED execFrame,
         state = "done" /\ Job(j).op = "stop" => Job(j).recipe \notin up
  PROVE  LaneInv'
  <1>1. UNCHANGED << strays, pc, call, up, paused >>
    BY DEF execFrame, gateVars, clusterVars
  <1>2. /\ InFlight = {j}
        /\ \A k \in JobIds : Job(k)' = Job(k)
        /\ \A k \in JobIds \ {j} : ledger'[k] = ledger[k]
        /\ ledger'[j].state \in {ledger[j].state, state}
        /\ MadeJobs' = MadeJobs
        /\ \A k \in JobIds : task'[k] # "none" => task[k] # "none"
    BY TaskWrites, Halves
  <1>3. Peaceful'
    BY <1>1, <1>2 DEF LaneInv, Peaceful, Peace, FreeFor
  <1>4. ScriptsOwned'
    BY <1>1, <1>2 DEF LaneInv, ScriptsOwned
  <1>5. ASSUME NEW c \in Clients PROVE Seen(c)'
    <2>1. CASE pc[c] = "swap"
      <3>1. /\ call[c].job \in JobIds /\ ledger[call[c].job] # Jobs!NoRow
            /\ Job(call[c].job) = [ op |-> "stop", recipe |-> call[c].holder ]
            /\ up \cap Conflicting(call[c].recipe) \subseteq {call[c].holder}
            /\ ledger[call[c].job].state = "done" => FreeFor(call[c].recipe)
        BY <2>1 DEF Inv, LocalsOK, LaneInv, Seen
      <3>2. j = call[c].job
        BY <1>2, <2>1 DEF Inv, LaneGuarded, InLock
      <3>3. ledger'[call[c].job] # Jobs!NoRow
        BY <1>2, <3>1 DEF MadeJobs
      <3>4. ledger'[call[c].job].state = "done" => FreeFor(call[c].recipe)
        BY <1>2, <3>1, <3>2 DEF FreeFor
      <3>. QED
        BY <1>1, <1>2, <2>1, <3>1, <3>3, <3>4 DEF Seen, FreeFor
    <2>. QED
      BY <1>1, <2>1 DEF LaneInv, Seen, FreeFor
  <1>. QED
    BY <1>3, <1>4, <1>5 DEF LaneInv

LEMMA LaneJobEnds ==
  ASSUME Inv, LaneInv, NEW j \in JobIds, NEW outcome \in {"done", "failed"},
         JobEnds(j, outcome), UNCHANGED execFrame,
         outcome = "done" /\ Job(j).op = "stop" => Job(j).recipe \notin up
  PROVE  LaneInv'
  <1>1. \A k \in JobIds : exec'[k] \in {exec[k], "none"}
    BY DEF JobEnds, Inv, TypeOK, ExecTypeOK
  <1>2. Writes(j, outcome) /\ outcome \in {"running", "done", "failed"}
    BY EndsWrite
  <1>. QED
    BY <1>1, <1>2, LaneTaskWrites

LEMMA LaneExecutorStep ==
  ASSUME ~LinkFaults, Inv, LaneInv, NEW j \in JobIds, ExecutorStep(j)
  PROVE  LaneInv'
  <1>. exec \in [ JobIds -> {"none", "dial", "script", "ok", "bad", "health"} ]
    BY DEF Inv, TypeOK, ExecTypeOK
  <1>1. CASE JobBegins(j)
    <2>1. /\ Writes(j, "running") /\ UNCHANGED execFrame
          /\ \A k \in JobIds : exec'[k] \in {exec[k], "none", "dial"}
      BY <1>1 DEF JobBegins, Writes
    <2>. QED
      BY <2>1, LaneTaskWrites
  <1>2. CASE OutputLost(j)
    <2>1. /\ Writes(j, "failed") /\ UNCHANGED execFrame
          /\ \A k \in JobIds : exec'[k] \in {exec[k], "none", "dial"}
      BY <1>2 DEF OutputLost, Writes
    <2>. QED
      BY <2>1, LaneTaskWrites
  <1>3. CASE DialFails(j) \/ HealthTimesOut(j)
    BY <1>3, LaneJobEnds DEF DialFails, HealthTimesOut
  <1>4. CASE HealthArrives(j)
    <2>1. Job(j).op = "start"
      BY <1>4 DEF HealthArrives, LaneInv, ScriptsOwned
    <2>. QED
      BY <1>4, <2>1, LaneJobEnds DEF HealthArrives
  <1>5. CASE ScriptReturns(j)
    <2>1. CASE exec[j] = "bad" /\ JobEnds(j, "failed")
      BY <1>5, <2>1, LaneJobEnds DEF ScriptReturns
    <2>2. CASE exec[j] = "ok" /\ Job(j).op = "stop" /\ JobEnds(j, "done")
      <3>1. Job(j).recipe \notin up
        BY <2>2 DEF LaneInv, ScriptsOwned
      <3>. QED
        BY <1>5, <2>2, <3>1, LaneJobEnds DEF ScriptReturns
    <2>3. CASE /\ Job(j).op = "start" /\ exec' = [ exec EXCEPT ![j] = "health" ]
               /\ UNCHANGED jobVars
      <3>1. UNCHANGED << pc, call, ledger, task, strays, up, paused >>
        BY <1>5, <2>3 DEF ScriptReturns, execFrame, gateVars, clusterVars, jobVars
      <3>2. \A k \in JobIds : exec'[k] = IF k = j THEN "health" ELSE exec[k]
        BY <2>3
      <3>3. up' \subseteq up /\ paused' \subseteq Flaky
        BY <3>1 DEF LaneInv, Peaceful
      <3>. QED
        BY <2>3, <3>1, <3>2, <3>3, ShrinkKeeps DEF LaneInv, ScriptsOwned
    <2>. QED
      BY <1>5, <2>1, <2>2, <2>3 DEF ScriptReturns
  <1>6. CASE ScriptStarts(j)
    <2>1. UNCHANGED << pc, call, ledger, task, strays, up, paused >>
      BY <1>6 DEF ScriptStarts, execFrame, gateVars, clusterVars, jobVars
    <2>2. \A k \in JobIds : exec'[k] = IF k = j THEN "script" ELSE exec[k]
      BY <1>6 DEF ScriptStarts
    <2>3. up' \subseteq up /\ paused' \subseteq Flaky
      BY <2>1 DEF LaneInv, Peaceful
    <2>. QED
      BY <2>1, <2>2, <2>3, ShrinkKeeps DEF LaneInv, ScriptsOwned
  <1>. QED
    BY <1>1, <1>2, <1>3, <1>4, <1>5, <1>6 DEF ExecutorStep, LinkLost

\* A crash leaves a script running on a lane that its task had found free.
LEMMA LaneRestart ==
  ASSUME Inv, LaneInv, Restart
  PROVE  LaneInv'
  <1>1. /\ UNCHANGED << up, paused >>
        /\ exec' = [ j \in JobIds |-> "none" ]
        /\ strays' = strays \cup { Job(j) : j \in { k \in JobIds : exec[k] = "script" } }
        /\ pc' = [ c \in Clients |-> "idle" ]
        /\ task' = [ j \in JobIds |-> "none" ]
    BY DEF Restart, Jobs!Restart, JobIds, clusterVars
  <1>2. \A label \in strays' : label.op = "start" => FreeFor(label.recipe)
    <2>1. ASSUME NEW j \in JobIds, exec[j] = "script", Job(j).op = "start"
          PROVE  FreeFor(Job(j).recipe)
      <3>1. task[j] # "none"
        BY <2>1, ExecutorLabelled
      <3>. QED
        BY <2>1, <3>1 DEF LaneInv, Peaceful
    <2>. QED
      BY <1>1, <2>1 DEF LaneInv, Peaceful
  <1>3. Peaceful'
    BY <1>1, <1>2 DEF LaneInv, Peaceful, Peace, FreeFor
  <1>4. ScriptsOwned'
    BY <1>1 DEF ScriptsOwned, InLock
  <1>5. \A c \in Clients : Seen(c)'
    BY <1>1 DEF Seen
  <1>. QED
    BY <1>3, <1>4, <1>5 DEF LaneInv

-----------------------------------------------------------------------------
(* The handlers *)

\* What StartsOnFreeLane asks of a step.
StartsFree ==
  \A j \in JobIds :
    Submitted(j) /\ ledger'[j].action.op = "start"
      => up \cap Conflicting(ledger'[j].action.recipe) = {}

\* A handler's step leaves the nodes alone, and who is not in the lock after
\* it has nothing to remember.
LEMMA LaneHandlerQuiet ==
  ASSUME LaneInv, UNCHANGED << jobVars, handlerFrame >>,
         \A c \in Clients : Seen(c)' /\ (pc'[c] \in InLock => strays = {})
  PROVE  LaneInv' /\ StartsFree
  <1>1. UNCHANGED << ledger, task, exec, strays, up, paused >>
    BY DEF jobVars, handlerFrame, execVars, clusterVars
  <1>2. \A j : Job(j)' = Job(j)
    BY <1>1, SameRows
  <1>3. ScriptsOwned'
    BY <1>1, <1>2 DEF LaneInv, ScriptsOwned
  <1>4. StartsFree
    BY <1>1 DEF StartsFree, Submitted
  <1>. QED
    BY <1>1, <1>2, <1>3, <1>4 DEF LaneInv, Peaceful, Peace, FreeFor

\* A handler's step that submits a job, or fails to.
SubmitsJob(label) ==
  \E j \in JobIds : Jobs!Submit(j, label) \/ Jobs!SubmitRaises(j, label)

\* The one row such a step can add.
LEMMA SubmittedRow ==
  ASSUME JobsOK, InFlight = {}, NEW label \in Labels, SubmitsJob(label)
  PROVE  /\ \A j \in JobIds : Submitted(j) => ledger'[j].action = label
         /\ \A j \in JobIds : task'[j] # "none" => Job(j)' = label
  <1>1. Jobs!TypeOK /\ \A k \in JobIds : task[k] = "none"
    BY FreeIsIdle DEF JobsOK
  <1>2. ASSUME NEW j \in JobIds, Jobs!Submit(j, label)
        PROVE  /\ \A k \in JobIds : Submitted(k) => ledger'[k].action = label
               /\ \A k \in JobIds : task'[k] # "none" => Job(k)' = label
    <2>1. /\ ledger'[j] = [ state |-> "pending", action |-> label ]
          /\ \A k \in JobIds \ {j} : ledger'[k] = ledger[k]
          /\ task' = [ task EXCEPT ![j] = "scheduled" ]
      BY <1>1, <1>2, SubmitAdds
    <2>2. \A k \in JobIds \ {j} : task'[k] = "none"
      BY <1>1, <2>1 DEF Jobs!TypeOK, JobIds
    <2>. QED
      BY <2>1, <2>2 DEF Submitted, Job
  <1>3. ASSUME NEW j \in JobIds, Jobs!SubmitRaises(j, label)
        PROVE  /\ \A k \in JobIds : Submitted(k) => ledger'[k].action = label
               /\ \A k \in JobIds : task'[k] # "none" => Job(k)' = label
    <2>1. /\ \/ ledger' = ledger
             \/ /\ ledger'[j] = [ state |-> "pending", action |-> label ]
                /\ \A k \in JobIds \ {j} : ledger'[k] = ledger[k]
             \/ ledger' = disk
          /\ UNCHANGED task
      BY <1>1, <1>3, SubmitRaisesLeaves
    <2>2. \A k \in JobIds : ledger[k] = Jobs!NoRow => disk[k] = Jobs!NoRow
      BY DEF JobsOK, StoreSettled
    <2>. QED
      BY <1>1, <2>1, <2>2 DEF Submitted
  <1>. QED
    BY <1>2, <1>3 DEF SubmitsJob

\* A job is submitted on a lane that is free for it.
LEMMA LaneSubmit ==
  ASSUME Inv, LaneInv, InFlight = {}, strays = {}, NEW label \in Labels,
         SubmitsJob(label), label.op = "start" => FreeFor(label.recipe),
         UNCHANGED handlerFrame, \A c \in Clients : Seen(c)'
  PROVE  LaneInv' /\ StartsFree
  <1>1. UNCHANGED << exec, strays, up, paused >>
    BY DEF handlerFrame, execVars, clusterVars
  <1>2. JobsOK /\ \A j \in JobIds : exec[j] = "none"
    BY FreeIsIdle, Halves
  <1>3. /\ \A j \in JobIds : Submitted(j) => ledger'[j].action = label
        /\ \A j \in JobIds : task'[j] # "none" => Job(j)' = label
    BY <1>2, SubmittedRow
  <1>4. FreeFor(label.recipe)' <=> FreeFor(label.recipe)
    BY <1>1 DEF FreeFor
  <1>5. Peaceful'
    BY <1>1, <1>3, <1>4 DEF LaneInv, Peaceful, Peace
  <1>6. ScriptsOwned'
    BY <1>1, <1>2 DEF ScriptsOwned
  <1>7. StartsFree
    BY <1>3 DEF StartsFree, FreeFor
  <1>. QED
    BY <1>5, <1>6, <1>7 DEF LaneInv

\* Nobody remembers anything when all are out of the lock, or have just begun.
LEMMA NothingSeen ==
  ASSUME NEW c \in Clients, pc'[c] \notin InLock \ {"probe"}
  PROVE  Seen(c)'
  BY DEF Seen, InLock

\* A handler that returns: its place after the step, and the others'.
LEMMA LeaversSeeNothing ==
  ASSUME Inv, NEW c \in Clients, pc[c] \in InLock, pc' = [ pc EXCEPT ![c] = "idle" ]
  PROVE  \A d \in Clients : Seen(d)'
  <1>1. \A d \in Clients : pc'[d] \notin InLock \ {"probe"}
    BY DEF Inv, TypeOK, GateTypeOK, LockHeld, InLock
  <1>. QED
    BY <1>1, NothingSeen

LEMMA LaneLeave ==
  ASSUME Inv, LaneInv, NEW c \in Clients, pc[c] \in InLock,
         NEW kind, NEW holder, Leave(c, kind, holder),
         UNCHANGED << jobVars, handlerFrame >>
  PROVE  LaneInv' /\ StartsFree
  <1>1. strays = {}
    BY DEF LaneInv, ScriptsOwned
  <1>. QED
    BY <1>1, LeaversSeeNothing, LaneHandlerQuiet DEF Leave, Answer

\* A submit that raises ends the handler.
LEMMA LaneSubmitFails ==
  ASSUME Inv, LaneInv, NEW c \in Clients, pc[c] \in InLock, InFlight = {},
         NEW label \in Labels, label.op = "start" => FreeFor(label.recipe),
         SubmitFails(c, label), UNCHANGED handlerFrame
  PROVE  LaneInv' /\ StartsFree
  <1>1. \A d \in Clients : Seen(d)'
    BY LeaversSeeNothing DEF SubmitFails, Leave, Answer
  <1>2. SubmitsJob(label) /\ strays = {}
    BY DEF SubmitFails, SubmitsJob, LaneInv, ScriptsOwned
  <1>. QED
    BY <1>1, <1>2, LaneSubmit

\* The lane is free for a start, or there is nothing to be free for.
LEMMA LaneSubmitAndLeave ==
  ASSUME Inv, LaneInv, NEW c \in Clients, pc[c] \in InLock, InFlight = {},
         NEW op \in Ops, NEW id \in RecipeIds,
         op = "start" => FreeFor(id),
         SubmitAndLeave(c, op, id), UNCHANGED handlerFrame
  PROVE  LaneInv' /\ StartsFree
  <1>. DEFINE label == [ op |-> op, recipe |-> id ]
  <1>1. label \in Labels /\ (label.op = "start" => FreeFor(label.recipe))
    BY DEF Labels
  <1>. HIDE DEF label
  <1>2. CASE SubmitFails(c, label)
    BY <1>1, <1>2, LaneSubmitFails
  <1>3. CASE /\ \E j \in JobIds : Jobs!Submit(j, label)
             /\ Leave(c, "accepted", NoRecipe)
    <2>1. \A d \in Clients : Seen(d)'
      BY <1>3, LeaversSeeNothing DEF Leave, Answer
    <2>2. SubmitsJob(label) /\ strays = {}
      BY <1>3 DEF SubmitsJob, LaneInv, ScriptsOwned
    <2>. QED
      BY <1>1, <2>1, <2>2, LaneSubmit
  <1>. QED
    BY <1>2, <1>3 DEF SubmitAndLeave, label

\* A handler that goes on with locals: what it has to have seen.
LEMMA LaneGoOn ==
  ASSUME Inv, LaneInv, NEW c \in Clients, pc[c] \in InLock,
         NEW place \in {"health", "scan", "holder"}, NEW locals,
         GoOn(c, place, locals), UNCHANGED << jobVars, handlerFrame >>,
         place = "scan" => \A i \in 1..(locals.scan - 1) : Registry[i].id \notin up,
         place = "holder" =>
           up \cap Conflicting(locals.recipe) \subseteq {locals.holder},
         place = "health" => FreeFor(locals.recipe)
  PROVE  LaneInv' /\ StartsFree
  <1>1. /\ pc' = [ pc EXCEPT ![c] = place ] /\ call' = [ call EXCEPT ![c] = locals ]
        /\ up' = up
    BY DEF GoOn, handlerFrame, clusterVars
  <1>2. pc'[c] = place /\ call'[c] = locals
    BY <1>1 DEF Inv, TypeOK, GateTypeOK
  <1>3. Seen(c)'
    BY <1>1, <1>2 DEF Seen, FreeFor
  <1>4. \A d \in Clients \ {c} : pc'[d] \notin InLock \ {"probe"}
    BY <1>1 DEF Inv, TypeOK, GateTypeOK, LockHeld, InLock
  <1>5. \A d \in Clients : Seen(d)'
    BY <1>3, <1>4, NothingSeen
  <1>6. strays = {}
    BY DEF LaneInv, ScriptsOwned
  <1>. QED
    BY <1>5, <1>6, LaneHandlerQuiet

\* Who enters the lock sees nothing in flight, so no stray runs.
LEMMA LaneArrives ==
  ASSUME Inv, StraysInv, LaneInv, NEW c \in Clients, ArriveAny(c) \/ Resume(c)
  PROVE  LaneInv' /\ StartsFree
  <1>1. PICK place \in {"idle", "queued", "probe"} :
          /\ pc[c] \notin InLock
          /\ pc' = [ pc EXCEPT ![c] = place ]
          /\ place = "probe" => InFlight = {}
          /\ \E locals : call' = [ call EXCEPT ![c] = locals ]
          /\ UNCHANGED << execVars, jobVars, clusterVars >>
    <2>1. pc[c] \notin InLock /\ UNCHANGED << execVars, jobVars, clusterVars >>
      BY DEF ArriveAny, Arrive, Resume, InLock
    <2>2. ASSUME NEW request, Arrive(c, request) \/ Enter(c, request)
          PROVE  \E place \in {"idle", "queued", "probe"} :
                   /\ pc' = [ pc EXCEPT ![c] = place ]
                   /\ place = "probe" => InFlight = {}
                   /\ \E locals : call' = [ call EXCEPT ![c] = locals ]
      <3>1. CASE Enter(c, request)
        BY <3>1 DEF Enter, Answer
      <3>2. CASE pc' = [ pc EXCEPT ![c] = "queued" ] /\ call' = [ call EXCEPT ![c] = request ]
        BY <3>2
      <3>3. CASE Answer(c, request, "op-in-progress", NoRecipe)
        BY <3>3 DEF Answer
      <3>. QED
        BY <2>2, <3>1, <3>2, <3>3 DEF Arrive
    <2>3. \E request : Arrive(c, request) \/ Enter(c, request)
      BY Zenon DEF ArriveAny, Resume
    <2>. QED
      BY <2>1, <2>2, <2>3
  <1>2. UNCHANGED << ledger, task, exec, strays, up, paused >>
    BY <1>1 DEF execVars, jobVars, clusterVars
  <1>3. ASSUME NEW d \in Clients PROVE Seen(d)' /\ (pc'[d] \in InLock => strays = {})
    <2>1. CASE d = c
      <3>1. pc'[d] = place
        BY <1>1, <2>1 DEF Inv, TypeOK, GateTypeOK
      <3>2. Seen(d)'
        BY <3>1, NothingSeen DEF InLock
      <3>3. place \in InLock => strays = {}
        BY <1>1 DEF InLock, StraysInv, StraysBlock
      <3>. QED
        BY <3>1, <3>2, <3>3
    <2>2. CASE d # c
      <3>1. pc'[d] = pc[d] /\ call'[d] = call[d]
        BY <1>1, <2>2 DEF Inv, TypeOK, GateTypeOK
      <3>. QED
        BY <1>2, <3>1 DEF LaneInv, ScriptsOwned, Seen, FreeFor, Job
    <2>. QED
      BY <2>1, <2>2
  <1>4. \A j : Job(j)' = Job(j)
    BY <1>2, SameRows
  <1>5. ScriptsOwned' /\ StartsFree
    BY <1>2, <1>3, <1>4 DEF LaneInv, ScriptsOwned, StartsFree, Submitted
  <1>. QED
    BY <1>2, <1>3, <1>4, <1>5 DEF LaneInv, Peaceful, Peace, FreeFor

\* The lane as the handlers find it.
LEMMA LaneFacts ==
  ASSUME FirstLane, Inv, LaneInv
  PROVE  /\ up \subseteq RecipeIds /\ paused \subseteq Flaky /\ Peace
         /\ \A id \in RecipeIds : /\ Detected(id) <=> id \in up
                                  /\ Present(id) <=> id \in up
  <1>1. up \subseteq RecipeIds /\ paused \subseteq Flaky /\ Peace
    BY DEF Inv, TypeOK, LaneInv, Peaceful
  <1>. QED
    BY <1>1, OwnProbes DEF FirstLane

\* Whoever answers for a recipe that nothing up fights is that recipe.
LEMMA OwnServer ==
  ASSUME OwnEndpoints, Inv, NEW id \in RecipeIds, FreeFor(id), Healthy(id)
  PROVE  id \in ready
  BY OwnAnswer DEF Healthy, Inv, TypeOK, FreeFor

LEMMA LaneDecide ==
  ASSUME FirstLane, Inv, LaneInv, NEW c \in Clients, pc[c] = "scan",
         NEW holder \in RecipeIds \cup {NoRecipe},
         up \cap Conflicting(call[c].recipe) \subseteq {holder},
         Decide(c, holder), UNCHANGED handlerFrame
  PROVE  LaneInv' /\ StartsFree
  <1>1. pc[c] \in InLock /\ call[c].recipe \in RecipeIds /\ InFlight = {}
    BY DEF Inv, LocalsOK, LaneGuarded, InLock
  <1>3. CASE /\ holder \notin Conflicting(call[c].recipe)
             /\ SubmitAndLeave(c, "start", call[c].recipe)
    <2>1. FreeFor(call[c].recipe)
      BY <1>3 DEF FreeFor
    <2>. QED
      BY <1>1, <1>3, <2>1, LaneSubmitAndLeave DEF Ops
  <1>4. CASE Leave(c, "needs-confirm", holder) /\ UNCHANGED jobVars
    BY <1>1, <1>4, LaneLeave
  <1>5. CASE /\ GoOn(c, "holder", [ call[c] EXCEPT !.holder = holder ])
             /\ UNCHANGED jobVars
    <2>. DEFINE locals == [ call[c] EXCEPT !.holder = holder ]
    <2>1. locals.holder = holder /\ locals.recipe = call[c].recipe
      BY DEF Inv, TypeOK, GateTypeOK, CallType
    <2>2. GoOn(c, "holder", locals)
      BY <1>5
    <2>. HIDE DEF locals
    <2>. QED
      BY <1>1, <1>5, <2>1, <2>2, LaneGoOn
  <1>. QED
    BY <1>3, <1>4, <1>5 DEF Decide

LEMMA LaneScan ==
  ASSUME FirstLane, Inv, LaneInv, NEW c \in Clients, Scan(c)
  PROVE  LaneInv' /\ StartsFree
  <1>. DEFINE i == call[c].scan
  <1>1. /\ pc[c] = "scan" /\ pc[c] \in InLock /\ i \in DOMAIN Registry
        /\ \A k \in 1..(i - 1) : Registry[k].id \notin up
    BY DEF Scan, Inv, LocalsOK, LaneInv, Seen, InLock
  <1>2. /\ Registry[i].id \in RecipeIds /\ DOMAIN Registry = 1..Len(Registry)
        /\ Len(Registry) \in Nat /\ Registry[i].id # NoRecipe
    BY <1>1, RegistryAssumption, ServerControlAssumption DEF RecipeIds
  <1>3. CASE Detected(Registry[i].id) /\ Decide(c, Registry[i].id)
    <2>1. Registry[i].id \in up /\ call[c].recipe \in RecipeIds
      BY <1>1, <1>2, <1>3, LaneFacts DEF Inv, LocalsOK
    <2>2. up \cap Conflicting(call[c].recipe) \subseteq {Registry[i].id}
      BY <1>1, <2>1, LaneFacts, FirstTells DEF FirstLane
    <2>. QED
      BY <1>1, <1>2, <1>3, <2>2, LaneDecide DEF Scan
  <1>4. CASE ~Detected(Registry[i].id) /\ i = Len(Registry) /\ Decide(c, NoRecipe)
    <2>1. Registry[i].id \notin up
      BY <1>2, <1>4, LaneFacts
    <2>2. \A k \in DOMAIN Registry : Registry[k].id \notin up
      BY <1>1, <1>2, <1>4, <2>1
    <2>3. up = {}
      BY <2>2, LaneFacts DEF RecipeIds
    <2>. QED
      BY <1>1, <1>4, <2>3, LaneDecide DEF Scan
  <1>5. CASE /\ ~Detected(Registry[i].id)
             /\ GoOn(c, "scan", [ call[c] EXCEPT !.scan = i + 1 ])
             /\ UNCHANGED jobVars
    <2>. DEFINE locals == [ call[c] EXCEPT !.scan = i + 1 ]
    <2>1. locals.scan = i + 1
      BY DEF Inv, TypeOK, GateTypeOK, CallType
    <2>2. GoOn(c, "scan", locals) /\ UNCHANGED << jobVars, handlerFrame >>
      BY <1>5 DEF Scan
    <2>3. Registry[i].id \notin up
      BY <1>2, <1>5, LaneFacts
    <2>4. \A k \in 1..(locals.scan - 1) : Registry[k].id \notin up
      BY <1>1, <1>2, <2>1, <2>3
    <2>. HIDE DEF locals, i
    <2>. QED
      BY <1>1, <2>2, <2>4, LaneGoOn
  <1>. QED
    BY <1>3, <1>4, <1>5 DEF Scan

LEMMA LaneStopHolder ==
  ASSUME FirstLane, Inv, LaneInv, NEW c \in Clients, StopHolder(c)
  PROVE  LaneInv' /\ StartsFree
  <1>. DEFINE label == [ op |-> "stop", recipe |-> call[c].holder ]
  <1>1. /\ pc[c] = "holder" /\ pc[c] \in InLock /\ call[c].holder \in RecipeIds
        /\ call[c].recipe \in RecipeIds /\ InFlight = {}
        /\ up \cap Conflicting(call[c].recipe) \subseteq {call[c].holder}
    BY DEF StopHolder, Inv, LocalsOK, LaneGuarded, LaneInv, Seen, InLock
  <1>2. CASE /\ ~Present(call[c].holder)
             /\ SubmitAndLeave(c, "start", call[c].recipe)
    <2>1. FreeFor(call[c].recipe)
      BY <1>1, <1>2, LaneFacts DEF FreeFor
    <2>. QED
      BY <1>1, <1>2, <2>1, LaneSubmitAndLeave DEF StopHolder, Ops
  <1>3. CASE \E j \in JobIds : /\ Jobs!Submit(j, label)
                               /\ GoOn(c, "swap", [ call[c] EXCEPT !.job = j ])
    <2>1. PICK j \in JobIds : /\ Jobs!Submit(j, label)
                              /\ GoOn(c, "swap", [ call[c] EXCEPT !.job = j ])
      BY <1>3
    <2>2. label \in Labels
      BY <1>1 DEF Labels, Ops
    <2>3. ledger'[j] = [ state |-> "pending", action |-> label ]
      BY <2>1, <2>2, SubmitAdds DEF Inv, TypeOK
    <2>4. /\ pc' = [ pc EXCEPT ![c] = "swap" ]
          /\ call' = [ call EXCEPT ![c] = [ call[c] EXCEPT !.job = j ] ]
          /\ up' = up
      BY <2>1 DEF StopHolder, GoOn, handlerFrame, clusterVars
    <2>5. /\ pc'[c] = "swap" /\ call'[c].job = j /\ call'[c].holder = call[c].holder
          /\ call'[c].recipe = call[c].recipe
      BY <2>4 DEF Inv, TypeOK, GateTypeOK, CallType
    <2>6. ledger'[j] # Jobs!NoRow /\ ledger'[j].state # "done" /\ Job(j)' = label
      BY <2>3 DEF Jobs!NoRow, Job
    <2>7. Seen(c)'
      BY <1>1, <2>4, <2>5, <2>6 DEF Seen, Job
    <2>8. \A d \in Clients \ {c} : pc'[d] \notin InLock \ {"probe"}
      BY <1>1, <2>4 DEF Inv, TypeOK, GateTypeOK, LockHeld, InLock
    <2>9. \A d \in Clients : Seen(d)'
      BY <2>7, <2>8, NothingSeen
    <2>10. /\ label.op # "start" /\ UNCHANGED handlerFrame
           /\ SubmitsJob(label) /\ strays = {}
      BY <1>1, <2>1 DEF StopHolder, SubmitsJob, LaneInv, ScriptsOwned
    <2>. HIDE DEF label
    <2>. QED
      BY <1>1, <2>2, <2>9, <2>10, LaneSubmit
  <1>4. CASE SubmitFails(c, label)
    <2>1. label \in Labels /\ label.op # "start" /\ UNCHANGED handlerFrame
      BY <1>1 DEF Labels, Ops, StopHolder
    <2>. HIDE DEF label
    <2>. QED
      BY <1>1, <1>4, <2>1, LaneSubmitFails
  <1>. QED
    BY <1>2, <1>3, <1>4 DEF StopHolder

LEMMA LaneSwapPoll ==
  ASSUME FirstLane, Inv, LaneInv, NEW c \in Clients, SwapPoll(c)
  PROVE  LaneInv' /\ StartsFree
  <1>1. /\ pc[c] = "swap" /\ pc[c] \in InLock /\ call[c].recipe \in RecipeIds
        /\ ledger[call[c].job].state = "done" => FreeFor(call[c].recipe)
    BY DEF SwapPoll, Inv, LocalsOK, LaneInv, Seen, InLock
  <1>3. CASE /\ ledger[call[c].job].state = "done"
             /\ SubmitAndLeave(c, "start", call[c].recipe)
    <2>1. InFlight = {}
      BY <1>1, <1>3, SwapOver DEF Jobs!TerminalStates
    <2>. QED
      BY <1>1, <1>3, <2>1, LaneSubmitAndLeave DEF SwapPoll, Ops
  <1>4. CASE Leave(c, "stop-failed", NoRecipe) /\ UNCHANGED jobVars
    BY <1>1, <1>4, LaneLeave DEF SwapPoll
  <1>. QED
    BY <1>3, <1>4 DEF SwapPoll

LEMMA LaneHandlerStep ==
  ASSUME FirstLane, Inv, StraysInv, LaneInv, NEW c \in Clients, HandlerStep(c)
  PROVE  LaneInv' /\ StartsFree
  <1>1. CASE ProbeFails(c)
    <2>1. PICK kind : Leave(c, kind, NoRecipe)
      BY <1>1 DEF ProbeFails
    <2>. QED
      BY <1>1, <2>1, LaneLeave DEF ProbeFails, InLock
  <1>2. CASE ProbeForStop(c)
    <2>1. pc[c] \in InLock /\ call[c].recipe \in RecipeIds /\ InFlight = {}
      BY <1>2 DEF ProbeForStop, Inv, LocalsOK, LaneGuarded, InLock
    <2>. QED
      BY <1>2, <2>1, LaneLeave, LaneSubmitAndLeave DEF ProbeForStop, Ops
  <1>3. ASSUME pc[c] \in InLock, GoOn(c, "scan", [ call[c] EXCEPT !.scan = 1 ]),
               UNCHANGED << jobVars, handlerFrame >>
        PROVE  LaneInv' /\ StartsFree
    <2>. DEFINE locals == [ call[c] EXCEPT !.scan = 1 ]
    <2>1. locals.scan = 1
      BY DEF Inv, TypeOK, GateTypeOK, CallType
    <2>2. \A i \in 1..(locals.scan - 1) : Registry[i].id \notin up
      BY <2>1
    <2>3. GoOn(c, "scan", locals)
      BY <1>3
    <2>. HIDE DEF locals
    <2>. QED
      BY <1>3, <2>2, <2>3, LaneGoOn
  <1>4. CASE ProbeForStart(c) \/ CheckHealth(c)
    <2>1. pc[c] \in InLock /\ UNCHANGED << jobVars, handlerFrame >>
      BY <1>4 DEF ProbeForStart, CheckHealth, InLock
    <2>2. CASE Detected(call[c].recipe) /\ GoOn(c, "health", call[c])
      <3>1. call[c].recipe \in RecipeIds
        BY <2>1 DEF Inv, LocalsOK
      <3>2. FreeFor(call[c].recipe)
        BY <2>2, <3>1, LaneFacts, ConflictsAreMutual DEF FreeFor, Peace
      <3>. QED
        BY <2>1, <2>2, <3>2, LaneGoOn
    <2>3. CASE \E kind : Leave(c, kind, NoRecipe)
      BY <2>1, <2>3, LaneLeave
    <2>. QED
      BY <1>3, <1>4, <2>1, <2>2, <2>3 DEF ProbeForStart, CheckHealth
  <1>. QED
    BY <1>1, <1>2, <1>4, LaneArrives, LaneScan, LaneStopHolder, LaneSwapPoll
    DEF HandlerStep

-----------------------------------------------------------------------------
(* One recipe per lane *)

LEMMA LaneNext ==
  ASSUME FirstLane, Attentive, Inv, StraysInv, LaneInv, [Next]_vars
  PROVE  LaneInv'
  <1>1. CASE UNCHANGED vars
    <2>1. UNCHANGED << pc, call, ledger, task, exec, strays, up, paused >>
      BY <1>1 DEF vars, gateVars, execVars, jobVars, clusterVars
    <2>. QED
      BY <2>1, ShrinkKeeps DEF LaneInv, Peaceful, ScriptsOwned
  <1>. QED
    BY <1>1, LaneArrives, LaneHandlerStep, LaneExecutorStep, LaneScriptExits,
       LaneClusterMoves, LaneRestart
    DEF Next, Attentive

LEMMA LaneInit == Init => LaneInv
  <1>. SUFFICES ASSUME Init PROVE LaneInv
    OBVIOUS
  <1>1. \A j \in JobIds : task[j] = "none" /\ exec[j] = "none"
    BY DEF Init, Jobs!Init, JobIds
  <1>2. Peaceful
    BY <1>1, PeaceAtFirst DEF Init, ClusterInit, Peaceful
  <1>3. ScriptsOwned
    BY <1>1 DEF Init, ScriptsOwned
  <1>4. \A c \in Clients : Seen(c)
    BY DEF Init, Seen
  <1>. QED
    BY <1>2, <1>3, <1>4 DEF LaneInv

LEMMA LaneInvariance ==
  ASSUME FirstLane, Attentive
  PROVE  Spec => [](Inv /\ StraysInv /\ LaneInv)
  <1>1. Init => LaneInv
    BY LaneInit
  <1>2. Inv /\ StraysInv /\ LaneInv /\ [Next]_vars => LaneInv'
    BY LaneNext
  <1>3. Spec => []StraysInv
    BY StraysHold DEF Attentive
  <1>. QED
    BY <1>1, <1>2, <1>3, Invariance, PTL DEF Spec

\* No two recipes that fight for a lane are ever up together, for any number of
\* recipes, clients, jobs and restarts and whichever writes of the job store
\* fail, if those that fight nobody are listed after the lane.
THEOREM LaneExclusiveHolds ==
  ASSUME FirstLane, Attentive
  PROVE  Spec => []LaneExclusive
  <1>1. Inv /\ LaneInv => LaneExclusive
    BY DEF LaneInv, Peaceful, Peace, LaneExclusive
  <1>. QED
    BY <1>1, LaneInvariance, PTL

-----------------------------------------------------------------------------
(* Starts on free lanes *)

LEMMA FreeLaneStep ==
  ASSUME FirstLane, Inv, StraysInv, LaneInv, [Next]_vars
  PROVE  StartsFree
  <1>. SUFFICES ASSUME NEW j \in JobIds, Submitted(j) PROVE StartsFree
    BY DEF StartsFree
  <1>1. PICK d \in Clients : HandlerStep(d)
    BY OnlyLockHolderSubmits
  <1>. QED
    BY <1>1, LaneHandlerStep

\* A start is submitted only while nothing runs that fights the recipe,
\* whatever the arbitration raced with since its probes.
THEOREM StartsAreOnFreeLanes ==
  ASSUME FirstLane, Attentive
  PROVE  Spec => StartsOnFreeLane
  <1>1. Inv /\ StraysInv /\ LaneInv /\ [Next]_vars =>
          [ \A j \in JobIds :
              Submitted(j) /\ ledger'[j].action.op = "start"
                => up \cap Conflicting(ledger'[j].action.recipe) = {} ]_vars
    BY FreeLaneStep DEF StartsFree
  <1>. QED
    BY <1>1, LaneInvariance, PTL DEF Spec, StartsOnFreeLane

-----------------------------------------------------------------------------
(* What a step does to the jobs *)

\* A handler leaves the jobs alone, or submits one while nothing is in flight.
LEMMA HandlerSubmits ==
  ASSUME Inv, NEW c \in Clients, ArriveAny(c) \/ HandlerStep(c)
  PROVE  /\ UNCHANGED clusterVars
         /\ \/ UNCHANGED jobVars
            \/ InFlight = {} /\ \E label \in Labels : SubmitsJob(label)
  <1>0. UNCHANGED clusterVars
    BY DEF ArriveAny, Arrive, HandlerStep, Resume, ProbeFails, ProbeForStop,
       ProbeForStart, CheckHealth, Scan, StopHolder, SwapPoll, handlerFrame
  <1>1. ASSUME NEW op \in Ops, NEW id \in RecipeIds, SubmitAndLeave(c, op, id)
        PROVE  \E label \in Labels : SubmitsJob(label)
    <2>1. [ op |-> op, recipe |-> id ] \in Labels
      BY DEF Labels
    <2>. QED
      BY <1>1, <2>1 DEF SubmitAndLeave, SubmitFails, SubmitsJob
  <1>2. CASE ArriveAny(c) \/ Resume(c) \/ ProbeFails(c) \/ ProbeForStart(c) \/ CheckHealth(c)
    BY <1>0, <1>2 DEF ArriveAny, Arrive, Resume, ProbeFails, ProbeForStart, CheckHealth
  <1>3. CASE ProbeForStop(c) \/ Scan(c) \/ StopHolder(c) \/ SwapPoll(c)
    <2>1. /\ call[c].recipe \in RecipeIds
          /\ pc[c] = "holder" => call[c].holder \in RecipeIds
      BY <1>3 DEF Inv, LocalsOK, InLock, ProbeForStop, Scan, StopHolder, SwapPoll
    <2>2. ASSUME NEW holder, Decide(c, holder)
          PROVE  UNCHANGED jobVars \/ \E label \in Labels : SubmitsJob(label)
      BY <1>1, <2>1, <2>2 DEF Decide, Ops
    <2>3. ASSUME ProbeForStop(c)
          PROVE  UNCHANGED jobVars \/ \E label \in Labels : SubmitsJob(label)
      BY <1>1, <2>1, <2>3 DEF ProbeForStop, Ops
    <2>4. ASSUME Scan(c)
          PROVE  UNCHANGED jobVars \/ \E label \in Labels : SubmitsJob(label)
      BY <2>2, <2>4 DEF Scan
    <2>5. ASSUME SwapPoll(c)
          PROVE  UNCHANGED jobVars \/ \E label \in Labels : SubmitsJob(label)
      BY <1>1, <2>1, <2>5 DEF SwapPoll, Ops
    <2>6. ASSUME StopHolder(c)
          PROVE  UNCHANGED jobVars \/ \E label \in Labels : SubmitsJob(label)
      <3>1. pc[c] = "holder" => [ op |-> "stop", recipe |-> call[c].holder ] \in Labels
        BY <2>1 DEF Labels, Ops
      <3>. QED
        BY <1>1, <2>1, <2>6, <3>1 DEF StopHolder, Ops, SubmitFails, SubmitsJob
    <2>7. UNCHANGED jobVars \/ \E label \in Labels : SubmitsJob(label)
      BY <1>3, <2>3, <2>4, <2>5, <2>6
    <2>. QED
      BY <1>0, <2>7, HandlersWaitTheirTurn
  <1>. QED
    BY <1>0, <1>2, <1>3 DEF HandlerStep

\* An executor leaves the jobs alone, or writes what its step says.
LEMMA ExecutorWrites ==
  ASSUME Inv, NEW j \in JobIds, ExecutorStep(j)
  PROVE  \/ UNCHANGED jobVars
         \/ Writes(j, "running") /\ JobBegins(j)
         \/ Writes(j, "failed")
         \/ Writes(j, "done") /\ HealthArrives(j)
         \/ Writes(j, "done") /\ exec[j] = "ok" /\ Job(j).op = "stop"
  BY EndsWrite
  DEF ExecutorStep, JobBegins, OutputLost, DialFails, ScriptStarts, ScriptReturns,
      LinkLost, HealthArrives, HealthTimesOut, Writes

\* Everything a step may do to the jobs.
LEMMA JobSteps ==
  ASSUME Inv, [Next]_vars
  PROVE  \/ UNCHANGED jobVars
         \/ InFlight = {} /\ \E label \in Labels : SubmitsJob(label)
         \/ \E j \in JobIds : ExecutorStep(j) /\ \E state \in {"running", "done", "failed"} :
              Writes(j, state)
         \/ Restart
  <1>1. ASSUME NEW c \in Clients, ArriveAny(c) \/ HandlerStep(c)
        PROVE  \/ UNCHANGED jobVars
               \/ InFlight = {} /\ \E label \in Labels : SubmitsJob(label)
    BY <1>1, HandlerSubmits
  <1>2. ASSUME NEW j \in JobIds, ExecutorStep(j)
        PROVE  UNCHANGED jobVars \/ \E state \in {"running", "done", "failed"} : Writes(j, state)
    BY <1>2, ExecutorWrites
  <1>3. CASE AnyScriptExits \/ ClusterMoves \/ UNCHANGED vars
    BY <1>3 DEF AnyScriptExits, ScriptExits, StrayExits, ClusterMoves, vars
  <1>. QED
    BY <1>1, <1>2, <1>3 DEF Next

\* A done that is committed is a done that is read.
DoneStays == \A j \in JobIds : disk[j].state = "done" => ledger[j].state = "done"

LEMMA DoneStaysStep ==
  ASSUME Inv, DoneStays, [Next]_vars
  PROVE  DoneStays'
  <1>. JobsOK /\ Jobs!TypeOK
    BY Halves DEF Inv, TypeOK
  <1>1. CASE UNCHANGED jobVars
    BY <1>1 DEF DoneStays, jobVars
  <1>2. ASSUME NEW label \in Labels, SubmitsJob(label)
        PROVE  DoneStays'
    <2>1. ASSUME NEW j \in JobIds, Jobs!Submit(j, label) PROVE DoneStays'
      BY <2>1, SubmitAdds DEF DoneStays
    <2>2. ASSUME NEW j \in JobIds, Jobs!SubmitRaises(j, label) PROVE DoneStays'
      <3>1. /\ ledger[j] = Jobs!NoRow
            /\ \/ ledger' = ledger
               \/ \A k \in JobIds \ {j} : ledger'[k] = ledger[k]
               \/ ledger' = disk
            /\ UNCHANGED disk
        BY <2>2, SubmitRaisesLeaves
      <3>2. disk[j].state # "done"
        BY <3>1 DEF JobsOK, StoreSettled, Jobs!NoRow
      <3>. QED
        BY <3>1, <3>2 DEF DoneStays
    <2>. QED
      BY <1>2, <2>1, <2>2 DEF SubmitsJob
  <1>3. ASSUME NEW j \in JobIds, NEW state \in {"running", "done", "failed"}, Writes(j, state)
        PROVE  DoneStays'
    <2>1. /\ disk = ledger /\ InFlight = {j} /\ disk' \in {ledger, ledger'}
          /\ \A k \in JobIds \ {j} : ledger'[k] = ledger[k]
      BY <1>3, TaskWrites
    <2>2. ledger[j].state # "done"
      BY <2>1, FlightRows DEF Jobs!NonTerminal
    <2>. QED
      BY <2>1, <2>2 DEF DoneStays
  <1>4. CASE Restart
    BY <1>4, RestartRows DEF DoneStays
  <1>. QED
    BY <1>1, <1>2, <1>3, <1>4, JobSteps

LEMMA DoneStaysInvariance == Spec => []DoneStays
  <1>1. Init => DoneStays
    BY DEF Init, Jobs!Init, DoneStays
  <1>2. Inv /\ DoneStays /\ [Next]_vars => DoneStays'
    BY DoneStaysStep
  <1>. QED
    BY <1>1, <1>2, Invariance, PTL DEF Spec

-----------------------------------------------------------------------------
(* True answers and verdicts *)

\* "Already up" is said of the recipe that is serving, never of one whose port
\* another recipe answers on.
THEOREM AlreadyUpIsTrue ==
  ASSUME FirstLane, OwnEndpoints, Attentive
  PROVE  Spec => AlreadyUpTruthful
  <1>1. ASSUME Inv, LaneInv, [Next]_vars, NEW c \in Clients,
               pc[c] = "health", pc'[c] = "idle", reply'[c].kind = "already-up"
        PROVE  call[c].recipe \in ready
    <2>1. HandlerStep(c) /\ ~Resume(c)
      BY <1>1, HandlerLeaves DEF InLock
    <2>2. CheckHealth(c)
      BY <1>1, <2>1 DEF HandlerStep, ProbeFails, ProbeForStop, ProbeForStart, Scan,
         StopHolder, SwapPoll
    <2>3. Healthy(call[c].recipe)
      <3>1. ~\E locals : GoOn(c, "scan", locals)
        BY <1>1 DEF GoOn, Inv, TypeOK, GateTypeOK
      <3>2. ~Leave(c, "internal-error", NoRecipe)
        BY <1>1 DEF Leave, Answer, Inv, TypeOK, GateTypeOK
      <3>. QED
        BY <2>2, <3>1, <3>2 DEF CheckHealth
    <2>4. FreeFor(call[c].recipe) /\ call[c].recipe \in RecipeIds
      BY <1>1 DEF LaneInv, Seen, Inv, LocalsOK, InLock
    <2>. QED
      BY <1>1, <2>3, <2>4, OwnServer
  <1>2. Inv /\ LaneInv /\ [Next]_vars =>
          [ \A c \in Clients :
              pc[c] = "health" /\ pc'[c] = "idle" /\ reply'[c].kind = "already-up"
                => call[c].recipe \in ready ]_vars
    BY <1>1
  <1>. QED
    BY <1>2, LaneInvariance, PTL DEF Spec, AlreadyUpTruthful

\* Whoever is told that a start is done.
LEMMA DoneStep ==
  ASSUME OwnEndpoints, Attentive, Inv, LaneInv, DoneStays, [Next]_vars, NEW j \in JobIds,
         ledger[j].state = "running", ledger'[j].state = "done", Job(j).op = "start"
  PROVE  Job(j).recipe \in ready
  <1>. JobsOK
    BY Halves
  <1>1. j \in InFlight
    BY FlightRows DEF Jobs!NonTerminal
  <1>2. ~UNCHANGED jobVars /\ InFlight # {}
    BY <1>1 DEF jobVars
  <1>3. ~Restart
    <2>. SUFFICES ASSUME Restart PROVE FALSE
      OBVIOUS
    <2>1. ledger' \in {ledger, disk}
      BY RestartRows DEF Attentive
    <2>. QED
      BY <2>1 DEF DoneStays
  <1>4. PICK k \in JobIds : /\ ExecutorStep(k)
                            /\ \E state \in {"running", "done", "failed"} : Writes(k, state)
    BY <1>2, <1>3, JobSteps
  <1>5. \A state \in {"running", "done", "failed"} :
          Writes(k, state) => k = j /\ state = "done"
    BY <1>1, TaskWrites
  <1>6. HealthArrives(j)
    BY <1>2, <1>4, <1>5, ExecutorWrites
  <1>7. exec[j] # "none"
    BY <1>6 DEF HealthArrives
  <1>8. FreeFor(Job(j).recipe) /\ Job(j).recipe \in RecipeIds
    BY <1>7, ExecutorLabelled DEF LaneInv, Peaceful
  <1>. QED
    BY <1>6, <1>8, OwnServer DEF HealthArrives

\* A start job that is done has its own recipe serving, lost writes, rollbacks
\* and restarts included.
THEOREM DoneIsServing ==
  ASSUME FirstLane, OwnEndpoints, Attentive
  PROVE  Spec => DoneMeansServing
  <1>1. Inv /\ LaneInv /\ DoneStays /\ [Next]_vars =>
          [ \A j \in JobIds :
              ledger[j].state = "running" /\ ledger'[j].state = "done"
                /\ Job(j).op = "start"
                => Job(j).recipe \in ready ]_vars
    BY DoneStep
  <1>. QED
    BY <1>1, LaneInvariance, DoneStaysInvariance, PTL DEF Spec, DoneMeansServing

-----------------------------------------------------------------------------
(* ServerControl implements Lane, while no write of the job store fails: a *)
(* row that lost its verdict would leave the abstract lane busy for good,  *)
(* and one rolled back would number the next operation twice.              *)

\* The abstract lane's recipes and nodes are these.
LEMMA AbstractRecipes ==
  /\ Abstract!RecipeIds = RecipeIds
  /\ \A id : Abstract!Conflicting(id) = Conflicting(id)
  /\ \A id : Abstract!Sharing(id) = Sharing(id)
  <1>1. Abstract!RecipeIds = RecipeIds
    BY DEF Abstract!RecipeIds, RecipeIds
  <1>2. \A id : Abstract!RecipeOf(id) = RecipeOf(id)
    BY DEF Abstract!RecipeOf, RecipeOf
  <1>3. \A id : Abstract!Conflicting(id) = Conflicting(id)
    BY <1>1, <1>2 DEF Abstract!Conflicting, Conflicting, Abstract!SamePort, SamePort,
       Abstract!NodeSet, NodeSet
  <1>4. \A r : /\ Abstract!Named(r) = Named(r)
               /\ Abstract!Labelled(r) = Labelled(r)
    BY DEF Abstract!Named, Named, Abstract!Labelled, Labelled, Abstract!Host, Host,
       Abstract!HeadNode, HeadNode
  <1>5. \A id : Abstract!Marks(id) = Marks(id)
    BY <1>2, <1>4 DEF Abstract!Marks, Marks
  <1>6. \A id : Abstract!Sharing(id) = Sharing(id)
    BY <1>1, <1>5 DEF Abstract!Sharing, Sharing
  <1>. QED
    BY <1>1, <1>3, <1>6

\* So its steps of the nodes are those of ServerControl.
LEMMA AbstractNodes ==
  /\ Abstract!clusterVars = clusterVars
  /\ \A id : /\ BringUp(id) => Abstract!BringUp(id)
             /\ TakeDown(id) => Abstract!TakeDown(id)
  /\ NodesMove => Abstract!NodesMove
  <1>1. Abstract!clusterVars = clusterVars
    BY DEF Abstract!clusterVars, clusterVars
  <1>2. ASSUME NEW id
        PROVE  /\ BringUp(id) => Abstract!BringUp(id)
               /\ TakeDown(id) => Abstract!TakeDown(id)
    BY AbstractRecipes DEF BringUp, Abstract!BringUp, TakeDown, Abstract!TakeDown
  <1>3. NodesMove => Abstract!NodesMove
    BY AbstractRecipes DEF NodesMove, Abstract!NodesMove, Loads, Abstract!Loads,
       Dies, Abstract!Dies, Falters, Abstract!Falters, Recovers, Abstract!Recovers
  <1>. QED
    BY <1>1, <1>2, <1>3

LEMMA MaxIs ==
  ASSUME NEW S, S \subseteq Int, NEW j \in S, \A k \in S : k <= j
  PROVE  Max(S) = j
  <1>1. \E x \in S : \A y \in S : x >= y
    OBVIOUS
  <1>2. Max(S) \in S /\ \A y \in S : Max(S) >= y
    BY <1>1, Zenon DEF Max
  <1>3. Max(S) \in Int /\ j \in Int /\ Max(S) <= j /\ Max(S) >= j
    BY <1>2
  <1>. QED
    BY <1>3

\* What the abstract lane shows of a ledger whose newest row is j's.
LEMMA NewestIs ==
  ASSUME NEW j \in MadeJobs, \A k \in MadeJobs : k <= j
  PROVE  NewestOp = [ id |-> j, op |-> Job(j).op, recipe |-> Job(j).recipe,
                      state |-> IF j \in InFlight THEN "busy" ELSE ledger[j].state ]
  <1>1. MadeJobs \subseteq Int
    BY ServerControlAssumption DEF MadeJobs, JobIds, Jobs!JobIds
  <1>2. Max(MadeJobs) = j
    BY <1>1, MaxIs
  <1>. QED
    BY <1>2 DEF NewestOp

\* The same of the state after a step.
LEMMA NewestIsNext ==
  ASSUME NEW j \in MadeJobs', \A k \in MadeJobs' : k <= j
  PROVE  NewestOp' = [ id |-> j, op |-> Job(j).op', recipe |-> Job(j).recipe',
                       state |-> IF j \in InFlight' THEN "busy" ELSE ledger'[j].state ]
  <1>1. MadeJobs' \subseteq Int
    BY ServerControlAssumption DEF MadeJobs, JobIds, Jobs!JobIds
  <1>2. Max(MadeJobs') = j
    BY <1>1, MaxIs
  <1>. QED
    BY <1>2 DEF NewestOp

LEMMA SameOp ==
  ASSUME ledger' = ledger
  PROVE  NewestOp' = NewestOp
  BY SameRows DEF NewestOp

\* Job numbers are handed out in order, and only the newest is in flight.
NewestInFlight ==
  /\ \A j \in MadeJobs : 1..j \subseteq MadeJobs
  /\ \A j \in InFlight, k \in MadeJobs : k <= j
  /\ \A j \in JobIds : ledger[j].state # "unknown"

\* Without failing writes there is nothing that is not committed.
LEMMA AllSaved ==
  ASSUME MaxFaults = 0, Inv
  PROVE  faults = 0 /\ disk = ledger
  BY DEF Inv, TypeOK, Jobs!TypeOK, StoreSettled

LEMMA SubmitsOne ==
  ASSUME MaxFaults = 0, Inv, NEW label \in Labels, SubmitsJob(label)
  PROVE  \E j \in JobIds :
           /\ ledger[j] = Jobs!NoRow /\ \A k \in JobIds : k < j => ledger[k] # Jobs!NoRow
           /\ InFlight' = InFlight \cup {j}
           /\ ledger'[j] = [ state |-> "pending", action |-> label ]
           /\ \A k \in JobIds \ {j} : ledger'[k] = ledger[k]
           /\ MadeJobs' = MadeJobs \cup {j} /\ Submitted(j)
  <1>1. PICK j \in JobIds : Jobs!Submit(j, label)
    BY AllSaved DEF SubmitsJob, Jobs!SubmitRaises, Jobs!Loses
  <1>2. /\ InFlight' = InFlight \cup {j}
        /\ ledger[j] = Jobs!NoRow
        /\ ledger'[j] = [ state |-> "pending", action |-> label ]
        /\ \A k \in JobIds \ {j} : ledger'[k] = ledger[k]
    BY <1>1, SubmitAdds DEF Inv, TypeOK
  <1>3. \A k \in JobIds : k < j => ledger[k] # Jobs!NoRow
    BY <1>1 DEF Jobs!Submit, Jobs!Fresh, JobIds
  <1>4. ledger'[j] # Jobs!NoRow
    BY <1>2 DEF Jobs!NoRow
  <1>. QED
    BY <1>2, <1>3, <1>4 DEF MadeJobs, Submitted

\* A task's write succeeds.
LEMMA TaskMoves ==
  ASSUME MaxFaults = 0, Inv, Inv', NEW j \in JobIds,
         NEW state \in {"running", "done", "failed"}, Writes(j, state)
  PROVE  /\ InFlight = {j} /\ Job(j)' = Job(j) /\ MadeJobs' = MadeJobs
         /\ \A k \in JobIds : ledger'[k].state = IF k = j THEN state ELSE ledger[k].state
         /\ InFlight' = IF state = "running" THEN {j} ELSE {}
  <1>1. faults' = faults
    BY AllSaved DEF Inv, TypeOK, Jobs!TypeOK
  <1>2. /\ InFlight = {j} /\ Job(j)' = Job(j) /\ MadeJobs' = MadeJobs
        /\ \A k \in JobIds : ledger'[k].state = IF k = j THEN state ELSE ledger[k].state
    BY <1>1, TaskWrites, Halves
  <1>3. \A k \in JobIds : k # j => ledger[k].state \notin Jobs!NonTerminal
    BY <1>2, FlightRows
  <1>4. InFlight' = IF state = "running" THEN {j} ELSE {}
    BY <1>2, <1>3 DEF InFlight, Jobs!InFlight, Jobs!NonTerminal, JobIds
  <1>. QED
    BY <1>2, <1>4

LEMMA NewestStep ==
  ASSUME MaxFaults = 0, Attentive, Inv, NewestInFlight, [Next]_vars
  PROVE  NewestInFlight'
  <1>. Inv'
    BY NextInv
  <1>1. CASE ledger' = ledger
    BY <1>1, SameRows DEF NewestInFlight
  <1>2. ASSUME InFlight = {}, NEW label \in Labels, SubmitsJob(label)
        PROVE  NewestInFlight'
    <2>1. PICK j \in JobIds :
            /\ ledger[j] = Jobs!NoRow /\ \A k \in JobIds : k < j => ledger[k] # Jobs!NoRow
            /\ InFlight' = {j}
            /\ ledger'[j] = [ state |-> "pending", action |-> label ]
            /\ \A k \in JobIds \ {j} : ledger'[k] = ledger[k]
            /\ MadeJobs' = MadeJobs \cup {j}
      BY <1>2, SubmitsOne
    <2>2. j \notin MadeJobs /\ \A k \in JobIds : k < j => k \in MadeJobs
      BY <2>1 DEF MadeJobs
    <2>3. /\ JobIds \subseteq Nat \ {0} /\ MadeJobs \subseteq JobIds
          /\ \A k \in JobIds : 1..k \subseteq JobIds
      BY ServerControlAssumption DEF JobIds, Jobs!JobIds, MadeJobs
    <2>4. 1..j \subseteq MadeJobs \cup {j}
      BY <2>2, <2>3
    <2>5. \A k \in MadeJobs : k <= j
      <3>. SUFFICES ASSUME NEW k \in MadeJobs, k > j PROVE FALSE
        BY <2>3
      <3>1. j \in 1..k
        BY <2>3
      <3>. QED
        BY <2>2, <3>1 DEF NewestInFlight
    <2>6. \A k \in JobIds : ledger'[k].state # "unknown"
      BY <2>1 DEF NewestInFlight
    <2>7. \A k \in MadeJobs \cup {j} : 1..k \subseteq MadeJobs \cup {j}
      BY <2>4 DEF NewestInFlight
    <2>8. \A i \in {j}, k \in MadeJobs \cup {j} : k <= i
      BY <2>3, <2>5
    <2>. QED
      BY <2>1, <2>6, <2>7, <2>8 DEF NewestInFlight, JobIds
  <1>3. ASSUME NEW j \in JobIds, NEW state \in {"running", "done", "failed"}, Writes(j, state)
        PROVE  NewestInFlight'
    <2>1. /\ InFlight = {j} /\ MadeJobs' = MadeJobs
          /\ \A k \in JobIds : ledger'[k].state = IF k = j THEN state ELSE ledger[k].state
          /\ InFlight' \subseteq InFlight
      BY <1>3, TaskMoves
    <2>. QED
      BY <2>1 DEF NewestInFlight, JobIds
  <1>4. CASE Restart
    <2>1. ledger' \in {ledger, disk}
      BY <1>4, RestartRows, Halves DEF Attentive
    <2>. QED
      BY <1>1, <2>1, AllSaved
  <1>. QED
    BY <1>1, <1>2, <1>3, <1>4, JobSteps DEF jobVars

LEMMA NewestInvariance ==
  ASSUME MaxFaults = 0, Attentive
  PROVE  Spec => []NewestInFlight
  <1>1. Init => NewestInFlight
    <2>. SUFFICES ASSUME Init PROVE NewestInFlight
      OBVIOUS
    <2>1. \A j \in JobIds : ledger[j] = Jobs!NoRow
      BY DEF Init, Jobs!Init, JobIds
    <2>2. InFlight = {} /\ MadeJobs = {}
      BY <2>1 DEF InFlight, Jobs!InFlight, MadeJobs, Jobs!NoRow, Jobs!NonTerminal, JobIds
    <2>. QED
      BY <2>1, <2>2 DEF NewestInFlight, Jobs!NoRow
  <1>2. Inv /\ NewestInFlight /\ [Next]_vars => NewestInFlight'
    BY NewestStep
  <1>. QED
    BY <1>1, <1>2, Invariance, PTL DEF Spec

\* The operation in flight is the one the abstract lane shows.
LEMMA BusyWith ==
  ASSUME Inv, NewestInFlight, NEW j \in InFlight
  PROVE  /\ j \in MadeJobs /\ j \in JobIds /\ Job(j) \in Labels
         /\ \A k \in MadeJobs : k <= j
         /\ NewestOp = [ id |-> j, op |-> Job(j).op, recipe |-> Job(j).recipe,
                         state |-> "busy" ]
  <1>1. j \in JobIds /\ ledger[j].state \in Jobs!NonTerminal
    BY DEF InFlight, Jobs!InFlight, JobIds
  <1>2. j \in MadeJobs
    BY <1>1 DEF MadeJobs, Jobs!NoRow, Jobs!NonTerminal
  <1>3. \A k \in MadeJobs : k <= j
    BY <1>2 DEF NewestInFlight
  <1>. QED
    BY <1>1, <1>2, <1>3, NewestIs, RowLabelled DEF Inv, TypeOK

\* With nothing in flight, n rows: the abstract lane has had n operations.
LEMMA IdleAfter ==
  ASSUME Inv, NewestInFlight, InFlight = {}, NEW j \in JobIds, ledger[j] = Jobs!NoRow,
         \A k \in JobIds : k < j => ledger[k] # Jobs!NoRow
  PROVE  NewestOp.id = j - 1 /\ NewestOp.state # "busy"
  <1>1. /\ JobIds \subseteq Nat \ {0} /\ \A k \in JobIds : 1..k \subseteq JobIds
        /\ MadeJobs \subseteq JobIds
    BY ServerControlAssumption DEF JobIds, Jobs!JobIds, MadeJobs
  <1>2. MadeJobs = 1..(j - 1)
    <2>1. ASSUME NEW k \in MadeJobs PROVE k \in 1..(j - 1)
      <3>1. k \in Nat \ {0} /\ j \in Nat \ {0} /\ 1..k \subseteq MadeJobs
        BY <1>1 DEF NewestInFlight
      <3>2. j \notin MadeJobs
        BY DEF MadeJobs
      <3>. QED
        BY <3>1, <3>2
    <2>2. ASSUME NEW k \in 1..(j - 1) PROVE k \in MadeJobs
      BY <1>1 DEF MadeJobs
    <2>. QED
      BY <2>1, <2>2
  <1>3. CASE j = 1
    BY <1>2, <1>3 DEF NewestOp
  <1>4. CASE j # 1
    <2>1. j - 1 \in MadeJobs /\ \A k \in MadeJobs : k <= j - 1
      BY <1>1, <1>2, <1>4
    <2>2. ledger[j - 1].state # "busy"
      BY <1>1, <2>1 DEF Inv, TypeOK, Jobs!TypeOK, Jobs!Rows, Jobs!NoRow,
         Jobs!NonTerminal, Jobs!TerminalStates, JobIds, Jobs!JobIds
    <2>3. NewestOp = [ id |-> j - 1, op |-> Job(j - 1).op, recipe |-> Job(j - 1).recipe,
                       state |-> ledger[j - 1].state ]
      BY <2>1, NewestIs
    <2>. QED
      BY <2>2, <2>3
  <1>. QED
    BY <1>3, <1>4

\* A submitted job is an operation the abstract lane accepts.
LEMMA SubmitAccepts ==
  ASSUME MaxFaults = 0, Attentive, FirstLane, Inv, StraysInv, LaneInv,
         NewestInFlight, NewestInFlight', [Next]_vars,
         InFlight = {}, UNCHANGED clusterVars, NEW label \in Labels, SubmitsJob(label)
  PROVE  Abstract!Next
  <1>1. PICK j \in JobIds :
          /\ ledger[j] = Jobs!NoRow /\ \A k \in JobIds : k < j => ledger[k] # Jobs!NoRow
          /\ InFlight' = {j}
          /\ ledger'[j] = [ state |-> "pending", action |-> label ]
          /\ MadeJobs' = MadeJobs \cup {j} /\ Submitted(j)
    BY SubmitsOne
  <1>2. NewestOp.id = j - 1 /\ NewestOp.state # "busy"
    BY <1>1, IdleAfter
  <1>3. j \in MadeJobs' /\ \A k \in MadeJobs' : k <= j
    BY <1>1 DEF NewestInFlight
  <1>4. NewestOp' = [ id |-> j, op |-> label.op, recipe |-> label.recipe,
                      state |-> "busy" ]
    <2>1. Job(j)' = label
      BY <1>1 DEF Job
    <2>. QED
      BY <1>1, <1>3, <2>1, NewestIsNext
  <1>5. label.op = "start" => up \cap Conflicting(label.recipe) = {}
    BY <1>1, FreeLaneStep DEF StartsFree
  <1>6. j \in Nat /\ j - 1 < MaxJobs /\ (j - 1) + 1 = j
    BY ServerControlAssumption DEF JobIds, Jobs!JobIds
  <1>7. Abstract!Accept(label.op, label.recipe)
    <2>1. label.op = "start" => up \cap Abstract!Conflicting(label.recipe) = {}
      BY <1>5, AbstractRecipes
    <2>2. UNCHANGED Abstract!clusterVars
      BY DEF clusterVars, Abstract!clusterVars
    <2>. QED
      BY <1>2, <1>4, <1>6, <2>1, <2>2 DEF Abstract!Accept, Abstract!Busy
  <1>8. label.op \in {"start", "stop"} /\ label.recipe \in Abstract!RecipeIds
    BY AbstractRecipes DEF Labels, Ops
  <1>. QED
    BY <1>7, <1>8 DEF Abstract!Next

\* The first step of a job changes nothing the abstract lane shows.
LEMMA BeginStutters ==
  ASSUME MaxFaults = 0, Inv, Inv', NewestInFlight, NEW j \in JobIds,
         Writes(j, "running")
  PROVE  NewestOp' = NewestOp
  <1>1. /\ InFlight = {j} /\ InFlight' = {j}
        /\ Job(j)' = Job(j) /\ MadeJobs' = MadeJobs
    BY TaskMoves
  <1>2. /\ j \in MadeJobs /\ \A k \in MadeJobs : k <= j
        /\ NewestOp = [ id |-> j, op |-> Job(j).op, recipe |-> Job(j).recipe,
                        state |-> "busy" ]
    BY <1>1, BusyWith
  <1>3. NewestOp' = [ id |-> j, op |-> Job(j).op, recipe |-> Job(j).recipe,
                      state |-> "busy" ]
    BY <1>1, <1>2, NewestIsNext
  <1>. QED
    BY <1>2, <1>3

\* The end of a job is the end of the operation; done, when it is true.
LEMMA EndFinishes ==
  ASSUME MaxFaults = 0, Inv, Inv', NewestInFlight, NEW j \in JobIds,
         NEW outcome \in {"done", "failed"}, Writes(j, outcome), UNCHANGED clusterVars,
         outcome = "done" =>
           IF Job(j).op = "start" THEN Job(j).recipe \in ready ELSE Job(j).recipe \notin up
  PROVE  Abstract!Next
  <1>1. /\ InFlight = {j} /\ InFlight' = {} /\ ledger'[j].state = outcome
        /\ Job(j)' = Job(j) /\ MadeJobs' = MadeJobs
    BY TaskMoves
  <1>2. /\ j \in MadeJobs /\ \A k \in MadeJobs : k <= j
        /\ NewestOp = [ id |-> j, op |-> Job(j).op, recipe |-> Job(j).recipe,
                        state |-> "busy" ]
    BY <1>1, BusyWith
  <1>3. NewestOp' = [ id |-> j, op |-> Job(j).op, recipe |-> Job(j).recipe,
                      state |-> outcome ]
    BY <1>1, <1>2, NewestIsNext
  <1>4. Abstract!Finishes(outcome)
    <2>1. UNCHANGED Abstract!clusterVars
      BY DEF clusterVars, Abstract!clusterVars
    <2>. QED
      BY <1>2, <1>3, <2>1 DEF Abstract!Finishes, Abstract!Busy
  <1>. QED
    BY <1>4 DEF Abstract!Next

\* Strays belong to the row in flight that a crash left with them.
StrayOwned == strays \subseteq { Job(j) : j \in InFlight }

LEMMA StrayOwnedStep ==
  ASSUME MaxFaults = 0, Attentive, Inv, StraysInv, StrayOwned, [Next]_vars
  PROVE  StrayOwned'
  <1>. Inv'
    BY NextInv
  <1>1. ASSUME ledger' = ledger, strays' \subseteq strays PROVE StrayOwned'
    <2>1. InFlight' = InFlight /\ \A j : Job(j)' = Job(j)
      BY <1>1, SameRows
    <2>. QED
      BY <1>1, <2>1 DEF StrayOwned
  <1>2. ASSUME NEW c \in Clients, ArriveAny(c) \/ HandlerStep(c) PROVE StrayOwned'
    <2>1. strays' = strays /\ (UNCHANGED jobVars \/ InFlight = {})
      BY <1>2, HandlersWaitTheirTurn
    <2>. QED
      BY <1>1, <2>1 DEF StrayOwned, jobVars
  <1>3. ASSUME NEW j \in JobIds, ExecutorStep(j) PROVE StrayOwned'
    <2>1. strays' = strays
      BY <1>3 DEF Attentive, ExecutorStep, JobBegins, OutputLost, DialFails, ScriptStarts,
         ScriptReturns, LinkLost, HealthArrives, HealthTimesOut, execFrame
    <2>2. ASSUME NEW state \in {"running", "done", "failed"}, Writes(j, state)
          PROVE  strays = {}
      <3>1. task[j] # "none" /\ InFlight = {j}
        BY <2>2, TaskWrites, Halves
      <3>. QED
        BY <3>1 DEF StraysInv, StraysBlock
    <2>3. UNCHANGED jobVars \/ \E state \in {"running", "done", "failed"} : Writes(j, state)
      BY <1>3, ExecutorWrites
    <2>. QED
      BY <1>1, <2>1, <2>2, <2>3 DEF StrayOwned, jobVars
  <1>4. CASE Restart
    <2>1. ledger' = ledger
      BY <1>4, RestartRows, AllSaved, Halves DEF Attentive
    <2>2. strays' = strays \cup { Job(j) : j \in { k \in JobIds : exec[k] = "script" } }
      BY <1>4 DEF Restart
    <2>3. \A j \in JobIds : exec[j] = "script" => j \in InFlight
      BY ExecutorLabelled
    <2>4. InFlight' = InFlight /\ \A j : Job(j)' = Job(j)
      BY <2>1, SameRows
    <2>. QED
      BY <2>2, <2>3, <2>4 DEF StrayOwned
  <1>5. CASE AnyScriptExits \/ ClusterMoves \/ UNCHANGED vars
    <2>1. ledger' = ledger /\ strays' \subseteq strays
      BY <1>5 DEF AnyScriptExits, ScriptExits, StrayExits, ClusterMoves, vars, jobVars, execVars
    <2>. QED
      BY <1>1, <2>1
  <1>. QED
    BY <1>2, <1>3, <1>4, <1>5 DEF Next

LEMMA StrayOwnedInvariance ==
  ASSUME MaxFaults = 0, Attentive
  PROVE  Spec => []StrayOwned
  <1>1. Init => StrayOwned
    BY DEF Init, StrayOwned
  <1>2. Inv /\ StraysInv /\ StrayOwned /\ [Next]_vars => StrayOwned'
    BY StrayOwnedStep
  <1>3. Spec => []StraysInv
    BY StraysHold DEF Attentive
  <1>. QED
    BY <1>1, <1>2, <1>3, Invariance, PTL DEF Spec

\* A script takes effect, or does not: that of the operation in flight, for a
\* crash leaves the row of the script it leaves.
LEMMA EffectActs ==
  ASSUME MaxFaults = 0, Inv, StrayOwned, NewestInFlight, NEW label, UnderWay(label),
         NEW verdict, Effect(label, verdict), ledger' = ledger
  PROVE  Abstract!Next \/ UNCHANGED << NewestOp, clusterVars >>
  <1>0. PICK j \in InFlight : Job(j) = label
    BY ExecutorLabelled DEF StrayOwned, UnderWay
  <1>1. /\ NewestOp = [ id |-> j, op |-> label.op, recipe |-> label.recipe,
                        state |-> "busy" ]
        /\ NewestOp' = NewestOp
    BY <1>0, BusyWith, SameOp
  <1>2. CASE UNCHANGED clusterVars
    BY <1>1, <1>2
  <1>3. CASE \/ label.op = "start" /\ BringUp(label.recipe)
             \/ label.op = "stop" /\ TakeDown(label.recipe)
    <2>1. Abstract!Acts
      BY <1>1, <1>3, AbstractNodes DEF Abstract!Acts, Abstract!Busy
    <2>. QED
      BY <2>1 DEF Abstract!Next
  <1>. QED
    BY <1>2, <1>3 DEF Effect

LEMMA ExecutorRefines ==
  ASSUME MaxFaults = 0, OwnEndpoints, ~LinkFaults, Inv, Inv', LaneInv, NewestInFlight,
         NEW j \in JobIds, ExecutorStep(j)
  PROVE  Abstract!Next \/ UNCHANGED << NewestOp, clusterVars >>
  <1>. UNCHANGED clusterVars
    BY DEF ExecutorStep, JobBegins, OutputLost, DialFails, ScriptStarts, ScriptReturns,
       LinkLost, HealthArrives, HealthTimesOut, execFrame
  <1>1. CASE UNCHANGED jobVars
    BY <1>1, SameOp DEF jobVars
  <1>2. CASE Writes(j, "running")
    BY <1>2, BeginStutters
  <1>3. CASE Writes(j, "failed")
    BY <1>3, EndFinishes
  <1>4. CASE Writes(j, "done") /\ HealthArrives(j)
    <2>1. exec[j] # "none" /\ Job(j).op = "start"
      BY <1>4 DEF HealthArrives, LaneInv, ScriptsOwned
    <2>2. FreeFor(Job(j).recipe) /\ Job(j).recipe \in RecipeIds
      BY <2>1, ExecutorLabelled DEF LaneInv, Peaceful
    <2>3. Job(j).recipe \in ready
      BY <1>4, <2>2, OwnServer DEF HealthArrives
    <2>. QED
      BY <1>4, <2>1, <2>3, EndFinishes
  <1>5. CASE Writes(j, "done") /\ exec[j] = "ok" /\ Job(j).op = "stop"
    BY <1>5, EndFinishes DEF LaneInv, ScriptsOwned
  <1>. QED
    BY <1>1, <1>2, <1>3, <1>4, <1>5, ExecutorWrites

LEMMA LaneStep ==
  ASSUME MaxFaults = 0, FirstLane, OwnEndpoints, Attentive, Inv, StraysInv, LaneInv,
         NewestInFlight, StrayOwned, [Next]_vars
  PROVE  [Abstract!Next]_(Abstract!laneVars)
  <1>. SUFFICES Abstract!Next \/ UNCHANGED << NewestOp, clusterVars >>
    BY DEF Abstract!laneVars, Abstract!clusterVars, clusterVars
  <1>. Inv' /\ NewestInFlight'
    BY NextInv, NewestStep
  <1>1. ASSUME NEW c \in Clients, ArriveAny(c) \/ HandlerStep(c)
        PROVE  Abstract!Next \/ UNCHANGED << NewestOp, clusterVars >>
    <2>1. UNCHANGED clusterVars
      BY <1>1, HandlerSubmits
    <2>2. ASSUME NEW label \in Labels, SubmitsJob(label), InFlight = {} PROVE Abstract!Next
      BY <2>1, <2>2, SubmitAccepts
    <2>3. CASE UNCHANGED jobVars
      BY <2>1, <2>3, SameOp DEF jobVars
    <2>. QED
      BY <1>1, <2>2, <2>3, HandlerSubmits
  <1>2. ASSUME NEW j \in JobIds, ExecutorStep(j)
        PROVE  Abstract!Next \/ UNCHANGED << NewestOp, clusterVars >>
    BY <1>2, ExecutorRefines DEF Attentive
  <1>3. CASE AnyScriptExits
    <2>1. ledger' = ledger
      BY <1>3 DEF AnyScriptExits, ScriptExits, StrayExits, jobVars
    <2>2. ASSUME NEW verdict \in {"ok", "bad"}, NEW j \in JobIds, ScriptExits(j, verdict)
          PROVE  UnderWay(Job(j)) /\ Effect(Job(j), verdict)
      BY <2>2 DEF ScriptExits, UnderWay
    <2>3. ASSUME NEW verdict \in {"ok", "bad"}, NEW label \in strays,
                 StrayExits(label, verdict)
          PROVE  UnderWay(label) /\ Effect(label, verdict)
      BY <2>3 DEF StrayExits, UnderWay
    <2>. QED
      BY <1>3, <2>1, <2>2, <2>3, EffectActs DEF AnyScriptExits
  <1>4. CASE ClusterMoves
    <2>1. ledger' = ledger /\ NodesMove
      BY <1>4 DEF ClusterMoves, jobVars
    <2>2. Abstract!Drifts
      BY <2>1, SameOp, AbstractNodes DEF Abstract!Drifts
    <2>. QED
      BY <2>2 DEF Abstract!Next
  <1>5. CASE Restart
    <2>1. ledger' = ledger /\ UNCHANGED clusterVars
      BY <1>5, RestartRows, AllSaved, Halves DEF Restart, Attentive
    <2>. QED
      BY <2>1, SameOp
  <1>6. CASE UNCHANGED vars
    BY <1>6, SameOp DEF vars, jobVars
  <1>. QED
    BY <1>1, <1>2, <1>3, <1>4, <1>5, <1>6 DEF Next

\* ServerControl implements Lane while no write of the job store fails: for any
\* number of recipes, clients, jobs and restarts, operations come one at a
\* time, starts onto free lanes only, verdicts are true and no script acts out
\* of turn.
THEOREM LaneImplemented ==
  ASSUME MaxFaults = 0, FirstLane, OwnEndpoints, Attentive
  PROVE  Spec => ImplementsLane
  <1>1. Init => Abstract!Init
    <2>. SUFFICES ASSUME Init PROVE Abstract!Init
      OBVIOUS
    <2>1. MadeJobs = {}
      BY DEF Init, Jobs!Init, MadeJobs, JobIds
    <2>2. NewestOp = Abstract!NoOp
      BY <2>1 DEF NewestOp, Abstract!NoOp
    <2>3. Abstract!ClusterInit
      BY AbstractRecipes DEF Init, ClusterInit, Abstract!ClusterInit
    <2>. QED
      BY <2>2, <2>3 DEF Abstract!Init
  <1>2. Inv /\ StraysInv /\ LaneInv /\ NewestInFlight /\ StrayOwned /\ [Next]_vars
          => [Abstract!Next]_(Abstract!laneVars)
    BY LaneStep
  <1>. QED
    BY <1>1, <1>2, LaneInvariance, NewestInvariance, StrayOwnedInvariance, PTL
    DEF Spec, ImplementsLane, Abstract!Spec

=============================================================================
