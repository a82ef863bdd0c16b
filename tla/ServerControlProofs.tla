------------------------ MODULE ServerControlProofs ------------------------
(***************************************************************************)
(* Proofs about ServerControl, for every registry, number of clients,      *)
(* number of jobs and number of restarts.                                  *)
(***************************************************************************)
EXTENDS ServerControl, SequenceTheorems, TLAPS

-----------------------------------------------------------------------------
(* The job runner's operations, seen from here *)

\* The two halves of the invariant.
JobsOK == Jobs!TypeOK /\ ExecTypeOK /\ TasksMatch /\ OneOperation /\ StoreSettled
GateOK == GateTypeOK /\ LockHeld /\ LaneGuarded /\ LocalsOK /\ SwapAttended
NodesOK == up \subseteq RecipeIds /\ ready \subseteq up /\ paused \subseteq up

LEMMA Halves == Inv <=> JobsOK /\ GateOK /\ NodesOK
  BY DEF Inv, TypeOK, JobsOK, GateOK, NodesOK

LEMMA HalvesPrimed == Inv' <=> JobsOK' /\ GateOK' /\ NodesOK'
  BY DEF Inv, TypeOK, JobsOK, GateOK, NodesOK

JobRow == [ state : Jobs!NonTerminal \cup Jobs!TerminalStates, action : Labels ]

\* A job with a state has a label (jobs.submit gave it one).
LEMMA RowLabelled ==
  ASSUME Jobs!TypeOK, NEW j \in JobIds,
         ledger[j].state \in Jobs!NonTerminal \cup Jobs!TerminalStates
  PROVE  ledger[j] \in JobRow /\ Job(j) \in Labels
  BY DEF Jobs!TypeOK, Jobs!Rows, Jobs!NoRow, Jobs!NonTerminal, Jobs!TerminalStates,
         Job, JobIds, JobRow

LEMMA FlightRows ==
  /\ InFlight \subseteq JobIds
  /\ \A j \in JobIds : j \in InFlight <=> ledger[j].state \in Jobs!NonTerminal
  BY DEF InFlight, Jobs!InFlight, JobIds

\* A task has the lane to itself, and nothing is left uncommitted.
LEMMA TaskAlone ==
  ASSUME JobsOK, NEW j \in JobIds, task[j] # "none"
  PROVE  /\ InFlight = {j} /\ ledger[j] \in JobRow
         /\ ledger[j].state = IF task[j] = "scheduled" THEN "pending" ELSE "running"
         /\ \A k \in JobIds \ {j} : task[k] = "none"
         /\ disk = ledger
  <1>1. \A k \in JobIds : task[k] \in {"none", "scheduled", "executing"}
    BY DEF JobsOK, Jobs!TypeOK, JobIds
  <1>2. \A k \in JobIds : task[k] # "none" =>
          ledger[k].state = IF task[k] = "scheduled" THEN "pending" ELSE "running"
    BY <1>1 DEF JobsOK, TasksMatch
  <1>3. \A k \in JobIds : task[k] # "none" => k \in InFlight
    BY <1>2, FlightRows DEF Jobs!NonTerminal
  <1>4. disk = ledger
    BY DEF JobsOK, StoreSettled
  <1>5. ledger[j] \in JobRow
    BY <1>2, RowLabelled DEF JobsOK, Jobs!NonTerminal
  <1>. QED
    BY <1>2, <1>3, <1>4, <1>5, FlightRows DEF JobsOK, OneOperation

\* With nothing in flight no task is there.
LEMMA FreeIsIdle ==
  ASSUME JobsOK, InFlight = {}
  PROVE  \A j \in JobIds : task[j] = "none" /\ exec[j] = "none"
  <1>1. \A j \in JobIds : task[j] = "none"
    BY TaskAlone
  <1>. QED
    BY <1>1 DEF JobsOK, TasksMatch

\* submit adds one pending job and touches no other.
LEMMA SubmitAdds ==
  ASSUME Jobs!TypeOK, NEW j \in JobIds, NEW label \in Labels, Jobs!Submit(j, label)
  PROVE  /\ Jobs!TypeOK'
         /\ InFlight' = InFlight \cup {j}
         /\ ledger[j] = Jobs!NoRow
         /\ ledger'[j] = [ state |-> "pending", action |-> label ]
         /\ \A k \in JobIds \ {j} : ledger'[k] = ledger[k]
         /\ task' = [ task EXCEPT ![j] = "scheduled" ]
         /\ disk' = ledger' /\ faults' = faults
  BY DEF Jobs!TypeOK, Jobs!Submit, Jobs!Saves, Jobs!With, Jobs!NewRow, Jobs!Fresh,
         Jobs!Rows, Jobs!NoRow, Jobs!NonTerminal,
         Jobs!TerminalStates, Jobs!InFlight, InFlight, JobIds, Jobs!JobIds

\* One that raises leaves the table as it was, or with its row, or rolled back.
LEMMA SubmitRaisesLeaves ==
  ASSUME Jobs!TypeOK, NEW j \in JobIds, NEW label \in Labels, Jobs!SubmitRaises(j, label)
  PROVE  /\ Jobs!TypeOK'
         /\ ledger[j] = Jobs!NoRow
         /\ \/ ledger' = ledger
            \/ /\ ledger'[j] = [ state |-> "pending", action |-> label ]
               /\ \A k \in JobIds \ {j} : ledger'[k] = ledger[k]
            \/ ledger' = disk
         /\ UNCHANGED << disk, task >> /\ faults' > 0
  <1>1. /\ [ ledger EXCEPT ![j] = Jobs!NewRow(label) ] \in [ JobIds -> Jobs!Rows ]
        /\ Jobs!NewRow(label) = [ state |-> "pending", action |-> label ]
    BY DEF Jobs!TypeOK, Jobs!NewRow, Jobs!Rows, Jobs!NonTerminal, JobIds
  <1>2. /\ ledger[j] = Jobs!NoRow
        /\ ledger' \in { ledger, [ ledger EXCEPT ![j] = Jobs!NewRow(label) ], disk }
        /\ faults < MaxFaults /\ faults' = faults + 1
        /\ UNCHANGED << disk, task, restarts >>
    BY DEF Jobs!SubmitRaises, Jobs!Loses, Jobs!Leftovers, Jobs!With, Jobs!Fresh
  <1>3. faults' \in 0..MaxFaults /\ faults' > 0
    BY <1>2, ServerControlAssumption DEF Jobs!TypeOK
  <1>. QED
    BY <1>1, <1>2, <1>3 DEF Jobs!TypeOK, JobIds

\* The jobs after a submit on a free lane, however it ends.
LEMMA SubmitKeeps ==
  ASSUME JobsOK, InFlight = {}, NEW j \in JobIds, NEW label \in Labels,
         Jobs!Submit(j, label) \/ Jobs!SubmitRaises(j, label),
         UNCHANGED << exec, strays >>
  PROVE  JobsOK'
  <1>1. Jobs!TypeOK /\ \A k \in JobIds : task[k] = "none" /\ exec[k] = "none"
    BY FreeIsIdle DEF JobsOK
  <1>2. ExecTypeOK'
    BY DEF JobsOK, ExecTypeOK
  <1>3. CASE Jobs!Submit(j, label)
    <2>1. /\ Jobs!TypeOK' /\ InFlight' = {j}
          /\ ledger'[j] = [ state |-> "pending", action |-> label ]
          /\ task' = [ task EXCEPT ![j] = "scheduled" ]
          /\ disk' = ledger'
      BY <1>1, <1>3, SubmitAdds
    <2>2. TasksMatch'
      BY <1>1, <2>1 DEF TasksMatch, Jobs!TypeOK, JobIds
    <2>3. OneOperation'
      BY <2>1 DEF OneOperation
    <2>4. StoreSettled'
      BY <2>1, <2>3 DEF StoreSettled, OneOperation, InFlight, Jobs!InFlight, JobIds
    <2>. QED
      BY <1>2, <2>1, <2>2, <2>3, <2>4 DEF JobsOK
  <1>4. CASE Jobs!SubmitRaises(j, label)
    <2>1. /\ Jobs!TypeOK' /\ ledger[j] = Jobs!NoRow
          /\ \/ ledger' = ledger
             \/ /\ ledger'[j] = [ state |-> "pending", action |-> label ]
                /\ \A k \in JobIds \ {j} : ledger'[k] = ledger[k]
             \/ ledger' = disk
          /\ UNCHANGED << disk, task >> /\ faults' > 0
      BY <1>1, <1>4, SubmitRaisesLeaves
    <2>2. TasksMatch'
      BY <1>1, <2>1 DEF TasksMatch
    <2>3. StoreSettled'
      <3>1. \A k \in JobIds : ledger'[k] = Jobs!NoRow => disk'[k] = Jobs!NoRow
        BY <2>1 DEF JobsOK, StoreSettled, Jobs!NoRow
      <3>2. faults' # 0
        BY <2>1
      <3>3. \A k \in JobIds : task'[k] = "none"
        BY <1>1, <2>1
      <3>4. \A k, l \in JobIds :
              disk'[k].state \in Jobs!NonTerminal /\ disk'[l].state \in Jobs!NonTerminal
                => k = l
        BY <2>1 DEF JobsOK, StoreSettled
      <3>. QED
        BY <3>1, <3>2, <3>3, <3>4 DEF StoreSettled
    <2>4. OneOperation'
      <3>1. \A k \in JobIds : ledger[k].state \notin Jobs!NonTerminal
        BY FlightRows
      <3>2. \A k, l \in JobIds :
              ledger'[k].state \in Jobs!NonTerminal /\ ledger'[l].state \in Jobs!NonTerminal
                => k = l
        BY <2>1, <3>1 DEF JobsOK, StoreSettled
      <3>. QED
        BY <3>2 DEF OneOperation, InFlight, Jobs!InFlight, JobIds
    <2>. QED
      BY <1>2, <2>1, <2>2, <2>3, <2>4 DEF JobsOK
  <1>. QED
    BY <1>3, <1>4

\* The first step of a task keeps its job in flight, or it is the task's last.
LEMMA BeginKeeps ==
  ASSUME JobsOK, NEW j \in JobIds, JobBegins(j)
  PROVE  /\ JobsOK'
         /\ InFlight' = InFlight
         /\ \A k \in JobIds \ {j} : ledger'[k] = ledger[k]
         /\ ledger[j] # Jobs!NoRow
         /\ task'[j] # "none" \/ faults' > 0
         /\ UNCHANGED strays
  <1>1. /\ task[j] = "scheduled" /\ UNCHANGED << restarts, strays >>
        /\ \/ /\ Jobs!Saves(Jobs!Marked(j, "running"))
              /\ task' = [ task EXCEPT ![j] = "executing" ]
              /\ exec' = [ exec EXCEPT ![j] = "dial" ]
           \/ /\ Jobs!Loses(Jobs!Marked(j, "running"))
              /\ task' = [ task EXCEPT ![j] = "none" ]
              /\ exec' = exec
    BY DEF JobBegins, Jobs!Begin, Jobs!BeginRaises, execFrame
  <1>2. /\ InFlight = {j} /\ ledger[j] \in JobRow /\ ledger[j].state = "pending"
        /\ disk = ledger /\ \A k \in JobIds \ {j} : task[k] = "none"
        /\ exec[j] = "none"
    BY <1>1, TaskAlone DEF JobsOK, TasksMatch
  <1>3. /\ Jobs!TypeOK /\ ledger \in [ JobIds -> Jobs!Rows ]
        /\ faults \in 0..MaxFaults
    BY DEF JobsOK, Jobs!TypeOK, JobIds
  <1>. DEFINE marked == Jobs!Marked(j, "running")
  <1>4. /\ marked \in [ JobIds -> Jobs!Rows ]
        /\ marked[j].state = "running" /\ marked[j] # Jobs!NoRow
        /\ \A k \in JobIds \ {j} : marked[k] = ledger[k]
    BY <1>2, <1>3
       DEF Jobs!Marked, JobRow, Jobs!Rows, Jobs!NonTerminal, Jobs!TerminalStates, Jobs!NoRow
  <1>. HIDE DEF marked
  <1>5. /\ ledger' \in {ledger, marked} /\ disk' \in {ledger, marked}
        /\ faults' \in 0..MaxFaults
        /\ \/ task'[j] # "none" /\ ledger' = marked /\ disk' = marked
           \/ faults' > 0 /\ task'[j] = "none" /\ faults' # 0
    BY <1>1, <1>2, <1>3, ServerControlAssumption
       DEF marked, Jobs!Saves, Jobs!Loses, Jobs!Leftovers, Jobs!TypeOK, JobIds
  <1>6. Jobs!TypeOK'
    BY <1>1, <1>3, <1>4, <1>5 DEF Jobs!TypeOK, JobIds
  <1>7. \A k \in JobIds :
          /\ ledger'[k].state \in Jobs!NonTerminal <=> ledger[k].state \in Jobs!NonTerminal
          /\ disk'[k].state \in Jobs!NonTerminal <=> ledger[k].state \in Jobs!NonTerminal
    BY <1>2, <1>4, <1>5 DEF Jobs!NonTerminal
  <1>8. InFlight' = InFlight
    BY <1>7 DEF InFlight, Jobs!InFlight, JobIds
  <1>9. OneOperation' /\ ExecTypeOK'
    BY <1>1, <1>8 DEF JobsOK, OneOperation, ExecTypeOK
  <1>10. StoreSettled'
    <2>1. \A k \in JobIds \ {j} : task'[k] = "none"
      BY <1>1, <1>2, <1>3 DEF Jobs!TypeOK, JobIds
    <2>2. (\E k \in JobIds : task'[k] # "none") \/ faults' = 0 => disk' = ledger'
      BY <1>5, <2>1
    <2>3. \A k, l \in JobIds :
            disk'[k].state \in Jobs!NonTerminal /\ disk'[l].state \in Jobs!NonTerminal
              => k = l
      BY <1>7, FlightRows DEF JobsOK, OneOperation
    <2>4. \A k \in JobIds : ledger'[k] = Jobs!NoRow => disk'[k] = Jobs!NoRow
      BY <1>2, <1>4, <1>5 DEF Jobs!NoRow
    <2>. QED
      BY <2>2, <2>3, <2>4 DEF StoreSettled
  <1>11. TasksMatch'
    BY <1>1, <1>2, <1>3, <1>4, <1>5 DEF JobsOK, TasksMatch, ExecTypeOK, Jobs!TypeOK, JobIds
  <1>. QED
    BY <1>1, <1>2, <1>4, <1>5, <1>6, <1>8, <1>9, <1>10, <1>11 DEF JobsOK, Jobs!NoRow

\* The end of a task, whatever becomes of its last writes.
LEMMA EndKeeps ==
  ASSUME JobsOK, NEW j \in JobIds,
         \/ Jobs!EmitRaises(j)
         \/ \E outcome \in {"done", "failed"} : Jobs!End(j, outcome),
         exec' = [ exec EXCEPT ![j] = "none" ], strays' \subseteq Labels
  PROVE  /\ JobsOK'
         /\ InFlight' \subseteq InFlight
         /\ \A k \in JobIds \ {j} : ledger'[k] = ledger[k]
         /\ ledger[j] # Jobs!NoRow
         /\ InFlight' = {} \/ faults' > 0
  <1>1. /\ task[j] = "executing" /\ UNCHANGED restarts
        /\ task' = [ task EXCEPT ![j] = "none" ]
    BY DEF Jobs!EmitRaises, Jobs!End
  <1>2. /\ InFlight = {j} /\ ledger[j] \in JobRow /\ ledger[j].state = "running"
        /\ disk = ledger /\ \A k \in JobIds \ {j} : task[k] = "none"
    BY <1>1, TaskAlone
  <1>3. /\ Jobs!TypeOK /\ ledger \in [ JobIds -> Jobs!Rows ]
        /\ faults \in 0..MaxFaults
    BY DEF JobsOK, Jobs!TypeOK, JobIds
  <1>4. PICK outcome \in {"done", "failed"} :
          LET ended == [ ledger EXCEPT ![j].state = outcome ] IN
          /\ ledger' \in {ledger, ended} /\ disk' \in {ledger, ended}
          /\ faults' \in 0..MaxFaults
          /\ \/ ledger' = ended /\ disk' = ended
             \/ faults' > 0 /\ faults' # 0
    <2>1. ASSUME NEW outcome \in {"done", "failed"}, Jobs!End(j, outcome)
          PROVE  LET ended == [ ledger EXCEPT ![j].state = outcome ] IN
                 /\ ledger' \in {ledger, ended} /\ disk' \in {ledger, ended}
                 /\ faults' \in 0..MaxFaults
                 /\ \/ ledger' = ended /\ disk' = ended
                    \/ faults' > 0 /\ faults' # 0
      BY <1>2, <1>3, <2>1, ServerControlAssumption
         DEF Jobs!End, Jobs!Saves, Jobs!Loses, Jobs!Leftovers, Jobs!Marked
    <2>2. CASE Jobs!EmitRaises(j)
      <3>. DEFINE failed == [ ledger EXCEPT ![j].state = "failed" ]
      <3>1. \/ /\ faults < MaxFaults /\ faults' = faults + 1
               /\ ledger' = failed /\ disk' = failed
            \/ /\ faults + 1 < MaxFaults /\ faults' = faults + 2
               /\ ledger' \in {ledger, failed, disk}
               /\ UNCHANGED disk
        BY <1>2, <2>2 DEF Jobs!EmitRaises
      <3>2. /\ ledger' \in {ledger, failed} /\ disk' \in {ledger, failed}
            /\ faults' \in 0..MaxFaults
            /\ faults' > 0 /\ faults' # 0
        BY <1>2, <1>3, <3>1, ServerControlAssumption
      <3>. QED
        BY <3>2
    <2>. QED
      BY <2>1, <2>2
  <1>. DEFINE ended == [ ledger EXCEPT ![j].state = outcome ]
  <1>5. /\ ended \in [ JobIds -> Jobs!Rows ]
        /\ ended[j].state \notin Jobs!NonTerminal /\ ended[j] # Jobs!NoRow
        /\ \A k \in JobIds \ {j} : ended[k] = ledger[k]
    BY <1>2, <1>3
       DEF JobRow, Jobs!Rows, Jobs!NonTerminal, Jobs!TerminalStates, Jobs!NoRow
  <1>6. /\ ledger' \in {ledger, ended} /\ disk' \in {ledger, ended}
        /\ faults' \in 0..MaxFaults
        /\ \/ ledger' = ended /\ disk' = ended
           \/ faults' > 0 /\ faults' # 0
    BY <1>4
  <1>. HIDE DEF ended
  <1>7. Jobs!TypeOK'
    BY <1>1, <1>3, <1>5, <1>6 DEF Jobs!TypeOK, JobIds
  <1>8. \A k \in JobIds :
          /\ ledger'[k].state \in Jobs!NonTerminal => k = j
          /\ disk'[k].state \in Jobs!NonTerminal => k = j
          /\ ledger' = ended => ledger'[k].state \notin Jobs!NonTerminal
    BY <1>2, <1>5, <1>6, FlightRows
  <1>9. InFlight' \subseteq {j} /\ (InFlight' = {} \/ faults' > 0)
    BY <1>6, <1>8 DEF InFlight, Jobs!InFlight, JobIds
  <1>10. OneOperation' /\ ExecTypeOK'
    BY <1>9 DEF JobsOK, OneOperation, ExecTypeOK
  <1>11. \A k \in JobIds : task'[k] = "none"
    BY <1>1, <1>2, <1>3 DEF Jobs!TypeOK, JobIds
  <1>12. StoreSettled'
    <2>1. faults' = 0 => disk' = ledger'
      BY <1>6
    <2>2. \A k \in JobIds : ledger'[k] = Jobs!NoRow => disk'[k] = Jobs!NoRow
      BY <1>2, <1>5, <1>6 DEF Jobs!NoRow, JobRow
    <2>. QED
      BY <1>8, <1>11, <2>1, <2>2 DEF StoreSettled
  <1>13. TasksMatch'
    <2>1. \A k \in JobIds : exec'[k] = "none"
      BY <1>1, <1>2 DEF JobsOK, TasksMatch, ExecTypeOK
    <2>. QED
      BY <1>11, <2>1 DEF TasksMatch
  <1>. QED
    BY <1>2, <1>5, <1>6, <1>7, <1>9, <1>10, <1>12, <1>13 DEF JobsOK, Jobs!NoRow, JobRow

\* A restart: what the next process finds in flight is what was committed, or
\* what there was.
LEMMA RestartRows ==
  ASSUME JobsOK, Restart
  PROVE  /\ JobsOK'
         /\ task' = [ j \in JobIds |-> "none" ]
         /\ disk' = ledger'
         /\ \E rows \in {ledger, disk, [ j \in JobIds |-> Jobs!NoRow ]} :
              /\ Durable => rows \in {ledger, disk}
              /\ ledger' = IF ReconcileOnBoot THEN Jobs!Reconciled(rows) ELSE rows
  <1>1. PICK rows \in {ledger, disk, [ j \in JobIds |-> Jobs!NoRow ]} :
          /\ Durable => rows \in {ledger, disk}
          /\ ledger' = IF ReconcileOnBoot THEN Jobs!Reconciled(rows) ELSE rows
    BY DEF Restart, Jobs!Restart, Jobs!RowsOnBoot, JobIds
  <1>2. /\ task' = [ j \in JobIds |-> "none" ] /\ disk' = ledger' /\ faults' = 0
        /\ restarts < MaxRestarts /\ restarts' = restarts + 1
        /\ exec' = [ j \in JobIds |-> "none" ]
    BY DEF Restart, Jobs!Restart, JobIds
  <1>3. /\ rows \in [ JobIds -> Jobs!Rows ]
        /\ \A j, k \in JobIds :
             rows[j].state \in Jobs!NonTerminal /\ rows[k].state \in Jobs!NonTerminal => j = k
    <2>1. CASE rows = ledger
      BY <2>1, FlightRows DEF JobsOK, OneOperation, Jobs!TypeOK, JobIds
    <2>2. CASE rows = disk
      BY <2>2 DEF JobsOK, StoreSettled, Jobs!TypeOK, JobIds
    <2>3. CASE rows = [ j \in JobIds |-> Jobs!NoRow ]
      BY <2>3 DEF Jobs!Rows, Jobs!NoRow, Jobs!NonTerminal
    <2>. QED
      BY <2>1, <2>2, <2>3
  <1>4. /\ Jobs!Reconciled(rows) \in [ JobIds -> Jobs!Rows ]
        /\ \A j \in JobIds : Jobs!Reconciled(rows)[j].state \notin Jobs!NonTerminal
    BY <1>3 DEF Jobs!Reconciled, Jobs!Rows, Jobs!NoRow, Jobs!NonTerminal,
       Jobs!TerminalStates, JobIds
  <1>5. /\ ledger' \in [ JobIds -> Jobs!Rows ]
        /\ \A j, k \in JobIds :
             ledger'[j].state \in Jobs!NonTerminal /\ ledger'[k].state \in Jobs!NonTerminal
               => j = k
    BY <1>1, <1>3, <1>4
  <1>6. Jobs!TypeOK'
    BY <1>2, <1>5, ServerControlAssumption DEF JobsOK, Jobs!TypeOK, JobIds
  <1>7. ExecTypeOK'
    <2>1. \A j \in JobIds : exec[j] = "script" => Job(j) \in Labels
      BY TaskAlone DEF JobsOK, TasksMatch, Job, JobRow
    <2>. QED
      BY <1>2, <2>1 DEF Restart, JobsOK, ExecTypeOK
  <1>8. TasksMatch'
    BY <1>2 DEF TasksMatch
  <1>9. OneOperation' /\ StoreSettled'
    BY <1>2, <1>5 DEF OneOperation, StoreSettled, InFlight, Jobs!InFlight, JobIds
  <1>. QED
    BY <1>1, <1>2, <1>6, <1>7, <1>8, <1>9 DEF JobsOK

\* What does not touch the jobs keeps them as they are.
LEMMA JobsFrame ==
  ASSUME JobsOK, UNCHANGED << jobVars, exec >>, strays' \subseteq Labels
  PROVE  JobsOK' /\ InFlight' = InFlight
  BY DEF JobsOK, ExecTypeOK, TasksMatch, OneOperation, StoreSettled, InFlight,
         Jobs!InFlight, Jobs!TypeOK, jobVars

-----------------------------------------------------------------------------
(* The shapes a handler's step has *)

LEMMA NoCallTyped == NoCall \in CallType
  BY RegistryAssumption DEF NoCall, CallType

\* Whoever leaves the lock leaves it free, whatever the jobs do.
LEMMA LeaveFrees ==
  ASSUME GateOK, NEW c \in Clients, pc[c] \in InLock,
         NEW kind \in ReplyKinds, NEW holder \in RecipeIds \cup {NoRecipe},
         Leave(c, kind, holder), UNCHANGED handlerFrame
  PROVE  GateOK' /\ \A d \in Clients : pc'[d] \notin InLock
  <1>1. lock = c
    BY DEF GateOK, LockHeld
  <1>2. /\ pc' = [ pc EXCEPT ![c] = "idle" ]
        /\ call' = [ call EXCEPT ![c] = NoCall ]
        /\ lock' = NoClient
        /\ UNCHANGED << queue, calls >>
    BY DEF Leave, Answer, handlerFrame
  <1>3. GateTypeOK'
    BY <1>2, NoCallTyped DEF GateOK, GateTypeOK, Leave, Answer, CallType, ReplyType, InLock
  <1>4. LockHeld'
    BY <1>1, <1>2, ServerControlAssumption DEF GateOK, GateTypeOK, LockHeld, InLock
  <1>5. \A d \in Clients : pc'[d] \notin InLock
    BY <1>2, <1>4, ServerControlAssumption DEF LockHeld
  <1>. QED
    BY <1>3, <1>4, <1>5 DEF GateOK, LaneGuarded, LocalsOK, SwapAttended, InLock

\* A handler in the lock that returns without a job.
LEMMA LeaveKeeps ==
  ASSUME Inv, NEW c \in Clients, pc[c] \in InLock,
         NEW kind \in ReplyKinds, NEW holder \in RecipeIds \cup {NoRecipe},
         Leave(c, kind, holder), UNCHANGED << jobVars, handlerFrame >>
  PROVE  Inv'
  <1>1. /\ JobsOK /\ GateOK /\ NodesOK
        /\ UNCHANGED << exec, strays, up, ready, paused >>
    BY Halves DEF handlerFrame, execVars, clusterVars
  <1>2. JobsOK'
    BY <1>1, JobsFrame DEF JobsOK, ExecTypeOK
  <1>3. GateOK' /\ NodesOK'
    BY <1>1, LeaveFrees DEF NodesOK
  <1>. QED
    BY <1>2, <1>3, HalvesPrimed

\* A handler in the lock, with nothing in flight, whose submit raises.
LEMMA SubmitFailsKeeps ==
  ASSUME Inv, NEW c \in Clients, pc[c] \in InLock, InFlight = {},
         NEW label \in Labels, SubmitFails(c, label), UNCHANGED handlerFrame
  PROVE  Inv'
  <1>1. /\ JobsOK /\ GateOK /\ NodesOK
        /\ UNCHANGED << exec, strays, up, ready, paused >>
    BY Halves DEF handlerFrame, execVars, clusterVars
  <1>2. PICK j \in JobIds : Jobs!SubmitRaises(j, label)
    BY DEF SubmitFails
  <1>3. Leave(c, "internal-error", NoRecipe)
    BY DEF SubmitFails
  <1>4. JobsOK'
    BY <1>1, <1>2, SubmitKeeps
  <1>5. GateOK' /\ NodesOK'
    BY <1>1, <1>3, LeaveFrees DEF NodesOK, ReplyKinds
  <1>. QED
    BY <1>4, <1>5, HalvesPrimed

\* A handler in the lock, with nothing in flight, that submits a job, or tries
\* to, and returns.
LEMMA SubmitAndLeaveKeeps ==
  ASSUME Inv, NEW c \in Clients, pc[c] \in InLock, InFlight = {},
         NEW op \in Ops, NEW id \in RecipeIds,
         SubmitAndLeave(c, op, id), UNCHANGED handlerFrame
  PROVE  Inv'
  <1>. DEFINE label == [ op |-> op, recipe |-> id ]
  <1>1. /\ JobsOK /\ GateOK /\ NodesOK /\ label \in Labels
        /\ UNCHANGED << exec, strays, up, ready, paused >>
    BY Halves DEF handlerFrame, execVars, clusterVars, Labels
  <1>. HIDE DEF label
  <1>2. CASE SubmitFails(c, label)
    BY <1>1, <1>2, SubmitFailsKeeps
  <1>3. ASSUME NEW j \in JobIds, Jobs!Submit(j, label), Leave(c, "accepted", NoRecipe)
        PROVE  Inv'
    <2>1. JobsOK'
      BY <1>1, <1>3, SubmitKeeps
    <2>2. GateOK' /\ NodesOK'
      BY <1>1, <1>3, LeaveFrees DEF NodesOK, ReplyKinds
    <2>. QED
      BY <2>1, <2>2, HalvesPrimed
  <1>. QED
    BY <1>2, <1>3 DEF SubmitAndLeave, label

\* A handler in the lock that goes on to its next await.
LEMMA GoOnKeeps ==
  ASSUME Inv, NEW c \in Clients, pc[c] \in InLock \ {"swap"},
         NEW place \in {"health", "scan", "holder"},
         NEW locals \in CallType,
         locals.recipe = call[c].recipe, locals.op = "start",
         place = "scan" => locals.scan \in DOMAIN Registry,
         place = "holder" => locals.holder \in RecipeIds,
         GoOn(c, place, locals), UNCHANGED << jobVars, handlerFrame >>
  PROVE  Inv'
  <1>1. lock = c
    BY DEF Inv, LockHeld
  <1>2. /\ pc' = [ pc EXCEPT ![c] = place ]
        /\ call' = [ call EXCEPT ![c] = locals ]
        /\ UNCHANGED << reply, lock, queue, calls, exec, strays, up, ready, paused,
                        faults, task >>
    BY DEF GoOn, jobVars, handlerFrame, execVars, clusterVars
  <1>3. GateTypeOK'
    BY <1>2 DEF Inv, TypeOK, GateTypeOK, InLock
  <1>4. InFlight' = InFlight /\ JobsOK'
    <2>1. strays' \subseteq Labels
      BY <1>2 DEF Inv, TypeOK, ExecTypeOK
    <2>. QED
      BY <1>2, <2>1, JobsFrame, Halves
  <1>5. LockHeld'
    BY <1>1, <1>2 DEF Inv, TypeOK, GateTypeOK, LockHeld, InLock
  <1>6. LaneGuarded'
    BY <1>1, <1>2, <1>4 DEF Inv, TypeOK, GateTypeOK, LaneGuarded, InLock
  <1>7. LocalsOK'
    BY <1>2 DEF Inv, TypeOK, GateTypeOK, LocalsOK, InLock
  <1>8. SwapAttended'
    BY <1>2, <1>4 DEF Inv, TypeOK, GateTypeOK, SwapAttended, InLock
  <1>9. NodesOK'
    BY <1>2 DEF Inv, TypeOK, NodesOK
  <1>. QED
    BY <1>3, <1>4, <1>5, <1>6, <1>7, <1>8, <1>9, HalvesPrimed DEF GateOK

\* A handler in the lock that submits the stop job of its swap and waits.
LEMMA SwapKeeps ==
  ASSUME Inv, NEW c \in Clients, pc[c] \in InLock, InFlight = {}, call[c].op = "start",
         NEW j \in JobIds, NEW label \in Labels, Jobs!Submit(j, label),
         GoOn(c, "swap", [ call[c] EXCEPT !.job = j ]), UNCHANGED handlerFrame
  PROVE  Inv'
  <1>1. lock = c
    BY DEF Inv, LockHeld
  <1>2. /\ pc' = [ pc EXCEPT ![c] = "swap" ]
        /\ call' = [ call EXCEPT ![c] = [ call[c] EXCEPT !.job = j ] ]
        /\ UNCHANGED << reply, lock, queue, calls, exec, strays, up, ready, paused >>
    BY DEF GoOn, handlerFrame, execVars, clusterVars
  <1>3. [ call[c] EXCEPT !.job = j ] \in CallType
    BY DEF Inv, TypeOK, GateTypeOK, CallType
  <1>4. GateTypeOK'
    BY <1>2, <1>3 DEF Inv, TypeOK, GateTypeOK, InLock
  <1>5. JobsOK'
    BY <1>2, SubmitKeeps, Halves
  <1>6. InFlight' = {j} /\ task'[j] = "scheduled"
    <2>1. InFlight' = InFlight \cup {j} /\ task' = [ task EXCEPT ![j] = "scheduled" ]
      BY SubmitAdds DEF Inv, TypeOK
    <2>. QED
      BY <2>1 DEF Inv, TypeOK, Jobs!TypeOK, JobIds
  <1>7. LockHeld'
    BY <1>1, <1>2 DEF Inv, TypeOK, GateTypeOK, LockHeld, InLock
  <1>8. call'[c].job = j /\ call'[c].recipe = call[c].recipe /\ call'[c].op = "start"
    BY <1>2 DEF Inv, TypeOK, GateTypeOK, CallType
  <1>9. \A d \in Clients : pc'[d] \in InLock => d = c
    BY <1>1, <1>2, <1>7 DEF LockHeld
  <1>10. LaneGuarded'
    BY <1>2, <1>6, <1>8, <1>9 DEF Inv, TypeOK, GateTypeOK, LaneGuarded
  <1>11. LocalsOK'
    BY <1>2, <1>8, <1>9 DEF Inv, TypeOK, GateTypeOK, LocalsOK, InLock
  <1>12. SwapAttended'
    BY <1>6, <1>8, <1>9 DEF SwapAttended, InLock
  <1>13. NodesOK'
    BY <1>2 DEF Inv, TypeOK, NodesOK
  <1>. QED
    BY <1>4, <1>5, <1>7, <1>10, <1>11, <1>12, <1>13, HalvesPrimed DEF GateOK

\* A request that gets the lock: it is turned away, or it goes in with the
\* lane free.
LEMMA EnterKeeps ==
  ASSUME Inv, NEW c \in Clients, pc[c] \notin InLock, lock = NoClient,
         NEW request \in CallType,
         Enter(c, request),
         queue' \in Seq(Clients), calls' \in 0..MaxCalls,
         UNCHANGED << execVars, jobVars, clusterVars >>
  PROVE  Inv'
  <1>1. \A d \in Clients : pc[d] \notin InLock
    BY ServerControlAssumption DEF Inv, LockHeld
  <1>2. InFlight' = InFlight /\ JobsOK' /\ NodesOK'
    <2>1. strays' \subseteq Labels /\ UNCHANGED << jobVars, exec, up, ready, paused >>
      BY DEF Inv, TypeOK, ExecTypeOK, execVars, clusterVars
    <2>. QED
      BY <2>1, JobsFrame, Halves DEF NodesOK
  <1>3. CASE /\ lock' = NoClient
             /\ \E kind \in {"op-in-progress", "unknown-recipe"} :
                  Answer(c, request, kind, NoRecipe)
    <2>1. PICK kind \in {"op-in-progress", "unknown-recipe"} :
            Answer(c, request, kind, NoRecipe)
      BY <1>3
    <2>2. pc' = [ pc EXCEPT ![c] = "idle" ]
      BY <2>1 DEF Answer
    <2>3. GateTypeOK'
      BY <1>3, <2>1 DEF Inv, TypeOK, GateTypeOK, Answer, CallType, ReplyType,
         ReplyKinds, NoCall
    <2>4. \A d \in Clients : pc'[d] \notin InLock
      BY <1>1, <2>2 DEF Inv, TypeOK, GateTypeOK, InLock
    <2>5. LockHeld' /\ LaneGuarded' /\ LocalsOK' /\ SwapAttended'
      BY <1>3, <2>4, ServerControlAssumption
      DEF LockHeld, LaneGuarded, LocalsOK, SwapAttended, InLock
    <2>. QED
      BY <1>2, <2>3, <2>5, HalvesPrimed DEF GateOK
  <1>4. CASE /\ InFlight = {} /\ request.recipe \in RecipeIds
             /\ pc' = [ pc EXCEPT ![c] = "probe" ]
             /\ call' = [ call EXCEPT ![c] = request ]
             /\ lock' = c
             /\ UNCHANGED reply
    <2>1. GateTypeOK'
      BY <1>4 DEF Inv, TypeOK, GateTypeOK, InLock
    <2>2. \A d \in Clients : pc'[d] \in InLock <=> d = c
      BY <1>1, <1>4 DEF Inv, TypeOK, GateTypeOK, InLock
    <2>3. LockHeld' /\ LaneGuarded'
      BY <1>2, <1>4, <2>2 DEF LockHeld, LaneGuarded
    <2>4. LocalsOK'
      BY <1>4, <2>2 DEF Inv, TypeOK, GateTypeOK, LocalsOK, InLock
    <2>5. SwapAttended'
      BY <1>4, <2>2 DEF Inv, TypeOK, GateTypeOK, SwapAttended, InLock
    <2>. QED
      BY <1>2, <2>1, <2>3, <2>4, <2>5, HalvesPrimed DEF GateOK
  <1>. QED
    BY <1>3, <1>4 DEF Enter

-----------------------------------------------------------------------------
(* The handlers *)

\* A swap's stop job that is over leaves nothing in flight.
LEMMA SwapOver ==
  ASSUME Inv, NEW c \in Clients, pc[c] = "swap",
         ledger[call[c].job].state \in Jobs!TerminalStates
  PROVE  InFlight = {}
  BY DEF Inv, LaneGuarded, InLock, InFlight, Jobs!InFlight, Jobs!NonTerminal,
         Jobs!TerminalStates

\* The arbitration's verdict.
LEMMA DecideKeeps ==
  ASSUME Inv, NEW c \in Clients, pc[c] = "scan",
         NEW holder \in RecipeIds \cup {NoRecipe},
         Decide(c, holder), UNCHANGED handlerFrame
  PROVE  Inv'
  <1>1. /\ call[c].recipe \in RecipeIds /\ call[c].op = "start" /\ InFlight = {}
        /\ pc[c] \in InLock \ {"swap"}
    BY DEF Inv, LocalsOK, LaneGuarded, InLock
  <1>2. CASE SubmitAndLeave(c, "start", call[c].recipe)
    BY <1>1, <1>2, SubmitAndLeaveKeeps DEF Ops
  <1>3. CASE Leave(c, "needs-confirm", holder) /\ UNCHANGED jobVars
    BY <1>1, <1>3, LeaveKeeps DEF ReplyKinds
  <1>4. CASE /\ holder \in Conflicting(call[c].recipe)
             /\ GoOn(c, "holder", [ call[c] EXCEPT !.holder = holder ])
             /\ UNCHANGED jobVars
    <2>. DEFINE locals == [ call[c] EXCEPT !.holder = holder ]
    <2>1. holder \in RecipeIds
      BY <1>4 DEF Conflicting
    <2>2. /\ locals \in CallType
          /\ locals.recipe = call[c].recipe /\ locals.op = "start"
          /\ locals.holder \in RecipeIds
      BY <1>1, <2>1 DEF Inv, TypeOK, GateTypeOK, CallType
    <2>3. GoOn(c, "holder", locals) /\ UNCHANGED << jobVars, handlerFrame >>
      BY <1>4
    <2>. HIDE DEF locals
    <2>. QED
      BY <1>1, <2>2, <2>3, GoOnKeeps
  <1>. QED
    BY <1>2, <1>3, <1>4 DEF Decide

LEMMA ProbeFailsKeeps ==
  ASSUME Inv, NEW c \in Clients, ProbeFails(c)
  PROVE  Inv'
  BY LeaveKeeps DEF ProbeFails, ReplyKinds, InLock

LEMMA ProbeForStopKeeps ==
  ASSUME Inv, NEW c \in Clients, ProbeForStop(c)
  PROVE  Inv'
  <1>1. pc[c] \in InLock
    BY DEF ProbeForStop, InLock
  <1>2. call[c].recipe \in RecipeIds /\ InFlight = {}
    BY <1>1 DEF Inv, LocalsOK, LaneGuarded, ProbeForStop
  <1>3. CASE Leave(c, "already-stopped", NoRecipe) /\ UNCHANGED jobVars
    BY <1>1, <1>3, LeaveKeeps DEF ProbeForStop, ReplyKinds
  <1>4. CASE SubmitAndLeave(c, "stop", call[c].recipe)
    BY <1>1, <1>2, <1>4, SubmitAndLeaveKeeps DEF ProbeForStop, Ops
  <1>. QED
    BY <1>3, <1>4 DEF ProbeForStop

\* Going to the scan: the registry has a first recipe.
LEMMA ScanBegins ==
  ASSUME Inv, NEW c \in Clients, pc[c] \in InLock \ {"swap"}, call[c].op = "start",
         GoOn(c, "scan", [ call[c] EXCEPT !.scan = 1 ]),
         UNCHANGED << jobVars, handlerFrame >>
  PROVE  Inv'
  <1>. DEFINE locals == [ call[c] EXCEPT !.scan = 1 ]
  <1>1. call[c].recipe \in RecipeIds
    BY DEF Inv, LocalsOK
  <1>2. /\ 1 \in DOMAIN Registry
        /\ 1 \in 0..Len(Registry)
    BY <1>1, RegistryAssumption DEF RecipeIds
  <1>3. /\ locals \in CallType
        /\ locals.recipe = call[c].recipe /\ locals.op = "start"
        /\ locals.scan \in DOMAIN Registry
    BY <1>2 DEF Inv, TypeOK, GateTypeOK, CallType
  <1>4. GoOn(c, "scan", locals)
    OBVIOUS
  <1>. HIDE DEF locals
  <1>. QED
    BY <1>3, <1>4, GoOnKeeps

LEMMA ProbeForStartKeeps ==
  ASSUME Inv, NEW c \in Clients, ProbeForStart(c)
  PROVE  Inv'
  <1>1. pc[c] \in InLock \ {"swap"}
    BY DEF ProbeForStart, InLock
  <1>2. CASE GoOn(c, "health", call[c])
    <2>1. call[c] \in CallType
      BY DEF Inv, TypeOK, GateTypeOK
    <2>. QED
      BY <1>1, <1>2, <2>1, GoOnKeeps DEF ProbeForStart
  <1>3. CASE GoOn(c, "scan", [ call[c] EXCEPT !.scan = 1 ])
    BY <1>1, <1>3, ScanBegins DEF ProbeForStart
  <1>. QED
    BY <1>2, <1>3 DEF ProbeForStart

LEMMA CheckHealthKeeps ==
  ASSUME Inv, NEW c \in Clients, CheckHealth(c)
  PROVE  Inv'
  <1>1. pc[c] \in InLock \ {"swap"} /\ call[c].op = "start"
    BY DEF CheckHealth, InLock, Inv, LocalsOK
  <1>2. CASE Leave(c, "already-up", NoRecipe)
    BY <1>1, <1>2, LeaveKeeps DEF CheckHealth, ReplyKinds
  <1>3. CASE GoOn(c, "scan", [ call[c] EXCEPT !.scan = 1 ])
    BY <1>1, <1>3, ScanBegins DEF CheckHealth
  <1>4. CASE Leave(c, "internal-error", NoRecipe)
    BY <1>1, <1>4, LeaveKeeps DEF CheckHealth, ReplyKinds
  <1>. QED
    BY <1>2, <1>3, <1>4 DEF CheckHealth

LEMMA ScanKeeps ==
  ASSUME Inv, NEW c \in Clients, Scan(c)
  PROVE  Inv'
  <1>. DEFINE i == call[c].scan
  <1>1. /\ pc[c] = "scan" /\ pc[c] \in InLock \ {"swap"} /\ call[c].op = "start"
        /\ i \in DOMAIN Registry
    BY DEF Inv, LocalsOK, Scan, InLock
  <1>2. Registry[i].id \in RecipeIds
    BY <1>1 DEF RecipeIds
  <1>3. CASE Decide(c, Registry[i].id)
    BY <1>1, <1>2, <1>3, DecideKeeps DEF Scan
  <1>4. CASE Decide(c, NoRecipe)
    BY <1>1, <1>4, DecideKeeps DEF Scan
  <1>5. CASE /\ i < Len(Registry)
             /\ GoOn(c, "scan", [ call[c] EXCEPT !.scan = i + 1 ])
             /\ UNCHANGED jobVars
    <2>. DEFINE locals == [ call[c] EXCEPT !.scan = i + 1 ]
    <2>1. i + 1 \in DOMAIN Registry /\ i + 1 \in 0..Len(Registry)
      BY <1>1, <1>5, RegistryAssumption
    <2>2. /\ locals \in CallType
          /\ locals.recipe = call[c].recipe /\ locals.op = "start"
          /\ locals.scan \in DOMAIN Registry
      BY <1>1, <2>1 DEF Inv, TypeOK, GateTypeOK, CallType
    <2>3. UNCHANGED << jobVars, handlerFrame >>
      BY <1>5 DEF Scan
    <2>4. GoOn(c, "scan", locals)
      BY <1>5
    <2>. HIDE DEF locals, i
    <2>. QED
      BY <1>1, <2>2, <2>3, <2>4, GoOnKeeps
  <1>. QED
    BY <1>3, <1>4, <1>5 DEF Scan

LEMMA StopHolderKeeps ==
  ASSUME Inv, NEW c \in Clients, StopHolder(c)
  PROVE  Inv'
  <1>1. pc[c] \in InLock /\ pc[c] # "swap"
    BY DEF StopHolder, InLock
  <1>2. /\ call[c].recipe \in RecipeIds /\ call[c].op = "start"
        /\ call[c].holder \in RecipeIds
        /\ InFlight = {}
    BY <1>1 DEF Inv, LocalsOK, LaneGuarded, StopHolder
  <1>3. CASE SubmitAndLeave(c, "start", call[c].recipe)
    BY <1>1, <1>2, <1>3, SubmitAndLeaveKeeps DEF StopHolder, Ops
  <1>4. CASE \E j \in JobIds :
               /\ Jobs!Submit(j, [ op |-> "stop", recipe |-> call[c].holder ])
               /\ GoOn(c, "swap", [ call[c] EXCEPT !.job = j ])
    <2>1. PICK j \in JobIds, label \in Labels :
            /\ Jobs!Submit(j, label)
            /\ GoOn(c, "swap", [ call[c] EXCEPT !.job = j ])
      BY <1>2, <1>4 DEF Labels, Ops
    <2>. QED
      BY <1>1, <1>2, <2>1, SwapKeeps DEF StopHolder
  <1>5. CASE SubmitFails(c, [ op |-> "stop", recipe |-> call[c].holder ])
    <2>1. PICK label \in Labels : SubmitFails(c, label)
      BY <1>2, <1>5 DEF Labels, Ops
    <2>. QED
      BY <1>1, <1>2, <2>1, SubmitFailsKeeps DEF StopHolder
  <1>. QED
    BY <1>3, <1>4, <1>5 DEF StopHolder

LEMMA SwapPollKeeps ==
  ASSUME Inv, NEW c \in Clients, SwapPoll(c)
  PROVE  Inv'
  <1>1. pc[c] \in InLock /\ call[c].recipe \in RecipeIds
    BY DEF Inv, LocalsOK, SwapPoll, InLock
  <1>3. CASE /\ ledger[call[c].job].state = "done"
             /\ SubmitAndLeave(c, "start", call[c].recipe)
    <2>1. InFlight = {}
      BY <1>3, SwapOver DEF SwapPoll, Jobs!TerminalStates
    <2>. QED
      BY <1>1, <1>3, <2>1, SubmitAndLeaveKeeps DEF SwapPoll, Ops
  <1>4. CASE Leave(c, "stop-failed", NoRecipe) /\ UNCHANGED jobVars
    BY <1>1, <1>4, LeaveKeeps DEF SwapPoll, ReplyKinds
  <1>. QED
    BY <1>3, <1>4 DEF SwapPoll

LEMMA ArriveKeeps ==
  ASSUME Inv, NEW c \in Clients, NEW request \in CallType, Arrive(c, request)
  PROVE  Inv'
  <1>1. pc[c] \notin InLock /\ calls' \in 0..MaxCalls
    BY ServerControlAssumption DEF Arrive, InLock, Inv, TypeOK, GateTypeOK
  <1>2. queue \in Seq(Clients)
    BY DEF Inv, TypeOK, GateTypeOK
  <1>3. CASE /\ lock = NoClient
             /\ Enter(c, request)
             /\ UNCHANGED queue
    BY <1>1, <1>2, <1>3, EnterKeeps DEF Arrive
  <1>4. CASE \/ /\ Answer(c, request, "op-in-progress", NoRecipe)
                /\ UNCHANGED << lock, queue >>
             \/ /\ pc' = [ pc EXCEPT ![c] = "queued" ]
                /\ call' = [ call EXCEPT ![c] = request ]
                /\ queue' = Append(queue, c)
                /\ UNCHANGED << reply, lock >>
    <2>1. PICK place \in {"idle", "queued"}, locals \in CallType :
            /\ pc' = [ pc EXCEPT ![c] = place ]
            /\ call' = [ call EXCEPT ![c] = locals ]
      <3>1. CASE Answer(c, request, "op-in-progress", NoRecipe)
        BY <3>1, NoCallTyped DEF Answer
      <3>2. CASE /\ pc' = [ pc EXCEPT ![c] = "queued" ]
                 /\ call' = [ call EXCEPT ![c] = request ]
        BY <3>2
      <3>. QED
        BY <1>4, <3>1, <3>2
    <2>2. lock' = lock
      BY <1>4
    <2>3. queue' \in Seq(Clients)
      BY <1>2, <1>4, AppendProperties
    <2>4. reply' \in [ Clients -> ReplyType ]
      <3>1. reply \in [ Clients -> ReplyType ]
        BY DEF Inv, TypeOK, GateTypeOK
      <3>2. [ kind |-> "op-in-progress", recipe |-> request.recipe,
              holder |-> NoRecipe ] \in ReplyType
        BY DEF CallType, ReplyType, ReplyKinds
      <3>. QED
        BY <1>4, <3>1, <3>2 DEF Answer
    <2>5. InFlight' = InFlight /\ JobsOK' /\ NodesOK' /\ UNCHANGED << task, faults >>
      <3>1. /\ strays' \subseteq Labels
            /\ UNCHANGED << jobVars, exec, task, faults, up, ready, paused >>
        BY DEF Arrive, Inv, TypeOK, ExecTypeOK, execVars, jobVars, clusterVars
      <3>. QED
        BY <3>1, JobsFrame, Halves DEF NodesOK
    <2>6. GateTypeOK'
      BY <1>1, <2>1, <2>2, <2>3, <2>4 DEF Inv, TypeOK, GateTypeOK
    <2>7. \A d \in Clients : pc'[d] \in InLock => d # c /\ pc'[d] = pc[d]
      BY <2>1 DEF Inv, TypeOK, GateTypeOK, InLock
    <2>8. \A d \in Clients : d # c => pc'[d] = pc[d] /\ call'[d] = call[d]
      BY <2>1 DEF Inv, TypeOK, GateTypeOK
    <2>9. pc'[c] \notin InLock
      BY <2>7
    <2>10. LockHeld'
      BY <1>1, <2>2, <2>8, <2>9 DEF Inv, LockHeld
    <2>11. LaneGuarded' /\ LocalsOK' /\ SwapAttended'
      BY <2>5, <2>7, <2>8 DEF Inv, LaneGuarded, LocalsOK, SwapAttended, InLock
    <2>. QED
      BY <2>5, <2>6, <2>10, <2>11, HalvesPrimed DEF GateOK
  <1>. QED
    BY <1>3, <1>4 DEF Arrive

LEMMA ArriveAnyKeeps ==
  ASSUME Inv, NEW c \in Clients, ArriveAny(c)
  PROVE  Inv'
  <1>1. PICK op \in Ops, id \in RecipeIds \cup {UnknownId}, confirm \in Confirms :
          Arrive(c, [ op |-> op, recipe |-> id, confirm |-> confirm,
                      asked |-> Asked(c, id, confirm),
                      scan |-> 0, holder |-> NoRecipe, job |-> 0 ])
    BY DEF ArriveAny
  <1>2. Asked(c, id, confirm) \in RecipeIds \cup {NoRecipe}
    BY DEF Asked, Inv, TypeOK, GateTypeOK, ReplyType
  <1>3. 0 \in 0..Len(Registry)
    BY RegistryAssumption
  <1>4. PICK request \in CallType : Arrive(c, request)
    BY <1>1, <1>2, <1>3, ServerControlAssumption DEF CallType, Ops
  <1>. QED
    BY <1>4, ArriveKeeps

LEMMA ResumeKeeps ==
  ASSUME Inv, NEW c \in Clients, Resume(c)
  PROVE  Inv'
  <1>1. /\ pc[c] \notin InLock
        /\ call[c] \in CallType
        /\ calls' \in 0..MaxCalls
    BY DEF Resume, Inv, TypeOK, GateTypeOK, InLock
  <1>2. queue' \in Seq(Clients)
    BY HeadTailProperties DEF Resume, Inv, TypeOK, GateTypeOK
  <1>. QED
    BY <1>1, <1>2, EnterKeeps DEF Resume

LEMMA HandlerStepKeeps ==
  ASSUME Inv, NEW c \in Clients, HandlerStep(c)
  PROVE  Inv'
  BY ResumeKeeps, ProbeFailsKeeps, ProbeForStopKeeps, ProbeForStartKeeps,
     CheckHealthKeeps, ScanKeeps, StopHolderKeeps, SwapPollKeeps
  DEF HandlerStep

-----------------------------------------------------------------------------
(* The executor *)

\* What the gate keeps true depends on the jobs only through InFlight and the
\* task a swap waits for: it stays true when jobs end.
LEMMA GateFrame ==
  ASSUME Inv, UNCHANGED gateVars, InFlight' \subseteq InFlight,
         \/ faults' > 0
         \/ \A k \in InFlight' : task'[k] # "none"
         \/ UNCHANGED << task, faults >>
  PROVE  GateOK'
  <1>1. GateTypeOK' /\ LockHeld' /\ LaneGuarded' /\ LocalsOK'
    BY DEF Inv, TypeOK, gateVars, GateTypeOK, LockHeld, LaneGuarded, LocalsOK
  <1>2. SwapAttended'
    <2>. SUFFICES ASSUME NEW c \in Clients, pc'[c] = "swap", call'[c].job \in InFlight'
                  PROVE  faults' > 0 \/ task'[call'[c].job] # "none"
      BY DEF SwapAttended
    <2>1. pc[c] = "swap" /\ call'[c].job = call[c].job /\ call[c].job \in InFlight
      BY DEF gateVars
    <2>2. faults > 0 \/ task[call[c].job] # "none"
      BY <2>1 DEF Inv, SwapAttended
    <2>. QED
      BY <2>1, <2>2
  <1>. QED
    BY <1>1, <1>2 DEF GateOK

\* An executor's job has a row with a label.
LEMMA ExecutorLabelled ==
  ASSUME Inv, NEW j \in JobIds, exec[j] # "none"
  PROVE  /\ j \in InFlight
         /\ task[j] = "executing"
         /\ Job(j) \in Labels
         /\ Job(j).recipe \in RecipeIds
         /\ disk = ledger
  <1>1. task[j] = "executing" /\ JobsOK
    BY Halves DEF Inv, TasksMatch
  <1>2. InFlight = {j} /\ ledger[j] \in JobRow /\ disk = ledger
    BY <1>1, TaskAlone
  <1>. QED
    BY <1>1, <1>2 DEF Labels, Job, JobRow

LEMMA JobBeginsKeeps ==
  ASSUME Inv, NEW j \in JobIds, JobBegins(j)
  PROVE  Inv'
  <1>1. JobsOK' /\ InFlight' = InFlight /\ (task'[j] # "none" \/ faults' > 0)
    BY BeginKeeps, Halves
  <1>2. UNCHANGED gateVars /\ UNCHANGED << up, ready, paused >>
    BY DEF JobBegins, execFrame, clusterVars
  <1>3. InFlight = {j}
    <2>1. task[j] # "none"
      BY DEF JobBegins, Jobs!Begin, Jobs!BeginRaises
    <2>. QED
      BY <2>1, TaskAlone, Halves
  <1>4. GateOK'
    BY <1>1, <1>2, <1>3, GateFrame
  <1>5. NodesOK'
    BY <1>2 DEF Inv, TypeOK, NodesOK
  <1>. QED
    BY <1>1, <1>4, <1>5, HalvesPrimed

\* Whichever way a job ends.
LEMMA JobEndsKeeps ==
  ASSUME Inv, NEW j \in JobIds,
         \/ Jobs!EmitRaises(j)
         \/ \E outcome \in {"done", "failed"} : Jobs!End(j, outcome),
         exec' = [ exec EXCEPT ![j] = "none" ],
         strays' \subseteq Labels, UNCHANGED << gateVars, clusterVars >>
  PROVE  Inv'
  <1>1. JobsOK' /\ InFlight' \subseteq InFlight /\ (InFlight' = {} \/ faults' > 0)
    BY EndKeeps, Halves
  <1>2. GateOK'
    BY <1>1, GateFrame
  <1>3. NodesOK'
    BY DEF Inv, TypeOK, NodesOK, clusterVars
  <1>. QED
    BY <1>1, <1>2, <1>3, HalvesPrimed

\* An executor that only goes on to its next wait.
LEMMA ExecMovesKeeps ==
  ASSUME Inv, NEW j \in JobIds, exec[j] # "none",
         NEW wait \in {"script", "ok", "bad", "health"},
         exec' = [ exec EXCEPT ![j] = wait ],
         UNCHANGED << strays, gateVars, jobVars >>,
         up' \subseteq RecipeIds, ready' \subseteq up' /\ paused' \subseteq up'
  PROVE  Inv'
  <1>1. InFlight' = InFlight /\ UNCHANGED << task, faults >>
    BY DEF InFlight, Jobs!InFlight, jobVars
  <1>2. JobsOK'
    BY <1>1 DEF Inv, TypeOK, JobsOK, ExecTypeOK, TasksMatch, OneOperation, StoreSettled,
       Jobs!TypeOK, jobVars
  <1>3. GateOK'
    BY <1>1, GateFrame
  <1>. QED
    BY <1>2, <1>3, HalvesPrimed DEF NodesOK

LEMMA ExecutorStepKeeps ==
  ASSUME Inv, NEW j \in JobIds, ExecutorStep(j)
  PROVE  Inv'
  <1>1. strays \subseteq Labels /\ up \subseteq RecipeIds /\ ready \subseteq up /\ paused \subseteq up
    BY DEF Inv, TypeOK, ExecTypeOK
  <1>2. CASE JobBegins(j)
    BY <1>2, JobBeginsKeeps
  <1>3. CASE DialFails(j)
    BY <1>1, <1>3, JobEndsKeeps DEF DialFails, JobEnds, execFrame
  <1>9. CASE OutputLost(j)
    BY <1>1, <1>9, JobEndsKeeps DEF OutputLost, execFrame
  <1>4. CASE ScriptStarts(j)
    BY <1>1, <1>4, ExecMovesKeeps DEF ScriptStarts, execFrame, clusterVars
  <1>5. CASE ScriptReturns(j)
    <2>1. CASE \E outcome \in {"done", "failed"} : JobEnds(j, outcome)
      BY <1>1, <1>5, <2>1, JobEndsKeeps DEF ScriptReturns, JobEnds, execFrame
    <2>2. CASE /\ exec[j] = "ok"
               /\ exec' = [ exec EXCEPT ![j] = "health" ]
               /\ UNCHANGED jobVars
      BY <1>1, <1>5, <2>2, ExecMovesKeeps DEF ScriptReturns, execFrame, clusterVars
    <2>. QED
      BY <1>5, <2>1, <2>2 DEF ScriptReturns
  <1>6. CASE LinkLost(j)
    <2>1. Job(j) \in Labels
      BY <1>6, ExecutorLabelled DEF LinkLost
    <2>. QED
      BY <1>1, <1>6, <2>1, JobEndsKeeps DEF LinkLost, JobEnds
  <1>7. CASE HealthArrives(j)
    BY <1>1, <1>7, JobEndsKeeps DEF HealthArrives, JobEnds, execFrame
  <1>8. CASE HealthTimesOut(j)
    BY <1>1, <1>8, JobEndsKeeps DEF HealthTimesOut, JobEnds, execFrame
  <1>. QED
    BY <1>2, <1>3, <1>4, <1>5, <1>6, <1>7, <1>8, <1>9 DEF ExecutorStep

\* An executor's step is alone on the lane, and changes its own row only.
LEMMA ExecutorOwnsItsRow ==
  ASSUME Inv, NEW k \in JobIds, ExecutorStep(k)
  PROVE  \/ UNCHANGED jobVars
         \/ /\ InFlight = {k} /\ task[k] # "none" /\ ledger[k] # Jobs!NoRow
            /\ \A l \in JobIds \ {k} : ledger'[l] = ledger[l]
  <1>0. JobsOK /\ strays \subseteq Labels
    BY Halves DEF Inv, TypeOK, ExecTypeOK
  <1>1. CASE JobBegins(k)
    <2>1. task[k] # "none"
      BY <1>1 DEF JobBegins, Jobs!Begin, Jobs!BeginRaises
    <2>. QED
      BY <1>0, <1>1, <2>1, BeginKeeps, TaskAlone
  <1>2. CASE /\ \/ Jobs!EmitRaises(k)
                \/ \E outcome \in {"done", "failed"} : Jobs!End(k, outcome)
             /\ exec' = [ exec EXCEPT ![k] = "none" ]
             /\ strays' \subseteq strays \cup {Job(k)}
    <2>1. task[k] # "none"
      BY <1>2 DEF Jobs!EmitRaises, Jobs!End
    <2>2. InFlight = {k} /\ Job(k) \in Labels
      BY <1>0, <2>1, TaskAlone DEF Job, JobRow
    <2>. QED
      BY <1>0, <1>2, <2>1, <2>2, EndKeeps
  <1>. QED
    BY <1>1, <1>2
    DEF ExecutorStep, OutputLost, DialFails, ScriptStarts, ScriptReturns, LinkLost,
        HealthArrives, HealthTimesOut, JobEnds, execFrame

-----------------------------------------------------------------------------
(* The nodes and the process *)

\* Scripts bring up and take down recipes of the registry only.
LEMMA EffectTyped ==
  ASSUME NEW label \in Labels, NEW verdict, Effect(label, verdict),
         up \subseteq RecipeIds, ready \subseteq up /\ paused \subseteq up
  PROVE  up' \subseteq RecipeIds /\ ready' \subseteq up' /\ paused' \subseteq up'
  <1>1. label.recipe \in RecipeIds
    BY DEF Labels
  <1>. QED
    BY <1>1 DEF Effect, BringUp, TakeDown, clusterVars, Sharing, Marks

LEMMA AnyScriptExitsKeeps ==
  ASSUME Inv, AnyScriptExits
  PROVE  Inv'
  <1>1. up \subseteq RecipeIds /\ ready \subseteq up /\ paused \subseteq up /\ strays \subseteq Labels
    BY DEF Inv, TypeOK, ExecTypeOK
  <1>2. ASSUME NEW verdict \in {"ok", "bad"}, NEW j \in JobIds,
               ScriptExits(j, verdict)
        PROVE  Inv'
    <2>1. exec[j] # "none" /\ Job(j) \in Labels
      BY <1>2, ExecutorLabelled DEF ScriptExits
    <2>2. up' \subseteq RecipeIds /\ ready' \subseteq up' /\ paused' \subseteq up'
      BY <1>1, <1>2, <2>1, EffectTyped DEF ScriptExits
    <2>. QED
      BY <1>2, <2>1, <2>2, ExecMovesKeeps DEF ScriptExits
  <1>3. ASSUME NEW verdict \in {"ok", "bad"}, NEW label \in strays,
               StrayExits(label, verdict)
        PROVE  Inv'
    <2>1. up' \subseteq RecipeIds /\ ready' \subseteq up' /\ paused' \subseteq up'
      BY <1>1, <1>3, EffectTyped DEF StrayExits
    <2>2. /\ strays' \subseteq Labels /\ UNCHANGED gateVars
          /\ UNCHANGED << jobVars, exec, task, faults >>
      BY <1>1, <1>3 DEF StrayExits, jobVars
    <2>3. JobsOK' /\ InFlight' = InFlight
      BY <2>2, JobsFrame, Halves
    <2>4. GateOK'
      BY <2>2, <2>3, GateFrame
    <2>. QED
      BY <2>1, <2>3, <2>4, HalvesPrimed DEF NodesOK
  <1>. QED
    BY <1>2, <1>3 DEF AnyScriptExits

LEMMA ClusterMovesKeeps ==
  ASSUME Inv, ClusterMoves
  PROVE  Inv'
  <1>1. up' \subseteq RecipeIds /\ ready' \subseteq up' /\ paused' \subseteq up'
    BY DEF ClusterMoves, NodesMove, Loads, Dies, Falters, Recovers, Inv, TypeOK
  <1>2. /\ strays' \subseteq Labels /\ UNCHANGED gateVars
        /\ UNCHANGED << jobVars, exec, task, faults >>
    BY DEF ClusterMoves, Inv, TypeOK, ExecTypeOK, jobVars, execVars
  <1>3. JobsOK' /\ InFlight' = InFlight
    BY <1>2, JobsFrame, Halves
  <1>4. GateOK'
    BY <1>2, <1>3, GateFrame
  <1>. QED
    BY <1>1, <1>3, <1>4, HalvesPrimed DEF NodesOK

LEMMA RestartKeeps ==
  ASSUME Inv, Restart
  PROVE  Inv'
  <1>1. JobsOK'
    BY RestartRows, Halves
  <1>2. NodesOK'
    BY DEF Restart, Inv, TypeOK, NodesOK, clusterVars
  <1>4. \A c \in Clients : pc'[c] \notin InLock
    BY DEF Restart, InLock
  <1>5. GateTypeOK'
    <2>1. reply' \in [ Clients -> ReplyType ]
      <3>1. \A c \in Clients : reply[c] \in ReplyType
        BY DEF Inv, TypeOK, GateTypeOK
      <3>2. [ NoReply EXCEPT !.kind = "lost" ] \in ReplyType
        BY DEF NoReply, ReplyType, ReplyKinds
      <3>. QED
        BY <3>1, <3>2 DEF Restart
    <2>2. << >> \in Seq(Clients)
      OBVIOUS
    <2>. QED
      BY <2>1, <2>2, NoCallTyped DEF Restart, Inv, TypeOK, GateTypeOK
  <1>6. LockHeld' /\ LaneGuarded' /\ LocalsOK' /\ SwapAttended'
    BY <1>4, ServerControlAssumption
    DEF Restart, LockHeld, LaneGuarded, LocalsOK, SwapAttended, InLock
  <1>. QED
    BY <1>1, <1>2, <1>5, <1>6, HalvesPrimed DEF GateOK

-----------------------------------------------------------------------------
(* The theorems *)

LEMMA InitInv == Init => Inv
  <1>. SUFFICES ASSUME Init PROVE Inv
    OBVIOUS
  <1>1. /\ InFlight = {}
        /\ Jobs!TypeOK
        /\ task = [ j \in JobIds |-> "none" ]
        /\ disk = ledger /\ \A j \in JobIds : disk[j].state \notin Jobs!NonTerminal
    BY ServerControlAssumption
    DEF Init, Jobs!Init, Jobs!TypeOK, Jobs!Rows, Jobs!NoRow, Jobs!NonTerminal,
        InFlight, Jobs!InFlight, JobIds, Jobs!JobIds
  <1>2. GateTypeOK
    BY ServerControlAssumption, NoCallTyped
    DEF Init, GateTypeOK, ReplyType, ReplyKinds, NoReply
  <1>3. ExecTypeOK /\ up \subseteq RecipeIds /\ ready \subseteq up /\ paused \subseteq up
    BY DEF Init, ExecTypeOK, ClusterInit
  <1>4. LockHeld /\ LaneGuarded /\ LocalsOK
    BY ServerControlAssumption DEF Init, LockHeld, LaneGuarded, LocalsOK, InLock
  <1>5. TasksMatch /\ OneOperation /\ StoreSettled /\ SwapAttended
    BY <1>1 DEF Init, TasksMatch, OneOperation, StoreSettled, SwapAttended
  <1>. QED
    BY <1>1, <1>2, <1>3, <1>4, <1>5 DEF Inv, TypeOK

LEMMA NextInv == Inv /\ [Next]_vars => Inv'
  <1>. SUFFICES ASSUME Inv, [Next]_vars PROVE Inv'
    OBVIOUS
  <1>1. ASSUME NEW c \in Clients, ArriveAny(c) PROVE Inv'
    BY <1>1, ArriveAnyKeeps
  <1>2. ASSUME NEW c \in Clients, HandlerStep(c) PROVE Inv'
    BY <1>2, HandlerStepKeeps
  <1>3. ASSUME NEW j \in JobIds, ExecutorStep(j) PROVE Inv'
    BY <1>3, ExecutorStepKeeps
  <1>4. CASE AnyScriptExits
    BY <1>4, AnyScriptExitsKeeps
  <1>5. CASE ClusterMoves
    BY <1>5, ClusterMovesKeeps
  <1>6. CASE Restart
    BY <1>6, RestartKeeps
  <1>7. CASE UNCHANGED vars
    <2>1. /\ strays' \subseteq Labels /\ UNCHANGED gateVars
          /\ UNCHANGED << jobVars, exec, task, faults, up, ready, paused >>
      BY <1>7 DEF vars, Inv, TypeOK, ExecTypeOK, jobVars, execVars, clusterVars
    <2>2. JobsOK' /\ InFlight' = InFlight
      BY <2>1, JobsFrame, Halves
    <2>3. GateOK' /\ NodesOK'
      BY <2>1, <2>2, GateFrame DEF Inv, TypeOK, NodesOK
    <2>. QED
      BY <2>2, <2>3, HalvesPrimed
  <1>. QED
    BY <1>1, <1>2, <1>3, <1>4, <1>5, <1>6, <1>7 DEF Next

\* The inductive invariant holds in every reachable state.
THEOREM Invariance == Spec => []Inv
  BY InitInv, NextInv, PTL DEF Spec

\* Every state of the control plane has its shape: handlers are where the code
\* lets them wait, jobs carry the labels of registry recipes.
THEOREM TypeCorrect == Spec => []TypeOK
  BY Invariance, PTL DEF Inv

\* One operation at a time, for any number of clients, jobs and restarts, any
\* registry, with or without ssh faults and a durable ledger.
THEOREM OneOperationHolds == Spec => []OneOperation
  BY Invariance, PTL DEF Inv

-----------------------------------------------------------------------------
(* The swap window *)

\* Only a handler inside the lock creates jobs.
LEMMA OnlyLockHolderSubmits ==
  ASSUME Inv, [Next]_vars, NEW j \in JobIds, Submitted(j)
  PROVE  \E d \in Clients : HandlerStep(d) /\ pc[d] \in InLock
  <1>. Jobs!TypeOK /\ TasksMatch
    BY DEF Inv, TypeOK
  <1>0. ledger' # ledger
    BY DEF Submitted
  <1>1. ASSUME NEW c \in Clients, ArriveAny(c) PROVE FALSE
    BY <1>0, <1>1 DEF ArriveAny, Arrive, jobVars
  <1>2. ASSUME NEW c \in Clients, HandlerStep(c)
        PROVE  \E d \in Clients : HandlerStep(d) /\ pc[d] \in InLock
    <2>1. ~Resume(c)
      BY <1>0 DEF Resume, jobVars
    <2>2. pc[c] \in InLock
      BY <1>2, <2>1 DEF HandlerStep, ProbeFails, ProbeForStop, ProbeForStart,
         CheckHealth, Scan, StopHolder, SwapPoll, InLock
    <2>. QED
      BY <1>2, <2>2
  <1>3. ASSUME NEW k \in JobIds, ExecutorStep(k) PROVE FALSE
    BY <1>0, <1>3, ExecutorOwnsItsRow DEF Submitted, jobVars
  <1>4. CASE AnyScriptExits \/ ClusterMoves \/ UNCHANGED vars
    BY <1>0, <1>4 DEF AnyScriptExits, ScriptExits, StrayExits, ClusterMoves, vars, jobVars
  <1>5. CASE Restart
    <2>1. ledger[j] = Jobs!NoRow /\ disk[j] = Jobs!NoRow
      BY DEF Submitted, Inv, StoreSettled
    <2>2. PICK rows \in {ledger, disk, [ i \in JobIds |-> Jobs!NoRow ]} :
            ledger' = IF ReconcileOnBoot THEN Jobs!Reconciled(rows) ELSE rows
      BY <1>5, RestartRows, Halves
    <2>3. rows[j] = Jobs!NoRow
      BY <2>1
    <2>4. ledger'[j] = Jobs!NoRow
      BY <2>2, <2>3 DEF Jobs!Reconciled, Jobs!NoRow, Jobs!NonTerminal, JobIds
    <2>. QED
      BY <2>4 DEF Submitted
  <1>. QED
    BY <1>1, <1>2, <1>3, <1>4, <1>5 DEF Next

LEMMA SwapWindowStep ==
  ASSUME Inv, [Next]_vars, NEW c \in Clients, NEW j \in JobIds,
         pc[c] = "swap", Submitted(j)
  PROVE  /\ ledger[call[c].job].state = "done"
         /\ ledger'[j].action = [ op |-> "start", recipe |-> call[c].recipe ]
  <1>1. PICK d \in Clients : HandlerStep(d) /\ pc[d] \in InLock
    BY OnlyLockHolderSubmits
  <1>2. d = c
    BY <1>1 DEF Inv, LockHeld, InLock
  <1>3. SwapPoll(c)
    BY <1>1, <1>2 DEF HandlerStep, Resume, ProbeFails, ProbeForStop, ProbeForStart,
       CheckHealth, Scan, StopHolder
  <1>4. /\ ledger[call[c].job].state = "done"
        /\ SubmitAndLeave(c, "start", call[c].recipe)
    BY <1>3 DEF SwapPoll, Submitted, jobVars
  <1>5. call[c].recipe \in RecipeIds /\ Jobs!TypeOK
    BY DEF Inv, TypeOK, LocalsOK, InLock
  <1>6. PICK k \in JobIds, label \in Labels :
          /\ label = [ op |-> "start", recipe |-> call[c].recipe ]
          /\ Jobs!Submit(k, label) \/ Jobs!SubmitRaises(k, label)
    BY <1>4, <1>5 DEF SubmitAndLeave, SubmitFails, Labels, Ops
  <1>7. ledger[j] = Jobs!NoRow /\ disk[j] = Jobs!NoRow /\ ledger'[j] # Jobs!NoRow
    BY DEF Submitted, Inv, StoreSettled
  <1>8. /\ ledger'[k] = [ state |-> "pending", action |-> label ]
        /\ \A i \in JobIds \ {k} : ledger'[i] = ledger[i]
    BY <1>5, <1>6, <1>7, SubmitAdds, SubmitRaisesLeaves
  <1>9. j = k
    BY <1>7, <1>8
  <1>. QED
    BY <1>4, <1>6, <1>8, <1>9

\* Between a swap's stop and its start no other job is created, for any number
\* of clients and whatever fails or restarts meanwhile.
THEOREM SwapWindowHolds == Spec => SwapWindowClosed
  <1>1. Inv /\ [Next]_vars =>
          [ \A c \in Clients, j \in JobIds :
              pc[c] = "swap" /\ Submitted(j)
                => /\ ledger[call[c].job].state = "done"
                   /\ ledger'[j].action = [ op |-> "start", recipe |-> call[c].recipe ] ]_vars
    BY SwapWindowStep
  <1>. QED
    BY <1>1, Invariance, PTL DEF Spec, SwapWindowClosed

-----------------------------------------------------------------------------
(* One script at a time *)

\* A handler leaves the jobs alone unless nothing is in flight.
LEMMA HandlersWaitTheirTurn ==
  ASSUME Inv, NEW c \in Clients, ArriveAny(c) \/ HandlerStep(c)
  PROVE  UNCHANGED strays /\ (UNCHANGED jobVars \/ InFlight = {})
  <1>1. CASE ArriveAny(c) \/ Resume(c)
    BY <1>1 DEF ArriveAny, Arrive, Resume, execVars
  <1>2. CASE pc[c] \in InLock \ {"swap"} /\ HandlerStep(c)
    <2>1. InFlight = {}
      BY <1>2 DEF Inv, LaneGuarded
    <2>2. UNCHANGED strays
      BY <1>2 DEF HandlerStep, Resume, ProbeFails, ProbeForStop, ProbeForStart,
         CheckHealth, Scan, StopHolder, SwapPoll, handlerFrame, execVars
    <2>. QED
      BY <2>1, <2>2
  <1>3. CASE SwapPoll(c)
    <2>1. UNCHANGED strays
      BY <1>3 DEF SwapPoll, handlerFrame, execVars
    <2>2. CASE ledger[call[c].job].state = "done"
      BY <1>3, <2>1, <2>2, SwapOver DEF SwapPoll, Jobs!TerminalStates
    <2>3. CASE UNCHANGED jobVars
      BY <2>1, <2>3
    <2>. QED
      BY <1>3, <2>2, <2>3 DEF SwapPoll
  <1>. QED
    BY <1>1, <1>2, <1>3
    DEF HandlerStep, ProbeFails, ProbeForStop, ProbeForStart, CheckHealth, Scan,
        StopHolder, InLock

LEMMA StraysStep ==
  ASSUME ~LinkFaults, Durable, ~ReconcileOnBoot, Inv, StraysInv, [Next]_vars
  PROVE  StraysInv'
  <1>1. CASE UNCHANGED << strays, jobVars >>
    BY <1>1 DEF StraysInv, StraysBlock, InFlight, Jobs!InFlight, jobVars
  <1>2. ASSUME NEW c \in Clients, ArriveAny(c) \/ HandlerStep(c) PROVE StraysInv'
    <2>1. CASE InFlight = {}
      BY <1>2, <2>1, HandlersWaitTheirTurn DEF StraysInv, StraysBlock
    <2>. QED
      BY <1>1, <1>2, <2>1, HandlersWaitTheirTurn
  <1>3. ASSUME NEW j \in JobIds, ExecutorStep(j) PROVE StraysInv'
    <2>1. UNCHANGED strays
      BY <1>3 DEF ExecutorStep, JobBegins, OutputLost, DialFails, ScriptStarts,
         ScriptReturns, LinkLost, HealthArrives, HealthTimesOut, execFrame
    <2>2. CASE InFlight = {j} /\ task[j] # "none"
      BY <2>1, <2>2 DEF StraysInv, StraysBlock
    <2>. QED
      BY <1>1, <1>3, <2>1, <2>2, ExecutorOwnsItsRow
  <1>4. CASE AnyScriptExits
    <2>1. CASE UNCHANGED strays
      BY <1>1, <1>4, <2>1 DEF AnyScriptExits, ScriptExits, StrayExits
    <2>2. CASE \E label \in strays : strays' = strays \ {label}
      BY <2>2 DEF StraysInv, StraysBlock
    <2>. QED
      BY <1>4, <2>1, <2>2 DEF AnyScriptExits, ScriptExits, StrayExits
  <1>5. CASE ClusterMoves \/ UNCHANGED vars
    BY <1>1, <1>5 DEF ClusterMoves, vars, execVars
  <1>6. CASE Restart
    <2>. DEFINE running == { k \in JobIds : exec[k] = "script" }
    <2>1. /\ ledger' \in {ledger, disk} /\ disk' = ledger'
          /\ task' = [ j \in JobIds |-> "none" ]
      BY <1>6, RestartRows, Halves
    <2>2. strays' = strays \cup { Job(j) : j \in running }
      BY <1>6 DEF Restart
    <2>3. running \subseteq { k \in InFlight : task[k] = "executing" /\ disk = ledger }
      BY ExecutorLabelled
    <2>4. \A j, k \in running : j = k
      BY <2>3 DEF Inv, OneOperation
    <2>5. strays = {} \/ running = {}
      BY <2>3 DEF StraysInv, StraysBlock, Inv, OneOperation
    <2>6. \A a, b \in strays' : a = b
      BY <2>2, <2>4, <2>5 DEF StraysInv
    <2>7. StraysBlock'
      <3>1. strays' # {} => \E k \in InFlight : disk[k] = ledger[k]
        BY <2>2, <2>3 DEF StraysInv, StraysBlock
      <3>2. \A k \in InFlight : disk[k] = ledger[k] =>
              /\ k \in InFlight' /\ task'[k] = "none" /\ disk'[k] = ledger'[k]
        BY <2>1 DEF InFlight, Jobs!InFlight, JobIds
      <3>. QED
        BY <3>1, <3>2 DEF StraysBlock
    <2>. QED
      BY <2>6, <2>7 DEF StraysInv
  <1>. QED
    BY <1>2, <1>3, <1>4, <1>5, <1>6 DEF Next

\* At most one script runs anywhere, attended or stray, across any number of
\* restarts, where ssh does not give up on a running script and the ledger is
\* a file that no boot reconciles (as the entrypoint has it).
THEOREM AtMostOneScriptHolds ==
  ASSUME ~LinkFaults, Durable, ~ReconcileOnBoot
  PROVE  Spec => []AtMostOneScript
  <1>1. Init => StraysInv
    BY DEF Init, StraysInv, StraysBlock
  <1>2. Inv /\ StraysInv /\ [Next]_vars => StraysInv'
    BY StraysStep
  <1>3. Inv /\ StraysInv => AtMostOneScript
    <2>. SUFFICES ASSUME Inv, StraysInv PROVE AtMostOneScript
      OBVIOUS
    <2>1. \A j \in Attended : j \in InFlight /\ task[j] = "executing"
      BY ExecutorLabelled DEF Attended
    <2>. QED
      BY <2>1 DEF AtMostOneScript, StraysInv, StraysBlock, Inv, OneOperation
  <1>. QED
    BY <1>1, <1>2, <1>3, Invariance, PTL DEF Spec

\* What a crash leaves behind blocks the lane, under the same assumptions.
THEOREM StraysHold ==
  ASSUME ~LinkFaults, Durable, ~ReconcileOnBoot
  PROVE  Spec => []StraysInv
  <1>1. Init => StraysInv
    BY DEF Init, StraysInv, StraysBlock
  <1>2. Inv /\ StraysInv /\ [Next]_vars => StraysInv'
    BY StraysStep
  <1>. QED
    BY <1>1, <1>2, Invariance, PTL DEF Spec

-----------------------------------------------------------------------------
(* The answers *)

\* A handler leaves the lock by its own step or with the process.
LEMMA HandlerLeaves ==
  ASSUME Inv, [Next]_vars, NEW c \in Clients,
         pc[c] \in InLock, pc'[c] = "idle", reply'[c].kind # "lost"
  PROVE  HandlerStep(c) /\ ~Resume(c) /\ InFlight \subseteq JobIds
  <1>1. ASSUME NEW d \in Clients, ArriveAny(d) PROVE FALSE
    <2>1. PICK request : Arrive(d, request)
      BY <1>1 DEF ArriveAny
    <2>2. pc[d] = "idle" /\ d # c
      BY <2>1 DEF Arrive, InLock
    <2>3. \E place : pc' = [ pc EXCEPT ![d] = place ]
      BY <2>1 DEF Arrive, Enter, Answer
    <2>. QED
      BY <2>2, <2>3 DEF Inv, TypeOK, GateTypeOK, InLock
  <1>2. ASSUME NEW d \in Clients, HandlerStep(d) PROVE HandlerStep(c)
    <2>1. CASE Resume(d)
      <3>1. pc[d] = "queued" /\ d # c
        BY <2>1 DEF Resume, InLock
      <3>2. \E place : pc' = [ pc EXCEPT ![d] = place ]
        BY <2>1 DEF Resume, Enter, Answer
      <3>. QED
        BY <3>1, <3>2 DEF Inv, TypeOK, GateTypeOK, InLock
    <2>2. CASE ~Resume(d)
      <3>1. pc[d] \in InLock
        BY <1>2, <2>2 DEF HandlerStep, ProbeFails, ProbeForStop, ProbeForStart,
           CheckHealth, Scan, StopHolder, SwapPoll, InLock
      <3>. QED
        BY <1>2, <3>1 DEF Inv, LockHeld
    <2>. QED
      BY <2>1, <2>2
  <1>3. ASSUME NEW j \in JobIds, ExecutorStep(j) PROVE FALSE
    <2>1. UNCHANGED gateVars
      BY <1>3 DEF ExecutorStep, JobBegins, OutputLost, DialFails, ScriptStarts,
         ScriptReturns, LinkLost, HealthArrives, HealthTimesOut, execFrame
    <2>. QED
      BY <2>1 DEF gateVars, InLock
  <1>4. CASE AnyScriptExits \/ ClusterMoves \/ UNCHANGED vars
    BY <1>4 DEF AnyScriptExits, ScriptExits, StrayExits, ClusterMoves, vars, gateVars,
       InLock
  <1>5. CASE Restart
    BY <1>5 DEF Restart, InLock, NoReply
  <1>6. HandlerStep(c)
    BY <1>1, <1>2, <1>3, <1>4, <1>5 DEF Next
  <1>7. InFlight \subseteq JobIds
    BY DEF InFlight, Jobs!InFlight, JobIds
  <1>. QED
    BY <1>6, <1>7 DEF Resume, InLock

\* What an answer says of the lane.
Fits(c) ==
  LET status == HttpStatus(reply'[c].kind) IN
  IF status = 202
    THEN \E j \in JobIds :
           /\ InFlight' = {j} /\ task'[j] = "scheduled"
           /\ ledger'[j].action = [ op |-> call[c].op, recipe |-> call[c].recipe ]
    ELSE /\ \A j \in JobIds : task'[j] = "none"
         /\ InFlight' # {} => status = 500 /\ faults' > 0

LEMMA Statuses ==
  /\ HttpStatus("accepted") = 202 /\ HttpStatus("internal-error") = 500
  /\ HttpStatus("stop-failed") = 500
  /\ \A kind \in { "already-up", "already-stopped", "needs-confirm", "unreachable",
                   "internal-error", "stop-failed" } : HttpStatus(kind) # 202
  BY DEF HttpStatus

LEMMA Answered ==
  ASSUME Inv, NEW c \in Clients, NEW kind, NEW holder, Leave(c, kind, holder)
  PROVE  reply'[c].kind = kind
  BY DEF Leave, Answer, Inv, TypeOK, GateTypeOK

\* A submit, and one that raises, on a free lane.
LEMMA SubmitFailsFits ==
  ASSUME Inv, NEW c \in Clients, InFlight = {}, NEW label \in Labels,
         SubmitFails(c, label)
  PROVE  Fits(c)
  <1>1. PICK j \in JobIds : Jobs!SubmitRaises(j, label)
    BY DEF SubmitFails
  <1>2. reply'[c].kind = "internal-error"
    BY Answered DEF SubmitFails
  <1>3. UNCHANGED task /\ faults' > 0
    BY <1>1, SubmitRaisesLeaves DEF Inv, TypeOK
  <1>4. \A k \in JobIds : task[k] = "none"
    BY FreeIsIdle, Halves
  <1>. QED
    BY <1>2, <1>3, <1>4, Statuses DEF Fits

LEMMA SubmitFits ==
  ASSUME Inv, NEW c \in Clients, pc[c] \in InLock, InFlight = {}, call[c].op \in Ops,
         SubmitAndLeave(c, call[c].op, call[c].recipe)
  PROVE  Fits(c)
  <1>. DEFINE label == [ op |-> call[c].op, recipe |-> call[c].recipe ]
  <1>1. label \in Labels
    BY DEF Inv, LocalsOK, Labels
  <1>2. CASE SubmitFails(c, label)
    BY <1>1, <1>2, SubmitFailsFits
  <1>3. ASSUME NEW j \in JobIds, Jobs!Submit(j, label), Leave(c, "accepted", NoRecipe)
        PROVE  Fits(c)
    <2>1. reply'[c].kind = "accepted"
      BY <1>3, Answered
    <2>2. /\ InFlight' = InFlight \cup {j}
          /\ ledger'[j] = [ state |-> "pending", action |-> label ]
          /\ task' = [ task EXCEPT ![j] = "scheduled" ]
      BY <1>1, <1>3, SubmitAdds DEF Inv, TypeOK
    <2>3. task'[j] = "scheduled"
      BY <2>2 DEF Inv, TypeOK, Jobs!TypeOK, JobIds
    <2>. QED
      BY <2>1, <2>2, <2>3, Statuses DEF Fits
  <1>. QED
    BY <1>2, <1>3 DEF SubmitAndLeave

LEMMA StartFits ==
  ASSUME Inv, NEW c \in Clients, pc[c] \in InLock \ {"probe"}, InFlight = {},
         SubmitAndLeave(c, "start", call[c].recipe)
  PROVE  Fits(c)
  <1>1. call[c].op = "start"
    BY DEF Inv, LocalsOK
  <1>. QED
    BY <1>1, SubmitFits DEF Ops

\* An answer from a free lane that leaves the jobs alone.
LEMMA LeaveFits ==
  ASSUME Inv, NEW c \in Clients, InFlight = {}, UNCHANGED jobVars,
         NEW kind \in { "already-up", "already-stopped", "needs-confirm", "unreachable",
                        "internal-error", "stop-failed" },
         NEW holder, Leave(c, kind, holder)
  PROVE  Fits(c)
  <1>1. HttpStatus(reply'[c].kind) # 202
    BY Answered, Statuses
  <1>2. \A k \in JobIds : task'[k] = "none"
    BY FreeIsIdle, Halves DEF jobVars
  <1>3. InFlight' = {}
    BY DEF InFlight, Jobs!InFlight, jobVars
  <1>. QED
    BY <1>1, <1>2, <1>3 DEF Fits

LEMMA SwapPollFits ==
  ASSUME Inv, NEW c \in Clients, SwapPoll(c)
  PROVE  Fits(c)
  <1>. DEFINE job == call[c].job
  <1>1. /\ pc[c] = "swap" /\ pc[c] \in InLock \ {"probe"}
        /\ InFlight \subseteq {job} /\ job \in JobIds
    BY DEF SwapPoll, InLock, Inv, LaneGuarded, LocalsOK
  <1>2. CASE ledger[job].state = "done" /\ SubmitAndLeave(c, "start", call[c].recipe)
    <2>1. InFlight = {}
      BY <1>1, <1>2, SwapOver DEF Jobs!TerminalStates
    <2>. QED
      BY <1>1, <1>2, <2>1, StartFits
  <1>3. CASE Leave(c, "stop-failed", NoRecipe) /\ UNCHANGED jobVars
    <2>1. CASE InFlight = {}
      BY <1>3, <2>1, LeaveFits
    <2>2. CASE InFlight # {}
      <3>1. InFlight = {job} /\ job \in InFlight
        BY <1>1, <2>2
      <3>2. ledger[job].state \notin Jobs!TerminalStates
        BY <3>1, FlightRows DEF Jobs!NonTerminal, Jobs!TerminalStates
      <3>3. task[job] = "none"
        BY <3>2 DEF SwapPoll, Jobs!TerminalStates
      <3>4. \A k \in JobIds : task[k] = "none"
        BY <3>1, <3>3, TaskAlone, Halves
      <3>5. faults > 0
        BY <1>1, <3>1, <3>3 DEF Inv, SwapAttended
      <3>6. HttpStatus(reply'[c].kind) = 500
        BY <1>3, Answered, Statuses
      <3>. QED
        BY <1>3, <3>4, <3>5, <3>6 DEF Fits, jobVars
    <2>. QED
      BY <2>1, <2>2
  <1>. QED
    BY <1>2, <1>3 DEF SwapPoll

LEMMA AnswerStep ==
  ASSUME Inv, [Next]_vars, NEW c \in Clients,
         pc[c] \in InLock, pc'[c] = "idle", reply'[c].kind # "lost"
  PROVE  Fits(c)
  <1>1. HandlerStep(c) /\ ~Resume(c)
    BY HandlerLeaves
  <1>2. pc[c] # "swap" => InFlight = {}
    BY DEF Inv, LaneGuarded
  <1>3. ASSUME NEW place \in InLock, NEW locals, GoOn(c, place, locals) PROVE FALSE
    BY <1>3 DEF GoOn, Inv, TypeOK, GateTypeOK, InLock
  <1>4. CASE ProbeFails(c)
    BY <1>2, <1>4, LeaveFits DEF ProbeFails
  <1>5. CASE ProbeForStop(c)
    BY <1>2, <1>5, LeaveFits, SubmitFits DEF ProbeForStop, Ops
  <1>6. CASE ProbeForStart(c)
    BY <1>3, <1>6 DEF ProbeForStart, InLock
  <1>7. CASE CheckHealth(c)
    BY <1>2, <1>3, <1>7, LeaveFits DEF CheckHealth, InLock
  <1>8. CASE Scan(c)
    <2>1. pc[c] \in InLock \ {"probe"} /\ InFlight = {}
      BY <1>2, <1>8 DEF Scan, InLock
    <2>2. PICK holder : Decide(c, holder)
      BY <1>3, <1>8 DEF Scan, InLock
    <2>3. \/ SubmitAndLeave(c, "start", call[c].recipe)
          \/ Leave(c, "needs-confirm", holder) /\ UNCHANGED jobVars
      BY <1>3, <2>2 DEF Decide, InLock
    <2>. QED
      BY <2>1, <2>3, LeaveFits, StartFits
  <1>9. CASE StopHolder(c)
    <2>1. pc[c] \in InLock \ {"probe"} /\ InFlight = {} /\ call[c].holder \in RecipeIds
      BY <1>2, <1>9 DEF StopHolder, InLock, Inv, LocalsOK
    <2>2. [ op |-> "stop", recipe |-> call[c].holder ] \in Labels
      BY <2>1 DEF Labels, Ops
    <2>3. \/ SubmitAndLeave(c, "start", call[c].recipe)
          \/ SubmitFails(c, [ op |-> "stop", recipe |-> call[c].holder ])
      BY <1>3, <1>9 DEF StopHolder, InLock
    <2>. QED
      BY <2>1, <2>2, <2>3, StartFits, SubmitFailsFits
  <1>. QED
    BY <1>1, <1>4, <1>5, <1>6, <1>7, <1>8, <1>9, SwapPollFits DEF HandlerStep

\* A request answered 202 leaves in flight exactly the job it asked for, with
\* its task; any other answer from inside the lock leaves no task at work, and
\* a row in flight only with a 500 after a write of the store failed.
THEOREM AnswersFit == Spec => AnswerFitsLane
  <1>1. Inv /\ [Next]_vars =>
          [ \A c \in Clients :
              pc[c] \in InLock /\ pc'[c] = "idle" /\ reply'[c].kind # "lost"
                => LET status == HttpStatus(reply'[c].kind) IN
                   IF status = 202
                     THEN \E j \in JobIds :
                            /\ InFlight' = {j} /\ task'[j] = "scheduled"
                            /\ ledger'[j].action =
                                 [ op |-> call[c].op, recipe |-> call[c].recipe ]
                     ELSE /\ \A j \in JobIds : task'[j] = "none"
                          /\ InFlight' # {} => status = 500 /\ faults' > 0 ]_vars
    BY AnswerStep DEF Fits
  <1>. QED
    BY <1>1, Invariance, PTL DEF Spec, AnswerFitsLane

\* A deployment is listed under its own recipe.
LEMMA UpIsPresent ==
  ASSUME Inv, NEW id \in up
  PROVE  id \in Listed(id) /\ Present(id)
  <1>1. DetectionKeys(id) \cap Marks(id) # {}
    BY DEF DetectionKeys, Marks, Named, Labelled
  <1>2. id \in Listed(id)
    BY <1>1 DEF Listed
  <1>. QED
    BY <1>2 DEF Present, ContainerState

\* "Already stopped" is true, for every registry: its marks shared or not, its
\* containers running, paused or restarting.
THEOREM AlreadyStoppedIsTrue == Spec => AlreadyStoppedTruthful
  <1>1. ASSUME Inv, [Next]_vars, NEW c \in Clients,
               pc[c] = "probe", pc'[c] = "idle", reply'[c].kind = "already-stopped"
        PROVE  call[c].recipe \notin up
    <2>1. HandlerStep(c) /\ ~Resume(c)
      BY <1>1, HandlerLeaves DEF InLock
    <2>2. ASSUME NEW kind, NEW holder, Leave(c, kind, holder)
          PROVE  reply'[c].kind = kind
      BY <1>1, <2>2 DEF Leave, Answer, Inv, TypeOK, GateTypeOK
    <2>3. ~ProbeFails(c)
      <3>. SUFFICES ASSUME ProbeFails(c) PROVE FALSE
        OBVIOUS
      <3>1. PICK kind \in {"unreachable", "internal-error"} : Leave(c, kind, NoRecipe)
        BY DEF ProbeFails
      <3>. QED
        BY <1>1, <2>2, <3>1
    <2>4. ~ProbeForStart(c)
      BY <1>1 DEF ProbeForStart, GoOn, Inv, TypeOK, GateTypeOK
    <2>5. ProbeForStop(c)
      BY <1>1, <2>1, <2>3, <2>4 DEF HandlerStep, CheckHealth, Scan, StopHolder, SwapPoll
    <2>6. ~SubmitAndLeave(c, "stop", call[c].recipe)
      BY <1>1, <2>2 DEF SubmitAndLeave, SubmitFails
    <2>7. ~Present(call[c].recipe)
      BY <2>5, <2>6 DEF ProbeForStop
    <2>. QED
      BY <1>1, <2>7, UpIsPresent
  <1>2. Inv /\ [Next]_vars =>
          [ \A c \in Clients :
              pc[c] = "probe" /\ pc'[c] = "idle" /\ reply'[c].kind = "already-stopped"
                => call[c].recipe \notin up ]_vars
    BY <1>1
  <1>. QED
    BY <1>2, Invariance, PTL DEF Spec, AlreadyStoppedTruthful

=============================================================================
