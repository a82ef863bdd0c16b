----------------------------- MODULE JobRunner -----------------------------
(***************************************************************************)
(* The asynchronous job runner and its SQLite ledger (jobs.py), as the     *)
(* rest of the gateway sees them: JobLedger without the lines of output,   *)
(* the results and the records of the tasks.                               *)
(*                                                                         *)
(* ledger is the table as the process reads it, its uncommitted writes     *)
(* included; disk is what is committed and outlives the process.  task is  *)
(* what the process remembers of each job: nothing, a task created but not *)
(* yet run, or a task inside executor.execute.  The event loop runs one    *)
(* handler at a time between awaits, and no method here awaits between     *)
(* reading and writing the ledger, so each is one step.  Job numbers are   *)
(* creation order (the ids are random, created_at orders them).            *)
(*                                                                         *)
(* A restart is the loss of every task: a crash, or a shutdown that        *)
(* cancels them.  CancelledError passes both handlers of _run, so the      *)
(* upsert of its finally clause writes the row as it was.                  *)
(***************************************************************************)
EXTENDS Integers

CONSTANTS
  Actions,          \* the action labels jobs are created with
  MaxJobs,          \* bound: number of jobs ever submitted
  MaxFaults,        \* bound: failing writes of one process
  MaxRestarts,      \* bound: number of gateway restarts
  Durable,          \* the ledger is a file (SPARKCTL_JOB_STORE), not ""
  ReconcileOnBoot   \* the entrypoint calls reconcile() before serving

VARIABLES
  ledger,     \* job -> its row as the process reads it: state and action
  disk,       \* job -> its committed row
  faults,     \* failed writes of this process
  task,       \* job -> what the running process holds for it
  restarts    \* number of restarts so far

storeVars == << ledger, disk, faults >>
jobVars == << storeVars, task, restarts >>

JobIds == 1..MaxJobs
NonTerminal == {"pending", "running"}
TerminalStates == {"done", "failed", "unknown"}
NoRow == [ state |-> "absent" ]
Rows == {NoRow} \cup [ state : NonTerminal \cup TerminalStates, action : Actions ]

\* JobStore.non_terminal(): the rows a request sees as in flight.
InFlight == { j \in JobIds : ledger[j].state \in NonTerminal }

Init ==
  /\ ledger = [ j \in JobIds |-> NoRow ] /\ disk = ledger /\ faults = 0
  /\ task = [ j \in JobIds |-> "none" ]
  /\ restarts = 0

-----------------------------------------------------------------------------
(* The store: a write succeeds and commits all there is to commit, or it   *)
(* raises (see JobLedger's Upserts).                                       *)

Saves(rows) == ledger' = rows /\ disk' = rows /\ UNCHANGED faults

\* What the process reads once the write that was to leave these rows raised:
\* the statement failed, the commit failed and the transaction is open, or it
\* was rolled back.
Leftovers(rows) == { ledger, rows, disk }

Loses(rows) ==
  /\ faults < MaxFaults /\ faults' = faults + 1
  /\ ledger' \in Leftovers(rows)
  /\ UNCHANGED disk

With(j, row) == [ ledger EXCEPT ![j] = row ]
Marked(j, state) == [ ledger EXCEPT ![j].state = state ]

-----------------------------------------------------------------------------
(* The runner *)

NewRow(action) == [ state |-> "pending", action |-> action ]
Fresh(j) == ledger[j] = NoRow /\ \A k \in JobIds : k < j => ledger[k] # NoRow

\* JobRunner.submit: persist the row, then create the task.
Submit(j, action) ==
  /\ Fresh(j)
  /\ Saves(With(j, NewRow(action)))
  /\ task' = [ task EXCEPT ![j] = "scheduled" ]
  /\ UNCHANGED restarts

\* ... or the write raises out of submit, and no task is created.
SubmitRaises(j, action) ==
  /\ Fresh(j)
  /\ Loses(With(j, NewRow(action)))
  /\ UNCHANGED << task, restarts >>

\* The first step of _run: RUNNING is persisted before the executor starts.
Begin(j) ==
  /\ task[j] = "scheduled"
  /\ Saves(Marked(j, "running"))
  /\ task' = [ task EXCEPT ![j] = "executing" ]
  /\ UNCHANGED restarts

\* ... or the write raises, outside the try, and the task is over.
BeginRaises(j) ==
  /\ task[j] = "scheduled"
  /\ Loses(Marked(j, "running"))
  /\ task' = [ task EXCEPT ![j] = "none" ]
  /\ UNCHANGED restarts

\* The executor ends: exit code 0 is done; another code, the job timeout and
\* any exception are failed.  The finally clause persists the row, if it can.
End(j, outcome) ==
  /\ task[j] = "executing"
  /\ outcome \in {"done", "failed"}
  /\ Saves(Marked(j, outcome)) \/ Loses(Marked(j, outcome))
  /\ task' = [ task EXCEPT ![j] = "none" ]
  /\ UNCHANGED restarts

\* emit persists a line of output; with it goes all that was not committed.
Emit(j) ==
  /\ task[j] = "executing"
  /\ Saves(ledger)
  /\ UNCHANGED << task, restarts >>

\* ... or its write raises in the executor: the job is failed, and the finally
\* clause writes on what that left (a second write, which may raise too).
EmitRaises(j) ==
  /\ task[j] = "executing"
  /\ \E left \in {ledger, disk} :
       LET failed == [ left EXCEPT ![j].state = "failed" ] IN
       \/ /\ faults < MaxFaults /\ faults' = faults + 1
          /\ ledger' = failed /\ disk' = failed
       \/ /\ faults + 1 < MaxFaults /\ faults' = faults + 2
          /\ ledger' \in {left, failed, disk}
          /\ UNCHANGED disk
  /\ task' = [ task EXCEPT ![j] = "none" ]
  /\ UNCHANGED restarts

\* JobRunner.reconcile applied to a ledger: orphaned rows become UNKNOWN.
Reconciled(rows) ==
  [ j \in JobIds |->
      IF rows[j].state \in NonTerminal
        THEN [ rows[j] EXCEPT !.state = "unknown" ]
        ELSE rows[j] ]

\* The rows the next process finds in the store it opens: what was committed,
\* or all there was when a cancelled task committed it on its way out.
RowsOnBoot ==
  IF ~Durable
    THEN { [ j \in JobIds |-> NoRow ] }
    ELSE { disk } \cup { ledger : j \in { k \in JobIds : task[k] = "executing" } }

Restart ==
  /\ restarts < MaxRestarts
  /\ restarts' = restarts + 1
  /\ task' = [ j \in JobIds |-> "none" ]
  /\ \E rows \in RowsOnBoot :
       ledger' = IF ReconcileOnBoot THEN Reconciled(rows) ELSE rows
  /\ disk' = ledger' /\ faults' = 0

SubmitAny == \E j \in JobIds, action \in Actions : Submit(j, action) \/ SubmitRaises(j, action)
BeginAny(j) == Begin(j) \/ BeginRaises(j)
EndAny(j) == EmitRaises(j) \/ \E outcome \in {"done", "failed"} : End(j, outcome)

Next ==
  \/ SubmitAny
  \/ \E j \in JobIds : BeginAny(j) \/ Emit(j) \/ EndAny(j)
  \/ Restart

Spec == Init /\ [][Next]_jobVars

-----------------------------------------------------------------------------
\* The shape of the store and of the task table.
TypeOK ==
  /\ ledger \in [ JobIds -> Rows ] /\ disk \in [ JobIds -> Rows ]
  /\ faults \in 0..MaxFaults
  /\ task \in [ JobIds -> {"none", "scheduled", "executing"} ]
  /\ restarts \in 0..MaxRestarts

\* Every job that was accepted reaches a terminal state, a restart included,
\* unless a write fails.
JobsEnd ==
  \A j \in JobIds :
    ledger[j].state \in NonTerminal
      ~> ledger[j].state \in TerminalStates \/ faults > 0

=============================================================================
