----------------------------- MODULE JobLedger -----------------------------
(***************************************************************************)
(* jobs.py in full: the runner's tasks, the records they work on and the   *)
(* SQLite store, any of whose writes may fail.  JobRunner is what the rest *)
(* of the gateway sees of it.                                              *)
(*                                                                         *)
(* The store has one connection, which reads its own uncommitted writes:   *)
(* rows is what it reads, disk what is committed.  A write that fails      *)
(* raises where upsert was called.  A task's record is a Python object of  *)
(* its own; only upsert brings it to the store.  Between two awaits a task *)
(* is alone, so each action is one stretch of _run or submit.              *)
(***************************************************************************)
EXTENDS Integers, Sequences, FiniteSets

CONSTANTS
  Actions,          \* the labels jobs are submitted with
  TailLimit,        \* the lines of output a record keeps
  MaxJobs,          \* bound: jobs ever submitted
  MaxLines,         \* bound: lines of output of a job
  MaxFaults,        \* bound: failing writes of one process
  MaxRestarts,      \* bound: restarts
  Durable,          \* the store is a file (SPARKCTL_JOB_STORE), not ""
  ReconcileOnBoot   \* reconcile() is called before serving

ASSUME JobLedgerAssumption ==
  /\ TailLimit \in Nat \ {0} /\ MaxJobs \in Nat /\ MaxLines \in Nat
  /\ MaxFaults \in Nat /\ MaxRestarts \in Nat
  /\ Durable \in BOOLEAN /\ ReconcileOnBoot \in BOOLEAN

VARIABLES
  rows,       \* job -> its row, as the process reads it
  disk,       \* job -> its committed row
  task,       \* job -> none, scheduled, or inside executor.execute
  record,     \* job -> the record its task works on
  faults,     \* failed writes of this process
  restarts,   \* restarts so far
  said        \* ghost: job -> the lines its executor has put out

storeVars == << rows, disk, faults >>
vars == << storeVars, task, record, restarts, said >>

JobIds == 1..MaxJobs
NonTerminal == {"pending", "running"}
TerminalStates == {"done", "failed", "unknown"}
Results == {"ok", "exit", "timeout", "error"}

NoRow == [ state |-> "absent" ]
NewRow(action) ==
  [ state |-> "pending", action |-> action, result |-> "none", tail |-> << >> ]

Init ==
  /\ rows = [ j \in JobIds |-> NoRow ] /\ disk = rows /\ faults = 0
  /\ task = [ j \in JobIds |-> "none" ]
  /\ record = [ j \in JobIds |-> NoRow ]
  /\ restarts = 0
  /\ said = [ j \in JobIds |-> 0 ]

-----------------------------------------------------------------------------
(* The store *)

Store == [ rows |-> rows, disk |-> disk, faults |-> faults, ok |-> TRUE ]

StoreBecomes(store) ==
  /\ rows' = store.rows /\ disk' = store.disk /\ faults' = store.faults

\* SqliteJobStore.upsert on a store: the row is written and all is committed;
\* or it raises.  Then the statement failed and nothing was written, or the
\* commit failed, and the transaction is still open (the file was busy) or
\* SQLite rolled it back (disk full, I/O error).
Upserts(store, j, row) ==
  LET written == [ store.rows EXCEPT ![j] = row ]
  IN  { [ rows |-> written, disk |-> written, faults |-> store.faults, ok |-> TRUE ] }
      \cup
      { [ rows |-> left, disk |-> store.disk, faults |-> store.faults + 1, ok |-> FALSE ] :
          left \in IF store.faults < MaxFaults
                     THEN { store.rows, written, store.disk }
                     ELSE {} }

-----------------------------------------------------------------------------
(* JobRunner *)

\* Faulty Submit: the task is created first.
SubmitAnyway(j, action) ==
  /\ rows[j] = NoRow /\ \A k \in 1..(j - 1) : rows[k] # NoRow
  /\ \E store \in Upserts(Store, j, NewRow(action)) : StoreBecomes(store)
  /\ task' = [ task EXCEPT ![j] = "scheduled" ]
  /\ record' = [ record EXCEPT ![j] = NewRow(action) ]
  /\ said' = [ said EXCEPT ![j] = 0 ]
  /\ UNCHANGED restarts

\* submit: the row, then the task; the exception leaves without one.
Submit(j, action) ==
  /\ rows[j] = NoRow /\ \A k \in 1..(j - 1) : rows[k] # NoRow
  /\ \E store \in Upserts(Store, j, NewRow(action)) :
       /\ StoreBecomes(store)
       /\ IF store.ok
            THEN /\ task' = [ task EXCEPT ![j] = "scheduled" ]
                 /\ record' = [ record EXCEPT ![j] = NewRow(action) ]
            ELSE UNCHANGED << task, record >>
  /\ said' = [ said EXCEPT ![j] = 0 ]
  /\ UNCHANGED restarts

\* The task is over; its record goes with it.
TaskOver(j) ==
  /\ task' = [ task EXCEPT ![j] = "none" ]
  /\ record' = [ record EXCEPT ![j] = NoRow ]

\* Faulty Begin: the executor starts before RUNNING is written.
BeginUnsaved(j) ==
  /\ task[j] = "scheduled"
  /\ task' = [ task EXCEPT ![j] = "executing" ]
  /\ record' = [ record EXCEPT ![j].state = "running" ]
  /\ UNCHANGED << storeVars, restarts, said >>

\* The first step of _run, outside its try: a failed write ends the task.
Begin(j) ==
  LET row == [ record[j] EXCEPT !.state = "running" ] IN
  /\ task[j] = "scheduled"
  /\ \E store \in Upserts(Store, j, row) :
       /\ StoreBecomes(store)
       /\ IF store.ok
            THEN /\ task' = [ task EXCEPT ![j] = "executing" ]
                 /\ record' = [ record EXCEPT ![j] = row ]
            ELSE TaskOver(j)
  /\ UNCHANGED << restarts, said >>

\* mark_finished, or one of _run's handlers: exit code 0 is done.
Finished(row, result) ==
  [ row EXCEPT !.state = IF result = "ok" THEN "done" ELSE "failed",
               !.result = result ]

\* Faulty Finish: the finally clause writes nothing.
FinishUnrecorded(j, row, result, store) ==
  /\ StoreBecomes(store)
  /\ TaskOver(j)

\* _run's finally clause, on a store as the try left it.  If this write fails
\* too, the row stays as it is.
Finish(j, row, result, store) ==
  /\ \E last \in Upserts(store, j, Finished(row, result)) : StoreBecomes(last)
  /\ TaskOver(j)

\* Faulty Bounded: the oldest lines are kept.
BoundedOldest(tail) ==
  IF Len(tail) > TailLimit THEN SubSeq(tail, 1, TailLimit) ELSE tail

\* append_output's bound.
Bounded(tail) ==
  IF Len(tail) > TailLimit
    THEN SubSeq(tail, Len(tail) - TailLimit + 1, Len(tail))
    ELSE tail

\* emit: a line, and its write; one that fails is an error of the executor.
Emit(j) ==
  LET row == [ record[j] EXCEPT !.tail = Bounded(Append(@, said[j] + 1)) ] IN
  /\ task[j] = "executing" /\ said[j] < MaxLines
  /\ said' = [ said EXCEPT ![j] = @ + 1 ]
  /\ \E store \in Upserts(Store, j, row) :
       \/ /\ store.ok
          /\ StoreBecomes(store)
          /\ record' = [ record EXCEPT ![j] = row ]
          /\ UNCHANGED task
       \/ ~store.ok /\ Finish(j, row, "error", store)
  /\ UNCHANGED restarts

\* The executor returns, raises, or runs into the job's timeout.
Ends(j) ==
  /\ task[j] = "executing"
  /\ \E result \in Results : Finish(j, record[j], result, Store)
  /\ UNCHANGED << restarts, said >>

\* Faulty Reconciles: pending rows are missed; finished ones are rewritten; the
\* new state is one JobState does not know.
ReconciledRunningOnly(row) ==
  IF row.state = "running"
    THEN [ row EXCEPT !.state = "unknown", !.result = "orphaned" ] ELSE row
ReconciledAll(row) ==
  IF row # NoRow
    THEN [ row EXCEPT !.state = "unknown", !.result = "orphaned" ] ELSE row
ReconciledOrphaned(row) ==
  IF row.state \in NonTerminal
    THEN [ row EXCEPT !.state = "orphaned", !.result = "orphaned" ] ELSE row

\* What reconcile makes of a row.
Reconciled(row) ==
  IF row.state \in NonTerminal
    THEN [ row EXCEPT !.state = "unknown", !.result = "orphaned" ] ELSE row

\* What the next process finds.  A shutdown cancels the tasks, and the finally
\* clause of one that executes still writes its record: that commits whatever
\* the connection had left open.  A crash does not.
RowsFound ==
  IF ~Durable
    THEN { [ j \in JobIds |-> NoRow ] }
    ELSE {disk} \cup
         { [ rows EXCEPT ![j] = record[j] ] :
             j \in { k \in JobIds : task[k] = "executing" } }

\* (The boot's own writes do not fail.)
Restart ==
  /\ restarts < MaxRestarts
  /\ restarts' = restarts + 1
  /\ \E found \in RowsFound :
       rows' = [ j \in JobIds |->
                   IF ReconcileOnBoot THEN Reconciled(found[j]) ELSE found[j] ]
  /\ disk' = rows' /\ faults' = 0
  /\ task' = [ j \in JobIds |-> "none" ]
  /\ record' = [ j \in JobIds |-> NoRow ]
  /\ UNCHANGED said

TaskStep(j) == Begin(j) \/ Emit(j) \/ Ends(j)

Next ==
  \/ \E j \in JobIds, action \in Actions : Submit(j, action)
  \/ \E j \in JobIds : TaskStep(j)
  \/ Restart

Spec == Init /\ [][Next]_vars

\* The event loop runs what is ready, and wait_for bounds every executor.
Fairness == \A j \in JobIds : WF_vars(Begin(j)) /\ WF_vars(Ends(j))

FairSpec == Spec /\ Fairness

-----------------------------------------------------------------------------
(* Properties *)

InFlight == { j \in JobIds : rows[j].state \in NonTerminal }

RowType ==
  [ state : NonTerminal \cup TerminalStates, action : Actions,
    result : {"none", "orphaned"} \cup Results, tail : Seq(1..MaxLines) ]
Table == [ JobIds -> {NoRow} \cup RowType ]
RowOK(row) ==
  row # NoRow => /\ Len(row.tail) <= TailLimit
                 /\ row.state \in NonTerminal <=> row.result = "none"

\* The shape of the state: rows are bounded, and have a result when they are
\* over.
TypeOK ==
  /\ {rows, disk, record} \subseteq Table
  /\ \A table \in {rows, disk, record} : \A j \in JobIds : RowOK(table[j])
  /\ task \in [ JobIds -> {"none", "scheduled", "executing"} ]
  /\ faults \in 0..MaxFaults /\ restarts \in 0..MaxRestarts
  /\ said \in [ JobIds -> 0..MaxLines ]

\* The lane rests on rows: whichever writes fail, a job whose task may still
\* run its executor has a row in flight, committed too, so that neither this
\* process nor the next one takes the lane for free.
LaneHeld ==
  \A j \in JobIds :
    task[j] # "none" => rows[j].state \in NonTerminal /\ disk[j] = rows[j]

\* A row is in flight with no task (and the lane is busy for good) only after
\* a write of this process failed; a reconciled boot leaves none.
OnlyFaultsOrphan ==
  faults = 0 =>
    /\ rows = disk
    /\ \A j \in JobIds : rows[j].state \in NonTerminal <=> task[j] # "none"

Latest(n) ==
  LET kept == IF n < TailLimit THEN n ELSE TailLimit
  IN  [ i \in 1..kept |-> n - kept + i ]

\* A row's tail is the latest lines, in order and none missing: all that were
\* said while the job runs and when it is done or failed, up to some line when
\* its last writes were lost.
TailIsLatest ==
  \A j \in JobIds : rows[j] # NoRow =>
    /\ \E n \in 0..said[j] : rows[j].tail = Latest(n)
    /\ task[j] # "none" \/ rows[j].state \in {"done", "failed"}
         => rows[j].tail = Latest(said[j])

\* A verdict once committed is final: no write, restart or reconcile changes
\* it, whichever writes fail (the jobs page is a history).
VerdictIsFinal ==
  [][ Durable => \A j \in JobIds :
        disk[j].state \in TerminalStates => disk'[j] = disk[j] ]_vars

Brief(row) ==
  IF row = NoRow THEN NoRow ELSE [ state |-> row.state, action |-> row.action ]
Briefs(table) == [ j \in JobIds |-> Brief(table[j]) ]

Runner == INSTANCE JobRunner WITH ledger <- Briefs(rows), disk <- Briefs(disk)

\* Each step is a step of JobRunner, the module the rest of the gateway is
\* modelled on: whichever writes fail, and whatever is left uncommitted when
\* the process goes.
ImplementsRunner == Runner!Spec

\* Every job accepted reaches a terminal state, unless a write fails.
JobsEnd ==
  \A j \in JobIds : j \in InFlight /\ faults = 0 ~> j \notin InFlight \/ faults > 0

=============================================================================
