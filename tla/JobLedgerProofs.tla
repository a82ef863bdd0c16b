-------------------------- MODULE JobLedgerProofs --------------------------
(***************************************************************************)
(* Proofs about JobLedger, for every number of jobs, lines, faults and     *)
(* restarts.                                                               *)
(***************************************************************************)
EXTENDS JobLedger, SequenceTheorems, TLAPS

-----------------------------------------------------------------------------
(* The inductive invariant *)

\* A store: its tables have their shape; what it reads is what is committed,
\* except for rows that are not over and only after a write failed.
StoreInv(read, committed, failed) ==
  /\ read \in Table /\ committed \in Table
  /\ \A j \in JobIds : RowOK(read[j]) /\ RowOK(committed[j])
  /\ failed \in 0..MaxFaults
  /\ failed = 0 => read = committed
  /\ \A j \in JobIds :
       \/ read[j] = committed[j]
       \/ committed[j].state \notin TerminalStates /\ read[j] # NoRow

\* A task's record is its row, read and committed, with all that was said.
TaskOK(j) ==
  IF task[j] = "none"
    THEN record[j] = NoRow
    ELSE /\ record[j] \in RowType
         /\ record[j].state = IF task[j] = "scheduled" THEN "pending" ELSE "running"
         /\ record[j].tail = Latest(said[j])
         /\ rows[j] = record[j] /\ disk[j] = record[j]
TaskInv == \A j \in JobIds : TaskOK(j)

\* No earlier process left a row in flight: there was none, or the boot reconciles.
Swept == ReconcileOnBoot \/ restarts = 0

\* Rows in flight have a task, unless a write of this process failed.
OrphanInv ==
  Swept /\ faults = 0 => \A j \in JobIds : rows[j].state \in NonTerminal => task[j] # "none"

\* A row's tail is what TailIsLatest says of a row without a task.
TailOK(row, n) ==
  row # NoRow =>
    /\ \E m \in 0..n : row.tail = Latest(m)
    /\ row.state \in {"done", "failed"} => row.tail = Latest(n)
TailInv == \A j \in JobIds : TailOK(rows[j], said[j]) /\ TailOK(disk[j], said[j])

OtherTypes ==
  /\ record \in Table /\ \A j \in JobIds : RowOK(record[j])
  /\ task \in [ JobIds -> {"none", "scheduled", "executing"} ]
  /\ restarts \in 0..MaxRestarts
  /\ said \in [ JobIds -> 0..MaxLines ]

Inv ==
  /\ OtherTypes
  /\ StoreInv(rows, disk, faults)
  /\ TaskInv
  /\ OrphanInv
  /\ TailInv

-----------------------------------------------------------------------------
(* The tail *)

LEMMA LatestTyped ==
  ASSUME NEW n \in 0..MaxLines
  PROVE  /\ Latest(n) \in Seq(1..MaxLines)
         /\ Len(Latest(n)) = IF n < TailLimit THEN n ELSE TailLimit
         /\ \A i \in 1..Len(Latest(n)) : Latest(n)[i] = n - Len(Latest(n)) + i
  <1>. DEFINE kept == IF n < TailLimit THEN n ELSE TailLimit
  <1>1. kept \in Nat /\ kept <= n /\ n <= MaxLines
    BY JobLedgerAssumption
  <1>2. Latest(n) = [ i \in 1..kept |-> n - kept + i ]
    BY DEF Latest
  <1>. HIDE DEF kept
  <1>3. \A i \in 1..kept : n - kept + i \in 1..MaxLines
    BY <1>1, JobLedgerAssumption
  <1>4. [ i \in 1..kept |-> n - kept + i ] \in Seq(1..MaxLines)
    BY <1>1, <1>3
  <1>5. Len(Latest(n)) = kept
    BY <1>1, <1>2, <1>4
  <1>. QED
    BY <1>1, <1>2, <1>4, <1>5 DEF kept

\* append_output keeps the latest lines.
LEMMA BoundedLatest ==
  ASSUME NEW n \in 0..MaxLines, n < MaxLines
  PROVE  Bounded(Append(Latest(n), n + 1)) = Latest(n + 1)
  <1>. DEFINE t == Append(Latest(n), n + 1)
              l == Len(Latest(n))
  <1>1. n + 1 \in 0..MaxLines /\ n + 1 \in 1..MaxLines
    BY JobLedgerAssumption
  <1>2. /\ Latest(n) \in Seq(1..MaxLines)
        /\ l = IF n < TailLimit THEN n ELSE TailLimit
        /\ \A i \in 1..l : Latest(n)[i] = n - l + i
    BY LatestTyped
  <1>3. /\ Latest(n + 1) \in Seq(1..MaxLines)
        /\ Len(Latest(n + 1)) = IF n + 1 < TailLimit THEN n + 1 ELSE TailLimit
        /\ \A i \in 1..Len(Latest(n + 1)) :
             Latest(n + 1)[i] = n + 1 - Len(Latest(n + 1)) + i
    BY <1>1, LatestTyped
  <1>4. /\ t \in Seq(1..MaxLines) /\ Len(t) = l + 1
        /\ \A i \in 1..l : t[i] = Latest(n)[i]
        /\ t[l + 1] = n + 1
    BY <1>1, <1>2, AppendProperties
  <1>5. l \in Nat
    BY <1>2, JobLedgerAssumption
  <1>. HIDE DEF t, l
  <1>6. \A i \in 1..(l + 1) : t[i] = n - l + i
    BY <1>2, <1>4, <1>5
  <1>7. CASE n < TailLimit
    <2>1. Bounded(t) = t
      BY <1>2, <1>4, <1>7, JobLedgerAssumption DEF Bounded
    <2>0. l = n /\ Len(Latest(n + 1)) = n + 1
      BY <1>2, <1>3, <1>7, JobLedgerAssumption
    <2>2. Len(t) = Len(Latest(n + 1))
      BY <1>4, <2>0
    <2>3. \A i \in 1..Len(t) : t[i] = Latest(n + 1)[i]
      <3>. SUFFICES ASSUME NEW i \in 1..(n + 1)
                    PROVE  t[i] = Latest(n + 1)[i]
        BY <2>0, <2>2
      <3>1. t[i] = n - l + i
        BY <1>6, <2>0
      <3>2. Latest(n + 1)[i] = n + 1 - (n + 1) + i
        BY <1>3, <2>0
      <3>. QED
        BY <2>0, <3>1, <3>2
    <2>4. t = Latest(n + 1)
      BY <1>3, <1>4, <2>2, <2>3, SeqEqual
    <2>. QED
      BY <2>1, <2>4 DEF t
  <1>8. CASE ~(n < TailLimit)
    <2>1. l = TailLimit
      BY <1>2, <1>8
    <2>2. Bounded(t) = SubSeq(t, 2, l + 1)
      BY <1>4, <2>1, JobLedgerAssumption DEF Bounded
    <2>3. /\ SubSeq(t, 2, l + 1) \in Seq(1..MaxLines)
          /\ Len(SubSeq(t, 2, l + 1)) = l
          /\ \A i \in 1..l : SubSeq(t, 2, l + 1)[i] = t[i + 1]
      <3>1. \A i \in 2..(l + 1) : t[i] \in 1..MaxLines
        <4>. SUFFICES ASSUME NEW i \in 2..(l + 1) PROVE t[i] \in 1..MaxLines
          OBVIOUS
        <4>1. i \in 1..Len(t)
          BY <1>4, <1>5
        <4>. QED
          BY <1>4, <4>1, ElementOfSeq
      <3>2. l >= 1
        BY <2>1, JobLedgerAssumption
      <3>. QED
        BY <1>4, <1>5, <3>1, <3>2, SubSeqProperties
    <2>4. Len(Latest(n + 1)) = l
      BY <1>3, <1>8, <2>1, JobLedgerAssumption
    <2>5. \A i \in 1..l : SubSeq(t, 2, l + 1)[i] = Latest(n + 1)[i]
      <3>. SUFFICES ASSUME NEW i \in 1..l
                    PROVE  SubSeq(t, 2, l + 1)[i] = Latest(n + 1)[i]
        OBVIOUS
      <3>1. i + 1 \in 1..(l + 1)
        BY <1>5
      <3>2. t[i + 1] = n - l + (i + 1)
        BY <1>6, <3>1
      <3>3. Latest(n + 1)[i] = n + 1 - l + i
        BY <1>3, <2>4
      <3>. QED
        BY <1>5, <2>3, <3>2, <3>3, JobLedgerAssumption
    <2>6. SubSeq(t, 2, l + 1) = Latest(n + 1)
      BY <1>3, <2>3, <2>4, <2>5, SeqEqual
    <2>. QED
      BY <2>2, <2>6 DEF t
  <1>. QED
    BY <1>7, <1>8

-----------------------------------------------------------------------------
(* The store *)

LEMMA Shapes ==
  /\ NoRow \notin RowType
  /\ NoRow.state \notin TerminalStates \cup NonTerminal
  /\ NonTerminal \cap TerminalStates = {}
  /\ \A r \in RowType : r.state \in NonTerminal \cup TerminalStates
  BY DEF NoRow, RowType, TerminalStates, NonTerminal

\* The ways a write ends.
LEMMA UpsertsWays ==
  ASSUME NEW s, NEW j, NEW row, NEW t \in Upserts(s, j, row)
  PROVE  \/ /\ t.ok
            /\ t.rows = [ s.rows EXCEPT ![j] = row ]
            /\ t.disk = t.rows
            /\ t.faults = s.faults
         \/ /\ ~t.ok
            /\ s.faults < MaxFaults
            /\ t.rows \in { s.rows, [ s.rows EXCEPT ![j] = row ], s.disk }
            /\ t.disk = s.disk
            /\ t.faults = s.faults + 1
  <1>. DEFINE written == [ s.rows EXCEPT ![j] = row ]
              lefts == IF s.faults < MaxFaults THEN { s.rows, written, s.disk } ELSE {}
  <1>1. CASE t = [ rows |-> written, disk |-> written, faults |-> s.faults, ok |-> TRUE ]
    BY <1>1
  <1>2. CASE t \in { [ rows |-> left, disk |-> s.disk, faults |-> s.faults + 1, ok |-> FALSE ] :
                       left \in lefts }
    <2>1. PICK left \in lefts :
            t = [ rows |-> left, disk |-> s.disk, faults |-> s.faults + 1, ok |-> FALSE ]
      BY <1>2
    <2>2. s.faults < MaxFaults /\ left \in { s.rows, written, s.disk }
      BY Zenon
    <2>. QED
      BY <2>1, <2>2
  <1>. QED
    BY <1>1, <1>2 DEF Upserts

\* What a write of a row that is not over keeps, however it ends.
LEMMA UpsertKeeps ==
  ASSUME NEW s, StoreInv(s.rows, s.disk, s.faults),
         NEW j \in JobIds, NEW row \in RowType, RowOK(row),
         s.disk[j].state \notin TerminalStates,
         NEW t \in Upserts(s, j, row)
  PROVE  /\ StoreInv(t.rows, t.disk, t.faults)
         /\ t.ok => /\ t.rows = [ s.rows EXCEPT ![j] = row ] /\ t.disk = t.rows
                    /\ t.faults = s.faults
         /\ ~t.ok => t.faults > 0 /\ t.disk = s.disk
         /\ t.rows[j] \in { row, s.rows[j], s.disk[j] }
         /\ t.disk[j] \in { row, s.disk[j] }
         /\ \A k \in JobIds \ {j} :
              /\ t.rows[k] \in { s.rows[k], s.disk[k] }
              /\ t.disk[k] \in { s.rows[k], s.disk[k] }
              /\ s.disk[k].state \in TerminalStates => t.disk[k] = s.disk[k]
  <1>. DEFINE written == [ s.rows EXCEPT ![j] = row ]
  <1>1. /\ written \in Table
        /\ written[j] = row
        /\ \A k \in JobIds \ {j} : written[k] = s.rows[k]
    BY DEF StoreInv, Table
  <1>2. row # NoRow
    BY Shapes
  <1>. HIDE DEF written
  <1>3. CASE t.ok
    <2>1. t.rows = written /\ t.disk = written /\ t.faults = s.faults
      BY <1>3, UpsertsWays DEF written
    <2>. QED
      BY <1>1, <1>3, <2>1 DEF StoreInv, written
  <1>4. CASE ~t.ok
    <2>1. /\ t.rows \in { s.rows, written, s.disk } /\ t.disk = s.disk
          /\ t.faults = s.faults + 1 /\ s.faults < MaxFaults
      BY <1>4, UpsertsWays DEF written
    <2>2. t.faults \in 0..MaxFaults /\ t.faults > 0
      BY <2>1, JobLedgerAssumption DEF StoreInv
    <2>. QED
      BY <1>1, <1>2, <1>4, <2>1, <2>2 DEF StoreInv
  <1>. QED
    BY <1>3, <1>4

-----------------------------------------------------------------------------
(* The steps of a job *)

VerdictsKept ==
  \A j \in JobIds : disk[j].state \in TerminalStates => disk'[j] = disk[j]

\* A step of one job leaves the others what they are.
LEMMA OthersKeep ==
  ASSUME Inv, NEW j \in JobIds,
         \A k \in JobIds \ {j} :
           /\ task'[k] = task[k] /\ record'[k] = record[k] /\ said'[k] = said[k]
           /\ rows'[k] \in { rows[k], disk[k] } /\ disk'[k] \in { rows[k], disk[k] }
  PROVE  /\ \A k \in JobIds \ {j} :
              TaskOK(k)' /\ TailOK(rows[k], said[k])' /\ TailOK(disk[k], said[k])'
         /\ Swept /\ faults = 0 => \A k \in JobIds \ {j} :
              rows'[k].state \in NonTerminal => task'[k] # "none"
  <1>1. SUFFICES ASSUME NEW k \in JobIds \ {j}
                 PROVE  /\ TaskOK(k)'
                        /\ TailOK(rows[k], said[k])' /\ TailOK(disk[k], said[k])'
                        /\ Swept /\ faults = 0 =>
                             (rows'[k].state \in NonTerminal => task'[k] # "none")
    OBVIOUS
  <1>2. TaskOK(k) /\ TailOK(rows[k], said[k]) /\ TailOK(disk[k], said[k])
    BY DEF Inv, TaskInv, TailInv
  <1>3. TaskOK(k)'
    BY <1>2 DEF TaskOK
  <1>4. TailOK(rows'[k], said[k]) /\ TailOK(disk'[k], said[k])
    BY <1>2
  <1>5. TailOK(rows[k], said[k])' /\ TailOK(disk[k], said[k])'
    BY <1>4 DEF TailOK, Latest
  <1>6. Swept /\ faults = 0 => (rows'[k].state \in NonTerminal => task'[k] # "none")
    BY DEF Inv, StoreInv, OrphanInv
  <1>. QED
    BY <1>3, <1>5, <1>6

LEMMA SubmitStep ==
  ASSUME Inv, NEW j \in JobIds, NEW action \in Actions, Submit(j, action)
  PROVE  Inv' /\ VerdictsKept
  <1>. DEFINE row == NewRow(action)
  <1>1. /\ row \in RowType /\ RowOK(row) /\ row.state = "pending"
        /\ row.tail = << >>
    BY EmptySeq, JobLedgerAssumption
       DEF NewRow, RowType, RowOK, NonTerminal, TerminalStates
  <1>2. rows[j] = NoRow /\ disk[j] = NoRow /\ task[j] = "none"
    BY Shapes DEF Submit, Inv, StoreInv, TaskInv, TaskOK
  <1>3. StoreInv(Store.rows, Store.disk, Store.faults) /\ Store.rows = rows
        /\ Store.disk = disk /\ Store.faults = faults
    BY DEF Inv, Store
  <1>4. Store.disk[j].state \notin TerminalStates
    BY <1>2, <1>3, Shapes
  <1>5. PICK t \in Upserts(Store, j, row) :
          /\ StoreBecomes(t)
          /\ IF t.ok THEN /\ task' = [ task EXCEPT ![j] = "scheduled" ]
                          /\ record' = [ record EXCEPT ![j] = row ]
                     ELSE UNCHANGED << task, record >>
    BY DEF Submit
  <1>6. said' = [ said EXCEPT ![j] = 0 ] /\ restarts' = restarts
    BY DEF Submit
  <1>. HIDE DEF row
  <1>7. /\ StoreInv(t.rows, t.disk, t.faults)
        /\ t.ok => /\ t.rows = [ Store.rows EXCEPT ![j] = row ] /\ t.disk = t.rows
                   /\ t.faults = Store.faults
        /\ ~t.ok => t.faults > 0 /\ t.disk = Store.disk
        /\ t.rows[j] \in { row, Store.rows[j], Store.disk[j] }
        /\ t.disk[j] \in { row, Store.disk[j] }
        /\ \A k \in JobIds \ {j} :
             /\ t.rows[k] \in { Store.rows[k], Store.disk[k] }
             /\ t.disk[k] \in { Store.rows[k], Store.disk[k] }
             /\ Store.disk[k].state \in TerminalStates => t.disk[k] = Store.disk[k]
    BY <1>1, <1>3, <1>4, <1>5, UpsertKeeps
  <1>8. rows' = t.rows /\ disk' = t.disk /\ faults' = t.faults
    BY <1>5 DEF StoreBecomes
  <1>9. StoreInv(rows, disk, faults)'
    BY <1>7, <1>8 DEF StoreInv, Table, RowOK
  <1>10. /\ task' \in [ JobIds -> {"none", "scheduled", "executing"} ]
         /\ record' \in Table /\ \A k \in JobIds : RowOK(record'[k])
         /\ said' \in [ JobIds -> 0..MaxLines ] /\ restarts' \in 0..MaxRestarts
         /\ said'[j] = 0
    BY <1>1, <1>5, <1>6, JobLedgerAssumption DEF Inv, OtherTypes, Table
  <1>11. \A k \in JobIds \ {j} :
           /\ task'[k] = task[k] /\ record'[k] = record[k] /\ said'[k] = said[k]
           /\ rows'[k] \in { rows[k], disk[k] } /\ disk'[k] \in { rows[k], disk[k] }
    BY <1>3, <1>5, <1>6, <1>7, <1>8 DEF Inv, OtherTypes, Table
  <1>12. /\ \A k \in JobIds \ {j} :
              TaskOK(k)' /\ TailOK(rows[k], said[k])' /\ TailOK(disk[k], said[k])'
         /\ Swept /\ faults = 0 => \A k \in JobIds \ {j} :
              rows'[k].state \in NonTerminal => task'[k] # "none"
    BY <1>11, OthersKeep
  <1>13. Latest(0) = << >>
    BY LatestTyped, EmptySeq, JobLedgerAssumption
  <1>14. TaskOK(j)'
    <2>1. CASE t.ok
      BY <1>1, <1>3, <1>5, <1>7, <1>8, <1>10, <1>13, <2>1
         DEF TaskOK, Inv, OtherTypes, Table, StoreInv
    <2>2. CASE ~t.ok
      BY <1>2, <1>5, <2>2 DEF TaskOK, Inv, TaskInv
    <2>. QED
      BY <2>1, <2>2
  <1>15. TailOK(rows'[j], 0) /\ TailOK(disk'[j], 0)
    <2>1. TailOK(row, 0) /\ TailOK(NoRow, 0)
      BY <1>1, <1>13 DEF TailOK
    <2>. QED
      BY <1>2, <1>3, <1>7, <1>8, <2>1
  <1>16. TailOK(rows[j], said[j])' /\ TailOK(disk[j], said[j])'
    BY <1>10, <1>15 DEF TailOK, Latest
  <1>17. OrphanInv'
    <2>. SUFFICES ASSUME Swept', faults' = 0, NEW k \in JobIds, rows'[k].state \in NonTerminal
                  PROVE  task'[k] # "none"
      BY DEF OrphanInv
    <2>1. t.ok /\ Swept /\ faults = 0
      BY <1>3, <1>6, <1>7, <1>8 DEF Swept
    <2>2. task'[j] = "scheduled"
      BY <1>5, <2>1 DEF Inv, OtherTypes
    <2>. QED
      BY <1>12, <2>1, <2>2
  <1>18. VerdictsKept
    BY <1>2, <1>3, <1>7, <1>8, Shapes DEF VerdictsKept
  <1>19. OtherTypes' /\ TaskInv' /\ TailInv'
    BY <1>10, <1>12, <1>14, <1>16 DEF OtherTypes, TaskInv, TailInv, RowOK, Table
  <1>. QED
    BY <1>9, <1>17, <1>18, <1>19 DEF Inv

\* What is known of a task's job.
LEMMA Tasked ==
  ASSUME Inv, NEW j \in JobIds, task[j] # "none"
  PROVE  /\ record[j] \in RowType /\ RowOK(record[j])
         /\ record[j].state = IF task[j] = "scheduled" THEN "pending" ELSE "running"
         /\ record[j].tail = Latest(said[j])
         /\ rows[j] = record[j] /\ disk[j] = record[j]
         /\ record[j].result = "none"
         /\ StoreInv(Store.rows, Store.disk, Store.faults)
         /\ Store.rows = rows /\ Store.disk = disk /\ Store.faults = faults
         /\ Store.disk[j].state \notin TerminalStates
  BY Shapes DEF Inv, OtherTypes, TaskInv, TaskOK, RowOK, NonTerminal, TerminalStates, Store

LEMMA BeginStep ==
  ASSUME Inv, NEW j \in JobIds, Begin(j)
  PROVE  Inv' /\ VerdictsKept
  <1>. DEFINE row == [ record[j] EXCEPT !.state = "running" ]
  <1>1. task[j] = "scheduled"
    BY DEF Begin
  <1>2. /\ record[j] \in RowType /\ RowOK(record[j]) /\ record[j].tail = Latest(said[j])
        /\ rows[j] = record[j] /\ disk[j] = record[j]
        /\ record[j].state = "pending" /\ record[j].result = "none"
        /\ StoreInv(Store.rows, Store.disk, Store.faults)
        /\ Store.rows = rows /\ Store.disk = disk /\ Store.faults = faults
        /\ Store.disk[j].state \notin TerminalStates
    BY <1>1, Tasked
  <1>3. /\ row \in RowType /\ row.state = "running" /\ row.tail = Latest(said[j])
        /\ row.result = "none" /\ Len(row.tail) <= TailLimit
    BY <1>2, Shapes DEF RowType, RowOK, NonTerminal, TerminalStates
  <1>4. RowOK(row)
    BY <1>3 DEF RowOK, NonTerminal
  <1>5. PICK t \in Upserts(Store, j, row) :
          /\ StoreBecomes(t)
          /\ IF t.ok THEN /\ task' = [ task EXCEPT ![j] = "executing" ]
                          /\ record' = [ record EXCEPT ![j] = row ]
                     ELSE TaskOver(j)
    BY DEF Begin
  <1>6. said' = said /\ restarts' = restarts
    BY DEF Begin
  <1>. HIDE DEF row
  <1>7. /\ StoreInv(t.rows, t.disk, t.faults)
        /\ t.ok => /\ t.rows = [ Store.rows EXCEPT ![j] = row ] /\ t.disk = t.rows
                   /\ t.faults = Store.faults
        /\ ~t.ok => t.faults > 0 /\ t.disk = Store.disk
        /\ t.rows[j] \in { row, Store.rows[j], Store.disk[j] }
        /\ t.disk[j] \in { row, Store.disk[j] }
        /\ \A k \in JobIds \ {j} :
             /\ t.rows[k] \in { Store.rows[k], Store.disk[k] }
             /\ t.disk[k] \in { Store.rows[k], Store.disk[k] }
             /\ Store.disk[k].state \in TerminalStates => t.disk[k] = Store.disk[k]
    BY <1>2, <1>3, <1>4, <1>5, UpsertKeeps
  <1>8. rows' = t.rows /\ disk' = t.disk /\ faults' = t.faults
    BY <1>5 DEF StoreBecomes
  <1>9. StoreInv(rows, disk, faults)'
    BY <1>7, <1>8 DEF StoreInv, Table, RowOK
  <1>10. /\ task' \in [ JobIds -> {"none", "scheduled", "executing"} ]
         /\ record' \in Table /\ \A k \in JobIds : RowOK(record'[k])
         /\ task'[j] = IF t.ok THEN "executing" ELSE "none"
         /\ record'[j] = IF t.ok THEN row ELSE NoRow
    BY <1>3, <1>4, <1>5 DEF Inv, OtherTypes, Table, TaskOver, RowOK
  <1>11. \A k \in JobIds \ {j} :
           /\ task'[k] = task[k] /\ record'[k] = record[k] /\ said'[k] = said[k]
           /\ rows'[k] \in { rows[k], disk[k] } /\ disk'[k] \in { rows[k], disk[k] }
    BY <1>2, <1>5, <1>6, <1>7, <1>8 DEF Inv, OtherTypes, Table, TaskOver
  <1>12. /\ \A k \in JobIds \ {j} :
              TaskOK(k)' /\ TailOK(rows[k], said[k])' /\ TailOK(disk[k], said[k])'
         /\ Swept /\ faults = 0 => \A k \in JobIds \ {j} :
              rows'[k].state \in NonTerminal => task'[k] # "none"
    BY <1>11, OthersKeep
  <1>13. TaskOK(j)'
    <2>1. CASE t.ok
      <3>1. rows'[j] = row /\ disk'[j] = row
        BY <1>2, <1>7, <1>8, <2>1 DEF StoreInv, Table
      <3>. QED
        BY <1>3, <1>6, <1>10, <2>1, <3>1 DEF TaskOK, Latest
    <2>2. CASE ~t.ok
      BY <1>10, <2>2 DEF TaskOK
    <2>. QED
      BY <2>1, <2>2
  <1>14. TailOK(rows'[j], said[j]) /\ TailOK(disk'[j], said[j])
    <2>1. said[j] \in 0..said[j]
      BY JobLedgerAssumption DEF Inv, OtherTypes
    <2>2. TailOK(row, said[j]) /\ TailOK(record[j], said[j])
      BY <1>2, <1>3, <2>1 DEF TailOK
    <2>. QED
      BY <1>2, <1>7, <1>8, <2>2
  <1>15. TailOK(rows[j], said[j])' /\ TailOK(disk[j], said[j])'
    BY <1>6, <1>14 DEF TailOK, Latest
  <1>16. OrphanInv'
    <2>. SUFFICES ASSUME Swept', faults' = 0, NEW k \in JobIds, rows'[k].state \in NonTerminal
                  PROVE  task'[k] # "none"
      BY DEF OrphanInv
    <2>1. t.ok /\ Swept /\ faults = 0
      BY <1>2, <1>6, <1>7, <1>8 DEF Begin, Swept
    <2>. QED
      BY <1>10, <1>12, <2>1
  <1>17. VerdictsKept
    BY <1>2, <1>7, <1>8, Shapes DEF VerdictsKept
  <1>18. OtherTypes' /\ TaskInv' /\ TailInv'
    BY <1>6, <1>10, <1>12, <1>13, <1>15
       DEF Inv, OtherTypes, TaskInv, TailInv, RowOK, Table
  <1>. QED
    BY <1>9, <1>16, <1>17, <1>18 DEF Inv

\* The last write of a task, on the store its last line left.
LEMMA FinishStep ==
  ASSUME Inv, NEW j \in JobIds, task[j] = "executing",
         NEW row \in RowType, RowOK(row), row.state = "running",
         said' \in [ JobIds -> 0..MaxLines ], said[j] <= said'[j],
         \A k \in JobIds \ {j} : said'[k] = said[k],
         row.tail = Latest(said'[j]),
         NEW s, StoreInv(s.rows, s.disk, s.faults), s.disk = disk,
         s.faults = 0 => faults = 0,
         s.rows[j] \in { row, rows[j] },
         \A k \in JobIds \ {j} : s.rows[k] \in { rows[k], disk[k] },
         NEW result \in Results, Finish(j, row, result, s), restarts' = restarts
  PROVE  Inv' /\ VerdictsKept
  <1>. DEFINE over == Finished(row, result)
  <1>1. /\ record[j] \in RowType /\ record[j].tail = Latest(said[j])
        /\ record[j].state = "running"
        /\ rows[j] = record[j] /\ disk[j] = record[j]
        /\ s.disk[j].state \notin TerminalStates
    BY Tasked DEF TerminalStates
  <1>2. /\ over \in RowType /\ over.state \in {"done", "failed"}
        /\ over.tail = Latest(said'[j]) /\ RowOK(over)
    BY Shapes DEF Finished, RowType, RowOK, NonTerminal, TerminalStates, Results
  <1>3. PICK t \in Upserts(s, j, over) : StoreBecomes(t)
    BY DEF Finish
  <1>. HIDE DEF over
  <1>4. /\ StoreInv(t.rows, t.disk, t.faults)
        /\ t.ok => /\ t.rows = [ s.rows EXCEPT ![j] = over ] /\ t.disk = t.rows
                   /\ t.faults = s.faults
        /\ ~t.ok => t.faults > 0 /\ t.disk = s.disk
        /\ t.rows[j] \in { over, s.rows[j], s.disk[j] }
        /\ t.disk[j] \in { over, s.disk[j] }
        /\ \A k \in JobIds \ {j} :
             /\ t.rows[k] \in { s.rows[k], s.disk[k] }
             /\ t.disk[k] \in { s.rows[k], s.disk[k] }
             /\ s.disk[k].state \in TerminalStates => t.disk[k] = s.disk[k]
    BY <1>1, <1>2, <1>3, UpsertKeeps
  <1>5. rows' = t.rows /\ disk' = t.disk /\ faults' = t.faults
    BY <1>3 DEF StoreBecomes
  <1>6. StoreInv(rows, disk, faults)'
    BY <1>4, <1>5 DEF StoreInv, Table, RowOK
  <1>7. /\ task' = [ task EXCEPT ![j] = "none" ] /\ record' = [ record EXCEPT ![j] = NoRow ]
        /\ task' \in [ JobIds -> {"none", "scheduled", "executing"} ]
        /\ record' \in Table /\ \A k \in JobIds : RowOK(record'[k])
        /\ task'[j] = "none" /\ record'[j] = NoRow
    BY DEF Inv, OtherTypes, Table, Finish, TaskOver, RowOK
  <1>8. \A k \in JobIds \ {j} :
          /\ task'[k] = task[k] /\ record'[k] = record[k] /\ said'[k] = said[k]
          /\ rows'[k] \in { rows[k], disk[k] } /\ disk'[k] \in { rows[k], disk[k] }
    BY <1>4, <1>5, <1>7 DEF Inv, OtherTypes, Table
  <1>9. /\ \A k \in JobIds \ {j} :
             TaskOK(k)' /\ TailOK(rows[k], said[k])' /\ TailOK(disk[k], said[k])'
        /\ Swept /\ faults = 0 => \A k \in JobIds \ {j} :
             rows'[k].state \in NonTerminal => task'[k] # "none"
    BY <1>8, OthersKeep
  <1>10. TaskOK(j)'
    BY <1>7 DEF TaskOK
  <1>11. TailOK(rows'[j], said'[j]) /\ TailOK(disk'[j], said'[j])
    <2>1. said[j] \in 0..said'[j] /\ said'[j] \in 0..said'[j]
      BY JobLedgerAssumption DEF Inv, OtherTypes
    <2>2. TailOK(row, said'[j]) /\ TailOK(over, said'[j]) /\ TailOK(record[j], said'[j])
      BY <1>1, <1>2, <2>1 DEF TailOK
    <2>. QED
      BY <1>1, <1>4, <1>5, <2>2
  <1>12. TailOK(rows[j], said[j])' /\ TailOK(disk[j], said[j])'
    BY <1>11 DEF TailOK, Latest
  <1>13. OrphanInv'
    <2>. SUFFICES ASSUME Swept', faults' = 0, NEW k \in JobIds, rows'[k].state \in NonTerminal
                  PROVE  task'[k] # "none"
      BY DEF OrphanInv
    <2>1. t.ok /\ Swept /\ faults = 0
      BY <1>4, <1>5 DEF Swept
    <2>2. rows'[j] = over
      BY <1>4, <1>5, <2>1 DEF StoreInv, Table
    <2>3. k # j
      BY <1>2, <2>2 DEF NonTerminal
    <2>. QED
      BY <1>9, <2>1, <2>3
  <1>14. VerdictsKept
    BY <1>1, <1>4, <1>5, Shapes DEF VerdictsKept
  <1>15. OtherTypes' /\ TaskInv' /\ TailInv'
    BY <1>7, <1>9, <1>10, <1>12
       DEF Inv, OtherTypes, TaskInv, TailInv, RowOK, Table
  <1>. QED
    BY <1>6, <1>13, <1>14, <1>15 DEF Inv

LEMMA EndsStep ==
  ASSUME Inv, NEW j \in JobIds, Ends(j)
  PROVE  Inv' /\ VerdictsKept
  <1>1. /\ task[j] = "executing" /\ said' = said /\ restarts' = restarts
        /\ \E result \in Results : Finish(j, record[j], result, Store)
    BY DEF Ends
  <1>2. PICK result \in Results : Finish(j, record[j], result, Store)
    BY <1>1
  <1>3. /\ record[j] \in RowType /\ RowOK(record[j]) /\ record[j].state = "running"
        /\ record[j].tail = Latest(said[j]) /\ rows[j] = record[j]
        /\ StoreInv(Store.rows, Store.disk, Store.faults)
        /\ Store.rows = rows /\ Store.disk = disk /\ Store.faults = faults
    BY <1>1, Tasked
  <1>4. said' \in [ JobIds -> 0..MaxLines ] /\ said[j] <= said'[j]
        /\ \A k \in JobIds \ {j} : said'[k] = said[k]
    BY <1>1, JobLedgerAssumption DEF Inv, OtherTypes
  <1>5. record[j].tail = Latest(said'[j])
    BY <1>1, <1>3
  <1>. QED
    BY <1>1, <1>2, <1>3, <1>4, <1>5, FinishStep

LEMMA EmitStep ==
  ASSUME Inv, NEW j \in JobIds, Emit(j)
  PROVE  Inv' /\ VerdictsKept
  <1>. DEFINE row == [ record[j] EXCEPT !.tail = Bounded(Append(@, said[j] + 1)) ]
  <1>1. /\ task[j] = "executing" /\ said[j] < MaxLines
        /\ said' = [ said EXCEPT ![j] = @ + 1 ] /\ restarts' = restarts
    BY DEF Emit
  <1>2. PICK s \in Upserts(Store, j, row) :
          \/ /\ s.ok /\ StoreBecomes(s)
             /\ record' = [ record EXCEPT ![j] = row ] /\ task' = task
          \/ ~s.ok /\ Finish(j, row, "error", s)
    BY DEF Emit
  <1>3. /\ record[j] \in RowType /\ RowOK(record[j]) /\ record[j].tail = Latest(said[j])
        /\ rows[j] = record[j] /\ disk[j] = record[j]
        /\ record[j].state = "running" /\ record[j].result = "none"
        /\ StoreInv(Store.rows, Store.disk, Store.faults)
        /\ Store.rows = rows /\ Store.disk = disk /\ Store.faults = faults
        /\ Store.disk[j].state \notin TerminalStates
    BY <1>1, Tasked
  <1>4. /\ said[j] \in 0..MaxLines /\ said'[j] = said[j] + 1 /\ said'[j] \in 0..MaxLines
        /\ said' \in [ JobIds -> 0..MaxLines ] /\ said[j] <= said'[j]
        /\ \A k \in JobIds \ {j} : said'[k] = said[k]
    BY <1>1, JobLedgerAssumption DEF Inv, OtherTypes
  <1>5. Bounded(Append(record[j].tail, said[j] + 1)) = Latest(said'[j])
    BY <1>1, <1>3, <1>4, BoundedLatest
  <1>6. Latest(said'[j]) \in Seq(1..MaxLines) /\ Len(Latest(said'[j])) <= TailLimit
    BY <1>4, LatestTyped, JobLedgerAssumption
  <1>7. row = [ record[j] EXCEPT !.tail = Latest(said'[j]) ]
    BY <1>5
  <1>. HIDE DEF row
  <1>8. /\ row \in RowType /\ row.state = "running" /\ row.tail = Latest(said'[j])
        /\ row.result = "none" /\ Len(row.tail) <= TailLimit
    BY <1>3, <1>6, <1>7 DEF RowType
  <1>9. RowOK(row)
    BY <1>8 DEF RowOK, NonTerminal
  <1>10. /\ StoreInv(s.rows, s.disk, s.faults)
         /\ s.ok => /\ s.rows = [ Store.rows EXCEPT ![j] = row ] /\ s.disk = s.rows
                    /\ s.faults = Store.faults
         /\ ~s.ok => s.faults > 0 /\ s.disk = Store.disk
         /\ s.rows[j] \in { row, Store.rows[j], Store.disk[j] }
         /\ s.disk[j] \in { row, Store.disk[j] }
         /\ \A k \in JobIds \ {j} :
              /\ s.rows[k] \in { Store.rows[k], Store.disk[k] }
              /\ s.disk[k] \in { Store.rows[k], Store.disk[k] }
              /\ Store.disk[k].state \in TerminalStates => s.disk[k] = Store.disk[k]
    BY <1>3, <1>8, <1>9, UpsertKeeps
  <1>11. CASE ~s.ok
    <2>1. Finish(j, row, "error", s) /\ "error" \in Results
      BY <1>2, <1>11 DEF Results
    <2>2. /\ s.disk = disk /\ s.faults > 0 /\ s.rows[j] \in { row, rows[j] }
          /\ \A k \in JobIds \ {j} : s.rows[k] \in { rows[k], disk[k] }
      BY <1>3, <1>10, <1>11
    <2>. QED
      BY <1>1, <1>4, <1>8, <1>9, <1>10, <2>1, <2>2, FinishStep
  <1>12. CASE s.ok
    <2>1. /\ rows' = s.rows /\ disk' = s.disk /\ faults' = s.faults
          /\ record' = [ record EXCEPT ![j] = row ] /\ task' = task
      BY <1>2, <1>12 DEF StoreBecomes
    <2>2. StoreInv(rows, disk, faults)'
      BY <1>10, <2>1 DEF StoreInv, Table, RowOK
    <2>3. /\ record' \in Table /\ \A k \in JobIds : RowOK(record'[k])
          /\ record'[j] = row /\ rows'[j] = row /\ disk'[j] = row
      BY <1>3, <1>8, <1>9, <1>10, <1>12, <2>1
         DEF Inv, OtherTypes, StoreInv, Table, RowOK
    <2>4. \A k \in JobIds \ {j} :
            /\ task'[k] = task[k] /\ record'[k] = record[k] /\ said'[k] = said[k]
            /\ rows'[k] \in { rows[k], disk[k] } /\ disk'[k] \in { rows[k], disk[k] }
      BY <1>3, <1>4, <1>10, <2>1 DEF Inv, OtherTypes, Table
    <2>5. /\ \A k \in JobIds \ {j} :
               TaskOK(k)' /\ TailOK(rows[k], said[k])' /\ TailOK(disk[k], said[k])'
          /\ Swept /\ faults = 0 => \A k \in JobIds \ {j} :
               rows'[k].state \in NonTerminal => task'[k] # "none"
      BY <2>4, OthersKeep
    <2>6. TaskOK(j)'
      BY <1>1, <1>8, <2>1, <2>3 DEF TaskOK, Latest
    <2>7. TailOK(row, said'[j])
      <3>1. said'[j] \in 0..said'[j]
        BY <1>4, JobLedgerAssumption
      <3>. QED
        BY <1>8, <3>1 DEF TailOK
    <2>8. TailOK(rows[j], said[j])' /\ TailOK(disk[j], said[j])'
      BY <2>3, <2>7 DEF TailOK, Latest
    <2>9. OrphanInv'
      <3>. SUFFICES ASSUME Swept', faults' = 0, NEW k \in JobIds, rows'[k].state \in NonTerminal
                    PROVE  task'[k] # "none"
        BY DEF OrphanInv
      <3>1. Swept /\ faults = 0
        BY <1>1, <1>3, <1>10, <1>12, <2>1 DEF Swept
      <3>. QED
        BY <1>1, <2>1, <2>5, <3>1
    <2>10. VerdictsKept
      BY <1>3, <1>10, <2>1, Shapes DEF VerdictsKept, TerminalStates
    <2>11. OtherTypes' /\ TaskInv' /\ TailInv'
      BY <1>1, <1>4, <2>1, <2>3, <2>5, <2>6, <2>8
         DEF Inv, OtherTypes, TaskInv, TailInv, RowOK, Table
    <2>. QED
      BY <2>2, <2>9, <2>10, <2>11 DEF Inv
  <1>. QED
    BY <1>11, <1>12

-----------------------------------------------------------------------------
(* The restart *)

LEMMA ReconciledRow ==
  ASSUME NEW row \in {NoRow} \cup RowType, RowOK(row), NEW n, TailOK(row, n)
  PROVE  /\ Reconciled(row) \in {NoRow} \cup RowType /\ RowOK(Reconciled(row))
         /\ Reconciled(row).state \notin NonTerminal
         /\ TailOK(Reconciled(row), n)
         /\ row.state \in TerminalStates => Reconciled(row) = row
  <1>1. CASE row.state \in NonTerminal
    <2>. DEFINE new == Reconciled(row)
    <2>1. row \in RowType /\ row # NoRow
      BY <1>1, Shapes
    <2>2. /\ new \in RowType /\ new.state = "unknown" /\ new.result = "orphaned"
          /\ new.tail = row.tail
      BY <1>1, <2>1 DEF Reconciled, RowType, TerminalStates
    <2>. HIDE DEF new
    <2>3. RowOK(new) /\ TailOK(new, n) /\ new.state \notin NonTerminal
      BY <2>1, <2>2 DEF RowOK, TailOK, NonTerminal
    <2>. QED
      BY <1>1, <2>2, <2>3, Shapes DEF new
  <1>2. CASE row.state \notin NonTerminal
    BY <1>2 DEF Reconciled
  <1>. QED
    BY <1>1, <1>2

\* What the next process finds is what was committed or what was read.
LEMMA Found ==
  ASSUME Inv, NEW found \in RowsFound, NEW j \in JobIds
  PROVE  /\ found[j] \in { NoRow, rows[j], disk[j] }
         /\ Durable => (disk[j].state \in TerminalStates => found[j] = disk[j])
  <1>1. CASE ~Durable
    BY <1>1 DEF RowsFound
  <1>2. CASE Durable /\ found = disk
    BY <1>2
  <1>3. CASE Durable /\ found # disk
    <2>1. PICK k \in JobIds :
            task[k] = "executing" /\ found = [ rows EXCEPT ![k] = record[k] ]
      BY <1>3 DEF RowsFound
    <2>2. rows[k] = record[k] /\ rows \in Table
      BY <2>1, Tasked DEF Inv, StoreInv
    <2>3. found = rows
      BY <2>1, <2>2 DEF Table
    <2>. QED
      BY <2>3 DEF Inv, StoreInv
  <1>. QED
    BY <1>1, <1>2, <1>3

LEMMA RestartStep ==
  ASSUME Inv, Restart
  PROVE  Inv' /\ (Durable => VerdictsKept)
  <1>1. PICK found \in RowsFound :
          rows' = [ j \in JobIds |->
                      IF ReconcileOnBoot THEN Reconciled(found[j]) ELSE found[j] ]
    BY DEF Restart
  <1>2. /\ disk' = rows' /\ faults' = 0 /\ said' = said /\ restarts' \in 0..MaxRestarts
        /\ task' = [ j \in JobIds |-> "none" ] /\ record' = [ j \in JobIds |-> NoRow ]
        /\ restarts' # 0
    BY JobLedgerAssumption DEF Restart, Inv, OtherTypes
  <1>3. ASSUME NEW j \in JobIds
        PROVE  /\ rows'[j] \in {NoRow} \cup RowType /\ RowOK(rows'[j])
               /\ ReconcileOnBoot => rows'[j].state \notin NonTerminal
               /\ TailOK(rows'[j], said[j])
               /\ Durable => (disk[j].state \in TerminalStates => rows'[j] = disk[j])
    <2>1. found[j] \in {NoRow} \cup RowType /\ RowOK(found[j]) /\ TailOK(found[j], said[j])
      <3>1. RowOK(NoRow) /\ TailOK(NoRow, said[j])
        BY DEF RowOK, TailOK
      <3>. QED
        BY <3>1, Found DEF Inv, StoreInv, TailInv, Table
    <2>2. rows'[j] = IF ReconcileOnBoot THEN Reconciled(found[j]) ELSE found[j]
      BY <1>1
    <2>. QED
      BY <2>1, <2>2, ReconciledRow, Found
  <1>4. rows' \in Table
    BY <1>1, <1>3 DEF Table
  <1>5. StoreInv(rows, disk, faults)'
    BY <1>2, <1>3, <1>4, JobLedgerAssumption DEF StoreInv, RowOK, Table
  <1>6. TaskInv' /\ OrphanInv'
    BY <1>2, <1>3 DEF TaskInv, TaskOK, OrphanInv, Swept
  <1>7. TailInv'
    BY <1>2, <1>3 DEF TailInv, TailOK, Latest
  <1>8. OtherTypes'
    BY <1>2 DEF OtherTypes, Inv, Table, RowOK
  <1>. QED
    BY <1>2, <1>3, <1>5, <1>6, <1>7, <1>8 DEF Inv, VerdictsKept

-----------------------------------------------------------------------------
(* The invariant *)

LEMMA InitInv == Init => Inv
  <1>. SUFFICES ASSUME Init PROVE Inv
    OBVIOUS
  <1>1. OtherTypes /\ StoreInv(rows, disk, faults)
    BY Shapes, JobLedgerAssumption DEF Init, OtherTypes, StoreInv, Table, RowOK
  <1>. QED
    BY <1>1, Shapes DEF Init, Inv, TaskInv, TaskOK, OrphanInv, TailInv, TailOK

LEMMA NextInv ==
  ASSUME Inv, [Next]_vars
  PROVE  Inv' /\ (Durable => VerdictsKept)
  <1>1. ASSUME NEW j \in JobIds, NEW action \in Actions, Submit(j, action)
        PROVE  Inv' /\ VerdictsKept
    BY <1>1, SubmitStep
  <1>2. ASSUME NEW j \in JobIds, TaskStep(j) PROVE Inv' /\ VerdictsKept
    BY <1>2, BeginStep, EmitStep, EndsStep DEF TaskStep
  <1>3. CASE Restart
    BY <1>3, RestartStep
  <1>4. CASE UNCHANGED vars
    <2>1. OtherTypes' /\ StoreInv(rows, disk, faults)' /\ VerdictsKept
      BY <1>4 DEF vars, storeVars, Inv, OtherTypes, StoreInv, RowOK, VerdictsKept
    <2>2. TaskInv' /\ TailInv'
      <3>1. ASSUME NEW j \in JobIds PROVE TaskOK(j)'
        <4>1. TaskOK(j)
          BY DEF Inv, TaskInv
        <4>. QED
          BY <1>4, <4>1 DEF vars, storeVars, TaskOK, Latest
      <3>2. ASSUME NEW j \in JobIds PROVE TailOK(rows[j], said[j])' /\ TailOK(disk[j], said[j])'
        <4>1. TailOK(rows[j], said[j]) /\ TailOK(disk[j], said[j])
          BY DEF Inv, TailInv
        <4>. QED
          BY <1>4, <4>1 DEF vars, storeVars, TailOK, Latest
      <3>. QED
        BY <3>1, <3>2 DEF TaskInv, TailInv
    <2>3. OrphanInv'
      BY <1>4 DEF vars, storeVars, Inv, OrphanInv, Swept
    <2>. QED
      BY <2>1, <2>2, <2>3 DEF Inv
  <1>. QED
    BY <1>1, <1>2, <1>3, <1>4 DEF Next

LEMMA InvHolds == Spec => []Inv
  <1>1. Inv /\ [Next]_vars => Inv'
    BY NextInv
  <1>. QED
    BY <1>1, InitInv, PTL DEF Spec

\* The state keeps its shape.
THEOREM TypesHold == Spec => []TypeOK
  <1>1. Inv => TypeOK
    BY DEF Inv, OtherTypes, StoreInv, TypeOK
  <1>. QED
    BY <1>1, InvHolds, PTL

\* Whichever writes fail, a job whose task may run its executor has its row in
\* flight, and committed.
THEOREM LaneIsHeld == Spec => []LaneHeld
  <1>1. Inv => LaneHeld
    <2>. SUFFICES ASSUME Inv, NEW j \in JobIds, task[j] # "none"
                  PROVE  rows[j].state \in NonTerminal /\ disk[j] = rows[j]
      BY DEF LaneHeld
    <2>. QED
      BY Tasked DEF NonTerminal
  <1>. QED
    BY <1>1, InvHolds, PTL

\* Rows in flight without a task come from failed writes alone, as long as no
\* boot has found rows it did not reconcile: in the first process always ...
THEOREM OrphansAreSwept == Spec => [](Swept => OnlyFaultsOrphan)
  <1>1. Inv => (Swept => OnlyFaultsOrphan)
    <2>. SUFFICES ASSUME Inv, Swept, faults = 0, NEW j \in JobIds
                  PROVE  rows = disk /\ (rows[j].state \in NonTerminal <=> task[j] # "none")
      BY DEF OnlyFaultsOrphan, Inv, StoreInv
    <2>1. rows = disk /\ (rows[j].state \in NonTerminal => task[j] # "none")
      BY DEF Inv, StoreInv, OrphanInv
    <2>2. task[j] # "none" => rows[j].state \in NonTerminal
      BY Tasked DEF NonTerminal
    <2>. QED
      BY <2>1, <2>2
  <1>. QED
    BY <1>1, InvHolds, PTL

\* ... and in every process of an entrypoint that reconciles.
THEOREM OrphansAreFaults == ASSUME ReconcileOnBoot PROVE Spec => []OnlyFaultsOrphan
  <1>1. Swept
    BY DEF Swept
  <1>2. (Swept => OnlyFaultsOrphan) => OnlyFaultsOrphan
    BY <1>1
  <1>. QED
    BY <1>2, OrphansAreSwept, PTL

\* A row's tail is the latest of what was said, for every tail limit.
THEOREM TailsAreLatest == Spec => []TailIsLatest
  <1>1. Inv => TailIsLatest
    <2>. SUFFICES ASSUME Inv, NEW j \in JobIds, rows[j] # NoRow
                  PROVE  /\ \E n \in 0..said[j] : rows[j].tail = Latest(n)
                         /\ task[j] # "none" \/ rows[j].state \in {"done", "failed"}
                              => rows[j].tail = Latest(said[j])
      BY DEF TailIsLatest
    <2>1. TailOK(rows[j], said[j])
      BY DEF Inv, TailInv
    <2>2. task[j] # "none" => rows[j].tail = Latest(said[j])
      BY Tasked
    <2>. QED
      BY <2>1, <2>2 DEF TailOK
  <1>. QED
    BY <1>1, InvHolds, PTL

\* No write, restart or reconcile changes a committed verdict.
THEOREM VerdictsAreFinal == Spec => VerdictIsFinal
  <1>1. Inv /\ [Next]_vars =>
          [ Durable => \A j \in JobIds :
              disk[j].state \in TerminalStates => disk'[j] = disk[j] ]_vars
    BY NextInv DEF VerdictsKept
  <1>. QED
    BY <1>1, InvHolds, PTL DEF Spec, VerdictIsFinal

-----------------------------------------------------------------------------
(* The refinement *)

LEMMA BriefRow ==
  /\ Brief(NoRow) = NoRow
  /\ \A r \in RowType :
       /\ Brief(r) = [ state |-> r.state, action |-> r.action ]
       /\ Brief(r) # NoRow
  BY Shapes DEF Brief, NoRow

LEMMA BriefsPrimed ==
  /\ Briefs(rows)' = Briefs(rows') /\ Briefs(disk)' = Briefs(disk')
  BY DEF Briefs, Brief

LEMMA BriefsAt ==
  ASSUME NEW table, NEW j \in JobIds
  PROVE  Briefs(table)[j] = Brief(table[j])
  BY DEF Briefs

\* What writing a row does to the runner's ledger.
LEMMA BriefsWritten ==
  ASSUME NEW table \in Table, NEW j \in JobIds, NEW row
  PROVE  Briefs([ table EXCEPT ![j] = row ]) = [ Briefs(table) EXCEPT ![j] = Brief(row) ]
  <1>1. \A k \in JobIds : [ table EXCEPT ![j] = row ][k] = IF k = j THEN row ELSE table[k]
    BY DEF Table
  <1>. DEFINE new == [ table EXCEPT ![j] = row ]
  <1>. HIDE DEF new
  <1>2. Briefs(table) = [ k \in JobIds |-> Brief(table[k]) ]
        /\ Briefs(new) = [ k \in JobIds |-> Brief(new[k]) ]
    BY DEF Briefs
  <1>3. Briefs(new) = [ k \in JobIds |-> IF k = j THEN Brief(row) ELSE Brief(table[k]) ]
    BY <1>1, <1>2 DEF new
  <1>. QED
    BY <1>2, <1>3 DEF new

\* A write, however it ends, is a write of the runner's store.
LEMMA RunnerWrites ==
  ASSUME Inv, NEW j \in JobIds, NEW row, NEW t \in Upserts(Store, j, row),
         StoreBecomes(t), NEW new, new = [ Briefs(rows) EXCEPT ![j] = Brief(row) ]
  PROVE  IF t.ok THEN Runner!Saves(new) ELSE Runner!Loses(new)
  <1>. DEFINE written == [ rows EXCEPT ![j] = row ]
  <1>1. /\ Store.rows = rows /\ Store.disk = disk /\ Store.faults = faults
        /\ rows' = t.rows /\ disk' = t.disk /\ faults' = t.faults
    BY DEF Store, StoreBecomes
  <1>2. Briefs(written) = new
    BY BriefsWritten DEF Inv, StoreInv
  <1>3. CASE t.ok
    <2>1. rows' = written /\ disk' = written /\ faults' = faults
      BY <1>1, <1>3, UpsertsWays
    <2>. QED
      BY <1>2, <1>3, <2>1, BriefsPrimed DEF Runner!Saves
  <1>4. CASE ~t.ok
    <2>1. /\ faults < MaxFaults /\ faults' = faults + 1
          /\ rows' \in { rows, written, disk } /\ disk' = disk
      BY <1>1, <1>4, UpsertsWays
    <2>2. Briefs(rows') \in { Briefs(rows), new, Briefs(disk) }
      BY <1>2, <2>1
    <2>. QED
      BY <1>4, <2>1, <2>2, BriefsPrimed DEF Runner!Loses, Runner!Leftovers
  <1>. QED
    BY <1>3, <1>4

LEMMA RunnerSubmit ==
  ASSUME Inv, NEW j \in JobIds, NEW action \in Actions, Submit(j, action)
  PROVE  Runner!Next
  <1>. DEFINE row == NewRow(action)
              new == [ Briefs(rows) EXCEPT ![j] = Brief(row) ]
  <1>1. PICK t \in Upserts(Store, j, row) :
          /\ StoreBecomes(t)
          /\ IF t.ok THEN task' = [ task EXCEPT ![j] = "scheduled" ] ELSE task' = task
    BY DEF Submit
  <1>2. IF t.ok THEN Runner!Saves(new) ELSE Runner!Loses(new)
    BY <1>1, RunnerWrites
  <1>3. new = Runner!With(j, Runner!NewRow(action))
    BY DEF NewRow, Brief, NoRow, Runner!With, Runner!NewRow
  <1>4. Runner!Fresh(j)
    <2>1. Briefs(rows)[j] = NoRow
      BY BriefRow, BriefsAt DEF Submit
    <2>2. ASSUME NEW k \in JobIds, k < j PROVE Briefs(rows)[k] # NoRow
      <3>1. rows[k] # NoRow
        BY <2>2, JobLedgerAssumption DEF Submit, JobIds
      <3>2. rows[k] \in RowType
        BY <3>1 DEF Inv, StoreInv, Table
      <3>. QED
        BY <3>2, BriefRow, BriefsAt
    <2>. QED
      BY <2>1, <2>2 DEF Runner!Fresh, Runner!NoRow, NoRow, Runner!JobIds, JobIds
  <1>5. UNCHANGED restarts
    BY DEF Submit
  <1>. HIDE DEF new, row
  <1>6. Runner!Submit(j, action) \/ Runner!SubmitRaises(j, action)
    BY <1>1, <1>2, <1>3, <1>4, <1>5 DEF Runner!Submit, Runner!SubmitRaises
  <1>. QED
    BY <1>6 DEF Runner!Next, Runner!SubmitAny, Runner!JobIds, JobIds

\* A row of the runner's ledger with another state.
LEMMA RunnerMarks ==
  ASSUME NEW table \in Table, NEW j \in JobIds, table[j] \in RowType,
         NEW row \in RowType, row.action = table[j].action
  PROVE  [ Briefs(table) EXCEPT ![j] = Brief(row) ] =
         [ Briefs(table) EXCEPT ![j].state = row.state ]
  <1>1. /\ Brief(row) = [ state |-> row.state, action |-> row.action ]
        /\ Briefs(table)[j] = [ state |-> table[j].state, action |-> table[j].action ]
    BY BriefRow, BriefsAt
  <1>2. Brief(row) = [ Briefs(table)[j] EXCEPT !.state = row.state ]
    BY <1>1
  <1>. QED
    BY <1>2

LEMMA RunnerBegin ==
  ASSUME Inv, NEW j \in JobIds, Begin(j)
  PROVE  Runner!Next
  <1>. DEFINE row == [ record[j] EXCEPT !.state = "running" ]
              new == [ Briefs(rows) EXCEPT ![j] = Brief(row) ]
  <1>1. PICK t \in Upserts(Store, j, row) :
          /\ StoreBecomes(t)
          /\ IF t.ok THEN task' = [ task EXCEPT ![j] = "executing" ]
                     ELSE task' = [ task EXCEPT ![j] = "none" ]
    BY DEF Begin, TaskOver
  <1>2. IF t.ok THEN Runner!Saves(new) ELSE Runner!Loses(new)
    BY <1>1, RunnerWrites
  <1>3. /\ task[j] = "scheduled" /\ UNCHANGED restarts
        /\ record[j] \in RowType /\ rows[j] = record[j] /\ rows \in Table
    BY Tasked DEF Begin, Inv, StoreInv
  <1>4. row \in RowType /\ row.state = "running" /\ row.action = record[j].action
    BY <1>3 DEF RowType, NonTerminal
  <1>. HIDE DEF row
  <1>5. new = Runner!Marked(j, "running")
    <2>1. rows[j] \in RowType /\ row.action = rows[j].action
      BY <1>3, <1>4
    <2>2. [ Briefs(rows) EXCEPT ![j] = Brief(row) ] = [ Briefs(rows) EXCEPT ![j].state = row.state ]
      BY <1>3, <1>4, <2>1, RunnerMarks
    <2>. QED
      BY <1>4, <2>2 DEF Runner!Marked
  <1>. HIDE DEF new
  <1>6. Runner!BeginAny(j)
    BY <1>1, <1>2, <1>3, <1>5 DEF Runner!BeginAny, Runner!Begin, Runner!BeginRaises
  <1>. QED
    BY <1>6 DEF Runner!Next, Runner!JobIds, JobIds

LEMMA RunnerEnds ==
  ASSUME Inv, NEW j \in JobIds, Ends(j)
  PROVE  Runner!Next
  <1>1. PICK result \in Results : Finish(j, record[j], result, Store)
    BY DEF Ends
  <1>. DEFINE row == Finished(record[j], result)
              new == [ Briefs(rows) EXCEPT ![j] = Brief(row) ]
  <1>2. PICK t \in Upserts(Store, j, row) : StoreBecomes(t)
    BY <1>1 DEF Finish
  <1>3. Runner!Saves(new) \/ Runner!Loses(new)
    BY <1>2, RunnerWrites
  <1>4. /\ task[j] = "executing" /\ UNCHANGED restarts
        /\ task' = [ task EXCEPT ![j] = "none" ]
        /\ record[j] \in RowType /\ rows[j] = record[j] /\ rows \in Table
    BY <1>1, Tasked DEF Ends, Finish, TaskOver, Inv, StoreInv
  <1>5. /\ row \in RowType /\ row.action = record[j].action
        /\ row.state \in {"done", "failed"}
    BY <1>4 DEF Finished, RowType, TerminalStates
  <1>. HIDE DEF row
  <1>6. new = Runner!Marked(j, row.state)
    <2>1. rows[j] \in RowType /\ row.action = rows[j].action
      BY <1>4, <1>5
    <2>2. [ Briefs(rows) EXCEPT ![j] = Brief(row) ] = [ Briefs(rows) EXCEPT ![j].state = row.state ]
      BY <1>4, <1>5, <2>1, RunnerMarks
    <2>. QED
      BY <1>5, <2>2 DEF Runner!Marked
  <1>. HIDE DEF new
  <1>7. Runner!End(j, row.state)
    BY <1>3, <1>4, <1>5, <1>6 DEF Runner!End
  <1>. QED
    BY <1>5, <1>7 DEF Runner!Next, Runner!EndAny, Runner!JobIds, JobIds

\* A line of output commits what there is, or it is the end of the job.
LEMMA RunnerEmit ==
  ASSUME Inv, NEW j \in JobIds, Emit(j)
  PROVE  Runner!Next
  <1>. DEFINE row == [ record[j] EXCEPT !.tail = Bounded(Append(@, said[j] + 1)) ]
  <1>1. PICK t \in Upserts(Store, j, row) :
          \/ t.ok /\ StoreBecomes(t) /\ task' = task
          \/ ~t.ok /\ Finish(j, row, "error", t)
    BY DEF Emit
  <1>2. /\ task[j] = "executing" /\ UNCHANGED restarts
        /\ record[j] \in RowType /\ record[j].state = "running"
        /\ rows[j] = record[j] /\ disk[j] = record[j]
        /\ rows \in Table /\ disk \in Table
    BY Tasked DEF Emit, Inv, StoreInv
  <1>3. /\ row.state = "running" /\ row.action = record[j].action /\ row # NoRow
        /\ Finished(row, "error").state = "failed"
        /\ Finished(row, "error").action = record[j].action
        /\ Finished(row, "error") # NoRow
    BY <1>2 DEF Finished, RowType, NoRow
  <1>. DEFINE over == Finished(row, "error")
  <1>. HIDE DEF row
  <1>4. Brief(row) = Brief(record[j])
    BY <1>2, <1>3, BriefRow DEF Brief
  <1>5. Briefs(rows)[j] = Brief(record[j]) /\ Briefs(disk)[j] = Brief(record[j])
    BY <1>2, BriefsAt
  <1>6. [ Briefs(rows) EXCEPT ![j] = Brief(row) ] = Briefs(rows)
    BY <1>4, <1>5 DEF Briefs
  <1>7. CASE t.ok
    <2>1. StoreBecomes(t) /\ task' = task
      BY <1>1, <1>7
    <2>2. Runner!Saves(Briefs(rows))
      BY <1>6, <1>7, <2>1, RunnerWrites
    <2>3. Runner!Emit(j)
      BY <1>2, <2>1, <2>2 DEF Runner!Emit
    <2>. QED
      BY <2>3 DEF Runner!Next, Runner!JobIds, JobIds
  <1>8. CASE ~t.ok
    <2>1. /\ t.rows \in { rows, [ rows EXCEPT ![j] = row ], disk }
          /\ t.disk = disk /\ t.faults = faults + 1 /\ faults < MaxFaults
      <3>1. Store.rows = rows /\ Store.disk = disk /\ Store.faults = faults
        BY DEF Store
      <3>. QED
        BY <1>8, <3>1, UpsertsWays
    <2>. DEFINE left == Briefs(t.rows)
                failed == [ left EXCEPT ![j].state = "failed" ]
    <2>2. left \in { Briefs(rows), Briefs(disk) } /\ left[j] = Brief(record[j])
      BY <1>2, <1>5, <1>6, <2>1, BriefsWritten
    <2>3. PICK last \in Upserts(t, j, over) : StoreBecomes(last)
      BY <1>1, <1>8 DEF Finish
    <2>4. task' = [ task EXCEPT ![j] = "none" ]
      BY <1>1, <1>8 DEF Finish, TaskOver
    <2>5. Briefs([ t.rows EXCEPT ![j] = over ]) = failed
      <3>1. \A k \in JobIds :
              [ t.rows EXCEPT ![j] = over ][k] = IF k = j THEN over ELSE t.rows[k]
        BY <1>2, <2>1 DEF Table
      <3>2. Brief(over) = [ state |-> "failed", action |-> record[j].action ]
        BY <1>3 DEF Brief
      <3>3. Brief(record[j]) = [ state |-> "running", action |-> record[j].action ]
        BY <1>2, BriefRow
      <3>4. Brief(over) = [ left[j] EXCEPT !.state = "failed" ]
        BY <2>2, <3>2, <3>3
      <3>. HIDE DEF over
      <3>5. failed = [ left EXCEPT ![j] = Brief(over) ]
        BY <3>4
      <3>. QED
        BY <3>1, <3>5 DEF Briefs
    <2>6. rows' = last.rows /\ disk' = last.disk /\ faults' = last.faults
      BY <2>3 DEF StoreBecomes
    <2>. HIDE DEF left, over
    <2>7. CASE last.ok
      <3>1. /\ rows' = [ t.rows EXCEPT ![j] = over ] /\ disk' = rows'
            /\ faults' = faults + 1
        BY <2>1, <2>3, <2>6, <2>7, UpsertsWays
      <3>2. Briefs(rows)' = failed /\ Briefs(disk)' = failed
        BY <2>5, <3>1, BriefsPrimed
      <3>. QED
        BY <1>2, <2>1, <2>2, <2>4, <3>1, <3>2
           DEF Runner!EmitRaises, Runner!Next, Runner!EndAny, Runner!JobIds, JobIds
    <2>8. CASE ~last.ok
      <3>1. /\ rows' \in { t.rows, [ t.rows EXCEPT ![j] = over ], disk } /\ disk' = disk
            /\ t.faults < MaxFaults /\ faults' = t.faults + 1
        <4>1. /\ last.rows \in { t.rows, [ t.rows EXCEPT ![j] = over ], t.disk }
              /\ last.disk = t.disk
              /\ t.faults < MaxFaults /\ last.faults = t.faults + 1
          <5>. HIDE DEF failed
          <5>1. \/ last.ok
                \/ /\ last.rows \in { t.rows, [ t.rows EXCEPT ![j] = over ], t.disk }
                   /\ last.disk = t.disk
                   /\ t.faults < MaxFaults /\ last.faults = t.faults + 1
            <6>1. \/ /\ last.ok
                     /\ last.rows = [ t.rows EXCEPT ![j] = over ]
                     /\ last.disk = last.rows
                     /\ last.faults = t.faults
                  \/ /\ ~last.ok
                     /\ t.faults < MaxFaults
                     /\ last.rows \in { t.rows, [ t.rows EXCEPT ![j] = over ], t.disk }
                     /\ last.disk = t.disk
                     /\ last.faults = t.faults + 1
              BY UpsertsWays
            <6>. QED
              BY <6>1
          <5>. QED
            BY <2>8, <5>1
        <4>. QED
          BY <2>1, <2>6, <4>1
      <3>2. faults + 1 < MaxFaults /\ faults' = faults + 2
        BY <2>1, <3>1, JobLedgerAssumption DEF Inv, StoreInv
      <3>3. Briefs(rows') \in { left, failed, Briefs(disk) }
        BY <2>5, <3>1 DEF left
      <3>4. Briefs(rows)' \in { left, failed, Briefs(disk) } /\ Briefs(disk)' = Briefs(disk)
        BY <3>1, <3>3, BriefsPrimed
      <3>. QED
        BY <1>2, <2>1, <2>2, <2>4, <3>2, <3>4
           DEF Runner!EmitRaises, Runner!Next, Runner!EndAny, Runner!JobIds, JobIds
    <2>. QED
      BY <2>7, <2>8
  <1>. QED
    BY <1>7, <1>8

LEMMA RunnerRestart ==
  ASSUME Inv, Restart
  PROVE  Runner!Next
  <1>1. PICK found \in RowsFound :
          rows' = [ j \in JobIds |->
                      IF ReconcileOnBoot THEN Reconciled(found[j]) ELSE found[j] ]
    BY DEF Restart
  <1>2. \A j \in JobIds : found[j] \in {NoRow} \cup RowType
    BY <1>1, Found DEF Inv, StoreInv, Table
  <1>3. Briefs(found) \in Runner!RowsOnBoot
    <2>1. CASE ~Durable
      BY <2>1, BriefRow DEF RowsFound, Briefs, Runner!RowsOnBoot, Runner!NoRow, NoRow,
         Runner!JobIds, JobIds
    <2>2. CASE Durable /\ found = disk
      BY <2>2 DEF Runner!RowsOnBoot
    <2>3. CASE Durable /\ found # disk
      <3>1. PICK k \in JobIds :
              task[k] = "executing" /\ found = [ rows EXCEPT ![k] = record[k] ]
        BY <2>3 DEF RowsFound
      <3>2. rows[k] = record[k] /\ rows \in Table
        BY <3>1, Tasked DEF Inv, StoreInv
      <3>3. found = rows
        BY <3>1, <3>2 DEF Table
      <3>. QED
        BY <2>3, <3>1, <3>3 DEF Runner!RowsOnBoot, Runner!JobIds, JobIds
    <2>. QED
      BY <2>1, <2>2, <2>3
  <1>4. ASSUME NEW j \in JobIds
        PROVE  Brief(Reconciled(found[j])) =
                 IF Brief(found[j]).state \in NonTerminal
                   THEN [ Brief(found[j]) EXCEPT !.state = "unknown" ]
                   ELSE Brief(found[j])
    <2>1. CASE found[j] = NoRow
      BY <2>1, BriefRow, Shapes DEF Reconciled
    <2>2. CASE found[j] \in RowType
      <3>1. Brief(found[j]) = [ state |-> found[j].state, action |-> found[j].action ]
        BY <2>2, BriefRow
      <3>2. CASE found[j].state \in NonTerminal
        <4>1. /\ Reconciled(found[j]) \in RowType
              /\ Reconciled(found[j]).state = "unknown"
              /\ Reconciled(found[j]).action = found[j].action
          BY <2>2, <3>2 DEF Reconciled, RowType, TerminalStates
        <4>. QED
          BY <3>1, <3>2, <4>1, BriefRow
      <3>3. CASE found[j].state \notin NonTerminal
        BY <3>1, <3>3 DEF Reconciled
      <3>. QED
        BY <3>2, <3>3
    <2>. QED
      BY <1>2, <2>1, <2>2
  <1>5. Briefs(rows') = IF ReconcileOnBoot THEN Runner!Reconciled(Briefs(found)) ELSE Briefs(found)
    <2>1. CASE ReconcileOnBoot
      <3>1. Briefs(rows') = [ j \in JobIds |-> Brief(Reconciled(found[j])) ]
        BY <1>1, <2>1 DEF Briefs
      <3>. QED
        BY <1>4, <2>1, <3>1
           DEF Briefs, Runner!Reconciled, Runner!JobIds, JobIds, Runner!NonTerminal, NonTerminal
    <2>2. CASE ~ReconcileOnBoot
      BY <1>1, <2>2 DEF Briefs
    <2>. QED
      BY <2>1, <2>2
  <1>6. Briefs(disk)' = Briefs(rows)'
    BY BriefsPrimed DEF Restart
  <1>7. Runner!Restart
    BY <1>3, <1>5, <1>6, BriefsPrimed
       DEF Restart, Runner!Restart, Runner!JobIds, JobIds
  <1>. QED
    BY <1>7 DEF Runner!Next

\* jobs.py is JobRunner, the module the rest of the gateway is composed with:
\* whichever of its writes fail, and whatever a stopping process leaves.
THEOREM RunnerImplemented == Spec => ImplementsRunner
  <1>1. Init => Runner!Init
    BY BriefRow DEF Init, Runner!Init, Briefs, Runner!JobIds, JobIds, Runner!NoRow, NoRow
  <1>2. ASSUME Inv, [Next]_vars PROVE [Runner!Next]_(Runner!jobVars)
    <2>1. CASE UNCHANGED vars
      BY <2>1, BriefsPrimed
         DEF vars, storeVars, Runner!jobVars, Runner!storeVars
    <2>2. CASE Next
      <3>1. ASSUME NEW j \in JobIds, NEW action \in Actions, Submit(j, action)
            PROVE  Runner!Next
        BY <1>2, <3>1, RunnerSubmit
      <3>2. ASSUME NEW j \in JobIds, TaskStep(j) PROVE Runner!Next
        BY <1>2, <3>2, RunnerBegin, RunnerEmit, RunnerEnds DEF TaskStep
      <3>3. Restart => Runner!Next
        BY <1>2, RunnerRestart
      <3>. QED
        BY <2>2, <3>1, <3>2, <3>3 DEF Next
    <2>. QED
      BY <1>2, <2>1, <2>2
  <1>. QED
    BY <1>1, <1>2, InvHolds, PTL DEF Spec, ImplementsRunner, Runner!Spec

=============================================================================
