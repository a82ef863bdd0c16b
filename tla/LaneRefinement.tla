--------------------------- MODULE LaneRefinement ---------------------------
(***************************************************************************)
(* ServerControl implements Lane.  The operation the outside sees is the   *)
(* newest row of the job ledger: busy while its row is in flight.          *)
(***************************************************************************)
EXTENDS ServerControl, FiniteSetsExt

MadeJobs == { j \in JobIds : ledger[j] # Jobs!NoRow }

NewestOp ==
  IF MadeJobs = {}
    THEN [ id |-> 0, op |-> "none", recipe |-> NoRecipe, state |-> "none" ]
    ELSE LET j == Max(MadeJobs)
         IN  [ id |-> j, op |-> Job(j).op, recipe |-> Job(j).recipe,
               state |-> IF j \in InFlight THEN "busy" ELSE ledger[j].state ]

Abstract == INSTANCE Lane WITH last <- NewestOp, MaxOps <- MaxJobs

\* Every step of the gateway, its jobs and its scripts, a crash and a restart
\* included, is a step of the abstract lane or leaves it alone: operations one
\* at a time, starts on free lanes only, true verdicts, and no effect on the
\* nodes from a script whose operation is over.
ImplementsLane == Abstract!Spec

=============================================================================
