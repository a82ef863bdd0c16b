---------------------------- MODULE MCJobLedger ----------------------------
(***************************************************************************)
(* jobs.py on its own, with a ledger that survives and a boot that         *)
(* reconciles it: what it promises to whoever uses it so.                  *)
(***************************************************************************)
EXTENDS JobLedger

OneAction == {"start"}

=============================================================================
