----------------------------- MODULE MCSession -----------------------------
(***************************************************************************)
(* Three requests, two tokens and one that is not ASCII.                   *)
(***************************************************************************)
EXTENDS Session

NotAscii == {"umlaut"}

=============================================================================
