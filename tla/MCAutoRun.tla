----------------------------- MODULE MCAutoRun -----------------------------
(***************************************************************************)
(* Values for TLC: the programs have 17 slots of 20 tasks.                 *)
(***************************************************************************)
EXTENDS AutoRun

\* The end of the list in the programs.
Ending == <<200, 100, 100, 99999999>>

=============================================================================
