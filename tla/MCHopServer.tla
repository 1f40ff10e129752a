---------------------------- MODULE MCHopServer ----------------------------
(***************************************************************************)
(* Values of AddrOf for TLC.  Real addresses are a hash of the slot number *)
(* modulo 5,060,000, so any two slots may share one.                       *)
(***************************************************************************)
EXTENDS HopServer

\* Slots 1 and 2 share their address: the pre-bind of slot 2 fails because
\* the current socket holds it.  So do slots 3 and 5: when 5 is to be bound,
\* the socket of 3 has just been retired.
Clashing == [k \in 0..MaxSlot+2 |-> IF k = 2 THEN 1 ELSE IF k = 5 THEN 3 ELSE k]

=============================================================================
