--------------------------- MODULE MCCalibration ---------------------------
(***************************************************************************)
(* Calibration for TLC: a server's clock behind the client's by as much as *)
(* a packet takes (the first request is answered by 0), a little behind,   *)
(* and ahead.                                                              *)
(***************************************************************************)
EXTENDS Calibration

MCOffsets == {-3, 0, 4}

=============================================================================
