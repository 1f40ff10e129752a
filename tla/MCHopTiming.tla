---------------------------- MODULE MCHopTiming ----------------------------
(***************************************************************************)
(* Values for TLC: real slots last 100 to 1500 ms with delays of 50 ms;    *)
(* the ratios, not the sizes, decide which cases occur.                    *)
(***************************************************************************)
EXTENDS HopTiming

\* Slots 1 and 2 share an address, and so do 3 and 5.
MCAddrOf == [k \in 0..MaxSlot+2 |-> IF k = 2 THEN 1 ELSE IF k = 5 THEN 3 ELSE k]

\* NewServerConn is done before the slot in which it was called ends.
BootWithinSlot == 0..SlotLen-1-HopTime

\* The values satisfy what the theorems of HopTimingProofs assume.
ASSUME MCDelays == Prompt /\ WritesShort /\ ClientsAccurate

=============================================================================
