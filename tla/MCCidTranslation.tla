-------------------------- MODULE MCCidTranslation --------------------------
(***************************************************************************)
(* Values for TLC.  ClearLimit is 10 in the code; what matters is how it   *)
(* compares with what the network may lose and reorder.                    *)
(***************************************************************************)
EXTENDS CidTranslation, TLC

CONSTANTS c1, c2, c3, c4, p1, p2

\* A single ID.
Single == c1 :> p1

\* Two IDs that share their first 56 bits, one that has its own, and one whose
\* 56 bits the index leaves out.
Colliding == c1 :> p1 @@ c2 :> p1 @@ c3 :> p2 @@ c4 :> Zero

\* Neither the seeds, nor the addresses, nor the IDs that share a prefix differ.
Symmetry ==
  Permutations(Seeds) \cup Permutations(Addrs) \cup Permutations({c1, c2})

=============================================================================
