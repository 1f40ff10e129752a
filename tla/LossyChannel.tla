---------------------------- MODULE LossyChannel ----------------------------
(***************************************************************************)
(* What the receive path promises to QUIC, and all that QUIC asks of a     *)
(* packet connection: of the packets given to a socket, some are handed    *)
(* over, each at most once and in the order in which they came.            *)
(***************************************************************************)
EXTENDS Naturals

CONSTANT Sockets

VARIABLES
  given,  \* how many packets each socket has been given
  got,    \* the number of the last packet of each socket that was handed over
  handed  \* how many of each socket have been

vars == <<given, got, handed>>

Init ==
  /\ given = [s \in Sockets |-> 0]
  /\ got = [s \in Sockets |-> 0]
  /\ handed = [s \in Sockets |-> 0]

Give(s) ==
  /\ given' = [given EXCEPT ![s] = @ + 1]
  /\ UNCHANGED <<got, handed>>

HandOver(s) ==
  /\ \E n \in got[s]+1..given[s] : got' = [got EXCEPT ![s] = n]
  /\ handed' = [handed EXCEPT ![s] = @ + 1]
  /\ UNCHANGED given

Next == \E s \in Sockets : Give(s) \/ HandOver(s)

Spec == Init /\ [][Next]_vars

=============================================================================
