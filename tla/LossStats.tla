----------------------------- MODULE LossStats -----------------------------
(***************************************************************************)
(* The loss statistics of client/main.go and server/main.go.  A tracer     *)
(* counts the 1-RTT packets that QUIC sends and those it declares lost;    *)
(* snapshotLoss loads the two counters one after the other, before and     *)
(* after a task, while QUIC goes on.  A packet is declared lost, if it is, *)
(* some time after it was sent.                                            *)
(***************************************************************************)
EXTENDS Naturals

CONSTANTS
  MaxSent,    \* bound: packets sent during a task
  MaxEarlier  \* bound: packets sent before it, by this connection or another

ASSUME LossConstants == {MaxSent, MaxEarlier} \subseteq Nat

VARIABLES
  sent, lost,   \* the counters
  outstanding,  \* the packets sent that are neither acknowledged nor lost
  preSent, preLost, postSent, postLost,  \* what the snapshots have loaded
  pending,      \* history: outstanding when preLost was loaded
  during        \* history: sent between the loads of postSent and postLost

counters == <<sent, lost, outstanding>>
loads == <<preSent, preLost, postSent, postLost, pending, during>>
lossVars == <<counters, loads>>

LossTypeOK ==
  {sent, lost, outstanding, preSent, preLost, postSent, postLost, pending,
   during} \subseteq Nat

\* A server's counters are those of all the connections of its slot.
LossInit ==
  /\ sent \in 0..MaxEarlier /\ lost \in 0..sent
  /\ outstanding \in 0..sent-lost
  /\ preSent = 0 /\ preLost = 0 /\ postSent = 0 /\ postLost = 0
  /\ pending = 0 /\ during = 0

\* RecordEvent, for packets of type 1-RTT.
RecordSent ==
  /\ sent < MaxEarlier + MaxSent
  /\ sent' = sent + 1
  /\ outstanding' = outstanding + 1
  /\ UNCHANGED <<lost, loads>>

RecordLost ==
  /\ outstanding > 0
  /\ lost' = lost + 1
  /\ outstanding' = outstanding - 1
  /\ UNCHANGED <<sent, loads>>

Acknowledged ==
  /\ outstanding > 0
  /\ outstanding' = outstanding - 1
  /\ UNCHANGED <<sent, lost, loads>>

Quic == RecordSent \/ RecordLost \/ Acknowledged

\* snapshotLoss, before the task.
LoadPreSent ==
  /\ preSent' = sent
  /\ UNCHANGED <<counters, preLost, postSent, postLost, pending, during>>

\* Mutant of LoadPreLost: the losses before the task are not loaded.
LoadNoPreLost ==
  /\ pending' = outstanding
  /\ UNCHANGED <<counters, preSent, preLost, postSent, postLost, during>>

LoadPreLost ==
  /\ preLost' = lost
  /\ pending' = outstanding
  /\ UNCHANGED <<counters, preSent, postSent, postLost, during>>

\* snapshotLoss, after the task.
LoadPostSent ==
  /\ postSent' = sent
  /\ UNCHANGED <<counters, preSent, preLost, postLost, pending, during>>

LoadPostLost ==
  /\ postLost' = lost
  /\ during' = sent - postSent
  /\ UNCHANGED <<counters, preSent, preLost, postSent, pending>>

=============================================================================
