---------------------------- MODULE Calibration ----------------------------
(***************************************************************************)
(* Calibration over UDP: StartCalibrationServer stamps what it receives    *)
(* with its clock, SyncWithServer estimates from up to three exchanges by  *)
(* how much the server's clock, when a packet sent now arrives there, will *)
(* be ahead of the client's clock now.  clientWrite adds that estimate to  *)
(* the time to choose an address; HopTiming takes its error as MaxError.   *)
(*                                                                         *)
(* Time is the client's clock.  The server's differs by a constant.        *)
(***************************************************************************)
EXTENDS Integers, Sequences, FiniteSets

CONSTANTS
  Epoch,               \* when the call begins; clocks show large numbers
  Offsets,             \* the differences there may be between the clocks
  MinDelay, MaxDelay,  \* how long a packet may take, in either direction,
                       \* the time either program takes to handle it included
  Copies,              \* most copies the network makes of a packet
  Gap,                 \* most time from one step of the client to the next
  Timeout,             \* the deadline of a read: 1 s
  Default              \* what is returned without any measurement: 10 ms

ASSUME CalibrationConstants ==
  /\ {Epoch, MinDelay, MaxDelay, Timeout, Default} \subseteq Nat
  /\ Offsets \subseteq Int
  /\ \A o \in Offsets : Epoch + o > 0
  /\ MinDelay <= MaxDelay
  /\ Gap \in Nat \ {0}

VARIABLES
  now,        \* the client's clock
  offset,     \* the server's clock minus the client's
  net,        \* the packets under way, with their time of arrival
  inbox,      \* the answers in the buffer of the client's socket
  pc,         \* the client: "send", "read", "done", or "gaveUp" unmeasured
  attempt,    \* i + 1
  toSend,     \* the time it puts in its next request
  tSend,      \* when it sent the last request
  by,         \* when its next step is due
  lastDelta, lastRtt, sumDelta, sumRtt, count,
  result,     \* what SyncWithServer has returned
  stale       \* history: an attempt took the answer to an earlier request

network == <<net, inbox>>
samples == <<lastDelta, lastRtt, sumDelta, sumRtt, count>>
vars == <<now, offset, network, pc, attempt, toSend, tSend, by, samples,
          result, stale>>

maxAttempts == 3
Running == pc \in {"send", "read"}

\* A packet: the request it is or answers, the time it carries, when it comes.
Packet == [to : {"server", "client"}, no : 1..maxAttempts, ns : Int, at : Int]
Answer == [no : 1..maxAttempts, ns : Int]

TypeOK ==
  /\ now \in Int /\ offset \in Offsets
  /\ net \subseteq Packet
  /\ inbox \in Seq(Answer)
  /\ pc \in {"send", "read", "done", "gaveUp"}
  /\ attempt \in 1..maxAttempts
  /\ toSend \in Int /\ tSend \in Int /\ by \in Int
  /\ lastDelta \in Int /\ lastRtt \in Nat /\ sumDelta \in Int /\ sumRtt \in Nat
  /\ count \in attempt-1..attempt
  /\ result \in Int
  /\ stale \in BOOLEAN

Init ==
  /\ now = Epoch
  /\ offset \in Offsets
  /\ net = {}
  /\ inbox = << >>
  /\ pc = "send"
  /\ attempt = 1
  /\ toSend = Epoch
  /\ tSend = Epoch
  /\ by = Epoch + Gap
  /\ lastDelta = 0 /\ lastRtt = 0 /\ sumDelta = 0 /\ sumRtt = 0 /\ count = 0
  /\ result = 0
  /\ stale = FALSE

-----------------------------------------------------------------------------
(* Time and the network.                                                   *)

\* Nothing that is due is left undone.
Tick ==
  /\ Running
  /\ now < by
  /\ \A p \in net : now < p.at
  /\ now' = now + 1
  /\ UNCHANGED <<offset, network, pc, attempt, toSend, tSend, by, samples,
                 result, stale>>

\* What becomes of a packet: lost, delayed, or delivered more than once.
Sent(to, no, ns) ==
  { {[to |-> to, no |-> no, ns |-> ns, at |-> t] : t \in times} :
      times \in {ts \in SUBSET (now+MinDelay..now+MaxDelay) :
                   Cardinality(ts) <= Copies} }

\* The server's loop: a request that shows its own time is answered by 0.
StartCalibrationServer(p) ==
  /\ Running
  /\ p.to = "server" /\ p.at = now
  /\ LET nowNs == now + offset IN
       \E answers \in Sent("client", p.no, IF p.ns = nowNs THEN 0 ELSE nowNs) :
         net' = (net \ {p}) \cup answers
  /\ UNCHANGED <<now, offset, inbox, pc, attempt, toSend, tSend, by, samples,
                 result, stale>>

Earlier(a, b) == IF a < b THEN a ELSE b

Arrive(p) ==
  /\ Running
  /\ p.to = "client" /\ p.at = now
  /\ net' = net \ {p}
  /\ inbox' = Append(inbox, [no |-> p.no, ns |-> p.ns])
  /\ by' = IF pc = "read" THEN Earlier(by, now + Gap) ELSE by
  /\ UNCHANGED <<now, offset, pc, attempt, toSend, tSend, samples, result, stale>>

-----------------------------------------------------------------------------
(* SyncWithServer.                                                         *)

\* The socket is closed: what is under way reaches nobody.
Return(value, how) ==
  /\ result' = value
  /\ pc' = how
  /\ net' = {} /\ inbox' = << >>
  /\ UNCHANGED <<attempt, toSend, tSend, by>>

DialFails ==
  /\ pc = "send" /\ attempt = 1
  /\ Return(0, "gaveUp")
  /\ UNCHANGED <<now, offset, samples, stale>>

Send ==
  /\ pc = "send"
  /\ \E request \in Sent("server", attempt, toSend) : net' = net \cup request
  /\ tSend' = now
  /\ pc' = "read"
  /\ by' = now + Gap + (IF inbox = << >> THEN Timeout ELSE 0)
  /\ UNCHANGED <<now, offset, inbox, attempt, toSend, samples, result, stale>>

LastEstimate == lastDelta + lastRtt \div 2

\* Writing or reading fails: in the first attempt there is no measurement yet.
GiveUp ==
  /\ IF count > 0 THEN Return(LastEstimate, "done") ELSE Return(Default, "gaveUp")
  /\ UNCHANGED <<now, offset, samples, stale>>

\* Mutant of TimesOut: no deadline is set.
NeverTimesOut == FALSE

TimesOut == pc = "read" /\ now >= tSend + Timeout /\ GiveUp

SocketFails == Running /\ GiveUp

\* Go's division of integers truncates.
Quot(a, b) == IF a >= 0 THEN a \div b ELSE -((-a) \div b)

\* Mutant of Delta: the round trip's half is left out.
DeltaNoHalf(srvNs, rtt) == srvNs - tSend

Delta(srvNs, rtt) == srvNs - (tSend + rtt \div 2)

\* Mutant of Mean: the round trips are not averaged.
MeanOfDeltas == Quot(sumDelta', count') + sumRtt' \div 2

\* Of the sums with the last sample.
Mean == Quot(sumDelta', count') + Quot(sumRtt', count') \div 2

\* The answer 0 says that the request showed the server's time.
ReadZero ==
  /\ Head(inbox).ns = 0
  /\ Return(IF attempt = 1 THEN 0 ELSE LastEstimate, "done")
  /\ UNCHANGED samples

ReadTime ==
  LET rtt == now - tSend
      delta == Delta(Head(inbox).ns, rtt)
  IN
  /\ Head(inbox).ns # 0
  /\ lastDelta' = delta
  /\ lastRtt' = rtt
  /\ sumDelta' = sumDelta + delta
  /\ sumRtt' = sumRtt + rtt
  /\ count' = count + 1
  /\ IF attempt = maxAttempts
     THEN Return(Mean, "done")
     ELSE /\ attempt' = attempt + 1
          /\ toSend' = now + delta + rtt \div 2
          /\ pc' = "send"
          /\ by' = now + Gap
          /\ inbox' = Tail(inbox)
          /\ UNCHANGED <<net, tSend, result>>

\* The first answer in the buffer, whichever request it answers.
Read ==
  /\ pc = "read"
  /\ inbox # << >>
  /\ ReadZero \/ ReadTime
  /\ stale' = (stale \/ Head(inbox).no # attempt)
  /\ UNCHANGED <<now, offset>>

SyncWithServer == Send \/ Read \/ TimesOut

Next ==
  \/ Tick
  \/ \E p \in net : StartCalibrationServer(p) \/ Arrive(p)
  \/ SyncWithServer
  \/ DialFails
  \/ SocketFails

Spec == Init /\ [][Next]_vars

\* Time passes, the network delivers what it delivers, the client runs; nothing
\* forces a socket to fail.
Fairness ==
  /\ WF_vars(Tick)
  /\ WF_vars(SyncWithServer)
  /\ WF_vars(\E p \in net : StartCalibrationServer(p) \/ Arrive(p))

FairSpec == Spec /\ Fairness

-----------------------------------------------------------------------------
(***************************************************************************)
(* However the call ends, after one, two or three exchanges, by a timeout  *)
(* or by a zero, and however different the delays of the two directions,   *)
(* the estimate is right for any later packet up to the spread of the      *)
(* delays and the time a step of the client takes.  The half of the round  *)
(* trip cancels; what is left of it is rounding.                           *)
(***************************************************************************)
Spread == MaxDelay - MinDelay

ErrorBounded ==
  pc = "done" /\ ~stale =>
    \A delay \in MinDelay..MaxDelay :
      /\ result <= offset + delay + Spread + Gap
      /\ result >= offset + delay - Spread - Gap

(***************************************************************************)
(* Copies of answers may be taken for the answers to later requests.  Even *)
(* then the estimate is never ahead: a packet is not taken to arrive later *)
(* than the slowest does.                                                  *)
(***************************************************************************)
NeverAhead == pc = "done" => result <= offset + MaxDelay + Gap

(***************************************************************************)
(* The call returns, whatever is lost and with no server at all.           *)
(***************************************************************************)
SyncReturns == <>(~Running)

=============================================================================
