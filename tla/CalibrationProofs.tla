------------------------- MODULE CalibrationProofs -------------------------
(***************************************************************************)
(* Theorems about Calibration, for any delays, any difference between the  *)
(* clocks and any number of copies.                                        *)
(***************************************************************************)
EXTENDS Calibration, TLAPS

Lo == offset + MinDelay
Hi == offset + MaxDelay

(***************************************************************************)
(* The inductive invariant.  Asked and Heard say of a request and of an    *)
(* answer when they were sent and stamped, seen from the current attempt;  *)
(* Sampled that every sample, rounding apart, lies between Lo and Hi.      *)
(***************************************************************************)
Clock ==
  /\ Epoch <= now /\ tSend <= now
  /\ attempt = 1 /\ pc = "send" => toSend <= now /\ now <= by /\ by = toSend + Gap
  /\ attempt = 1 /\ pc = "read" => toSend <= tSend /\ tSend <= toSend + Gap

Asked(p) ==
  /\ p.no <= attempt
  /\ p.at <= tSend + MaxDelay
  /\ p.no = attempt => pc = "read" /\ tSend + MinDelay <= p.at /\ p.ns = toSend

Heard(a) ==
  /\ a.no <= attempt
  /\ a.ns # 0 => a.ns <= tSend + Hi
  /\ a.no = attempt =>
       /\ pc = "read"
       /\ a.ns # 0 => tSend + Lo <= a.ns
       /\ a.ns = 0 => tSend + Lo <= toSend /\ toSend <= tSend + Hi

Letters ==
  /\ \A p \in net : p.to = "server" => Asked(p)
  /\ \A p \in net : p.to = "client" => Heard(p)
  /\ \A i \in 1..Len(inbox) : Heard(inbox[i])

\* Twice the sum of the samples: twice the offsets and the round trips.
Total == 2 * sumDelta + sumRtt

Sampled ==
  /\ Running => count = attempt - 1
  /\ count > 0 => LastEstimate <= Hi
  /\ count = 0 => Total = 0
  /\ count = 1 => Total <= 2 * Hi + 1
  /\ count = 2 => Total <= 4 * Hi + 2

SampledFresh ==
  /\ count > 0 => Lo <= LastEstimate
  /\ count = 1 => 2 * Lo <= Total
  /\ count = 2 => 4 * Lo <= Total

IInv ==
  /\ TypeOK /\ Clock /\ Letters /\ Sampled
  /\ ~stale => SampledFresh
  /\ ErrorBounded /\ NeverAhead

-----------------------------------------------------------------------------
\* What the constants are.
LEMMA Numbers ==
  /\ Epoch \in Nat /\ MinDelay \in Nat /\ MaxDelay \in Nat /\ Timeout \in Nat
  /\ Default \in Nat /\ Gap \in Nat /\ Gap > 0 /\ MinDelay <= MaxDelay
  /\ \A o \in Offsets : o \in Int /\ Epoch + o > 0
BY CalibrationConstants

\* The copies of a packet that arrive, and when.
LEMMA SentPackets ==
  ASSUME TypeOK, NEW to \in {"server", "client"}, NEW no \in 1..maxAttempts,
         NEW ns \in Int, NEW ps \in Sent(to, no, ns), NEW p \in ps
  PROVE  /\ p \in Packet
         /\ p.to = to /\ p.no = no /\ p.ns = ns
         /\ now + MinDelay <= p.at /\ p.at <= now + MaxDelay
<1>1. PICK times \in SUBSET (now+MinDelay..now+MaxDelay) :
        ps = {[to |-> to, no |-> no, ns |-> ns, at |-> t] : t \in times}
  BY DEF Sent
<1>2. PICK t \in now+MinDelay..now+MaxDelay :
        p = [to |-> to, no |-> no, ns |-> ns, at |-> t]
  BY <1>1
<1>3. now \in Int /\ t \in Int
  BY <1>2, Numbers DEF TypeOK
<1> QED
  BY <1>2, <1>3, Numbers DEF Packet

\* What appending an answer does to the buffer.
LEMMA Appended ==
  ASSUME NEW q \in Seq(Answer), NEW x \in Answer
  PROVE  /\ Append(q, x) \in Seq(Answer)
         /\ Len(Append(q, x)) = Len(q) + 1
         /\ \A i \in 1..Len(q)+1 :
              Append(q, x)[i] = x \/ (i \in 1..Len(q) /\ Append(q, x)[i] = q[i])
<1>1. /\ Append(q, x) \in Seq(Answer)
      /\ Len(Append(q, x)) = Len(q) + 1
      /\ Append(q, x)[Len(q) + 1] = x
      /\ \A i \in 1..Len(q) : Append(q, x)[i] = q[i]
      /\ \A i \in 1..Len(q)+1 : i \in 1..Len(q) \/ i = Len(q) + 1
  OBVIOUS
<1> QED
  BY <1>1

\* What removing the first answer does to it.
LEMMA Removed ==
  ASSUME NEW q \in Seq(Answer), q # << >>
  PROVE  /\ Tail(q) \in Seq(Answer)
         /\ Head(q) = q[1] /\ 1 \in 1..Len(q) /\ Head(q) \in Answer
         /\ \A i \in 1..Len(Tail(q)) : i+1 \in 1..Len(q) /\ Tail(q)[i] = q[i+1]
OBVIOUS

\* Half of a round trip and what is left of it.
LEMMA Halves == \A r \in Nat : r \div 2 \in Nat /\ 2 * (r \div 2) <= r /\ r <= 2 * (r \div 2) + 1
OBVIOUS

\* The mean of three samples, truncated twice, is less than two below their
\* mean and no more than one and a half above.
LEMMA MeanOfThree ==
  ASSUME NEW s \in Int, NEW r \in Nat, NEW lo \in Int, NEW hi \in Int
  PROVE  /\ Quot(s, 3) + Quot(r, 3) \div 2 \in Int
         /\ 2 * s + r <= 6 * hi + 3 => Quot(s, 3) + Quot(r, 3) \div 2 <= hi + 1
         /\ 6 * lo <= 2 * s + r => lo - 1 <= Quot(s, 3) + Quot(r, 3) \div 2
<1>1. Quot(r, 3) \in Nat /\ r - 2 <= 3 * Quot(r, 3) /\ 3 * Quot(r, 3) <= r
  BY DEF Quot
<1>2. Quot(s, 3) \in Int /\ s - 2 <= 3 * Quot(s, 3) /\ 3 * Quot(s, 3) <= s + 2
  <2>1. CASE s >= 0
    BY <2>1 DEF Quot
  <2>2. CASE s < 0
    <3>1. -s \in Nat /\ Quot(s, 3) = -((-s) \div 3)
      BY <2>2 DEF Quot
    <3>2. \A n \in Nat : n \div 3 \in Nat /\ n - 2 <= 3 * (n \div 3) /\ 3 * (n \div 3) <= n
      OBVIOUS
    <3> QED
      BY <3>1, <3>2
  <2> QED
    BY <2>1, <2>2
<1>3. \A n \in Nat : n \div 2 \in Nat /\ n - 1 <= 2 * (n \div 2) /\ 2 * (n \div 2) <= n
  OBVIOUS
<1> QED
  BY <1>1, <1>2, <1>3

-----------------------------------------------------------------------------
\* Nothing has been sent or measured at first.
LEMMA InitialInv == Init => IInv
<1> SUFFICES ASSUME Init PROVE IInv
  OBVIOUS
<1>1. /\ now = Epoch /\ offset \in Offsets /\ net = {} /\ inbox = << >>
      /\ pc = "send" /\ attempt = 1 /\ toSend = Epoch /\ tSend = Epoch
      /\ by = Epoch + Gap /\ lastDelta = 0 /\ lastRtt = 0 /\ sumDelta = 0
      /\ sumRtt = 0 /\ count = 0 /\ result = 0
  BY DEF Init
<1>2. stale \in BOOLEAN
  BY Zenon DEF Init
<1>3. inbox \in Seq(Answer) /\ Len(inbox) = 0
  BY <1>1
<1>4. TypeOK
  BY <1>1, <1>2, <1>3, Numbers DEF TypeOK, maxAttempts
<1>5. Clock /\ Letters /\ Sampled /\ SampledFresh
  BY <1>1, <1>3, Numbers DEF Clock, Letters, Sampled, SampledFresh, Total, Running
<1>6. ErrorBounded /\ NeverAhead
  BY <1>1 DEF ErrorBounded, NeverAhead
<1> QED
  BY <1>4, <1>5, <1>6 DEF IInv

\* While the call runs nothing is claimed of its result.
LEMMA NoResultYet == Running => ErrorBounded /\ NeverAhead
BY DEF Running, ErrorBounded, NeverAhead

\* A tick moves only the clock, and not past what is due.
LEMMA TickStep == IInv /\ Tick => IInv'
<1> SUFFICES ASSUME IInv, Tick PROVE IInv'
  OBVIOUS
<1>1. /\ Running /\ now < by /\ now' = now + 1
      /\ UNCHANGED <<offset, net, inbox, pc, attempt, toSend, tSend, by>>
      /\ UNCHANGED <<lastDelta, lastRtt, sumDelta, sumRtt, count, result>>
      /\ UNCHANGED stale
  BY DEF Tick, network, samples
<1>2. TypeOK'
  BY <1>1 DEF IInv, TypeOK, Packet, Answer
<1>3. Clock'
  BY <1>1, Numbers DEF IInv, TypeOK, Clock
<1>4. Letters' /\ Sampled' /\ (~stale => SampledFresh)'
  BY <1>1 DEF IInv, Letters, Asked, Heard, Lo, Hi, Sampled, SampledFresh, Running,
              Total, LastEstimate
<1>5. ErrorBounded' /\ NeverAhead'
  BY <1>1, NoResultYet DEF IInv, Running, ErrorBounded, NeverAhead
<1> QED
  BY <1>2, <1>3, <1>4, <1>5 DEF IInv

\* The server stamps a request between MinDelay and MaxDelay after its sending.
LEMMA StampStep ==
  ASSUME IInv, NEW p \in net, StartCalibrationServer(p) PROVE IInv'
<1> DEFINE nowNs == now + offset
           reply == IF p.ns = nowNs THEN 0 ELSE nowNs
<1>1. /\ Running /\ p.to = "server" /\ p.at = now
      /\ UNCHANGED <<now, offset, inbox, pc, attempt, toSend, tSend, by>>
      /\ UNCHANGED <<lastDelta, lastRtt, sumDelta, sumRtt, count, result>>
      /\ UNCHANGED stale
  BY DEF StartCalibrationServer, samples
<1>2. PICK answers \in Sent("client", p.no, reply) : net' = (net \ {p}) \cup answers
  BY DEF StartCalibrationServer
<1>t. /\ now \in Int /\ offset \in Int /\ Epoch + offset > 0 /\ Epoch <= now
      /\ p.no \in 1..maxAttempts /\ p.ns \in Int /\ p.at \in Int
      /\ tSend \in Int /\ toSend \in Int /\ attempt \in 1..3
      /\ TypeOK /\ Asked(p)
  BY <1>1, Numbers DEF IInv, TypeOK, Packet, Clock, Letters, maxAttempts
<1>3. \A q \in answers : /\ q \in Packet /\ q.to = "client" /\ q.no = p.no
                         /\ q.ns = reply
  <2>1. reply \in Int
    BY <1>t
  <2> QED
    BY <1>2, <1>t, <2>1, SentPackets
<1>4. \A q \in answers : Heard(q)'
  <2> SUFFICES ASSUME NEW q \in answers PROVE Heard(q)'
    OBVIOUS
  <2>1. nowNs # 0 /\ (reply = 0 => p.ns = nowNs) /\ (reply # 0 => reply = nowNs)
    BY <1>t, Numbers
  <2> HIDE DEF reply
  <2> QED
    BY <1>1, <1>3, <1>t, <2>1, Numbers DEF Asked, Heard, Lo, Hi
<1>5. TypeOK'
  BY <1>1, <1>2, <1>3, <1>t DEF TypeOK
<1>6. Letters'
  <2>1. \A q \in net' : q \in net \/ q \in answers
    BY <1>2
  <2>2. \A q \in net' : q.to = "server" => q \in net /\ Asked(q)
    BY <1>3, <2>1 DEF IInv, Letters
  <2>3. \A q \in net' : q.to = "client" => Heard(q)'
    BY <1>1, <1>4, <2>1 DEF IInv, Letters, Heard, Lo, Hi
  <2> QED
    BY <1>1, <2>2, <2>3 DEF IInv, Letters, Asked, Heard, Lo, Hi
<1>7. Clock' /\ Sampled' /\ (~stale => SampledFresh)'
  BY <1>1 DEF IInv, Clock, Lo, Hi, Sampled, SampledFresh, Running, Total, LastEstimate
<1>8. ErrorBounded' /\ NeverAhead'
  BY <1>1 DEF Running, ErrorBounded, NeverAhead
<1> QED
  BY <1>5, <1>6, <1>7, <1>8 DEF IInv

\* An answer waits in the buffer as it was under way.
LEMMA ArriveStep ==
  ASSUME IInv, NEW p \in net, Arrive(p) PROVE IInv'
<1> DEFINE a == [no |-> p.no, ns |-> p.ns]
<1>1. /\ Running /\ p.to = "client" /\ net' = net \ {p} /\ inbox' = Append(inbox, a)
      /\ by' = (IF pc = "read" THEN Earlier(by, now + Gap) ELSE by)
      /\ UNCHANGED <<now, offset, pc, attempt, toSend, tSend>>
      /\ UNCHANGED <<lastDelta, lastRtt, sumDelta, sumRtt, count, result>>
      /\ UNCHANGED stale
  BY DEF Arrive, samples
<1>t. TypeOK /\ inbox \in Seq(Answer) /\ a \in Answer /\ Heard(p)
  BY <1>1 DEF IInv, TypeOK, Packet, Answer, Letters
<1>2. /\ inbox' \in Seq(Answer)
      /\ Len(inbox') = Len(inbox) + 1
      /\ \A i \in 1..Len(inbox)+1 :
           inbox'[i] = a \/ (i \in 1..Len(inbox) /\ inbox'[i] = inbox[i])
  BY <1>1, <1>t, Appended
<1>3. TypeOK'
  BY <1>1, <1>2, <1>t, Numbers DEF TypeOK, Earlier
<1>4. Clock'
  BY <1>1 DEF IInv, Clock
<1>5. Heard(a)'
  BY <1>1, <1>t DEF Heard, Lo, Hi
<1>6. Letters'
  <2>1. \A i \in 1..Len(inbox') : Heard(inbox[i])'
    <3> SUFFICES ASSUME NEW i \in 1..Len(inbox)+1 PROVE Heard(inbox[i])'
      BY <1>2
    <3>1. CASE inbox'[i] = a
      BY <1>1, <1>5, <3>1 DEF Heard, Lo, Hi
    <3>2. CASE i \in 1..Len(inbox) /\ inbox'[i] = inbox[i]
      BY <1>1, <3>2 DEF IInv, Letters, Heard, Lo, Hi
    <3> QED
      BY <1>2, <3>1, <3>2
  <2> QED
    BY <1>1, <2>1 DEF IInv, Letters, Asked, Heard, Lo, Hi
<1>7. Sampled' /\ (~stale => SampledFresh)'
  BY <1>1 DEF IInv, Lo, Hi, Sampled, SampledFresh, Running, Total, LastEstimate
<1>8. ErrorBounded' /\ NeverAhead'
  BY <1>1 DEF Running, ErrorBounded, NeverAhead
<1> QED
  BY <1>3, <1>4, <1>6, <1>7, <1>8 DEF IInv

\* A request leaves with the current attempt's number and time.
LEMMA SendStep == IInv /\ Send => IInv'
<1> SUFFICES ASSUME IInv, Send PROVE IInv'
  OBVIOUS
<1>1. /\ pc = "send" /\ pc' = "read" /\ tSend' = now
      /\ by' = now + Gap + (IF inbox = << >> THEN Timeout ELSE 0)
      /\ UNCHANGED <<now, offset, inbox, attempt, toSend>>
      /\ UNCHANGED <<lastDelta, lastRtt, sumDelta, sumRtt, count, result>>
      /\ UNCHANGED stale
  BY DEF Send, samples
<1>2. PICK request \in Sent("server", attempt, toSend) : net' = net \cup request
  BY DEF Send
<1>t. /\ TypeOK /\ now \in Int /\ tSend \in Int /\ toSend \in Int /\ by \in Int
      /\ offset \in Int /\ attempt \in 1..maxAttempts /\ tSend <= now
      /\ \A p \in net : p.no \in Int /\ p.at \in Int /\ p.ns \in Int
      /\ \A i \in 1..Len(inbox) : inbox[i].no \in Int /\ inbox[i].ns \in Int
  <2>1. \A i \in 1..Len(inbox) : inbox[i] \in Answer
    BY DEF IInv, TypeOK
  <2>2. \A x \in Answer : x.no \in Int /\ x.ns \in Int
    BY DEF Answer, maxAttempts
  <2>3. \A p \in net : p.no \in Int /\ p.at \in Int /\ p.ns \in Int
    BY DEF IInv, TypeOK, Packet, maxAttempts
  <2> QED
    BY <2>1, <2>2, <2>3, Numbers DEF IInv, TypeOK, Clock
<1>3. \A p \in request : /\ p \in Packet /\ p.to = "server" /\ p.no = attempt
                         /\ p.ns = toSend
                         /\ now + MinDelay <= p.at /\ p.at <= now + MaxDelay
  BY <1>2, <1>t, SentPackets
<1>4. TypeOK'
  <2>1. by' \in Int
    BY <1>1, <1>t, Numbers
  <2> QED
    BY <1>1, <1>2, <1>3, <1>t, <2>1 DEF TypeOK
<1>5. Clock'
  BY <1>1, <1>t, Numbers DEF IInv, Clock
<1>6. Letters'
  <2>1. \A p \in request : Asked(p)'
    BY <1>1, <1>3, <1>t DEF Asked
  <2>2. \A p \in net : p.to = "server" => Asked(p)'
    BY <1>1, <1>t, Numbers DEF IInv, Letters, Asked
  <2>3. \A p \in net : p.to = "client" => Heard(p)'
    BY <1>1, <1>t, Numbers DEF IInv, Letters, Heard, Lo, Hi
  <2>4. \A i \in 1..Len(inbox) : Heard(inbox[i])'
    BY <1>1, <1>t, Numbers DEF IInv, Letters, Heard, Lo, Hi
  <2>5. \A p \in net' : p \in net \/ p \in request
    BY <1>2
  <2>6. \A p \in request : p.to # "client"
    BY <1>3
  <2>7. \A p \in net' : (p.to = "server" => Asked(p)') /\ (p.to = "client" => Heard(p)')
    BY <2>1, <2>2, <2>3, <2>5, <2>6
  <2> QED
    BY <1>1, <2>4, <2>7 DEF Letters, Asked, Heard, Lo, Hi
<1>7. Sampled' /\ (~stale => SampledFresh)'
  BY <1>1 DEF IInv, Lo, Hi, Sampled, SampledFresh, Running, Total, LastEstimate
<1>8. ErrorBounded' /\ NeverAhead'
  BY <1>1 DEF ErrorBounded, NeverAhead
<1> QED
  BY <1>4, <1>5, <1>6, <1>7, <1>8 DEF IInv

\* The last sample, returned alone, is within the bounds.
LEMMA LastReturned ==
  ASSUME IInv, Running, count > 0, pc' = "done", result' = LastEstimate,
         UNCHANGED offset, stale => stale'
  PROVE  ErrorBounded' /\ NeverAhead'
<1>1. /\ offset \in Int /\ LastEstimate \in Int
  BY Numbers, Halves DEF IInv, TypeOK, LastEstimate
<1>2. NeverAhead'
  BY <1>1, Numbers DEF IInv, Sampled, NeverAhead, Hi
<1>3. ~stale' => Lo <= LastEstimate
  BY DEF IInv, SampledFresh
<1>4. (Lo <= LastEstimate) =>
        \A delay \in MinDelay..MaxDelay :
          /\ result' <= offset' + delay + Spread + Gap
          /\ result' >= offset' + delay - Spread - Gap
  BY <1>1, Numbers DEF IInv, Sampled, Lo, Hi, Spread
<1> QED
  BY <1>2, <1>3, <1>4 DEF ErrorBounded, Spread

\* What a return leaves of the other parts of the invariant.
LEMMA Returned ==
  ASSUME IInv, Running, pc' \in {"done", "gaveUp"}, net' = {}, inbox' = << >>,
         result' \in Int,
         UNCHANGED <<now, offset, attempt, toSend, tSend, by, lastDelta, lastRtt,
                     sumDelta, sumRtt, count>>,
         stale' \in BOOLEAN, stale => stale'
  PROVE  TypeOK' /\ Clock' /\ Letters' /\ Sampled' /\ (~stale => SampledFresh)'
<1>1. TypeOK'
  BY DEF IInv, TypeOK, Answer
<1>2. Clock' /\ Letters'
  BY DEF IInv, Clock, Letters
<1>3. Sampled' /\ (SampledFresh => SampledFresh')
  BY DEF IInv, Sampled, SampledFresh, Running, Total, LastEstimate, Lo, Hi
<1> QED
  BY <1>1, <1>2, <1>3 DEF IInv

\* Whoever gives up returns the last sample, or measured nothing.
LEMMA GiveUpStep == IInv /\ Running /\ GiveUp => IInv'
<1> SUFFICES ASSUME IInv, Running, GiveUp PROVE IInv'
  OBVIOUS
<1>1. /\ pc' \in {"done", "gaveUp"} /\ net' = {} /\ inbox' = << >>
      /\ result' \in Int
      /\ UNCHANGED <<now, offset, attempt, toSend, tSend, by, lastDelta, lastRtt,
                     sumDelta, sumRtt, count>>
  BY Numbers, Halves DEF GiveUp, Return, samples, IInv, TypeOK, LastEstimate
<1>2. stale' \in BOOLEAN /\ (stale => stale')
  BY DEF GiveUp, IInv, TypeOK
<1>3. ErrorBounded' /\ NeverAhead'
  <2>1. CASE count > 0
    <3>1. pc' = "done" /\ result' = LastEstimate
      BY <2>1 DEF GiveUp, Return
    <3> QED
      BY <1>1, <1>2, <2>1, <3>1, LastReturned
  <2>2. CASE ~(count > 0)
    <3>1. pc' = "gaveUp"
      BY <2>2 DEF GiveUp, Return
    <3> QED
      BY <3>1 DEF ErrorBounded, NeverAhead
  <2> QED
    BY <2>1, <2>2
<1> QED
  BY <1>1, <1>2, <1>3, Returned DEF IInv

\* The answer at the head of the buffer.
LEMMA HeadHeard ==
  ASSUME IInv, inbox # << >>
  PROVE  /\ Head(inbox) \in Answer
         /\ Head(inbox).no \in 1..3 /\ Head(inbox).ns \in Int
         /\ Heard(Head(inbox))
         /\ Tail(inbox) \in Seq(Answer)
         /\ \A i \in 1..Len(Tail(inbox)) :
              i+1 \in 1..Len(inbox) /\ Tail(inbox)[i] = inbox[i+1]
<1>1. inbox \in Seq(Answer)
  BY DEF IInv, TypeOK
<1>2. /\ Tail(inbox) \in Seq(Answer)
      /\ Head(inbox) = inbox[1] /\ 1 \in 1..Len(inbox) /\ Head(inbox) \in Answer
      /\ \A i \in 1..Len(Tail(inbox)) :
           i+1 \in 1..Len(inbox) /\ Tail(inbox)[i] = inbox[i+1]
  BY <1>1, Removed
<1>3. Head(inbox).no \in 1..3 /\ Head(inbox).ns \in Int
  BY <1>2 DEF Answer, maxAttempts
<1>4. Heard(Head(inbox))
  BY <1>2 DEF IInv, Letters
<1> QED
  BY <1>2, <1>3, <1>4

\* An answer 0: to the first request it says that the estimate is 0, to a later
\* one it adds nothing.
LEMMA ReadZeroStep == IInv /\ Read /\ ReadZero => IInv'
<1> SUFFICES ASSUME IInv, Read, ReadZero PROVE IInv'
  OBVIOUS
<1>1. /\ pc = "read" /\ Running /\ inbox # << >> /\ Head(inbox).ns = 0
      /\ pc' = "done" /\ net' = {} /\ inbox' = << >>
      /\ result' = (IF attempt = 1 THEN 0 ELSE LastEstimate)
      /\ UNCHANGED <<now, offset, attempt, toSend, tSend, by, lastDelta, lastRtt,
                     sumDelta, sumRtt, count>>
  BY DEF Read, ReadZero, Return, samples, Running
<1>2. stale' = (stale \/ Head(inbox).no # attempt)
  BY DEF Read
<1>3. stale' \in BOOLEAN /\ (stale => stale')
  BY <1>2, Zenon DEF IInv, TypeOK
<1>4. ErrorBounded' /\ NeverAhead'
  <2>1. CASE attempt = 1
    <3>1. Head(inbox).no = 1 /\ Heard(Head(inbox))
      BY <1>1, <2>1, HeadHeard DEF Heard
    <3>2. /\ tSend + Lo <= toSend /\ toSend <= tSend + Hi
          /\ toSend <= tSend /\ tSend <= toSend + Gap
      BY <1>1, <2>1, <3>1 DEF Heard, IInv, Clock
    <3>3. offset \in Int /\ tSend \in Int /\ toSend \in Int
      BY Numbers DEF IInv, TypeOK
    <3>4. Lo <= 0 /\ 0 - Gap <= Hi
      BY <3>2, <3>3, Numbers DEF Lo, Hi
    <3>5. result' = 0 /\ offset' = offset
      BY <1>1, <2>1
    <3>6. \A delay \in MinDelay..MaxDelay :
            /\ result' <= offset' + delay + Spread + Gap
            /\ result' >= offset' + delay - Spread - Gap
      BY <3>3, <3>4, <3>5, Numbers DEF Spread, Lo, Hi
    <3>7. result' <= offset' + MaxDelay + Gap
      BY <3>3, <3>4, <3>5, Numbers DEF Hi
    <3> QED
      BY <3>6, <3>7 DEF ErrorBounded, NeverAhead, Spread
  <2>2. CASE attempt # 1
    <3>1. count > 0
      BY <1>1, <2>2 DEF IInv, TypeOK, Sampled, maxAttempts
    <3> QED
      BY <1>1, <1>3, <2>2, <3>1, LastReturned
  <2> QED
    BY <2>1, <2>2
<1>5. result' \in Int
  BY <1>1, Numbers, Halves DEF IInv, TypeOK, LastEstimate
<1> QED
  BY <1>1, <1>3, <1>4, <1>5, Returned DEF IInv

\* A sample: the difference of the two stamps, which the round trip leaves.
LEMMA Sample ==
  ASSUME IInv, Read, ReadTime
  PROVE  /\ lastDelta' \in Int /\ lastRtt' \in Nat
         /\ sumDelta' \in Int /\ sumRtt' \in Nat /\ count' = count + 1
         /\ LastEstimate' = Head(inbox).ns - tSend
         /\ Total' <= Total + 2 * LastEstimate' + 1
         /\ Total + 2 * LastEstimate' <= Total'
         /\ LastEstimate' <= Hi
         /\ ~stale' => Lo <= LastEstimate'
<1>1. /\ pc = "read" /\ inbox # << >> /\ Head(inbox).ns # 0
      /\ lastDelta' = Head(inbox).ns - (tSend + (now - tSend) \div 2)
      /\ lastRtt' = now - tSend
      /\ sumDelta' = sumDelta + lastDelta' /\ sumRtt' = sumRtt + lastRtt'
      /\ count' = count + 1
  BY DEF Read, ReadTime, Delta
<1>2. /\ now \in Int /\ tSend \in Int /\ offset \in Int /\ tSend <= now
      /\ sumDelta \in Int /\ sumRtt \in Nat
  BY Numbers DEF IInv, TypeOK, Clock
<1>3. Head(inbox).ns \in Int /\ Heard(Head(inbox))
  BY <1>1, HeadHeard
<1>4. /\ now - tSend \in Nat /\ (now - tSend) \div 2 \in Nat
      /\ 2 * ((now - tSend) \div 2) <= now - tSend
      /\ now - tSend <= 2 * ((now - tSend) \div 2) + 1
  BY <1>2, Halves
<1>5. LastEstimate' = Head(inbox).ns - tSend
  BY <1>1, <1>2, <1>3, <1>4 DEF LastEstimate
<1>6. LastEstimate' <= Hi
  BY <1>1, <1>2, <1>3, <1>5, Numbers DEF Heard, Hi
<1>7. ~stale' => Head(inbox).no = attempt
  BY DEF Read
<1>8. Head(inbox).no = attempt => Lo <= LastEstimate'
  BY <1>1, <1>2, <1>3, <1>5, Numbers DEF Heard, Lo
<1>9. /\ Total' <= Total + 2 * LastEstimate' + 1
      /\ Total + 2 * LastEstimate' <= Total'
  <2> DEFINE h == (now - tSend) \div 2
  <2>1. h \in Int /\ 2 * h <= now - tSend /\ now - tSend <= 2 * h + 1
    BY <1>4
  <2>2. lastDelta' = Head(inbox).ns - (tSend + h)
    BY <1>1
  <2> HIDE DEF h
  <2>3. Total' = 2 * (sumDelta + lastDelta') + (sumRtt + (now - tSend))
    BY <1>1 DEF Total
  <2> QED
    BY <1>2, <1>3, <1>5, <2>1, <2>2, <2>3 DEF Total
<1> QED
  BY <1>1, <1>2, <1>3, <1>4, <1>5, <1>6, <1>7, <1>8, <1>9

\* A measurement: the last one ends the call, another starts the next attempt.
LEMMA ReadTimeStep == IInv /\ Read /\ ReadTime => IInv'
<1> SUFFICES ASSUME IInv, Read, ReadTime PROVE IInv'
  OBVIOUS
<1>1. pc = "read" /\ inbox # << >> /\ UNCHANGED <<now, offset>>
  BY DEF Read
<1>2. stale' \in BOOLEAN /\ (stale => stale')
  BY DEF Read, IInv, TypeOK
<1>3. /\ lastDelta' \in Int /\ lastRtt' \in Nat
      /\ sumDelta' \in Int /\ sumRtt' \in Nat /\ count' = count + 1
      /\ LastEstimate' = Head(inbox).ns - tSend
      /\ Total' <= Total + 2 * LastEstimate' + 1
      /\ Total + 2 * LastEstimate' <= Total'
      /\ LastEstimate' <= Hi
  BY Sample
<1>4. ~stale' => Lo <= LastEstimate'
  BY Sample
<1>5. /\ attempt \in 1..3 /\ count = attempt - 1
      /\ now \in Int /\ tSend \in Int /\ offset \in Int
      /\ Hi \in Int /\ Lo \in Int /\ Total \in Int /\ Total' \in Int
      /\ LastEstimate' \in Int
  <2>1. /\ attempt \in 1..3 /\ count = attempt - 1
        /\ now \in Int /\ tSend \in Int /\ offset \in Int /\ Total \in Int
    BY <1>1, Numbers DEF IInv, TypeOK, Sampled, Running, maxAttempts, Total
  <2>2. Hi \in Int /\ Lo \in Int
    BY <2>1, Numbers DEF Hi, Lo
  <2>3. Head(inbox).ns \in Int
    BY <1>1, HeadHeard
  <2>4. Total' \in Int
    BY <1>3 DEF Total
  <2> QED
    BY <1>3, <2>1, <2>2, <2>3, <2>4
<1>6. Hi' = Hi /\ Lo' = Lo
  BY <1>1 DEF Hi, Lo
<1>7. /\ count' = 1 => Total' <= 2 * Hi + 1
      /\ count' = 2 => Total' <= 4 * Hi + 2
      /\ count' = 3 => Total' <= 6 * Hi + 3
  BY <1>3, <1>5 DEF IInv, Sampled
<1>8. ~stale' => SampledFresh
  BY <1>2 DEF IInv
<1>9. SampledFresh /\ Lo <= LastEstimate' =>
        /\ count' = 1 => 2 * Lo <= Total'
        /\ count' = 2 => 4 * Lo <= Total'
        /\ count' = 3 => 6 * Lo <= Total'
  BY <1>3, <1>5 DEF IInv, Sampled, SampledFresh
<1>10. count' > 0 /\ (Running' => count' = attempt' - 1) => Sampled'
  BY <1>3, <1>5, <1>6, <1>7 DEF Sampled
<1>11. ~stale' => SampledFresh'
  <2>1. SampledFresh /\ Lo <= LastEstimate' => SampledFresh'
    BY <1>3, <1>5, <1>6, <1>9 DEF SampledFresh
  <2> QED
    BY <1>4, <1>8, <2>1
<1>12. CASE attempt = maxAttempts
  <2>1. /\ pc' = "done" /\ net' = {} /\ inbox' = << >>
        /\ result' = Quot(sumDelta', 3) + Quot(sumRtt', 3) \div 2
        /\ UNCHANGED <<attempt, toSend, tSend, by>>
    BY <1>3, <1>5, <1>12 DEF ReadTime, Return, Mean, maxAttempts
  <2>2. /\ result' \in Int
        /\ Total' <= 6 * Hi + 3 => result' <= Hi + 1
        /\ 6 * Lo <= Total' => Lo - 1 <= result'
    BY <1>3, <1>5, <2>1, MeanOfThree DEF Total
  <2>3. count' = 3
    BY <1>3, <1>5, <1>12 DEF maxAttempts
  <2>4. result' <= offset' + MaxDelay + Gap
    BY <1>1, <1>5, <1>7, <2>2, <2>3, Numbers DEF Hi
  <2>5. Lo - 1 <= result' =>
          \A delay \in MinDelay..MaxDelay :
            /\ result' <= offset' + delay + Spread + Gap
            /\ result' >= offset' + delay - Spread - Gap
    BY <1>1, <1>5, <2>2, <2>4, Numbers DEF Lo, Spread
  <2>6. ~stale' => Lo - 1 <= result'
    BY <1>4, <1>8, <1>9, <2>2, <2>3
  <2>7. ErrorBounded' /\ NeverAhead'
    BY <2>4, <2>5, <2>6 DEF ErrorBounded, NeverAhead, Spread
  <2>8. TypeOK'
    BY <1>1, <1>2, <1>3, <1>5, <2>1, <2>2 DEF IInv, TypeOK, Answer, maxAttempts
  <2>9. Clock' /\ Letters'
    BY <1>1, <2>1 DEF IInv, Clock, Letters
  <2>10. Sampled'
    BY <1>10, <2>1, <2>3 DEF Running
  <2> QED
    BY <1>11, <2>7, <2>8, <2>9, <2>10 DEF IInv
<1>13. CASE attempt # maxAttempts
  <2>1. /\ attempt' = attempt + 1 /\ pc' = "send" /\ by' = now + Gap
        /\ toSend' = now + lastDelta' + lastRtt' \div 2
        /\ inbox' = Tail(inbox)
        /\ UNCHANGED <<net, tSend, result>>
    BY <1>13 DEF ReadTime
  <2>2. toSend' \in Int /\ by' \in Int /\ attempt' \in 1..3 /\ attempt' # 1
    <3>1. lastRtt' \div 2 \in Int
      BY <1>3, Halves
    <3>2. toSend' \in Int /\ by' \in Int
      BY <1>3, <1>5, <2>1, <3>1, Numbers
    <3>3. attempt' \in 1..3 /\ attempt' # 1
      BY <1>5, <1>13, <2>1 DEF maxAttempts
    <3> QED
      BY <3>2, <3>3
  <2>3. TypeOK'
    <3>1. inbox' \in Seq(Answer)
      BY <1>1, <2>1, HeadHeard
    <3> QED
      BY <1>1, <1>2, <1>3, <1>5, <2>1, <2>2, <3>1 DEF IInv, TypeOK, maxAttempts
  <2>4. Clock'
    BY <1>1, <2>1, <2>2 DEF IInv, Clock
  <2>5. Letters'
    <3>1. \A p \in net : p.no \in 1..3
      BY DEF IInv, TypeOK, Packet, maxAttempts
    <3>2. \A i \in 1..Len(inbox) : inbox[i].no \in 1..3
      <4>1. \A i \in 1..Len(inbox) : inbox[i] \in Answer
        BY DEF IInv, TypeOK
      <4> QED
        BY <4>1 DEF Answer, maxAttempts
    <3>3. \A p \in net : /\ p.to = "server" => Asked(p)'
                         /\ p.to = "client" => Heard(p)'
      BY <1>5, <1>6, <2>1, <3>1 DEF IInv, Letters, Asked, Heard
    <3>4. \A i \in 1..Len(inbox) : Heard(inbox[i]) => (inbox[i].no < attempt' /\
            (inbox[i].ns # 0 => inbox[i].ns <= tSend + Hi))
      BY <1>5, <2>1, <3>2 DEF Heard
    <3>5. \A i \in 1..Len(Tail(inbox)) :
            i+1 \in 1..Len(inbox) /\ Tail(inbox)[i] = inbox[i+1]
      BY <1>1, HeadHeard
    <3>6. \A i \in 1..Len(inbox') : Heard(inbox[i])'
      <4> SUFFICES ASSUME NEW i \in 1..Len(inbox') PROVE Heard(inbox[i])'
        OBVIOUS
      <4>1. i+1 \in 1..Len(inbox) /\ inbox'[i] = inbox[i+1]
        BY <2>1, <3>5
      <4>2. /\ inbox'[i].no < attempt' /\ inbox'[i].no \in 1..3
            /\ inbox'[i].ns # 0 => inbox'[i].ns <= tSend + Hi
        BY <3>2, <3>4, <4>1 DEF IInv, Letters
      <4> QED
        BY <1>6, <2>1, <2>2, <4>2 DEF Heard
    <3> QED
      BY <2>1, <3>3, <3>6 DEF Letters, Asked, Heard
  <2>6. Sampled'
    <3>1. count' > 0 /\ count' = attempt' - 1
      BY <1>3, <1>5, <2>1
    <3> QED
      BY <1>10, <3>1
  <2>7. ErrorBounded' /\ NeverAhead'
    BY <2>1 DEF ErrorBounded, NeverAhead
  <2> QED
    BY <1>11, <2>3, <2>4, <2>5, <2>6, <2>7 DEF IInv
<1> QED
  BY <1>12, <1>13

-----------------------------------------------------------------------------
LEMMA Step == IInv /\ [Next]_vars => IInv'
<1> SUFFICES ASSUME IInv, [Next]_vars PROVE IInv'
  OBVIOUS
<1>1. CASE Tick
  BY <1>1, TickStep
<1>2. CASE \E p \in net : StartCalibrationServer(p) \/ Arrive(p)
  BY <1>2, StampStep, ArriveStep
<1>3. CASE Send
  BY <1>3, SendStep
<1>4. CASE Read
  <2>1. ReadZero \/ ReadTime
    BY <1>4 DEF Read
  <2> QED
    BY <1>4, <2>1, ReadZeroStep, ReadTimeStep
<1>5. CASE TimesOut \/ SocketFails
  <2>1. Running /\ GiveUp
    BY <1>5 DEF TimesOut, SocketFails, Running
  <2> QED
    BY <2>1, GiveUpStep
<1>6. CASE DialFails
  <2>1. /\ Running /\ pc' = "gaveUp" /\ net' = {} /\ inbox' = << >> /\ result' = 0
        /\ UNCHANGED <<now, offset, attempt, toSend, tSend, by, lastDelta, lastRtt,
                       sumDelta, sumRtt, count>>
    BY <1>6 DEF DialFails, Return, samples, Running
  <2>2. stale' \in BOOLEAN /\ (stale => stale')
    BY <1>6 DEF DialFails, IInv, TypeOK
  <2>3. ErrorBounded' /\ NeverAhead'
    BY <2>1 DEF ErrorBounded, NeverAhead
  <2> QED
    BY <2>1, <2>2, <2>3, Returned DEF IInv
<1>7. CASE UNCHANGED vars
  <2>1. /\ UNCHANGED <<now, offset, net, inbox, pc, attempt, toSend, tSend, by>>
        /\ UNCHANGED <<lastDelta, lastRtt, sumDelta, sumRtt, count, result>>
    BY <1>7 DEF vars, network, samples
  <2>2. UNCHANGED stale
    BY <1>7 DEF vars
  <2>3. TypeOK' /\ Clock' /\ Letters'
    BY <2>1, <2>2 DEF IInv, TypeOK, Clock, Letters, Asked, Heard, Lo, Hi, Packet, Answer
  <2>4. Sampled' /\ (~stale => SampledFresh)' /\ ErrorBounded' /\ NeverAhead'
    BY <2>1, <2>2 DEF IInv, Sampled, SampledFresh, Running, Total, LastEstimate, Lo, Hi,
                      ErrorBounded, NeverAhead, Spread
  <2> QED
    BY <2>3, <2>4 DEF IInv
<1> QED
  BY <1>1, <1>2, <1>3, <1>4, <1>5, <1>6, <1>7 DEF Next, SyncWithServer

LEMMA AlwaysInv == Spec => []IInv
BY InitialInv, Step, PTL DEF Spec

(***************************************************************************)
(* The variables of Calibration keep their types, whatever the network     *)
(* does to the packets of SyncWithServer.                                  *)
(***************************************************************************)
THEOREM TypeCorrect == Spec => []TypeOK
<1>1. IInv => TypeOK
  BY DEF IInv
<1> QED
  BY AlwaysInv, <1>1, PTL

(***************************************************************************)
(* For any delays, any difference between the clocks and any way in which  *)
(* SyncWithServer ends, an estimate from answers to their own requests is  *)
(* right up to the spread of the delays and a step of the client.          *)
(***************************************************************************)
THEOREM EstimateBounded == Spec => []ErrorBounded
<1>1. IInv => ErrorBounded
  BY DEF IInv
<1> QED
  BY AlwaysInv, <1>1, PTL

(***************************************************************************)
(* Copies that SyncWithServer takes for answers to later requests make the *)
(* estimate too small, never too large.                                    *)
(***************************************************************************)
THEOREM EstimateNeverAhead == Spec => []NeverAhead
<1>1. IInv => NeverAhead
  BY DEF IInv
<1> QED
  BY AlwaysInv, <1>1, PTL

=============================================================================
