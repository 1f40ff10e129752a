--------------------------- MODULE AutoRunProofs ---------------------------
(***************************************************************************)
(* Theorems about AutoRun, for any list of durations, any number of tasks  *)
(* in a slot and any number of faults.                                     *)
(***************************************************************************)
EXTENDS AutoRun, FiniteSetTheorems, TLAPS

(***************************************************************************)
(* The inductive invariant.  Connected says in what states of the server   *)
(* the client's connection may be, and that both programs are at the same  *)
(* duration while it works, or have been when the server closed it with    *)
(* its last answer on the way; Working that a server which has accepted a     *)
(* connection in its slot has met the client at that duration, or the      *)
(* client has passed the slot since; Credited that the result of a task    *)
(* the client may still count is in the file, or about to be.              *)
(***************************************************************************)
Bounded ==
  /\ sTask # "wait" => sDone < Tasks
  /\ stale <= faults
  /\ \A d \in DurationSet : unsaved[d] <= faults

Connected ==
  /\ cConn \in {"queued", "running", "served"} => Meet
  /\ cConn = "running" => sTask = "handle"
  /\ cConn = "served" => sTask # "handle"
  /\ cConn = "late" =>
       /\ sTask = "accept" /\ sDone = 0 /\ stale = 0
       /\ cSlot \in Slots
       /\ sSlot > cSlot \/ Durations[cSlot] = Durations[sSlot]

Working ==
  /\ sTask # "accept" => sSlot \in Slots
  /\ sTask \in {"handle", "record", "wait"} \/ sDone > 0 =>
       /\ sSlot \in Slots
       /\ cSlot > sSlot \/ Durations[cSlot] = Durations[sSlot]

\* The task the client may count without any further step of the server.
Due(d) ==
  IF cConn \in {"served", "late"} /\ Durations[cSlot] = d THEN 1 ELSE 0

Credited ==
  \A d \in DurationSet :
    rows[d] + unsaved[d] + Pending(d) >= ClientTotal(d) + Due(d)

IInv ==
  TypeOK /\ Bounded /\ Connected /\ Working /\ NeverRunsAway /\ Credited

-----------------------------------------------------------------------------
\* What the constants are.
LEMMA Numbers ==
  /\ Len(Durations) \in Nat
  /\ Slots = 1..Len(Durations) /\ Slots \subseteq Nat
  /\ Finished = Len(Durations) + 1 /\ Finished \in Nat
  /\ \A k \in Slots : Durations[k] \in DurationSet
  /\ Tasks \in Nat /\ Tasks > 0
  /\ MaxFaults \in Nat
BY AutoConstants DEF Slots, Finished, DurationSet

\* The slots of duration d before slot c.
Passed(c, d) == {k \in Slots : k < c /\ Durations[k] = d}

LEMMA PassedCounted ==
  ASSUME NEW c, NEW d
  PROVE  IsFiniteSet(Passed(c, d)) /\ Cardinality(Passed(c, d)) \in Nat
<1>1. IsFiniteSet(Slots)
  BY Numbers, FS_Interval
<1>2. Passed(c, d) \subseteq Slots
  BY DEF Passed
<1> QED
  BY <1>1, <1>2, FS_Subset, FS_CardinalityType

\* Leaving slot c adds it to the slots of its duration, and to no others.
LEMMA PassedNext ==
  ASSUME NEW c \in Slots, NEW d
  PROVE  Cardinality(Passed(c + 1, d)) =
           Cardinality(Passed(c, d)) + (IF Durations[c] = d THEN 1 ELSE 0)
<1>1. CASE Durations[c] = d
  <2>1. Passed(c + 1, d) = Passed(c, d) \cup {c}
    BY <1>1, Numbers DEF Passed
  <2>2. c \notin Passed(c, d)
    BY Numbers DEF Passed
  <2> QED
    BY <1>1, <2>1, <2>2, PassedCounted, FS_AddElement
<1>2. CASE Durations[c] # d
  <2>1. Passed(c + 1, d) = Passed(c, d)
    BY <1>2, Numbers DEF Passed
  <2> QED
    BY <1>2, <2>1, PassedCounted
<1> QED
  BY <1>1, <1>2

LEMMA TimesNext == \A t, n \in Nat : t * n \in Nat /\ t * (n + 1) = t * n + t
OBVIOUS

\* The count of a duration's tasks is a number, and grows by one with a task
\* of that duration, whether or not the client goes on to its next slot.
LEMMA TotalCounted ==
  ASSUME TypeOK, NEW d
  PROVE  ClientTotal(d) \in Nat
<1>1. ClientTotal(d) = Tasks * Cardinality(Passed(cSlot, d))
        + (IF cSlot \in Slots /\ Durations[cSlot] = d THEN cDone ELSE 0)
  BY DEF ClientTotal, Passed
<1>2. cDone \in Nat
  BY Numbers DEF TypeOK
<1> QED
  BY <1>1, <1>2, PassedCounted, TimesNext, Numbers

LEMMA TotalGrows ==
  ASSUME TypeOK, cSlot \in Slots, TaskSucceeds, NEW d
  PROVE  ClientTotal(d)' = ClientTotal(d) + (IF Durations[cSlot] = d THEN 1 ELSE 0)
<1> DEFINE n == Cardinality(Passed(cSlot, d))
           T(c, k) == Tasks * Cardinality(Passed(c, d))
             + (IF c \in Slots /\ Durations[c] = d THEN k ELSE 0)
<1>1. ClientTotal(d) = T(cSlot, cDone) /\ ClientTotal(d)' = T(cSlot', cDone')
  BY DEF ClientTotal, Passed
<1>2. n \in Nat /\ Tasks * n \in Nat /\ Tasks * (n + 1) = Tasks * n + Tasks
  BY PassedCounted, TimesNext, Numbers
<1>3. cDone \in Nat /\ cDone < Tasks
  BY Numbers DEF TypeOK
<1>4. CASE cDone + 1 < Tasks
  <2>1. cDone' = cDone + 1 /\ cSlot' = cSlot
    BY <1>4 DEF TaskSucceeds, CountTask
  <2> QED
    BY <1>1, <1>2, <1>3, <2>1
<1>5. CASE ~(cDone + 1 < Tasks)
  <2>1. cDone' = 0 /\ cSlot' = cSlot + 1 /\ cDone + 1 = Tasks
    BY <1>3, <1>5, Numbers DEF TaskSucceeds, CountTask
  <2>2. T(cSlot + 1, 0) = Tasks * Cardinality(Passed(cSlot + 1, d))
    BY PassedCounted, TimesNext, Numbers
  <2>3. CASE Durations[cSlot] = d
    <3>1. Cardinality(Passed(cSlot + 1, d)) = n + 1
      BY <2>3, PassedNext
    <3>2. ClientTotal(d)' = Tasks * n + Tasks
      BY <1>1, <1>2, <2>1, <2>2, <3>1
    <3>3. ClientTotal(d) = Tasks * n + cDone
      BY <1>1, <2>3
    <3>4. \A m, k \in Nat : k + 1 = Tasks => m + Tasks = (m + k) + 1
      BY Numbers
    <3> QED
      BY <1>2, <1>3, <2>1, <2>3, <3>2, <3>3, <3>4
  <2>4. CASE Durations[cSlot] # d
    <3>1. Cardinality(Passed(cSlot + 1, d)) = n
      BY <1>2, <2>4, PassedNext
    <3>2. ClientTotal(d)' = Tasks * n
      BY <1>1, <2>1, <2>2, <3>1
    <3>3. ClientTotal(d) = Tasks * n
      BY <1>1, <1>2, <2>4
    <3> QED
      BY <1>2, <2>4, <3>2, <3>3
  <2> QED
    BY <2>3, <2>4
<1> QED
  BY <1>4, <1>5

\* A program may leave slot a when the other is past it or at its duration.
LEMMA StepAhead ==
  ASSUME NEW a \in Slots, NEW b \in 1..Finished, Ahead(a, b), Ahead(b, a),
         b > a \/ Durations[a] = Durations[b]
  PROVE  /\ Ahead(a + 1, b) /\ Ahead(b, a + 1)
         /\ Durations[a] = Durations[b] =>
              a + 1 > b \/ Durations[a + 1] = Durations[b]
<1>1. a \in Nat /\ b \in Nat
  BY Numbers
<1>2. ASSUME NEW k \in b..a PROVE Durations[k] = Durations[b]
  <2>1. CASE k = a
    BY <1>1, <2>1
  <2>2. CASE k # a
    BY <1>1, <2>2 DEF Ahead
  <2> QED
    BY <2>1, <2>2
<1>3. \A k \in a..b-1 : Durations[k] = Durations[a]
  BY DEF Ahead
<1>4. ASSUME NEW k \in a+1..b-1 PROVE Durations[k] = Durations[a + 1]
  BY <1>1, <1>3
<1>5. ASSUME Durations[a] = Durations[b], ~(a + 1 > b) PROVE Durations[a + 1] = Durations[b]
  <2>1. CASE a + 1 = b
    BY <2>1
  <2>2. CASE a + 1 # b
    <3>1. a + 1 \in a..b-1
      BY <1>1, <1>5, <2>2
    <3> QED
      BY <1>3, <1>5, <3>1
  <2> QED
    BY <2>1, <2>2
<1>6. Ahead(b, a + 1)
  BY <1>4 DEF Ahead
<1>7. Ahead(a + 1, b)
  <2>1. (a + 1) - 1 = a
    BY <1>1
  <2> QED
    BY <1>2, <2>1 DEF Ahead
<1> QED
  BY <1>5, <1>6, <1>7

-----------------------------------------------------------------------------
\* Both programs start at the first slot, with nothing done.
LEMMA InitialInv == Init => IInv
<1> SUFFICES ASSUME Init PROVE IInv
  OBVIOUS
<1>1. TypeOK
  BY Numbers DEF Init, TypeOK, ConnStates, ServerStates
<1>2. Bounded /\ Connected /\ Working
  BY Numbers DEF Init, Bounded, Connected, Working
<1>3. NeverRunsAway
  BY DEF Init, NeverRunsAway, Ahead
<1>4. Credited
  <2> SUFFICES ASSUME NEW d \in DurationSet
               PROVE  rows[d] + unsaved[d] + Pending(d) >= ClientTotal(d) + Due(d)
    BY DEF Credited
  <2>1. Passed(1, d) = {}
    BY Numbers DEF Passed
  <2>2. Cardinality(Passed(1, d)) = 0
    BY <2>1, FS_EmptySet
  <2>3. ClientTotal(d) = Tasks * Cardinality(Passed(1, d)) + 0
    BY DEF Init, ClientTotal, Passed
  <2>4. ClientTotal(d) = 0
    BY <2>2, <2>3, Numbers
  <2> QED
    BY <2>4 DEF Init, Pending, Due
<1> QED
  BY <1>1, <1>2, <1>3, <1>4 DEF IInv

\* While the client's position and the file stay as they are, only what the
\* two ends of a connection owe each other matters.
LEMMA CreditKept ==
  ASSUME IInv, UNCHANGED <<cSlot, cDone, rows, unsaved>>,
         \A d \in DurationSet : Pending(d)' - Due(d)' >= Pending(d) - Due(d)
  PROVE  Credited'
<1> SUFFICES ASSUME NEW d \in DurationSet
             PROVE  (rows[d] + unsaved[d] + Pending(d) >= ClientTotal(d) + Due(d))'
  BY DEF Credited
<1>1. ClientTotal(d)' = ClientTotal(d) /\ ClientTotal(d) \in Nat
  BY TotalCounted DEF ClientTotal, IInv
<1>2. rows[d] \in Nat /\ unsaved[d] \in Nat /\ rows'[d] = rows[d] /\ unsaved'[d] = unsaved[d]
  BY Numbers DEF IInv, TypeOK
<1>3. Pending(d) \in Int /\ Due(d) \in Int /\ Pending(d)' \in Int /\ Due(d)' \in Int
  BY DEF Pending, Due
<1>4. rows[d] + unsaved[d] + Pending(d) >= ClientTotal(d) + Due(d)
  BY DEF IInv, Credited
<1> QED
  BY <1>1, <1>2, <1>3, <1>4

-----------------------------------------------------------------------------
\* One lemma per action.
LEMMA DialStep == ASSUME IInv, Dial PROVE IInv'
<1> USE Numbers
<1>1. TypeOK' /\ Bounded'
  BY DEF IInv, TypeOK, Bounded, Dial, ConnStates
<1>2. Connected' /\ Working'
  BY DEF IInv, Connected, Working, Dial, Meet
<1>3. NeverRunsAway'
  BY DEF IInv, NeverRunsAway, Ahead, Dial
<1>4. Credited'
  BY CreditKept DEF Dial, Pending, Due
<1> QED
  BY <1>1, <1>2, <1>3, <1>4 DEF IInv

LEMMA TaskSucceedsStep == ASSUME IInv, TaskSucceeds PROVE IInv'
<1> USE Numbers
<1>1. /\ cConn \in {"served", "late"} /\ cConn' = "none"
      /\ cSlot \in Slots
      /\ sSlot > cSlot \/ Durations[cSlot] = Durations[sSlot]
      /\ cConn = "served" => Meet
      /\ cConn = "late" => sTask = "accept" /\ sDone = 0
      /\ UNCHANGED <<sSlot, sDone, sTask, stale, rows, unsaved, faults>>
      /\ \/ cSlot' = cSlot /\ cDone' = cDone + 1 /\ cDone + 1 < Tasks
         \/ cSlot' = cSlot + 1 /\ cDone' = 0
  BY DEF IInv, Connected, Meet, TaskSucceeds, CountTask
<1>2. TypeOK' /\ Bounded' /\ Connected'
  <2>1. cSlot' \in 1..Finished /\ cDone' \in 0..Tasks-1 /\ cConn' \in ConnStates
    BY <1>1 DEF IInv, TypeOK, ConnStates
  <2>2. TypeOK'
    BY <1>1, <2>1 DEF IInv, TypeOK
  <2>3. Bounded' /\ Connected'
    BY <1>1 DEF IInv, Bounded, Connected
  <2> QED
    BY <2>2, <2>3
<1>3. Working' /\ NeverRunsAway'
  <2>1. /\ sSlot \in 1..Finished /\ Ahead(cSlot, sSlot) /\ Ahead(sSlot, cSlot)
    BY <1>1 DEF IInv, TypeOK, NeverRunsAway
  <2>2. /\ Ahead(cSlot + 1, sSlot) /\ Ahead(sSlot, cSlot + 1)
        /\ cConn = "served" =>
             cSlot + 1 > sSlot \/ Durations[cSlot + 1] = Durations[sSlot]
    BY <1>1, <2>1, StepAhead DEF Meet
  <2>3. CASE cSlot' = cSlot
    BY <1>1, <2>3 DEF IInv, Working, NeverRunsAway, Ahead
  <2>4. CASE cSlot' = cSlot + 1
    BY <1>1, <2>2, <2>4 DEF IInv, Working, NeverRunsAway, Ahead
  <2> QED
    BY <1>1, <2>3, <2>4
<1>4. Credited'
  <2> SUFFICES ASSUME NEW d \in DurationSet
               PROVE  (rows[d] + unsaved[d] + Pending(d) >= ClientTotal(d) + Due(d))'
    BY DEF Credited
  <2>1. /\ ClientTotal(d) \in Nat
        /\ ClientTotal(d)' = ClientTotal(d) + (IF Durations[cSlot] = d THEN 1 ELSE 0)
    BY <1>1, TotalCounted, TotalGrows DEF IInv
  <2>2. /\ rows[d] \in Nat /\ unsaved[d] \in Nat
        /\ rows'[d] = rows[d] /\ unsaved'[d] = unsaved[d]
    BY <1>1 DEF IInv, TypeOK
  <2>3. Pending(d)' = Pending(d) /\ Pending(d) \in Nat
    BY <1>1 DEF Pending
  <2>4. Due(d) = (IF Durations[cSlot] = d THEN 1 ELSE 0) /\ Due(d)' = 0
    BY <1>1 DEF Due
  <2>5. rows[d] + unsaved[d] + Pending(d) >= ClientTotal(d) + Due(d)
    BY DEF IInv, Credited
  <2> QED
    BY <2>1, <2>2, <2>3, <2>4, <2>5
<1> QED
  BY <1>2, <1>3, <1>4 DEF IInv

LEMMA TaskFailsStep == ASSUME IInv, TaskFails PROVE IInv'
<1> USE Numbers
<1>1. TypeOK' /\ Bounded'
  BY DEF IInv, TypeOK, Bounded, TaskFails, Fault, ConnStates
<1>2. Connected' /\ Working'
  BY DEF IInv, Connected, Working, TaskFails
<1>3. NeverRunsAway'
  BY DEF IInv, NeverRunsAway, Ahead, TaskFails
<1>4. Credited'
  BY CreditKept DEF TaskFails, Pending, Due
<1> QED
  BY <1>1, <1>2, <1>3, <1>4 DEF IInv

LEMMA AcceptStep == ASSUME IInv, Accept PROVE IInv'
<1> USE Numbers
<1>1. TypeOK' /\ Bounded'
  BY DEF IInv, TypeOK, Bounded, Accept, ConnStates, ServerStates
<1>2. Connected' /\ Working'
  BY DEF IInv, Connected, Working, Accept, Meet
<1>3. NeverRunsAway'
  BY DEF IInv, NeverRunsAway, Ahead, Accept
<1>4. Credited'
  BY CreditKept DEF Accept, Pending, Due
<1> QED
  BY <1>1, <1>2, <1>3, <1>4 DEF IInv

LEMMA CloseNoticedStep == ASSUME IInv, CloseNoticed PROVE IInv'
<1> USE Numbers
<1>1. TypeOK' /\ Bounded'
  BY DEF IInv, TypeOK, Bounded, CloseNoticed
<1>2. Connected' /\ Working'
  BY DEF IInv, Connected, Working, CloseNoticed, Meet
<1>3. NeverRunsAway'
  BY DEF IInv, NeverRunsAway, Ahead, CloseNoticed
<1>4. Credited'
  BY CreditKept DEF CloseNoticed, Pending, Due
<1> QED
  BY <1>1, <1>2, <1>3, <1>4 DEF IInv

LEMMA HandlerSucceedsStep == ASSUME IInv, HandlerSucceeds PROVE IInv'
<1> USE Numbers
<1>1. TypeOK' /\ Bounded'
  BY DEF IInv, TypeOK, Bounded, HandlerSucceeds, ConnStates, ServerStates
<1>2. Connected' /\ Working'
  BY DEF IInv, Connected, Working, HandlerSucceeds, Meet
<1>3. NeverRunsAway'
  BY DEF IInv, NeverRunsAway, Ahead, HandlerSucceeds
<1>4. Credited'
  BY CreditKept DEF IInv, Connected, Meet, HandlerSucceeds, Pending, Due
<1> QED
  BY <1>1, <1>2, <1>3, <1>4 DEF IInv

LEMMA OneMore ==
  ASSUME NEW S, NEW f \in [S -> Nat], NEW e \in S, NEW g, g = [f EXCEPT ![e] = @ + 1]
  PROVE  /\ g \in [S -> Nat]
         /\ \A d \in S : g[d] = f[d] + (IF d = e THEN 1 ELSE 0)
OBVIOUS

LEMMA RecordResultStep == ASSUME IInv, RecordResult PROVE IInv'
<1> USE Numbers
<1> DEFINE e == Durations[sSlot]
<1>1. /\ sTask = "record" /\ sTask' = "wait" /\ sDone' = sDone + 1
      /\ e \in DurationSet
      /\ UNCHANGED <<cSlot, cDone, cConn, sSlot, stale>>
      /\ \/ rows' = [rows EXCEPT ![e] = @ + 1] /\ UNCHANGED <<unsaved, faults>>
         \/ /\ faults < MaxFaults /\ faults' = faults + 1
            /\ unsaved' = [unsaved EXCEPT ![e] = @ + 1] /\ UNCHANGED rows
  BY DEF IInv, Working, RecordResult, Fault
<1>2. /\ faults \in 0..MaxFaults
      /\ rows \in [DurationSet -> Nat] /\ unsaved \in [DurationSet -> 0..MaxFaults]
      /\ \A d \in DurationSet : unsaved[d] <= faults
  BY DEF IInv, TypeOK, Bounded
<1>3. /\ rows' \in [DurationSet -> Nat] /\ unsaved' \in [DurationSet -> 0..MaxFaults]
      /\ faults' \in 0..MaxFaults /\ faults <= faults'
      /\ \A d \in DurationSet : unsaved'[d] <= faults'
      /\ \A d \in DurationSet :
           rows'[d] + unsaved'[d] = rows[d] + unsaved[d] + (IF d = e THEN 1 ELSE 0)
  <2>1. CASE rows' = [rows EXCEPT ![e] = @ + 1] /\ UNCHANGED <<unsaved, faults>>
    <3>1. /\ rows' \in [DurationSet -> Nat]
          /\ \A d \in DurationSet : rows'[d] = rows[d] + (IF d = e THEN 1 ELSE 0)
      BY <1>1, <1>2, <2>1, OneMore
    <3>2. \A d \in DurationSet :
            rows'[d] + unsaved'[d] = rows[d] + unsaved[d] + (IF d = e THEN 1 ELSE 0)
      <4> SUFFICES ASSUME NEW d \in DurationSet
                   PROVE  rows'[d] + unsaved'[d]
                            = rows[d] + unsaved[d] + (IF d = e THEN 1 ELSE 0)
        OBVIOUS
      <4>1. rows[d] \in Nat /\ unsaved[d] \in Nat /\ unsaved'[d] = unsaved[d]
        BY <1>2, <2>1
      <4>2. rows'[d] = rows[d] + (IF d = e THEN 1 ELSE 0)
        BY <3>1
      <4> QED
        BY <4>1, <4>2
    <3> QED
      BY <1>2, <2>1, <3>1, <3>2
  <2>2. CASE /\ faults < MaxFaults /\ faults' = faults + 1
             /\ unsaved' = [unsaved EXCEPT ![e] = @ + 1] /\ UNCHANGED rows
    <3>1. unsaved \in [DurationSet -> Nat]
      BY <1>2
    <3>2. /\ unsaved' \in [DurationSet -> Nat]
          /\ \A d \in DurationSet : unsaved'[d] = unsaved[d] + (IF d = e THEN 1 ELSE 0)
      BY <1>1, <2>2, <3>1, OneMore
    <3>3. faults' \in 0..MaxFaults /\ faults <= faults'
      BY <1>2, <2>2
    <3>4. \A d \in DurationSet : unsaved'[d] <= faults' /\ unsaved'[d] \in 0..MaxFaults
      BY <1>2, <2>2, <3>1, <3>2, <3>3
    <3>5. unsaved' \in [DurationSet -> 0..MaxFaults]
      BY <3>2, <3>4
    <3>6. \A d \in DurationSet :
            rows'[d] + unsaved'[d] = rows[d] + unsaved[d] + (IF d = e THEN 1 ELSE 0)
      <4> SUFFICES ASSUME NEW d \in DurationSet
                   PROVE  rows'[d] + unsaved'[d]
                            = rows[d] + unsaved[d] + (IF d = e THEN 1 ELSE 0)
        OBVIOUS
      <4>1. rows[d] \in Nat /\ unsaved[d] \in Nat /\ rows'[d] = rows[d]
        BY <1>2, <2>2
      <4>2. unsaved'[d] = unsaved[d] + (IF d = e THEN 1 ELSE 0)
        BY <3>2
      <4> QED
        BY <4>1, <4>2
    <3> QED
      BY <1>2, <2>2, <3>3, <3>4, <3>5, <3>6
  <2> QED
    BY <1>1, <2>1, <2>2
<1>4. TypeOK' /\ Bounded'
  <2>1. sDone \in 0..Tasks /\ sDone < Tasks /\ stale \in 0..MaxFaults /\ stale <= faults
    BY <1>1 DEF IInv, TypeOK, Bounded
  <2>2. sDone' \in 0..Tasks /\ stale' \in 0..MaxFaults /\ stale' <= faults'
    BY <1>1, <1>2, <1>3, <2>1
  <2>3. sTask' \in ServerStates /\ sTask' = "wait"
    BY <1>1 DEF ServerStates
  <2>4. TypeOK'
    BY <1>1, <1>3, <2>2, <2>3 DEF IInv, TypeOK
  <2>5. Bounded'
    BY <1>3, <2>2, <2>3 DEF Bounded
  <2> QED
    BY <2>4, <2>5
<1>5. Connected' /\ Working'
  BY <1>1 DEF IInv, Connected, Working, Meet
<1>6. NeverRunsAway'
  BY <1>1 DEF IInv, NeverRunsAway, Ahead
<1>7. Credited'
  <2> SUFFICES ASSUME NEW d \in DurationSet
               PROVE  (rows[d] + unsaved[d] + Pending(d) >= ClientTotal(d) + Due(d))'
    BY DEF Credited
  <2>1. ClientTotal(d)' = ClientTotal(d) /\ ClientTotal(d) \in Nat
    BY <1>1, TotalCounted DEF ClientTotal, IInv
  <2>2. /\ Pending(d) = (IF d = e THEN 1 ELSE 0) /\ Pending(d)' = 0
        /\ Due(d)' = Due(d) /\ Due(d) \in Nat
    BY <1>1 DEF Pending, Due
  <2>3. rows[d] + unsaved[d] + Pending(d) >= ClientTotal(d) + Due(d)
    BY DEF IInv, Credited
  <2>4. rows'[d] + unsaved'[d] = rows[d] + unsaved[d] + (IF d = e THEN 1 ELSE 0)
    BY <1>3
  <2>5. rows[d] \in Nat /\ unsaved[d] \in Nat /\ rows'[d] \in Nat /\ unsaved'[d] \in Nat
    BY <1>2, <1>3
  <2> QED
    BY <2>1, <2>2, <2>3, <2>4, <2>5
<1> QED
  BY <1>4, <1>5, <1>6, <1>7 DEF IInv

\* The slot starts again, or the next one: the client has no connection left
\* that could work, except for an answer that is on its way, and nothing is
\* pending.
LEMMA ServeAgainStep ==
  ASSUME IInv, NEW slot \in 1..Finished, ServeAgain(slot),
         Ahead(cSlot, slot), Ahead(slot, cSlot), sTask \notin {"accept", "record"},
         cConn = "served" => slot > cSlot \/ Durations[cSlot] = Durations[slot],
         faults' \in 0..MaxFaults, faults <= faults',
         UNCHANGED <<cSlot, cDone, rows, unsaved>>
  PROVE  IInv'
<1> USE Numbers
<1>1. TypeOK' /\ Bounded'
  BY DEF IInv, TypeOK, Bounded, ServeAgain, ConnStates, ServerStates
<1>2. Connected' /\ Working'
  BY DEF IInv, Connected, Working, ServeAgain, Meet
<1>3. NeverRunsAway'
  BY DEF NeverRunsAway, Ahead, ServeAgain
<1>4. Credited'
  BY CreditKept DEF ServeAgain, Pending, Due
<1> QED
  BY <1>1, <1>2, <1>3, <1>4 DEF IInv

LEMMA HandlerFailsStep == ASSUME IInv, HandlerFails PROVE IInv'
<1>1. /\ sSlot \in 1..Finished /\ ServeAgain(sSlot)
      /\ sTask \notin {"accept", "record"}
      /\ cConn = "served" => Durations[cSlot] = Durations[sSlot]
      /\ Ahead(cSlot, sSlot) /\ Ahead(sSlot, cSlot)
      /\ UNCHANGED <<cSlot, cDone, rows, unsaved>>
  BY DEF IInv, TypeOK, Connected, Meet, NeverRunsAway, HandlerFails
<1>2. faults' \in 0..MaxFaults /\ faults <= faults'
  BY Numbers DEF IInv, TypeOK, HandlerFails, Fault
<1> QED
  BY <1>1, <1>2, ServeAgainStep

LEMMA PeerClosedStep == ASSUME IInv, PeerClosed PROVE IInv'
<1> USE Numbers
<1>1. /\ sTask = "wait" /\ faults' \in 0..MaxFaults /\ faults <= faults'
      /\ UNCHANGED <<cSlot, cDone, rows, unsaved>>
  BY DEF IInv, TypeOK, PeerClosed, CloseOrNext, Fault
<1>2. CASE sDone < Tasks
  <2>1. sTask' = "accept" /\ UNCHANGED <<sSlot, sDone, stale, cConn>>
    BY <1>2 DEF PeerClosed, CloseOrNext
  <2>2. TypeOK' /\ Bounded'
    BY <1>1, <1>2, <2>1 DEF IInv, TypeOK, Bounded, ServerStates
  <2>3. Connected' /\ Working'
    BY <1>1, <2>1 DEF IInv, Connected, Working, Meet
  <2>4. NeverRunsAway'
    BY <1>1, <2>1 DEF IInv, NeverRunsAway, Ahead
  <2>5. Credited'
    BY <1>1, <2>1, CreditKept DEF Pending, Due
  <2> QED
    BY <2>2, <2>3, <2>4, <2>5 DEF IInv
<1>3. CASE ~(sDone < Tasks)
  <2>1. ServeAgain(sSlot + 1)
    BY <1>3 DEF PeerClosed, CloseOrNext
  <2>2. /\ sSlot \in Slots /\ cSlot \in 1..Finished
        /\ cSlot > sSlot \/ Durations[sSlot] = Durations[cSlot]
        /\ Ahead(sSlot, cSlot) /\ Ahead(cSlot, sSlot)
    BY <1>1 DEF IInv, TypeOK, Working, NeverRunsAway
  <2>3. sSlot + 1 \in 1..Finished
    BY <2>2
  <2>4. Ahead(sSlot + 1, cSlot) /\ Ahead(cSlot, sSlot + 1)
    BY <2>2, StepAhead
  <2>5. cConn = "served" =>
          sSlot + 1 > cSlot \/ Durations[cSlot] = Durations[sSlot + 1]
    BY <2>2, StepAhead DEF IInv, Connected, Meet
  <2> QED
    BY <1>1, <2>1, <2>3, <2>4, <2>5, ServeAgainStep
<1> QED
  BY <1>2, <1>3

LEMMA InvUnchanged == ASSUME IInv, UNCHANGED vars PROVE IInv'
<1>1. TypeOK' /\ Bounded' /\ Connected' /\ Working'
  BY DEF IInv, vars, TypeOK, Bounded, Connected, Working, Meet
<1>2. NeverRunsAway'
  BY DEF IInv, vars, NeverRunsAway, Ahead
<1>3. Credited'
  BY CreditKept DEF vars, Pending, Due
<1> QED
  BY <1>1, <1>2, <1>3 DEF IInv

LEMMA NextInv == IInv /\ [Next]_vars => IInv'
<1> SUFFICES ASSUME IInv, [Next]_vars PROVE IInv'
  OBVIOUS
<1>1. CASE Dial
  BY <1>1, DialStep
<1>2. CASE DialAgain \/ NothingLeft \/ UNCHANGED vars
  BY <1>2, InvUnchanged DEF DialAgain, NothingLeft
<1>3. CASE TaskSucceeds
  BY <1>3, TaskSucceedsStep
<1>4. CASE TaskFails
  BY <1>4, TaskFailsStep
<1>5. CASE Accept
  BY <1>5, AcceptStep
<1>6. CASE CloseNoticed
  BY <1>6, CloseNoticedStep
<1>7. CASE HandlerSucceeds
  BY <1>7, HandlerSucceedsStep
<1>8. CASE RecordResult
  BY <1>8, RecordResultStep
<1>9. CASE HandlerFails
  BY <1>9, HandlerFailsStep
<1>10. CASE PeerClosed
  BY <1>10, PeerClosedStep
<1> QED
  BY <1>1, <1>2, <1>3, <1>4, <1>5, <1>6, <1>7, <1>8, <1>9, <1>10 DEF Next

\* The invariant holds in every reachable state, with or without fairness.
THEOREM Invariant == Spec => []IInv
<1>1. Init => IInv
  BY InitialInv
<1>2. IInv /\ [Next]_vars => IInv'
  BY NextInv
<1> QED
  BY <1>1, <1>2, PTL DEF Spec

(***************************************************************************)
(* Both programs stay within the list of durations and within the tasks of *)
(* a slot, whatever connections break.                                     *)
(***************************************************************************)
THEOREM TypeCorrect == Spec => []TypeOK
<1>1. IInv => TypeOK
  BY DEF IInv
<1> QED
  BY <1>1, Invariant, PTL

(***************************************************************************)
(* Every task the client counts is in results.csv under its duration, or   *)
(* is the row being written or one that could not be: a repeated task, a   *)
(* slot started again and a lost close never make the file fall behind.    *)
(***************************************************************************)
THEOREM ResultsAlwaysRecorded == Spec => []ResultsRecorded
<1>1. IInv => ResultsRecorded
  <2> SUFFICES ASSUME IInv, NEW d \in DurationSet
               PROVE  rows[d] + unsaved[d] + Pending(d) >= ClientTotal(d)
    BY DEF ResultsRecorded
  <2>1. rows[d] \in Nat /\ unsaved[d] \in Nat
    BY Numbers DEF IInv, TypeOK
  <2>2. ClientTotal(d) \in Nat
    BY TotalCounted DEF IInv
  <2>3. Due(d) \in Nat /\ Pending(d) \in Nat
    BY DEF Due, Pending
  <2>4. rows[d] + unsaved[d] + Pending(d) >= ClientTotal(d) + Due(d)
    BY DEF IInv, Credited
  <2> QED
    BY <2>1, <2>2, <2>3, <2>4
<1> QED
  BY <1>1, Invariant, PTL

(***************************************************************************)
(* Neither program runs away from the other: the one ahead has only passed *)
(* slots of the duration at which the other still is.                      *)
(***************************************************************************)
THEOREM NobodyRunsAway == Spec => []NeverRunsAway
<1>1. IInv => NeverRunsAway
  BY DEF IInv
<1> QED
  BY <1>1, Invariant, PTL

=============================================================================
