--------------------------- MODULE RecvPathProofs ---------------------------
(***************************************************************************)
(* Theorems about RecvPath, for any number of sockets and any capacity of  *)
(* the queue.                                                              *)
(***************************************************************************)
EXTENDS RecvPath, TLAPS

Items == [sock : Sockets, no : Nat]

(***************************************************************************)
(* The inductive invariant.  Numbered says that what is queued is newer    *)
(* than what was handed over and no newer than what was read, and in the   *)
(* order of reading; Errors where errors come from and that none is lost.  *)
(***************************************************************************)
NothingInvented == \A s \in Sockets : got[s] <= inHand[s] /\ inHand[s] <= given[s]

QueueNewer ==
  \A i \in 1..Len(recvQueue) :
    recvQueue[i].no # ErrorNo =>
      /\ got[recvQueue[i].sock] < recvQueue[i].no
      /\ recvQueue[i].no <= inHand[recvQueue[i].sock]

QueueOrdered ==
  \A i, j \in 1..Len(recvQueue) :
    i < j /\ recvQueue[i].sock = recvQueue[j].sock /\ recvQueue[j].no # ErrorNo
      => recvQueue[i].no < recvQueue[j].no

HandNewest ==
  \A s \in Sockets : pump[s] = "holding" =>
    /\ got[s] < inHand[s]
    /\ \A i \in 1..Len(recvQueue) :
         recvQueue[i].sock = s => recvQueue[i].no < inHand[s]

Numbered == NothingInvented /\ QueueNewer /\ QueueOrdered /\ HandNewest

ErrorQueued == \E i \in 1..Len(recvQueue) : recvQueue[i].no = ErrorNo

Errors ==
  /\ \A s \in Sockets : pump[s] = "failing" => broken
  /\ ErrorQueued => broken
  /\ reader = "ended" => cancelled \/ broken
  /\ \A s \in Sockets : sock[s] = "none" => pump[s] = "none"
  /\ \A s \in Sockets :
       sock[s] = "open" /\ pump[s] = "ended" =>
         cancelled \/ reader = "ended" \/ ErrorQueued

IInv == TypeOK /\ Numbered /\ Errors

-----------------------------------------------------------------------------
\* What appending an item does to the queue.
LEMMA Appended ==
  ASSUME NEW q \in Seq(Items), NEW x \in Items
  PROVE  /\ Append(q, x) \in Seq(Items)
         /\ Len(Append(q, x)) = Len(q) + 1
         /\ Append(q, x)[Len(q) + 1] = x
         /\ \A i \in 1..Len(q) : Append(q, x)[i] = q[i]
         /\ \A i \in 1..Len(q)+1 : i \in 1..Len(q) \/ i = Len(q) + 1
OBVIOUS

\* What removing the first item does to it.
LEMMA Removed ==
  ASSUME NEW q \in Seq(Items), q # << >>
  PROVE  /\ Tail(q) \in Seq(Items)
         /\ Len(Tail(q)) = Len(q) - 1
         /\ Len(q) \in Nat \ {0}
         /\ Head(q) = q[1] /\ q[1] \in Items
         /\ \A i \in 1..Len(q)-1 : Tail(q)[i] = q[i+1] /\ i+1 \in 1..Len(q)
OBVIOUS

\* Initially nothing has come and nothing is queued.
LEMMA InitialInv == Init => IInv
<1> SUFFICES ASSUME Init PROVE IInv
  OBVIOUS
<1>1. recvQueue = << >> /\ Len(recvQueue) = 0 /\ recvQueue \in Seq(Items)
  BY DEF Init
<1>2. ~cancelled /\ ~broken /\ cancelled \in BOOLEAN /\ broken \in BOOLEAN
  BY Zenon DEF Init
<1>3. TypeOK
  BY <1>1, <1>2, RecvConstants DEF Init, TypeOK, Items
<1>4. Numbered /\ Errors
  BY <1>1 DEF Init, Numbered, NothingInvented, QueueNewer, QueueOrdered, HandNewest,
              Errors, ErrorQueued
<1> QED
  BY <1>3, <1>4 DEF IInv

\* A queued packet is the pump's latest, and an error comes from a broken read.
LEMMA EnqueueStep ==
  ASSUME IInv, NEW s \in Sockets, NEW n \in Nat, Enqueue(s, n),
         UNCHANGED <<sock, given, inHand, cancelled, reader, got, handed,
                   broken>>,
         \/ n = inHand[s] /\ pump[s] = "holding" /\ n # ErrorNo /\ Becomes(s, "reading")
         \/ n = ErrorNo /\ pump[s] = "failing" /\ Becomes(s, "ended")
  PROVE  IInv'
<1> DEFINE len == Len(recvQueue)
<1> USE DEF IInv, TypeOK
<1>1. /\ recvQueue \in Seq(Items)
      /\ recvQueue' = Append(recvQueue, Item(s, n))
      /\ Item(s, n) \in Items
      /\ len < QueueLen
      /\ len \in Nat
  BY DEF Enqueue, Item, Items
<1>2. /\ recvQueue' \in Seq(Items)
      /\ Len(recvQueue') = len + 1
      /\ recvQueue'[len + 1] = Item(s, n)
      /\ \A i \in 1..len : recvQueue'[i] = recvQueue[i]
      /\ \A i \in 1..len+1 : i \in 1..len \/ i = len + 1
  BY <1>1, Appended
<1>3. \A i \in 1..len : recvQueue[i] \in Items
  BY <1>1
<1> HIDE DEF len
<1>4. TypeOK'
  <2>1. pump' \in [Sockets -> {"none", "reading", "holding", "failing", "ended"}]
    BY DEF Becomes
  <2>2. Len(recvQueue') <= QueueLen
    BY <1>1, <1>2, RecvConstants
  <2> QED
    BY <1>2, <2>1, <2>2 DEF Items
<1>5. Numbered'
  <2>1. /\ \A t \in Sockets : inHand[t] \in Nat /\ got[t] \in Nat /\ given[t] \in Nat
        /\ UNCHANGED <<inHand, got, given>>
    OBVIOUS
  <2>2. \A t \in Sockets : pump'[t] = "holding" => pump[t] = "holding" /\ t # s
    BY DEF Becomes
  <2>3. n # ErrorNo => /\ n = inHand[s] /\ got[s] < n
                       /\ \A i \in 1..len : recvQueue[i].sock = s => recvQueue[i].no < n
    <3>1. HandNewest
      BY DEF Numbered
    <3>2. n # ErrorNo => n = inHand[s] /\ pump[s] = "holding"
      OBVIOUS
    <3> HIDE DEF IInv, TypeOK
    <3> QED
      BY <3>1, <3>2 DEF HandNewest, len
  <2>4. Item(s, n).sock = s /\ Item(s, n).no = n
    BY DEF Item
  <2>5. \A i \in 1..len+1 :
          recvQueue'[i].no # ErrorNo =>
            /\ got[recvQueue'[i].sock] < recvQueue'[i].no
            /\ recvQueue'[i].no <= inHand[recvQueue'[i].sock]
    <3> SUFFICES ASSUME NEW i \in 1..len+1, recvQueue'[i].no # ErrorNo
                 PROVE  /\ got[recvQueue'[i].sock] < recvQueue'[i].no
                        /\ recvQueue'[i].no <= inHand[recvQueue'[i].sock]
      OBVIOUS
    <3>1. CASE i \in 1..len
      BY <1>2, <3>1 DEF Numbered, QueueNewer, len
    <3>2. CASE i = len + 1
      BY <1>2, <2>1, <2>3, <2>4, <3>2
    <3> QED
      BY <1>2, <3>1, <3>2
  <2>6. \A i, j \in 1..len+1 :
          i < j /\ recvQueue'[i].sock = recvQueue'[j].sock /\ recvQueue'[j].no # ErrorNo
            => recvQueue'[i].no < recvQueue'[j].no
    <3> SUFFICES ASSUME NEW i \in 1..len+1, NEW j \in 1..len+1, i < j,
                        recvQueue'[i].sock = recvQueue'[j].sock,
                        recvQueue'[j].no # ErrorNo
                 PROVE  recvQueue'[i].no < recvQueue'[j].no
      OBVIOUS
    <3>1. i \in 1..len /\ recvQueue'[i] = recvQueue[i]
      BY <1>1, <1>2
    <3>2. CASE j \in 1..len
      BY <1>2, <3>1, <3>2 DEF Numbered, QueueOrdered, len
    <3>3. CASE j = len + 1
      BY <1>2, <2>3, <2>4, <3>1, <3>3
    <3> QED
      BY <1>2, <3>2, <3>3
  <2>7. \A t \in Sockets : pump'[t] = "holding" =>
          /\ got[t] < inHand[t]
          /\ \A i \in 1..len+1 : recvQueue'[i].sock = t => recvQueue'[i].no < inHand[t]
    <3> SUFFICES ASSUME NEW t \in Sockets, pump'[t] = "holding"
                 PROVE  /\ got[t] < inHand[t]
                        /\ \A i \in 1..len+1 : recvQueue'[i].sock = t
                                                 => recvQueue'[i].no < inHand[t]
      OBVIOUS
    <3>1. pump[t] = "holding" /\ t # s
      BY <2>2
    <3> QED
      BY <1>2, <2>4, <3>1 DEF Numbered, HandNewest, len
  <2>8. NothingInvented' /\ QueueNewer' /\ QueueOrdered' /\ HandNewest'
    BY <1>2, <2>1, <2>5, <2>6, <2>7
       DEF Numbered, NothingInvented, QueueNewer, QueueOrdered, HandNewest
  <2> QED
    BY <2>8 DEF Numbered
<1>6. Errors'
  <2>0. len \in Nat /\ \A i \in 1..len : i \in 1..len+1
    BY <1>1
  <2>1. ErrorQueued => ErrorQueued'
    <3> SUFFICES ASSUME NEW i \in 1..len, recvQueue[i].no = ErrorNo
                 PROVE  ErrorQueued'
      BY DEF ErrorQueued, len
    <3>1. i \in 1..Len(recvQueue') /\ recvQueue'[i].no = ErrorNo
      BY <1>2, <2>0
    <3> QED
      BY <3>1 DEF ErrorQueued
  <2>2. n = ErrorNo => ErrorQueued'
    BY <1>1, <1>2 DEF ErrorQueued, Item, len
  <2>3. ErrorQueued' => ErrorQueued \/ n = ErrorNo
    BY <1>1, <1>2 DEF ErrorQueued, Item, len
  <2> QED
    BY <2>1, <2>2, <2>3 DEF Errors, Becomes
<1> QED
  BY <1>4, <1>5, <1>6

\* The rest of an ordered queue is in order.
LEMMA ShiftedOrder ==
  ASSUME QueueOrdered, Len(recvQueue) \in Nat, Len(recvQueue') = Len(recvQueue) - 1,
         \A i \in 1..Len(recvQueue)-1 : /\ recvQueue'[i] = recvQueue[i+1]
                                         /\ i + 1 \in 1..Len(recvQueue)
  PROVE  QueueOrdered'
<1> SUFFICES ASSUME NEW i \in 1..Len(recvQueue)-1, NEW j \in 1..Len(recvQueue)-1,
                    i < j, recvQueue'[i].sock = recvQueue'[j].sock,
                    recvQueue'[j].no # ErrorNo
             PROVE  recvQueue'[i].no < recvQueue'[j].no
  BY DEF QueueOrdered
<1>1. i + 1 < j + 1
  OBVIOUS
<1> QED
  BY <1>1 DEF QueueOrdered

\* The packet at the head is newer than those handed over, and older than the
\* others of its socket.
LEMMA ReadPacketStep ==
  ASSUME IInv, ReadPacket
  PROVE  /\ IInv'
         /\ \/ UNCHANGED <<got, handed>>
            \/ \E s \in Sockets : \E n \in got[s]+1..given[s] :
                 /\ got' = [got EXCEPT ![s] = n]
                 /\ handed' = [handed EXCEPT ![s] = @ + 1]
<1> DEFINE len == Len(recvQueue)
           pkt == Head(recvQueue)
<1> USE DEF IInv, TypeOK
<1>1. /\ recvQueue \in Seq(Items) /\ recvQueue # << >>
      /\ recvQueue' = Tail(recvQueue)
      /\ UNCHANGED <<sock, given, pump, inHand, cancelled, broken>>
      /\ reader = "running"
  BY DEF ReadPacket, Items
<1>2. /\ recvQueue' \in Seq(Items)
      /\ Len(recvQueue') = len - 1
      /\ len \in Nat \ {0}
      /\ pkt = recvQueue[1] /\ pkt \in Items
      /\ \A i \in 1..len-1 : recvQueue'[i] = recvQueue[i+1] /\ i+1 \in 1..len
  BY <1>1, Removed
<1>3. 1 \in 1..len /\ \A i \in 1..len : recvQueue[i].sock \in Sockets /\ recvQueue[i].no \in Nat
  <2> HIDE DEF IInv, TypeOK
  <2>1. 1 \in 1..len
    BY <1>2
  <2>2. \A i \in 1..len : recvQueue[i] \in Items
    BY <1>1 DEF len
  <2>3. \A x \in Items : x.sock \in Sockets /\ x.no \in Nat
    BY DEF Items
  <2> QED
    BY <2>1, <2>2, <2>3
<1>t. /\ pkt.sock \in Sockets /\ pkt.no \in Nat
      /\ \A s \in Sockets : got[s] \in Nat /\ inHand[s] \in Nat /\ given[s] \in Nat
      /\ Numbered /\ Errors
      /\ got \in [Sockets -> Nat]
  BY <1>2 DEF Items
<1> HIDE DEF len, pkt, IInv, TypeOK
<1>4. ErrorQueued' => ErrorQueued
  BY <1>2 DEF ErrorQueued, len
<1>5. CASE pkt.no = ErrorNo
  <2>1. reader' = "ended" /\ UNCHANGED <<got, handed>>
    BY <1>5 DEF ReadPacket, pkt
  <2>2. ErrorQueued
    BY <1>2, <1>3, <1>5 DEF ErrorQueued, len
  <2>3. TypeOK'
    BY <1>1, <1>2, <2>1, RecvConstants DEF IInv, TypeOK, Items, len
  <2>4. Numbered'
    <3>1. NothingInvented' /\ QueueNewer'
      BY <1>t, <1>1, <1>2, <2>1 DEF Numbered, NothingInvented, QueueNewer, len
    <3>2. QueueOrdered'
      BY <1>t, <1>2, ShiftedOrder DEF Numbered, len
    <3>3. HandNewest'
      BY <1>t, <1>1, <1>2, <2>1 DEF Numbered, HandNewest, len
    <3> QED
      BY <1>t, <3>1, <3>2, <3>3 DEF Numbered
  <2>5. Errors'
    BY <1>t, <1>1, <1>4, <2>1, <2>2 DEF Errors
  <2> QED
    BY <2>1, <2>3, <2>4, <2>5 DEF IInv
<1>6. CASE pkt.no # ErrorNo
  <2>1. /\ got' = [got EXCEPT ![pkt.sock] = pkt.no]
        /\ handed' = [handed EXCEPT ![pkt.sock] = @ + 1]
        /\ UNCHANGED reader
    BY <1>6 DEF ReadPacket, pkt
  <2>2. pkt.sock \in Sockets /\ pkt.no \in got[pkt.sock]+1..inHand[pkt.sock]
    BY <1>t, <1>2, <1>3, <1>6 DEF Numbered, QueueNewer, ErrorNo, len
  <2>3. TypeOK'
    BY <1>1, <1>2, <2>1, <2>2, RecvConstants DEF IInv, TypeOK, Items, len
  <2>4. Numbered'
    <3>1. \A i \in 1..len-1 :
            recvQueue'[i].sock = pkt.sock /\ recvQueue'[i].no # ErrorNo
              => pkt.no < recvQueue'[i].no
      <4> SUFFICES ASSUME NEW i \in 1..len-1, recvQueue[i+1].sock = recvQueue[1].sock,
                          recvQueue[i+1].no # ErrorNo
                   PROVE  recvQueue[1].no < recvQueue[i+1].no
        BY <1>2
      <4>1. i + 1 \in 1..len /\ 1 < i + 1
        BY <1>2
      <4> QED
        BY <1>t, <1>3, <4>1 DEF Numbered, QueueOrdered, len
    <3>2. \A s \in Sockets : got'[s] = IF s = pkt.sock THEN pkt.no ELSE got[s]
      BY <1>t, <2>1
    <3>3. \A s \in Sockets : pump[s] = "holding" /\ s = pkt.sock => pkt.no < inHand[s]
      BY <1>t, <1>2, <1>3 DEF Numbered, HandNewest, len
    <3>4. NothingInvented'
      BY <1>t, <1>1, <2>2, <3>2 DEF Numbered, NothingInvented
    <3>5. QueueNewer'
      <4> SUFFICES ASSUME NEW i \in 1..len-1, recvQueue'[i].no # ErrorNo
                   PROVE  /\ got'[recvQueue'[i].sock] < recvQueue'[i].no
                          /\ recvQueue'[i].no <= inHand[recvQueue'[i].sock]
        BY <1>1, <1>2 DEF QueueNewer
      <4>1. i + 1 \in 1..len /\ recvQueue'[i] = recvQueue[i+1]
        BY <1>2
      <4>2. recvQueue'[i].sock \in Sockets
        BY <1>3, <4>1
      <4> QED
        BY <1>t, <3>1, <3>2, <4>1, <4>2 DEF Numbered, QueueNewer, len
    <3>6. QueueOrdered'
      BY <1>t, <1>2, ShiftedOrder DEF Numbered, len
    <3>7. HandNewest'
      <4> SUFFICES ASSUME NEW s \in Sockets, pump[s] = "holding"
                   PROVE  /\ got'[s] < inHand[s]
                          /\ \A i \in 1..len-1 : recvQueue'[i].sock = s
                                                   => recvQueue'[i].no < inHand[s]
        BY <1>1, <1>2 DEF HandNewest
      <4>1. \A i \in 1..len : recvQueue[i].sock = s => recvQueue[i].no < inHand[s]
        BY <1>t DEF Numbered, HandNewest, len
      <4>2. got'[s] < inHand[s]
        BY <1>t, <3>2, <3>3 DEF Numbered, HandNewest
      <4> QED
        BY <1>2, <4>1, <4>2
    <3> QED
      BY <1>t, <3>4, <3>5, <3>6, <3>7 DEF Numbered
  <2>5. Errors'
    <3>1. ErrorQueued => ErrorQueued'
      <4> SUFFICES ASSUME NEW i \in 1..len, recvQueue[i].no = ErrorNo
                   PROVE  ErrorQueued'
        BY DEF ErrorQueued, len
      <4>1. i # 1
        BY <1>2, <1>6
      <4>2. i - 1 \in 1..len-1
        BY <1>2, <4>1
      <4>3. recvQueue'[i-1] = recvQueue[(i-1)+1] /\ (i-1)+1 = i
        BY <1>2, <4>2
      <4> QED
        BY <1>2, <4>2, <4>3 DEF ErrorQueued
    <3> QED
      BY <1>t, <1>1, <1>4, <2>1, <3>1 DEF Errors
  <2>6. pkt.no \in got[pkt.sock]+1..given[pkt.sock]
    BY <1>t, <2>2 DEF Numbered, NothingInvented
  <2> QED
    BY <1>t, <2>1, <2>2, <2>3, <2>4, <2>5, <2>6 DEF IInv
<1> QED
  BY <1>5, <1>6

\* Every step keeps the invariant and is a step, or none, of a lossy channel.
LEMMA Step ==
  IInv /\ [Next]_vars => IInv' /\ [Channel!Next]_(Channel!vars)
<1> SUFFICES ASSUME IInv, [Next]_vars
             PROVE  IInv' /\ [Channel!Next]_(Channel!vars)
  OBVIOUS
<1> USE DEF Channel!Next, Channel!vars, Channel!Give, Channel!HandOver
<1>1. ASSUME NEW s \in Sockets, Open(s) \/ CloseSocket(s) \/ StartPump(s)
                                  \/ PumpClosed(s) \/ PumpBreaks(s)
      PROVE  IInv' /\ UNCHANGED <<given, got, handed>>
  <2> USE <1>1 DEF IInv, Open, CloseSocket, StartPump, PumpClosed, PumpBreaks, Becomes
  <2>1. TypeOK' /\ UNCHANGED <<given, got, handed>>
    BY DEF TypeOK
  <2>2. Numbered'
    BY DEF TypeOK, Numbered, NothingInvented, QueueNewer, QueueOrdered, HandNewest
  <2>3. Errors'
    BY DEF TypeOK, Errors, ErrorQueued
  <2> QED
    BY <2>1, <2>2, <2>3
<1>2. ASSUME NEW s \in Sockets, Arrive(s) PROVE IInv' /\ Channel!Give(s)
  BY <1>2 DEF Arrive, IInv, TypeOK, Numbered, NothingInvented, QueueNewer, QueueOrdered, HandNewest,
         Errors, ErrorQueued
<1>3. ASSUME NEW s \in Sockets, PumpReads(s) PROVE IInv' /\ UNCHANGED <<given, got, handed>>
  <2>1. PICK n \in inHand[s]+1..given[s] : inHand' = [inHand EXCEPT ![s] = n]
    BY <1>3 DEF PumpReads
  <2>2. /\ pump' = [pump EXCEPT ![s] = "holding"]
        /\ pump[s] = "reading"
        /\ UNCHANGED <<sock, given, recvQueue, cancelled, reader, got, handed,
                        broken>>
    BY <1>3 DEF PumpReads, Becomes
  <2>3. \A i \in 1..Len(recvQueue) : recvQueue[i].sock \in Sockets /\ recvQueue[i].no \in Nat
    <3>1. recvQueue \in Seq(Items)
      BY DEF IInv, TypeOK, Items
    <3>2. \A i \in 1..Len(recvQueue) : recvQueue[i] \in Items
      BY <3>1
    <3> QED
      BY <3>2 DEF Items
  <2>t. /\ \A t \in Sockets : got[t] \in Nat /\ inHand[t] \in Nat /\ given[t] \in Nat
        /\ Numbered
    BY DEF IInv, TypeOK
  <2>4. TypeOK'
    BY <2>1, <2>2 DEF IInv, TypeOK
  <2>5. Numbered'
    <3>1. \A t \in Sockets : inHand'[t] = IF t = s THEN n ELSE inHand[t]
      BY <2>1 DEF IInv, TypeOK
    <3>2. n > inHand[s] /\ n <= given[s] /\ n \in Nat /\ inHand[s] \in Nat
      BY DEF IInv, TypeOK
    <3>3. NothingInvented'
      BY <2>t, <2>2, <3>1, <3>2 DEF Numbered, NothingInvented
    <3>4. QueueNewer' /\ QueueOrdered'
      <4>1. QueueOrdered'
        BY <2>t, <2>2 DEF Numbered, QueueOrdered
      <4>2. \A t \in Sockets : inHand[t] <= inHand'[t]
        BY <2>t, <3>1, <3>2
      <4>3. \A t \in Sockets : inHand'[t] \in Nat
        BY <2>t, <3>1, <3>2
      <4>4. QueueNewer'
        BY <2>t, <2>2, <2>3, <4>2, <4>3 DEF Numbered, QueueNewer
      <4> QED
        BY <4>1, <4>4
    <3>5. \A i \in 1..Len(recvQueue) : recvQueue[i].sock = s => recvQueue[i].no <= inHand[s]
      BY <2>t, <2>3, <3>2 DEF Numbered, QueueNewer, ErrorNo
    <3>6. \A t \in Sockets : pump'[t] = "holding" => t = s \/ pump[t] = "holding"
      BY <2>2 DEF IInv, TypeOK
    <3>7. HandNewest'
      <4> SUFFICES ASSUME NEW t \in Sockets, pump'[t] = "holding"
                   PROVE  /\ got[t] < inHand'[t]
                          /\ \A i \in 1..Len(recvQueue) :
                               recvQueue[i].sock = t => recvQueue[i].no < inHand'[t]
        BY <2>2 DEF HandNewest
      <4>1. CASE t = s
        BY <2>t, <2>3, <3>1, <3>2, <3>5, <4>1 DEF Numbered, NothingInvented
      <4>2. CASE t # s
        BY <2>t, <3>1, <3>6, <4>2 DEF Numbered, HandNewest
      <4> QED
        BY <4>1, <4>2
    <3> QED
      BY <3>3, <3>4, <3>7 DEF Numbered
  <2>6. Errors'
    BY <2>2 DEF IInv, TypeOK, Errors, ErrorQueued
  <2> QED
    BY <2>2, <2>4, <2>5, <2>6 DEF IInv
<1>4. ASSUME NEW s \in Sockets, PumpReports(s) PROVE IInv' /\ UNCHANGED <<given, got, handed>>
  <2>1. CASE Enqueue(s, ErrorNo)
    BY <1>4, <2>1, EnqueueStep DEF PumpReports, ErrorNo
  <2>2. CASE cancelled /\ UNCHANGED recvQueue
    BY <1>4, <2>2 DEF PumpReports, Becomes, IInv, TypeOK, Numbered, NothingInvented, QueueNewer, QueueOrdered, HandNewest,
         Errors, ErrorQueued
  <2> QED
    BY <1>4, <2>1, <2>2 DEF PumpReports
<1>5. ASSUME NEW s \in Sockets, PumpForwards(s) PROVE IInv' /\ UNCHANGED <<given, got, handed>>
  <2>1. CASE Enqueue(s, inHand[s]) /\ Becomes(s, "reading")
    <3>1. inHand[s] \in Nat /\ inHand[s] # ErrorNo
      BY <1>5 DEF PumpForwards, IInv, TypeOK, Numbered, HandNewest, ErrorNo
    <3> QED
      BY <1>5, <2>1, <3>1, EnqueueStep DEF PumpForwards
  <2>2. CASE cancelled /\ Becomes(s, "ended") /\ UNCHANGED recvQueue
    BY <1>5, <2>2 DEF PumpForwards, Becomes, IInv, TypeOK, Numbered, NothingInvented, QueueNewer, QueueOrdered, HandNewest,
         Errors, ErrorQueued
  <2>3. CASE Becomes(s, "reading") /\ UNCHANGED recvQueue
    BY <1>5, <2>3 DEF PumpForwards, Becomes, IInv, TypeOK, Numbered, NothingInvented, QueueNewer, QueueOrdered, HandNewest,
         Errors, ErrorQueued
  <2> QED
    BY <1>5, <2>1, <2>2, <2>3 DEF PumpForwards
<1>6. CASE Cancel
  BY <1>6 DEF Cancel, IInv, TypeOK, Numbered, NothingInvented, QueueNewer, QueueOrdered, HandNewest,
         Errors, ErrorQueued
<1>7. CASE ReadPacket
  <2>1. UNCHANGED given
    BY <1>7 DEF ReadPacket
  <2> QED
    BY <1>7, <2>1, ReadPacketStep
<1>8. CASE ReadClosed
  BY <1>8 DEF ReadClosed, IInv, TypeOK, Numbered, NothingInvented, QueueNewer, QueueOrdered, HandNewest,
         Errors, ErrorQueued
<1>9. CASE UNCHANGED vars
  BY <1>9 DEF vars, IInv, TypeOK, Numbered, NothingInvented, QueueNewer, QueueOrdered, HandNewest,
         Errors, ErrorQueued
<1> QED
  BY <1>1, <1>2, <1>3, <1>4, <1>5, <1>6, <1>7, <1>8, <1>9 DEF Next, Pump, ReadFrom

\* The invariant holds in every state of every behaviour.
LEMMA Invariance == Spec => []IInv
BY InitialInv, Step, PTL DEF Spec

(***************************************************************************)
(* Queue, pumps and history keep their types; the queue never exceeds its  *)
(* capacity, however many pumps share it.                                  *)
(***************************************************************************)
THEOREM TypeCorrect == Spec => []TypeOK
BY Invariance, PTL DEF IInv

(***************************************************************************)
(* QUIC sees a lossy channel per socket: no packet twice, none before an   *)
(* earlier one of its socket, none that did not come.                      *)
(***************************************************************************)
THEOREM IsLossyChannel == Spec => ImplementsLossyChannel
<1>1. Init => Channel!Init
  BY DEF Init, Channel!Init
<1> QED
  BY <1>1, Step, Invariance, PTL DEF Spec, ImplementsLossyChannel, Channel!Spec

(***************************************************************************)
(* The pump of an open socket never ends without QUIC being told.          *)
(***************************************************************************)
THEOREM NeverDeaf == Spec => []NoDeafSocket
<1>1. TypeOK => DOMAIN recvQueue = 1..Len(recvQueue)
  BY DEF TypeOK
<1>2. IInv => NoDeafSocket
  BY <1>1 DEF IInv, Errors, ErrorQueued, NoDeafSocket
<1> QED
  BY <1>2, Invariance, PTL

(***************************************************************************)
(* Hops close sockets under their pumps, and QUIC's read loop goes on.     *)
(***************************************************************************)
THEOREM RetiringNeverNoticed == Spec => []RetiringUnnoticed
<1>1. IInv => RetiringUnnoticed
  BY DEF IInv, Errors, RetiringUnnoticed
<1> QED
  BY <1>1, Invariance, PTL

=============================================================================
