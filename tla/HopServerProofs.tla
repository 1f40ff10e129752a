-------------------------- MODULE HopServerProofs --------------------------
(***************************************************************************)
(* Theorems about HopServer, for every number of slots, every assignment   *)
(* of addresses to slots and every outcome of every bind.                  *)
(***************************************************************************)
EXTENDS HopServer, FiniteSetTheorems, TLAPS

(***************************************************************************)
(* The inductive invariant.  Shape says which of the connection's socket   *)
(* variables are set where the loop is; Ownership that the sockets in      *)
(* them, and those waiting for a closer, are bound, distinct and all there *)
(* are; Order where their slots lie, which needs Ownership.  A pre-bind    *)
(* aims no further back than its base, and the base was read after the     *)
(* current socket was chosen: it is no earlier than the current slot, and  *)
(* a pre-bind that aims at that one fails because current holds its        *)
(* address.                                                                *)
(***************************************************************************)
Running == loop \notin {"listen", "failed"}

Shape ==
  /\ ~Running => /\ open = {}
                 /\ current = NoSock
                 /\ next = NoSock
  /\ loop \in Booting \cup {"failed"} => life = "open" /\ retiring = {}
  /\ Running => current \in Socket
  /\ loop \in {"prebind", "clock", "bind", "install"} => next = NoSock
  /\ fresh # NoSock <=> loop = "install"
  /\ prev # NoSock <=> loop \in {"clock", "bind", "install", "retire"}

Ownership ==
  Running /\ life # "closed" =>
    /\ retiring \subseteq open
    /\ current \in open \ retiring
    /\ next # NoSock => next \in open \ (retiring \cup {current, prev})
    /\ fresh # NoSock => fresh \in open \ (retiring \cup {current, prev})
    /\ prev # NoSock => prev \in open \ retiring
    /\ open \subseteq {current, next, fresh, prev} \cup retiring

Order ==
  /\ waitSlot <= slot /\ base <= slot
  /\ loop \in {"prebind", "bind"} => current.slot <= base
  /\ current # NoSock => current.slot <= slot
  /\ next # NoSock => next.slot <= slot + 1
  /\ fresh # NoSock => fresh.slot <= slot + 1
  /\ loop = "wait" /\ next # NoSock => next.slot <= waitSlot + 1
  /\ loop = "switch" /\ next # NoSock => next.slot <= slot
  /\ next # NoSock /\ life # "closed" => next.slot > current.slot
  /\ fresh # NoSock /\ life # "closed" => fresh.slot > current.slot

IInv == TypeOK /\ Shape /\ Ownership /\ Order

-----------------------------------------------------------------------------
(* Type correctness.                                                       *)

\* A pre-bind aims at a slot from that of its base to the next one.
LEMMA AimsType ==
  ASSUME TypeOK, NEW k \in Aims
  PROVE  /\ k \in 0..MaxSlot+1 /\ base <= k /\ k <= slot + 1
         /\ [slot |-> k, at |-> slot] \in Socket
BY HopConstants DEF TypeOK, Aims, Socket

\* On time, it aims at the next slot.
LEMMA AimOnTime ==
  ASSUME TypeOK, NEW k \in Aims, Aim(k), ~late'
  PROVE  k = slot + 1
<1>1. k > slot
  BY Zenon DEF Aim
<1>2. k \in 0..MaxSlot+1 /\ k <= slot + 1 /\ slot \in 0..MaxSlot /\ MaxSlot \in Nat
  BY AimsType, HopConstants DEF TypeOK
<1> QED
  BY <1>1, <1>2

\* Being late or not is a Boolean.
LEMMA AimType == ASSUME TypeOK, NEW k, Aim(k) PROVE late' \in BOOLEAN
BY Zenon DEF TypeOK, Aim

\* Every step of every goroutine keeps the variables within their types.
LEMMA TypeStep == TypeOK /\ [Next]_vars => TypeOK'
<1> SUFFICES ASSUME TypeOK, [Next]_vars PROVE TypeOK'
  OBVIOUS
<1> USE DEF TypeOK, LoopStates, Booting, Hopping
<1>1. CASE Listen
  <2> DEFINE s == [slot |-> base, at |-> slot]
  <2>1. s \in Socket /\ base \in 0..MaxSlot+1
    BY HopConstants DEF Socket
  <2> HIDE DEF s
  <2>2. CASE Binds(s) /\ current' = s /\ UNCHANGED missed
    BY <1>1, <2>1, <2>2 DEF Listen, Binds
  <2>3. CASE BindFails(base) /\ UNCHANGED current
    BY <1>1, <2>1, <2>3 DEF Listen, BindFails
  <2> QED
    BY <1>1, <2>2, <2>3 DEF Listen, s
<1>2. ASSUME NEW k \in Aims, PrebindFirst(k) PROVE TypeOK'
  <2> DEFINE s == [slot |-> k, at |-> slot]
  <2>1. s \in Socket /\ s.slot = k /\ k \in 0..MaxSlot+1
    BY AimsType DEF Socket
  <2> HIDE DEF s
  <2>0. late' \in BOOLEAN
    BY <1>2, AimType DEF PrebindFirst
  <2>2. CASE Binds(s) /\ next' = s /\ UNCHANGED missed
    BY <1>2, <2>0, <2>1, <2>2 DEF PrebindFirst, Binds
  <2>3. CASE BindFails(k) /\ UNCHANGED next
    <3>1. missed' \subseteq 0..MaxSlot+1
      BY <2>1, <2>3 DEF BindFails
    <3> QED
      BY <1>2, <2>0, <2>3, <3>1 DEF PrebindFirst, BindFails
  <2> QED
    BY <1>2, <2>2, <2>3 DEF PrebindFirst, s
<1>3. ASSUME NEW k \in Aims, HopBind(k) PROVE TypeOK'
  <2> DEFINE s == [slot |-> k, at |-> slot]
  <2>1. s \in Socket /\ s.slot = k /\ k \in 0..MaxSlot+1
    BY AimsType DEF Socket
  <2> HIDE DEF s
  <2>0. late' \in BOOLEAN
    BY <1>3, AimType DEF HopBind
  <2>2. CASE Binds(s) /\ fresh' = s /\ UNCHANGED missed
    BY <1>3, <2>0, <2>1, <2>2 DEF HopBind, Binds
  <2>3. CASE BindFails(k) /\ UNCHANGED fresh
    <3>1. missed' \subseteq 0..MaxSlot+1
      BY <2>1, <2>3 DEF BindFails
    <3> QED
      BY <1>3, <2>0, <2>3, <3>1 DEF HopBind, BindFails
  <2> QED
    BY <1>3, <2>2, <2>3 DEF HopBind, s
<1>4. CASE StartLoop
  BY <1>4 DEF StartLoop
<1>5. CASE TimerFires \/ LoopExits
  BY <1>5 DEF TimerFires, LoopExits
<1>6. CASE HopSwitch \/ HopReadsClock \/ HopInstall
  BY <1>6 DEF HopSwitch, HopReadsClock, HopInstall
<1>7. CASE HopRetire
  BY <1>7 DEF HopRetire, Retire
<1>8. CASE Closers
  BY <1>8 DEF Closers, CloseRetired
<1>9. CASE CloseCancel \/ CloseSockets
  BY <1>9 DEF CloseCancel, CloseSockets
<1>10. CASE Tick
  <2>1. late' \in BOOLEAN
    BY <1>10, Zenon DEF Tick
  <2>2. slot' \in 0..MaxSlot /\ waitSlot' \in 0..MaxSlot /\ UNCHANGED missed
    BY <1>10, HopConstants DEF Tick
  <2> QED
    BY <1>10, <2>1, <2>2 DEF Tick
<1>11. CASE Stopped \/ UNCHANGED vars
  BY <1>11 DEF Stopped, vars
<1> QED
  BY <1>1, <1>2, <1>3, <1>4, <1>5, <1>6, <1>7, <1>8, <1>9, <1>10, <1>11
     DEF Next, HopLoop

\* NewServerConn starts with no socket and on time.
LEMMA InitialType == Init => TypeOK
<1> SUFFICES ASSUME Init PROVE TypeOK
  OBVIOUS
<1>1. late \in BOOLEAN
  BY Zenon DEF Init
<1>2. slot \in 0..MaxSlot /\ waitSlot \in 0..MaxSlot
  BY HopConstants DEF Init
<1> QED
  BY <1>1, <1>2 DEF Init, TypeOK, LoopStates, Booting

(***************************************************************************)
(* The sockets the connection, hop and the closers hold are sockets, and   *)
(* the loop is at one of its places, whatever the interleaving.            *)
(***************************************************************************)
THEOREM TypeCorrect == Spec => []TypeOK
<1>1. Init => TypeOK
  BY InitialType
<1> QED
  BY <1>1, TypeStep, PTL DEF Spec

-----------------------------------------------------------------------------
(* Which sockets are bound, and who owns them.                             *)

\* Types of what the steps below take apart.
LEMMA SocketType == \A s \in Socket : s.slot \in Nat
BY HopConstants DEF Socket

\* Every step keeps the sockets owned and the slots they serve in order.
LEMMA InvStep == IInv /\ [Next]_vars => Shape' /\ Ownership' /\ Order'
<1> SUFFICES ASSUME TypeOK, Shape, Ownership, Order, [Next]_vars
             PROVE  Shape' /\ Ownership' /\ Order'
  BY DEF IInv
<1> USE HopConstants, SocketType DEF TypeOK, LoopStates, Booting, Hopping, Running
<1>1. CASE Listen
  <2> DEFINE s == [slot |-> base, at |-> slot]
  <2>1. s \in Socket /\ s.slot = base
    BY DEF Socket
  <2> HIDE DEF s
  <2>2. CASE Binds(s) /\ current' = s
    BY <1>1, <2>1, <2>2 DEF Listen, Binds, Shape, Ownership, Order
  <2>3. CASE BindFails(base) /\ loop' = "failed" /\ UNCHANGED current
    BY <1>1, <2>3 DEF Listen, BindFails, Shape, Ownership, Order
  <2> QED
    BY <1>1, <2>2, <2>3 DEF Listen, s
<1>2. ASSUME NEW k \in Aims, PrebindFirst(k)
      PROVE  Shape' /\ Ownership' /\ Order'
  <2> DEFINE s == [slot |-> k, at |-> slot]
  <2>1. s \in Socket /\ s.slot = k /\ base <= k /\ k <= slot + 1 /\ k \in Nat
    BY AimsType
  <2>2. Binds(s) => s \notin open /\ (current \in open => s.slot # current.slot)
    BY DEF Binds, HeldByUs
  <2> HIDE DEF s
  <2>3. CASE Binds(s) /\ next' = s
    <3>1. Shape'
      BY <1>2, <2>1, <2>3 DEF PrebindFirst, Shape
    <3>2. Ownership'
      BY <1>2, <2>1, <2>2, <2>3 DEF PrebindFirst, Shape, Ownership, Binds
    <3>3. Order'
      BY <1>2, <2>1, <2>2, <2>3 DEF PrebindFirst, Shape, Ownership, Order
    <3> QED
      BY <3>1, <3>2, <3>3
  <2>4. CASE BindFails(k) /\ UNCHANGED next
    BY <1>2, <2>4 DEF PrebindFirst, BindFails, Shape, Ownership, Order
  <2> QED
    BY <1>2, <2>3, <2>4 DEF PrebindFirst, s
<1>3. ASSUME NEW k \in Aims, HopBind(k)
      PROVE  Shape' /\ Ownership' /\ Order'
  <2> DEFINE s == [slot |-> k, at |-> slot]
  <2>1. s \in Socket /\ s.slot = k /\ base <= k /\ k <= slot + 1 /\ k \in Nat
    BY AimsType
  <2>2. Binds(s) => s \notin open /\ (current \in open => s.slot # current.slot)
    BY DEF Binds, HeldByUs
  <2> HIDE DEF s
  <2>3. CASE Binds(s) /\ fresh' = s
    <3>1. Shape'
      BY <1>3, <2>1, <2>3 DEF HopBind, Shape
    <3>2. Ownership'
      BY <1>3, <2>1, <2>2, <2>3 DEF HopBind, Shape, Ownership, Binds
    <3>3. Order'
      BY <1>3, <2>1, <2>2, <2>3 DEF HopBind, Shape, Ownership, Order
    <3> QED
      BY <3>1, <3>2, <3>3
  <2>4. CASE BindFails(k) /\ loop' = "retire" /\ UNCHANGED fresh
    BY <1>3, <2>4 DEF HopBind, BindFails, Shape, Ownership, Order
  <2> QED
    BY <1>3, <2>3, <2>4 DEF HopBind, s
<1>4. CASE StartLoop
  BY <1>4 DEF StartLoop, Shape, Ownership, Order
<1>5. CASE TimerFires
  BY <1>5 DEF TimerFires, Shape, Ownership, Order
<1>6. CASE LoopExits
  BY <1>6 DEF LoopExits, Shape, Ownership, Order
<1>7. CASE HopSwitch
  BY <1>7 DEF HopSwitch, Shape, Ownership, Order
<1>8. CASE HopReadsClock \/ HopInstall
  BY <1>8 DEF HopReadsClock, HopInstall, Shape, Ownership, Order
<1>9. CASE HopRetire
  BY <1>9 DEF HopRetire, Retire, Shape, Ownership, Order
<1>10. CASE Closers
  BY <1>10 DEF Closers, CloseRetired, Shape, Ownership, Order
<1>11. CASE CloseCancel
  BY <1>11 DEF CloseCancel, Shape, Ownership, Order
<1>12. CASE CloseSockets
  BY <1>12 DEF CloseSockets, Shape, Ownership, Order
<1>13. CASE Tick
  BY <1>13 DEF Tick, Shape, Ownership, Order
<1>14. CASE Stopped \/ UNCHANGED vars
  BY <1>14 DEF Stopped, vars, Shape, Ownership, Order
<1> QED
  BY <1>1, <1>2, <1>3, <1>4, <1>5, <1>6, <1>7, <1>8, <1>9, <1>10, <1>11,
     <1>12, <1>13, <1>14 DEF Next, HopLoop

\* The invariant holds in every state of every behaviour.
THEOREM Invariance == Spec => []IInv
<1>1. Init => IInv
  BY InitialType, HopConstants
     DEF Init, IInv, Shape, Ownership, Order, Running, Booting
<1>2. IInv /\ [Next]_vars => IInv'
  BY TypeStep, InvStep DEF IInv
<1> QED
  BY <1>1, <1>2, PTL DEF Spec

(***************************************************************************)
(* WriteTo never finds currentConn closed under it, or about to be, while  *)
(* the connection serves: no hop, failed bind or closer ever gets there.   *)
(***************************************************************************)
THEOREM CurrentAlwaysListening == Spec => []CurrentListening
<1>1. IInv => CurrentListening
  BY DEF IInv, Ownership, Running, CurrentListening, Serving, Booting
<1> QED
  BY <1>1, Invariance, PTL

(***************************************************************************)
(* No hop loses a socket: whatever the system still holds bound for a      *)
(* serving connection is current, pre-bound, in hop's hands or retiring.   *)
(***************************************************************************)
THEOREM SocketsAlwaysOwned == Spec => []SocketsOwned
<1>1. IInv => SocketsOwned
  BY DEF IInv, Ownership, Running, SocketsOwned, Serving, Booting
<1> QED
  BY <1>1, Invariance, PTL

(***************************************************************************)
(* Every change of currentConn of an open connection is to the address of  *)
(* a later slot, however far apart the clock readings of the pre-binds.    *)
(***************************************************************************)
THEOREM HopsAlwaysForward == Spec => HopsForward
<1> DEFINE Forward == current \in Socket /\ current' # current /\ life = "open"
                        => current'.slot > current.slot
<1>1. IInv /\ Next => Forward
  <2> SUFFICES ASSUME IInv, Next, current \in Socket, current' # current,
                      life = "open"
               PROVE  current'.slot > current.slot
    OBVIOUS
  <2>1. loop # "listen"
    BY HopConstants DEF IInv, Shape, Running
  <2>2. HopSwitch
    BY <2>1 DEF Next, HopLoop, Listen, PrebindFirst, HopBind, StartLoop,
                TimerFires, LoopExits, HopReadsClock, HopInstall, HopRetire, Retire, Closers,
                CloseRetired, CloseCancel, CloseSockets, Tick, Stopped, vars
  <2> QED
    BY <2>2 DEF HopSwitch, IInv, Order
<1>2. IInv /\ [Next]_vars => [Forward]_vars
  BY <1>1
<1> QED
  BY <1>2, Invariance, PTL DEF Spec, HopsForward

-----------------------------------------------------------------------------
(***************************************************************************)
(* Outages.  Before the hop of a slot the pre-bound socket is the slot's,  *)
(* after it the current one is, and the next slot's is in preparation,     *)
(* unless the bind of the slot in question has failed.                     *)
(***************************************************************************)
BeforeHop == loop = "switch" \/ (loop = "wait" /\ waitSlot # slot)

Serves(s, k) == s # NoSock /\ s.slot = k

NextReady == slot + 1 \in missed \/ Serves(next, slot + 1)

Cover ==
  /\ loop \in {"listen", "prebind", "bind"} => base = slot
  /\ Running /\ life = "open" => loop # "done"
  /\ Running /\ life # "closed" /\ loop # "done" =>
    /\ BeforeHop => slot \in missed \/ Serves(next, slot)
    /\ ~BeforeHop => slot \in missed \/ Serves(current, slot)
    /\ loop = "install" => fresh.slot = slot + 1
    /\ loop \in {"start", "retire"} => NextReady
    /\ loop = "wait" /\ waitSlot = slot => NextReady

\* A step never makes a late server punctual.
LEMMA LateForEver == [Next]_vars /\ ~late' => ~late
BY Zenon DEF Next, HopLoop, Listen, PrebindFirst, HopBind, Aim, StartLoop,
     TimerFires, LoopExits, HopSwitch, HopReadsClock, HopInstall, HopRetire, Retire,
     Closers, CloseRetired, CloseCancel, CloseSockets, Tick, Stopped, vars

\* A step that leaves the server on time keeps Cover; being late is for ever.
LEMMA CoverStep ==
  ASSUME PrebindEnabled
  PROVE  IInv /\ (~late => Cover) /\ [Next]_vars => (~late' => Cover')
<1> SUFFICES ASSUME TypeOK, Shape, Ownership, Order, ~late => Cover,
                    [Next]_vars, ~late'
             PROVE  Cover'
  BY DEF IInv
<1>0. ~late
  BY LateForEver
<1>c. Cover
  BY <1>0
<1> USE HopConstants, SocketType, <1>c
    DEF TypeOK, LoopStates, Booting, Hopping, Running, BeforeHop, NextReady,
        Serves, Cover
<1>1. CASE Listen
  <2> DEFINE s == [slot |-> base, at |-> slot]
  <2>1. s \in Socket /\ s.slot = base
    BY DEF Socket
  <2> HIDE DEF s
  <2>2. CASE loop' = "prebind" /\ current' = s
    BY <1>0, <1>1, <2>1, <2>2 DEF Listen
  <2>3. CASE loop' = "failed"
    BY <2>3
  <2> QED
    BY <1>0, <1>1, <2>2, <2>3 DEF Listen, s
<1>2. ASSUME NEW k \in Aims, PrebindFirst(k) PROVE Cover'
  <2> DEFINE s == [slot |-> k, at |-> slot]
  <2>0. k = slot + 1
    BY <1>2, AimOnTime DEF PrebindFirst
  <2>1. s \in Socket /\ s.slot = slot + 1
    BY <2>0, AimsType
  <2> HIDE DEF s
  <2>2. CASE Binds(s) /\ next' = s /\ loop' = "start" /\ UNCHANGED missed
    BY <1>0, <1>2, <2>1, <2>2 DEF PrebindFirst, Shape
  <2>3. CASE BindFails(k) /\ loop' = "start" /\ UNCHANGED next
    <3>1. slot + 1 \in missed' /\ missed \subseteq missed'
      BY <2>0, <2>3 DEF BindFails
    <3>2. /\ UNCHANGED <<slot, current, life, waitSlot>>
          /\ Running /\ ~BeforeHop /\ loop # "done"
      BY <1>0, <1>2 DEF PrebindFirst
    <3> QED
      BY <1>0, <2>3, <3>1, <3>2
  <2> QED
    BY <1>0, <1>2, <2>2, <2>3 DEF PrebindFirst, s
<1>3. ASSUME NEW k \in Aims, HopBind(k) PROVE Cover'
  <2> DEFINE s == [slot |-> k, at |-> slot]
  <2>0. k = slot + 1
    BY <1>3, AimOnTime DEF HopBind
  <2>1. s \in Socket /\ s.slot = slot + 1
    BY <2>0, AimsType
  <2> HIDE DEF s
  <2>2. CASE Binds(s) /\ fresh' = s /\ loop' = "install" /\ UNCHANGED missed
    BY <1>0, <1>3, <2>1, <2>2 DEF HopBind, Shape
  <2>3. CASE BindFails(k) /\ loop' = "retire" /\ UNCHANGED fresh
    <3>1. slot + 1 \in missed' /\ missed \subseteq missed'
      BY <2>0, <2>3 DEF BindFails
    <3>2. /\ UNCHANGED <<slot, current, life, waitSlot>>
          /\ Running /\ ~BeforeHop /\ loop # "done"
      BY <1>0, <1>3 DEF HopBind
    <3> QED
      BY <1>0, <2>3, <3>1, <3>2
  <2> QED
    BY <1>0, <1>3, <2>2, <2>3 DEF HopBind, s
<1>4. CASE StartLoop
  BY <1>0, <1>4 DEF StartLoop, Shape, Order
<1>5. CASE TimerFires
  BY <1>0, <1>5 DEF TimerFires, Shape, Order
<1>6. CASE LoopExits
  BY <1>0, <1>6 DEF LoopExits, Shape, Order
<1>7. CASE HopSwitch
  BY <1>0, <1>7 DEF HopSwitch, Shape, Order
<1>8. CASE HopReadsClock \/ HopInstall
  BY <1>0, <1>8 DEF HopReadsClock, HopInstall, Shape, Order
<1>9. CASE HopRetire
  BY <1>0, <1>9 DEF HopRetire, Retire, Shape, Order
<1>10. CASE Closers
  BY <1>0, <1>10 DEF Closers, CloseRetired, Shape, Order
<1>11. CASE CloseCancel
  BY <1>0, <1>11 DEF CloseCancel, Shape, Order
<1>12. CASE CloseSockets
  BY <1>0, <1>12 DEF CloseSockets, Shape, Order
<1>13. CASE Tick
  BY <1>0, <1>13 DEF Tick, Quiet, Shape, Order
<1>14. CASE Stopped \/ UNCHANGED vars
  BY <1>0, <1>14 DEF Stopped, vars
<1> QED
  BY <1>1, <1>2, <1>3, <1>4, <1>5, <1>6, <1>7, <1>8, <1>9, <1>10, <1>11,
     <1>12, <1>13, <1>14 DEF Next, HopLoop

(***************************************************************************)
(* As long as hops end within their slot and pre-binds aim at the next,    *)
(* the server listens on the address of every slot whose own bind worked,  *)
(* whichever earlier binds failed and whatever addresses coincide.         *)
(***************************************************************************)
THEOREM OutagesExplained ==
  ASSUME PrebindEnabled
  PROVE  Spec => []OutageExplained
<1>1. Init => Cover
  BY DEF Init, Cover, Running
<1>2. IInv /\ (~late => Cover) /\ [Next]_vars => (~late' => Cover')
  BY CoverStep
<1>3. IInv /\ (~late => Cover) => OutageExplained
  BY DEF IInv, Ownership, Cover, Serves, Running, OutageExplained, Serving,
         Covered, Booting
<1> QED
  BY <1>1, <1>2, <1>3, Invariance, PTL DEF Spec

(***************************************************************************)
(* After every hop of a server that is not late, its current socket is     *)
(* that of the slot, unless the bind of the slot's address failed.         *)
(***************************************************************************)
THEOREM CurrentSlotFollowed ==
  ASSUME PrebindEnabled
  PROVE  Spec => []CurrentFollowsSlot
<1>1. Init => Cover
  BY DEF Init, Cover, Running
<1>2. IInv /\ (~late => Cover) /\ [Next]_vars => (~late' => Cover')
  BY CoverStep
<1>3. IInv /\ (~late => Cover) => CurrentFollowsSlot
  BY DEF IInv, Cover, Serves, Running, BeforeHop, CurrentFollowsSlot, Serving,
         Booting
<1> QED
  BY <1>1, <1>2, <1>3, Invariance, PTL DEF Spec

-----------------------------------------------------------------------------
(***************************************************************************)
(* How many sockets are bound.  Whatever is bound is in one of the four    *)
(* socket variables or retiring, after Close too; a server that is not     *)
(* late has closed the retired socket before the next hop, and what it     *)
(* binds after Close never becomes current.                                *)
(***************************************************************************)
Tidy ==
  /\ open \subseteq {current, next, fresh, prev} \cup retiring
  /\ ~late =>
    /\ loop \in Hopping \/ BeforeHop => retiring = {}
    /\ \E r \in Socket \cup {NoSock} : retiring \subseteq {r}
    /\ life = "closed" => /\ current \notin open
                          /\ BeforeHop => next \notin open

\* Every step keeps the sockets tidy.
LEMMA TidyStep == IInv /\ Tidy /\ [Next]_vars => Tidy'
<1> SUFFICES ASSUME TypeOK, Shape, Ownership, Order, Tidy, [Next]_vars
             PROVE  Tidy'
  BY DEF IInv
<1>0. ~late' => ~late
  BY LateForEver
<1> USE HopConstants, SocketType, <1>0
    DEF TypeOK, LoopStates, Booting, Hopping, Running, BeforeHop
<1>1. CASE Listen
  BY <1>1 DEF Listen, Binds, BindFails, Shape, Tidy
<1>2. ASSUME NEW k \in Aims, PrebindFirst(k) PROVE Tidy'
  BY <1>2 DEF PrebindFirst, Binds, BindFails, Shape, Order, Tidy
<1>3. ASSUME NEW k \in Aims, HopBind(k) PROVE Tidy'
  <2> DEFINE s == [slot |-> k, at |-> slot]
  <2>1. ~late' => s.slot = slot + 1
    BY <1>3, AimOnTime DEF HopBind
  <2> HIDE DEF s
  <2>2. CASE Binds(s) /\ fresh' = s
    BY <1>3, <2>1, <2>2 DEF HopBind, Binds, Shape, Order, Tidy
  <2>3. CASE BindFails(k) /\ UNCHANGED fresh
    BY <1>3, <2>3 DEF HopBind, BindFails, Shape, Tidy
  <2> QED
    BY <1>3, <2>2, <2>3 DEF HopBind, s
<1>4. CASE StartLoop
  BY <1>4 DEF StartLoop, Shape, Order, Tidy
<1>5. CASE TimerFires
  BY <1>5 DEF TimerFires, Shape, Order, Tidy
<1>6. CASE LoopExits
  BY <1>6 DEF LoopExits, Shape, Order, Tidy
<1>7. CASE HopSwitch
  BY <1>7 DEF HopSwitch, Shape, Order, Tidy
<1>8. CASE HopReadsClock \/ HopInstall
  BY <1>8 DEF HopReadsClock, HopInstall, Shape, Order, Tidy
<1>9. CASE HopRetire
  BY <1>9 DEF HopRetire, Retire, Shape, Order, Tidy
<1>10. CASE Closers
  BY <1>10 DEF Closers, CloseRetired, Shape, Order, Tidy
<1>11. CASE CloseCancel
  BY <1>11 DEF CloseCancel, Shape, Order, Tidy
<1>12. CASE CloseSockets
  BY <1>12 DEF CloseSockets, Shape, Order, Tidy
<1>13. CASE Tick
  BY <1>13 DEF Tick, Quiet, Shape, Order, Tidy
<1>14. CASE Stopped \/ UNCHANGED vars
  BY <1>14 DEF Stopped, vars, Tidy
<1> QED
  BY <1>1, <1>2, <1>3, <1>4, <1>5, <1>6, <1>7, <1>8, <1>9, <1>10, <1>11,
     <1>12, <1>13, <1>14 DEF Next, HopLoop

\* The sockets are tidy in every state of every behaviour.
LEMMA AlwaysTidy == Spec => []Tidy
<1>1. Init => Tidy
  BY DEF Init, Tidy, Hopping, BeforeHop
<1> QED
  BY <1>1, TidyStep, Invariance, PTL DEF Spec

\* A set within three elements has at most three.
LEMMA WithinThree ==
  ASSUME NEW S, NEW a, NEW b, NEW c, S \subseteq {a, b, c}
  PROVE  Cardinality(S) <= 3
<1>1. /\ IsFiniteSet({}) /\ Cardinality({}) = 0
      /\ IsFiniteSet({a}) /\ Cardinality({a}) = 1
  BY FS_EmptySet, FS_Singleton
<1>2. {a} \cup {b} = {a, b} /\ {a, b} \cup {c} = {a, b, c}
  OBVIOUS
<1>3. IsFiniteSet({a, b}) /\ Cardinality({a, b}) \in {1, 2}
  BY <1>1, <1>2, FS_AddElement
<1>4. IsFiniteSet({a, b, c}) /\ Cardinality({a, b, c}) \in {1, 2, 3}
  BY <1>2, <1>3, FS_AddElement
<1>5. IsFiniteSet(S) /\ Cardinality(S) <= Cardinality({a, b, c})
  BY <1>4, FS_Subset
<1>6. Cardinality(S) \in Nat
  BY <1>5, FS_CardinalityType
<1> QED
  BY <1>4, <1>5, <1>6

(***************************************************************************)
(* The comment in hop, "three ports at a time", for every schedule in      *)
(* which the server is not late: previous, current and next, never more.   *)
(***************************************************************************)
THEOREM NeverMoreThanThree == Spec => []AtMostThreeOpen
<1>1. IInv /\ Tidy => AtMostThreeOpen
  <2> SUFFICES ASSUME TypeOK, Shape, Tidy, ~late
               PROVE  Cardinality(open) <= 3
    BY DEF IInv, AtMostThreeOpen
  <2> USE DEF TypeOK, LoopStates, Booting, Hopping, Running, Shape, Tidy
  <2>0. NoSock \notin open
    BY HopConstants
  <2>1. CASE loop \in {"clock", "bind", "install"}
    <3>1. open \subseteq {current, fresh, prev}
      BY <2>0, <2>1
    <3> QED
      BY <3>1, WithinThree
  <2>2. CASE loop = "retire"
    <3>1. open \subseteq {current, next, prev}
      BY <2>0, <2>2
    <3> QED
      BY <3>1, WithinThree
  <2>3. CASE loop \notin {"clock", "bind", "install", "retire"}
    <3>1. PICK r \in Socket \cup {NoSock} : retiring \subseteq {r}
      OBVIOUS
    <3>2. open \subseteq {current, next, r}
      BY <2>0, <2>3, <3>1
    <3> QED
      BY <3>2, WithinThree
  <2> QED
    BY <2>1, <2>2, <2>3
<1> QED
  BY <1>1, Invariance, AlwaysTidy, PTL

(***************************************************************************)
(* What a hop under way at Close can leave bound for ever: one socket, or  *)
(* two when the loop was late and hopped again.                            *)
(***************************************************************************)
THEOREM OrphansBounded == Spec => []OrphanBound
<1>1. IInv /\ Tidy => OrphanBound
  <2> SUFFICES ASSUME TypeOK, Shape, Tidy, AllDone
               PROVE  Cardinality(open) <= IF late THEN 2 ELSE 1
    BY DEF IInv, OrphanBound
  <2> USE DEF TypeOK, LoopStates, Booting, Hopping, Running, Shape, Tidy, AllDone
  <2>0. NoSock \notin open
    BY HopConstants
  <2>1. open \subseteq {current, next}
    BY <2>0
  <2>2. ~late => open \subseteq {next}
    BY <2>1
  <2>3. /\ IsFiniteSet({next}) /\ Cardinality({next}) = 1
        /\ IsFiniteSet({current, next}) /\ Cardinality({current, next}) \in {1, 2}
    <3>1. IsFiniteSet({next}) /\ Cardinality({next}) = 1
      BY FS_Singleton
    <3>2. {next} \cup {current} = {current, next}
      OBVIOUS
    <3> QED
      BY <3>1, <3>2, FS_AddElement
  <2>4. CASE late
    <3>1. IsFiniteSet(open) /\ Cardinality(open) <= Cardinality({current, next})
      BY <2>1, <2>3, FS_Subset
    <3>2. Cardinality(open) \in Nat
      BY <3>1, FS_CardinalityType
    <3> QED
      BY <2>3, <2>4, <3>1, <3>2
  <2>5. CASE ~late
    <3>1. IsFiniteSet(open) /\ Cardinality(open) <= Cardinality({next})
      BY <2>2, <2>3, <2>5, FS_Subset
    <3>2. Cardinality(open) \in Nat
      BY <3>1, FS_CardinalityType
    <3> QED
      BY <2>3, <2>5, <3>1, <3>2
  <2> QED
    BY <2>4, <2>5
<1> QED
  BY <1>1, Invariance, AlwaysTidy, PTL

=============================================================================
