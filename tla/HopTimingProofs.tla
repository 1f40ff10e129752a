-------------------------- MODULE HopTimingProofs --------------------------
(***************************************************************************)
(* Theorems about HopTiming, for every length of a slot and every delay,   *)
(* every number of slots, all addresses and all outcomes of all binds.     *)
(* What is known of the server without its clock is taken from             *)
(* HopServerProofs, where the server is named S.                           *)
(***************************************************************************)
EXTENDS HopTiming, TLAPS

S == INSTANCE HopServerProofs

SlotStart == slot * SlotLen

(***************************************************************************)
(* The inductive invariant.  Server is HopServer's, of a server that is    *)
(* not late.  Clock says when the loop, a pre-bind and the closers must be *)
(* done; Bound which slots' sockets there are, and that a slot whose bind  *)
(* failed has none; Earlier that the socket of the slot before is bound    *)
(* long enough into the slot, and throughout when the slot has no socket   *)
(* of its own; Writes that no socket is closed before a write that took it *)
(* is over.                                                                *)
(***************************************************************************)
Server == S!IInv /\ S!Cover /\ ~late /\ life = "open" /\ loop # "done"

Clock ==
  /\ readAt # Unread <=> loop \in {"listen", "prebind", "bind"}
  /\ readAt # Unread => readAt <= Now /\ Now <= readAt + ReadGap
  /\ LoopBusy => Now <= deadline
  /\ loop \in S!Booting => slot = 0 /\ deadline < SlotStart + SlotLen
  /\ LoopBusy /\ loop \notin S!Booting => slot > 0 /\ deadline = SlotStart + HopTime
  /\ \A s \in retiring :
       /\ Now <= closeAt[s] + HopTime
       /\ closeAt[s] <= SlotStart + HopTime + CloseDelay

Bound ==
  /\ missed \subseteq 0..slot+1
  /\ loop \in {"prebind", "clock", "bind"} \/ S!BeforeHop => slot + 1 \notin missed
  /\ loop = "listen" => missed = {}
  /\ next # NoSock => /\ next.slot = IF S!BeforeHop THEN slot ELSE slot + 1
                      /\ next.slot \notin missed
  /\ fresh # NoSock => fresh.slot \notin missed

EarlierOpen ==
  \E s \in open :
    s.slot = slot - 1 /\ (s \in retiring => SlotStart + CloseDelay <= closeAt[s])

Earlier ==
  slot > 0 /\ S!Running =>
    \/ slot - 1 \in missed
    \/ /\ S!BeforeHop \/ slot \in missed => current.slot = slot - 1
       /\ ms < CloseDelay => EarlierOpen

Writes ==
  /\ ~writeFailed
  /\ \A w \in Writers : writing[w] # Idle =>
       LET s == writing[w].sock  t == writing[w].since IN
       /\ s \in open
       /\ t <= Now /\ Now <= t + WriteTime
       /\ s \in retiring => t + CloseDelay <= closeAt[s]

IInv == TypeOK /\ Server /\ Clock /\ Bound /\ Earlier

-----------------------------------------------------------------------------
(* Time.                                                                   *)

\* What the constants are.
LEMMA Numbers ==
  /\ SlotLen \in Nat /\ SlotLen > 0 /\ CloseDelay \in Nat /\ Threshold \in Nat
  /\ HopTime \in Nat /\ ReadGap \in Nat /\ WriteTime \in Nat /\ MaxError \in Nat
  /\ MaxSlot \in Nat /\ PrebindEnabled \in BOOLEAN /\ BindMayFail \in BOOLEAN
  /\ \A m \in StartMs : m \in 0..SlotLen-1
  /\ Unread \notin Nat
  /\ NoSock \notin S!Socket
BY TimingConstants DEF Srv!Socket, S!Socket

LEMMA ServerConstants == S!HopConstants
BY Numbers DEF S!HopConstants

\* Multiples of the length of a slot.
LEMMA Multiples ==
  /\ \A a \in Nat : a * SlotLen \in Nat
  /\ \A a \in Int : a * SlotLen \in Int /\ (a + 1) * SlotLen = a * SlotLen + SlotLen
  /\ \A a, b \in Int : a <= b => a * SlotLen <= b * SlotLen
<1> SlotLen \in Nat
  BY Numbers
<1>1. \A a \in Nat : a * SlotLen \in Nat
  OBVIOUS
<1>2. \A a \in Int : a * SlotLen \in Int /\ (a + 1) * SlotLen = a * SlotLen + SlotLen
  OBVIOUS
<1>3. ASSUME NEW a \in Int, NEW b \in Int, a <= b PROVE a * SlotLen <= b * SlotLen
  <2>1. b = a + (b - a) /\ b - a \in Nat
    BY <1>3
  <2>2. (a + (b - a)) * SlotLen = a * SlotLen + (b - a) * SlotLen
    OBVIOUS
  <2>3. (b - a) * SlotLen \in Nat /\ a * SlotLen \in Int
    BY <1>1, <1>2, <2>1
  <2> QED
    BY <2>1, <2>2, <2>3
<1> QED
  BY <1>1, <1>2, <1>3

\* The slot and the offset of a time.
LEMMA Divide ==
  ASSUME NEW k \in Int, NEW r \in 0..SlotLen-1
  PROVE  (k * SlotLen + r) \div SlotLen = k /\ (k * SlotLen + r) % SlotLen = r
<1> DEFINE x == k * SlotLen + r
           q == x \div SlotLen
           m == x % SlotLen
<1>1. SlotLen \in Nat /\ SlotLen > 0 /\ r \in Int /\ k * SlotLen \in Int /\ x \in Int
  BY Numbers, Multiples
<1>2. q \in Int /\ m \in 0..SlotLen-1 /\ x = SlotLen * q + m
  BY <1>1
<1>3. SlotLen * q = q * SlotLen /\ q * SlotLen \in Int
  BY <1>1, <1>2
<1> HIDE DEF q, m
<1>4. ~(q < k)
  <2> SUFFICES ASSUME q < k PROVE FALSE
    OBVIOUS
  <2>1. q + 1 <= k
    BY <1>2
  <2>2. (q + 1) * SlotLen <= k * SlotLen /\ (q + 1) * SlotLen = q * SlotLen + SlotLen
    BY <1>2, <2>1, Multiples
  <2> QED
    BY <1>1, <1>2, <1>3, <2>2
<1>5. ~(k < q)
  <2> SUFFICES ASSUME k < q PROVE FALSE
    OBVIOUS
  <2>1. k + 1 <= q
    BY <1>2
  <2>2. (k + 1) * SlotLen <= q * SlotLen /\ (k + 1) * SlotLen = k * SlotLen + SlotLen
    BY <1>2, <2>1, Multiples
  <2> QED
    BY <1>1, <1>2, <1>3, <2>2
<1>6. q = k
  BY <1>2, <1>4, <1>5
<1>7. m = r
  BY <1>1, <1>2, <1>3, <1>6
<1> QED
  BY <1>6, <1>7 DEF q, m

\* The time now, by the slot it is in.
LEMMA NowFacts ==
  ASSUME TypeOK
  PROVE  /\ slot \in 0..MaxSlot /\ ms \in 0..SlotLen-1
         /\ SlotStart \in Nat /\ Now = SlotStart + ms /\ Now \in Nat
         /\ (MaxSlot + 1) * SlotLen \in Nat
         /\ SlotStart + SlotLen <= (MaxSlot + 1) * SlotLen
<1>1. slot \in 0..MaxSlot /\ ms \in 0..SlotLen-1
  BY DEF TypeOK, Srv!TypeOK
<1>2. slot \in Int /\ slot + 1 <= MaxSlot + 1 /\ MaxSlot + 1 \in Nat
  BY <1>1, Numbers
<1>3. (slot + 1) * SlotLen = SlotStart + SlotLen
  BY <1>2, Multiples DEF SlotStart
<1>4. (slot + 1) * SlotLen <= (MaxSlot + 1) * SlotLen
  BY <1>2, Multiples
<1>5. SlotStart \in Nat /\ (MaxSlot + 1) * SlotLen \in Nat
  BY <1>1, <1>2, Multiples, Numbers DEF SlotStart
<1> QED
  BY <1>1, <1>3, <1>4, <1>5, Numbers DEF Now, SlotStart

\* The times that are recorded are times.
LEMMA TypeFacts ==
  ASSUME TypeOK
  PROVE  /\ waitSlot \in Nat /\ deadline \in Nat
         /\ readAt = Unread \/ readAt \in Nat
         /\ \A s \in retiring : closeAt[s] \in Nat
<1>1. Times \subseteq Nat
  BY DEF Times
<1>2. waitSlot \in Nat /\ deadline \in Nat
  BY Numbers DEF TypeOK, Srv!TypeOK
<1>3. readAt = Unread \/ readAt \in Nat
  BY <1>1 DEF TypeOK
<1>4. \A s \in retiring : closeAt[s] \in Times
  BY DEF TypeOK
<1> QED
  BY <1>1, <1>2, <1>3, <1>4

LEMMA SameTime == UNCHANGED <<slot, ms>> => Now' = Now /\ SlotStart' = SlotStart
BY DEF Now, SlotStart

\* The clock moves by a millisecond, into the next slot from the last one.
LEMMA TimePasses ==
  ASSUME TypeOK, Advance
  PROVE  /\ Now' = Now + 1 /\ ms' \in 0..SlotLen-1
         /\ \/ slot' = slot /\ ms' = ms + 1 /\ SlotStart' = SlotStart
            \/ /\ slot' = slot + 1 /\ ms = SlotLen-1 /\ ms' = 0
               /\ SlotStart' = SlotStart + SlotLen
<1>0. ms \in 0..SlotLen-1 /\ SlotLen \in Int /\ slot \in Int /\ SlotStart \in Int
  BY NowFacts, Numbers
<1>1. Now = SlotStart + ms /\ Now' = SlotStart' + ms'
  BY DEF Now, SlotStart
<1>2. CASE slot' = slot /\ ms' = ms + 1 /\ ms < SlotLen-1
  <2>1. SlotStart' = SlotStart
    BY <1>2 DEF SlotStart
  <2> QED
    BY <1>0, <1>1, <1>2, <2>1
<1>3. CASE slot' = slot + 1 /\ ms' = 0 /\ ms = SlotLen-1
  <2>1. (slot + 1) * SlotLen = slot * SlotLen + SlotLen
    BY <1>0, Multiples
  <2>2. SlotStart' = SlotStart + SlotLen
    BY <1>3, <2>1 DEF SlotStart
  <2> QED
    BY <1>0, <1>1, <1>3, <2>2
<1> QED
  BY <1>2, <1>3 DEF Advance, Srv!Tick

(***************************************************************************)
(* What HopServer lets a pre-bind aim at is all that the arithmetic of     *)
(* Add(GetNextHopDelay() + 1ms) can give, however much time has passed     *)
(* between the two readings of the clock: hop may aim at a slot long over. *)
(***************************************************************************)
THEOREM TargetWithinAims ==
  ASSUME TypeOK, 1 < SlotLen, readAt \in Nat, readAt <= Now,
         base = readAt \div SlotLen
  PROVE  PrebindSlot \in Srv!Aims
<1> DEFINE r == readAt % SlotLen
           d == r + SlotLen - ms + 1
<1>1. /\ SlotLen \in Nat /\ slot \in Nat /\ ms \in 0..SlotLen-1
      /\ Now = SlotStart + ms /\ SlotStart \in Nat
  BY NowFacts, Numbers
<1>2. /\ base \in Nat /\ r \in 0..SlotLen-1 /\ base * SlotLen \in Nat
      /\ readAt = base * SlotLen + r
  <2>1. base \in Nat
    BY Numbers DEF TypeOK, Srv!TypeOK
  <2>2. r \in 0..SlotLen-1 /\ readAt = SlotLen * base + r
    BY <1>1
  <2>3. SlotLen * base = base * SlotLen /\ base * SlotLen \in Nat
    BY <1>1, <2>1
  <2> QED
    BY <2>1, <2>2, <2>3
<1> HIDE DEF r
<1>3. readAt + GetNextHopDelay + 1 = base * SlotLen + d /\ d \in 2..2*SlotLen
  BY <1>1, <1>2 DEF GetNextHopDelay
<1>4. base <= slot /\ (base = slot => r <= ms)
  <2>1. base * SlotLen + r <= SlotStart + ms
    BY <1>1, <1>2
  <2>2. CASE slot < base
    <3>1. (slot + 1) * SlotLen <= base * SlotLen
      BY <1>1, <1>2, <2>2, Multiples
    <3>2. (slot + 1) * SlotLen = SlotStart + SlotLen
      BY <1>1, Multiples DEF SlotStart
    <3> QED
      BY <1>1, <1>2, <2>1, <3>1, <3>2
  <2>3. CASE base <= slot
    BY <1>1, <1>2, <2>1, <2>3 DEF SlotStart
  <2> QED
    BY <1>1, <1>2, <2>2, <2>3
<1> HIDE DEF d
<1>5. /\ (base + 1) * SlotLen = base * SlotLen + SlotLen
      /\ (base + 2) * SlotLen = base * SlotLen + SlotLen + SlotLen
  BY <1>1, <1>2, Multiples
<1>6. CASE d < SlotLen
  <2>1. PrebindSlot = base
    <3>1. d \in 0..SlotLen-1 /\ base \in Int
      BY <1>1, <1>2, <1>3, <1>6
    <3> QED
      BY <1>3, <3>1, Divide DEF PrebindSlot
  <2> QED
    BY <1>1, <1>2, <1>4, <2>1 DEF Srv!Aims
<1>7. CASE SlotLen <= d /\ d < 2 * SlotLen
  <2>1. PrebindSlot = base + 1
    <3>1. /\ d - SlotLen \in 0..SlotLen-1 /\ base + 1 \in Int
          /\ readAt + GetNextHopDelay + 1 = (base + 1) * SlotLen + (d - SlotLen)
      BY <1>1, <1>2, <1>3, <1>5, <1>7
    <3> QED
      BY <3>1, Divide DEF PrebindSlot
  <2> QED
    BY <1>1, <1>2, <1>4, <2>1 DEF Srv!Aims
<1>8. CASE d = 2 * SlotLen
  <2>1. PrebindSlot = base + 2
    <3>1. /\ 0 \in 0..SlotLen-1 /\ base + 2 \in Int
          /\ readAt + GetNextHopDelay + 1 = (base + 2) * SlotLen + 0
      BY <1>1, <1>2, <1>3, <1>5, <1>8
    <3> QED
      BY <3>1, Divide DEF PrebindSlot
  <2>2. base # slot
    BY <1>1, <1>2, <1>4, <1>8 DEF d
  <2> QED
    BY <1>1, <1>2, <1>4, <2>1, <2>2 DEF Srv!Aims
<1> QED
  BY <1>1, <1>3, <1>6, <1>7, <1>8

\* Two readings of the clock at most a millisecond apart aim at the next slot.
LEMMA AimsNext ==
  ASSUME Prompt, IInv, readAt # Unread
  PROVE  PrebindSlot = slot + 1 /\ PrebindSlot \in Srv!Aims
<1>1. /\ readAt \in Int /\ readAt <= Now /\ Now <= readAt + 1
      /\ Now = SlotStart + ms /\ SlotStart \in Nat /\ slot \in Nat /\ ms \in Nat
  BY NowFacts, TypeFacts, Numbers DEF Prompt, IInv, Clock
<1>2. SlotLen > 1
  BY Numbers DEF Prompt
<1> DEFINE r == 1 - (Now - readAt)
<1>3. r \in 0..SlotLen-1
  BY <1>1, <1>2, Numbers
<1>4. readAt + GetNextHopDelay + 1 = (slot + 1) * SlotLen + r
  <2>1. (slot + 1) * SlotLen = SlotStart + SlotLen
    BY <1>1, Multiples DEF SlotStart
  <2> QED
    BY <1>1, <2>1, Numbers DEF GetNextHopDelay
<1>5. PrebindSlot = slot + 1
  BY <1>1, <1>3, <1>4, Divide DEF PrebindSlot
<1>6. base = slot
  BY DEF IInv, Clock, Server, S!Cover
<1> QED
  BY <1>1, <1>5, <1>6 DEF Srv!Aims

-----------------------------------------------------------------------------
(* The server without its clock.                                           *)

\* HopServer here and in its proofs.
LEMMA SameServer ==
  /\ Srv!TypeOK <=> S!TypeOK
  /\ [Srv!Next]_srvVars => [S!Next]_(S!vars)
<1>1. Srv!TypeOK <=> S!TypeOK
  BY DEF Srv!TypeOK, S!TypeOK, Srv!Socket, S!Socket, Srv!LoopStates, S!LoopStates,
         Srv!Booting, S!Booting, Srv!Hopping, S!Hopping
<1>2. UNCHANGED srvVars => UNCHANGED S!vars
  BY DEF srvVars, S!vars
<1>3. Srv!Listen => S!Listen
  BY DEF Srv!Listen, S!Listen, Srv!Binds, S!Binds, Srv!BindFails, S!BindFails,
         Srv!HeldByUs, S!HeldByUs
<1>4. ASSUME NEW k \in Srv!Aims, Srv!PrebindFirst(k)
      PROVE  k \in S!Aims /\ S!PrebindFirst(k)
  BY <1>4 DEF Srv!PrebindFirst, S!PrebindFirst, Srv!Binds, S!Binds, Srv!BindFails,
         S!BindFails, Srv!HeldByUs, S!HeldByUs, Srv!Aim, S!Aim, Srv!Aims, S!Aims
<1>5. ASSUME NEW k \in Srv!Aims, Srv!HopBind(k)
      PROVE  k \in S!Aims /\ S!HopBind(k)
  BY <1>5 DEF Srv!HopBind, S!HopBind, Srv!Binds, S!Binds, Srv!BindFails,
         S!BindFails, Srv!HeldByUs, S!HeldByUs, Srv!Aim, S!Aim, Srv!Aims, S!Aims
<1>6. (Srv!StartLoop => S!StartLoop) /\ (Srv!TimerFires => S!TimerFires)
  BY DEF Srv!StartLoop, S!StartLoop, Srv!TimerFires, S!TimerFires
<1>7. (Srv!LoopExits => S!LoopExits) /\ (Srv!HopSwitch => S!HopSwitch)
  BY DEF Srv!LoopExits, S!LoopExits, Srv!HopSwitch, S!HopSwitch
<1>8. /\ Srv!HopReadsClock => S!HopReadsClock
      /\ Srv!HopInstall => S!HopInstall
      /\ Srv!HopRetire => S!HopRetire
  BY DEF Srv!HopReadsClock, S!HopReadsClock, Srv!HopInstall, S!HopInstall,
         Srv!HopRetire, S!HopRetire, Srv!Retire, S!Retire
<1>9. Srv!Closers => S!Closers
  BY DEF Srv!Closers, S!Closers, Srv!CloseRetired, S!CloseRetired
<1>10. (Srv!CloseCancel => S!CloseCancel) /\ (Srv!CloseSockets => S!CloseSockets)
  BY DEF Srv!CloseCancel, S!CloseCancel, Srv!CloseSockets, S!CloseSockets,
         Srv!Booting, S!Booting
<1>11. Srv!Tick => S!Tick
  BY DEF Srv!Tick, S!Tick, Srv!Quiet, S!Quiet
<1>12. Srv!Stopped => S!Stopped
  BY DEF Srv!Stopped, S!Stopped, Srv!vars, S!vars
<1>13. Srv!HopLoop => S!HopLoop
  BY <1>3, <1>4, <1>5, <1>6, <1>7, <1>8 DEF Srv!HopLoop, S!HopLoop
<1>14. Srv!Next => S!Next
  BY <1>9, <1>10, <1>11, <1>12, <1>13 DEF Srv!Next, S!Next
<1> QED
  BY <1>1, <1>2, <1>14

\* What HopServerProofs knows of the server, after a step that is on time.
LEMMA ServerStep ==
  ASSUME Prompt, Server, [Srv!Next]_srvVars, ~late', life' = "open", loop' # "done"
  PROVE  Server' /\ Srv!TypeOK'
<1>1. S!IInv /\ [S!Next]_(S!vars) => S!TypeOK'
  BY ServerConstants, S!TypeStep DEF S!IInv
<1>2. S!IInv /\ [S!Next]_(S!vars) => S!Shape' /\ S!Ownership' /\ S!Order'
  BY ServerConstants, S!InvStep
<1>3. PrebindEnabled
  BY DEF Prompt
<1>4. S!IInv /\ (~late => S!Cover) /\ [S!Next]_(S!vars) => (~late' => S!Cover')
  BY <1>3, ServerConstants, S!CoverStep
<1>5. [S!Next]_(S!vars)
  BY SameServer
<1>6. S!IInv /\ S!Cover
  BY DEF Server
<1>7. S!TypeOK' /\ S!Shape' /\ S!Ownership' /\ S!Order' /\ S!Cover'
  BY <1>1, <1>2, <1>4, <1>5, <1>6
<1>8. Srv!TypeOK'
  <2>1. S!TypeOK' => Srv!TypeOK'
    BY DEF Srv!TypeOK, S!TypeOK, Srv!Socket, S!Socket, Srv!LoopStates, S!LoopStates,
           Srv!Booting, S!Booting, Srv!Hopping, S!Hopping
  <2> QED
    BY <1>7, <2>1
<1> QED
  BY <1>7, <1>8 DEF Server, S!IInv

\* The server has done its work by the end of the slot.
LEMMA QuietAtEnd ==
  ASSUME Prompt, IInv, InTime, ms = SlotLen-1
  PROVE  Srv!Quiet /\ ~LoopBusy
<1>1. /\ Now = SlotStart + SlotLen - 1
      /\ SlotStart \in Nat /\ deadline \in Nat /\ slot \in Nat /\ waitSlot \in Nat
      /\ \A s \in retiring : closeAt[s] \in Nat
  <2>1. \A s \in retiring : closeAt[s] \in Times
    BY DEF IInv, TypeOK
  <2>2. waitSlot \in Nat
    BY Numbers DEF IInv, TypeOK, Srv!TypeOK
  <2> QED
    BY <2>1, <2>2, NowFacts, Numbers DEF IInv, TypeOK, Times
<1>2. ~LoopBusy
  <2> SUFFICES ASSUME LoopBusy PROVE FALSE
    OBVIOUS
  <2>1. Now < deadline
    BY DEF InTime
  <2>2. deadline < SlotStart + SlotLen
    BY <1>1, Numbers DEF IInv, Clock, Prompt
  <2> QED
    BY <1>1, <2>1, <2>2, Numbers
<1>3. retiring = {}
  <2> SUFFICES ASSUME NEW s \in retiring PROVE FALSE
    OBVIOUS
  <2>1. Now < closeAt[s] + HopTime /\ closeAt[s] <= SlotStart + HopTime + CloseDelay
    BY DEF InTime, IInv, Clock
  <2> QED
    BY <1>1, <2>1, Numbers DEF Prompt
<1>4. loop = "failed" \/ (loop = "wait" /\ waitSlot = slot)
  <2>1. loop \in Srv!LoopStates /\ loop # "done" /\ waitSlot <= slot
    BY DEF IInv, TypeOK, Srv!TypeOK, Server, S!IInv, S!Order
  <2> QED
    BY <1>1, <1>2, <2>1 DEF LoopBusy, Srv!LoopStates
<1> QED
  BY <1>2, <1>3, <1>4 DEF Srv!Quiet, IInv, Server

\* Every step of the timed server is one of HopServer, or none, and on time.
LEMMA RefinesStep ==
  ASSUME Prompt, IInv, [Next]_vars
  PROVE  [Srv!Next]_srvVars /\ ~late' /\ life' = "open" /\ loop' # "done"
<1> USE DEF Srv!Next, Srv!HopLoop
<1>0. ~late /\ life = "open" /\ loop # "done" /\ loop \in Srv!LoopStates
  BY DEF IInv, Server, TypeOK, Srv!TypeOK
<1>1. CASE Advance
  <2>1. CASE ms < SlotLen-1 /\ UNCHANGED <<slot, late>>
    BY <1>0, <1>1, <2>1 DEF Advance, srvVars
  <2>2. CASE ms = SlotLen-1 /\ Srv!Tick
    <3>1. Srv!Quiet
      BY <1>1, <2>2, QuietAtEnd DEF Advance
    <3> QED
      BY <1>0, <2>2, <3>1 DEF Srv!Tick
  <2> QED
    BY <1>1, <2>1, <2>2 DEF Advance
<1>2. CASE Listen
  BY <1>0, <1>2 DEF Listen, Srv!Listen
<1>3. CASE PrebindFirst
  <2>1. PrebindSlot = slot + 1 /\ PrebindSlot \in Srv!Aims
    BY <1>3, AimsNext DEF IInv, Clock, PrebindFirst, Srv!PrebindFirst
  <2>2. slot + 1 > slot
    BY NowFacts DEF IInv
  <2>3. Srv!PrebindFirst(slot + 1) /\ slot + 1 \in Srv!Aims
    BY <1>3, <2>1 DEF PrebindFirst
  <2> QED
    BY <1>0, <2>2, <2>3 DEF Srv!PrebindFirst, Srv!Aim
<1>4. CASE HopBind
  <2>1. PrebindSlot = slot + 1 /\ PrebindSlot \in Srv!Aims
    BY <1>4, AimsNext DEF IInv, Clock, HopBind, Srv!HopBind
  <2>2. slot + 1 > slot
    BY NowFacts DEF IInv
  <2>3. Srv!HopBind(slot + 1) /\ slot + 1 \in Srv!Aims
    BY <1>4, <2>1 DEF HopBind
  <2> QED
    BY <1>0, <2>2, <2>3 DEF Srv!HopBind, Srv!Aim
<1>5. CASE HopReadsClock \/ TimeUp \/ UNCHANGED vars
  BY <1>0, <1>5 DEF HopReadsClock, Srv!HopReadsClock, TimeUp, vars, srvVars
<1>6. CASE HopRetire
  BY <1>0, <1>6 DEF HopRetire, Srv!HopRetire, Srv!Retire
<1>7. CASE OtherHopSteps
  BY <1>0, <1>7 DEF OtherHopSteps, Srv!StartLoop, Srv!TimerFires, Srv!HopSwitch,
                    Srv!HopInstall
<1>8. ASSUME NEW s \in retiring, CloseRetired(s)
      PROVE  [Srv!Next]_srvVars /\ ~late' /\ life' = "open" /\ loop' # "done"
  BY <1>0, <1>8 DEF CloseRetired, Srv!Closers, Srv!CloseRetired
<1>9. ASSUME NEW w \in Writers, WriteBegin(w) \/ WriteEnd(w)
      PROVE  [Srv!Next]_srvVars /\ ~late' /\ life' = "open" /\ loop' # "done"
  BY <1>0, <1>9 DEF WriteBegin, WriteEnd, srvVars
<1> QED
  BY <1>1, <1>2, <1>3, <1>4, <1>5, <1>6, <1>7, <1>8, <1>9 DEF Next

LEMMA ServerKept ==
  ASSUME Prompt, IInv, [Next]_vars
  PROVE  Server' /\ Srv!TypeOK'
BY RefinesStep, ServerStep DEF IInv

-----------------------------------------------------------------------------
(* The clock of the server's goroutines and its sockets, an action a lemma.*)

LEMMA InitialInv == Prompt /\ Init => IInv /\ Writes
<1> SUFFICES ASSUME Prompt, Init PROVE IInv /\ Writes
  OBVIOUS
<1>1. /\ slot = 0 /\ open = {} /\ current = NoSock /\ next = NoSock /\ prev = NoSock
      /\ fresh = NoSock /\ retiring = {} /\ loop = "listen" /\ waitSlot = 0
      /\ life = "open" /\ missed = {} /\ base = 0
  BY DEF Init, Srv!Init
<1>2. late = FALSE /\ writeFailed = FALSE
  BY Zenon DEF Init, Srv!Init
<1>3. /\ ms \in 0..SlotLen-1 /\ ms + HopTime < SlotLen
      /\ readAt = Now /\ deadline = ms + HopTime /\ closeAt = [s \in {} |-> 0]
      /\ writing = [w \in Writers |-> Idle]
  BY Numbers DEF Init, Prompt
<1>4. 0 * SlotLen = 0 /\ 0 \in Times /\ ms \in Times
  <2>1. (MaxSlot + 1) * SlotLen \in Nat /\ 1 * SlotLen <= (MaxSlot + 1) * SlotLen
    BY Numbers, Multiples
  <2> QED
    BY <1>3, <2>1, Numbers DEF Times
<1>5. SlotStart = 0 /\ Now = ms
  BY <1>1, <1>3, <1>4, Numbers DEF SlotStart, Now
<1>6. S!TypeOK /\ Srv!TypeOK
  <2>1. S!Init => S!TypeOK
    BY ServerConstants, S!InitialType
  <2>2. S!Init
    BY <1>1, <1>2 DEF S!Init
  <2> QED
    BY <2>1, <2>2, SameServer
<1>7. TypeOK
  <2>1. closeAt \in [retiring -> Times] /\ writing \in [Writers -> [sock : Srv!Socket \cup {NoSock}, since : Times]]
    BY <1>1, <1>3, <1>4 DEF Idle
  <2>2. writeFailed \in BOOLEAN
    BY <1>2
  <2>3. readAt \in Times \cup {Unread} /\ deadline \in Nat /\ ms \in 0..SlotLen-1
    BY <1>3, <1>4, <1>5, Numbers
  <2> QED
    BY <1>6, <2>1, <2>2, <2>3 DEF TypeOK
<1>8. Server
  BY <1>1, <1>2, <1>6
     DEF Server, S!IInv, S!Shape, S!Ownership, S!Order, S!Running, S!Booting, S!Cover
<1>9. Clock
  BY <1>1, <1>3, <1>5, Numbers DEF Clock, LoopBusy, Srv!Booting, Srv!Hopping, S!Booting
<1>10. Bound /\ Earlier
  BY <1>1 DEF Bound, S!BeforeHop, Earlier, S!Running
<1>11. Writes
  BY <1>2, <1>3 DEF Writes
<1> QED
  BY <1>7, <1>8, <1>9, <1>10, <1>11 DEF IInv

\* A time in this slot, or CloseDelay later.
LEMMA NowType == TypeOK => Now \in Times /\ Now + CloseDelay \in Times
<1> SUFFICES ASSUME TypeOK PROVE Now \in Times /\ Now + CloseDelay \in Times
  OBVIOUS
<1> DEFINE end == (MaxSlot + 1) * SlotLen
<1>1. end \in Nat /\ Now \in Nat /\ Now <= end
  BY NowFacts, Numbers
<1> HIDE DEF end
<1>2. Now \in 0..end + CloseDelay /\ Now + CloseDelay \in 0..end + CloseDelay
  BY <1>1, Numbers
<1> QED
  BY <1>2 DEF Times, end

\* What a step that does not move the clock leaves as it is.
LEMMA SameSlot ==
  ASSUME TypeOK, UNCHANGED <<slot, ms>>
  PROVE  /\ slot' = slot /\ ms' = ms /\ Now' = Now /\ SlotStart' = SlotStart
         /\ slot \in Nat /\ ms \in Nat /\ Now \in Nat /\ SlotStart \in Nat
         /\ Now = SlotStart + ms /\ SlotStart <= Now /\ Now < SlotStart + SlotLen
BY SameTime, NowFacts, Numbers

\* The clock moves on within the slot, or into the next one, for which the
\* server is ready.
LEMMA AdvanceStep ==
  ASSUME Prompt, IInv, Advance
  PROVE  TypeOK' /\ Clock' /\ Bound' /\ Earlier'
<1>0. /\ UNCHANGED <<open, current, next, prev, fresh, retiring, loop, waitSlot,
                     life, missed, readAt, closeAt, writing, writeFailed>>
      /\ InTime
  BY DEF Advance, writeVars
<1>1. /\ slot \in Nat /\ SlotStart \in Nat /\ Now \in Nat /\ Now' = Now + 1
      /\ Now = SlotStart + ms /\ ms \in 0..SlotLen-1 /\ ms' \in 0..SlotLen-1
  BY NowFacts, TimePasses DEF IInv
<1>2. /\ waitSlot \in Nat /\ deadline \in Nat
      /\ readAt = Unread \/ readAt \in Nat
      /\ \A s \in retiring : closeAt[s] \in Nat
  BY TypeFacts DEF IInv
<1>3. Srv!TypeOK' /\ Server'
  BY ServerKept DEF Next
<1>4. CASE slot' = slot /\ ms' = ms + 1 /\ SlotStart' = SlotStart
  <2>1. UNCHANGED deadline
    <3>1. slot' # slot + 1
      BY <1>1, <1>4
    <3> QED
      BY <3>1, Zenon DEF Advance, Srv!Tick
  <2>2. TypeOK'
    BY <1>0, <1>1, <1>3, <2>1 DEF IInv, TypeOK
  <2>3. LoopBusy' = LoopBusy /\ S!BeforeHop' = S!BeforeHop /\ S!Running' = S!Running
    BY <1>0, <1>4 DEF LoopBusy, S!BeforeHop, S!Running
  <2>4. Clock'
    <3>1. readAt # Unread => readAt <= Now' /\ Now' <= readAt + ReadGap
      BY <1>0, <1>1, <1>2, Numbers DEF InTime, IInv, Clock
    <3>2. LoopBusy => Now' <= deadline
      BY <1>0, <1>1, <1>2 DEF InTime
    <3>3. \A s \in retiring : Now' <= closeAt[s] + HopTime
      BY <1>0, <1>1, <1>2, Numbers DEF InTime
    <3> QED
      BY <1>0, <1>4, <2>1, <2>3, <3>1, <3>2, <3>3 DEF IInv, Clock
  <2>5. Bound'
    BY <1>0, <1>4, <2>3 DEF IInv, Bound
  <2>6. Earlier'
    BY <1>0, <1>1, <1>4, <2>3, Numbers DEF IInv, Earlier, EarlierOpen
  <2> QED
    BY <2>2, <2>4, <2>5, <2>6
<1>5. CASE slot' = slot + 1 /\ ms = SlotLen-1 /\ ms' = 0 /\ SlotStart' = SlotStart + SlotLen
  <2>1. retiring = {} /\ ~LoopBusy /\ (loop = "failed" \/ (loop = "wait" /\ waitSlot = slot))
    BY <1>0, <1>5, QuietAtEnd DEF Srv!Quiet, IInv, Server
  <2>2. deadline' = IF loop = "wait" THEN SlotStart' + HopTime ELSE deadline
    BY <1>1, <1>5 DEF Advance, SlotStart
  <2>3. TypeOK'
    <3>1. deadline' \in Nat
      BY <1>1, <1>2, <1>5, <2>2, Numbers
    <3> QED
      BY <1>0, <1>1, <1>3, <3>1 DEF IInv, TypeOK
  <2>4. readAt = Unread
    BY <2>1 DEF IInv, Clock, LoopBusy
  <2>5. Now' = SlotStart'
    BY <1>1, <1>5, Numbers
  <2>6. Clock'
    <3>1. loop \notin S!Booting /\ loop # "prebind" /\ (LoopBusy' => loop = "wait")
      BY <1>0, <2>1 DEF LoopBusy, Srv!Booting, Srv!Hopping, S!Booting
    <3>2. slot' > 0 /\ (loop = "wait" => Now' <= deadline' /\ deadline' = SlotStart' + HopTime)
      <4>1. slot' > 0 /\ SlotStart' \in Nat
        BY <1>1, <1>5, Numbers
      <4> QED
        <5>1. HopTime \in Nat
          BY Numbers
        <5>2. SlotStart' <= SlotStart' + HopTime
          <6>1. \A x \in Nat : x <= x + HopTime
            BY <5>1
          <6> QED
            BY <4>1, <6>1
        <5>3. loop = "wait" => deadline' = SlotStart' + HopTime
          BY <2>2
        <5> QED
          BY <2>5, <4>1, <5>2, <5>3
    <3> QED
      BY <1>0, <2>1, <2>4, <3>1, <3>2 DEF Clock
  <2>7. Bound'
    BY <1>0, <1>1, <1>5, <2>1
       DEF IInv, Server, S!IInv, S!Shape, S!Running, Bound, S!BeforeHop
  <2>8. Earlier'
    <3>1. CASE loop = "failed"
      BY <1>0, <3>1 DEF Earlier, S!Running
    <3>2. CASE loop = "wait" /\ waitSlot = slot
      <4>1. slot \in missed \/ S!Serves(current, slot)
        BY <3>2 DEF IInv, Server, S!Cover, S!Running, S!BeforeHop
      <4>2. current \in open \ retiring
        BY <3>2 DEF IInv, Server, S!IInv, S!Ownership, S!Running
      <4> QED
        BY <1>0, <1>1, <1>5, <2>1, <4>1, <4>2 DEF Earlier, EarlierOpen, S!Serves
    <3> QED
      BY <2>1, <3>1, <3>2
  <2> QED
    BY <2>3, <2>6, <2>7, <2>8
<1> QED
  BY <1>4, <1>5, TimePasses DEF IInv

\* What the invariant says of a state, for the actions below.
LEMMA Given ==
  ASSUME IInv
  PROVE  /\ TypeOK /\ Clock /\ Bound /\ Earlier /\ S!Shape /\ S!Ownership
         /\ S!Order /\ S!Cover /\ life = "open" /\ loop # "done"
BY DEF IInv, Server, S!IInv

\* The types of the variables that only HopTiming has.
LEMMA TypeKept ==
  ASSUME TypeOK, Srv!TypeOK', UNCHANGED <<ms, deadline>>,
         readAt' \in {readAt, Now, Unread}, closeAt' \in [retiring' -> Times],
         UNCHANGED <<writing, writeFailed>>
  PROVE  TypeOK'
BY NowType DEF TypeOK

\* The first socket is bound in slot 0.
LEMMA ListenStep ==
  ASSUME Prompt, IInv, Listen
  PROVE  TypeOK' /\ Clock' /\ Bound' /\ Earlier'
<1>0. /\ UNCHANGED <<slot, ms, deadline, closeAt, writing, writeFailed>>
      /\ loop = "listen" /\ UNCHANGED <<next, fresh, retiring>>
      /\ readAt' = IF loop' = "prebind" THEN readAt ELSE Unread
      /\ \/ loop' = "prebind" /\ UNCHANGED missed
         \/ loop' = "failed" /\ missed' = missed \cup {base}
  BY DEF Prompt, Listen, Srv!Listen, Srv!BindFails, writeVars
<1>1. /\ TypeOK /\ Srv!TypeOK' /\ slot = 0 /\ retiring = {} /\ missed = {}
      /\ next = NoSock /\ fresh = NoSock /\ base = slot
      /\ readAt # Unread /\ readAt <= Now /\ Now <= readAt + ReadGap
      /\ Now <= deadline /\ deadline < SlotStart + SlotLen
  BY <1>0, ServerKept, Given
     DEF Next, S!Shape, S!Cover, S!Running, S!Booting, Clock, Bound, LoopBusy,
         Srv!Booting
<1>2. /\ Now' = Now /\ SlotStart' = SlotStart /\ Now \in Nat
  BY <1>0, <1>1, SameSlot
<1>3. TypeOK'
  <2>1. readAt' \in {readAt, Unread} /\ closeAt' \in [retiring' -> Times]
    BY <1>0, <1>1 DEF TypeOK
  <2> QED
    BY <1>0, <1>1, <2>1, TypeKept
<1>4. Clock'
  BY <1>0, <1>1, <1>2, Numbers DEF Clock, LoopBusy, Srv!Booting, Srv!Hopping, S!Booting
<1>5. Bound' /\ Earlier'
  BY <1>0, <1>1 DEF Bound, S!BeforeHop, Earlier
<1> QED
  BY <1>3, <1>4, <1>5

\* What the two pre-binds have in common: the slot after this one is bound, or
\* has been missed.
LEMMA BindNext ==
  ASSUME Prompt, IInv, readAt # Unread,
         NEW s, s = [slot |-> PrebindSlot, at |-> slot]
  PROVE  s.slot = slot + 1 /\ s \in Srv!Socket
<1>1. PrebindSlot = slot + 1 /\ slot \in 0..MaxSlot
  BY AimsNext, NowFacts, Given
<1> QED
  BY <1>1, Numbers DEF Srv!Socket

LEMMA PrebindFirstStep ==
  ASSUME Prompt, IInv, PrebindFirst
  PROVE  TypeOK' /\ Clock' /\ Bound' /\ Earlier'
<1> DEFINE s == [slot |-> PrebindSlot, at |-> slot]
<1>0. /\ UNCHANGED <<slot, ms, deadline, closeAt, writing, writeFailed>>
      /\ loop = "prebind" /\ loop' = "start" /\ readAt' = Unread
      /\ UNCHANGED <<fresh, retiring>>
      /\ \/ next' = s /\ UNCHANGED missed
         \/ UNCHANGED next /\ missed' = missed \cup {s.slot}
  BY DEF PrebindFirst, Srv!PrebindFirst, Srv!Binds, Srv!BindFails, writeVars
<1>1. /\ TypeOK /\ Srv!TypeOK' /\ slot = 0 /\ retiring = {} /\ readAt # Unread
      /\ next = NoSock /\ fresh = NoSock
      /\ missed \subseteq 0..slot+1 /\ slot + 1 \notin missed
      /\ Now <= deadline /\ deadline < SlotStart + SlotLen
  BY <1>0, ServerKept, Given
     DEF Next, S!Shape, S!Booting, Clock, Bound, LoopBusy, Srv!Booting
<1>2. /\ Now' = Now /\ SlotStart' = SlotStart /\ Now \in Nat
  BY <1>0, <1>1, SameSlot
<1>3. s.slot = slot + 1 /\ s # NoSock
  BY <1>1, BindNext, Numbers DEF Srv!Socket, S!Socket
<1> HIDE DEF s
<1>4. TypeOK'
  <2>1. closeAt' \in [retiring' -> Times]
    BY <1>0, <1>1 DEF TypeOK
  <2> QED
    BY <1>0, <1>1, <2>1, TypeKept
<1>5. Clock'
  BY <1>0, <1>1, <1>2, Numbers DEF Clock, LoopBusy, Srv!Booting, Srv!Hopping, S!Booting
<1>6. Bound' /\ Earlier'
  <2>0. missed \subseteq 0..slot+1 /\ s.slot \in 0..slot+1
    BY <1>1, <1>3
  <2>1. missed' \subseteq 0..slot+1
    BY <1>0, <2>0, Zenon
  <2>2. CASE next' = s /\ UNCHANGED missed
    BY <1>0, <1>1, <1>3, <2>1, <2>2 DEF Bound, S!BeforeHop, Earlier
  <2>3. CASE UNCHANGED next /\ missed' = missed \cup {s.slot}
    BY <1>0, <1>1, <1>3, <2>1, <2>3 DEF Bound, S!BeforeHop, Earlier
  <2> QED
    BY <1>0, <2>2, <2>3
<1> QED
  BY <1>4, <1>5, <1>6

LEMMA HopReadsClockStep ==
  ASSUME Prompt, IInv, HopReadsClock
  PROVE  TypeOK' /\ Clock' /\ Bound' /\ Earlier'
<1>0. /\ loop = "clock" /\ loop' = "bind" /\ readAt' = Now
      /\ UNCHANGED <<slot, open, current, next, prev, fresh, retiring,
                     waitSlot, life, missed, late>>
      /\ UNCHANGED <<ms, deadline, closeAt, writing, writeFailed>>
  BY DEF HopReadsClock, Srv!HopReadsClock, writeVars
<1>1. TypeOK /\ Srv!TypeOK' /\ Clock /\ Bound /\ Earlier
  BY ServerKept, Given DEF Next
<1>2. /\ Now' = Now /\ SlotStart' = SlotStart /\ Now \in Nat
  BY <1>0, <1>1, SameSlot
<1>3. TypeOK'
  <2>1. closeAt' \in [retiring' -> Times]
    BY <1>0, <1>1 DEF TypeOK
  <2> QED
    BY <1>0, <1>1, <2>1, TypeKept
<1>4. Clock'
  <2>1. Now <= Now + ReadGap /\ Now # Unread
    BY <1>2, Numbers
  <2> QED
    BY <1>0, <1>1, <1>2, <2>1 DEF Clock, LoopBusy, Srv!Booting, Srv!Hopping, S!Booting
<1>5. Bound' /\ Earlier'
  BY <1>0, <1>1, <1>2 DEF Bound, S!BeforeHop, Earlier, EarlierOpen, S!Running
<1> QED
  BY <1>3, <1>4, <1>5

LEMMA HopBindStep ==
  ASSUME Prompt, IInv, HopBind
  PROVE  TypeOK' /\ Clock' /\ Bound' /\ Earlier'
<1> DEFINE s == [slot |-> PrebindSlot, at |-> slot]
<1>0. /\ UNCHANGED <<slot, ms, deadline, closeAt, writing, writeFailed>>
      /\ loop = "bind" /\ readAt' = Unread
      /\ UNCHANGED <<current, next, retiring, waitSlot>>
      /\ open \subseteq open'
      /\ \/ fresh' = s /\ UNCHANGED missed /\ loop' = "install"
         \/ UNCHANGED fresh /\ missed' = missed \cup {s.slot} /\ loop' = "retire"
  BY DEF HopBind, Srv!HopBind, Srv!Binds, Srv!BindFails, writeVars
<1>1. /\ TypeOK /\ Srv!TypeOK' /\ next = NoSock /\ fresh = NoSock
      /\ Clock /\ Bound /\ Earlier /\ slot \in Nat /\ readAt # Unread
  BY <1>0, ServerKept, Given, NowFacts, Numbers DEF Next, S!Shape, Clock
<1>2. /\ Now' = Now /\ SlotStart' = SlotStart
  BY <1>0, <1>1, SameSlot
<1>3. s.slot = slot + 1 /\ s # NoSock
  BY <1>0, <1>1, BindNext, Numbers DEF Srv!Socket, S!Socket
<1> HIDE DEF s
<1>4. TypeOK'
  <2>1. closeAt' \in [retiring' -> Times]
    BY <1>0, <1>1 DEF TypeOK
  <2> QED
    BY <1>0, <1>1, <2>1, TypeKept
<1>5. Clock'
  BY <1>0, <1>1, <1>2 DEF Clock, LoopBusy, Srv!Booting, Srv!Hopping, S!Booting
<1>6. Bound'
  <2>0. missed \subseteq 0..slot+1 /\ slot + 1 \notin missed /\ s.slot \in 0..slot+1
    BY <1>0, <1>1, <1>3 DEF Bound
  <2>1. missed' \subseteq 0..slot+1
    BY <1>0, <2>0, Zenon
  <2>2. CASE fresh' = s /\ UNCHANGED missed /\ loop' = "install"
    BY <1>0, <1>1, <1>3, <2>0, <2>1, <2>2 DEF Bound, S!BeforeHop
  <2>3. CASE UNCHANGED fresh /\ missed' = missed \cup {s.slot} /\ loop' = "retire"
    BY <1>0, <1>1, <1>3, <2>0, <2>1, <2>3 DEF Bound, S!BeforeHop
  <2> QED
    BY <1>0, <2>2, <2>3
<1>7. Earlier'
  <2>1. /\ EarlierOpen => EarlierOpen'
    BY <1>0, <1>2 DEF EarlierOpen
  <2>2. missed \subseteq missed' /\ (slot \in missed' => slot \in missed)
    BY <1>0, <1>1, <1>3
  <2> QED
    BY <1>0, <1>1, <2>1, <2>2 DEF Earlier, S!BeforeHop, S!Running
<1> QED
  BY <1>4, <1>5, <1>6, <1>7

LEMMA OtherHopStepsStep ==
  ASSUME Prompt, IInv, OtherHopSteps
  PROVE  TypeOK' /\ Clock' /\ Bound' /\ Earlier'
<1>0. /\ UNCHANGED <<slot, ms, readAt, deadline, closeAt, writing, writeFailed>>
      /\ UNCHANGED <<open, retiring, missed>>
  BY DEF OtherHopSteps, timeVars, writeVars, Srv!StartLoop, Srv!TimerFires,
         Srv!HopSwitch, Srv!HopInstall
<1>1. /\ TypeOK /\ Srv!TypeOK' /\ Clock /\ Bound /\ Earlier /\ S!Shape /\ S!Ownership
      /\ S!Cover /\ slot \in Nat /\ waitSlot \in Nat
  BY ServerKept, Given, NowFacts, TypeFacts, Numbers DEF Next
<1>2. /\ Now' = Now /\ SlotStart' = SlotStart
  BY <1>0, <1>1, SameSlot
<1>3. TypeOK'
  <2>1. closeAt' \in [retiring' -> Times]
    BY <1>0, <1>1 DEF TypeOK
  <2> QED
    BY <1>0, <1>1, <2>1, TypeKept
<1>4. CASE Srv!StartLoop
  <2>1. /\ loop = "start" /\ loop' = "wait" /\ waitSlot' = slot
        /\ UNCHANGED <<current, next, fresh>>
    BY <1>4 DEF Srv!StartLoop
  <2>2. Clock'
    BY <1>0, <1>1, <1>2, <2>1 DEF Clock, LoopBusy, Srv!Booting, Srv!Hopping, S!Booting
  <2>3. Bound'
    BY <1>0, <1>1, <2>1 DEF Bound, S!BeforeHop
  <2>4. Earlier'
    BY <1>0, <1>1, <2>1 DEF Clock, S!Booting, Earlier
  <2> QED
    BY <1>3, <2>2, <2>3, <2>4
<1>5. CASE Srv!TimerFires
  <2>1. /\ loop = "wait" /\ loop' = "switch" /\ slot > waitSlot
        /\ UNCHANGED <<current, next, fresh, waitSlot>>
    BY <1>5 DEF Srv!TimerFires
  <2>2. Clock'
    BY <1>0, <1>1, <1>2, <2>1 DEF Clock, LoopBusy, Srv!Booting, Srv!Hopping, S!Booting
  <2>3. Bound'
    BY <1>0, <1>1, <2>1 DEF Bound, S!BeforeHop
  <2>4. Earlier'
    BY <1>0, <1>1, <1>2, <2>1 DEF Earlier, EarlierOpen, S!BeforeHop, S!Running
  <2> QED
    BY <1>3, <2>2, <2>3, <2>4
<1>6. CASE Srv!HopSwitch
  <2>1. /\ loop = "switch" /\ loop' = "clock" /\ next' = NoSock
        /\ current' = IF next # NoSock THEN next ELSE current
        /\ UNCHANGED <<fresh, waitSlot>>
    BY <1>6 DEF Prompt, Srv!HopSwitch
  <2>2. Clock'
    BY <1>0, <1>1, <1>2, <2>1 DEF Clock, LoopBusy, Srv!Booting, Srv!Hopping, S!Booting
  <2>3. Bound'
    BY <1>0, <1>1, <2>1 DEF Bound, S!BeforeHop
  <2>4. slot \in missed => current' = current
    BY <1>1, <2>1 DEF Bound, S!BeforeHop
  <2>5. Earlier'
    BY <1>0, <1>1, <1>2, <2>1, <2>4 DEF Earlier, EarlierOpen, S!BeforeHop, S!Running
  <2> QED
    BY <1>3, <2>2, <2>3, <2>5
<1>7. CASE Srv!HopInstall
  <2>1. /\ loop = "install" /\ loop' = "retire" /\ next' = fresh /\ fresh' = NoSock
        /\ UNCHANGED <<current, waitSlot, life>>
    BY <1>7 DEF Srv!HopInstall
  <2>2. Clock'
    BY <1>0, <1>1, <1>2, <2>1 DEF Clock, LoopBusy, Srv!Booting, Srv!Hopping, S!Booting
  <2>3. fresh.slot = slot + 1
    BY <2>1, Given DEF S!Cover, S!Running
  <2>4. Bound'
    BY <1>0, <1>1, <2>1, <2>3 DEF Bound, S!BeforeHop
  <2>5. Earlier'
    BY <1>0, <1>1, <1>2, <2>1 DEF Earlier, EarlierOpen, S!BeforeHop, S!Running
  <2> QED
    BY <1>3, <2>2, <2>4, <2>5
<1> QED
  BY <1>4, <1>5, <1>6, <1>7 DEF OtherHopSteps

\* The socket of the slot before is handed to a closer, to be closed later.
LEMMA HopRetireStep ==
  ASSUME Prompt, IInv, HopRetire
  PROVE  TypeOK' /\ Clock' /\ Bound' /\ Earlier'
<1>0. /\ UNCHANGED <<slot, ms, readAt, deadline, writing, writeFailed>>
      /\ loop = "retire" /\ loop' = "wait" /\ waitSlot' = slot
      /\ retiring \subseteq retiring'
      /\ closeAt' = [s \in retiring' |->
                       IF s \in retiring THEN closeAt[s] ELSE Now + CloseDelay]
      /\ UNCHANGED <<open, current, next, fresh, missed>>
  BY DEF HopRetire, Srv!HopRetire, Srv!Retire, writeVars
<1>1. /\ TypeOK /\ Srv!TypeOK' /\ Clock /\ Bound /\ Earlier
      /\ slot \in Nat /\ deadline \in Nat
      /\ \A s \in retiring : closeAt[s] \in Nat
  BY ServerKept, Given, NowFacts, TypeFacts, Numbers DEF Next
<1>2. /\ Now' = Now /\ SlotStart' = SlotStart /\ Now \in Nat /\ SlotStart \in Nat
      /\ SlotStart <= Now /\ Now <= SlotStart + HopTime
  <2>1. LoopBusy /\ loop \notin S!Booting
    BY <1>0 DEF LoopBusy, Srv!Hopping, S!Booting
  <2> QED
    BY <1>0, <1>1, <2>1, SameSlot DEF Clock
<1>3. TypeOK'
  <2>1. \A s \in retiring : closeAt[s] \in Times
    BY <1>1 DEF TypeOK
  <2>2. closeAt' \in [retiring' -> Times]
    BY <1>0, <1>1, <2>1, NowType
  <2> QED
    BY <1>0, <1>1, <2>2, TypeKept
<1>4. Clock'
  <2>1. \A s \in retiring' : /\ Now <= closeAt'[s] + HopTime
                             /\ closeAt'[s] <= SlotStart + HopTime + CloseDelay
    <3> SUFFICES ASSUME NEW s \in retiring'
                 PROVE  /\ Now <= closeAt'[s] + HopTime
                        /\ closeAt'[s] <= SlotStart + HopTime + CloseDelay
      OBVIOUS
    <3>1. CASE s \in retiring
      BY <1>0, <1>1, <3>1 DEF Clock
    <3>2. CASE s \notin retiring
      <4>1. closeAt'[s] = Now + CloseDelay
        BY <1>0, <3>2
      <4> QED
        BY <1>2, <4>1, Numbers
    <3> QED
      BY <3>1, <3>2
  <2>2. readAt' = Unread
    BY <1>0, <1>1 DEF Clock
  <2>3. ~LoopBusy'
    BY <1>0, <1>1 DEF LoopBusy, Srv!Booting, Srv!Hopping
  <2> QED
    BY <1>0, <1>2, <2>1, <2>2, <2>3 DEF Clock, S!Booting
<1>5. Bound'
  BY <1>0, <1>1 DEF Bound, S!BeforeHop
<1>6. Earlier'
  <2>1. EarlierOpen => EarlierOpen'
    <3> SUFFICES ASSUME NEW s \in open, s.slot = slot - 1,
                        s \in retiring => SlotStart + CloseDelay <= closeAt[s]
                 PROVE  s \in retiring' => SlotStart + CloseDelay <= closeAt'[s]
      BY <1>0, <1>2 DEF EarlierOpen
    <3>1. CASE s \in retiring
      BY <1>0, <3>1
    <3>2. CASE s \notin retiring
      <4>1. s \in retiring' => closeAt'[s] = Now + CloseDelay
        BY <1>0, <3>2
      <4> QED
        BY <1>2, <4>1, Numbers
    <3> QED
      BY <3>1, <3>2
  <2> QED
    BY <1>0, <1>1, <2>1 DEF Earlier, S!BeforeHop, S!Running
<1> QED
  BY <1>3, <1>4, <1>5, <1>6

\* A closer closes a socket, but not before it has slept.
LEMMA CloseRetiredStep ==
  ASSUME Prompt, IInv, NEW s \in retiring, CloseRetired(s)
  PROVE  TypeOK' /\ Clock' /\ Bound' /\ Earlier'
<1>0. /\ UNCHANGED <<slot, ms, readAt, deadline, writing, writeFailed>>
      /\ Now >= closeAt[s]
      /\ retiring' = retiring \ {s} /\ open' = open \ {s}
      /\ closeAt' = [r \in retiring' |-> closeAt[r]]
      /\ UNCHANGED <<current, next, fresh, loop, waitSlot, missed>>
  BY DEF CloseRetired, Srv!CloseRetired, writeVars
<1>1. /\ TypeOK /\ Srv!TypeOK' /\ Clock /\ Bound /\ Earlier
      /\ closeAt[s] \in Nat
  BY ServerKept, Given, TypeFacts DEF Next
<1>2. /\ Now' = Now /\ SlotStart' = SlotStart /\ Now = SlotStart + ms
      /\ SlotStart \in Nat /\ ms \in Nat
  BY <1>0, <1>1, SameSlot
<1>3. TypeOK'
  <2>1. \A r \in retiring : closeAt[r] \in Times
    BY <1>1 DEF TypeOK
  <2>2. closeAt' \in [retiring' -> Times]
    BY <1>0, <2>1
  <2> QED
    BY <1>0, <1>1, <2>2, TypeKept
<1>4. Clock' /\ Bound'
  BY <1>0, <1>1, <1>2 DEF Clock, LoopBusy, Bound, S!BeforeHop
<1>5. Earlier'
  <2>1. ms < CloseDelay /\ EarlierOpen => EarlierOpen'
    <3> SUFFICES ASSUME ms < CloseDelay, NEW r \in open, r.slot = slot - 1,
                        r \in retiring => SlotStart + CloseDelay <= closeAt[r]
                 PROVE  r \in open' /\ (r \in retiring' => SlotStart + CloseDelay <= closeAt'[r])
      BY <1>0, <1>2 DEF EarlierOpen
    <3>1. r # s
      <4> SUFFICES ASSUME r = s PROVE FALSE
        OBVIOUS
      <4>1. SlotStart + CloseDelay <= closeAt[s]
        OBVIOUS
      <4> QED
        BY <1>0, <1>1, <1>2, <4>1, Numbers
    <3> QED
      BY <1>0, <3>1
  <2> QED
    BY <1>0, <1>1, <2>1 DEF Earlier, S!BeforeHop, S!Running
<1> QED
  BY <1>3, <1>4, <1>5

\* A write does not concern the server's goroutines.
LEMMA WriteStep ==
  ASSUME Prompt, IInv, NEW w \in Writers, WriteBegin(w) \/ WriteEnd(w)
  PROVE  TypeOK' /\ Clock' /\ Bound' /\ Earlier'
<1>0. /\ UNCHANGED <<slot, open, current, next, prev, fresh, retiring, loop,
                     waitSlot, life, missed, late>>
      /\ UNCHANGED <<ms, readAt, deadline, closeAt>>
  BY DEF WriteBegin, WriteEnd, srvVars, timeVars
<1>1. TypeOK /\ Srv!TypeOK' /\ Clock /\ Bound /\ Earlier
  BY ServerKept, Given DEF Next
<1>2. /\ Now' = Now /\ SlotStart' = SlotStart
  BY <1>0, <1>1, SameSlot
<1>3. TypeOK'
  <2>1. writing' \in [Writers -> [sock : Srv!Socket \cup {NoSock}, since : Times]]
    <3>1. CASE WriteBegin(w)
      <4>1. [sock |-> current, since |-> Now] \in [sock : Srv!Socket \cup {NoSock}, since : Times]
        BY <1>1, NowType DEF TypeOK, Srv!TypeOK
      <4> QED
        BY <1>1, <3>1, <4>1 DEF TypeOK, WriteBegin
    <3>2. CASE WriteEnd(w)
      <4>1. 0 \in Times
        BY <1>1, NowFacts, Numbers DEF Times
      <4> QED
        BY <1>1, <3>2, <4>1 DEF TypeOK, WriteEnd, Idle
    <3> QED
      BY <3>1, <3>2
  <2>2. writeFailed' \in BOOLEAN
    BY <1>1, Zenon DEF TypeOK, WriteBegin, WriteEnd
  <2> QED
    BY <1>0, <1>1, <2>1, <2>2 DEF TypeOK
<1>4. Clock' /\ Bound' /\ Earlier'
  BY <1>0, <1>1, <1>2
     DEF Clock, LoopBusy, Bound, S!BeforeHop, Earlier, EarlierOpen, S!Running
<1> QED
  BY <1>3, <1>4

LEMMA StutterStep ==
  ASSUME Prompt, IInv, UNCHANGED vars
  PROVE  TypeOK' /\ Clock' /\ Bound' /\ Earlier'
<1>0. /\ UNCHANGED <<slot, open, current, next, prev, fresh, retiring, loop,
                     waitSlot, life, missed, late>>
      /\ UNCHANGED <<ms, readAt, deadline, closeAt, writing, writeFailed>>
  BY DEF vars, srvVars, timeVars, writeVars
<1>1. TypeOK /\ Srv!TypeOK' /\ Clock /\ Bound /\ Earlier
  BY ServerKept, Given
<1>2. /\ Now' = Now /\ SlotStart' = SlotStart
  BY <1>0, <1>1, SameSlot
<1>3. TypeOK'
  BY <1>0, <1>1 DEF TypeOK
<1> QED
  BY <1>0, <1>1, <1>2, <1>3
     DEF Clock, LoopBusy, Bound, S!BeforeHop, Earlier, EarlierOpen, S!Running

LEMMA NextInv == Prompt /\ IInv /\ [Next]_vars => IInv'
<1> SUFFICES ASSUME Prompt, IInv, [Next]_vars PROVE IInv'
  OBVIOUS
<1>0. Server'
  BY ServerKept
<1>1. TypeOK' /\ Clock' /\ Bound' /\ Earlier'
  BY AdvanceStep, ListenStep, PrebindFirstStep, HopReadsClockStep, HopBindStep,
     HopRetireStep, OtherHopStepsStep, CloseRetiredStep, WriteStep, StutterStep
     DEF Next, TimeUp
<1> QED
  BY <1>0, <1>1 DEF IInv

\* The invariant of the server's goroutines, when the delays keep it prompt.
THEOREM Invariant ==
  ASSUME Prompt
  PROVE  Spec => []IInv
<1>1. Init => IInv
  BY InitialInv
<1>2. IInv /\ [Next]_vars => IInv'
  BY NextInv
<1> QED
  BY <1>1, <1>2, PTL DEF Spec

(***************************************************************************)
(* The variables of the server and of its clock keep within their types.   *)
(***************************************************************************)
THEOREM TypeCorrect ==
  ASSUME Prompt
  PROVE  Spec => []TypeOK
<1>1. IInv => TypeOK
  BY DEF IInv
<1> QED
  BY <1>1, Invariant, PTL

(***************************************************************************)
(* The refinement: with delays that satisfy Prompt every step of the timed *)
(* server is a step of HopServer or none, no hop is late and no pre-bind   *)
(* aims at the slot it is in, so what HopServerProofs shows of a server    *)
(* that is not late holds of this one.                                     *)
(***************************************************************************)
THEOREM PromptServerImplemented ==
  ASSUME Prompt
  PROVE  Spec => ImplementsPromptServer
<1>1. Init => Srv!Init
  BY DEF Init
<1>2. IInv /\ [Next]_vars => [Srv!Next]_(Srv!vars)
  <2>1. UNCHANGED srvVars => UNCHANGED Srv!vars
    BY DEF srvVars, Srv!vars
  <2> QED
    BY <2>1, RefinesStep
<1>3. IInv => ~late
  BY DEF IInv, Server
<1> QED
  BY <1>1, <1>2, <1>3, Invariant, PTL DEF Spec, ImplementsPromptServer, Srv!Spec

(***************************************************************************)
(* What clients may count on, of the delays alone: HopServerProofs says it *)
(* of a server that is not late, and this one never is.  The sending       *)
(* socket is bound and no closer has it; at most three are bound; in every *)
(* slot the server listens on the address of the slot, and once the hop is *)
(* over sends from it, unless that very address could not be bound.        *)
(***************************************************************************)
UpToDate ==
  /\ Cardinality(open) <= 3
  /\ Srv!Serving =>
       /\ current \in open \ retiring
       /\ slot \in missed \/ Srv!Covered
       /\ loop = "wait" /\ waitSlot = slot /\ slot \notin missed =>
            AddrOf[current.slot] = AddrOf[slot]

THEOREM ServerUpToDate ==
  ASSUME Prompt
  PROVE  Spec => []UpToDate
<1>1. Spec => S!Spec
  <2>1. Init => S!Init
    BY DEF Init, Srv!Init, S!Init
  <2>2. IInv /\ [Next]_vars => [S!Next]_(S!vars)
    BY RefinesStep, SameServer
  <2> QED
    BY <2>1, <2>2, Invariant, PTL DEF Spec, S!Spec
<1>2. S!Spec => []S!CurrentListening /\ []S!AtMostThreeOpen
  BY ServerConstants, S!CurrentAlwaysListening, S!NeverMoreThanThree, PTL
<1>3. S!Spec => []S!OutageExplained /\ []S!CurrentFollowsSlot
  <2>1. PrebindEnabled
    BY DEF Prompt
  <2>2. S!Spec => []S!OutageExplained
    BY <2>1, ServerConstants, S!OutagesExplained
  <2>3. S!Spec => []S!CurrentFollowsSlot
    BY <2>1, ServerConstants, S!CurrentSlotFollowed
  <2> QED
    BY <2>2, <2>3, PTL
<1>4. /\ IInv /\ S!CurrentListening /\ S!AtMostThreeOpen
      /\ S!OutageExplained /\ S!CurrentFollowsSlot
      => UpToDate
  <2>1. /\ Srv!Serving <=> S!Serving
        /\ Srv!Covered <=> S!Covered
    BY DEF Srv!Serving, S!Serving, Srv!Booting, S!Booting, Srv!Covered, S!Covered
  <2>2. IInv => ~late /\ life = "open"
    BY DEF IInv, Server
  <2>3. Cardinality(open) = S!Cardinality(open)
    BY DEF Cardinality, S!Cardinality
  <2> QED
    BY <2>1, <2>2, <2>3 DEF UpToDate, S!CurrentListening, S!AtMostThreeOpen,
                      S!OutageExplained, S!CurrentFollowsSlot
<1> QED
  BY <1>1, <1>2, <1>3, <1>4, Invariant, PTL

-----------------------------------------------------------------------------
(* The client's packets.                                                   *)

\* The slots aimed at, by the slot and the offset of the estimated arrival.
LEMMA TargetsOf ==
  ASSUME NEW k \in Int, NEW r \in 0..SlotLen-1
  PROVE  Targets(k * SlotLen + r)
           = {k} \cup (IF SlotLen - r < Threshold THEN {k + 1} ELSE {})
BY Divide DEF Targets

\* A slot has a socket, or its bind has failed.
Accounted(k) == k \in missed \/ \E s \in open : s.slot = k

\* Which slots are accounted for: the current one always, the next one once
\* the hop is over, the one before for CloseDelay, and as long as the current
\* slot has no socket that could have replaced its.
LEMMA SlotsAccounted ==
  ASSUME IInv, slot > 0, Srv!Serving
  PROVE  /\ Accounted(slot)
         /\ ms > HopTime => Accounted(slot + 1)
         /\ ms < CloseDelay \/ slot \in missed => Accounted(slot - 1)
<1>1. /\ S!Running /\ life = "open" /\ loop # "done" /\ loop \notin S!Booting
      /\ loop \in Srv!LoopStates
      /\ waitSlot \in Nat /\ slot \in Nat /\ waitSlot <= slot
      /\ S!Shape /\ S!Ownership /\ S!Order /\ S!Cover /\ Clock /\ Earlier
  BY Given, NowFacts, TypeFacts
     DEF Srv!Serving, Srv!Booting, S!Booting, S!Running, TypeOK, Srv!TypeOK, S!Order
<1>2. current \in open \ retiring /\ (next # NoSock => next \in open)
  BY <1>1 DEF S!Ownership
<1>3. Accounted(slot)
  BY <1>1, <1>2 DEF S!Cover, S!Serves, Accounted
<1>4. ASSUME ms > HopTime PROVE Accounted(slot + 1)
  <2>1. ~LoopBusy
    <3>1. /\ Now = SlotStart + ms /\ SlotStart \in Nat /\ ms \in Nat
      BY Given, NowFacts, Numbers
    <3>2. LoopBusy => Now <= SlotStart + HopTime
      BY <1>1 DEF Clock
    <3> QED
      BY <1>4, <3>1, <3>2, Numbers
  <2>2. loop = "wait" /\ waitSlot = slot
    BY <1>1, <2>1 DEF LoopBusy, Srv!LoopStates, S!Running
  <2> QED
    BY <1>1, <1>2, <2>2 DEF S!Cover, S!NextReady, S!Serves, Accounted
<1>5. ASSUME ms < CloseDelay \/ slot \in missed PROVE Accounted(slot - 1)
  BY <1>1, <1>2, <1>5 DEF Earlier, EarlierOpen, Accounted
<1> QED
  BY <1>3, <1>4, <1>5

LEMMA ArrivalCovered ==
  ASSUME ClientsAccurate, IInv
  PROVE  ArrivalAccepted
<1> SUFFICES ASSUME slot > 0, Srv!Serving, NEW e \in -MaxError..MaxError
             PROVE  \/ Targets(Now + e) \subseteq missed
                    \/ \E s \in open, k \in Targets(Now + e) : AddrOf[s.slot] = AddrOf[k]
  BY DEF ArrivalAccepted
<1> DEFINE d == ms + e
<1>1. /\ slot \in Nat /\ ms \in 0..SlotLen-1 /\ e \in Int /\ d \in Int
      /\ -MaxError <= e /\ e <= MaxError
  BY Given, NowFacts, Numbers
<1>2. Now + e = slot * SlotLen + d
  BY <1>1, Given, NowFacts DEF SlotStart
<1>3. ASSUME \A k \in Targets(Now + e) : Accounted(k)
      PROVE  \/ Targets(Now + e) \subseteq missed
             \/ \E s \in open, k \in Targets(Now + e) : AddrOf[s.slot] = AddrOf[k]
  BY <1>3 DEF Accounted
<1>4. CASE 0 <= d /\ d < SlotLen
  <2>1. Targets(Now + e) = {slot} \cup (IF SlotLen - d < Threshold THEN {slot + 1} ELSE {})
    <3>1. d \in 0..SlotLen-1 /\ slot \in Int
      BY <1>1, <1>4, Numbers
    <3> QED
      BY <1>2, <3>1, TargetsOf
  <2>2. SlotLen - d < Threshold => ms > HopTime
    BY <1>1, Numbers DEF ClientsAccurate
  <2> QED
    BY <1>3, <2>1, <2>2, SlotsAccounted
<1>5. CASE SlotLen <= d
  <2> DEFINE r == d - SlotLen
  <2>1. r \in 0..SlotLen-1 /\ ~(SlotLen - r < Threshold) /\ ms > HopTime
    BY <1>1, <1>5, Numbers DEF ClientsAccurate
  <2>2. (slot + 1) * SlotLen = slot * SlotLen + SlotLen /\ slot * SlotLen \in Int
    BY <1>1, Multiples
  <2>3. Now + e = (slot + 1) * SlotLen + r
    BY <1>1, <1>2, <2>2, Numbers
  <2>4. Targets(Now + e) = {slot + 1}
    BY <1>1, <2>1, <2>3, TargetsOf
  <2> QED
    BY <1>3, <2>1, <2>4, SlotsAccounted
<1>6. CASE d < 0
  <2> DEFINE r == d + SlotLen
             k == slot - 1
  <2>1. r \in 0..SlotLen-1 /\ k \in Int /\ k + 1 = slot
    BY <1>1, <1>6, Numbers DEF ClientsAccurate
  <2>2. (k + 1) * SlotLen = k * SlotLen + SlotLen /\ k * SlotLen \in Int
    BY <2>1, Multiples
  <2>3. Now + e = k * SlotLen + r
    BY <1>1, <1>2, <2>1, <2>2, Numbers
  <2>4. Targets(Now + e) = {k} \cup (IF SlotLen - r < Threshold THEN {slot} ELSE {})
    BY <2>1, <2>3, TargetsOf
  <2>5. CASE SlotLen - r < Threshold
    <3>1. Targets(Now + e) = {k, slot}
      BY <2>4, <2>5
    <3>2. CASE slot \in missed
      BY <1>3, <3>1, <3>2, SlotsAccounted
    <3>3. CASE slot \notin missed
      BY <3>1, <3>3, SlotsAccounted DEF Accounted
    <3> QED
      BY <3>2, <3>3
  <2>6. CASE ~(SlotLen - r < Threshold)
    <3>1. ms < CloseDelay
      BY <1>1, <2>6, Numbers DEF ClientsAccurate
    <3> QED
      BY <1>3, <2>4, <2>6, <3>1, SlotsAccounted
  <2> QED
    BY <2>5, <2>6
<1> QED
  BY <1>1, <1>4, <1>5, <1>6, Numbers

(***************************************************************************)
(* How wrong a client may be: an error below the double-send threshold and *)
(* the close delay together, which with the time of a hop fits into the    *)
(* slot, always finds a bound socket, unless no address it was sent to     *)
(* could be bound.                                                         *)
(***************************************************************************)
THEOREM ArrivalsAccepted ==
  ASSUME Prompt, ClientsAccurate
  PROVE  Spec => []ArrivalAccepted
<1>1. IInv => ArrivalAccepted
  BY ArrivalCovered
<1> QED
  BY <1>1, Invariant, PTL

-----------------------------------------------------------------------------
(* The server's writes.                                                    *)

\* A write ends before its socket is closed: the closer waits longer.
LEMMA WritesStep ==
  ASSUME Prompt, WritesShort, IInv, Writes, [Next]_vars
  PROVE  Writes'
<1>0. /\ TypeOK /\ TypeOK' /\ Now \in Nat /\ S!Ownership
      /\ \A s \in retiring : closeAt[s] \in Nat
  <2>1. TypeOK'
    BY NextInv DEF IInv
  <2> QED
    BY <2>1, Given, NowFacts, TypeFacts
<1> DEFINE Safe(x, opened, ret, at, time) ==
      /\ x.sock \in opened /\ x.since <= time /\ time <= x.since + WriteTime
      /\ x.sock \in ret => x.since + CloseDelay <= at[x.sock]
<1>1. Writes <=> ~writeFailed /\ \A w \in Writers : writing[w] # Idle =>
                   Safe(writing[w], open, retiring, closeAt, Now)
  BY DEF Writes
<1>2. Writes' <=> ~writeFailed' /\ \A w \in Writers : writing'[w] # Idle =>
                   Safe(writing'[w], open', retiring', closeAt', Now')
  BY DEF Writes, Idle
<1>3. \A w \in Writers : writing[w].since \in Nat
  <2>1. Times \subseteq Nat
    BY DEF Times
  <2> QED
    BY <1>0, <2>1 DEF TypeOK
<1> HIDE DEF Safe
<1>4. CASE Advance
  <2>1. UNCHANGED <<open, retiring, closeAt, writing, writeFailed>>
    BY <1>4 DEF Advance, writeVars
  <2>2. Now' = Now + 1
    BY <1>0, <1>4, TimePasses
  <2>3. \A w \in Writers : writing[w] # Idle => Now < writing[w].since + WriteTime
    BY <1>4 DEF Advance, InTime
  <2> QED
    BY <1>0, <1>1, <1>2, <1>3, <2>1, <2>2, <2>3, Numbers DEF Safe
<1>5. CASE Listen \/ PrebindFirst \/ HopReadsClock \/ HopBind \/ OtherHopSteps
  <2>1. /\ open \subseteq open' /\ UNCHANGED <<retiring, closeAt, writing, writeFailed>>
        /\ UNCHANGED <<slot, ms>>
    BY <1>5 DEF Listen, Srv!Listen, PrebindFirst, Srv!PrebindFirst, HopReadsClock,
         Srv!HopReadsClock, HopBind, Srv!HopBind, OtherHopSteps, Srv!StartLoop, Srv!TimerFires,
         Srv!HopSwitch, Srv!HopInstall, Srv!Binds, Srv!BindFails, srvVars, writeVars,
         timeVars
  <2> QED
    BY <1>1, <1>2, <2>1, SameTime DEF Safe
<1>6. CASE HopRetire
  <2>1. /\ UNCHANGED <<open, writing, writeFailed, slot, ms>>
        /\ closeAt' = [s \in retiring' |->
                         IF s \in retiring THEN closeAt[s] ELSE Now + CloseDelay]
    BY <1>6 DEF HopRetire, Srv!HopRetire, Srv!Retire, writeVars
  <2> SUFFICES ASSUME NEW w \in Writers, writing[w] # Idle
               PROVE  Safe(writing[w], open', retiring', closeAt', Now')
    BY <1>1, <1>2, <2>1
  <2>2. Safe(writing[w], open, retiring, closeAt, Now) /\ writing[w].since \in Nat
    BY <1>1, <1>3
  <2>3. CASE writing[w].sock \in retiring
    BY <2>1, <2>2, <2>3, SameTime DEF Safe
  <2>4. CASE writing[w].sock \notin retiring
    <3>1. writing[w].sock \in retiring' => closeAt'[writing[w].sock] = Now + CloseDelay
      BY <2>1, <2>4
    <3>2. writing[w].since + CloseDelay <= Now + CloseDelay
      BY <1>0, <2>2, Numbers DEF Safe
    <3> QED
      BY <2>1, <2>2, <3>1, <3>2, SameTime DEF Safe
  <2> QED
    BY <2>3, <2>4
<1>7. ASSUME NEW s \in retiring, CloseRetired(s) PROVE Writes'
  <2>1. /\ UNCHANGED <<writing, writeFailed, slot, ms>>
        /\ Now >= closeAt[s] /\ closeAt[s] \in Nat
        /\ retiring' = retiring \ {s} /\ open' = open \ {s}
        /\ closeAt' = [r \in retiring' |-> closeAt[r]]
    BY <1>0, <1>7 DEF CloseRetired, Srv!CloseRetired, writeVars
  <2> SUFFICES ASSUME NEW w \in Writers, writing[w] # Idle
               PROVE  Safe(writing[w], open', retiring', closeAt', Now')
    BY <1>1, <1>2, <2>1
  <2>2. Safe(writing[w], open, retiring, closeAt, Now) /\ writing[w].since \in Nat
    BY <1>1, <1>3
  <2>3. writing[w].sock # s
    BY <1>0, <2>1, <2>2, Numbers DEF Safe, WritesShort
  <2> QED
    BY <2>1, <2>2, <2>3, SameTime DEF Safe
<1>8. ASSUME NEW w \in Writers, WriteBegin(w) PROVE Writes'
  <2>1. /\ UNCHANGED <<open, retiring, closeAt, writeFailed, slot, ms>>
        /\ writing' = [writing EXCEPT ![w] = [sock |-> current, since |-> Now]]
        /\ Srv!Serving
    BY <1>8 DEF WriteBegin, srvVars, timeVars
  <2>2. current \in open \ retiring
    BY <1>0, <2>1 DEF Srv!Serving, Srv!Booting, S!Ownership, S!Running
  <2>3. Safe([sock |-> current, since |-> Now], open, retiring, closeAt, Now)
    BY <1>0, <2>2, Numbers DEF Safe
  <2>4. \A v \in Writers : writing'[v] = IF v = w THEN [sock |-> current, since |-> Now]
                                                  ELSE writing[v]
    BY <1>0, <2>1 DEF TypeOK
  <2>5. Now' = Now
    BY <2>1, SameTime
  <2> QED
    BY <1>1, <1>2, <2>1, <2>3, <2>4, <2>5
<1>9. ASSUME NEW w \in Writers, WriteEnd(w) PROVE Writes'
  <2>1. /\ UNCHANGED <<open, retiring, closeAt, slot, ms>>
        /\ writing[w] # Idle
        /\ writing' = [writing EXCEPT ![w] = Idle]
    BY <1>9 DEF WriteEnd, srvVars, timeVars
  <2>2. writing[w].sock \in open
    BY <1>1, <2>1 DEF Safe
  <2>3. ~writeFailed'
    BY <1>1, <1>9, <2>2, Zenon DEF WriteEnd
  <2>4. \A v \in Writers : writing'[v] = IF v = w THEN Idle ELSE writing[v]
    BY <1>0, <2>1 DEF TypeOK
  <2>5. Now' = Now
    BY <2>1, SameTime
  <2> QED
    BY <1>1, <1>2, <2>1, <2>3, <2>4, <2>5
<1>10. CASE TimeUp \/ UNCHANGED vars
  <2>1. UNCHANGED <<open, retiring, closeAt, writing, writeFailed, slot, ms>>
    BY <1>10 DEF TimeUp, vars, srvVars, timeVars, writeVars
  <2> QED
    BY <1>1, <1>2, <2>1, SameTime
<1> QED
  BY <1>4, <1>5, <1>6, <1>7, <1>8, <1>9, <1>10 DEF Next

(***************************************************************************)
(* No WriteTo finds its socket closed under it, when the close delay is    *)
(* longer than a write: hops and closers may come between its two halves.  *)
(***************************************************************************)
THEOREM WritesAlwaysSucceed ==
  ASSUME Prompt, WritesShort
  PROVE  Spec => []WritesSucceed
<1>1. Init => IInv /\ Writes
  BY InitialInv
<1>2. IInv /\ Writes /\ [Next]_vars => IInv' /\ Writes'
  BY NextInv, WritesStep
<1>3. Writes => WritesSucceed
  BY DEF Writes, WritesSucceed
<1> QED
  BY <1>1, <1>2, <1>3, PTL DEF Spec

=============================================================================
