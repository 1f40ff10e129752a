----------------------------- MODULE HopServer -----------------------------
(***************************************************************************)
(* The listening side of a server MagicConn (pkg/magic/conn.go): the       *)
(* constructor that opens the first sockets, the hop loop that promotes    *)
(* the pre-bound socket at every slot boundary and pre-binds another, the  *)
(* delayed closers of retired sockets, and Close.  They run as separate    *)
(* goroutines; every action below is one critical section, one system call *)
(* or one local step of one of them.                                       *)
(*                                                                         *)
(* The clock is kept at the granularity of the time slots that             *)
(* GetAddressByTime divides it into; HopTiming refines it to milliseconds. *)
(***************************************************************************)
EXTENDS Naturals, FiniteSets

CONSTANTS
  MaxSlot,         \* bound: the clock stops at this slot
  AddrOf,          \* AddrOf[k]: the address every peer computes for slot k
  PrebindEnabled,  \* magic.ServerPrebindNextPortEnabled
  BindMayFail,     \* whether ListenPacket may fail on an address we do not hold
  NoSock           \* a nil net.PacketConn

(***************************************************************************)
(* A socket is named by the slot whose address it listens on and by the    *)
(* slot in which it was bound: an address can be bound again later.        *)
(***************************************************************************)
Socket == [slot : 0..MaxSlot+1, at : 0..MaxSlot]

ASSUME HopConstants ==
  /\ MaxSlot \in Nat
  /\ PrebindEnabled \in BOOLEAN
  /\ BindMayFail \in BOOLEAN
  /\ NoSock \notin Socket

VARIABLES
  slot,      \* the current time slot
  open,      \* the sockets of this connection that the system holds bound
  current,   \* c.currentConn
  next,      \* c.nextConn
  prev,      \* hop's local prevConn
  fresh,     \* hop's local nextL: bound, not yet stored in c.nextConn
  retiring,  \* sockets a delayed closer goroutine is about to close
  loop,      \* where NewServerConn, and then serverHoppingLoop, is
  waitSlot,  \* the slot in which GetNextHopDelay was last evaluated
  base,      \* the slot of the time the pre-bind in progress counts from
  life,      \* how far Close has come
  missed,    \* history: the slots whose address could not be bound ahead
  late       \* history: a goroutine has been too slow, see Tick and Aim

vars == <<slot, open, current, next, prev, fresh, retiring, loop, waitSlot,
          base, life, missed, late>>

Booting == {"listen", "prebind", "start"}
Hopping == {"switch", "clock", "bind", "install", "retire"}
LoopStates == Booting \cup Hopping \cup {"wait", "done", "failed"}

TypeOK ==
  /\ slot \in 0..MaxSlot
  /\ open \subseteq Socket
  /\ current \in Socket \cup {NoSock}
  /\ next \in Socket \cup {NoSock}
  /\ prev \in Socket \cup {NoSock}
  /\ fresh \in Socket \cup {NoSock}
  /\ retiring \subseteq Socket
  /\ loop \in LoopStates
  /\ waitSlot \in 0..MaxSlot
  /\ base \in 0..MaxSlot
  /\ life \in {"open", "cancelled", "closed"}
  /\ missed \subseteq 0..MaxSlot+1
  /\ late \in BOOLEAN

Init ==
  /\ slot = 0
  /\ open = {}
  /\ current = NoSock
  /\ next = NoSock
  /\ prev = NoSock
  /\ fresh = NoSock
  /\ retiring = {}
  /\ loop = "listen"
  /\ waitSlot = 0
  /\ base = 0
  /\ life = "open"
  /\ missed = {}
  /\ late = FALSE

-----------------------------------------------------------------------------
(* net.ListenPacket: the address must be free, and the system willing.     *)

HeldByUs(k) == \E s \in open : AddrOf[s.slot] = AddrOf[k]

Binds(s) ==
  /\ ~HeldByUs(s.slot)
  /\ open' = open \cup {s}

BindFails(k) ==
  /\ HeldByUs(k) \/ BindMayFail
  /\ missed' = missed \cup {k}
  /\ UNCHANGED open

\* Mutant of Aims: the target is a slot too far.
AimTooFar == {slot + 2}

(***************************************************************************)
(* The slots that base.Add(GetNextHopDelay() + 1ms) may fall in, where the *)
(* base was read in slot "base", and GetNextHopDelay reads the clock again,*)
(* now or at any time since then.  The delay is the rest of the slot of    *)
(* the second reading: added to the first it leads at most to the end of   *)
(* the slot after base, or with the millisecond into the one after that,   *)
(* never past the slot after the second reading, but it may lead no        *)
(* further than base.  (HopTiming computes the target and HopTimingProofs  *)
(* shows that it is one of these, however far apart the readings.)         *)
(***************************************************************************)
Aims == {k \in base..base+2 : k <= slot + 1}

\* A pre-bind that does not aim at a later slot counts as late.
Aim(k) == late' = IF k > slot THEN late ELSE TRUE

-----------------------------------------------------------------------------
(* NewServerConn.  Its "now" is the time of the address listened on and    *)
(* the base of the first pre-bind.  A failing first ListenPacket returns   *)
(* the error.                                                              *)

Listen ==
  LET s == [slot |-> base, at |-> slot] IN
  /\ loop = "listen"
  /\ \/ /\ Binds(s)
        /\ current' = s
        /\ loop' = IF PrebindEnabled THEN "prebind" ELSE "start"
        /\ UNCHANGED missed
     \/ /\ BindFails(base)
        /\ loop' = "failed"
        /\ UNCHANGED current
  /\ UNCHANGED <<slot, next, prev, fresh, retiring, waitSlot, base, life, late>>

\* Nobody else has a reference to the connection yet: binding the next socket
\* and storing it is one step.
PrebindFirst(k) ==
  LET s == [slot |-> k, at |-> slot] IN
  /\ loop = "prebind"
  /\ \/ /\ Binds(s)
        /\ next' = s
        /\ UNCHANGED missed
     \/ /\ BindFails(k)
        /\ UNCHANGED next
  /\ loop' = "start"
  /\ Aim(k)
  /\ UNCHANGED <<slot, current, prev, fresh, retiring, waitSlot, base, life>>

StartLoop ==
  /\ loop = "start"
  /\ loop' = "wait"
  /\ waitSlot' = slot
  /\ UNCHANGED <<slot, open, current, next, prev, fresh, retiring, base, life,
                 missed, late>>

-----------------------------------------------------------------------------
(* serverHoppingLoop: the select between the boundary timer and ctx.Done.  *)
(* When both are ready either may be taken.                                *)

TimerFires ==
  /\ loop = "wait"
  /\ slot > waitSlot
  /\ loop' = "switch"
  /\ UNCHANGED <<slot, open, current, next, prev, fresh, retiring, waitSlot,
                 base, life, missed, late>>

\* Mutant of LoopExits: no case for ctx.Done.
LoopRunsOn == FALSE

LoopExits ==
  /\ loop = "wait"
  /\ life # "open"
  /\ loop' = "done"
  /\ UNCHANGED <<slot, open, current, next, prev, fresh, retiring, waitSlot,
                 base, life, missed, late>>

(* hop: promote the pre-bound socket (critical section), read the clock,   *)
(* read it again and bind the next one (system call), store it (critical   *)
(* section), hand the previous socket to a closer and go back to the       *)
(* select.  Any time may pass between two of these steps.                  *)

HopSwitch ==
  /\ loop = "switch"
  /\ prev' = current
  /\ current' = IF next # NoSock THEN next ELSE current
  /\ next' = NoSock
  /\ loop' = IF PrebindEnabled THEN "clock" ELSE "retire"
  /\ UNCHANGED <<slot, open, fresh, retiring, waitSlot, base, life, missed, late>>

\* Mutant of HopReadsClock: the pre-bind counts from an earlier time.
HopReusesBase ==
  /\ loop = "clock"
  /\ loop' = "bind"
  /\ UNCHANGED <<slot, open, current, next, prev, fresh, retiring, waitSlot,
                 base, life, missed, late>>

HopReadsClock ==
  /\ loop = "clock"
  /\ base' = slot
  /\ loop' = "bind"
  /\ UNCHANGED <<slot, open, current, next, prev, fresh, retiring, waitSlot,
                 life, missed, late>>

HopBind(k) ==
  LET s == [slot |-> k, at |-> slot] IN
  /\ loop = "bind"
  /\ \/ /\ Binds(s)
        /\ fresh' = s
        /\ loop' = "install"
        /\ UNCHANGED missed
     \/ /\ BindFails(k)
        /\ loop' = "retire"
        /\ UNCHANGED fresh
  /\ Aim(k)
  /\ UNCHANGED <<slot, current, next, prev, retiring, waitSlot, base, life>>

\* Mutant of HopInstall: the new socket is not stored.
HopForgets ==
  /\ loop = "install"
  /\ fresh' = NoSock
  /\ loop' = "retire"
  /\ UNCHANGED <<slot, open, current, next, prev, retiring, waitSlot, base,
                 life, missed, late>>

HopInstall ==
  /\ loop = "install"
  /\ next' = fresh
  /\ fresh' = NoSock
  /\ loop' = "retire"
  /\ UNCHANGED <<slot, open, current, prev, retiring, waitSlot, base, life,
                 missed, late>>

\* What HopRetire does once it has chosen the sockets to close.
Retire(socks) ==
  /\ loop = "retire"
  /\ retiring' = retiring \cup socks
  /\ prev' = NoSock
  /\ loop' = "wait"
  /\ waitSlot' = slot
  /\ UNCHANGED <<slot, open, current, next, fresh, base, life, missed, late>>

\* Mutants of HopRetire: no socket is closed, the wrong one is, or the old one
\* is although it is still in use.
RetireNothing == Retire({})

RetireCurrent == Retire(IF prev # current THEN {current} ELSE {})

RetireAlways == Retire({prev})

\* Only this goroutine assigns currentConn, so hop's newCurrent is current.
HopRetire == Retire(IF prev # NoSock /\ prev # current THEN {prev} ELSE {})

\* The goroutine that sleeps ServerOldPortCloseDelayMs and closes the socket.
CloseRetired(s) ==
  /\ s \in retiring
  /\ retiring' = retiring \ {s}
  /\ open' = open \ {s}
  /\ UNCHANGED <<slot, current, next, prev, fresh, loop, waitSlot, base, life,
                 missed, late>>

-----------------------------------------------------------------------------
(* Close: cancel the context, then close both sockets under the lock.      *)

CloseCancel ==
  /\ life = "open"
  /\ loop \notin Booting \cup {"failed"}
  /\ life' = "cancelled"
  /\ UNCHANGED <<slot, open, current, next, prev, fresh, retiring, loop,
                 waitSlot, base, missed, late>>

\* Mutant of CloseSockets: nextConn is forgotten.
CloseOnlyCurrent ==
  /\ life = "cancelled"
  /\ life' = "closed"
  /\ open' = open \ {current}
  /\ UNCHANGED <<slot, current, next, prev, fresh, retiring, loop, waitSlot,
                 base, missed, late>>

CloseSockets ==
  /\ life = "cancelled"
  /\ life' = "closed"
  /\ open' = open \ {current, next}
  /\ UNCHANGED <<slot, current, next, prev, fresh, retiring, loop, waitSlot,
                 base, missed, late>>

-----------------------------------------------------------------------------
(***************************************************************************)
(* The passing of time.  A hop and the close delay are shorter than        *)
(* SlotDuration: normally every goroutine that was made runnable in a slot *)
(* is done with its work when the slot ends.  When one is not, it is late. *)
(***************************************************************************)
Quiet ==
  /\ retiring = {}
  /\ \/ loop \in {"done", "failed"}
     \/ loop = "wait" /\ waitSlot = slot /\ life = "open"

Tick ==
  /\ slot < MaxSlot
  /\ slot' = slot + 1
  /\ late' = IF Quiet THEN late ELSE TRUE
  /\ UNCHANGED <<open, current, next, prev, fresh, retiring, loop, waitSlot,
                 base, life, missed>>

Stopped ==
  /\ loop \in {"done", "failed"}
  /\ life = "closed" \/ loop = "failed"
  /\ retiring = {}
  /\ slot = MaxSlot
  /\ UNCHANGED vars

HopLoop ==
  \/ Listen
  \/ \E k \in Aims : PrebindFirst(k) \/ HopBind(k)
  \/ StartLoop
  \/ TimerFires
  \/ LoopExits
  \/ HopSwitch
  \/ HopReadsClock
  \/ HopInstall
  \/ HopRetire

Closers == \E s \in retiring : CloseRetired(s)

Next == HopLoop \/ Closers \/ CloseCancel \/ CloseSockets \/ Tick \/ Stopped

Spec == Init /\ [][Next]_vars

\* The runtime schedules every goroutine that can run; nobody has to call
\* Close, but once called it runs to its end.
Fairness == WF_vars(HopLoop) /\ WF_vars(Closers) /\ WF_vars(CloseSockets)

FairSpec == Spec /\ Fairness

-----------------------------------------------------------------------------
(* Properties.                                                             *)

Serving == loop \notin Booting \cup {"failed"} /\ life # "closed"

(***************************************************************************)
(* WriteTo takes c.currentConn whenever QUIC has a packet: until Close     *)
(* closes it, that socket is bound and no closer goroutine holds it, in    *)
(* whatever order hops, failed pre-binds, closers and Close interleave.    *)
(***************************************************************************)
CurrentListening == Serving => current \in open \ retiring

(***************************************************************************)
(* No socket is forgotten while the connection serves: each one the system *)
(* holds is the current or the pre-bound one, is in the hands of the hop   *)
(* in progress, or waits for its closer.                                   *)
(***************************************************************************)
SocketsOwned ==
  Serving => open \subseteq {current, next, fresh, prev} \cup retiring

(***************************************************************************)
(* "Three ports at a time" (the comment in hop): previous, current and     *)
(* next are the most a connection whose goroutines keep up ever holds.     *)
(***************************************************************************)
AtMostThreeOpen == ~late => Cardinality(open) <= 3

(***************************************************************************)
(* The comment on SlotDuration, "the time window of the address hop": once *)
(* the hop of a slot is over, the server sends from and listens on the     *)
(* address of that slot, unless that very address could not be bound.      *)
(***************************************************************************)
CurrentFollowsSlot ==
  /\ Serving /\ ~late
  /\ loop = "wait" /\ waitSlot = slot /\ slot \notin missed
  => AddrOf[current.slot] = AddrOf[slot]

(***************************************************************************)
(* A client computes the address of the slot and sends there.  A slot in   *)
(* which nothing listens on that address is a slot whose own pre-bind      *)
(* failed: one failure costs one slot, and the next hop repairs it.        *)
(***************************************************************************)
Covered == \E s \in open : AddrOf[s.slot] = AddrOf[slot]

OutageExplained ==
  Serving /\ ~late /\ life = "open" /\ ~Covered => slot \in missed

(***************************************************************************)
(* Hopping never goes back: whenever the live server moves to another      *)
(* socket, it moves to the address of a later slot, although hop may aim   *)
(* at a slot that is over, when any number of slots has passed between its *)
(* two readings of the clock.  The first reading is never before the slot  *)
(* of the current socket, and that slot's address is still held.           *)
(***************************************************************************)
HopsForward ==
  [][ /\ current \in Socket
      /\ current' # current
      /\ life = "open"
      => current'.slot > current.slot ]_vars

(***************************************************************************)
(* After Close, when the loop has ended and the closers have run, at most  *)
(* one socket of the connection is still bound: a hop that was already     *)
(* under way binds one that nobody will close, but the loop then ends.  A  *)
(* loop so late that its timer is ready again may hop once more, but what  *)
(* it then retires gets its closer: two sockets remain, however late.      *)
(***************************************************************************)
AllDone == life = "closed" /\ loop = "done" /\ retiring = {}

OrphanBound == AllDone => Cardinality(open) <= IF late THEN 2 ELSE 1

(***************************************************************************)
(* "Use a context to manage the life cycle, to prevent leaks" (the comment *)
(* in NewServerConn): nothing stays bound once everything has ended.       *)
(***************************************************************************)
NothingLeftBound == AllDone => open = {}

(***************************************************************************)
(* Close is heard: once it has cancelled the context the hop loop ends,    *)
(* whatever it was doing, and every retired socket is closed.              *)
(***************************************************************************)
CloseQuiesces == life = "cancelled" ~> AllDone

=============================================================================
