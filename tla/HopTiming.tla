----------------------------- MODULE HopTiming -----------------------------
(***************************************************************************)
(* The hop protocol in milliseconds: the server of HopServer with a clock, *)
(* the time its goroutines take, the close delay of retired sockets, the   *)
(* WriteTo calls in progress, and the client's choice of the addresses it  *)
(* sends a packet to (clientWrite).  Nothing is exchanged but packets: the *)
(* two ends meet because both derive the address from the time.            *)
(***************************************************************************)
EXTENDS Integers, FiniteSets

CONSTANTS
  MaxSlot, AddrOf, PrebindEnabled, BindMayFail, NoSock,  \* as in HopServer
  SlotLen,     \* SlotDuration
  CloseDelay,  \* ServerOldPortCloseDelayMs
  Threshold,   \* ClientDoubleSendEdgeThresholdMs
  StartMs,     \* the offsets in slot 0 at which NewServerConn may be called
  HopTime,     \* a goroutine that can run has done its work within this time
  ReadGap,     \* most time from the first clock reading of a pre-bind to its end
  WriteTime,   \* most time WriteTo takes from reading currentConn to its end
  MaxError,    \* most the client's estimate of an arrival is wrong, either way
  Writers,     \* goroutines of QUIC that call WriteTo
  Unread       \* readAt when no reading is pending

VARIABLES
  slot, open, current, next, prev, fresh, retiring, loop, waitSlot, base,
  life, missed, late,  \* all as in HopServer
  ms,          \* offset of the clock in the slot
  readAt,      \* the time of the clock reading that base is the slot of
  deadline,    \* when the constructor, or the hop of this slot, is over
  closeAt,     \* when the closer of each retiring socket wakes up
  writing,     \* for each writer, the socket it took and when, if any
  writeFailed  \* history: a WriteTo found its socket closed

Srv == INSTANCE HopServer

srvVars == <<slot, open, current, next, prev, fresh, retiring, loop, waitSlot,
             base, life, missed, late>>
timeVars == <<ms, readAt, deadline, closeAt>>
writeVars == <<writing, writeFailed>>
vars == <<srvVars, timeVars, writeVars>>

ASSUME TimingConstants ==
  /\ MaxSlot \in Nat
  /\ {PrebindEnabled, BindMayFail} \subseteq BOOLEAN
  /\ NoSock \notin Srv!Socket
  /\ {SlotLen, CloseDelay, Threshold, HopTime, ReadGap, WriteTime, MaxError}
       \subseteq Nat
  /\ SlotLen > 0
  /\ StartMs \subseteq 0..SlotLen-1
  /\ Unread \notin Nat

Now == slot * SlotLen + ms
Idle == [sock |-> NoSock, since |-> 0]
Times == 0..(MaxSlot+1) * SlotLen + CloseDelay

TypeOK ==
  /\ Srv!TypeOK
  /\ ms \in 0..SlotLen-1
  /\ readAt \in Times \cup {Unread}
  /\ deadline \in Nat
  /\ closeAt \in [retiring -> Times]
  /\ writing \in [Writers -> [sock : Srv!Socket \cup {NoSock}, since : Times]]
  /\ writeFailed \in BOOLEAN

Init ==
  /\ Srv!Init
  /\ ms \in StartMs
  /\ readAt = Now
  /\ deadline = ms + HopTime
  /\ closeAt = [s \in {} |-> 0]
  /\ writing = [w \in Writers |-> Idle]
  /\ writeFailed = FALSE

-----------------------------------------------------------------------------
(* Time.                                                                   *)

LoopBusy ==
  \/ loop \in Srv!Booting \cup Srv!Hopping
  \/ loop = "wait" /\ slot > waitSlot

\* No goroutine is later than assumed when the clock moves on.
InTime ==
  /\ LoopBusy => Now < deadline
  /\ readAt # Unread => Now < readAt + ReadGap
  /\ \A s \in retiring : Now < closeAt[s] + HopTime
  /\ \A w \in Writers : writing[w] # Idle => Now < writing[w].since + WriteTime

Advance ==
  /\ InTime
  /\ \/ /\ ms < SlotLen-1
        /\ ms' = ms + 1
        /\ UNCHANGED <<slot, late, deadline>>
     \/ /\ ms = SlotLen-1
        /\ ms' = 0
        /\ Srv!Tick
        /\ deadline' = IF loop = "wait" THEN slot' * SlotLen + HopTime
                                        ELSE deadline
  /\ UNCHANGED <<open, current, next, prev, fresh, retiring, loop, waitSlot,
                 base, life, missed, readAt, closeAt, writeVars>>

TimeUp ==
  /\ slot = MaxSlot
  /\ ms = SlotLen-1
  /\ UNCHANGED vars

-----------------------------------------------------------------------------
(* The server.  Both pre-binds count from a base time, NewServerConn's now *)
(* and hop's time.Now; GetNextHopDelay reads the clock again: ms is its    *)
(* elapsed, SlotLen - ms the delay.                                        *)

\* Mutant of GetNextHopDelay: a millisecond short.
GetNextHopDelayShort == SlotLen - 1 - ms

GetNextHopDelay == SlotLen - ms

PrebindSlot == (readAt + GetNextHopDelay + 1) \div SlotLen

Listen ==
  /\ Srv!Listen
  /\ readAt' = IF loop' = "prebind" THEN readAt ELSE Unread
  /\ UNCHANGED <<ms, deadline, closeAt, writeVars>>

PrebindFirst ==
  /\ Srv!PrebindFirst(PrebindSlot)
  /\ readAt' = Unread
  /\ UNCHANGED <<ms, deadline, closeAt, writeVars>>

HopReadsClock ==
  /\ Srv!HopReadsClock
  /\ readAt' = Now
  /\ UNCHANGED <<ms, deadline, closeAt, writeVars>>

HopBind ==
  /\ Srv!HopBind(PrebindSlot)
  /\ readAt' = Unread
  /\ UNCHANGED <<ms, deadline, closeAt, writeVars>>

\* Mutant of HopRetire: the old socket is closed at once.
HopRetireNoDelay ==
  /\ Srv!HopRetire
  /\ closeAt' = [s \in retiring' |-> IF s \in retiring THEN closeAt[s] ELSE Now]
  /\ UNCHANGED <<ms, readAt, deadline, writeVars>>

HopRetire ==
  /\ Srv!HopRetire
  /\ closeAt' = [s \in retiring' |->
                   IF s \in retiring THEN closeAt[s] ELSE Now + CloseDelay]
  /\ UNCHANGED <<ms, readAt, deadline, writeVars>>

CloseRetired(s) ==
  /\ s \in retiring
  /\ Now >= closeAt[s]
  /\ Srv!CloseRetired(s)
  /\ closeAt' = [r \in retiring' |-> closeAt[r]]
  /\ UNCHANGED <<ms, readAt, deadline, writeVars>>

OtherHopSteps ==
  /\ Srv!StartLoop \/ Srv!TimerFires \/ Srv!HopSwitch \/ Srv!HopInstall
  /\ UNCHANGED <<timeVars, writeVars>>

\* WriteTo: the socket is read under the lock and used after releasing it.
WriteBegin(w) ==
  /\ writing[w] = Idle
  /\ Srv!Serving
  /\ writing' = [writing EXCEPT ![w] = [sock |-> current, since |-> Now]]
  /\ UNCHANGED <<srvVars, timeVars, writeFailed>>

WriteEnd(w) ==
  /\ writing[w] # Idle
  /\ writeFailed' = (writeFailed \/ writing[w].sock \notin open)
  /\ writing' = [writing EXCEPT ![w] = Idle]
  /\ UNCHANGED <<srvVars, timeVars>>

Next ==
  \/ Advance
  \/ Listen \/ PrebindFirst \/ HopReadsClock \/ HopBind \/ HopRetire
  \/ OtherHopSteps
  \/ \E s \in retiring : CloseRetired(s)
  \/ \E w \in Writers : WriteBegin(w) \/ WriteEnd(w)
  \/ TimeUp

Spec == Init /\ [][Next]_vars

-----------------------------------------------------------------------------
\* Mutant of Targets: the second packet is sent early in the slot.
TargetsEarly(arrival) ==
  LET k == arrival \div SlotLen
      r == arrival % SlotLen
  IN  {k} \cup (IF r < Threshold THEN {k + 1} ELSE {})

(***************************************************************************)
(* clientWrite: the slots whose addresses a packet is sent to, from the    *)
(* estimated time of its arrival.  Within Threshold of the end of a slot   *)
(* the packet goes to the next slot's address too.                         *)
(***************************************************************************)
Targets(arrival) ==
  LET k == arrival \div SlotLen
      r == arrival % SlotLen
  IN  {k} \cup (IF SlotLen - r < Threshold THEN {k + 1} ELSE {})

(***************************************************************************)
(* What the delays must satisfy: for the server to keep up, for a write to *)
(* be over before its socket is closed, and for a client to be understood  *)
(* although its estimate of the arrival is wrong.                          *)
(***************************************************************************)
Prompt ==
  /\ PrebindEnabled
  /\ ReadGap <= 1 /\ 1 < SlotLen
  /\ HopTime + CloseDelay + HopTime < SlotLen
  /\ \A m \in StartMs : m + HopTime < SlotLen

WritesShort == WriteTime < CloseDelay

ClientsAccurate ==
  /\ MaxError < Threshold + CloseDelay
  /\ MaxError + HopTime < SlotLen
  /\ MaxError + Threshold + HopTime <= SlotLen

(***************************************************************************)
(* A packet that arrives now, sent for a time at most MaxError away from   *)
(* now, finds a bound socket at one of the addresses it was sent to: the   *)
(* pre-bound socket serves early clients, the close delay and the double   *)
(* send together serve late ones, while sockets come and go.  A failed     *)
(* pre-bind costs only the packets all of whose addresses could not be     *)
(* bound, never one aimed at a neighbouring slot.  (Before the first hop   *)
(* there is no earlier socket for estimates before the start.)             *)
(***************************************************************************)
ArrivalAccepted ==
  slot > 0 /\ Srv!Serving =>
    \A e \in -MaxError..MaxError :
      \/ Targets(Now + e) \subseteq missed
      \/ \E s \in open, k \in Targets(Now + e) : AddrOf[s.slot] = AddrOf[k]

(***************************************************************************)
(* A WriteTo that took currentConn just before a hop still finds it bound: *)
(* closing it is delayed past the end of the write.  QUIC gives a          *)
(* connection up when a write fails.                                       *)
(***************************************************************************)
WritesSucceed == ~writeFailed

(***************************************************************************)
(* With these delays the server is that of HopServer and never late: every *)
(* goroutine finishes within the slot, every pre-bind aims at the next     *)
(* slot, and what HopServer promises of a server that is not late holds.   *)
(* (It is the server before Close, which is HopServer's alone.)            *)
(***************************************************************************)
ImplementsPromptServer == Srv!Spec /\ []~late

=============================================================================
