------------------------------ MODULE RecvPath ------------------------------
(***************************************************************************)
(* The receiving side of a MagicConn (conn.go): a packetPump goroutine for *)
(* every socket, the bounded queue they share, and ReadFrom, which QUIC's  *)
(* read loop calls until it returns an error.  Sockets come and go as      *)
(* HopServer says, for a server; a client has one.  What opens and closes  *)
(* them is the environment here, free to do so at any time.                *)
(*                                                                         *)
(* The packets of a socket are numbered in the order in which they come.   *)
(***************************************************************************)
EXTENDS Naturals, Sequences

CONSTANTS
  Sockets,   \* the sockets of the connection, over its life
  QueueLen,  \* the capacity of recvQueue: 2048
  MaxGiven   \* bound: packets that come to a socket

ASSUME RecvConstants == QueueLen \in Nat \ {0} /\ MaxGiven \in Nat

VARIABLES
  sock,       \* each socket: not there yet, open or closed
  given,      \* how many packets the network has given each socket
  pump,       \* what the packetPump of each socket does
  inHand,     \* the last packet each pump has read
  recvQueue,  \* c.recvQueue
  cancelled,  \* whether c.ctx is cancelled
  reader,     \* QUIC's read loop: running, or ended by an error
  got,        \* history: the last packet of each socket handed to QUIC
  handed,     \* history: how many of each have been
  broken      \* history: a read failed other than by closing its socket

vars == <<sock, given, pump, inHand, recvQueue, cancelled, reader, got, handed,
          broken>>

\* A packet{data, addr} is its socket and number, a packet{err} has number 0.
ErrorNo == 0
Item(s, n) == [sock |-> s, no |-> n]

TypeOK ==
  /\ sock \in [Sockets -> {"none", "open", "closed"}]
  /\ given \in [Sockets -> Nat]
  /\ pump \in [Sockets -> {"none", "reading", "holding", "failing", "ended"}]
  /\ inHand \in [Sockets -> Nat]
  /\ recvQueue \in Seq([sock : Sockets, no : Nat])
  /\ Len(recvQueue) <= QueueLen
  /\ cancelled \in BOOLEAN
  /\ reader \in {"running", "ended"}
  /\ got \in [Sockets -> Nat] /\ handed \in [Sockets -> Nat]
  /\ broken \in BOOLEAN

Init ==
  /\ sock = [s \in Sockets |-> "none"]
  /\ given = [s \in Sockets |-> 0]
  /\ pump = [s \in Sockets |-> "none"]
  /\ inHand = [s \in Sockets |-> 0]
  /\ recvQueue = << >>
  /\ cancelled = FALSE
  /\ reader = "running"
  /\ got = [s \in Sockets |-> 0]
  /\ handed = [s \in Sockets |-> 0]
  /\ broken = FALSE

-----------------------------------------------------------------------------
(* The sockets and the network.                                            *)

Open(s) ==
  /\ sock[s] = "none"
  /\ sock' = [sock EXCEPT ![s] = "open"]
  /\ UNCHANGED <<given, pump, inHand, recvQueue, cancelled, reader, got, handed,
                 broken>>

\* A retired socket's closer, or Close.
CloseSocket(s) ==
  /\ sock[s] = "open"
  /\ sock' = [sock EXCEPT ![s] = "closed"]
  /\ UNCHANGED <<given, pump, inHand, recvQueue, cancelled, reader, got, handed,
                 broken>>

Arrive(s) ==
  /\ sock[s] = "open"
  /\ given[s] < MaxGiven
  /\ given' = [given EXCEPT ![s] = @ + 1]
  /\ UNCHANGED <<sock, pump, inHand, recvQueue, cancelled, reader, got, handed,
                 broken>>

\* Close: everything that selects on ctx.Done can go on.
Cancel ==
  /\ ~cancelled
  /\ cancelled' = TRUE
  /\ UNCHANGED <<sock, given, pump, inHand, recvQueue, reader, got, handed,
                 broken>>

-----------------------------------------------------------------------------
(* packetPump.                                                             *)

Becomes(s, state) == pump' = [pump EXCEPT ![s] = state]

\* The go statement after a socket is stored; it may have been closed since.
StartPump(s) ==
  /\ pump[s] = "none"
  /\ sock[s] # "none"
  /\ Becomes(s, "reading")
  /\ UNCHANGED <<sock, given, inHand, recvQueue, cancelled, reader, got, handed,
                 broken>>

\* Mutant of PumpReads: a packet is read again.
PumpRereads(s) ==
  /\ pump[s] = "reading"
  /\ sock[s] = "open"
  /\ \E n \in inHand[s]..given[s] :
       n > 0 /\ inHand' = [inHand EXCEPT ![s] = n]
  /\ Becomes(s, "holding")
  /\ UNCHANGED <<sock, given, recvQueue, cancelled, reader, got, handed,
                 broken>>

\* conn.ReadFrom returns the next packet that the socket's own buffer kept.
PumpReads(s) ==
  /\ pump[s] = "reading"
  /\ sock[s] = "open"
  /\ \E n \in inHand[s]+1..given[s] : inHand' = [inHand EXCEPT ![s] = n]
  /\ Becomes(s, "holding")
  /\ UNCHANGED <<sock, given, recvQueue, cancelled, reader, got, handed,
                 broken>>

\* Mutant of PumpClosed: the error of a closed socket is passed on.
PumpClosedReports(s) ==
  /\ pump[s] = "reading"
  /\ sock[s] = "closed"
  /\ Becomes(s, "failing")
  /\ UNCHANGED <<sock, given, inHand, recvQueue, cancelled, reader, got, handed,
                 broken>>

\* The error says "closed".
PumpClosed(s) ==
  /\ pump[s] = "reading"
  /\ sock[s] = "closed"
  /\ Becomes(s, "ended")
  /\ UNCHANGED <<sock, given, inHand, recvQueue, cancelled, reader, got, handed,
                 broken>>

\* Any other error.
PumpBreaks(s) ==
  /\ pump[s] = "reading"
  /\ sock[s] = "open"
  /\ Becomes(s, "failing")
  /\ broken' = TRUE
  /\ UNCHANGED <<sock, given, inHand, recvQueue, cancelled, reader, got, handed>>

\* Mutant of Enqueue: the queue has room for one packet more.
EnqueueOneMore(s, n) ==
  /\ Len(recvQueue) <= QueueLen
  /\ recvQueue' = Append(recvQueue, Item(s, n))

\* The pump's sends: when the queue has room and the context is cancelled, the
\* select takes either.
Enqueue(s, n) ==
  /\ Len(recvQueue) < QueueLen
  /\ recvQueue' = Append(recvQueue, Item(s, n))

\* Mutants of PumpReports: an error is dropped like a packet when the queue is
\* full; the pump does not listen to ctx.Done while it waits for room.
PumpReportsOrDrops(s) ==
  /\ pump[s] = "failing"
  /\ \/ Enqueue(s, ErrorNo)
     \/ Len(recvQueue) = QueueLen /\ UNCHANGED recvQueue
     \/ cancelled /\ UNCHANGED recvQueue
  /\ Becomes(s, "ended")
  /\ UNCHANGED <<sock, given, inHand, cancelled, reader, got, handed,
                 broken>>

PumpReportsStubbornly(s) ==
  /\ pump[s] = "failing"
  /\ Enqueue(s, ErrorNo)
  /\ Becomes(s, "ended")
  /\ UNCHANGED <<sock, given, inHand, cancelled, reader, got, handed,
                 broken>>

\* The error is sent, however long it takes, or the connection is closed.
PumpReports(s) ==
  /\ pump[s] = "failing"
  /\ \/ Enqueue(s, ErrorNo)
     \/ cancelled /\ UNCHANGED recvQueue
  /\ Becomes(s, "ended")
  /\ UNCHANGED <<sock, given, inHand, cancelled, reader, got, handed,
                 broken>>

\* A packet is queued, or dropped at once when the queue is full.
PumpForwards(s) ==
  /\ pump[s] = "holding"
  /\ \/ Enqueue(s, inHand[s]) /\ Becomes(s, "reading")
     \/ cancelled /\ Becomes(s, "ended") /\ UNCHANGED recvQueue
     \/ /\ Len(recvQueue) = QueueLen
        /\ ~cancelled
        /\ Becomes(s, "reading")
        /\ UNCHANGED recvQueue
  /\ UNCHANGED <<sock, given, inHand, cancelled, reader, got, handed,
                 broken>>

Pump(s) ==
  \/ StartPump(s) \/ PumpReads(s) \/ PumpClosed(s) \/ PumpReports(s)
  \/ PumpForwards(s)

-----------------------------------------------------------------------------
(* ReadFrom: the select between the queue and ctx.Done.                    *)

ReadPacket ==
  /\ reader = "running"
  /\ recvQueue # << >>
  /\ recvQueue' = Tail(recvQueue)
  /\ LET pkt == Head(recvQueue) IN
       IF pkt.no = ErrorNo
       THEN reader' = "ended" /\ UNCHANGED <<got, handed>>
       ELSE /\ got' = [got EXCEPT ![pkt.sock] = pkt.no]
            /\ handed' = [handed EXCEPT ![pkt.sock] = @ + 1]
            /\ UNCHANGED reader
  /\ UNCHANGED <<sock, given, pump, inHand, cancelled, broken>>

\* Mutant of ReadClosed: there is no case for ctx.Done.
ReadClosedNever == FALSE

\* "connection closed"
ReadClosed ==
  /\ reader = "running"
  /\ cancelled
  /\ reader' = "ended"
  /\ UNCHANGED <<sock, given, pump, inHand, recvQueue, cancelled, got, handed,
                 broken>>

ReadFrom == ReadPacket \/ ReadClosed

Next ==
  \/ \E s \in Sockets :
       Open(s) \/ CloseSocket(s) \/ Arrive(s) \/ Pump(s) \/ PumpBreaks(s)
  \/ Cancel
  \/ ReadFrom

Spec == Init /\ [][Next]_vars

\* Every goroutine that can go on does; nothing has to arrive, break or close.
Fairness == WF_vars(ReadFrom) /\ \A s \in Sockets : WF_vars(Pump(s))

FairSpec == Spec /\ Fairness

-----------------------------------------------------------------------------
(***************************************************************************)
(* Pumps of several sockets, a queue that overflows, sockets that close in *)
(* mid-read and a select that may or may not prefer ctx.Done: what QUIC    *)
(* gets is still a lossy channel per socket, without repetition, without   *)
(* inversion, with nothing that no socket was given.                       *)
(***************************************************************************)
Channel == INSTANCE LossyChannel

ImplementsLossyChannel == Channel!Spec

(***************************************************************************)
(* No socket is deaf behind QUIC's back: when the pump of an open socket   *)
(* has ended, the connection is closed, or the error that ended the pump   *)
(* is on its way to QUIC's read loop or has reached it.                    *)
(***************************************************************************)
NoDeafSocket ==
  \A s \in Sockets :
    sock[s] = "open" /\ pump[s] = "ended" =>
      \/ cancelled
      \/ reader = "ended"
      \/ \E i \in DOMAIN recvQueue : recvQueue[i].no = ErrorNo

(***************************************************************************)
(* The closing of retired sockets never reaches QUIC: its read loop ends   *)
(* only after Close, or after a read that really failed.                   *)
(***************************************************************************)
RetiringUnnoticed == reader = "ended" => cancelled \/ broken

(***************************************************************************)
(* After Close, ReadFrom returns an error however full the queue is, and   *)
(* QUIC's read loop ends.                                                  *)
(***************************************************************************)
CloseEndsReading == cancelled ~> reader = "ended"

(***************************************************************************)
(* The pumps of closed sockets end once the connection is closed, even one *)
(* that waits to send an error to a queue nobody reads any more.           *)
(***************************************************************************)
PumpsEnd ==
  \A s \in Sockets : cancelled /\ sock[s] = "closed" ~> pump[s] = "ended"

=============================================================================
