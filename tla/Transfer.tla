------------------------------ MODULE Transfer ------------------------------
(***************************************************************************)
(* One task on one QUIC stream: runUploadTask and runDownloadTask of       *)
(* client/main.go against handleSingleTask and the functions of the same   *)
(* names of server/main.go.  Each end runs a fixed script of reads and     *)
(* writes; nothing but the position in the byte stream says which field a  *)
(* byte belongs to, and data is read a buffer at a time, so the scripts    *)
(* must agree on who writes when.                                          *)
(*                                                                         *)
(* The stream is reliable and ordered in each direction, until an end's    *)
(* connection is gone; a byte is represented by the field it was written   *)
(* for.                                                                    *)
(***************************************************************************)
EXTENDS Naturals, Sequences

CONSTANTS
  Kinds,      \* the tasks the client may ask for: "upload", "download"
  Size,       \* TransferFileSizeBytes
  ChunkSize,  \* bytes per Write of data, and in the buffer of a Read
  FieldLen,   \* bytes of a number: 8
  Window,     \* most bytes under way in a direction (flow control)
  MayDrop     \* whether an end may lose its connection at any time

ASSUME TransferConstants ==
  /\ Kinds \subseteq {"upload", "download"}
  /\ {Size, ChunkSize, FieldLen, Window} \subseteq Nat \ {0}
  /\ MayDrop \in BOOLEAN

Ends == {"client", "server"}
Peer == [client |-> "server", server |-> "client"]

VARIABLES
  kind,      \* the task the client runs
  pc,        \* for each end, the step of its script
  moved,     \* for each end, the bytes of data it has sent or received
  wire,      \* for each end, the bytes it has written and its peer not read
  up,        \* for each end, whether its connection still works
  status,    \* for each end, what its function has returned
  misread    \* history: an end took a byte of one field for one of another

vars == <<kind, pc, moved, wire, up, status, misread>>

-----------------------------------------------------------------------------
(* The scripts.                                                            *)

Field(op, what, len) == [op |-> op, what |-> what, len |-> len]
Put(what) == Field("put", what, FieldLen)
Get(what) == Field("get", what, FieldLen)
PutByte(what) == Field("put", what, 1)
GetByte(what) == Field("get", what, 1)
SendData == Field("send", "data", ChunkSize)
RecvData == Field("recv", "data", ChunkSize)

\* Mutant of ClientUpload: the loss is sent right after the data.
ClientUploadEager ==
  << PutByte("type"), Put("size"), GetByte("ready"), SendData,
     Put("loss"), GetByte("done"), Get("speed"), GetByte("final") >>

ClientUpload ==
  << PutByte("type"), Put("size"), GetByte("ready"), SendData,
     GetByte("done"), Get("speed"), Put("loss"), GetByte("final") >>

\* Mutants of ServerUpload: the last, or the first, answer is missing.
ServerUploadNoFinal ==
  << GetByte("type"), Get("size"), PutByte("ready"), RecvData,
     PutByte("done"), Put("speed"), Get("loss") >>

ServerUploadNotReady ==
  << GetByte("type"), Get("size"), RecvData,
     PutByte("done"), Put("speed"), Get("loss"), PutByte("final") >>

ServerUpload ==
  << GetByte("type"), Get("size"), PutByte("ready"), RecvData,
     PutByte("done"), Put("speed"), Get("loss"), PutByte("final") >>

\* Mutant of ClientDownload: does not wait for the final answer.
ClientDownloadHasty ==
  << PutByte("type"), Put("size"), Get("size"), RecvData,
     Put("speed"), Put("loss") >>

ClientDownload ==
  << PutByte("type"), Put("size"), Get("size"), RecvData,
     Put("speed"), Put("loss"), GetByte("final") >>

\* Mutant of ServerDownload: waits for an acknowledgement of the data.
ServerDownloadWaits ==
  << GetByte("type"), Get("size"), Put("size"), SendData, GetByte("done"),
     Get("speed"), Get("loss"), PutByte("final") >>

ServerDownload ==
  << GetByte("type"), Get("size"), Put("size"), SendData,
     Get("speed"), Get("loss"), PutByte("final") >>

\* The server's script is the one for the type it reads first.
Script(e) ==
  CASE e = "client" /\ kind = "upload"   -> ClientUpload
    [] e = "server" /\ kind = "upload"   -> ServerUpload
    [] e = "client" /\ kind = "download" -> ClientDownload
    [] e = "server" /\ kind = "download" -> ServerDownload

Step(e) == Script(e)[pc[e]]

TypeOK ==
  /\ kind \in Kinds
  /\ pc \in [Ends -> 1..8]
  /\ moved \in [Ends -> 0..Size]
  /\ wire \in [Ends -> Seq({"type", "size", "ready", "data", "done", "speed",
                            "loss", "final"})]
  /\ \A e \in Ends : Len(wire[e]) <= Window
  /\ up \in [Ends -> BOOLEAN]
  /\ status \in [Ends -> {"running", "ok", "failed"}]
  /\ misread \in BOOLEAN

Init ==
  /\ kind \in Kinds
  /\ pc = [e \in Ends |-> 1]
  /\ moved = [e \in Ends |-> 0]
  /\ wire = [e \in Ends |-> <<>>]
  /\ up = [e \in Ends |-> TRUE]
  /\ status = [e \in Ends |-> "running"]
  /\ misread = FALSE

-----------------------------------------------------------------------------
(* The end of a function.  Whatever the outcome, the client then closes    *)
(* the connection (CloseWithError); the server leaves that to it.          *)

Return(e, result) ==
  /\ status' = [status EXCEPT ![e] = result]
  /\ up' = IF e = "client" THEN [up EXCEPT ![e] = FALSE] ELSE up

Advance(e) ==
  IF pc[e] = Len(Script(e))
  THEN Return(e, "ok") /\ UNCHANGED pc
  ELSE pc' = [pc EXCEPT ![e] = @ + 1] /\ UNCHANGED <<status, up>>

Running(e) == status[e] = "running" /\ up[e]

Min(a, b) == IF a < b THEN a ELSE b

Write(e, what, n) ==
  /\ Len(wire[e]) + n <= Window
  /\ wire' = [wire EXCEPT ![e] = @ \o [k \in 1..n |-> what]]

Consume(e, what, n) ==
  LET w == wire[Peer[e]] IN
  /\ misread' = (misread \/ \E k \in 1..n : w[k] # what)
  /\ wire' = [wire EXCEPT ![Peer[e]] = SubSeq(@, n + 1, Len(@))]

\* stream.Write of a field.
PutField(e) ==
  /\ Running(e)
  /\ Step(e).op = "put"
  /\ Write(e, Step(e).what, Step(e).len)
  /\ Advance(e)
  /\ UNCHANGED <<kind, moved, misread>>

\* io.ReadFull of a field.
GetField(e) ==
  /\ Running(e)
  /\ Step(e).op = "get"
  /\ Len(wire[Peer[e]]) >= Step(e).len
  /\ Consume(e, Step(e).what, Step(e).len)
  /\ Advance(e)
  /\ UNCHANGED <<kind, moved>>

ChunkLen(e) == Min(ChunkSize, Size - moved[e])

\* The loop that sends the data, a chunk a round.
SendChunk(e) ==
  LET n == ChunkLen(e) IN
  /\ Running(e)
  /\ Step(e).op = "send"
  /\ Write(e, "data", n)
  /\ moved' = [moved EXCEPT ![e] = @ + n]
  /\ IF moved'[e] >= Size THEN Advance(e) ELSE UNCHANGED <<pc, status, up>>
  /\ UNCHANGED <<kind, misread>>

\* The loop that receives it: a Read returns what has arrived, up to the size
\* of the buffer and not of what is missing.
ReceiveChunk(e) ==
  /\ Running(e)
  /\ Step(e).op = "recv"
  /\ \E n \in 1..Min(ChunkSize, Len(wire[Peer[e]])) :
       /\ Consume(e, "data", n)
       /\ moved' = [moved EXCEPT ![e] = @ + n]
  /\ IF moved'[e] >= Size THEN Advance(e) ELSE UNCHANGED <<pc, status, up>>
  /\ UNCHANGED kind

\* A pending read or write returns the connection's error.
Fail(e) ==
  /\ status[e] = "running"
  /\ ~up[e]
  /\ Return(e, "failed")
  /\ UNCHANGED <<kind, pc, moved, wire, misread>>

-----------------------------------------------------------------------------
(* The connection of an end goes: at any time, when too many packets are   *)
(* lost, and for certain when the peer's has gone (it is told, or its idle *)
(* timeout expires).                                                       *)

Lost(e) ==
  /\ up[e]
  /\ up' = [up EXCEPT ![e] = FALSE]
  /\ UNCHANGED <<kind, pc, moved, wire, status, misread>>

Drop(e) == MayDrop /\ Lost(e)

TimeOut(e) == ~up[Peer[e]] /\ Lost(e)

Over ==
  /\ \A e \in Ends : status[e] # "running" /\ ~up[e]
  /\ UNCHANGED vars

Work(e) ==
  PutField(e) \/ GetField(e) \/ SendChunk(e) \/ ReceiveChunk(e) \/ Fail(e)

Next == (\E e \in Ends : Work(e) \/ Drop(e) \/ TimeOut(e)) \/ Over

\* Both processes run, QUIC moves bytes and notices a dead peer; nothing
\* forces a connection to be lost.
Fairness == \A e \in Ends : WF_vars(Work(e)) /\ WF_vars(TimeOut(e))

Spec == Init /\ [][Next]_vars /\ Fairness

-----------------------------------------------------------------------------
(***************************************************************************)
(* Every field is read from the bytes that were written for it.  Data is   *)
(* read without regard to how much of it is missing; that never swallows   *)
(* the next field because its writer first waits for an answer.            *)
(***************************************************************************)
FieldsAligned == ~misread

(***************************************************************************)
(* The exits for the end of the stream, an io.EOF of ReadFull and the      *)
(* "n == 0" of the data loops, which would count a part of the data as the *)
(* whole, are never taken: an end closes its half of the stream only when  *)
(* it returns, and one that returns success has left its peer all that the *)
(* peer still waits for.                                                   *)
(***************************************************************************)
NeverCutShort ==
  \A e \in Ends :
    Running(e) /\ status[Peer[e]] = "ok" =>
      /\ Step(e).op # "recv"
      /\ Step(e).op = "get" => Len(wire[Peer[e]]) >= Step(e).len

(***************************************************************************)
(* Nobody waits for ever: neither end's next read is for something the     *)
(* other will write only later, and a vanished peer is noticed.            *)
(***************************************************************************)
BothReturn == <>(\A e \in Ends : status[e] # "running")

(***************************************************************************)
(* The scripts fit: unless the connection is lost during the task, both    *)
(* ends succeed.                                                           *)
(***************************************************************************)
LostEarly == status["client"] = "running" /\ \E e \in Ends : ~up[e]

BothSucceed == <>(LostEarly \/ \A e \in Ends : status[e] = "ok")

(***************************************************************************)
(* The two results are the ones TaskOutcome allows: in particular, the     *)
(* client never reports a task that the server has not completed.          *)
(***************************************************************************)
Outcome == INSTANCE TaskOutcome WITH client <- status["client"],
                                     server <- status["server"]

ImplementsOutcome == Outcome!Spec

=============================================================================
