--------------------------- MODULE TransferProofs ---------------------------
(***************************************************************************)
(* Theorems about Transfer, for any size of the data, of a chunk, of a     *)
(* number and of the flow-control window, and any loss of connections.     *)
(***************************************************************************)
EXTENDS Transfer, TLAPS

F == FieldLen
S == Size

Tasks == {"upload", "download"}
Fields == {"type", "size", "ready", "data", "done", "speed", "loss", "final"}

ScriptOf(k, e) ==
  IF k = "upload"
  THEN IF e = "client" THEN ClientUpload ELSE ServerUpload
  ELSE IF e = "client" THEN ClientDownload ELSE ServerDownload

(***************************************************************************)
(* The stream that an end writes: to which field its j-th byte belongs.    *)
(***************************************************************************)
Layout(k, e, j) ==
  IF k = "upload"
  THEN IF e = "client"
       THEN IF j <= 1 THEN "type" ELSE IF j <= 1+F THEN "size"
            ELSE IF j <= 1+F+S THEN "data" ELSE "loss"
       ELSE IF j <= 1 THEN "ready" ELSE IF j <= 2 THEN "done"
            ELSE IF j <= 2+F THEN "speed" ELSE "final"
  ELSE IF e = "client"
       THEN IF j <= 1 THEN "type" ELSE IF j <= 1+F THEN "size"
            ELSE IF j <= 1+F+F THEN "speed" ELSE "loss"
       ELSE IF j <= F THEN "size" ELSE IF j <= F+S THEN "data" ELSE "final"

\* The n bytes after a position of the stream belong to one field.
Carries(k, e, at, n, what) == \A j \in 1..n : Layout(k, e, at + j) = what

(***************************************************************************)
(* The bytes an end has written, and read, before each step of its script  *)
(* and after the last.                                                     *)
(***************************************************************************)
Out(k, e) ==
  IF k = "upload"
  THEN IF e = "client"
       THEN <<0, 1, 1+F, 1+F, 1+F+S, 1+F+S, 1+F+S, 1+F+S+F, 1+F+S+F>>
       ELSE <<0, 0, 0, 1, 1, 2, 2+F, 2+F, 3+F>>
  ELSE IF e = "client"
       THEN <<0, 1, 1+F, 1+F, 1+F, 1+F+F, 1+F+F+F, 1+F+F+F>>
       ELSE <<0, 0, 0, F, F+S, F+S, F+S, F+S+1>>

In(k, e) ==
  IF k = "upload"
  THEN IF e = "client"
       THEN <<0, 0, 0, 1, 1, 2, 2+F, 2+F, 3+F>>
       ELSE <<0, 1, 1+F, 1+F, 1+F+S, 1+F+S, 1+F+S, 1+F+S+F, 1+F+S+F>>
  ELSE IF e = "client"
       THEN <<0, 0, 0, F, F+S, F+S, F+S, F+S+1>>
       ELSE <<0, 1, 1+F, 1+F, 1+F, 1+F+F, 1+F+F+F, 1+F+F+F>>

\* All four scripts move the data in their fourth step.
DataStep == 4

(***************************************************************************)
(* A step of a script moves the bytes that the stream has there.           *)
(***************************************************************************)
Fits(k, e, p) ==
  LET f == ScriptOf(k, e)[p] IN
  /\ f.what \in Fields /\ f.len \in Nat \ {0}
  /\ \A q \in {p, p + 1} : Out(k, e)[q] \in Nat /\ In(k, e)[q] \in Nat
  /\ f.op \in {"put", "get", "send", "recv"}
  /\ f.op \in {"send", "recv"} <=> p = DataStep
  /\ f.op = "put" =>
       /\ Out(k, e)[p + 1] = Out(k, e)[p] + f.len
       /\ Carries(k, e, Out(k, e)[p], f.len, f.what)
  /\ f.op = "send" =>
       /\ Out(k, e)[p + 1] = Out(k, e)[p] + Size
       /\ Carries(k, e, Out(k, e)[p], Size, "data")
  /\ f.op \in {"get", "recv"} => Out(k, e)[p + 1] = Out(k, e)[p]
  /\ f.op = "get" =>
       /\ In(k, e)[p + 1] = In(k, e)[p] + f.len
       /\ Carries(k, Peer[e], In(k, e)[p], f.len, f.what)
  /\ f.op = "recv" =>
       /\ In(k, e)[p + 1] = In(k, e)[p] + Size
       /\ Carries(k, Peer[e], In(k, e)[p], Size, "data")
  /\ f.op \in {"put", "send"} => In(k, e)[p + 1] = In(k, e)[p]

\* The scripts fit the streams: nobody reads what the other does not write.
LEMMA ScriptsFit ==
  \A k \in Tasks, e \in Ends : \A p \in 1..Len(ScriptOf(k, e)) : Fits(k, e, p)
<1>0. {FieldLen, ChunkSize, Size} \subseteq Nat \ {0}
  BY TransferConstants
<1>l. /\ \A j : Layout("upload", "client", j) =
              IF j <= 1 THEN "type" ELSE IF j <= 1+F THEN "size"
              ELSE IF j <= 1+F+S THEN "data" ELSE "loss"
      /\ \A j : Layout("upload", "server", j) =
              IF j <= 1 THEN "ready" ELSE IF j <= 2 THEN "done"
              ELSE IF j <= 2+F THEN "speed" ELSE "final"
      /\ \A j : Layout("download", "client", j) =
              IF j <= 1 THEN "type" ELSE IF j <= 1+F THEN "size"
              ELSE IF j <= 1+F+F THEN "speed" ELSE "loss"
      /\ \A j : Layout("download", "server", j) =
              IF j <= F THEN "size" ELSE IF j <= F+S THEN "data" ELSE "final"
  BY DEF Layout
<1>p. Peer["client"] = "server" /\ Peer["server"] = "client"
  BY DEF Peer
<1> USE <1>0, <1>l, <1>p
    DEF Fits, Carries, Fields, DataStep, F, S, Put, Get, PutByte, GetByte,
        SendData, RecvData, Field
<1>1. ASSUME NEW p \in 1..8 PROVE Fits("upload", "client", p)
  <2>s. ScriptOf("upload", "client") = ClientUpload
    BY DEF ScriptOf
  <2>o. Out("upload", "client") =
          <<0, 1, 1+F, 1+F, 1+F+S, 1+F+S, 1+F+S, 1+F+S+F, 1+F+S+F>>
    BY DEF Out
  <2>i. In("upload", "client") =
          <<0, 0, 0, 1, 1, 2, 2+F, 2+F, 3+F>>
    BY DEF In
  <2> USE <2>s, <2>o, <2>i DEF ClientUpload
  <2>1. Fits("upload", "client", 1)
    OBVIOUS
  <2>2. Fits("upload", "client", 2)
    OBVIOUS
  <2>3. Fits("upload", "client", 3)
    OBVIOUS
  <2>4. Fits("upload", "client", 4)
    OBVIOUS
  <2>5. Fits("upload", "client", 5)
    OBVIOUS
  <2>6. Fits("upload", "client", 6)
    OBVIOUS
  <2>7. Fits("upload", "client", 7)
    OBVIOUS
  <2>8. Fits("upload", "client", 8)
    OBVIOUS
  <2> HIDE DEF Fits
  <2> QED
    BY <2>1, <2>2, <2>3, <2>4, <2>5, <2>6, <2>7, <2>8
<1>2. ASSUME NEW p \in 1..8 PROVE Fits("upload", "server", p)
  <2>s. ScriptOf("upload", "server") = ServerUpload
    BY DEF ScriptOf
  <2>o. Out("upload", "server") =
          <<0, 0, 0, 1, 1, 2, 2+F, 2+F, 3+F>>
    BY DEF Out
  <2>i. In("upload", "server") =
          <<0, 1, 1+F, 1+F, 1+F+S, 1+F+S, 1+F+S, 1+F+S+F, 1+F+S+F>>
    BY DEF In
  <2> USE <2>s, <2>o, <2>i DEF ServerUpload
  <2>1. Fits("upload", "server", 1)
    OBVIOUS
  <2>2. Fits("upload", "server", 2)
    OBVIOUS
  <2>3. Fits("upload", "server", 3)
    OBVIOUS
  <2>4. Fits("upload", "server", 4)
    OBVIOUS
  <2>5. Fits("upload", "server", 5)
    OBVIOUS
  <2>6. Fits("upload", "server", 6)
    OBVIOUS
  <2>7. Fits("upload", "server", 7)
    OBVIOUS
  <2>8. Fits("upload", "server", 8)
    OBVIOUS
  <2> HIDE DEF Fits
  <2> QED
    BY <2>1, <2>2, <2>3, <2>4, <2>5, <2>6, <2>7, <2>8
<1>3. ASSUME NEW p \in 1..7 PROVE Fits("download", "client", p)
  <2>s. ScriptOf("download", "client") = ClientDownload
    BY DEF ScriptOf
  <2>o. Out("download", "client") =
          <<0, 1, 1+F, 1+F, 1+F, 1+F+F, 1+F+F+F, 1+F+F+F>>
    BY DEF Out
  <2>i. In("download", "client") =
          <<0, 0, 0, F, F+S, F+S, F+S, F+S+1>>
    BY DEF In
  <2> USE <2>s, <2>o, <2>i DEF ClientDownload
  <2>1. Fits("download", "client", 1)
    OBVIOUS
  <2>2. Fits("download", "client", 2)
    OBVIOUS
  <2>3. Fits("download", "client", 3)
    OBVIOUS
  <2>4. Fits("download", "client", 4)
    OBVIOUS
  <2>5. Fits("download", "client", 5)
    OBVIOUS
  <2>6. Fits("download", "client", 6)
    OBVIOUS
  <2>7. Fits("download", "client", 7)
    OBVIOUS
  <2> HIDE DEF Fits
  <2> QED
    BY <2>1, <2>2, <2>3, <2>4, <2>5, <2>6, <2>7
<1>4. ASSUME NEW p \in 1..7 PROVE Fits("download", "server", p)
  <2>s. ScriptOf("download", "server") = ServerDownload
    BY DEF ScriptOf
  <2>o. Out("download", "server") =
          <<0, 0, 0, F, F+S, F+S, F+S, F+S+1>>
    BY DEF Out
  <2>i. In("download", "server") =
          <<0, 1, 1+F, 1+F, 1+F, 1+F+F, 1+F+F+F, 1+F+F+F>>
    BY DEF In
  <2> USE <2>s, <2>o, <2>i DEF ServerDownload
  <2>1. Fits("download", "server", 1)
    OBVIOUS
  <2>2. Fits("download", "server", 2)
    OBVIOUS
  <2>3. Fits("download", "server", 3)
    OBVIOUS
  <2>4. Fits("download", "server", 4)
    OBVIOUS
  <2>5. Fits("download", "server", 5)
    OBVIOUS
  <2>6. Fits("download", "server", 6)
    OBVIOUS
  <2>7. Fits("download", "server", 7)
    OBVIOUS
  <2> HIDE DEF Fits
  <2> QED
    BY <2>1, <2>2, <2>3, <2>4, <2>5, <2>6, <2>7
<1> HIDE <1>l DEF Fits, Put, Get, PutByte, GetByte, SendData, RecvData
<1>5. /\ Len(ClientUpload) = 8 /\ Len(ServerUpload) = 8
      /\ Len(ClientDownload) = 7 /\ Len(ServerDownload) = 7
  BY DEF ClientUpload, ServerUpload, ClientDownload, ServerDownload
<1> QED
  BY <1>1, <1>2, <1>3, <1>4, <1>5 DEF Tasks, Ends, ScriptOf

-----------------------------------------------------------------------------
(***************************************************************************)
(* The inductive invariant.  Where the ends are in their scripts says how  *)
(* many bytes each has written and read, and what is under way is that     *)
(* piece of the stream.                                                    *)
(***************************************************************************)
Place(e) == IF status[e] = "ok" THEN pc[e] + 1 ELSE pc[e]

Partly(e, op) == IF Step(e).op = op THEN moved[e] ELSE 0

Wrote(e) == Out(kind, e)[Place(e)] + Partly(e, "send")
Took(e) == In(kind, e)[Place(e)] + Partly(e, "recv")

\* w is the part of a stream between two of its positions.
Piece(w, k, e, from, to) ==
  /\ w \in Seq(Fields)
  /\ from <= to /\ Len(w) = to - from
  /\ \A j \in 1..Len(w) : w[j] = Layout(k, e, from + j)

Places ==
  \A e \in Ends :
    /\ pc[e] <= Len(Script(e))
    /\ status[e] = "ok" => pc[e] = Len(Script(e))
    /\ pc[e] < DataStep => moved[e] = 0
    /\ pc[e] = DataStep => moved[e] < Size

Streams ==
  \A e \in Ends : Piece(wire[e], kind, e, Took(Peer[e]), Wrote(e))

IInv == TypeOK /\ Places /\ Streams /\ FieldsAligned

-----------------------------------------------------------------------------
(* Pieces of a stream.                                                     *)

\* To write the bytes that come next makes the piece longer.
LEMMA PieceWritten ==
  ASSUME NEW k, NEW e, NEW w, NEW what \in Fields,
         NEW from \in Nat, NEW to \in Nat, NEW n \in Nat,
         Piece(w, k, e, from, to), Carries(k, e, to, n, what)
  PROVE  Piece(w \o [j \in 1..n |-> what], k, e, from, to + n)
<1> DEFINE new == [j \in 1..n |-> what]
           v == w \o new
<1>1. new \in Seq(Fields) /\ Len(new) = n /\ \A j \in 1..n : new[j] = what
  OBVIOUS
<1> HIDE DEF new
<1>2. /\ w \in Seq(Fields) /\ Len(w) \in Nat
      /\ Len(w) = to - from /\ from <= to
  BY DEF Piece
<1>3. v \in Seq(Fields) /\ Len(v) = Len(w) + n
  BY <1>1, <1>2
<1>4. ASSUME NEW j \in 1..Len(v) PROVE v[j] = Layout(k, e, from + j)
  <2>1. CASE j <= Len(w)
    <3>1. v[j] = w[j]
      BY <1>1, <1>2, <1>3, <2>1
    <3> QED
      BY <1>2, <2>1, <3>1 DEF Piece
  <2>2. CASE j > Len(w)
    <3>1. v[j] = new[j - Len(w)] /\ j - Len(w) \in 1..n
      BY <1>1, <1>2, <1>3, <2>2
    <3>2. to + (j - Len(w)) = from + j
      BY <1>2
    <3> QED
      BY <1>1, <3>1, <3>2 DEF Carries
  <2> QED
    BY <1>2, <1>3, <2>1, <2>2
<1>5. from <= to + n /\ Len(v) = to + n - from
  BY <1>2, <1>3
<1> QED
  BY <1>3, <1>4, <1>5 DEF Piece, new

\* To read its first bytes leaves the rest.
LEMMA PieceRead ==
  ASSUME NEW k, NEW e, NEW w,
         NEW from \in Nat, NEW to \in Nat, NEW n \in Nat, n <= Len(w),
         Piece(w, k, e, from, to)
  PROVE  Piece(SubSeq(w, n + 1, Len(w)), k, e, from + n, to)
<1> DEFINE v == SubSeq(w, n + 1, Len(w))
<1>1. /\ w \in Seq(Fields) /\ Len(w) \in Nat
      /\ Len(w) = to - from /\ from <= to
  BY DEF Piece
<1>2. /\ v \in Seq(Fields) /\ Len(v) = Len(w) - n
      /\ \A j \in 1..Len(v) : v[j] = w[n + j]
  BY <1>1
<1> HIDE DEF v
<1>3. ASSUME NEW j \in 1..Len(v) PROVE v[j] = Layout(k, e, (from + n) + j)
  <2>1. n + j \in 1..Len(w) /\ (from + n) + j = from + (n + j)
    BY <1>1, <1>2
  <2> QED
    BY <1>2, <2>1 DEF Piece
<1>4. from + n <= to /\ Len(v) = to - (from + n)
  BY <1>1, <1>2
<1>5. Piece(v, k, e, from + n, to)
  BY <1>2, <1>3, <1>4 DEF Piece
<1> QED
  BY <1>5 DEF v

\* What is read belongs to the field that the stream carries there.
LEMMA PieceAligned ==
  ASSUME NEW k, NEW e, NEW w, NEW what,
         NEW from \in Nat, NEW to \in Nat, NEW n \in Nat, n <= Len(w),
         Piece(w, k, e, from, to), Carries(k, e, from, n, what)
  PROVE  \A j \in 1..n : w[j] = what
<1>1. Len(w) \in Nat
  BY DEF Piece
<1> QED
  BY <1>1 DEF Piece, Carries

-----------------------------------------------------------------------------
(* The scripts.                                                            *)

LEMMA ScriptIs ==
  ASSUME TypeOK, NEW e \in Ends
  PROVE  /\ kind \in Tasks /\ Peer[e] \in Ends /\ Peer[e] # e
         /\ Peer[Peer[e]] = e
         /\ Script(e) = ScriptOf(kind, e) /\ Len(Script(e)) \in {7, 8}
         /\ \A d \in Ends : d = e \/ d = Peer[e]
<1>1. kind \in Tasks
  BY TransferConstants DEF TypeOK, Tasks
<1>2. /\ Peer[e] \in Ends /\ Peer[e] # e /\ Peer[Peer[e]] = e
      /\ \A d \in Ends : d = e \/ d = Peer[e]
  BY DEF Peer, Ends
<1>3. Script(e) = ScriptOf(kind, e)
  BY <1>1 DEF Script, ScriptOf, Tasks, Ends
<1>4. Len(Script(e)) \in {7, 8}
  BY <1>3 DEF ScriptOf, ClientUpload, ServerUpload, ClientDownload,
              ServerDownload
<1> QED
  BY <1>1, <1>2, <1>3, <1>4

\* What the script says of the step an end is at.
LEMMA StepFits ==
  ASSUME TypeOK, Places, NEW e \in Ends
  PROVE  /\ pc[e] \in 1..Len(Script(e)) /\ pc[e] \in Nat
         /\ Fits(kind, e, pc[e]) /\ Step(e) = ScriptOf(kind, e)[pc[e]]
         /\ moved[e] \in Nat /\ moved[e] <= Size
<1>1. pc[e] \in 1..8 /\ moved[e] \in 0..Size
  BY DEF TypeOK
<1>2. pc[e] \in 1..Len(Script(e))
  BY <1>1, ScriptIs DEF Places
<1> QED
  BY <1>1, <1>2, ScriptIs, ScriptsFit, TransferConstants DEF Step

\* While an end is running, it has moved what comes before its step, and the
\* data it has moved.
LEMMA RunningCounts ==
  ASSUME TypeOK, Places, NEW e \in Ends, status[e] # "ok"
  PROVE  /\ Wrote(e) \in Nat /\ Took(e) \in Nat
         /\ Wrote(e) = Out(kind, e)[pc[e]]
                         + (IF Step(e).op = "send" THEN moved[e] ELSE 0)
         /\ Took(e) = In(kind, e)[pc[e]]
                         + (IF Step(e).op = "recv" THEN moved[e] ELSE 0)
BY StepFits DEF Wrote, Took, Partly, Place, Fits

LEMMA CountsTyped ==
  ASSUME TypeOK, Places, NEW e \in Ends
  PROVE  Wrote(e) \in Nat /\ Took(e) \in Nat
<1>1. CASE status[e] # "ok"
  BY <1>1, RunningCounts
<1>2. CASE status[e] = "ok"
  <2>1. Place(e) = pc[e] + 1
    BY <1>2 DEF Place
  <2>2. pc[e] = Len(Script(e))
    BY <1>2 DEF Places
  <2>3. pc[e] # DataStep
    <3>1. Len(Script(e)) \in {7, 8}
      BY ScriptIs
    <3>2. pc[e] \in {7, 8}
      BY <2>2, <3>1
    <3> QED
      BY <3>2 DEF DataStep
  <2>4. Out(kind, e)[pc[e] + 1] \in Nat /\ In(kind, e)[pc[e] + 1] \in Nat
    BY StepFits DEF Fits
  <2> QED
    BY <2>1, <2>3, <2>4, StepFits DEF Wrote, Took, Partly, Fits
<1> QED
  BY <1>1, <1>2

\* An end that does not move has written and read what it had.
LEMMA OtherEnd ==
  ASSUME NEW d \in Ends, UNCHANGED kind, pc'[d] = pc[d], moved'[d] = moved[d],
         status'[d] = "ok" <=> status[d] = "ok"
  PROVE  Wrote(d)' = Wrote(d) /\ Took(d)' = Took(d)
<1>1. Step(d)' = Step(d)
  BY DEF Step, Script
<1>2. Place(d)' = Place(d)
  BY DEF Place
<1>3. Partly(d, "send")' = Partly(d, "send")
  BY <1>1 DEF Partly
<1>4. Partly(d, "recv")' = Partly(d, "recv")
  BY <1>1 DEF Partly
<1>5. Out(kind, d)' = Out(kind, d) /\ In(kind, d)' = In(kind, d)
  BY DEF Out, In
<1> QED
  BY <1>2, <1>3, <1>4, <1>5 DEF Wrote, Took

\* Advance leads to the next step or to the end of the script.
LEMMA Advanced ==
  ASSUME TypeOK, Places, NEW e \in Ends, status[e] = "running", Advance(e),
         UNCHANGED kind, pc[e] < DataStep => moved'[e] = 0
  PROVE  /\ Wrote(e)' = Out(kind, e)[pc[e] + 1]
         /\ Took(e)' = In(kind, e)[pc[e] + 1]
         /\ pc' \in [Ends -> 1..8]
         /\ status' \in [Ends -> {"running", "ok", "failed"}]
         /\ up' \in [Ends -> BOOLEAN]
         /\ pc'[e] <= Len(Script(e))
         /\ status'[e] = "ok" => pc'[e] = Len(Script(e))
         /\ pc'[e] < DataStep => moved'[e] = 0
         /\ pc'[e] = DataStep => moved'[e] < Size
         /\ \A d \in Ends \ {e} : pc'[d] = pc[d] /\ status'[d] = status[d]
<1> DEFINE p == pc[e] + 1
<1>1. /\ pc[e] \in 1..8 /\ pc \in [Ends -> 1..8]
      /\ status \in [Ends -> {"running", "ok", "failed"}]
      /\ up \in [Ends -> BOOLEAN]
  BY DEF TypeOK
<1>2. PICK len \in {7, 8} : Len(Script(e)) = len /\ Script(e)' = Script(e)
  BY ScriptIs DEF Script
<1>3. pc[e] \in 1..len
  BY <1>2, StepFits
<1>4. up' \in [Ends -> BOOLEAN]
  BY <1>1 DEF Advance, Return
<1>5. Out(kind, e)[p] \in Nat /\ In(kind, e)[p] \in Nat
  BY StepFits DEF Fits
<1>6. Out(kind, e)' = Out(kind, e) /\ In(kind, e)' = In(kind, e)
  BY DEF Out, In
<1>7. CASE pc[e] = len
  <2>1. pc' = pc /\ status' = [status EXCEPT ![e] = "ok"]
    BY <1>2, <1>7 DEF Advance, Return
  <2>2. pc[e] \in {7, 8}
    BY <1>2, <1>7
  <2>3. Step(e)' = Step(e) /\ Step(e).op \notin {"send", "recv"}
    BY <1>2, <2>1, <2>2, StepFits DEF Step, Fits, DataStep
  <2>4. Partly(e, "send")' = 0 /\ Partly(e, "recv")' = 0
    BY <2>3 DEF Partly
  <2>5. Place(e)' = p
    BY <1>1, <2>1 DEF Place
  <2>6. Wrote(e)' = Out(kind, e)[p] /\ Took(e)' = In(kind, e)[p]
    BY <1>5, <1>6, <2>4, <2>5 DEF Wrote, Took
  <2>7. pc'[e] = len /\ len > DataStep
    BY <1>7, <2>1 DEF DataStep
  <2>8. pc'[e] <= Len(Script(e)) /\ pc'[e] = Len(Script(e))
    BY <1>2, <2>7
  <2>9. /\ pc' \in [Ends -> 1..8]
        /\ status' \in [Ends -> {"running", "ok", "failed"}]
        /\ \A d \in Ends \ {e} : pc'[d] = pc[d] /\ status'[d] = status[d]
    BY <1>1, <2>1
  <2> QED
    BY <1>4, <2>6, <2>7, <2>8, <2>9 DEF DataStep
<1>8. CASE pc[e] # len
  <2>1. pc' = [pc EXCEPT ![e] = p] /\ status' = status
    BY <1>2, <1>8 DEF Advance
  <2>2. p \in 1..len /\ p \in 2..8
    BY <1>3, <1>8
  <2>3. Step(e)' = ScriptOf(kind, e)[p]
    BY <1>1, <1>2, <2>1, ScriptIs DEF Step
  <2>4. Fits(kind, e, p)
    BY <1>2, <2>2, ScriptIs, ScriptsFit
  <2>5. Step(e)'.op \in {"send", "recv"} => moved'[e] = 0
    <3>1. Step(e)'.op \in {"send", "recv"} => pc[e] < DataStep
      BY <1>1, <2>3, <2>4 DEF Fits, DataStep
    <3> QED
      BY <3>1
  <2>6. Partly(e, "send")' = 0 /\ Partly(e, "recv")' = 0
    BY <2>5 DEF Partly
  <2>7. Place(e)' = p
    BY <1>1, <2>1 DEF Place
  <2>8. Wrote(e)' = Out(kind, e)[p] /\ Took(e)' = In(kind, e)[p]
    BY <1>5, <1>6, <2>6, <2>7 DEF Wrote, Took
  <2>9. p <= DataStep => moved'[e] = 0
    BY <1>1 DEF DataStep
  <2>10. pc'[e] = p /\ p <= Len(Script(e))
    BY <1>1, <1>2, <2>1, <2>2
  <2>11. /\ pc' \in [Ends -> 1..8]
         /\ status' \in [Ends -> {"running", "ok", "failed"}]
         /\ \A d \in Ends \ {e} : pc'[d] = pc[d] /\ status'[d] = status[d]
         /\ status'[e] # "ok"
    BY <1>1, <2>1, <2>2
  <2>12. /\ pc'[e] < DataStep => moved'[e] = 0
         /\ pc'[e] = DataStep => moved'[e] < Size
    BY <2>2, <2>9, <2>10, TransferConstants DEF DataStep
  <2> QED
    BY <1>4, <2>8, <2>10, <2>11, <2>12
<1> QED
  BY <1>7, <1>8

-----------------------------------------------------------------------------
(* The streams.                                                            *)

\* What is written goes on where the stream has got to.
LEMMA StreamsWritten ==
  ASSUME TypeOK, Places, Streams, NEW e \in Ends, NEW n \in Nat,
         NEW what \in Fields, Write(e, what, n), UNCHANGED kind,
         Carries(kind, e, Wrote(e), n, what),
         Wrote(e)' = Wrote(e) + n, Took(e)' = Took(e),
         \A d \in Ends \ {e} : Wrote(d)' = Wrote(d) /\ Took(d)' = Took(d)
  PROVE  /\ Streams'
         /\ wire' \in [Ends -> Seq(Fields)]
         /\ \A d \in Ends : Len(wire'[d]) <= Window
<1>1. /\ Peer[e] \in Ends /\ Peer[e] # e /\ Peer[Peer[e]] = e
      /\ \A d \in Ends : d = e \/ d = Peer[e]
  BY ScriptIs
<1>2. PICK from \in Nat, to \in Nat : Took(Peer[e]) = from /\ Wrote(e) = to
  BY <1>1, CountsTyped
<1>3. /\ wire \in [Ends -> Seq(Fields)]
      /\ \A d \in Ends : Len(wire[d]) <= Window
  BY DEF TypeOK, Fields
<1>4. Piece(wire[e], kind, e, from, to)
  BY <1>2 DEF Streams
<1> DEFINE w == wire[e] \o [j \in 1..n |-> what]
<1>5. Piece(w, kind, e, from, to + n)
  <2>1. Carries(kind, e, to, n, what)
    BY <1>2
  <2> QED
    BY <1>4, <2>1, PieceWritten
<1>6. w \in Seq(Fields) /\ Len(w) <= Window
  BY <1>3 DEF Write, Piece
<1> HIDE DEF w
<1>7. wire' = [wire EXCEPT ![e] = w]
  BY DEF Write, w
<1>8. wire' \in [Ends -> Seq(Fields)] /\ wire'[e] = w
      /\ wire'[Peer[e]] = wire[Peer[e]]
  BY <1>1, <1>3, <1>6, <1>7
<1>9. Piece(wire'[e], kind', e, Took(Peer[e])', Wrote(e)')
  BY <1>1, <1>2, <1>5, <1>8
<1>10. Piece(wire'[Peer[e]], kind', Peer[e], Took(e)', Wrote(Peer[e])')
  BY <1>1, <1>8 DEF Streams
<1>11. Streams'
  BY <1>1, <1>9, <1>10 DEF Streams
<1>12. \A d \in Ends : Len(wire'[d]) <= Window
  BY <1>1, <1>3, <1>6, <1>8
<1> QED
  BY <1>8, <1>11, <1>12

\* What is read is the next piece of the stream, and is what it is taken for.
LEMMA StreamsRead ==
  ASSUME TypeOK, Places, Streams, FieldsAligned, NEW e \in Ends,
         NEW n \in Nat, n <= Len(wire[Peer[e]]),
         NEW what, Consume(e, what, n), UNCHANGED kind,
         Carries(kind, Peer[e], Took(e), n, what),
         Took(e)' = Took(e) + n, Wrote(e)' = Wrote(e),
         \A d \in Ends \ {e} : Wrote(d)' = Wrote(d) /\ Took(d)' = Took(d)
  PROVE  /\ Streams' /\ FieldsAligned'
         /\ wire' \in [Ends -> Seq(Fields)]
         /\ \A d \in Ends : Len(wire'[d]) <= Window
<1> DEFINE q == Peer[e]
           w == SubSeq(wire[q], n + 1, Len(wire[q]))
<1>1. /\ q \in Ends /\ q # e /\ Peer[q] = e
      /\ \A d \in Ends : d = e \/ d = q
  BY ScriptIs
<1>2. PICK from \in Nat, to \in Nat : Took(e) = from /\ Wrote(q) = to
  BY <1>1, CountsTyped
<1>3. /\ wire \in [Ends -> Seq(Fields)]
      /\ \A d \in Ends : Len(wire[d]) <= Window
  BY DEF TypeOK, Fields
<1>4. Piece(wire[q], kind, q, from, to)
  BY <1>1, <1>2 DEF Streams
<1>5. Piece(w, kind, q, from + n, to)
  BY <1>4, PieceRead
<1>6. \A j \in 1..n : wire[q][j] = what
  <2>1. Carries(kind, q, from, n, what)
    BY <1>2
  <2> QED
    BY <1>4, <2>1, PieceAligned
<1>7. /\ wire' = [wire EXCEPT ![q] = w]
      /\ misread' = (misread \/ \E j \in 1..n : wire[q][j] # what)
  BY DEF Consume
<1>8. FieldsAligned'
  <2>1. ~misread
    BY DEF FieldsAligned
  <2> QED
    BY <1>6, <1>7, <2>1, Zenon DEF FieldsAligned
<1>9. w \in Seq(Fields) /\ Len(w) <= Window
  <2>1. /\ wire[q] \in Seq(Fields) /\ Len(wire[q]) <= Window
        /\ Len(wire[q]) \in Nat /\ Window \in Nat
    BY <1>1, <1>3, TransferConstants
  <2> QED
    BY <2>1
<1> HIDE DEF w, q
<1>10. wire' \in [Ends -> Seq(Fields)] /\ wire'[q] = w /\ wire'[e] = wire[e]
  BY <1>1, <1>3, <1>7, <1>9
<1>11. Piece(wire'[q], kind', q, Took(e)', Wrote(q)')
  BY <1>1, <1>2, <1>5, <1>10
<1>12. Piece(wire'[e], kind', e, Took(q)', Wrote(e)')
  BY <1>1, <1>10 DEF Streams, q
<1>13. Streams'
  BY <1>1, <1>11, <1>12 DEF Streams, q
<1>14. \A d \in Ends : Len(wire'[d]) <= Window
  BY <1>1, <1>3, <1>9, <1>10
<1> QED
  BY <1>8, <1>10, <1>13, <1>14

-----------------------------------------------------------------------------
(* Who waits for whom.                                                     *)

Steps(k) == IF k = "upload" THEN 8 ELSE 7

LEMMA ScriptLengths ==
  \A k \in Tasks, e \in Ends :
    Steps(k) \in {7, 8} /\ Len(ScriptOf(k, e)) = Steps(k)
BY DEF Tasks, Ends, Steps, ScriptOf, ClientUpload, ServerUpload,
       ClientDownload, ServerDownload

\* The sender of the data does not get beyond it before its peer has written
\* something that the peer writes only when it has all of it.
LEMMA DataFirst ==
  ASSUME NEW k \in Tasks, NEW e \in Ends,
         ScriptOf(k, e)[DataStep].op = "recv"
  PROVE  /\ Out(k, e)[DataStep] = In(k, Peer[e])[DataStep + 1]
         /\ In(k, e)[DataStep] + Size = Out(k, Peer[e])[DataStep + 1]
         /\ ScriptOf(k, Peer[e])[DataStep].op = "send"
         /\ \A q \in 1..Steps(k)+1 :
              In(k, Peer[e])[q] <= In(k, Peer[e])[DataStep + 1] =>
                /\ q <= DataStep + 1
                /\ Out(k, Peer[e])[q] <= Out(k, Peer[e])[DataStep + 1]
<1> USE TransferConstants
    DEF ScriptOf, Out, In, Steps, DataStep, F, S, Put, Get, PutByte, GetByte,
        SendData, RecvData, Field, Peer
<1>1. CASE k = "upload" /\ e = "client"
  BY <1>1 DEF ClientUpload
<1>2. CASE k = "upload" /\ e = "server"
  BY <1>2 DEF ServerUpload, ClientUpload
<1>3. CASE k = "download" /\ e = "client"
  BY <1>3 DEF ClientDownload, ServerDownload
<1>4. CASE k = "download" /\ e = "server"
  BY <1>4 DEF ServerDownload
<1> QED
  BY <1>1, <1>2, <1>3, <1>4 DEF Tasks, Ends

\* An end that has run its script has written all that its peer reads.
LEMMA AllWritten ==
  \A k \in Tasks, e \in Ends : \A q \in 1..Steps(k)+1 :
    In(k, e)[q] <= Out(k, Peer[e])[Steps(k) + 1]
<1> USE TransferConstants DEF Out, In, Steps, F, S, Peer
<1>1. \A e \in Ends : \A q \in 1..9 :
        In("upload", e)[q] <= Out("upload", Peer[e])[9]
  BY DEF Ends
<1>2. \A e \in Ends : \A q \in 1..8 :
        In("download", e)[q] <= Out("download", Peer[e])[8]
  BY DEF Ends
<1> QED
  BY <1>1, <1>2 DEF Tasks

\* The last byte that the client reads is the last that the server writes.
LEMMA ServerFirst ==
  \A k \in Tasks :
    /\ ScriptOf(k, "client")[Steps(k)].op = "get"
    /\ \A q \in 1..Steps(k) :
         Out(k, "server")[q] < In(k, "client")[Steps(k) + 1]
<1> USE TransferConstants
    DEF ScriptOf, Out, In, Steps, F, S, Put, Get, PutByte, GetByte, SendData,
        RecvData, Field
<1>1. /\ ScriptOf("upload", "client")[8].op = "get"
      /\ \A q \in 1..8 : Out("upload", "server")[q] < In("upload", "client")[9]
  BY DEF ClientUpload
<1>2. /\ ScriptOf("download", "client")[7].op = "get"
      /\ \A q \in 1..7 :
           Out("download", "server")[q] < In("download", "client")[8]
  BY DEF ClientDownload
<1> QED
  BY <1>1, <1>2 DEF Tasks

\* An end that sends the data has written at most all of it.
LEMMA WroteBelow ==
  ASSUME TypeOK, Places, NEW e \in Ends, status[e] # "ok"
  PROVE  \/ Wrote(e) = Out(kind, e)[pc[e]]
         \/ /\ pc[e] = DataStep
            /\ Wrote(e) <= Out(kind, e)[DataStep + 1]
<1>1. CASE Step(e).op # "send"
  BY <1>1, RunningCounts, StepFits DEF Fits
<1>2. CASE Step(e).op = "send"
  <2>1. PICK o \in Nat, m \in Nat :
          /\ Out(kind, e)[pc[e]] = o /\ moved[e] = m /\ m <= Size
          /\ pc[e] = DataStep /\ Out(kind, e)[pc[e] + 1] = o + Size
    BY <1>2, StepFits DEF Fits
  <2>2. Wrote(e) = o + m
    BY <1>2, <2>1, RunningCounts
  <2>3. o + m <= o + Size
    BY <2>1, TransferConstants
  <2> QED
    BY <2>1, <2>2, <2>3
<1> QED
  BY <1>1, <1>2

\* An end that reads a field is the length of the field from its next step.
LEMMA ReadsField ==
  ASSUME TypeOK, Places, NEW e \in Ends, status[e] # "ok", Step(e).op = "get"
  PROVE  \E t, l \in Nat :
           /\ Took(e) = t /\ Step(e).len = l
           /\ In(kind, e)[pc[e] + 1] = t + l
BY StepFits, RunningCounts DEF Fits

\* The sender has not got beyond the data while its peer receives it.
LEMMA AtRecv ==
  ASSUME TypeOK, Places, Streams, NEW e \in Ends, status[e] # "ok",
         Step(e).op = "recv"
  PROVE  /\ Wrote(Peer[e]) <= In(kind, e)[DataStep] + Size
         /\ status[Peer[e]] # "ok"
<1> DEFINE d == Peer[e]
<1>1. /\ d \in Ends /\ Peer[d] = e /\ kind \in Tasks
      /\ Script(d) = ScriptOf(kind, d)
  BY ScriptIs
<1>2. pc[e] = DataStep /\ ScriptOf(kind, e)[DataStep].op = "recv"
  BY StepFits DEF Fits
<1>3. Wrote(e) = Out(kind, e)[DataStep] /\ Wrote(e) \in Nat
  BY <1>2, RunningCounts, StepFits DEF Fits
<1>4. Took(d) <= Wrote(e)
  BY <1>1 DEF Streams, Piece
<1>5. Step(d).op # "recv"
  <2>1. /\ Fits(kind, d, pc[d]) /\ Step(d) = ScriptOf(kind, d)[pc[d]]
    BY <1>1, StepFits
  <2>2. ScriptOf(kind, d)[DataStep].op = "send"
    BY <1>1, <1>2, DataFirst
  <2> QED
    BY <2>1, <2>2 DEF Fits
<1>6. Place(d) \in 1..Steps(kind)+1 /\ pc[d] \in 1..Steps(kind)
  <2>1. PICK n \in {7, 8} : Steps(kind) = n /\ Len(Script(d)) = n
    BY <1>1, ScriptLengths
  <2>2. pc[d] \in 1..n
    BY <1>1, <2>1, StepFits
  <2> QED
    BY <2>1, <2>2 DEF Place
<1>7. In(kind, d)[Place(d)] \in Nat
  <2>1. CASE status[d] = "ok"
    BY <1>1, <2>1, StepFits DEF Fits, Place
  <2>2. CASE status[d] # "ok"
    BY <1>1, <2>2, StepFits DEF Fits, Place
  <2> QED
    BY <2>1, <2>2
<1>8. Took(d) = In(kind, d)[Place(d)]
  BY <1>5, <1>7 DEF Took, Partly
<1>9. /\ Place(d) <= DataStep + 1
      /\ Out(kind, d)[Place(d)] <= Out(kind, d)[DataStep + 1]
      /\ In(kind, e)[DataStep] + Size = Out(kind, d)[DataStep + 1]
  <2>1. In(kind, d)[Place(d)] <= In(kind, d)[DataStep + 1]
    BY <1>1, <1>2, <1>3, <1>4, <1>8, DataFirst
  <2> QED
    BY <1>1, <1>2, <1>6, <2>1, DataFirst
<1>10. status[d] # "ok"
  <2> SUFFICES ASSUME status[d] = "ok" PROVE FALSE
    OBVIOUS
  <2>1. PICK n \in {7, 8} : Len(Script(d)) = n
    BY <1>1, ScriptLengths
  <2>2. pc[d] = n /\ Place(d) = pc[d] + 1
    BY <1>1, <2>1 DEF Places, Place
  <2> QED
    BY <1>9, <2>2 DEF DataStep
<1>11. Place(d) = pc[d]
  BY <1>10 DEF Place
<1>12. Wrote(d) <= Out(kind, d)[DataStep + 1]
  BY <1>1, <1>9, <1>10, <1>11, WroteBelow
<1> QED
  BY <1>9, <1>10, <1>12

\* When the last answer is there to be read, the server has returned.
LEMMA AtLast ==
  ASSUME TypeOK, Places, Streams, status["client"] # "ok",
         pc["client"] = Len(Script("client")),
         Len(wire["server"]) >= Step("client").len
  PROVE  status["server"] = "ok"
<1>1. /\ "client" \in Ends /\ "server" \in Ends /\ kind \in Tasks
      /\ Peer["server"] = "client"
      /\ Script("client") = ScriptOf(kind, "client")
      /\ Script("server") = ScriptOf(kind, "server")
  <2>1. "client" \in Ends /\ "server" \in Ends
    BY DEF Ends
  <2> QED
    BY <2>1, ScriptIs DEF Peer
<1>2. PICK n \in {7, 8} :
        /\ Steps(kind) = n /\ Len(Script("client")) = n
        /\ Len(Script("server")) = n
  BY <1>1, ScriptLengths
<1>3. pc["client"] = n /\ pc["server"] \in 1..n
  BY <1>1, <1>2, StepFits
<1>4. Step("client").op = "get"
  BY <1>1, <1>2, <1>3, StepFits, ServerFirst
<1>5. PICK t \in Nat, l \in Nat :
        /\ Took("client") = t /\ Step("client").len = l
        /\ In(kind, "client")[n + 1] = t + l
  <2>1. PICK t \in Nat, l \in Nat :
          /\ Took("client") = t /\ Step("client").len = l
          /\ In(kind, "client")[pc["client"] + 1] = t + l
    BY <1>1, <1>4, ReadsField
  <2> QED
    BY <1>3, <2>1
<1>6. PICK w \in Nat : Wrote("server") = w
  BY <1>1, CountsTyped
<1>7. w >= t + l
  <2>1. Len(wire["server"]) = w - t
    BY <1>1, <1>5, <1>6 DEF Streams, Piece
  <2> QED
    BY <1>5, <1>6, <2>1
<1>8. ASSUME status["server"] # "ok" PROVE FALSE
  <2>1. \A q \in 1..n : Out(kind, "server")[q] < t + l
    BY <1>1, <1>2, <1>5, ServerFirst
  <2>2. CASE w = Out(kind, "server")[pc["server"]]
    BY <1>3, <1>5, <1>6, <1>7, <2>1, <2>2
  <2>3. CASE w <= Out(kind, "server")[DataStep + 1]
    <3>1. DataStep + 1 \in 1..n
      BY <1>2 DEF DataStep
    <3>2. PICK o \in Nat : Out(kind, "server")[DataStep + 1] = o
      BY <3>1, <1>1, <1>2, ScriptIs, ScriptsFit DEF Fits
    <3> QED
      BY <1>5, <1>6, <1>7, <2>1, <2>3, <3>1, <3>2
  <2> QED
    BY <1>1, <1>6, <1>8, <2>2, <2>3, WroteBelow
<1> QED
  BY <1>8

\* A server that has returned leaves its client all that it still reads, and
\* the other way round.
LEMMA NoneCut == TypeOK /\ Places /\ Streams => NeverCutShort
<1> SUFFICES ASSUME TypeOK, Places, Streams, NEW e \in Ends, Running(e),
                    status[Peer[e]] = "ok"
             PROVE  /\ Step(e).op # "recv"
                    /\ Step(e).op = "get" =>
                         Len(wire[Peer[e]]) >= Step(e).len
  BY DEF NeverCutShort
<1> DEFINE d == Peer[e]
<1>1. /\ d \in Ends /\ Peer[d] = e /\ kind \in Tasks
      /\ Script(d) = ScriptOf(kind, d) /\ Script(e) = ScriptOf(kind, e)
  BY ScriptIs
<1>2. status[e] # "ok"
  BY DEF Running
<1>3. Step(e).op # "recv"
  BY <1>2, AtRecv
<1>4. ASSUME Step(e).op = "get" PROVE Len(wire[d]) >= Step(e).len
  <2>1. PICK n \in {7, 8} :
          /\ Steps(kind) = n /\ Len(Script(e)) = n /\ Len(Script(d)) = n
    BY <1>1, ScriptLengths
  <2>2. pc[d] = n /\ Place(d) = n + 1 /\ pc[e] \in 1..n
    <3>1. pc[d] = n
      BY <1>1, <2>1 DEF Places
    <3> QED
      BY <2>1, <3>1, StepFits DEF Place
  <2>3. PICK t \in Nat, l \in Nat :
          /\ Took(e) = t /\ Step(e).len = l
          /\ In(kind, e)[pc[e] + 1] = t + l
    BY <1>2, <1>4, ReadsField
  <2>4. PICK w \in Nat : Wrote(d) = w
    BY <1>1, CountsTyped
  <2>5. w = Out(kind, d)[n + 1]
    <3>1. Step(d).op # "send" /\ Out(kind, d)[n + 1] \in Nat
      BY <1>1, <2>1, <2>2, StepFits DEF Fits, DataStep
    <3> QED
      BY <2>2, <2>4, <3>1 DEF Wrote, Partly
  <2>6. t + l <= w
    BY <1>1, <2>1, <2>2, <2>3, <2>5, AllWritten
  <2>7. Len(wire[d]) = w - t
    BY <1>1, <2>3, <2>4 DEF Streams, Piece
  <2> QED
    BY <2>3, <2>4, <2>6, <2>7
<1> QED
  BY <1>3, <1>4

-----------------------------------------------------------------------------
(* The actions.                                                            *)

LEMMA InitialInv == Init => IInv
<1> SUFFICES ASSUME Init PROVE IInv
  OBVIOUS
<1>1. TypeOK
  <2>1. misread \in BOOLEAN
    BY Zenon DEF Init
  <2>2. /\ pc \in [Ends -> 1..8] /\ moved \in [Ends -> 0..Size]
        /\ wire \in [Ends -> Seq(Fields)]
        /\ \A e \in Ends : Len(wire[e]) <= Window
    BY TransferConstants DEF Init
  <2> QED
    BY <2>1, <2>2 DEF Init, TypeOK, Fields
<1>2. ASSUME NEW e \in Ends
      PROVE  pc[e] = 1 /\ moved[e] = 0 /\ status[e] = "running"
             /\ wire[e] = << >>
  BY <1>2 DEF Init
<1>3. Places
  <2> SUFFICES ASSUME NEW e \in Ends
               PROVE  /\ pc[e] <= Len(Script(e))
                      /\ status[e] = "ok" => pc[e] = Len(Script(e))
                      /\ pc[e] < DataStep => moved[e] = 0
                      /\ pc[e] = DataStep => moved[e] < Size
    BY DEF Places
  <2>1. PICK n \in {7, 8} : Len(Script(e)) = n
    BY <1>1, ScriptIs
  <2> QED
    BY <1>2, <2>1 DEF DataStep
<1>4. ASSUME NEW e \in Ends PROVE Wrote(e) = 0 /\ Took(e) = 0
  <2>1. Out(kind, e)[1] = 0 /\ In(kind, e)[1] = 0
    BY DEF Out, In
  <2>2. Place(e) = 1 /\ Partly(e, "send") = 0 /\ Partly(e, "recv") = 0
    BY <1>2 DEF Place, Partly
  <2> QED
    BY <2>1, <2>2 DEF Wrote, Took
<1>5. Streams
  <2> SUFFICES ASSUME NEW e \in Ends
               PROVE  Piece(wire[e], kind, e, Took(Peer[e]), Wrote(e))
    BY DEF Streams
  <2>1. Took(Peer[e]) = 0 /\ Wrote(e) = 0 /\ wire[e] = << >>
    BY <1>1, <1>2, <1>4, ScriptIs
  <2>2. Piece(<< >>, kind, e, 0, 0)
    BY DEF Piece
  <2> QED
    BY <2>1, <2>2
<1>6. FieldsAligned
  BY DEF Init, FieldsAligned
<1> QED
  BY <1>1, <1>3, <1>5, <1>6 DEF IInv

\* The other end of a step keeps its place.
LEMMA PlacesKept ==
  ASSUME Places, NEW e \in Ends, UNCHANGED kind,
         pc'[e] <= Len(Script(e)),
         status'[e] = "ok" => pc'[e] = Len(Script(e)),
         pc'[e] < DataStep => moved'[e] = 0,
         pc'[e] = DataStep => moved'[e] < Size,
         \A d \in Ends \ {e} :
           pc'[d] = pc[d] /\ status'[d] = status[d] /\ moved'[d] = moved[d]
  PROVE  Places'
<1>1. \A d \in Ends : Script(d)' = Script(d)
  BY DEF Script
<1> QED
  BY <1>1 DEF Places

LEMMA PutStep ==
  ASSUME IInv, NEW e \in Ends, PutField(e)
  PROVE  IInv'
<1> DEFINE f == Step(e)
<1>1. TypeOK /\ Places /\ Streams /\ FieldsAligned
  BY DEF IInv
<1>2. /\ status[e] = "running" /\ f.op = "put" /\ Write(e, f.what, f.len)
      /\ Advance(e) /\ UNCHANGED <<kind, moved, misread>>
  BY DEF PutField, Running
<1>3. /\ f.what \in Fields /\ f.len \in Nat
      /\ Out(kind, e)[pc[e] + 1] = Out(kind, e)[pc[e]] + f.len
      /\ In(kind, e)[pc[e] + 1] = In(kind, e)[pc[e]]
      /\ Carries(kind, e, Out(kind, e)[pc[e]], f.len, f.what)
      /\ Out(kind, e)[pc[e]] \in Nat /\ In(kind, e)[pc[e]] \in Nat
  BY <1>1, <1>2, StepFits DEF Fits
<1>4. pc[e] < DataStep => moved'[e] = 0
  BY <1>1, <1>2 DEF Places
<1>5. /\ Wrote(e)' = Out(kind, e)[pc[e] + 1]
      /\ Took(e)' = In(kind, e)[pc[e] + 1]
      /\ pc' \in [Ends -> 1..8]
      /\ status' \in [Ends -> {"running", "ok", "failed"}]
      /\ up' \in [Ends -> BOOLEAN]
      /\ pc'[e] <= Len(Script(e))
      /\ status'[e] = "ok" => pc'[e] = Len(Script(e))
      /\ pc'[e] < DataStep => moved'[e] = 0
      /\ pc'[e] = DataStep => moved'[e] < Size
      /\ \A d \in Ends \ {e} : pc'[d] = pc[d] /\ status'[d] = status[d]
  BY <1>1, <1>2, <1>4, Advanced
<1>6. Wrote(e) = Out(kind, e)[pc[e]] /\ Took(e) = In(kind, e)[pc[e]]
  BY <1>1, <1>2, <1>3, RunningCounts
<1> HIDE DEF f
<1>7. Wrote(e)' = Wrote(e) + f.len /\ Took(e)' = Took(e)
  BY <1>3, <1>5, <1>6
<1>8. \A d \in Ends \ {e} : Wrote(d)' = Wrote(d) /\ Took(d)' = Took(d)
  BY <1>2, <1>5, OtherEnd
<1>9. Carries(kind, e, Wrote(e), f.len, f.what)
  BY <1>3, <1>6
<1>10. /\ Streams' /\ wire' \in [Ends -> Seq(Fields)]
       /\ \A d \in Ends : Len(wire'[d]) <= Window
  BY <1>1, <1>2, <1>3, <1>7, <1>8, <1>9, StreamsWritten
<1>11. Places'
  BY <1>1, <1>2, <1>5, PlacesKept
<1>12. FieldsAligned'
  BY <1>1, <1>2 DEF FieldsAligned
<1>13. TypeOK'
  <2>1. misread' \in BOOLEAN /\ kind' \in Kinds /\ moved' \in [Ends -> 0..Size]
    BY <1>1, <1>2 DEF TypeOK
  <2> QED
    BY <2>1, <1>5, <1>10 DEF TypeOK, Fields
<1> QED
  BY <1>10, <1>11, <1>12, <1>13 DEF IInv

LEMMA GetStep ==
  ASSUME IInv, NEW e \in Ends, GetField(e)
  PROVE  IInv'
<1> DEFINE f == Step(e)
<1>1. TypeOK /\ Places /\ Streams /\ FieldsAligned
  BY DEF IInv
<1>2. /\ status[e] = "running" /\ f.op = "get" /\ Consume(e, f.what, f.len)
      /\ f.len <= Len(wire[Peer[e]])
      /\ Advance(e) /\ UNCHANGED <<kind, moved>>
  <2>1. f.len \in Nat
    BY <1>1, StepFits DEF Fits
  <2>2. Len(wire[Peer[e]]) \in Nat
    BY <1>1, ScriptIs DEF TypeOK
  <2> QED
    BY <2>1, <2>2 DEF GetField, Running
<1>3. /\ f.len \in Nat
      /\ In(kind, e)[pc[e] + 1] = In(kind, e)[pc[e]] + f.len
      /\ Out(kind, e)[pc[e] + 1] = Out(kind, e)[pc[e]]
      /\ Carries(kind, Peer[e], In(kind, e)[pc[e]], f.len, f.what)
      /\ Out(kind, e)[pc[e]] \in Nat /\ In(kind, e)[pc[e]] \in Nat
  BY <1>1, <1>2, StepFits DEF Fits
<1>4. pc[e] < DataStep => moved'[e] = 0
  BY <1>1, <1>2 DEF Places
<1>5. /\ Wrote(e)' = Out(kind, e)[pc[e] + 1]
      /\ Took(e)' = In(kind, e)[pc[e] + 1]
      /\ pc' \in [Ends -> 1..8]
      /\ status' \in [Ends -> {"running", "ok", "failed"}]
      /\ up' \in [Ends -> BOOLEAN]
      /\ pc'[e] <= Len(Script(e))
      /\ status'[e] = "ok" => pc'[e] = Len(Script(e))
      /\ pc'[e] < DataStep => moved'[e] = 0
      /\ pc'[e] = DataStep => moved'[e] < Size
      /\ \A d \in Ends \ {e} : pc'[d] = pc[d] /\ status'[d] = status[d]
  BY <1>1, <1>2, <1>4, Advanced
<1>6. Wrote(e) = Out(kind, e)[pc[e]] /\ Took(e) = In(kind, e)[pc[e]]
  BY <1>1, <1>2, <1>3, RunningCounts
<1> HIDE DEF f
<1>7. Took(e)' = Took(e) + f.len /\ Wrote(e)' = Wrote(e)
  BY <1>3, <1>5, <1>6
<1>8. \A d \in Ends \ {e} : Wrote(d)' = Wrote(d) /\ Took(d)' = Took(d)
  BY <1>2, <1>5, OtherEnd
<1>9. Carries(kind, Peer[e], Took(e), f.len, f.what)
  BY <1>3, <1>6
<1>10. /\ Streams' /\ FieldsAligned' /\ wire' \in [Ends -> Seq(Fields)]
       /\ \A d \in Ends : Len(wire'[d]) <= Window
  BY <1>1, <1>2, <1>3, <1>7, <1>8, <1>9, StreamsRead
<1>11. Places'
  BY <1>1, <1>2, <1>5, PlacesKept
<1>12. TypeOK'
  <2>1. kind' \in Kinds /\ moved' \in [Ends -> 0..Size]
    BY <1>1, <1>2 DEF TypeOK
  <2>2. misread' \in BOOLEAN
    BY <1>2, Zenon DEF Consume
  <2> QED
    BY <2>1, <2>2, <1>5, <1>10 DEF TypeOK, Fields
<1> QED
  BY <1>10, <1>11, <1>12 DEF IInv

\* A round of a data loop: the end counts what it has moved, and goes on when
\* that is all.
LEMMA DataMoved ==
  ASSUME TypeOK, Places, NEW e \in Ends, status[e] = "running",
         Step(e).op \in {"send", "recv"}, UNCHANGED kind,
         NEW n \in Nat, moved[e] + n <= Size,
         moved' = [moved EXCEPT ![e] = @ + n],
         IF moved'[e] >= Size THEN Advance(e) ELSE UNCHANGED <<pc, status, up>>
  PROVE  /\ Step(e).op = "send" =>
              Wrote(e)' = Wrote(e) + n /\ Took(e)' = Took(e)
         /\ Step(e).op = "recv" =>
              Took(e)' = Took(e) + n /\ Wrote(e)' = Wrote(e)
         /\ \A d \in Ends \ {e} : Wrote(d)' = Wrote(d) /\ Took(d)' = Took(d)
         /\ pc' \in [Ends -> 1..8]
         /\ moved' \in [Ends -> 0..Size]
         /\ status' \in [Ends -> {"running", "ok", "failed"}]
         /\ up' \in [Ends -> BOOLEAN]
         /\ Places'
<1>1. PICK m \in Nat : moved[e] = m
  BY StepFits
<1>2. /\ moved \in [Ends -> 0..Size] /\ Size \in Nat
      /\ pc \in [Ends -> 1..8] /\ up \in [Ends -> BOOLEAN]
      /\ status \in [Ends -> {"running", "ok", "failed"}]
  BY TransferConstants DEF TypeOK
<1>3. /\ moved'[e] = m + n /\ moved' \in [Ends -> 0..Size]
      /\ \A d \in Ends \ {e} : moved'[d] = moved[d]
  BY <1>1, <1>2
<1>4. /\ pc[e] = DataStep
      /\ Step(e).op = "send" =>
           /\ Out(kind, e)[pc[e] + 1] = Out(kind, e)[pc[e]] + Size
           /\ In(kind, e)[pc[e] + 1] = In(kind, e)[pc[e]]
      /\ Step(e).op = "recv" =>
           /\ In(kind, e)[pc[e] + 1] = In(kind, e)[pc[e]] + Size
           /\ Out(kind, e)[pc[e] + 1] = Out(kind, e)[pc[e]]
  BY StepFits DEF Fits
<1>5. PICK o \in Nat, i \in Nat :
        Out(kind, e)[pc[e]] = o /\ In(kind, e)[pc[e]] = i
  BY StepFits DEF Fits
<1>6. /\ Step(e).op = "send" => Wrote(e) = o + m /\ Took(e) = i
      /\ Step(e).op = "recv" => Wrote(e) = o /\ Took(e) = i + m
  BY <1>1, <1>5, RunningCounts
<1>7. CASE m + n >= Size
  <2>1. m + n = Size
    BY <1>1, <1>2, <1>7
  <2>2. Advance(e)
    BY <1>3, <1>7
  <2>3. pc[e] < DataStep => moved'[e] = 0
    BY <1>4 DEF DataStep
  <2>4. /\ Wrote(e)' = Out(kind, e)[pc[e] + 1]
        /\ Took(e)' = In(kind, e)[pc[e] + 1]
        /\ pc' \in [Ends -> 1..8]
        /\ status' \in [Ends -> {"running", "ok", "failed"}]
        /\ up' \in [Ends -> BOOLEAN]
        /\ pc'[e] <= Len(Script(e))
        /\ status'[e] = "ok" => pc'[e] = Len(Script(e))
        /\ pc'[e] < DataStep => moved'[e] = 0
        /\ pc'[e] = DataStep => moved'[e] < Size
        /\ \A d \in Ends \ {e} : pc'[d] = pc[d] /\ status'[d] = status[d]
    BY <2>2, <2>3, Advanced
  <2>5. Places'
    BY <1>3, <2>4, PlacesKept
  <2>6. \A d \in Ends \ {e} : Wrote(d)' = Wrote(d) /\ Took(d)' = Took(d)
    BY <1>3, <2>4, OtherEnd
  <2>7. o + Size = (o + m) + n /\ i + Size = (i + m) + n
    BY <2>1
  <2>8. /\ Step(e).op = "send" =>
             Wrote(e)' = Wrote(e) + n /\ Took(e)' = Took(e)
        /\ Step(e).op = "recv" =>
             Took(e)' = Took(e) + n /\ Wrote(e)' = Wrote(e)
    BY <1>4, <1>5, <1>6, <2>4, <2>7
  <2> QED
    BY <1>3, <2>4, <2>5, <2>6, <2>8
<1>8. CASE m + n < Size
  <2>1. UNCHANGED <<pc, status, up>>
    BY <1>2, <1>3, <1>8
  <2>2. Step(e)' = Step(e) /\ Script(e)' = Script(e)
    BY <2>1 DEF Step, Script
  <2>3. Place(e)' = pc[e]
    BY <2>1 DEF Place
  <2>4. Out(kind, e)' = Out(kind, e) /\ In(kind, e)' = In(kind, e)
    BY DEF Out, In
  <2>5. /\ Partly(e, "send")' = IF Step(e).op = "send" THEN m + n ELSE 0
        /\ Partly(e, "recv")' = IF Step(e).op = "recv" THEN m + n ELSE 0
    BY <1>3, <2>2 DEF Partly
  <2>6. o + (m + n) = (o + m) + n /\ i + (m + n) = (i + m) + n
        /\ o + 0 = o /\ i + 0 = i
    OBVIOUS
  <2>7. /\ Step(e).op = "send" =>
             Wrote(e)' = Wrote(e) + n /\ Took(e)' = Took(e)
        /\ Step(e).op = "recv" =>
             Took(e)' = Took(e) + n /\ Wrote(e)' = Wrote(e)
    BY <1>5, <1>6, <2>3, <2>4, <2>5, <2>6 DEF Wrote, Took
  <2>8. Places'
    <3>1. pc[e] <= Len(Script(e)) /\ status[e] # "ok"
      BY DEF Places
    <3>2. /\ pc'[e] < DataStep => moved'[e] = 0
          /\ pc'[e] = DataStep => moved'[e] < Size
      BY <1>3, <1>4, <1>8, <2>1 DEF DataStep
    <3> QED
      BY <1>3, <2>1, <3>1, <3>2, PlacesKept
  <2>9. \A d \in Ends \ {e} : Wrote(d)' = Wrote(d) /\ Took(d)' = Took(d)
    BY <1>3, <2>1, OtherEnd
  <2> QED
    BY <1>2, <1>3, <2>1, <2>7, <2>8, <2>9
<1> QED
  BY <1>2, <1>7, <1>8

\* A part of the data is data.
LEMMA CarriesPart ==
  ASSUME NEW k, NEW e, NEW what, NEW at \in Nat, NEW len \in Nat,
         Carries(k, e, at, len, what),
         NEW m \in Nat, NEW n \in Nat, m + n <= len
  PROVE  Carries(k, e, at + m, n, what)
<1> SUFFICES ASSUME NEW j \in 1..n
             PROVE  Layout(k, e, (at + m) + j) = what
  BY DEF Carries
<1>1. m + j \in 1..len /\ (at + m) + j = at + (m + j)
  OBVIOUS
<1> QED
  BY <1>1 DEF Carries

LEMMA SendStep ==
  ASSUME IInv, NEW e \in Ends, SendChunk(e)
  PROVE  IInv'
<1>1. TypeOK /\ Places /\ Streams /\ FieldsAligned
  BY DEF IInv
<1>2. /\ status[e] = "running" /\ Step(e).op = "send"
      /\ Write(e, "data", ChunkLen(e))
      /\ moved' = [moved EXCEPT ![e] = @ + ChunkLen(e)]
      /\ IF moved'[e] >= Size THEN Advance(e)
         ELSE UNCHANGED <<pc, status, up>>
      /\ UNCHANGED <<kind, misread>>
  BY DEF SendChunk, Running
<1>3. /\ pc[e] = DataStep
      /\ Carries(kind, e, Out(kind, e)[pc[e]], Size, "data")
  BY <1>1, <1>2, StepFits DEF Fits
<1>4. PICK m \in Nat : moved[e] = m /\ m < Size
  BY <1>1, <1>3, StepFits DEF Places
<1>5. PICK o \in Nat : Out(kind, e)[pc[e]] = o
  BY <1>1, StepFits DEF Fits
<1>6. PICK n \in Nat : ChunkLen(e) = n /\ m + n <= Size
  BY <1>4, TransferConstants DEF ChunkLen, Min
<1>7. Wrote(e) = o + m
  BY <1>1, <1>2, <1>4, <1>5, RunningCounts
<1>8. Carries(kind, e, Wrote(e), n, "data")
  <2>1. Size \in Nat
    BY TransferConstants
  <2>2. Carries(kind, e, o, Size, "data")
    BY <1>3, <1>5
  <2> QED
    BY <1>6, <1>7, <2>1, <2>2, CarriesPart
<1>9. moved[e] + n <= Size /\ moved' = [moved EXCEPT ![e] = @ + n]
  BY <1>2, <1>4, <1>6
<1>10. /\ Wrote(e)' = Wrote(e) + n /\ Took(e)' = Took(e)
       /\ \A d \in Ends \ {e} : Wrote(d)' = Wrote(d) /\ Took(d)' = Took(d)
       /\ pc' \in [Ends -> 1..8]
       /\ moved' \in [Ends -> 0..Size]
       /\ status' \in [Ends -> {"running", "ok", "failed"}]
       /\ up' \in [Ends -> BOOLEAN]
       /\ Places'
  BY <1>1, <1>2, <1>9, DataMoved
<1>11. /\ Streams' /\ wire' \in [Ends -> Seq(Fields)]
       /\ \A d \in Ends : Len(wire'[d]) <= Window
  <2>1. "data" \in Fields /\ Write(e, "data", n)
    BY <1>2, <1>6 DEF Fields
  <2> QED
    BY <1>1, <1>2, <1>8, <1>10, <2>1, StreamsWritten
<1>12. FieldsAligned'
  BY <1>1, <1>2 DEF FieldsAligned
<1>13. TypeOK'
  <2>1. misread' \in BOOLEAN /\ kind' \in Kinds
    BY <1>1, <1>2 DEF TypeOK
  <2> QED
    BY <2>1, <1>10, <1>11 DEF TypeOK, Fields
<1> QED
  BY <1>10, <1>11, <1>12, <1>13 DEF IInv

\* A Read takes what has arrived, and that is no more than the data: the
\* sender goes on only when the receiver has answered.
LEMMA ReceiveStep ==
  ASSUME IInv, NEW e \in Ends, ReceiveChunk(e)
  PROVE  IInv'
<1>1. TypeOK /\ Places /\ Streams /\ FieldsAligned
  BY DEF IInv
<1>2. /\ Peer[e] \in Ends /\ Peer[Peer[e]] = e
      /\ Len(wire[Peer[e]]) \in Nat
  <2>1. Peer[e] \in Ends /\ Peer[Peer[e]] = e
    BY <1>1, ScriptIs
  <2> QED
    BY <1>1, <2>1 DEF TypeOK
<1>3. PICK n \in Nat :
        /\ n <= Len(wire[Peer[e]])
        /\ Consume(e, "data", n)
        /\ moved' = [moved EXCEPT ![e] = @ + n]
  <2>1. PICK n \in 1..Min(ChunkSize, Len(wire[Peer[e]])) :
          /\ Consume(e, "data", n)
          /\ moved' = [moved EXCEPT ![e] = @ + n]
    BY DEF ReceiveChunk
  <2>2. n \in Nat /\ n <= Len(wire[Peer[e]])
    BY <1>2, TransferConstants DEF Min
  <2> QED
    BY <2>1, <2>2
<1>4. /\ status[e] = "running" /\ Step(e).op = "recv"
      /\ IF moved'[e] >= Size THEN Advance(e)
         ELSE UNCHANGED <<pc, status, up>>
      /\ UNCHANGED kind
  BY DEF ReceiveChunk, Running
<1>5. /\ pc[e] = DataStep
      /\ Carries(kind, Peer[e], In(kind, e)[pc[e]], Size, "data")
  BY <1>1, <1>4, StepFits DEF Fits
<1>6. PICK m \in Nat : moved[e] = m
  BY <1>1, StepFits
<1>7. PICK i \in Nat : In(kind, e)[pc[e]] = i
  BY <1>1, StepFits DEF Fits
<1>8. Took(e) = i + m
  BY <1>1, <1>4, <1>6, <1>7, RunningCounts
<1>9. m + n <= Size
  <2>1. PICK w \in Nat : Wrote(Peer[e]) = w
    BY <1>1, <1>2, CountsTyped
  <2>2. w <= i + Size
    BY <1>1, <1>4, <1>5, <1>7, <2>1, AtRecv
  <2>3. Len(wire[Peer[e]]) = w - (i + m)
    BY <1>1, <1>2, <1>8, <2>1 DEF Streams, Piece
  <2> QED
    BY <1>3, <2>1, <2>2, <2>3, TransferConstants
<1>10. Carries(kind, Peer[e], Took(e), n, "data")
  <2>1. Size \in Nat
    BY TransferConstants
  <2>2. Carries(kind, Peer[e], i, Size, "data")
    BY <1>5, <1>7
  <2> QED
    BY <1>8, <1>9, <2>1, <2>2, CarriesPart
<1>11. moved[e] + n <= Size
  BY <1>6, <1>9
<1>12. /\ Took(e)' = Took(e) + n /\ Wrote(e)' = Wrote(e)
       /\ \A d \in Ends \ {e} : Wrote(d)' = Wrote(d) /\ Took(d)' = Took(d)
       /\ pc' \in [Ends -> 1..8]
       /\ moved' \in [Ends -> 0..Size]
       /\ status' \in [Ends -> {"running", "ok", "failed"}]
       /\ up' \in [Ends -> BOOLEAN]
       /\ Places'
  BY <1>1, <1>3, <1>4, <1>11, DataMoved
<1>13. /\ Streams' /\ FieldsAligned' /\ wire' \in [Ends -> Seq(Fields)]
       /\ \A d \in Ends : Len(wire'[d]) <= Window
  BY <1>1, <1>3, <1>4, <1>10, <1>12, StreamsRead
<1>14. TypeOK'
  <2>1. kind' \in Kinds
    BY <1>1, <1>4 DEF TypeOK
  <2>2. misread' \in BOOLEAN
    BY <1>3, Zenon DEF Consume
  <2> QED
    BY <2>1, <2>2, <1>12, <1>13 DEF TypeOK, Fields
<1> QED
  BY <1>12, <1>13, <1>14 DEF IInv

\* What becomes of a connection, and a failure, moves nothing.
LEMMA NothingMoves ==
  ASSUME IInv, UNCHANGED <<kind, pc, moved, wire, misread>>,
         up' \in [Ends -> BOOLEAN],
         status' \in [Ends -> {"running", "ok", "failed"}],
         \A d \in Ends : status'[d] = "ok" <=> status[d] = "ok"
  PROVE  IInv'
<1>1. TypeOK /\ Places /\ Streams /\ FieldsAligned
  BY DEF IInv
<1>2. \A d \in Ends : Wrote(d)' = Wrote(d) /\ Took(d)' = Took(d)
  BY OtherEnd
<1>3. \A d \in Ends : Peer[d] \in Ends /\ Script(d)' = Script(d)
  BY DEF Peer, Ends, Script
<1>4. Streams'
  BY <1>1, <1>2, <1>3 DEF Streams
<1>5. Places'
  BY <1>1, <1>3 DEF Places
<1>6. FieldsAligned'
  BY <1>1 DEF FieldsAligned
<1>7. TypeOK'
  <2>1. misread' \in BOOLEAN
    BY <1>1, Zenon DEF TypeOK
  <2> QED
    BY <1>1, <2>1 DEF TypeOK
<1> QED
  BY <1>4, <1>5, <1>6, <1>7 DEF IInv

LEMMA Inductive == IInv /\ [Next]_vars => IInv'
<1> SUFFICES ASSUME IInv, [Next]_vars PROVE IInv'
  OBVIOUS
<1>1. /\ up \in [Ends -> BOOLEAN]
      /\ status \in [Ends -> {"running", "ok", "failed"}]
  BY DEF IInv, TypeOK
<1>2. ASSUME NEW e \in Ends, PutField(e) PROVE IInv'
  BY <1>2, PutStep
<1>3. ASSUME NEW e \in Ends, GetField(e) PROVE IInv'
  BY <1>3, GetStep
<1>4. ASSUME NEW e \in Ends, SendChunk(e) PROVE IInv'
  BY <1>4, SendStep
<1>5. ASSUME NEW e \in Ends, ReceiveChunk(e) PROVE IInv'
  BY <1>5, ReceiveStep
<1>6. ASSUME NEW e \in Ends, Fail(e) PROVE IInv'
  <2>1. /\ UNCHANGED <<kind, pc, moved, wire, misread>>
        /\ status[e] = "running"
        /\ status' = [status EXCEPT ![e] = "failed"]
        /\ up' \in [Ends -> BOOLEAN]
    BY <1>1, <1>6 DEF Fail, Return
  <2>2. /\ status' \in [Ends -> {"running", "ok", "failed"}]
        /\ \A d \in Ends : status'[d] = "ok" <=> status[d] = "ok"
    BY <1>1, <2>1
  <2> QED
    BY <2>1, <2>2, NothingMoves
<1>7. ASSUME NEW e \in Ends, Lost(e) PROVE IInv'
  <2>1. /\ UNCHANGED <<kind, pc, moved, wire, misread>> /\ status' = status
        /\ up' \in [Ends -> BOOLEAN]
    BY <1>1, <1>7 DEF Lost
  <2> QED
    BY <1>1, <2>1, NothingMoves
<1>8. CASE UNCHANGED vars
  <2>1. /\ UNCHANGED <<kind, pc, moved, wire, misread>> /\ status' = status
        /\ up' = up
    BY <1>8 DEF vars
  <2> QED
    BY <1>1, <2>1, NothingMoves
<1> QED
  BY <1>2, <1>3, <1>4, <1>5, <1>6, <1>7, <1>8
     DEF Next, Work, Drop, TimeOut, Over

-----------------------------------------------------------------------------
(***************************************************************************)
(* Where the ends are in their scripts, and what is under way between      *)
(* them, always agree: the invariant the other theorems rest on.           *)
(***************************************************************************)
THEOREM Invariant == Spec => []IInv
<1>1. Init => IInv
  BY InitialInv
<1>2. IInv /\ [Next]_vars => IInv'
  BY Inductive
<1> QED
  BY <1>1, <1>2, PTL DEF Spec

(***************************************************************************)
(* The variables keep their types: no more data is ever counted than the   *)
(* task has, and no more is under way than flow control allows.            *)
(***************************************************************************)
THEOREM TypeCorrect == Spec => []TypeOK
<1>1. IInv => TypeOK
  BY DEF IInv
<1> QED
  BY <1>1, Invariant, PTL

(***************************************************************************)
(* Every number and every mark is read from the bytes written for it, in   *)
(* runUploadTask and runDownloadTask of either end.                        *)
(***************************************************************************)
THEOREM FieldsAlwaysAligned == Spec => []FieldsAligned
<1>1. IInv => FieldsAligned
  BY DEF IInv
<1> QED
  BY <1>1, Invariant, PTL

(***************************************************************************)
(* An end that has returned success leaves its peer all that it waits for, *)
(* so no read ever ends short of its field or of the data.                 *)
(***************************************************************************)
THEOREM NeverCut == Spec => []NeverCutShort
<1>1. IInv => NeverCutShort
  BY NoneCut DEF IInv
<1> QED
  BY <1>1, Invariant, PTL

-----------------------------------------------------------------------------
(* The implementation of TaskOutcome, but for its fairness.                *)

\* A step of the client's script after which it returns success is one after
\* the server has.
LEMMA ClientLast ==
  ASSUME IInv, NEW e \in Ends, e = "client", status[e] = "running",
         pc[e] = Len(Script(e)),
         Step(e).op = "get" => Len(wire[Peer[e]]) >= Step(e).len
  PROVE  status["server"] = "ok"
<1>1. TypeOK /\ Places /\ Streams
  BY DEF IInv
<1>2. kind \in Tasks /\ Script(e) = ScriptOf(kind, e)
  BY <1>1, ScriptIs
<1>3. pc[e] = Steps(kind) /\ Step(e) = ScriptOf(kind, e)[pc[e]]
  BY <1>1, <1>2, ScriptLengths, StepFits
<1>4. Step(e).op = "get"
  BY <1>2, <1>3, ServerFirst
<1>5. Peer[e] = "server"
  BY DEF Peer, Ends
<1> QED
  BY <1>1, <1>4, <1>5, AtLast

LEMMA OutcomeStep == IInv /\ [Next]_vars => [Outcome!Next]_(Outcome!vars)
<1> SUFFICES ASSUME IInv, [Next]_vars
             PROVE  \/ Outcome!Next
                    \/ UNCHANGED <<status["client"], status["server"]>>
  BY DEF Outcome!vars
<1> DEFINE Same == UNCHANGED <<status["client"], status["server"]>>
<1>1. /\ status \in [Ends -> {"running", "ok", "failed"}]
      /\ "client" \in Ends /\ "server" \in Ends
      /\ \A e \in Ends : e = "client" \/ e = "server"
  BY DEF IInv, TypeOK, Ends
<1>2. ASSUME NEW e \in Ends, status[e] = "running", Advance(e),
             Step(e).op = "get" => Len(wire[Peer[e]]) >= Step(e).len
      PROVE  Outcome!Next \/ Same
  <2>1. CASE pc[e] # Len(Script(e))
    BY <1>2, <2>1 DEF Advance
  <2>2. CASE pc[e] = Len(Script(e))
    <3>1. status' = [status EXCEPT ![e] = "ok"]
      BY <1>2, <2>2 DEF Advance, Return
    <3>2. CASE e = "client"
      <4>1. status["server"] = "ok"
        BY <1>2, <2>2, <3>2, ClientLast
      <4>2. Outcome!ClientSucceeds
        BY <1>1, <1>2, <3>1, <3>2, <4>1 DEF Outcome!ClientSucceeds
      <4> QED
        BY <4>2 DEF Outcome!Next
    <3>3. CASE e = "server"
      <4>1. Outcome!ServerEnds
        BY <1>1, <1>2, <3>1, <3>3 DEF Outcome!ServerEnds
      <4> QED
        BY <4>1 DEF Outcome!Next
    <3> QED
      BY <1>1, <3>2, <3>3
  <2> QED
    BY <2>1, <2>2
<1>3. ASSUME NEW e \in Ends, Fail(e) PROVE Outcome!Next
  <2>1. /\ status[e] = "running"
        /\ status' = [status EXCEPT ![e] = "failed"]
    BY <1>3 DEF Fail, Return
  <2>2. CASE e = "client"
    BY <1>1, <2>1, <2>2 DEF Outcome!ClientFails, Outcome!Next
  <2>3. CASE e = "server"
    BY <1>1, <2>1, <2>3 DEF Outcome!ServerEnds, Outcome!Next
  <2> QED
    BY <1>1, <2>2, <2>3
<1>4. ASSUME NEW e \in Ends, SendChunk(e) \/ ReceiveChunk(e)
      PROVE  Outcome!Next \/ Same
  <2>1. /\ status[e] = "running" /\ Step(e).op # "get"
        /\ Advance(e) \/ status' = status
    BY <1>4 DEF SendChunk, ReceiveChunk, Running
  <2> QED
    BY <1>2, <2>1
<1>5. ASSUME NEW e \in Ends, PutField(e) \/ GetField(e)
      PROVE  Outcome!Next \/ Same
  <2>1. /\ status[e] = "running" /\ Advance(e)
        /\ Step(e).op = "get" => Len(wire[Peer[e]]) >= Step(e).len
    BY <1>5 DEF PutField, GetField, Running
  <2> QED
    BY <1>2, <2>1
<1>6. ASSUME NEW e \in Ends, Lost(e) PROVE Same
  BY <1>6 DEF Lost
<1>7. CASE UNCHANGED vars
  BY <1>7 DEF vars
<1> QED
  BY <1>3, <1>4, <1>5, <1>6, <1>7 DEF Next, Work, Drop, TimeOut, Over

(***************************************************************************)
(* The safety of TaskOutcome: at every step the two results are what it    *)
(* allows, so the client never reports a task that the server has not      *)
(* completed.  (That the two ends return is ImplementsOutcome's liveness,  *)
(* and stays with TLC.)                                                    *)
(***************************************************************************)
THEOREM OutcomesAllowed ==
  Spec => Outcome!Init /\ [][Outcome!Next]_(Outcome!vars)
<1>1. Init => Outcome!Init
  BY DEF Init, Outcome!Init, Ends
<1>2. IInv /\ [Next]_vars => [Outcome!Next]_(Outcome!vars)
  BY OutcomeStep
<1> QED
  BY <1>1, <1>2, Invariant, PTL DEF Spec

=============================================================================
