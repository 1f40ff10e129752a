------------------------------ MODULE AutoRun ------------------------------
(***************************************************************************)
(* The -auto mode of client and server: both walk through the same list of *)
(* slot durations, the client doing TaskRounds uploads and downloads with  *)
(* each, a new connection for every task, the server serving tasksPerSlot  *)
(* of them.  Nothing tells either how far the other has come; they can     *)
(* only connect while both are at the same duration, because the duration  *)
(* decides the addresses.                                                  *)
(*                                                                         *)
(* Source: runAutoSlots, performTransferTasks and dialOnce of              *)
(* client/main.go; runAutoSlots, serveOnce and handleConn of               *)
(* server/main.go.  What the ends of a task may conclude is TaskOutcome's. *)
(***************************************************************************)
EXTENDS Naturals, Sequences, FiniteSets

CONSTANTS
  Durations,  \* the list of slot durations, the same in both programs
  Tasks,      \* 2 * TaskRounds in the client, tasksPerSlot in the server
  MaxFaults   \* bound: connections that break, answers that come too late

ASSUME AutoConstants ==
  /\ Durations \in Seq(Nat)
  /\ Tasks \in Nat \ {0}
  /\ MaxFaults \in Nat

Slots == 1..Len(Durations)
Finished == Len(Durations) + 1

VARIABLES
  cSlot,   \* the client's slot in the list, or Finished
  cDone,   \* the tasks the client has completed in it
  cConn,   \* where the client's connection is, see below
  sSlot,   \* the server's slot in the list, or Finished
  sDone,   \* the tasks the server has counted in it
  sTask,   \* where serveOnce is
  stale,   \* connections that the client has left unnoticed before Accept
  rows,    \* for each duration, the rows of results.csv
  unsaved, \* history: the rows that could not be written
  faults   \* faults so far

vars == <<cSlot, cDone, cConn, sSlot, sDone, sTask, stale, rows, unsaved,
          faults>>

DurationSet == {Durations[k] : k \in Slots}

\* The client has none; it waits for Accept, is being handled, has been
\* handled; the server has closed it; it has closed it after the last answer.
ConnStates == {"none", "queued", "running", "served", "closed", "late"}

\* Waiting in Accept; handling a connection; about to record its result;
\* handling one that the client had left before; waiting for the client to
\* close one.
ServerStates == {"accept", "handle", "record", "doomed", "wait"}

TypeOK ==
  /\ cSlot \in 1..Finished /\ sSlot \in 1..Finished
  /\ cDone \in 0..Tasks-1 /\ sDone \in 0..Tasks
  /\ cConn \in ConnStates
  /\ sTask \in ServerStates
  /\ stale \in 0..MaxFaults
  /\ rows \in [DurationSet -> Nat]
  /\ unsaved \in [DurationSet -> 0..MaxFaults]
  /\ faults \in 0..MaxFaults

Init ==
  /\ cSlot = 1 /\ cDone = 0 /\ cConn = "none"
  /\ sSlot = 1 /\ sDone = 0 /\ sTask = "accept"
  /\ stale = 0
  /\ rows = [d \in DurationSet |-> 0]
  /\ unsaved = [d \in DurationSet |-> 0]
  /\ faults = 0

Fault ==
  /\ faults < MaxFaults
  /\ faults' = faults + 1

-----------------------------------------------------------------------------
(* The client.                                                             *)

\* Mutant of Meet: addresses that do not depend on the duration.
MeetAnyway == cSlot \in Slots /\ sSlot \in Slots

Meet ==
  /\ cSlot \in Slots /\ sSlot \in Slots
  /\ Durations[cSlot] = Durations[sSlot]

\* dialOnce: the listener answers even while an earlier task is handled.
Dial ==
  /\ cConn = "none"
  /\ Meet
  /\ cConn' = "queued"
  /\ UNCHANGED <<cSlot, cDone, sSlot, sDone, sTask, stale, rows, unsaved, faults>>

\* A dial that fails is repeated after 2s, for ever.
DialAgain ==
  /\ cConn = "none"
  /\ cSlot \in Slots
  /\ ~Meet
  /\ UNCHANGED vars

\* What TaskSucceeds does when the client's connection has come this far, and
\* the client goes on to the next slot after this many tasks.
CountTask(states, tasks) ==
  /\ cConn \in states
  /\ cConn' = "none"
  /\ IF cDone + 1 < tasks
     THEN cDone' = cDone + 1 /\ UNCHANGED cSlot
     ELSE cDone' = 0 /\ cSlot' = cSlot + 1
  /\ UNCHANGED <<sSlot, sDone, sTask, stale, rows, unsaved, faults>>

\* Mutant of TaskSucceeds: no final ACK.
TaskUnacknowledged == CountTask({"running", "served", "late"}, Tasks)

\* The last answer arrives, perhaps when the server has closed its sockets.
TaskSucceeds == CountTask({"served", "late"}, Tasks)

\* The task fails and will be repeated: by a fault, or without one when the
\* server has closed the connection.
TaskFails ==
  /\ \/ cConn \in {"queued", "running", "served"} /\ Fault
     \/ cConn \in {"closed", "late"} /\ UNCHANGED faults
  /\ cConn' = "none"
  /\ stale' = IF cConn = "queued" THEN stale + 1 ELSE stale
  /\ UNCHANGED <<cSlot, cDone, sSlot, sDone, sTask, rows, unsaved>>

-----------------------------------------------------------------------------
(* The server.                                                             *)

\* Among the connections that wait, Accept returns any.
Accept ==
  /\ sTask = "accept"
  /\ sSlot \in Slots
  /\ \/ /\ cConn = "queued"
        /\ cConn' = "running"
        /\ sTask' = "handle"
        /\ UNCHANGED stale
     \/ /\ stale > 0
        /\ stale' = stale - 1
        /\ sTask' = "doomed"
        /\ UNCHANGED cConn
  /\ UNCHANGED <<cSlot, cDone, sSlot, sDone, rows, unsaved, faults>>

\* A connection known to be closed is not returned by Accept.
CloseNoticed ==
  /\ stale > 0
  /\ stale' = stale - 1
  /\ UNCHANGED <<cSlot, cDone, cConn, sSlot, sDone, sTask, rows, unsaved, faults>>

\* handleSingleTask returns: it has written the last answer to the stream.
HandlerSucceeds ==
  /\ sTask = "handle"
  /\ sTask' = "record"
  /\ cConn' = IF cConn = "running" THEN "served" ELSE cConn
  /\ UNCHANGED <<cSlot, cDone, sSlot, sDone, stale, rows, unsaved, faults>>

\* appendResultsCSV; when it fails, the server says so and goes on.
RecordResult ==
  LET d == Durations[sSlot] IN
  /\ sTask = "record"
  /\ sTask' = "wait"
  /\ sDone' = sDone + 1
  /\ \/ /\ rows' = [rows EXCEPT ![d] = @ + 1]
        /\ UNCHANGED <<unsaved, faults>>
     \/ /\ Fault
        /\ unsaved' = [unsaved EXCEPT ![d] = @ + 1]
        /\ UNCHANGED rows
  /\ UNCHANGED <<cSlot, cDone, cConn, sSlot, stale>>

\* serveOnce returns: its deferred calls close the listener and the sockets,
\* and with them all connections; the client is not told.  The last answer of
\* one that was served may have left before.  runAutoSlots goes on with slot.
ServeAgain(slot) ==
  /\ sSlot' = slot
  /\ sDone' = 0
  /\ sTask' = "accept"
  /\ stale' = 0
  /\ cConn' = CASE cConn = "none" -> "none"
                [] cConn = "served" -> "late"
                [] OTHER -> "closed"

\* handleConn returns an error, and serveOnce does: the slot starts again.
HandlerFails ==
  /\ \/ sTask = "handle" /\ cConn = "running" /\ Fault
     \/ sTask = "handle" /\ cConn # "running" /\ UNCHANGED faults
     \/ sTask = "doomed" /\ UNCHANGED faults
  /\ ServeAgain(sSlot)
  /\ UNCHANGED <<cSlot, cDone, rows, unsaved>>

\* What PeerClosed does in a slot of this many tasks.
CloseOrNext(tasks) ==
  /\ sTask = "wait"
  /\ \/ cConn # "served" /\ UNCHANGED faults
     \/ cConn = "served" /\ Fault
  /\ IF sDone < tasks
     THEN sTask' = "accept" /\ UNCHANGED <<sSlot, sDone, stale, cConn>>
     ELSE ServeAgain(sSlot + 1)
  /\ UNCHANGED <<cSlot, cDone, rows, unsaved>>

\* Mutant of PeerClosed: the server expects another task.
PeerClosedOneMore == CloseOrNext(Tasks + 1)

\* waitForPeerClose: the client has gone, or 2s have passed.  Then the next
\* task, which leaves the connection open, or the next slot, which does not.
PeerClosed == CloseOrNext(Tasks)

\* The client's process has ended; the server's has too, or it stays in
\* Accept.
NothingLeft ==
  /\ cSlot = Finished
  /\ sTask = "accept"
  /\ stale = 0
  /\ UNCHANGED vars

Next ==
  \/ Dial \/ DialAgain \/ TaskSucceeds \/ TaskFails
  \/ Accept \/ CloseNoticed \/ HandlerSucceeds \/ RecordResult \/ HandlerFails
  \/ PeerClosed
  \/ NothingLeft

\* Both programs run, and a task that no fault hits comes to its end.
NoFault == UNCHANGED faults

Fairness ==
  /\ WF_vars((Dial \/ TaskSucceeds \/ TaskFails) /\ NoFault)
  /\ WF_vars(/\ \/ Accept \/ HandlerSucceeds \/ RecordResult
                \/ HandlerFails \/ PeerClosed
             /\ NoFault)

Spec == Init /\ [][Next]_vars /\ Fairness

-----------------------------------------------------------------------------
(***************************************************************************)
(* The tasks of duration d the client has completed.                       *)
(***************************************************************************)
ClientTotal(d) ==
  Tasks * Cardinality({k \in Slots : k < cSlot /\ Durations[k] = d})
    + (IF cSlot \in Slots /\ Durations[cSlot] = d THEN cDone ELSE 0)

(***************************************************************************)
(* Every task the client counts is in results.csv, under the duration it   *)
(* was run with, whatever faults, repetitions and restarts there were:     *)
(* only the row the server is about to write and those it said it could    *)
(* not write are missing.                                                  *)
(***************************************************************************)
Pending(d) == IF sTask = "record" /\ Durations[sSlot] = d THEN 1 ELSE 0

ResultsRecorded ==
  \A d \in DurationSet : rows[d] + unsaved[d] + Pending(d) >= ClientTotal(d)

(***************************************************************************)
(* Neither program runs away from the other, whatever happens: the slots   *)
(* by which one is ahead all have the duration that the other is at, one   *)
(* slot unless the list repeats a duration.                                *)
(***************************************************************************)
Ahead(fast, slow) ==
  \A k \in slow..fast-1 : Durations[k] = Durations[slow]

NeverRunsAway == Ahead(cSlot, sSlot) /\ Ahead(sSlot, cSlot)

(***************************************************************************)
(* When nothing fails, both programs get through the whole list.           *)
(***************************************************************************)
AutoCompletes == <>(faults > 0 \/ (cSlot = Finished /\ sSlot = Finished))

(***************************************************************************)
(* What the server prints when a slot has failed: "Retrying same slot...". *)
(* It is retried until it is completed.                                    *)
(***************************************************************************)
RetriedSlotCompletes ==
  \A k \in Slots : sSlot = k ~> sSlot = k + 1

=============================================================================
