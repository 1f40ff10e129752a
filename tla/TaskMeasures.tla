---------------------------- MODULE TaskMeasures ----------------------------
(***************************************************************************)
(* What handleConn and handleSingleTask of server/main.go measure of a     *)
(* task: they start a process monitor, take the time and a snapshot of the *)
(* loss counters before and after the transfer, average the samples in     *)
(* between, and stop the monitor when they return, however they return.    *)
(* The monitor's goroutine, QUIC and the transfer go on meanwhile.         *)
(***************************************************************************)
EXTENDS ProcessMonitor, LossStats

VARIABLES
  pc,           \* the next thing the handler does
  start, end,   \* of the transfer
  averaged      \* the samples that AverageBetween has averaged

taskVars == <<pc, start, end, averaged>>
vars == <<monVars, lossVars, taskVars>>

TypeOK ==
  /\ MonTypeOK /\ LossTypeOK
  /\ pc \in {"monitor", "start", "preSent", "preLost", "end", "postSent",
             "postLost", "average", "return", "over"}
  /\ start \in Nat /\ end \in Nat
  /\ averaged \subseteq Nat

Init ==
  /\ MonInit /\ LossInit
  /\ pc = "monitor" /\ start = 0 /\ end = 0 /\ averaged = {}

Does(at, then) == pc = at /\ pc' = then

\* startProcessMonitor; without a monitor the task goes on.
MonitorStarts ==
  /\ pc = "monitor"
  /\ StartReadsTotal \/ StartReadsProc
  /\ UNCHANGED <<lossVars, taskVars>>

StreamAccepted ==
  /\ Does("monitor", "start")
  /\ mon \notin Starting
  /\ UNCHANGED <<monVars, lossVars, start, end, averaged>>

TransferStarts ==
  /\ Does("start", "preSent")
  /\ start' = now
  /\ UNCHANGED <<monVars, lossVars, end, averaged>>

Snapshot ==
  /\ \/ Does("preSent", "preLost") /\ LoadPreSent
     \/ Does("preLost", "end") /\ LoadPreLost
     \/ Does("postSent", "postLost") /\ LoadPostSent
     \/ Does("postLost", "average") /\ LoadPostLost
  /\ UNCHANGED <<monVars, start, end, averaged>>

TransferEnds ==
  /\ Does("end", "postSent")
  /\ end' = now
  /\ UNCHANGED <<monVars, lossVars, start, averaged>>

\* getAverages
Averages ==
  /\ Does("average", "return")
  /\ averaged' = AverageBetween(start, end)
  /\ UNCHANGED <<monVars, lossVars, start, end>>

\* Mutant of Stops: an error path skips the stop.
StopsNever == UNCHANGED cancelled

\* The deferred stopMon.
Stops == cancelled' = TRUE

\* The handler returns: its work is done, or the stream has failed before.
Returns ==
  /\ pc \notin {"monitor", "average", "over"}
  /\ pc' = "over"
  /\ Stops
  /\ UNCHANGED <<now, proc, mon, ticked, nextTick, begun, tickAt, total,
                 lastTotal, lastProc, samples, lossVars, start, end, averaged>>

Handler ==
  \/ MonitorStarts \/ StreamAccepted \/ TransferStarts \/ Snapshot
  \/ TransferEnds \/ Averages \/ Returns

\* Bound: QUIC counts packets between the snapshots, and in a task that has no
\* monitor.  The monitor and the counters share nothing, so every interleaving
\* of the handler with one of them is there.
Measured ==
  /\ pc \in {"preSent", "preLost", "end", "postSent", "postLost"}
  /\ mon = "none"

Environment ==
  \/ (Tick \/ Loop \/ ReadFails) /\ UNCHANGED <<lossVars, taskVars>>
  \/ Measured /\ Quic /\ UNCHANGED <<monVars, taskVars>>

Next == Handler \/ Environment

\* The loop goes on when it can, and of two ready cases a select takes either
\* again and again.
Fairness ==
  /\ WF_vars(Loop /\ UNCHANGED <<lossVars, taskVars>>)
  /\ SF_vars(LoopStops /\ UNCHANGED <<lossVars, taskVars>>)

Spec == Init /\ [][Next]_vars /\ Fairness

-----------------------------------------------------------------------------
(***************************************************************************)
(* The losses reported for a task are of packets it has counted as sent,   *)
(* of packets that were on their way when it began, and of packets that    *)
(* left between the last two loads: there is no other way in which they    *)
(* exceed the sends.  The differences of the unsigned counters are those   *)
(* of numbers that only grow.                                              *)
(***************************************************************************)
LossesExplained ==
  pc \in {"average", "return"} =>
    /\ preSent <= postSent /\ preLost <= postLost
    /\ postLost - preLost <= postSent - preSent + pending + during

\* Reading /proc is done before the ticker fires again.  (If it were not, ticks
\* would be dropped and samples be further apart.)
SamplesPrompt == Late < Interval

(***************************************************************************)
(* Where samples are prompt, a transfer that goes on for longer than an    *)
(* interval and the time of a sample after both it and the loop have begun *)
(* has one to average, whenever the ticker fires, unless reading /proc has *)
(* failed.  The loop may begin long after the transfer, or after its end:  *)
(* its start is waited for by nobody.                                      *)
(***************************************************************************)
Outlasts(t) == t + Interval + Late < end

LongTaskSampled ==
  pc = "return" /\ mon \in Ticking /\ Outlasts(start) /\ Outlasts(begun) =>
    averaged # {}

(***************************************************************************)
(* The monitor of a task ends once its handler has returned, on every path *)
(* out of it: the goroutines do not accumulate from task to task.          *)
(***************************************************************************)
MonitorEnds == pc = "over" ~> mon \notin Alive

=============================================================================
