--------------------------- MODULE ProcessMonitor ---------------------------
(***************************************************************************)
(* The process monitor of cpumon.go: a goroutine that at every tick of its *)
(* ticker reads the kernel's count of all jiffies, then that of the        *)
(* process, and keeps the differences as a sample.  The two reads are two  *)
(* files, and both counts move on between them.  The ticker is created by  *)
(* the goroutine, which may begin any time after it was started.           *)
(*                                                                         *)
(* Time is counted in jiffies; the kernel's counts never step back here.   *)
(***************************************************************************)
EXTENDS Naturals, Sequences

CONSTANTS
  Cpus,      \* what all CPUs together count in a jiffy
  Interval,  \* of the ticker: 100 ms
  Late,      \* the loop has taken a sample within this time from its tick
  MaxTime,   \* bound
  NoTick

ASSUME MonitorConstants ==
  /\ {Cpus, Interval, Late} \subseteq Nat \ {0}
  /\ MaxTime \in Nat /\ NoTick \notin Nat

VARIABLES
  now,
  proc,       \* jiffies the process has used
  mon,        \* the monitor: where StartProcessMonitor or the loop is
  ticked,     \* the tick in the ticker's channel, if any
  nextTick,   \* when the ticker fires next
  begun,      \* history: when the loop began and created its ticker
  tickAt,     \* t, the tick whose sample is being taken
  total,      \* totalJiffies, as read
  lastTotal, lastProc,
  samples,    \* pm.samples, and for each how long its two reads were apart;
              \* history: totals and procs, summed over the samples so far
  cancelled   \* whether ctx is cancelled

monVars == <<now, proc, mon, ticked, nextTick, begun, tickAt, total, lastTotal,
             lastProc, samples, cancelled>>

Starting == {"new", "newTotal"}
Ticking == {"idle", "total"}
Alive == {"spawned"} \cup Ticking

Sample == [at : Nat, total : Nat, proc : Nat, apart : Nat,
           totals : Nat, procs : Nat]

MonTypeOK ==
  /\ {now, proc, nextTick, begun, total, lastTotal, lastProc} \subseteq Nat
  /\ mon \in Starting \cup Alive \cup {"none", "failed", "ended"}
  /\ ticked \in Nat \cup {NoTick} /\ tickAt \in Nat \cup {NoTick}
  /\ samples \in Seq(Sample)
  /\ cancelled \in BOOLEAN

MonInit ==
  /\ now = 0 /\ proc = 0
  /\ mon = "new"
  /\ ticked = NoTick /\ nextTick = 0 /\ begun = 0 /\ tickAt = NoTick
  /\ total = 0 /\ lastTotal = 0 /\ lastProc = 0
  /\ samples = << >>
  /\ cancelled = FALSE

\* What /proc/stat shows.
AllJiffies == Cpus * now

\* The channel of the ticker holds one tick; another one is dropped.
Tick ==
  /\ now < MaxTime
  /\ mon \in Ticking =>
       /\ ticked # NoTick => now < ticked + Late
       /\ mon = "total" => now < tickAt + Late
  /\ now' = now + 1
  /\ proc' \in proc..proc+Cpus
  /\ IF mon \in Ticking /\ now' = nextTick
     THEN /\ nextTick' = nextTick + Interval
          /\ ticked' = IF ticked = NoTick THEN now' ELSE ticked
     ELSE UNCHANGED <<nextTick, ticked>>
  /\ UNCHANGED <<mon, begun, tickAt, total, lastTotal, lastProc, samples,
                 cancelled>>

-----------------------------------------------------------------------------
(* StartProcessMonitor reads the counts once and starts the goroutine of   *)
(* the loop.                                                               *)

StartReadsTotal ==
  /\ mon = "new"
  /\ mon' = "newTotal"
  /\ total' = AllJiffies
  /\ UNCHANGED <<now, proc, ticked, nextTick, begun, tickAt, lastTotal,
                 lastProc, samples, cancelled>>

StartReadsProc ==
  /\ mon = "newTotal"
  /\ mon' = "spawned"
  /\ lastTotal' = total /\ lastProc' = proc
  /\ UNCHANGED <<now, proc, ticked, nextTick, begun, tickAt, total, samples,
                 cancelled>>

\* A read fails: there is no monitor, and the loop of one returns.
ReadFails ==
  /\ mon \in Starting \cup Ticking
  /\ mon = "idle" => ticked # NoTick
  /\ mon' = IF mon \in Starting THEN "none" ELSE "failed"
  /\ UNCHANGED <<now, proc, ticked, nextTick, begun, tickAt, total, lastTotal,
                 lastProc, samples, cancelled>>

\* The loop begins, sooner or later: its ticker fires an interval from then.
NewTicker ==
  /\ mon = "spawned"
  /\ mon' = "idle"
  /\ begun' = now
  /\ nextTick' = now + Interval
  /\ UNCHANGED <<now, proc, ticked, tickAt, total, lastTotal, lastProc, samples,
                 cancelled>>

\* case t := <-ticker.C
SampleTotal ==
  /\ mon = "idle"
  /\ ticked # NoTick
  /\ mon' = "total"
  /\ tickAt' = ticked /\ ticked' = NoTick
  /\ total' = AllJiffies
  /\ UNCHANGED <<now, proc, nextTick, begun, lastTotal, lastProc, samples,
                 cancelled>>

\* Mutant of Rebase: the count of the process stays that of the start.
RebaseTotal == lastTotal' = total /\ UNCHANGED lastProc

Rebase == lastTotal' = total /\ lastProc' = proc

SumTotal == IF samples = << >> THEN 0 ELSE samples[Len(samples)].totals
SumProc == IF samples = << >> THEN 0 ELSE samples[Len(samples)].procs

SampleProc ==
  /\ mon = "total"
  /\ mon' = "idle"
  /\ samples' = Append(samples, [at |-> tickAt, total |-> total - lastTotal,
                                 proc |-> proc - lastProc,
                                 apart |-> AllJiffies - total,
                                 totals |-> SumTotal + (total - lastTotal),
                                 procs |-> SumProc + (proc - lastProc)])
  /\ Rebase
  /\ tickAt' = NoTick
  /\ UNCHANGED <<now, proc, ticked, nextTick, begun, total, cancelled>>

\* Mutant of LoopStops: the loop does not listen to its context.
LoopRunsOn == FALSE

\* case <-ctx.Done()
LoopStops ==
  /\ mon = "idle"
  /\ cancelled
  /\ mon' = "ended"
  /\ UNCHANGED <<now, proc, ticked, nextTick, begun, tickAt, total, lastTotal,
                 lastProc, samples, cancelled>>

Loop == NewTicker \/ SampleTotal \/ SampleProc \/ LoopStops

\* Mutant of AverageBetween: the sample must end before the task does.
AverageInside(start, end) ==
  {i \in DOMAIN samples :
     start + Interval <= samples[i].at /\ samples[i].at < end}

\* The samples that are averaged.
AverageBetween(start, end) ==
  {i \in DOMAIN samples : start <= samples[i].at /\ samples[i].at <= end}

-----------------------------------------------------------------------------
(***************************************************************************)
(* A share may exceed 100 %, because the process may run between the two   *)
(* reads of a sample.  That does not add up: in any run of samples the     *)
(* process has used no more than there was, and what passed between the    *)
(* reads of the last.                                                      *)
(***************************************************************************)
SharesBounded ==
  \A i, j \in DOMAIN samples :
    i <= j =>
      samples[j].procs - samples[i].procs + samples[i].proc
        <= samples[j].totals - samples[i].totals + samples[i].total
             + samples[j].apart

=============================================================================
