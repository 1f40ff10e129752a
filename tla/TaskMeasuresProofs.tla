------------------------- MODULE TaskMeasuresProofs -------------------------
(***************************************************************************)
(* Theorems about TaskMeasures, for any number of packets and samples, any *)
(* number of CPUs, and any interval of the ticker.                         *)
(***************************************************************************)
EXTENDS TaskMeasures, SequenceTheorems, TLAPS

PreSentLoaded ==
  pc \in {"preLost", "end", "postSent", "postLost", "average", "return"}
PreLostLoaded == pc \in {"end", "postSent", "postLost", "average", "return"}
PostSentLoaded == pc \in {"postLost", "average", "return"}

(***************************************************************************)
(* The inductive invariant of the losses.  What is lost or may still be    *)
(* lost was pending at the first snapshot or has been sent since.          *)
(***************************************************************************)
LossInv ==
  /\ LossTypeOK
  /\ PreSentLoaded => preSent <= sent
  /\ PreLostLoaded =>
       /\ preLost <= lost
       /\ lost + outstanding <= preLost + pending + (sent - preSent)
  /\ PostSentLoaded => preSent <= postSent /\ postSent <= sent
  /\ LossesExplained

-----------------------------------------------------------------------------
LEMMA InitialLosses == Init => LossInv
BY LossConstants DEF Init, LossInit, LossInv, LossTypeOK, PreSentLoaded, PreLostLoaded,
       PostSentLoaded, LossesExplained

\* The counters move between the snapshots only.
LEMMA QuicStep ==
  LossInv /\ Measured /\ Quic /\ UNCHANGED pc => LossInv'
<1> SUFFICES ASSUME LossInv, Measured, Quic, UNCHANGED pc PROVE LossInv'
  OBVIOUS
<1> USE DEF LossInv, LossTypeOK, PreSentLoaded, PreLostLoaded, PostSentLoaded,
            LossesExplained, Measured, loads
<1>1. CASE RecordSent
  BY <1>1 DEF RecordSent
<1>2. CASE RecordLost
  BY <1>2 DEF RecordLost
<1>3. CASE Acknowledged
  BY <1>3 DEF Acknowledged
<1> QED
  BY <1>1, <1>2, <1>3 DEF Quic

\* The four loads.
LEMMA SnapshotStep == LossInv /\ Snapshot => LossInv'
<1> SUFFICES ASSUME LossInv, Snapshot PROVE LossInv'
  OBVIOUS
<1> USE DEF LossInv, LossTypeOK, PreSentLoaded, PreLostLoaded, PostSentLoaded,
            LossesExplained, Does, counters
<1>1. CASE Does("preSent", "preLost") /\ LoadPreSent
  BY <1>1 DEF LoadPreSent
<1>2. CASE Does("preLost", "end") /\ LoadPreLost
  BY <1>2 DEF LoadPreLost
<1>3. CASE Does("postSent", "postLost") /\ LoadPostSent
  BY <1>3 DEF LoadPostSent
<1>4. CASE Does("postLost", "average") /\ LoadPostLost
  BY <1>4 DEF LoadPostLost
<1> QED
  BY <1>1, <1>2, <1>3, <1>4 DEF Snapshot

\* The handler's other steps come before or after the loads they would disturb.
LEMMA OtherStep ==
  ASSUME LossInv, UNCHANGED lossVars,
         \/ UNCHANGED pc
         \/ Does("monitor", "start") \/ Does("start", "preSent")
         \/ Does("end", "postSent") \/ Does("average", "return")
         \/ pc' = "over"
  PROVE  LossInv'
BY DEF LossInv, LossTypeOK, PreSentLoaded, PreLostLoaded, PostSentLoaded,
       LossesExplained, Does, lossVars, counters, loads

LEMMA LossStep == LossInv /\ [Next]_vars => LossInv'
<1> SUFFICES ASSUME LossInv, [Next]_vars PROVE LossInv'
  OBVIOUS
<1>1. CASE MonitorStarts \/ StreamAccepted \/ TransferStarts \/ TransferEnds
           \/ Averages \/ Returns
  BY <1>1, OtherStep DEF MonitorStarts, StreamAccepted, TransferStarts, TransferEnds,
                         Averages, Returns, taskVars
<1>2. CASE Snapshot
  BY <1>2, SnapshotStep
<1>3. CASE (Tick \/ Loop \/ ReadFails) /\ UNCHANGED <<lossVars, taskVars>>
  BY <1>3, OtherStep DEF taskVars
<1>4. CASE Measured /\ Quic /\ UNCHANGED <<monVars, taskVars>>
  BY <1>4, QuicStep DEF taskVars
<1>5. CASE UNCHANGED vars
  BY <1>5, OtherStep DEF vars, taskVars
<1> QED
  BY <1>1, <1>2, <1>3, <1>4, <1>5 DEF Next, Handler, Environment

(***************************************************************************)
(* However the loads of snapshotLoss interleave with the tracer's counting *)
(* and however many packets there are, the losses of a task are accounted  *)
(* for.                                                                    *)
(***************************************************************************)
THEOREM LossesAlwaysExplained == Spec => []LossesExplained
<1>1. Init => LossInv
  BY InitialLosses
<1>2. LossInv => LossesExplained
  BY DEF LossInv
<1> QED
  BY <1>1, <1>2, LossStep, PTL DEF Spec

-----------------------------------------------------------------------------
(***************************************************************************)
(* The inductive invariant of the shares.  The second conjunct of Counted  *)
(* is SharesBounded for a run of samples that would end now: since a       *)
(* sample began, the process has used no more than there was.              *)
(***************************************************************************)
Counted ==
  /\ proc - lastProc <= AllJiffies - lastTotal
  /\ \A i \in DOMAIN samples :
       proc - lastProc + SumProc - samples[i].procs + samples[i].proc
         <= AllJiffies - lastTotal + SumTotal
              - samples[i].totals + samples[i].total

Reads ==
  /\ lastTotal <= total /\ total <= AllJiffies
  /\ lastProc <= proc
  /\ mon \in Starting => samples = << >>
  /\ mon = "total" => tickAt # NoTick

ShareInv ==
  MonTypeOK /\ Reads /\ (mon \in Alive => Counted) /\ SharesBounded

(***************************************************************************)
(* The inductive invariant of the ticks.  A tick is out of the channel     *)
(* before the ticker fires again, so none is dropped; and once a transfer  *)
(* and the loop have begun there is a sample that began since, or the tick *)
(* of one on its way, or the ticker fires within an interval from when     *)
(* they both had.                                                          *)
(***************************************************************************)
Sampled(first, last) ==
  \E i \in DOMAIN samples : first <= samples[i].at /\ samples[i].at <= last

Soon(t) ==
  t \in Nat /\ start <= t /\ (t <= start + Interval \/ t <= begun + Interval)

Covered ==
  \/ Sampled(start, now)
  \/ mon = "total" /\ Soon(tickAt)
  \/ ticked # NoTick /\ Soon(ticked)
  \/ Soon(nextTick)

Ticks ==
  /\ now < nextTick /\ nextTick <= now + Interval
  /\ mon = "total" => tickAt <= now /\ now <= tickAt + Late
  /\ ticked # NoTick =>
       /\ ticked <= now /\ now <= ticked + Late
       /\ nextTick = ticked + Interval

Transferring == pc \in {"preSent", "preLost", "end"}
Transferred == pc \in {"postSent", "postLost", "average"}

TickInv ==
  /\ pc # "monitor" => mon \notin Starting
  /\ mon \in Starting \cup {"spawned"} => ticked = NoTick
  /\ Transferring => start <= now
  /\ Transferred \/ pc = "return" => end <= now
  /\ mon \in Ticking =>
       /\ Ticks
       /\ Transferring => Covered
       /\ Transferred /\ Outlasts(start) /\ Outlasts(begun) =>
            Sampled(start, end)
  /\ LongTaskSampled

-----------------------------------------------------------------------------
(* The shares.                                                             *)

\* What is counted in the next jiffy.
LEMMA CpusCount ==
  \A n \in Nat : Cpus * n \in Nat /\ Cpus * (n + 1) = Cpus * n + Cpus
BY MonitorConstants

LEMMA SamplesTyped ==
  ASSUME MonTypeOK, NEW i \in DOMAIN samples
  PROVE  /\ samples[i].at \in Nat /\ samples[i].total \in Nat
         /\ samples[i].proc \in Nat /\ samples[i].apart \in Nat
         /\ samples[i].totals \in Nat /\ samples[i].procs \in Nat
<1>1. samples[i] \in Sample
  BY DEF MonTypeOK
<1> QED
  BY <1>1 DEF Sample

LEMMA SumsAreNumbers == MonTypeOK => SumTotal \in Nat /\ SumProc \in Nat
<1> SUFFICES ASSUME MonTypeOK, samples # << >>
             PROVE  Len(samples) \in DOMAIN samples
  BY SamplesTyped DEF SumTotal, SumProc
<1>1. samples \in Seq(Sample)
  BY DEF MonTypeOK
<1> QED
  BY <1>1

LEMMA InitialShares == Init => ShareInv
<1> SUFFICES ASSUME Init PROVE ShareInv
  OBVIOUS
<1>1. AllJiffies \in Nat
  BY CpusCount DEF AllJiffies, Init, MonInit
<1>2. samples = << >> /\ mon = "new"
  BY DEF Init, MonInit
<1>3. MonTypeOK
  <2>1. << >> \in Seq(Sample)
    OBVIOUS
  <2>2. cancelled \in BOOLEAN
    BY Zenon DEF Init, MonInit
  <2>3. {now, proc, nextTick, begun, total, lastTotal, lastProc} \subseteq Nat
    BY DEF Init, MonInit
  <2> QED
    BY <1>2, <2>1, <2>2, <2>3 DEF Init, MonInit, MonTypeOK, Starting
<1>4. Reads
  BY <1>1 DEF Init, MonInit, Reads
<1>5. SharesBounded
  BY <1>2 DEF SharesBounded
<1> QED
  BY <1>2, <1>3, <1>4, <1>5 DEF ShareInv, Alive, Ticking

\* Time passes: the process uses no more than there is.
LEMMA SharesTick == ShareInv /\ Tick => ShareInv'
<1> SUFFICES ASSUME ShareInv, Tick PROVE ShareInv'
  OBVIOUS
<1>1. PICK all \in Nat :
        AllJiffies = all /\ AllJiffies' = all + Cpus /\ Cpus \in Nat
  BY CpusCount, MonitorConstants DEF AllJiffies, Tick, ShareInv, MonTypeOK
<1>2. PICK sumT \in Nat, sumP \in Nat :
        /\ SumTotal = sumT /\ SumTotal' = sumT
        /\ SumProc = sumP /\ SumProc' = sumP
  BY SumsAreNumbers DEF Tick, SumTotal, SumProc, ShareInv
<1>3. /\ now \in Nat /\ proc \in Nat /\ nextTick \in Nat /\ total \in Nat
      /\ begun \in Nat /\ lastTotal \in Nat /\ lastProc \in Nat
  BY DEF ShareInv, MonTypeOK
<1>4. PICK used \in Nat : proc' = proc + used /\ used <= Cpus
  <2>1. proc' \in proc..proc+Cpus
    BY DEF Tick
  <2> QED
    BY <1>1, <1>3, <2>1
<1>5. UNCHANGED <<mon, begun, tickAt, total, lastTotal, lastProc, samples,
                  cancelled>>
  BY DEF Tick
<1>6. MonTypeOK'
  <2>1. now' \in Nat /\ nextTick' \in Nat /\ ticked' \in Nat \cup {NoTick}
    BY <1>3, MonitorConstants DEF Tick, ShareInv, MonTypeOK
  <2>2. {now, proc, nextTick, begun, total, lastTotal, lastProc}' \subseteq Nat
    BY <1>3, <1>4, <1>5, <2>1
  <2> QED
    BY <1>5, <2>1, <2>2 DEF ShareInv, MonTypeOK
<1>7. Reads'
  BY <1>1, <1>3, <1>4, <1>5 DEF ShareInv, Reads
<1>8. ASSUME mon \in Alive PROVE Counted'
  <2>1. proc' - lastProc' <= all + Cpus - lastTotal'
    BY <1>1, <1>3, <1>4, <1>5, <1>8 DEF ShareInv, Counted
  <2>2. ASSUME NEW i \in DOMAIN samples
        PROVE  proc' - lastProc + sumP - samples[i].procs + samples[i].proc
                 <= all + Cpus - lastTotal + sumT
                      - samples[i].totals + samples[i].total
    <3>1. proc - lastProc + sumP - samples[i].procs + samples[i].proc
            <= all - lastTotal + sumT
                 - samples[i].totals + samples[i].total
      BY <1>1, <1>2, <1>8 DEF ShareInv, Counted
    <3> QED
      BY <1>1, <1>2, <1>3, <1>4, <3>1, SamplesTyped DEF ShareInv
  <2>3. \A i \in DOMAIN samples' :
          proc' - lastProc' + SumProc' - samples'[i].procs + samples'[i].proc
            <= AllJiffies' - lastTotal' + SumTotal'
                 - samples'[i].totals + samples'[i].total
    BY <1>1, <1>2, <1>3, <1>4, <1>5, <2>2, SamplesTyped DEF ShareInv
  <2>4. proc' - lastProc' <= AllJiffies' - lastTotal'
    BY <1>1, <1>3, <1>4, <1>5, <2>1
  <2> QED
    BY <2>3, <2>4 DEF Counted
<1> QED
  BY <1>5, <1>6, <1>7, <1>8 DEF ShareInv, SharesBounded

\* The monitor takes its baseline: nothing is counted before it.
LEMMA SharesStart ==
  ShareInv /\ (StartReadsTotal \/ StartReadsProc) => ShareInv'
<1> SUFFICES ASSUME ShareInv, StartReadsTotal \/ StartReadsProc
             PROVE  ShareInv'
  OBVIOUS
<1>1. PICK all \in Nat : AllJiffies = all /\ AllJiffies' = all
  BY CpusCount
  DEF AllJiffies, StartReadsTotal, StartReadsProc, ShareInv, MonTypeOK
<1>2. samples = << >> /\ samples' = << >>
  BY DEF StartReadsTotal, StartReadsProc, ShareInv, Reads, Starting
<1>3. /\ now \in Nat /\ proc \in Nat /\ nextTick \in Nat /\ total \in Nat
      /\ begun \in Nat /\ lastTotal \in Nat /\ lastProc \in Nat /\ Interval \in Nat
  BY MonitorConstants DEF ShareInv, MonTypeOK
<1>4. MonTypeOK'
  <2>1. {now, proc, nextTick, begun, total, lastTotal, lastProc}' \subseteq Nat
    BY <1>1, <1>3 DEF StartReadsTotal, StartReadsProc
  <2>2. UNCHANGED <<ticked, tickAt, samples, cancelled>>
    BY DEF StartReadsTotal, StartReadsProc
  <2>3. mon' \in Starting \cup Alive
    BY DEF StartReadsTotal, StartReadsProc, Starting, Alive, Ticking
  <2> QED
    BY <2>1, <2>2, <2>3 DEF ShareInv, MonTypeOK
<1>5. Reads'
  BY <1>1, <1>2, <1>3
  DEF StartReadsTotal, StartReadsProc, ShareInv, Reads, Starting
<1>6. mon' \in Alive => Counted'
  <2>1. CASE StartReadsTotal
    BY <2>1 DEF StartReadsTotal, Alive, Ticking
  <2>2. CASE StartReadsProc
    <3>1. proc' - lastProc' <= all - lastTotal'
      BY <1>1, <1>3, <2>2 DEF StartReadsProc, ShareInv, Reads
    <3> QED
      BY <1>1, <1>2, <3>1 DEF Counted
  <2> QED
    BY <2>1, <2>2
<1> QED
  BY <1>2, <1>4, <1>5, <1>6 DEF ShareInv, SharesBounded

\* The loop takes a tick and reads the total.
LEMMA SharesSampleTotal == ShareInv /\ SampleTotal => ShareInv'
<1> SUFFICES ASSUME ShareInv, SampleTotal PROVE ShareInv'
  OBVIOUS
<1>1. PICK all \in Nat : AllJiffies = all /\ AllJiffies' = all
  BY CpusCount DEF AllJiffies, SampleTotal, ShareInv, MonTypeOK
<1>2. SumTotal' = SumTotal /\ SumProc' = SumProc
  BY DEF SampleTotal, SumTotal, SumProc
<1>3. UNCHANGED <<now, proc, nextTick, begun, lastTotal, lastProc, samples,
                  cancelled>>
  BY DEF SampleTotal
<1>4. mon = "idle" /\ mon' = "total" /\ total' = all
  BY <1>1 DEF SampleTotal
<1>5. MonTypeOK'
  <2>1. {now, proc, nextTick, begun, total, lastTotal, lastProc}' \subseteq Nat
    BY <1>1, <1>3, <1>4 DEF ShareInv, MonTypeOK
  <2>2. ticked' \in Nat \cup {NoTick} /\ tickAt' \in Nat \cup {NoTick}
    BY DEF SampleTotal, ShareInv, MonTypeOK
  <2> QED
    BY <1>3, <1>4, <2>1, <2>2 DEF ShareInv, MonTypeOK, Alive, Ticking
<1>6. Reads'
  <2>1. lastTotal' <= total'
    BY <1>1, <1>3, <1>4 DEF ShareInv, Reads, MonTypeOK
  <2> QED
    BY <1>1, <1>3, <1>4, <2>1
    DEF SampleTotal, ShareInv, Reads, MonTypeOK, Starting
<1>7. Counted'
  BY <1>1, <1>2, <1>3, <1>4 DEF ShareInv, Counted, Alive, Ticking
<1> QED
  BY <1>3, <1>5, <1>6, <1>7 DEF ShareInv, SharesBounded

\* What has been used since a sample, when the next one is complete: all that
\* was used (p), of all there was (a), of which t had been read.
LEMMA SumsMove ==
  ASSUME NEW p \in Nat, NEW lastP \in Nat, NEW sumP \in Nat,
         NEW t \in Nat, NEW lastT \in Nat, NEW sumT \in Nat, NEW a \in Nat,
         NEW procs \in Nat, NEW used \in Nat,
         NEW totals \in Nat, NEW had \in Nat,
         p - lastP + sumP - procs + used <= a - lastT + sumT - totals + had
  PROVE  /\ sumP + (p - lastP) - procs + used
              <= sumT + (t - lastT) - totals + had + (a - t)
         /\ p - p + (sumP + (p - lastP)) - procs + used
              <= a - t + (sumT + (t - lastT)) - totals + had
OBVIOUS

\* The loop reads the count of the process and appends the sample.
LEMMA SharesSampleProc == ShareInv /\ SampleProc => ShareInv'
<1> SUFFICES ASSUME ShareInv, SampleProc PROVE ShareInv'
  OBVIOUS
<1> DEFINE n == Len(samples) + 1
<1>1. PICK all \in Nat : AllJiffies = all /\ AllJiffies' = all
  BY CpusCount DEF AllJiffies, SampleProc, ShareInv, MonTypeOK
<1>2. PICK sumT \in Nat, sumP \in Nat : SumTotal = sumT /\ SumProc = sumP
  BY SumsAreNumbers DEF ShareInv
<1>3. /\ now \in Nat /\ proc \in Nat /\ nextTick \in Nat /\ total \in Nat
      /\ begun \in Nat /\ lastTotal \in Nat /\ lastProc \in Nat /\ tickAt \in Nat
  BY DEF ShareInv, MonTypeOK, Reads, SampleProc
<1>4. lastTotal <= total /\ total <= all /\ lastProc <= proc
  BY <1>1 DEF ShareInv, Reads
<1>5. PICK new \in Sample :
        /\ samples' = Append(samples, new)
        /\ new.at = tickAt /\ new.apart = all - total
        /\ new.total = total - lastTotal /\ new.proc = proc - lastProc
        /\ new.totals = sumT + new.total /\ new.procs = sumP + new.proc
  <2> DEFINE new == [at |-> tickAt, total |-> total - lastTotal,
                     proc |-> proc - lastProc, apart |-> all - total,
                     totals |-> sumT + (total - lastTotal),
                     procs |-> sumP + (proc - lastProc)]
  <2>1. new \in Sample
    BY <1>1, <1>2, <1>3, <1>4 DEF Sample
  <2>2. samples' = Append(samples, new)
    BY <1>1, <1>2 DEF SampleProc
  <2> QED
    BY <2>1, <2>2
<1>6. samples \in Seq(Sample)
  BY DEF ShareInv, MonTypeOK
<1>7. /\ DOMAIN samples' = DOMAIN samples \cup {n} /\ n \notin DOMAIN samples
      /\ \A i \in DOMAIN samples : samples'[i] = samples[i] /\ i < n
      /\ samples'[n] = new /\ Len(samples') = n /\ samples' # << >>
      /\ samples' \in Seq(Sample)
  BY <1>5, <1>6
<1>8. /\ mon = "total" /\ mon' = "idle"
      /\ lastTotal' = total /\ lastProc' = proc
      /\ UNCHANGED <<now, proc, ticked, nextTick, begun, total, cancelled>>
      /\ tickAt' = NoTick
  BY DEF SampleProc, Rebase
<1>9. SumTotal' = sumT + new.total /\ SumProc' = sumP + new.proc
  BY <1>5, <1>7 DEF SumTotal, SumProc
<1>10. new.total \in Nat /\ new.proc \in Nat
  BY <1>5 DEF Sample
<1>11. MonTypeOK'
  <2>1. {now, proc, nextTick, begun, total, lastTotal, lastProc}' \subseteq Nat
    BY <1>3, <1>8
  <2> QED
    BY <1>7, <1>8, <2>1 DEF ShareInv, MonTypeOK, Alive, Ticking
<1>12. Reads'
  BY <1>1, <1>3, <1>4, <1>8 DEF Reads, Starting
<1>13. \A i \in DOMAIN samples :
         proc - lastProc + sumP - samples[i].procs + samples[i].proc
           <= all - lastTotal + sumT - samples[i].totals + samples[i].total
  BY <1>1, <1>2, <1>8 DEF ShareInv, Counted, Alive, Ticking
<1>14. proc - lastProc <= all - lastTotal
  BY <1>1, <1>8 DEF ShareInv, Counted, Alive, Ticking
<1> HIDE DEF n
<1>15. SharesBounded'
  <2> SUFFICES ASSUME NEW i \in DOMAIN samples', NEW j \in DOMAIN samples',
                      i <= j
               PROVE  samples'[j].procs - samples'[i].procs + samples'[i].proc
                        <= samples'[j].totals - samples'[i].totals
                             + samples'[i].total + samples'[j].apart
    BY DEF SharesBounded
  <2>1. CASE j \in DOMAIN samples
    <3>1. i \in DOMAIN samples
      BY <1>6, <1>7, <2>1 DEF n
    <3> QED
      BY <1>7, <2>1, <3>1 DEF ShareInv, SharesBounded
  <2>2. CASE j = n /\ i = n
    BY <1>1, <1>2, <1>3, <1>5, <1>7, <1>10, <1>14, <2>2
  <2>3. CASE j = n /\ i \in DOMAIN samples
    <3>1. /\ samples[i].procs \in Nat /\ samples[i].proc \in Nat
          /\ samples[i].totals \in Nat /\ samples[i].total \in Nat
      BY <2>3, SamplesTyped DEF ShareInv
    <3>2. proc - lastProc + sumP - samples[i].procs + samples[i].proc
            <= all - lastTotal + sumT - samples[i].totals + samples[i].total
      BY <1>13, <2>3
    <3>3. sumP + (proc - lastProc) - samples[i].procs + samples[i].proc
            <= sumT + (total - lastTotal) - samples[i].totals
                 + samples[i].total + (all - total)
      BY <1>1, <1>2, <1>3, <3>1, <3>2, SumsMove
    <3>4. new.procs - samples[i].procs + samples[i].proc
            <= new.totals - samples[i].totals + samples[i].total + new.apart
      <4>1. /\ new.procs = sumP + (proc - lastProc)
            /\ new.totals = sumT + (total - lastTotal)
            /\ new.apart = all - total
        BY <1>5
      <4> QED
        BY <1>1, <1>2, <1>3, <3>1, <3>3, <4>1
    <3> QED
      BY <1>7, <2>3, <3>4
  <2> QED
    BY <1>7, <2>1, <2>2, <2>3
<1>16. Counted'
  <2>1. proc' - lastProc' <= AllJiffies' - lastTotal'
    BY <1>1, <1>3, <1>4, <1>8
  <2>2. ASSUME NEW i \in DOMAIN samples'
        PROVE  proc - proc + (sumP + new.proc) - samples'[i].procs
                   + samples'[i].proc
                 <= all - total + (sumT + new.total) - samples'[i].totals
                      + samples'[i].total
    <3>1. CASE i = n
      <4>1. proc - proc + (sumP + new.proc) - new.procs + new.proc
              <= all - total + (sumT + new.total) - new.totals + new.total
        BY <1>1, <1>2, <1>3, <1>4, <1>5, <1>10, <1>14
      <4> QED
        BY <1>7, <3>1, <4>1
    <3>2. CASE i \in DOMAIN samples
      <4>1. /\ samples[i].procs \in Nat /\ samples[i].proc \in Nat
            /\ samples[i].totals \in Nat /\ samples[i].total \in Nat
        BY <3>2, SamplesTyped DEF ShareInv
      <4>2. proc - lastProc + sumP - samples[i].procs + samples[i].proc
              <= all - lastTotal + sumT - samples[i].totals + samples[i].total
        BY <1>13, <3>2
      <4>3. proc - proc + (sumP + new.proc) - samples[i].procs
                + samples[i].proc
              <= all - total + (sumT + new.total) - samples[i].totals
                   + samples[i].total
        <5>1. proc - proc + (sumP + (proc - lastProc)) - samples[i].procs
                  + samples[i].proc
                <= all - total + (sumT + (total - lastTotal))
                     - samples[i].totals + samples[i].total
          BY <1>1, <1>2, <1>3, <4>1, <4>2, SumsMove
        <5> QED
          BY <1>5, <5>1
      <4> QED
        BY <1>7, <3>2, <4>3
    <3> QED
      BY <1>7, <3>1, <3>2
  <2> QED
    BY <1>1, <1>8, <1>9, <2>1, <2>2 DEF Counted
<1> QED
  BY <1>11, <1>12, <1>15, <1>16 DEF ShareInv

\* The loop begins or ends, or nothing of the monitor changes but its context.
LEMMA SharesKept ==
  ASSUME ShareInv,
         UNCHANGED <<now, proc, ticked, tickAt, total, lastTotal, lastProc,
                     samples>>,
         nextTick' \in Nat, begun' \in Nat, cancelled' \in BOOLEAN,
         \/ mon' = mon \/ mon' \in {"none", "failed", "ended"}
         \/ mon = "spawned" /\ mon' = "idle"
  PROVE  ShareInv'
<1>1. PICK all \in Nat : AllJiffies = all /\ AllJiffies' = all
  BY CpusCount DEF AllJiffies, ShareInv, MonTypeOK
<1>2. SumTotal' = SumTotal /\ SumProc' = SumProc
  BY DEF SumTotal, SumProc
<1>3. MonTypeOK'
  <2>1. {now, proc, nextTick, begun, total, lastTotal, lastProc}' \subseteq Nat
    BY DEF ShareInv, MonTypeOK
  <2>2. mon' \in Starting \cup Alive \cup {"none", "failed", "ended"}
    BY DEF ShareInv, MonTypeOK, Alive, Ticking
  <2> QED
    BY <2>1, <2>2 DEF ShareInv, MonTypeOK
<1>4. Reads'
  BY <1>1 DEF ShareInv, Reads, Starting
<1>5. mon' \in Alive => Counted'
  BY <1>1, <1>2 DEF ShareInv, Counted, Alive, Ticking
<1> QED
  BY <1>3, <1>4, <1>5 DEF ShareInv, SharesBounded

LEMMA ShareStep == ShareInv /\ [Next]_vars => ShareInv'
<1> SUFFICES ASSUME ShareInv, [Next]_vars PROVE ShareInv'
  OBVIOUS
<1>1. CASE MonitorStarts
  BY <1>1, SharesStart DEF MonitorStarts
<1>2. CASE Tick
  BY <1>2, SharesTick
<1>3. CASE SampleTotal
  BY <1>3, SharesSampleTotal
<1>4. CASE SampleProc
  BY <1>4, SharesSampleProc
<1>5. CASE LoopStops \/ ReadFails
  <2>1. nextTick' \in Nat /\ begun' \in Nat /\ cancelled' \in BOOLEAN
    BY <1>5 DEF LoopStops, ReadFails, ShareInv, MonTypeOK
  <2> QED
    BY <1>5, <2>1, SharesKept DEF LoopStops, ReadFails
<1>6. CASE UNCHANGED monVars
  <2>1. nextTick' \in Nat /\ begun' \in Nat /\ cancelled' \in BOOLEAN
    BY <1>6 DEF monVars, ShareInv, MonTypeOK
  <2> QED
    BY <1>6, <2>1, SharesKept DEF monVars
<1>7. CASE Returns
  <2>1. cancelled' \in BOOLEAN
    BY <1>7, Zenon DEF Returns, Stops
  <2>2. nextTick' \in Nat /\ begun' \in Nat
    BY <1>7 DEF Returns, ShareInv, MonTypeOK
  <2> QED
    BY <1>7, <2>1, <2>2, SharesKept DEF Returns
<1>8. CASE NewTicker
  <2>1. nextTick' \in Nat /\ begun' \in Nat /\ cancelled' \in BOOLEAN
    BY <1>8, MonitorConstants DEF NewTicker, ShareInv, MonTypeOK
  <2> QED
    BY <1>8, <2>1, SharesKept DEF NewTicker
<1> QED
  BY <1>1, <1>2, <1>3, <1>4, <1>5, <1>6, <1>7, <1>8
  DEF Next, Handler, Environment, Loop, StreamAccepted, TransferStarts,
      Snapshot, TransferEnds, Averages, vars

(***************************************************************************)
(* However long the two reads of a sample are apart, however many CPUs     *)
(* there are and however often the loop samples, the shares of a run of    *)
(* samples never add up to more than there was, and what passed between    *)
(* the reads of the last.                                                  *)
(***************************************************************************)
THEOREM SharesAlwaysBounded == Spec => []SharesBounded
<1>1. ShareInv => SharesBounded
  BY DEF ShareInv
<1> QED
  BY <1>1, InitialShares, ShareStep, PTL DEF Spec

(***************************************************************************)
(* The variables of TaskMeasures keep their types, whatever the constants. *)
(***************************************************************************)
THEOREM TypeCorrect == Spec => []TypeOK
<1>1. Init => TypeOK
  BY InitialShares, InitialLosses DEF Init, ShareInv, LossInv, TypeOK
<1>2. ASSUME ShareInv, LossInv, TypeOK, ShareInv', LossInv', [Next]_vars
      PROVE  TypeOK'
  <2>1. MonTypeOK' /\ LossTypeOK'
    BY <1>2 DEF ShareInv, LossInv
  <2>2. now \in Nat
    BY <1>2 DEF ShareInv, MonTypeOK
  <2>3. AverageBetween(start, end) \subseteq Nat
    BY <1>2 DEF AverageBetween, ShareInv, MonTypeOK
  <2>4. CASE UNCHANGED taskVars
    BY <1>2, <2>1, <2>4 DEF TypeOK, taskVars
  <2>5. CASE Handler /\ ~UNCHANGED taskVars
    <3>1. start' \in Nat /\ end' \in Nat
      BY <1>2, <2>2, <2>5
      DEF TypeOK, Handler, MonitorStarts, StreamAccepted, TransferStarts,
          Snapshot, TransferEnds, Averages, Returns, taskVars
    <3>2. averaged' \subseteq Nat
      BY <1>2, <2>3, <2>5
      DEF TypeOK, Handler, MonitorStarts, StreamAccepted, TransferStarts,
          Snapshot, TransferEnds, Averages, Returns, taskVars
    <3>3. pc' \in {"start", "preSent", "preLost", "end", "postSent",
                   "postLost", "average", "return", "over"}
      BY <2>5
      DEF Handler, MonitorStarts, StreamAccepted, TransferStarts, Snapshot,
          TransferEnds, Averages, Returns, Does, taskVars
    <3> QED
      BY <2>1, <3>1, <3>2, <3>3 DEF TypeOK
  <2> QED
    BY <1>2, <2>4, <2>5 DEF Next, Environment, vars, taskVars
<1> QED
  BY <1>1, <1>2, InitialShares, InitialLosses, ShareStep, LossStep, PTL DEF Spec

-----------------------------------------------------------------------------
(* The ticks.                                                              *)

LEMMA InitialTicks == Init => TickInv
BY DEF Init, MonInit, TickInv, Transferring, Transferred, LongTaskSampled,
       Starting, Ticking

\* A sample that is there stays.
LEMMA SamplesStay ==
  ASSUME MonTypeOK, UNCHANGED samples \/ SampleProc, NEW i \in DOMAIN samples
  PROVE  i \in DOMAIN samples' /\ samples'[i] = samples[i]
<1>1. samples \in Seq(Sample)
  BY DEF MonTypeOK
<1> QED
  BY <1>1 DEF SampleProc

\* What Next leaves of the monitor's time and of the task's.
LEMMA TimesTyped ==
  ASSUME TypeOK
  PROVE  /\ now \in Nat /\ nextTick \in Nat /\ begun \in Nat
         /\ start \in Nat /\ end \in Nat
         /\ Interval \in Nat /\ Late \in Nat /\ 0 < Interval
         /\ tickAt # NoTick => tickAt \in Nat
         /\ ticked # NoTick => ticked \in Nat
BY MonitorConstants DEF TypeOK, MonTypeOK

\* The ticker fires, or time passes without: no tick is dropped.
LEMMA TicksTick ==
  ASSUME SamplesPrompt, TypeOK, TickInv, Reads, Tick, UNCHANGED taskVars
  PROVE  TickInv'
<1> USE TimesTyped
<1>1. now' = now + 1
  BY DEF Tick
<1>2. /\ UNCHANGED <<mon, begun, tickAt, samples>>
      /\ UNCHANGED <<pc, start, end, averaged>>
  BY DEF Tick, taskVars
<1>3. CASE mon \notin Ticking
  <2>1. /\ pc # "monitor" => mon \notin Starting
        /\ mon \in Starting \cup {"spawned"} => ticked = NoTick
        /\ Transferring => start <= now
        /\ Transferred \/ pc = "return" => end <= now
    BY DEF TickInv
  <2>2. ticked' = ticked
    BY <1>3 DEF Tick
  <2> QED
    BY <1>1, <1>2, <1>3, <2>1, <2>2
    DEF TickInv, Transferring, Transferred, LongTaskSampled
<1>4. CASE mon \in Ticking
  <2>1. /\ now < nextTick /\ nextTick <= now + Interval
        /\ mon = "total" => tickAt <= now /\ now <= tickAt + Late
        /\ ticked # NoTick =>
             /\ ticked <= now /\ now <= ticked + Late
             /\ nextTick = ticked + Interval
    BY <1>4 DEF TickInv, Ticks
  <2>2. /\ ticked # NoTick => now < ticked + Late
        /\ mon = "total" => now < tickAt + Late
    BY <1>4 DEF Tick
  <2>3. mon = "total" => tickAt \in Nat
    BY DEF Reads
  <2>4. now' = nextTick => ticked = NoTick
    BY <1>1, <2>1, <2>2 DEF SamplesPrompt
  <2>5. ASSUME now' = nextTick PROVE Ticks' /\ (Transferring => Covered')
    <3>1. ticked' = nextTick /\ nextTick' = nextTick + Interval
      BY <1>4, <2>4, <2>5 DEF Tick
    <3>2. Ticks'
      BY <1>1, <1>2, <2>1, <2>2, <2>3, <2>5, <3>1 DEF Ticks
    <3>3. ASSUME Transferring PROVE Covered'
      <4>1. start <= now /\ Covered
        BY <1>4, <3>3 DEF TickInv
      <4>2. CASE Sampled(start, now)
        BY <1>1, <1>2, <4>1, <4>2, SamplesTyped DEF Covered, Sampled, TypeOK
      <4>3. CASE mon = "total" /\ Soon(tickAt)
        BY <1>1, <1>2, <4>1, <4>3 DEF Covered, Soon
      <4>4. CASE ticked # NoTick /\ Soon(ticked)
        BY <2>4, <2>5, <4>4
      <4>5. CASE Soon(nextTick)
        BY <1>1, <1>2, <3>1, <4>1, <4>5, MonitorConstants DEF Covered, Soon
      <4> QED
        BY <4>1, <4>2, <4>3, <4>4, <4>5 DEF Covered
    <3> QED
      BY <3>2, <3>3
  <2>6. ASSUME now' # nextTick PROVE Ticks' /\ (Transferring => Covered')
    <3>1. ticked' = ticked /\ nextTick' = nextTick
      BY <2>6 DEF Tick
    <3>2. Ticks'
      BY <1>1, <1>2, <2>1, <2>2, <2>3, <2>6, <3>1 DEF Ticks
    <3>3. ASSUME Transferring PROVE Covered'
      <4>1. start <= now /\ Covered
        BY <1>4, <3>3 DEF TickInv
      <4>2. CASE Sampled(start, now)
        BY <1>1, <1>2, <4>1, <4>2, SamplesTyped DEF Covered, Sampled, TypeOK
      <4> QED
        BY <1>1, <1>2, <3>1, <4>1, <4>2 DEF Covered, Soon
    <3> QED
      BY <3>2, <3>3
  <2>7. Ticks' /\ (Transferring => Covered')
    BY <2>5, <2>6
  <2> QED
    BY <1>1, <1>2, <1>4, <2>7
    DEF TickInv, Transferring, Transferred, Sampled, Outlasts, LongTaskSampled,
        Starting, Ticking
<1> QED
  BY <1>3, <1>4

\* The loop: a tick on its way becomes a sample.
LEMMA TicksLoop ==
  ASSUME TypeOK, TickInv, Reads, Loop \/ ReadFails, UNCHANGED taskVars
  PROVE  TickInv'
<1> USE TimesTyped
<1>1. UNCHANGED <<pc, start, end, averaged>>
  BY DEF taskVars
<1>2. CASE LoopStops \/ ReadFails
  BY <1>1, <1>2
  DEF LoopStops, ReadFails, TickInv, Transferring, Transferred,
      LongTaskSampled, Starting, Ticking
<1>3. CASE SampleTotal
  <2>1. /\ mon = "idle" /\ mon' = "total" /\ ticked # NoTick
        /\ tickAt' = ticked /\ ticked' = NoTick
        /\ UNCHANGED <<now, nextTick, begun, samples>>
    BY <1>3 DEF SampleTotal
  <2>2. Ticks'
    BY <2>1 DEF TickInv, Ticks, Ticking
  <2>3. Transferring => Covered'
    BY <1>1, <2>1 DEF TickInv, Covered, Sampled, Soon, Ticking
  <2> QED
    BY <1>1, <2>1, <2>2, <2>3
    DEF TickInv, Transferring, Transferred, Sampled, Outlasts,
        LongTaskSampled, Starting, Ticking
<1>4. CASE SampleProc
  <2>1. /\ mon = "total" /\ mon' = "idle" /\ tickAt # NoTick
        /\ UNCHANGED <<now, nextTick, begun, ticked>>
    BY <1>4 DEF SampleProc, Reads
  <2>2. Ticks'
    BY <2>1 DEF TickInv, Ticks, Ticking
  <2>3. \A first, last : Sampled(first, last) => Sampled(first, last)'
    BY <1>4, SamplesStay DEF Sampled, TypeOK
  <2>4. /\ Len(samples) + 1 \in DOMAIN samples'
        /\ samples'[Len(samples) + 1].at = tickAt
    BY <1>4 DEF SampleProc, TypeOK, MonTypeOK
  <2>5. tickAt <= now
    BY <2>1 DEF TickInv, Ticks, Ticking
  <2>6. Transferring => Covered'
    <3> SUFFICES ASSUME Transferring PROVE Covered'
      OBVIOUS
    <3>1. start <= now /\ Covered
      BY <2>1 DEF TickInv, Ticking
    <3>2. CASE Sampled(start, now)
      BY <1>1, <2>1, <2>3, <3>1, <3>2 DEF Covered
    <3>3. CASE Soon(tickAt)
      BY <1>1, <2>1, <2>4, <2>5, <3>1, <3>3 DEF Covered, Sampled, Soon
    <3>4. CASE (ticked # NoTick /\ Soon(ticked)) \/ Soon(nextTick)
      BY <1>1, <2>1, <3>1, <3>4 DEF Covered, Soon
    <3> QED
      BY <3>1, <3>2, <3>3, <3>4 DEF Covered
  <2> QED
    BY <1>1, <2>1, <2>2, <2>3, <2>6
    DEF TickInv, Transferring, Transferred, Outlasts, LongTaskSampled,
        Starting, Ticking
<1>5. CASE NewTicker
  <2>1. /\ mon = "spawned" /\ mon' = "idle"
        /\ begun' = now /\ nextTick' = now + Interval
        /\ UNCHANGED <<now, ticked, tickAt, samples>>
    BY <1>5 DEF NewTicker
  <2>2. ticked = NoTick /\ Ticks'
    BY <2>1 DEF TickInv, Ticks
  <2>3. Transferring => Covered'
    BY <1>1, <2>1 DEF TickInv, Covered, Soon
  <2>4. Transferred \/ pc = "return" => ~Outlasts(begun)'
    BY <1>1, <2>1, MonitorConstants DEF TickInv, Outlasts
  <2> QED
    BY <1>1, <2>1, <2>2, <2>3, <2>4
    DEF TickInv, Transferring, Transferred, LongTaskSampled, Starting, Ticking
<1> QED
  BY <1>2, <1>3, <1>4, <1>5 DEF Loop

\* The monitor starts: there is no ticker yet.
LEMMA TicksStart ==
  ASSUME TickInv, MonitorStarts
  PROVE  TickInv'
<1>1. UNCHANGED <<pc, start, end, averaged, ticked>> /\ pc = "monitor"
  BY DEF MonitorStarts, StartReadsTotal, StartReadsProc, taskVars
<1>2. mon \in Starting /\ mon' \in {"newTotal", "spawned"}
  BY DEF MonitorStarts, StartReadsTotal, StartReadsProc, Starting
<1> QED
  BY <1>1, <1>2
  DEF TickInv, Transferring, Transferred, LongTaskSampled, Starting, Ticking

\* The handler.  When the transfer ends, the tick of an interval from its
\* start is long out of the channel, and its sample taken.
LEMMA TicksHandler ==
  ASSUME TypeOK, TickInv, Reads,
         UNCHANGED <<now, mon, ticked, nextTick, begun, tickAt, samples>>,
         \/ StreamAccepted \/ TransferStarts \/ Snapshot \/ TransferEnds
         \/ Averages \/ Returns \/ UNCHANGED taskVars
  PROVE  TickInv'
<1> USE TimesTyped
<1>1. Ticks => Ticks'
  BY DEF Ticks
<1>2. Covered /\ UNCHANGED start => Covered'
  BY DEF Covered, Sampled, Soon
<1>3. \A first, last : Sampled(first, last)' <=> Sampled(first, last)
  BY DEF Sampled
<1>4. CASE StreamAccepted \/ Returns
  BY <1>1, <1>4
  DEF StreamAccepted, Returns, Does, TickInv, Transferring, Transferred,
      LongTaskSampled, Starting, Ticking
<1>5. CASE TransferStarts
  <2>1. pc' = "preSent" /\ start' = now /\ pc = "start"
    BY <1>5 DEF TransferStarts, Does
  <2>2. mon \in Ticking => Soon(nextTick)'
    BY <2>1 DEF TickInv, Ticks, Soon
  <2> QED
    BY <1>1, <2>1, <2>2
    DEF TickInv, Transferring, Transferred, Covered, LongTaskSampled
<1>6. CASE Snapshot
  <2>1. UNCHANGED <<start, end, averaged>>
    BY <1>6 DEF Snapshot
  <2>2. \/ pc \in {"preSent", "preLost"} /\ pc' \in {"preLost", "end"}
        \/ pc \in {"postSent", "postLost"} /\ pc' \in {"postLost", "average"}
    BY <1>6 DEF Snapshot, Does
  <2> QED
    BY <1>1, <1>2, <1>3, <2>1, <2>2
    DEF TickInv, Transferring, Transferred, Outlasts, LongTaskSampled
<1>7. CASE TransferEnds
  <2>1. pc = "end" /\ pc' = "postSent" /\ end' = now /\ start' = start
    BY <1>7 DEF TransferEnds, Does
  <2>2. ASSUME mon \in Ticking, start + Interval + Late < now,
               begun + Interval + Late < now
        PROVE  Sampled(start, now)
    <3>1. start <= now /\ Covered /\ Ticks
      BY <2>1, <2>2 DEF TickInv, Transferring
    <3>2. ~(mon = "total" /\ Soon(tickAt))
      BY <2>2, <3>1 DEF Ticks, Soon
    <3>3. ~(ticked # NoTick /\ Soon(ticked))
      BY <2>2, <3>1 DEF Ticks, Soon
    <3>4. ~Soon(nextTick)
      BY <2>2, <3>1 DEF Ticks, Soon
    <3> QED
      BY <3>1, <3>2, <3>3, <3>4 DEF Covered
  <2>3. mon' \in Ticking /\ Outlasts(start)' /\ Outlasts(begun)' =>
          Sampled(start, now)'
    BY <1>3, <2>1, <2>2 DEF Outlasts
  <2> QED
    BY <1>1, <2>1, <2>3
    DEF TickInv, Transferring, Transferred, Sampled, LongTaskSampled
<1>8. CASE Averages
  <2>1. /\ pc = "average" /\ pc' = "return" /\ UNCHANGED <<start, end>>
        /\ averaged' = AverageBetween(start, end)
    BY <1>8 DEF Averages, Does
  <2>2. Sampled(start, end) => averaged' # {}
    BY <2>1 DEF Sampled, AverageBetween
  <2> QED
    BY <1>1, <2>1, <2>2
    DEF TickInv, Transferring, Transferred, Outlasts, LongTaskSampled
<1>9. CASE UNCHANGED taskVars
  BY <1>1, <1>2, <1>3, <1>9
  DEF taskVars, TickInv, Transferring, Transferred, Outlasts, LongTaskSampled
<1> QED
  BY <1>4, <1>5, <1>6, <1>7, <1>8, <1>9

LEMMA TickStep ==
  ASSUME SamplesPrompt
  PROVE  ShareInv /\ TypeOK /\ TickInv /\ [Next]_vars => TickInv'
<1> SUFFICES ASSUME Reads, TypeOK, TickInv, [Next]_vars PROVE TickInv'
  BY DEF ShareInv
<1>1. CASE MonitorStarts
  BY <1>1, TicksStart
<1>2. CASE Tick /\ UNCHANGED taskVars
  BY <1>2, TicksTick
<1>3. CASE (Loop \/ ReadFails) /\ UNCHANGED taskVars
  BY <1>3, TicksLoop
<1>4. CASE StreamAccepted \/ TransferStarts \/ Snapshot \/ TransferEnds
           \/ Averages \/ Returns
  <2>1. UNCHANGED <<now, mon, ticked, nextTick, begun, tickAt, samples>>
    BY <1>4 DEF StreamAccepted, TransferStarts, Snapshot, TransferEnds,
                Averages, Returns, monVars
  <2> QED
    BY <1>4, <2>1, TicksHandler
<1>5. CASE UNCHANGED <<monVars, taskVars>>
  BY <1>5, TicksHandler DEF monVars
<1> QED
  BY <1>1, <1>2, <1>3, <1>4, <1>5 DEF Next, Handler, Environment, vars

(***************************************************************************)
(* If a sample is taken before the ticker fires again, no tick is dropped, *)
(* and a transfer that goes on for longer than an interval and the time of *)
(* a sample after both it and the loop have begun has a sample to average, *)
(* wherever between two ticks it starts and however late the loop does.    *)
(***************************************************************************)
THEOREM LongTasksAlwaysSampled ==
  ASSUME SamplesPrompt
  PROVE  Spec => []LongTaskSampled
<1>1. TickInv => LongTaskSampled
  BY DEF TickInv
<1>2. ShareInv /\ TypeOK /\ TickInv /\ [Next]_vars => TickInv'
  BY TickStep
<1>3. Spec => []TypeOK
  BY TypeCorrect
<1> QED
  BY <1>1, <1>2, <1>3, InitialShares, InitialTicks, ShareStep, PTL DEF Spec

=============================================================================
