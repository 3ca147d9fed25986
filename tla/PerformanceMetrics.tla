-------------------------- MODULE PerformanceMetrics --------------------------
(***************************************************************************)
(* The measurements System::tick() takes and snapshot() reports:           *)
(* TaskTimer, SchedulerHealthMetrics, QueueDepthMonitor (each with a       *)
(* rolling window), CoreUtilizationTracker and the aggregation done by     *)
(* BackgroundDiagnosticsTask.  Core 0 dispatches one scheduled task with a *)
(* declared WCET and samples the queue.  The other core shares the         *)
(* scheduler's health metrics, runs the diagnostics task and takes         *)
(* snapshots; none of these objects is guarded.  A member function is one  *)
(* step except recordGap, whose reads and writes two cores interleave, and *)
(* snapshot(), which calls one accessor after the other.                   *)
(***************************************************************************)
EXTENDS Integers, Sequences, FiniteSets, FiniteSetsExt, Sums

CONSTANTS Durations,                \* times a task's tick may take
          Overheads,                \* time of the kernel between tick start and task start
          PeerGap,                  \* idle time the other core records per tick
          Depths,                   \* command queue sizes that are sampled
          Epochs,                   \* values of the raw clock when the system clock is 0
          kHistogramBuckets, kHistogramBucketWidthUs,
          MetricsWindowUs,          \* CfgMetricsWindowUs
          declaredWcetUs,
          SchedulerHealthWired,     \* was setSchedulerHealth() called?  build() does not
          kWindowTicks,             \* window of the utilisation tracker, in ticks
          MaxTicks,                 \* bound: ticks of core 0
          MaxPeerGaps,              \* bound: ticks of the other core
          MaxSnapshots              \* bound: snapshots and diagnostics ticks

ASSUME MetricsAssumption ==
  /\ Durations \subseteq Nat /\ Overheads \subseteq Nat /\ Depths \subseteq Nat
  /\ Epochs \subseteq Nat /\ PeerGap \in Nat
  /\ kHistogramBuckets \in Nat \ {0} /\ kHistogramBucketWidthUs \in Nat \ {0}
  /\ SchedulerHealthWired \in BOOLEAN
  /\ {MetricsWindowUs, declaredWcetUs} \subseteq Nat /\ kWindowTicks \in Nat \ {0}
  /\ {MaxTicks, MaxPeerGaps, MaxSnapshots} \subseteq Nat
  /\ \E m \in Durations : \A d \in Durations : d <= m    \* there is a longest tick

VARIABLES clock, epoch,             \* s_timer.nowMicros(); the raw clock is clock + epoch
          pc, tickTime, busyAccum,  \* System::tick() on core 0
          timer, util, health, queueMon,
          gapReg,                   \* per core: what recordGap has read, or Idle
          spos, snap,               \* snapshot(): next accessor, values so far
          \* history
          samples, curFrom, repFrom, \* durations; where the two windows begin
          ticks, peerGaps, looks,
          retired,                  \* ticks in reported health windows
          overlapped,               \* two recordGap calls have overlapped
          disturbed,                \* a measurement changed during this snapshot
          diagnosed                 \* the misses the last diagnostics cycle found

tickVars == <<clock, epoch, pc, tickTime, busyAccum>>
ghosts   == <<samples, curFrom, repFrom, ticks>>
vars     == <<tickVars, timer, util, health, queueMon, gapReg, spos, snap, ghosts,
              peerGaps, looks, retired, overlapped, disturbed, diagnosed>>

EmptyWindow == [n |-> 0, max |-> 0, sum |-> 0]

Cores   == {0, 1}
Buckets == 0 .. kHistogramBuckets - 1
Idle    == [w |-> EmptyWindow, now |-> -1]     \* no recordGap under way
Unset   == 1 + Max(Durations)                 \* numeric_limits<SputterMicros>::max()
-----------------------------------------------------------------------------
(* Rolling windows.  A window accumulates a count, a sum and a maximum; the *)
(* task timer's also a minimum, the deadline misses and the histogram.      *)

EmptyTimerWindow ==
  [n |-> 0, max |-> 0, sum |-> 0, min |-> Unset, misses |-> 0, hist |-> [b \in Buckets |-> 0]]

\* The values accessors read: the last complete window, or the one in
\* progress as long as there is none.
Reported(m) == IF m.rep.n > 0 THEN m.rep ELSE m.cur

AddTo(w, x) == [w EXCEPT !.n = @ + 1, !.sum = @ + x, !.max = Max({@, x})]

WindowOver(m, now) ==
  MetricsWindowUs > 0 /\ now >= m.windowStart /\ now - m.windowStart >= MetricsWindowUs

\* The end of stop(), recordGap() and sample(): w is the new content of the
\* window in progress; it is reported and replaced once its time is over.
RotateIfOver(m, w, empty, now) ==
  IF WindowOver(m, now)
  THEN [m EXCEPT !.rep = w, !.cur = empty, !.windowStart = now]
  ELSE [m EXCEPT !.cur = w]
-----------------------------------------------------------------------------
(* TaskTimer.                                                               *)

Bucket(d) == Min({d \div kHistogramBucketWidthUs, kHistogramBuckets - 1})

TimerReset == [last |-> 0, start |-> 0, cur |-> EmptyTimerWindow, rep |-> EmptyTimerWindow,
               windowStart |-> 0]

AddSampleMinElse(w, d) ==   \* the minimum is only looked at when the maximum did not change
  [AddTo(w, d) EXCEPT !.min = IF d > w.max THEN @ ELSE Min({@, d}),
                      !.hist[Bucket(d)] = @ + 1]

AddSample(w, d) ==
  [AddTo(w, d) EXCEPT !.min = Min({@, d}), !.hist[Bucket(d)] = @ + 1]

\* percentileUs(k / 4), with exact fractions for the code's floats.
Cumulative(hist, b) == SumBetween(hist, -1, b)      \* hist[0] + ... + hist[b]

PercentileNoPrev(k) ==      \* the rank within the bucket counts the lower buckets too
  LET w == Reported(timer)
      b == Min({i \in Buckets : 4 * Cumulative(w.hist, i) >= k * w.n})
      low  == b * kHistogramBucketWidthUs
      high == IF b < kHistogramBuckets - 1 THEN low + kHistogramBucketWidthUs ELSE Max({low, w.max})
  IN IF w.n = 0 \/ k <= 0 THEN 0
     ELSE IF k >= 4 THEN w.max
     ELSE low + (k * w.n * (high - low)) \div (4 * w.hist[b])

PercentileUs(k) ==
  LET w == Reported(timer)
      b == Min({i \in Buckets : 4 * Cumulative(w.hist, i) >= k * w.n})
      low  == b * kHistogramBucketWidthUs
      high == IF b < kHistogramBuckets - 1 THEN low + kHistogramBucketWidthUs ELSE Max({low, w.max})
      before == Cumulative(w.hist, b) - w.hist[b]
  IN IF w.n = 0 \/ k <= 0 THEN 0
     ELSE IF k >= 4 THEN w.max
     ELSE low + ((k * w.n - 4 * before) * (high - low)) \div (4 * w.hist[b])
-----------------------------------------------------------------------------
Init ==
  /\ clock = 0 /\ epoch \in Epochs /\ pc = "idle" /\ tickTime = 0 /\ busyAccum = 0
  /\ timer = TimerReset
  /\ util = [tickStart |-> 0, busy |-> 0, total |-> 0, n |-> 0, rep |-> [busy |-> 0, total |-> 0, n |-> 0]]
  /\ health = [cur |-> EmptyWindow, rep |-> EmptyWindow, windowStart |-> 0, misses |-> 0]
  /\ queueMon = [last |-> 0, cur |-> EmptyWindow, rep |-> EmptyWindow, windowStart |-> 0]
  /\ gapReg = [c \in Cores |-> Idle]
  /\ spos = 0 /\ snap = <<>>
  /\ samples = <<>> /\ curFrom = 0 /\ repFrom = 0
  /\ ticks = 0 /\ peerGaps = 0 /\ looks = 0 /\ retired = 0 /\ overlapped = FALSE /\ disturbed = FALSE
  /\ diagnosed = 0

peerVars == <<gapReg, spos, snap, peerGaps, looks, retired, overlapped, diagnosed>>

(* System::tick() on core 0.                                                *)

TickStart ==
  /\ pc = "idle" /\ ticks < MaxTicks
  /\ clock' = clock + 1            \* the loop takes some time between two ticks
  /\ tickTime' = clock' /\ busyAccum' = 0 /\ pc' = "start"
  /\ util' = [util EXCEPT !.tickStart = clock']
  /\ UNCHANGED <<epoch, timer, health, queueMon, ghosts, peerVars, disturbed>>

TimerStart(overhead) ==
  /\ pc = "start"
  /\ clock' = clock + overhead
  /\ timer' = [timer EXCEPT !.start = clock' + epoch]
  /\ pc' = "task"
  /\ UNCHANGED <<epoch, tickTime, busyAccum, util, health, queueMon, ghosts, peerVars, disturbed>>

\* The task runs for d and the timer stops.
TimerStop(d) ==
  /\ pc = "task"
  /\ clock' = clock + d
  /\ LET now     == clock' + epoch
         elapsed == now - timer.start
         w       == AddSample(timer.cur, elapsed)
     IN /\ timer' = [RotateIfOver(timer, w, EmptyTimerWindow, now) EXCEPT !.last = elapsed]
        /\ busyAccum' = busyAccum + elapsed
        /\ samples' = Append(samples, elapsed)
        /\ IF WindowOver(timer, now)
           THEN repFrom' = curFrom /\ curFrom' = Len(samples')
           ELSE UNCHANGED <<repFrom, curFrom>>
  /\ pc' = "check" /\ disturbed' = TRUE
  /\ UNCHANGED <<epoch, tickTime, util, health, queueMon, ticks, peerVars>>

\* The deadline test comes after stop(), which may just have rotated.
RecordMiss ==
  /\ pc = "check" /\ pc' = "end"
  /\ IF declaredWcetUs > 0 /\ timer.last > declaredWcetUs
     THEN timer' = [timer EXCEPT !.cur.misses = @ + 1] /\ disturbed' = TRUE
     ELSE UNCHANGED <<timer, disturbed>>
  /\ UNCHANGED <<clock, epoch, tickTime, busyAccum, util, health, queueMon, ghosts, peerVars>>

\* CoreUtilizationTracker::recordTickEnd.
UtilTickEnd(now, busy) ==
  LET w == [busy |-> util.busy + busy, total |-> util.total + (now - util.tickStart), n |-> util.n + 1]
  IN IF w.n >= kWindowTicks
     THEN [tickStart |-> util.tickStart, busy |-> 0, total |-> 0, n |-> 0, rep |-> w]
     ELSE [tickStart |-> util.tickStart, busy |-> w.busy, total |-> w.total, n |-> w.n, rep |-> util.rep]

\* recordGap: the accumulators are read ...
GapLoad(c, gap) ==
  /\ gapReg[c] = Idle
  /\ gapReg' = [gapReg EXCEPT ![c] = [w |-> AddTo(health.cur, gap), now |-> clock]]
  /\ overlapped' = (overlapped \/ gapReg[1 - c] # Idle)

GapStoreForgets(c) ==    \* the tick that closes a window is not in it
  /\ gapReg[c] # Idle
  /\ LET w == IF WindowOver(health, gapReg[c].now) THEN health.cur ELSE gapReg[c].w
     IN health' = RotateIfOver(health, w, EmptyWindow, gapReg[c].now)
  /\ retired' = retired + (IF WindowOver(health, gapReg[c].now) THEN health'.rep.n ELSE 0)
  /\ gapReg' = [gapReg EXCEPT ![c] = Idle]

\* ... and written, and the window rotated.
GapStore(c) ==
  /\ gapReg[c] # Idle
  /\ health' = RotateIfOver(health, gapReg[c].w, EmptyWindow, gapReg[c].now)
  /\ retired' = retired + (IF WindowOver(health, gapReg[c].now) THEN health'.rep.n ELSE 0)
  /\ gapReg' = [gapReg EXCEPT ![c] = Idle]

\* The end of tick(): utilisation, the gap (two steps), the queue.
TickEnd ==
  /\ pc = "end" /\ pc' = "gap"
  /\ util' = UtilTickEnd(clock, busyAccum)
  /\ LET wall == clock - tickTime
     IN GapLoad(0, IF wall >= busyAccum THEN wall - busyAccum ELSE 0)
  /\ UNCHANGED <<clock, epoch, tickTime, busyAccum, timer, health, queueMon, ghosts,
                 spos, snap, peerGaps, looks, retired, disturbed, diagnosed>>

TickGap ==
  /\ pc = "gap" /\ pc' = "queue"
  /\ GapStore(0) /\ disturbed' = TRUE
  /\ UNCHANGED <<clock, epoch, tickTime, busyAccum, timer, util, queueMon, ghosts,
                 spos, snap, peerGaps, looks, overlapped, diagnosed>>

\* QueueDepthMonitor::sample, on core 0 only.
SampleQueue(depth) ==
  /\ pc = "queue" /\ pc' = "idle"
  /\ queueMon' = [RotateIfOver(queueMon, AddTo(queueMon.cur, depth), EmptyWindow, clock)
                     EXCEPT !.last = depth]
  /\ ticks' = ticks + 1
  /\ UNCHANGED <<clock, epoch, tickTime, busyAccum, timer, util, health,
                 samples, curFrom, repFrom, peerVars, disturbed>>
-----------------------------------------------------------------------------
(* The other core: the end of its own ticks, the diagnostics task and the   *)
(* snapshot.                                                                *)

tickState == <<tickVars, timer, util, queueMon, ghosts>>

PeerGapLoad(gap) ==
  /\ peerGaps < MaxPeerGaps /\ spos = 0
  /\ GapLoad(1, gap)
  /\ UNCHANGED <<tickState, health, spos, snap, peerGaps, looks, retired, disturbed, diagnosed>>

PeerGapStore ==
  /\ GapStore(1)
  /\ peerGaps' = peerGaps + 1
  /\ UNCHANGED <<tickState, spos, snap, looks, overlapped, disturbed, diagnosed>>

\* BackgroundDiagnosticsTask::tick: setAggregates with the sums over the
\* monitored timers (here one), if setSchedulerHealth() was called.  The
\* watchdog kick, the budget log, the memory profiler and the drain change
\* none of these measurements.
Diagnose ==
  /\ looks < MaxSnapshots /\ spos = 0 /\ gapReg[1] = Idle
  /\ health' = IF SchedulerHealthWired THEN [health EXCEPT !.misses = Reported(timer).misses]
                                       ELSE health
  /\ diagnosed' = Reported(timer).misses /\ looks' = looks + 1
  /\ UNCHANGED <<tickState, gapReg, spos, snap, peerGaps, retired, overlapped, disturbed>>

\* snapshot() reads the scheduler's totalGapUs, maxGapUs, averageGapUs and
\* tickCount, then the task's minDuration, maxDuration, getAverageDurationUs,
\* sampleCount, deadlineMissCount and histogram, in this order, each accessor
\* testing for itself whether a window is complete.  An average is kept as
\* sum and count.
HealthFields == <<"sum", "max", "avg", "n">>
TimerFields  == <<"min", "max", "avg", "n", "misses", "hist">>
SnapshotSize == Len(HealthFields) + Len(TimerFields)

ReadField(w, f) == IF f = "avg" THEN <<w.sum, w.n>> ELSE w[f]

HealthAccessor(i) == ReadField(Reported(health), HealthFields[i])

TaskAccessorHistCurrent(i) ==   \* the histogram of the window in progress
  IF TimerFields[i] = "hist" THEN timer.cur.hist ELSE ReadField(Reported(timer), TimerFields[i])

TaskAccessor(i) == ReadField(Reported(timer), TimerFields[i])

SnapshotBegin ==
  /\ looks < MaxSnapshots /\ spos = 0 /\ gapReg[1] = Idle
  /\ spos' = 1 /\ snap' = <<>> /\ looks' = looks + 1 /\ disturbed' = FALSE
  /\ UNCHANGED <<tickState, health, gapReg, peerGaps, retired, overlapped, diagnosed>>

SnapshotHealth ==
  /\ spos \in 1 .. Len(HealthFields)
  /\ snap' = Append(snap, HealthAccessor(spos)) /\ spos' = spos + 1
  /\ UNCHANGED <<tickState, health, gapReg, peerGaps, looks, retired, overlapped, disturbed, diagnosed>>

SnapshotTask ==
  /\ spos \in Len(HealthFields) + 1 .. SnapshotSize
  /\ snap' = Append(snap, TaskAccessor(spos - Len(HealthFields)))
  /\ spos' = (spos + 1) % (SnapshotSize + 1)
  /\ UNCHANGED <<tickState, health, gapReg, peerGaps, looks, retired, overlapped, disturbed, diagnosed>>

Next ==
  \/ TickStart
  \/ \E o \in Overheads : TimerStart(o)
  \/ \E d \in Durations : TimerStop(d)
  \/ RecordMiss
  \/ TickEnd
  \/ TickGap
  \/ \E q \in Depths : SampleQueue(q)
  \/ PeerGapLoad(PeerGap)
  \/ PeerGapStore
  \/ Diagnose
  \/ SnapshotBegin
  \/ SnapshotHealth
  \/ SnapshotTask

Spec == Init /\ [][Next]_vars
-----------------------------------------------------------------------------
Window == [n : Nat, max : Nat, sum : Nat]

TimerWindow == [n : Nat, max : Nat, sum : Nat, min : Nat, misses : Nat, hist : [Buckets -> Nat]]

(* The state has the shape the code declares.                               *)
TypeOK ==
  /\ clock \in Nat /\ epoch \in Epochs /\ tickTime \in Nat /\ busyAccum \in Nat
  /\ pc \in {"idle", "start", "task", "check", "end", "gap", "queue"}
  /\ timer \in [last : Nat, start : Nat, cur : TimerWindow, rep : TimerWindow, windowStart : Nat]
  /\ util \in [tickStart : Nat, busy : Nat, total : Nat, n : 0 .. kWindowTicks - 1,
                rep : [busy : Nat, total : Nat, n : Nat]]
  /\ health \in [cur : Window, rep : Window, windowStart : Nat, misses : Nat]
  /\ queueMon \in [last : Depths \union {0}, cur : Window, rep : Window, windowStart : Nat]
  /\ gapReg \in [Cores -> [w : Window, now : Nat \cup {-1}]]
  /\ spos \in 0 .. SnapshotSize /\ Len(snap) <= SnapshotSize
  /\ samples \in Seq(Durations) /\ {repFrom, curFrom} \subseteq Nat
  /\ repFrom <= curFrom /\ curFrom <= Len(samples)
  /\ {ticks, peerGaps, looks, retired, diagnosed} \subseteq Nat
  /\ overlapped \in BOOLEAN /\ disturbed \in BOOLEAN

\* What a window with the samples from+1 .. to of s must hold.
Summarises(w, s, from, to) ==
  LET I == from + 1 .. to
      D == {s[i] : i \in I}
  IN /\ w.n = Cardinality(I)
     /\ w.sum = SumBetween(s, from, to)
     /\ w.max = IF D = {} THEN 0 ELSE Max(D)
     /\ w.min = IF D = {} THEN Unset ELSE Min(D)
     /\ \A b \in Buckets :
          w.hist[b] = Cardinality({i \in I : Min({s[i] \div kHistogramBucketWidthUs,
                                                  kHistogramBuckets - 1}) = b})

\* Dispatches that took longer than declared.
Overruns == Cardinality({i \in 1 .. Len(samples) : samples[i] > declaredWcetUs})

(* A utilisation of at most 1.                                              *)
BusyWithinWall == util.busy <= util.total /\ util.rep.busy <= util.rep.total

(* Every dispatch is measured in exactly one window: the window in progress *)
(* holds the statistics of exactly the ticks since the last rotation, and   *)
(* the reported one those between the last two (TaskTimer::stop and         *)
(* rotateWindow), whatever the epoch of the raw clock the timer reads.      *)
(* Although the miss of the dispatch that closes a window is counted in the *)
(* next one, a reported window never shows more misses than samples and no  *)
(* miss is counted twice.  The quotients stay in range across rotations:    *)
(* the busy time of a core, measured on the raw clock, never exceeds its    *)
(* wall time, measured on the system's (a utilisation of at most 1), and no *)
(* average queue depth is above the peak of its window.                     *)
WindowsExact ==
  /\ Summarises(timer.cur, samples, curFrom, Len(samples))
  /\ Summarises(timer.rep, samples, repFrom, curFrom)
  /\ timer.rep.misses <= timer.rep.n /\ timer.cur.misses <= timer.cur.n + 1
  /\ timer.cur.misses + timer.rep.misses <= Overruns
  /\ BusyWithinWall
  /\ \A w \in {queueMon.cur, queueMon.rep} : w.sum <= w.n * w.max /\ (w.n > 0 => w.max <= w.sum)

\* The k/4 quantile of the window the accessors read, exactly.
ExactQuantile(k) ==
  LET I == IF timer.rep.n > 0 THEN repFrom + 1 .. curFrom ELSE curFrom + 1 .. Len(samples)
      AtMost(d) == Cardinality({i \in I : samples[i] <= d})
  IN Min({d \in {samples[i] : i \in I} : 4 * AtMost(d) >= k * Cardinality(I)})

(* percentileUs picks the histogram bucket that really holds the quantile,  *)
(* and its interpolation does not leave that bucket.                        *)
PercentileInBucket ==
  \A k \in 1 .. 3 : Reported(timer).n > 0 =>
    LET b == Bucket(ExactQuantile(k))
    IN /\ PercentileUs(k) >= b * kHistogramBucketWidthUs
       /\ PercentileUs(k) <= IF b < kHistogramBuckets - 1 THEN (b + 1) * kHistogramBucketWidthUs
                                                          ELSE Reported(timer).max

\* recordGap calls of both cores that have returned.
GapsRecorded == peerGaps + ticks + (IF pc = "queue" THEN 1 ELSE 0)

(* As long as no two cores have been inside recordGap at once, every tick   *)
(* of every core is in the window in progress or was in a reported one.     *)
GapExact == ~overlapped => retired + health.cur.n = GapsRecorded

(* What makes GapExact and BusyWithinWall inductive: the tick of core 0 is  *)
(* as long as the task time measured in it, on whichever clock; and as long *)
(* as no two cores overlapped, what a core has read in recordGap is still   *)
(* what it will overwrite.                                                  *)
TickInv ==
  /\ pc = "task" => timer.start = clock + epoch
  /\ pc # "idle" => util.tickStart = tickTime /\ tickTime + busyAccum <= clock
GapInv ==
  /\ pc = "gap" <=> gapReg[0] # Idle
  /\ ~overlapped => /\ gapReg[0] = Idle \/ gapReg[1] = Idle
                    /\ \A c \in Cores : gapReg[c] # Idle => gapReg[c].w.n = health.cur.n + 1
MetricsInv == TypeOK /\ TickInv /\ BusyWithinWall /\ GapInv /\ GapExact

(* What makes WindowsExact inductive: between stop() and the deadline test  *)
(* the last dispatch's miss is outstanding, and the sum of every window of  *)
(* gaps and depths lies between its maximum and n times that.               *)
MissInv ==
  LET checking == pc = "check"
  IN /\ timer.rep.misses <= timer.rep.n
     /\ timer.cur.misses <= timer.cur.n + (IF checking THEN 0 ELSE 1)
     /\ timer.cur.misses + timer.rep.misses
          + (IF checking /\ timer.last > declaredWcetUs THEN 1 ELSE 0) <= Overruns
InRange(w) == w.sum <= w.n * w.max /\ w.max <= w.sum
WindowsInv ==
  /\ Summarises(timer.cur, samples, curFrom, Len(samples))
  /\ Summarises(timer.rep, samples, repFrom, curFrom)
  /\ MissInv
  /\ InRange(queueMon.cur) /\ InRange(queueMon.rep)

\* A finished snapshot describes one set of ticks and one set of samples:
\* the average belongs to the count, and lies between the extremes.
CoherentHealth ==
  LET sum == snap[1]  mx == snap[2]  n == snap[4]
  IN snap[3] = <<sum, n>> /\ mx <= sum /\ sum <= mx * n

CoherentTask ==
  LET mn == snap[5]  mx == snap[6]  sum == snap[7][1]  cnt == snap[7][2]  n == snap[8]  h == snap[10]
  IN /\ n = cnt /\ Cumulative(h, kHistogramBuckets - 1) = n /\ snap[9] <= n + 1
     /\ n > 0 => mn * n <= sum /\ sum <= mx * n

Complete == Len(snap) = SnapshotSize

(* A snapshot taken from another core (System.h:573-640) is coherent when   *)
(* core 0 neither measured its task nor recorded a gap while it was taken,  *)
(* although every accessor chooses its window for itself; what the gaps     *)
(* show is assumed not to be damaged by two cores in recordGap at once.     *)
QuietSnapshotCoherent ==
  Complete /\ ~disturbed => CoherentTask /\ (~overlapped => CoherentHealth)

(* What makes it inductive: the windows add up, whoever wrote them, and as   *)
(* long as nothing disturbs it a snapshot in progress shows the windows the  *)
(* accessors read now.                                                       *)
Balanced(w) ==
  Cumulative(w.hist, kHistogramBuckets - 1) = w.n /\ w.min * w.n <= w.sum /\ w.sum <= w.max * w.n
SnapshotInv ==
  /\ \A w \in {health.cur, health.rep} \cup {gapReg[c].w : c \in Cores} : InRange(w)
  /\ Balanced(timer.cur) /\ Balanced(timer.rep)
  /\ spos # 0 => gapReg[1] = Idle
  /\ ~disturbed =>
       IF spos = 0 THEN Complete => CoherentTask /\ CoherentHealth
       ELSE \A i \in 1 .. Len(snap) :
              snap[i] = IF i <= Len(HealthFields) THEN HealthAccessor(i)
                        ELSE TaskAccessor(i - Len(HealthFields))

(* What the documentation says and does not hold; TLC refutes each of the    *)
(* following.                                                               *)

(* "Capture a point-in-time snapshot of all performance metrics"            *)
(* (System.h:560): a snapshot is coherent.                                  *)
SnapshotIsPointInTime == Complete => CoherentTask

(* SchedulerHealthMetrics tracks the "total tick count" (its header, line   *)
(* 10): the ticks of all cores are counted.                                 *)
EveryTickCounted == retired + health.cur.n = GapsRecorded

(* deadlineMissCount returns the "number of recorded deadline misses in the *)
(* current or last window" (TaskTimer.h:194): those of the samples in it.   *)
MissesOfTheirWindow ==
  timer.rep.misses = Cardinality({i \in repFrom + 1 .. curFrom : samples[i] > declaredWcetUs})

(* "Aggregate deadline misses across all tasks" (PerformanceSnapshot.h):    *)
(* the total is what the last diagnostics cycle found in the timers.        *)
TotalsAggregated == health.misses = diagnosed

(* "Total deadline miss count across all tasks" (SchedulerHealthMetrics.h:  *)
(* 74): the total of misses never falls.                                    *)
MissTotalNeverFalls == [][health'.misses >= health.misses]_vars
=============================================================================
