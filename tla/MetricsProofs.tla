---------------------------- MODULE MetricsProofs ----------------------------
(***************************************************************************)
(* The measurements, for any durations, windows, buckets and clocks: that  *)
(* every tick is counted once as long as two cores do not meet in          *)
(* recordGap, that a core is never busy for longer than its ticks last,    *)
(* that a reported window tells exactly the samples that fell into it,     *)
(* that an estimated percentile lies in the bucket of its rank, and that a *)
(* snapshot which no sample overlaps shows one moment.                     *)
(***************************************************************************)
EXTENDS PerformanceMetrics, InductionLemmas, SequenceTheorems, TLAPS

HealthMetrics == [cur : Window, rep : Window, windowStart : Nat, misses : Nat]
QueueMonitor == [last : Depths \union {0}, cur : Window, rep : Window, windowStart : Nat]
TaskTimer == [last : Nat, start : Nat, cur : TimerWindow, rep : TimerWindow, windowStart : Nat]
UtilTracker == [tickStart : Nat, busy : Nat, total : Nat, n : 0 .. kWindowTicks - 1,
                rep : [busy : Nat, total : Nat, n : Nat]]

(* The extremes of two numbers.                                             *)
LEMMA TwoLemma ==
  ASSUME NEW a \in Nat, NEW b \in Nat
  PROVE  Max({a, b}) \in {a, b} /\ Min({a, b}) \in {a, b} /\ Min({a, b}) <= b /\ Max({a, b}) >= b
<1>1. \E x \in {a, b} : \A y \in {a, b} : x >= y
  OBVIOUS
<1>2. \E x \in {a, b} : \A y \in {a, b} : x =< y
  OBVIOUS
<1>3. Max({a, b}) \in {a, b} /\ \A y \in {a, b} : Max({a, b}) >= y
  BY <1>1 DEF Max
<1>4. Min({a, b}) \in {a, b} /\ \A y \in {a, b} : Min({a, b}) =< y
  BY <1>2 DEF Min
<1> QED
  BY <1>3, <1>4

(* The windows that are reset, and those that a value is added to.          *)
LEMMA EmptyLemma ==
  /\ EmptyWindow \in Window /\ EmptyTimerWindow \in TimerWindow /\ EmptyWindow.n = 0
  /\ Idle \in [w : Window, now : Nat \cup {-1}]
<1>1. EmptyWindow \in Window /\ EmptyWindow.n = 0
  BY DEF EmptyWindow, Window
<1>2. Unset \in Nat
  <2>1. \E m \in Durations : \A d \in Durations : m >= d
    BY MetricsAssumption
  <2>2. Max(Durations) \in Durations
    BY <2>1 DEF Max
  <2>3. Max(Durations) \in Nat
    BY <2>2, MetricsAssumption
  <2> QED
    BY <2>3 DEF Unset
<1>3. EmptyTimerWindow \in TimerWindow
  BY <1>2 DEF EmptyTimerWindow, TimerWindow
<1> QED
  BY <1>1, <1>3 DEF Idle

(* A value added to a window is counted once.                               *)
LEMMA AddLemma ==
  ASSUME NEW w \in Window, NEW x \in Nat
  PROVE  AddTo(w, x) \in Window /\ AddTo(w, x).n = w.n + 1
<1>1. Max({w.max, x}) \in Nat
  BY TwoLemma DEF Window
<1> DEFINE m == Max({w.max, x})
<1>2. AddTo(w, x) = [w EXCEPT !.n = w.n + 1, !.sum = w.sum + x, !.max = m]
  BY DEF AddTo
<1>3. m \in Nat /\ w.n + 1 \in Nat /\ w.sum + x \in Nat
  BY <1>1 DEF Window
<1> DEFINE a == w.n + 1
           b == w.sum + x
<1>4. AddTo(w, x) = [w EXCEPT !.n = a, !.sum = b, !.max = m] /\ a \in Nat /\ b \in Nat
  BY <1>2, <1>3
<1> HIDE DEF m, a, b
<1>5. AddTo(w, x) \in Window /\ AddTo(w, x).n = a
  BY <1>3, <1>4 DEF Window
<1> QED
  BY <1>5 DEF a

(* A sample added to the task timer's window; its bucket is one of the      *)
(* histogram.                                                               *)
LEMMA SampleLemma ==
  ASSUME NEW w \in TimerWindow, NEW d \in Nat
  PROVE  AddSample(w, d) \in TimerWindow
<1>1. w.n \in Nat /\ w.sum \in Nat /\ w.max \in Nat /\ w.min \in Nat /\ w.hist \in [Buckets -> Nat]
  BY DEF TimerWindow
<1>2. Max({w.max, d}) \in Nat /\ Min({w.min, d}) \in Nat
  BY <1>1, TwoLemma
<1>3. Bucket(d) \in Buckets
  <2> DEFINE q == d \div kHistogramBucketWidthUs
             top == kHistogramBuckets - 1
  <2>1. q \in Nat /\ top \in Nat
    BY MetricsAssumption, Z3
  <2>2. Bucket(d) = Min({q, top})
    BY DEF Bucket
  <2> HIDE DEF q, top
  <2>3. Bucket(d) \in 0 .. top
    BY <2>1, <2>2, TwoLemma
  <2> QED
    BY <2>3 DEF Buckets, top
<1>4. [w.hist EXCEPT ![Bucket(d)] = @ + 1] \in [Buckets -> Nat]
  BY <1>1, <1>3
<1> DEFINE m == Max({w.max, d})
           k == Min({w.min, d})
           h == [w.hist EXCEPT ![Bucket(d)] = @ + 1]
           a == w.n + 1
           b == w.sum + d
           u == [w EXCEPT !.n = a, !.sum = b, !.max = m]
<1>5. AddTo(w, d) = u
  BY DEF AddTo
<1>6. m \in Nat /\ k \in Nat /\ h \in [Buckets -> Nat] /\ a \in Nat /\ b \in Nat
  BY <1>1, <1>2, <1>4
<1> HIDE DEF m, a, b
<1>7. u \in TimerWindow /\ u.min = w.min /\ u.hist = w.hist
  BY <1>1, <1>6 DEF TimerWindow
<1> HIDE DEF u
<1>8. AddSample(w, d) = [u EXCEPT !.min = Min({u.min, d}), !.hist = [u.hist EXCEPT ![Bucket(d)] = @ + 1]]
  BY <1>5 DEF AddSample
<1>9. AddSample(w, d) = [u EXCEPT !.min = k, !.hist = h]
  BY <1>7, <1>8
<1> HIDE DEF k, h
<1> QED
  BY <1>6, <1>7, <1>9 DEF TimerWindow

(* What the rotation leaves, in the three objects that have windows.        *)
LEMMA RotateHealth ==
  ASSUME NEW m \in HealthMetrics, NEW w \in Window, NEW now \in Nat \cup {-1}
  PROVE  /\ RotateIfOver(m, w, EmptyWindow, now) \in HealthMetrics
         /\ IF WindowOver(m, now)
            THEN /\ RotateIfOver(m, w, EmptyWindow, now).rep = w
                 /\ RotateIfOver(m, w, EmptyWindow, now).cur.n = 0
            ELSE RotateIfOver(m, w, EmptyWindow, now).cur = w
<1>1. WindowOver(m, now) => now \in Nat
  BY DEF WindowOver, HealthMetrics
<1> QED
  BY <1>1, EmptyLemma DEF RotateIfOver, HealthMetrics

(* The same of the queue monitor, with the depth it keeps.                  *)
LEMMA RotateQueue ==
  ASSUME NEW m \in QueueMonitor, NEW w \in Window, NEW now \in Nat, NEW depth \in Depths
  PROVE  [RotateIfOver(m, w, EmptyWindow, now) EXCEPT !.last = depth] \in QueueMonitor
BY EmptyLemma DEF RotateIfOver, QueueMonitor

(* The same of the task timer, with the last duration.                      *)
LEMMA RotateTimer ==
  ASSUME NEW m \in TaskTimer, NEW w \in TimerWindow, NEW now \in Nat, NEW d \in Nat
  PROVE  [RotateIfOver(m, w, EmptyTimerWindow, now) EXCEPT !.last = d] \in TaskTimer
BY EmptyLemma DEF RotateIfOver, TaskTimer

-----------------------------------------------------------------------------
(* The snapshot grows by one value per accessor.                            *)
SnapInv ==
  /\ \E S : snap \in Seq(S)
  /\ IF spos = 0 THEN Len(snap) \in {0, SnapshotSize} ELSE Len(snap) = spos - 1

(* A snapshot has ten fields, four of them of the scheduler.                *)
LEMMA SizeLemma == SnapshotSize = 10 /\ Len(HealthFields) = 4
BY DEF SnapshotSize, HealthFields, TimerFields

(* snapshot() takes the fields one by one and then is over.                 *)
LEMMA SnapStep ==
  ASSUME spos \in 0 .. SnapshotSize, SnapInv, [Next]_vars
  PROVE  SnapInv' /\ spos' \in 0 .. SnapshotSize /\ Len(snap') <= SnapshotSize
<1>1. CASE SnapshotBegin
  <2>1. snap' \in Seq({}) /\ Len(snap') = 0 /\ spos' = 1
    BY <1>1 DEF SnapshotBegin
  <2> QED
    BY <2>1, SizeLemma DEF SnapInv
<1>2. ASSUME NEW e, snap' = Append(snap, e), spos \in 1 .. 10, spos' = (spos + 1) % 11
      PROVE  SnapInv' /\ spos' \in 0 .. SnapshotSize /\ Len(snap') <= SnapshotSize
  <2>1. PICK S : snap \in Seq(S)
    BY DEF SnapInv
  <2>2. snap \in Seq(S \cup {e}) /\ e \in S \cup {e}
    BY <2>1
  <2>3. snap' \in Seq(S \cup {e}) /\ Len(snap') = Len(snap) + 1
    BY <1>2, <2>2, AppendProperties
  <2>4. Len(snap') = spos
    BY <1>2, <2>3 DEF SnapInv
  <2>5. spos' = IF spos = 10 THEN 0 ELSE spos + 1
    <3>1. \A x \in 1 .. 10 : (x + 1) % 11 = IF x = 10 THEN 0 ELSE x + 1
      BY Z3
    <3> QED
      BY <1>2, <3>1
  <2>6. /\ spos' \in 0 .. 10 /\ Len(snap') <= 10
        /\ IF spos' = 0 THEN Len(snap') = 10 ELSE Len(snap') = spos' - 1
    BY <1>2, <2>4, <2>5
  <2> QED
    BY <2>3, <2>6, SizeLemma DEF SnapInv
<1>3. CASE SnapshotHealth
  <2>1. spos \in 1 .. 4 /\ spos' = spos + 1
    BY <1>3, SizeLemma DEF SnapshotHealth
  <2>2. spos' = (spos + 1) % 11 /\ spos \in 1 .. 10
    <3>1. \A x \in 1 .. 4 : (x + 1) % 11 = x + 1
      BY Z3
    <3> QED
      BY <2>1, <3>1
  <2> QED
    BY <1>2, <1>3, <2>2 DEF SnapshotHealth
<1>4. CASE SnapshotTask
  <2>1. spos \in 1 .. 10 /\ spos' = (spos + 1) % 11
    BY <1>4, SizeLemma DEF SnapshotTask
  <2> QED
    BY <1>2, <1>4, <2>1 DEF SnapshotTask
<1>5. CASE UNCHANGED <<spos, snap>>
  <2>1. spos' = spos /\ snap' = snap
    BY <1>5
  <2>2. SnapInv'
    BY <2>1 DEF SnapInv
  <2>3. Len(snap) <= SnapshotSize
    <3>1. IF spos = 0 THEN Len(snap) \in {0, 10} ELSE Len(snap) = spos - 1
      BY SizeLemma DEF SnapInv
    <3>2. spos \in 0 .. 10
      BY SizeLemma
    <3>3. CASE spos = 0
      <4>1. Len(snap) = 0 \/ Len(snap) = 10
        BY <3>1, <3>3
      <4>2. 0 <= 10 /\ 10 <= 10
        OBVIOUS
      <4>3. Len(snap) <= 10
        BY <4>1, <4>2, Zenon
      <4> QED
        BY <4>3, SizeLemma, Zenon
    <3>4. CASE spos # 0
      <4>1. Len(snap) = spos - 1
        BY <3>1, <3>4
      <4> QED
        BY <3>2, <4>1, SizeLemma
    <3> QED
      BY <3>3, <3>4
  <2> QED
    BY <2>1, <2>2, <2>3
<1> QED
  BY <1>1, <1>3, <1>4, <1>5 DEF Next, vars, peerVars, TickStart, TimerStart, TimerStop, RecordMiss,
     TickEnd, TickGap, SampleQueue, PeerGapLoad, PeerGapStore, Diagnose

(* The measurements keep their types.                                       *)
LEMMA TypeStep ==
  ASSUME TypeOK, TickInv, SnapInv, [Next]_vars
  PROVE  TypeOK'
<1>0. /\ clock \in Nat /\ epoch \in Nat /\ tickTime \in Nat /\ busyAccum \in Nat
      /\ timer \in TaskTimer /\ util \in UtilTracker /\ health \in HealthMetrics
      /\ queueMon \in QueueMonitor
  BY MetricsAssumption DEF TypeOK, TaskTimer, UtilTracker, HealthMetrics, QueueMonitor
<1>1. /\ spos' \in 0 .. SnapshotSize /\ Len(snap') <= SnapshotSize
      /\ ticks + 1 \in Nat /\ peerGaps + 1 \in Nat /\ looks + 1 \in Nat
  <2>1. ticks \in Nat /\ peerGaps \in Nat /\ looks \in Nat
    BY DEF TypeOK
  <2>2. spos \in 0 .. SnapshotSize
    BY DEF TypeOK
  <2>3. spos' \in 0 .. SnapshotSize /\ Len(snap') <= SnapshotSize
    BY <2>2, SnapStep
  <2> QED
    BY <2>1, <2>3
<1> DEFINE Clocks == clock' \in Nat /\ epoch' \in Epochs /\ tickTime' \in Nat /\ busyAccum' \in Nat
                     /\ pc' \in {"idle", "start", "task", "check", "end", "gap", "queue"}
           Objects == /\ timer' \in TaskTimer /\ util' \in UtilTracker /\ health' \in HealthMetrics
                      /\ queueMon' \in QueueMonitor
                      /\ gapReg' \in [Cores -> [w : Window, now : Nat \cup {-1}]]
           History == /\ samples' \in Seq(Durations) /\ {repFrom', curFrom'} \subseteq Nat
                      /\ repFrom' <= curFrom' /\ curFrom' <= Len(samples')
                      /\ {ticks', peerGaps', looks', retired', diagnosed'} \subseteq Nat
                      /\ overlapped' \in BOOLEAN /\ disturbed' \in BOOLEAN
<1>2. SUFFICES Clocks /\ Objects /\ History
  BY <1>1 DEF TypeOK, TaskTimer, UtilTracker, HealthMetrics, QueueMonitor
<1>3. ASSUME NEW c \in Cores, NEW gap \in Nat, GapLoad(c, gap)
      PROVE  gapReg' \in [Cores -> [w : Window, now : Nat \cup {-1}]] /\ overlapped' \in BOOLEAN
  <2>1. AddTo(health.cur, gap) \in Window
    BY <1>0, AddLemma DEF HealthMetrics
  <2>2. overlapped' \in BOOLEAN
    BY <1>3 DEF GapLoad
  <2> QED
    BY <1>0, <1>3, <2>1, <2>2 DEF GapLoad, TypeOK
<1>4. ASSUME NEW c \in Cores, GapStore(c)
      PROVE  /\ gapReg' \in [Cores -> [w : Window, now : Nat \cup {-1}]]
             /\ health' \in HealthMetrics /\ retired' \in Nat
  <2>1. gapReg[c].w \in Window /\ gapReg[c].now \in Nat \cup {-1} /\ retired \in Nat
    BY DEF TypeOK
  <2>2. health' \in HealthMetrics
    BY <1>0, <1>4, <2>1, RotateHealth DEF GapStore
  <2>3. health'.rep.n \in Nat
    BY <2>2 DEF HealthMetrics, Window
  <2>4. retired' \in Nat
    BY <1>4, <2>1, <2>3 DEF GapStore
  <2> QED
    BY <1>4, <2>2, <2>4, EmptyLemma DEF GapStore, TypeOK
<1>5. CASE TickStart
  <2>1. clock' \in Nat /\ tickTime' \in Nat /\ util' \in UtilTracker
    BY <1>0, <1>5 DEF TickStart, UtilTracker
  <2> QED
    BY <1>0, <1>5, <2>1 DEF TypeOK, TickStart, ghosts, peerVars
<1>6. ASSUME NEW o \in Overheads, TimerStart(o) PROVE Clocks /\ Objects /\ History
  <2>1. clock' \in Nat
    BY <1>0, <1>6, MetricsAssumption DEF TimerStart
  <2>2. timer' \in TaskTimer
    BY <1>0, <1>6, <2>1 DEF TimerStart, TaskTimer
  <2> QED
    BY <1>0, <1>6, <2>1, <2>2 DEF TypeOK, TimerStart, ghosts, peerVars
<1>7. ASSUME NEW d \in Durations, TimerStop(d) PROVE Clocks /\ Objects /\ History
  <2> DEFINE now == clock' + epoch
             elapsed == now - timer.start
             w == AddSample(timer.cur, elapsed)
  <2>1. clock' \in Nat /\ d \in Nat /\ now \in Nat /\ elapsed = d
    <3>1. clock' = clock + d /\ d \in Nat /\ timer.start = clock + epoch
      BY <1>7, MetricsAssumption DEF TimerStop, TickInv
    <3>2. \A a, b, e \in Nat : ((a + b) + e) - (a + e) = b
      OBVIOUS
    <3>3. elapsed = ((clock + d) + epoch) - (clock + epoch)
      BY <3>1
    <3> QED
      BY <1>0, <3>1, <3>2, <3>3
  <2>2. /\ timer' = [RotateIfOver(timer, w, EmptyTimerWindow, now) EXCEPT !.last = elapsed]
        /\ busyAccum' = busyAccum + elapsed /\ samples' = Append(samples, elapsed)
        /\ IF WindowOver(timer, now)
           THEN repFrom' = curFrom /\ curFrom' = Len(samples')
           ELSE UNCHANGED <<repFrom, curFrom>>
    BY <1>7 DEF TimerStop
  <2> HIDE DEF now, elapsed
  <2>3. w \in TimerWindow
    BY <1>0, <2>1, SampleLemma DEF TaskTimer
  <2> HIDE DEF w
  <2>4. timer' \in TaskTimer
    BY <1>0, <2>1, <2>2, <2>3, RotateTimer
  <2>5. samples' \in Seq(Durations) /\ Len(samples') = Len(samples) + 1 /\ Len(samples) \in Nat
    BY <2>1, <2>2, AppendProperties, LenProperties DEF TypeOK
  <2>6. {repFrom', curFrom'} \subseteq Nat /\ repFrom' <= curFrom' /\ curFrom' <= Len(samples')
    <3>1. repFrom \in Nat /\ curFrom \in Nat /\ repFrom <= curFrom /\ curFrom <= Len(samples)
      BY DEF TypeOK
    <3>2. CASE WindowOver(timer, now)
      BY <2>2, <2>5, <3>1, <3>2
    <3>3. CASE ~WindowOver(timer, now)
      BY <2>2, <2>5, <3>1, <3>3
    <3> QED
      BY <3>2, <3>3
  <2>7. busyAccum' \in Nat
    BY <1>0, <2>1, <2>2
  <2> QED
    BY <1>0, <1>7, <2>1, <2>4, <2>5, <2>6, <2>7 DEF TypeOK, TimerStop, peerVars
<1>8. CASE RecordMiss
  <2>1. timer' \in TaskTimer
    <3>1. timer.cur \in TimerWindow /\ timer.cur.misses + 1 \in Nat
      BY <1>0 DEF TaskTimer, TimerWindow
    <3> DEFINE k == timer.cur.misses + 1
    <3>2. [timer EXCEPT !.cur.misses = @ + 1] = [timer EXCEPT !.cur = [timer.cur EXCEPT !.misses = k]]
      OBVIOUS
    <3> HIDE DEF k
    <3>3. [timer.cur EXCEPT !.misses = k] \in TimerWindow
      BY <3>1 DEF k, TimerWindow
    <3> QED
      BY <1>0, <1>8, <3>2, <3>3 DEF RecordMiss, TaskTimer
  <2>2. disturbed' \in BOOLEAN
    BY <1>8 DEF RecordMiss, TypeOK
  <2> QED
    BY <1>0, <1>8, <2>1, <2>2 DEF TypeOK, RecordMiss, ghosts, peerVars
<1>9. CASE TickEnd
  <2> DEFINE gap == IF clock - tickTime >= busyAccum THEN (clock - tickTime) - busyAccum ELSE 0
  <2>1. gap \in Nat
    BY <1>0
  <2>2. GapLoad(0, gap) /\ 0 \in Cores
    BY <1>9 DEF TickEnd, Cores
  <2> HIDE DEF gap
  <2>3. gapReg' \in [Cores -> [w : Window, now : Nat \cup {-1}]] /\ overlapped' \in BOOLEAN
    BY <1>3, <2>1, <2>2
  <2>4. util' \in UtilTracker
    <3> DEFINE b == util.busy + busyAccum
               t == util.total + (clock - util.tickStart)
               n == util.n + 1
    <3>1. util.tickStart = tickTime /\ tickTime + busyAccum <= clock
      BY <1>9 DEF TickEnd, TickInv
    <3>2. b \in Nat /\ t \in Nat /\ n \in Nat /\ (~(n >= kWindowTicks) => n \in 0 .. kWindowTicks - 1)
      BY <1>0, <3>1, MetricsAssumption DEF UtilTracker
    <3>3. util' = IF n >= kWindowTicks
                  THEN [tickStart |-> util.tickStart, busy |-> 0, total |-> 0, n |-> 0,
                        rep |-> [busy |-> b, total |-> t, n |-> n]]
                  ELSE [tickStart |-> util.tickStart, busy |-> b, total |-> t, n |-> n, rep |-> util.rep]
      BY <1>9 DEF TickEnd, UtilTickEnd
    <3>4. 0 \in 0 .. kWindowTicks - 1
      BY MetricsAssumption
    <3> HIDE DEF b, t, n
    <3> QED
      BY <1>0, <3>2, <3>3, <3>4 DEF UtilTracker
  <2> QED
    BY <1>0, <1>9, <2>3, <2>4 DEF TypeOK, TickEnd, ghosts
<1>10. CASE TickGap
  <2>1. GapStore(0) /\ 0 \in Cores
    BY <1>10 DEF TickGap, Cores
  <2> QED
    BY <1>0, <1>4, <1>10, <2>1 DEF TypeOK, TickGap, ghosts
<1>11. ASSUME NEW q \in Depths, SampleQueue(q) PROVE Clocks /\ Objects /\ History
  <2>1. AddTo(queueMon.cur, q) \in Window
    BY <1>0, MetricsAssumption, AddLemma DEF QueueMonitor
  <2>2. queueMon' \in QueueMonitor
    BY <1>0, <1>11, <2>1, RotateQueue DEF SampleQueue
  <2> QED
    BY <1>0, <1>1, <1>11, <2>2 DEF TypeOK, SampleQueue, peerVars
<1>12. CASE PeerGapLoad(PeerGap)
  <2>1. GapLoad(1, PeerGap) /\ 1 \in Cores /\ PeerGap \in Nat
    BY <1>12, MetricsAssumption DEF PeerGapLoad, Cores
  <2>2. gapReg' \in [Cores -> [w : Window, now : Nat \cup {-1}]] /\ overlapped' \in BOOLEAN
    BY <1>3, <2>1
  <2> QED
    BY <1>0, <1>12, <2>2 DEF TypeOK, PeerGapLoad, tickState, tickVars, ghosts
<1>13. CASE PeerGapStore
  <2>1. GapStore(1) /\ 1 \in Cores
    BY <1>13 DEF PeerGapStore, Cores
  <2>2. /\ gapReg' \in [Cores -> [w : Window, now : Nat \cup {-1}]]
        /\ health' \in HealthMetrics /\ retired' \in Nat
    BY <1>4, <2>1
  <2> QED
    BY <1>0, <1>1, <1>13, <2>2 DEF TypeOK, PeerGapStore, tickState, tickVars, ghosts
<1>14. CASE Diagnose
  <2>1. Reported(timer).misses \in Nat
    BY <1>0 DEF Reported, TaskTimer, TimerWindow
  <2>2. health' \in HealthMetrics
    BY <1>0, <1>14, <2>1 DEF Diagnose, HealthMetrics
  <2> QED
    BY <1>0, <1>1, <1>14, <2>1, <2>2 DEF TypeOK, Diagnose, tickState, tickVars, ghosts
<1>15. CASE SnapshotBegin \/ SnapshotHealth \/ SnapshotTask
  <2>1. /\ UNCHANGED <<tickState, health, gapReg, peerGaps, retired, overlapped, diagnosed>>
        /\ looks' \in Nat /\ disturbed' \in BOOLEAN
    <3>1. CASE SnapshotBegin
      <4>1. disturbed' \in BOOLEAN
        BY <3>1, Zenon DEF SnapshotBegin
      <4> QED
        BY <1>1, <3>1, <4>1 DEF SnapshotBegin
    <3>2. CASE SnapshotHealth \/ SnapshotTask
      BY <3>2 DEF SnapshotHealth, SnapshotTask, TypeOK
    <3> QED
      BY <1>15, <3>1, <3>2
  <2> QED
    BY <1>0, <2>1 DEF TypeOK, tickState, tickVars, ghosts
<1>16. CASE UNCHANGED vars
  BY <1>0, <1>16 DEF TypeOK, vars, tickVars, ghosts
<1> QED
  BY <1>5, <1>6, <1>7, <1>8, <1>9, <1>10, <1>11, <1>12, <1>13, <1>14, <1>15, <1>16 DEF Next

-----------------------------------------------------------------------------
(* The tick of core 0 lasts at least as long as the task time in it: the    *)
(* difference of two readings of the raw clock is that of the system clock. *)
LEMMA TickStep ==
  ASSUME TypeOK, TickInv, BusyWithinWall, [Next]_vars
  PROVE  TickInv' /\ BusyWithinWall'
<1>0. /\ clock \in Nat /\ epoch \in Nat /\ tickTime \in Nat /\ busyAccum \in Nat
      /\ timer \in TaskTimer /\ util \in UtilTracker
  BY MetricsAssumption DEF TypeOK, TaskTimer, UtilTracker
<1>1. CASE TickStart
  <2>1. /\ clock' = clock + 1 /\ tickTime' = clock' /\ busyAccum' = 0 /\ pc' = "start"
        /\ util' = [util EXCEPT !.tickStart = clock']
    BY <1>1 DEF TickStart
  <2>2. /\ util'.tickStart = tickTime' /\ util'.busy = util.busy /\ util'.total = util.total
        /\ util'.rep = util.rep
    BY <1>0, <2>1 DEF UtilTracker
  <2>3. tickTime' + busyAccum' <= clock'
    BY <1>0, <2>1
  <2> QED
    BY <2>1, <2>2, <2>3 DEF TickInv, BusyWithinWall
<1>2. ASSUME NEW o \in Overheads, TimerStart(o) PROVE TickInv' /\ BusyWithinWall'
  <2>1. /\ pc # "idle" /\ clock' = clock + o /\ o \in Nat /\ epoch' = epoch /\ pc' = "task"
        /\ timer' = [timer EXCEPT !.start = clock' + epoch]
        /\ UNCHANGED <<tickTime, busyAccum, util>>
    BY <1>2, MetricsAssumption DEF TimerStart
  <2>2. timer'.start = clock' + epoch'
    BY <1>0, <2>1 DEF TaskTimer
  <2>3. tickTime' + busyAccum' <= clock' /\ util'.tickStart = tickTime'
    BY <1>0, <2>1 DEF TickInv
  <2> QED
    BY <2>1, <2>2, <2>3 DEF TickInv, BusyWithinWall
<1>3. ASSUME NEW d \in Durations, TimerStop(d) PROVE TickInv' /\ BusyWithinWall'
  <2>1. /\ pc = "task" /\ pc' = "check" /\ clock' = clock + d /\ d \in Nat
        /\ busyAccum' = busyAccum + ((clock' + epoch) - timer.start)
        /\ UNCHANGED <<tickTime, util>>
    BY <1>3, MetricsAssumption DEF TimerStop
  <2>2. timer.start = clock + epoch /\ util.tickStart = tickTime /\ tickTime + busyAccum <= clock
    BY <2>1 DEF TickInv
  <2>3. \A a, b, e \in Nat : ((a + b) + e) - (a + e) = b
    OBVIOUS
  <2>4. busyAccum' = busyAccum + d
    BY <1>0, <2>1, <2>2, <2>3
  <2>5. tickTime' + busyAccum' <= clock'
    BY <1>0, <2>1, <2>2, <2>4
  <2> QED
    BY <2>1, <2>2, <2>5 DEF TickInv, BusyWithinWall
<1>4. CASE TickEnd
  <2> DEFINE b == util.busy + busyAccum
             t == util.total + (clock - util.tickStart)
             n == util.n + 1
  <2>1. /\ pc' = "gap" /\ pc # "idle" /\ UNCHANGED <<clock, tickTime, busyAccum>>
        /\ util' = IF n >= kWindowTicks
                   THEN [tickStart |-> util.tickStart, busy |-> 0, total |-> 0, n |-> 0,
                         rep |-> [busy |-> b, total |-> t, n |-> n]]
                   ELSE [tickStart |-> util.tickStart, busy |-> b, total |-> t, n |-> n,
                         rep |-> util.rep]
    BY <1>4 DEF TickEnd, UtilTickEnd
  <2>2. util.tickStart = tickTime /\ tickTime + busyAccum <= clock
    BY <2>1 DEF TickInv
  <2>3. b <= t
    BY <1>0, <2>2 DEF BusyWithinWall, UtilTracker
  <2> HIDE DEF b, t, n
  <2>4. /\ util'.tickStart = util.tickStart
        /\ (util'.busy = 0 /\ util'.total = 0) \/ (util'.busy = b /\ util'.total = t)
        /\ (util'.rep.busy = b /\ util'.rep.total = t) \/ util'.rep = util.rep
    BY <2>1
  <2>5. BusyWithinWall'
    BY <2>3, <2>4 DEF BusyWithinWall
  <2> QED
    BY <2>1, <2>2, <2>4, <2>5 DEF TickInv
<1>5. CASE RecordMiss \/ TickGap \/ \E q \in Depths : SampleQueue(q)
  <2>1. /\ pc # "idle" /\ pc' # "task" /\ UNCHANGED <<clock, tickTime, busyAccum, util>>
    BY <1>5 DEF RecordMiss, TickGap, SampleQueue
  <2> QED
    BY <2>1 DEF TickInv, BusyWithinWall
<1>6. CASE \/ PeerGapLoad(PeerGap) \/ PeerGapStore \/ Diagnose \/ UNCHANGED vars
           \/ SnapshotBegin \/ SnapshotHealth \/ SnapshotTask
  <2>1. UNCHANGED <<pc, clock, epoch, tickTime, busyAccum, timer, util>>
    BY <1>6 DEF PeerGapLoad, PeerGapStore, Diagnose, SnapshotBegin, SnapshotHealth, SnapshotTask,
       vars, tickState, tickVars
  <2> QED
    BY <2>1 DEF TickInv, BusyWithinWall
<1> QED
  BY <1>1, <1>2, <1>3, <1>4, <1>5, <1>6 DEF Next

(* What recordGap does to the counts of ticks, on either core.              *)
LEMMA GapStep ==
  ASSUME TypeOK, GapInv, GapExact, [Next]_vars
  PROVE  GapInv' /\ GapExact'
<1>0. /\ health \in HealthMetrics /\ gapReg \in [Cores -> [w : Window, now : Nat \cup {-1}]]
      /\ overlapped \in BOOLEAN
      /\ retired \in Nat /\ ticks \in Nat /\ peerGaps \in Nat /\ clock \in Nat
      /\ health.cur \in Window /\ health.cur.n \in Nat
  BY DEF TypeOK, HealthMetrics, Window
<1>1. 0 \in Cores /\ 1 \in Cores /\ 0 # 1 /\ 1 - 0 = 1 /\ 1 - 1 = 0 /\ \A c \in Cores : c = 0 \/ c = 1
  BY DEF Cores
<1>2. ASSUME NEW c \in Cores, NEW gap \in Nat, GapLoad(c, gap)
      PROVE  /\ gapReg[c] = Idle /\ gapReg'[c] # Idle /\ gapReg'[1 - c] = gapReg[1 - c]
             /\ gapReg'[c].w.n = health.cur.n + 1
             /\ overlapped' = (overlapped \/ gapReg[1 - c] # Idle)
  <2> DEFINE r == [w |-> AddTo(health.cur, gap), now |-> clock]
  <2>1. gapReg[c] = Idle /\ gapReg' = [gapReg EXCEPT ![c] = r]
        /\ overlapped' = (overlapped \/ gapReg[1 - c] # Idle)
    BY <1>2 DEF GapLoad
  <2>2. r # Idle
    <3>1. r.now = clock /\ Idle.now = -1
      BY DEF Idle
    <3>2. clock # -1
      BY <1>0
    <3> QED
      BY <3>1, <3>2
  <2>3. r.w.n = health.cur.n + 1
    BY <1>0, AddLemma
  <2> HIDE DEF r
  <2>4. gapReg'[c] = r /\ gapReg'[1 - c] = gapReg[1 - c]
    BY <1>0, <1>1, <2>1
  <2> QED
    BY <2>1, <2>2, <2>3, <2>4
<1>3. ASSUME NEW c \in Cores, GapStore(c)
      PROVE  /\ gapReg[c] # Idle /\ gapReg'[c] = Idle /\ gapReg'[1 - c] = gapReg[1 - c]
             /\ ~overlapped => /\ gapReg[1 - c] = Idle
                               /\ retired' + health'.cur.n = (retired + health.cur.n) + 1
  <2>1. /\ gapReg[c] # Idle /\ gapReg' = [gapReg EXCEPT ![c] = Idle]
        /\ health' = RotateIfOver(health, gapReg[c].w, EmptyWindow, gapReg[c].now)
        /\ retired' = retired + (IF WindowOver(health, gapReg[c].now) THEN health'.rep.n ELSE 0)
    BY <1>3 DEF GapStore
  <2>2. gapReg'[c] = Idle /\ gapReg'[1 - c] = gapReg[1 - c]
    BY <1>0, <1>1, <2>1
  <2>3. ASSUME ~overlapped
        PROVE  /\ gapReg[1 - c] = Idle
               /\ retired' + health'.cur.n = (retired + health.cur.n) + 1
    <3>1. gapReg[1 - c] = Idle /\ gapReg[c].w.n = health.cur.n + 1
      BY <1>1, <2>1, <2>3 DEF GapInv
    <3>2. gapReg[c].w \in Window /\ gapReg[c].now \in Nat \cup {-1}
      BY <1>0
    <3>3. CASE WindowOver(health, gapReg[c].now)
      <4>1. health'.rep = gapReg[c].w /\ health'.cur.n = 0
        BY <1>0, <2>1, <3>2, <3>3, RotateHealth
      <4>2. retired' = retired + (health.cur.n + 1)
        BY <2>1, <3>1, <3>3, <4>1
      <4> QED
        BY <1>0, <3>1, <4>1, <4>2
    <3>4. CASE ~WindowOver(health, gapReg[c].now)
      <4>1. health'.cur = gapReg[c].w
        BY <1>0, <2>1, <3>2, <3>4, RotateHealth
      <4>2. retired' = retired
        BY <1>0, <2>1, <3>4
      <4> QED
        BY <1>0, <3>1, <4>1, <4>2
    <3> QED
      BY <3>3, <3>4
  <2> QED
    BY <2>1, <2>2, <2>3
<1>4. CASE TickEnd
  <2> DEFINE gap == IF clock - tickTime >= busyAccum THEN (clock - tickTime) - busyAccum ELSE 0
  <2>1. gap \in Nat
    BY DEF TypeOK
  <2>2. /\ GapLoad(0, gap) /\ pc = "end" /\ pc' = "gap"
        /\ UNCHANGED <<health, retired, ticks, peerGaps>>
    BY <1>4 DEF TickEnd, ghosts
  <2> HIDE DEF gap
  <2>3. /\ gapReg'[0] # Idle /\ gapReg'[1] = gapReg[1]
        /\ gapReg'[0].w.n = health.cur.n + 1
        /\ overlapped' = (overlapped \/ gapReg[1] # Idle)
    BY <1>1, <1>2, <2>1, <2>2
  <2>4. GapInv'
    BY <1>1, <2>2, <2>3 DEF GapInv
  <2>5. GapExact'
    BY <2>2, <2>3 DEF GapExact, GapsRecorded
  <2> QED
    BY <2>4, <2>5
<1>5. CASE TickGap
  <2>1. /\ GapStore(0) /\ pc = "gap" /\ pc' = "queue" /\ UNCHANGED <<ticks, peerGaps, overlapped>>
    BY <1>5 DEF TickGap, ghosts
  <2>2. /\ gapReg'[0] = Idle /\ gapReg'[1] = gapReg[1]
        /\ ~overlapped => /\ gapReg[1] = Idle
                          /\ retired' + health'.cur.n = (retired + health.cur.n) + 1
    BY <1>1, <1>3, <2>1
  <2>3. GapInv'
    BY <1>1, <2>1, <2>2 DEF GapInv
  <2>4. GapsRecorded' = GapsRecorded + 1
    BY <1>0, <2>1 DEF GapsRecorded
  <2>5. GapExact'
    BY <2>1, <2>2, <2>4 DEF GapExact
  <2> QED
    BY <2>3, <2>5
<1>6. CASE PeerGapLoad(PeerGap)
  <2>1. /\ GapLoad(1, PeerGap) /\ UNCHANGED <<pc, health, retired, ticks, peerGaps>>
        /\ PeerGap \in Nat
    BY <1>6, MetricsAssumption DEF PeerGapLoad, tickState, tickVars, ghosts
  <2>2. /\ gapReg'[1] # Idle /\ gapReg'[0] = gapReg[0]
        /\ gapReg'[1].w.n = health.cur.n + 1
        /\ overlapped' = (overlapped \/ gapReg[0] # Idle)
    BY <1>1, <1>2, <2>1
  <2>3. GapInv'
    BY <1>1, <2>1, <2>2 DEF GapInv
  <2>4. GapExact'
    BY <2>1, <2>2 DEF GapExact, GapsRecorded
  <2> QED
    BY <2>3, <2>4
<1>7. CASE PeerGapStore
  <2>1. /\ GapStore(1) /\ peerGaps' = peerGaps + 1 /\ UNCHANGED <<pc, ticks, overlapped>>
    BY <1>7 DEF PeerGapStore, tickState, tickVars, ghosts
  <2>2. /\ gapReg'[1] = Idle /\ gapReg'[0] = gapReg[0]
        /\ ~overlapped => /\ gapReg[0] = Idle
                          /\ retired' + health'.cur.n = (retired + health.cur.n) + 1
    BY <1>1, <1>3, <2>1
  <2>3. GapInv'
    BY <1>1, <2>1, <2>2 DEF GapInv
  <2>4. GapsRecorded' = GapsRecorded + 1
    BY <1>0, <2>1 DEF GapsRecorded
  <2>5. GapExact'
    BY <2>1, <2>2, <2>4 DEF GapExact
  <2> QED
    BY <2>3, <2>5
<1>8. ASSUME UNCHANGED <<gapReg, overlapped, retired, peerGaps>>, health'.cur = health.cur,
             pc' = "gap" <=> pc = "gap", GapsRecorded' = GapsRecorded
      PROVE  GapInv' /\ GapExact'
  BY <1>8 DEF GapInv, GapExact
<1>9. CASE \E q \in Depths : SampleQueue(q)
  <2>1. /\ pc = "queue" /\ pc' = "idle" /\ ticks' = ticks + 1
        /\ UNCHANGED <<health, gapReg, overlapped, retired, peerGaps>>
    BY <1>9 DEF SampleQueue, peerVars
  <2>2. GapsRecorded' = GapsRecorded
    BY <1>0, <2>1 DEF GapsRecorded
  <2> QED
    BY <1>8, <2>1, <2>2
<1>10. CASE \/ TickStart \/ RecordMiss
            \/ \E o \in Overheads : TimerStart(o)
            \/ \E d \in Durations : TimerStop(d)
  <2>1. /\ pc \notin {"gap", "queue"} /\ pc' \notin {"gap", "queue"}
        /\ UNCHANGED <<health, gapReg, overlapped, retired, peerGaps, ticks>>
    BY <1>10 DEF TickStart, TimerStart, TimerStop, RecordMiss, peerVars, ghosts
  <2>2. GapsRecorded' = GapsRecorded
    BY <2>1 DEF GapsRecorded
  <2> QED
    BY <1>8, <2>1, <2>2
<1>11. CASE Diagnose \/ SnapshotBegin \/ SnapshotHealth \/ SnapshotTask \/ UNCHANGED vars
  <2>1. UNCHANGED <<pc, gapReg, overlapped, retired, peerGaps, ticks>>
    BY <1>11 DEF Diagnose, SnapshotBegin, SnapshotHealth, SnapshotTask, vars,
       tickState, tickVars, ghosts
  <2>2. health'.cur = health.cur
    BY <1>0, <1>11 DEF Diagnose, SnapshotBegin, SnapshotHealth, SnapshotTask, vars, HealthMetrics
  <2>3. GapsRecorded' = GapsRecorded
    BY <2>1 DEF GapsRecorded
  <2> QED
    BY <1>8, <2>1, <2>2, <2>3
<1> QED
  BY <1>4, <1>5, <1>6, <1>7, <1>9, <1>10, <1>11 DEF Next

(* The invariant of the measurements, with that of the snapshot.            *)
LEMMA MetricsStrong == Spec => [](MetricsInv /\ SnapInv)
<1>1. Init => MetricsInv /\ SnapInv
  <2> SUFFICES ASSUME Init PROVE MetricsInv /\ SnapInv
    OBVIOUS
  <2>1. /\ timer \in TaskTimer /\ util \in UtilTracker /\ health \in HealthMetrics
        /\ queueMon \in QueueMonitor
    BY EmptyLemma, MetricsAssumption
       DEF Init, TimerReset, TaskTimer, UtilTracker, HealthMetrics, QueueMonitor
  <2>2. gapReg \in [Cores -> [w : Window, now : Nat \cup {-1}]]
    BY EmptyLemma DEF Init
  <2>3. spos \in 0 .. SnapshotSize /\ snap \in Seq({}) /\ Len(snap) = 0
        /\ Len(snap) <= SnapshotSize
    BY SizeLemma DEF Init
  <2>4. /\ samples \in Seq(Durations) /\ {repFrom, curFrom} \subseteq Nat
        /\ repFrom <= curFrom /\ curFrom <= Len(samples)
        /\ {ticks, peerGaps, looks, retired, diagnosed} \subseteq Nat
    BY DEF Init
  <2>5. overlapped \in BOOLEAN /\ disturbed \in BOOLEAN
    BY Zenon DEF Init
  <2>6. clock \in Nat /\ epoch \in Epochs /\ tickTime \in Nat /\ busyAccum \in Nat /\ pc = "idle"
    BY DEF Init
  <2>7. TypeOK
    BY <2>1, <2>2, <2>3, <2>4, <2>5, <2>6
       DEF TypeOK, TaskTimer, UtilTracker, HealthMetrics, QueueMonitor
  <2>8. TickInv /\ BusyWithinWall
    BY DEF Init, TickInv, BusyWithinWall
  <2>9. GapInv /\ GapExact
    BY EmptyLemma DEF Init, GapInv, GapExact, GapsRecorded, Cores
  <2>10. SnapInv
    BY <2>3 DEF SnapInv, Init
  <2> QED
    BY <2>7, <2>8, <2>9, <2>10 DEF MetricsInv
<1>2. MetricsInv /\ SnapInv /\ [Next]_vars => MetricsInv' /\ SnapInv'
  <2> SUFFICES ASSUME MetricsInv, SnapInv, [Next]_vars PROVE MetricsInv' /\ SnapInv'
    OBVIOUS
  <2>1. TypeOK /\ TickInv /\ BusyWithinWall /\ GapInv /\ GapExact /\ spos \in 0 .. SnapshotSize
    BY DEF MetricsInv, TypeOK
  <2> QED
    BY <2>1, TypeStep, TickStep, GapStep, SnapStep DEF MetricsInv
<1> QED
  BY <1>1, <1>2, PTL DEF Spec

(* TaskTimer.h, SchedulerHealthMetrics.h, CoreUtilizationTracker.h: the     *)
(* invariant of the measurements, for any durations, window lengths, bucket *)
(* sizes and epochs of the raw clock.                                       *)
THEOREM MetricsInvariant == Spec => []MetricsInv
BY MetricsStrong, PTL

(* SchedulerHealthMetrics.h: as long as no two cores have been inside       *)
(* recordGap at once, every tick of either core is counted exactly once.    *)
THEOREM MetricsGapExact == Spec => []GapExact
<1>1. MetricsInv => GapExact
  BY DEF MetricsInv
<1> QED
  BY <1>1, MetricsInvariant, PTL

(* CoreUtilizationTracker.h: the busy time of a core never exceeds its wall *)
(* time, although the two are measured on different clocks.                 *)
THEOREM MetricsBusyWithinWall == Spec => []BusyWithinWall
<1>1. MetricsInv => BusyWithinWall
  BY DEF MetricsInv
<1> QED
  BY <1>1, MetricsInvariant, PTL

-----------------------------------------------------------------------------
(* A greatest and a least element are the extremes.                         *)
LEMMA MaxIs ==
  ASSUME NEW S \in SUBSET Nat, NEW m \in S, \A x \in S : m >= x
  PROVE  Max(S) = m
<1> DEFINE x == Max(S)
<1>1. x \in S /\ \A y \in S : x >= y
  BY DEF Max
<1> HIDE DEF x
<1>2. x \in Nat /\ m \in Nat /\ x >= m /\ m >= x
  BY <1>1
<1>3. x = m
  BY <1>2
<1> QED
  BY <1>3 DEF x

LEMMA MinIs ==
  ASSUME NEW S \in SUBSET Nat, NEW m \in S, \A x \in S : m <= x
  PROVE  Min(S) = m
<1> DEFINE x == Min(S)
<1>1. x \in S /\ \A y \in S : x =< y
  BY DEF Min
<1> HIDE DEF x
<1>2. x \in Nat /\ m \in Nat /\ x <= m /\ m <= x
  BY <1>1
<1>3. x = m
  BY <1>2
<1> QED
  BY <1>3 DEF x

(* Durations are numbers below Unset.                                       *)
LEMMA UnsetLemma == Unset \in Nat /\ \A d \in Durations : d \in Nat /\ d < Unset
<1>1. PICK m \in Durations : \A d \in Durations : d <= m
  BY MetricsAssumption
<1>2. Durations \in SUBSET Nat /\ \A d \in Durations : m >= d
  BY <1>1, MetricsAssumption
<1>3. Max(Durations) = m
  BY <1>2, MaxIs
<1>4. \A d \in Durations : d \in Nat /\ d < m + 1
  BY <1>1, <1>2
<1> QED
  BY <1>2, <1>3, <1>4 DEF Unset

(* A set of durations has extremes.                                         *)
LEMMA Extremes ==
  ASSUME NEW D \in SUBSET Durations, D # {}
  PROVE  /\ Max(D) \in D /\ Min(D) \in D
         /\ \A d \in D : Max(D) >= d /\ Min(D) <= d
<1>1. D \in SUBSET Nat /\ Unset \in Nat /\ \A d \in D : d <= Unset
  BY UnsetLemma
<1>2. PICK m \in D : \A d \in D : m >= d
  BY <1>1, GreatestElement
<1>3. PICK n \in D : \A d \in D : n <= d
  BY <1>1, LeastElement
<1>4. Max(D) = m
  BY <1>1, <1>2, MaxIs
<1>5. Min(D) = n
  BY <1>1, <1>3, MinIs
<1> QED
  BY <1>2, <1>3, <1>4, <1>5

(* ... and how they change with one duration more.                          *)
LEMMA ExtremesAdd ==
  ASSUME NEW D \in SUBSET Durations, NEW d \in Durations
  PROVE  /\ Max(D \cup {d}) = Max({IF D = {} THEN 0 ELSE Max(D), d})
         /\ Min(D \cup {d}) = Min({IF D = {} THEN Unset ELSE Min(D), d})
<1>0. d \in Nat /\ d < Unset /\ Unset \in Nat /\ D \cup {d} \in SUBSET Nat
  BY UnsetLemma
<1>1. CASE D = {}
  <2>1. Max({0, d}) = d /\ Min({Unset, d}) = d
    BY <1>0, MaxIs, MinIs
  <2>2. Max(D \cup {d}) = d /\ Min(D \cup {d}) = d
    BY <1>0, <1>1, MaxIs, MinIs
  <2> QED
    BY <1>1, <2>1, <2>2
<1>2. CASE D # {}
  <2> DEFINE m == Max(D)
             n == Min(D)
  <2>1. m \in D /\ n \in D /\ \A x \in D : m >= x /\ n <= x
    BY <1>2, Extremes
  <2> HIDE DEF m, n
  <2>2. m \in Nat /\ n \in Nat /\ D \in SUBSET Nat
    BY <1>0, <2>1
  <2>3. Max({m, d}) = Max(D \cup {d})
    <3>1. CASE m >= d
      <4>1. Max({m, d}) = m
        BY <1>0, <2>2, <3>1, MaxIs
      <4>2. Max(D \cup {d}) = m
        BY <1>0, <2>1, <2>2, <3>1, MaxIs
      <4> QED
        BY <4>1, <4>2
    <3>2. CASE d >= m
      <4>1. Max({m, d}) = d
        BY <1>0, <2>2, <3>2, MaxIs
      <4>2. Max(D \cup {d}) = d
        <5>1. \A x \in D \cup {d} : d >= x
          BY <1>0, <2>1, <2>2, <3>2
        <5> QED
          BY <1>0, <5>1, MaxIs
      <4> QED
        BY <4>1, <4>2
    <3> QED
      BY <1>0, <2>2, <3>1, <3>2
  <2>4. Min({n, d}) = Min(D \cup {d})
    <3>1. CASE n <= d
      <4>1. Min({n, d}) = n
        BY <1>0, <2>2, <3>1, MinIs
      <4>2. Min(D \cup {d}) = n
        BY <1>0, <2>1, <2>2, <3>1, MinIs
      <4> QED
        BY <4>1, <4>2
    <3>2. CASE d <= n
      <4>1. Min({n, d}) = d
        BY <1>0, <2>2, <3>2, MinIs
      <4>2. Min(D \cup {d}) = d
        <5>1. \A x \in D \cup {d} : d <= x
          BY <1>0, <2>1, <2>2, <3>2
        <5> QED
          BY <1>0, <5>1, MinIs
      <4> QED
        BY <4>1, <4>2
    <3> QED
      BY <1>0, <2>2, <3>1, <3>2
  <2> QED
    BY <1>2, <2>3, <2>4 DEF m, n
<1> QED
  BY <1>1, <1>2

(* The bucket of a duration, and the places of a window that are in one.    *)
LEMMA BucketLemma ==
  ASSUME NEW d \in Nat
  PROVE  /\ Bucket(d) \in Buckets
         /\ Bucket(d) = IF d \div kHistogramBucketWidthUs < kHistogramBuckets - 1
                        THEN d \div kHistogramBucketWidthUs ELSE kHistogramBuckets - 1
         /\ d \div kHistogramBucketWidthUs \in Nat
<1> DEFINE q == d \div kHistogramBucketWidthUs
           top == kHistogramBuckets - 1
<1>1. q \in Nat /\ top \in Nat
  BY MetricsAssumption, Z3
<1>2. Bucket(d) = Min({q, top})
  BY DEF Bucket
<1> HIDE DEF q, top
<1>3. Min({q, top}) = IF q < top THEN q ELSE top
  <2>1. CASE q < top
    BY <1>1, <2>1, MinIs
  <2>2. CASE top <= q
    BY <1>1, <2>2, MinIs
  <2> QED
    BY <1>1, <2>1, <2>2
<1>4. Min({q, top}) \in 0 .. top
  BY <1>1, <1>3
<1> QED
  BY <1>1, <1>2, <1>3, <1>4 DEF q, top, Buckets

InBucket(s, from, to, b) == {i \in from + 1 .. to : Bucket(s[i]) = b}

(* What a window summarises, part by part.                                  *)
LEMMA SummaryLemma ==
  ASSUME NEW w, NEW s, NEW from, NEW to
  PROVE  Summarises(w, s, from, to) <=>
           LET D == {s[i] : i \in from + 1 .. to} IN
             /\ w.n = Cardinality(from + 1 .. to) /\ w.sum = SumBetween(s, from, to)
             /\ w.max = IF D = {} THEN 0 ELSE Max(D)
             /\ w.min = IF D = {} THEN Unset ELSE Min(D)
             /\ \A b \in Buckets : w.hist[b] = Cardinality(InBucket(s, from, to, b))
BY DEF Summarises, InBucket, Bucket

(* The fields of a window after a sample.                                   *)
LEMMA SampleFields ==
  ASSUME NEW w \in TimerWindow, NEW d \in Nat
  PROVE  LET v == AddSample(w, d) IN
           /\ v.n = w.n + 1 /\ v.sum = w.sum + d /\ v.misses = w.misses
           /\ v.max = Max({w.max, d}) /\ v.min = Min({w.min, d})
           /\ v.hist = [w.hist EXCEPT ![Bucket(d)] = w.hist[Bucket(d)] + 1]
<1> DEFINE m == Max({w.max, d})
           k == Min({w.min, d})
           u == [w EXCEPT !.n = w.n + 1, !.sum = w.sum + d, !.max = m]
           h == [w.hist EXCEPT ![Bucket(d)] = w.hist[Bucket(d)] + 1]
<1>1. AddTo(w, d) = u
  BY DEF AddTo
<1> HIDE DEF m
<1>2. /\ u.n = w.n + 1 /\ u.sum = w.sum + d /\ u.misses = w.misses /\ u.max = m
      /\ u.min = w.min /\ u.hist = w.hist
      /\ DOMAIN u = {"n", "max", "sum", "min", "misses", "hist"}
  BY DEF TimerWindow
<1> HIDE DEF u
<1>3. AddSample(w, d) = [u EXCEPT !.min = k, !.hist = h]
  <2>1. AddSample(w, d)
          = [u EXCEPT !.min = Min({u.min, d}), !.hist = [u.hist EXCEPT ![Bucket(d)] = @ + 1]]
    BY <1>1 DEF AddSample
  <2> QED
    BY <1>2, <2>1
<1> HIDE DEF k, h
<1> DEFINE v == [u EXCEPT !.min = k, !.hist = h]
<1>4. /\ v.n = u.n /\ v.sum = u.sum /\ v.misses = u.misses /\ v.max = u.max
      /\ v.min = k /\ v.hist = h
  BY <1>2
<1> QED
  BY <1>2, <1>3, <1>4 DEF m, k, h

(* TaskTimer::stop adds the sample to what the window holds.                *)
LEMMA SummaryNext ==
  ASSUME NEW s \in Seq(Durations), NEW from \in Nat, from <= Len(s), NEW w \in TimerWindow,
         Summarises(w, s, from, Len(s)), NEW d \in Durations
  PROVE  Summarises(AddSample(w, d), Append(s, d), from, Len(s) + 1)
<1> DEFINE n == Len(s)
           t == Append(s, d)
           v == AddSample(w, d)
           I == from + 1 .. n
           J == from + 1 .. n + 1
<1>0. /\ n \in Nat /\ d \in Nat /\ from <= n /\ n + 1 \in Int
      /\ t \in Seq(Durations) /\ Len(t) = n + 1 /\ t[n + 1] = d /\ \A i \in 1 .. n : t[i] = s[i]
      /\ \A i \in 1 .. n : s[i] \in Durations /\ s[i] \in Nat
  BY AppendProperties, LenProperties, UnsetLemma
<1>1. /\ v.n = w.n + 1 /\ v.sum = w.sum + d
      /\ v.max = Max({w.max, d}) /\ v.min = Min({w.min, d})
      /\ v.hist = [w.hist EXCEPT ![Bucket(d)] = w.hist[Bucket(d)] + 1]
  BY <1>0, SampleFields
<1> DEFINE D == {s[i] : i \in I}
           E == {t[i] : i \in J}
<1>2. /\ w.n = Cardinality(I) /\ w.sum = SumBetween(s, from, n)
      /\ w.max = (IF D = {} THEN 0 ELSE Max(D)) /\ w.min = (IF D = {} THEN Unset ELSE Min(D))
      /\ \A b \in Buckets : w.hist[b] = Cardinality(InBucket(s, from, n, b))
  BY SummaryLemma
<1> HIDE DEF n, t, v
<1>3. /\ J = I \cup {n + 1} /\ n + 1 \notin I /\ n + 1 \in J
      /\ \A i \in I : i \in 1 .. n /\ t[i] = s[i] /\ i # n + 1
  BY <1>0
<1>4. IsFiniteSet(I) /\ v.n = Cardinality(J)
  <2>1. IsFiniteSet(I)
    BY <1>0, FS_Interval
  <2> HIDE DEF I, J
  <2>2. Cardinality(I \cup {n + 1}) = Cardinality(I) + 1
    BY <1>3, <2>1, FS_AddElement
  <2> QED
    BY <1>1, <1>2, <1>3, <2>1, <2>2
<1>5. v.sum = SumBetween(t, from, n + 1)
  <2>1. Numbers(t, from, n + 1)
    <3>1. ASSUME NEW k \in from + 1 .. n + 1 PROVE t[k] \in Int
      BY <1>0, <1>3
    <3> QED
      BY <1>0, <3>1 DEF Numbers
  <2>2. n \in Int /\ from <= n
    BY <1>0
  <2>3. SumBetween(t, from, n + 1) = SumBetween(t, from, n) + t[n + 1] /\ Numbers(t, from, n)
    BY <2>1, <2>2, SumNext
  <2>4. \A k \in from + 1 .. n : t[k] = s[k]
    BY <1>3
  <2>5. SumBetween(t, from, n) = SumBetween(s, from, n)
    BY <2>3, <2>4, SumSame
  <2> QED
    BY <1>0, <1>1, <1>2, <2>3, <2>5
<1>6. E = D \cup {d} /\ D \in SUBSET Durations /\ E # {}
  BY <1>0, <1>3
<1>7. v.max = Max(E) /\ v.min = Min(E)
  <2> HIDE DEF D, E
  <2> QED
    BY <1>1, <1>2, <1>6, ExtremesAdd
<1>8. ASSUME NEW b \in Buckets PROVE v.hist[b] = Cardinality(InBucket(t, from, n + 1, b))
  <2> DEFINE X == InBucket(s, from, n, b)
             Y == InBucket(t, from, n + 1, b)
  <2>1. X \in SUBSET I /\ n + 1 \notin X
    BY <1>3 DEF InBucket
  <2>2. IsFiniteSet(X) /\ w.hist[b] = Cardinality(X)
    <3> HIDE DEF X, I
    <3>1. IsFiniteSet(X)
      BY <1>4, <2>1, FS_Subset
    <3> QED
      BY <1>2, <3>1 DEF X
  <2>3. w.hist \in [Buckets -> Nat] /\ Bucket(d) \in Buckets
    BY <1>0, BucketLemma DEF TimerWindow
  <2>4. CASE Bucket(d) = b
    <3>1. Y = X \cup {n + 1}
      BY <1>0, <1>3, <2>4 DEF InBucket
    <3> HIDE DEF X, Y
    <3>2. Cardinality(X \cup {n + 1}) = Cardinality(X) + 1
      BY <2>1, <2>2, FS_AddElement
    <3>3. v.hist[b] = w.hist[b] + 1
      BY <1>1, <2>3, <2>4
    <3> QED
      BY <2>2, <3>1, <3>2, <3>3 DEF Y
  <2>5. CASE Bucket(d) # b
    <3>1. Y = X
      BY <1>0, <1>3, <2>5 DEF InBucket
    <3>2. v.hist[b] = w.hist[b]
      BY <1>1, <2>3, <2>5
    <3> QED
      BY <2>2, <3>1, <3>2
  <2> QED
    BY <2>4, <2>5
<1>9. Summarises(v, t, from, n + 1)
  <2> DEFINE m == n + 1
  <2>1. /\ v.n = Cardinality(from + 1 .. m) /\ v.sum = SumBetween(t, from, m)
        /\ \A b \in Buckets : v.hist[b] = Cardinality(InBucket(t, from, m, b))
    BY <1>4, <1>5, <1>8
  <2>2. LET F == {t[i] : i \in from + 1 .. m} IN
          v.max = (IF F = {} THEN 0 ELSE Max(F)) /\ v.min = (IF F = {} THEN Unset ELSE Min(F))
    BY <1>6, <1>7
  <2> HIDE DEF m
  <2>3. Summarises(v, t, from, m)
    BY <2>1, <2>2, SummaryLemma
  <2> QED
    BY <2>3 DEF m
<1> QED
  BY <1>9 DEF v, t, n

(* A sample behind a window does not change what the window summarises.     *)
LEMMA SummarySame ==
  ASSUME NEW s \in Seq(Durations), NEW from \in Nat, NEW to \in Nat, from <= to, to <= Len(s),
         NEW w, Summarises(w, s, from, to), NEW d \in Durations
  PROVE  Summarises(w, Append(s, d), from, to)
<1> DEFINE t == Append(s, d)
<1>1. \A i \in from + 1 .. to : t[i] = s[i] /\ s[i] \in Int
  <2>1. /\ Len(s) \in Nat /\ \A i \in 1 .. Len(s) : t[i] = s[i]
        /\ \A i \in 1 .. Len(s) : s[i] \in Nat
    BY AppendProperties, LenProperties, UnsetLemma
  <2> HIDE DEF t
  <2> QED
    BY <2>1
<1> HIDE DEF t
<1>2. SumBetween(s, from, to) = SumBetween(t, from, to)
  <2>1. Numbers(s, from, to)
    BY <1>1 DEF Numbers
  <2> QED
    BY <1>1, <2>1, SumSame
<1>3. {s[i] : i \in from + 1 .. to} = {t[i] : i \in from + 1 .. to}
  BY <1>1
<1>4. \A b \in Buckets : InBucket(s, from, to, b) = InBucket(t, from, to, b)
  BY <1>1 DEF InBucket
<1>5. Summarises(w, t, from, to)
  BY <1>2, <1>3, <1>4, SummaryLemma
<1> QED
  BY <1>5 DEF t

(* A window that was just reset summarises no samples.                      *)
LEMMA SummaryEmpty ==
  ASSUME NEW s, NEW k \in Nat
  PROVE  Summarises(EmptyTimerWindow, s, k, k)
<1>1. k + 1 .. k = {}
  OBVIOUS
<1>2. SumBetween(s, k, k) = 0
  BY SumEmpty
<1>3. /\ EmptyTimerWindow.n = 0 /\ EmptyTimerWindow.sum = 0 /\ EmptyTimerWindow.max = 0
      /\ EmptyTimerWindow.min = Unset /\ \A b \in Buckets : EmptyTimerWindow.hist[b] = 0
  BY DEF EmptyTimerWindow
<1>4. Cardinality({}) = 0
  BY FS_EmptySet
<1>5. \A b \in Buckets : InBucket(s, k, k, b) = {}
  BY <1>1 DEF InBucket
<1>6. {s[i] : i \in k + 1 .. k} = {}
  BY <1>1
<1> QED
  BY <1>1, <1>2, <1>3, <1>4, <1>5, <1>6, SummaryLemma

-----------------------------------------------------------------------------
LEMMA TimesGrows ==
  ASSUME NEW a \in Nat, NEW b \in Nat, NEW c \in Nat, b <= c
  PROVE  a * b \in Nat /\ a * c \in Nat /\ a * b <= a * c /\ b * a = a * b
<1>1. c - b \in Nat /\ a * (c - b) \in Nat
  OBVIOUS
<1>2. a * c = a * b + a * (c - b) /\ a * b \in Nat /\ b * a = a * b
  OBVIOUS
<1> QED
  BY <1>1, <1>2

(* The sum of a window stays between its maximum and n times that.          *)
LEMMA RangeAdd ==
  ASSUME NEW w \in Window, NEW x \in Nat, InRange(w)
  PROVE  InRange(AddTo(w, x))
<1> DEFINE m == Max({w.max, x})
<1>1. w.n \in Nat /\ w.sum \in Nat /\ w.max \in Nat /\ w.sum <= w.n * w.max /\ w.max <= w.sum
  BY DEF Window, InRange
<1>2. m \in {w.max, x} /\ m >= x /\ m >= w.max
  <2>1. \E y \in {w.max, x} : \A z \in {w.max, x} : y >= z
    BY <1>1
  <2> QED
    BY <2>1 DEF Max
<1>3. AddTo(w, x).n = w.n + 1 /\ AddTo(w, x).sum = w.sum + x /\ AddTo(w, x).max = m
  BY DEF AddTo, Window
<1> HIDE DEF m
<1>4. m \in Nat /\ w.n * w.max \in Nat /\ w.n * m \in Nat /\ w.n * w.max <= w.n * m
  BY <1>1, <1>2, TimesGrows
<1>5. (w.n + 1) * m = w.n * m + m
  BY <1>1, <1>4
<1>6. w.sum + x <= (w.n + 1) * m
  BY <1>1, <1>2, <1>4, <1>5
<1>7. m <= w.sum + x
  BY <1>1, <1>2
<1> QED
  BY <1>3, <1>6, <1>7 DEF InRange

LEMMA RangeEmpty == InRange(EmptyWindow) /\ InRange(Idle.w)
BY DEF InRange, EmptyWindow, Idle

(* The deadline misses are no part of the summary.                          *)
LEMMA SummaryFields ==
  ASSUME NEW v, NEW w, NEW s, NEW from, NEW to, Summarises(w, s, from, to),
         v.n = w.n, v.max = w.max, v.sum = w.sum, v.min = w.min, v.hist = w.hist
  PROVE  Summarises(v, s, from, to)
BY SummaryLemma

(* What TaskTimer::stop does to the windows, with the rotation and without. *)
LEMMA StopLemma ==
  ASSUME TypeOK, TickInv, NEW d \in Durations, TimerStop(d)
  PROVE  /\ d \in Nat /\ samples' = Append(samples, d) /\ Len(samples') = Len(samples) + 1
         /\ timer'.last = d /\ timer.cur \in TimerWindow /\ timer.rep \in TimerWindow
         /\ \/ /\ repFrom' = curFrom /\ curFrom' = Len(samples')
               /\ timer'.rep = AddSample(timer.cur, d) /\ timer'.cur = EmptyTimerWindow
            \/ /\ repFrom' = repFrom /\ curFrom' = curFrom
               /\ timer'.rep = timer.rep /\ timer'.cur = AddSample(timer.cur, d)
<1>0. clock \in Nat /\ epoch \in Nat /\ timer \in TaskTimer /\ samples \in Seq(Durations)
  BY MetricsAssumption DEF TypeOK, TaskTimer
<1> DEFINE now == clock' + epoch
           elapsed == now - timer.start
<1>1. d \in Nat /\ elapsed = d
  <2>1. clock' = clock + d /\ d \in Nat /\ timer.start = clock + epoch
    BY MetricsAssumption DEF TimerStop, TickInv
  <2>2. \A a, b, e \in Nat : ((a + b) + e) - (a + e) = b
    OBVIOUS
  <2>3. elapsed = ((clock + d) + epoch) - (clock + epoch)
    BY <2>1
  <2> QED
    BY <1>0, <2>1, <2>2, <2>3
<1> DEFINE w == AddSample(timer.cur, d)
<1>2. /\ timer' = [RotateIfOver(timer, w, EmptyTimerWindow, now) EXCEPT !.last = d]
      /\ samples' = Append(samples, d)
      /\ IF WindowOver(timer, now)
         THEN repFrom' = curFrom /\ curFrom' = Len(samples')
         ELSE UNCHANGED <<repFrom, curFrom>>
  <2>1. /\ timer' = [RotateIfOver(timer, AddSample(timer.cur, elapsed), EmptyTimerWindow, now)
                       EXCEPT !.last = elapsed]
        /\ samples' = Append(samples, elapsed)
        /\ IF WindowOver(timer, now)
           THEN repFrom' = curFrom /\ curFrom' = Len(samples')
           ELSE UNCHANGED <<repFrom, curFrom>>
    BY DEF TimerStop
  <2> HIDE DEF now, elapsed
  <2> QED
    BY <1>1, <2>1
<1> HIDE DEF now, w
<1>3. timer.cur \in TimerWindow /\ timer.rep \in TimerWindow
  BY <1>0 DEF TaskTimer
<1>4. Len(samples') = Len(samples) + 1
  BY <1>0, <1>2, AppendProperties
<1>5. CASE WindowOver(timer, now)
  <2>1. timer'.rep = w /\ timer'.cur = EmptyTimerWindow /\ timer'.last = d
    BY <1>0, <1>2, <1>5 DEF RotateIfOver, TaskTimer
  <2> QED
    BY <1>1, <1>2, <1>3, <1>4, <1>5, <2>1 DEF w
<1>6. CASE ~WindowOver(timer, now)
  <2>1. timer'.rep = timer.rep /\ timer'.cur = w /\ timer'.last = d
    BY <1>0, <1>2, <1>6 DEF RotateIfOver, TaskTimer
  <2> QED
    BY <1>1, <1>2, <1>3, <1>4, <1>6, <2>1 DEF w
<1> QED
  BY <1>5, <1>6

(* One dispatch more counts as an overrun if it was one.                    *)
LEMMA OverrunStep ==
  ASSUME samples \in Seq(Durations), NEW d \in Durations, samples' = Append(samples, d)
  PROVE  Overruns \in Nat /\ Overruns' = Overruns + (IF d > declaredWcetUs THEN 1 ELSE 0)
<1> DEFINE n == Len(samples)
           X == {i \in 1 .. n : samples[i] > declaredWcetUs}
           Y == {i \in 1 .. n + 1 : samples'[i] > declaredWcetUs}
<1>1. /\ n \in Nat /\ Len(samples') = n + 1 /\ samples'[n + 1] = d
      /\ \A i \in 1 .. n : samples'[i] = samples[i]
  BY AppendProperties, LenProperties
<1>2. Overruns = Cardinality(X) /\ Overruns' = Cardinality(Y)
  BY <1>1 DEF Overruns
<1> HIDE DEF n
<1>3. IsFiniteSet(X) /\ Cardinality(X) \in Nat
  <2>1. X \in SUBSET (1 .. n)
    OBVIOUS
  <2>2. IsFiniteSet(1 .. n)
    BY <1>1, FS_Interval
  <2> HIDE DEF X
  <2>3. IsFiniteSet(X)
    BY <2>1, <2>2, FS_Subset
  <2> QED
    BY <2>3, FS_CardinalityType
<1>4. n + 1 \notin X /\ Y = IF d > declaredWcetUs THEN X \cup {n + 1} ELSE X
  <2>1. 1 .. n + 1 = (1 .. n) \cup {n + 1}
    BY <1>1
  <2> QED
    BY <1>1, <2>1
<1> HIDE DEF X, Y
<1>5. CASE d > declaredWcetUs
  <2>1. Cardinality(X \cup {n + 1}) = Cardinality(X) + 1
    BY <1>3, <1>4, FS_AddElement
  <2> QED
    BY <1>2, <1>3, <1>4, <1>5, <2>1
<1>6. CASE ~(d > declaredWcetUs)
  BY <1>2, <1>3, <1>4, <1>6
<1> QED
  BY <1>5, <1>6

LEMMA OverrunType ==
  ASSUME samples \in Seq(Durations)
  PROVE  Overruns \in Nat
<1>1. Len(samples) \in Nat
  BY LenProperties
<1> DEFINE X == {i \in 1 .. Len(samples) : samples[i] > declaredWcetUs}
<1>2. IsFiniteSet(1 .. Len(samples)) /\ X \in SUBSET (1 .. Len(samples))
  BY <1>1, FS_Interval
<1>3. Overruns = Cardinality(X)
  BY DEF Overruns
<1> HIDE DEF X
<1>4. IsFiniteSet(X)
  BY <1>2, FS_Subset
<1> QED
  BY <1>3, <1>4, FS_CardinalityType

(* Every step preserves what the windows hold.                              *)
LEMMA WindowsStep ==
  ASSUME TypeOK, TickInv, WindowsInv, [Next]_vars
  PROVE  WindowsInv'
<1>0. /\ samples \in Seq(Durations) /\ curFrom \in Nat /\ repFrom \in Nat
      /\ repFrom <= curFrom /\ curFrom <= Len(samples) /\ Len(samples) \in Nat
      /\ timer \in TaskTimer /\ queueMon \in QueueMonitor /\ clock \in Nat
      /\ timer.cur \in TimerWindow /\ timer.rep \in TimerWindow
      /\ timer.cur.n \in Nat /\ timer.rep.n \in Nat /\ timer.last \in Nat
      /\ timer.cur.misses \in Nat /\ timer.rep.misses \in Nat
  BY LenProperties DEF TypeOK, TaskTimer, QueueMonitor, TimerWindow
<1>1. /\ Summarises(timer.cur, samples, curFrom, Len(samples))
      /\ Summarises(timer.rep, samples, repFrom, curFrom)
      /\ MissInv /\ InRange(queueMon.cur) /\ InRange(queueMon.rep)
  BY DEF WindowsInv
<1>2. ASSUME NEW d \in Durations, TimerStop(d) PROVE WindowsInv'
  <2>1. /\ d \in Nat /\ samples' = Append(samples, d) /\ Len(samples') = Len(samples) + 1
        /\ timer'.last = d
        /\ \/ /\ repFrom' = curFrom /\ curFrom' = Len(samples')
              /\ timer'.rep = AddSample(timer.cur, d) /\ timer'.cur = EmptyTimerWindow
           \/ /\ repFrom' = repFrom /\ curFrom' = curFrom
              /\ timer'.rep = timer.rep /\ timer'.cur = AddSample(timer.cur, d)
    BY <1>2, StopLemma
  <2>2. pc = "task" /\ pc' = "check" /\ queueMon' = queueMon
    BY <1>2 DEF TimerStop
  <2>3. /\ Summarises(AddSample(timer.cur, d), samples', curFrom, Len(samples'))
        /\ Summarises(timer.rep, samples', repFrom, curFrom)
        /\ Summarises(EmptyTimerWindow, samples', Len(samples'), Len(samples'))
    <3>1. Summarises(AddSample(timer.cur, d), Append(samples, d), curFrom, Len(samples) + 1)
      BY <1>0, <1>1, SummaryNext
    <3>2. Summarises(timer.rep, Append(samples, d), repFrom, curFrom)
      BY <1>0, <1>1, SummarySame
    <3>3. Len(samples') \in Nat
      BY <1>0, <2>1
    <3> QED
      BY <2>1, <3>1, <3>2, <3>3, SummaryEmpty
  <2>4. /\ Overruns' = Overruns + (IF d > declaredWcetUs THEN 1 ELSE 0) /\ Overruns \in Nat
    BY <1>0, <2>1, OverrunStep
  <2>5. /\ timer.rep.misses <= timer.rep.n /\ timer.cur.misses <= timer.cur.n + 1
        /\ timer.cur.misses + timer.rep.misses <= Overruns
    BY <1>0, <1>1, <2>2, <2>4 DEF MissInv
  <2>6. /\ AddSample(timer.cur, d).misses = timer.cur.misses
        /\ AddSample(timer.cur, d).n = timer.cur.n + 1
        /\ EmptyTimerWindow.n = 0 /\ EmptyTimerWindow.misses = 0
    <3>1. EmptyTimerWindow.n = 0 /\ EmptyTimerWindow.misses = 0
      BY DEF EmptyTimerWindow
    <3> QED
      BY <1>0, <2>1, <3>1, SampleFields
  <2>7. MissInv'
    <3> DEFINE late == IF timer'.last > declaredWcetUs THEN 1 ELSE 0
    <3>0. late \in 0 .. 1 /\ Overruns' = Overruns + late
      BY <2>1, <2>4
    <3>n. timer.cur.misses \in Nat /\ timer.rep.misses \in Nat /\ timer.cur.n \in Nat
      BY <1>0 DEF TaskTimer, TimerWindow
    <3>1. MissInv' <=> /\ timer'.rep.misses <= timer'.rep.n
                       /\ timer'.cur.misses <= timer'.cur.n + 0
                       /\ timer'.cur.misses + timer'.rep.misses + late <= Overruns'
      BY <2>2 DEF MissInv
    <3> HIDE DEF late
    <3>2. CASE timer'.rep = AddSample(timer.cur, d) /\ timer'.cur = EmptyTimerWindow
      <4>1. /\ timer'.rep.misses = timer.cur.misses /\ timer'.rep.n = timer.cur.n + 1
            /\ timer'.cur.misses = 0 /\ timer'.cur.n = 0
        BY <2>6, <3>2
      <4>2. 0 + timer.cur.misses + late <= Overruns + late
        BY <2>4, <2>5, <3>0, <3>n
      <4>3. 0 <= 0 + 0
        OBVIOUS
      <4> QED
        BY <2>5, <3>0, <3>1, <4>1, <4>2, <4>3, Zenon
    <3>3. CASE timer'.rep = timer.rep /\ timer'.cur = AddSample(timer.cur, d)
      <4>1. /\ timer'.rep.misses = timer.rep.misses /\ timer'.rep.n = timer.rep.n
            /\ timer'.cur.misses = timer.cur.misses /\ timer'.cur.n = timer.cur.n + 1
        BY <2>6, <3>3
      <4>2. timer.cur.misses + timer.rep.misses + late <= Overruns + late
        BY <2>4, <2>5, <3>0, <3>n
      <4>3. timer.cur.misses <= (timer.cur.n + 1) + 0
        BY <2>5, <3>n
      <4> QED
        BY <2>5, <3>0, <3>1, <4>1, <4>2, <4>3, Zenon
    <3> QED
      BY <2>1, <3>2, <3>3
  <2>8. /\ Summarises(timer.cur, samples, curFrom, Len(samples))'
        /\ Summarises(timer.rep, samples, repFrom, curFrom)'
    BY <2>1, <2>3
  <2> QED
    BY <1>1, <2>2, <2>7, <2>8 DEF WindowsInv
<1>3. CASE RecordMiss
  <2> DEFINE late == declaredWcetUs > 0 /\ timer.last > declaredWcetUs
             k == timer.cur.misses + 1
  <2>1. /\ pc = "check" /\ pc' = "end" /\ queueMon' = queueMon
        /\ samples' = samples /\ curFrom' = curFrom /\ repFrom' = repFrom
        /\ timer' = IF late THEN [timer EXCEPT !.cur = [timer.cur EXCEPT !.misses = k]] ELSE timer
    BY <1>3 DEF RecordMiss, ghosts
  <2>2. /\ timer'.rep = timer.rep /\ timer'.cur.n = timer.cur.n /\ timer'.cur.max = timer.cur.max
        /\ timer'.cur.sum = timer.cur.sum /\ timer'.cur.min = timer.cur.min
        /\ timer'.cur.hist = timer.cur.hist
        /\ timer'.cur.misses = IF late THEN k ELSE timer.cur.misses
    <3> HIDE DEF late, k
    <3> QED
      BY <1>0, <2>1 DEF TaskTimer, TimerWindow
  <2>3. /\ Summarises(timer.cur, samples, curFrom, Len(samples))'
        /\ Summarises(timer.rep, samples, repFrom, curFrom)'
    <3>1. Summarises(timer'.cur, samples, curFrom, Len(samples))
      BY <1>1, <2>2, SummaryFields
    <3> QED
      BY <1>1, <2>1, <2>2, <3>1
  <2>4. Overruns' = Overruns /\ Overruns \in Nat
    BY <1>0, <2>1, OverrunType DEF Overruns
  <2>5. MissInv'
    <3>n. timer.cur.misses \in Nat /\ timer.rep.misses \in Nat /\ timer.cur.n \in Nat
      BY <1>0 DEF TaskTimer, TimerWindow
    <3>1. /\ timer.rep.misses <= timer.rep.n /\ timer.cur.misses <= timer.cur.n
          /\ timer.cur.misses + timer.rep.misses <= Overruns
          /\ late => timer.cur.misses + timer.rep.misses + 1 <= Overruns
      <4> HIDE DEF k
      <4> QED
        BY <1>1, <2>1, <2>4, <3>n DEF MissInv
    <3>2. MissInv' <=> /\ timer'.rep.misses <= timer'.rep.n
                       /\ timer'.cur.misses <= timer'.cur.n + 1
                       /\ timer'.cur.misses + timer'.rep.misses + 0 <= Overruns'
      BY <2>1 DEF MissInv
    <3> HIDE DEF late
    <3>3. CASE late
      <4>1. timer'.cur.misses = timer.cur.misses + 1
        BY <2>2, <3>3
      <4>2. /\ timer.cur.misses + 1 <= timer.cur.n + 1
            /\ (timer.cur.misses + 1) + timer.rep.misses + 0 <= Overruns
        BY <2>4, <3>1, <3>3, <3>n
      <4> QED
        BY <2>2, <2>4, <3>1, <3>2, <4>1, <4>2, Zenon
    <3>4. CASE ~late
      <4>1. timer'.cur.misses = timer.cur.misses
        BY <2>2, <3>4
      <4>2. /\ timer.cur.misses <= timer.cur.n + 1
            /\ timer.cur.misses + timer.rep.misses + 0 <= Overruns
        BY <2>4, <3>1, <3>n
      <4> QED
        BY <2>2, <2>4, <3>1, <3>2, <4>1, <4>2, Zenon
    <3> QED
      BY <3>3, <3>4
  <2> QED
    BY <1>1, <2>1, <2>3, <2>5 DEF WindowsInv
<1>4. ASSUME UNCHANGED <<samples, curFrom, repFrom>>, timer'.cur = timer.cur, timer'.rep = timer.rep,
             timer'.last = timer.last, pc # "check", pc' # "check" 
      PROVE  /\ Summarises(timer.cur, samples, curFrom, Len(samples))'
             /\ Summarises(timer.rep, samples, repFrom, curFrom)' /\ MissInv'
  BY <1>1, <1>4 DEF MissInv, Overruns
<1>5. ASSUME NEW q \in Depths, SampleQueue(q) PROVE WindowsInv'
  <2>1. /\ pc = "queue" /\ pc' = "idle" /\ UNCHANGED <<samples, curFrom, repFrom, timer>>
        /\ queueMon' = [RotateIfOver(queueMon, AddTo(queueMon.cur, q), EmptyWindow, clock)
                          EXCEPT !.last = q]
    BY <1>5 DEF SampleQueue
  <2> DEFINE w == AddTo(queueMon.cur, q)
  <2>2. InRange(w)
    <3>1. queueMon.cur \in Window /\ q \in Nat
      BY <1>0, MetricsAssumption DEF QueueMonitor
    <3> QED
      BY <1>1, <3>1, RangeAdd
  <2> HIDE DEF w
  <2>3. \/ queueMon'.rep = w /\ queueMon'.cur = EmptyWindow
        \/ queueMon'.rep = queueMon.rep /\ queueMon'.cur = w
    BY <1>0, <2>1 DEF RotateIfOver, QueueMonitor, w
  <2>4. InRange(queueMon.cur)' /\ InRange(queueMon.rep)'
    BY <1>1, <2>2, <2>3, RangeEmpty
  <2> QED
    BY <1>4, <2>1, <2>4 DEF WindowsInv
<1>6. CASE TickStart \/ (\E o \in Overheads : TimerStart(o))
  <2>1. /\ pc # "check" /\ pc' # "check" /\ UNCHANGED <<samples, curFrom, repFrom, queueMon>>
    BY <1>6 DEF TickStart, TimerStart, ghosts
  <2>2. timer'.cur = timer.cur /\ timer'.rep = timer.rep /\ timer'.last = timer.last
    BY <1>0, <1>6 DEF TickStart, TimerStart, TaskTimer
  <2> QED
    BY <1>1, <1>4, <2>1, <2>2 DEF WindowsInv
<1>7. CASE TickEnd \/ TickGap
  <2>1. /\ pc # "check" /\ pc' # "check" /\ UNCHANGED <<samples, curFrom, repFrom, timer, queueMon>>
    BY <1>7 DEF TickEnd, TickGap, ghosts
  <2> QED
    BY <1>1, <1>4, <2>1 DEF WindowsInv
<1>8. CASE \/ PeerGapLoad(PeerGap) \/ PeerGapStore \/ Diagnose \/ UNCHANGED vars
           \/ SnapshotBegin \/ SnapshotHealth \/ SnapshotTask
  <2>1. UNCHANGED <<pc, samples, curFrom, repFrom, timer, queueMon>>
    BY <1>8 DEF PeerGapLoad, PeerGapStore, Diagnose, SnapshotBegin, SnapshotHealth, SnapshotTask,
       vars, tickState, tickVars, ghosts
  <2> QED
    BY <1>1, <2>1 DEF WindowsInv, MissInv, Overruns
<1> QED
  BY <1>2, <1>3, <1>5, <1>6, <1>7, <1>8 DEF Next

-----------------------------------------------------------------------------
(* The minimum and the maximum, times the count, bound the sum.             *)
Weighed(w) == w.min * w.n <= w.sum /\ w.sum <= w.max * w.n

LEMMA WeighedAdd ==
  ASSUME NEW w \in TimerWindow, NEW d \in Nat, Weighed(w)
  PROVE  Weighed(AddSample(w, d))
<1> DEFINE m == Max({w.max, d})
           k == Min({w.min, d})
           v == AddSample(w, d)
<1>1. /\ w.n \in Nat /\ w.sum \in Nat /\ w.max \in Nat /\ w.min \in Nat
      /\ w.min * w.n <= w.sum /\ w.sum <= w.max * w.n
  BY DEF TimerWindow, Weighed
<1>2. m \in {w.max, d} /\ m >= d /\ m >= w.max
  <2>1. \E y \in {w.max, d} : \A z \in {w.max, d} : y >= z
    BY <1>1
  <2> QED
    BY <2>1 DEF Max
<1>3. k \in {w.min, d} /\ k <= d /\ k <= w.min
  <2>1. \E y \in {w.min, d} : \A z \in {w.min, d} : y =< z
    BY <1>1
  <2> QED
    BY <2>1 DEF Min
<1>4. v.n = w.n + 1 /\ v.sum = w.sum + d /\ v.max = m /\ v.min = k
  BY SampleFields
<1> HIDE DEF m, k, v
<1>5. m \in Nat /\ k \in Nat
  BY <1>1, <1>2, <1>3
<1>6. w.n * w.max <= w.n * m /\ w.max * w.n = w.n * w.max
  BY <1>1, <1>2, <1>5, TimesGrows
<1>7. w.n * k <= w.n * w.min /\ w.n * w.min = w.min * w.n
  BY <1>1, <1>3, <1>5, TimesGrows
<1>8. /\ m * (w.n + 1) = w.n * m + m /\ k * (w.n + 1) = w.n * k + k
      /\ w.n * m \in Nat /\ w.n * k \in Nat
  BY <1>1, <1>5
<1>9. k * (w.n + 1) <= w.sum + d
  BY <1>1, <1>3, <1>5, <1>7, <1>8
<1>10. w.sum + d <= m * (w.n + 1)
  BY <1>1, <1>2, <1>5, <1>6, <1>8
<1> QED
  BY <1>4, <1>9, <1>10 DEF Weighed, v

LEMMA WeighedEmpty == Weighed(EmptyTimerWindow)
<1>1. /\ EmptyTimerWindow.n = 0 /\ EmptyTimerWindow.sum = 0 /\ EmptyTimerWindow.max = 0
      /\ EmptyTimerWindow.min = Unset /\ Unset \in Nat
  BY UnsetLemma DEF EmptyTimerWindow
<1>2. Unset * 0 = 0 /\ 0 * 0 = 0
  BY <1>1
<1> QED
  BY <1>1, <1>2 DEF Weighed

(* The buckets up to b of a window hold its samples of those buckets.       *)
LEMMA CumulativeLemma ==
  ASSUME NEW s \in Seq(Durations), NEW from \in Nat, NEW to \in Nat, from <= to, to <= Len(s),
         NEW w, Summarises(w, s, from, to), NEW b \in Buckets
  PROVE  Cumulative(w.hist, b) = Cardinality({i \in from + 1 .. to : Bucket(s[i]) <= b})
<1> DEFINE I == from + 1 .. to
           c == [i \in I |-> Bucket(s[i])]
           m == kHistogramBuckets - 1
           h == w.hist
<1>1. m \in Nat /\ Buckets = 0 .. m
  BY MetricsAssumption DEF Buckets
<1>2. \A i \in I : s[i] \in Nat /\ Bucket(s[i]) \in Nat
  <2>1. ASSUME NEW i \in I PROVE s[i] \in Nat
    <3>1. i \in 1 .. Len(s)
      BY LenProperties
    <3> QED
      BY <3>1, UnsetLemma
  <2>2. ASSUME NEW i \in I PROVE Bucket(s[i]) \in Nat
    BY <1>1, <2>1, BucketLemma
  <2> QED
    BY <2>1, <2>2
<1>3. c \in [I -> Nat] /\ IsFiniteSet(I)
  <2>1. from + 1 \in Int /\ to \in Int
    OBVIOUS
  <2>2. IsFiniteSet(I)
    BY <2>1, FS_Interval
  <2> QED
    BY <1>2, <2>2
<1>4. ASSUME NEW a \in 0 .. m PROVE h[a] = Cardinality({i \in I : c[i] = a})
  <2>1. h[a] = Cardinality(InBucket(s, from, to, a))
    BY <1>1, SummaryLemma
  <2>2. InBucket(s, from, to, a) = {i \in I : c[i] = a}
    BY DEF InBucket
  <2> QED
    BY <2>1, <2>2
<1>5. {i \in I : c[i] <= b} = {i \in I : Bucket(s[i]) <= b}
  OBVIOUS
<1>6. SumBetween(h, -1, b) = Cardinality({i \in I : c[i] <= b})
  <2>1. Histogram(h, c, I, m)
    BY <1>4 DEF Histogram
  <2> HIDE DEF I, c, m, h
  <2>2. \A a \in 0 .. m : SumBetween(h, -1, a) = Cardinality({i \in I : c[i] <= a})
    BY <1>1, <1>3, <2>1, SumCounts
  <2> QED
    BY <1>1, <2>2
<1> QED
  BY <1>5, <1>6 DEF Cumulative

(* ... all of them together, every sample.                                  *)
LEMMA HistogramTotal ==
  ASSUME NEW s \in Seq(Durations), NEW from \in Nat, NEW to \in Nat, from <= to, to <= Len(s),
         NEW w, Summarises(w, s, from, to)
  PROVE  Cumulative(w.hist, kHistogramBuckets - 1) = w.n
<1> DEFINE b == kHistogramBuckets - 1
<1>1. b \in Buckets /\ \A x \in Buckets : x <= b
  BY MetricsAssumption DEF Buckets
<1> HIDE DEF b
<1>2. Cumulative(w.hist, b) = Cardinality({i \in from + 1 .. to : Bucket(s[i]) <= b})
  BY <1>1, CumulativeLemma
<1>3. \A i \in from + 1 .. to : Bucket(s[i]) <= b
  <2> SUFFICES ASSUME NEW i \in from + 1 .. to PROVE Bucket(s[i]) <= b
    OBVIOUS
  <2>1. i \in 1 .. Len(s)
    BY LenProperties
  <2>2. s[i] \in Nat
    BY <2>1, UnsetLemma
  <2> QED
    BY <1>1, <2>2, BucketLemma
<1>4. {i \in from + 1 .. to : Bucket(s[i]) <= b} = from + 1 .. to
  BY <1>3
<1>5. w.n = Cardinality(from + 1 .. to)
  BY SummaryLemma
<1> QED
  BY <1>2, <1>4, <1>5 DEF b

(* What the accessors return, field by field.                               *)
LEMMA AccessorLemma ==
  /\ LET w == Reported(health) IN
       /\ HealthAccessor(1) = w.sum /\ HealthAccessor(2) = w.max
       /\ HealthAccessor(3) = <<w.sum, w.n>> /\ HealthAccessor(4) = w.n
  /\ LET w == Reported(timer) IN
       /\ TaskAccessor(1) = w.min /\ TaskAccessor(2) = w.max
       /\ TaskAccessor(3) = <<w.sum, w.n>> /\ TaskAccessor(4) = w.n
       /\ TaskAccessor(5) = w.misses /\ TaskAccessor(6) = w.hist
<1>1. /\ HealthFields[1] = "sum" /\ HealthFields[2] = "max" /\ HealthFields[3] = "avg"
      /\ HealthFields[4] = "n"
  BY DEF HealthFields
<1>2. /\ TimerFields[1] = "min" /\ TimerFields[2] = "max" /\ TimerFields[3] = "avg"
      /\ TimerFields[4] = "n" /\ TimerFields[5] = "misses" /\ TimerFields[6] = "hist"
  BY DEF TimerFields
<1>3. \A w : /\ ReadField(w, "sum") = w.sum /\ ReadField(w, "max") = w.max /\ ReadField(w, "n") = w.n
             /\ ReadField(w, "avg") = <<w.sum, w.n>> /\ ReadField(w, "min") = w.min
             /\ ReadField(w, "misses") = w.misses /\ ReadField(w, "hist") = w.hist
  BY DEF ReadField
<1> QED
  BY <1>1, <1>2, <1>3 DEF HealthAccessor, TaskAccessor

(* The values of a snapshot are those the accessors return now.             *)
Shows ==
  \A i \in 1 .. Len(snap) :
    snap[i] = IF i <= Len(HealthFields) THEN HealthAccessor(i) ELSE TaskAccessor(i - Len(HealthFields))

(* A snapshot with all its fields that shows the windows as they are is     *)
(* coherent.                                                                *)
LEMMA ShowsCoherent ==
  ASSUME Shows, Len(snap) = 10, Reported(health) \in Window, InRange(Reported(health)),
         Reported(timer) \in TimerWindow, Balanced(Reported(timer)),
         Reported(timer).misses <= Reported(timer).n + 1
  PROVE  CoherentTask /\ CoherentHealth
<1> DEFINE hw == Reported(health)
           tw == Reported(timer)
<1>1. \A i \in 1 .. 10 : snap[i] = IF i <= 4 THEN HealthAccessor(i) ELSE TaskAccessor(i - 4)
  BY SizeLemma DEF Shows
<1>2. /\ snap[1] = HealthAccessor(1) /\ snap[2] = HealthAccessor(2) /\ snap[3] = HealthAccessor(3)
      /\ snap[4] = HealthAccessor(4) /\ snap[5] = TaskAccessor(5 - 4) /\ snap[6] = TaskAccessor(6 - 4)
      /\ snap[7] = TaskAccessor(7 - 4) /\ snap[8] = TaskAccessor(8 - 4)
      /\ snap[9] = TaskAccessor(9 - 4) /\ snap[10] = TaskAccessor(10 - 4)
  BY <1>1
<1>3. 5 - 4 = 1 /\ 6 - 4 = 2 /\ 7 - 4 = 3 /\ 8 - 4 = 4 /\ 9 - 4 = 5 /\ 10 - 4 = 6
  OBVIOUS
<1>4. /\ snap[1] = hw.sum /\ snap[2] = hw.max /\ snap[3] = <<hw.sum, hw.n>> /\ snap[4] = hw.n
      /\ snap[5] = tw.min /\ snap[6] = tw.max /\ snap[7] = <<tw.sum, tw.n>> /\ snap[8] = tw.n
      /\ snap[9] = tw.misses /\ snap[10] = tw.hist
  BY <1>2, <1>3, AccessorLemma, Zenon
<1> HIDE DEF hw, tw
<1>5. CoherentHealth
  <2>1. hw.max <= hw.sum /\ hw.sum <= hw.n * hw.max /\ hw.n * hw.max = hw.max * hw.n
    BY DEF InRange, Window, hw
  <2> QED
    BY <1>4, <2>1 DEF CoherentHealth
<1>6. CoherentTask
  <2>1. /\ Cumulative(tw.hist, kHistogramBuckets - 1) = tw.n /\ tw.misses <= tw.n + 1
        /\ tw.min * tw.n <= tw.sum /\ tw.sum <= tw.max * tw.n
    BY DEF Balanced, tw
  <2>2. snap[7][1] = tw.sum /\ snap[7][2] = tw.n
    BY <1>4
  <2> QED
    BY <1>4, <2>1, <2>2 DEF CoherentTask
<1> QED
  BY <1>5, <1>6

(* The accessors return the values of one window, which is in order.        *)
LEMMA ReportedLemma ==
  ASSUME TypeOK, WindowsInv, SnapshotInv
  PROVE  /\ Reported(health) \in Window /\ InRange(Reported(health))
         /\ Reported(timer) \in TimerWindow /\ Balanced(Reported(timer))
         /\ Reported(timer).misses <= Reported(timer).n + 1
<1>1. /\ health.cur \in Window /\ health.rep \in Window
      /\ timer.cur \in TimerWindow /\ timer.rep \in TimerWindow
      /\ timer.cur.n \in Nat /\ timer.rep.n \in Nat
      /\ timer.cur.misses \in Nat /\ timer.rep.misses \in Nat
  BY DEF TypeOK, TimerWindow
<1>2. /\ InRange(health.cur) /\ InRange(health.rep) /\ Balanced(timer.cur) /\ Balanced(timer.rep)
  BY DEF SnapshotInv
<1>3. timer.cur.misses <= timer.cur.n + 1 /\ timer.rep.misses <= timer.rep.n + 1
  <2>1. /\ timer.rep.misses <= timer.rep.n
        /\ timer.cur.misses <= timer.cur.n + (IF pc = "check" THEN 0 ELSE 1)
    BY DEF WindowsInv, MissInv
  <2>2. CASE pc = "check"
    BY <1>1, <2>1, <2>2
  <2>3. CASE pc # "check"
    BY <1>1, <2>1, <2>3
  <2> QED
    BY <2>2, <2>3
<1> QED
  BY <1>1, <1>2, <1>3 DEF Reported

(* The windows stay in order, whichever core writes them.                   *)
LEMMA RangeStep ==
  ASSUME TypeOK, SnapshotInv, [Next]_vars
  PROVE  \A w \in {health'.cur, health'.rep} \cup {gapReg'[c].w : c \in Cores} : InRange(w)
<1>0. /\ health \in HealthMetrics /\ health.cur \in Window /\ 0 \in Cores /\ 1 \in Cores
      /\ clock \in Nat /\ tickTime \in Nat /\ busyAccum \in Nat
      /\ gapReg \in [Cores -> [w : Window, now : Nat \cup {-1}]]
  BY DEF TypeOK, HealthMetrics, Cores
<1>1. /\ InRange(health.cur) /\ InRange(health.rep) /\ \A c \in Cores : InRange(gapReg[c].w)
  BY DEF SnapshotInv
<1>2. SUFFICES InRange(health'.cur) /\ InRange(health'.rep) /\ \A c \in Cores : InRange(gapReg'[c].w)
  OBVIOUS
<1>3. ASSUME NEW c \in Cores, NEW gap \in Nat, GapLoad(c, gap)
      PROVE  \A e \in Cores : InRange(gapReg'[e].w)
  <2> DEFINE w == AddTo(health.cur, gap)
  <2>1. gapReg' = [gapReg EXCEPT ![c] = [w |-> w, now |-> clock]]
    BY <1>3 DEF GapLoad
  <2>2. InRange(w)
    BY <1>0, <1>1, RangeAdd
  <2> HIDE DEF w
  <2>3. ASSUME NEW e \in Cores PROVE gapReg'[e].w \in {w, gapReg[e].w}
    BY <1>0, <2>1
  <2> QED
    BY <1>1, <2>2, <2>3
<1>4. ASSUME NEW c \in Cores, GapStore(c)
      PROVE  InRange(health'.cur) /\ InRange(health'.rep) /\ \A e \in Cores : InRange(gapReg'[e].w)
  <2>1. /\ gapReg' = [gapReg EXCEPT ![c] = Idle]
        /\ health' = RotateIfOver(health, gapReg[c].w, EmptyWindow, gapReg[c].now)
    BY <1>4 DEF GapStore
  <2>2. \/ health'.rep = gapReg[c].w /\ health'.cur = EmptyWindow
        \/ health'.rep = health.rep /\ health'.cur = gapReg[c].w
    BY <1>0, <2>1 DEF RotateIfOver, HealthMetrics
  <2>3. ASSUME NEW e \in Cores PROVE gapReg'[e].w \in {Idle.w, gapReg[e].w}
    BY <1>0, <2>1
  <2>4. \A e \in Cores : InRange(gapReg'[e].w)
    BY <1>1, <2>3, RangeEmpty
  <2> QED
    BY <1>1, <2>2, <2>4, RangeEmpty
<1>5. CASE TickEnd
  <2> DEFINE gap == IF clock - tickTime >= busyAccum THEN (clock - tickTime) - busyAccum ELSE 0
  <2>1. gap \in Nat
    BY <1>0
  <2>2. GapLoad(0, gap) /\ health' = health
    BY <1>5 DEF TickEnd
  <2> HIDE DEF gap
  <2> QED
    BY <1>0, <1>1, <1>3, <2>1, <2>2
<1>6. CASE PeerGapLoad(PeerGap)
  <2>1. GapLoad(1, PeerGap) /\ health' = health /\ PeerGap \in Nat
    BY <1>6, MetricsAssumption DEF PeerGapLoad
  <2> QED
    BY <1>0, <1>1, <1>3, <2>1
<1>7. CASE TickGap \/ PeerGapStore
  BY <1>0, <1>4, <1>7 DEF TickGap, PeerGapStore
<1>8. CASE Diagnose
  <2>1. health'.cur = health.cur /\ health'.rep = health.rep /\ gapReg' = gapReg
    BY <1>0, <1>8 DEF Diagnose, HealthMetrics
  <2> QED
    BY <1>1, <2>1
<1>9. CASE UNCHANGED <<health, gapReg>>
  BY <1>1, <1>9
<1> QED
  BY <1>5, <1>6, <1>7, <1>8, <1>9 DEF Next, vars, peerVars, TickStart, TimerStart, TimerStop,
     RecordMiss, SampleQueue, SnapshotBegin, SnapshotHealth, SnapshotTask

(* The task timer's windows add up.                                         *)
LEMMA BalancedStep ==
  ASSUME TypeOK, TickInv, TypeOK', WindowsInv', SnapshotInv, [Next]_vars
  PROVE  Balanced(timer'.cur) /\ Balanced(timer'.rep)
<1>0. timer \in TaskTimer /\ timer.cur \in TimerWindow /\ timer.rep \in TimerWindow
  BY DEF TypeOK, TaskTimer
<1>1. Weighed(timer.cur) /\ Weighed(timer.rep)
  BY DEF SnapshotInv, Balanced, Weighed
<1>2. /\ Cumulative(timer'.cur.hist, kHistogramBuckets - 1) = timer'.cur.n
      /\ Cumulative(timer'.rep.hist, kHistogramBuckets - 1) = timer'.rep.n
  <2>1. /\ samples' \in Seq(Durations) /\ curFrom' \in Nat /\ repFrom' \in Nat
        /\ repFrom' <= curFrom' /\ curFrom' <= Len(samples') /\ Len(samples') \in Nat
    BY LenProperties DEF TypeOK
  <2>2. /\ Summarises(timer'.cur, samples', curFrom', Len(samples'))
        /\ Summarises(timer'.rep, samples', repFrom', curFrom')
    BY DEF WindowsInv
  <2>3. Len(samples') <= Len(samples')
    BY <2>1
  <2>4. Cumulative(timer'.cur.hist, kHistogramBuckets - 1) = timer'.cur.n
    BY <2>1, <2>2, <2>3, HistogramTotal
  <2>5. Cumulative(timer'.rep.hist, kHistogramBuckets - 1) = timer'.rep.n
    BY <2>1, <2>2, HistogramTotal
  <2> QED
    BY <2>4, <2>5
<1>3. Weighed(timer'.cur) /\ Weighed(timer'.rep)
  <2>1. CASE \E d \in Durations : TimerStop(d)
    <3>1. PICK d \in Durations : TimerStop(d)
      BY <2>1
    <3>2. Weighed(AddSample(timer.cur, d))
      BY <1>0, <1>1, <3>1, StopLemma, WeighedAdd
    <3>3. \/ timer'.rep = AddSample(timer.cur, d) /\ timer'.cur = EmptyTimerWindow
          \/ timer'.rep = timer.rep /\ timer'.cur = AddSample(timer.cur, d)
      BY <3>1, StopLemma
    <3> QED
      BY <1>1, <3>2, <3>3, WeighedEmpty
  <2>2. CASE RecordMiss
    <3> DEFINE k == timer.cur.misses + 1
    <3>1. timer' = [timer EXCEPT !.cur = [timer.cur EXCEPT !.misses = k]] \/ timer' = timer
      BY <2>2 DEF RecordMiss
    <3> HIDE DEF k
    <3>2. /\ timer'.rep = timer.rep /\ timer'.cur.n = timer.cur.n /\ timer'.cur.max = timer.cur.max
          /\ timer'.cur.sum = timer.cur.sum /\ timer'.cur.min = timer.cur.min
      BY <1>0, <3>1 DEF TaskTimer, TimerWindow
    <3> QED
      BY <1>1, <3>2 DEF Weighed
  <2>3. CASE \E o \in Overheads : TimerStart(o)
    <3>1. timer'.cur = timer.cur /\ timer'.rep = timer.rep
      BY <1>0, <2>3 DEF TimerStart, TaskTimer
    <3> QED
      BY <1>1, <3>1
  <2>4. CASE timer' = timer
    BY <1>1, <2>4
  <2> QED
    BY <2>1, <2>2, <2>3, <2>4 DEF Next, vars, TickStart, TickEnd, TickGap, SampleQueue, PeerGapLoad,
       PeerGapStore, Diagnose, SnapshotBegin, SnapshotHealth, SnapshotTask, tickState
<1> QED
  BY <1>2, <1>3 DEF Balanced, Weighed

(* One accessor more.                                                       *)
LEMMA ShowsMore ==
  ASSUME SnapInv, spos \in 1 .. 10, Shows, UNCHANGED <<health, timer>>, NEW e, snap' = Append(snap, e),
         e = IF spos <= 4 THEN HealthAccessor(spos) ELSE TaskAccessor(spos - 4)
  PROVE  Shows' /\ Len(snap') = spos
<1>1. PICK S : snap \in Seq(S)
  BY DEF SnapInv
<1>2. snap \in Seq(S \cup {e}) /\ e \in S \cup {e}
  BY <1>1
<1>3. Len(snap) = spos - 1
  BY DEF SnapInv
<1>4. /\ Len(snap') = Len(snap) + 1 /\ snap'[Len(snap) + 1] = e
      /\ \A i \in 1 .. Len(snap) : snap'[i] = snap[i]
  BY <1>2, AppendProperties
<1>5. /\ Len(snap') = spos /\ snap'[spos] = e /\ \A i \in 1 .. spos - 1 : snap'[i] = snap[i]
  BY <1>3, <1>4
<1>6. \A i : HealthAccessor(i)' = HealthAccessor(i) /\ TaskAccessor(i)' = TaskAccessor(i)
  BY DEF HealthAccessor, TaskAccessor, Reported
<1>7. ASSUME NEW i \in 1 .. spos
      PROVE  snap'[i] = IF i <= 4 THEN HealthAccessor(i) ELSE TaskAccessor(i - 4)
  <2>1. CASE i = spos
    BY <1>5, <2>1
  <2>2. CASE i # spos
    <3>1. i \in 1 .. spos - 1 /\ i \in 1 .. Len(snap)
      BY <1>3, <2>2
    <3>2. snap[i] = IF i <= 4 THEN HealthAccessor(i) ELSE TaskAccessor(i - 4)
      BY <3>1, SizeLemma DEF Shows
    <3> QED
      BY <1>5, <3>1, <3>2
  <2> QED
    BY <2>1, <2>2
<1> QED
  BY <1>5, <1>6, <1>7, SizeLemma DEF Shows

(* A snapshot that nothing disturbs shows what it reads, and is coherent    *)
(* when it is done.                                                         *)
LEMMA QuietStep ==
  ASSUME TypeOK, TickInv, SnapInv, WindowsInv, SnapshotInv, [Next]_vars
  PROVE  /\ spos' # 0 => gapReg'[1] = Idle
         /\ ~disturbed' => IF spos' = 0 THEN Complete' => CoherentTask' /\ CoherentHealth' ELSE Shows'
<1> DEFINE Quiet == ~disturbed => IF spos = 0 THEN Complete => CoherentTask /\ CoherentHealth ELSE Shows
<1>0. /\ spos # 0 => gapReg[1] = Idle
      /\ spos \in 0 .. 10 /\ timer \in TaskTimer
      /\ gapReg \in [Cores -> [w : Window, now : Nat \cup {-1}]] /\ 0 \in Cores /\ 1 \in Cores
  BY SizeLemma DEF TypeOK, SnapshotInv, Shows, TaskTimer, Cores
<1>1. Quiet
  BY DEF SnapshotInv, Shows
<1>2. SUFFICES (spos' # 0 => gapReg'[1] = Idle) /\ Quiet'
  OBVIOUS
<1>3. CASE SnapshotBegin
  <2>1. spos' = 1 /\ snap' = <<>> /\ gapReg' = gapReg /\ gapReg[1] = Idle
    BY <1>3 DEF SnapshotBegin
  <2>2. Shows'
    BY <2>1 DEF Shows
  <2> QED
    BY <2>1, <2>2
<1>4. CASE SnapshotHealth
  <2>1. /\ spos \in 1 .. 4 /\ spos' = spos + 1 /\ snap' = Append(snap, HealthAccessor(spos))
        /\ UNCHANGED <<health, timer, gapReg, disturbed>>
    BY <1>4, SizeLemma DEF SnapshotHealth, tickState
  <2>2. ASSUME ~disturbed PROVE Shows'
    <3>1. spos # 0 /\ spos \in 1 .. 10 /\ spos <= 4
      BY <2>1
    <3>2. Shows
      BY <1>1, <2>2, <3>1
    <3> QED
      BY <2>1, <3>1, <3>2, ShowsMore
  <2>3. spos' # 0 /\ spos # 0
    BY <2>1
  <2> QED
    BY <1>0, <2>1, <2>2, <2>3
<1>5. CASE SnapshotTask
  <2>1. /\ spos \in 5 .. 10 /\ snap' = Append(snap, TaskAccessor(spos - 4))
        /\ spos' = (spos + 1) % 11 /\ UNCHANGED <<health, timer, gapReg, disturbed>>
    <3>1. SnapshotSize + 1 = 11 /\ Len(HealthFields) + 1 = 5
      BY SizeLemma
    <3> QED
      BY <1>5, <3>1, SizeLemma DEF SnapshotTask, tickState
  <2>2. spos' = (IF spos = 10 THEN 0 ELSE spos + 1) /\ spos # 0
    <3>1. \A x \in 5 .. 10 : (x + 1) % 11 = IF x = 10 THEN 0 ELSE x + 1
      BY Z3
    <3> QED
      BY <2>1, <3>1
  <2>3. ASSUME ~disturbed PROVE Shows' /\ Len(snap') = spos
    <3>1. spos \in 1 .. 10 /\ ~(spos <= 4)
      BY <2>1
    <3>2. Shows
      BY <1>1, <2>2, <2>3
    <3> QED
      BY <2>1, <3>1, <3>2, ShowsMore
  <2>4. ASSUME ~disturbed, spos = 10 PROVE CoherentTask' /\ CoherentHealth'
    <3>1. /\ Reported(health)' = Reported(health) /\ Reported(timer)' = Reported(timer)
      BY <2>1 DEF Reported
    <3>2. /\ Reported(health) \in Window /\ InRange(Reported(health))
          /\ Reported(timer) \in TimerWindow /\ Balanced(Reported(timer))
          /\ Reported(timer).misses <= Reported(timer).n + 1
      BY ReportedLemma
    <3>3. (Shows /\ Len(snap) = 10)'
      BY <2>3, <2>4
    <3>4. (/\ Reported(health) \in Window /\ InRange(Reported(health))
           /\ Reported(timer) \in TimerWindow /\ Balanced(Reported(timer))
           /\ Reported(timer).misses <= Reported(timer).n + 1)'
      BY <3>1, <3>2
    <3> QED
      BY <3>3, <3>4, ShowsCoherent, PTL
  <2> QED
    BY <1>0, <2>1, <2>2, <2>3, <2>4
<1>6. ASSUME UNCHANGED <<spos, snap>>, ~disturbed' => ~disturbed, gapReg'[1] = gapReg[1] \/ spos = 0,
             \/ disturbed' \/ spos = 0
             \/ Reported(health)' = Reported(health) /\ Reported(timer)' = Reported(timer)
      PROVE  (spos' # 0 => gapReg'[1] = Idle) /\ Quiet'
  <2>1. Complete' = Complete /\ CoherentTask' = CoherentTask /\ CoherentHealth' = CoherentHealth
    BY <1>6 DEF Complete, CoherentTask, CoherentHealth
  <2>2. CASE spos = 0
    BY <1>1, <1>6, <2>1, <2>2
  <2>3. CASE spos # 0
    <3>1. ASSUME ~disturbed' PROVE Shows'
      <4>1. Shows
        BY <1>1, <1>6, <2>3, <3>1
      <4>2. Reported(health)' = Reported(health) /\ Reported(timer)' = Reported(timer)
        BY <1>6, <2>3, <3>1
      <4>3. \A i : HealthAccessor(i)' = HealthAccessor(i) /\ TaskAccessor(i)' = TaskAccessor(i)
        BY <4>2 DEF HealthAccessor, TaskAccessor
      <4> QED
        BY <1>6, <4>1, <4>3 DEF Shows
    <3> QED
      BY <1>0, <1>6, <2>3, <3>1
  <2> QED
    BY <2>2, <2>3
<1>7. CASE TickStart \/ (\E o \in Overheads : TimerStart(o))
  <2>1. UNCHANGED <<spos, snap, health, gapReg, disturbed>>
    BY <1>7 DEF TickStart, TimerStart, peerVars
  <2>2. timer'.cur = timer.cur /\ timer'.rep = timer.rep
    BY <1>0, <1>7 DEF TickStart, TimerStart, TaskTimer
  <2>3. Reported(health)' = Reported(health) /\ Reported(timer)' = Reported(timer)
    BY <2>1, <2>2 DEF Reported
  <2> QED
    BY <1>6, <2>1, <2>3
<1>8. CASE (\E d \in Durations : TimerStop(d)) \/ RecordMiss
  <2>1. UNCHANGED <<spos, snap, health, gapReg>> /\ (disturbed' \/ UNCHANGED <<timer, disturbed>>)
    BY <1>8 DEF TimerStop, RecordMiss, peerVars
  <2>2. disturbed' \/ (Reported(health)' = Reported(health) /\ Reported(timer)' = Reported(timer))
    BY <2>1 DEF Reported
  <2> QED
    BY <1>6, <2>1, <2>2
<1>9. CASE TickEnd \/ TickGap
  <2>1. /\ UNCHANGED <<spos, snap>> /\ (disturbed' \/ UNCHANGED <<health, timer, disturbed>>)
        /\ gapReg'[1] = gapReg[1]
    <3>1. \E r : gapReg' = [gapReg EXCEPT ![0] = r]
      BY <1>9 DEF TickEnd, TickGap, GapLoad, GapStore
    <3>2. gapReg'[1] = gapReg[1]
      BY <1>0, <3>1
    <3> QED
      BY <1>9, <3>2 DEF TickEnd, TickGap
  <2>2. disturbed' \/ (Reported(health)' = Reported(health) /\ Reported(timer)' = Reported(timer))
    BY <2>1 DEF Reported
  <2> QED
    BY <1>6, <2>1, <2>2
<1>10. CASE PeerGapLoad(PeerGap) \/ PeerGapStore \/ Diagnose
  <2>1. spos = 0
    <3>1. CASE PeerGapStore
      BY <1>0, <3>1 DEF PeerGapStore, GapStore
    <3> QED
      BY <1>10, <3>1 DEF PeerGapLoad, Diagnose
  <2>2. UNCHANGED <<spos, snap, disturbed>>
    BY <1>10 DEF PeerGapLoad, PeerGapStore, Diagnose
  <2> QED
    BY <1>6, <2>1, <2>2
<1>11. CASE (\E q \in Depths : SampleQueue(q)) \/ UNCHANGED vars
  <2>1. UNCHANGED <<spos, snap, health, timer, gapReg, disturbed>>
    BY <1>11 DEF SampleQueue, peerVars, vars
  <2>2. Reported(health)' = Reported(health) /\ Reported(timer)' = Reported(timer)
    BY <2>1 DEF Reported
  <2> QED
    BY <1>6, <2>1, <2>2
<1> QED
  BY <1>3, <1>4, <1>5, <1>7, <1>8, <1>9, <1>10, <1>11 DEF Next

(* The windows and the snapshots: the invariant of the measurements with    *)
(* what they hold.                                                          *)
LEMMA WindowsInvariant == Spec => [](TypeOK /\ TickInv /\ SnapInv /\ WindowsInv /\ SnapshotInv)
<1> DEFINE Inv == TypeOK /\ TickInv /\ SnapInv /\ WindowsInv /\ SnapshotInv
<1>1. Init => WindowsInv /\ SnapshotInv
  <2> SUFFICES ASSUME Init PROVE WindowsInv /\ SnapshotInv
    OBVIOUS
  <2>1. /\ timer.cur = EmptyTimerWindow /\ timer.rep = EmptyTimerWindow /\ pc = "idle"
        /\ samples = <<>> /\ curFrom = 0 /\ repFrom = 0 /\ Len(samples) = 0
        /\ queueMon.cur = EmptyWindow /\ queueMon.rep = EmptyWindow
        /\ health.cur = EmptyWindow /\ health.rep = EmptyWindow
        /\ gapReg = [c \in Cores |-> Idle] /\ spos = 0 /\ snap = <<>>
    BY DEF Init, TimerReset
  <2>2. /\ Summarises(timer.cur, samples, curFrom, Len(samples))
        /\ Summarises(timer.rep, samples, repFrom, curFrom)
    BY <2>1, SummaryEmpty
  <2>3. MissInv
    <3>1. Overruns \in Nat
      BY <2>1, OverrunType
    <3>2. timer.cur.n = 0 /\ timer.cur.misses = 0 /\ timer.rep.n = 0 /\ timer.rep.misses = 0
      BY <2>1 DEF EmptyTimerWindow
    <3>3. 0 <= 0 /\ 0 <= 0 + 1 /\ 0 + 0 + 0 <= Overruns
      BY <3>1
    <3> QED
      BY <2>1, <3>2, <3>3 DEF MissInv
  <2>4. WindowsInv
    BY <2>1, <2>2, <2>3, RangeEmpty DEF WindowsInv
  <2>5. Balanced(timer.cur) /\ Balanced(timer.rep)
    <3>1. Cumulative(EmptyTimerWindow.hist, kHistogramBuckets - 1) = EmptyTimerWindow.n
      <4>1. <<>> \in Seq(Durations) /\ Len(<<>>) = 0
        OBVIOUS
      <4>2. Summarises(EmptyTimerWindow, <<>>, 0, 0)
        BY SummaryEmpty
      <4> DEFINE s == <<>>
      <4>3. s \in Seq(Durations) /\ 0 <= Len(s) /\ Summarises(EmptyTimerWindow, s, 0, 0)
        BY <4>1, <4>2
      <4> HIDE DEF s
      <4> QED
        BY <4>3, HistogramTotal
    <3> QED
      BY <2>1, <3>1, WeighedEmpty DEF Balanced, Weighed
  <2>6. \A w \in {health.cur, health.rep} \cup {gapReg[c].w : c \in Cores} : InRange(w)
    BY <2>1, RangeEmpty
  <2>7. ~Complete
    BY <2>1, SizeLemma DEF Complete
  <2> QED
    BY <2>1, <2>4, <2>5, <2>6, <2>7 DEF SnapshotInv
<1>2. Inv /\ [Next]_vars /\ TypeOK' /\ TickInv' /\ SnapInv' => WindowsInv' /\ SnapshotInv'
  <2> SUFFICES ASSUME Inv, [Next]_vars, TypeOK' PROVE WindowsInv' /\ SnapshotInv'
    OBVIOUS
  <2>1. WindowsInv'
    BY WindowsStep
  <2>2. \A w \in {health'.cur, health'.rep} \cup {gapReg'[c].w : c \in Cores} : InRange(w)
    BY RangeStep
  <2>3. Balanced(timer'.cur) /\ Balanced(timer'.rep)
    BY <2>1, BalancedStep
  <2>4. /\ spos' # 0 => gapReg'[1] = Idle
        /\ ~disturbed' => IF spos' = 0 THEN Complete' => CoherentTask' /\ CoherentHealth' ELSE Shows'
    BY QuietStep
  <2> QED
    BY <2>1, <2>2, <2>3, <2>4 DEF SnapshotInv, Shows
<1>3. Spec => [](MetricsInv /\ SnapInv)
  BY MetricsStrong
<1>4. MetricsInv => TypeOK /\ TickInv
  BY DEF MetricsInv
<1> QED
  BY <1>1, <1>2, <1>3, <1>4, PTL DEF Spec

(* TaskTimer.h: every dispatch is measured in exactly one window, with its  *)
(* duration, its bucket and at most one miss, for any durations, window     *)
(* lengths and buckets; and no quotient of the metrics leaves its range.    *)
THEOREM MetricsWindowsExact == Spec => []WindowsExact
<1>1. TypeOK /\ WindowsInv /\ BusyWithinWall => WindowsExact
  <2> SUFFICES ASSUME TypeOK, WindowsInv, BusyWithinWall PROVE WindowsExact
    OBVIOUS
  <2>1. /\ timer.cur.n \in Nat /\ timer.rep.n \in Nat /\ timer.last \in Nat
        /\ timer.cur.misses \in Nat /\ timer.rep.misses \in Nat /\ Overruns \in Nat
    BY OverrunType DEF TypeOK, TimerWindow
  <2>2. /\ timer.rep.misses <= timer.rep.n /\ timer.cur.misses <= timer.cur.n + 1
        /\ timer.cur.misses + timer.rep.misses <= Overruns
    <3>1. MissInv
      BY DEF WindowsInv
    <3>2. CASE pc = "check"
      BY <2>1, <3>1, <3>2 DEF MissInv
    <3>3. CASE pc # "check"
      BY <2>1, <3>1, <3>3 DEF MissInv
    <3> QED
      BY <3>2, <3>3
  <2> QED
    BY <2>2 DEF WindowsExact, WindowsInv, InRange
<1>2. MetricsInv => BusyWithinWall
  BY DEF MetricsInv
<1> QED
  BY <1>1, <1>2, WindowsInvariant, MetricsInvariant, PTL

(* System.h, snapshot(): a snapshot that no measurement falls into is       *)
(* coherent, although it is read accessor by accessor.                      *)
THEOREM MetricsQuietSnapshotCoherent == Spec => []QuietSnapshotCoherent
<1>1. TypeOK /\ SnapInv /\ SnapshotInv => QuietSnapshotCoherent
  <2> SUFFICES ASSUME TypeOK, SnapInv, SnapshotInv, Complete, ~disturbed
               PROVE  CoherentTask /\ (~overlapped => CoherentHealth)
    BY DEF QuietSnapshotCoherent
  <2>1. Len(snap) = 10
    BY SizeLemma DEF Complete
  <2>2. CASE spos = 0
    BY <2>2 DEF SnapshotInv
  <2>3. CASE spos # 0
    <3>1. spos \in 0 .. 10 /\ Len(snap) = spos - 1
      BY <2>3, SizeLemma DEF TypeOK, SnapInv
    <3>2. \A x \in 0 .. 10 : 10 # x - 1
      OBVIOUS
    <3> QED
      BY <2>1, <3>1, <3>2, Zenon
  <2> QED
    BY <2>2, <2>3
<1> QED
  BY <1>1, WindowsInvariant, PTL

-----------------------------------------------------------------------------
(* Whole-number division.                                                   *)
LEMMA DivLemma ==
  ASSUME NEW a \in Nat, NEW z \in Nat \ {0}
  PROVE  LET q == a \div z IN q \in Nat /\ z * q \in Nat /\ z * q <= a /\ a < z * q + z
<1>1. a = z * (a \div z) + (a % z) /\ a % z \in 0 .. z - 1 /\ a \div z \in Int
  BY Z3
<1> DEFINE q == a \div z
<1>2. q \in Nat
  BY Z3
<1>3. a % z \in Nat /\ a % z < z
  BY <1>1
<1> DEFINE r == a % z
<1>4. a = z * q + r /\ r \in Nat /\ r < z /\ q \in Nat
  BY <1>1, <1>2, <1>3
<1> HIDE DEF q, r
<1>5. z * q \in Nat
  BY <1>4
<1>6. z * q <= a /\ a < z * q + z
  BY <1>4, <1>5
<1> QED
  BY <1>4, <1>5, <1>6 DEF q

(* q times z is below y times z + z, so q is at most y.                     *)
LEMMA QuotientBound ==
  ASSUME NEW z \in Nat \ {0}, NEW q \in Nat, NEW y \in Nat, z * q < z * y + z
  PROVE  q <= y
<1> SUFFICES ASSUME q >= y + 1 PROVE FALSE
  OBVIOUS
<1>1. q - (y + 1) \in Nat
  OBVIOUS
<1> DEFINE e == q - (y + 1)
<1>2. q = e + (y + 1) /\ e \in Nat
  BY <1>1
<1> HIDE DEF e
<1>3. z * q = z * e + (z * y + z) /\ z * e \in Nat /\ z * y \in Nat /\ z * q \in Nat
  BY <1>2
<1> QED
  BY <1>3

(* Longer durations are not in lower buckets.                               *)
LEMMA BucketGrows ==
  ASSUME NEW d \in Nat, NEW e \in Nat, d <= e
  PROVE  Bucket(d) <= Bucket(e)
<1> DEFINE z == kHistogramBucketWidthUs
           p == d \div z
           q == e \div z
<1>0. z \in Nat \ {0} /\ kHistogramBuckets - 1 \in Nat
  BY MetricsAssumption
<1>1. p \in Nat /\ z * p \in Nat /\ z * p <= d
  BY <1>0, DivLemma
<1>2. q \in Nat /\ z * q \in Nat /\ e < z * q + z
  BY <1>0, DivLemma
<1>3. Bucket(d) = (IF p < kHistogramBuckets - 1 THEN p ELSE kHistogramBuckets - 1)
  BY BucketLemma
<1>4. Bucket(e) = (IF q < kHistogramBuckets - 1 THEN q ELSE kHistogramBuckets - 1)
  BY BucketLemma
<1> HIDE DEF z, p, q
<1>5. z * p < z * q + z
  BY <1>0, <1>1, <1>2
<1>6. p <= q
  BY <1>0, <1>1, <1>2, <1>5, QuotientBound
<1> QED
  BY <1>0, <1>1, <1>2, <1>3, <1>4, <1>6

(* A part of y that is no more than the whole.                              *)
LEMMA PartLemma ==
  ASSUME NEW z \in Nat \ {0}, NEW x \in Nat, x <= z, NEW y \in Nat
  PROVE  (x * y) \div z \in 0 .. y
<1> DEFINE a == x * y
           q == a \div z
<1>1. a \in Nat /\ z * y \in Nat /\ a <= z * y
  <2>1. y * x <= y * z /\ x * y = y * x /\ z * y = y * z /\ y * x \in Nat /\ y * z \in Nat
    BY TimesGrows
  <2> QED
    BY <2>1
<1> HIDE DEF a
<1>2. q \in Nat /\ z * q \in Nat /\ z * q <= a
  BY <1>1, DivLemma
<1> HIDE DEF q
<1>3. z * q < z * y + z
  BY <1>1, <1>2
<1>4. q <= y
  BY <1>2, <1>3, QuotientBound
<1>5. q \in 0 .. y
  BY <1>2, <1>4
<1> QED
  BY <1>5 DEF q, a

(* The k/4 quantile of the places I of s.                                   *)
AtMost(s, I, d) == {i \in I : s[i] <= d}
Candidates(s, I, k) ==
  {d \in {s[i] : i \in I} : 4 * Cardinality(AtMost(s, I, d)) >= k * Cardinality(I)}

(* The bucket of the quantile is the first that reaches the rank.           *)
LEMMA QuantileBucket ==
  ASSUME NEW s \in Seq(Durations), NEW from \in Nat, NEW to \in Nat, from < to, to <= Len(s),
         NEW w, Summarises(w, s, from, to), NEW k \in 1 .. 3
  PROVE  LET q == Min(Candidates(s, from + 1 .. to, k))
             b == Bucket(q)
         IN /\ b \in Buckets /\ w.n \in Nat \ {0}
            /\ \A i \in Buckets : Cumulative(w.hist, i) \in Nat
            /\ 4 * Cumulative(w.hist, b) >= k * w.n
            /\ \A i \in Buckets : i < b => 4 * Cumulative(w.hist, i) < k * w.n
<1> DEFINE I == from + 1 .. to
           D == {s[i] : i \in I}
           C == Candidates(s, I, k)
           Low(b) == {i \in I : Bucket(s[i]) <= b}
           n == Cardinality(I)
<1>0. \A i \in I : s[i] \in Durations /\ s[i] \in Nat
  <2> SUFFICES ASSUME NEW i \in I PROVE s[i] \in Durations /\ s[i] \in Nat
    OBVIOUS
  <2>1. i \in 1 .. Len(s)
    BY LenProperties
  <2>2. s[i] \in Durations
    BY <2>1
  <2> QED
    BY <2>2, UnsetLemma
<1>1. IsFiniteSet(I) /\ n \in Nat \ {0} /\ w.n = n
  <2>1. from + 1 \in Int /\ to \in Int /\ ~(from + 1 > to)
    OBVIOUS
  <2>2. IsFiniteSet(I) /\ n = to - (from + 1) + 1
    BY <2>1, FS_Interval
  <2>3. w.n = n
    BY SummaryLemma
  <2> QED
    BY <2>2, <2>3
<1>2. D \in SUBSET Durations /\ D \in SUBSET Nat /\ D # {} /\ C \subseteq D
  <2>1. from + 1 \in I
    OBVIOUS
  <2> QED
    BY <1>0, <2>1 DEF Candidates
<1>3. \A b \in Buckets : Cumulative(w.hist, b) = Cardinality(Low(b))
  BY CumulativeLemma
<1>4. ASSUME NEW A \in SUBSET I, NEW E \in SUBSET A
      PROVE  /\ IsFiniteSet(A) /\ Cardinality(A) \in Nat
             /\ Cardinality(E) \in Nat /\ Cardinality(E) <= Cardinality(A)
  <2> HIDE DEF I
  <2>1. IsFiniteSet(A)
    BY <1>1, FS_Subset
  <2>2. IsFiniteSet(E) /\ Cardinality(E) <= Cardinality(A)
    BY <2>1, FS_Subset
  <2> QED
    BY <2>1, <2>2, FS_CardinalityType
<1>5. \A b \in Buckets : Cumulative(w.hist, b) \in Nat
  <2> SUFFICES ASSUME NEW b \in Buckets PROVE Cumulative(w.hist, b) \in Nat
    OBVIOUS
  <2>1. Low(b) \in SUBSET I
    OBVIOUS
  <2> HIDE DEF Low, I
  <2> QED
    BY <1>3, <1>4, <2>1
<1>6. C # {}
  <2> DEFINE m == Max(D)
  <2>1. m \in D /\ \A d \in D : m >= d
    <3> HIDE DEF D
    <3> QED
      BY <1>2, Extremes
  <2> HIDE DEF m
  <2>2. AtMost(s, I, m) = I
    <3>1. \A i \in I : s[i] <= m
      BY <1>0, <1>2, <2>1
    <3> QED
      BY <3>1 DEF AtMost
  <2>3. 4 * n >= k * n
    BY <1>1
  <2>4. m \in C
    BY <2>1, <2>2, <2>3 DEF Candidates
  <2> QED
    BY <2>4
<1> DEFINE q == Min(C)
           b == Bucket(q)
<1>7. q \in C /\ q \in D /\ q \in Nat /\ \A d \in C : q <= d
  <2>1. C \in SUBSET Durations
    BY <1>2
  <2> HIDE DEF C, D
  <2> QED
    BY <1>2, <1>6, <2>1, Extremes
<1> HIDE DEF q
<1>8. b \in Buckets /\ \A i \in Buckets : i \in Nat
  BY <1>7, BucketLemma, MetricsAssumption DEF Buckets
<1>9. 4 * Cumulative(w.hist, b) >= k * n
  <2>1. AtMost(s, I, q) \in SUBSET Low(b) /\ Low(b) \in SUBSET I
    BY <1>0, <1>7, BucketGrows DEF AtMost
  <2>2. 4 * Cardinality(AtMost(s, I, q)) >= k * n
    BY <1>7 DEF Candidates
  <2>3. Cumulative(w.hist, b) = Cardinality(Low(b))
    BY <1>3, <1>8
  <2> HIDE DEF I, Low, b, n, C
  <2>4. /\ Cardinality(AtMost(s, I, q)) <= Cardinality(Low(b)) /\ Cardinality(Low(b)) \in Nat
        /\ Cardinality(AtMost(s, I, q)) \in Nat
    BY <1>4, <2>1
  <2>5. k * n \in Nat
    BY <1>1
  <2> QED
    BY <2>2, <2>3, <2>4, <2>5
<1>10. ASSUME NEW i \in Buckets, i < b, 4 * Cumulative(w.hist, i) >= k * n PROVE FALSE
  <2>1. Low(i) \in SUBSET I /\ Cumulative(w.hist, i) = Cardinality(Low(i))
    BY <1>3
  <2>2. k * n > 0 /\ k * n \in Nat
    <3>1. k \in Nat \ {0} /\ n \in Nat \ {0}
      BY <1>1
    <3> HIDE DEF n
    <3> QED
      BY <3>1
  <2>3. Low(i) # {}
    <3> SUFFICES ASSUME Low(i) = {} PROVE FALSE
      OBVIOUS
    <3>1. Cardinality({}) = 0
      BY FS_EmptySet
    <3>2. 4 * 0 >= k * n
      BY <1>10, <2>1, <3>1
    <3> HIDE DEF n, Low
    <3> QED
      BY <2>2, <3>2
  <2> DEFINE E == {s[j] : j \in Low(i)}
             d == Max(E)
  <2>4. E \in SUBSET Durations /\ E # {} /\ E \in SUBSET D
    BY <1>0, <2>3
  <2>5. d \in E /\ \A x \in E : d >= x
    <3> HIDE DEF E
    <3> QED
      BY <2>4, Extremes
  <2> HIDE DEF d
  <2>6. PICK j \in Low(i) : d = s[j]
    BY <2>5
  <2>7. d \in Nat /\ d \in D /\ Bucket(d) <= i
    BY <1>0, <2>6
  <2>8. Low(i) \in SUBSET AtMost(s, I, d) /\ AtMost(s, I, d) \in SUBSET I
    <3>1. \A x \in Low(i) : s[x] <= d
      BY <1>0, <2>5, <2>7
    <3> QED
      BY <3>1 DEF AtMost
  <2>9. 4 * Cardinality(AtMost(s, I, d)) >= k * n
    <3> HIDE DEF I, Low, n
    <3>1. /\ Cardinality(Low(i)) <= Cardinality(AtMost(s, I, d)) /\ Cardinality(Low(i)) \in Nat
          /\ Cardinality(AtMost(s, I, d)) \in Nat
      BY <1>4, <2>8
    <3>2. 4 * Cardinality(Low(i)) >= k * n
      BY <1>10, <2>1
    <3> QED
      BY <2>2, <3>1, <3>2
  <2>10. d \in C
    BY <2>7, <2>9 DEF Candidates
  <2>11. q <= d
    BY <1>7, <2>10
  <2>12. b <= Bucket(d)
    BY <1>7, <2>7, <2>11, BucketGrows
  <2>13. Bucket(d) \in Nat
    BY <1>8, <2>7, BucketLemma
  <2> HIDE DEF b
  <2> QED
    BY <1>8, <1>10, <2>7, <2>12, <2>13
<1>11. ASSUME NEW i \in Buckets, i < b PROVE 4 * Cumulative(w.hist, i) < k * n
  <2>1. k * n \in Nat /\ Cumulative(w.hist, i) \in Nat
    <3>1. k \in Nat /\ n \in Nat
      BY <1>1
    <3> HIDE DEF n
    <3> QED
      BY <1>5, <3>1
  <2>2. ~(4 * Cumulative(w.hist, i) >= k * n)
    BY <1>10, <1>11
  <2> HIDE DEF n
  <2> QED
    BY <2>1, <2>2
<1> QED
  BY <1>1, <1>5, <1>8, <1>9, <1>11 DEF q

(* TaskTimer.h, percentileUs: the interpolation stays in the bucket b that  *)
(* reaches the rank.                                                        *)
LEMMA InterpolationLemma ==
  ASSUME NEW s \in Seq(Durations), NEW from \in Nat, NEW to \in Nat, from < to, to <= Len(s),
         NEW w \in TimerWindow, Summarises(w, s, from, to), NEW k \in 1 .. 3, NEW b \in Buckets,
         w.n \in Nat \ {0},
         \A i \in Buckets : Cumulative(w.hist, i) \in Nat,
         4 * Cumulative(w.hist, b) >= k * w.n,
         \A i \in Buckets : i < b => 4 * Cumulative(w.hist, i) < k * w.n
  PROVE  LET low    == b * kHistogramBucketWidthUs
             high   == IF b < kHistogramBuckets - 1 THEN low + kHistogramBucketWidthUs
                                                    ELSE Max({low, w.max})
             before == Cumulative(w.hist, b) - w.hist[b]
             p      == low + ((k * w.n - 4 * before) * (high - low)) \div (4 * w.hist[b])
         IN p >= low /\ p <= IF b < kHistogramBuckets - 1 THEN (b + 1) * kHistogramBucketWidthUs
                                                          ELSE w.max
<1> DEFINE z == kHistogramBucketWidthUs
           top == kHistogramBuckets - 1
           h == w.hist
           low == b * z
           high == IF b < top THEN low + z ELSE Max({low, w.max})
           before == Cumulative(h, b) - h[b]
           x == k * w.n - 4 * before
<1>0. /\ z \in Nat \ {0} /\ top \in Nat /\ b \in 0 .. top /\ Buckets = 0 .. top
      /\ h \in [Buckets -> Nat] /\ w.max \in Nat /\ k * w.n \in Nat /\ k * w.n > 0
  <2>1. k \in Nat \ {0} /\ w.n \in Nat \ {0}
    OBVIOUS
  <2>2. k * w.n \in Nat /\ k * w.n > 0
    BY <2>1
  <2>3. z \in Nat \ {0} /\ top \in Nat /\ Buckets = 0 .. top
    BY MetricsAssumption DEF Buckets
  <2>4. h \in [Buckets -> Nat] /\ w.max \in Nat
    BY DEF TimerWindow
  <2> HIDE DEF z, top
  <2> QED
    BY <2>2, <2>3, <2>4
<1>1. low \in Nat /\ (b + 1) * z = low + z
  <2>1. b \in Nat /\ z \in Nat
    BY <1>0
  <2> HIDE DEF z
  <2> QED
    BY <2>1
<1> HIDE DEF z, top, h, low
<1>2. before \in Nat /\ 4 * before < k * w.n
  <2>0. Numbers(h, -1, b)
    <3>1. ASSUME NEW i \in -1 + 1 .. b PROVE h[i] \in Int
      <4>1. i \in Buckets
        <5>1. b \in 0 .. top /\ Buckets = 0 .. top /\ top \in Nat
          BY <1>0
        <5> QED
          BY <5>1
      <4>2. h[i] \in Nat
        BY <1>0, <4>1
      <4> QED
        BY <4>2
    <3>2. -1 \in Int /\ b \in Int /\ -1 <= b
      BY <1>0
    <3> QED
      BY <3>1, <3>2 DEF Numbers
  <2> DEFINE a == b - 1
  <2>1. a \in Int /\ -1 <= a /\ a + 1 = b /\ Numbers(h, -1, a + 1)
    BY <1>0, <2>0
  <2> HIDE DEF a
  <2>2. SumBetween(h, -1, a + 1) = SumBetween(h, -1, a) + h[a + 1] /\ SumBetween(h, -1, a) \in Int
    BY <2>1, SumNext
  <2>3. Cumulative(h, b) = SumBetween(h, -1, a) + h[b]
    BY <2>1, <2>2 DEF Cumulative
  <2>4. before = SumBetween(h, -1, a)
    <3>1. h[b] \in Nat
      BY <1>0
    <3> QED
      BY <2>2, <2>3, <3>1
  <2>5. CASE b = 0
    <3>1. a = -1
      BY <2>5 DEF a
    <3>2. SumBetween(h, -1, -1) = 0
      BY SumEmpty
    <3>3. before = 0
      BY <2>4, <3>1, <3>2
    <3> HIDE DEF before
    <3> QED
      BY <1>0, <3>3
  <2>6. CASE b # 0
    <3>1. a \in Buckets /\ a < b
      BY <1>0, <2>6 DEF a
    <3>2. before = Cumulative(h, a)
      BY <2>4 DEF Cumulative
    <3>3. Cumulative(h, a) \in Nat /\ 4 * Cumulative(h, a) < k * w.n
      BY <3>1 DEF h
    <3> HIDE DEF before
    <3> QED
      BY <3>2, <3>3
  <2> QED
    BY <2>5, <2>6
<1>3. x \in Nat \ {0} /\ h[b] \in Nat \ {0} /\ 4 * h[b] \in Nat \ {0} /\ x <= 4 * h[b]
  <2>1. /\ h[b] \in Nat /\ Cumulative(h, b) \in Nat /\ 4 * Cumulative(h, b) >= k * w.n
        /\ Cumulative(h, b) = before + h[b]
    <3>1. h[b] \in Nat
      BY <1>0
    <3>2. Cumulative(h, b) \in Nat /\ 4 * Cumulative(h, b) >= k * w.n
      BY DEF h
    <3> QED
      BY <3>1, <3>2
  <2> DEFINE r == k * w.n
             g == h[b]
             c == Cumulative(h, b)
  <2>2. /\ r \in Nat /\ r > 0 /\ 4 * c >= r /\ 4 * before < r /\ x = r - 4 * before
        /\ g \in Nat /\ c = before + g /\ before \in Nat
    BY <1>0, <1>2, <2>1
  <2> HIDE DEF r, before, x, g, c
  <2>3. x \in Nat \ {0}
    BY <2>2
  <2>4. x <= 4 * g
    BY <2>2
  <2>5. g \in Nat \ {0} /\ 4 * g \in Nat \ {0}
    BY <2>2, <2>3, <2>4
  <2> QED
    BY <2>3, <2>4, <2>5 DEF g
<1>4. high - low \in Nat /\ high = IF b < top THEN (b + 1) * z ELSE w.max
  <2>1. CASE b < top
    <3>1. high = low + z
      BY <2>1
    <3> QED
      BY <1>0, <1>1, <2>1, <3>1
  <2>2. CASE ~(b < top)
    <3>1. b = top
      BY <1>0, <2>2
    <3>2. h[b] = Cardinality(InBucket(s, from, to, b))
      BY SummaryLemma DEF h
    <3>3. InBucket(s, from, to, b) # {}
      BY <1>3, <3>2, FS_EmptySet
    <3>4. PICK i \in from + 1 .. to : Bucket(s[i]) = b
      BY <3>3 DEF InBucket
    <3>5. i \in 1 .. Len(s)
      BY <3>4, LenProperties
    <3>6. \A j \in from + 1 .. to : s[j] \in Durations
      BY LenProperties
    <3>7. s[i] \in Durations /\ s[i] \in Nat
      BY <3>5, UnsetLemma
    <3> DEFINE q == s[i] \div z
    <3>8. q \in Nat /\ z * q \in Nat /\ z * q <= s[i]
      BY <1>0, <3>7, DivLemma
    <3>9. Bucket(s[i]) = IF q < top THEN q ELSE top
      BY <3>7, BucketLemma DEF z, top
    <3> HIDE DEF q
    <3>10. q >= b
      BY <1>0, <3>1, <3>4, <3>8, <3>9
    <3>11. low <= s[i]
      <4>1. z * b <= z * q /\ z * b \in Nat /\ low = z * b
        BY <1>0, <3>8, <3>10, TimesGrows DEF low
      <4> QED
        BY <3>7, <3>8, <4>1
    <3>12. w.max >= s[i]
      <4> DEFINE D == {s[j] : j \in from + 1 .. to}
      <4>1. D \in SUBSET Durations /\ D # {} /\ s[i] \in D
        BY <3>4, <3>6
      <4>2. w.max = Max(D)
        BY <4>1, SummaryLemma
      <4> HIDE DEF D
      <4> QED
        BY <4>1, <4>2, Extremes
    <3> DEFINE m == w.max
    <3>13. m \in Nat /\ low \in Nat /\ low <= m
      <4> DEFINE e == s[i]
      <4>1. m \in Nat /\ low \in Nat /\ e \in Nat /\ low <= e /\ m >= e
        BY <1>0, <1>1, <3>7, <3>11, <3>12
      <4> HIDE DEF m, e
      <4> QED
        BY <4>1
    <3>14. Max({low, m}) = m
      <4> HIDE DEF m
      <4>1. {low, m} \in SUBSET Nat /\ m \in {low, m} /\ \A v \in {low, m} : m >= v
        BY <3>13
      <4> QED
        BY <4>1, MaxIs
    <3>15. high = m
      BY <2>2, <3>14
    <3> HIDE DEF m, high
    <3>16. high - low \in Nat
      BY <3>13, <3>15
    <3> QED
      BY <2>2, <3>15, <3>16 DEF m
  <2> QED
    BY <2>1, <2>2
<1> DEFINE y == high - low
           f == (x * y) \div (4 * h[b])
<1>5. f \in 0 .. y
  <2> DEFINE t == 4 * h[b]
  <2>1. t \in Nat \ {0} /\ x \in Nat /\ x <= t /\ y \in Nat
    BY <1>3, <1>4
  <2> HIDE DEF t, x, y
  <2>2. (x * y) \div t \in 0 .. y
    BY <2>1, PartLemma
  <2> QED
    BY <2>2 DEF t
<1> HIDE DEF f, high
<1>6. low + f >= low /\ low + f <= high
  BY <1>1, <1>4, <1>5
<1> QED
  BY <1>4, <1>6 DEF f, high, low, z, top, h

(* TaskTimer.h, percentileUs: for any durations, buckets and window, the    *)
(* interpolated percentile lies in the bucket that holds the exact one.     *)
THEOREM MetricsPercentileInBucket == Spec => []PercentileInBucket
<1>1. TypeOK /\ WindowsInv => PercentileInBucket
  <2> SUFFICES ASSUME TypeOK, WindowsInv, NEW k \in 1 .. 3, Reported(timer).n > 0
               PROVE  LET b == Bucket(ExactQuantile(k))
                      IN /\ PercentileUs(k) >= b * kHistogramBucketWidthUs
                         /\ PercentileUs(k) <= IF b < kHistogramBuckets - 1
                                               THEN (b + 1) * kHistogramBucketWidthUs
                                               ELSE Reported(timer).max
    BY DEF PercentileInBucket
  <2> DEFINE w == Reported(timer)
             from == IF timer.rep.n > 0 THEN repFrom ELSE curFrom
             to == IF timer.rep.n > 0 THEN curFrom ELSE Len(samples)
             I == from + 1 .. to
             q == Min(Candidates(samples, I, k))
             b == Bucket(q)
  <2>1. /\ samples \in Seq(Durations) /\ from \in Nat /\ to \in Nat /\ from <= to /\ to <= Len(samples)
        /\ w \in TimerWindow /\ Summarises(w, samples, from, to)
    <3>1. /\ samples \in Seq(Durations) /\ curFrom \in Nat /\ repFrom \in Nat
          /\ repFrom <= curFrom /\ curFrom <= Len(samples) /\ Len(samples) \in Nat
          /\ timer.cur \in TimerWindow /\ timer.rep \in TimerWindow
      BY LenProperties DEF TypeOK
    <3>2. /\ Summarises(timer.cur, samples, curFrom, Len(samples))
          /\ Summarises(timer.rep, samples, repFrom, curFrom)
      BY DEF WindowsInv
    <3>3. CASE timer.rep.n > 0
      BY <3>1, <3>2, <3>3 DEF Reported
    <3>4. CASE ~(timer.rep.n > 0)
      BY <3>1, <3>2, <3>4 DEF Reported
    <3> QED
      BY <3>3, <3>4
  <2>2. ExactQuantile(k) = q
    <3>1. CASE timer.rep.n > 0
      BY <3>1 DEF ExactQuantile, Candidates, AtMost
    <3>2. CASE ~(timer.rep.n > 0)
      BY <3>2 DEF ExactQuantile, Candidates, AtMost
    <3> QED
      BY <3>1, <3>2
  <2> HIDE DEF from, to
  <2>3. w.n \in Nat /\ w.n > 0 /\ from < to
    <3>1. w.n = Cardinality(I)
      BY <2>1, SummaryLemma
    <3>2. from + 1 \in Int /\ to \in Int
      BY <2>1
    <3>3. Cardinality(I) = IF from + 1 > to THEN 0 ELSE to - (from + 1) + 1
      BY <3>2, FS_Interval
    <3>4. w.n > 0
      OBVIOUS
    <3>5. w.n \in Nat
      BY <2>1 DEF TimerWindow
    <3> HIDE DEF w, I
    <3> QED
      BY <2>1, <3>1, <3>3, <3>4, <3>5
  <2>4. /\ b \in Buckets /\ w.n \in Nat \ {0}
        /\ \A i \in Buckets : Cumulative(w.hist, i) \in Nat
        /\ 4 * Cumulative(w.hist, b) >= k * w.n
        /\ \A i \in Buckets : i < b => 4 * Cumulative(w.hist, i) < k * w.n
    <3> HIDE DEF w
    <3> QED
      BY <2>1, <2>3, QuantileBucket
  <2> HIDE DEF q
  <2> DEFINE low == b * kHistogramBucketWidthUs
             high == IF b < kHistogramBuckets - 1 THEN low + kHistogramBucketWidthUs
                                                  ELSE Max({low, w.max})
             before == Cumulative(w.hist, b) - w.hist[b]
             p == low + ((k * w.n - 4 * before) * (high - low)) \div (4 * w.hist[b])
  <2>5. p >= low /\ p <= IF b < kHistogramBuckets - 1 THEN (b + 1) * kHistogramBucketWidthUs
                                                      ELSE w.max
    <3> HIDE DEF w, b
    <3> QED
      BY <2>1, <2>3, <2>4, InterpolationLemma
  <2>6. Min({i \in Buckets : 4 * Cumulative(w.hist, i) >= k * w.n}) = b
    <3> DEFINE S == {i \in Buckets : 4 * Cumulative(w.hist, i) >= k * w.n}
    <3>1. b \in S /\ S \in SUBSET Nat /\ k * w.n \in Nat
      <4>1. k \in Nat /\ w.n \in Nat
        BY <2>4
      <4>2. k * w.n \in Nat
        BY <4>1
      <4> QED
        BY <2>4, <4>2, MetricsAssumption DEF Buckets
    <3>2. \A i \in S : b <= i
      <4> SUFFICES ASSUME NEW i \in S, i < b PROVE FALSE
        BY <3>1
      <4>1. 4 * Cumulative(w.hist, i) < k * w.n /\ 4 * Cumulative(w.hist, i) >= k * w.n
            /\ Cumulative(w.hist, i) \in Nat
        BY <2>4
      <4> QED
        BY <3>1, <4>1
    <3> HIDE DEF S, b
    <3>3. Min(S) = b
      BY <3>1, <3>2, MinIs
    <3> QED
      BY <3>3 DEF S
  <2>7. PercentileUs(k) = p
    <3>1. ~(w.n = 0 \/ k <= 0) /\ ~(k >= 4)
      BY <2>3
    <3>2. PercentileUs(k) = LET c == Min({i \in Buckets : 4 * Cumulative(w.hist, i) >= k * w.n})
                                l == c * kHistogramBucketWidthUs
                                u == IF c < kHistogramBuckets - 1 THEN l + kHistogramBucketWidthUs
                                                                  ELSE Max({l, w.max})
                                f == Cumulative(w.hist, c) - w.hist[c]
                            IN l + ((k * w.n - 4 * f) * (u - l)) \div (4 * w.hist[c])
      BY <3>1 DEF PercentileUs
    <3> HIDE DEF w, b
    <3> QED
      BY <2>6, <3>2
  <2> QED
    BY <2>2, <2>5, <2>7
<1> QED
  BY <1>1, WindowsInvariant, PTL
=============================================================================
