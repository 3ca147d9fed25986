---------------------------- MODULE SchedulerTick ----------------------------
(***************************************************************************)
(* kernel/System.h tick(coreId, systemTimeMicros) on the core that also    *)
(* dispatches the background ring: Phase 1 walks the priority-sorted       *)
(* scheduled tasks, Phase 2 the ring of background tasks.  One step is one *)
(* iteration of a phase's loop, so a tick is the steps from TickStart to   *)
(* TickEnd.  What a task does is abstract: it takes some time, chosen from *)
(* TaskTimes (a background task: at most what it declares, unless          *)
(* Overstay).  Times are in microseconds, unsigned modulo TimeWidth.       *)
(***************************************************************************)
EXTENDS Naturals, Sequences

CONSTANTS Scheduled,     \* slot |-> [period, managed, wcet], priority order
          Ring,          \* background slot |-> maxBudgetUs
          ControlBudget, \* CfgControlBudgetUs
          TaskTimes,     \* durations a scheduled task may take
          Overstay,      \* may background tasks exceed maxBudgetUs?
          Gaps,          \* idle time between two ticks
          StartTimes,    \* system time of the first tick
          TimeWidth,     \* SputterMicros is modulo this (2^64 in the code)
          MaxTime,       \* bound: no tick starts after this time
          AgeCap         \* bound: ages are told apart up to this one

Slot == DOMAIN Scheduled
BgSlot == DOMAIN Ring
ASSUME ScheduledAssumption ==
  Scheduled \in Seq([period : Nat, managed : BOOLEAN, wcet : Nat])
ASSUME RingAssumption == Ring \in Seq(Nat) /\ Ring # <<>>
ASSUME AgeCapAssumption == AgeCap \in Nat /\ \A s \in Slot : Scheduled[s].period <= AgeCap
ASSUME TimesAssumption ==
  /\ TaskTimes \subseteq Nat /\ Gaps \subseteq Nat /\ StartTimes \subseteq 0 .. TimeWidth - 1
  /\ ControlBudget \in Nat /\ MaxTime \in Nat /\ TimeWidth \in Nat \ {0} /\ Overstay \in BOOLEAN

VARIABLES now,            \* systemTimeMicros of this or the next tick
          s_lastTime, s_lastDispatch, s_bgRoundRobin,
          phase, t, i,    \* where the tick is, and the two loop counters
          busyAccum, gapBudget, used,
          misses,         \* deadline misses of this tick, per slot
          rollover,       \* TIMER_ROLLOVER was logged in this tick
          ran, bgRan,     \* slots dispatched by this tick
          age             \* real time since each slot's last dispatch (history)

vars == <<now, s_lastTime, s_lastDispatch, s_bgRoundRobin, phase, t, i,
          busyAccum, gapBudget, used, misses, rollover, ran, bgRan, age>>

CappedAge(a) == IF a < AgeCap THEN a ELSE AgeCap

Minus(a, b) == (a + TimeWidth - b) % TimeWidth

TypeOK ==
  /\ now \in 0 .. TimeWidth - 1 /\ s_lastTime \in 0 .. TimeWidth - 1
  /\ s_lastDispatch \in [Slot -> 0 .. TimeWidth - 1]
  /\ s_bgRoundRobin \in BgSlot
  /\ phase \in {"idle", "scheduled", "background", "end"}
  /\ t \in 1 .. Len(Scheduled) + 1 /\ i \in 0 .. Len(Ring)
  /\ busyAccum \in Nat /\ gapBudget \in 0 .. ControlBudget /\ used \in Nat
  /\ misses \subseteq Slot /\ ran \subseteq Slot /\ bgRan \subseteq BgSlot
  /\ rollover \in BOOLEAN
  /\ age \in [Slot -> 0 .. AgeCap]

Init ==
  /\ now \in StartTimes /\ s_lastTime = 0
  /\ s_lastDispatch = [s \in Slot |-> 0]
  /\ s_bgRoundRobin = 1
  /\ phase = "idle" /\ t = 1 /\ i = 0
  /\ busyAccum = 0 /\ gapBudget = 0 /\ used = 0
  /\ misses = {} /\ rollover = FALSE /\ ran = {} /\ bgRan = {}
  /\ age = [s \in Slot |-> AgeCap]
-----------------------------------------------------------------------------
TickStart ==
  /\ phase = "idle"
  /\ rollover' = (now < s_lastTime /\ s_lastTime # 0)
  /\ s_lastTime' = now
  /\ phase' = "scheduled" /\ t' = 1 /\ i' = 0 /\ busyAccum' = 0 /\ used' = 0
  /\ misses' = {} /\ ran' = {} /\ bgRan' = {}
  /\ UNCHANGED <<now, s_lastDispatch, s_bgRoundRobin, gapBudget, age>>

(* Is the slot skipped, its kernel-managed period not having elapsed?       *)
KernelManaged(s) == Scheduled[s].managed /\ Scheduled[s].period > 0

TooEarlyOffByOne(s) ==
  /\ KernelManaged(s)
  /\ s_lastDispatch[s] # 0
  /\ Minus(now, s_lastDispatch[s]) + 1 < Scheduled[s].period

TooEarlyAtPeriod(s) ==
  /\ KernelManaged(s)
  /\ s_lastDispatch[s] # 0
  /\ Minus(now, s_lastDispatch[s]) <= Scheduled[s].period

TooEarly(s) ==
  /\ KernelManaged(s)
  /\ s_lastDispatch[s] # 0
  /\ Minus(now, s_lastDispatch[s]) < Scheduled[s].period

SkipTask ==
  /\ phase = "scheduled" /\ t \in Slot /\ TooEarly(t)
  /\ t' = t + 1
  /\ UNCHANGED <<now, s_lastTime, s_lastDispatch, s_bgRoundRobin, phase, i,
                 busyAccum, gapBudget, used, misses, rollover, ran, bgRan, age>>

DispatchTask(d) ==
  /\ phase = "scheduled" /\ t \in Slot /\ ~TooEarly(t)
  /\ s_lastDispatch' = IF KernelManaged(t) THEN [s_lastDispatch EXCEPT ![t] = now]
                                           ELSE s_lastDispatch
  /\ busyAccum' = busyAccum + d
  /\ misses' = IF Scheduled[t].wcet > 0 /\ d > Scheduled[t].wcet THEN misses \cup {t}
                                                                 ELSE misses
  /\ ran' = ran \cup {t}
  /\ age' = [age EXCEPT ![t] = 0]
  /\ t' = t + 1
  /\ UNCHANGED <<now, s_lastTime, s_bgRoundRobin, phase, i, gapBudget, used, rollover, bgRan>>

(* Phase 2 starts with what Phase 1 left of the control budget.             *)
BackgroundStart ==
  /\ phase = "scheduled" /\ t \notin Slot
  /\ gapBudget' = IF ControlBudget > busyAccum THEN ControlBudget - busyAccum ELSE 0
  /\ phase' = "background"
  /\ UNCHANGED <<now, s_lastTime, s_lastDispatch, s_bgRoundRobin, t, i, busyAccum,
                 used, misses, rollover, ran, bgRan, age>>

(* The index advances before the budget is looked at.                       *)
NextBackground(b) == IF b = Len(Ring) THEN 1 ELSE b + 1

OverBudgetUnused(b) == i > 0 /\ Ring[b] > gapBudget
OverBudget(b) == i > 0 /\ used + Ring[b] > gapBudget

DispatchBackground(d) ==
  /\ phase = "background" /\ i < Len(Ring) /\ ~OverBudget(s_bgRoundRobin)
  /\ d <= Ring[s_bgRoundRobin] \/ Overstay
  /\ used' = used + d
  /\ bgRan' = bgRan \cup {s_bgRoundRobin}
  /\ s_bgRoundRobin' = NextBackground(s_bgRoundRobin)
  /\ i' = i + 1
  /\ UNCHANGED <<now, s_lastTime, s_lastDispatch, phase, t, busyAccum, gapBudget,
                 misses, rollover, ran, age>>

BackgroundBreak ==
  /\ phase = "background" /\ i < Len(Ring) /\ OverBudget(s_bgRoundRobin)
  /\ s_bgRoundRobin' = NextBackground(s_bgRoundRobin)
  /\ busyAccum' = busyAccum + used
  /\ phase' = "end"
  /\ UNCHANGED <<now, s_lastTime, s_lastDispatch, t, i, gapBudget, used, misses,
                 rollover, ran, bgRan, age>>

BackgroundDone ==
  /\ phase = "background" /\ i = Len(Ring)
  /\ busyAccum' = busyAccum + used
  /\ phase' = "end"
  /\ UNCHANGED <<now, s_lastTime, s_lastDispatch, s_bgRoundRobin, t, i, gapBudget,
                 used, misses, rollover, ran, bgRan, age>>

(* The tick returns; the loop in run() reads the clock for the next one,    *)
(* which shows at least the time the tasks took.                            *)
TickEnd(g) ==
  /\ phase = "end"
  /\ now + busyAccum + g <= MaxTime
  /\ now' = (now + busyAccum + g) % TimeWidth
  /\ age' = [s \in Slot |-> CappedAge(age[s] + busyAccum + g)]
  /\ phase' = "idle"
  /\ UNCHANGED <<s_lastTime, s_lastDispatch, s_bgRoundRobin, t, i, busyAccum,
                 gapBudget, used, misses, rollover, ran, bgRan>>

Next ==
  \/ TickStart \/ SkipTask \/ BackgroundStart \/ BackgroundBreak \/ BackgroundDone
  \/ \E d \in TaskTimes : DispatchTask(d) \/ DispatchBackground(d)
  \/ \E g \in Gaps : TickEnd(g)

Spec == Init /\ [][Next]_vars

(* The core that runs the loop keeps executing it.                          *)
FairSpec == Spec /\ WF_vars(Next)
-----------------------------------------------------------------------------
(* A kernel-managed task is never dispatched before its period has really   *)
(* elapsed since the last time it was: the stored time and the modular      *)
(* subtraction lose no dispatch.                                            *)
PeriodRespected ==
  [][\A s \in Slot : s \in ran' /\ s \notin ran /\ KernelManaged(s) =>
       age[s] >= Scheduled[s].period]_vars

(* A tick leaves no task overdue: every slot ran in it, or its period has   *)
(* not elapsed since it last did.                                           *)
NoneOverdue ==
  phase = "end" => \A s \in Slot :
    s \in ran \/ (KernelManaged(s) /\ age[s] < Scheduled[s].period)

(* If background tasks keep to their declared budgets, the ring takes no    *)
(* more than the gap Phase 1 left, or than its first task alone; and        *)
(* however loaded the tick was, some background task ran in it.             *)
GapRespected ==
  /\ ~Overstay /\ used > gapBudget => i = 1
  /\ phase = "end" => bgRan # {}
-----------------------------------------------------------------------------
(* What makes the properties above inductive.                               *)

(* Before its first background task a tick has used nothing of the gap, and *)
(* it ends only after one.                                                  *)
GapInv ==
  /\ i = 0 => used = 0
  /\ i > 0 => bgRan # {}
  /\ phase = "scheduled" => i = 0
  /\ phase = "end" => i > 0
  /\ ~Overstay /\ used > gapBudget => i = 1

(* The stored time of a managed slot tells how long ago it really ran, if   *)
(* the clock never wrapped.                                                 *)
AgeInv ==
  \A s \in Slot : KernelManaged(s) /\ s_lastDispatch[s] # 0 =>
    s_lastDispatch[s] <= now /\ age[s] = CappedAge(now - s_lastDispatch[s])

(* Phase 1 leaves behind it only slots that ran or were not yet due.        *)
VisitedInv ==
  /\ phase \in {"background", "end"} => t = Len(Scheduled) + 1
  /\ phase # "idle" => \A s \in Slot : s < t =>
       s \in ran \/ (KernelManaged(s) /\ age[s] < Scheduled[s].period)

(* A stored time of zero means never dispatched, if the clock did not start *)
(* at zero.                                                                 *)
NeverInv ==
  now > 0 /\ \A s \in Slot : KernelManaged(s) /\ s_lastDispatch[s] = 0 => age[s] = AgeCap

IInv == TypeOK /\ GapInv /\ AgeInv /\ VisitedInv
-----------------------------------------------------------------------------
(* Statements of the documents that the code does not keep.  Background     *)
(* slot Len(Ring) is the one build() gives to BackgroundDiagnosticsTask.    *)

(* SchedulingDesign.md: BackgroundDiagnosticsTask runs every tick           *)
(* regardless of how saturated Phase 1 is.                                  *)
DiagnosticsEveryTick == phase = "end" => Len(Ring) \in bgRan

(* SchedulingDesign.md: the index advances each tick, ensuring all tasks    *)
(* receive equal priority distribution: none is passed over for ever.       *)
RingIsFair == \A b \in BgSlot : []<>(b \in bgRan)
=============================================================================
