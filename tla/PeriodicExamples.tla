-------------------------- MODULE PeriodicExamples --------------------------
(***************************************************************************)
(* Three of exampleProjects/, whose tasks gate themselves by the system     *)
(* time: heartbeat, multirate and lifecycle.  Each main() fills the builder *)
(* and calls System::run() on its cores, whose flat loop ticks the tasks    *)
(* until a stop condition fires; what build() and run() do in detail is in  *)
(* SystemBuilder and KernelRun.  Wall-clock time is measured from the start *)
(* of main(), the system time from build().                                 *)
(***************************************************************************)
EXTENDS Integers, Sequences, Sums

CONSTANTS
    PeriodOf,          \* task |-> its kPeriodUs
    kNumPulses, kNumReports, kDrainMs, kRunMs,  \* of the main()s
    kReadings,         \* a simulated reading is below this (100)
    kLogInterval,      \* of IdleCounterTask (500)
    BuildTimes,        \* wall-clock time main() takes to reach build()
    TickTimes          \* time between two ticks of a core

ASSUME PeriodicAssumption ==
    /\ {"pulse", "fast", "slow", "worker", "monitor"} \subseteq DOMAIN PeriodOf
    /\ \A t \in DOMAIN PeriodOf : PeriodOf[t] \in Nat \ {0}
    /\ kNumPulses \in Nat \ {0} /\ kReadings \in Nat \ {0} /\ kLogInterval \in Nat \ {0}
    /\ BuildTimes \subseteq Nat /\ TickTimes \subseteq Nat

(* main(): the tasks in dispatch order per core, the background tasks, how  *)
(* long the program runs and whether that is counted from main() or from    *)
(* the first evaluation of the stop condition.                              *)
HeartbeatMain ==
    [tasks |-> [c \in {0} |-> <<"pulse">>], background |-> {},
     runTime |-> (kNumPulses - 1) * PeriodOf["pulse"] + kDrainMs.heartbeat, fromMain |-> TRUE]

MultirateMain ==
    [tasks |-> [c \in {0} |-> <<"fast", "slow">>], background |-> {"idle"},
     runTime |-> kNumReports * PeriodOf["slow"] + kDrainMs.multirate, fromMain |-> TRUE]

LifecycleMain ==
    [tasks |-> [c \in {0, 1} |-> IF c = 0 THEN <<"worker">> ELSE <<"monitor">>],
     background |-> {}, runTime |-> kRunMs, fromMain |-> FALSE]

Task == DOMAIN PeriodOf
NoEnd == -1
AtLoop == 0  \* loop[c]: about to evaluate the stop conditions;
Out == -1    \* has left the loop; otherwise the task of the tick that is next

VARIABLES
    example,        \* the program that runs: one of the records above
    wall, buildAt,  \* now, and when build() set the clock source
    endAt,          \* the stop condition's deadline
    loopAt,         \* core |-> when it last evaluated the stop conditions
    loop,           \* core |-> where it is in the loop of run()
    m_lastTick, m_count,           \* of each task (m_lastPulse, m_pulseCount, ...)
    m_accumulator, reports,        \* FastSampleTask; what SlowReportTask logged
    m_dispatchCount, m_lastLogCount, \* IdleCounterTask
    exState, stateReports          \* the kernel's state; what MonitorTask logged

taskVars == <<m_lastTick, m_count, m_accumulator, reports, stateReports>>
idleVars == <<m_dispatchCount, m_lastLogCount>>
periodicVars == <<example, wall, buildAt, endAt, loopAt, loop, taskVars, idleVars, exState>>

Cores == DOMAIN example.tasks
systemTime == wall - buildAt

PeriodicInit ==
    /\ example \in {HeartbeatMain, MultirateMain, LifecycleMain}
    /\ buildAt \in BuildTimes
    /\ wall = buildAt
    /\ endAt = IF example.fromMain THEN example.runTime ELSE NoEnd
    /\ loop = [c \in Cores |-> AtLoop] /\ loopAt = [c \in Cores |-> NoEnd]
    /\ m_lastTick = [t \in Task |-> 0] /\ m_count = [t \in Task |-> 0]
    /\ m_accumulator = 0 /\ reports = <<>>
    /\ m_dispatchCount = 0 /\ m_lastLogCount = 0
    /\ exState = "RUNNING" /\ stateReports = <<>>

(* The tick() of every periodic task starts with the same gate.             *)
Due(t) == systemTime - m_lastTick[t] >= PeriodOf[t]

Passes(t) ==
    /\ Due(t)
    /\ m_lastTick' = [m_lastTick EXCEPT ![t] = systemTime]
    /\ m_count' = [m_count EXCEPT ![t] = @ + 1]

(* PulseTask and WorkerTask log their count.                                *)
CountTick(t) ==
    /\ t \in {"pulse", "worker"} /\ Passes(t)
    /\ UNCHANGED <<m_accumulator, reports, stateReports>>

FastSampleTick(t) ==
    /\ t = "fast" /\ Passes(t)
    /\ m_accumulator' = m_accumulator + (m_count[t] % kReadings)
    /\ UNCHANGED <<reports, stateReports>>

drainKeepsAccumulator == m_accumulator
drainAccumulator == 0  \* what is left once the value is returned

SlowReportTick(t) ==
    /\ t = "slow" /\ Passes(t)
    /\ reports' = Append(reports, m_accumulator)
    /\ m_accumulator' = drainAccumulator
    /\ UNCHANGED stateReports

MonitorTick(t) ==
    /\ t = "monitor" /\ Passes(t)
    /\ stateReports' = Append(stateReports, exState)
    /\ UNCHANGED <<m_accumulator, reports>>

EarlyTick(t) == ~Due(t) /\ UNCHANGED taskVars

TaskTick(t) ==
    CountTick(t) \/ FastSampleTick(t) \/ SlowReportTick(t) \/ MonitorTick(t) \/ EarlyTick(t)

(* The stop condition; the one of lifecycle sets its deadline when it is    *)
(* first evaluated.                                                         *)
stopCondition(end) == wall >= end

EvaluateStop(c) ==
    LET end == IF endAt = NoEnd THEN wall + example.runTime ELSE endAt IN
    /\ loop[c] = AtLoop /\ loopAt[c] # wall
    /\ endAt' = end
    /\ loopAt' = [loopAt EXCEPT ![c] = wall]
    /\ loop' = [loop EXCEPT ![c] =
                  IF exState # "RUNNING" \/ stopCondition(end) THEN Out ELSE 1]
    /\ exState' = IF loop'[c] = Out THEN "SHUTDOWN" ELSE exState
    /\ UNCHANGED <<example, wall, buildAt, taskVars, idleVars>>

(* One task of the tick after the other; the background task of multirate   *)
(* takes its turn in the ring after them, in some ticks.                    *)
TickTask(c) ==
    /\ loop[c] \in DOMAIN example.tasks[c]
    /\ TaskTick(example.tasks[c][loop[c]])
    /\ loop' = [loop EXCEPT ![c] = @ + 1]
    /\ UNCHANGED <<example, wall, buildAt, endAt, loopAt, idleVars, exState>>

IdleCounterTick ==
    /\ m_dispatchCount' = m_dispatchCount + 1
    /\ m_lastLogCount' = IF m_dispatchCount' - m_lastLogCount >= kLogInterval
                         THEN m_dispatchCount' ELSE m_lastLogCount

TickEnds(c) ==
    /\ loop[c] = Len(example.tasks[c]) + 1
    /\ loop' = [loop EXCEPT ![c] = AtLoop]
    /\ IF "idle" \in example.background THEN IdleCounterTick ELSE UNCHANGED idleVars
    /\ UNCHANGED <<example, wall, buildAt, endAt, loopAt, taskVars, exState>>

(* Time passes between ticks; no core goes without a turn of its loop.      *)
WallClock(d) ==
    /\ \A c \in Cores : loop[c] = Out \/ (loop[c] = AtLoop /\ loopAt[c] = wall)
    /\ \E c \in Cores : loop[c] # Out
    /\ wall' = wall + d
    /\ UNCHANGED <<example, buildAt, endAt, loopAt, loop, taskVars, idleVars, exState>>

PeriodicNext ==
    \/ \E c \in Cores : EvaluateStop(c) \/ TickTask(c) \/ TickEnds(c)
    \/ \E d \in TickTimes : WallClock(d)

PeriodicSpec == PeriodicInit /\ [][PeriodicNext]_periodicVars
-----------------------------------------------------------------------------
(* Every reading is in exactly one report or still in the accumulator: with  *)
(* the two tasks at any rates and jitter, the reports of SlowReportTask and  *)
(* what FastSampleTask holds add up to all samples taken so far.             *)
Readings == [i \in Nat |-> (i - 1) % kReadings]

ReportsConserve ==
    SumBetween(reports, 0, Len(reports)) + m_accumulator = SumBetween(Readings, 0, m_count["fast"])

(* With the types of what is summed it is inductive.                         *)
ReportsInv ==
    /\ m_count \in [Task -> Nat] /\ m_accumulator \in Int /\ reports \in Seq(Int)
    /\ ReportsConserve

(* heartbeat/src/main_osNative.cpp: the program exits after kNumPulses.      *)
FivePulses ==
    example = HeartbeatMain /\ loop[0] = Out => m_count["pulse"] = kNumPulses
=============================================================================
