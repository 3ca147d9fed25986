---------------------------- MODULE SystemBuilder ----------------------------
(***************************************************************************)
(* builder/SystemBuilder.h with System::CoreData and System::reset(): the  *)
(* fluent calls that declare a topology and the build() that places the    *)
(* kernel tasks, sorts, validates, wires and publishes it.  Single-        *)
(* threaded; what is hard is the order of the calls, the limits of the     *)
(* static arrays, what a failed build() leaves behind and what a reset()   *)
(* does not undo.                                                          *)
(*                                                                         *)
(* A call with a null pointer registers nothing and is left out; so are    *)
(* the safety monitors, which build() hands to the control task as given.  *)
(***************************************************************************)
EXTENDS Config, Sequences, SequencesExt, FiniteSets

CONSTANTS Configs,            \* configurations a program is compiled with
          UserTask,           \* scheduled tasks of the application
          CrunchTask,         \* crunch tasks of the application
          Background,         \* background tasks of the application
          Attr,               \* task |-> [period, priority, wcet, deps]
          CrunchPeriod,       \* crunch task |-> crunchPeriodUs
          kMaxTasks,          \* kMaxTasksPerCore, 256 in the code
          kMaxMonitoredTasks, \* 16 in the code
          kMaxStopConditions, \* 8 in the code
          MaxCalls            \* bound: builder calls in a behaviour

Control == "control"  \* ScheduledControlTask
Comms == "comms"      \* ScheduledCommsTask
Diags == "diags"      \* BackgroundDiagnosticsTask
SystemTimer == "system timer"
Monitors == {"health", "queue"}  \* s_schedulerHealth, s_queueMonitor
NoCrunch == "none"
KernelTask == {Control, Comms}
Task == UserTask \cup KernelTask

ASSUME BuilderAssumption ==
  /\ \A cfg \in Configs : ConfigValid(cfg) /\ cfg.kCoreCount \in Nat
  /\ {kMaxTasks, kMaxMonitoredTasks, kMaxStopConditions} \subseteq Nat \ {0}
  /\ MaxCalls \in Nat /\ CrunchPeriod \in [CrunchTask -> Nat]
  /\ \A t \in UserTask :
       Attr[t] \in [period : Nat, priority : 0 .. 255, wcet : Nat, deps : BOOLEAN]

(* The kernel's own objects are not those of the application.               *)
ASSUME NamesAssumption ==
  /\ UserTask \cap (KernelTask \cup {Diags}) = {} /\ Background \cap {Diags} = {}
  /\ NoCrunch \notin CrunchTask

VARIABLES config,     \* the Cfg of the program
          app,        \* was an IUserApplication given?
          given,      \* which of the builder's stream, kick and clock were set
          tasks,      \* s_cores[c].tasks
          crunchTask, \* s_cores[c].crunchTask; the mode is CRUNCH iff there is one
          ring,       \* s_backgroundTasks
          bgCore,     \* s_backgroundCoreId
          s_built,
          drainFn,    \* s_drainFn is set
          kickFn,     \* s_watchdogKickFn is set
          mutex,      \* s_telemetryLogger has a mutex
          stops,      \* s_stopConditionCount
          diags,      \* what s_diagsTask holds: kick, drain, monitored tasks
          clocked,    \* timers with a clock source
          windowed,   \* timers and monitors that have the configured window
          result,     \* what build() last returned
          overloaded, \* cores for which it logged a utilisation above 80 percent
          registered, \* user tasks accepted on each core, in call order (history)
          calls       \* calls so far (history)

topology == <<tasks, crunchTask, ring, bgCore, registered>>
hooks    == <<drainFn, kickFn, mutex, stops>>
wiring   == <<diags, clocked, windowed>>
vars     == <<config, app, given, topology, s_built, hooks, wiring, result, overloaded, calls>>

kCoreCount == config.kCoreCount
Core == 0 .. kCoreCount - 1
MinPeriod == Resolve(config).kMinSchedulePeriodUs
MaxBackground == Resolve(config).kMaxBackgroundTasks
Timed == Task \cup CrunchTask \cup Background \cup {Diags, SystemTimer}

NothingGiven == [stream |-> FALSE, kick |-> FALSE, clock |-> FALSE]
NoDiags == [kick |-> FALSE, drain |-> FALSE, monitored |-> <<>>]

Verdicts == {"ok", "already built", "no tasks", "period", "duplicate", "crunch on core 0",
             "crunch core has tasks", "crunch period", "dependencies"}

TypeOK ==
  /\ config \in Configs /\ {app, s_built, drainFn, kickFn, mutex} \subseteq BOOLEAN
  /\ given \in [stream : BOOLEAN, kick : BOOLEAN, clock : BOOLEAN]
  /\ tasks \in [Core -> Seq(Task)] /\ \A c \in Core : Len(tasks[c]) <= kMaxTasks
  /\ crunchTask \in [Core -> CrunchTask \cup {NoCrunch}]
  /\ ring \in Seq(Background \cup {Diags}) /\ bgCore \in Core
  /\ stops \in 0 .. kMaxStopConditions
  /\ diags \in [kick : BOOLEAN, drain : BOOLEAN, monitored : Seq(Task)]
  /\ clocked \subseteq Timed /\ windowed \subseteq Timed \cup Monitors
  /\ result \in Verdicts \cup {"none"} /\ overloaded \subseteq Core
  /\ registered \in [Core -> Seq(UserTask)]
  /\ calls \in 0 .. MaxCalls

Init ==
  /\ config \in Configs
  /\ tasks = [c \in Core |-> <<>>] /\ crunchTask = [c \in Core |-> NoCrunch]
  /\ ring = <<>> /\ bgCore = 0 /\ s_built = FALSE /\ diags = NoDiags
  /\ drainFn = FALSE /\ kickFn = FALSE /\ stops = 0
  /\ overloaded = {} /\ registered = [c \in Core |-> <<>>]
  /\ mutex = FALSE /\ clocked = {} /\ windowed = {}
  /\ app \in BOOLEAN /\ given = NothingGiven
  /\ result = "none" /\ calls = 0
-----------------------------------------------------------------------------
(* The registration calls.                                                  *)

Called == calls < MaxCalls /\ calls' = calls + 1

(* core(): an id out of range means core 0.                                 *)
CoreOf(id) == IF id < kCoreCount THEN id ELSE 0

AddTask(list, t) == IF Len(list) < kMaxTasks THEN Append(list, t) ELSE list

PrependTask(list, t) == IF Len(list) < kMaxTasks THEN <<t>> \o list ELSE list

AddScheduledTask(id, t) ==
  LET c == CoreOf(id) IN
  /\ Called
  /\ tasks' = [tasks EXCEPT ![c] = AddTask(@, t)]
  /\ registered' = IF Len(tasks[c]) < kMaxTasks
                   THEN [registered EXCEPT ![c] = Append(@, t)] ELSE registered
  /\ UNCHANGED <<config, app, given, crunchTask, ring, bgCore, s_built, hooks, wiring, result,
                 overloaded>>

SetCrunchTask(id, k) ==
  /\ Called
  /\ crunchTask' = [crunchTask EXCEPT ![CoreOf(id)] = k]
  /\ UNCHANGED <<config, app, given, tasks, ring, bgCore, registered, s_built, hooks, wiring,
                 result, overloaded>>

AddBackgroundTask(b) ==
  /\ Called
  /\ ring' = IF Len(ring) < MaxBackground THEN Append(ring, b) ELSE ring
  /\ UNCHANGED <<config, app, given, tasks, crunchTask, bgCore, registered, s_built, hooks,
                 wiring, result, overloaded>>

Give(what) ==
  /\ Called
  /\ given' = [given EXCEPT ![what] = TRUE]
  /\ UNCHANGED <<config, app, topology, s_built, hooks, wiring, result, overloaded>>

SetStream == Give("stream")
SetWatchdogKick == Give("kick")
SetClockSource == Give("clock")

(* These three write the statics of System at once, built or not.           *)
Hooked ==
  /\ Called
  /\ UNCHANGED <<config, app, given, topology, s_built, kickFn, wiring, result, overloaded>>

AddStopCondition ==
  /\ Hooked /\ UNCHANGED <<drainFn, mutex>>
  /\ stops' = IF stops < kMaxStopConditions THEN stops + 1 ELSE stops

SetTelemetryDrain == Hooked /\ drainFn' = TRUE /\ UNCHANGED <<mutex, stops>>

SetTelemetryMutex == Hooked /\ mutex' = TRUE /\ UNCHANGED <<drainFn, stops>>
-----------------------------------------------------------------------------
(* build(): kernel tasks, order, validation.                                *)

IsCrunch(c) == crunchTask[c] # NoCrunch

(* The kernel tasks go in front: control on core 0, comms on core 1, or on  *)
(* core 0 if that is the only one or core 1 crunches.                       *)
PlaceKernelTasks(t) ==
  IF kCoreCount = 1
  THEN [t EXCEPT ![0] = PrependTask(PrependTask(@, Comms), Control)]
  ELSE LET t0 == [t EXCEPT ![0] = PrependTask(@, Control)]
       IN  [t0 EXCEPT ![IF IsCrunch(1) THEN 0 ELSE 1] = PrependTask(@, Comms)]

IsActive(t, c) == t[c] # <<>> \/ IsCrunch(c)

(* The last active core, or core 0.                                         *)
BackgroundCore(t) ==
  LET active == {c \in Core : IsActive(t, c)}
  IN  IF active = {} THEN 0 ELSE CHOOSE c \in active : \A d \in active : d <= c

(* effectivePriority(): the control task declares 0, the comms task 1; 0xFF *)
(* asks for a rate-monotonic band.                                          *)
RateBand(period) ==
  CASE period = 0        -> 254
    [] period \in 1 .. 100 -> 2
    [] period > 100 /\ period <= 1000 -> 10
    [] period > 1000 /\ period <= 10000 -> 20
    [] period > 10000 /\ period <= 100000 -> 40
    [] period > 100000 /\ period <= 1000000 -> 80
    [] OTHER -> 160

EffectivePriority(t) ==
  CASE t = Control -> 0
    [] t = Comms -> 1
    [] OTHER -> IF Attr[t].priority # 255 THEN Attr[t].priority ELSE RateBand(Attr[t].period)

(* One round of the insertion sort: t goes behind the last task of at most  *)
(* its priority.                                                            *)
InsertTaskUnstable(sorted, t) ==
  LET k == Cardinality({i \in 1 .. Len(sorted) :
                          EffectivePriority(sorted[i]) < EffectivePriority(t)})
  IN  InsertAt(sorted, k + 1, t)

InsertTask(sorted, t) ==
  LET k == Cardinality({i \in 1 .. Len(sorted) :
                          EffectivePriority(sorted[i]) <= EffectivePriority(t)})
  IN  InsertAt(sorted, k + 1, t)

SortByPriority(list) ==
  LET sorted[k \in 0 .. Len(list)] == IF k = 0 THEN <<>> ELSE InsertTask(sorted[k - 1], list[k])
  IN  sorted[Len(list)]

(* The tasks' own declarations; the kernel tasks' periods are valid.        *)
PeriodTooShort(t) ==
  t \notin KernelTask /\ Attr[t].period > 0 /\ Attr[t].period < MinPeriod

DependenciesMet(t) ==
  CASE t = Control -> app
    [] t = Comms -> given.stream
    [] OTHER -> Attr[t].deps

Slots(t) == UNION {{c} \X (1 .. Len(t[c])) : c \in Core}
TaskIn(t, s) == t[s[1]][s[2]]

HasDuplicate(t) == \E s, r \in Slots(t) : s # r /\ TaskIn(t, s) = TaskIn(t, r)

Utilisation(list) ==
  FoldLeft(LAMBDA sum, t :
             IF t \in KernelTask \/ Attr[t].period = 0 THEN sum
             ELSE sum + (Attr[t].wcet * 1000) \div Attr[t].period, 0, list)

CrunchVerdictUnchecked(t) == "ok"

(* validateCrunchConstraints(): the first offending core decides.           *)
CrunchVerdict(t) ==
  LET Problem(c) ==
        IF c = 0 THEN "crunch on core 0"
        ELSE IF t[c] # <<>> THEN "crunch core has tasks"
        ELSE IF CrunchPeriod[crunchTask[c]] \in 1 .. MinPeriod - 1 THEN "crunch period"
        ELSE "ok"
      bad == {c \in Core : IsCrunch(c) /\ Problem(c) # "ok"}
  IN  IF bad = {} THEN "ok" ELSE Problem(CHOOSE c \in bad : \A d \in bad : c <= d)

SchedulingVerdict(t) ==
  IF \A c \in Core : ~IsActive(t, c) THEN "no tasks"
  ELSE IF \E s \in Slots(t) : PeriodTooShort(TaskIn(t, s)) THEN "period"
  ELSE IF HasDuplicate(t) THEN "duplicate"
  ELSE "ok"

Verdict(t) ==
  IF SchedulingVerdict(t) # "ok" THEN SchedulingVerdict(t)
  ELSE IF CrunchVerdict(t) # "ok" THEN CrunchVerdict(t)
  ELSE IF \E s \in Slots(t) : ~DependenciesMet(TaskIn(t, s)) THEN "dependencies"
  ELSE "ok"

BuildAgain ==
  /\ s_built /\ Called
  /\ result' = "already built"
  /\ UNCHANGED <<config, app, given, topology, s_built, hooks, wiring, overloaded>>

(* The flat list of every core's tasks; the diagnostics task has room for   *)
(* kMaxMonitoredTasks of them.                                              *)
Monitored(t) ==
  LET all == FlattenSeq([c \in 1 .. kCoreCount |-> t[c - 1]])
  IN  SubSeq(all, 1, IF Len(all) < kMaxMonitoredTasks THEN Len(all) ELSE kMaxMonitoredTasks)

(* What the clock and the window are propagated to: the tasks of every      *)
(* core, of the ring, and the crunch tasks.                                 *)
WiredTasks(t, r) ==
  {TaskIn(t, s) : s \in Slots(t)} \cup ToSet(r) \cup {crunchTask[c] : c \in {d \in Core : IsCrunch(d)}}

PropagateClock(t, r) == IF given.clock THEN WiredTasks(t, r) \cup {SystemTimer} ELSE {}

PropagateWindow(t, r) == WiredTasks(t, r) \cup Monitors

(* emplace() makes new kernel tasks: their timers have neither clock nor    *)
(* window until they are wired.                                             *)
Emplaced(timers) == IF app THEN timers \ (KernelTask \cup {Diags}) ELSE timers

(* The kernel tasks, the ring and the order stay as they are when the       *)
(* validation fails; then nothing is wired.                                 *)
Build ==
  LET placed == IF app THEN PlaceKernelTasks(tasks) ELSE tasks
      sorted == [c \in Core |-> SortByPriority(placed[c])]
      verdict == Verdict(sorted)
      ok == verdict = "ok"
  IN
  /\ ~s_built /\ Called
  /\ tasks' = sorted
  /\ ring' = IF app THEN Append(ring, Diags) ELSE ring
  /\ bgCore' = IF app THEN BackgroundCore(placed) ELSE bgCore
  /\ kickFn' = IF app THEN given.kick ELSE kickFn
  /\ diags' = IF app THEN [kick |-> given.kick, drain |-> drainFn,
                           monitored |-> IF ok THEN Monitored(sorted) ELSE <<>>]
              ELSE diags
  /\ overloaded' = IF SchedulingVerdict(sorted) = "ok"
                   THEN {c \in Core : Utilisation(sorted[c]) > 800} ELSE overloaded
  /\ clocked' = Emplaced(clocked) \cup (IF ok THEN PropagateClock(sorted, ring') ELSE {})
  /\ windowed' = Emplaced(windowed) \cup (IF ok THEN PropagateWindow(sorted, ring') ELSE {})
  /\ result' = verdict /\ s_built' = ok
  /\ UNCHANGED <<config, app, given, crunchTask, registered, drainFn, mutex, stops>>

(* System::reset() empties the lists and the hooks ...                      *)
Unregister ==
  /\ tasks' = [c \in Core |-> <<>>] /\ crunchTask' = [c \in Core |-> NoCrunch]
  /\ ring' = <<>> /\ bgCore' = 0 /\ s_built' = FALSE /\ diags' = NoDiags
  /\ drainFn' = FALSE /\ kickFn' = FALSE /\ stops' = 0
  /\ overloaded' = {} /\ registered' = [c \in Core |-> <<>>]

(* ... the kernel tasks and the system timer lose their clock, but the      *)
(* application's own tasks, the monitors' window and the telemetry mutex    *)
(* stay as they are.                                                        *)
ResetKeepsTimer ==     \* mutant: s_timer is not made anew
  /\ Unregister
  /\ clocked' = clocked \ (KernelTask \cup {Diags})
  /\ windowed' = windowed \ (KernelTask \cup {Diags})
  /\ UNCHANGED mutex

ResetStatics ==
  /\ Unregister
  /\ clocked' = clocked \ (KernelTask \cup {Diags, SystemTimer})
  /\ windowed' = windowed \ (KernelTask \cup {Diags})
  /\ UNCHANGED mutex

(* A new builder, with or without an application, follows.                  *)
Reset ==
  /\ UNCHANGED <<config, calls>>
  /\ ResetStatics
  /\ app' \in BOOLEAN /\ given' = NothingGiven
  /\ result' = "none"

Next ==
  \/ \E id \in 0 .. kCoreCount :
       \/ \E t \in UserTask : AddScheduledTask(id, t)
       \/ \E k \in CrunchTask : SetCrunchTask(id, k)
  \/ \E b \in Background : AddBackgroundTask(b)
  \/ SetStream \/ SetWatchdogKick \/ SetClockSource
  \/ AddStopCondition \/ SetTelemetryDrain \/ SetTelemetryMutex
  \/ Build \/ BuildAgain \/ Reset

Spec == Init /\ [][Next]_vars
-----------------------------------------------------------------------------
IndexIn(list, t) == CHOOSE i \in 1 .. Len(list) : list[i] = t

(* May task a stand before task b on core c?                                *)
InOrder(c, a, b) ==
  \/ EffectivePriority(a) < EffectivePriority(b)
  \/ /\ EffectivePriority(a) = EffectivePriority(b)
     /\ \/ a \in KernelTask
        \/ b \in UserTask /\ IndexIn(registered[c], a) < IndexIn(registered[c], b)

JustBuilt == ~s_built /\ s_built'

(* The dispatch order of a built system is by effective priority; among     *)
(* equals the kernel tasks are first and the application's tasks keep the   *)
(* order in which they were registered, whatever failed builds came before. *)
DispatchOrder ==
  [][JustBuilt => \A c \in Core : \A i, j \in 1 .. Len(tasks'[c]) :
       i < j => InOrder(c, tasks'[c][i], tasks'[c][j])]_vars

(* What a built system lists, some core ticks, once: no task has two slots  *)
(* and none is on a core that runs the crunch loop instead of tick().       *)
(* However often build() failed before, a system with an application has    *)
(* one control and one comms task in its lists and diagnostics once in the  *)
(* ring, if the lists had room for them.  (On a full list the retry's       *)
(* prepends are dropped and it is accepted.)                                *)
EveryTaskTickedOnce ==
  [][JustBuilt =>
       /\ ~HasDuplicate(tasks')
       /\ \A c \in Core : IsCrunch(c) => tasks'[c] = <<>>
       /\ app /\ (\A c \in Core : Len(tasks[c]) + 2 <= kMaxTasks) =>
            /\ \A k \in KernelTask : Cardinality({s \in Slots(tasks') : TaskIn(tasks', s) = k}) = 1
            /\ Cardinality({i \in 1 .. Len(ring') : ring'[i] = Diags}) = 1]_vars

(* Everything a built system will dispatch: its lists, its ring and the     *)
(* crunch tasks.                                                            *)
Dispatched ==
  (UNION {ToSet(tasks[c]) : c \in Core}) \cup ToSet(ring) \cup ({crunchTask[c] : c \in Core} \ {NoCrunch})

(* Whatever was called in which order, failed before or was reset, a built  *)
(* system is wired with what this builder was given: every dispatched task  *)
(* measures in the configured window and, if a clock was given, with it; if *)
(* none was, no timer the kernel owns still has the one of an earlier       *)
(* system.  The diagnostics task has the kick and the drain given since the *)
(* last reset and monitors every listed task it has room for.               *)
FullyWired ==
  [][JustBuilt =>
       /\ Dispatched' \cup Monitors \subseteq windowed'
       /\ IF given.clock THEN Dispatched' \cup {SystemTimer} \subseteq clocked'
                         ELSE clocked' \cap (KernelTask \cup {Diags, SystemTimer}) = {}
       /\ app => /\ kickFn' = given.kick /\ diags'.kick = given.kick /\ diags'.drain = drainFn
                 /\ Cardinality(ToSet(diags'.monitored)) < kMaxMonitoredTasks =>
                      ToSet(diags'.monitored) = UNION {ToSet(tasks'[c]) : c \in Core}]_vars

(* What makes the three inductive.  The kernel's timers have no clock but    *)
(* the one this builder was given.                                           *)
ClockInv == ~given.clock => clocked \cap (KernelTask \cup {Diags, SystemTimer}) = {}

(* What an earlier build() put into the ring it put into the lists as well,  *)
(* if these had room.                                                        *)
HasRoom == \A c \in Core : Len(tasks[c]) + 2 <= kMaxTasks
PlacedInv == Diags \in ToSet(ring) /\ HasRoom => Control \in ToSet(tasks[0])

(* rank tells of each user task in a list which registration it came from;   *)
(* equals stand in the order of their registrations, behind kernel tasks.    *)
Ranks(rank, list, reg) ==
  /\ \A i \in 1 .. Len(list) :
       list[i] \in UserTask => rank[i] \in 1 .. Len(reg) /\ reg[rank[i]] = list[i]
  /\ \A r \in 1 .. Len(reg) : \E i \in 1 .. Len(list) : list[i] \in UserTask /\ rank[i] = r
  /\ \A i, j \in 1 .. Len(list) :
       i < j /\ EffectivePriority(list[i]) = EffectivePriority(list[j]) =>
         list[i] \in KernelTask \/ (list[j] \in UserTask /\ rank[i] < rank[j])

Arranged(list, reg) == \E rank \in [1 .. Len(list) -> 0 .. Len(reg)] : Ranks(rank, list, reg)

BuilderInv ==
  /\ TypeOK /\ ClockInv /\ PlacedInv
  /\ \A c \in Core : Arranged(tasks[c], registered[c])
-----------------------------------------------------------------------------
(* Statements of the documents that the code does not keep.                 *)

(* MultiCoreImplementation.md shows BackgroundDiagnosticsTask on core 0     *)
(* when core 1 crunches: the background ring is on a core that ticks.       *)
BackgroundCoreTicks == s_built /\ app => ~IsCrunch(bgCore)

(* CfgMaxBackgroundTasks is the maximum number of background tasks that can *)
(* be registered: the ring never exceeds its array.                         *)
RingWithinCapacity == Len(ring) <= MaxBackground

(* setWatchdogKick() sets "the platform-specific watchdog kick function",   *)
(* but without an application build() does not pass it on.                  *)
KickReachesCrunch == s_built /\ given.kick => kickFn

(* reset() is a "full reset of all static state" (System.h:722).            *)
ResetIsFull == [][s_built /\ ~s_built' => ~mutex' /\ clocked' = {} /\ windowed' = {}]_vars

(* SchedulingDesign.md gives BackgroundDiagnosticsTask slot 0 of the ring.  *)
DiagnosticsFirst == s_built /\ app => ring[1] = Diags

(* SchedulingDesign.md: user tasks follow the kernel scheduled tasks in     *)
(* tick order.                                                              *)
UserTasksFollowKernel ==
  [][JustBuilt => \A c \in Core : \A i, j \in 1 .. Len(tasks'[c]) :
       i < j /\ tasks'[c][i] \in UserTask => tasks'[c][j] \in UserTask]_vars

(* build() documents the control task as created and pinned to core 0       *)
(* automatically.                                                           *)
ControlPlaced ==
  [][JustBuilt /\ app => \E i \in 1 .. Len(tasks'[0]) : tasks'[0][i] = Control]_vars
=============================================================================
