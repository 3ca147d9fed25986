------------------------------ MODULE KernelRun ------------------------------
(***************************************************************************)
(* kernel/System.h run(coreId) and init(coreId) on every core, with the    *)
(* CrunchDispatcher of the CRUNCH-mode cores, over MultiCoreSync.          *)
(*                                                                         *)
(* Each core runs the same blocking function: setInit, init the tasks,     *)
(* startup barrier (its result is ignored), dispatch loop, shutdown        *)
(* transitions, shutdown barrier.  s_kernelState is one plain variable of  *)
(* all cores: a test of it, the switch of transitionTo and the assignment  *)
(* are three separate accesses, and each is a step here.                   *)
(*                                                                         *)
(* Tasks are abstract: a tick of core 0 (where ControlTask runs) may find  *)
(* an unsafe condition and signal the safety abort, a crunch() call may    *)
(* or may not overrun.  A stop condition, once true, stays true.           *)
(***************************************************************************)
EXTENDS MultiCoreSync

CONSTANTS CrunchCores,  \* cores with a crunch task (mode CRUNCH)
          MaxOverruns,  \* CfgCrunchMaxOverruns; 0 switches the limit off
          OverrunWidth  \* the consecutive overrun counter is modulo this

(* validateCrunchConstraints: core 0 stays FLAT_LOOP.                       *)
ASSUME CrunchAssumption == CrunchCores \subseteq Core \ {0}
ASSUME OverrunAssumption ==
  MaxOverruns \in Nat /\ OverrunWidth \in Nat /\ MaxOverruns < OverrunWidth

VARIABLES s_kernelState,
          pc,             \* where each core is in run()
          seen,           \* the state transitionTo's switch read, or "none"
          s_coreInitialized,
          stop,           \* a stop condition has fired
          s_safetyAbort,
          m_task,         \* the dispatcher's crunch task, named by its core
          consecutive,    \* m_consecutiveOverruns of the one dispatcher
          crunching,      \* the task whose crunch() core c is executing
          aborted,        \* crunch tasks whose onCrunchAbort was called
          kicked,         \* cores whose watchdog was kicked
          errorLog,       \* codes logged to ErrorLogger
          late            \* crunch() calls begun after the abort (history)

crunchVars == <<m_task, consecutive, crunching, aborted, kicked, late>>
kernelVars == <<s_kernelState, pc, seen, s_coreInitialized, stop,
                s_safetyAbort, errorLog, crunchVars>>
vars == <<syncVars, kernelVars>>

NoTask == N_CORES  \* nullptr
KernelState == {"CONFIGURED", "INITIALIZING", "RUNNING", "SHUTTING_DOWN", "SHUTDOWN"}

(* The calls of transitionTo in init() and run(): target and continuation.  *)
Target == [toInit |-> "INITIALIZING", toRun |-> "RUNNING",
           toDown |-> "SHUTTING_DOWN", toOff |-> "SHUTDOWN"]
After == [toInit |-> "initTasks", toRun |-> "initEnd",
          toDown |-> "testDown", toOff |-> "shutdown"]

FlatLoop == {"flatState", "flatStop", "tick"}
CrunchLoop == {"preAbort", "crunchState", "crunchStop", "crunchAbort", "crunch", "crunchEnd"}
Dispatch == FlatLoop \cup CrunchLoop \cup {"configure"}
PC == {"entry", "testConfigured", "initTasks", "testInit", "initEnd", "startup",
       "testRunning", "testDown", "shutdown", "done"}
      \cup DOMAIN Target \cup Dispatch

TypeOK ==
  /\ SyncTypeOK
  /\ s_kernelState \in KernelState
  /\ pc \in [Core -> PC]
  /\ seen \in [Core -> KernelState \cup {"none"}]
  /\ s_coreInitialized \in [Core -> BOOLEAN]
  /\ stop \in BOOLEAN /\ s_safetyAbort \in BOOLEAN
  /\ m_task \in Core \cup {NoTask}
  /\ consecutive \in 0 .. OverrunWidth - 1
  /\ crunching \in [Core -> Core \cup {NoTask}]
  /\ aborted \subseteq Core /\ kicked \subseteq Core
  /\ errorLog \subseteq {"INVALID_STATE", "SOFT_ABORT", "CRUNCH_OVERRUN", "HARD_FAULT"}
  /\ late \in [Core -> 0 .. 2]

(* After build(); main may already have called init() on some cores, which  *)
(* took the kernel to RUNNING.                                              *)
Init ==
  /\ SyncInit
  /\ s_coreInitialized \in [Core -> BOOLEAN]
  /\ s_kernelState = IF \E c \in Core : s_coreInitialized[c] THEN "RUNNING" ELSE "CONFIGURED"
  /\ pc = [c \in Core |-> "entry"]
  /\ seen = [c \in Core |-> "none"]
  /\ stop = FALSE /\ s_safetyAbort = FALSE
  /\ m_task = NoTask /\ consecutive = 0
  /\ crunching = [c \in Core |-> NoTask]
  /\ aborted = {} /\ kicked = {} /\ errorLog = {}
  /\ late = [c \in Core |-> 0]
-----------------------------------------------------------------------------
At(c, l) == pc[c] = l
To(c, l) == pc' = [pc EXCEPT ![c] = l]

(* A step of run() that only looks at shared state and branches.            *)
Branch(c, from, cond, yes, no) ==
  /\ At(c, from)
  /\ To(c, IF cond THEN yes ELSE no)
  /\ UNCHANGED <<syncVars, s_kernelState, seen, s_coreInitialized, stop,
                 s_safetyAbort, errorLog, crunchVars>>

(* The transition table.                                                    *)
Valid(from, to) ==
  <<from, to>> \in {<<"UNCONFIGURED", "CONFIGURED">>, <<"CONFIGURED", "INITIALIZING">>,
                    <<"INITIALIZING", "RUNNING">>, <<"RUNNING", "SUSPENDING">>,
                    <<"RUNNING", "ABORTING">>, <<"RUNNING", "SHUTTING_DOWN">>,
                    <<"SUSPENDING", "SUSPENDED">>, <<"SUSPENDED", "RUNNING">>,
                    <<"SUSPENDED", "SHUTTING_DOWN">>, <<"ABORTING", "ABORTED">>,
                    <<"ABORTED", "RUNNING">>, <<"ABORTED", "SHUTTING_DOWN">>,
                    <<"SHUTTING_DOWN", "SHUTDOWN">>}

IsActiveState(s) == s \in {"RUNNING", "SUSPENDING", "SUSPENDED"}

(* transitionTo: the switch loads the state, the assignment follows.        *)
TransitionLoad(c) ==
  /\ pc[c] \in DOMAIN Target /\ seen[c] = "none"
  /\ seen' = [seen EXCEPT ![c] = s_kernelState]
  /\ UNCHANGED <<syncVars, s_kernelState, pc, s_coreInitialized, stop,
                 s_safetyAbort, errorLog, crunchVars>>

TransitionStore(c) ==
  /\ pc[c] \in DOMAIN Target /\ seen[c] # "none"
  /\ IF Valid(seen[c], Target[pc[c]])
     THEN s_kernelState' = Target[pc[c]] /\ UNCHANGED errorLog
     ELSE errorLog' = errorLog \cup {"INVALID_STATE"} /\ UNCHANGED s_kernelState
  /\ seen' = [seen EXCEPT ![c] = "none"]
  /\ To(c, After[pc[c]])
  /\ UNCHANGED <<syncVars, s_coreInitialized, stop, s_safetyAbort, crunchVars>>

(* run() Phases 1 and 2, with init().                                       *)

RunEntry(c) ==
  /\ At(c, "entry")
  /\ SetInit(c)
  /\ To(c, IF s_coreInitialized[c] THEN "startup" ELSE "testConfigured")
  /\ UNCHANGED <<s_kernelState, seen, s_coreInitialized, stop, s_safetyAbort,
                 errorLog, crunchVars>>

TestConfigured(c) ==
  Branch(c, "testConfigured", s_kernelState = "CONFIGURED", "toInit", "initTasks")

InitTasks(c) == Branch(c, "initTasks", TRUE, "testInit", "testInit")

TestInitializing(c) ==
  Branch(c, "testInit", s_kernelState = "INITIALIZING", "toRun", "initEnd")

InitEnd(c) ==
  /\ At(c, "initEnd")
  /\ s_coreInitialized' = [s_coreInitialized EXCEPT ![c] = TRUE]
  /\ To(c, "startup")
  /\ UNCHANGED <<syncVars, s_kernelState, seen, stop, s_safetyAbort, errorLog, crunchVars>>

(* Phase 3: the startup barrier; Phase 4 follows whatever it returned.      *)

StartupCall(c) ==
  /\ At(c, "startup")
  /\ StartEnter(c) \/ StartStep(c)
  /\ UNCHANGED kernelVars

StartupReturn(c) ==
  /\ bpc[c] \in StartResult
  /\ Branch(c, "startup", c \in CrunchCores, "configure", "flatState")

(* Phase 4, FLAT_LOOP.                                                      *)

FlatTestState(c) ==
  Branch(c, "flatState", IsActiveState(s_kernelState), "flatStop", "testRunning")

FlatTestStop(c) == Branch(c, "flatStop", stop, "testRunning", "tick")

(* tick(): on core 0 ControlTask::evaluateSafety may signal the abort.      *)
Tick(c) ==
  /\ At(c, "tick")
  /\ To(c, "flatState")
  /\ s_safetyAbort' \in IF c = 0 THEN {s_safetyAbort, TRUE} ELSE {s_safetyAbort}
  /\ UNCHANGED <<syncVars, s_kernelState, seen, s_coreInitialized, stop, errorLog, crunchVars>>

(* Phase 4, CRUNCH: the one dispatcher is configured and run.               *)

Configure(c) ==
  /\ At(c, "configure")
  /\ m_task' = c
  /\ consecutive' = 0
  /\ To(c, "preAbort")
  /\ UNCHANGED <<syncVars, s_kernelState, seen, s_coreInitialized, stop,
                 s_safetyAbort, errorLog, crunching, aborted, kicked, late>>

(* The two tests of the safety abort, before the loop and inside it.        *)
CrunchTestAbort(c, from, continue) ==
  /\ At(c, from)
  /\ IF s_safetyAbort
     THEN /\ aborted' = aborted \cup {m_task}
          /\ errorLog' = errorLog \cup {"SOFT_ABORT"}
          /\ To(c, "testRunning")
     ELSE To(c, continue) /\ UNCHANGED <<aborted, errorLog>>
  /\ UNCHANGED <<syncVars, s_kernelState, seen, s_coreInitialized, stop, s_safetyAbort,
                 m_task, consecutive, crunching, kicked, late>>

PreAbort(c) == CrunchTestAbort(c, "preAbort", "crunchState")

CrunchTestState(c) ==
  Branch(c, "crunchState", IsActiveState(s_kernelState), "crunchStop", "testRunning")

CrunchTestStop(c) == Branch(c, "crunchStop", stop, "testRunning", "crunchAbort")

CrunchNoAbortTest(c) == Branch(c, "crunchAbort", TRUE, "crunch", "crunch")

CrunchAbort(c) == CrunchTestAbort(c, "crunchAbort", "crunch")

(* The watchdog kick and the call of crunch().                              *)
CrunchBegin(c) ==
  /\ At(c, "crunch")
  /\ kicked' = kicked \cup {c}
  /\ crunching' = [crunching EXCEPT ![c] = m_task]
  /\ late' = [late EXCEPT ![c] = IF s_safetyAbort /\ @ < 2 THEN @ + 1 ELSE @]
  /\ To(c, "crunchEnd")
  /\ UNCHANGED <<syncVars, s_kernelState, seen, s_coreInitialized, stop,
                 s_safetyAbort, errorLog, m_task, consecutive, aborted>>

CrunchReturn(c) ==
  /\ At(c, "crunchEnd")
  /\ crunching' = [crunching EXCEPT ![c] = NoTask]
  /\ UNCHANGED <<syncVars, s_kernelState, seen, s_coreInitialized, stop,
                 s_safetyAbort, m_task, kicked, late>>

CrunchClean(c) ==
  /\ CrunchReturn(c)
  /\ consecutive' = 0
  /\ To(c, "crunchState")
  /\ UNCHANGED <<errorLog, aborted>>

CrunchOverrun(c) ==
  /\ CrunchReturn(c)
  /\ consecutive' = (consecutive + 1) % OverrunWidth
  /\ IF MaxOverruns > 0 /\ consecutive' >= MaxOverruns
     THEN /\ aborted' = aborted \cup {m_task}
          /\ errorLog' = errorLog \cup {"CRUNCH_OVERRUN", "HARD_FAULT"}
          /\ To(c, "testRunning")
     ELSE /\ errorLog' = errorLog \cup {"CRUNCH_OVERRUN"}
          /\ To(c, "crunchState")
          /\ UNCHANGED aborted

(* Phases 5 and 6.                                                          *)

TestRunning(c) == Branch(c, "testRunning", s_kernelState = "RUNNING", "toDown", "testDown")

TestShuttingDownNever(c) == Branch(c, "testDown", FALSE, "toOff", "shutdown")

TestShuttingDown(c) == Branch(c, "testDown", s_kernelState = "SHUTTING_DOWN", "toOff", "shutdown")

ShutdownCall(c) ==
  /\ At(c, "shutdown")
  /\ ShutdownEnter(c) \/ DownStep(c)
  /\ UNCHANGED kernelVars

RunReturn(c) ==
  /\ bpc[c] \in DownResult
  /\ Branch(c, "shutdown", TRUE, "done", "done")

(* A registered stop condition becomes true.                                *)
StopFires ==
  /\ ~stop /\ stop' = TRUE
  /\ UNCHANGED <<syncVars, s_kernelState, pc, seen, s_coreInitialized,
                 s_safetyAbort, errorLog, crunchVars>>

CoreStep(c) ==
  \/ RunEntry(c) \/ TestConfigured(c) \/ InitTasks(c) \/ TestInitializing(c) \/ InitEnd(c)
  \/ TransitionLoad(c) \/ TransitionStore(c)
  \/ StartupCall(c) \/ StartupReturn(c)
  \/ FlatTestState(c) \/ FlatTestStop(c) \/ Tick(c)
  \/ Configure(c) \/ PreAbort(c) \/ CrunchTestState(c) \/ CrunchTestStop(c)
  \/ CrunchAbort(c) \/ CrunchBegin(c) \/ CrunchClean(c) \/ CrunchOverrun(c)
  \/ TestRunning(c) \/ TestShuttingDown(c) \/ ShutdownCall(c) \/ RunReturn(c)

Next == StopFires \/ \E c \in Core : CoreStep(c)

Spec == Init /\ [][Next]_vars

(* Every core is a thread or a processor of its own that keeps executing.   *)
FairSpec == Spec /\ \A c \in Core : WF_vars(CoreStep(c))
-----------------------------------------------------------------------------
(* When startupBarrier says true on a core, every core has completed init():*)
(* no scan, however interleaved, mistakes an unborn or initialising peer    *)
(* for a ready one.  And shutdownBarrier says true only when every core has *)
(* left its dispatch loop for good, provided no core ever entered ERROR.    *)
BarriersMeanAll ==
  \A c \in Core :
    /\ bpc[c] = "passed" => \A d \in Core : s_coreInitialized[d]
    /\ bpc[c] = "terminated" /\ errored = {} => \A d \in Core : pc[d] \in {"shutdown", "done"}

(* At most one crunch() begins on a core after the safety abort was         *)
(* signalled: the one whose check preceded the signal.                      *)
AbortLatency == \A c \in Core : late[c] <= 1

(* Whatever the cores' shutdown transitions did to each other, the kernel   *)
(* is in SHUTDOWN once run() has returned everywhere.                       *)
EndsInShutdown == (\A c \in Core : pc[c] = "done") => s_kernelState = "SHUTDOWN"

(* A stop condition ends run() on every core, in every mode: no barrier,    *)
(* loop or lost transition keeps a core back.                               *)
StopEndsRun == stop ~> \A c \in Core : pc[c] = "done"
-----------------------------------------------------------------------------
(* What makes the properties above inductive.                               *)

(* Where a core has not finished init().                                    *)
BeforeReady == {"entry", "testConfigured", "toInit", "initTasks", "testInit", "toRun", "initEnd"}

(* A core stands in the barriers only where run() called them, and shows    *)
(* the lifecycle state of that place; the dispatcher runs with a task.      *)
PlaceInv ==
  \A c \in Core :
    /\ pc[c] \notin BeforeReady => s_coreInitialized[c]
    /\ bpc[c] \notin {"unborn", "init"} => pc[c] \notin BeforeReady
    /\ m_states[c] \in {"READY", "ERROR", "SHUTDOWN"} => pc[c] \notin BeforeReady
    /\ m_states[c] = "SHUTDOWN" => pc[c] \in {"shutdown", "done"}
    /\ m_states[c] = "ERROR" => c \in errored
    /\ pc[c] \in CrunchLoop => m_task \in Core

(* What a scan that is under way has established of the cores behind it.    *)
ScanInv ==
  \A c, d \in Core :
    /\ bpc[c] = "startReady" /\ d < scan[c] => s_coreInitialized[d]
    /\ bpc[c] = "passed" => s_coreInitialized[d]
    /\ bpc[c] = "downScan" /\ errored = {} /\ d < scan[c] => pc[d] \in {"shutdown", "done"}
    /\ bpc[c] = "terminated" /\ errored = {} => pc[d] \in {"shutdown", "done"}

(* A core that began a crunch() after the signal meets it at its next test. *)
AbortInv ==
  \A c \in Core : /\ late[c] <= 1
                  /\ late[c] = 1 => s_safetyAbort
                  /\ pc[c] = "crunch" => late[c] = 0

(* Core c has yet to take the kernel out of the state it is in: its next    *)
(* test or transition, however stale what it saw, moves the state on.       *)
MovesOn(c) ==
  \/ /\ s_kernelState = "CONFIGURED"
     /\ pc[c] \in {"entry", "testConfigured", "toInit"}
  \/ /\ s_kernelState = "INITIALIZING"
     /\ pc[c] \in {"initTasks", "testInit", "toRun"}
     /\ seen[c] \in {"none", "INITIALIZING"}
  \/ /\ s_kernelState = "RUNNING"
     /\ pc[c] \notin {"testDown", "toOff", "shutdown", "done"}
     /\ pc[c] = "toDown" => seen[c] \in {"none", "RUNNING"}
  \/ /\ s_kernelState = "SHUTTING_DOWN"
     /\ pc[c] \in {"testDown", "toOff"}
     /\ seen[c] \in {"none", "SHUTTING_DOWN"}

(* In every state but SHUTDOWN some core has yet to move the kernel on; in  *)
(* CONFIGURED that is every core, and none of them is initialised.          *)
StateInv ==
  /\ \A c \in Core : seen[c] # "none" => pc[c] \in DOMAIN Target
  /\ s_kernelState = "CONFIGURED" =>
       \A c \in Core : /\ MovesOn(c) /\ ~s_coreInitialized[c]
                       /\ seen[c] \in {"none", "CONFIGURED"}
  /\ s_kernelState # "SHUTDOWN" => \E c \in Core : MovesOn(c)

IInv == TypeOK /\ PollInv /\ PlaceInv /\ ScanInv /\ AbortInv /\ StateInv
-----------------------------------------------------------------------------
(* Statements of comments and documents that the code does not keep.        *)

(* transitionTo documents that transitions outside the table are rejected:  *)
(* the kernel state changes only along the table.                           *)
TransitionsFollowTable ==
  [][s_kernelState' # s_kernelState => Valid(s_kernelState, s_kernelState')]_vars

(* startupBarrier documents that it returns true if all cores reached READY *)
(* within the timeout: a poll fails only on a peer that is not there yet.   *)
PollFailsOnLatePeer ==
  [][\A c \in Core : bpc[c] = "startReady" /\ bpc'[c] = "startPoll" =>
       m_states[scan[c]] \in {"UNBORN", "INIT", "ERROR"}]_vars

(* shutdownBarrier documents that both cores finish outstanding work before *)
(* shared resources are torn down.                                          *)
TornDownAfterWork ==
  \A c \in Core : bpc[c] = "terminated" => \A d \in Core : pc[d] \notin Dispatch

(* ICrunchTask documents onCrunchAbort as called when the safety abort      *)
(* fires: no crunch core leaves its loop under an abort without the call.   *)
AbortReachesTask ==
  [][\A c \in Core :
       pc[c] \in CrunchLoop /\ pc'[c] \notin CrunchLoop /\ s_safetyAbort => c \in aborted']_vars

(* ICrunchTask documents a task with exclusive use of its core.             *)
CrunchOnOwnCore == \A c \in Core : crunching[c] \in {c, NoTask}
=============================================================================
