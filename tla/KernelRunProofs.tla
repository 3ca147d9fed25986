--------------------------- MODULE KernelRunProofs ---------------------------
(***************************************************************************)
(* The run loop on any number of cores, in any mix of modes and for any    *)
(* number of barrier polls.                                                *)
(***************************************************************************)
EXTENDS KernelRun, TLAPS

(* The calls of transitionTo, and where each continues.                     *)
LEMMA TargetLemma ==
  /\ DOMAIN Target = {"toInit", "toRun", "toDown", "toOff"}
  /\ \A l \in DOMAIN Target : Target[l] \in KernelState /\ After[l] \in PC
BY DEF Target, After, KernelState, PC

(* Which transition leads from which state.                                 *)
LEMMA CallsLemma ==
  /\ Target["toInit"] = "INITIALIZING" /\ After["toInit"] = "initTasks"
  /\ Target["toRun"] = "RUNNING" /\ After["toRun"] = "initEnd"
  /\ Target["toDown"] = "SHUTTING_DOWN" /\ After["toDown"] = "testDown"
  /\ Target["toOff"] = "SHUTDOWN" /\ After["toOff"] = "shutdown"
BY DEF Target, After

(* A branch of run() keeps the types.                                       *)
LEMMA BranchType ==
  ASSUME TypeOK, NEW c \in Core, NEW from, NEW cond, NEW yes \in PC, NEW no \in PC,
         Branch(c, from, cond, yes, no)
  PROVE  TypeOK'
BY DEF Branch, At, To, TypeOK, SyncTypeOK, syncVars, crunchVars

(* The next core of a scan that has not reached the last one.               *)
LEMMA CoreLemma ==
  /\ 0 \in Core
  /\ \A d \in Core : d # N_CORES - 1 => d + 1 \in Core
BY CoresAssumption DEF Core

(* The cores behind a scan, before and after a load.                        *)
LEMMA BehindLemma ==
  ASSUME NEW k \in Core, NEW d \in Core
  PROVE  /\ ~ d < 0
         /\ d < k + 1 => d < k \/ d = k
         /\ k = N_CORES - 1 => d < k \/ d = k
BY CoresAssumption DEF Core

(* One load of a scan keeps the types, the polls and the scan's start.      *)
LEMMA ScanType ==
  ASSUME SyncTypeOK, PollInv, NEW c \in Core, NEW from \in {"startErr", "startReady", "downScan"},
         NEW decided, NEW hit \in Poll \cup StartResult, NEW end \in Poll \cup StartResult \cup DownResult,
         ScanStep(c, from, decided, hit, end)
  PROVE  SyncTypeOK' /\ PollInv'
<1>1. SyncTypeOK'
  BY CoreLemma DEF ScanStep, SyncTypeOK
<1>2. PollInv'
  BY DEF ScanStep, SyncTypeOK, PollInv
<1> QED
  BY <1>1, <1>2

(* The delay of a barrier keeps them: there was a poll left.                *)
LEMMA DelayType ==
  ASSUME SyncTypeOK, PollInv, NEW c \in Core, StartDelay(c) \/ DownDelay(c)
  PROVE  SyncTypeOK' /\ PollInv'
<1>1. /\ elapsed[c] + 1 \in 0 .. Polls
      /\ scan[c] = 0
  BY PollsAssumption DEF StartDelay, DownDelay, SyncTypeOK, PollInv
<1>2. SyncTypeOK'
  BY <1>1 DEF StartDelay, DownDelay, SyncTypeOK, Poll, DownResult
<1>3. PollInv'
  BY <1>1 DEF StartDelay, DownDelay, SyncTypeOK, PollInv
<1> QED
  BY <1>2, <1>3

(* What a core does in the startup barrier keeps them.                      *)
LEMMA StartType ==
  ASSUME SyncTypeOK, PollInv, NEW c \in Core, StartEnter(c) \/ StartStep(c)
  PROVE  SyncTypeOK' /\ PollInv'
<1> USE DEF Poll, StartResult, DownResult
<1>1. CASE StartEnter(c)
  BY <1>1, PollsAssumption DEF StartEnter, Goto, SetState, SyncTypeOK, PollInv, CoreState
<1>2. CASE ScanAnyError(c)
  BY <1>2, ScanType DEF ScanAnyError
<1>3. CASE ScanAllReady(c)
  BY <1>3, ScanType DEF ScanAllReady
<1>4. CASE StartDelay(c)
  BY <1>4, DelayType
<1>5. CASE StartPeerError(c) \/ StartTimeout(c)
  BY <1>5 DEF StartPeerError, StartTimeout, SetError, Goto, SetState, SyncTypeOK, PollInv, CoreState
<1> QED
  BY <1>1, <1>2, <1>3, <1>4, <1>5 DEF StartStep

(* So does what it does in the shutdown barrier.                            *)
LEMMA DownType ==
  ASSUME SyncTypeOK, PollInv, NEW c \in Core, ShutdownEnter(c) \/ DownStep(c)
  PROVE  SyncTypeOK' /\ PollInv'
<1> USE DEF Poll, StartResult, DownResult
<1>1. CASE ShutdownEnter(c)
  BY <1>1, PollsAssumption DEF ShutdownEnter, SetState, SyncTypeOK, PollInv, CoreState
<1>2. CASE ScanAllTerminated(c)
  BY <1>2, ScanType DEF ScanAllTerminated
<1>3. CASE DownDelay(c)
  BY <1>3, DelayType
<1> QED
  BY <1>1, <1>2, <1>3 DEF DownStep
-----------------------------------------------------------------------------
(* Every step of run() keeps the types.                                     *)
LEMMA StepType ==
  ASSUME TypeOK, PollInv, PlaceInv, NEW c \in Core, CoreStep(c)
  PROVE  TypeOK' /\ PollInv'
<1> DEFINE Quiet == UNCHANGED syncVars => PollInv'
<1>q. Quiet
  BY DEF syncVars, PollInv
<1>b. ASSUME NEW from, NEW cond, NEW yes \in PC, NEW no \in PC, Branch(c, from, cond, yes, no)
      PROVE  TypeOK' /\ PollInv'
  BY <1>b, <1>q, BranchType DEF Branch
<1>1. CASE RunEntry(c)
  BY <1>1 DEF RunEntry, SetInit, Goto, SetState, To, TypeOK, SyncTypeOK, PollInv, CoreState, PC, crunchVars
<1>2. CASE TestConfigured(c) \/ InitTasks(c) \/ TestInitializing(c)
  BY <1>2, <1>b DEF TestConfigured, InitTasks, TestInitializing, PC, Target
<1>3. CASE InitEnd(c)
  BY <1>3, <1>q DEF InitEnd, To, TypeOK, SyncTypeOK, syncVars, crunchVars, PC
<1>4. CASE TransitionLoad(c)
  BY <1>4, <1>q DEF TransitionLoad, TypeOK, SyncTypeOK, syncVars, crunchVars
<1>5. CASE TransitionStore(c)
  <2>1. Target[pc[c]] \in KernelState /\ After[pc[c]] \in PC
    BY <1>5, TargetLemma DEF TransitionStore
  <2>2. s_kernelState' \in KernelState /\ pc' \in [Core -> PC]
    BY <1>5, <2>1 DEF TransitionStore, To, TypeOK
  <2> QED
    BY <1>5, <1>q, <2>2 DEF TransitionStore, TypeOK, SyncTypeOK, syncVars, crunchVars
<1>6. CASE StartupCall(c)
  BY <1>6, StartType DEF StartupCall, TypeOK, kernelVars, crunchVars
<1>7. CASE StartupReturn(c)
  BY <1>7, <1>b DEF StartupReturn, PC, Dispatch, FlatLoop
<1>8. CASE FlatTestState(c) \/ FlatTestStop(c)
  BY <1>8, <1>b DEF FlatTestState, FlatTestStop, PC, Dispatch, FlatLoop
<1>9. CASE Tick(c)
  BY <1>9, <1>q DEF Tick, To, TypeOK, SyncTypeOK, syncVars, crunchVars, PC, Dispatch, FlatLoop
<1>10. CASE Configure(c)
  BY <1>10, <1>q, OverrunAssumption
     DEF Configure, To, TypeOK, SyncTypeOK, syncVars, PC, Dispatch, CrunchLoop
<1>11. CASE PreAbort(c) \/ CrunchAbort(c)
  <2>1. m_task \in Core
    BY <1>11 DEF PreAbort, CrunchAbort, CrunchTestAbort, At, PlaceInv, CrunchLoop
  <2>2. pc' \in [Core -> PC]
    BY <1>11 DEF PreAbort, CrunchAbort, CrunchTestAbort, To, TypeOK, PC, Dispatch, CrunchLoop
  <2> QED
    BY <1>11, <1>q, <2>1, <2>2
       DEF PreAbort, CrunchAbort, CrunchTestAbort, TypeOK, SyncTypeOK, syncVars
<1>12. CASE CrunchTestState(c) \/ CrunchTestStop(c)
  BY <1>12, <1>b DEF CrunchTestState, CrunchTestStop, PC, Dispatch, CrunchLoop
<1>13. CASE CrunchBegin(c)
  BY <1>13, <1>q DEF CrunchBegin, To, TypeOK, SyncTypeOK, syncVars, PC, Dispatch, CrunchLoop
<1>14. CASE CrunchClean(c)
  BY <1>14, <1>q, OverrunAssumption
     DEF CrunchClean, CrunchReturn, To, TypeOK, SyncTypeOK, syncVars, PC, Dispatch, CrunchLoop
<1>15. CASE CrunchOverrun(c)
  <2>1. m_task \in Core
    BY <1>15 DEF CrunchOverrun, CrunchReturn, At, PlaceInv, CrunchLoop
  <2>2. consecutive' \in 0 .. OverrunWidth - 1
    BY <1>15, OverrunAssumption DEF CrunchOverrun, TypeOK
  <2>3. pc' \in [Core -> PC]
    BY <1>15 DEF CrunchOverrun, To, TypeOK, PC, Dispatch, CrunchLoop
  <2> QED
    BY <1>15, <1>q, <2>1, <2>2, <2>3
       DEF CrunchOverrun, CrunchReturn, TypeOK, SyncTypeOK, syncVars
<1>16. CASE TestRunning(c) \/ TestShuttingDown(c)
  BY <1>16, <1>b DEF TestRunning, TestShuttingDown, PC, Target
<1>17. CASE ShutdownCall(c)
  BY <1>17, DownType DEF ShutdownCall, TypeOK, kernelVars, crunchVars
<1>18. CASE RunReturn(c)
  BY <1>18, <1>b DEF RunReturn, PC
<1> QED
  BY <1>1, <1>2, <1>3, <1>4, <1>5, <1>6, <1>7, <1>8, <1>9, <1>10, <1>11, <1>12, <1>13,
     <1>14, <1>15, <1>16, <1>17, <1>18 DEF CoreStep

(* Every step keeps the barriers and the lifecycle states where run() put   *)
(* them.                                                                    *)
LEMMA StepPlace ==
  ASSUME TypeOK, PlaceInv, NEW c \in Core, CoreStep(c)
  PROVE  PlaceInv'
<1> USE DEF TypeOK, SyncTypeOK, PlaceInv, BeforeReady, CrunchLoop, Branch, At, To,
            syncVars, crunchVars
<1>1. CASE RunEntry(c)
  BY <1>1 DEF RunEntry, SetInit, Goto, SetState
<1>2. CASE TestConfigured(c) \/ InitTasks(c) \/ TestInitializing(c)
  BY <1>2 DEF TestConfigured, InitTasks, TestInitializing
<1>3. CASE InitEnd(c)
  BY <1>3 DEF InitEnd
<1>4. CASE TransitionLoad(c)
  BY <1>4 DEF TransitionLoad
<1>5. CASE TransitionStore(c)
  BY <1>5, TargetLemma, CallsLemma DEF TransitionStore
<1>6. CASE StartupCall(c)
  BY <1>6 DEF StartupCall, StartEnter, StartStep, ScanAnyError, ScanAllReady, ScanStep, StartDelay,
              StartPeerError, StartTimeout, SetError, Goto, SetState, kernelVars
<1>7. CASE StartupReturn(c)
  BY <1>7 DEF StartupReturn
<1>8. CASE FlatTestState(c) \/ FlatTestStop(c)
  BY <1>8 DEF FlatTestState, FlatTestStop
<1>9. CASE Tick(c)
  BY <1>9 DEF Tick
<1>10. CASE Configure(c)
  BY <1>10 DEF Configure
<1>11. CASE PreAbort(c) \/ CrunchAbort(c)
  BY <1>11 DEF PreAbort, CrunchAbort, CrunchTestAbort
<1>12. CASE CrunchTestState(c) \/ CrunchTestStop(c)
  BY <1>12 DEF CrunchTestState, CrunchTestStop
<1>13. CASE CrunchBegin(c)
  BY <1>13 DEF CrunchBegin
<1>14. CASE CrunchClean(c) \/ CrunchOverrun(c)
  BY <1>14 DEF CrunchClean, CrunchOverrun, CrunchReturn
<1>15. CASE TestRunning(c) \/ TestShuttingDown(c)
  BY <1>15 DEF TestRunning, TestShuttingDown
<1>16. CASE ShutdownCall(c)
  BY <1>16 DEF ShutdownCall, ShutdownEnter, DownStep, ScanAllTerminated, ScanStep, DownDelay,
               SetState, kernelVars
<1>17. CASE RunReturn(c)
  BY <1>17 DEF RunReturn
<1> QED
  BY <1>1, <1>2, <1>3, <1>4, <1>5, <1>6, <1>7, <1>8, <1>9, <1>10, <1>11, <1>12, <1>13,
     <1>14, <1>15, <1>16, <1>17 DEF CoreStep

(* Every step keeps the bound on crunch() calls begun after the signal.     *)
LEMMA StepAbort ==
  ASSUME TypeOK, AbortInv, NEW c \in Core, CoreStep(c)
  PROVE  AbortInv'
<1> USE DEF TypeOK, AbortInv, Branch, At, To, crunchVars
<1>1. CASE RunEntry(c) \/ InitEnd(c) \/ TransitionLoad(c)
  BY <1>1 DEF RunEntry, InitEnd, TransitionLoad
<1>2. CASE TestConfigured(c) \/ InitTasks(c) \/ TestInitializing(c)
  BY <1>2 DEF TestConfigured, InitTasks, TestInitializing
<1>3. CASE TransitionStore(c)
  BY <1>3, TargetLemma, CallsLemma DEF TransitionStore
<1>4. CASE StartupCall(c) \/ ShutdownCall(c)
  BY <1>4 DEF StartupCall, ShutdownCall, kernelVars
<1>5. CASE StartupReturn(c) \/ RunReturn(c)
  BY <1>5 DEF StartupReturn, RunReturn
<1>6. CASE FlatTestState(c) \/ FlatTestStop(c)
  BY <1>6 DEF FlatTestState, FlatTestStop
<1>7. CASE Tick(c)
  BY <1>7 DEF Tick
<1>8. CASE Configure(c)
  BY <1>8 DEF Configure
<1>9. CASE PreAbort(c) \/ CrunchAbort(c)
  BY <1>9 DEF PreAbort, CrunchAbort, CrunchTestAbort
<1>10. CASE CrunchTestState(c) \/ CrunchTestStop(c)
  BY <1>10 DEF CrunchTestState, CrunchTestStop
<1>11. CASE CrunchBegin(c)
  BY <1>11 DEF CrunchBegin
<1>12. CASE CrunchClean(c) \/ CrunchOverrun(c)
  BY <1>12 DEF CrunchClean, CrunchOverrun, CrunchReturn
<1>13. CASE TestRunning(c) \/ TestShuttingDown(c)
  BY <1>13 DEF TestRunning, TestShuttingDown
<1> QED
  BY <1>1, <1>2, <1>3, <1>4, <1>5, <1>6, <1>7, <1>8, <1>9, <1>10, <1>11, <1>12, <1>13 DEF CoreStep

(* Outside the barriers a step leaves their scans alone, or is SetInit.     *)
LEMMA OutsideBarriers ==
  ASSUME TypeOK, NEW c \in Core, CoreStep(c)
  PROVE  \/ RunEntry(c) \/ StartupCall(c) \/ ShutdownCall(c)
         \/ UNCHANGED syncVars
BY DEF CoreStep, TestConfigured, InitTasks, TestInitializing, InitEnd, TransitionLoad,
       TransitionStore, StartupReturn, FlatTestState, FlatTestStop, Tick, Configure, PreAbort,
       CrunchAbort, CrunchTestAbort, CrunchTestState, CrunchTestStop, CrunchBegin, CrunchClean,
       CrunchOverrun, CrunchReturn, TestRunning, TestShuttingDown, RunReturn, Branch

(* What the scans look for does not go away: a core stays initialised, and  *)
(* one that is shutting down for good stays there.                          *)
LEMMA StepStable ==
  ASSUME TypeOK, NEW c \in Core, CoreStep(c), NEW d \in Core
  PROVE  /\ s_coreInitialized[d] => s_coreInitialized'[d]
         /\ pc[d] \in {"shutdown", "done"} => pc'[d] \in {"shutdown", "done"}
<1> USE DEF TypeOK, Branch, At, To
<1>1. CASE RunEntry(c) \/ InitEnd(c) \/ TransitionLoad(c)
  BY <1>1 DEF RunEntry, InitEnd, TransitionLoad
<1>2. CASE TestConfigured(c) \/ InitTasks(c) \/ TestInitializing(c)
  BY <1>2 DEF TestConfigured, InitTasks, TestInitializing
<1>3. CASE TransitionStore(c)
  BY <1>3, TargetLemma DEF TransitionStore
<1>4. CASE StartupCall(c) \/ ShutdownCall(c)
  BY <1>4 DEF StartupCall, ShutdownCall, kernelVars
<1>5. CASE StartupReturn(c) \/ RunReturn(c)
  BY <1>5 DEF StartupReturn, RunReturn
<1>6. CASE FlatTestState(c) \/ FlatTestStop(c) \/ Tick(c)
  BY <1>6 DEF FlatTestState, FlatTestStop, Tick
<1>7. CASE Configure(c) \/ PreAbort(c) \/ CrunchAbort(c)
  BY <1>7 DEF Configure, PreAbort, CrunchAbort, CrunchTestAbort
<1>8. CASE CrunchTestState(c) \/ CrunchTestStop(c)
  BY <1>8 DEF CrunchTestState, CrunchTestStop
<1>9. CASE CrunchBegin(c) \/ CrunchClean(c) \/ CrunchOverrun(c)
  BY <1>9 DEF CrunchBegin, CrunchClean, CrunchOverrun, CrunchReturn
<1>10. CASE TestRunning(c) \/ TestShuttingDown(c)
  BY <1>10 DEF TestRunning, TestShuttingDown
<1> QED
  BY <1>1, <1>2, <1>3, <1>4, <1>5, <1>6, <1>7, <1>8, <1>9, <1>10 DEF CoreStep

(* Every step keeps what the scans have established: a load that does not   *)
(* decide its scan saw a state only an initialised, or a terminated, core   *)
(* has.                                                                     *)
LEMMA StepScan ==
  ASSUME TypeOK, PollInv, PlaceInv, ScanInv, NEW c \in Core, CoreStep(c)
  PROVE  ScanInv'
<1> USE DEF TypeOK, SyncTypeOK, ScanInv
<1>1. CASE UNCHANGED syncVars
  BY <1>1, StepStable DEF syncVars
<1>2. CASE RunEntry(c)
  BY <1>2, StepStable DEF RunEntry, SetInit, Goto
<1>3. CASE StartupCall(c)
  <2> USE <1>3 DEF StartupCall, kernelVars
  <2>1. CASE StartEnter(c)
    BY <2>1 DEF StartEnter, Goto
  <2>2. CASE ScanAnyError(c)
    BY <2>2, BehindLemma DEF ScanAnyError, ScanStep
  <2>3. CASE ScanAllReady(c)
    <3>1. m_states[scan[c]] = "READY" => s_coreInitialized[scan[c]]
      BY DEF PlaceInv
    <3>2. \A d \in Core : d < scan[c] => s_coreInitialized[d]
      BY <2>3 DEF ScanAllReady, ScanStep
    <3> QED
      BY <2>3, <3>1, <3>2, BehindLemma DEF ScanAllReady, ScanStep
  <2>4. CASE StartDelay(c)
    BY <2>4 DEF StartDelay
  <2>5. CASE StartPeerError(c)
    BY <2>5 DEF StartPeerError, SetError, Goto
  <2>6. CASE StartTimeout(c)
    BY <2>6 DEF StartTimeout, SetError, Goto
  <2> QED
    BY <2>1, <2>2, <2>3, <2>4, <2>5, <2>6 DEF StartStep
<1>4. CASE ShutdownCall(c)
  <2> USE <1>4 DEF ShutdownCall, kernelVars
  <2>1. CASE ShutdownEnter(c)
    BY <2>1, BehindLemma DEF ShutdownEnter, PollInv, StartResult
  <2>2. CASE ScanAllTerminated(c)
    <3>1. errored = {} /\ m_states[scan[c]] \in {"SHUTDOWN", "ERROR"} =>
            pc[scan[c]] \in {"shutdown", "done"}
      BY DEF PlaceInv
    <3>2. errored = {} => \A d \in Core : d < scan[c] => pc[d] \in {"shutdown", "done"}
      BY <2>2 DEF ScanAllTerminated, ScanStep
    <3> QED
      BY <2>2, <3>1, <3>2, BehindLemma DEF ScanAllTerminated, ScanStep
  <2>3. CASE DownDelay(c)
    BY <2>3, BehindLemma DEF DownDelay, PollInv
  <2> QED
    BY <2>1, <2>2, <2>3 DEF DownStep
<1> QED
  BY <1>1, <1>2, <1>3, <1>4, OutsideBarriers

(* A step of a core leaves the others where they are.                       *)
LEMMA StepLocal ==
  ASSUME TypeOK, NEW c \in Core, CoreStep(c), NEW d \in Core, d # c
  PROVE  pc'[d] = pc[d] /\ seen'[d] = seen[d] /\ s_coreInitialized'[d] = s_coreInitialized[d]
BY DEF TypeOK, CoreStep, RunEntry, TestConfigured, InitTasks, TestInitializing, InitEnd,
       TransitionLoad, TransitionStore, StartupCall, StartupReturn, FlatTestState, FlatTestStop,
       Tick, Configure, PreAbort, CrunchAbort, CrunchTestAbort, CrunchTestState, CrunchTestStop,
       CrunchBegin, CrunchClean, CrunchOverrun, CrunchReturn, TestRunning, TestShuttingDown,
       ShutdownCall, RunReturn, Branch, To, kernelVars

(* A step that does not store the state keeps the core's own claims: it     *)
(* still has to move the kernel on if it had to before.                     *)
LEMMA StepKeeps ==
  ASSUME TypeOK, PlaceInv, StateInv, NEW c \in Core, CoreStep(c), ~ TransitionStore(c)
  PROVE  /\ s_kernelState' = s_kernelState
         /\ seen'[c] # "none" => pc'[c] \in DOMAIN Target
         /\ MovesOn(c) => MovesOn(c)'
         /\ s_kernelState = "CONFIGURED" => /\ s_coreInitialized'[c] = s_coreInitialized[c]
                                           /\ seen'[c] \in {"none", "CONFIGURED"}
<1> USE TargetLemma DEF TypeOK, StateInv, MovesOn, Branch, At, To
<1>1. CASE RunEntry(c)
  BY <1>1 DEF RunEntry
<1>2. CASE InitEnd(c) \/ TransitionLoad(c)
  BY <1>2 DEF InitEnd, TransitionLoad
<1>3. CASE TestConfigured(c) \/ InitTasks(c) \/ TestInitializing(c)
  BY <1>3 DEF TestConfigured, InitTasks, TestInitializing
<1>4. CASE StartupCall(c) \/ ShutdownCall(c)
  BY <1>4 DEF StartupCall, ShutdownCall, kernelVars
<1>5. CASE StartupReturn(c) \/ RunReturn(c)
  BY <1>5 DEF StartupReturn, RunReturn
<1>6. CASE FlatTestState(c) \/ FlatTestStop(c) \/ Tick(c)
  <2>1. CASE FlatTestState(c)
    BY <2>1 DEF FlatTestState
  <2>2. CASE FlatTestStop(c)
    BY <2>2 DEF FlatTestStop
  <2>3. CASE Tick(c)
    BY <2>3 DEF Tick
  <2> QED
    BY <1>6, <2>1, <2>2, <2>3
<1>7. CASE Configure(c) \/ PreAbort(c) \/ CrunchAbort(c)
  BY <1>7 DEF Configure, PreAbort, CrunchAbort, CrunchTestAbort
<1>8. CASE CrunchTestState(c) \/ CrunchTestStop(c)
  BY <1>8 DEF CrunchTestState, CrunchTestStop
<1>9. CASE CrunchBegin(c) \/ CrunchClean(c) \/ CrunchOverrun(c)
  BY <1>9 DEF CrunchBegin, CrunchClean, CrunchOverrun, CrunchReturn
<1>10. CASE TestRunning(c) \/ TestShuttingDown(c)
  BY <1>10 DEF TestRunning, TestShuttingDown
<1> QED
  BY <1>1, <1>2, <1>3, <1>4, <1>5, <1>6, <1>7, <1>8, <1>9, <1>10 DEF CoreStep

(* A store either moves the kernel on, and the storing core has the next    *)
(* move, or it found its transition invalid; then the storing core was not  *)
(* the one that had to move.                                                *)
LEMMA StoreMoves ==
  ASSUME TypeOK, StateInv, NEW c \in Core, TransitionStore(c)
  PROVE  /\ seen'[c] = "none"
         /\ s_kernelState' # "CONFIGURED"
         /\ \/ s_kernelState' \in {"INITIALIZING", "RUNNING", "SHUTTING_DOWN"} /\ MovesOn(c)'
            \/ s_kernelState' = "SHUTDOWN"
            \/ s_kernelState' = s_kernelState /\ ~ MovesOn(c)
BY TargetLemma, CallsLemma
   DEF TypeOK, StateInv, TransitionStore, MovesOn, To, Valid, KernelState

(* Every step leaves a core that has to move the kernel on.                 *)
LEMMA StepState ==
  ASSUME TypeOK, PlaceInv, StateInv, NEW c \in Core, CoreStep(c)
  PROVE  StateInv'
<1> USE StepLocal DEF StateInv
<1>o. \A d \in Core \ {c} : s_kernelState' = s_kernelState /\ MovesOn(d) => MovesOn(d)'
  BY DEF MovesOn
<1>1. CASE TransitionStore(c)
  BY <1>1, <1>o, StoreMoves
<1>2. CASE ~ TransitionStore(c)
  BY <1>2, <1>o, StepKeeps
<1> QED
  BY <1>1, <1>2
-----------------------------------------------------------------------------
(* The invariant holds when run() is entered, whatever init() main called.  *)
LEMMA InitIInv == Init => IInv
<1> SUFFICES ASSUME Init PROVE IInv
  OBVIOUS
<1> USE DEF Init, SyncInit
<1>1. SyncTypeOK
  BY CoreLemma, PollsAssumption DEF SyncTypeOK, CoreState
<1>4. consecutive \in 0 .. OverrunWidth - 1
  BY OverrunAssumption
<1>5. /\ s_kernelState \in KernelState /\ pc \in [Core -> PC]
      /\ seen \in [Core -> KernelState \cup {"none"}]
  BY DEF KernelState, PC
<1>6. /\ s_coreInitialized \in [Core -> BOOLEAN]
      /\ stop \in BOOLEAN /\ s_safetyAbort \in BOOLEAN
  OBVIOUS
<1>7. /\ crunching \in [Core -> Core \cup {NoTask}]
      /\ late \in [Core -> 0 .. 2]
  OBVIOUS
<1>8. TypeOK
  BY <1>1, <1>4, <1>5, <1>6, <1>7 DEF TypeOK
<1>2. PollInv /\ PlaceInv /\ ScanInv /\ AbortInv
  BY DEF PollInv, PlaceInv, ScanInv, AbortInv, BeforeReady, CrunchLoop
<1>3. StateInv
  BY CoreLemma DEF StateInv, MovesOn
<1> QED
  BY <1>2, <1>3, <1>8 DEF IInv

(* Every step of a core, and a stop condition that fires, preserve it.      *)
LEMMA NextIInv == IInv /\ [Next]_vars => IInv'
<1> SUFFICES ASSUME IInv, [Next]_vars PROVE IInv'
  OBVIOUS
<1>1. ASSUME NEW c \in Core, CoreStep(c) PROVE IInv'
  BY <1>1, StepType, StepPlace, StepScan, StepAbort, StepState DEF IInv
<1>2. CASE StopFires \/ UNCHANGED vars
  <2> USE <1>2 DEF IInv, StopFires, vars, kernelVars, crunchVars, syncVars
  <2>1. TypeOK'
    BY DEF TypeOK, SyncTypeOK
  <2>2. PollInv' /\ PlaceInv' /\ ScanInv' /\ AbortInv'
    BY DEF PollInv, PlaceInv, ScanInv, AbortInv
  <2>3. StateInv'
    BY DEF StateInv, MovesOn
  <2> QED
    BY <2>1, <2>2, <2>3
<1> QED
  BY <1>1, <1>2 DEF Next

(* The inductive invariant is an invariant of run() on all cores.           *)
THEOREM RunInvariant == Spec => []IInv
BY InitIInv, NextIInv, PTL DEF Spec

(* Every variable of run() keeps its type: no scan leaves the core array,   *)
(* no barrier polls past its timeout, and the dispatcher calls               *)
(* onCrunchAbort on a task, never on nullptr.                               *)
THEOREM RunTypeCorrect == Spec => []TypeOK
<1>1. IInv => TypeOK
  BY DEF IInv
<1> QED
  BY <1>1, RunInvariant, PTL

(* On any number of cores: startupBarrier returns true only after every     *)
(* core completed init(), and, unless some core entered ERROR,              *)
(* shutdownBarrier returns true only after every core left its loop.        *)
THEOREM RunBarriersMeanAll == Spec => []BarriersMeanAll
<1>1. IInv => BarriersMeanAll
  BY DEF IInv, ScanInv, BarriersMeanAll
<1> QED
  BY <1>1, RunInvariant, PTL

(* On any number of cores, at most one crunch() per core begins after the   *)
(* safety abort was signalled.                                              *)
THEOREM RunAbortLatency == Spec => []AbortLatency
<1>1. IInv => AbortLatency
  BY DEF IInv, AbortInv, AbortLatency
<1> QED
  BY <1>1, RunInvariant, PTL

(* However the cores' tests, loads and stores of s_kernelState interleave,  *)
(* and however many transitions are lost or repeated, the kernel is in      *)
(* SHUTDOWN once run() has returned on every core.                          *)
THEOREM RunEndsInShutdown == Spec => []EndsInShutdown
<1>1. IInv => EndsInShutdown
  BY CoreLemma DEF IInv, StateInv, MovesOn, EndsInShutdown
<1> QED
  BY <1>1, RunInvariant, PTL
=============================================================================
