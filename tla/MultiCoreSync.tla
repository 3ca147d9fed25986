---------------------------- MODULE MultiCoreSync ----------------------------
(***************************************************************************)
(* osal/sync/MultiCoreSync.h: the per-core lifecycle states and the        *)
(* startup and shutdown barriers.  A core writes only its own atomic; the  *)
(* barriers poll the others one load at a time, so a scan is not a         *)
(* snapshot.  bpc[c] is where core c stands in the calls it makes:         *)
(*                                                                         *)
(*   "unborn" -> "init" -> startupBarrier -> "passed" | "peerError" |      *)
(*   "timedOut" -> shutdownBarrier -> "terminated" | "gaveUp"              *)
(*                                                                         *)
(* Time inside a barrier is the number of polls made: Polls stands for     *)
(* timeoutMs / pollIntervalMs (2000 in System::run).                       *)
(***************************************************************************)
EXTENDS Naturals

CONSTANTS N_CORES,  \* number of cores
          Polls     \* polls a barrier makes before it gives up

ASSUME CoresAssumption == N_CORES \in Nat /\ N_CORES >= 2
ASSUME PollsAssumption == Polls \in Nat \ {0}

Core == 0 .. N_CORES - 1
CoreState == {"UNBORN", "INIT", "READY", "ERROR", "SHUTDOWN"}

VARIABLES m_states,  \* the lifecycle atomics
          bpc,       \* where each core is
          scan,      \* the core whose state it loads next
          elapsed,   \* polls made in the current barrier
          errored    \* cores that ever entered ERROR (history)

syncVars == <<m_states, bpc, scan, elapsed, errored>>

(* Results of startupBarrier and of shutdownBarrier.                        *)
StartResult == {"passed", "peerError", "timedOut"}
DownResult == {"terminated", "gaveUp"}
Poll == {"startErr", "startReady", "startPoll", "startFail", "startLate",
         "downScan", "downPoll"}

SyncTypeOK ==
  /\ m_states \in [Core -> CoreState]
  /\ bpc \in [Core -> {"unborn", "init"} \cup Poll \cup StartResult \cup DownResult]
  /\ scan \in [Core -> Core]
  /\ elapsed \in [Core -> 0 .. Polls]
  /\ errored \in SUBSET Core

SyncInit ==
  /\ m_states = [c \in Core |-> "UNBORN"]
  /\ bpc = [c \in Core |-> "unborn"]
  /\ scan = [c \in Core |-> 0]
  /\ elapsed = [c \in Core |-> 0]
  /\ errored = {}
-----------------------------------------------------------------------------
Goto(c, from, to) == bpc[c] = from /\ bpc' = [bpc EXCEPT ![c] = to]

SetState(c, s) == m_states' = [m_states EXCEPT ![c] = s]

(* One load of a scanning loop: to hit when the load decides the scan, to   *)
(* end when it was the last one, else on to the next core.                  *)
ScanStep(c, from, decided, hit, end) ==
  /\ bpc[c] = from
  /\ IF decided
     THEN bpc' = [bpc EXCEPT ![c] = hit] /\ scan' = [scan EXCEPT ![c] = 0]
     ELSE IF scan[c] = N_CORES - 1
     THEN bpc' = [bpc EXCEPT ![c] = end] /\ scan' = [scan EXCEPT ![c] = 0]
     ELSE scan' = [scan EXCEPT ![c] = @ + 1] /\ UNCHANGED bpc
  /\ UNCHANGED <<m_states, elapsed, errored>>

SetInit(c) ==
  /\ Goto(c, "unborn", "init")
  /\ SetState(c, "INIT")
  /\ UNCHANGED <<scan, elapsed, errored>>

(* startupBarrier *)

StartEnter(c) ==
  /\ Goto(c, "init", "startErr")
  /\ SetState(c, "READY")
  /\ elapsed' = [elapsed EXCEPT ![c] = 0]
  /\ UNCHANGED <<scan, errored>>

ScanAnyError(c) ==
  ScanStep(c, "startErr", m_states[scan[c]] = "ERROR", "startFail", "startReady")

ScanAllBorn(c) ==
  ScanStep(c, "startReady", m_states[scan[c]] = "UNBORN", "startPoll", "passed")

ScanAllReady(c) ==
  ScanStep(c, "startReady", m_states[scan[c]] # "READY", "startPoll", "passed")

StartDelayForever(c) ==
  /\ Goto(c, "startPoll", "startErr")
  /\ UNCHANGED <<m_states, scan, elapsed, errored>>

(* pollDelay, elapsed += pollIntervalMs and the loop test.                  *)
StartDelay(c) ==
  /\ bpc[c] = "startPoll"
  /\ elapsed' = [elapsed EXCEPT ![c] = @ + 1]
  /\ bpc' = [bpc EXCEPT ![c] = IF elapsed'[c] < Polls THEN "startErr" ELSE "startLate"]
  /\ UNCHANGED <<m_states, scan, errored>>

(* setError, with its callback.                                             *)
SetError(c) ==
  /\ SetState(c, "ERROR")
  /\ errored' = errored \cup {c}

StartPeerError(c) ==
  /\ Goto(c, "startFail", "peerError")
  /\ SetError(c)
  /\ UNCHANGED <<scan, elapsed>>

StartTimeout(c) ==
  /\ Goto(c, "startLate", "timedOut")
  /\ SetError(c)
  /\ UNCHANGED <<scan, elapsed>>

(* shutdownBarrier *)

ShutdownEnter(c) ==
  /\ bpc[c] \in StartResult
  /\ bpc' = [bpc EXCEPT ![c] = "downScan"]
  /\ SetState(c, "SHUTDOWN")
  /\ elapsed' = [elapsed EXCEPT ![c] = 0]
  /\ UNCHANGED <<scan, errored>>

ScanAllTerminated(c) ==
  ScanStep(c, "downScan", m_states[scan[c]] \notin {"SHUTDOWN", "ERROR"},
           "downPoll", "terminated")

DownDelay(c) ==
  /\ bpc[c] = "downPoll"
  /\ elapsed' = [elapsed EXCEPT ![c] = @ + 1]
  /\ bpc' = [bpc EXCEPT ![c] = IF elapsed'[c] < Polls THEN "downScan" ELSE "gaveUp"]
  /\ UNCHANGED <<m_states, scan, errored>>

(* What a core does inside a barrier once it has entered it.                *)
StartStep(c) ==
  \/ ScanAnyError(c) \/ ScanAllReady(c) \/ StartDelay(c)
  \/ StartPeerError(c) \/ StartTimeout(c)

DownStep(c) == ScanAllTerminated(c) \/ DownDelay(c)

(* A core inside a barrier has polls left, and its scan starts at core 0.   *)
PollInv ==
  \A c \in Core :
    /\ bpc[c] \in {"startErr", "startReady", "startPoll", "downScan", "downPoll"} =>
         elapsed[c] < Polls
    /\ bpc[c] \notin {"startErr", "startReady", "downScan"} => scan[c] = 0
=============================================================================
