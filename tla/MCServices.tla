----------------------------- MODULE MCServices -----------------------------
(* TLC instance of the kernel's services, which share no state; part selects*)
(* one. Command queue: three physical slots, so that the indices wrap and   *)
(* the ring is both full and empty. Interlocks: three conditions compete for*)
(* a registry of two. Watchdog: a clock that runs to several timeouts. Clock*)
(* users: a raw counter of 16 values that wraps at every point of a run.    *)
(* PID: four sets of gains, one without and one with a negative integral    *)
(* gain, and two of limits, changed at any time. Fault log: two cores that  *)
(* log at any time into a ring of two usable slots, and a context that      *)
(* reads and clears. Telemetry: two contexts with a mutex that any lock(0)  *)
(* may find held, one of which drains, and a ring of two that overwrites.   *)
EXTENDS LockFreeQueue, InterlockManager, WatchdogSync, TimeUtils, ErrorLogger, TelemetryLogger
VARIABLE part

MCGains == {[kp |-> 1, ki |-> 1, kd |-> 0], [kp |-> 0, ki |-> 2, kd |-> 1],
            [kp |-> 1, ki |-> 0, kd |-> 0], [kp |-> -1, ki |-> -1, kd |-> 0]}
MCLimits == {[min |-> -6, max |-> 6], [min |-> 0, max |-> 10]}
MCErrors == {-3, 0, 2}

MCInit ==
    /\ Init /\ InterlockInit /\ WatchInit /\ TimeInit /\ ErrorInit /\ TelemetryInit
    /\ part \in {"queue", "interlocks", "watchdog", "clock", "pid", "faults", "telemetry"}
    /\ part # "interlocks" => \A c \in Condition : safe[c]
    /\ part # "clock" => raw = 0
    /\ part # "pid" => pid = Controller([kp |-> 1, ki |-> 1, kd |-> 0], [min |-> -6, max |-> 6])

MCNext ==
    \/ /\ part = "queue" /\ Next
       /\ UNCHANGED <<part, interlockVars, watchVars, timeVars, errorVars, telemetryVars>>
    \/ /\ part = "interlocks" /\ InterlockNext
       /\ UNCHANGED <<part, vars, watchVars, timeVars, errorVars, telemetryVars>>
    \/ /\ part = "watchdog" /\ WatchNext
       /\ UNCHANGED <<part, vars, interlockVars, timeVars, errorVars, telemetryVars>>
    \/ /\ part = "clock" /\ ClockNext
       /\ UNCHANGED <<part, vars, interlockVars, watchVars, errorVars, telemetryVars>>
    \/ /\ part = "pid" /\ PidNext
       /\ UNCHANGED <<part, vars, interlockVars, watchVars, errorVars, telemetryVars>>
    \/ /\ part = "faults" /\ ErrorNext
       /\ UNCHANGED <<part, vars, interlockVars, watchVars, timeVars, telemetryVars>>
    \/ /\ part = "telemetry" /\ TelemetryNext
       /\ UNCHANGED <<part, vars, interlockVars, watchVars, timeVars, errorVars>>

MCSpec == MCInit /\ [][MCNext]_<<part, vars, interlockVars, watchVars, timeVars, errorVars,
                                 telemetryVars>>
=============================================================================
