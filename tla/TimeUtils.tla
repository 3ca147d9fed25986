------------------------------ MODULE TimeUtils ------------------------------
(***************************************************************************)
(* The time utilities applications use, each driven by a client that calls  *)
(* it at any time: SystemTimer over a raw counter that wraps, the           *)
(* DeadlineTracker of a periodic job, NonBlockingStopwatch, and the         *)
(* PIDController, whose samples are dt apart.                               *)
(***************************************************************************)
EXTENDS Integers

CONSTANTS
    RawWidth,     \* SputterMicros is modulo this (2^64 in the code)
    Horizon,      \* bound on the true time
    Period, Phase, \* of the deadline tracker
    Step,         \* the true time advances by one of these
    Gains,        \* [kp, ki, kd] that setGains is called with
    Limits,       \* [min, max] that setOutputLimits is called with, doubled
    Errors,       \* setpoint - measured
    Dts,          \* time between samples, in half seconds
    MaxDrift      \* bound on what is integrated without an integral gain

ASSUME TimeUtilsAssumption ==
    /\ RawWidth \in Nat /\ Horizon \in Nat /\ Horizon < RawWidth
    /\ Period \in Nat \ {0} /\ Phase \in Nat /\ Step \subseteq Nat

Mag(x) == IF x < 0 THEN -x ELSE x
HasLargest(S) == \E m \in S : \A x \in S : x <= m

(* Any gains will do, zero and negative ones too, in units of the smallest  *)
(* integral gain that is not zero; limits are in order; and errors, sample  *)
(* distances, limits and gains have a largest one.                          *)
ASSUME PidAssumption ==
    /\ Gains \subseteq [kp : Int, ki : Int, kd : Int]
    /\ Limits \subseteq [min : Int, max : Int] /\ \A l \in Limits : l.min <= l.max
    /\ Errors \subseteq Int /\ Dts \subseteq Nat
    /\ HasLargest({Mag(x) : x \in Errors}) /\ HasLargest(Dts)
    /\ HasLargest({Mag(l.min) : l \in Limits} \cup {Mag(l.max) : l \in Limits})
    /\ HasLargest({Mag(g.kp) : g \in Gains}) /\ HasLargest({Mag(g.kd) : g \in Gains})

VARIABLES
    trueTime,      \* history: time that really passed
    raw,           \* what the MicrosecondSource returns
    m_source, m_epoch,                 \* SystemTimer
    nextActivation, advancing, turns,  \* DeadlineTracker; advance(t) is in its loop, and how often
    ran,                               \* true times of its first and its latest run
    m_startTime, m_running, started,   \* NonBlockingStopwatch; true time of start()
    pid                                \* PIDController

clockVars == <<trueTime, raw, m_source, m_epoch>>
deadlineVars == <<nextActivation, advancing, turns, ran>>
watchVariables == <<m_startTime, m_running, started>>
timeVars == <<clockVars, deadlineVars, watchVariables, pid>>

NoTime == -1
Minus64(a, b) == (a - b + RawWidth) % RawWidth

(***************************************************************************)
(* SystemTimer.                                                             *)
(***************************************************************************)
nowMicros == IF m_source THEN Minus64(raw, m_epoch) ELSE 0

SetClockSource ==
    /\ ~m_source
    /\ m_source' = TRUE /\ m_epoch' = raw
    /\ trueTime' = 0
    /\ UNCHANGED <<raw, deadlineVars, watchVariables, pid>>

TimePasses ==
    /\ m_source /\ advancing = NoTime
    /\ \E d \in Step :
         /\ trueTime + d <= Horizon
         /\ trueTime' = trueTime + d
         /\ raw' = (raw + d) % RawWidth
    /\ UNCHANGED <<m_source, m_epoch, deadlineVars, watchVariables, pid>>

(***************************************************************************)
(* DeadlineTracker: a job that runs when isDue() and then calls advance().  *)
(***************************************************************************)
DeadlineInit ==
    /\ m_source /\ nextActivation = NoTime
    /\ nextActivation' = nowMicros + Phase
    /\ ran' = <<nowMicros + Phase, NoTime>>
    /\ UNCHANGED <<clockVars, advancing, turns, watchVariables, pid>>

isDue(t) == nextActivation # NoTime /\ t >= nextActivation

AdvanceCall ==
    /\ advancing = NoTime /\ isDue(nowMicros)
    /\ advancing' = nowMicros
    /\ nextActivation' = nextActivation + Period
    /\ turns' = 0
    /\ ran' = <<ran[1], nowMicros>>
    /\ UNCHANGED <<clockVars, watchVariables, pid>>

\* Mutant: the loop leaves an activation that is already due.
AdvanceLateLoop == advancing # NoTime /\ nextActivation < advancing
AdvanceLoop == advancing # NoTime /\ nextActivation <= advancing

AdvanceSkip ==
    /\ AdvanceLoop
    /\ nextActivation' = nextActivation + Period
    /\ turns' = turns + 1
    /\ UNCHANGED <<clockVars, advancing, ran, watchVariables, pid>>

AdvanceReturn ==
    /\ advancing # NoTime /\ ~AdvanceLoop
    /\ advancing' = NoTime
    /\ UNCHANGED <<clockVars, nextActivation, turns, ran, watchVariables, pid>>

timeUntilNext(t) == IF nextActivation > t THEN nextActivation - t ELSE 0

(***************************************************************************)
(* NonBlockingStopwatch, started with the raw counter.                      *)
(***************************************************************************)
StopwatchStart ==
    /\ m_source
    /\ m_startTime' = raw /\ m_running' = TRUE
    /\ started' = trueTime
    /\ UNCHANGED <<clockVars, deadlineVars, pid>>
StopwatchStop ==
    /\ m_running' = FALSE
    /\ UNCHANGED <<clockVars, deadlineVars, m_startTime, started, pid>>
StopwatchReset ==
    /\ m_startTime' = 0 /\ m_running' = FALSE
    /\ UNCHANGED <<clockVars, deadlineVars, started, pid>>

\* Mutant: the difference is not taken modulo the width of the counter.
elapsedSigned(t) == IF ~m_running THEN 0 ELSE IF t > m_startTime THEN t - m_startTime ELSE 0
elapsed(t) == IF ~m_running THEN 0 ELSE Minus64(t, m_startTime)
hasExpired(t, duration) == m_running /\ elapsed(t) >= duration

(***************************************************************************)
(* PIDController.  The unit of dt is half a second; the integral, the       *)
(* outputs and the limits are doubled, so that everything is an integer.    *)
(* clamped and drift are history: returned is an output computed under the  *)
(* limits in force; what samples added while the integral gain was zero.    *)
(***************************************************************************)
sput_min(a, b) == IF b < a THEN b ELSE a
sput_max(a, b) == IF a < b THEN b ELSE a

Controller(g, l) == [gain |-> g, limit |-> l, integral |-> 0, prevError |-> 0,
                     lastOutput |-> 0, first |-> TRUE, returned |-> 0, clamped |-> FALSE,
                     drift |-> 0]

\* Mutant: the integral always grows.
KeepsIntegralNever(c, error, raw2, rawOutput) == FALSE
\* saturated, and the error has the sign of the integral
KeepsIntegral(c, error, raw2, rawOutput) ==
    /\ rawOutput >= c.limit.max \/ rawOutput <= c.limit.min
    /\ error * c.integral > 0

compute(c, error, dt) ==
    LET derivative2 == (4 * (error - c.prevError)) \div dt
        raw2 == c.integral + error * dt
        Output(i2) == 2 * c.gain.kp * error + c.gain.ki * i2 + c.gain.kd * derivative2
        integral2 == IF KeepsIntegral(c, error, raw2, Output(raw2)) THEN c.integral ELSE raw2
        output == sput_max(c.limit.min, sput_min(c.limit.max, Output(integral2)))
    IN  IF c.first THEN [c EXCEPT !.first = FALSE, !.returned = 0, !.clamped = FALSE]
        ELSE IF dt = 0 THEN [c EXCEPT !.returned = c.lastOutput]
        ELSE [c EXCEPT !.integral = integral2, !.prevError = error, !.lastOutput = output,
                       !.returned = output, !.clamped = TRUE,
                       !.drift = IF c.gain.ki = 0 THEN c.drift + Mag(integral2 - c.integral)
                                 ELSE c.drift]

PidStep(c) == pid' = c /\ UNCHANGED <<clockVars, deadlineVars, watchVariables>>

PidCompute ==
    \E e \in Errors, dt \in Dts :
        /\ compute(pid, e, dt).drift <= MaxDrift
        /\ PidStep(compute(pid, e, dt))
PidSetGains == \E g \in Gains : PidStep([pid EXCEPT !.gain = g])
PidSetOutputLimits == \E l \in Limits : PidStep([pid EXCEPT !.limit = l, !.clamped = FALSE])
PidReset == PidStep([Controller(pid.gain, pid.limit) EXCEPT !.returned = pid.returned])

(***************************************************************************)
(* The specification.  The controller shares nothing with the clock users   *)
(* but the time: the module that instantiates this one checks them apart.   *)
(***************************************************************************)
TimeInit ==
    /\ trueTime = 0 /\ raw \in 0..(RawWidth - 1) /\ m_source = FALSE /\ m_epoch = 0
    /\ nextActivation = NoTime /\ advancing = NoTime /\ turns = 0 /\ ran = <<NoTime, NoTime>>
    /\ m_startTime = 0 /\ m_running = FALSE /\ started = 0
    /\ \E g \in Gains, l \in Limits : pid = Controller(g, l)

ClockNext ==
    \/ SetClockSource \/ TimePasses
    \/ DeadlineInit \/ AdvanceCall \/ AdvanceSkip \/ AdvanceReturn
    \/ StopwatchStart \/ StopwatchStop \/ StopwatchReset

PidNext == PidCompute \/ PidSetGains \/ PidSetOutputLimits \/ PidReset

TimeSpec == TimeInit /\ [][ClockNext \/ PidNext]_timeVars

(***************************************************************************)
(* Properties.                                                              *)
(***************************************************************************)
Periods(n) == n * Period
InPhase(duration) == duration % Period = 0

(* Once a run of the job is over, the next activation lies in the future,   *)
(* no more than a period away, and a whole number of periods after the      *)
(* first: however late the runs come, missed activations are skipped and    *)
(* the phase is kept; and the loop of advance() turned once per period that *)
(* was missed.                                                              *)
DeadlineKept ==
    advancing = NoTime /\ ran[2] # NoTime =>
        /\ nextActivation > ran[2] /\ nextActivation <= ran[2] + Period
        /\ InPhase(nextActivation - ran[1])
        /\ Periods(turns) <= ran[2] - ran[1]

(* nowMicros() is the time since the clock source was set, and a running    *)
(* stopwatch shows the time since start(), also when the counter wrapped    *)
(* in between (unsigned subtraction of the epoch and of m_startTime).       *)
ElapsedExact ==
    m_source => /\ nowMicros = trueTime
                /\ m_running => elapsed(raw) = trueTime - started
                /\ \A d \in Step : hasExpired(raw, d) = (m_running /\ trueTime - started >= d)

(* What makes the two inductive.  A reading of the counter is the epoch     *)
(* plus the true time at which it was taken, less the width if it wrapped.  *)
Reading(r, time) == /\ r \in 0..(RawWidth - 1)
                    /\ r = m_epoch + time \/ r = m_epoch + time - RawWidth

ClockInv ==
    /\ m_source \in BOOLEAN /\ m_running \in BOOLEAN
    /\ trueTime \in 0..Horizon /\ m_epoch \in 0..(RawWidth - 1) /\ raw \in 0..(RawWidth - 1)
    /\ m_source => Reading(raw, trueTime)
    /\ ~m_source => trueTime = 0 /\ ~m_running
    /\ m_running => started \in 0..trueTime /\ Reading(m_startTime, started)

(* While advance() turns, one period more than it turned lies behind the    *)
(* next activation, which is at most a period past the time it was given.   *)
DeadlineInv ==
    /\ ran = <<ran[1], ran[2]>> /\ turns \in Nat
    /\ nextActivation = NoTime => advancing = NoTime /\ ran[2] = NoTime
    /\ nextActivation # NoTime =>
         /\ m_source /\ ran[1] \in Nat /\ nextActivation \in Nat
         /\ nextActivation >= ran[1] /\ InPhase(nextActivation - ran[1])
         /\ ran[2] # NoTime => ran[2] \in Nat /\ Periods(turns) <= ran[2] - ran[1]
    /\ advancing # NoTime =>
         /\ ran[2] = advancing /\ nextActivation <= advancing + Period
         /\ Periods(turns + 1) <= nextActivation - ran[1]
    /\ DeadlineKept

Bound(S) == CHOOSE m \in S : \A x \in S : x <= m

MaxError == Bound({Mag(x) : x \in Errors})
MaxLimit == Bound({Mag(l.min) : l \in Limits} \cup {Mag(l.max) : l \in Limits})
MaxKp == Bound({Mag(g.kp) : g \in Gains})
MaxKd == Bound({Mag(g.kd) : g \in Gains})

(* What drives the output from one limit past the other.                    *)
Swing == MaxLimit + 2 * MaxKp * MaxError + 8 * MaxKd * MaxError
IntegralBound == sput_max(Swing, Bound(Dts) * MaxError)

(* Output and windup: what compute() made of a sample lies in the limits;   *)
(* and however long the output stays saturated, the integral stays below    *)
(* what drives the output from one limit past the other (conditional        *)
(* integration), or what one sample adds.  Only samples taken while ki is   *)
(* zero escape the test, as the integral then does not show in the output:  *)
(* what they added may come on top, until reset(), and a setGains() that    *)
(* turns the integral term on again releases it.                            *)
WindupBounded ==
    /\ pid.clamped => pid.returned \in pid.limit.min .. pid.limit.max
    /\ Mag(pid.integral) <= IntegralBound + pid.drift

(* What makes it inductive: the derivative is taken of two errors, and a    *)
(* sample that repeats a timestamp returns the last output.                 *)
PidInv ==
    /\ pid \in [gain : Gains, limit : Limits, integral : Int, prevError : Int,
                lastOutput : Int, first : BOOLEAN, returned : Int, clamped : BOOLEAN,
                drift : Nat]
    /\ Mag(pid.prevError) <= MaxError
    /\ pid.clamped => pid.lastOutput = pid.returned
    /\ WindupBounded
=============================================================================
