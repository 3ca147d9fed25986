------------------------------ MODULE SensorPoll ------------------------------
(***************************************************************************)
(* exampleProjects/sensorpoll: AdcPollTask starts a conversion of the       *)
(* SimulatedADC and polls for its end, and gives the device up after        *)
(* kMaxIoRetries polls; SensorLogTask sums up in the background.  The task   *)
(* does not ask for a kernel-managed period, so run()'s loop ticks it in    *)
(* every turn, however short.                                               *)
(***************************************************************************)
EXTENDS Integers

CONSTANTS
    kPeriodUs, kMaxIoRetries,   \* of AdcPollTask
    kConversionDelay,           \* of the ADC that main() makes
    kLogThreshold,              \* of SensorLogTask
    kRunTime,                   \* main(): the run's length
    TurnTimes                   \* how long a turn of the loop takes

ASSUME SensorPollAssumption ==
    /\ {kPeriodUs, kConversionDelay, kLogThreshold} \subseteq Nat \ {0}
    /\ kMaxIoRetries \in Nat /\ kRunTime \in Nat /\ TurnTimes \subseteq Nat

VARIABLES
    adcNow,
    m_conversionStartTime, m_conversionInFlight, m_nextValue,   \* SimulatedADC
    m_waitingForAdc, m_ioWaitCount, m_readingCount, m_lastReading, m_lastPoll,
    m_lastReported,     \* SensorLogTask
    turn,               \* where the loop of run() is
    lastEnd,            \* history: how the last conversion ended
    askedAt             \* history: when the task asked for the one that runs

adcVars == <<m_conversionStartTime, m_conversionInFlight, m_nextValue>>
pollVars == <<m_waitingForAdc, m_ioWaitCount, m_readingCount, m_lastReading, m_lastPoll>>
sensorVars == <<adcNow, adcVars, pollVars, m_lastReported, turn, lastEnd, askedAt>>

SensorInit ==
    /\ adcNow = 0
    /\ m_conversionStartTime = 0 /\ m_conversionInFlight = FALSE /\ m_nextValue = 0
    /\ m_waitingForAdc = FALSE /\ m_ioWaitCount = 0 /\ m_readingCount = 0
    /\ m_lastReading = 0 /\ m_lastPoll = 0 /\ m_lastReported = 0
    /\ turn = "loop" /\ lastEnd = [how |-> "none", after |-> 0] /\ askedAt = 0

isConversionReady ==
    m_conversionInFlight /\ adcNow - m_conversionStartTime >= kConversionDelay

(* A restart keeps the start time of a conversion still in flight.          *)
startConversionOnce ==
    /\ m_conversionStartTime' = IF m_conversionInFlight THEN m_conversionStartTime ELSE adcNow
    /\ m_conversionInFlight' = TRUE
    /\ askedAt' = adcNow

startConversion ==
    /\ m_conversionStartTime' = adcNow
    /\ m_conversionInFlight' = TRUE
    /\ askedAt' = adcNow

(* readResult() followed by the startConversion() at the end of tick().     *)
PollReady ==
    /\ turn = "tick" /\ m_waitingForAdc /\ isConversionReady
    /\ m_lastReading' = m_nextValue
    /\ m_nextValue' = (m_nextValue + 37) % 1000
    /\ m_readingCount' = m_readingCount + 1
    /\ m_ioWaitCount' = 0
    /\ lastEnd' = [how |-> "read", after |-> adcNow - askedAt]
    /\ startConversion
    /\ turn' = "background"
    /\ UNCHANGED <<adcNow, m_waitingForAdc, m_lastPoll, m_lastReported>>

PollNotReady ==
    /\ turn = "tick" /\ m_waitingForAdc /\ ~isConversionReady
    /\ LET timeout == m_ioWaitCount + 1 > kMaxIoRetries IN
         /\ m_ioWaitCount' = IF timeout THEN 0 ELSE m_ioWaitCount + 1
         /\ m_waitingForAdc' = ~timeout
         /\ lastEnd' = IF timeout THEN [how |-> "timeout", after |-> adcNow - askedAt]
                                  ELSE lastEnd
    /\ turn' = "background"
    /\ UNCHANGED <<adcNow, adcVars, m_readingCount, m_lastReading, m_lastPoll,
                   m_lastReported, askedAt>>

StartCycle ==
    /\ turn = "tick" /\ ~m_waitingForAdc
    /\ adcNow - m_lastPoll >= kPeriodUs
    /\ m_lastPoll' = adcNow
    /\ m_waitingForAdc' = TRUE
    /\ startConversion
    /\ turn' = "background"
    /\ UNCHANGED <<adcNow, m_nextValue, m_ioWaitCount, m_readingCount, m_lastReading,
                   m_lastReported, lastEnd>>

TooSoon ==
    /\ turn = "tick" /\ ~m_waitingForAdc
    /\ adcNow - m_lastPoll < kPeriodUs
    /\ turn' = "background"
    /\ UNCHANGED <<adcNow, adcVars, pollVars, m_lastReported, lastEnd, askedAt>>

(* SensorLogTask::tick() in the background phase, and the rest of the turn. *)
SensorLog(d) ==
    /\ turn = "background"
    /\ m_lastReported' = IF m_readingCount - m_lastReported >= kLogThreshold
                         THEN m_readingCount ELSE m_lastReported
    /\ adcNow' = adcNow + d
    /\ turn' = "loop"
    /\ UNCHANGED <<adcVars, pollVars, lastEnd, askedAt>>

(* The loop's condition; main() then prints the counts.                     *)
SensorLoop ==
    /\ turn = "loop"
    /\ turn' = IF adcNow >= kRunTime THEN "out" ELSE "tick"
    /\ UNCHANGED <<adcNow, adcVars, pollVars, m_lastReported, lastEnd, askedAt>>

SensorNext ==
    PollReady \/ PollNotReady \/ StartCycle \/ TooSoon \/ SensorLoop
    \/ \E d \in TurnTimes : SensorLog(d)

SensorSpec == SensorInit /\ [][SensorNext]_sensorVars
-----------------------------------------------------------------------------
(* A reading is of the conversion the task last asked for and that one ran   *)
(* for its full delay: a conversion given up after a timeout leaves the ADC  *)
(* in flight, and its late result is not taken for that of the next one.     *)
FreshReading ==
    lastEnd.how = "read" => lastEnd.after >= kConversionDelay

(* What makes it inductive: the conversion the ADC times is the one the task *)
(* waits for.                                                                *)
AskedInv == m_waitingForAdc => m_conversionStartTime = askedAt

(* AdcPollTask.h: the task logs a fault if the ADC hangs.  A conversion that *)
(* takes its kConversionDelay is not one that hangs.                         *)
HealthyNeverTimesOut ==
    lastEnd.how = "timeout" => lastEnd.after >= kConversionDelay
=============================================================================
