------------------------------- MODULE Config -------------------------------
(***************************************************************************)
(* ConfigTraits.h: a configuration struct is a record of the constants it   *)
(* declares; the traits give every option it leaves out its default.        *)
(***************************************************************************)
EXTENDS Naturals, TLC

CommandDefaults == [kMaxCommandsPerTick |-> 8, kMaxValidCommandID |-> 255,
                    kControlBudgetUs |-> 10000]

CapacityDefaults == [kErrorLogCapacity |-> 32, kTelemetryLogCapacity |-> 32,
                     kMaxInterlockConditions |-> 8, kMaxLineLen |-> 64, kMaxFramePayload |-> 256]

SchedulingDefaults == [kMaxSlotsPerCore |-> 32, kMaxBackgroundTasks |-> 16,
                       kCommsBudgetUs |-> 1000, kDiagsBudgetUs |-> 10000, kMinGapSliceUs |-> 10,
                       kMinSchedulePeriodUs |-> 10, kStrictWCET |-> FALSE,
                       kIsrContextBudgetUs |-> <<0, 0>>]

MetricsDefaults == [kMetricsWindowUs |-> 60000000, kCrunchMaxOverruns |-> 10]

(* The left operand of @@ wins: what the struct declares overrides.         *)
Resolve(cfg) == cfg @@ CommandDefaults @@ CapacityDefaults @@ SchedulingDefaults @@ MetricsDefaults

ConfigValid(cfg) ==
    /\ {"kCoreCount", "kQueueCapacity"} \subseteq DOMAIN cfg
    /\ cfg.kCoreCount >= 1 /\ cfg.kQueueCapacity > 0

(***************************************************************************)
(* The configurations the repository ships.  Each has one state, IDLE, and  *)
(* one command, NOP = 0.                                                    *)
(***************************************************************************)
MyProjectConfig == [kCoreCount |-> 1, kQueueCapacity |-> 16]
HeartbeatConfig == [kMaxCommandsPerTick |-> 4, kMaxValidCommandID |-> 0,
                    kCoreCount |-> 1, kQueueCapacity |-> 16]
MultirateConfig == [kMaxCommandsPerTick |-> 4, kMaxValidCommandID |-> 0,
                    kCoreCount |-> 1, kQueueCapacity |-> 16]
SensorPollConfig == [kMaxCommandsPerTick |-> 4, kMaxValidCommandID |-> 0,
                     kCoreCount |-> 1, kQueueCapacity |-> 16]
LifecycleConfig == [kMaxCommandsPerTick |-> 4, kMaxValidCommandID |-> 0,
                    kCoreCount |-> 2, kQueueCapacity |-> 16]
PingPongConfig == [kMaxCommandsPerTick |-> 4, kMaxValidCommandID |-> 0,
                   kCoreCount |-> 2, kQueueCapacity |-> 16]
CrunchLoopConfig == [kMaxCommandsPerTick |-> 4, kMaxValidCommandID |-> 0,
                     kCoreCount |-> 2, kQueueCapacity |-> 16, kCrunchMaxOverruns |-> 10]

ShippedConfigs == {MyProjectConfig, HeartbeatConfig, MultirateConfig, SensorPollConfig,
                   LifecycleConfig, PingPongConfig, CrunchLoopConfig}

(* The static_assert of ConfigValidator accepts every one of them, and the  *)
(* resolved options leave each a command budget and at most one command     *)
(* per queue slot.                                                          *)
ASSUME ShippedConfigsValid ==
  \A cfg \in ShippedConfigs :
    /\ ConfigValid(cfg)
    /\ Resolve(cfg).kMaxCommandsPerTick \in 1 .. Resolve(cfg).kQueueCapacity
=============================================================================
