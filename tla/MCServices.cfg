CONSTANTS
  Commands = {c0, c1}
  DefaultCmd = c0
  Capacity = 2
  Condition = {door, vacuum, water}
  kMaxConditions = 2
  Timeout = 2
  TimeWidth = 16
  MaxTime = 8
  RawWidth = 16
  Horizon = 12
  Period = 3
  Phase = 1
  Step = {1, 5}
  Gains <- MCGains
  Limits <- MCLimits
  Errors <- MCErrors
  Dts = {0, 1, 2}
  MaxDrift = 6
  Loggers = {core0, core1}
  kCapacity = 2
  MaxEntries = 4
  Context = {control, diagnostics}
  Drainer = diagnostics
  kLines = 2
  MaxLines = 3
SPECIFICATION MCSpec
INVARIANT SlotExclusive
INVARIANT SizeIsBound
INVARIANT ClearTellsTrips
INVARIANT StaleIffSilent
INVARIANT KeepsNewest
INVARIANT EveryEntryAccounted
INVARIANT DeadlineKept
INVARIANT ElapsedExact
INVARIANT WindupBounded
PROPERTY ClearedAfterEachSafe
PROPERTY ImplementsFifo
