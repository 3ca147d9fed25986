----------------------------- MODULE WatchdogSync -----------------------------
(***************************************************************************)
(* osal/sync/WatchdogSync.h: the heartbeat of one core, kicked by it and   *)
(* checked by a peer.  Both read the clock before they call kick() and     *)
(* isStale(), so time passes between the reading and the atomic accesses.  *)
(* Times are unsigned modulo TimeWidth.                                    *)
(***************************************************************************)
EXTENDS Naturals

CONSTANTS Timeout,    \* the staleness limit the checker passes
          TimeWidth,  \* SputterMicros is modulo this (2^64 in the code)
          MaxTime     \* bound on the clock

ASSUME WatchdogAssumption ==
  Timeout \in Nat /\ MaxTime \in Nat /\ TimeWidth \in Nat /\ MaxTime < TimeWidth

Time == 0 .. MaxTime

VARIABLES now,
          m_lastKick, m_alive,
          kpc, kTime,   \* the owning core: kick()
          wpc, cTime,   \* the checking core: isStale()
          stale,        \* what isStale last returned
          quiet         \* no step of kick() since the check read the clock

watchVars == <<now, m_lastKick, m_alive, kpc, kTime, wpc, cTime, stale, quiet>>

WatchTypeOK ==
  /\ now \in Time /\ m_lastKick \in Time /\ m_alive \in BOOLEAN
  /\ kpc \in {"idle", "time", "alive"} /\ kTime \in Time
  /\ wpc \in {"idle", "alive", "time", "return"} /\ cTime \in Time
  /\ stale \in BOOLEAN /\ quiet \in BOOLEAN

WatchInit ==
  /\ now = 0 /\ m_lastKick = 0 /\ m_alive = FALSE
  /\ kpc = "idle" /\ kTime = 0 /\ wpc = "idle" /\ cTime = 0
  /\ stale = FALSE /\ quiet = TRUE
-----------------------------------------------------------------------------
ClockTick ==
  /\ now < MaxTime /\ now' = now + 1
  /\ UNCHANGED <<m_lastKick, m_alive, kpc, kTime, wpc, cTime, stale, quiet>>

(* kick(): the timestamp is stored first, then the core is alive.           *)

KickBegin ==
  /\ kpc = "idle"
  /\ kTime' = now /\ kpc' = "time"
  /\ UNCHANGED <<now, m_lastKick, m_alive, wpc, cTime, stale, quiet>>

KickTime ==
  /\ kpc = "time"
  /\ m_lastKick' = kTime
  /\ quiet' = FALSE
  /\ kpc' = "alive"
  /\ UNCHANGED <<now, m_alive, kTime, wpc, cTime, stale>>

KickAlive ==
  /\ kpc = "alive"
  /\ m_alive' = TRUE
  /\ quiet' = FALSE
  /\ kpc' = "idle"
  /\ UNCHANGED <<now, m_lastKick, kTime, wpc, cTime, stale>>

(* isStale() *)

CheckBegin ==
  /\ wpc = "idle"
  /\ cTime' = now /\ quiet' = TRUE
  /\ wpc' = "alive"
  /\ UNCHANGED <<now, m_lastKick, m_alive, kpc, kTime, stale>>

NeverKicked == ~m_alive

CheckNotStarted ==
  /\ wpc = "alive" /\ NeverKicked
  /\ stale' = FALSE
  /\ wpc' = "return"
  /\ UNCHANGED <<now, m_lastKick, m_alive, kpc, kTime, cTime, quiet>>

CheckStarted ==
  /\ wpc = "alive" /\ ~NeverKicked
  /\ wpc' = "time"
  /\ UNCHANGED <<now, m_lastKick, m_alive, kpc, kTime, cTime, stale, quiet>>

OlderThanLenient(t, kick, limit) == (t + TimeWidth - kick) % TimeWidth > limit + 1
OlderThan(t, kick, limit) == (t + TimeWidth - kick) % TimeWidth > limit

CheckTime ==
  /\ wpc = "time"
  /\ stale' = OlderThan(cTime, m_lastKick, Timeout)
  /\ wpc' = "return"
  /\ UNCHANGED <<now, m_lastKick, m_alive, kpc, kTime, cTime, quiet>>

CheckReturn ==
  /\ wpc = "return"
  /\ wpc' = "idle"
  /\ UNCHANGED <<now, m_lastKick, m_alive, kpc, kTime, cTime, stale, quiet>>

WatchNext ==
  \/ ClockTick \/ KickBegin \/ KickTime \/ KickAlive
  \/ CheckBegin \/ CheckNotStarted \/ CheckStarted \/ CheckTime \/ CheckReturn

WatchSpec == WatchInit /\ [][WatchNext]_watchVars
-----------------------------------------------------------------------------
(* A core that went silent is found out, and only real silence is reported: *)
(* a check during which no kick arrived says stale exactly when the core    *)
(* has kicked at least once and the clock the check read is more than       *)
(* Timeout after the last kick.                                             *)
StaleIffSilent ==
  wpc = "return" /\ quiet => (stale <=> m_alive /\ cTime > m_lastKick + Timeout)

(* What makes it inductive: no stored or read time lies in the future, and  *)
(* an undisturbed check read the clock after the last kick did.             *)
WatchInv ==
  /\ WatchTypeOK
  /\ m_lastKick <= now /\ kTime <= now /\ cTime <= now
  /\ wpc # "idle" /\ quiet => m_lastKick <= cTime
  /\ wpc = "time" => m_alive
  /\ StaleIffSilent
-----------------------------------------------------------------------------
(* isStale() documents true as: the last kick is older than timeout         *)
(* relative to systemTime, whatever the core does meanwhile.                *)
StaleMeansOld == wpc = "return" /\ stale => now > m_lastKick + Timeout
=============================================================================
