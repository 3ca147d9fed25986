--------------------------- MODULE InterlockManager ---------------------------
(***************************************************************************)
(* logic/InterlockManager: the registered safety conditions and the two    *)
(* abort flags.  Three contexts meet here: the control loop or an          *)
(* interrupt trips the flags, the operator's clearFault() runs in the      *)
(* comms context, and the hardware behind the conditions changes at any    *)
(* time.  clearFault() calls isSafe() on one condition after the other,    *)
(* and stores the two flags one after the other.                           *)
(***************************************************************************)
EXTENDS Naturals, Sequences, SequencesExt

CONSTANTS Condition,      \* the IInterlockCondition objects
          kMaxConditions  \* 8 in the code

ASSUME MaxAssumption == kMaxConditions \in Nat \ {0}

VARIABLES m_conditions,     \* registered conditions; m_conditionCount is its length
          m_faultResponse,  \* is a fault response set?
          m_softAbort, m_hardFault,
          safe,             \* what isSafe() of each condition answers now
          registered,       \* what the last registerCondition returned
          tpc,              \* triggerHardFault() in progress
          executed,         \* execute() was called for the last one
          cpc, ci,          \* clearFault() in progress, and its scan
          cleared,          \* what the last clearFault returned
          seenSafe,         \* conditions that were safe at a time since it began
          tripped           \* flags stored true since it began

clearVars == <<cpc, ci, cleared, seenSafe>>
interlockVars == <<m_conditions, m_faultResponse, m_softAbort, m_hardFault, safe, registered,
          tpc, executed, clearVars, tripped>>

Registered == ToSet(m_conditions)

InterlockTypeOK ==
  /\ m_conditions \in Seq(Condition) /\ Len(m_conditions) <= kMaxConditions
  /\ m_faultResponse \in BOOLEAN /\ m_softAbort \in BOOLEAN /\ m_hardFault \in BOOLEAN
  /\ safe \in [Condition -> BOOLEAN]
  /\ registered \in {"OK", "FULL"}
  /\ tpc \in {"idle", "execute"} /\ executed \in BOOLEAN
  /\ cpc \in {"idle", "scan", "soft", "hard"} /\ ci \in 1 .. kMaxConditions + 1
  /\ cleared \in BOOLEAN /\ seenSafe \subseteq Condition
  /\ tripped \subseteq {"soft", "hard"}

InterlockInit ==
  /\ m_conditions = <<>> /\ m_faultResponse = FALSE
  /\ m_softAbort = FALSE /\ m_hardFault = FALSE
  /\ safe \in [Condition -> BOOLEAN]
  /\ registered = "OK" /\ tpc = "idle" /\ executed = FALSE
  /\ cpc = "idle" /\ ci = 1 /\ cleared = FALSE /\ seenSafe = {} /\ tripped = {}
-----------------------------------------------------------------------------

(* registerCondition() and setFaultResponse(), at startup: nobody is inside *)
(* another call.  A condition may be registered twice.                      *)
RegisterCondition(c) ==
  /\ tpc = "idle" /\ cpc = "idle"
  /\ IF Len(m_conditions) >= kMaxConditions
     THEN registered' = "FULL" /\ UNCHANGED m_conditions
     ELSE registered' = "OK" /\ m_conditions' = Append(m_conditions, c)
  /\ UNCHANGED <<m_faultResponse, m_softAbort, m_hardFault, safe, tpc, executed,
                 clearVars, tripped>>

SetFaultResponse ==
  /\ tpc = "idle" /\ cpc = "idle" /\ ~m_faultResponse
  /\ m_faultResponse' = TRUE
  /\ UNCHANGED <<m_conditions, m_softAbort, m_hardFault, safe, registered, tpc,
                 executed, clearVars, tripped>>

(* The hardware: a condition becomes violated or nominal.                   *)
ConditionChanges(c) ==
  /\ safe' = [safe EXCEPT ![c] = ~@]
  /\ seenSafe' = IF safe'[c] THEN seenSafe \cup {c} ELSE seenSafe
  /\ UNCHANGED <<m_conditions, m_faultResponse, m_softAbort, m_hardFault, registered,
                 tpc, executed, cpc, ci, cleared, tripped>>

TriggerSoftAbort ==
  /\ tpc = "idle"
  /\ m_softAbort' = TRUE
  /\ tripped' = tripped \cup {"soft"}
  /\ UNCHANGED <<m_conditions, m_faultResponse, m_hardFault, safe, registered, tpc,
                 executed, clearVars>>

(* triggerHardFault(): the flag is latched, then the response executed.     *)
TriggerHardFault ==
  /\ tpc = "idle"
  /\ m_hardFault' = TRUE
  /\ tripped' = tripped \cup {"hard"}
  /\ executed' = FALSE
  /\ tpc' = "execute"
  /\ UNCHANGED <<m_conditions, m_faultResponse, m_softAbort, safe, registered, clearVars>>

ExecuteResponse ==
  /\ tpc = "execute"
  /\ executed' = m_faultResponse
  /\ tpc' = "idle"
  /\ UNCHANGED <<m_conditions, m_faultResponse, m_softAbort, m_hardFault, safe,
                 registered, clearVars, tripped>>

(* clearFault(), with checkAllInterlocks() inlined.                         *)

ClearBegin ==
  /\ cpc = "idle"
  /\ cpc' = "scan" /\ ci' = 1
  /\ seenSafe' = {c \in Condition : safe[c]}
  /\ tripped' = {}
  /\ UNCHANGED <<m_conditions, m_faultResponse, m_softAbort, m_hardFault, safe,
                 registered, tpc, executed, cleared>>

LastUnscanned == ci >= Len(m_conditions)
AllScanned == ci > Len(m_conditions)

ClearScan ==
  /\ cpc = "scan" /\ ~AllScanned /\ safe[m_conditions[ci]]
  /\ ci' = ci + 1
  /\ UNCHANGED <<m_conditions, m_faultResponse, m_softAbort, m_hardFault, safe,
                 registered, tpc, executed, cpc, cleared, seenSafe, tripped>>

ClearRefused ==
  /\ cpc = "scan" /\ ~AllScanned /\ ~safe[m_conditions[ci]]
  /\ cleared' = FALSE
  /\ cpc' = "idle"
  /\ UNCHANGED <<m_conditions, m_faultResponse, m_softAbort, m_hardFault, safe,
                 registered, tpc, executed, ci, seenSafe, tripped>>

ClearScanned ==
  /\ cpc = "scan" /\ AllScanned
  /\ cpc' = "soft"
  /\ UNCHANGED <<m_conditions, m_faultResponse, m_softAbort, m_hardFault, safe,
                 registered, tpc, executed, ci, cleared, seenSafe, tripped>>

ClearHardOnly ==
  /\ cpc = "soft"
  /\ cpc' = "hard"
  /\ UNCHANGED <<m_conditions, m_faultResponse, m_softAbort, m_hardFault, safe, registered,
                 tpc, executed, ci, cleared, seenSafe, tripped>>

ClearSoft ==
  /\ cpc = "soft"
  /\ m_softAbort' = FALSE
  /\ cpc' = "hard"
  /\ UNCHANGED <<m_conditions, m_faultResponse, m_hardFault, safe, registered, tpc,
                 executed, ci, cleared, seenSafe, tripped>>

ClearHard ==
  /\ cpc = "hard"
  /\ m_hardFault' = FALSE
  /\ cleared' = TRUE
  /\ cpc' = "idle"
  /\ UNCHANGED <<m_conditions, m_faultResponse, m_softAbort, safe, registered, tpc,
                 executed, ci, seenSafe, tripped>>

InterlockNext ==
  \/ \E c \in Condition : RegisterCondition(c) \/ ConditionChanges(c)
  \/ SetFaultResponse \/ TriggerSoftAbort \/ TriggerHardFault \/ ExecuteResponse
  \/ ClearBegin \/ ClearScan \/ ClearRefused \/ ClearScanned \/ ClearSoft \/ ClearHard

InterlockSpec == InterlockInit /\ [][InterlockNext]_interlockVars
-----------------------------------------------------------------------------
(* The hard fault is dropped only by a clearFault() during which every      *)
(* registered condition was nominal at some moment.                         *)
ClearedAfterEachSafe ==
  [][m_hardFault /\ ~m_hardFault' => Registered \subseteq seenSafe]_interlockVars

(* The answer of clearFault() is true of the flags: after a successful one  *)
(* only flags stand that were tripped while it ran or later, after a        *)
(* refused one all that were tripped before or during it stand.             *)
ClearTellsTrips ==
  cpc = "idle" =>
    IF cleared THEN /\ m_softAbort => "soft" \in tripped
                    /\ m_hardFault => "hard" \in tripped
               ELSE /\ "soft" \in tripped => m_softAbort
                    /\ "hard" \in tripped => m_hardFault

(* What makes the two inductive: until the flags are reset every trip       *)
(* since the call began stands; between the two stores the soft flag is     *)
(* already one of a later trip; and the scan has seen each condition it     *)
(* passed safe at a time since the call began.                              *)
FlagsInv ==
  /\ ClearTellsTrips
  /\ cpc \in {"scan", "soft"} => ("soft" \in tripped => m_softAbort)
  /\ cpc = "hard" => (m_softAbort => "soft" \in tripped)
  /\ cpc # "idle" => ("hard" \in tripped => m_hardFault)

ScanInv ==
  /\ cpc # "idle" => \A c \in Condition : safe[c] => c \in seenSafe
  /\ cpc = "scan" => \A k \in 1 .. Len(m_conditions) : k < ci => m_conditions[k] \in seenSafe
  /\ cpc \in {"soft", "hard"} =>
       \A k \in 1 .. Len(m_conditions) : m_conditions[k] \in seenSafe

InterlockInv == InterlockTypeOK /\ FlagsInv /\ ScanInv
-----------------------------------------------------------------------------
(* The header: a hard interlock cannot be cleared by software while         *)
(* conditions remain violated.                                              *)
LatchedWhileViolated ==
  [][m_hardFault /\ ~m_hardFault' => \A c \in Registered : safe[c]]_interlockVars

(* triggerHardFault() documents a latch that requires an explicit operator  *)
(* clear: a fault latched while clearFault() runs awaits another clear.     *)
TripSurvivesEarlierClear ==
  [][cpc # "idle" /\ "hard" \in tripped => m_hardFault']_interlockVars
=============================================================================
