--------------------------- MODULE TelemetryLogger ---------------------------
(***************************************************************************)
(* utils/logging/TelemetryLogger: the ring of status lines that every      *)
(* task logs to and BackgroundDiagnosticsTask drains, with its optional    *)
(* IMutex.  Every operation calls lock(0), ignores the answer, works, and  *)
(* unlocks.  By IMutex lock(0) is a try-lock: it acquires a free mutex or  *)
(* answers false, and the operation goes on without it.  A platform mutex  *)
(* that waits is one whose callers do not step while it is held.           *)
(*                                                                         *)
(* The fields are plain, so two operations that overlap are a data race.   *)
(* Their steps interleave here, and nothing is claimed of what they leave. *)
(*                                                                         *)
(* An entry is its number, in the order the entries enter the ring, and    *)
(* its level; text and formatting are left out.                            *)
(***************************************************************************)
EXTENDS Naturals, Sequences

CONSTANTS Context,    \* tasks and cores that call the logger
          Drainer,    \* the one that drains, filters and clears
          kLines,     \* 32 in the code
          MaxLines    \* bound: no log() begins once as many entered the ring

ASSUME TelemetryAssumption ==
  /\ Drainer \in Context /\ "nobody" \notin Context /\ kLines \in Nat \ {0} /\ MaxLines \in Nat

Level == 0 .. 1  \* a quiet threshold or message, and a verbose one
LineSlots == 0 .. kLines - 1
NoLine == [n |-> 0, level |-> 0]
Nobody == "nobody"

VARIABLES tl_head, tl_tail, tl_buf,  \* m_head, m_tail and m_buf
          m_count, m_verbosity,
          owner,       \* who holds the mutex
          pc,          \* where each context is
          arg,         \* the level its call was given
          slot,        \* the slot drain() took its entry from
          entered,     \* entries that entered the ring
          linesCleared, \* the value of entered at the last clear()
          drained,     \* entries written out since, in order
          suppressed,  \* entries drain() took since and did not write
          missed       \* a lock(0) failed since the last clear() that ran alone

lineVars == <<tl_head, tl_tail, m_count, tl_buf>>
history == <<entered, drained, suppressed, linesCleared>>
telemetryVars == <<lineVars, m_verbosity, owner, missed, pc, arg, slot, history>>

Body == {"count", "write", "head", "loop", "emit", "verbosity", "size", "clear"}

TelemetryTypeOK ==
  /\ tl_head \in LineSlots /\ tl_tail \in LineSlots /\ m_count \in Nat
  /\ tl_buf \in [LineSlots -> [n : Nat, level : Level]]
  /\ m_verbosity \in Level
  /\ owner \in Context \cup {Nobody} /\ missed \in BOOLEAN
  /\ pc \in [Context -> {"idle", "unlock"} \cup Body]
  /\ arg \in [Context -> Level] /\ slot \in LineSlots
  /\ entered \in Nat /\ linesCleared \in Nat
  /\ drained \in Seq(Nat) /\ suppressed \subseteq Nat

TelemetryInit ==
  /\ tl_head = 0 /\ tl_tail = 0 /\ m_count = 0 /\ tl_buf = [s \in LineSlots |-> NoLine]
  /\ m_verbosity = 0
  /\ owner = Nobody /\ missed = FALSE /\ pc = [c \in Context |-> "idle"]
  /\ arg = [c \in Context |-> 0] /\ slot = 0
  /\ entered = 0 /\ drained = <<>> /\ suppressed = {} /\ linesCleared = 0
-----------------------------------------------------------------------------
Goto(c, from, to) == pc[c] = from /\ pc' = [pc EXCEPT ![c] = to]
NextLine(s) == (s + 1) % kLines
Sole(c) == \A d \in Context \ {c} : pc[d] = "idle"

LockSkipped(c) == UNCHANGED <<owner, missed>>

(* m_guard->lock(0), its answer ignored: it acquires, or it fails, on a     *)
(* timeout or an error as IMutex says.                                      *)
Lock(c) ==
  \/ owner = Nobody /\ owner' = c /\ UNCHANGED missed
  \/ missed' = TRUE /\ UNCHANGED owner

Call(c, body, level) ==
  /\ Goto(c, "idle", body)
  /\ Lock(c)
  /\ arg' = [arg EXCEPT ![c] = level]
  /\ UNCHANGED <<lineVars, m_verbosity, slot, history>>

(* m_guard->unlock() and return.  Unlocking a mutex that another context    *)
(* holds either fails or frees it.                                          *)
Unlock(c) ==
  /\ Goto(c, "unlock", "idle")
  /\ owner' \in IF owner = c THEN {Nobody} ELSE {owner, Nobody}
  /\ UNCHANGED <<lineVars, m_verbosity, missed, arg, slot, history>>

LogCall(c, level) == entered < MaxLines /\ Call(c, "count", level)

LogCount(c) ==
  /\ Goto(c, "count", "write")
  /\ IF m_count = kLines
     THEN tl_tail' = NextLine(tl_tail) /\ UNCHANGED m_count
     ELSE m_count' = m_count + 1 /\ UNCHANGED tl_tail
  /\ UNCHANGED <<tl_head, tl_buf, m_verbosity, owner, missed, arg, slot, history>>

LogLine(c) ==
  /\ Goto(c, "write", "head")
  /\ entered' = entered + 1
  /\ tl_buf' = [tl_buf EXCEPT ![tl_head] = [n |-> entered + 1, level |-> arg[c]]]
  /\ UNCHANGED <<tl_head, tl_tail, m_count, m_verbosity, owner, missed, arg, slot, drained,
                 suppressed, linesCleared>>

LogHead(c) ==
  /\ Goto(c, "head", "unlock")
  /\ tl_head' = NextLine(tl_head)
  /\ UNCHANGED <<tl_tail, m_count, tl_buf, m_verbosity, owner, missed, arg, slot, history>>

DrainCall(c) == c = Drainer /\ Call(c, "loop", 0)

(* The loop takes the oldest entry by reference and then looks at it.       *)
DrainTake(c) ==
  /\ m_count > 0
  /\ Goto(c, "loop", "emit")
  /\ slot' = tl_tail
  /\ tl_tail' = NextLine(tl_tail)
  /\ m_count' = m_count - 1
  /\ UNCHANGED <<tl_head, tl_buf, m_verbosity, owner, missed, arg, history>>

DrainEmit(c) ==
  /\ Goto(c, "emit", "loop")
  /\ LET e == tl_buf[slot] IN
       IF e.level > m_verbosity
       THEN suppressed' = suppressed \cup {e.n} /\ UNCHANGED drained
       ELSE drained' = Append(drained, e.n) /\ UNCHANGED suppressed
  /\ UNCHANGED <<lineVars, m_verbosity, owner, missed, arg, slot, entered, linesCleared>>

DrainEnd(c) ==
  /\ m_count = 0
  /\ Goto(c, "loop", "unlock")
  /\ UNCHANGED <<lineVars, m_verbosity, owner, missed, arg, slot, history>>

VerbosityCall(c, level) == c = Drainer /\ Call(c, "verbosity", level)

SetVerbosity(c) ==
  /\ Goto(c, "verbosity", "unlock")
  /\ m_verbosity' = arg[c]
  /\ UNCHANGED <<lineVars, owner, missed, arg, slot, history>>

(* count(): its result is of no effect, its lock and unlock are.            *)
CountCall(c) == c = Drainer /\ Call(c, "size", 0)

CountRead(c) ==
  /\ Goto(c, "size", "unlock")
  /\ UNCHANGED <<lineVars, m_verbosity, owner, missed, arg, slot, history>>

ClearCall(c) == c = Drainer /\ Call(c, "clear", 0)

(* clear() starts the log afresh, if no other context is inside to go on    *)
(* with the old one.                                                        *)
Clear(c) ==
  /\ Goto(c, "clear", "unlock")
  /\ tl_head' = 0 /\ tl_tail' = 0 /\ m_count' = 0
  /\ linesCleared' = entered /\ drained' = <<>> /\ suppressed' = {}
  /\ missed' = (missed /\ ~(owner = c /\ Sole(c)))
  /\ UNCHANGED <<tl_buf, m_verbosity, owner, arg, slot, entered>>

TelemetryNext == \E c \in Context :
  \/ \E l \in Level : LogCall(c, l) \/ VerbosityCall(c, l)
  \/ LogCount(c) \/ LogLine(c) \/ LogHead(c)
  \/ DrainCall(c) \/ DrainTake(c) \/ DrainEmit(c) \/ DrainEnd(c)
  \/ SetVerbosity(c) \/ CountCall(c) \/ CountRead(c) \/ ClearCall(c) \/ Clear(c) \/ Unlock(c)

TelemetrySpec == TelemetryInit /\ [][TelemetryNext]_telemetryVars
-----------------------------------------------------------------------------
NoneInside == \A c \in Context : pc[c] \notin Body

LineAt(t, k) == (t + k) % kLines  \* the k-th slot from t
Pending == {tl_buf[LineAt(tl_tail, k)].n : k \in 0 .. m_count - 1}

(* Unless a lock(0) failed since a clear() that ran alone, between          *)
(* operations every entry is accounted for: written out, suppressed, still  *)
(* in the ring, cleared, or overwritten by kLines newer ones; and the ring  *)
(* holds exactly its newest m_count entries: no wrap, overwrite, drain or   *)
(* clear leaves an index and the count apart.  The operator sees entries in *)
(* the order they were entered, none twice and none from before the         *)
(* clear().  So a clear() that acquires the mutex with no other operation   *)
(* in progress repairs whatever overlapping ones left.                      *)
EveryEntryAccounted == ~missed =>
  /\ NoneInside =>
       /\ Pending = (entered - m_count + 1) .. entered
       /\ \A n \in (linesCleared + 1) .. entered :
            \/ n \in Pending \/ n \in suppressed \/ entered - n >= kLines
            \/ \E k \in 1 .. Len(drained) : drained[k] = n
  /\ \A k \in 1 .. Len(drained) : linesCleared < drained[k]
  /\ \A j, k \in 1 .. Len(drained) : j < k => drained[j] < drained[k]

(* What makes it inductive while no lock(0) fails.  A context inside an     *)
(* operation holds the mutex.                                               *)
HolderInv == \A c \in Context : pc[c] # "idle" <=> owner = c

Inside(l) == \E c \in Context : pc[c] = l

(* The entries that are in the ring, and the slots tl_head has passed: one  *)
(* less than m_count from when log() counts its entry until it has written  *)
(* it, and until it has moved the head.                                     *)
Valid == IF Inside("write") THEN m_count - 1 ELSE m_count
Passed == IF Inside("write") \/ Inside("head") THEN m_count - 1 ELSE m_count

(* The valid entries are the newest, in order from tl_tail; head, tail and  *)
(* count agree; drain() holds the entry before them.                        *)
RingInv ==
  /\ m_count <= kLines
  /\ Inside("write") \/ Inside("head") => m_count > 0
  /\ tl_head = LineAt(tl_tail, Passed)
  /\ Valid <= entered - linesCleared
  /\ \A k \in 0 .. kLines : k < Valid => tl_buf[LineAt(tl_tail, k)].n = (entered - Valid) + 1 + k
  /\ Inside("emit") => /\ tl_buf[slot].n = entered - Valid
                       /\ linesCleared < entered - Valid

(* What left the ring was written out in order, suppressed, or overwritten  *)
(* by the kLines-th newer entry (the one being written included).           *)
GoneInv ==
  /\ \A j, k \in 1 .. Len(drained) : j < k => drained[j] < drained[k]
  /\ \A k \in 1 .. Len(drained) : /\ linesCleared < drained[k] /\ drained[k] <= entered - Valid
                                  /\ Inside("emit") => drained[k] < entered - Valid
  /\ \A n \in (linesCleared + 1) .. (entered - Valid) :
       \/ n \in suppressed
       \/ entered - n >= kLines
       \/ Inside("write") /\ (entered + 1) - n >= kLines
       \/ Inside("emit") /\ n = entered - Valid
       \/ \E k \in 1 .. Len(drained) : drained[k] = n

TelemetryInv == TelemetryTypeOK /\ (~missed => HolderInv /\ RingInv /\ GoneInv)
-----------------------------------------------------------------------------
(* Statements of the header that the code does not keep.                    *)

(* With a mutex all operations are protected against concurrent access: two *)
(* contexts are never inside the logger at once.                            *)
OneAtATime == \A c, d \in Context : pc[c] \in Body /\ pc[d] \in Body => c = d

(* The header: the verbosity filter suppresses messages at drain time,      *)
(* leaving the ring buffer intact.                                          *)
FilterLeavesRing == NoneInside => suppressed \subseteq Pending
=============================================================================
