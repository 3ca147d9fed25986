----------------------------- MODULE ErrorLogger -----------------------------
(***************************************************************************)
(* utils/logging/ErrorLogger: the overwriting ring of fault records.  The  *)
(* contexts in Loggers (cores, interrupt handlers) call log(), one task    *)
(* calls read().  One step is one atomic access or one slot copy.  Entries *)
(* are numbered in the order their log() calls begin.                      *)
(***************************************************************************)
EXTENDS Integers, Sequences

CONSTANTS Loggers,    \* contexts that log
          kCapacity,  \* 32 in the code
          MaxEntries  \* bound: log() calls made in a behaviour

ASSUME LogAssumption == kCapacity \in Nat \ {0} /\ MaxEntries \in Nat

kLogSlots == kCapacity + 1
LogSlots == 0 .. kCapacity
Entry == 1 .. MaxEntries
NoEntry == 0
Reader == "reader"

VARIABLES m_head, m_tail, m_buf,
          lpc, lHead, lExpected, lEntry,  \* each log() call in progress
          rpc, rTail, rEntry,             \* the read() in progress
          logged,                         \* log() calls begun
          alone,                          \* the last log() begun overlapped no other
          clearedUpTo,                    \* the value of logged at the last clear()
          contended,                      \* two log() calls overlapped since that clear()
          crossed,                        \* a read() and a log() overlapped since
          got                             \* entries read() returned since, in order

readVars == <<rpc, rTail, rEntry, clearedUpTo, got>>
raceVars == <<alone, contended, crossed>>
errorVars == <<m_head, m_tail, m_buf, lpc, lHead, lExpected, lEntry, logged, readVars, raceVars>>

NextEntry(s) == (s + 1) % kLogSlots
Count(h, t) == IF h >= t THEN h - t ELSE (kLogSlots - t) + h

ErrorTypeOK ==
  /\ m_head \in LogSlots /\ m_tail \in LogSlots
  /\ m_buf \in [LogSlots -> Entry \cup {NoEntry}]
  /\ lpc \in [Loggers -> {"idle", "test", "reload", "cas", "write", "store"}]
  /\ lHead \in [Loggers -> LogSlots] /\ lExpected \in [Loggers -> LogSlots]
  /\ lEntry \in [Loggers -> Entry \cup {NoEntry}]
  /\ rpc \in {"idle", "test", "copy", "store"}
  /\ rTail \in LogSlots /\ rEntry \in Entry \cup {NoEntry}
  /\ logged \in 0 .. MaxEntries /\ clearedUpTo \in 0 .. logged /\ got \in Seq(Entry \cup {NoEntry})
  /\ alone \in BOOLEAN /\ contended \in BOOLEAN /\ crossed \in BOOLEAN

ErrorInit ==
  /\ m_head = 0 /\ m_tail = 0 /\ m_buf = [s \in LogSlots |-> NoEntry]
  /\ lpc = [l \in Loggers |-> "idle"]
  /\ lHead = [l \in Loggers |-> 0] /\ lExpected = [l \in Loggers |-> 0]
  /\ lEntry = [l \in Loggers |-> NoEntry]
  /\ rpc = "idle" /\ rTail = 0 /\ rEntry = NoEntry
  /\ logged = 0 /\ clearedUpTo = 0 /\ got = <<>>
  /\ alone = TRUE /\ contended = FALSE /\ crossed = FALSE

Logging == \E l \in Loggers : lpc[l] # "idle"
Quiet == rpc = "idle" /\ ~Logging
-----------------------------------------------------------------------------
(* log() *)

LogBegin(l) ==
  /\ lpc[l] = "idle" /\ logged < MaxEntries
  /\ logged' = logged + 1
  /\ lEntry' = [lEntry EXCEPT ![l] = logged + 1]
  /\ lHead' = [lHead EXCEPT ![l] = m_head]
  /\ lpc' = [lpc EXCEPT ![l] = "test"]
  /\ alone' = ~Logging /\ contended' = (contended \/ Logging)
  /\ crossed' = (crossed \/ rpc # "idle")
  /\ UNCHANGED <<m_head, m_tail, m_buf, lExpected, readVars>>

LogTest(l) ==
  /\ lpc[l] = "test"
  /\ lpc' = [lpc EXCEPT ![l] = IF NextEntry(lHead[l]) = m_tail THEN "reload" ELSE "write"]
  /\ UNCHANGED <<m_head, m_tail, m_buf, lHead, lExpected, lEntry, logged, readVars, raceVars>>

LogReload(l) ==
  /\ lpc[l] = "reload"
  /\ lExpected' = [lExpected EXCEPT ![l] = m_tail]
  /\ lpc' = [lpc EXCEPT ![l] = "cas"]
  /\ UNCHANGED <<m_head, m_tail, m_buf, lHead, lEntry, logged, readVars, raceVars>>

LogCas(l) ==
  /\ lpc[l] = "cas"
  /\ m_tail' = IF m_tail = lExpected[l] THEN NextEntry(lExpected[l]) ELSE m_tail
  /\ lpc' = [lpc EXCEPT ![l] = "write"]
  /\ UNCHANGED <<m_head, m_buf, lHead, lExpected, lEntry, logged, readVars, raceVars>>

LogWriteAhead(l) ==
  /\ lpc[l] = "write"
  /\ m_buf' = [m_buf EXCEPT ![NextEntry(lHead[l])] = lEntry[l]]
  /\ lpc' = [lpc EXCEPT ![l] = "store"]
  /\ UNCHANGED <<m_head, m_tail, lHead, lExpected, lEntry, logged, readVars, raceVars>>

LogWrite(l) ==
  /\ lpc[l] = "write"
  /\ m_buf' = [m_buf EXCEPT ![lHead[l]] = lEntry[l]]
  /\ lpc' = [lpc EXCEPT ![l] = "store"]
  /\ UNCHANGED <<m_head, m_tail, lHead, lExpected, lEntry, logged, readVars, raceVars>>

LogStore(l) ==
  /\ lpc[l] = "store"
  /\ m_head' = NextEntry(lHead[l])
  /\ lpc' = [lpc EXCEPT ![l] = "idle"]
  /\ UNCHANGED <<m_tail, m_buf, lHead, lExpected, lEntry, logged, readVars, raceVars>>

(* read() *)

ReadBegin ==
  /\ rpc = "idle"
  /\ rTail' = m_tail
  /\ rpc' = "test"
  /\ crossed' = (crossed \/ Logging)
  /\ UNCHANGED <<m_head, m_tail, m_buf, lpc, lHead, lExpected, lEntry, logged, clearedUpTo, rEntry, got, alone, contended>>

ReadTest ==
  /\ rpc = "test"
  /\ rpc' = IF rTail = m_head THEN "idle" ELSE "copy"
  /\ UNCHANGED <<m_head, m_tail, m_buf, lpc, lHead, lExpected, lEntry, logged, clearedUpTo, rTail, rEntry, got, raceVars>>

ReadCopy ==
  /\ rpc = "copy"
  /\ rEntry' = m_buf[rTail]
  /\ rpc' = "store"
  /\ UNCHANGED <<m_head, m_tail, m_buf, lpc, lHead, lExpected, lEntry, logged, clearedUpTo, rTail, got, raceVars>>

ReadStore ==
  /\ rpc = "store"
  /\ m_tail' = NextEntry(rTail)
  /\ got' = Append(got, rEntry)
  /\ rpc' = "idle"
  /\ UNCHANGED <<m_head, m_buf, lpc, lHead, lExpected, lEntry, logged, clearedUpTo, rTail, rEntry, raceVars>>

(* clear(), called by System::reset() with every context quiet.             *)
ClearLog ==
  /\ Quiet
  /\ m_tail' = m_head
  /\ clearedUpTo' = logged /\ got' = <<>>
  /\ alone' = TRUE /\ contended' = FALSE /\ crossed' = FALSE
  /\ UNCHANGED <<m_head, m_buf, lpc, lHead, lExpected, lEntry, logged, rpc, rTail, rEntry>>

LogStep(l) == LogBegin(l) \/ LogTest(l) \/ LogReload(l) \/ LogCas(l) \/ LogWrite(l) \/ LogStore(l)
ReadStep == ReadBegin \/ ReadTest \/ ReadCopy \/ ReadStore

ErrorNext == (\E l \in Loggers : LogStep(l)) \/ ReadStep \/ ClearLog

ErrorSpec == ErrorInit /\ [][ErrorNext]_errorVars
-----------------------------------------------------------------------------
(* The entries still in the ring, oldest first.                             *)
Kept == [k \in 1 .. Count(m_head, m_tail) |-> m_buf[(m_tail + k - 1) % kLogSlots]]

(* The log is a black box.  Cores that log at the same time lose entries to *)
(* one another; but whatever they overwrote before, a log() that no other   *)
(* one overlaps leaves its entry as the newest of the ring.  While no two   *)
(* log() calls have overlapped since the last clear(), however a read()     *)
(* overlaps them, the quiet ring holds the newest entries since that        *)
(* clear(), in order and ending with the last one logged.  While no read()  *)
(* has overlapped a log() either, no entry is discarded too soon (one that  *)
(* was not read is in the ring until kCapacity newer ones were logged), and *)
(* read() returns no entry twice or after a newer one.                      *)
KeepsNewest ==
  /\ Quiet /\ alone /\ Kept # <<>> => Kept[Len(Kept)] = logged
  /\ Quiet /\ ~contended =>
       /\ Len(Kept) <= logged - clearedUpTo
       /\ \A k \in 1 .. Len(Kept) : Kept[k] = logged - Len(Kept) + k
       /\ ~crossed => \A e \in (clearedUpTo + 1) .. logged :
            \/ logged - e >= kCapacity
            \/ \E k \in 1 .. Len(Kept) : Kept[k] = e
            \/ \E k \in 1 .. Len(got) : got[k] = e
  /\ ~contended /\ ~crossed => \A j, k \in 1 .. Len(got) : j < k => got[j] < got[k]

(* What makes it inductive.  The slot j places behind another; the log()    *)
(* calls that have returned, and those of them since the clear(), when none *)
(* overlapped.                                                              *)
Behind(h, j) == (h + (kLogSlots - j)) % kLogSlots
Complete == IF Logging THEN logged - 1 ELSE logged
Fresh == Complete - clearedUpTo

(* A log() that overlaps no other is the only one to move the head, and it  *)
(* writes its entry there first.                                            *)
CallInv ==
  /\ ~contended => alone
  /\ Logging => logged > clearedUpTo
  /\ alone => \A l \in Loggers : lpc[l] # "idle" =>
       /\ \A x \in Loggers : lpc[x] # "idle" => x = l
       /\ lHead[l] = m_head /\ lEntry[l] = logged
       /\ lpc[l] = "store" => m_buf[m_head] = logged
  /\ alone /\ ~Logging /\ logged > clearedUpTo => m_buf[Behind(m_head, 1)] = logged
  /\ logged = clearedUpTo => /\ m_tail = m_head /\ rpc \notin {"copy", "store"}
                             /\ rpc = "test" => rTail = m_head

(* The newest entries are behind the head, wherever the tail is, and no     *)
(* tail that was loaded reaches back past the clear().                      *)
NewestInv == ~contended =>
  /\ \A j \in 1 .. kCapacity : j <= Fresh => m_buf[Behind(m_head, j)] = (Complete - j) + 1
  /\ Count(m_head, m_tail) <= Fresh
  /\ rpc # "idle" => Count(m_head, rTail) <= Fresh
  /\ Fresh < kCapacity =>
       /\ rpc \in {"copy", "store"} => rTail # m_head
       /\ \A l \in Loggers : lpc[l] \notin {"reload", "cas"}

(* Calls that do not overlap see the tail they loaded, and log() moves it   *)
(* exactly when the ring is full.                                           *)
TurnInv == ~contended /\ ~crossed =>
  /\ rpc = "idle" \/ ~Logging
  /\ rpc # "idle" => rTail = m_tail
  /\ rpc \in {"copy", "store"} => m_tail # m_head
  /\ rpc = "store" => rEntry = (Complete - Count(m_head, m_tail)) + 1
  /\ \A l \in Loggers :
       /\ lpc[l] \in {"reload", "cas"} => NextEntry(m_head) = m_tail
       /\ lpc[l] = "cas" => lExpected[l] = m_tail
       /\ lpc[l] \in {"write", "store"} => NextEntry(m_head) # m_tail

(* What left the ring was read in order, or kCapacity newer ones were       *)
(* logged.                                                                  *)
TakenInv == ~contended /\ ~crossed =>
  /\ \A j, k \in 1 .. Len(got) : j < k => got[j] < got[k]
  /\ \A k \in 1 .. Len(got) : got[k] <= Complete - Count(m_head, m_tail)
  /\ \A e \in (clearedUpTo + 1) .. (Complete - Count(m_head, m_tail)) :
       logged - e >= kCapacity \/ \E k \in 1 .. Len(got) : got[k] = e

ErrorInv == ErrorTypeOK /\ CallInv /\ NewestInv /\ TurnInv /\ TakenInv
-----------------------------------------------------------------------------
(* Statements of comments that the code does not keep.                      *)

(* The comment in log(): a concurrent read() does not cause a double        *)
(* advance.  So an entry is discarded only to make room in a full ring.     *)
DiscardsOnlyWhenFull ==
  [][\A l \in Loggers : lpc[l] = "cas" /\ m_tail' # m_tail => Count(m_head, m_tail) = kCapacity]_errorVars

(* The header: a read() concurrent with an overwrite sees a stale tail for  *)
(* one cycle.  So a read() removes at most the entry it returns.            *)
ReadRemovesOne ==
  [][rpc = "store" => Count(m_head', m_tail') >= Count(m_head, m_tail) - 1]_errorVars

(* The header: thread safety is provided by the atomic indices.  So no      *)
(* entry is lost while at most kCapacity were logged since a clear().       *)
NothingLostBelowCapacity ==
  Quiet /\ logged - clearedUpTo <= kCapacity /\ got = <<>> => Len(Kept) = logged - clearedUpTo
=============================================================================
