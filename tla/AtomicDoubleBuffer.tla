-------------------------- MODULE AtomicDoubleBuffer --------------------------
(***************************************************************************)
(* osal/sync/AtomicDoubleBuffer.h: the latest-value channel between one    *)
(* writer and one reader.  A T is copied word by word; two words are       *)
(* enough to tell a whole value from a torn one.  A value is the number of *)
(* the write() call that wrote it.  The cache policy is the default one,   *)
(* whose two calls do nothing.                                             *)
(***************************************************************************)
EXTENDS Integers

CONSTANT MaxWrites  \* bound: write() calls made in a behaviour

ASSUME WritesAssumption == MaxWrites \in Nat

VARIABLES m_buffers,      \* two slots of two words
          m_writeIndex,
          wpc, wNext,     \* the write() in progress
          written,        \* write() calls begun; its value while one is in progress
          published,      \* the value of the last completed write()
          rpc, rIdx, rCopy, \* the read() in progress and what it has copied
          floor,          \* published when that read() loaded the index
          overlaps        \* write() calls that overlap it

vars == <<m_buffers, m_writeIndex, wpc, wNext, written, published,
          rpc, rIdx, rCopy, floor, overlaps>>

Value == 0 .. MaxWrites
Words == Value \X Value

TypeOK ==
  /\ m_buffers \in [0 .. 1 -> Words] /\ m_writeIndex \in 0 .. 1
  /\ wpc \in {"idle", "word1", "word2", "publish"} /\ wNext \in 0 .. 1
  /\ written \in Value /\ published \in Value
  /\ rpc \in {"idle", "word1", "word2", "return"} /\ rIdx \in 0 .. 1
  /\ rCopy \in Words /\ floor \in Value /\ overlaps \in 0 .. written

Init ==
  /\ m_buffers = [s \in 0 .. 1 |-> <<0, 0>>] /\ m_writeIndex = 0
  /\ wpc = "idle" /\ wNext = 0 /\ written = 0 /\ published = 0
  /\ rpc = "idle" /\ rIdx = 0 /\ rCopy = <<0, 0>> /\ floor = 0 /\ overlaps = 0
-----------------------------------------------------------------------------
(* write(): the index is loaded, the slot not published is filled, and then *)
(* published.                                                               *)

Inactive(s) == 1 - s  \* index ^ 1U

WriteBegin ==
  /\ wpc = "idle" /\ written < MaxWrites
  /\ wNext' = Inactive(m_writeIndex)
  /\ written' = written + 1
  /\ overlaps' = IF rpc = "idle" THEN overlaps ELSE overlaps + 1
  /\ wpc' = "word1"
  /\ UNCHANGED <<m_buffers, m_writeIndex, published, rpc, rIdx, rCopy, floor>>

WriteWord1 ==
  /\ wpc = "word1"
  /\ m_buffers' = [m_buffers EXCEPT ![wNext] = <<written, @[2]>>]
  /\ wpc' = "word2"
  /\ UNCHANGED <<m_writeIndex, wNext, written, published, rpc, rIdx, rCopy, floor, overlaps>>

WritePublishEarly ==
  /\ wpc = "word2"
  /\ m_writeIndex' = wNext
  /\ published' = written
  /\ wpc' = "publish"
  /\ UNCHANGED <<m_buffers, wNext, written, rpc, rIdx, rCopy, floor, overlaps>>

WriteWord2 ==
  /\ wpc = "word2"
  /\ m_buffers' = [m_buffers EXCEPT ![wNext] = <<@[1], written>>]
  /\ wpc' = "publish"
  /\ UNCHANGED <<m_writeIndex, wNext, written, published, rpc, rIdx, rCopy, floor, overlaps>>

WritePublish ==
  /\ wpc = "publish"
  /\ m_writeIndex' = wNext
  /\ published' = written
  /\ wpc' = "idle"
  /\ UNCHANGED <<m_buffers, wNext, written, rpc, rIdx, rCopy, floor, overlaps>>

(* read(): the index is loaded and that slot copied out.                    *)

ReadLoadStale ==
  /\ rpc = "idle"
  /\ rIdx' = Inactive(m_writeIndex)
  /\ floor' = published
  /\ overlaps' = IF wpc = "idle" THEN 0 ELSE 1
  /\ rpc' = "word1"
  /\ UNCHANGED <<m_buffers, m_writeIndex, wpc, wNext, written, published, rCopy>>

ReadLoad ==
  /\ rpc = "idle"
  /\ rIdx' = m_writeIndex
  /\ floor' = published
  /\ overlaps' = IF wpc = "idle" THEN 0 ELSE 1
  /\ rpc' = "word1"
  /\ UNCHANGED <<m_buffers, m_writeIndex, wpc, wNext, written, published, rCopy>>

ReadWord1 ==
  /\ rpc = "word1"
  /\ rCopy' = <<m_buffers[rIdx][1], rCopy[2]>>
  /\ rpc' = "word2"
  /\ UNCHANGED <<m_buffers, m_writeIndex, wpc, wNext, written, published, rIdx, floor, overlaps>>

ReadWord2 ==
  /\ rpc = "word2"
  /\ rCopy' = <<rCopy[1], m_buffers[rIdx][2]>>
  /\ rpc' = "return"
  /\ UNCHANGED <<m_buffers, m_writeIndex, wpc, wNext, written, published, rIdx, floor, overlaps>>

ReadReturn ==
  /\ rpc = "return"
  /\ rpc' = "idle"
  /\ UNCHANGED <<m_buffers, m_writeIndex, wpc, wNext, written, published, rIdx, rCopy, floor, overlaps>>

Next ==
  \/ WriteBegin \/ WriteWord1 \/ WriteWord2 \/ WritePublish
  \/ ReadLoad \/ ReadWord1 \/ ReadWord2 \/ ReadReturn

Spec == Init /\ [][Next]_vars
-----------------------------------------------------------------------------
(* A read() that overlaps at most one write(), begun before or during it,   *)
(* returns the value that was the latest when it loaded the index, whole.   *)
SlowWriterExact ==
  rpc = "return" /\ overlaps <= 1 => rCopy = <<floor, floor>>

(* Whatever overlaps, every word read() returns is at least as new as the   *)
(* latest completed write() at its start: no word of an older value.        *)
NeverOlderThanPublished ==
  rpc = "return" => rCopy[1] >= floor /\ rCopy[2] >= floor
-----------------------------------------------------------------------------
(* The inductive invariant: the published slot is whole and the writer is   *)
(* at the other one; the slot a reader holds keeps its value until the      *)
(* second overlapping write() and never gets an older word.                 *)

WriterInv ==
  /\ m_buffers[m_writeIndex] = <<published, published>>
  /\ wpc = "idle" => written = published
  /\ wpc # "idle" => wNext = Inactive(m_writeIndex) /\ written = published + 1
  /\ wpc \in {"word2", "publish"} => m_buffers[wNext][1] = written
  /\ wpc = "publish" => m_buffers[wNext][2] = written

ReaderInv ==
  /\ rpc # "idle" => /\ floor <= published
                     /\ m_buffers[rIdx][1] >= floor /\ m_buffers[rIdx][2] >= floor
                     /\ wpc # "idle" => overlaps >= 1
                     /\ overlaps <= 1 => m_buffers[rIdx] = <<floor, floor>>
                     /\ overlaps = 0 \/ (overlaps = 1 /\ wpc # "idle") => rIdx = m_writeIndex
  /\ rpc \in {"word2", "return"} =>
       rCopy[1] >= floor /\ (overlaps <= 1 => rCopy[1] = floor)
  /\ rpc = "return" =>
       rCopy[2] >= floor /\ (overlaps <= 1 => rCopy[2] = floor)

IInv == TypeOK /\ WriterInv /\ ReaderInv
-----------------------------------------------------------------------------
(* The comment of write(): it selects the slot not currently being read,    *)
(* so no read() mixes the words of two values.                              *)
NoTornRead == rpc = "return" => rCopy[1] = rCopy[2]
=============================================================================
