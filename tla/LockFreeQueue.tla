---------------------------- MODULE LockFreeQueue ----------------------------
(***************************************************************************)
(* osal/sync/LockFreeQueue.h: the single-producer single-consumer ring     *)
(* that carries commands from CommsTask to ControlTask.  One step is one   *)
(* atomic access of m_head or m_tail, or one access of a slot; the slot    *)
(* accesses are plain struct copies, so the states in which a side is at   *)
(* "write" or "read" stand for the whole duration of its copy.             *)
(*                                                                         *)
(* Exactly one thread pushes and one pops (the class's contract); either   *)
(* may call size(); clear() is called only while neither is in the queue.  *)
(***************************************************************************)
EXTENDS Naturals, Sequences

CONSTANTS Commands, DefaultCmd, Capacity

ASSUME CapacityAssumption == Capacity \in Nat \ {0}
ASSUME DefaultAssumption == DefaultCmd \in Commands

kSlots == Capacity + 1
Slots == 0 .. Capacity

VARIABLES head, tail, buf,           \* m_head, m_tail, m_buf
          pPc, pHead, pCmd, pushOk,  \* the producer: try_push and size
          pSize,
          cPc, cTail, cCmd, popOk,   \* the consumer: try_pop and size
          out, cHead, cSize

prodVars == <<pPc, pHead, pCmd, pushOk, pSize>>
consVars == <<cPc, cTail, cCmd, popOk, out, cHead, cSize>>
vars == <<head, tail, buf, prodVars, consVars>>

TypeOK ==
  /\ head \in Slots /\ tail \in Slots
  /\ buf \in [Slots -> Commands]
  /\ pPc \in {"idle", "check", "write", "store", "sizeTail", "sized"}
  /\ pHead \in Slots /\ pCmd \in Commands /\ pushOk \in BOOLEAN
  /\ pSize \in 0 .. Capacity
  /\ cPc \in {"idle", "check", "read", "store", "sizeTail", "sized"}
  /\ cTail \in Slots /\ cCmd \in Commands /\ popOk \in BOOLEAN
  /\ out \in Commands /\ cHead \in Slots /\ cSize \in 0 .. Capacity

Init ==
  /\ head = 0 /\ tail = 0
  /\ buf = [s \in Slots |-> DefaultCmd]
  /\ pPc = "idle" /\ pHead = 0 /\ pCmd = DefaultCmd /\ pushOk = FALSE
  /\ pSize = 0
  /\ cPc = "idle" /\ cTail = 0 /\ cCmd = DefaultCmd /\ popOk = FALSE
  /\ out = DefaultCmd /\ cHead = 0 /\ cSize = 0
-----------------------------------------------------------------------------
(* The index after s, and the distance the code computes between indices.  *)

NextSlot(s) == (s + 1) % kSlots

SizeNoWrap(h, t) == IF h >= t THEN h - t ELSE t - h
SizeOf(h, t) == IF h >= t THEN h - t ELSE (kSlots - t) + h
-----------------------------------------------------------------------------
(* try_push *)

PushBegin(c) ==
  /\ pPc = "idle"
  /\ pHead' = head /\ pCmd' = c
  /\ pPc' = "check"
  /\ UNCHANGED <<head, tail, buf, pushOk, pSize, consVars>>

PushFull ==
  /\ pPc = "check" /\ NextSlot(pHead) = tail
  /\ pushOk' = FALSE
  /\ pPc' = "idle"
  /\ UNCHANGED <<head, tail, buf, pHead, pCmd, pSize, consVars>>

PushRoomUnchecked ==
  /\ pPc = "check"
  /\ pPc' = "write"
  /\ UNCHANGED <<head, tail, buf, pHead, pCmd, pushOk, pSize, consVars>>

PushRoom ==
  /\ pPc = "check" /\ NextSlot(pHead) # tail
  /\ pPc' = "write"
  /\ UNCHANGED <<head, tail, buf, pHead, pCmd, pushOk, pSize, consVars>>

PushWrite ==
  /\ pPc = "write"
  /\ buf' = [buf EXCEPT ![pHead] = pCmd]
  /\ pPc' = "store"
  /\ UNCHANGED <<head, tail, pHead, pCmd, pushOk, pSize, consVars>>

PushStore ==
  /\ pPc = "store"
  /\ head' = NextSlot(pHead)
  /\ pushOk' = TRUE
  /\ pPc' = "idle"
  /\ UNCHANGED <<tail, buf, pHead, pCmd, pSize, consVars>>

(* try_pop *)

PopBegin ==
  /\ cPc = "idle"
  /\ cTail' = tail
  /\ cPc' = "check"
  /\ UNCHANGED <<head, tail, buf, cCmd, popOk, out, cHead, cSize, prodVars>>

PopEmpty ==
  /\ cPc = "check" /\ cTail = head
  /\ popOk' = FALSE
  /\ cPc' = "idle"
  /\ UNCHANGED <<head, tail, buf, cTail, cCmd, out, cHead, cSize, prodVars>>

PopSome ==
  /\ cPc = "check" /\ cTail # head
  /\ cPc' = "read"
  /\ UNCHANGED <<head, tail, buf, cTail, cCmd, popOk, out, cHead, cSize, prodVars>>

PopReadReleaseFirst ==
  /\ cPc = "read"
  /\ cCmd' = buf[cTail]
  /\ tail' = NextSlot(cTail)
  /\ cPc' = "store"
  /\ UNCHANGED <<head, buf, cTail, popOk, out, cHead, cSize, prodVars>>

PopRead ==
  /\ cPc = "read"
  /\ cCmd' = buf[cTail]
  /\ cPc' = "store"
  /\ UNCHANGED <<head, tail, buf, cTail, popOk, out, cHead, cSize, prodVars>>

PopStore ==
  /\ cPc = "store"
  /\ tail' = NextSlot(cTail)
  /\ out' = cCmd /\ popOk' = TRUE
  /\ cPc' = "idle"
  /\ UNCHANGED <<head, buf, cTail, cCmd, cHead, cSize, prodVars>>

(* size(), called by either side: m_head is loaded before m_tail.           *)

PSizeHead ==
  /\ pPc = "idle"
  /\ pHead' = head
  /\ pPc' = "sizeTail"
  /\ UNCHANGED <<head, tail, buf, pCmd, pushOk, pSize, consVars>>

PSizeTail ==
  /\ pPc = "sizeTail"
  /\ pSize' = SizeOf(pHead, tail)
  /\ pPc' = "sized"
  /\ UNCHANGED <<head, tail, buf, pHead, pCmd, pushOk, consVars>>

PSizeReturn ==
  /\ pPc = "sized"
  /\ pPc' = "idle"
  /\ UNCHANGED <<head, tail, buf, pHead, pCmd, pushOk, pSize, consVars>>

CSizeHead ==
  /\ cPc = "idle"
  /\ cHead' = head
  /\ cPc' = "sizeTail"
  /\ UNCHANGED <<head, tail, buf, cTail, cCmd, popOk, out, cSize, prodVars>>

CSizeTail ==
  /\ cPc = "sizeTail"
  /\ cSize' = SizeOf(cHead, tail)
  /\ cPc' = "sized"
  /\ UNCHANGED <<head, tail, buf, cTail, cCmd, popOk, out, cHead, prodVars>>

CSizeReturn ==
  /\ cPc = "sized"
  /\ cPc' = "idle"
  /\ UNCHANGED <<head, tail, buf, cTail, cCmd, popOk, out, cHead, cSize, prodVars>>

(* clear(): called by System::reset() with no push or pop in progress.      *)
ClearQueue ==
  /\ pPc = "idle" /\ cPc = "idle"
  /\ tail' = head
  /\ UNCHANGED <<head, buf, prodVars, consVars>>

Next ==
  \/ \E c \in Commands : PushBegin(c)
  \/ PushFull \/ PushRoom \/ PushWrite \/ PushStore
  \/ PopBegin \/ PopEmpty \/ PopSome \/ PopRead \/ PopStore
  \/ PSizeHead \/ PSizeTail \/ PSizeReturn
  \/ CSizeHead \/ CSizeTail \/ CSizeReturn
  \/ ClearQueue

Spec == Init /\ [][Next]_vars
-----------------------------------------------------------------------------
(* The slot that holds the k-th queued command, k counted from 0.           *)
SlotAt(t, k) == IF t + k <= Capacity THEN t + k ELSE t + k - kSlots

(* The commands in a ring with slots b and indices h and t, oldest first.   *)
Items(b, h, t) == [k \in 1 .. SizeOf(h, t) |-> b[SlotAt(t, k - 1)]]
Contents == Items(buf, head, tail)

(* Every execution of the ring is an execution of the atomic bounded FIFO:  *)
(* nothing is lost, duplicated, reordered or invented across the wrap of    *)
(* the indices; a push fails only at an instant at which the ring holds     *)
(* Capacity commands, a pop only at one at which it holds none, and what a  *)
(* pop delivers is still the oldest command when m_tail moves past it.      *)
Fifo == INSTANCE BoundedFifo WITH items <- Contents
ImplementsFifo == Fifo!Spec

(* The two threads never access one slot at the same time, so the plain     *)
(* struct copies of try_push and try_pop are free of data races.            *)
SlotExclusive == pPc = "write" /\ cPc = "read" => pHead # cTail

(* size() reports a true depth: the consumer's answer never exceeds what    *)
(* it can pop now, the producer's is never below what is still queued (so   *)
(* Capacity minus it is room the producer can rely on).                     *)
SizeIsBound ==
  /\ cPc = "sized" => cSize <= SizeOf(head, tail)
  /\ pPc = "sized" => pSize >= SizeOf(head, tail)
-----------------------------------------------------------------------------
(* The inductive invariant: what each side knows about the indices and the  *)
(* slot it is working on.                                                   *)

ProducerInv ==
  /\ pPc # "idle" => pHead = head
  /\ pPc \in {"write", "store"} => SizeOf(head, tail) < Capacity
  /\ pPc = "store" => buf[pHead] = pCmd

ConsumerInv ==
  /\ cPc \in {"check", "read", "store"} => cTail = tail
  /\ cPc \in {"read", "store"} => head # tail
  /\ cPc = "store" => cCmd = buf[cTail]
  /\ cPc = "sizeTail" => SizeOf(cHead, tail) <= SizeOf(head, tail)

IInv == TypeOK /\ ProducerInv /\ ConsumerInv /\ SizeIsBound
=============================================================================
