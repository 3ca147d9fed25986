---------------------------- MODULE ServiceProofs ----------------------------
(***************************************************************************)
(* The kernel's services.  The command queue, for every capacity and every *)
(* set of commands: its slots are exclusive, size() is a sound bound and   *)
(* the ring implements the atomic bounded FIFO.  The interlocks, the       *)
(* watchdog, the users of the clock and the PID controller, for any number *)
(* of conditions, any timeout, any width of the counter, any gains and     *)
(* limits.  The ring of status lines under a mutex that waits, for any     *)
(* number of contexts and lines; and the ring of fault records with one    *)
(* context that logs, overlapped at will by one that reads.                *)
(***************************************************************************)
EXTENDS LockFreeQueue, InterlockManager, WatchdogSync, TimeUtils, TelemetryLogger, ErrorLogger,
        SequenceTheorems, TLAPS

(* The modulus of try_push and try_pop only wraps at the last slot.        *)
LEMMA NextSlotLemma ==
  ASSUME NEW s \in Slots
  PROVE  /\ NextSlot(s) = IF s = Capacity THEN 0 ELSE s + 1
         /\ NextSlot(s) \in Slots
BY CapacityAssumption DEF NextSlot, Slots, kSlots

(* The distance size() computes is a depth between 0 and Capacity, zero    *)
(* exactly when the indices are equal and Capacity exactly when the next   *)
(* index after head is tail.                                               *)
LEMMA SizeLemma ==
  ASSUME NEW h \in Slots, NEW t \in Slots
  PROVE  /\ SizeOf(h, t) \in 0 .. Capacity
         /\ SizeOf(h, t) = 0 <=> h = t
         /\ SizeOf(h, t) = Capacity <=> NextSlot(h) = t
         /\ h # t => SizeOf(h, NextSlot(t)) = SizeOf(h, t) - 1
         /\ NextSlot(h) # t => SizeOf(NextSlot(h), t) = SizeOf(h, t) + 1
BY CapacityAssumption, NextSlotLemma DEF SizeOf, Slots, kSlots

(* The invariant holds initially.                                          *)
LEMMA InitIInv == Init => IInv
<1> SUFFICES ASSUME Init PROVE IInv
  OBVIOUS
<1>1. 0 \in Slots /\ 0 \in 0 .. Capacity
  BY CapacityAssumption DEF Slots
<1>2. TypeOK
  BY <1>1, DefaultAssumption DEF Init, TypeOK
<1> QED
  BY <1>2 DEF Init, IInv, ProducerInv, ConsumerInv, SizeIsBound

(* Every step of either thread preserves it.                               *)
LEMMA NextIInv == IInv /\ [Next]_vars => IInv'
<1> SUFFICES ASSUME IInv, [Next]_vars PROVE IInv'
  OBVIOUS
<1> USE CapacityAssumption, NextSlotLemma, SizeLemma
    DEF IInv, TypeOK, ProducerInv, ConsumerInv, SizeIsBound
<1>1. ASSUME NEW c \in Commands, PushBegin(c) PROVE IInv'
  BY <1>1 DEF PushBegin, prodVars, consVars
<1>2. CASE PushFull
  BY <1>2 DEF PushFull, prodVars, consVars
<1>3. CASE PushRoom
  BY <1>3 DEF PushRoom, prodVars, consVars
<1>4. CASE PushWrite
  BY <1>4 DEF PushWrite, prodVars, consVars
<1>5. CASE PushStore
  BY <1>5 DEF PushStore, prodVars, consVars
<1>6. CASE PopBegin
  BY <1>6 DEF PopBegin, prodVars, consVars
<1>7. CASE PopEmpty
  BY <1>7 DEF PopEmpty, prodVars, consVars
<1>8. CASE PopSome
  BY <1>8 DEF PopSome, prodVars, consVars
<1>9. CASE PopRead
  BY <1>9 DEF PopRead, prodVars, consVars
<1>10. CASE PopStore
  BY <1>10 DEF PopStore, prodVars, consVars
<1>11. CASE PSizeHead
  BY <1>11 DEF PSizeHead, prodVars, consVars
<1>12. CASE PSizeTail
  BY <1>12 DEF PSizeTail, prodVars, consVars
<1>13. CASE PSizeReturn
  BY <1>13 DEF PSizeReturn, prodVars, consVars
<1>14. CASE CSizeHead
  BY <1>14 DEF CSizeHead, prodVars, consVars
<1>15. CASE CSizeTail
  BY <1>15 DEF CSizeTail, prodVars, consVars
<1>16. CASE CSizeReturn
  BY <1>16 DEF CSizeReturn, prodVars, consVars
<1>17. CASE ClearQueue
  BY <1>17 DEF ClearQueue, prodVars, consVars
<1>18. CASE UNCHANGED vars
  BY <1>18 DEF vars, prodVars, consVars
<1> QED
  BY <1>1, <1>2, <1>3, <1>4, <1>5, <1>6, <1>7, <1>8, <1>9, <1>10, <1>11, <1>12, <1>13, <1>14, <1>15, <1>16, <1>17, <1>18 DEF Next

(* The inductive invariant is an invariant of the ring.                    *)
THEOREM QueueInvariant == Spec => []IInv
BY InitIInv, NextIInv, PTL DEF Spec

(* The indices stay inside m_buf and every local of try_push, try_pop and  *)
(* size() keeps its type, size()'s result included (at most Capacity).     *)
THEOREM QueueTypeCorrect == Spec => []TypeOK
<1>1. IInv => TypeOK
  BY DEF IInv
<1> QED
  BY <1>1, QueueInvariant, PTL

(* The copies of try_push and try_pop never touch one slot together.       *)
THEOREM QueueSlotExclusive == Spec => []SlotExclusive
<1>1. IInv => SlotExclusive
  BY DEF IInv, ProducerInv, ConsumerInv, SlotExclusive
<1> QED
  BY <1>1, QueueInvariant, PTL

(* What size() returned is a bound its caller can rely on.                 *)
THEOREM QueueSizeIsBound == Spec => []SizeIsBound
<1>1. IInv => SizeIsBound
  BY DEF IInv
<1> QED
  BY <1>1, QueueInvariant, PTL
-----------------------------------------------------------------------------
(* Refinement.  The k-th queued command stays in its slot: while the ring  *)
(* is not full the slot the producer writes holds none of them.            *)
LEMMA SlotLemma ==
  ASSUME NEW h \in Slots, NEW t \in Slots, NEW k \in 0 .. Capacity
  PROVE  /\ SlotAt(t, k) \in Slots
         /\ k < SizeOf(h, t) => SlotAt(t, k) # h
         /\ SlotAt(t, SizeOf(h, t)) = h
         /\ SlotAt(t, 0) = t
         /\ k < Capacity => SlotAt(NextSlot(t), k) = SlotAt(t, k + 1)
BY CapacityAssumption, NextSlotLemma DEF SlotAt, SizeOf, Slots, kSlots

(* The ring holds a sequence of as many commands as size() counts.         *)
LEMMA ItemsLemma ==
  ASSUME NEW b \in [Slots -> Commands], NEW h \in Slots, NEW t \in Slots
  PROVE  /\ Items(b, h, t) \in Seq(Commands)
         /\ Len(Items(b, h, t)) = SizeOf(h, t)
         /\ \A k \in 1 .. SizeOf(h, t) : Items(b, h, t)[k] = b[SlotAt(t, k - 1)]
<1>1. SizeOf(h, t) \in 0 .. Capacity
  BY SizeLemma
<1>2. \A k \in 1 .. SizeOf(h, t) : b[SlotAt(t, k - 1)] \in Commands
  <2> TAKE k \in 1 .. SizeOf(h, t)
  <2>1. k - 1 \in 0 .. Capacity
    BY <1>1, CapacityAssumption
  <2> QED
    BY <2>1, SlotLemma
<1> QED
  BY <1>1, <1>2, CapacityAssumption DEF Items

(* try_push's write goes to a slot outside the queued range ...            *)
LEMMA WriteLemma ==
  ASSUME NEW b \in [Slots -> Commands], NEW h \in Slots, NEW t \in Slots,
         NEW c \in Commands
  PROVE  Items([b EXCEPT ![h] = c], h, t) = Items(b, h, t)
<1> DEFINE b2 == [b EXCEPT ![h] = c]
<1>1. SizeOf(h, t) \in 0 .. Capacity
  BY SizeLemma
<1>2. ASSUME NEW k \in 1 .. SizeOf(h, t)
      PROVE  b2[SlotAt(t, k - 1)] = b[SlotAt(t, k - 1)]
  <2>1. k - 1 \in 0 .. Capacity /\ k - 1 < SizeOf(h, t)
    BY <1>1, CapacityAssumption
  <2> QED
    BY <2>1, SlotLemma
<1> QED
  BY <1>2 DEF Items

(* ... and its store of m_head appends what was written there.             *)
LEMMA PushLemma ==
  ASSUME NEW b \in [Slots -> Commands], NEW h \in Slots, NEW t \in Slots,
         NextSlot(h) # t
  PROVE  Items(b, NextSlot(h), t) = Append(Items(b, h, t), b[h])
<1> DEFINE n == SizeOf(h, t)
           s == Items(b, h, t)
           u == Items(b, NextSlot(h), t)
<1>1. /\ n \in 0 .. Capacity /\ NextSlot(h) \in Slots
      /\ SizeOf(NextSlot(h), t) = n + 1
  BY SizeLemma, NextSlotLemma
<1>2. /\ s \in Seq(Commands) /\ Len(s) = n
      /\ \A k \in 1 .. n : s[k] = b[SlotAt(t, k - 1)]
  BY ItemsLemma
<1>3. /\ u \in Seq(Commands) /\ Len(u) = n + 1
      /\ \A k \in 1 .. n + 1 : u[k] = b[SlotAt(t, k - 1)]
  <2> DEFINE m == SizeOf(NextSlot(h), t)
  <2>1. /\ u \in Seq(Commands) /\ Len(u) = m
        /\ \A k \in 1 .. m : u[k] = b[SlotAt(t, k - 1)]
    BY <1>1, ItemsLemma
  <2>2. m = n + 1
    BY <1>1
  <2> HIDE DEF n, u, m
  <2> QED
    BY <2>1, <2>2
<1>4. SlotAt(t, n) = h
  BY <1>1, SlotLemma
<1> HIDE DEF n, s, u
<1>5. u[n + 1] = b[h]
  BY <1>1, <1>3, <1>4, CapacityAssumption
<1>6. \A k \in 1 .. n : u[k] = s[k]
  BY <1>1, <1>2, <1>3, CapacityAssumption
<1>7. b[h] \in Commands
  OBVIOUS
<1>8. u = Append(s, b[h])
  BY <1>1, <1>2, <1>3, <1>5, <1>6, <1>7, SeqEqual, AppendProperties, CapacityAssumption
<1> QED
  BY <1>8 DEF s, u

(* try_pop reads the oldest command and its store of m_tail removes it.    *)
LEMMA PopLemma ==
  ASSUME NEW b \in [Slots -> Commands], NEW h \in Slots, NEW t \in Slots, h # t
  PROVE  /\ Items(b, h, t) # <<>>
         /\ Head(Items(b, h, t)) = b[t]
         /\ Tail(Items(b, h, t)) = Items(b, h, NextSlot(t))
<1> DEFINE n == SizeOf(h, t)
           s == Items(b, h, t)
           u == Items(b, h, NextSlot(t))
<1>1. /\ n \in 1 .. Capacity /\ NextSlot(t) \in Slots
      /\ SizeOf(h, NextSlot(t)) = n - 1
  BY SizeLemma, NextSlotLemma, CapacityAssumption
<1>2. /\ s \in Seq(Commands) /\ Len(s) = n
      /\ \A k \in 1 .. n : s[k] = b[SlotAt(t, k - 1)]
  BY ItemsLemma
<1>3. /\ u \in Seq(Commands) /\ Len(u) = n - 1
      /\ \A k \in 1 .. n - 1 : u[k] = b[SlotAt(NextSlot(t), k - 1)]
  <2> DEFINE m == SizeOf(h, NextSlot(t))
  <2>1. /\ u \in Seq(Commands) /\ Len(u) = m
        /\ \A k \in 1 .. m : u[k] = b[SlotAt(NextSlot(t), k - 1)]
    BY <1>1, ItemsLemma
  <2>2. m = n - 1
    BY <1>1
  <2> HIDE DEF n, u, m
  <2> QED
    BY <2>1, <2>2
<1>4. SlotAt(t, 0) = t
  BY SlotLemma, CapacityAssumption
<1>5. ASSUME NEW k \in 1 .. n - 1
      PROVE  SlotAt(NextSlot(t), k - 1) = SlotAt(t, k)
  BY <1>1, SlotLemma, CapacityAssumption
<1> HIDE DEF n, s, u
<1>6. s # <<>> /\ Head(s) = b[t]
  BY <1>1, <1>2, <1>4, CapacityAssumption
<1>7. \A k \in 1 .. n - 1 : u[k] = s[k + 1]
  BY <1>1, <1>2, <1>3, <1>5, CapacityAssumption
<1>8. Tail(s) = u
  BY <1>1, <1>2, <1>3, <1>6, <1>7, SeqEqual, HeadTailProperties, CapacityAssumption
<1> QED
  BY <1>6, <1>8 DEF s, u

(* Equal indices mean an empty ring, and only they do.                     *)
LEMMA EmptyLemma ==
  ASSUME NEW b \in [Slots -> Commands], NEW h \in Slots
  PROVE  Items(b, h, h) = <<>>
BY ItemsLemma, SizeLemma, EmptySeq

(* A step that changes neither the mapped queue nor a result stutters.     *)
LEMMA StutterLemma ==
  ASSUME UNCHANGED <<head, tail, pushOk, popOk, out>>, Contents' = Contents
  PROVE  UNCHANGED Fifo!fifoVars
BY DEF Fifo!fifoVars

(* The ring starts as an empty FIFO, and every step of it is an atomic     *)
(* FIFO operation or a stutter: try_push takes effect at its store of      *)
(* m_head or fails at its load of m_tail, try_pop takes effect at its      *)
(* store of m_tail or fails at its load of m_head.                         *)
THEOREM QueueImplementsFifo == Spec => ImplementsFifo
<1>1. Init => Fifo!Init
  BY InitIInv, EmptyLemma DEF Init, IInv, TypeOK, Fifo!Init, Contents
<1>2. IInv /\ IInv' /\ [Next]_vars => [Fifo!Next]_(Fifo!fifoVars)
  <2> SUFFICES ASSUME IInv, IInv', [Next]_vars
               PROVE  Fifo!Next \/ UNCHANGED Fifo!fifoVars
    OBVIOUS
  <2> USE DEF prodVars, consVars
  <2>t. TypeOK /\ TypeOK'
    BY DEF IInv
  <2>c. ASSUME UNCHANGED <<head, tail, buf>> PROVE Contents' = Contents
    BY <2>c DEF Contents, Items, SizeOf, SlotAt
  <2>1. ASSUME NEW c \in Commands, PushBegin(c) PROVE UNCHANGED Fifo!fifoVars
    BY <2>1, <2>c, StutterLemma DEF PushBegin
  <2>2. CASE PushFull
    <3>1. Len(Contents) = Capacity
      <4>1. NextSlot(head) = tail
        BY <2>2 DEF PushFull, IInv, ProducerInv
      <4>2. head \in Slots /\ tail \in Slots /\ buf \in [Slots -> Commands]
        BY <2>t DEF TypeOK
      <4>3. SizeOf(head, tail) = Capacity
        BY <4>1, <4>2, SizeLemma
      <4> QED
        BY <4>2, <4>3, ItemsLemma DEF Contents
    <3> QED
      BY <3>1, <2>2, <2>c DEF PushFull, Fifo!PushFull, Fifo!Next
  <2>3. CASE PushWrite
    <3>1. Contents' = Contents
      <4>1. buf' = [buf EXCEPT ![head] = pCmd] /\ UNCHANGED <<head, tail>>
        BY <2>3 DEF PushWrite, IInv, ProducerInv
      <4>2. /\ head \in Slots /\ tail \in Slots
            /\ buf \in [Slots -> Commands] /\ pCmd \in Commands
        BY <2>t DEF TypeOK
      <4>3. Items([buf EXCEPT ![head] = pCmd], head, tail) = Items(buf, head, tail)
        BY <4>2, WriteLemma
      <4> QED
        BY <4>1, <4>3 DEF Contents
    <3> QED
      BY <3>1, <2>3, StutterLemma DEF PushWrite
  <2>4. CASE PushStore
    <3>1. NextSlot(head) # tail /\ buf[head] = pCmd /\ head' = NextSlot(head)
      BY <2>4, <2>t, SizeLemma DEF PushStore, IInv, ProducerInv, TypeOK
    <3>2. Contents' = Append(Contents, pCmd)
      <4>1. /\ buf \in [Slots -> Commands] /\ head \in Slots /\ tail \in Slots
        BY <2>t DEF TypeOK
      <4>2. Items(buf, NextSlot(head), tail) = Append(Items(buf, head, tail), buf[head])
        BY <3>1, <4>1, PushLemma
      <4>3. buf' = buf /\ tail' = tail
        BY <2>4 DEF PushStore
      <4> QED
        BY <3>1, <4>2, <4>3 DEF Contents
    <3>3. Len(Contents) < Capacity
      BY <2>4, <2>t, ItemsLemma DEF PushStore, IInv, ProducerInv, TypeOK, Contents
    <3>4. pCmd \in Commands
      BY <2>t DEF TypeOK
    <3> QED
      BY <3>2, <3>3, <3>4, <2>4 DEF PushStore, Fifo!Push, Fifo!Next
  <2>5. CASE PopEmpty
    <3>1. Contents = <<>>
      BY <2>5, <2>t, EmptyLemma DEF PopEmpty, IInv, ConsumerInv, TypeOK, Contents
    <3> QED
      BY <3>1, <2>5, <2>c DEF PopEmpty, Fifo!PopEmpty, Fifo!Next
  <2>6. CASE PopStore
    <3>1. /\ head # tail /\ cCmd = buf[tail]
          /\ head' = head /\ buf' = buf /\ tail' = NextSlot(tail)
      BY <2>6 DEF PopStore, IInv, ConsumerInv
    <3>2. Contents # <<>> /\ Head(Contents) = cCmd /\ Contents' = Tail(Contents)
      BY <3>1, <2>t, PopLemma DEF TypeOK, Contents
    <3> QED
      BY <3>2, <2>6 DEF PopStore, Fifo!Pop, Fifo!Next
  <2>7. CASE ClearQueue
    <3>1. Contents' = <<>>
      BY <2>7, <2>t, EmptyLemma DEF ClearQueue, TypeOK, Contents
    <3> QED
      BY <3>1, <2>7 DEF ClearQueue, Fifo!Clear, Fifo!Next
  <2>8. CASE PushRoom \/ PopBegin \/ PopSome \/ PopRead
    BY <2>8, <2>c, StutterLemma DEF PushRoom, PopBegin, PopSome, PopRead
  <2>9. CASE PSizeHead \/ PSizeTail \/ PSizeReturn \/ CSizeHead \/ CSizeTail \/ CSizeReturn
    BY <2>9, <2>c, StutterLemma
       DEF PSizeHead, PSizeTail, PSizeReturn, CSizeHead, CSizeTail, CSizeReturn
  <2>10. CASE UNCHANGED vars
    BY <2>10, <2>c, StutterLemma DEF vars
  <2> QED
    BY <2>1, <2>2, <2>3, <2>4, <2>5, <2>6, <2>7, <2>8, <2>9, <2>10 DEF Next
<1> QED
  BY <1>1, <1>2, QueueInvariant, PTL DEF Spec, ImplementsFifo, Fifo!Spec

-----------------------------------------------------------------------------
(* No condition is registered and nothing has tripped yet.                  *)
LEMMA InterlockInitInv == InterlockInit => InterlockInv
<1> SUFFICES ASSUME InterlockInit PROVE InterlockInv
  OBVIOUS
<1>0. 1 \in 1 .. kMaxConditions + 1 /\ <<>> \in Seq(Condition) /\ Len(<<>>) <= kMaxConditions
  BY MaxAssumption
<1>1. InterlockTypeOK
  BY <1>0 DEF InterlockInit, InterlockTypeOK
<1>2. FlagsInv /\ ScanInv
  BY DEF InterlockInit, FlagsInv, ClearTellsTrips, ScanInv
<1> QED
  BY <1>1, <1>2 DEF InterlockInv

(* Every step of a trip, of clearFault() and of the hardware keeps the      *)
(* types of the registry, the flags and the scan.                           *)
LEMMA InterlockType ==
  InterlockTypeOK /\ [InterlockNext]_interlockVars => InterlockTypeOK'
<1> SUFFICES ASSUME InterlockTypeOK, [InterlockNext]_interlockVars PROVE InterlockTypeOK'
  OBVIOUS
<1> USE MaxAssumption DEF InterlockTypeOK, clearVars
<1>1. ASSUME NEW c \in Condition, RegisterCondition(c) PROVE InterlockTypeOK'
  BY <1>1 DEF RegisterCondition
<1>2. ASSUME NEW c \in Condition, ConditionChanges(c) PROVE InterlockTypeOK'
  BY <1>2 DEF ConditionChanges
<1>3. CASE SetFaultResponse \/ TriggerSoftAbort \/ TriggerHardFault
  BY <1>3 DEF SetFaultResponse, TriggerSoftAbort, TriggerHardFault
<1>4. CASE ExecuteResponse
  BY <1>4 DEF ExecuteResponse
<1>5. CASE ClearBegin
  BY <1>5 DEF ClearBegin
<1>6. CASE ClearScan
  BY <1>6 DEF ClearScan, AllScanned
<1>7. CASE ClearRefused \/ ClearScanned \/ ClearSoft \/ ClearHard
  BY <1>7 DEF ClearRefused, ClearScanned, ClearSoft, ClearHard
<1>8. CASE UNCHANGED interlockVars
  BY <1>8 DEF interlockVars
<1> QED
  BY <1>1, <1>2, <1>3, <1>4, <1>5, <1>6, <1>7, <1>8 DEF InterlockNext

(* Every step keeps what the trips since clearFault() began left standing.  *)
LEMMA InterlockFlags ==
  InterlockTypeOK /\ FlagsInv /\ [InterlockNext]_interlockVars => FlagsInv'
<1> SUFFICES ASSUME InterlockTypeOK, FlagsInv, [InterlockNext]_interlockVars PROVE FlagsInv'
  OBVIOUS
<1> USE DEF InterlockTypeOK, FlagsInv, ClearTellsTrips, clearVars
<1>1. ASSUME NEW c \in Condition, RegisterCondition(c) \/ ConditionChanges(c) PROVE FlagsInv'
  BY <1>1 DEF RegisterCondition, ConditionChanges
<1>2. CASE SetFaultResponse \/ ExecuteResponse
  BY <1>2 DEF SetFaultResponse, ExecuteResponse
<1>3. CASE TriggerSoftAbort
  BY <1>3 DEF TriggerSoftAbort
<1>4. CASE TriggerHardFault
  BY <1>4 DEF TriggerHardFault
<1>5. CASE ClearBegin
  BY <1>5 DEF ClearBegin
<1>6. CASE ClearScan \/ ClearRefused \/ ClearScanned
  BY <1>6 DEF ClearScan, ClearRefused, ClearScanned
<1>7. CASE ClearSoft \/ ClearHard
  BY <1>7 DEF ClearSoft, ClearHard
<1>8. CASE UNCHANGED interlockVars
  BY <1>8 DEF interlockVars
<1> QED
  BY <1>1, <1>2, <1>3, <1>4, <1>5, <1>6, <1>7, <1>8 DEF InterlockNext

(* Every step keeps what the scan has seen.                                 *)
LEMMA InterlockScan ==
  InterlockTypeOK /\ ScanInv /\ [InterlockNext]_interlockVars => ScanInv'
<1> SUFFICES ASSUME InterlockTypeOK, ScanInv, [InterlockNext]_interlockVars PROVE ScanInv'
  OBVIOUS
<1> USE DEF InterlockTypeOK, ScanInv, clearVars
<1>1. ASSUME NEW c \in Condition, RegisterCondition(c) PROVE ScanInv'
  BY <1>1 DEF RegisterCondition
<1>2. ASSUME NEW c \in Condition, ConditionChanges(c) PROVE ScanInv'
  BY <1>2 DEF ConditionChanges
<1>3. CASE SetFaultResponse \/ TriggerSoftAbort \/ TriggerHardFault \/ ExecuteResponse
  BY <1>3 DEF SetFaultResponse, TriggerSoftAbort, TriggerHardFault, ExecuteResponse
<1>4. CASE ClearBegin
  BY <1>4 DEF ClearBegin
<1>5. CASE ClearScan
  <2>1. ci \in 1 .. Len(m_conditions) /\ m_conditions[ci] \in Condition
    BY <1>5 DEF ClearScan, AllScanned
  <2>2. m_conditions[ci] \in seenSafe
    BY <1>5, <2>1 DEF ClearScan
  <2> QED
    BY <1>5, <2>1, <2>2 DEF ClearScan
<1>6. CASE ClearScanned
  BY <1>6 DEF ClearScanned, AllScanned
<1>7. CASE ClearRefused \/ ClearSoft \/ ClearHard
  BY <1>7 DEF ClearRefused, ClearSoft, ClearHard
<1>8. CASE UNCHANGED interlockVars
  BY <1>8 DEF interlockVars
<1> QED
  BY <1>1, <1>2, <1>3, <1>4, <1>5, <1>6, <1>7, <1>8 DEF InterlockNext

(* The invariant of the interlocks.                                         *)
THEOREM InterlockInvariant == InterlockSpec => []InterlockInv
<1>1. InterlockInv /\ [InterlockNext]_interlockVars => InterlockInv'
  BY InterlockType, InterlockFlags, InterlockScan DEF InterlockInv
<1> QED
  BY <1>1, InterlockInitInv, PTL DEF InterlockSpec

(* For any conditions, any registry and any interleaving of trips with      *)
(* clearFault(), its answer is true of the flags.                           *)
THEOREM InterlockClearTellsTrips == InterlockSpec => []ClearTellsTrips
<1>1. InterlockInv => ClearTellsTrips
  BY DEF InterlockInv, FlagsInv
<1> QED
  BY <1>1, InterlockInvariant, PTL

(* The hard fault is dropped only after every registered condition was      *)
(* nominal at some moment of the clearFault() that drops it.                *)
THEOREM InterlockClearedAfterEachSafe == InterlockSpec => ClearedAfterEachSafe
<1> DEFINE Drop == m_hardFault /\ ~m_hardFault' => Registered \subseteq seenSafe
<1>1. ASSUME InterlockInv, [InterlockNext]_interlockVars PROVE [Drop]_interlockVars
  <2> SUFFICES ASSUME m_hardFault, ~m_hardFault' PROVE Registered \subseteq seenSafe
    OBVIOUS
  <2>1. cpc = "hard"
    BY <1>1 DEF InterlockNext, RegisterCondition, ConditionChanges, SetFaultResponse,
                TriggerSoftAbort, TriggerHardFault, ExecuteResponse, ClearBegin, ClearScan,
                ClearRefused, ClearScanned, ClearSoft, ClearHard, interlockVars
  <2>2. \A k \in DOMAIN m_conditions : m_conditions[k] \in seenSafe
    BY <1>1, <2>1 DEF InterlockInv, InterlockTypeOK, ScanInv
  <2> QED
    BY <2>2 DEF Registered, ToSet
<1> HIDE DEF Drop
<1>2. InterlockSpec => [][Drop]_interlockVars
  BY <1>1, InterlockInvariant, PTL DEF InterlockSpec
<1> QED
  BY <1>2 DEF ClearedAfterEachSafe, Drop
-----------------------------------------------------------------------------
(* The age of a kick on a clock that has not wrapped.                       *)
LEMMA OlderLemma ==
  ASSUME NEW a \in Time, NEW k \in Time, k <= a
  PROVE  OlderThan(a, k, Timeout) <=> a > k + Timeout
<1>1. (a + TimeWidth - k) % TimeWidth = a - k
  BY WatchdogAssumption DEF Time
<1> QED
  BY <1>1, WatchdogAssumption DEF OlderThan, Time

(* Every step of kick(), of isStale() and of the clock keeps the times in   *)
(* order.                                                                   *)
LEMMA WatchNextInv == WatchInv /\ [WatchNext]_watchVars => WatchInv'
<1> SUFFICES ASSUME WatchInv, [WatchNext]_watchVars PROVE WatchInv'
  OBVIOUS
<1> USE WatchdogAssumption DEF WatchInv, WatchTypeOK, StaleIffSilent, Time
<1>1. CASE ClockTick
  BY <1>1 DEF ClockTick
<1>2. CASE KickBegin
  BY <1>2 DEF KickBegin
<1>8. CASE KickTime
  BY <1>8 DEF KickTime
<1>9. CASE KickAlive
  BY <1>9 DEF KickAlive
<1>3. CASE CheckBegin
  BY <1>3 DEF CheckBegin
<1>4. CASE CheckNotStarted
  BY <1>4 DEF CheckNotStarted, NeverKicked
<1>10. CASE CheckStarted
  BY <1>10 DEF CheckStarted, NeverKicked
<1>5. CASE CheckTime
  <2>1. stale' \in BOOLEAN
    BY <1>5 DEF CheckTime, OlderThan
  <2>2. quiet => (stale' <=> cTime > m_lastKick + Timeout)
    BY <1>5, OlderLemma DEF CheckTime
  <2> QED
    BY <1>5, <2>1, <2>2 DEF CheckTime
<1>6. CASE CheckReturn
  BY <1>6 DEF CheckReturn
<1>7. CASE UNCHANGED watchVars
  BY <1>7 DEF watchVars
<1> QED
  BY <1>1, <1>2, <1>3, <1>4, <1>5, <1>6, <1>7, <1>8, <1>9, <1>10 DEF WatchNext

(* For every timeout, and until the clock wraps: a check that no kick       *)
(* disturbs says stale exactly of a core that has been silent too long.     *)
THEOREM WatchStaleIffSilent == WatchSpec => []StaleIffSilent
<1>1. WatchInit => WatchInv
  <2>1. 0 \in Time /\ 0 <= 0
    BY WatchdogAssumption DEF Time
  <2> QED
    BY <2>1 DEF WatchInit, WatchInv, WatchTypeOK, StaleIffSilent
<1>2. WatchInv => StaleIffSilent
  BY DEF WatchInv
<1> QED
  BY <1>1, <1>2, WatchNextInv, PTL DEF WatchSpec
-----------------------------------------------------------------------------
(* Unsigned subtraction of an earlier reading from a later one gives the    *)
(* time between them, whichever of the two came after the wrap.             *)
LEMMA ReadingLemma ==
  ASSUME NEW a, NEW b, NEW from \in 0..Horizon, NEW to \in 0..Horizon, from <= to,
         m_epoch \in 0..(RawWidth - 1), Reading(a, from), Reading(b, to)
  PROVE  Minus64(b, a) = to - from
<1>1. /\ a \in 0..(RawWidth - 1) /\ b \in 0..(RawWidth - 1)
      /\ to - from \in 0..(RawWidth - 1)
  BY TimeUtilsAssumption DEF Reading
<1>2. b - a = to - from \/ b - a = to - from - RawWidth
  BY <1>1, TimeUtilsAssumption DEF Reading
<1>3. CASE b - a = to - from
  <2>1. (to - from + RawWidth) % RawWidth = to - from
    BY <1>1, TimeUtilsAssumption
  <2> QED
    BY <1>3, <2>1 DEF Minus64
<1>4. CASE b - a = to - from - RawWidth
  <2>1. b - a + RawWidth = to - from
    BY <1>1, <1>4, TimeUtilsAssumption
  <2>2. (to - from) % RawWidth = to - from
    BY <1>1, TimeUtilsAssumption
  <2> QED
    BY <2>1, <2>2 DEF Minus64
<1> QED
  BY <1>2, <1>3, <1>4

(* Time that passes moves the reading on.                                   *)
LEMMA PassLemma ==
  ASSUME NEW d \in Nat, trueTime \in Nat, trueTime + d \in 0..Horizon,
         m_epoch \in 0..(RawWidth - 1), Reading(raw, trueTime)
  PROVE  Reading((raw + d) % RawWidth, trueTime + d)
<1>1. raw \in 0..(RawWidth - 1) /\ d \in 0..(RawWidth - 1)
  BY TimeUtilsAssumption DEF Reading
<1>2. CASE raw + d < RawWidth
  <2>1. (raw + d) % RawWidth = raw + d
    BY <1>1, <1>2, TimeUtilsAssumption
  <2> QED
    BY <1>1, <1>2, <2>1, TimeUtilsAssumption DEF Reading
<1>3. CASE raw + d >= RawWidth
  <2>1. (raw + d) % RawWidth = raw + d - RawWidth
    BY <1>1, <1>3, TimeUtilsAssumption
  <2> QED
    BY <1>1, <1>3, <2>1, TimeUtilsAssumption DEF Reading
<1> QED
  BY <1>1, <1>2, <1>3, TimeUtilsAssumption

(* Every call keeps the clock's and the stopwatch's readings true.          *)
LEMMA ClockNextInv == ClockInv /\ [ClockNext \/ PidNext]_timeVars => ClockInv'
<1> SUFFICES ASSUME ClockInv, [ClockNext \/ PidNext]_timeVars PROVE ClockInv'
  OBVIOUS
<1>1. CASE SetClockSource
  BY <1>1, TimeUtilsAssumption
     DEF SetClockSource, ClockInv, Reading, watchVariables
<1>2. CASE TimePasses
  <2>1. PICK d \in Step : trueTime + d <= Horizon /\ trueTime' = trueTime + d /\ raw' = (raw + d) % RawWidth
    BY <1>2 DEF TimePasses
  <2>2. d \in Nat /\ trueTime \in Nat /\ trueTime + d \in 0..Horizon
    BY <2>1, TimeUtilsAssumption DEF ClockInv
  <2>3. m_source /\ m_source' = m_source /\ m_epoch' = m_epoch /\ UNCHANGED watchVariables
    BY <1>2 DEF TimePasses
  <2>4. Reading(raw', trueTime')
    BY <2>1, <2>2, <2>3, PassLemma DEF ClockInv
  <2>5. raw' \in 0..(RawWidth - 1)
    BY <2>4 DEF Reading
  <2>6. started \in 0..trueTime => started \in 0..trueTime'
    BY <2>1, <2>2
  <2> QED
    BY <2>1, <2>2, <2>3, <2>4, <2>5, <2>6 DEF ClockInv, Reading, watchVariables
<1>3. CASE StopwatchStart
  BY <1>3, TimeUtilsAssumption DEF StopwatchStart, ClockInv, Reading, clockVars
<1>4. CASE StopwatchStop \/ StopwatchReset
  <2>1. m_running' = FALSE /\ UNCHANGED clockVars
    BY <1>4 DEF StopwatchStop, StopwatchReset
  <2> QED
    BY <2>1 DEF ClockInv, Reading, clockVars
<1>5. CASE UNCHANGED <<clockVars, watchVariables>>
  BY <1>5 DEF ClockInv, Reading, clockVars, watchVariables
<1>6. PidNext => UNCHANGED <<clockVars, watchVariables>>
  BY DEF PidNext, PidCompute, PidSetGains, PidSetOutputLimits, PidReset, PidStep
<1> QED
  BY <1>1, <1>2, <1>3, <1>4, <1>5, <1>6
     DEF ClockNext, DeadlineInit, AdvanceCall, AdvanceSkip, AdvanceReturn, timeVars

(* Before the clock source is set nothing has been read.                    *)
LEMMA ClockInitInv == TimeInit => ClockInv
<1>1. 0 \in 0..Horizon /\ 0 \in 0..(RawWidth - 1)
  BY TimeUtilsAssumption
<1> QED
  BY <1>1 DEF TimeInit, ClockInv

(* The readings hold throughout.                                            *)
THEOREM ClockInvariant == TimeSpec => []ClockInv
BY ClockInitInv, ClockNextInv, PTL DEF TimeSpec

(* Once the source is set nowMicros() is the time since, as a reading of    *)
(* the counter and of the epoch.                                            *)
LEMMA NowLemma ==
  ASSUME ClockInv, m_source
  PROVE  nowMicros = trueTime
<1>1. Reading(m_epoch, 0) /\ 0 \in 0..Horizon /\ 0 <= trueTime /\ trueTime \in Nat
  BY TimeUtilsAssumption DEF ClockInv, Reading
<1>2. Minus64(raw, m_epoch) = trueTime - 0
  BY <1>1, ReadingLemma DEF ClockInv
<1>3. \A n \in Nat : n - 0 = n
  OBVIOUS
<1> QED
  BY <1>1, <1>2, <1>3 DEF nowMicros

(* For every width of the counter, every epoch and every start: nowMicros() *)
(* and a running stopwatch are exact across the wrap, as long as less than  *)
(* a whole width has passed since the clock source was set.                 *)
THEOREM ClockElapsedExact == TimeSpec => []ElapsedExact
<1>1. ASSUME ClockInv, m_source, m_running PROVE elapsed(raw) = trueTime - started
  <2>1. /\ started \in 0..Horizon /\ started <= trueTime /\ trueTime \in 0..Horizon
        /\ Reading(m_startTime, started) /\ Reading(raw, trueTime)
    BY <1>1, TimeUtilsAssumption DEF ClockInv
  <2>2. Minus64(raw, m_startTime) = trueTime - started
    BY <1>1, <2>1, ReadingLemma DEF ClockInv
  <2> QED
    BY <1>1, <2>2 DEF elapsed
<1>2. ClockInv => ElapsedExact
  BY <1>1, NowLemma DEF ElapsedExact, hasExpired
<1> QED
  BY <1>2, ClockInvariant, PTL

(* A period more keeps the phase, and a turn more is a period more.         *)
LEMMA PeriodLemma ==
  ASSUME NEW a \in Nat, NEW n \in Nat
  PROVE  /\ InPhase(0) /\ (InPhase(a) => InPhase(a + Period))
         /\ Periods(0) = 0 /\ Periods(1) = Period
         /\ Periods(n) \in Nat /\ Periods(n + 1) = Periods(n) + Period
<1>1. ASSUME a % Period = 0 PROVE (a + Period) % Period = 0
  <2> DEFINE q == a \div Period
  <2>1. q \in Nat /\ a % Period = a - Period * q
    BY TimeUtilsAssumption, Z3
  <2> HIDE DEF q
  <2>2. a + Period = Period * (q + 1)
    BY <1>1, <2>1, TimeUtilsAssumption
  <2>3. (Period * (q + 1)) % Period = 0
    BY <2>1, TimeUtilsAssumption
  <2> QED
    BY <2>2, <2>3
<1>2. (n + 1) * Period = n * Period + Period
  BY TimeUtilsAssumption
<1>3. n * Period \in Nat
  BY TimeUtilsAssumption
<1>4. 0 * Period = 0 /\ 1 * Period = Period
  BY TimeUtilsAssumption
<1>5. 0 % Period = 0
  BY TimeUtilsAssumption
<1> QED
  BY <1>1, <1>2, <1>3, <1>4, <1>5 DEF Periods, InPhase

(* Every call keeps the account of the activations.                         *)
LEMMA DeadlineNextInv ==
  ClockInv /\ DeadlineInv /\ [ClockNext \/ PidNext]_timeVars => DeadlineInv'
<1> SUFFICES ASSUME ClockInv, DeadlineInv, [ClockNext \/ PidNext]_timeVars PROVE DeadlineInv'
  OBVIOUS
<1>p. Period \in Nat /\ Period > 0 /\ Phase \in Nat
  BY TimeUtilsAssumption
<1>t. trueTime \in Nat /\ -1 \notin Nat /\ turns \in Nat
  BY TimeUtilsAssumption DEF ClockInv, DeadlineInv
<1>1. CASE DeadlineInit
  <2>1. /\ nextActivation = NoTime /\ m_source
        /\ nextActivation' = trueTime + Phase /\ ran' = <<trueTime + Phase, NoTime>>
        /\ m_source' = m_source /\ advancing' = advancing /\ turns' = turns
    BY <1>1, NowLemma DEF DeadlineInit, clockVars
  <2>2. ran'[1] = trueTime + Phase /\ ran'[2] = NoTime
    BY <2>1
  <2>3. /\ trueTime + Phase \in Nat /\ trueTime + Phase # NoTime
        /\ (trueTime + Phase) - (trueTime + Phase) = 0 /\ trueTime + Phase >= trueTime + Phase
    BY <1>p, <1>t DEF NoTime
  <2>4. InPhase(0)
    BY PeriodLemma
  <2> QED
    BY <1>t, <2>1, <2>2, <2>3, <2>4 DEF DeadlineInv, DeadlineKept
<1>2. CASE AdvanceCall
  <2>1. /\ advancing = NoTime /\ nextActivation # NoTime
        /\ m_source' = m_source
        /\ nextActivation' = nextActivation + Period /\ turns' = 0
    BY <1>2 DEF AdvanceCall, isDue, clockVars
  <2>2. /\ m_source /\ ran[1] \in Nat /\ nextActivation \in Nat
        /\ nextActivation >= ran[1] /\ InPhase(nextActivation - ran[1])
    BY <2>1 DEF DeadlineInv
  <2>3. advancing' = trueTime /\ trueTime >= nextActivation /\ ran' = <<ran[1], trueTime>>
    BY <1>2, <2>2, NowLemma DEF AdvanceCall, isDue
  <2>4. ran'[1] = ran[1] /\ ran'[2] = trueTime
    BY <2>3
  <2>5. /\ nextActivation - ran[1] \in Nat
        /\ nextActivation + Period - ran[1] = (nextActivation - ran[1]) + Period
        /\ nextActivation + Period \in Nat /\ nextActivation + Period >= ran[1]
        /\ trueTime # NoTime /\ nextActivation + Period # NoTime
        /\ 0 <= trueTime - ran[1] /\ nextActivation + Period <= trueTime + Period
        /\ Period <= nextActivation + Period - ran[1]
    BY <1>p, <1>t, <2>2, <2>3 DEF NoTime
  <2>6. InPhase(nextActivation + Period - ran[1])
    BY <2>2, <2>5, PeriodLemma
  <2>7. Periods(0) = 0 /\ Periods(0 + 1) = Period
    BY PeriodLemma
  <2>d. nextActivation' - ran'[1] = nextActivation + Period - ran[1]
    BY <1>p, <2>1, <2>2, <2>4
  <2>8. /\ Periods(turns') <= ran'[2] - ran'[1] /\ turns' \in Nat
        /\ Periods(turns' + 1) <= nextActivation' - ran'[1]
    BY <1>p, <1>t, <2>1, <2>2, <2>4, <2>5, <2>7, <2>d
  <2>9. /\ nextActivation' \in Nat /\ nextActivation' # NoTime
        /\ nextActivation' >= ran'[1] /\ InPhase(nextActivation' - ran'[1])
        /\ nextActivation' <= advancing' + Period
    BY <1>p, <1>t, <2>1, <2>2, <2>3, <2>4, <2>5, <2>6, <2>d
  <2>10. /\ ran' = <<ran'[1], ran'[2]>> /\ ran'[1] \in Nat /\ ran'[2] \in Nat
         /\ m_source' /\ advancing' # NoTime /\ ran'[2] = advancing'
    BY <1>t, <2>1, <2>2, <2>3, <2>4, <2>5
  <2> QED
    BY <2>8, <2>9, <2>10 DEF DeadlineInv, DeadlineKept
<1>3. CASE AdvanceSkip
  <2>1. /\ advancing # NoTime /\ nextActivation <= advancing
        /\ nextActivation' = nextActivation + Period /\ turns' = turns + 1
        /\ advancing' = advancing /\ ran' = ran /\ m_source' = m_source
    BY <1>3 DEF AdvanceSkip, AdvanceLoop, clockVars
  <2>2. /\ m_source /\ ran[1] \in Nat /\ nextActivation \in Nat /\ nextActivation # NoTime
        /\ nextActivation >= ran[1] /\ InPhase(nextActivation - ran[1])
        /\ ran[2] = advancing /\ advancing \in Nat
        /\ Periods(turns + 1) <= nextActivation - ran[1]
    BY <2>1 DEF DeadlineInv
  <2>3. /\ nextActivation - ran[1] \in Nat
        /\ nextActivation + Period - ran[1] = (nextActivation - ran[1]) + Period
        /\ nextActivation + Period \in Nat /\ nextActivation + Period >= ran[1]
        /\ nextActivation + Period # NoTime /\ turns + 1 \in Nat
        /\ nextActivation + Period <= advancing + Period
    BY <1>p, <1>t, <2>1, <2>2 DEF NoTime
  <2>4. InPhase(nextActivation + Period - ran[1])
    BY <2>2, <2>3, PeriodLemma
  <2>5. /\ Periods(turns + 1) \in Nat
        /\ Periods((turns + 1) + 1) = Periods(turns + 1) + Period
    BY <2>3, PeriodLemma
  <2>6. Periods(turns + 1) <= advancing - ran[1]
    BY <2>1, <2>2, <2>5
  <2>7. Periods((turns + 1) + 1) <= nextActivation + Period - ran[1]
    BY <1>p, <2>2, <2>3, <2>5
  <2>d. nextActivation' - ran'[1] = nextActivation + Period - ran[1]
    BY <1>p, <2>1, <2>2
  <2>8. /\ Periods(turns') <= ran'[2] - ran'[1] /\ turns' \in Nat
        /\ Periods(turns' + 1) <= nextActivation' - ran'[1]
    BY <1>p, <1>t, <2>1, <2>2, <2>3, <2>6, <2>7, <2>d
  <2>9. /\ nextActivation' \in Nat /\ nextActivation' # NoTime
        /\ nextActivation' >= ran'[1] /\ InPhase(nextActivation' - ran'[1])
        /\ nextActivation' <= advancing' + Period
    BY <1>p, <1>t, <2>1, <2>2, <2>3, <2>4, <2>d
  <2>10. /\ ran' = <<ran'[1], ran'[2]>> /\ ran'[1] \in Nat /\ ran'[2] \in Nat
         /\ m_source' /\ advancing' # NoTime /\ ran'[2] = advancing'
    BY <2>1, <2>2 DEF DeadlineInv
  <2> QED
    BY <2>8, <2>9, <2>10 DEF DeadlineInv, DeadlineKept
<1>4. CASE AdvanceReturn
  <2>1. /\ advancing # NoTime /\ ~ (nextActivation <= advancing)
        /\ advancing' = NoTime /\ m_source' = m_source
        /\ UNCHANGED <<nextActivation, turns, ran>>
    BY <1>4 DEF AdvanceReturn, AdvanceLoop, clockVars
  <2>2. nextActivation > advancing
    BY <2>1 DEF DeadlineInv
  <2> QED
    BY <2>1, <2>2 DEF DeadlineInv, DeadlineKept
<1>5. CASE UNCHANGED deadlineVars /\ (m_source => m_source')
  BY <1>5 DEF DeadlineInv, DeadlineKept, deadlineVars
<1>6. PidNext => UNCHANGED deadlineVars /\ m_source' = m_source
  BY DEF PidNext, PidCompute, PidSetGains, PidSetOutputLimits, PidReset, PidStep, clockVars
<1>7. SetClockSource \/ TimePasses \/ StopwatchStart \/ StopwatchStop \/ StopwatchReset
        => UNCHANGED deadlineVars /\ (m_source => m_source')
  BY DEF SetClockSource, TimePasses, StopwatchStart, StopwatchStop, StopwatchReset, clockVars
<1> QED
  BY <1>1, <1>2, <1>3, <1>4, <1>5, <1>6, <1>7 DEF ClockNext, timeVars, clockVars

(* For every period, every phase and every lateness: after a run the next   *)
(* activation lies in the future, at most a period away and in phase, and   *)
(* advance() turned once per missed period.                                 *)
THEOREM DeadlineTrackerKept == TimeSpec => []DeadlineKept
<1>1. TimeInit => DeadlineInv
  BY TimeUtilsAssumption DEF TimeInit, DeadlineInv, DeadlineKept, NoTime
<1>2. DeadlineInv => DeadlineKept
  BY DEF DeadlineInv
<1> QED
  BY <1>1, <1>2, DeadlineNextInv, ClockInvariant, PTL DEF TimeSpec

(* A product of naturals grows with its factors.                            *)
LEMMA ProductGrows ==
  ASSUME NEW a \in Nat, NEW b \in Nat, NEW c \in Nat, NEW d \in Nat, a <= c, b <= d
  PROVE  a * b <= c * d
<1>1. a * b <= c * b
  <2>1. (c - a) * b >= 0
    OBVIOUS
  <2> QED
    BY <2>1
<1>2. c * b <= c * d
  <2>1. c * (d - b) >= 0
    OBVIOUS
  <2> QED
    BY <2>1
<1> QED
  BY <1>1, <1>2

(* A product of an integer and a natural: its magnitude.                    *)
LEMMA ProductMagnitude ==
  ASSUME NEW x \in Int, NEW n \in Nat, NEW m \in Nat, NEW k \in Nat, Mag(x) <= m, n <= k
  PROVE  Mag(x * n) <= m * k
<1>1. CASE x < 0
  <2>1. (-x) * n <= m * k
    BY <1>1, ProductGrows DEF Mag
  <2>2. (-x) * n = -(x * n) /\ x * n <= 0
    BY <1>1
  <2> QED
    BY <2>1, <2>2 DEF Mag
<1>2. CASE x >= 0
  <2>1. x * n <= m * k /\ x * n >= 0
    BY <1>2, ProductGrows DEF Mag
  <2> QED
    BY <2>1 DEF Mag
<1> QED
  BY <1>1, <1>2

(* A product of two integers.                                               *)
LEMMA IntProductMagnitude ==
  ASSUME NEW x \in Int, NEW y \in Int, NEW m \in Nat, NEW k \in Nat, Mag(x) <= m, Mag(y) <= k
  PROVE  Mag(x * y) <= m * k
<1>1. CASE y >= 0
  BY <1>1, ProductMagnitude DEF Mag
<1>2. CASE y < 0
  <2>1. -y \in Nat /\ -y <= k
    BY <1>2 DEF Mag
  <2>2. Mag(x * (-y)) <= m * k
    BY <2>1, ProductMagnitude
  <2>3. x * (-y) = -(x * y) /\ x * y \in Int
    OBVIOUS
  <2> QED
    BY <2>2, <2>3 DEF Mag
<1> QED
  BY <1>1, <1>2

(* Dividing by the time between two samples makes no difference larger.     *)
LEMMA QuotientMagnitude ==
  ASSUME NEW x \in Int, NEW d \in Nat \ {0}
  PROVE  x \div d \in Int /\ Mag(x \div d) <= Mag(x)
<1> DEFINE q == x \div d
<1>1. q \in Int /\ d * q <= x /\ x < d * q + d
  OBVIOUS
<1> HIDE DEF q
<1>2. CASE q >= 0
  <2>1. (d - 1) * q >= 0
    BY <1>2, <1>1
  <2> QED
    BY <1>1, <1>2, <2>1 DEF q, Mag
<1>3. CASE q < 0
  <2>1. (d - 1) * (q + 1) <= 0
    BY <1>3, <1>1
  <2> QED
    BY <1>1, <1>3, <2>1 DEF q, Mag
<1> QED
  BY <1>1, <1>2, <1>3

(* Each of the largest values is one, and no value exceeds it.              *)
LEMMA BoundLemma ==
  ASSUME NEW S, HasLargest(S)
  PROVE  Bound(S) \in S /\ \A x \in S : x <= Bound(S)
BY DEF HasLargest, Bound

LEMMA PidConstants ==
  /\ MaxError \in Nat /\ MaxLimit \in Nat /\ MaxKp \in Nat /\ MaxKd \in Nat /\ Bound(Dts) \in Nat
  /\ \A x \in Errors : Mag(x) <= MaxError
  /\ \A x \in Dts : x <= Bound(Dts)
  /\ \A l \in Limits : Mag(l.min) <= MaxLimit /\ Mag(l.max) <= MaxLimit
  /\ \A g \in Gains : Mag(g.kp) <= MaxKp /\ Mag(g.kd) <= MaxKd
<1>1. MaxError \in Nat /\ \A x \in Errors : Mag(x) <= MaxError
  <2>1. MaxError \in {Mag(x) : x \in Errors} /\ \A y \in {Mag(x) : x \in Errors} : y <= MaxError
    BY BoundLemma, PidAssumption DEF MaxError
  <2> QED
    BY <2>1, PidAssumption DEF Mag
<1>2. Bound(Dts) \in Nat /\ \A x \in Dts : x <= Bound(Dts)
  BY BoundLemma, PidAssumption
<1>3. MaxLimit \in Nat /\ \A l \in Limits : Mag(l.min) <= MaxLimit /\ Mag(l.max) <= MaxLimit
  <2> DEFINE S == {Mag(l.min) : l \in Limits} \cup {Mag(l.max) : l \in Limits}
  <2>1. MaxLimit \in S /\ \A y \in S : y <= MaxLimit
    BY BoundLemma, PidAssumption DEF MaxLimit
  <2>2. \A l \in Limits : l.min \in Int /\ l.max \in Int
    BY PidAssumption
  <2>3. S \subseteq Nat
    BY <2>2 DEF Mag
  <2> QED
    BY <2>1, <2>3
<1>4. MaxKp \in Nat /\ \A g \in Gains : Mag(g.kp) <= MaxKp
  <2>1. MaxKp \in {Mag(g.kp) : g \in Gains} /\ \A y \in {Mag(g.kp) : g \in Gains} : y <= MaxKp
    BY BoundLemma, PidAssumption DEF MaxKp
  <2> QED
    BY <2>1, PidAssumption DEF Mag
<1>5. MaxKd \in Nat /\ \A g \in Gains : Mag(g.kd) <= MaxKd
  <2>1. MaxKd \in {Mag(g.kd) : g \in Gains} /\ \A y \in {Mag(g.kd) : g \in Gains} : y <= MaxKd
    BY BoundLemma, PidAssumption DEF MaxKd
  <2> QED
    BY <2>1, PidAssumption DEF Mag
<1> QED
  BY <1>1, <1>2, <1>3, <1>4, <1>5

(* The integral that left the output inside the limits is within the swing: *)
(* the proportional and the derivative term are what it can make up for.    *)
LEMMA UnsaturatedIntegral ==
  ASSUME NEW p \in Int, NEW d \in Int, NEW i \in Int, NEW ki \in Int \ {0}, NEW lo \in Int, NEW hi \in Int,
         NEW l \in Nat, NEW a \in Nat, NEW b \in Nat, Mag(lo) <= l, Mag(hi) <= l, Mag(p) <= a, Mag(d) <= b,
         lo < p + ki * i + d, p + ki * i + d < hi
  PROVE  Mag(i) <= l + a + b
<1>1. ki * i \in Int /\ Mag(ki * i) <= l + a + b
  <2>1. ki * i \in Int
    OBVIOUS
  <2> QED
    BY <2>1 DEF Mag
<1>2. Mag(i) <= Mag(ki * i)
  <2>1. \A n \in Nat \ {0}, x \in Nat : x <= n * x /\ n * x \in Nat
    <3>1. \A n \in Nat \ {0}, x \in Nat : (n - 1) * x >= 0
      OBVIOUS
    <3> QED
      BY <3>1
  <2>2. CASE ki > 0 /\ i >= 0
    BY <2>1, <2>2 DEF Mag
  <2>3. CASE ki > 0 /\ i < 0
    <3>1. -i <= ki * (-i) /\ ki * (-i) = -(ki * i) /\ ki * (-i) \in Nat
      BY <2>1, <2>3
    <3> QED
      BY <3>1, <2>3, <1>1 DEF Mag
  <2>4. CASE ki < 0 /\ i >= 0
    <3>1. i <= (-ki) * i /\ (-ki) * i = -(ki * i) /\ (-ki) * i \in Nat
      BY <2>1, <2>4
    <3> QED
      BY <3>1, <2>4, <1>1 DEF Mag
  <2>5. CASE ki < 0 /\ i < 0
    <3>1. -i <= (-ki) * (-i) /\ (-ki) * (-i) = ki * i /\ (-ki) * (-i) \in Nat
      BY <2>1, <2>5
    <3> QED
      BY <3>1, <2>5, <1>1 DEF Mag
  <2> QED
    BY <2>2, <2>3, <2>4, <2>5
<1> QED
  BY <1>1, <1>2 DEF Mag

(* A sample against the sign of the integral takes it no further than it    *)
(* was, or than the sample alone would.                                     *)
LEMMA OpposedIntegral ==
  ASSUME NEW e \in Int, NEW i \in Int, NEW dt \in Nat, NEW m \in Nat, NEW t \in Nat,
         Mag(e) <= m, dt <= t, ~(e * i > 0)
  PROVE  Mag(i + e * dt) <= sput_max(Mag(i), t * m)
<1>1. e * dt \in Int /\ Mag(e * dt) <= t * m /\ t * m \in Nat
  <2>1. Mag(e * dt) <= m * t
    BY ProductMagnitude
  <2>2. e * dt \in Int /\ t * m \in Nat /\ m * t = t * m
    OBVIOUS
  <2> QED
    BY <2>1, <2>2
<1>2. CASE i = 0
  BY <1>1, <1>2 DEF Mag, sput_max
<1>3. CASE i > 0
  <2>1. e <= 0
    BY <1>3
  <2>2. e * dt <= 0
    BY <2>1
  <2> QED
    BY <1>1, <1>3, <2>2 DEF Mag, sput_max
<1>4. CASE i < 0
  <2>1. e >= 0
    BY <1>4
  <2>2. e * dt >= 0
    BY <2>1
  <2> QED
    BY <1>1, <1>4, <2>2 DEF Mag, sput_max
<1> QED
  BY <1>2, <1>3, <1>4

(* The integral and the error of a fresh controller are within every bound. *)
LEMMA ZeroLemma == Mag(0) <= MaxError /\ Mag(0) <= IntegralBound + 0
<1>1. MaxError \in Nat /\ Bound(Dts) * MaxError \in Nat
  BY PidConstants
<1>2. Swing \in Int
  <2>1. 2 * MaxKp * MaxError \in Nat /\ 8 * MaxKd * MaxError \in Nat /\ MaxLimit \in Nat
    BY PidConstants
  <2> QED
    BY <2>1 DEF Swing
<1> QED
  BY <1>1, <1>2 DEF Mag, IntegralBound, sput_max

(* compute() keeps the invariant.                                           *)
LEMMA ComputeLemma ==
  ASSUME PidInv, NEW e \in Errors, NEW dt \in Dts, PidStep(compute(pid, e, dt))
  PROVE  PidInv'
<1> DEFINE derivative2 == (4 * (e - pid.prevError)) \div dt
           raw2 == pid.integral + e * dt
           Output(i2) == 2 * pid.gain.kp * e + pid.gain.ki * i2 + pid.gain.kd * derivative2
           integral2 == IF KeepsIntegral(pid, e, raw2, Output(raw2)) THEN pid.integral ELSE raw2
           output == sput_max(pid.limit.min, sput_min(pid.limit.max, Output(integral2)))
           drift == IF pid.gain.ki = 0 THEN pid.drift + Mag(integral2 - pid.integral) ELSE pid.drift
           c == compute(pid, e, dt)
<1>t. /\ pid.gain \in Gains /\ pid.limit \in Limits /\ pid.integral \in Int /\ pid.prevError \in Int
      /\ pid.gain.kp \in Int /\ pid.gain.ki \in Int /\ pid.gain.kd \in Int /\ pid.drift \in Nat
      /\ pid.limit.min \in Int /\ pid.limit.max \in Int /\ pid.limit.min <= pid.limit.max
      /\ e \in Int /\ dt \in Nat
  BY PidAssumption DEF PidInv
<1>c. MaxError \in Nat /\ MaxLimit \in Nat /\ MaxKp \in Nat /\ MaxKd \in Nat /\ Bound(Dts) \in Nat
  BY PidConstants
<1>p. pid' = c
  BY DEF PidStep
<1>1. CASE pid.first
  <2>1. pid' = [pid EXCEPT !.first = FALSE, !.returned = 0, !.clamped = FALSE]
    BY <1>p, <1>1 DEF compute
  <2>2. pid' \in [gain : Gains, limit : Limits, integral : Int, prevError : Int,
                  lastOutput : Int, first : BOOLEAN, returned : Int, clamped : BOOLEAN, drift : Nat]
    <3>1. pid' = [gain |-> pid.gain, limit |-> pid.limit, integral |-> pid.integral,
                  prevError |-> pid.prevError, lastOutput |-> pid.lastOutput, first |-> FALSE,
                  returned |-> 0, clamped |-> FALSE, drift |-> pid.drift]
      BY <2>1 DEF PidInv
    <3> QED
      BY <3>1 DEF PidInv
  <2>3. pid'.clamped = FALSE /\ pid'.integral = pid.integral /\ pid'.prevError = pid.prevError
        /\ pid'.drift = pid.drift
    BY <2>1 DEF PidInv
  <2> QED
    BY <2>2, <2>3 DEF PidInv, WindupBounded
<1>2. CASE ~pid.first /\ dt = 0
  <2>1. pid' = [pid EXCEPT !.returned = pid.lastOutput]
    BY <1>p, <1>2 DEF compute
  <2>2. /\ pid' \in [gain : Gains, limit : Limits, integral : Int, prevError : Int,
                     lastOutput : Int, first : BOOLEAN, returned : Int, clamped : BOOLEAN, drift : Nat]
        /\ pid'.clamped = pid.clamped /\ pid'.limit = pid.limit /\ pid'.integral = pid.integral
        /\ pid'.prevError = pid.prevError /\ pid'.lastOutput = pid.lastOutput
        /\ pid'.returned = pid.lastOutput /\ pid'.drift = pid.drift
    BY <2>1 DEF PidInv
  <2> QED
    BY <2>2 DEF PidInv, WindupBounded
<1>3. CASE ~pid.first /\ dt # 0
  <2>1. pid' = [pid EXCEPT !.integral = integral2, !.prevError = e, !.lastOutput = output,
                           !.returned = output, !.clamped = TRUE, !.drift = drift]
    BY <1>p, <1>3 DEF compute
  <2>2. derivative2 \in Int /\ Mag(derivative2) <= 8 * MaxError
    <3>1. 4 * (e - pid.prevError) \in Int /\ Mag(4 * (e - pid.prevError)) <= 8 * MaxError
      <4>1. Mag(e) <= MaxError /\ Mag(pid.prevError) <= MaxError
        BY PidConstants DEF PidInv
      <4> QED
        BY <4>1, <1>t, <1>c DEF Mag
    <3>2. derivative2 \in Int /\ Mag(derivative2) <= Mag(4 * (e - pid.prevError))
      BY <3>1, <1>3, <1>t, QuotientMagnitude
    <3> QED
      BY <3>1, <3>2, <1>c DEF Mag
  <2> HIDE DEF derivative2
  <2>3. raw2 \in Int /\ e * dt \in Int
    BY <1>t
  <2>4. Mag(2 * pid.gain.kp * e) <= 2 * MaxKp * MaxError /\ 2 * pid.gain.kp * e \in Int
    <3>1. Mag(e * pid.gain.kp) <= MaxError * MaxKp
      BY <1>t, <1>c, PidConstants, IntProductMagnitude
    <3>2. 2 * pid.gain.kp * e = 2 * (e * pid.gain.kp) /\ e * pid.gain.kp \in Int
          /\ 2 * MaxKp * MaxError = 2 * (MaxError * MaxKp) /\ MaxError * MaxKp \in Nat
      BY <1>t, <1>c
    <3> QED
      BY <3>1, <3>2 DEF Mag
  <2>5. Mag(pid.gain.kd * derivative2) <= 8 * MaxKd * MaxError /\ pid.gain.kd * derivative2 \in Int
    <3>1. Mag(derivative2 * pid.gain.kd) <= (8 * MaxError) * MaxKd
      <4>1. Mag(pid.gain.kd) <= MaxKd /\ 8 * MaxError \in Nat
        BY <1>t, <1>c, PidConstants
      <4> QED
        BY <4>1, <1>t, <1>c, <2>2, IntProductMagnitude
    <3>2. pid.gain.kd * derivative2 = derivative2 * pid.gain.kd /\ derivative2 * pid.gain.kd \in Int
          /\ 8 * MaxKd * MaxError = (8 * MaxError) * MaxKd
      BY <1>t, <1>c, <2>2
    <3> QED
      BY <3>1, <3>2
  <2>6. Swing \in Nat /\ Bound(Dts) * MaxError \in Nat /\ IntegralBound \in Nat
        /\ Swing <= IntegralBound /\ Bound(Dts) * MaxError <= IntegralBound
    <3>1. 2 * MaxKp * MaxError \in Nat /\ 8 * MaxKd * MaxError \in Nat /\ Bound(Dts) * MaxError \in Nat
      BY <1>c
    <3> QED
      BY <3>1, <1>c DEF Swing, IntegralBound, sput_max
  <2>7. Output(raw2) \in Int /\ integral2 \in Int /\ Output(integral2) \in Int
    BY <1>t, <2>2, <2>3, <2>4, <2>5
  <2>8. drift \in Nat /\ Mag(integral2) <= IntegralBound + drift
    <3>i. Mag(pid.integral) <= IntegralBound + pid.drift
      BY DEF PidInv, WindupBounded
    <3>d. Mag(integral2 - pid.integral) \in Nat /\ drift \in Nat /\ drift >= pid.drift
      <4>1. integral2 \in Int
        BY <2>7
      <4> HIDE DEF integral2
      <4> QED
        BY <4>1, <1>t DEF Mag
    <3>0. CASE pid.gain.ki = 0
      <4>1. drift = pid.drift + Mag(integral2 - pid.integral)
        BY <3>0
      <4>2. integral2 \in Int
        BY <2>7
      <4> HIDE DEF integral2, drift
      <4>3. Mag(integral2) <= Mag(pid.integral) + Mag(integral2 - pid.integral)
        BY <4>2, <1>t DEF Mag
      <4>4. Mag(integral2) \in Nat /\ Mag(pid.integral) \in Nat
        BY <4>2, <1>t DEF Mag
      <4> QED
        BY <4>1, <4>3, <4>4, <3>i, <3>d, <2>6, <1>t
    <3>1. CASE KeepsIntegral(pid, e, raw2, Output(raw2))
      <4>1. integral2 = pid.integral
        BY <3>1
      <4> HIDE DEF integral2, drift
      <4> QED
        BY <4>1, <3>i, <3>d, <2>6, <1>t DEF Mag
    <3>2. CASE pid.gain.ki # 0 /\ Output(raw2) < pid.limit.max /\ Output(raw2) > pid.limit.min
      <4>0. integral2 = raw2
        BY <3>2, <1>t, <2>7 DEF KeepsIntegral
      <4>1. Mag(pid.limit.min) <= MaxLimit /\ Mag(pid.limit.max) <= MaxLimit
        BY <1>t, PidConstants
      <4>2. 2 * MaxKp * MaxError \in Nat /\ 8 * MaxKd * MaxError \in Nat
        BY <1>c
      <4>3. Mag(raw2) <= MaxLimit + 2 * MaxKp * MaxError + 8 * MaxKd * MaxError
        BY <3>2, <4>1, <4>2, <1>t, <1>c, <2>3, <2>4, <2>5, UnsaturatedIntegral
      <4>4. Mag(raw2) <= Swing
        BY <4>3 DEF Swing
      <4>5. Mag(raw2) \in Nat
        BY <2>3 DEF Mag
      <4> HIDE DEF integral2, drift, raw2
      <4> QED
        BY <4>0, <4>4, <4>5, <3>d, <2>6, <1>t
    <3>3. CASE ~(e * pid.integral > 0)
      <4>0. integral2 = raw2
        BY <3>3 DEF KeepsIntegral
      <4>1. Mag(e) <= MaxError /\ dt <= Bound(Dts)
        BY PidConstants
      <4>2. Mag(raw2) <= sput_max(Mag(pid.integral), Bound(Dts) * MaxError)
        BY <3>3, <4>1, <1>t, <1>c, OpposedIntegral
      <4>3. Mag(raw2) \in Nat /\ Mag(pid.integral) \in Nat
        BY <2>3, <1>t DEF Mag
      <4> HIDE DEF integral2, drift, raw2
      <4> QED
        BY <4>0, <4>2, <4>3, <3>i, <3>d, <2>6, <1>t DEF sput_max
    <3> QED
      BY <3>d, <3>0, <3>1, <3>2, <3>3, <1>t, <2>7 DEF KeepsIntegral
  <2>9. output \in pid.limit.min .. pid.limit.max
    BY <1>t, <2>7 DEF sput_max, sput_min
  <2> HIDE DEF integral2, output, drift
  <2>10. pid' \in [gain : Gains, limit : Limits, integral : Int, prevError : Int,
                   lastOutput : Int, first : BOOLEAN, returned : Int, clamped : BOOLEAN, drift : Nat]
    <3>1. output \in Int /\ integral2 \in Int /\ e \in Int /\ drift \in Nat
      BY <2>7, <2>8, <2>9, <1>t
    <3> QED
      BY <2>1, <3>1 DEF PidInv
  <2>11. /\ pid'.prevError = e /\ pid'.integral = integral2 /\ pid'.limit = pid.limit
         /\ pid'.lastOutput = output /\ pid'.returned = output /\ pid'.drift = drift
    BY <2>1 DEF PidInv
  <2>12. Mag(e) <= MaxError
    BY PidConstants
  <2> QED
    BY <2>8, <2>9, <2>10, <2>11, <2>12 DEF PidInv, WindupBounded
<1> QED
  BY <1>1, <1>2, <1>3

(* Every call of the controller, and every step of the clock, keeps it.     *)
LEMMA PidNextInv == PidInv /\ [ClockNext \/ PidNext]_timeVars => PidInv'
<1> SUFFICES ASSUME PidInv, [ClockNext \/ PidNext]_timeVars PROVE PidInv'
  OBVIOUS
<1>1. CASE PidCompute
  BY <1>1, ComputeLemma DEF PidCompute
<1>2. ASSUME NEW g \in Gains, PidStep([pid EXCEPT !.gain = g]) PROVE PidInv'
  BY <1>2 DEF PidStep, PidInv, WindupBounded
<1>3. ASSUME NEW l \in Limits, PidStep([pid EXCEPT !.limit = l, !.clamped = FALSE]) PROVE PidInv'
  BY <1>3 DEF PidStep, PidInv, WindupBounded
<1>4. CASE PidReset
  <2>1. pid' = [gain |-> pid.gain, limit |-> pid.limit, integral |-> 0, prevError |-> 0,
                lastOutput |-> 0, first |-> TRUE, returned |-> pid.returned, clamped |-> FALSE,
                drift |-> 0]
    BY <1>4 DEF PidReset, PidStep, Controller
  <2> QED
    BY <2>1, ZeroLemma DEF PidInv, WindupBounded
<1>5. CASE UNCHANGED pid
  BY <1>5 DEF PidInv, WindupBounded
<1>6. CASE ClockNext
  <2>1. UNCHANGED pid
    BY <1>6 DEF ClockNext, SetClockSource, TimePasses, DeadlineInit, AdvanceCall, AdvanceSkip,
                AdvanceReturn, StopwatchStart, StopwatchStop, StopwatchReset
  <2> QED
    BY <2>1, <1>5
<1> QED
  BY <1>1, <1>2, <1>3, <1>4, <1>5, <1>6 DEF PidNext, PidSetGains, PidSetOutputLimits, timeVars

(* A controller that was just constructed satisfies it.                     *)
LEMMA PidInitInv == TimeInit => PidInv
<1> SUFFICES ASSUME NEW g \in Gains, NEW l \in Limits, pid = Controller(g, l) PROVE PidInv
  BY DEF TimeInit
<1> QED
  BY ZeroLemma DEF Controller, PidInv, WindupBounded

(* Whatever gains, also zero and negative ones, limits, errors and sample   *)
(* distances the controller is given, in any order: a computed output lies  *)
(* within its limits, and the integral never winds up past what the output  *)
(* can swing over, or one sample adds, and what the samples taken without   *)
(* an integral gain have added since the last reset().                      *)
THEOREM PidWindupBounded == TimeSpec => []WindupBounded
<1>1. PidInv => WindupBounded
  BY DEF PidInv
<1> QED
  BY <1>1, PidInitInv, PidNextInv, PTL DEF TimeSpec

(* The modulus of the line ring only wraps once.                            *)
LEMMA WrapLemma ==
  ASSUME NEW t \in LineSlots, NEW k \in 0 .. kLines
  PROVE  /\ LineAt(t, k) = IF t + k < kLines THEN t + k ELSE t + k - kLines
         /\ NextLine(t) = IF t + 1 < kLines THEN t + 1 ELSE 0
<1>1. kLines \in Nat /\ kLines > 0
  BY TelemetryAssumption
<1>2. \A n \in 0 .. 2 * kLines - 1 : n % kLines = IF n < kLines THEN n ELSE n - kLines
  BY <1>1
<1>3. LineAt(t, k) = IF t + k < kLines THEN t + k ELSE t + k - kLines
  BY <1>1, <1>2 DEF LineAt, LineSlots
<1>4. NextLine(t) = IF t + 1 < kLines THEN t + 1 ELSE 0
  BY <1>1, <1>2 DEF NextLine, LineSlots
<1> QED
  BY <1>3, <1>4

(* Slots of the line ring, counted from any of them.                        *)
LEMMA LineLemma ==
  ASSUME NEW t \in LineSlots, NEW k \in 0 .. kLines
  PROVE  /\ LineAt(t, k) \in LineSlots /\ NextLine(t) \in LineSlots
         /\ LineAt(t, 0) = t /\ LineAt(t, kLines) = t
         /\ k < kLines => /\ LineAt(NextLine(t), k) = LineAt(t, k + 1)
                          /\ NextLine(LineAt(t, k)) = LineAt(t, k + 1)
         /\ \A j \in 0 .. kLines : j < k /\ k < kLines => LineAt(t, j) # LineAt(t, k)
<1>1. kLines \in Nat /\ kLines > 0
  BY TelemetryAssumption
<1>2. LineAt(t, k) \in LineSlots /\ NextLine(t) \in LineSlots
  BY <1>1, WrapLemma DEF LineSlots
<1>3. LineAt(t, 0) = t /\ LineAt(t, kLines) = t
  BY <1>1, WrapLemma DEF LineSlots
<1>4. ASSUME k < kLines PROVE LineAt(NextLine(t), k) = LineAt(t, k + 1)
  <2>1. k + 1 \in 0 .. kLines
    BY <1>1, <1>4
  <2>2. LineAt(t, k + 1) = IF t + (k + 1) < kLines THEN t + (k + 1) ELSE t + (k + 1) - kLines
    BY <2>1, WrapLemma
  <2>3. LineAt(NextLine(t), k) =
          IF NextLine(t) + k < kLines THEN NextLine(t) + k ELSE NextLine(t) + k - kLines
    BY <1>2, WrapLemma
  <2>4. NextLine(t) = (IF t + 1 < kLines THEN t + 1 ELSE 0) /\ t \in Nat /\ t < kLines
    BY <1>1, WrapLemma DEF LineSlots
  <2> QED
    BY <1>1, <1>4, <2>1, <2>2, <2>3, <2>4
<1>5. ASSUME k < kLines PROVE NextLine(LineAt(t, k)) = LineAt(t, k + 1)
  <2>1. k + 1 \in 0 .. kLines
    BY <1>1, <1>5
  <2>2. LineAt(t, k + 1) = IF t + (k + 1) < kLines THEN t + (k + 1) ELSE t + (k + 1) - kLines
    BY <2>1, WrapLemma
  <2>3. NextLine(LineAt(t, k)) = IF LineAt(t, k) + 1 < kLines THEN LineAt(t, k) + 1 ELSE 0
    BY <1>1, <1>2, WrapLemma
  <2>4. /\ LineAt(t, k) = IF t + k < kLines THEN t + k ELSE t + k - kLines
        /\ t \in Nat /\ t < kLines
    BY <1>1, WrapLemma DEF LineSlots
  <2> QED
    BY <1>1, <1>5, <2>1, <2>2, <2>3, <2>4
<1>6. \A j \in 0 .. kLines : j < k /\ k < kLines => LineAt(t, j) # LineAt(t, k)
  BY <1>1, WrapLemma DEF LineSlots
<1> QED
  BY <1>2, <1>3, <1>4, <1>5, <1>6

(* Where the contexts are when all but one are idle.                        *)
LEMMA InsideLemma ==
  ASSUME TelemetryTypeOK, NEW c \in Context, Sole(c), NEW from, NEW to, Goto(c, from, to)
  PROVE  /\ Sole(c)'
         /\ \A l \in {"write", "head", "emit"} : (Inside(l) <=> from = l) /\ (Inside(l)' <=> to = l)
<1>1. Sole(c)'
  BY DEF Sole, Goto, TelemetryTypeOK
<1>2. pc[c] = from /\ pc'[c] = to
  BY DEF Goto, TelemetryTypeOK
<1> QED
  BY <1>1, <1>2 DEF Inside, Sole

(* A step of a context that holds the mutex, or takes it free, is the only  *)
(* one inside the logger.                                                   *)
LEMMA AloneLemma ==
  ASSUME TelemetryTypeOK, HolderInv, NEW c \in Context, NEW from, NEW to, Goto(c, from, to),
         from # "idle" \/ owner = Nobody
  PROVE  \A l \in {"write", "head", "emit"} : (Inside(l) <=> from = l) /\ (Inside(l)' <=> to = l)
<1>1. Sole(c)
  BY TelemetryAssumption DEF HolderInv, Goto, Nobody, TelemetryTypeOK, Sole
<1> QED
  BY <1>1, InsideLemma

(* A call whose lock(0) acquires the mutex took it free; no call changes    *)
(* the log.                                                                 *)
LEMMA CallLemma ==
  ASSUME TelemetryTypeOK, NEW c \in Context,
         \/ \E l \in Level : LogCall(c, l) \/ VerbosityCall(c, l)
         \/ DrainCall(c) \/ CountCall(c) \/ ClearCall(c)
  PROVE  /\ TelemetryTypeOK'
         /\ ~ missed' => ~ missed /\ owner = Nobody /\ (HolderInv => HolderInv')
         /\ UNCHANGED <<lineVars, m_verbosity, slot, history>>
         /\ \E body \in {"count", "verbosity", "loop", "size", "clear"} : Goto(c, "idle", body)
<1>1. PICK body \in {"count", "verbosity", "loop", "size", "clear"}, l \in Level : Call(c, body, l)
  BY DEF LogCall, VerbosityCall, DrainCall, CountCall, ClearCall, Level
<1>2. /\ \/ owner = Nobody /\ owner' = c /\ missed' = missed
         \/ missed' = TRUE /\ owner' = owner
      /\ arg' \in [Context -> Level]
  BY <1>1 DEF Call, Lock, TelemetryTypeOK
<1>3. pc' \in [Context -> {"idle", "unlock"} \cup Body]
  BY <1>1 DEF Call, Goto, TelemetryTypeOK, Body
<1>4. owner' \in Context \cup {Nobody} /\ missed' \in BOOLEAN
  BY <1>2 DEF TelemetryTypeOK
<1>5. TelemetryTypeOK'
  BY <1>1, <1>2, <1>3, <1>4 DEF Call, TelemetryTypeOK, lineVars, history
<1>6. ASSUME ~ missed' PROVE ~ missed /\ owner = Nobody /\ (HolderInv => HolderInv')
  <2>1. ~ (missed' = TRUE)
    BY <1>6
  <2>2. owner = Nobody /\ owner' = c /\ missed' = missed
    BY <1>2, <2>1
  <2>3. ~ missed
    BY <1>6, <2>2
  <2>4. HolderInv => HolderInv'
    BY <1>1, <2>2, TelemetryAssumption DEF Call, Goto, HolderInv, Nobody, TelemetryTypeOK
  <2> QED
    BY <2>2, <2>3, <2>4
<1> QED
  BY <1>1, <1>5, <1>6 DEF Call

(* The steps of an operation whose context holds the mutex.                 *)
BodyStep(c) ==
  \/ LogCount(c) \/ LogLine(c) \/ LogHead(c) \/ DrainTake(c) \/ DrainEmit(c) \/ DrainEnd(c)
  \/ SetVerbosity(c) \/ CountRead(c) \/ Clear(c) \/ Unlock(c)

(* They keep the types.                                                     *)
LEMMA BodyType ==
  ASSUME TelemetryTypeOK, NEW c \in Context, BodyStep(c)
  PROVE  TelemetryTypeOK'
<1>k. kLines \in Nat /\ kLines > 0 /\ MaxLines \in Nat
  BY TelemetryAssumption
<1>0. ASSUME NEW from, NEW to \in {"idle", "unlock"} \cup Body, Goto(c, from, to)
      PROVE  pc' \in [Context -> {"idle", "unlock"} \cup Body]
  BY <1>0 DEF Goto, TelemetryTypeOK
<1>n. NextLine(tl_tail) \in LineSlots /\ NextLine(tl_head) \in LineSlots
  <2>1. 0 \in 0 .. kLines
    BY <1>k
  <2> QED
    BY <2>1, LineLemma DEF TelemetryTypeOK
<1>1. CASE LogCount(c)
  <2>1. m_count' \in Nat /\ tl_tail' \in LineSlots
    BY <1>1, <1>k, <1>n DEF LogCount, TelemetryTypeOK
  <2> QED
    BY <1>0, <1>1, <2>1 DEF LogCount, TelemetryTypeOK, Body, history
<1>2. CASE LogLine(c)
  <2>1. entered' \in Nat /\ arg[c] \in Level
    BY <1>2, <1>k DEF LogLine, TelemetryTypeOK
  <2>2. tl_buf' \in [LineSlots -> [n : Nat, level : Level]]
    BY <1>2, <2>1 DEF LogLine, TelemetryTypeOK
  <2> QED
    BY <1>0, <1>2, <2>1, <2>2 DEF LogLine, TelemetryTypeOK, Body
<1>3. CASE LogHead(c)
  BY <1>0, <1>3, <1>n DEF LogHead, TelemetryTypeOK, Body, history
<1>4. CASE DrainTake(c)
  <2>1. m_count' \in Nat
    BY <1>4, <1>k DEF DrainTake, TelemetryTypeOK
  <2> QED
    BY <1>0, <1>4, <1>n, <2>1 DEF DrainTake, TelemetryTypeOK, Body, history
<1>5. CASE DrainEmit(c)
  <2>1. tl_buf[slot].n \in Nat /\ drained \in Seq(Nat) /\ suppressed \subseteq Nat
    BY DEF TelemetryTypeOK
  <2>2. \/ drained' = drained /\ suppressed' = suppressed \cup {tl_buf[slot].n}
        \/ drained' = Append(drained, tl_buf[slot].n) /\ suppressed' = suppressed
    BY <1>5, Zenon DEF DrainEmit
  <2>3. drained' \in Seq(Nat) /\ suppressed' \subseteq Nat
    <3>1. CASE drained' = drained /\ suppressed' = suppressed \cup {tl_buf[slot].n}
      BY <2>1, <3>1
    <3>2. CASE drained' = Append(drained, tl_buf[slot].n) /\ suppressed' = suppressed
      <4>1. drained' \in Seq(Nat)
        BY <2>1, <3>2
      <4> QED
        BY <2>1, <3>2, <4>1
    <3> QED
      BY <2>2, <3>1, <3>2
  <2> QED
    BY <1>0, <1>5, <2>3 DEF DrainEmit, TelemetryTypeOK, Body, lineVars
<1>6. CASE DrainEnd(c) \/ CountRead(c)
  BY <1>0, <1>6 DEF DrainEnd, CountRead, TelemetryTypeOK, lineVars, history
<1>7. CASE SetVerbosity(c)
  BY <1>0, <1>7 DEF SetVerbosity, TelemetryTypeOK, lineVars, history
<1>8. CASE Clear(c)
  <2>1. 0 \in LineSlots /\ missed' \in BOOLEAN
    BY <1>8, <1>k DEF LineSlots, Clear
  <2> QED
    BY <1>0, <1>8, <2>1 DEF Clear, TelemetryTypeOK
<1>9. CASE Unlock(c)
  BY <1>0, <1>9 DEF Unlock, TelemetryTypeOK, lineVars, history
<1> QED
  BY <1>1, <1>2, <1>3, <1>4, <1>5, <1>6, <1>7, <1>8, <1>9 DEF BodyStep

(* Only unlock() gives the mutex back, and only its holder calls it.        *)
LEMMA BodyHolder ==
  ASSUME TelemetryTypeOK, HolderInv, NEW c \in Context, BodyStep(c)
  PROVE  HolderInv'
<1> USE DEF TelemetryTypeOK, HolderInv, Goto
<1>1. CASE Unlock(c)
  BY <1>1, TelemetryAssumption DEF Unlock, Nobody
<1>2. CASE ~ Unlock(c)
  BY <1>2 DEF BodyStep, LogCount, LogLine, LogHead, DrainTake, DrainEmit, DrainEnd, SetVerbosity,
              CountRead, Clear
<1> QED
  BY <1>1, <1>2
(* clear() leaves an empty ring that nothing is missing from, whatever it   *)
(* found, if no other context is inside.                                    *)
LEMMA ClearLemma ==
  ASSUME TelemetryTypeOK, NEW c \in Context, Clear(c), Sole(c)
  PROVE  RingInv' /\ GoneInv'
<1>k. kLines \in Nat /\ kLines > 0 /\ entered \in Nat
  BY TelemetryAssumption DEF TelemetryTypeOK
<1>1. ~ Inside("write")' /\ ~ Inside("head")' /\ ~ Inside("emit")'
  BY InsideLemma DEF Clear
<1>2. /\ tl_head' = 0 /\ tl_tail' = 0 /\ m_count' = 0 /\ linesCleared' = entered /\ entered' = entered
      /\ drained' = <<>>
  BY DEF Clear
<1>3. Valid' = 0 /\ Passed' = 0
  BY <1>1, <1>2 DEF Valid, Passed
<1>4. LineAt(0, 0) = 0
  BY <1>k, LineLemma DEF LineSlots
<1>5. /\ Valid' <= entered' - linesCleared' /\ m_count' <= kLines /\ \A k \in 0 .. kLines : ~ (k < Valid')
      /\ (linesCleared' + 1) .. (entered' - Valid') = {} /\ 1 .. Len(drained') = {}
  BY <1>k, <1>2, <1>3
<1> QED
  BY <1>1, <1>2, <1>3, <1>4, <1>5 DEF RingInv, GoneInv

(* A context that holds the mutex is alone.                                 *)
LEMMA BodySole ==
  ASSUME TelemetryTypeOK, HolderInv, NEW c \in Context, BodyStep(c)
  PROVE  Sole(c) /\ owner = c
<1>1. pc[c] # "idle"
  BY DEF BodyStep, LogCount, LogLine, LogHead, DrainTake, DrainEmit, DrainEnd, SetVerbosity,
         CountRead, Clear, Unlock, Goto
<1> QED
  BY <1>1 DEF HolderInv, Sole

(* Each step keeps head, tail, count and the entries between them in        *)
(* agreement: log() discards the oldest of a full ring before it writes,    *)
(* and writes the slot that no valid entry is in.                           *)
LEMMA BodyRing ==
  ASSUME TelemetryTypeOK, HolderInv, RingInv, NEW c \in Context, BodyStep(c)
  PROVE  RingInv'
<1>k. /\ kLines \in Nat /\ kLines > 0 /\ m_count \in Nat /\ m_count <= kLines
      /\ entered \in Nat /\ linesCleared \in Nat /\ tl_tail \in LineSlots /\ tl_head \in LineSlots
      /\ tl_buf \in [LineSlots -> [n : Nat, level : Level]]
  BY TelemetryAssumption DEF TelemetryTypeOK, RingInv
<1>1. CASE LogCount(c)
  <2>1. /\ Valid = m_count /\ Passed = m_count /\ Valid' = m_count' - 1 /\ Passed' = m_count' - 1
        /\ ~ Inside("emit")'
    BY <1>1, AloneLemma DEF LogCount, Valid, Passed
  <2>2. UNCHANGED <<tl_head, tl_buf, entered, linesCleared>>
    BY <1>1 DEF LogCount, history
  <2>3. CASE m_count = kLines
    <3>1. tl_tail' = NextLine(tl_tail) /\ m_count' = kLines
      BY <1>1, <2>3 DEF LogCount
    <3>2. tl_head = tl_tail
      BY <1>k, <2>1, <2>3, LineLemma DEF RingInv
    <3>3. tl_head' = LineAt(tl_tail', Passed')
      <4>1. kLines - 1 \in 0 .. kLines /\ kLines - 1 < kLines /\ (kLines - 1) + 1 = kLines
        BY <1>k
      <4>2. LineAt(NextLine(tl_tail), kLines - 1) = LineAt(tl_tail, (kLines - 1) + 1)
        BY <1>k, <4>1, LineLemma
      <4>3. LineAt(tl_tail, kLines) = tl_tail
        BY <1>k, <4>1, LineLemma
      <4> QED
        BY <2>1, <2>2, <3>1, <3>2, <4>1, <4>2, <4>3
    <3>4. ASSUME NEW k \in 0 .. kLines, k < Valid'
          PROVE  tl_buf'[LineAt(tl_tail', k)].n = (entered' - Valid') + 1 + k
      <4>1. k < kLines - 1 /\ k + 1 \in 0 .. kLines /\ k + 1 < Valid
        BY <1>k, <2>1, <2>3, <3>1, <3>4
      <4>2. LineAt(tl_tail', k) = LineAt(tl_tail, k + 1)
        BY <1>k, <3>1, <4>1, LineLemma
      <4>3. tl_buf[LineAt(tl_tail, k + 1)].n = (entered - Valid) + 1 + (k + 1)
        BY <4>1 DEF RingInv
      <4> QED
        BY <1>k, <2>1, <2>2, <2>3, <3>1, <4>2, <4>3
    <3>5. Valid' <= entered' - linesCleared' /\ m_count' > 0 /\ m_count' <= kLines
      BY <1>k, <2>1, <2>2, <2>3, <3>1 DEF RingInv
    <3> QED
      BY <2>1, <3>3, <3>4, <3>5 DEF RingInv
  <2>4. CASE m_count # kLines
    <3>1. tl_tail' = tl_tail /\ m_count' = m_count + 1
      BY <1>1, <2>4 DEF LogCount
    <3>2. Valid' = Valid /\ Passed' = Passed /\ m_count' > 0 /\ m_count' <= kLines
      BY <1>k, <2>1, <2>4, <3>1
    <3> QED
      BY <2>1, <2>2, <3>1, <3>2 DEF RingInv
  <2> QED
    BY <2>3, <2>4
<1>2. CASE LogLine(c)
  <2>1. /\ Valid = m_count - 1 /\ Passed = m_count - 1 /\ Valid' = m_count' /\ Passed' = m_count' - 1
        /\ Inside("write") /\ ~ Inside("emit")'
    BY <1>2, AloneLemma DEF LogLine, Valid, Passed
  <2>2. /\ UNCHANGED <<tl_head, tl_tail, m_count, linesCleared>> /\ entered' = entered + 1
        /\ tl_buf' = [tl_buf EXCEPT ![tl_head] = [n |-> entered + 1, level |-> arg[c]]]
    BY <1>2 DEF LogLine
  <2>3. m_count > 0 /\ tl_head = LineAt(tl_tail, m_count - 1)
    BY <2>1 DEF RingInv
  <2>4. ASSUME NEW k \in 0 .. kLines, k < Valid'
        PROVE  tl_buf'[LineAt(tl_tail', k)].n = (entered' - Valid') + 1 + k
    <3>1. CASE k = m_count - 1
      <4>1. tl_buf'[tl_head].n = entered + 1
        BY <1>k, <2>2
      <4> QED
        BY <1>k, <2>1, <2>2, <2>3, <3>1, <4>1
    <3>2. CASE k # m_count - 1
      <4>1. k < m_count - 1 /\ m_count - 1 \in 0 .. kLines /\ m_count - 1 < kLines
        BY <1>k, <2>1, <2>2, <2>3, <2>4, <3>2
      <4>2. LineAt(tl_tail, k) # tl_head /\ LineAt(tl_tail, k) \in LineSlots
        BY <1>k, <2>3, <4>1, LineLemma
      <4>3. tl_buf'[LineAt(tl_tail, k)] = tl_buf[LineAt(tl_tail, k)]
        BY <1>k, <2>2, <4>2
      <4>4. tl_buf[LineAt(tl_tail, k)].n = (entered - Valid) + 1 + k
        BY <2>1, <4>1 DEF RingInv
      <4> QED
        BY <1>k, <2>1, <2>2, <4>3, <4>4
    <3> QED
      BY <3>1, <3>2
  <2>5. Valid' <= entered' - linesCleared'
    BY <1>k, <2>1, <2>2 DEF RingInv
  <2> QED
    BY <2>1, <2>2, <2>3, <2>4, <2>5 DEF RingInv
<1>3. CASE LogHead(c)
  <2>1. /\ Valid = m_count /\ Passed = m_count - 1 /\ Valid' = m_count' /\ Passed' = m_count'
        /\ Inside("head") /\ ~ Inside("write")' /\ ~ Inside("head")' /\ ~ Inside("emit")'
    BY <1>3, AloneLemma DEF LogHead, Valid, Passed
  <2>2. UNCHANGED <<tl_tail, m_count, tl_buf, entered, linesCleared>> /\ tl_head' = NextLine(tl_head)
    BY <1>3 DEF LogHead, history
  <2>3. m_count > 0 /\ tl_head = LineAt(tl_tail, m_count - 1)
    BY <2>1 DEF RingInv
  <2>4. m_count - 1 \in 0 .. kLines /\ m_count - 1 < kLines /\ (m_count - 1) + 1 = m_count
    BY <1>k, <2>3
  <2>5. NextLine(LineAt(tl_tail, m_count - 1)) = LineAt(tl_tail, (m_count - 1) + 1)
    BY <1>k, <2>4, LineLemma
  <2>6. tl_head' = LineAt(tl_tail, m_count)
    BY <2>2, <2>3, <2>4, <2>5
  <2> QED
    BY <2>1, <2>2, <2>6 DEF RingInv
<1>4. CASE DrainTake(c)
  <2>1. /\ Valid = m_count /\ Passed = m_count /\ Valid' = m_count' /\ Passed' = m_count'
        /\ ~ Inside("write")' /\ ~ Inside("head")'
    BY <1>4, AloneLemma DEF DrainTake, Valid, Passed
  <2>2. /\ UNCHANGED <<tl_head, tl_buf, entered, linesCleared>> /\ m_count > 0
        /\ slot' = tl_tail /\ tl_tail' = NextLine(tl_tail) /\ m_count' = m_count - 1
    BY <1>4 DEF DrainTake, history
  <2>3. ASSUME NEW k \in 0 .. kLines, k <= m_count - 1
        PROVE  /\ LineAt(tl_tail', k) = LineAt(tl_tail, k + 1) /\ k + 1 \in 0 .. kLines
    BY <1>k, <2>2, <2>3, LineLemma
  <2>4. tl_head' = LineAt(tl_tail', Passed')
    <3>1. m_count - 1 \in 0 .. kLines /\ (m_count - 1) + 1 = m_count
      BY <1>k, <2>2
    <3> QED
      BY <2>1, <2>2, <2>3, <3>1 DEF RingInv
  <2>5. ASSUME NEW k \in 0 .. kLines, k < Valid'
        PROVE  tl_buf'[LineAt(tl_tail', k)].n = (entered' - Valid') + 1 + k
    <3>1. LineAt(tl_tail', k) = LineAt(tl_tail, k + 1) /\ k + 1 \in 0 .. kLines /\ k + 1 < Valid
      BY <1>k, <2>1, <2>2, <2>3, <2>5
    <3>2. tl_buf[LineAt(tl_tail, k + 1)].n = (entered - Valid) + 1 + (k + 1)
      BY <3>1 DEF RingInv
    <3> QED
      BY <1>k, <2>1, <2>2, <3>1, <3>2
  <2>6. tl_buf'[slot'].n = entered' - Valid' /\ linesCleared' < entered' - Valid'
    <3>1. 0 \in 0 .. kLines /\ 0 < Valid /\ LineAt(tl_tail, 0) = tl_tail
      BY <1>k, <2>1, <2>2, LineLemma
    <3>2. tl_buf[tl_tail].n = (entered - Valid) + 1 + 0 /\ Valid <= entered - linesCleared
      BY <3>1 DEF RingInv
    <3> QED
      BY <1>k, <2>1, <2>2, <3>2
  <2>7. Valid' <= entered' - linesCleared' /\ m_count' <= kLines
    BY <1>k, <2>1, <2>2 DEF RingInv
  <2> QED
    BY <2>1, <2>4, <2>5, <2>6, <2>7 DEF RingInv
<1>5. CASE DrainEmit(c) \/ DrainEnd(c) \/ SetVerbosity(c) \/ CountRead(c) \/ Unlock(c)
  <2>1. UNCHANGED <<tl_head, tl_tail, m_count, tl_buf, entered, linesCleared>>
    BY <1>5 DEF DrainEmit, DrainEnd, SetVerbosity, CountRead, Unlock, lineVars, history
  <2>2. PICK from, to : /\ Goto(c, from, to) /\ from \notin {"idle", "write", "head"}
                        /\ to \notin {"write", "head", "emit"}
    BY <1>5 DEF DrainEmit, DrainEnd, SetVerbosity, CountRead, Unlock
  <2>3. /\ Valid = m_count /\ Passed = m_count /\ Valid' = m_count' /\ Passed' = m_count'
        /\ ~ Inside("write")' /\ ~ Inside("head")' /\ ~ Inside("emit")'
    BY <2>2, AloneLemma DEF Valid, Passed
  <2> QED
    BY <2>1, <2>3 DEF RingInv
<1>6. CASE Clear(c)
  BY <1>6, BodySole, ClearLemma
<1> QED
  BY <1>1, <1>2, <1>3, <1>4, <1>5, <1>6 DEF BodyStep
(* Each step accounts for the entry it takes out of the ring: log()'s by    *)
(* the newer ones, drain()'s by the line it writes or suppresses, clear()'s *)
(* by its mark.                                                             *)
LEMMA BodyGone ==
  ASSUME TelemetryTypeOK, HolderInv, RingInv, GoneInv, NEW c \in Context, BodyStep(c)
  PROVE  GoneInv'
<1>k. /\ kLines \in Nat /\ kLines > 0 /\ m_count \in Nat /\ m_count <= kLines
      /\ entered \in Nat /\ linesCleared \in Nat
      /\ Len(drained) \in Nat /\ \A k \in 1 .. Len(drained) : drained[k] \in Nat
  BY TelemetryAssumption DEF TelemetryTypeOK, RingInv
<1>1. CASE LogCount(c)
  <2>1. /\ Valid = m_count /\ Valid' = m_count' - 1 /\ Inside("write")'
        /\ ~ Inside("write") /\ ~ Inside("emit") /\ ~ Inside("emit")'
    BY <1>1, AloneLemma DEF LogCount, Valid
  <2>2. UNCHANGED <<entered, drained, suppressed, linesCleared>>
    BY <1>1 DEF LogCount, history
  <2>3. \/ m_count = kLines /\ Valid' = Valid - 1
        \/ Valid' = Valid
    BY <1>1, <1>k, <2>1 DEF LogCount
  <2>4. entered - Valid <= entered' - Valid'
    BY <1>k, <2>1, <2>2, <2>3
  <2>5. ASSUME NEW k \in 1 .. Len(drained)
        PROVE  drained[k] <= entered' - Valid'
    BY <1>k, <2>1, <2>2, <2>3 DEF GoneInv
  <2>6. ASSUME NEW n \in (linesCleared + 1) .. (entered' - Valid')
        PROVE  \/ n \in suppressed \/ (entered + 1) - n >= kLines
               \/ \E k \in 1 .. Len(drained) : drained[k] = n
    <3>1. CASE n \in (linesCleared + 1) .. (entered - Valid)
      BY <1>k, <2>1, <3>1 DEF GoneInv
    <3>2. CASE n \notin (linesCleared + 1) .. (entered - Valid)
      BY <1>k, <2>1, <2>2, <2>3, <2>6, <3>2
    <3> QED
      BY <3>1, <3>2
  <2> QED
    BY <2>1, <2>2, <2>5, <2>6 DEF GoneInv
<1>2. CASE LogLine(c)
  <2>1. /\ Valid = m_count - 1 /\ Valid' = m_count' /\ Inside("write")
        /\ ~ Inside("emit") /\ ~ Inside("emit")'
    BY <1>2, AloneLemma DEF LogLine, Valid
  <2>2. UNCHANGED <<m_count, drained, suppressed, linesCleared>> /\ entered' = entered + 1
    BY <1>2 DEF LogLine
  <2>3. entered' - Valid' = entered - Valid
    BY <1>k, <2>1, <2>2
  <2>4. ASSUME NEW n \in (linesCleared + 1) .. (entered - Valid)
        PROVE  \/ n \in suppressed \/ entered' - n >= kLines
               \/ \E k \in 1 .. Len(drained) : drained[k] = n
    BY <1>k, <2>1, <2>2 DEF GoneInv
  <2> QED
    BY <2>1, <2>2, <2>3, <2>4 DEF GoneInv
<1>3. CASE DrainTake(c)
  <2>1. /\ Valid = m_count /\ Valid' = m_count' /\ ~ Inside("write") /\ ~ Inside("emit")
        /\ Inside("emit")'
    BY <1>3, AloneLemma DEF DrainTake, Valid
  <2>2. /\ UNCHANGED <<entered, drained, suppressed, linesCleared>>
        /\ m_count' = m_count - 1
    BY <1>3 DEF DrainTake, history
  <2>3. ASSUME NEW k \in 1 .. Len(drained)
        PROVE  drained[k] < entered' - Valid' /\ drained[k] <= entered' - Valid'
    BY <1>k, <2>1, <2>2 DEF GoneInv
  <2>4. ASSUME NEW n \in (linesCleared + 1) .. (entered' - Valid'), n # entered' - Valid'
        PROVE  \/ n \in suppressed \/ entered - n >= kLines
               \/ \E k \in 1 .. Len(drained) : drained[k] = n
    <3>1. n \in (linesCleared + 1) .. (entered - Valid)
      BY <1>k, <2>1, <2>2, <2>4
    <3> QED
      BY <2>1, <3>1 DEF GoneInv
  <2> QED
    BY <2>1, <2>2, <2>3, <2>4 DEF GoneInv
<1>4. CASE DrainEmit(c)
  <2>1. /\ Valid = m_count /\ Valid' = m_count' /\ ~ Inside("write") /\ Inside("emit")
        /\ ~ Inside("emit")'
    BY <1>4, AloneLemma DEF DrainEmit, Valid
  <2> DEFINE e == tl_buf[slot].n
  <2>2. /\ UNCHANGED <<m_count, entered, linesCleared>>
        /\ \/ drained' = drained /\ suppressed' = suppressed \cup {e}
           \/ drained' = Append(drained, e) /\ suppressed' = suppressed
    BY <1>4, Zenon DEF DrainEmit, lineVars
  <2>3. e = entered - Valid /\ Valid' = Valid /\ e \in Int
    BY <1>k, <2>1, <2>2 DEF RingInv
  <2> HIDE DEF e
  <2>4. \A k \in 1 .. Len(drained) : drained[k] < e
    BY <2>1, <2>3 DEF GoneInv
  <2>5. /\ \A n : n \in suppressed => n \in suppressed'
        /\ \A k \in 1 .. Len(drained) : k \in 1 .. Len(drained') /\ drained'[k] = drained[k]
        /\ e \in suppressed' \/ \E k \in 1 .. Len(drained') : drained'[k] = e
        /\ Len(drained') \in Nat
        /\ \A k \in 1 .. Len(drained') : \/ k \in 1 .. Len(drained) /\ drained'[k] = drained[k]
                                         \/ k = Len(drained) + 1 /\ drained'[k] = e
    <3>1. CASE drained' = drained /\ suppressed' = suppressed \cup {e}
      BY <1>k, <3>1
    <3>2. CASE drained' = Append(drained, e) /\ suppressed' = suppressed
      <4>1. drained \in Seq(Nat)
        BY DEF TelemetryTypeOK
      <4>2. /\ Len(drained') = Len(drained) + 1 /\ drained'[Len(drained) + 1] = e
            /\ \A k \in 1 .. Len(drained) : drained'[k] = drained[k]
        BY <3>2, <4>1
      <4> QED
        BY <1>k, <3>2, <4>2
    <3> QED
      BY <2>2, <3>1, <3>2
  <2>6. \A j, k \in 1 .. Len(drained') : j < k => drained'[j] < drained'[k]
    BY <1>k, <2>3, <2>4, <2>5 DEF GoneInv
  <2>7. \A k \in 1 .. Len(drained') : linesCleared' < drained'[k] /\ drained'[k] <= entered' - Valid'
    <3>1. linesCleared < e
      BY <2>1, <2>3 DEF RingInv
    <3>2. \A k \in 1 .. Len(drained) : linesCleared < drained[k]
      BY DEF GoneInv
    <3> QED
      BY <1>k, <2>2, <2>3, <2>4, <2>5, <3>1, <3>2
  <2>8. ASSUME NEW n \in (linesCleared + 1) .. (entered - Valid)
        PROVE  \/ n \in suppressed' \/ entered - n >= kLines
               \/ \E k \in 1 .. Len(drained') : drained'[k] = n
    <3>1. CASE n = e
      BY <2>5, <3>1
    <3>2. CASE n # e
      BY <2>1, <2>3, <2>5, <3>2 DEF GoneInv
    <3> QED
      BY <3>1, <3>2
  <2> QED
    BY <2>1, <2>2, <2>3, <2>6, <2>7, <2>8 DEF GoneInv
<1>5. CASE LogHead(c) \/ DrainEnd(c) \/ SetVerbosity(c) \/ CountRead(c) \/ Unlock(c)
  <2>1. UNCHANGED <<m_count, entered, drained, suppressed, linesCleared>>
    BY <1>5 DEF LogHead, DrainEnd, SetVerbosity, CountRead, Unlock, lineVars, history
  <2>2. PICK from, to : /\ Goto(c, from, to) /\ from \notin {"idle", "write", "emit"}
                        /\ to \notin {"write", "emit"}
    BY <1>5 DEF LogHead, DrainEnd, SetVerbosity, CountRead, Unlock
  <2>3. /\ Valid = m_count /\ Valid' = m_count' /\ ~ Inside("write") /\ ~ Inside("write")'
        /\ ~ Inside("emit") /\ ~ Inside("emit")'
    BY <2>2, AloneLemma DEF Valid
  <2> QED
    BY <2>1, <2>3 DEF GoneInv
<1>6. CASE Clear(c)
  BY <1>6, BodySole, ClearLemma
<1> QED
  BY <1>1, <1>2, <1>3, <1>4, <1>5, <1>6 DEF BodyStep

(* With any number of contexts and lock(0) free to fail, head, tail, count  *)
(* and the lines of the log agree unless one failed since a clear() that    *)
(* ran alone: a clear() restores the agreement.                             *)
THEOREM TelemetryInvariant == TelemetrySpec => []TelemetryInv
<1>1. TelemetryInit => TelemetryInv
  <2> SUFFICES ASSUME TelemetryInit PROVE TelemetryInv
    OBVIOUS
  <2>1. kLines \in Nat /\ kLines > 0 /\ MaxLines \in Nat /\ Drainer \in Context
    BY TelemetryAssumption
  <2>2. \A l : Inside(l) => l = "idle"
    BY DEF TelemetryInit, Inside
  <2>3. Valid = 0 /\ Passed = 0
    BY <2>2 DEF TelemetryInit, Valid, Passed
  <2>4. TelemetryTypeOK
    <3>1. NoLine \in [n : Nat, level : Level] /\ 0 \in LineSlots /\ 0 \in Level
      BY <2>1 DEF NoLine, LineSlots, Level
    <3>2. drained \in Seq(Nat)
      BY DEF TelemetryInit
    <3> QED
      BY <2>1, <3>1, <3>2 DEF TelemetryInit, TelemetryTypeOK
  <2>5. HolderInv
    BY TelemetryAssumption DEF TelemetryInit, HolderInv, Nobody
  <2>6. LineAt(0, 0) = 0
    BY <2>1, LineLemma DEF LineSlots
  <2>7. RingInv
    BY <2>1, <2>2, <2>3, <2>6 DEF TelemetryInit, RingInv
  <2>8. GoneInv
    BY <2>2, <2>3 DEF TelemetryInit, GoneInv
  <2> QED
    BY <2>4, <2>5, <2>7, <2>8 DEF TelemetryInv
<1>2. TelemetryInv /\ [TelemetryNext]_telemetryVars => TelemetryInv'
  <2> SUFFICES ASSUME TelemetryInv, [TelemetryNext]_telemetryVars PROVE TelemetryInv'
    OBVIOUS
  <2> USE DEF TelemetryInv
  <2>1. CASE UNCHANGED telemetryVars
    BY <2>1 DEF telemetryVars, lineVars, history, TelemetryTypeOK, HolderInv, RingInv, GoneInv,
                Inside, Valid, Passed
  <2>2. ASSUME NEW c \in Context, BodyStep(c) PROVE TelemetryInv'
    <3>1. TelemetryTypeOK'
      BY <2>2, BodyType
    <3>2. CASE ~ missed
      BY <2>2, <3>1, <3>2, BodyHolder, BodyRing, BodyGone
    <3>3. ASSUME missed, ~ missed' PROVE HolderInv' /\ RingInv' /\ GoneInv'
      <4>1. Clear(c)
        BY <2>2, <3>3, Zenon DEF BodyStep, LogCount, LogLine, LogHead, DrainTake, DrainEmit, DrainEnd,
                                 SetVerbosity, CountRead, Unlock
      <4>2. missed' = (missed /\ ~ (owner = c /\ Sole(c))) /\ owner' = owner /\ Goto(c, "clear", "unlock")
        BY <4>1 DEF Clear
      <4>3. owner = c /\ Sole(c)
        BY <3>3, <4>2, Zenon
      <4>4. HolderInv'
        BY <4>2, <4>3 DEF HolderInv, Sole, Goto, TelemetryTypeOK
      <4> QED
        BY <4>1, <4>3, <4>4, ClearLemma
    <3> QED
      BY <3>1, <3>2, <3>3
  <2>3. ASSUME NEW c \in Context,
               \/ \E l \in Level : LogCall(c, l) \/ VerbosityCall(c, l)
               \/ DrainCall(c) \/ CountCall(c) \/ ClearCall(c)
        PROVE  TelemetryInv'
    <3>0. TelemetryTypeOK'
      BY <2>3, CallLemma
    <3> SUFFICES ASSUME ~ missed' PROVE HolderInv' /\ RingInv' /\ GoneInv'
      BY <3>0
    <3>1. /\ ~ missed /\ HolderInv /\ HolderInv' /\ owner = Nobody
          /\ UNCHANGED <<tl_head, tl_tail, m_count, tl_buf, slot, entered, drained, suppressed,
                         linesCleared>>
      BY <2>3, CallLemma DEF lineVars, history
    <3>2. PICK body \in {"count", "verbosity", "loop", "size", "clear"} : Goto(c, "idle", body)
      BY <2>3, CallLemma
    <3>3. \A l \in {"write", "head", "emit"} : ~ Inside(l) /\ ~ Inside(l)'
      BY <3>1, <3>2, AloneLemma
    <3>4. Valid = m_count /\ Passed = m_count /\ Valid' = m_count' /\ Passed' = m_count'
      BY <3>3 DEF Valid, Passed
    <3>5. RingInv' /\ GoneInv'
      BY <3>1, <3>3, <3>4 DEF RingInv, GoneInv
    <3> QED
      BY <3>1, <3>5
  <2> QED
    BY <2>1, <2>2, <2>3 DEF TelemetryNext, BodyStep
<1> QED
  BY <1>1, <1>2, PTL DEF TelemetrySpec

(* Every entry is accounted for unless a lock(0) failed since a clear()     *)
(* that ran alone, for any number of contexts, lines and entries.           *)
THEOREM TelemetryEveryEntryAccounted == TelemetrySpec => []EveryEntryAccounted
<1>1. TelemetryInv => EveryEntryAccounted
  <2> SUFFICES ASSUME TelemetryInv, ~ missed PROVE EveryEntryAccounted
    BY DEF EveryEntryAccounted
  <2> USE DEF TelemetryInv
  <2>1. /\ \A j, k \in 1 .. Len(drained) : j < k => drained[j] < drained[k]
        /\ \A k \in 1 .. Len(drained) : linesCleared < drained[k]
    BY DEF GoneInv
  <2>2. ASSUME NoneInside
        PROVE  /\ Pending = (entered - m_count + 1) .. entered
               /\ \A n \in (linesCleared + 1) .. entered :
                    \/ n \in Pending \/ n \in suppressed \/ entered - n >= kLines
                    \/ \E k \in 1 .. Len(drained) : drained[k] = n
    <3>k. /\ kLines \in Nat /\ kLines > 0 /\ m_count \in Nat /\ m_count <= kLines
          /\ entered \in Nat /\ linesCleared \in Nat
      BY TelemetryAssumption DEF TelemetryTypeOK, RingInv
    <3>1. ~ Inside("write") /\ ~ Inside("emit") /\ Valid = m_count
      BY <2>2 DEF NoneInside, Inside, Body, Valid
    <3>2. \A k \in 0 .. m_count - 1 : tl_buf[LineAt(tl_tail, k)].n = (entered - m_count) + 1 + k
      BY <3>k, <3>1 DEF RingInv
    <3>3. Pending = (entered - m_count + 1) .. entered
      <4>1. ASSUME NEW n \in Pending PROVE n \in (entered - m_count + 1) .. entered
        <5>1. PICK k \in 0 .. m_count - 1 : n = tl_buf[LineAt(tl_tail, k)].n
          BY <4>1 DEF Pending
        <5>2. n = (entered - m_count) + 1 + k
          BY <3>2, <5>1
        <5> QED
          BY <3>k, <5>2
      <4>2. ASSUME NEW n \in (entered - m_count + 1) .. entered PROVE n \in Pending
        <5> DEFINE k == n - ((entered - m_count) + 1)
        <5>1. k \in 0 .. m_count - 1 /\ n = (entered - m_count) + 1 + k
          BY <3>k, <4>2
        <5>2. n = tl_buf[LineAt(tl_tail, k)].n
          BY <3>2, <5>1
        <5> HIDE DEF k
        <5> QED
          BY <5>1, <5>2 DEF Pending
      <4> QED
        BY <4>1, <4>2
    <3>4. ASSUME NEW n \in (linesCleared + 1) .. entered
          PROVE  \/ n \in Pending \/ n \in suppressed \/ entered - n >= kLines
                 \/ \E k \in 1 .. Len(drained) : drained[k] = n
      <4>1. CASE n \in (linesCleared + 1) .. (entered - m_count)
        BY <3>1, <4>1 DEF GoneInv
      <4>2. CASE n \notin (linesCleared + 1) .. (entered - m_count)
        BY <3>k, <3>3, <3>4, <4>2
      <4> QED
        BY <4>1, <4>2
    <3> QED
      BY <3>3, <3>4
  <2> QED
    BY <2>1, <2>2 DEF EveryEntryAccounted
<1> QED
  BY <1>1, TelemetryInvariant, PTL
-----------------------------------------------------------------------------
(* The fault log.  The modulus of its ring, too, only wraps once.           *)
LEMMA EntryWrapLemma ==
  ASSUME NEW h \in LogSlots, NEW j \in 0 .. kCapacity
  PROVE  /\ NextEntry(h) = IF h < kCapacity THEN h + 1 ELSE 0
         /\ Behind(h, j) = IF j <= h THEN h - j ELSE h + (kLogSlots - j)
         /\ (h + j) % kLogSlots = IF h + j <= kCapacity THEN h + j ELSE (h + j) - kLogSlots
<1>1. kCapacity \in Nat /\ kCapacity > 0 /\ kLogSlots = kCapacity + 1
  BY LogAssumption DEF kLogSlots
<1> HIDE DEF kLogSlots
<1>2. \A n \in 0 .. 2 * kLogSlots - 1 : n % kLogSlots = IF n < kLogSlots THEN n ELSE n - kLogSlots
  BY <1>1
<1>3. NextEntry(h) = IF h < kCapacity THEN h + 1 ELSE 0
  BY <1>1, <1>2 DEF NextEntry, LogSlots
<1>4. Behind(h, j) = IF j <= h THEN h - j ELSE h + (kLogSlots - j)
  <2>1. h + (kLogSlots - j) \in 0 .. 2 * kLogSlots - 1
    BY <1>1 DEF LogSlots
  <2>2. Behind(h, j) = IF h + (kLogSlots - j) < kLogSlots THEN h + (kLogSlots - j)
                       ELSE (h + (kLogSlots - j)) - kLogSlots
    BY <1>2, <2>1 DEF Behind
  <2>3. h \in Nat /\ j \in Nat /\ kLogSlots \in Nat
    BY <1>1 DEF LogSlots
  <2> QED
    BY <2>2, <2>3
<1>5. (h + j) % kLogSlots = IF h + j <= kCapacity THEN h + j ELSE (h + j) - kLogSlots
  <2>1. h + j \in 0 .. 2 * kLogSlots - 1 /\ (h + j < kLogSlots <=> h + j <= kCapacity)
    BY <1>1 DEF LogSlots
  <2> QED
    BY <1>2, <2>1
<1> QED
  BY <1>3, <1>4, <1>5

(* The slots between a tail and a head, counted from either.                *)
LEMMA EntryLemma ==
  ASSUME NEW h \in LogSlots, NEW t \in LogSlots
  PROVE  /\ NextEntry(h) \in LogSlots /\ NextEntry(h) # h
         /\ Count(h, t) \in 0 .. kCapacity /\ (Count(h, t) = 0 <=> h = t)
         /\ Behind(h, Count(h, t)) = t /\ NextEntry(h) = Behind(h, kCapacity)
         /\ h # t => Count(h, NextEntry(t)) = Count(h, t) - 1
         /\ NextEntry(h) = t <=> Count(h, t) = kCapacity
         /\ NextEntry(h) # t => Count(NextEntry(h), t) = Count(h, t) + 1
         /\ \A j \in 1 .. kCapacity : /\ Behind(h, j) \in LogSlots /\ Behind(h, j) # h
                                      /\ Behind(NextEntry(h), j) = Behind(h, j - 1)
         /\ Behind(h, 0) = h
         /\ \A k \in 1 .. Count(h, t) : (t + (k - 1)) % kLogSlots = Behind(h, (Count(h, t) - k) + 1)
<1>1. kCapacity \in Nat /\ kCapacity > 0 /\ kLogSlots = kCapacity + 1
  BY LogAssumption DEF kLogSlots
<1>2. h \in Nat /\ h <= kCapacity /\ t \in Nat /\ t <= kCapacity
  BY <1>1 DEF LogSlots
<1>3. /\ NextEntry(h) = IF h < kCapacity THEN h + 1 ELSE 0
      /\ NextEntry(t) = IF t < kCapacity THEN t + 1 ELSE 0
  BY <1>1, EntryWrapLemma
<1>4. NextEntry(h) \in LogSlots /\ NextEntry(h) # h
  BY <1>1, <1>2, <1>3 DEF LogSlots
<1>5. Count(h, t) \in 0 .. kCapacity /\ (Count(h, t) = 0 <=> h = t)
  BY <1>1, <1>2 DEF Count
<1>6. Behind(h, Count(h, t)) = t /\ NextEntry(h) = Behind(h, kCapacity)
  <2>1. /\ Behind(h, Count(h, t)) =
             IF Count(h, t) <= h THEN h - Count(h, t) ELSE h + (kLogSlots - Count(h, t))
        /\ Behind(h, kCapacity) =
             IF kCapacity <= h THEN h - kCapacity ELSE h + (kLogSlots - kCapacity)
    BY <1>1, <1>5, EntryWrapLemma
  <2>2. Behind(h, Count(h, t)) = t
    BY <1>1, <1>2, <2>1 DEF Count
  <2> QED
    BY <1>1, <1>2, <1>3, <2>1, <2>2
<1>7. /\ h # t => Count(h, NextEntry(t)) = Count(h, t) - 1
      /\ NextEntry(h) = t <=> Count(h, t) = kCapacity
      /\ NextEntry(h) # t => Count(NextEntry(h), t) = Count(h, t) + 1
  BY <1>1, <1>2, <1>3 DEF Count
<1>8. ASSUME NEW j \in 1 .. kCapacity
      PROVE  /\ Behind(h, j) \in LogSlots /\ Behind(h, j) # h
             /\ Behind(NextEntry(h), j) = Behind(h, j - 1)
  <2>1. j - 1 \in 0 .. kCapacity /\ j \in 0 .. kCapacity
    BY <1>1
  <2>2. /\ Behind(h, j) = IF j <= h THEN h - j ELSE h + (kLogSlots - j)
        /\ Behind(NextEntry(h), j) =
             IF j <= NextEntry(h) THEN NextEntry(h) - j ELSE NextEntry(h) + (kLogSlots - j)
        /\ Behind(h, j - 1) = IF j - 1 <= h THEN h - (j - 1) ELSE h + (kLogSlots - (j - 1))
    BY <1>4, <2>1, EntryWrapLemma
  <2>3. Behind(h, j) \in LogSlots /\ Behind(h, j) # h
    BY <1>1, <1>2, <2>2 DEF LogSlots
  <2>4. Behind(NextEntry(h), j) = Behind(h, j - 1)
    BY <1>1, <1>2, <1>3, <2>2
  <2> QED
    BY <2>3, <2>4
<1>9. Behind(h, 0) = h
  <2>1. Behind(h, 0) = IF 0 <= h THEN h - 0 ELSE h + (kLogSlots - 0)
    BY <1>1, EntryWrapLemma
  <2> QED
    BY <1>2, <2>1
<1>10. ASSUME NEW k \in 1 .. Count(h, t)
       PROVE  (t + (k - 1)) % kLogSlots = Behind(h, (Count(h, t) - k) + 1)
  <2>1. k - 1 \in 0 .. kCapacity /\ (Count(h, t) - k) + 1 \in 0 .. kCapacity
    BY <1>1, <1>5
  <2> DEFINE j == (Count(h, t) - k) + 1
  <2>2. /\ Behind(h, j) = IF j <= h THEN h - j ELSE h + (kLogSlots - j)
        /\ (t + (k - 1)) % kLogSlots =
             IF t + (k - 1) <= kCapacity THEN t + (k - 1) ELSE (t + (k - 1)) - kLogSlots
    BY <2>1, EntryWrapLemma
  <2> QED
    BY <1>1, <1>2, <2>2 DEF Count
<1> QED
  BY <1>4, <1>5, <1>6, <1>7, <1>8, <1>9, <1>10
(* The tail, and each slot from it, is behind the head.                     *)
LEMMA BehindLemma ==
  \A h, t \in LogSlots :
    /\ Behind(h, Count(h, t)) = t
    /\ \A k \in 1 .. Count(h, t) : (t + (k - 1)) % kLogSlots = Behind(h, (Count(h, t) - k) + 1)
BY EntryLemma, SMT

(* While log() calls do not overlap, the complete ones are all but the one  *)
(* that l is in.                                                            *)
LEMMA SoleLemma ==
  ASSUME ErrorTypeOK, CallInv, alone, NEW l \in Loggers, Logging => lpc[l] # "idle",
         NEW x, lpc' = [lpc EXCEPT ![l] = x]
  PROVE  /\ lpc'[l] = x
         /\ \A y \in Loggers : y # l => lpc[y] = "idle" /\ lpc'[y] = "idle"
         /\ Logging <=> lpc[l] # "idle"
         /\ Logging' <=> x # "idle"
         /\ Complete = IF lpc[l] = "idle" THEN logged ELSE logged - 1
         /\ Complete' = IF x = "idle" THEN logged' ELSE logged' - 1
<1>1. lpc'[l] = x /\ \A y \in Loggers : y # l => lpc'[y] = lpc[y]
  BY DEF ErrorTypeOK
<1>2. \A y \in Loggers : y # l => lpc[y] = "idle"
  BY DEF CallInv, Logging
<1>3. (Logging <=> lpc[l] # "idle") /\ (Logging' <=> x # "idle")
  BY <1>1, <1>2 DEF Logging
<1> QED
  BY <1>1, <1>2, <1>3 DEF Complete

(* The types are kept.                                                      *)
LEMMA ErrorType ==
  ASSUME ErrorInv, ErrorNext
  PROVE  ErrorTypeOK'
<1> USE DEF ErrorInv
<1>k. /\ kCapacity \in Nat /\ MaxEntries \in Nat
      /\ m_head \in LogSlots /\ m_tail \in LogSlots /\ rTail \in LogSlots
  BY LogAssumption DEF ErrorTypeOK
<1>n. NextEntry(rTail) \in LogSlots
  BY <1>k, EntryLemma
<1>1. ASSUME NEW l \in Loggers, LogStep(l) PROVE ErrorTypeOK'
  <2>k. /\ lHead[l] \in LogSlots /\ lExpected[l] \in LogSlots /\ lEntry[l] \in Entry \cup {NoEntry}
    BY DEF ErrorTypeOK
  <2>n. NextEntry(lHead[l]) \in LogSlots /\ NextEntry(lExpected[l]) \in LogSlots
    BY <1>k, <2>k, EntryLemma
  <2>1. CASE LogBegin(l)
    <3>1. logged' \in 0 .. MaxEntries /\ clearedUpTo \in 0 .. logged' /\ logged + 1 \in Entry
      BY <1>k, <2>1 DEF LogBegin, ErrorTypeOK, Entry
    <3>2. alone' \in BOOLEAN /\ contended' \in BOOLEAN /\ crossed' \in BOOLEAN
      BY <2>1 DEF LogBegin
    <3> QED
      BY <2>1, <3>1, <3>2 DEF LogBegin, ErrorTypeOK, readVars
  <2>2. CASE LogTest(l) \/ LogReload(l)
    BY <2>2 DEF LogTest, LogReload, ErrorTypeOK, readVars, raceVars
  <2>3. CASE LogCas(l)
    BY <2>3, <2>n DEF LogCas, ErrorTypeOK, readVars, raceVars
  <2>4. CASE LogWrite(l)
    BY <2>4, <2>k DEF LogWrite, ErrorTypeOK, readVars, raceVars
  <2>5. CASE LogStore(l)
    BY <2>5, <2>n DEF LogStore, ErrorTypeOK, readVars, raceVars
  <2> QED
    BY <1>1, <2>1, <2>2, <2>3, <2>4, <2>5 DEF LogStep
<1>2. CASE ReadBegin
  <2>1. crossed' \in BOOLEAN
    BY <1>2 DEF ReadBegin
  <2> QED
    BY <1>2, <2>1 DEF ReadBegin, ErrorTypeOK
<1>3. CASE ReadTest \/ ReadCopy
  BY <1>3 DEF ReadTest, ReadCopy, ErrorTypeOK, raceVars
<1>4. CASE ReadStore
  <2>1. got' \in Seq(Entry \cup {NoEntry})
    <3>1. /\ got' = Append(got, rEntry) /\ got \in Seq(Entry \cup {NoEntry})
          /\ rEntry \in Entry \cup {NoEntry}
      BY <1>4 DEF ReadStore, ErrorTypeOK
    <3> DEFINE E == Entry \cup {NoEntry}
    <3>2. got \in Seq(E) /\ rEntry \in E
      BY <3>1
    <3> HIDE DEF E
    <3>3. got' \in Seq(E)
      BY <3>1, <3>2
    <3> QED
      BY <3>3 DEF E
  <2> QED
    BY <1>4, <1>n, <2>1 DEF ReadStore, ErrorTypeOK, raceVars
<1>5. CASE ClearLog
  <2>1. logged \in 0 .. logged /\ got' \in Seq(Entry \cup {NoEntry})
    BY <1>5, <1>k DEF ErrorTypeOK, ClearLog
  <2> QED
    BY <1>5, <2>1 DEF ClearLog, ErrorTypeOK
<1> QED
  BY <1>1, <1>2, <1>3, <1>4, <1>5 DEF ErrorNext, ReadStep

(* A log() that overlaps no other moves the head alone.                     *)
LEMMA ErrorCall ==
  ASSUME ErrorInv, ErrorNext
  PROVE  CallInv'
<1> USE DEF ErrorInv
<1>k. /\ logged \in Nat /\ clearedUpTo \in 0 .. logged /\ m_head \in LogSlots /\ m_tail \in LogSlots
      /\ lpc \in [Loggers -> {"idle", "test", "reload", "cas", "write", "store"}]
      /\ kCapacity \in Nat /\ kCapacity > 0
  BY LogAssumption DEF ErrorTypeOK
<1>1. ASSUME NEW l \in Loggers, LogBegin(l) PROVE CallInv'
  <2>1. /\ lpc'[l] = "test" /\ lHead'[l] = m_head' /\ lEntry'[l] = logged' /\ logged' = logged + 1
        /\ \A y \in Loggers : y # l => lpc'[y] = lpc[y]
        /\ clearedUpTo' = clearedUpTo /\ alone' = ~Logging /\ contended' = (contended \/ Logging)
    BY <1>1 DEF LogBegin, ErrorTypeOK, readVars
  <2>2. Logging' /\ logged' > clearedUpTo' /\ logged' # clearedUpTo'
    BY <1>k, <2>1 DEF Logging
  <2>3. alone' => \A y \in Loggers : lpc'[y] # "idle" => y = l
    BY <2>1 DEF Logging
  <2>4. ~ contended' => alone'
    BY <2>1
  <2> QED
    BY <2>1, <2>2, <2>3, <2>4 DEF CallInv
<1>2. ASSUME NEW l \in Loggers, LogTest(l) \/ LogReload(l) \/ LogCas(l) PROVE CallInv'
  <2>1. /\ lpc[l] # "idle" /\ lpc'[l] # "idle" /\ lpc'[l] # "store"
        /\ \A y \in Loggers : y # l => lpc'[y] = lpc[y]
        /\ UNCHANGED <<m_head, m_buf, lHead, lEntry, logged, clearedUpTo, alone, contended>>
    BY <1>2, <1>k DEF LogTest, LogReload, LogCas, readVars, raceVars
  <2>2. Logging /\ Logging'
    BY <2>1 DEF Logging
  <2>3. logged' > clearedUpTo' /\ logged' # clearedUpTo'
    BY <1>k, <2>1, <2>2 DEF CallInv
  <2> QED
    BY <2>1, <2>2, <2>3 DEF CallInv
<1>3. ASSUME NEW l \in Loggers, LogWrite(l) PROVE CallInv'
  <2>1. /\ lpc[l] # "idle" /\ lpc'[l] = "store" /\ m_buf' = [m_buf EXCEPT ![lHead[l]] = lEntry[l]]
        /\ \A y \in Loggers : y # l => lpc'[y] = lpc[y]
        /\ UNCHANGED <<m_head, lHead, lEntry, logged, clearedUpTo, alone, contended>>
    BY <1>3, <1>k DEF LogWrite, readVars, raceVars
  <2>2. Logging /\ Logging'
    BY <2>1 DEF Logging
  <2>3. alone => /\ lHead[l] = m_head /\ lEntry[l] = logged
                 /\ \A x \in Loggers : lpc[x] # "idle" => x = l
    BY <2>1 DEF CallInv
  <2>4. alone => m_buf'[m_head] = logged
    BY <1>k, <2>1, <2>3 DEF ErrorTypeOK
  <2>5. alone' => \A y \in Loggers : lpc'[y] # "idle" => y = l
    BY <2>1, <2>3
  <2>6. (~ contended' => alone') /\ logged' > clearedUpTo' /\ logged' # clearedUpTo'
    BY <1>k, <2>1, <2>2 DEF CallInv
  <2> QED
    BY <2>1, <2>2, <2>3, <2>4, <2>5, <2>6 DEF CallInv
<1>4. ASSUME NEW l \in Loggers, LogStore(l) PROVE CallInv'
  <2>1. /\ lpc[l] = "store" /\ lpc'[l] = "idle" /\ m_head' = NextEntry(lHead[l])
        /\ \A y \in Loggers : y # l => lpc'[y] = lpc[y]
        /\ UNCHANGED <<m_buf, lHead, lEntry, logged, clearedUpTo, alone, contended, m_tail, rpc>>
    BY <1>4, <1>k DEF LogStore, readVars, raceVars
  <2>2. Logging /\ logged > clearedUpTo
    BY <2>1 DEF Logging, CallInv
  <2>3. alone => /\ lHead[l] = m_head /\ m_buf[m_head] = logged /\ \A y \in Loggers : lpc'[y] = "idle"
    BY <2>1 DEF CallInv
  <2>4. alone => m_buf[Behind(m_head', 1)] = logged
    <3> SUFFICES ASSUME alone PROVE m_buf[Behind(m_head', 1)] = logged
      OBVIOUS
    <3>1. 1 \in 1 .. kCapacity /\ 1 - 1 = 0
      BY <1>k
    <3>2. Behind(NextEntry(m_head), 1) = Behind(m_head, 0) /\ Behind(m_head, 0) = m_head
      BY <1>k, <3>1, EntryLemma
    <3> QED
      BY <2>1, <2>3, <3>2
  <2>5. ~ (logged' = clearedUpTo') /\ logged' > clearedUpTo'
    BY <1>k, <2>1, <2>2
  <2>6. /\ ~ contended' => alone'
        /\ ~ alone' \/ \A y \in Loggers : lpc'[y] = "idle"
    BY <2>1, <2>3 DEF CallInv
  <2> QED
    BY <2>1, <2>3, <2>4, <2>5, <2>6 DEF CallInv
<1>5. CASE ReadStep
  <2>1. UNCHANGED <<m_head, m_buf, lpc, lHead, lEntry, logged, clearedUpTo, alone, contended>>
    BY <1>5 DEF ReadStep, ReadBegin, ReadTest, ReadCopy, ReadStore, raceVars
  <2>2. Logging' = Logging
    BY <2>1 DEF Logging
  <2>3. logged = clearedUpTo => /\ m_tail' = m_head /\ rpc' \notin {"copy", "store"}
                                /\ rpc' = "test" => rTail' = m_head
    <3>1. CASE ReadBegin
      BY <3>1 DEF ReadBegin, CallInv
    <3>2. CASE ReadTest
      BY <3>2 DEF ReadTest, CallInv
    <3>3. CASE ReadCopy \/ ReadStore
      BY <3>3 DEF ReadCopy, ReadStore, CallInv
    <3> QED
      BY <1>5, <3>1, <3>2, <3>3 DEF ReadStep
  <2> QED
    BY <2>1, <2>2, <2>3 DEF CallInv
<1>6. CASE ClearLog
  <2>1. ~ Logging' /\ logged' = clearedUpTo' /\ m_tail' = m_head' /\ alone' /\ rpc' = "idle"
    BY <1>6 DEF ClearLog, Quiet, Logging
  <2>2. ~ (logged' > clearedUpTo') /\ \A y \in Loggers : lpc'[y] = "idle"
    BY <1>6, <1>k, <2>1 DEF ClearLog, Logging
  <2> QED
    BY <2>1, <2>2 DEF CallInv
<1> QED
  BY <1>1, <1>2, <1>3, <1>4, <1>5, <1>6 DEF ErrorNext, LogStep, ReadStep
(* What is not contended or crossed after a step was not before it, unless  *)
(* the step is a clear().                                                   *)
LEMMA RaceLemma ==
  ASSUME ErrorTypeOK
  PROVE  /\ ReadStep => /\ ~ contended' => ~ contended
                        /\ ~ crossed' => ~ crossed /\ (rpc = "idle" => ~ Logging)
         /\ \A l \in Loggers : LogStep(l) =>
              /\ ~ contended' => ~ contended /\ (lpc[l] = "idle" => ~ Logging)
              /\ ~ crossed' => ~ crossed /\ (lpc[l] = "idle" => rpc = "idle")
              /\ rpc' = rpc
<1>1. ASSUME NEW l \in Loggers, LogStep(l)
      PROVE  /\ ~ contended' => ~ contended /\ (lpc[l] = "idle" => ~ Logging)
             /\ ~ crossed' => ~ crossed /\ (lpc[l] = "idle" => rpc = "idle")
             /\ rpc' = rpc
  <2>1. CASE LogBegin(l)
    <3>1. contended' = (contended \/ Logging) /\ crossed' = (crossed \/ rpc # "idle") /\ rpc' = rpc
      BY <2>1 DEF LogBegin, readVars
    <3> QED
      BY <3>1, Zenon
  <2>2. CASE ~ LogBegin(l)
    <3>1. UNCHANGED <<contended, crossed, rpc>> /\ lpc[l] # "idle"
      BY <1>1, <2>2 DEF LogStep, LogTest, LogReload, LogCas, LogWrite, LogStore, raceVars, readVars
    <3> QED
      BY <3>1, Zenon
  <2> QED
    BY <2>1, <2>2
<1>2. ASSUME ReadStep
      PROVE  /\ ~ contended' => ~ contended
             /\ ~ crossed' => ~ crossed /\ (rpc = "idle" => ~ Logging)
  <2>1. CASE ReadBegin
    <3>1. contended' = contended /\ crossed' = (crossed \/ Logging)
      BY <2>1 DEF ReadBegin
    <3> QED
      BY <3>1, Zenon
  <2>2. CASE ~ ReadBegin
    <3>1. UNCHANGED <<contended, crossed>> /\ rpc # "idle"
      BY <1>2, <2>2 DEF ReadStep, ReadTest, ReadCopy, ReadStore, raceVars
    <3> QED
      BY <3>1, Zenon
  <2> QED
    BY <2>1, <2>2
<1> QED
  BY <1>1, <1>2

(* The newest entries stay behind the head: log() writes the one slot that  *)
(* none of them is in, and read() moves the tail only.                      *)
LEMMA ErrorNewest ==
  ASSUME ErrorInv, ErrorNext
  PROVE  NewestInv'
<1> USE DEF ErrorInv
<1> SUFFICES ASSUME ~ contended' PROVE NewestInv'
  BY DEF NewestInv
<1>k. /\ kCapacity \in Nat /\ kCapacity > 0 /\ logged \in Nat /\ clearedUpTo \in Nat
      /\ clearedUpTo <= logged
      /\ m_head \in LogSlots /\ m_tail \in LogSlots /\ rTail \in LogSlots
      /\ m_buf \in [LogSlots -> Entry \cup {NoEntry}]
      /\ lpc \in [Loggers -> {"idle", "test", "reload", "cas", "write", "store"}]
  BY LogAssumption DEF ErrorTypeOK
<1>c. Complete \in Nat /\ Fresh \in Nat
  <2>1. Logging => logged > clearedUpTo
    BY DEF CallInv
  <2> QED
    BY <1>k, <2>1 DEF Complete, Fresh
<1>t. m_tail' \in LogSlots /\ m_head' \in LogSlots /\ rTail' \in LogSlots
  BY ErrorType DEF ErrorTypeOK
<1>n. Count(m_head', m_tail') \in 0 .. kCapacity /\ Count(m_head', rTail') \in 0 .. kCapacity
  BY <1>t, EntryLemma
<1>1. ASSUME NEW l \in Loggers, LogStep(l) PROVE NewestInv'
  <2>0. ~ contended /\ alone /\ (Logging => lpc[l] # "idle")
    <3>1. ~ contended /\ (lpc[l] = "idle" => ~ Logging)
      BY <1>1, RaceLemma
    <3> QED
      BY <3>1 DEF CallInv
  <2>i. /\ \A j \in 1 .. kCapacity : j <= Fresh => m_buf[Behind(m_head, j)] = (Complete - j) + 1
        /\ Count(m_head, m_tail) <= Fresh
        /\ rpc # "idle" => Count(m_head, rTail) <= Fresh
        /\ Fresh < kCapacity => /\ rpc \in {"copy", "store"} => rTail # m_head
                                /\ lpc[l] \notin {"reload", "cas"}
    BY <2>0 DEF NewestInv
  <2>l. lpc[l] # "idle" => lHead[l] = m_head /\ lEntry[l] = logged
    BY <2>0 DEF CallInv
  <2>s. ASSUME NEW x, lpc' = [lpc EXCEPT ![l] = x], Fresh' = Fresh, Complete' = Complete,
               m_head' = m_head, m_tail' \in LogSlots, Count(m_head, m_tail') <= Fresh,
               UNCHANGED <<rpc, rTail>>, Fresh < kCapacity => x \notin {"reload", "cas"},
               \A j \in 1 .. kCapacity : m_buf'[Behind(m_head, j)] = m_buf[Behind(m_head, j)]
        PROVE  NewestInv'
    <3>1. \A y \in Loggers : lpc'[y] = IF y = l THEN x ELSE "idle"
      BY <2>0, <2>s, SoleLemma
    <3> QED
      BY <2>i, <2>s, <3>1 DEF NewestInv
  <2>1. CASE LogBegin(l)
    <3>1. /\ lpc[l] = "idle" /\ lpc' = [lpc EXCEPT ![l] = "test"] /\ logged' = logged + 1
          /\ UNCHANGED <<m_head, m_tail, m_buf, rpc, rTail, clearedUpTo>>
      BY <2>1 DEF LogBegin, readVars
    <3>2. Complete = logged /\ Complete' = logged' - 1
      BY <2>0, <3>1, SoleLemma
    <3>3. Complete' = Complete /\ Fresh' = Fresh
      BY <1>k, <3>1, <3>2 DEF Fresh
    <3> QED
      BY <1>k, <2>i, <2>s, <3>1, <3>3
  <2>2. CASE LogTest(l)
    <3> DEFINE x == IF NextEntry(m_head) = m_tail THEN "reload" ELSE "write"
    <3>1. /\ lpc[l] = "test" /\ lpc' = [lpc EXCEPT ![l] = x]
          /\ UNCHANGED <<m_head, m_tail, m_buf, rpc, rTail, clearedUpTo, logged>>
      BY <2>2, <2>l DEF LogTest, readVars
    <3>2. Fresh < kCapacity => x = "write"
      <4>1. NextEntry(m_head) = m_tail <=> Count(m_head, m_tail) = kCapacity
        BY <1>k, EntryLemma
      <4> QED
        BY <1>k, <1>c, <2>i, <4>1
    <3>3. x # "idle"
      OBVIOUS
    <3> HIDE DEF x
    <3>4. Complete' = Complete /\ Fresh' = Fresh
      BY <2>0, <3>1, <3>3, SoleLemma DEF Fresh
    <3> QED
      BY <1>k, <2>i, <2>s, <3>1, <3>2, <3>4
  <2>3. CASE LogReload(l)
    <3>1. /\ lpc[l] = "reload" /\ lpc' = [lpc EXCEPT ![l] = "cas"]
          /\ UNCHANGED <<m_head, m_tail, m_buf, rpc, rTail, clearedUpTo, logged>>
      BY <2>3 DEF LogReload, readVars
    <3>2. Complete' = Complete /\ Fresh' = Fresh
      BY <2>0, <3>1, SoleLemma DEF Fresh
    <3> QED
      BY <1>k, <2>i, <2>s, <3>1, <3>2
  <2>4. CASE LogCas(l)
    <3>1. /\ lpc[l] = "cas" /\ lpc' = [lpc EXCEPT ![l] = "write"]
          /\ UNCHANGED <<m_head, m_buf, rpc, rTail, clearedUpTo, logged>>
      BY <2>4 DEF LogCas, readVars
    <3>2. Complete' = Complete /\ Fresh' = Fresh
      BY <2>0, <3>1, SoleLemma DEF Fresh
    <3>3. Count(m_head, m_tail') <= Fresh
      BY <1>k, <1>c, <1>n, <2>i, <3>1
    <3> QED
      BY <1>t, <2>s, <3>1, <3>2, <3>3
  <2>5. CASE LogWrite(l)
    <3>1. /\ lpc[l] = "write" /\ lpc' = [lpc EXCEPT ![l] = "store"]
          /\ UNCHANGED <<m_head, m_tail, rpc, rTail, clearedUpTo, logged>>
          /\ m_buf' = [m_buf EXCEPT ![m_head] = logged]
      BY <2>5, <2>l DEF LogWrite, readVars
    <3>2. Complete' = Complete /\ Fresh' = Fresh
      BY <2>0, <3>1, SoleLemma DEF Fresh
    <3>3. ASSUME NEW j \in 1 .. kCapacity
          PROVE  m_buf'[Behind(m_head, j)] = m_buf[Behind(m_head, j)]
      BY <1>k, <3>1, EntryLemma
    <3> QED
      BY <1>k, <2>i, <2>s, <3>1, <3>2, <3>3
  <2>6. CASE LogStore(l)
    <3>1. /\ lpc[l] = "store" /\ lpc' = [lpc EXCEPT ![l] = "idle"]
          /\ UNCHANGED <<m_tail, m_buf, rpc, rTail, clearedUpTo, logged>>
          /\ m_head' = NextEntry(m_head)
      BY <2>6, <2>l DEF LogStore, readVars
    <3>2. /\ Complete = logged - 1 /\ Complete' = logged
          /\ \A y \in Loggers : lpc'[y] = "idle"
      BY <2>0, <3>1, SoleLemma
    <3>3. m_buf[m_head] = logged
      BY <2>0, <3>1 DEF CallInv
    <3>4. Complete' = Complete + 1 /\ Fresh' = Fresh + 1
      BY <1>k, <3>1, <3>2 DEF Fresh
    <3>5. ASSUME NEW j \in 1 .. kCapacity, j <= Fresh'
          PROVE  m_buf'[Behind(m_head', j)] = (Complete' - j) + 1
      <4>1. Behind(m_head', j) = Behind(m_head, j - 1)
        BY <1>k, <3>1, EntryLemma
      <4>2. CASE j = 1
        <5>1. Behind(m_head, 0) = m_head
          BY <1>k, EntryLemma
        <5> QED
          BY <1>k, <3>1, <3>2, <3>3, <4>1, <4>2, <5>1
      <4>3. CASE j # 1
        <5>1. j - 1 \in 1 .. kCapacity /\ j - 1 <= Fresh
          BY <1>k, <1>c, <3>4, <3>5, <4>3
        <5>2. m_buf[Behind(m_head, j - 1)] = (Complete - (j - 1)) + 1
          BY <2>i, <5>1
        <5> QED
          BY <1>k, <1>c, <3>1, <3>4, <4>1, <5>2
      <4> QED
        BY <4>2, <4>3
    <3>6. ASSUME NEW t \in LogSlots, Count(m_head, t) <= Fresh
          PROVE  /\ Count(m_head', t) <= Fresh'
                 /\ Fresh' < kCapacity => t # m_head'
      <4>1. /\ Count(m_head, t) \in 0 .. kCapacity /\ (NextEntry(m_head) = t <=> Count(m_head, t) = kCapacity)
            /\ NextEntry(m_head) # t => Count(NextEntry(m_head), t) = Count(m_head, t) + 1
        BY <1>k, EntryLemma
      <4>2. NextEntry(m_head) = t => Count(NextEntry(m_head), t) = 0
        BY <1>t, <3>1, EntryLemma
      <4> QED
        BY <1>k, <1>c, <3>1, <3>4, <3>6, <4>1, <4>2
    <3>7. /\ Count(m_head', m_tail') <= Fresh'
          /\ rpc' # "idle" => Count(m_head', rTail') <= Fresh'
          /\ Fresh' < kCapacity => (rpc' \in {"copy", "store"} => rTail' # m_head')
      BY <1>k, <2>i, <3>1, <3>6
    <3> QED
      BY <3>2, <3>5, <3>7 DEF NewestInv
  <2> QED
    BY <1>1, <2>1, <2>2, <2>3, <2>4, <2>5, <2>6 DEF LogStep
<1>2. CASE ReadStep
  <2>1. UNCHANGED <<m_head, m_buf, lpc, logged, clearedUpTo, contended>>
    BY <1>2 DEF ReadStep, ReadBegin, ReadTest, ReadCopy, ReadStore, raceVars
  <2>2. Complete' = Complete /\ Fresh' = Fresh /\ ~ contended
    BY <2>1 DEF Complete, Fresh, Logging
  <2>3. CASE ReadBegin
    BY <2>1, <2>2, <2>3 DEF ReadBegin, NewestInv
  <2>4. CASE ReadTest
    BY <2>1, <2>2, <2>4 DEF ReadTest, NewestInv
  <2>5. CASE ReadCopy
    BY <2>1, <2>2, <2>5 DEF ReadCopy, NewestInv
  <2>6. CASE ReadStore
    <3>1. rpc = "store" /\ rpc' = "idle" /\ m_tail' = NextEntry(rTail)
      BY <2>6 DEF ReadStore
    <3>2. Count(m_head, m_tail') <= Fresh
      <4>1. m_head # rTail => Count(m_head, NextEntry(rTail)) = Count(m_head, rTail) - 1
        BY <1>k, EntryLemma
      <4>2. Count(m_head, rTail) \in 0 .. kCapacity
        BY <1>k, EntryLemma
      <4>3. Count(m_head, rTail) <= Fresh /\ (Fresh < kCapacity => rTail # m_head)
        BY <2>2, <3>1 DEF NewestInv
      <4> QED
        BY <1>k, <1>c, <1>n, <2>1, <3>1, <4>1, <4>2, <4>3
    <3> QED
      BY <2>1, <2>2, <3>1, <3>2 DEF NewestInv
  <2> QED
    BY <1>2, <2>3, <2>4, <2>5, <2>6 DEF ReadStep
<1>3. CASE ClearLog
  <2>1. /\ m_tail' = m_head /\ m_head' = m_head /\ rpc' = "idle" /\ clearedUpTo' = logged
        /\ logged' = logged /\ ~ Logging' /\ \A y \in Loggers : lpc'[y] = "idle"
    BY <1>3 DEF ClearLog, Quiet, Logging
  <2>2. Fresh' = 0
    BY <1>k, <2>1 DEF Fresh, Complete
  <2>3. Count(m_head', m_tail') = 0
    BY <1>t, <2>1, EntryLemma
  <2>4. \A j \in 1 .. kCapacity : ~ (j <= Fresh') /\ Count(m_head', m_tail') <= Fresh'
    BY <1>k, <2>2, <2>3
  <2>5. Count(m_head', m_tail') <= Fresh'
    BY <2>2, <2>3
  <2> QED
    BY <2>1, <2>4, <2>5 DEF NewestInv
<1> QED
  BY <1>1, <1>2, <1>3 DEF ErrorNext

(* The ring holds no more than was logged since the clear().                *)
LEMMA ErrorRoom ==
  ASSUME ErrorInv
  PROVE  /\ Complete \in Nat /\ Fresh \in Nat /\ Fresh = Complete - clearedUpTo
         /\ Count(m_head, m_tail) \in 0 .. kCapacity
         /\ ~ contended => Count(m_head, m_tail) <= Fresh
<1> USE DEF ErrorInv
<1>1. /\ logged \in Nat /\ clearedUpTo \in Nat /\ clearedUpTo <= logged
      /\ m_head \in LogSlots /\ m_tail \in LogSlots
  BY LogAssumption DEF ErrorTypeOK
<1>2. Logging => logged > clearedUpTo
  BY DEF CallInv
<1>3. Count(m_head, m_tail) \in 0 .. kCapacity
  BY <1>1, EntryLemma
<1>4. ~ contended => Count(m_head, m_tail) <= Fresh
  BY DEF NewestInv
<1> QED
  BY <1>1, <1>2, <1>3, <1>4 DEF Complete, Fresh

(* Calls that do not overlap keep to the tail they loaded.                  *)
LEMMA ErrorTurn ==
  ASSUME ErrorInv, ErrorNext
  PROVE  TurnInv'
<1> USE DEF ErrorInv
<1> SUFFICES ASSUME ~ contended', ~ crossed' PROVE TurnInv'
  BY DEF TurnInv
<1>k. /\ m_head \in LogSlots /\ m_tail \in LogSlots /\ rTail \in LogSlots
      /\ lHead \in [Loggers -> LogSlots] /\ lExpected \in [Loggers -> LogSlots]
  BY DEF ErrorTypeOK
<1>1. ASSUME NEW l \in Loggers, LogStep(l) PROVE TurnInv'
  <2>0. /\ ~ contended /\ ~ crossed /\ alone /\ (Logging => lpc[l] # "idle")
        /\ rpc = "idle" /\ rpc' = "idle"
    <3>1. /\ ~ contended /\ ~ crossed /\ (lpc[l] = "idle" => ~ Logging /\ rpc = "idle") /\ rpc' = rpc
      BY <1>1, RaceLemma
    <3> QED
      BY <3>1 DEF CallInv, TurnInv, Logging
  <2>l. lpc[l] # "idle" => lHead[l] = m_head
    BY <2>0 DEF CallInv
  <2>s. ASSUME NEW x, lpc' = [lpc EXCEPT ![l] = x],
               x \in {"reload", "cas"} => NextEntry(m_head') = m_tail',
               x = "cas" => lExpected'[l] = m_tail',
               x \in {"write", "store"} => NextEntry(m_head') # m_tail'
        PROVE  TurnInv'
    <3>1. \A y \in Loggers : lpc'[y] = IF y = l THEN x ELSE "idle"
      BY <2>0, <2>s, SoleLemma
    <3> QED
      BY <2>0, <2>s, <3>1 DEF TurnInv
  <2>1. CASE LogBegin(l)
    BY <2>1, <2>s DEF LogBegin
  <2>2. CASE LogTest(l)
    BY <2>2, <2>l, <2>s DEF LogTest
  <2>3. CASE LogReload(l)
    <3>1. lpc' = [lpc EXCEPT ![l] = "cas"] /\ lExpected'[l] = m_tail /\ UNCHANGED <<m_head, m_tail>>
      BY <2>3, <1>k DEF LogReload
    <3>2. NextEntry(m_head) = m_tail
      BY <2>0, <2>3 DEF LogReload, TurnInv
    <3> QED
      BY <2>s, <3>1, <3>2
  <2>4. CASE LogCas(l)
    <3>1. /\ m_head' = m_head /\ m_tail' = NextEntry(m_tail)
          /\ lpc' = [lpc EXCEPT ![l] = "write"] /\ NextEntry(m_head) = m_tail
      BY <2>0, <2>4 DEF LogCas, TurnInv
    <3>2. NextEntry(m_head') # m_tail'
      BY <1>k, <3>1, EntryLemma
    <3> QED
      BY <2>s, <3>1, <3>2
  <2>5. CASE LogWrite(l)
    <3>1. /\ lpc' = [lpc EXCEPT ![l] = "store"] /\ NextEntry(m_head) # m_tail
          /\ UNCHANGED <<m_head, m_tail>>
      BY <2>0, <2>5 DEF LogWrite, TurnInv
    <3> QED
      BY <2>s, <3>1
  <2>6. CASE LogStore(l)
    BY <2>6, <2>s DEF LogStore
  <2> QED
    BY <1>1, <2>1, <2>2, <2>3, <2>4, <2>5, <2>6 DEF LogStep
<1>2. CASE ReadStep
  <2>1. /\ UNCHANGED <<m_head, m_buf, lpc, logged>> /\ ~ contended /\ ~ crossed
        /\ rpc = "idle" => ~ Logging
    <3>1. UNCHANGED <<m_head, m_buf, lpc, logged>>
      BY <1>2 DEF ReadStep, ReadBegin, ReadTest, ReadCopy, ReadStore
    <3> QED
      BY <1>2, <3>1, RaceLemma
  <2>2. ~ Logging /\ ~ Logging' /\ Complete' = Complete /\ \A y \in Loggers : lpc'[y] = "idle"
    <3>1. ~ Logging
      BY <2>1 DEF TurnInv
    <3> QED
      BY <2>1, <3>1 DEF Logging, Complete
  <2>3. CASE ReadBegin
    BY <2>1, <2>2, <2>3 DEF ReadBegin, TurnInv
  <2>4. CASE ReadTest
    BY <2>1, <2>2, <2>4 DEF ReadTest, TurnInv
  <2>5. CASE ReadCopy
    <3>1. /\ rpc = "copy" /\ rpc' = "store" /\ rEntry' = m_buf[rTail]
          /\ UNCHANGED <<m_tail, rTail>>
      BY <2>5 DEF ReadCopy
    <3>2. rTail = m_tail /\ m_tail # m_head
      BY <2>1, <3>1 DEF TurnInv
    <3> DEFINE n == Count(m_head, m_tail)
    <3>3. n # 0 /\ Behind(m_head, n) = m_tail
      <4>1. n # 0
        BY <1>k, <3>2, EntryLemma
      <4>2. Behind(m_head, n) = m_tail
        BY <1>k, BehindLemma, Zenon
      <4> QED
        BY <4>1, <4>2
    <3>4. n \in 0 .. kCapacity /\ n <= Fresh
      BY <2>1, ErrorRoom
    <3>5. kCapacity \in Nat
      BY LogAssumption
    <3> HIDE DEF n
    <3>6. n \in 1 .. kCapacity
      BY <3>3, <3>4, <3>5
    <3>7. m_buf[m_tail] = (Complete - n) + 1
      BY <2>1, <3>3, <3>4, <3>6 DEF NewestInv
    <3>8. Count(m_head', m_tail') = n
      BY <2>1, <3>1 DEF n
    <3> QED
      BY <2>1, <2>2, <3>1, <3>2, <3>7, <3>8 DEF TurnInv
  <2>6. CASE ReadStore
    BY <2>1, <2>2, <2>6 DEF ReadStore, TurnInv
  <2> QED
    BY <1>2, <2>3, <2>4, <2>5, <2>6 DEF ReadStep
<1>3. CASE ClearLog
  <2>1. ~ Logging' /\ rpc' = "idle" /\ \A y \in Loggers : lpc'[y] = "idle"
    BY <1>3 DEF ClearLog, Quiet, Logging
  <2> QED
    BY <2>1 DEF TurnInv
<1> QED
  BY <1>1, <1>2, <1>3 DEF ErrorNext

(* Calls that do not overlap take out the oldest entry, and read() returns  *)
(* it.                                                                      *)
LEMMA ErrorTaken ==
  ASSUME ErrorInv, ErrorNext
  PROVE  TakenInv'
<1> USE DEF ErrorInv
<1> SUFFICES ASSUME ~ contended', ~ crossed' PROVE TakenInv'
  BY DEF TakenInv
<1> DEFINE drainedTo == Complete - Count(m_head, m_tail)
<1>k. /\ kCapacity \in Nat /\ kCapacity > 0 /\ logged \in Nat /\ clearedUpTo \in Nat
      /\ m_head \in LogSlots /\ m_tail \in LogSlots /\ rTail \in LogSlots
      /\ got \in Seq(Entry \cup {NoEntry}) /\ Len(got) \in Nat
  BY LogAssumption DEF ErrorTypeOK
<1>g. \A k \in 1 .. Len(got) : got[k] \in Nat
  <2>1. \A k \in 1 .. Len(got) : got[k] \in Entry \cup {NoEntry}
    BY <1>k
  <2> QED
    BY <2>1, LogAssumption DEF Entry, NoEntry
<1>r. /\ Complete \in Nat /\ Count(m_head, m_tail) \in 0 .. kCapacity /\ drainedTo \in Int
  BY <1>k, ErrorRoom
<1>b. ASSUME ~ ClearLog
      PROVE  /\ ~ contended /\ ~ crossed
             /\ \A j, k \in 1 .. Len(got) : j < k => got[j] < got[k]
             /\ \A k \in 1 .. Len(got) : got[k] <= drainedTo
             /\ \A e \in (clearedUpTo + 1) .. drainedTo :
                  logged - e >= kCapacity \/ \E k \in 1 .. Len(got) : got[k] = e
  <2>1. ~ contended /\ ~ crossed
    BY <1>b, RaceLemma DEF ErrorNext
  <2> QED
    BY <2>1 DEF TakenInv
<1>c. CASE ClearLog
  <2>1. /\ m_tail' = m_head /\ m_head' = m_head /\ clearedUpTo' = logged /\ logged' = logged
        /\ got' = <<>> /\ ~ Logging'
    BY <1>c DEF ClearLog, Quiet, Logging
  <2>2. Complete' = logged
    BY <2>1 DEF Complete
  <2>3. Count(m_head', m_tail') = 0
    <3>1. Count(m_head, m_head) = 0
      BY <1>k, EntryLemma
    <3> QED
      BY <2>1, <3>1
  <2>4. /\ (clearedUpTo' + 1) .. (Complete' - Count(m_head', m_tail')) = {}
        /\ 1 .. Len(got') = {}
    BY <1>k, <2>1, <2>2, <2>3
  <2> QED
    BY <2>4 DEF TakenInv
<1>s. ASSUME ~ ClearLog, drainedTo' = drainedTo, UNCHANGED <<got, clearedUpTo>>, logged' \in Nat,
             logged' >= logged
      PROVE  TakenInv'
  <2>t. /\ \A j, k \in 1 .. Len(got) : j < k => got[j] < got[k]
        /\ \A k \in 1 .. Len(got) : got[k] <= drainedTo
        /\ \A e \in (clearedUpTo + 1) .. drainedTo :
             logged - e >= kCapacity \/ \E k \in 1 .. Len(got) : got[k] = e
    BY <1>b, <1>s
  <2>0. logged' \in Nat /\ logged' >= logged
    BY <1>s
  <2>1. ASSUME NEW e \in Int, e \in (clearedUpTo + 1) .. drainedTo
        PROVE  logged' - e >= kCapacity \/ \E k \in 1 .. Len(got) : got[k] = e
    <3>1. \A a, b, c \in Int : b >= a /\ a - e >= c => b - e >= c
      OBVIOUS
    <3>2. logged \in Int /\ logged' \in Int /\ kCapacity \in Int
      BY <1>k, <2>0
    <3>3. logged - e >= kCapacity => logged' - e >= kCapacity
      BY <2>0, <3>1, <3>2, Zenon
    <3> QED
      BY <2>t, <2>1, <3>3
  <2>2. \A e \in (clearedUpTo + 1) .. drainedTo : e \in Int
    BY <1>k, <1>r
  <2> QED
    BY <1>s, <2>t, <2>1, <2>2 DEF TakenInv
<1>1. ASSUME NEW l \in Loggers, LogStep(l), ~ ClearLog PROVE TakenInv'
  <2>0. /\ ~ contended /\ ~ crossed /\ alone /\ (Logging => lpc[l] # "idle")
    <3>1. ~ contended /\ ~ crossed
      BY <1>1, <1>b
    <3>2. lpc[l] = "idle" => ~ Logging
      BY <1>1 DEF LogStep, LogBegin, LogTest, LogReload, LogCas, LogWrite, LogStore
    <3> QED
      BY <3>1, <3>2 DEF CallInv
  <2>t. /\ \A j, k \in 1 .. Len(got) : j < k => got[j] < got[k]
        /\ \A k \in 1 .. Len(got) : got[k] <= drainedTo
        /\ \A e \in (clearedUpTo + 1) .. drainedTo :
             logged - e >= kCapacity \/ \E k \in 1 .. Len(got) : got[k] = e
    BY <1>1, <1>b
  <2>l. lpc[l] # "idle" => lHead[l] = m_head
    BY <2>0 DEF CallInv
  <2>1. CASE LogBegin(l)
    <3>1. /\ lpc[l] = "idle" /\ lpc' = [lpc EXCEPT ![l] = "test"] /\ logged' = logged + 1
          /\ UNCHANGED <<m_head, m_tail, got, clearedUpTo>>
      BY <2>1 DEF LogBegin, readVars
    <3>2. Complete = logged /\ Complete' = logged' - 1
      BY <2>0, <3>1, SoleLemma
    <3>3. drainedTo' = drainedTo /\ logged' \in Nat /\ logged' >= logged
      BY <1>k, <3>1, <3>2
    <3> QED
      BY <1>1, <1>s, <3>1, <3>3
  <2>2. CASE LogTest(l) \/ LogReload(l) \/ LogWrite(l)
    <3>1. PICK x : /\ x # "idle" /\ lpc' = [lpc EXCEPT ![l] = x] /\ lpc[l] # "idle"
                   /\ UNCHANGED <<m_head, m_tail, got, clearedUpTo, logged>>
      <4>1. CASE LogTest(l)
        BY <4>1 DEF LogTest, readVars
      <4>2. CASE LogReload(l)
        BY <4>2 DEF LogReload, readVars
      <4>3. CASE LogWrite(l)
        BY <4>3 DEF LogWrite, readVars
      <4> QED
        BY <2>2, <4>1, <4>2, <4>3
    <3>2. Complete' = Complete
      BY <2>0, <3>1, SoleLemma
    <3>3. drainedTo' = drainedTo /\ logged' \in Nat /\ logged' >= logged
      BY <1>k, <3>1, <3>2
    <3> QED
      BY <1>1, <1>s, <3>1, <3>3
  <2>3. CASE LogCas(l)
    <3>1. /\ lpc[l] = "cas" /\ lpc' = [lpc EXCEPT ![l] = "write"] /\ NextEntry(m_head) = m_tail
          /\ m_tail' = NextEntry(m_tail) /\ UNCHANGED <<m_head, got, clearedUpTo, logged>>
      BY <2>0, <2>3 DEF LogCas, TurnInv, readVars
    <3>2. Complete' = Complete /\ Complete = logged - 1
      BY <2>0, <3>1, SoleLemma
    <3>3. Count(m_head, m_tail) = kCapacity /\ m_head # m_tail
      BY <1>k, <3>1, EntryLemma
    <3>4. Count(m_head', m_tail') = Count(m_head, m_tail) - 1
      BY <1>k, <3>1, <3>3, EntryLemma
    <3>5. drainedTo' = drainedTo + 1 /\ drainedTo = (logged - 1) - kCapacity
      BY <1>k, <1>r, <3>2, <3>3, <3>4
    <3> HIDE DEF drainedTo
    <3>6. \A k \in 1 .. Len(got) : got[k] <= drainedTo'
      BY <1>g, <1>r, <2>t, <3>5
    <3>7. ASSUME NEW e \in (clearedUpTo + 1) .. drainedTo'
          PROVE  logged - e >= kCapacity \/ \E k \in 1 .. Len(got) : got[k] = e
      <4>1. CASE e = drainedTo + 1
        BY <1>k, <1>r, <3>5, <4>1
      <4>2. CASE e # drainedTo + 1
        BY <1>k, <1>r, <2>t, <3>5, <4>2
      <4> QED
        BY <4>1, <4>2
    <3> QED
      BY <2>t, <3>1, <3>6, <3>7 DEF TakenInv, drainedTo
  <2>4. CASE LogStore(l)
    <3>1. /\ lpc[l] = "store" /\ lpc' = [lpc EXCEPT ![l] = "idle"] /\ NextEntry(m_head) # m_tail
          /\ m_head' = NextEntry(m_head) /\ UNCHANGED <<m_tail, got, clearedUpTo, logged>>
      BY <2>0, <2>4, <2>l DEF LogStore, TurnInv, readVars
    <3>2. Complete' = logged /\ Complete = logged - 1
      BY <2>0, <3>1, SoleLemma
    <3>3. Count(m_head', m_tail') = Count(m_head, m_tail) + 1
      BY <1>k, <3>1, EntryLemma
    <3>4. drainedTo' = drainedTo /\ logged' \in Nat /\ logged' >= logged
      BY <1>k, <1>r, <3>1, <3>2, <3>3
    <3> QED
      BY <1>1, <1>s, <3>1, <3>4
  <2> QED
    BY <1>1, <2>1, <2>2, <2>3, <2>4 DEF LogStep
<1>2. ASSUME ReadBegin \/ ReadTest \/ ReadCopy, ~ ClearLog PROVE TakenInv'
  <2>1. UNCHANGED <<m_head, m_tail, lpc, got, clearedUpTo, logged>>
    BY <1>2 DEF ReadBegin, ReadTest, ReadCopy
  <2>2. drainedTo' = drainedTo /\ logged' \in Nat /\ logged' >= logged
    BY <1>k, <2>1 DEF Complete, Logging
  <2> QED
    BY <1>2, <1>s, <2>1, <2>2
<1>3. ASSUME ReadStore, ~ ClearLog PROVE TakenInv'
  <2>t. /\ ~ contended /\ ~ crossed
        /\ \A j, k \in 1 .. Len(got) : j < k => got[j] < got[k]
        /\ \A k \in 1 .. Len(got) : got[k] <= drainedTo
        /\ \A e \in (clearedUpTo + 1) .. drainedTo :
             logged - e >= kCapacity \/ \E k \in 1 .. Len(got) : got[k] = e
    BY <1>3, <1>b
  <2>1. /\ rpc = "store" /\ m_tail' = NextEntry(rTail) /\ got' = Append(got, rEntry)
        /\ UNCHANGED <<m_head, lpc, clearedUpTo, logged>>
    BY <1>3 DEF ReadStore
  <2>2. rTail = m_tail /\ m_tail # m_head /\ rEntry = drainedTo + 1
    BY <2>t, <2>1 DEF TurnInv
  <2>3. Complete' = Complete
    BY <2>1 DEF Complete, Logging
  <2>4. Count(m_head', m_tail') = Count(m_head, m_tail) - 1
    BY <1>k, <2>1, <2>2, EntryLemma
  <2>5. drainedTo' = drainedTo + 1
    BY <1>r, <2>3, <2>4
  <2> HIDE DEF drainedTo
  <2>6. /\ Len(got') = Len(got) + 1 /\ got'[Len(got) + 1] = drainedTo + 1
        /\ \A k \in 1 .. Len(got) : got'[k] = got[k]
    <3>1. rEntry \in Entry \cup {NoEntry}
      BY DEF ErrorTypeOK
    <3> HIDE DEF Entry
    <3> QED
      BY <1>k, <2>1, <2>2, <3>1
  <2>7. \A k \in 1 .. Len(got') : \/ k \in 1 .. Len(got) /\ got'[k] = got[k]
                                  \/ k = Len(got) + 1 /\ got'[k] = drainedTo + 1
    <3> SUFFICES ASSUME NEW k \in 1 .. Len(got')
                 PROVE  \/ k \in 1 .. Len(got) /\ got'[k] = got[k]
                        \/ k = Len(got) + 1 /\ got'[k] = drainedTo + 1
      OBVIOUS
    <3>1. k \in 1 .. Len(got) \/ k = Len(got) + 1
      BY <1>k, <2>6
    <3> QED
      BY <2>6, <3>1
  <2>8. \A k \in 1 .. Len(got) : got[k] < drainedTo + 1
    BY <1>g, <1>r, <2>t
  <2>9. \A j, k \in 1 .. Len(got') : j < k => got'[j] < got'[k]
    BY <1>k, <1>r, <2>t, <2>6, <2>7, <2>8
  <2>10. \A k \in 1 .. Len(got') : got'[k] <= drainedTo'
    BY <1>g, <1>r, <2>5, <2>7, <2>8
  <2>11. ASSUME NEW e \in (clearedUpTo + 1) .. drainedTo'
         PROVE  logged - e >= kCapacity \/ \E k \in 1 .. Len(got') : got'[k] = e
    <3>1. CASE e = drainedTo + 1
      <4>1. Len(got) + 1 \in 1 .. Len(got')
        BY <1>k, <2>6
      <4> QED
        BY <2>6, <3>1, <4>1
    <3>2. CASE e # drainedTo + 1
      <4>1. e \in (clearedUpTo + 1) .. drainedTo
        BY <1>k, <1>r, <2>5, <3>2
      <4>2. 1 .. Len(got) \subseteq 1 .. Len(got')
        BY <1>k, <2>6
      <4> QED
        BY <2>t, <2>6, <4>1, <4>2
    <3> QED
      BY <3>1, <3>2
  <2> QED
    BY <2>1, <2>9, <2>10, <2>11 DEF TakenInv, drainedTo
<1> QED
  BY <1>c, <1>1, <1>2, <1>3 DEF ErrorNext, ReadStep

(* However the contexts that log and the one that reads interleave, the     *)
(* newest entries stay behind the head while no two log() calls overlap,    *)
(* and a log() that overlaps no other is the only one to move the head.     *)
THEOREM ErrorInvariant == ErrorSpec => []ErrorInv
<1>1. ErrorInit => ErrorInv
  <2> SUFFICES ASSUME ErrorInit PROVE ErrorInv
    OBVIOUS
  <2>1. kCapacity \in Nat /\ kCapacity > 0 /\ MaxEntries \in Nat
    BY LogAssumption
  <2>2. ErrorTypeOK
    <3>1. /\ got \in Seq(Entry \cup {NoEntry}) /\ 0 \in LogSlots /\ 0 \in 0 .. 0
          /\ 0 \in 0 .. MaxEntries
      BY <2>1 DEF ErrorInit, LogSlots
    <3> QED
      BY <3>1 DEF ErrorInit, ErrorTypeOK
  <2>3. /\ ~ Logging /\ Complete = 0 /\ Fresh = 0 /\ rpc = "idle" /\ \A x \in Loggers : lpc[x] = "idle"
        /\ logged = 0 /\ clearedUpTo = 0
    BY DEF ErrorInit, Logging, Complete, Fresh
  <2>4. CallInv /\ TurnInv
    BY <2>3 DEF ErrorInit, CallInv, TurnInv
  <2>5. Count(m_head, m_tail) = 0
    BY DEF ErrorInit, Count
  <2>6. NewestInv
    BY <2>1, <2>3, <2>5 DEF ErrorInit, NewestInv
  <2>7. TakenInv
    BY <2>3, <2>5 DEF ErrorInit, TakenInv
  <2> QED
    BY <2>2, <2>4, <2>6, <2>7 DEF ErrorInv
<1>2. ErrorInv /\ [ErrorNext]_errorVars => ErrorInv'
  <2> SUFFICES ASSUME ErrorInv, [ErrorNext]_errorVars PROVE ErrorInv'
    OBVIOUS
  <2>1. CASE ErrorNext
    <3>1. ErrorTypeOK' /\ CallInv' /\ NewestInv' /\ TurnInv' /\ TakenInv'
      BY <2>1, ErrorType, ErrorCall, ErrorNewest, ErrorTurn, ErrorTaken
    <3> QED
      BY <3>1 DEF ErrorInv
  <2>2. CASE UNCHANGED errorVars
    BY <2>2 DEF errorVars, readVars, raceVars, ErrorInv, ErrorTypeOK, CallInv, NewestInv, TurnInv,
                TakenInv, Complete, Fresh, Logging
  <2> QED
    BY <2>1, <2>2
<1> QED
  BY <1>1, <1>2, PTL DEF ErrorSpec

(* The fault log keeps the newest entries, for any set of contexts that     *)
(* log, any capacity and any number of entries.                             *)
THEOREM ErrorKeepsNewest == ErrorSpec => []KeepsNewest
<1>1. ErrorInv => KeepsNewest
  <2> SUFFICES ASSUME ErrorInv PROVE KeepsNewest
    OBVIOUS
  <2> USE DEF ErrorInv
  <2> DEFINE n == Count(m_head, m_tail)
  <2>k. /\ kCapacity \in Nat /\ kCapacity > 0 /\ logged \in Nat /\ clearedUpTo \in Nat
        /\ clearedUpTo <= logged /\ m_head \in LogSlots /\ m_tail \in LogSlots
    BY LogAssumption DEF ErrorTypeOK
  <2>r. /\ Complete \in Nat /\ n \in 0 .. kCapacity /\ n \in Nat /\ Fresh \in Nat
        /\ Fresh = Complete - clearedUpTo /\ (~ contended => n <= Fresh)
    BY <2>k, ErrorRoom
  <2>c. Quiet => Complete = logged
    BY DEF Quiet, Complete
  <2>b. \A k \in 1 .. n : (m_tail + (k - 1)) % kLogSlots = Behind(m_head, (n - k) + 1)
    BY <2>k, BehindLemma, Zenon
  <2>z. n = 0 <=> m_head = m_tail
    BY <2>k, EntryLemma
  <2> HIDE DEF n
  <2>l. /\ Len(Kept) = n /\ (n = 0 => Kept = <<>>)
        /\ \A k \in 1 .. n : Kept[k] = m_buf[Behind(m_head, (n - k) + 1)]
    <3>1. Kept = [k \in 1 .. n |-> m_buf[(m_tail + k - 1) % kLogSlots]]
      BY DEF Kept, n
    <3>2. Len(Kept) = n
      BY <2>r, <3>1
    <3>3. n = 0 => Kept = <<>>
      BY <3>1
    <3>4. ASSUME NEW k \in 1 .. n PROVE Kept[k] = m_buf[Behind(m_head, (n - k) + 1)]
      <4>1. m_tail + k - 1 = m_tail + (k - 1)
        BY <2>k, <2>r DEF LogSlots
      <4> QED
        BY <2>b, <3>1, <4>1
    <3> QED
      BY <3>2, <3>3, <3>4
  <2>1. ~ contended /\ ~ crossed => \A j, k \in 1 .. Len(got) : j < k => got[j] < got[k]
    BY DEF TakenInv
  <2>2. ASSUME Quiet, ~ contended
        PROVE  /\ n <= logged - clearedUpTo
               /\ \A k \in 1 .. n : Kept[k] = (logged - n) + k
    <3>1. n <= logged - clearedUpTo
      BY <2>2, <2>r, <2>c
    <3>2. ASSUME NEW k \in 1 .. n PROVE Kept[k] = (logged - n) + k
      <4>1. (n - k) + 1 \in 1 .. kCapacity /\ (n - k) + 1 <= Fresh
        BY <2>k, <2>r, <2>2
      <4>2. m_buf[Behind(m_head, (n - k) + 1)] = (Complete - ((n - k) + 1)) + 1
        BY <2>2, <4>1 DEF NewestInv
      <4> QED
        BY <2>k, <2>r, <2>c, <2>l, <2>2, <4>2
    <3> QED
      BY <3>1, <3>2
  <2>3. ASSUME Quiet, ~ contended, ~ crossed, NEW e \in (clearedUpTo + 1) .. logged
        PROVE  \/ logged - e >= kCapacity
               \/ \E k \in 1 .. Len(Kept) : Kept[k] = e
               \/ \E k \in 1 .. Len(got) : got[k] = e
    <3>1. CASE e <= logged - n
      <4>1. e \in (clearedUpTo + 1) .. (Complete - Count(m_head, m_tail))
        BY <2>k, <2>r, <2>c, <2>3, <3>1 DEF n
      <4> QED
        BY <2>3, <4>1 DEF TakenInv
    <3>2. CASE ~ (e <= logged - n)
      <4>1. \A k \in 1 .. n : Kept[k] = (logged - n) + k
        BY <2>2, <2>3
      <4> DEFINE i == e - (logged - n)
      <4>2. i \in 1 .. n /\ (logged - n) + i = e
        BY <2>k, <2>r, <3>2
      <4> HIDE DEF i
      <4> QED
        BY <2>l, <4>1, <4>2
    <3> QED
      BY <3>1, <3>2
  <2>4. Quiet /\ ~ contended =>
          /\ Len(Kept) <= logged - clearedUpTo
          /\ \A k \in 1 .. Len(Kept) : Kept[k] = logged - Len(Kept) + k
    BY <2>2, <2>l, <2>r, <2>k
  <2>5. ASSUME Quiet, alone, Kept # <<>> PROVE Kept[Len(Kept)] = logged
    <3>1. n \in 1 .. n /\ (n - n) + 1 = 1
      BY <2>5, <2>l, <2>r
    <3>2. logged > clearedUpTo
      BY <2>5, <2>k, <2>l, <2>z DEF CallInv
    <3>3. m_buf[Behind(m_head, 1)] = logged
      BY <2>5, <3>2 DEF CallInv, Quiet
    <3> QED
      BY <2>l, <3>1, <3>3
  <2> QED
    BY <2>1, <2>3, <2>4, <2>5 DEF KeepsNewest
<1> QED
  BY <1>1, ErrorInvariant, PTL
=============================================================================
