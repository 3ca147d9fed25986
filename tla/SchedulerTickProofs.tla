------------------------- MODULE SchedulerTickProofs -------------------------
(***************************************************************************)
(* The tick, for every set of scheduled tasks, every ring of background    *)
(* tasks, every control budget and every duration the tasks may take.      *)
(***************************************************************************)
EXTENDS SchedulerTick, TLAPS

(* The slots of Phase 1 and the ring of Phase 2.                            *)
LEMMA SlotLemma ==
  /\ Len(Scheduled) \in Nat /\ Slot = 1 .. Len(Scheduled)
  /\ \A s \in Slot : /\ Scheduled[s].period \in Nat /\ Scheduled[s].managed \in BOOLEAN
                     /\ Scheduled[s].wcet \in Nat
<1>1. Len(Scheduled) \in Nat /\ Slot = 1 .. Len(Scheduled)
  BY ScheduledAssumption DEF Slot
<1>2. \A s \in Slot : Scheduled[s] \in [period : Nat, managed : BOOLEAN, wcet : Nat]
  <2> DEFINE Task == [period : Nat, managed : BOOLEAN, wcet : Nat]
  <2>1. Scheduled \in Seq(Task)
    BY ScheduledAssumption
  <2> HIDE DEF Task
  <2>2. \A s \in 1 .. Len(Scheduled) : Scheduled[s] \in Task
    BY <2>1
  <2> QED
    BY <1>1, <2>2 DEF Task
<1> QED
  BY <1>1, <1>2

(* The background ring: the slot after the last is the first.               *)
LEMMA RingLemma ==
  /\ Len(Ring) \in Nat \ {0} /\ BgSlot = 1 .. Len(Ring)
  /\ \A b \in BgSlot : Ring[b] \in Nat /\ NextBackground(b) \in BgSlot
BY RingAssumption DEF BgSlot, NextBackground

(* Unsigned subtraction of an earlier time on a clock that has not wrapped. *)
LEMMA MinusLemma ==
  ASSUME NEW a \in 0 .. TimeWidth - 1, NEW b \in 0 .. a
  PROVE  Minus(a, b) = a - b
BY TimesAssumption DEF Minus

(* An age is a number up to the cap, and the cap hides no elapsed period.   *)
LEMMA AgeLemma ==
  ASSUME NEW a \in Nat
  PROVE  /\ CappedAge(a) \in 0 .. AgeCap
         /\ \A s \in Slot : CappedAge(a) < Scheduled[s].period <=> a < Scheduled[s].period
         /\ \A b \in Nat : CappedAge(CappedAge(a) + b) = CappedAge(a + b)
BY AgeCapAssumption, SlotLemma DEF CappedAge

(* Ages that grow by the time of a tick are ages.                           *)
LEMMA GrowLemma ==
  ASSUME NEW f \in [Slot -> 0 .. AgeCap], NEW b \in Nat, NEW g \in Nat
  PROVE  [s \in Slot |-> CappedAge(f[s] + b + g)] \in [Slot -> 0 .. AgeCap]
<1> SUFFICES ASSUME NEW s \in Slot PROVE CappedAge(f[s] + b + g) \in 0 .. AgeCap
  OBVIOUS
<1>1. f[s] \in Nat
  BY AgeCapAssumption
<1>2. f[s] + b + g \in Nat
  BY <1>1
<1> QED
  BY <1>2, AgeLemma
-----------------------------------------------------------------------------
(* Every step of a tick keeps the types.                                    *)
LEMMA NextType == TypeOK /\ [Next]_vars => TypeOK'
<1> SUFFICES ASSUME TypeOK, [Next]_vars PROVE TypeOK'
  OBVIOUS
<1> USE SlotLemma, RingLemma, TimesAssumption DEF TypeOK
<1>1. CASE TickStart
  <2>1. 0 \in Nat /\ 0 \in 0 .. Len(Ring) /\ 1 \in 1 .. Len(Scheduled) + 1
    OBVIOUS
  <2>2. /\ t' \in 1 .. Len(Scheduled) + 1 /\ i' \in 0 .. Len(Ring) /\ rollover' \in BOOLEAN
        /\ busyAccum' \in Nat /\ used' \in Nat
    BY <1>1, <2>1 DEF TickStart
  <2> QED
    BY <1>1, <2>2 DEF TickStart
<1>2. CASE SkipTask
  <2>1. t' \in 1 .. Len(Scheduled) + 1
    BY <1>2 DEF SkipTask
  <2> QED
    BY <1>2, <2>1 DEF SkipTask
<1>3. ASSUME NEW d \in TaskTimes, DispatchTask(d) PROVE TypeOK'
  <2>1. d \in Nat /\ t \in Slot /\ 0 \in 0 .. AgeCap
    BY <1>3, AgeCapAssumption DEF DispatchTask
  <2>5. t' \in 1 .. Len(Scheduled) + 1
    BY <1>3 DEF DispatchTask
  <2>2. busyAccum' \in Nat
    BY <1>3, <2>1 DEF DispatchTask
  <2>3. misses' \subseteq Slot /\ ran' \subseteq Slot
    BY <1>3, <2>1 DEF DispatchTask
  <2>4. s_lastDispatch' \in [Slot -> 0 .. TimeWidth - 1] /\ age' \in [Slot -> 0 .. AgeCap]
    BY <1>3, <2>1 DEF DispatchTask
  <2> QED
    BY <1>3, <2>1, <2>2, <2>3, <2>4, <2>5 DEF DispatchTask
<1>4. CASE BackgroundStart
  <2>1. gapBudget' \in 0 .. ControlBudget
    BY <1>4 DEF BackgroundStart
  <2> QED
    BY <1>4, <2>1 DEF BackgroundStart
<1>5. ASSUME NEW d \in TaskTimes, DispatchBackground(d) PROVE TypeOK'
  <2>1. d \in Nat /\ i' \in 0 .. Len(Ring) /\ used' \in Nat
    BY <1>5 DEF DispatchBackground
  <2>2. bgRan' \subseteq BgSlot /\ s_bgRoundRobin' \in BgSlot
    BY <1>5 DEF DispatchBackground
  <2> QED
    BY <1>5, <2>1, <2>2 DEF DispatchBackground
<1>6. CASE BackgroundBreak
  <2>1. s_bgRoundRobin' \in BgSlot /\ busyAccum' \in Nat
    BY <1>6 DEF BackgroundBreak
  <2> QED
    BY <1>6, <2>1 DEF BackgroundBreak
<1>7. CASE BackgroundDone
  <2>1. busyAccum' \in Nat
    BY <1>7 DEF BackgroundDone
  <2> QED
    BY <1>7, <2>1 DEF BackgroundDone
<1>8. ASSUME NEW g \in Gaps, TickEnd(g) PROVE TypeOK'
  <2>1. now' \in 0 .. TimeWidth - 1
    BY <1>8 DEF TickEnd
  <2>2. age' \in [Slot -> 0 .. AgeCap]
    <3>1. g \in Nat /\ busyAccum \in Nat /\ age \in [Slot -> 0 .. AgeCap]
      OBVIOUS
    <3>2. age' = [s \in Slot |-> CappedAge(age[s] + busyAccum + g)]
      BY <1>8 DEF TickEnd
    <3> HIDE SlotLemma, RingLemma, TimesAssumption DEF TypeOK
    <3>3. [s \in Slot |-> CappedAge(age[s] + busyAccum + g)] \in [Slot -> 0 .. AgeCap]
      BY <3>1, GrowLemma
    <3> QED
      BY <3>2, <3>3
  <2> QED
    BY <1>8, <2>1, <2>2 DEF TickEnd
<1>9. CASE UNCHANGED vars
  BY <1>9 DEF vars
<1> QED
  BY <1>1, <1>2, <1>3, <1>4, <1>5, <1>6, <1>7, <1>8, <1>9 DEF Next

(* Every step keeps the account of the gap.                                 *)
LEMMA NextGap == TypeOK /\ GapInv /\ [Next]_vars => GapInv'
<1> SUFFICES ASSUME TypeOK, GapInv, [Next]_vars PROVE GapInv'
  OBVIOUS
<1> USE RingLemma, TimesAssumption DEF TypeOK, GapInv
<1>1. CASE TickStart
  BY <1>1 DEF TickStart
<1>2. CASE SkipTask
  BY <1>2 DEF SkipTask
<1>3. ASSUME NEW d \in TaskTimes, DispatchTask(d) PROVE GapInv'
  BY <1>3 DEF DispatchTask
<1>4. CASE BackgroundStart
  BY <1>4 DEF BackgroundStart
<1>5. ASSUME NEW d \in TaskTimes, DispatchBackground(d) PROVE GapInv'
  <2>1. bgRan' # {} /\ i' > 0 /\ phase' = "background"
    BY <1>5 DEF DispatchBackground
  <2>2. CASE i = 0
    BY <1>5, <2>1, <2>2 DEF DispatchBackground
  <2>3. CASE i > 0
    <3>0. Ring[s_bgRoundRobin] \in Nat /\ d \in Nat /\ used \in Nat /\ gapBudget \in Nat
      OBVIOUS
    <3>1. ~Overstay => d <= Ring[s_bgRoundRobin]
      BY <1>5 DEF DispatchBackground
    <3>3. ~ (used + Ring[s_bgRoundRobin] > gapBudget)
      BY <1>5, <2>3 DEF DispatchBackground, OverBudget
    <3>4. used' = used + d /\ gapBudget' = gapBudget
      BY <1>5 DEF DispatchBackground
    <3>2. ~Overstay => used' <= gapBudget'
      <4> HIDE RingLemma, TimesAssumption DEF TypeOK, GapInv
      <4> QED
        BY <3>0, <3>1, <3>3, <3>4
    <3> QED
      BY <1>5, <2>1, <3>2 DEF DispatchBackground
  <2> QED
    BY <2>2, <2>3
<1>6. CASE BackgroundBreak
  BY <1>6 DEF BackgroundBreak, OverBudget
<1>7. CASE BackgroundDone
  BY <1>7 DEF BackgroundDone
<1>8. ASSUME NEW g \in Gaps, TickEnd(g) PROVE GapInv'
  BY <1>8 DEF TickEnd
<1>9. CASE UNCHANGED vars
  BY <1>9 DEF vars
<1> QED
  BY <1>1, <1>2, <1>3, <1>4, <1>5, <1>6, <1>7, <1>8, <1>9 DEF Next

(* On a clock that does not wrap, a slot is skipped exactly when its period *)
(* has not elapsed since it really ran.                                     *)
LEMMA TooEarlyLemma ==
  ASSUME TypeOK, AgeInv, NEW s \in Slot
  PROVE  TooEarly(s) <=> /\ KernelManaged(s) /\ s_lastDispatch[s] # 0
                         /\ age[s] < Scheduled[s].period
<1>1. /\ now \in 0 .. TimeWidth - 1 /\ s_lastDispatch[s] \in 0 .. TimeWidth - 1
      /\ Scheduled[s].period \in Nat
  BY SlotLemma DEF TypeOK
<1>2. CASE KernelManaged(s) /\ s_lastDispatch[s] # 0
  <2>1. s_lastDispatch[s] \in 0 .. now /\ age[s] = CappedAge(now - s_lastDispatch[s])
    BY <1>1, <1>2, TimesAssumption DEF AgeInv
  <2>2. Minus(now, s_lastDispatch[s]) = now - s_lastDispatch[s]
    BY <1>1, <2>1, MinusLemma
  <2>3. now - s_lastDispatch[s] \in Nat
    BY <1>1, <2>1, TimesAssumption
  <2>4. CappedAge(now - s_lastDispatch[s]) < Scheduled[s].period <=>
          now - s_lastDispatch[s] < Scheduled[s].period
    BY <2>3, AgeLemma
  <2>5. TooEarly(s) <=> Minus(now, s_lastDispatch[s]) < Scheduled[s].period
    BY <1>2 DEF TooEarly
  <2>6. TooEarly(s) <=> age[s] < Scheduled[s].period
    BY <2>1, <2>2, <2>4, <2>5
  <2> QED
    BY <1>2, <2>6
<1>3. CASE ~ (KernelManaged(s) /\ s_lastDispatch[s] # 0)
  BY <1>3 DEF TooEarly
<1> QED
  BY <1>2, <1>3

(* A tick that ends on a clock that does not wrap shows exactly the time    *)
(* that passed.                                                             *)
LEMMA TickEndLemma ==
  ASSUME TypeOK, MaxTime < TimeWidth, NEW g \in Gaps, TickEnd(g)
  PROVE  /\ busyAccum + g \in Nat
         /\ now' = now + (busyAccum + g)
         /\ \A s \in Slot : age'[s] = CappedAge(age[s] + (busyAccum + g))
<1>1. now \in Nat /\ busyAccum \in Nat /\ g \in Nat
  BY TimesAssumption DEF TypeOK
<1>2. now + busyAccum + g \in 0 .. TimeWidth - 1
  BY <1>1, TimesAssumption DEF TickEnd
<1>3. now' = now + (busyAccum + g)
  BY <1>1, <1>2, TimesAssumption DEF TickEnd
<1>4. \A s \in Slot : age[s] \in Nat
  BY AgeCapAssumption DEF TypeOK
<1>5. \A s \in Slot : age[s] + busyAccum + g = age[s] + (busyAccum + g)
  BY <1>1, <1>4
<1>6. \A s \in Slot : age'[s] = CappedAge(age[s] + busyAccum + g)
  BY DEF TickEnd
<1> QED
  BY <1>1, <1>3, <1>5, <1>6

(* While the clock does not wrap, every step keeps the stored times true.   *)
LEMMA NextAge ==
  ASSUME MaxTime < TimeWidth
  PROVE  TypeOK /\ AgeInv /\ [Next]_vars => AgeInv'
<1> SUFFICES ASSUME TypeOK, AgeInv, [Next]_vars PROVE AgeInv'
  OBVIOUS
<1>1. ASSUME NEW d \in TaskTimes, DispatchTask(d) PROVE AgeInv'
  <2> SUFFICES ASSUME NEW s \in Slot, KernelManaged(s), s_lastDispatch'[s] # 0
               PROVE  s_lastDispatch'[s] <= now' /\ age'[s] = CappedAge(now' - s_lastDispatch'[s])
    BY DEF AgeInv, KernelManaged
  <2>1. now \in Nat /\ now' = now
    BY <1>1, TimesAssumption DEF TypeOK, DispatchTask
  <2>2. CASE s = t
    <3>1. s_lastDispatch'[s] = now /\ age'[s] = 0
      BY <1>1, <2>2 DEF DispatchTask, TypeOK
    <3>2. CappedAge(0) = 0
      BY AgeCapAssumption DEF CappedAge
    <3> QED
      BY <2>1, <3>1, <3>2
  <2>3. CASE s # t
    BY <1>1, <2>1, <2>3 DEF DispatchTask, TypeOK, AgeInv
  <2> QED
    BY <2>2, <2>3
<1>2. ASSUME NEW g \in Gaps, TickEnd(g) PROVE AgeInv'
  <2> SUFFICES ASSUME NEW s \in Slot, KernelManaged(s), s_lastDispatch'[s] # 0
               PROVE  s_lastDispatch'[s] <= now' /\ age'[s] = CappedAge(now' - s_lastDispatch'[s])
    BY DEF AgeInv, KernelManaged
  <2> DEFINE b == busyAccum + g
  <2>1. b \in Nat /\ now' = now + b /\ age'[s] = CappedAge(age[s] + b)
    BY <1>2, TickEndLemma
  <2>2. s_lastDispatch'[s] = s_lastDispatch[s]
    BY <1>2 DEF TickEnd
  <2>3. s_lastDispatch[s] <= now /\ age[s] = CappedAge(now - s_lastDispatch[s])
    BY <2>2 DEF AgeInv
  <2>4. now \in Nat /\ s_lastDispatch[s] \in Nat
    BY TimesAssumption DEF TypeOK
  <2> HIDE DEF b
  <2>5. now - s_lastDispatch[s] \in Nat /\ (now - s_lastDispatch[s]) + b = now' - s_lastDispatch[s]
    BY <2>1, <2>3, <2>4
  <2>6. age'[s] = CappedAge(now' - s_lastDispatch[s])
    BY <2>1, <2>3, <2>5, AgeLemma
  <2> QED
    BY <2>1, <2>2, <2>3, <2>4, <2>6
<1>3. CASE UNCHANGED <<now, s_lastDispatch, age>>
  BY <1>3 DEF AgeInv, KernelManaged
<1> QED
  BY <1>1, <1>2, <1>3 DEF Next, TickStart, SkipTask, BackgroundStart, DispatchBackground,
                          BackgroundBreak, BackgroundDone, vars

(* Every step of Phase 1 accounts for the slot it leaves behind.            *)
LEMMA NextVisited == TypeOK /\ AgeInv /\ VisitedInv /\ [Next]_vars => VisitedInv'
<1> SUFFICES ASSUME TypeOK, AgeInv, VisitedInv, [Next]_vars PROVE VisitedInv'
  OBVIOUS
<1> USE SlotLemma DEF KernelManaged
<1>1. CASE TickStart
  BY <1>1 DEF TickStart, VisitedInv
<1>2. CASE SkipTask
  <2>1. t \in Slot /\ KernelManaged(t) /\ age[t] < Scheduled[t].period
    BY <1>2, TooEarlyLemma DEF SkipTask
  <2>2. \A s \in Slot : s < t' => s < t \/ s = t
    BY <1>2, <2>1 DEF SkipTask
  <2> QED
    BY <1>2, <2>1, <2>2 DEF SkipTask, VisitedInv
<1>3. ASSUME NEW d \in TaskTimes, DispatchTask(d) PROVE VisitedInv'
  <2>1. \A s \in Slot : s < t' => s < t \/ s = t
    BY <1>3 DEF DispatchTask
  <2>2. ran' = ran \cup {t} /\ \A s \in Slot : s # t => age'[s] = age[s]
    BY <1>3 DEF DispatchTask, TypeOK
  <2> QED
    BY <1>3, <2>1, <2>2 DEF DispatchTask, VisitedInv
<1>4. CASE BackgroundStart
  <2>1. t = Len(Scheduled) + 1
    BY <1>4 DEF BackgroundStart, TypeOK
  <2> QED
    BY <1>4, <2>1 DEF BackgroundStart, VisitedInv
<1>5. ASSUME NEW d \in TaskTimes, DispatchBackground(d) PROVE VisitedInv'
  BY <1>5 DEF DispatchBackground, VisitedInv
<1>6. CASE BackgroundBreak \/ BackgroundDone
  BY <1>6 DEF BackgroundBreak, BackgroundDone, VisitedInv
<1>7. ASSUME NEW g \in Gaps, TickEnd(g) PROVE VisitedInv'
  BY <1>7 DEF TickEnd, VisitedInv
<1>8. CASE UNCHANGED vars
  BY <1>8 DEF vars, VisitedInv
<1> QED
  BY <1>1, <1>2, <1>3, <1>4, <1>5, <1>6, <1>7, <1>8 DEF Next

(* A clock that starts after zero stays there, and every dispatch of a      *)
(* managed slot leaves a stored time that is not zero.                      *)
LEMMA NextNever ==
  ASSUME MaxTime < TimeWidth
  PROVE  TypeOK /\ NeverInv /\ [Next]_vars => NeverInv'
<1> SUFFICES ASSUME TypeOK, NeverInv, [Next]_vars PROVE NeverInv'
  OBVIOUS
<1> USE DEF KernelManaged
<1>1. ASSUME NEW d \in TaskTimes, DispatchTask(d) PROVE NeverInv'
  BY <1>1 DEF DispatchTask, TypeOK, NeverInv
<1>2. ASSUME NEW g \in Gaps, TickEnd(g) PROVE NeverInv'
  <2> DEFINE b == busyAccum + g
  <2>1. /\ b \in Nat /\ now' = now + b
        /\ \A s \in Slot : age'[s] = CappedAge(age[s] + b)
    BY <1>2, TickEndLemma
  <2> HIDE DEF b
  <2>2. now' > 0
    BY <2>1, TimesAssumption DEF TypeOK, NeverInv
  <2>3. CappedAge(AgeCap + b) = AgeCap
    BY <2>1, AgeCapAssumption DEF CappedAge
  <2> QED
    BY <1>2, <2>1, <2>2, <2>3 DEF TickEnd, NeverInv
<1>3. CASE UNCHANGED <<now, s_lastDispatch, age>>
  BY <1>3 DEF NeverInv
<1> QED
  BY <1>1, <1>2, <1>3 DEF Next, TickStart, SkipTask, BackgroundStart, DispatchBackground,
                          BackgroundBreak, BackgroundDone, vars
-----------------------------------------------------------------------------
(* The first tick starts with every part of the invariant.                  *)
LEMMA InitParts == Init => TypeOK /\ GapInv /\ AgeInv /\ VisitedInv
<1> SUFFICES ASSUME Init PROVE TypeOK /\ GapInv /\ AgeInv /\ VisitedInv
  OBVIOUS
<1> USE DEF Init
<1>1. 0 \in 0 .. TimeWidth - 1 /\ now \in 0 .. TimeWidth - 1
  BY TimesAssumption
<1>2. AgeCap \in 0 .. AgeCap /\ 0 \in 0 .. ControlBudget
  BY AgeCapAssumption, TimesAssumption
<1>3. 1 \in BgSlot /\ 0 \in 0 .. Len(Ring) /\ 1 \in 1 .. Len(Scheduled) + 1
  BY RingLemma, SlotLemma
<1>4. TypeOK
  BY <1>1, <1>2, <1>3 DEF TypeOK
<1>5. GapInv /\ AgeInv /\ VisitedInv
  BY <1>2, TimesAssumption DEF GapInv, AgeInv, VisitedInv
<1> QED
  BY <1>4, <1>5

(* Indices stay inside the task arrays, times inside SputterMicros and the  *)
(* gap inside the control budget, whether or not the clock wraps.           *)
THEOREM TickTypeCorrect == Spec => []TypeOK
BY InitParts, NextType, PTL DEF Spec

(* Whatever Phase 1 took: background tasks that keep their budgets stay in  *)
(* the gap, or only the first of them ran; and some background task ran in  *)
(* every tick.                                                              *)
THEOREM TickGapRespected == Spec => []GapRespected
<1>1. Spec => []GapInv
  BY InitParts, NextGap, TickTypeCorrect, PTL DEF Spec
<1>2. GapInv => GapRespected
  BY DEF GapInv, GapRespected
<1> QED
  BY <1>1, <1>2, PTL

(* The whole invariant, for a clock of microseconds that does not wrap.     *)
THEOREM TickInvariant ==
  ASSUME MaxTime < TimeWidth
  PROVE  Spec => []IInv
<1>1. IInv /\ [Next]_vars => IInv'
  BY NextType, NextGap, NextAge, NextVisited DEF IInv
<1>2. Init => IInv
  BY InitParts DEF IInv
<1> QED
  BY <1>1, <1>2, PTL DEF Spec

(* No tick leaves a task overdue, whatever the periods, the order of the    *)
(* slots and the time the tasks take, until the clock wraps.                *)
THEOREM TickNoneOverdue ==
  ASSUME MaxTime < TimeWidth
  PROVE  Spec => []NoneOverdue
<1>1. IInv => NoneOverdue
  BY SlotLemma DEF IInv, VisitedInv, NoneOverdue
<1> QED
  BY <1>1, TickInvariant, PTL

(* No kernel-managed task is dispatched before its period has elapsed since *)
(* it last was, if the clock of the first tick is not zero (the value       *)
(* s_lastDispatch uses for never) and until it wraps.                       *)
THEOREM TickPeriodRespected ==
  ASSUME MaxTime < TimeWidth, 0 \notin StartTimes
  PROVE  Spec => PeriodRespected
<1> DEFINE Early == \A s \in Slot : s \in ran' /\ s \notin ran /\ KernelManaged(s) =>
                     age[s] >= Scheduled[s].period
<1>1. Init => NeverInv
  BY TimesAssumption DEF Init, NeverInv
<1>2. TypeOK /\ NeverInv /\ [Next]_vars => NeverInv'
  BY NextNever
<1>3. ASSUME IInv, NeverInv, [Next]_vars PROVE [Early]_vars
  <2> SUFFICES ASSUME NEW s \in Slot, s \in ran', s \notin ran, KernelManaged(s)
               PROVE  age[s] >= Scheduled[s].period
    OBVIOUS
  <2>1. PICK d \in TaskTimes : DispatchTask(d)
    BY <1>3 DEF Next, TickStart, SkipTask, BackgroundStart, DispatchBackground,
                BackgroundBreak, BackgroundDone, TickEnd, vars
  <2>2. s = t /\ ~TooEarly(s)
    BY <2>1 DEF DispatchTask
  <2>3. age[s] \in Nat /\ Scheduled[s].period \in Nat
    <3>1. age \in [Slot -> 0 .. AgeCap]
      BY <1>3 DEF IInv, TypeOK
    <3>2. age[s] \in 0 .. AgeCap /\ AgeCap \in Nat
      BY <3>1, AgeCapAssumption
    <3> QED
      BY <3>2, SlotLemma
  <2>4. CASE s_lastDispatch[s] = 0
    BY <1>3, <2>3, <2>4, AgeCapAssumption DEF NeverInv
  <2>5. CASE s_lastDispatch[s] # 0
    BY <1>3, <2>2, <2>3, <2>5, TooEarlyLemma DEF IInv
  <2> QED
    BY <2>4, <2>5
<1>4. IInv => TypeOK
  BY DEF IInv
<1> HIDE DEF Early
<1>5. Spec => [][Early]_vars
  BY <1>1, <1>2, <1>3, <1>4, TickInvariant, PTL DEF Spec
<1> QED
  BY <1>5 DEF PeriodRespected, Early
=============================================================================
