---------------------------- MODULE ExampleProofs ----------------------------
(***************************************************************************)
(* The double buffer, for any number of writes: what a read() returns when *)
(* at most one write() overlaps it, and when any number does.  Then the    *)
(* example programs, for any of their constants: sensorpoll's conversions, *)
(* crunchloop, a client of the double buffer that inherits what is proved  *)
(* of it, pingpong's token, the sums multirate reports, and the stream of  *)
(* bytes behind --tcp-port.                                                *)
(***************************************************************************)
EXTENDS CrunchLoop, PingPong, SensorPoll, PeriodicExamples, TcpStream,
        InductionLemmas, SequenceTheorems, TLAPS

(* The buffer starts with both slots whole and nobody in it.                *)
LEMMA InitIInv == Init => IInv
BY WritesAssumption DEF Init, IInv, TypeOK, WriterInv, ReaderInv, Value, Words

(* Every step of write() and of read() preserves what the two sides know.   *)
LEMMA NextIInv == IInv /\ [Next]_vars => IInv'
<1> SUFFICES ASSUME IInv, [Next]_vars PROVE IInv'
  OBVIOUS
<1> USE WritesAssumption DEF IInv, TypeOK, Value, Words, Inactive
<1>1. CASE WriteBegin
  BY <1>1 DEF WriteBegin, WriterInv, ReaderInv
<1>2. CASE WriteWord1
  BY <1>2 DEF WriteWord1, WriterInv, ReaderInv
<1>3. CASE WriteWord2
  BY <1>3 DEF WriteWord2, WriterInv, ReaderInv
<1>4. CASE WritePublish
  BY <1>4 DEF WritePublish, WriterInv, ReaderInv
<1>5. CASE ReadLoad
  BY <1>5 DEF ReadLoad, WriterInv, ReaderInv
<1>6. CASE ReadWord1
  BY <1>6 DEF ReadWord1, WriterInv, ReaderInv
<1>7. CASE ReadWord2
  BY <1>7 DEF ReadWord2, WriterInv, ReaderInv
<1>8. CASE ReadReturn
  BY <1>8 DEF ReadReturn, WriterInv, ReaderInv
<1>9. CASE UNCHANGED vars
  BY <1>9 DEF vars, WriterInv, ReaderInv
<1> QED
  BY <1>1, <1>2, <1>3, <1>4, <1>5, <1>6, <1>7, <1>8, <1>9 DEF Next

(* The invariant holds throughout every execution.                          *)
THEOREM BufferInvariant == Spec => []IInv
BY InitIInv, NextIInv, PTL DEF Spec

(* The indices and the words of the buffer stay in their ranges.            *)
THEOREM BufferTypeCorrect == Spec => []TypeOK
BY BufferInvariant, PTL DEF IInv

(* A read() that overlaps at most one write() returns, whole, the value     *)
(* that was the latest when it loaded the index.                            *)
THEOREM BufferSlowWriterExact == Spec => []SlowWriterExact
<1>1. IInv => SlowWriterExact
  BY DEF IInv, TypeOK, Words, ReaderInv, SlowWriterExact
<1> QED
  BY <1>1, BufferInvariant, PTL

(* However many write() calls overlap it, read() returns no word older than *)
(* the value that was the latest when it loaded the index.                  *)
THEOREM BufferNeverOlder == Spec => []NeverOlderThanPublished
<1>1. IInv => NeverOlderThanPublished
  BY DEF IInv, ReaderInv, NeverOlderThanPublished
<1> QED
  BY <1>1, BufferInvariant, PTL
-----------------------------------------------------------------------------
(* A reading is of the conversion the task last asked for, run in full.     *)
THEOREM SensorFreshReading == SensorSpec => []FreshReading
<1>1. SensorInit => AskedInv /\ FreshReading
  BY DEF SensorInit, AskedInv, FreshReading
<1>2. AskedInv /\ FreshReading /\ [SensorNext]_sensorVars => (AskedInv /\ FreshReading)'
  <2> SUFFICES ASSUME AskedInv, FreshReading, [SensorNext]_sensorVars
               PROVE  (AskedInv /\ FreshReading)'
    OBVIOUS
  <2> USE DEF AskedInv, FreshReading
  <2>1. CASE PollReady
    BY <2>1 DEF PollReady, startConversion, isConversionReady
  <2>2. CASE PollNotReady
    BY <2>2 DEF PollNotReady, adcVars
  <2>3. CASE StartCycle
    BY <2>3 DEF StartCycle, startConversion
  <2>4. CASE TooSoon
    BY <2>4 DEF TooSoon, adcVars, pollVars
  <2>5. CASE SensorLoop \/ \E d \in TurnTimes : SensorLog(d)
    BY <2>5 DEF SensorLoop, SensorLog, adcVars, pollVars
  <2>6. CASE UNCHANGED sensorVars
    BY <2>6 DEF sensorVars, adcVars, pollVars
  <2> QED
    BY <2>1, <2>2, <2>3, <2>4, <2>5, <2>6 DEF SensorNext
<1> QED
  BY <1>1, <1>2, PTL DEF SensorSpec
-----------------------------------------------------------------------------
(* The app's angle wraps where the remainder of its sequence number does.   *)
LEMMA AngleLemma ==
  ASSUME NEW n \in Nat
  PROVE  (n + 1) % (kAngleSteps + 1) = NextAngle(n % (kAngleSteps + 1))
<1> DEFINE P == kAngleSteps + 1
           q == n \div P
           r == n % P
<1>1. P \in Nat /\ P > 0 /\ kAngleSteps \in Nat
  BY CrunchLoopAssumption
<1>2. kAngleSteps = P - 1
  BY <1>1
<1> HIDE DEF P
<1>3. q \in Nat /\ r \in 0 .. P - 1 /\ n = P * q + r
  BY <1>1, Z3
<1> HIDE DEF q, r
<1>4. CASE r + 1 < P
  <2>1. n + 1 = P * q + (r + 1)
    BY <1>1, <1>3
  <2>2. (P * q + (r + 1)) % P = r + 1
    BY <1>1, <1>3, <1>4, Z3
  <2> QED
    BY <1>1, <1>2, <1>3, <1>4, <2>1, <2>2 DEF NextAngle, P, r
<1>5. CASE ~ (r + 1 < P)
  <2>1. n + 1 = P * (q + 1) /\ r + 1 = P
    BY <1>1, <1>3, <1>5
  <2>2. (P * (q + 1)) % P = 0
    BY <1>1, <1>3
  <2> QED
    BY <1>1, <1>2, <1>3, <2>1, <2>2 DEF NextAngle, P, r
<1> QED
  BY <1>4, <1>5

(* crunchloop uses the double buffer as its specification allows.           *)
THEOREM CrunchImplementsBuffer == CrunchSpec => Spec
<1>1. CrunchInit => Init
  BY DEF CrunchInit
<1>2. [CrunchNext]_<<vars, crunchVars>> => [Next]_vars
  BY DEF CrunchNext, Next, AppTick, AppWrites, CrunchBegin, CrunchReads, CrunchCount,
         StateSelect, StateWord1, StateWord2, StatePublish, ServoGoto, CrunchStop, CrunchLeave,
         SummaryLoad, SummaryWord1, SummaryWord2, MainGoto
<1> QED
  BY <1>1, <1>2, PTL DEF CrunchSpec, Spec

(* So the servo never reads a target older than the latest published when   *)
(* its read() began.                                                        *)
THEOREM CrunchNeverOlder == CrunchSpec => []NeverOlderThanPublished
BY CrunchImplementsBuffer, BufferNeverOlder, PTL

(* What main() reads after the join is the state of the last crunch() call, *)
(* whole, and counts every call, whenever the cores noticed the stop; the   *)
(* angle is the one its sequence number stands for.                         *)
THEOREM CrunchFinalEncoderCount == CrunchSpec => []FinalEncoderCount
<1>1. CrunchInit => CrunchInv
  <2>1. 0 % (kAngleSteps + 1) = 0
    BY CrunchLoopAssumption
  <2> QED
    BY <2>1 DEF CrunchInit, Init, CrunchInv, StateInv, SummaryInv, FinalEncoderCount
<1>2. CrunchInv /\ [CrunchNext]_<<vars, crunchVars>> => CrunchInv'
  <2> SUFFICES ASSUME CrunchInv, [CrunchNext]_<<vars, crunchVars>> PROVE CrunchInv'
    OBVIOUS
  <2> USE DEF CrunchInv, StateInv, SummaryInv, FinalEncoderCount, stateVars, mainVars
  <2>1. CASE AppTick
    <3>1. written' = written + 1 /\ m_angle' = NextAngle(m_angle)
      BY <2>1 DEF AppTick, WriteBegin
    <3>2. m_angle' = written' % (kAngleSteps + 1) /\ written' \in Nat
      BY <3>1, AngleLemma
    <3> QED
      BY <2>1, <3>2 DEF AppTick
  <2>2. CASE AppWrites
    BY <2>2 DEF AppWrites, WriteWord1, WriteWord2, WritePublish
  <2>3. CASE CrunchBegin
    BY <2>3 DEF CrunchBegin, ReadLoad
  <2>4. CASE CrunchReads
    BY <2>4 DEF CrunchReads, ReadWord1, ReadWord2
  <2>5. CASE CrunchCount
    BY <2>5 DEF CrunchCount, ReadReturn
  <2>6. CASE StateSelect
    BY <2>6 DEF StateSelect, ServoGoto, Inactive, vars
  <2>7. CASE StateWord1
    BY <2>7 DEF StateWord1, ServoGoto, vars
  <2>8. CASE StateWord2
    BY <2>8 DEF StateWord2, ServoGoto, vars
  <2>9. CASE StatePublish
    BY <2>9 DEF StatePublish, ServoGoto, vars
  <2>10. CASE CrunchStop \/ CrunchLeave
    BY <2>10 DEF CrunchStop, CrunchLeave, vars
  <2>11. CASE SummaryLoad \/ SummaryWord1 \/ SummaryWord2
    BY <2>11 DEF SummaryLoad, SummaryWord1, SummaryWord2, MainGoto, vars
  <2>12. CASE UNCHANGED <<vars, crunchVars>>
    BY <2>12 DEF vars, crunchVars
  <2> QED
    BY <2>1, <2>2, <2>3, <2>4, <2>5, <2>6, <2>7, <2>8, <2>9, <2>10, <2>11, <2>12 DEF CrunchNext
<1>3. CrunchInv => FinalEncoderCount
  BY DEF CrunchInv
<1> QED
  BY <1>1, <1>2, <1>3, PTL DEF CrunchSpec
-----------------------------------------------------------------------------
(* The lines the two cores are due to log.                                  *)
LEMMA LineDue ==
  ASSUME NEW n \in Nat
  PROVE  /\ ExpectedLine((n + n) + 1) = <<"Ping", n + 1, (n + n) + 1>>
         /\ ExpectedLine((n + n) + 2) = <<"Pong", n + 1, (n + n) + 2>>
<1>1. ((n + n) + 1) % 2 = 1 /\ (((n + n) + 1) + 1) \div 2 = n + 1
  OBVIOUS
<1>2. ((n + n) + 2) % 2 = 0 /\ ((n + n) + 2) \div 2 = n + 1
  OBVIOUS
<1> QED
  BY <1>1, <1>2 DEF ExpectedLine

(* A line that is appended leaves the earlier ones as they are.             *)
LEMMA AppendLine ==
  ASSUME NEW who \in {"Ping", "Pong"}, NEW n \in Nat, NEW g \in Nat,
         lines \in Seq({"Ping", "Pong"} \X Nat \X Nat), lines' = Append(lines, <<who, n, g>>)
  PROVE  /\ lines' \in Seq({"Ping", "Pong"} \X Nat \X Nat)
         /\ Len(lines') = Len(lines) + 1 /\ lines'[Len(lines) + 1] = <<who, n, g>>
         /\ \A k \in 1 .. Len(lines) : lines'[k] = lines[k]
<1> DEFINE L == {"Ping", "Pong"} \X Nat \X Nat
<1>1. <<who, n, g>> \in L /\ lines \in Seq(L)
  OBVIOUS
<1> DEFINE e == <<who, n, g>>
<1>2. lines' = Append(lines, e)
  OBVIOUS
<1> HIDE DEF L, e
<1>3. /\ lines' \in Seq(L) /\ Len(lines') = Len(lines) + 1 /\ lines'[Len(lines) + 1] = e
      /\ \A k \in 1 .. Len(lines) : lines'[k] = lines[k]
  BY <1>1, <1>2 DEF e
<1> QED
  BY <1>3 DEF L, e

(* The token passes back and forth: each core counts only in its turn.      *)
THEOREM PingPongInvariant == PingPongSpec => []PingPongInv
<1>k. kMaxRounds \in Nat /\ kMaxRounds > 0
  BY PingPongAssumption
<1>1. PingPongInit => PingPongInv
  BY <1>k DEF PingPongInit, PingPongInv, PingPongType, TokenInv, CountInv, TurnsAlternate, InPlay
<1>2. PingPongInv /\ [PingPongNext]_pingPongVars => PingPongInv'
  <2> SUFFICES ASSUME PingPongInv, [PingPongNext]_pingPongVars PROVE PingPongInv'
    OBVIOUS
  <2> USE DEF PingPongInv
  <2>t. /\ Len(lines) \in Nat /\ m_pingCount \in Nat /\ m_pongCount \in Nat
        /\ lines \in Seq({"Ping", "Pong"} \X Nat \X Nat)
    BY DEF PingPongType
  <2>1. CASE PingLoad
    <3>1. /\ pingPc = "loop" /\ pingPc' = "count" /\ g_pingTurn /\ Looping
          /\ UNCHANGED <<forever, g_counter, g_pingTurn, g_running, pongPc, m_pingCount,
                         m_pongCount, ppState, lines>>
      BY <2>1 DEF PingLoad
    <3>2. PingPongType'
      BY <3>1 DEF PingPongType
    <3>3. TokenInv'
      BY <3>1 DEF TokenInv
    <3>4. InPlay' <=> InPlay
      BY <3>1 DEF InPlay
    <3>5. ~ InPlay => forever
      BY <3>1 DEF CountInv, Looping
    <3>6. CountInv'
      BY <3>1, <3>4, <3>5 DEF CountInv
    <3>7. TurnsAlternate'
      BY <3>1 DEF TurnsAlternate
    <3> QED
      BY <3>2, <3>3, <3>6, <3>7
  <2>2. CASE PingCount
    <3>1. /\ pingPc = "count" /\ pingPc' = "pass" /\ g_counter' = g_counter + 1
          /\ m_pingCount' = m_pingCount + 1
          /\ lines' = Append(lines, <<"Ping", m_pingCount + 1, g_counter + 1>>)
          /\ UNCHANGED <<forever, g_pingTurn, g_running, pongPc, m_pongCount, ppState>>
      BY <2>2 DEF PingCount
    <3>2. g_counter = Len(lines) /\ Len(lines) = m_pingCount + m_pongCount /\ g_pingTurn
          /\ pongPc \notin {"count", "pass"}
      BY <3>1 DEF CountInv, TokenInv
    <3>3. /\ lines' \in Seq({"Ping", "Pong"} \X Nat \X Nat) /\ Len(lines') = Len(lines) + 1
          /\ lines'[Len(lines) + 1] = <<"Ping", m_pingCount + 1, g_counter + 1>>
          /\ \A k \in 1 .. Len(lines) : lines'[k] = lines[k]
      <4>1. m_pingCount + 1 \in Nat /\ g_counter + 1 \in Nat
        BY <2>t, <3>2
      <4> QED
        BY <2>t, <3>1, <4>1, AppendLine, Zenon
    <3>4. PingPongType' /\ TokenInv'
      BY <2>t, <3>1, <3>2, <3>3 DEF PingPongType, TokenInv
    <3>5. CountInv'
      BY <1>k, <2>t, <3>1, <3>2, <3>3 DEF CountInv, InPlay
    <3>6. Len(lines) + 1 < 2 * kMaxRounds => lines'[Len(lines) + 1] = ExpectedLine(Len(lines) + 1)
      <4>1. CASE InPlay
        <5>1. Len(lines) = m_pingCount + m_pingCount
          BY <3>1, <3>2, <4>1 DEF CountInv
        <5> QED
          BY <2>t, <3>2, <3>3, <5>1, LineDue
      <4>2. CASE ~ InPlay
        BY <1>k, <2>t, <3>2, <4>2 DEF CountInv, InPlay
      <4> QED
        BY <4>1, <4>2
    <3>7. TurnsAlternate'
      BY <2>t, <3>1, <3>3, <3>6 DEF TurnsAlternate
    <3> QED
      BY <3>4, <3>5, <3>7
  <2>3. CASE PingPass
    <3>1. /\ pingPc = "pass" /\ pingPc' = "loop"
          /\ UNCHANGED <<forever, g_counter, pongPc, m_pingCount, m_pongCount, ppState, lines>>
      BY <2>3 DEF PingPass
    <3>2. \/ m_pingCount >= kMaxRounds /\ g_running' = FALSE /\ g_pingTurn' = g_pingTurn
          \/ ~ (m_pingCount >= kMaxRounds) /\ g_pingTurn' = FALSE /\ g_running' = g_running
      BY <2>3, Zenon DEF PingPass
    <3>3. PingPongType'
      BY <3>1, <3>2 DEF PingPongType
    <3>4. TurnsAlternate'
      BY <3>1 DEF TurnsAlternate
    <3>5. g_pingTurn /\ pongPc \notin {"count", "pass"}
      BY <3>1 DEF TokenInv
    <3>6. /\ (g_running' => g_running) /\ (g_pingTurn' => g_pingTurn) /\ (forever' <=> forever)
          /\ ~ (m_pingCount >= kMaxRounds) => ~ g_pingTurn' /\ (g_running' <=> g_running)
      <4>1. /\ g_running \in BOOLEAN /\ g_pingTurn \in BOOLEAN /\ forever \in BOOLEAN
            /\ forever' = forever
        BY <3>1 DEF PingPongType
      <4> QED
        BY <3>2, <4>1
    <3>7. TokenInv'
      BY <3>1, <3>5, <3>6 DEF TokenInv
    <3>8. g_counter' = Len(lines') /\ Len(lines') = m_pingCount' + m_pongCount'
      BY <3>1 DEF CountInv
    <3>9. ASSUME m_pingCount >= kMaxRounds PROVE CountInv'
      <4>0. ~ g_running' /\ g_pingTurn'
        BY <3>2, <3>5, <3>9, Zenon
      <4>1. ~ g_running' /\ g_pingTurn' /\ ~ InPlay'
        BY <1>k, <2>t, <3>1, <3>9, <4>0 DEF InPlay
      <4>2. CASE InPlay
        <5>1. m_pingCount = kMaxRounds /\ m_pingCount = m_pongCount + 1
          BY <1>k, <2>t, <3>1, <3>5, <3>9, <4>2 DEF InPlay, CountInv
        <5>2. m_pongCount = kMaxRounds - 1
          BY <1>k, <2>t, <5>1
        <5> QED
          BY <3>1, <3>8, <4>1, <5>1, <5>2 DEF CountInv
      <4>3. CASE ~ InPlay
        <5>1. m_pongCount' = kMaxRounds - 1 /\ (~ forever' => m_pingCount' = kMaxRounds)
          BY <3>1, <3>6, <4>3 DEF CountInv
        <5> QED
          BY <3>1, <3>8, <4>1, <5>1 DEF CountInv
      <4> QED
        BY <4>2, <4>3
    <3>10. ASSUME ~ (m_pingCount >= kMaxRounds) PROVE CountInv'
      <4>1. InPlay /\ InPlay'
        BY <1>k, <2>t, <3>1, <3>10 DEF InPlay
      <4>2. ~ g_pingTurn' /\ (g_running' <=> g_running)
        BY <3>6, <3>10
      <4>3. g_running /\ m_pingCount = m_pongCount + 1
        BY <3>1, <3>5, <4>1 DEF CountInv
      <4> QED
        BY <3>1, <3>5, <3>8, <4>1, <4>2, <4>3 DEF CountInv
    <3> QED
      BY <3>3, <3>4, <3>7, <3>9, <3>10
  <2>4. CASE PongLoad
    BY <2>4 DEF PongLoad, PingPongType, TokenInv, CountInv, TurnsAlternate, InPlay
  <2>5. CASE PongCount
    <3>1. /\ pongPc = "count" /\ pongPc' = "pass" /\ g_counter' = g_counter + 1
          /\ m_pongCount' = m_pongCount + 1
          /\ lines' = Append(lines, <<"Pong", m_pongCount + 1, g_counter + 1>>)
          /\ UNCHANGED <<forever, g_pingTurn, g_running, pingPc, m_pingCount, ppState>>
      BY <2>5 DEF PongCount
    <3>2. g_counter = Len(lines) /\ Len(lines) = m_pingCount + m_pongCount /\ ~ g_pingTurn
          /\ pingPc \notin {"count", "pass"} /\ InPlay
      BY <3>1 DEF CountInv, TokenInv
    <3>3. /\ lines' \in Seq({"Ping", "Pong"} \X Nat \X Nat) /\ Len(lines') = Len(lines) + 1
          /\ lines'[Len(lines) + 1] = <<"Pong", m_pongCount + 1, g_counter + 1>>
          /\ \A k \in 1 .. Len(lines) : lines'[k] = lines[k]
      <4>1. m_pongCount + 1 \in Nat /\ g_counter + 1 \in Nat
        BY <2>t, <3>2
      <4> QED
        BY <2>t, <3>1, <4>1, AppendLine, Zenon
    <3>4. PingPongType' /\ TokenInv'
      BY <2>t, <3>1, <3>2, <3>3 DEF PingPongType, TokenInv
    <3>5. CountInv'
      BY <1>k, <2>t, <3>1, <3>2, <3>3 DEF CountInv, InPlay
    <3>6. lines'[Len(lines) + 1] = ExpectedLine(Len(lines) + 1)
      <4>1. m_pingCount = m_pongCount + 1
        BY <3>1, <3>2 DEF CountInv
      <4>2. Len(lines) + 1 = (m_pongCount + m_pongCount) + 2
        BY <2>t, <3>2, <4>1
      <4> QED
        BY <2>t, <3>2, <3>3, <4>2, LineDue
    <3>7. TurnsAlternate'
      BY <2>t, <3>1, <3>2, <3>3, <3>6 DEF TurnsAlternate, TokenInv, CountInv
    <3> QED
      BY <3>4, <3>5, <3>7
  <2>6. CASE PongPass
    BY <2>6 DEF PongPass, PingPongType, TokenInv, CountInv, TurnsAlternate, InPlay
  <2>7. CASE CoreLeaves
    <3>1. ~ forever /\ ~ g_running /\ ~ InPlay
      BY <2>7 DEF CoreLeaves, Looping, TokenInv, CountInv
    <3>2. /\ pingPc' \in {pingPc, "out"} /\ pongPc' \in {pongPc, "out"} /\ ppState' = "SHUTDOWN"
          /\ UNCHANGED <<forever, g_counter, g_pingTurn, g_running, m_pingCount, m_pongCount, lines>>
      BY <2>7 DEF CoreLeaves
    <3>3. PingPongType' /\ TokenInv'
      BY <3>1, <3>2 DEF PingPongType, TokenInv
    <3>4. CountInv'
      BY <1>k, <2>t, <3>1, <3>2 DEF CountInv, InPlay
    <3>5. Len(lines) = 2 * kMaxRounds - 1
      BY <1>k, <2>t, <3>1 DEF CountInv
    <3>6. TurnsAlternate'
      BY <3>2, <3>5 DEF TurnsAlternate
    <3> QED
      BY <3>3, <3>4, <3>6
  <2>8. CASE PingTimePasses \/ UNCHANGED pingPongVars
    <3>1. UNCHANGED <<forever, g_counter, g_pingTurn, g_running, pingPc, pongPc, m_pingCount,
                      m_pongCount, ppState, lines>>
      BY <2>8 DEF PingTimePasses, pingPongVars
    <3>2. PingPongType' /\ TokenInv'
      BY <3>1 DEF PingPongType, TokenInv
    <3>3. CountInv' /\ TurnsAlternate'
      BY <3>1 DEF CountInv, TurnsAlternate, InPlay
    <3> QED
      BY <3>2, <3>3
  <2> QED
    BY <2>1, <2>2, <2>3, <2>4, <2>5, <2>6, <2>7, <2>8 DEF PingPongNext
<1> QED
  BY <1>1, <1>2, PTL DEF PingPongSpec

(* The lines alternate, each with the next count, and a run that ends on    *)
(* its own ends with the last Ping.                                         *)
THEOREM PingPongTurnsAlternate == PingPongSpec => []TurnsAlternate
<1>1. PingPongInv => TurnsAlternate
  BY DEF PingPongInv
<1> QED
  BY <1>1, PingPongInvariant, PTL

(* What a core ticks are tasks of the program.                              *)
TaskOfTick == \A c \in Cores : \A i \in DOMAIN example.tasks[c] : example.tasks[c][i] \in Task

-----------------------------------------------------------------------------
(* multirate: the reports are numbers at every place, and so are readings.  *)
LEMMA ReportNumbers ==
  /\ \A s \in Seq(Int) : Numbers(s, 0, Len(s))
  /\ \A n \in Nat : Numbers(Readings, 0, n)
<1>1. ASSUME NEW s \in Seq(Int) PROVE Numbers(s, 0, Len(s))
  BY DEF Numbers
<1>2. ASSUME NEW n \in Nat PROVE Numbers(Readings, 0, n)
  BY PeriodicAssumption DEF Numbers, Readings
<1> QED
  BY <1>1, <1>2

(* A report more adds its value.                                            *)
LEMMA ReportMore ==
  ASSUME NEW s \in Seq(Int), NEW x \in Int
  PROVE  SumBetween(Append(s, x), 0, Len(Append(s, x))) = SumBetween(s, 0, Len(s)) + x
<1> DEFINE t == Append(s, x)
<1>1. t \in Seq(Int) /\ Len(t) = Len(s) + 1 /\ t[Len(s) + 1] = x /\ Len(s) \in Nat
      /\ \A k \in 0 + 1 .. Len(s) : s[k] = t[k]
  OBVIOUS
<1> HIDE DEF t
<1>2. Numbers(t, 0, Len(s) + 1) /\ Numbers(s, 0, Len(s))
  BY <1>1, ReportNumbers
<1>3. SumBetween(t, 0, Len(s) + 1) = SumBetween(t, 0, Len(s)) + t[Len(s) + 1]
  <2> DEFINE n == Len(s)
  <2>1. n \in Int /\ 0 <= n /\ Numbers(t, 0, n + 1)
    BY <1>1, <1>2
  <2> HIDE DEF n
  <2>2. SumBetween(t, 0, n + 1) = SumBetween(t, 0, n) + t[n + 1]
    BY <2>1, SumNext
  <2> QED
    BY <2>2 DEF n
<1>4. SumBetween(s, 0, Len(s)) = SumBetween(t, 0, Len(s))
  BY <1>1, <1>2, SumSame
<1> QED
  BY <1>1, <1>3, <1>4 DEF t

(* A sample more adds its reading.                                          *)
LEMMA ReadingMore ==
  ASSUME NEW n \in Nat
  PROVE  /\ SumBetween(Readings, 0, n) \in Int
         /\ SumBetween(Readings, 0, n + 1) = SumBetween(Readings, 0, n) + (n % kReadings)
<1>1. Numbers(Readings, 0, n + 1)
  BY ReportNumbers
<1>2. SumBetween(Readings, 0, n) \in Int
      /\ SumBetween(Readings, 0, n + 1) = SumBetween(Readings, 0, n) + Readings[n + 1]
  BY <1>1, SumNext
<1>3. Readings[n + 1] = n % kReadings
  <2>1. (n + 1) - 1 = n /\ n + 1 \in Nat
    OBVIOUS
  <2> QED
    BY <2>1 DEF Readings
<1> QED
  BY <1>2, <1>3

(* Each task's tick keeps the balance.                                      *)
LEMMA TaskTickInv ==
  ASSUME ReportsInv, NEW t \in Task, TaskTick(t)
  PROVE  ReportsInv'
<1>0. "fast" \in Task /\ kReadings \in Nat \ {0} /\ m_count["fast"] \in Nat /\ m_count[t] \in Nat
  BY PeriodicAssumption DEF ReportsInv, Task
<1>s. SumBetween(reports, 0, Len(reports)) \in Int
  BY ReportNumbers, SumType DEF ReportsInv
<1>1. CASE CountTick(t) \/ MonitorTick(t)
  <2>1. /\ t # "fast" /\ m_count' = [m_count EXCEPT ![t] = @ + 1]
        /\ UNCHANGED <<m_accumulator, reports>>
    BY <1>1 DEF CountTick, MonitorTick, Passes
  <2>2. m_count' \in [Task -> Nat] /\ m_count'["fast"] = m_count["fast"]
    BY <1>0, <2>1 DEF ReportsInv
  <2> QED
    BY <2>1, <2>2 DEF ReportsInv, ReportsConserve
<1>2. CASE FastSampleTick(t)
  <2>1. /\ t = "fast" /\ m_count' = [m_count EXCEPT ![t] = @ + 1] /\ reports' = reports
        /\ m_accumulator' = m_accumulator + (m_count["fast"] % kReadings)
    BY <1>2 DEF FastSampleTick, Passes
  <2>2. m_count' \in [Task -> Nat] /\ m_count'["fast"] = m_count["fast"] + 1
    BY <1>0, <2>1 DEF ReportsInv
  <2>3. m_count["fast"] % kReadings \in Int
    BY <1>0
  <2>4. /\ SumBetween(Readings, 0, m_count["fast"]) \in Int
        /\ SumBetween(Readings, 0, m_count["fast"] + 1)
             = SumBetween(Readings, 0, m_count["fast"]) + (m_count["fast"] % kReadings)
    BY <1>0, ReadingMore
  <2> QED
    BY <1>s, <2>1, <2>2, <2>3, <2>4 DEF ReportsInv, ReportsConserve
<1>3. CASE SlowReportTick(t)
  <2>1. /\ t = "slow" /\ m_count' = [m_count EXCEPT ![t] = @ + 1]
        /\ reports' = Append(reports, m_accumulator) /\ m_accumulator' = 0
    BY <1>3 DEF SlowReportTick, Passes, drainAccumulator
  <2>2. m_count' \in [Task -> Nat] /\ m_count'["fast"] = m_count["fast"]
    BY <1>0, <2>1 DEF ReportsInv
  <2>3. reports' \in Seq(Int)
    BY <2>1 DEF ReportsInv
  <2>4. SumBetween(reports', 0, Len(reports')) = SumBetween(reports, 0, Len(reports)) + m_accumulator
    BY <2>1, ReportMore DEF ReportsInv
  <2> QED
    BY <1>s, <2>1, <2>2, <2>3, <2>4 DEF ReportsInv, ReportsConserve
<1>4. CASE EarlyTick(t)
  BY <1>4 DEF EarlyTick, taskVars, ReportsInv, ReportsConserve
<1> QED
  BY <1>1, <1>2, <1>3, <1>4 DEF TaskTick

(* multirate/include/tasks: whatever the two rates and their jitter, and    *)
(* however many samples fall between two reports, the reports and the       *)
(* accumulator add up to every reading taken.                               *)
THEOREM MultirateReportsConserve == PeriodicSpec => []ReportsConserve
<1>1. PeriodicInit => ReportsInv
  <2> SUFFICES ASSUME PeriodicInit PROVE ReportsInv
    OBVIOUS
  <2>1. m_count = [t \in Task |-> 0] /\ m_accumulator = 0 /\ reports = <<>> /\ "fast" \in Task
    BY PeriodicAssumption DEF PeriodicInit, Task
  <2>2. SumBetween(<<>>, 0, 0) = 0 /\ SumBetween(Readings, 0, 0) = 0
    BY SumEmpty
  <2> QED
    BY <2>1, <2>2 DEF ReportsInv, ReportsConserve
<1>2. ReportsInv /\ TaskOfTick /\ [PeriodicNext]_periodicVars => ReportsInv'
  <2> SUFFICES ASSUME ReportsInv, TaskOfTick, [PeriodicNext]_periodicVars PROVE ReportsInv'
    OBVIOUS
  <2>1. ASSUME NEW c \in Cores, TickTask(c) PROVE ReportsInv'
    <3>1. example.tasks[c][loop[c]] \in Task /\ TaskTick(example.tasks[c][loop[c]])
      BY <2>1 DEF TickTask, TaskOfTick
    <3> QED
      BY <3>1, TaskTickInv
  <2>2. CASE UNCHANGED taskVars
    BY <2>2 DEF taskVars, ReportsInv, ReportsConserve
  <2> QED
    BY <2>1, <2>2 DEF PeriodicNext, EvaluateStop, TickEnds, WallClock, periodicVars
<1>3. PeriodicSpec => []TaskOfTick
  <2>1. PeriodicInit => TaskOfTick
    BY PeriodicAssumption DEF PeriodicInit, TaskOfTick, HeartbeatMain, MultirateMain, LifecycleMain,
       Task, Cores
  <2>2. TaskOfTick /\ [PeriodicNext]_periodicVars => TaskOfTick'
    <3>1. [PeriodicNext]_periodicVars => example' = example
      BY DEF PeriodicNext, periodicVars, EvaluateStop, TickTask, TickEnds, WallClock
    <3> QED
      BY <3>1 DEF TaskOfTick, Cores
  <2> QED
    BY <2>1, <2>2, PTL DEF PeriodicSpec
<1>4. ReportsInv => ReportsConserve
  BY DEF ReportsInv
<1> QED
  BY <1>1, <1>2, <1>3, <1>4, PTL DEF PeriodicSpec

-----------------------------------------------------------------------------
(* TcpStreamServer: an index is at most once round the ring.                *)
LEMMA WrapLemma ==
  ASSUME NEW i \in Nat, i < 2 * kRxBufSize
  PROVE  Wrap(i) = (IF i < kRxBufSize THEN i ELSE i - kRxBufSize) /\ Wrap(i) \in 0 .. kRxBufSize - 1
<1>0. kRxBufSize \in Nat \ {0}
  BY TcpAssumption
<1>1. CASE i < kRxBufSize
  BY <1>0, <1>1 DEF Wrap
<1>2. CASE i >= kRxBufSize
  <2> DEFINE q == i \div kRxBufSize
             r == i % kRxBufSize
  <2>1. q \in Int /\ r \in 0 .. kRxBufSize - 1 /\ i = kRxBufSize * q + r
    BY <1>0
  <2> HIDE DEF q, r
  <2>2. q = 1
    <3>1. CASE q <= 0
      <4>1. kRxBufSize * q <= 0
        BY <1>0, <2>1, <3>1
      <4> QED
        BY <1>0, <1>2, <2>1, <4>1
    <3>2. CASE q >= 2
      <4>1. kRxBufSize * q >= kRxBufSize * 2
        <5>1. kRxBufSize * (q - 2) >= 0
          BY <1>0, <2>1, <3>2
        <5> QED
          BY <1>0, <2>1, <5>1
      <4> QED
        BY <1>0, <1>2, <2>1, <4>1
    <3> QED
      BY <2>1, <3>1, <3>2
  <2>3. r = i - kRxBufSize
    BY <1>0, <2>1, <2>2
  <2> QED
    BY <1>0, <1>2, <2>1, <2>3 DEF r, Wrap
<1> QED
  BY <1>0, <1>1, <1>2

(* The unread bytes are a sequence, each at its slot.                       *)
LEMMA RingType ==
  ASSUME NEW buf \in [0 .. kRxBufSize - 1 -> Nat], NEW head \in 0 .. kRxBufSize - 1,
         NEW len \in 0 .. kRxBufSize
  PROVE  /\ Ring(buf, head, len) \in Seq(Nat) /\ Len(Ring(buf, head, len)) = len
         /\ \A k \in 1 .. len : Ring(buf, head, len)[k] = buf[Wrap(head + k - 1)]
<1>0. kRxBufSize \in Nat \ {0} /\ len \in Nat
  BY TcpAssumption
<1>1. ASSUME NEW k \in 1 .. len PROVE buf[Wrap(head + k - 1)] \in Nat
  <2>1. head + k - 1 \in Nat /\ head + k - 1 < 2 * kRxBufSize
    BY <1>0
  <2>2. Wrap(head + k - 1) \in 0 .. kRxBufSize - 1
    BY <2>1, WrapLemma
  <2> QED
    BY <2>2
<1> QED
  BY <1>0, <1>1 DEF Ring

(* A byte written at the tail of a ring with room is appended to them.      *)
LEMMA RingPush ==
  ASSUME NEW buf \in [0 .. kRxBufSize - 1 -> Nat], NEW head \in 0 .. kRxBufSize - 1,
         NEW len \in 0 .. kRxBufSize - 1, NEW b \in Nat
  PROVE  /\ Wrap(head + len) \in 0 .. kRxBufSize - 1
         /\ Wrap(Wrap(head + len) + 1) = Wrap(head + (len + 1))
         /\ Ring([buf EXCEPT ![Wrap(head + len)] = b], head, len + 1)
              = Append(Ring(buf, head, len), b)
<1>0. kRxBufSize \in Nat \ {0} /\ len \in Nat /\ head \in Nat
  BY TcpAssumption
<1> DEFINE t == Wrap(head + len)
           new == [buf EXCEPT ![t] = b]
<1>1. t = (IF head + len < kRxBufSize THEN head + len ELSE head + len - kRxBufSize)
      /\ t \in 0 .. kRxBufSize - 1
  <2>1. head + len \in Nat /\ head + len < 2 * kRxBufSize
    BY <1>0
  <2> QED
    BY <1>0, <2>1, WrapLemma
<1> HIDE DEF t
<1>2. Wrap(t + 1) = Wrap(head + (len + 1))
  <2>1. /\ t + 1 \in Nat /\ t + 1 < 2 * kRxBufSize
        /\ head + (len + 1) \in Nat /\ head + (len + 1) < 2 * kRxBufSize
    BY <1>0, <1>1
  <2>2. Wrap(t + 1) = IF t + 1 < kRxBufSize THEN t + 1 ELSE t + 1 - kRxBufSize
    BY <1>0, <1>1, <2>1, WrapLemma
  <2>3. Wrap(head + (len + 1)) = IF head + (len + 1) < kRxBufSize THEN head + (len + 1)
                                 ELSE head + (len + 1) - kRxBufSize
    BY <1>0, <2>1, WrapLemma
  <2> QED
    BY <1>0, <1>1, <2>2, <2>3
<1>3. new \in [0 .. kRxBufSize - 1 -> Nat] /\ len + 1 \in 0 .. kRxBufSize /\ len \in 0 .. kRxBufSize
  BY <1>0, <1>1
<1>4. /\ Ring(buf, head, len) \in Seq(Nat) /\ Len(Ring(buf, head, len)) = len
      /\ \A k \in 1 .. len : Ring(buf, head, len)[k] = buf[Wrap(head + k - 1)]
  BY <1>3, RingType
<1>5. /\ Ring(new, head, len + 1) \in Seq(Nat) /\ Len(Ring(new, head, len + 1)) = len + 1
      /\ \A k \in 1 .. len + 1 : Ring(new, head, len + 1)[k] = new[Wrap(head + k - 1)]
  <2> HIDE DEF new
  <2> DEFINE m == len + 1
  <2>1. m \in 0 .. kRxBufSize
    BY <1>3
  <2> HIDE DEF m
  <2>2. /\ Ring(new, head, m) \in Seq(Nat) /\ Len(Ring(new, head, m)) = m
        /\ \A k \in 1 .. m : Ring(new, head, m)[k] = new[Wrap(head + k - 1)]
    BY <1>3, <2>1, RingType
  <2> QED
    BY <2>2 DEF m
<1>6. ASSUME NEW k \in 1 .. len PROVE new[Wrap(head + k - 1)] = buf[Wrap(head + k - 1)]
  <2>1. head + k - 1 \in Nat /\ head + k - 1 < 2 * kRxBufSize
    BY <1>0
  <2>2. /\ Wrap(head + k - 1) = (IF head + k - 1 < kRxBufSize THEN head + k - 1
                                 ELSE head + k - 1 - kRxBufSize)
        /\ Wrap(head + k - 1) \in 0 .. kRxBufSize - 1
    BY <1>0, <2>1, WrapLemma
  <2>3. Wrap(head + k - 1) # t
    BY <1>0, <1>1, <2>2
  <2> QED
    BY <2>2, <2>3
<1>7. new[Wrap(head + (len + 1) - 1)] = b
  <2>1. head + (len + 1) - 1 = head + len
    BY <1>0
  <2> QED
    BY <1>1, <2>1 DEF t
<1> HIDE DEF new
<1> DEFINE a == Append(Ring(buf, head, len), b)
           r == Ring(new, head, len + 1)
<1>8. /\ a \in Seq(Nat) /\ Len(a) = len + 1 /\ a[len + 1] = b
      /\ \A k \in 1 .. len : a[k] = Ring(buf, head, len)[k]
  BY <1>0, <1>4, AppendProperties
<1>9. ASSUME NEW k \in 1 .. len + 1 PROVE r[k] = a[k]
  <2> HIDE DEF a
  <2>1. CASE k = len + 1
    BY <1>0, <1>5, <1>7, <1>8, <2>1
  <2>2. CASE k # len + 1
    <3>1. k \in 1 .. len
      BY <1>0, <2>2
    <3> QED
      BY <1>4, <1>5, <1>6, <1>8, <3>1
  <2> QED
    BY <2>1, <2>2
<1> HIDE DEF a
<1>10. r = a
  BY <1>5, <1>8, <1>9, SeqEqual
<1> QED
  BY <1>1, <1>2, <1>10 DEF t, a, new

(* A reader that advances the head by n takes the first n of them.          *)
LEMMA RingPop ==
  ASSUME NEW buf \in [0 .. kRxBufSize - 1 -> Nat], NEW head \in 0 .. kRxBufSize - 1,
         NEW len \in 0 .. kRxBufSize, NEW n \in 0 .. len
  PROVE  /\ Wrap(head + n) \in 0 .. kRxBufSize - 1
         /\ Wrap(Wrap(head + n) + (len - n)) = Wrap(head + len)
         /\ SubSeq(Ring(buf, head, len), 1, n) \in Seq(Nat)
         /\ SubSeq(Ring(buf, head, len), 1, n) \o Ring(buf, Wrap(head + n), len - n)
              = Ring(buf, head, len)
<1>0. kRxBufSize \in Nat \ {0} /\ len \in Nat /\ head \in Nat /\ n \in Nat /\ len - n \in 0 .. kRxBufSize
  BY TcpAssumption
<1> DEFINE h == Wrap(head + n)
           d == len - n
           s == Ring(buf, head, len)
           r == Ring(buf, h, d)
<1>1. h = (IF head + n < kRxBufSize THEN head + n ELSE head + n - kRxBufSize)
      /\ h \in 0 .. kRxBufSize - 1
  <2>1. head + n \in Nat /\ head + n < 2 * kRxBufSize
    BY <1>0
  <2> QED
    BY <1>0, <2>1, WrapLemma
<1> HIDE DEF h
<1>2. Wrap(h + (len - n)) = Wrap(head + len)
  <2>1. /\ h + (len - n) \in Nat /\ h + (len - n) < 2 * kRxBufSize
        /\ head + len \in Nat /\ head + len < 2 * kRxBufSize
    BY <1>0, <1>1
  <2>2. Wrap(h + (len - n)) = IF h + (len - n) < kRxBufSize THEN h + (len - n)
                              ELSE h + (len - n) - kRxBufSize
    BY <1>0, <1>1, <2>1, WrapLemma
  <2>3. Wrap(head + len) = IF head + len < kRxBufSize THEN head + len ELSE head + len - kRxBufSize
    BY <1>0, <2>1, WrapLemma
  <2> QED
    BY <1>0, <1>1, <2>2, <2>3
<1>3. /\ s \in Seq(Nat) /\ Len(s) = len
      /\ \A k \in 1 .. len : s[k] = buf[Wrap(head + k - 1)]
  BY <1>0, RingType
<1>4. /\ r \in Seq(Nat) /\ Len(r) = d
      /\ \A k \in 1 .. d : r[k] = buf[Wrap(h + k - 1)]
  <2>1. d \in 0 .. kRxBufSize
    BY <1>0
  <2> HIDE DEF d
  <2> QED
    BY <1>1, <2>1, RingType
<1> HIDE DEF s, r
<1>5. ASSUME NEW k \in 1 .. d PROVE r[k] = s[n + k]
  <2>1. /\ h + k - 1 \in Nat /\ h + k - 1 < 2 * kRxBufSize /\ n + k \in 1 .. len
        /\ head + (n + k) - 1 \in Nat /\ head + (n + k) - 1 < 2 * kRxBufSize
    BY <1>0, <1>1
  <2>2. Wrap(h + k - 1) = IF h + k - 1 < kRxBufSize THEN h + k - 1 ELSE h + k - 1 - kRxBufSize
    BY <1>0, <1>1, <2>1, WrapLemma
  <2>3. Wrap(head + (n + k) - 1) = IF head + (n + k) - 1 < kRxBufSize THEN head + (n + k) - 1
                                   ELSE head + (n + k) - 1 - kRxBufSize
    BY <1>0, <2>1, WrapLemma
  <2>4. Wrap(h + k - 1) = Wrap(head + (n + k) - 1)
    BY <1>0, <1>1, <2>2, <2>3
  <2> QED
    BY <1>3, <1>4, <2>1, <2>4
<1> DEFINE p == SubSeq(s, 1, n)
<1>6. p \in Seq(Nat) /\ Len(p) = n /\ \A k \in 1 .. n : p[k] = s[k]
  <2>2. \A k \in 1 .. n : k \in 1 .. Len(s) /\ s[k] \in Nat
    BY <1>0, <1>3
  <2> QED
    BY <1>0, <2>2, SubSeqProperties
<1> HIDE DEF p
<1> DEFINE c == p \o r
<1>7. /\ c \in Seq(Nat) /\ Len(c) = Len(p) + Len(r)
      /\ \A i \in 1 .. Len(p) + Len(r) : c[i] = IF i <= Len(p) THEN p[i] ELSE r[i - Len(p)]
  BY <1>4, <1>6, ConcatProperties
<1> HIDE DEF c
<1>8. Len(c) = len
  BY <1>0, <1>4, <1>6, <1>7
<1>9. ASSUME NEW i \in 1 .. len PROVE c[i] = s[i]
  <2>1. i \in 1 .. Len(p) + Len(r)
    BY <1>0, <1>4, <1>6
  <2>2. CASE i <= n
    <3>1. i \in 1 .. n /\ i <= Len(p)
      BY <1>0, <1>6, <2>2
    <3> QED
      BY <1>6, <1>7, <2>1, <3>1
  <2>3. CASE i > n
    <3>1. i - n \in 1 .. d /\ n + (i - n) = i /\ ~(i <= Len(p))
      BY <1>0, <1>6, <2>3
    <3>2. c[i] = r[i - n]
      BY <1>6, <1>7, <2>1, <3>1
    <3>3. r[i - n] = s[n + (i - n)]
      BY <1>5, <3>1
    <3> QED
      BY <3>1, <3>2, <3>3
  <2> QED
    BY <1>0, <2>2, <2>3
<1>10. c = s
  BY <1>3, <1>7, <1>8, <1>9, SeqEqual
<1> QED
  BY <1>1, <1>2, <1>6, <1>10 DEF h, c, p, r, s

(* A larger byte behind increasing ones leaves them increasing.             *)
LEMMA AppendOrder ==
  ASSUME NEW s \in Seq(Nat), NEW b \in Nat, \A i \in DOMAIN s : s[i] < b,
         \A i, j \in DOMAIN s : i < j => s[i] < s[j]
  PROVE  LET a == Append(s, b) IN
           /\ \A i, j \in DOMAIN a : i < j => a[i] < a[j]
           /\ {a[i] : i \in DOMAIN a} = {s[i] : i \in DOMAIN s} \cup {b}
<1> DEFINE a == Append(s, b)
           n == Len(s)
<1>1. /\ n \in Nat /\ DOMAIN s = 1 .. n /\ DOMAIN a = 1 .. n + 1 /\ a[n + 1] = b
      /\ \A i \in 1 .. n : a[i] = s[i]
  BY AppendProperties
<1> HIDE DEF a, n
<1>2. \A i, j \in DOMAIN a : i < j => a[i] < a[j]
  <2> SUFFICES ASSUME NEW i \in 1 .. n + 1, NEW j \in 1 .. n + 1, i < j PROVE a[i] < a[j]
    BY <1>1
  <2>1. i \in 1 .. n
    BY <1>1
  <2>2. CASE j = n + 1
    BY <1>1, <2>1, <2>2
  <2>3. CASE j \in 1 .. n
    BY <1>1, <2>1, <2>3
  <2> QED
    BY <1>1, <2>2, <2>3
<1>3. {a[i] : i \in DOMAIN a} = {s[i] : i \in DOMAIN s} \cup {b}
  <2>1. DOMAIN a = (1 .. n) \cup {n + 1}
    BY <1>1
  <2> QED
    BY <1>1, <2>1
<1> QED
  BY <1>2, <1>3 DEF a

(* Where a byte is appended, and where sequences are cut, makes no          *)
(* difference.                                                              *)
LEMMA AppendBehind ==
  ASSUME NEW s \in Seq(Nat), NEW t \in Seq(Nat), NEW b \in Nat
  PROVE  s \o Append(t, b) = Append(s \o t, b)
<1>1. s \o t \in Seq(Nat)
  BY ConcatProperties
<1>2. <<b>> \in Seq(Nat)
  OBVIOUS
<1>3. Append(t, b) = t \o <<b>>
  BY AppendIsConcat
<1>4. Append(s \o t, b) = (s \o t) \o <<b>>
  BY <1>1, AppendIsConcat
<1>5. (s \o t) \o <<b>> = s \o (t \o <<b>>)
  BY <1>2, ConcatAssociative, SMTT(60)
<1> QED
  BY <1>3, <1>4, <1>5

LEMMA CutAnywhere ==
  ASSUME NEW s \in Seq(Nat), NEW t \in Seq(Nat), NEW u \in Seq(Nat)
  PROVE  (s \o t) \o u = s \o (t \o u) /\ s \o t \in Seq(Nat)
<1>1. (s \o t) \o u = s \o (t \o u)
  BY ConcatAssociative, SMTT(60)
<1>2. s \o t \in Seq(Nat)
  BY ConcatProperties
<1> QED
  BY <1>1, <1>2

(* A byte stored under the mutex is behind all others; one that finds the   *)
(* ring full is dropped.                                                    *)
LEMMA StoreInv ==
  ASSUME TcpInv, RxStoreByte
  PROVE  TcpInv'
<1>0. /\ kRxBufSize \in Nat \ {0} /\ RingInv /\ TmpInv /\ got \in Seq(Nat)
      /\ got' = got /\ m_rxHead' = m_rxHead /\ recvd' = recvd /\ rx' = rx /\ rx = "locked"
      /\ client' = client
  BY TcpAssumption DEF TcpInv, RxStoreByte
<1> DEFINE b == Head(tmp)
           m == recvd - Len(tmp)
<1>1. /\ tmp \in Seq(Nat) /\ Len(tmp) \in Nat \ {0} /\ recvd \in Nat /\ m \in Nat
      /\ b \in Nat /\ b = m + 1
      /\ tmp' \in Seq(Nat) /\ Len(tmp') = Len(tmp) - 1 /\ recvd' - Len(tmp') = m + 1
      /\ \A k \in 1 .. Len(tmp) - 1 : tmp'[k] = tmp[k + 1]
  <2>1. tmp \in Seq(Nat) /\ tmp # <<>> /\ tmp' = Tail(tmp) /\ recvd \in Nat /\ Len(tmp) <= recvd
    BY <1>0 DEF RxStoreByte, TmpInv
  <2>2. Len(tmp) \in Nat \ {0} /\ b = tmp[1] /\ 1 \in 1 .. Len(tmp)
    BY <2>1
  <2>3. tmp[1] = recvd - Len(tmp) + 1
    BY <1>0, <2>2 DEF TmpInv
  <2> QED
    BY <1>0, <2>1, <2>2, <2>3
<1>2. TmpInv'
  <2>1. ASSUME NEW k \in 1 .. Len(tmp') PROVE tmp'[k] = recvd' - Len(tmp') + k
    <3>0. Len(tmp) \in Nat /\ k \in 1 .. Len(tmp) - 1
      BY <1>1
    <3>1. k + 1 \in 1 .. Len(tmp)
      BY <3>0
    <3>2. tmp'[k] = tmp[k + 1] /\ tmp[k + 1] = recvd - Len(tmp) + (k + 1)
      BY <1>0, <1>1, <3>0, <3>1 DEF TmpInv
    <3> QED
      BY <1>0, <1>1, <3>0, <3>2
  <2> QED
    BY <1>0, <1>1, <2>1 DEF TmpInv
<1>3. 1 .. recvd' - Len(tmp') = (1 .. m) \cup {b} /\ b \notin 1 .. m
  <2>1. m \in Nat /\ b = m + 1 /\ recvd' - Len(tmp') = m + 1
    BY <1>1
  <2> HIDE DEF m, b
  <2> QED
    BY <2>1
<1>4. /\ \A i, j \in DOMAIN Stored : i < j => Stored[i] < Stored[j]
      /\ {Stored[i] : i \in DOMAIN Stored} = (1 .. m) \ dropped /\ dropped \subseteq 1 .. m
  BY DEF TcpInv, BytesInOrder
<1>5. Ring(m_rxBuf, m_rxHead, m_rxLen) \in Seq(Nat) /\ Stored \in Seq(Nat)
  <2>1. Ring(m_rxBuf, m_rxHead, m_rxLen) \in Seq(Nat)
    BY <1>0, RingType DEF RingInv
  <2> QED
    BY <1>0, <2>1, ConcatProperties DEF Stored, Unread
<1>6. \A i \in DOMAIN Stored : Stored[i] < b
  <2>1. \A i \in DOMAIN Stored : Stored[i] \in 1 .. m
    BY <1>4
  <2> HIDE DEF m
  <2> QED
    BY <1>1, <2>1
<1>7. CASE HasRoom(m_rxLen)
  <2>1. /\ m_rxBuf' = [m_rxBuf EXCEPT ![m_rxTail] = b] /\ m_rxTail' = Wrap(m_rxTail + 1)
        /\ m_rxLen' = m_rxLen + 1 /\ dropped' = dropped /\ m_rxLen < kRxBufSize
    BY <1>7 DEF RxStoreByte, HasRoom
  <2> HIDE DEF b, m
  <2>2. /\ m_rxBuf \in [0 .. kRxBufSize - 1 -> Nat] /\ m_rxHead \in 0 .. kRxBufSize - 1
        /\ m_rxLen \in 0 .. kRxBufSize - 1 /\ m_rxTail = Wrap(m_rxHead + m_rxLen)
    BY <1>0, <2>1 DEF RingInv
  <2>3. /\ m_rxTail \in 0 .. kRxBufSize - 1 /\ Wrap(m_rxTail + 1) = Wrap(m_rxHead + (m_rxLen + 1))
        /\ Ring([m_rxBuf EXCEPT ![m_rxTail] = b], m_rxHead, m_rxLen + 1)
             = Append(Ring(m_rxBuf, m_rxHead, m_rxLen), b)
    <3>1. b \in Nat
      BY <1>1
    <3> QED
      BY <2>2, <3>1, RingPush
  <2>4. RingInv'
    <3>1. m_rxBuf' \in [0 .. kRxBufSize - 1 -> Nat] /\ m_rxLen' \in 0 .. kRxBufSize
      <4>1. b \in Nat
        BY <1>1
      <4> QED
        BY <1>0, <2>1, <2>2, <2>3, <4>1
    <3>2. m_rxTail' = Wrap(m_rxHead' + m_rxLen')
      BY <1>0, <2>1, <2>3
    <3> QED
      BY <1>0, <2>2, <3>1, <3>2 DEF RingInv
  <2>5. Unread' = Append(Unread, b)
    BY <1>0, <2>1, <2>3 DEF Unread
  <2>6. Stored' = Append(Stored, b)
    <3> DEFINE u == Ring(m_rxBuf, m_rxHead, m_rxLen)
    <3>1. u \in Seq(Nat)
      BY <1>5
    <3> HIDE DEF u
    <3>2. got \o Append(u, b) = Append(got \o u, b)
      BY <1>0, <1>1, <3>1, AppendBehind
    <3> QED
      BY <1>0, <2>5, <3>2 DEF Stored, Unread, u
  <2>7. /\ \A i, j \in DOMAIN Stored' : i < j => Stored'[i] < Stored'[j]
        /\ {Stored'[i] : i \in DOMAIN Stored'} = {Stored[i] : i \in DOMAIN Stored} \cup {b}
    <3> DEFINE s == Stored
    <3>1. /\ s \in Seq(Nat) /\ \A i \in DOMAIN s : s[i] < b
          /\ \A i, j \in DOMAIN s : i < j => s[i] < s[j]
      BY <1>4, <1>5, <1>6
    <3>2. Stored' = Append(s, b)
      BY <2>6
    <3> HIDE DEF s
    <3>3. /\ \A i, j \in DOMAIN Append(s, b) : i < j => Append(s, b)[i] < Append(s, b)[j]
          /\ {Append(s, b)[i] : i \in DOMAIN Append(s, b)} = {s[i] : i \in DOMAIN s} \cup {b}
      BY <1>1, <3>1, AppendOrder
    <3> QED
      BY <3>2, <3>3 DEF s
  <2>8. BytesInOrder'
    <3>1. {Stored'[i] : i \in DOMAIN Stored'} = (1 .. recvd' - Len(tmp')) \ dropped'
      BY <1>3, <1>4, <2>1, <2>7
    <3> QED
      BY <2>7, <3>1 DEF BytesInOrder
  <2>9. (got \in Seq(Nat))' /\ (dropped \subseteq 1 .. recvd - Len(tmp))'
    BY <1>0, <1>3, <1>4, <2>1
  <2> QED
    BY <1>2, <2>4, <2>8, <2>9 DEF TcpInv
<1>8. CASE ~HasRoom(m_rxLen)
  <2>1. /\ m_rxBuf' = m_rxBuf /\ m_rxTail' = m_rxTail /\ m_rxLen' = m_rxLen
        /\ dropped' = dropped \cup {b}
    BY <1>8 DEF RxStoreByte
  <2>2. RingInv' /\ Stored' = Stored
    BY <1>0, <2>1 DEF RingInv, Stored, Unread
  <2>3. BytesInOrder'
    <3>1. (1 .. recvd' - Len(tmp')) \ dropped' = (1 .. m) \ dropped
      BY <1>3, <2>1
    <3> QED
      BY <1>4, <2>2, <3>1 DEF BytesInOrder
  <2>4. (got \in Seq(Nat))' /\ (dropped \subseteq 1 .. recvd - Len(tmp))'
    BY <1>0, <1>3, <1>4, <2>1
  <2> QED
    BY <1>2, <2>2, <2>3, <2>4 DEF TcpInv
<1> QED
  BY <1>7, <1>8

(* read() moves bytes from the front of the ring to what was read.          *)
LEMMA ReadInv ==
  ASSUME TcpInv, NEW max \in 1 .. kRxBufSize, Read(max)
  PROVE  TcpInv'
<1>0. /\ RingInv /\ TmpInv /\ got \in Seq(Nat) /\ m_rxBuf' = m_rxBuf /\ m_rxTail' = m_rxTail
      /\ recvd' = recvd /\ tmp' = tmp /\ rx' = rx /\ dropped' = dropped /\ client' = client
  BY DEF TcpInv, Read
<1> DEFINE n == IF max < m_rxLen THEN max ELSE m_rxLen
           u == Ring(m_rxBuf, m_rxHead, m_rxLen)
           p == SubSeq(u, 1, n)
           h == Wrap(m_rxHead + n)
           r == Ring(m_rxBuf, h, m_rxLen - n)
<1>1. /\ m_rxBuf \in [0 .. kRxBufSize - 1 -> Nat] /\ m_rxHead \in 0 .. kRxBufSize - 1
      /\ m_rxLen \in 0 .. kRxBufSize /\ m_rxTail = Wrap(m_rxHead + m_rxLen) /\ n \in 0 .. m_rxLen
      /\ kRxBufSize \in Nat
  BY <1>0, TcpAssumption DEF RingInv
<1>2. got' = got \o p /\ m_rxHead' = h /\ m_rxLen' = m_rxLen - n
  BY DEF Read, Unread
<1> HIDE DEF n
<1>3. /\ h \in 0 .. kRxBufSize - 1 /\ Wrap(h + (m_rxLen - n)) = Wrap(m_rxHead + m_rxLen)
      /\ p \in Seq(Nat) /\ p \o r = u
  BY <1>1, RingPop
<1>4. r \in Seq(Nat) /\ m_rxLen - n \in 0 .. kRxBufSize
  <2> DEFINE d == m_rxLen - n
  <2>1. d \in 0 .. kRxBufSize
    BY <1>1
  <2> HIDE DEF d, h
  <2>2. Ring(m_rxBuf, h, d) \in Seq(Nat)
    BY <1>1, <1>3, <2>1, RingType
  <2> QED
    BY <2>1, <2>2 DEF d
<1>5. RingInv'
  <2>1. m_rxTail' = Wrap(m_rxHead' + m_rxLen')
    BY <1>0, <1>1, <1>2, <1>3
  <2> HIDE DEF h
  <2> QED
    BY <1>0, <1>1, <1>2, <1>3, <1>4, <2>1 DEF RingInv
<1>6. Unread' = r /\ Unread = u
  BY <1>0, <1>2 DEF Unread
<1> HIDE DEF h, u, p, r
<1>7. Stored' = Stored /\ got' \in Seq(Nat)
  <2>1. (got \o p) \o r = got \o (p \o r) /\ got \o p \in Seq(Nat)
    BY <1>0, <1>3, <1>4, CutAnywhere
  <2>2. Stored' = (got \o p) \o r /\ Stored = got \o u
    BY <1>2, <1>6 DEF Stored
  <2> QED
    BY <1>2, <1>3, <2>1, <2>2
<1>8. TmpInv' /\ BytesInOrder' /\ (dropped \subseteq 1 .. recvd - Len(tmp))'
  BY <1>0, <1>7 DEF TcpInv, TmpInv, BytesInOrder
<1> QED
  BY <1>5, <1>7, <1>8 DEF TcpInv

(* What recv() returns are the next bytes of the peer.                      *)
LEMMA RecvInv ==
  ASSUME TcpInv, RecvBytes
  PROVE  TcpInv'
<1>0. /\ RingInv /\ TmpInv /\ UNCHANGED <<m_rxBuf, m_rxHead, m_rxTail, m_rxLen, client, got, dropped>>
      /\ rx = "recv" /\ rx' = "store"
  BY DEF TcpInv, RecvBytes, ringVars
<1>1. recvd \in Nat /\ tmp = <<>> /\ Len(tmp) = 0
  BY <1>0 DEF TmpInv
<1>2. PICK n \in 1 .. kTmpSize : tmp' = [k \in 1 .. n |-> recvd + k] /\ recvd' = recvd + n
  BY DEF RecvBytes
<1>3. n \in Nat
  BY <1>2, TcpAssumption
<1>4. /\ tmp' \in Seq(Nat) /\ Len(tmp') = n /\ recvd' \in Nat /\ recvd' - Len(tmp') = recvd
      /\ \A k \in 1 .. n : tmp'[k] = recvd + k
  BY <1>1, <1>2, <1>3
<1>5. TmpInv'
  BY <1>0, <1>1, <1>2, <1>3, <1>4 DEF TmpInv
<1>6. recvd - Len(tmp) = recvd /\ Stored' = Stored /\ RingInv'
  BY <1>0, <1>1 DEF Stored, Unread, RingInv
<1> QED
  BY <1>0, <1>4, <1>5, <1>6 DEF TcpInv, BytesInOrder

(* Every step of the two threads and of the peer preserves the invariant.   *)
LEMMA TcpNextInv == TcpInv /\ [TcpNext]_tcpVars => TcpInv'
<1> SUFFICES ASSUME TcpInv, [TcpNext]_tcpVars PROVE TcpInv'
  OBVIOUS
<1> DEFINE Kept == UNCHANGED <<m_rxBuf, m_rxHead, m_rxTail, m_rxLen, tmp, recvd, got, dropped>>
           Busy == {"store", "locked"}
<1>1. CASE RxStoreByte
  BY <1>1, StoreInv
<1>2. CASE \E max \in 1 .. kRxBufSize : Read(max)
  BY <1>2, ReadInv
<1>3. CASE RecvBytes
  BY <1>3, RecvInv
<1>4. ASSUME Kept, rx' \notin Busy => rx \notin Busy \/ tmp = <<>>, client' = "main" => rx' = "none"
      PROVE  TcpInv'
  <2>1. RingInv' /\ Stored' = Stored
    BY <1>4 DEF TcpInv, RingInv, Stored, Unread
  <2>2. BytesInOrder' /\ (got \in Seq(Nat))' /\ (dropped \subseteq 1 .. recvd - Len(tmp))'
    BY <1>4, <2>1 DEF TcpInv, BytesInOrder
  <2>3. TmpInv'
    BY <1>4 DEF TcpInv, TmpInv
  <2> QED
    BY <2>1, <2>2, <2>3 DEF TcpInv
<1>5. (client = "main" => rx = "none") /\ (rx \notin Busy => tmp = <<>>)
  BY DEF TcpInv, TmpInv
<1>6. CASE StartAccept
  BY <1>4, <1>5, <1>6 DEF StartAccept, ringVars
<1>7. CASE StartAcceptFails \/ PeerSends \/ PeerCloses \/ StopFlag \/ StopClose \/ StopJoin
  BY <1>4, <1>5, <1>7
     DEF StartAcceptFails, PeerSends, PeerCloses, StopFlag, StopClose, StopJoin, ringVars
<1>8. CASE RxLoop \/ RecvCall \/ RecvEnds \/ RxLock \/ RxUnlock
  BY <1>4, <1>5, <1>8 DEF RxLoop, RecvCall, RecvEnds, RxLock, RxUnlock, ringVars
<1>9. CASE UNCHANGED tcpVars
  BY <1>4, <1>5, <1>9 DEF tcpVars, ringVars
<1> QED
  BY <1>1, <1>2, <1>3, <1>6, <1>7, <1>8, <1>9 DEF TcpNext

(* TcpStreamServer: for any sizes of the ring and of the local buffer and   *)
(* any number of bytes, what the comms task has read and has yet to read is *)
(* what the peer sent, in order and each once, but for the bytes that found *)
(* the ring full.                                                           *)
THEOREM TcpBytesInOrder == TcpSpec => []BytesInOrder
<1>1. TcpInit => TcpInv
  <2> SUFFICES ASSUME TcpInit PROVE TcpInv
    OBVIOUS
  <2>1. kRxBufSize \in Nat \ {0} /\ Wrap(0 + 0) = 0
    BY TcpAssumption, WrapLemma
  <2>2. RingInv
    BY <2>1 DEF TcpInit, RingInv
  <2>3. TmpInv /\ got = <<>> /\ dropped = {} /\ recvd - Len(tmp) = 0
    <3>1. tmp = <<>> /\ tmp \in Seq(Nat) /\ Len(tmp) = 0 /\ recvd = 0 /\ rx = "none"
      BY DEF TcpInit
    <3>2. recvd - Len(tmp) = 0 /\ \A k \in 1 .. Len(tmp) : FALSE
      <4>1. Len(tmp) = 0 /\ recvd = 0
        BY <3>1
      <4> QED
        BY <4>1
    <3> QED
      BY <3>1, <3>2 DEF TcpInit, TmpInv
  <2>4. Stored = <<>>
    <3>1. Unread = <<>>
      BY DEF TcpInit, Unread, Ring
    <3> QED
      BY <2>3, <3>1 DEF Stored
  <2>5. BytesInOrder
    BY <2>3, <2>4 DEF BytesInOrder
  <2> QED
    <3>1. got \in Seq(Nat)
      BY <2>3
    <3> QED
      BY <2>2, <2>3, <2>5, <3>1 DEF TcpInv
<1>2. TcpInv => BytesInOrder
  BY DEF TcpInv
<1> QED
  BY <1>1, <1>2, TcpNextInv, PTL DEF TcpSpec
=============================================================================
