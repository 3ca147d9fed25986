----------------------------- MODULE CrunchLoop -----------------------------
(***************************************************************************)
(* exampleProjects/crunchloop: CrunchLoopApp, ticked by the control task of *)
(* core 0, publishes targets through an AtomicDoubleBuffer that             *)
(* SimulatedServoTask reads in the crunch loop of core 1 and answers with   *)
(* its encoder state through another.  The target buffer is the one of      *)
(* AtomicDoubleBuffer: its value number n is the target {angle, seqNum = n}.*)
(* The state buffer is written out below, as its two words hold different   *)
(* things: the iteration count and the time the crunch() call was given,    *)
(* which the number of the call stands for.                                 *)
(***************************************************************************)
EXTENDS AtomicDoubleBuffer

CONSTANTS kAngleSteps,    \* half degrees up to the wrap (360)
          MaxIterations   \* bound: crunch() calls

ASSUME CrunchLoopAssumption == kAngleSteps \in Nat /\ MaxIterations \in Nat

VARIABLES m_angle,           \* of the app, in half degrees
          m_iterationCount,  \* of the servo task
          calls,             \* crunch() calls begun, and the time the last one was given
          s_buffers, s_writeIndex, sNext,  \* stateBuf, and the write() in progress
          stopped,           \* the wall-clock stop condition has fired
          app, servo,        \* where the two cores' loops are
          mainAt, mIdx, summary  \* where main() is, and what it read of the state

stateVars == <<s_buffers, s_writeIndex, sNext>>
mainVars == <<mainAt, mIdx, summary>>
crunchVars == <<m_angle, m_iterationCount, calls, stateVars, stopped, app, servo, mainVars>>

CrunchInit ==
    /\ Init
    /\ m_angle = 0 /\ m_iterationCount = 0 /\ calls = 0
    /\ s_buffers = [s \in 0 .. 1 |-> <<0, 0>>] /\ s_writeIndex = 0 /\ sNext = 0
    /\ stopped = FALSE /\ app = "loop" /\ servo = "loop"
    /\ mainAt = "join" /\ mIdx = 0 /\ summary = <<0, 0>>

(* CrunchLoopApp::tick(): the next angle, then targetBuf.write().           *)
NextAngle(a) == IF a + 1 > kAngleSteps THEN 0 ELSE a + 1

AppTick ==
    /\ app = "loop" /\ ~stopped
    /\ WriteBegin
    /\ m_angle' = NextAngle(m_angle)
    /\ app' = "write"
    /\ UNCHANGED <<m_iterationCount, calls, stateVars, stopped, servo, mainVars>>

AppWrites ==
    /\ app = "write"
    /\ WriteWord1 \/ WriteWord2 \/ WritePublish
    /\ app' = IF wpc' = "idle" THEN "loop" ELSE "write"
    /\ UNCHANGED <<m_angle, m_iterationCount, calls, stateVars, stopped, servo, mainVars>>

(* crunch(): targetBuf.read() ...                                           *)
CrunchBegin ==
    /\ servo = "loop" /\ ~stopped /\ calls < MaxIterations
    /\ ReadLoad
    /\ calls' = calls + 1
    /\ servo' = "read"
    /\ UNCHANGED <<m_angle, m_iterationCount, stateVars, stopped, app, mainVars>>

CrunchReads ==
    /\ servo = "read"
    /\ ReadWord1 \/ ReadWord2
    /\ servo' = IF rpc' = "return" THEN "count" ELSE "read"
    /\ UNCHANGED <<m_angle, m_iterationCount, calls, stateVars, stopped, app, mainVars>>

(* ... the counter ...                                                      *)
CrunchCount ==
    /\ servo = "count" /\ servo' = "select"
    /\ ReadReturn
    /\ m_iterationCount' = m_iterationCount + 1
    /\ UNCHANGED <<m_angle, calls, stateVars, stopped, app, mainVars>>

(* ... and stateBuf.write({m_iterationCount, now}): the slot that is not    *)
(* published, its two words, and the index.                                 *)
ServoGoto(from, to) ==
    /\ servo = from /\ servo' = to
    /\ UNCHANGED <<vars, m_angle, m_iterationCount, calls, stopped, app, mainVars>>

StateSelect ==
    /\ ServoGoto("select", "word1")
    /\ sNext' = Inactive(s_writeIndex)
    /\ UNCHANGED <<s_buffers, s_writeIndex>>

StateWord1 ==
    /\ ServoGoto("word1", "word2")
    /\ s_buffers' = [s_buffers EXCEPT ![sNext] = <<m_iterationCount, @[2]>>]
    /\ UNCHANGED <<s_writeIndex, sNext>>

StateWord2 ==
    /\ ServoGoto("word2", "publish")
    /\ s_buffers' = [s_buffers EXCEPT ![sNext] = <<@[1], calls>>]
    /\ UNCHANGED <<s_writeIndex, sNext>>

StatePublish ==
    /\ ServoGoto("publish", "loop")
    /\ s_writeIndex' = sNext
    /\ UNCHANGED <<s_buffers, sNext>>

(* The stop condition; each core leaves at the head of its loop.            *)
CrunchStop ==
    /\ ~stopped /\ stopped' = TRUE
    /\ UNCHANGED <<vars, m_angle, m_iterationCount, calls, stateVars, app, servo, mainVars>>

CrunchLeave ==
    /\ stopped
    /\ \/ app = "loop" /\ app' = "out" /\ UNCHANGED servo
       \/ servo = "loop" /\ servo' = "out" /\ UNCHANGED app
    /\ UNCHANGED <<vars, m_angle, m_iterationCount, calls, stateVars, stopped, mainVars>>

(* main() on core 0, once run(0) has returned and core 1 is joined:         *)
(* stateBuf.read().                                                         *)
MainGoto(from, to) ==
    /\ mainAt = from /\ mainAt' = to
    /\ UNCHANGED <<vars, m_angle, m_iterationCount, calls, stateVars, stopped, app, servo>>

\* Mutant: core 1 is not joined.
SummaryUnjoined ==
    /\ app = "out"
    /\ MainGoto("join", "word1")
    /\ mIdx' = s_writeIndex
    /\ UNCHANGED summary
SummaryLoad ==
    /\ app = "out" /\ servo = "out"
    /\ MainGoto("join", "word1")
    /\ mIdx' = s_writeIndex
    /\ UNCHANGED summary

SummaryWord1 ==
    /\ MainGoto("word1", "word2")
    /\ summary' = <<s_buffers[mIdx][1], summary[2]>>
    /\ UNCHANGED mIdx

SummaryWord2 ==
    /\ MainGoto("word2", "done")
    /\ summary' = <<summary[1], s_buffers[mIdx][2]>>
    /\ UNCHANGED mIdx

CrunchNext ==
    AppTick \/ AppWrites \/ CrunchBegin \/ CrunchReads \/ CrunchCount
    \/ StateSelect \/ StateWord1 \/ StateWord2 \/ StatePublish
    \/ CrunchStop \/ CrunchLeave \/ SummaryLoad \/ SummaryWord1 \/ SummaryWord2

CrunchSpec == CrunchInit /\ [][CrunchNext]_<<vars, crunchVars>>
-----------------------------------------------------------------------------
(* What main() reads from the state buffer for its summary is the state of   *)
(* the last crunch() call, whole, and counts every call, whenever the two    *)
(* cores noticed the stop: the join orders the read after a write() that was *)
(* begun before it.  And the app's angle stays the one its sequence number   *)
(* stands for across the wrap.                                               *)
FinalEncoderCount ==
    /\ mainAt = "done" => summary = <<calls, calls>>
    /\ m_angle = written % (kAngleSteps + 1)

(* What makes it inductive: how far the write() of the state has come, and   *)
(* that the servo is out of its loop before main() reads.                    *)
StateInv ==
    /\ calls \in Nat
    /\ m_iterationCount = IF servo \in {"read", "count"} THEN calls - 1 ELSE calls
    /\ s_buffers \in [0 .. 1 -> Nat \X Nat] /\ s_writeIndex \in 0 .. 1 /\ sNext \in 0 .. 1
    /\ servo \in {"loop", "out"} => s_buffers[s_writeIndex] = <<calls, calls>>
    /\ servo \in {"word2", "publish"} => s_buffers[sNext][1] = calls
    /\ servo = "publish" => s_buffers[sNext][2] = calls

SummaryInv ==
    /\ summary \in Nat \X Nat
    /\ mainAt # "join" => servo = "out" /\ mIdx = s_writeIndex
    /\ mainAt \in {"word2", "done"} => summary[1] = calls
    /\ mainAt = "done" => summary[2] = calls

CrunchInv == written \in Nat /\ StateInv /\ SummaryInv /\ FinalEncoderCount
=============================================================================
