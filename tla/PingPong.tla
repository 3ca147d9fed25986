------------------------------ MODULE PingPong ------------------------------
(***************************************************************************)
(* exampleProjects/pingpong: PingTask on core 0 and PongTask on core 1 pass *)
(* a turn token through three atomics.  One step is one access to them.     *)
(***************************************************************************)
EXTENDS Integers, Sequences

CONSTANTS kMaxRounds, kPingIntervalUs,
          PingHorizon   \* bound on the time

ASSUME PingPongAssumption ==
    kMaxRounds \in Nat \ {0} /\ kPingIntervalUs \in Nat /\ PingHorizon \in Nat

VARIABLES
    forever,                          \* the --forever flag of main()
    g_counter, g_pingTurn, g_running, \* SharedCounter.h
    pingNow,
    pingPc, pongPc,                   \* where each core is in its loop
    m_lastPing, m_pingCount, m_pongCount,
    ppState,                          \* the kernel's state
    lines                             \* what the tasks logged

pingPongVars == <<forever, g_counter, g_pingTurn, g_running, pingNow, pingPc, pongPc,
                  m_lastPing, m_pingCount, m_pongCount, ppState, lines>>

PingPongInit ==
    /\ forever \in BOOLEAN
    /\ g_counter = 0 /\ g_pingTurn = TRUE /\ g_running = TRUE
    /\ pingNow = 0 /\ pingPc = "loop" /\ pongPc = "loop"
    /\ m_lastPing = 0 /\ m_pingCount = 0 /\ m_pongCount = 0
    /\ ppState = "RUNNING" /\ lines = <<>>

(* The loop's condition: main() registers the stop condition unless forever *)
Looping == ppState = "RUNNING" /\ (forever \/ g_running)

(* PingTask::tick(): the turn is loaded and the interval checked, the        *)
(* counter incremented and logged, the token passed on.                     *)
PingLoadPasses ==
    /\ pingPc = "loop" /\ Looping
    /\ g_pingTurn
    /\ pingNow - m_lastPing >= kPingIntervalUs
    /\ m_lastPing' = pingNow
    /\ g_pingTurn' = FALSE
    /\ pingPc' = "count"
    /\ UNCHANGED <<forever, g_counter, g_running, pingNow, pongPc,
                   m_pingCount, m_pongCount, ppState, lines>>

PingLoad ==
    /\ pingPc = "loop" /\ Looping
    /\ g_pingTurn
    /\ pingNow - m_lastPing >= kPingIntervalUs
    /\ m_lastPing' = pingNow
    /\ pingPc' = "count"
    /\ UNCHANGED <<forever, g_counter, g_pingTurn, g_running, pingNow, pongPc,
                   m_pingCount, m_pongCount, ppState, lines>>

PingCount ==
    /\ pingPc = "count"
    /\ g_counter' = g_counter + 1
    /\ m_pingCount' = m_pingCount + 1
    /\ lines' = Append(lines, <<"Ping", m_pingCount', g_counter'>>)
    /\ pingPc' = "pass"
    /\ UNCHANGED <<forever, g_pingTurn, g_running, pingNow, pongPc, m_lastPing,
                   m_pongCount, ppState>>

PingPass ==
    /\ pingPc = "pass"
    /\ IF m_pingCount >= kMaxRounds
       THEN g_running' = FALSE /\ UNCHANGED g_pingTurn
       ELSE g_pingTurn' = FALSE /\ UNCHANGED g_running
    /\ pingPc' = "loop"
    /\ UNCHANGED <<forever, g_counter, pingNow, pongPc, m_lastPing, m_pingCount,
                   m_pongCount, ppState, lines>>

(* PongTask::tick().                                                        *)
PongLoad ==
    /\ pongPc = "loop" /\ Looping
    /\ ~g_pingTurn
    /\ pongPc' = "count"
    /\ UNCHANGED <<forever, g_counter, g_pingTurn, g_running, pingNow, pingPc,
                   m_lastPing, m_pingCount, m_pongCount, ppState, lines>>

PongCount ==
    /\ pongPc = "count"
    /\ g_counter' = g_counter + 1
    /\ m_pongCount' = m_pongCount + 1
    /\ lines' = Append(lines, <<"Pong", m_pongCount', g_counter'>>)
    /\ pongPc' = "pass"
    /\ UNCHANGED <<forever, g_pingTurn, g_running, pingNow, pingPc, m_lastPing,
                   m_pingCount, ppState>>

PongPass ==
    /\ pongPc = "pass"
    /\ g_pingTurn' = TRUE
    /\ pongPc' = "loop"
    /\ UNCHANGED <<forever, g_counter, g_running, pingNow, pingPc, m_lastPing,
                   m_pingCount, m_pongCount, ppState, lines>>

(* A core that leaves the loop of run() shuts the kernel down.              *)
CoreLeaves ==
    /\ ~Looping
    /\ \/ pingPc = "loop" /\ pingPc' = "out" /\ UNCHANGED pongPc
       \/ pongPc = "loop" /\ pongPc' = "out" /\ UNCHANGED pingPc
    /\ ppState' = "SHUTDOWN"
    /\ UNCHANGED <<forever, g_counter, g_pingTurn, g_running, pingNow, m_lastPing,
                   m_pingCount, m_pongCount, lines>>

PingTimePasses ==
    /\ pingNow < PingHorizon /\ pingNow' = pingNow + 1
    /\ UNCHANGED <<forever, g_counter, g_pingTurn, g_running, pingPc, pongPc,
                   m_lastPing, m_pingCount, m_pongCount, ppState, lines>>

PingPongNext ==
    PingLoad \/ PingCount \/ PingPass \/ PongLoad \/ PongCount \/ PongPass
    \/ CoreLeaves \/ PingTimePasses

PingPongSpec == PingPongInit /\ [][PingPongNext]_pingPongVars
-----------------------------------------------------------------------------
(* The lines the two cores log are the README's: turns strictly alternate,   *)
(* each with the next value of the counter, and a run that ends on its own   *)
(* ends with Ping #kMaxRounds and no further Pong.  With --forever this      *)
(* holds up to that line; PingTask then keeps the token.                     *)
ExpectedLine(k) ==
    IF k % 2 = 1 THEN <<"Ping", (k + 1) \div 2, k>> ELSE <<"Pong", k \div 2, k>>

TurnsAlternate ==
    /\ \A k \in 1 .. Len(lines) : k < 2 * kMaxRounds => lines[k] = ExpectedLine(k)
    /\ pingPc = "out" /\ pongPc = "out" => Len(lines) = 2 * kMaxRounds - 1

(* What makes it inductive.  The match is on until PingTask has made its     *)
(* last count and acted on it.                                               *)
InPlay == m_pingCount < kMaxRounds \/ (m_pingCount = kMaxRounds /\ pingPc = "pass" /\ g_running)

PingPongType ==
    /\ forever \in BOOLEAN /\ g_pingTurn \in BOOLEAN /\ g_running \in BOOLEAN
    /\ pingPc \in {"loop", "count", "pass", "out"} /\ pongPc \in {"loop", "count", "pass", "out"}
    /\ m_pingCount \in Nat /\ m_pongCount \in Nat /\ ppState \in {"RUNNING", "SHUTDOWN"}
    /\ lines \in Seq({"Ping", "Pong"} \X Nat \X Nat)

(* Each core counts and passes only while it holds the turn, and a core that *)
(* was told to run on, or has no reason to stop, has not left its loop.      *)
TokenInv ==
    /\ pongPc \in {"count", "pass"} => ~g_pingTurn
    /\ pingPc \in {"count", "pass"} => g_pingTurn
    /\ forever \/ g_running => ppState = "RUNNING" /\ "out" \notin {pingPc, pongPc}

(* Who holds the turn tells how far each count is; after the match PingTask  *)
(* keeps the turn, and counts on only with --forever.                        *)
CountInv ==
    /\ g_counter = Len(lines) /\ Len(lines) = m_pingCount + m_pongCount
    /\ InPlay => /\ g_running
                 /\ m_pingCount = IF (g_pingTurn /\ pingPc # "pass") \/ pongPc = "pass"
                                  THEN m_pongCount ELSE m_pongCount + 1
    /\ ~InPlay => /\ ~g_running /\ g_pingTurn
                  /\ m_pongCount = kMaxRounds - 1
                  /\ ~forever => m_pingCount = kMaxRounds /\ pingPc \in {"loop", "out"}

PingPongInv == PingPongType /\ TokenInv /\ CountInv /\ TurnsAlternate
=============================================================================
