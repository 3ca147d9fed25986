----------------------------- MODULE CommsProofs -----------------------------
(***************************************************************************)
(* The command pipeline, for any sizes of its buffers and queue and any    *)
(* number of commands: every command is in one place at a time, on its way *)
(* from the stream to its answer.  And the COBS code its frames travel in, *)
(* for a message of any length: what is encoded is what is decoded.        *)
(***************************************************************************)
EXTENDS CommsPipeline, Cobs, InductionLemmas, SequenceTheorems, TLAPS

(* What a sequence that grows at its end holds, and that it stays without   *)
(* repetition.                                                              *)
LEMMA GrowLemma ==
  ASSUME NEW S, NEW s \in Seq(S), NEW e \in S
  PROVE  /\ ToSet(Append(s, e)) = ToSet(s) \cup {e}
         /\ IsInjective(s) /\ e \notin ToSet(s) => IsInjective(Append(s, e))
<1>1. /\ Append(s, e) \in Seq(S) /\ Len(Append(s, e)) = Len(s) + 1 /\ Len(s) \in Nat
      /\ \A i \in 1 .. Len(s) : Append(s, e)[i] = s[i]
      /\ Append(s, e)[Len(s) + 1] = e
      /\ DOMAIN s = 1 .. Len(s) /\ DOMAIN Append(s, e) = 1 .. Len(s) + 1
  BY AppendProperties
<1> DEFINE t == Append(s, e)
           n == Len(s)
<1>2. \A i \in 1 .. n + 1 : i \in 1 .. n \/ i = n + 1
  BY <1>1
<1>3. \A i \in 1 .. n : i \in 1 .. n + 1 /\ i # n + 1
  BY <1>1
<1>4. n + 1 \in 1 .. n + 1
  BY <1>1
<1> HIDE DEF t, n
<1>5. /\ \A i \in 1 .. n : t[i] = s[i]
      /\ t[n + 1] = e /\ DOMAIN s = 1 .. n /\ DOMAIN t = 1 .. n + 1
  BY <1>1 DEF t, n
<1>6. ToSet(t) = ToSet(s) \cup {e}
  BY <1>2, <1>3, <1>4, <1>5 DEF ToSet
<1>7. ASSUME IsInjective(s), e \notin ToSet(s) PROVE IsInjective(t)
  <2>1. \A i \in 1 .. n : t[i] # e
    BY <1>5, <1>7 DEF ToSet
  <2> QED
    BY <1>2, <1>3, <1>5, <1>7, <2>1 DEF IsInjective
<1> QED
  BY <1>6, <1>7 DEF t

(* try_push() adds to what is executed or queued at its end; try_pop() and  *)
(* handleCommand() move a command and leave the two as they were.           *)
LEMMA MoveLemma ==
  ASSUME NEW S, NEW h \in Seq(S), NEW q \in Seq(S), NEW e \in S
  PROVE  /\ h \o q \in Seq(S)
         /\ h \o Append(q, e) = Append(h \o q, e)
         /\ q # <<>> => /\ Append(h, Head(q)) \o Tail(q) = h \o q
                        /\ Head(q) \in S /\ Tail(q) \in Seq(S) /\ Len(Tail(q)) = Len(q) - 1
<1>1. h \o q \in Seq(S)
  BY ConcatProperties
<1>2. h \o Append(q, e) = Append(h \o q, e)
  <2>1. Append(q, e) = q \o <<e>> /\ Append(h \o q, e) = (h \o q) \o <<e>> /\ <<e>> \in Seq(S)
    BY <1>1, AppendIsConcat
  <2> QED
    BY <2>1, ConcatAssociative
<1>3. ASSUME q # <<>>
      PROVE  /\ Append(h, Head(q)) \o Tail(q) = h \o q
             /\ Head(q) \in S /\ Tail(q) \in Seq(S) /\ Len(Tail(q)) = Len(q) - 1
  <2>1. Head(q) \in S /\ Tail(q) \in Seq(S) /\ Len(Tail(q)) = Len(q) - 1
    BY <1>3, HeadTailProperties
  <2>2. <<Head(q)>> \in Seq(S) /\ Append(h, Head(q)) = h \o <<Head(q)>>
    BY <2>1, AppendIsConcat
  <2>3. <<Head(q)>> \o Tail(q) = q
    BY <1>3, HeadTailProperties
  <2>4. (h \o <<Head(q)>>) \o Tail(q) = h \o (<<Head(q)>> \o Tail(q))
    BY <2>1, <2>2, ConcatAssociative
  <2> QED
    BY <2>1, <2>2, <2>3, <2>4
<1> QED
  BY <1>1, <1>2, <1>3
(* The pieces the host sends: what is numbered has the next number, and     *)
(* what can become a command is numbered.                                   *)
LEMMA HostLemma ==
  ASSUME sent \in Serial, NEW p \in HostPieces, p.n \in Serial
  PROVE  /\ p \in Pieces /\ p.n \in {0, sent + 1}
         /\ p.kind = "line" /\ p.good => p.n # 0
         /\ p.kind = "COMMAND" => p.n # 0
         /\ p.kind = "nul" \/ p.kind = "nl" => p.n = 0
<1>1. MaxCommands \in Nat
  BY CommsAssumption
<1>2. \/ \E k \in {"nul", "nl", "junk", "HANDSHAKE_REQ", "EXIT_HANDSHAKE", "REQUEST"} :
           p = [kind |-> k, good |-> TRUE, n |-> 0]
      \/ \E k \in {"line", "HANDSHAKE_REQ"} : p = [kind |-> k, good |-> FALSE, n |-> 0]
      \/ \E k \in {"line", "COMMAND"} : p = [kind |-> k, good |-> TRUE, n |-> sent + 1]
      \/ p = [kind |-> "COMMAND", good |-> FALSE, n |-> sent + 1]
  BY DEF HostPieces, Plain, FrameTypes
<1>3. 0 \in Serial /\ sent + 1 # 0
  BY <1>1 DEF Serial
<1>4. CASE \E k \in {"nul", "nl", "junk", "HANDSHAKE_REQ", "EXIT_HANDSHAKE", "REQUEST"} :
             p = [kind |-> k, good |-> TRUE, n |-> 0]
  BY <1>3, <1>4 DEF Pieces, FrameTypes
<1>5. CASE \E k \in {"line", "HANDSHAKE_REQ"} : p = [kind |-> k, good |-> FALSE, n |-> 0]
  BY <1>3, <1>5 DEF Pieces, FrameTypes
<1>6. CASE \E k \in {"line", "COMMAND"} : p = [kind |-> k, good |-> TRUE, n |-> sent + 1]
  BY <1>3, <1>6 DEF Pieces, FrameTypes
<1>7. CASE p = [kind |-> "COMMAND", good |-> FALSE, n |-> sent + 1]
  BY <1>3, <1>7 DEF Pieces, FrameTypes
<1> QED
  BY <1>2, <1>4, <1>5, <1>6, <1>7

(* A buffer that is emptied or gets a piece: nothing in it has a number     *)
(* but a single piece with that number.                                     *)
LEMMA BufLemma ==
  ASSUME NEW size \in Nat, NEW buf \in Buffers(size), NEW p \in Pieces, buf.len < size
  PROVE  /\ Put(buf, p) \in Buffers(size)
         /\ Put(buf, p).body = p \/ Put(buf, p).body = Plain("junk")
<1>1. Plain("junk") \in Pieces
  BY CommsAssumption DEF Plain, Pieces, Serial, FrameTypes
<1> QED
  BY <1>1 DEF Put, Buffers

(* What reset() leaves in a buffer, and junk, carry no number.              *)
LEMMA EmptyLemma ==
  /\ \A size \in Nat : Empty \in Buffers(size)
  /\ Empty.len = 0 /\ Empty.body.n = 0 /\ Empty.body.kind = "junk"
  /\ Plain("junk") \in Pieces /\ Plain("junk").n = 0 /\ Plain("junk").kind = "junk"
BY CommsAssumption DEF Empty, Buffers, Plain, Pieces, Serial, FrameTypes
-----------------------------------------------------------------------------
(* The places of a command one by one: its line l, its frame c, the slot p  *)
(* of the parser, the slot f of the router, the copy t of the task.         *)
Flow(l, c, p, f, t, F, A, K, s, framed) ==
  /\ {l, c, p, f, t} \subseteq 0 .. s
  /\ l # 0 => l \notin {c, p, f, t}
  /\ c # 0 => c \notin {p, f, t}
  /\ p # 0 => p \notin {f, t}
  /\ f # 0 => f # t
  /\ l \notin F /\ c \notin F /\ p \notin F /\ f \notin F
  /\ l \notin A /\ c \notin A /\ p \notin A /\ f \notin A
  /\ l \notin K /\ c \notin K /\ f \notin K /\ t \notin K
  /\ p \in K => framed
  /\ F \subseteq 1 .. s /\ A \subseteq 1 .. s /\ K \subseteq 1 .. s

FlowNow == Flow(m_line.body.n, m_cobs.body.n, Slot, Routed, cmd,
                Fates, Answered, Lost, sent, m_mode = "FRAMED")

(* The same as HeldInv, place by place.                                     *)
LEMMA FlowLemma == TypeOK => (HeldInv <=> FlowNow)
<1> SUFFICES ASSUME TypeOK PROVE HeldInv <=> FlowNow
  OBVIOUS
<1> DEFINE l == m_line.body.n
           c == m_cobs.body.n
           FA == Fates \cup Answered
<1>1. l \in Nat /\ c \in Nat /\ Slot \in Nat /\ Routed \in Nat /\ cmd \in Nat /\ sent \in Nat
  BY CommsAssumption DEF TypeOK, Buffers, Pieces, Serial, Slot, Routed
<1>2. Held = <<l, c, Slot, Routed, cmd>>
  BY DEF Held
<1> HIDE DEF l, c
<1>3. Held[1] = l /\ Held[2] = c /\ Held[3] = Slot /\ Held[4] = Routed /\ Held[5] = cmd
  BY <1>2
<1>4. /\ \A i \in 1 .. 5 : i = 1 \/ i = 2 \/ i = 3 \/ i = 4 \/ i = 5
      /\ \A i \in 1 .. 4 : i = 1 \/ i = 2 \/ i = 3 \/ i = 4
      /\ {1, 2, 3, 4, 5} \subseteq 1 .. 5 /\ {1, 2, 3, 4} \subseteq 1 .. 4
  OBVIOUS
<1>5. ASSUME HeldInv PROVE FlowNow
  <2>1. Fates \subseteq 1 .. sent /\ Answered \subseteq 1 .. sent /\ Lost \subseteq 1 .. sent
    BY <1>5 DEF HeldInv
  <2>2. {l, c, Slot, Routed, cmd} \subseteq 0 .. sent
    BY <1>1, <1>3, <1>4, <1>5 DEF HeldInv
  <2>3. /\ l # 0 => l \notin {c, Slot, Routed, cmd}
        /\ c # 0 => c \notin {Slot, Routed, cmd}
        /\ Slot # 0 => Slot \notin {Routed, cmd}
        /\ Routed # 0 => Routed # cmd
    BY <1>3, <1>4, <1>5 DEF HeldInv
  <2>4. {l, c, Slot, Routed} \cap (Fates \cup Answered) = {}
    BY <1>3, <1>4, <1>5 DEF HeldInv
  <2>5. /\ {l, c, Routed, cmd} \cap Lost = {}
        /\ Slot \in Lost => m_mode = "FRAMED"
    BY <1>3, <1>4, <1>5 DEF HeldInv
  <2> QED
    BY <2>1, <2>2, <2>3, <2>4, <2>5 DEF FlowNow, Flow, l, c
<1>6. ASSUME FlowNow PROVE HeldInv
  <2>1. Flow(l, c, Slot, Routed, cmd, Fates, Answered, Lost, sent, m_mode = "FRAMED")
    BY <1>6 DEF FlowNow, l, c
  <2>2. \A i \in 1 .. 5 : Held[i] <= sent
    BY <1>1, <1>3, <1>4, <2>1 DEF Flow
  <2>3. \A i, j \in 1 .. 5 : Held[i] = Held[j] => i = j \/ Held[i] = 0
    BY <1>3, <1>4, <2>1 DEF Flow
  <2>4. \A i \in 1 .. 4 : Held[i] \notin Fates \cup Answered
    BY <1>3, <1>4, <2>1 DEF Flow
  <2>5. \A i \in 1 .. 5 : Held[i] \in Lost => i = 3 /\ m_mode = "FRAMED"
    BY <1>3, <1>4, <2>1 DEF Flow
  <2>6. Fates \cup Answered \cup Lost \subseteq 1 .. sent
    BY <2>1 DEF Flow
  <2> QED
    BY <2>2, <2>3, <2>4, <2>5, <2>6 DEF HeldInv
<1> QED
  BY <1>5, <1>6

(* How a command may move.  A piece arrives in an empty place or empties    *)
(* it, with a new number or none ...                                        *)
LEMMA Arrives ==
  ASSUME NEW s \in Nat, NEW s2, NEW n, (n = 0 /\ s2 = s) \/ (n = s + 1 /\ s2 = s + 1),
         NEW l, NEW c, NEW p, NEW f, NEW t, NEW F, NEW A, NEW K, NEW framed,
         Flow(l, c, p, f, t, F, A, K, s, framed)
  PROVE  /\ Flow(l, c, p, f, t, F, A, K, s2, framed)
         /\ Flow(n, c, p, f, t, F, A, K, s2, framed)
         /\ Flow(l, n, p, f, t, F, A, K, s2, framed)
         /\ Flow(0, c, p, f, t, F, A, K, s2, framed)
         /\ Flow(l, 0, p, f, t, F, A, K, s2, framed)
<1>1. s2 \in Nat /\ 0 .. s \subseteq 0 .. s2 /\ 1 .. s \subseteq 1 .. s2 /\ n \in 0 .. s2
  OBVIOUS
<1>2. n # 0 => n \notin 0 .. s /\ n \notin 1 .. s
  OBVIOUS
<1>3. 0 \notin 1 .. s /\ 0 \in 0 .. s2
  BY <1>1
<1> QED
  BY <1>1, <1>2, <1>3 DEF Flow

(* ... a line becomes the parser's command, a frame the router's ...        *)
LEMMA Parsed ==
  ASSUME NEW s \in Nat,
         NEW l, NEW c, NEW p, NEW f, NEW t, NEW F, NEW A, NEW K, NEW framed,
         Flow(l, c, p, f, t, F, A, K, s, framed)
  PROVE  /\ Flow(0, c, l, f, t, F, A, K, s, framed)
         /\ Flow(l, 0, p, c, t, F, A, K, s, framed)
<1>1. 0 \notin 1 .. s /\ 0 \in 0 .. s
  OBVIOUS
<1> QED
  BY <1>1 DEF Flow

(* ... the task takes a command out of the slot of the mode, pushes it, and *)
(* answers for it.                                                          *)
LEMMA Taken ==
  ASSUME NEW s \in Nat, NEW l, NEW c, NEW p, NEW f, NEW F, NEW A, NEW K, NEW framed,
         Flow(l, c, p, f, 0, F, A, K, s, framed)
  PROVE  /\ ~framed => Flow(l, c, 0, f, p, F, A, K, s, framed)
         /\ Flow(l, c, p, 0, f, F, A, K, s, framed)
<1>1. 0 \notin 1 .. s /\ 0 \in 0 .. s
  OBVIOUS
<1> QED
  BY <1>1 DEF Flow

(* What is pushed was in no other place.                                    *)
LEMMA Pushed ==
  ASSUME NEW s \in Nat, NEW l, NEW c, NEW p, NEW f, NEW t, NEW F, NEW A, NEW K, NEW framed,
         Flow(l, c, p, f, t, F, A, K, s, framed), t # 0
  PROVE  Flow(l, c, p, f, t, F \cup {t}, A, K, s, framed)
<1>1. t \in 0 .. s
  BY DEF Flow
<1>2. t \in 1 .. s
  BY <1>1
<1>3. t \notin {l, c, p, f}
  BY DEF Flow
<1> QED
  BY <1>2, <1>3 DEF Flow

(* What is answered leaves its last place.                                  *)
LEMMA Told ==
  ASSUME NEW s \in Nat, NEW l, NEW c, NEW p, NEW f, NEW t, NEW F, NEW A, NEW K, NEW framed,
         Flow(l, c, p, f, t, F, A, K, s, framed), t # 0
  PROVE  Flow(l, c, p, f, 0, F, A \cup {t}, K, s, framed)
<1>1. t \in 0 .. s
  BY DEF Flow
<1>2. t \in 1 .. s /\ 0 \notin 1 .. s /\ 0 \in 0 .. s
  BY <1>1
<1>3. t \notin {l, c, p, f}
  BY DEF Flow
<1> QED
  BY <1>2, <1>3 DEF Flow
-----------------------------------------------------------------------------
(* One byte of a batch: what every branch of the two loops does to the      *)
(* batch and to the numbers of the host.                                    *)
LEMMA PieceLemma ==
  ASSUME TypeOK, NEW p \in HostPieces, NextPiece(p)
  PROVE  /\ left' \in 0 .. kReadBufSize /\ sent' \in Serial
         /\ p \in Pieces /\ AsText(p) \in Pieces /\ AsFrame(p) \in Pieces /\ AsProbe(p) \in Pieces
         /\ \A sep, command : Track(p, sep, command) => clean' \in BOOLEAN /\ candidate' \in Serial
         /\ \A isClean \in BOOLEAN : Untracked(isClean) => clean' \in BOOLEAN /\ candidate' \in Serial
<1>1. p \in Pieces /\ p.n \in Serial /\ sent \in Serial /\ left \in 0 .. kReadBufSize /\ 0 \in Serial
  <2>1. sent \in Serial /\ left \in 0 .. kReadBufSize /\ p.n \in Serial
    BY DEF TypeOK, NextPiece
  <2>2. p \in Pieces
    BY <2>1, HostLemma
  <2>3. 0 \in Serial
    BY CommsAssumption DEF Serial
  <2> QED
    BY <2>1, <2>2, <2>3
<1>2. left' \in 0 .. kReadBufSize
  BY <1>1, CommsAssumption DEF NextPiece
<1>3. sent' \in Serial
  BY <1>1 DEF NextPiece
<1>4. AsText(p) \in Pieces /\ AsFrame(p) \in Pieces /\ AsProbe(p) \in Pieces
  BY <1>1, EmptyLemma DEF AsText, AsFrame, AsProbe
<1>5. \A sep, command : Track(p, sep, command) => clean' \in BOOLEAN /\ candidate' \in Serial
  BY <1>1 DEF Track
<1>6. \A isClean \in BOOLEAN : Untracked(isClean) => clean' \in BOOLEAN /\ candidate' \in Serial
  BY <1>1 DEF Untracked
<1> QED
  BY <1>1, <1>2, <1>3, <1>4, <1>5, <1>6

(* The buffers and slots stay of their type in every step of the task.      *)
LEMMA TypeStep ==
  ASSUME TypeOK, [Next]_vars
  PROVE  TypeOK'
<1>0. /\ kMaxProbeSize \in Nat /\ kMaxLineLen - 1 \in Nat /\ kMaxCobsSize \in Nat
      /\ kReadBufSize \in Nat /\ MaxCommands \in Nat /\ 0 \in Serial
  BY CommsAssumption DEF Serial
<1>1. CASE CommsInit
  <2>1. booting' \in BOOLEAN /\ left' \in 0 .. kReadBufSize /\ loop' = m_mode /\ cpc' = "bytes"
    BY <1>0, <1>1 DEF CommsInit, CliTick
  <2>2. UNCHANGED <<cliVars, cmd, queue, controlVars, sent, ghostVars>>
    BY <1>1 DEF CommsInit, CliTick
  <2> QED
    BY <2>1, <2>2 DEF TypeOK, cliVars, parserVars, probeVars, framedVars,
       controlVars, ghostVars, trackVars
<1>2. CASE CommsTick
  <2>0. booting' \in BOOLEAN
    BY <1>2, Zenon DEF CommsTick
  <2>1. booting' \in BOOLEAN /\ left' \in 0 .. kReadBufSize /\ loop' = m_mode /\ cpc' = "bytes"
    BY <1>0, <1>2, <2>0 DEF CommsTick, CliTick
  <2>2. UNCHANGED <<cliVars, cmd, queue, controlVars, sent, ghostVars>>
    BY <1>2 DEF CommsTick, CliTick
  <2> QED
    BY <2>1, <2>2 DEF TypeOK, cliVars, parserVars, probeVars, framedVars,
       controlVars, ghostVars, trackVars
<1>3. ASSUME NEW p \in HostPieces, TextHandshake(p) PROVE TypeOK'
  <2>1. NextPiece(p) /\ Untracked(TRUE) /\ CutOff /\ EnterFramedMode
    BY <1>3 DEF TextHandshake
  <2>2. left' \in 0 .. kReadBufSize /\ sent' \in Serial /\ clean' \in BOOLEAN /\ candidate' \in Serial
    BY <2>1, PieceLemma
  <2>3. cut' \subseteq Serial /\ newest' \in Serial /\ late' \subseteq Serial
    BY <1>0, <2>1 DEF CutOff, Waiting, TypeOK
  <2> QED
    BY <1>0, <1>3, <2>2, <2>3, EmptyLemma DEF TypeOK, TextHandshake, NextPiece, EnterFramedMode,
       parserVars, probeVars, framedVars, controlVars
<1>4. ASSUME NEW p \in HostPieces, TextProbeStart(p) PROVE TypeOK'
  <2>1. NextPiece(p) /\ Untracked(FALSE)
    BY <1>4 DEF TextProbeStart
  <2>2. left' \in 0 .. kReadBufSize /\ sent' \in Serial /\ clean' \in BOOLEAN /\ candidate' \in Serial
    BY <2>1, PieceLemma
  <2> QED
    BY <1>0, <1>4, <2>2, EmptyLemma DEF TypeOK, TextProbeStart, NextPiece,
       parserVars, probeVars, framedVars, controlVars
<1>5. ASSUME NEW p \in HostPieces, TextProbeByte(p) PROVE TypeOK'
  <2>1. NextPiece(p) /\ Untracked(FALSE)
    BY <1>5 DEF TextProbeByte
  <2>2. left' \in 0 .. kReadBufSize /\ sent' \in Serial /\ clean' \in BOOLEAN /\ candidate' \in Serial
    BY <2>1, PieceLemma
  <2>3. m_probeBuf' \in Buffers(kMaxProbeSize)
    BY <1>0, <1>5, <2>1, PieceLemma, BufLemma DEF TypeOK, TextProbeByte
  <2> QED
    BY <1>0, <1>5, <2>2, <2>3 DEF TypeOK, TextProbeByte, NextPiece,
       parserVars, probeVars, framedVars, controlVars
<1>6. ASSUME NEW p \in HostPieces, TextByte(p) PROVE TypeOK'
  <2>1. NextPiece(p) /\ Track(p, "nl", "line") /\ ParserFeed(AsText(p))
    BY <1>6 DEF TextByte
  <2>2. left' \in 0 .. kReadBufSize /\ sent' \in Serial /\ clean' \in BOOLEAN /\ candidate' \in Serial
    BY <2>1, PieceLemma
  <2>3. m_line \in Buffers(kMaxLineLen - 1) /\ m_line.body.n \in Serial
    BY <1>0 DEF TypeOK, Buffers, Pieces
  <2>4. /\ m_line' \in Buffers(kMaxLineLen - 1) /\ m_pending' \in Serial /\ m_parserHas' \in BOOLEAN
        /\ m_hasPending' \in BOOLEAN /\ newest' \in Serial
    <3>1. m_line.len < kMaxLineLen - 1 \/ m_line.len >= kMaxLineLen - 1
      BY <1>0, <2>3 DEF Buffers
    <3>2. m_line.len < kMaxLineLen - 1 => Put(m_line, AsText(p)) \in Buffers(kMaxLineLen - 1)
      BY <1>0, <2>1, <2>3, PieceLemma, BufLemma
    <3>3. Empty \in Buffers(kMaxLineLen - 1)
      BY <1>0, EmptyLemma
    <3>4. m_pending \in Serial /\ m_parserHas \in BOOLEAN /\ m_hasPending \in BOOLEAN /\ newest \in Serial
      BY DEF TypeOK
    <3> QED
      BY <2>1, <2>3, <3>1, <3>2, <3>3, <3>4 DEF ParserFeed
  <2> QED
    BY <1>0, <1>6, <2>2, <2>4, EmptyLemma DEF TypeOK, TextByte, NextPiece,
       framedVars, controlVars
<1>7. ASSUME NEW p \in HostPieces, FramedByte(p) PROVE TypeOK'
  <2>1. NextPiece(p) /\ Track(p, "nul", "COMMAND")
    BY <1>7 DEF FramedByte
  <2>2. left' \in 0 .. kReadBufSize /\ sent' \in Serial /\ clean' \in BOOLEAN /\ candidate' \in Serial
    BY <2>1, PieceLemma
  <2>3. m_cobs' \in Buffers(kMaxCobsSize)
    BY <1>0, <1>7, <2>1, PieceLemma, BufLemma, EmptyLemma DEF TypeOK, FramedByte
  <2> QED
    BY <1>0, <1>7, <2>2, <2>3 DEF TypeOK, FramedByte, NextPiece,
       parserVars, probeVars, framedVars, controlVars
<1>8. ASSUME NEW p \in HostPieces, FramedReject(p) PROVE TypeOK'
  <2>1. NextPiece(p) /\ Track(p, "nul", "COMMAND")
    BY <1>8 DEF FramedReject
  <2>2. left' \in 0 .. kReadBufSize /\ sent' \in Serial /\ clean' \in BOOLEAN /\ candidate' \in Serial
    BY <2>1, PieceLemma
  <2> QED
    BY <1>0, <1>8, <2>2, EmptyLemma DEF TypeOK, FramedReject, NextPiece,
       parserVars, probeVars, framedVars, controlVars
<1>9. ASSUME NEW p \in HostPieces, NEW type, DecodedFrame(p, type)
      PROVE  /\ left' \in 0 .. kReadBufSize /\ sent' \in Serial
             /\ clean' \in BOOLEAN /\ candidate' \in Serial
             /\ m_cobs' \in Buffers(kMaxCobsSize) /\ m_cobs.body.n \in Serial
             /\ UNCHANGED <<cpc, booting, cmd, queue, controlVars, answers, probeVars, loop>>
  <2>1. NextPiece(p) /\ Track(p, "nul", "COMMAND")
    BY <1>9 DEF DecodedFrame
  <2>2. left' \in 0 .. kReadBufSize /\ sent' \in Serial /\ clean' \in BOOLEAN /\ candidate' \in Serial
    BY <2>1, PieceLemma
  <2>3. m_cobs' \in Buffers(kMaxCobsSize) /\ m_cobs.body.n \in Serial
    BY <1>0, <1>9, EmptyLemma DEF DecodedFrame, TypeOK, Buffers, Pieces
  <2> QED
    BY <1>9, <2>2, <2>3 DEF DecodedFrame, NextPiece
<1>10. ASSUME NEW p \in HostPieces, FramedCommand(p) PROVE TypeOK'
  <2>1. DecodedFrame(p, "COMMAND")
    BY <1>10 DEF FramedCommand
  <2>2. /\ m_framedCommand' \in Serial /\ m_hasFramedCommand' \in BOOLEAN
        /\ m_framedSeqNum' \in Serial /\ newest' \in Serial
    BY <1>9, <1>10, <2>1 DEF FramedCommand, StoreFramed, framedVars, TypeOK
  <2> QED
    BY <1>9, <1>10, <2>1, <2>2 DEF TypeOK, FramedCommand, parserVars, probeVars, controlVars
<1>11. ASSUME NEW p \in HostPieces, FramedHandshake(p) PROVE TypeOK'
  BY <1>9, <1>11 DEF TypeOK, FramedHandshake, parserVars, probeVars, framedVars, controlVars
<1>12. ASSUME NEW p \in HostPieces, FramedExit(p) PROVE TypeOK'
  <2>1. DecodedFrame(p, "EXIT_HANDSHAKE") /\ CutOff
    BY <1>12 DEF FramedExit
  <2>2. cut' \subseteq Serial /\ newest' \in Serial /\ late' \subseteq Serial
    BY <1>0, <2>1 DEF CutOff, Waiting, TypeOK
  <2> QED
    BY <1>0, <1>9, <1>12, <2>1, <2>2, EmptyLemma DEF TypeOK, FramedExit, ExitFramedMode,
       parserVars, probeVars, framedVars, controlVars
<1>13. ASSUME NEW p \in HostPieces, FramedRequest(p) PROVE TypeOK'
  BY <1>9, <1>13 DEF TypeOK, FramedRequest, parserVars, probeVars, framedVars, controlVars
<1>14. CASE EndBatch
  BY <1>0, <1>14 DEF TypeOK, EndBatch, cliVars, parserVars, probeVars, framedVars,
     controlVars, ghostVars, trackVars
<1>15. CASE TakeCommand
  <2>1. /\ cmd' \in Serial /\ m_parserHas' \in BOOLEAN /\ m_hasPending' \in BOOLEAN
        /\ m_hasFramedCommand' \in BOOLEAN
    BY <1>15 DEF TypeOK, TakeCommand, GetCommandText, GetCommandFramed
  <2> QED
    BY <1>15, <2>1 DEF TypeOK, TakeCommand, probeVars, controlVars, ghostVars, trackVars
<1>16. CASE EndDrain
  BY <1>16 DEF TypeOK, EndDrain, cliVars, parserVars, probeVars, framedVars,
     controlVars, ghostVars, trackVars
<1>17. CASE PushOk
  <2>1. queue' \in Seq(Serial) /\ Len(queue') <= QueueCapacity
    BY <1>17, CommsAssumption, AppendProperties DEF PushOk, TypeOK
  <2> QED
    BY <1>17, <2>1 DEF TypeOK, PushOk, cliVars, parserVars, probeVars, framedVars,
     controlVars, ghostVars, trackVars
<1>18. CASE PushFull
  BY <1>18 DEF TypeOK, PushFull, cliVars, parserVars, probeVars, framedVars,
     controlVars, ghostVars, trackVars
<1>19. ASSUME NEW ok \in BOOLEAN, Answer(ok) PROVE TypeOK'
  <2>1. answers' \subseteq [n : Serial, seq : Serial, ok : BOOLEAN, how : {"TEXT", "FRAMED"}]
    BY <1>0, <1>19 DEF TypeOK, Answer, TextAnswer, FramedAnswer
  <2> QED
    BY <1>0, <1>19, <2>1 DEF TypeOK, Answer, cliVars, parserVars, probeVars, framedVars,
     controlVars, trackVars
<1>20. CASE ControlStep \/ UNCHANGED vars
  <2>1. /\ kpc' \in {"idle", "abort", "commands"} /\ processed' \in 0 .. kMaxCommandsPerTick
        /\ handled' \in Seq(Serial) /\ queue' \in Seq(Serial) /\ Len(queue') <= QueueCapacity
    <3>1. CASE HandleCommand
      <4>1. handled' \in Seq(Serial) /\ queue' \in Seq(Serial) /\ Len(queue') = Len(queue) - 1
        BY <3>1, HeadTailProperties, AppendProperties DEF HandleCommand, TypeOK
      <4>2. Len(queue) \in Nat /\ Len(queue) <= QueueCapacity /\ QueueCapacity \in Nat
        BY CommsAssumption, LenProperties DEF TypeOK
      <4>3. processed' \in 0 .. kMaxCommandsPerTick
        BY <3>1, CommsAssumption DEF HandleCommand, TypeOK
      <4> QED
        BY <3>1, <4>1, <4>2, <4>3 DEF HandleCommand, TypeOK
    <3>2. CASE ControlTick \/ ControlAbort \/ EndCommands \/ EndAbort
      BY <3>2, CommsAssumption DEF ControlTick, ControlAbort, EndCommands, EndAbort, TypeOK
    <3>3. CASE UNCHANGED vars
      BY <3>3 DEF vars, controlVars, TypeOK
    <3> QED
      BY <1>20, <3>1, <3>2, <3>3 DEF ControlStep
  <2>2. UNCHANGED commsVars
    BY <1>20 DEF ControlStep, ControlTick, HandleCommand, EndCommands, ControlAbort, EndAbort,
       vars, commsVars
  <2> QED
    BY <2>1, <2>2 DEF TypeOK, commsVars, cliVars, parserVars, probeVars, framedVars,
       ghostVars, trackVars
<1>21. CASE SendAck \/ SendNack
  BY <1>19, <1>21 DEF SendAck, SendNack
<1> QED
  BY <1>1, <1>2, <1>3, <1>4, <1>5, <1>6, <1>7, <1>8, <1>10, <1>11, <1>12, <1>13, <1>14, <1>15,
     <1>16, <1>17, <1>18, <1>20, <1>21 DEF Next, CommsStep, DrainStep

-----------------------------------------------------------------------------
(* What the invariant says of the places, in either state of a step.        *)
LEMMA FlowStep ==
  ASSUME PipelineInv, [Next]_vars
  PROVE  FlowNow /\ TypeOK' /\ (FlowNow' => HeldInv')
<1>1. TypeOK /\ HeldInv
  BY DEF PipelineInv
<1>2. TypeOK'
  BY <1>1, TypeStep
<1>3. (TypeOK => (HeldInv <=> FlowNow))'
  BY FlowLemma, PTL
<1> QED
  BY <1>1, <1>2, <1>3, FlowLemma

(* A byte leaves the queue and the answers alone, and the task has no       *)
(* command of its own while the CLI reads.                                  *)
LEMMA PieceFrame ==
  ASSUME PipelineInv, NEW p \in HostPieces, NextPiece(p)
  PROVE  /\ Fates' = Fates /\ Answered' = Answered /\ cmd = 0 /\ cmd' = 0 /\ sent \in Nat
         /\ (p.n = 0 /\ sent' = sent) \/ (p.n = sent + 1 /\ sent' = sent + 1)
         /\ AnswerTellsFate'
         /\ Lost \cap Fates = {} /\ (Lost' \cap Fates = {} => NoCommandTwice')
         /\ (m_mode' = "FRAMED" => loop' = "FRAMED") => TaskInv'
<1>1. TypeOK /\ TaskInv /\ NoCommandTwice /\ AnswerTellsFate
  BY DEF PipelineInv
<1>2. /\ cpc = "bytes" /\ UNCHANGED <<cpc, booting, cmd, queue, handled, answers>>
      /\ p.n \in Serial /\ sent' = IF p.n = 0 THEN sent ELSE p.n
  BY DEF NextPiece, controlVars
<1>3. sent \in Serial /\ sent \in Nat
  BY <1>1, CommsAssumption DEF TypeOK, Serial
<1>4. (p.n = 0 /\ sent' = sent) \/ (p.n = sent + 1 /\ sent' = sent + 1)
  <2>1. p.n \in {0, sent + 1}
    BY <1>2, <1>3, HostLemma
  <2>2. sent + 1 # 0
    BY <1>3
  <2> QED
    BY <1>2, <2>1, <2>2
<1>5. Fates' = Fates /\ Answered' = Answered
  BY <1>2 DEF Fates, Answered
<1>6. cmd = 0 /\ cmd' = 0
  BY <1>1, <1>2 DEF TaskInv
<1>7. AnswerTellsFate'
  BY <1>1, <1>2, <1>5 DEF AnswerTellsFate, Fates
<1>8. Lost \cap Fates = {} /\ (Lost' \cap Fates = {} => NoCommandTwice')
  BY <1>1, <1>2, <1>5 DEF NoCommandTwice, Fates
<1>9. (m_mode' = "FRAMED" => loop' = "FRAMED") => TaskInv'
  BY <1>1, <1>2, <1>6 DEF TaskInv
<1> QED
  BY <1>3, <1>4, <1>5, <1>6, <1>7, <1>8, <1>9

(* The branches of the text loop.                                           *)
LEMMA TextStep ==
  ASSUME PipelineInv, [Next]_vars, NEW p \in HostPieces,
         TextHandshake(p) \/ TextProbeStart(p) \/ TextProbeByte(p) \/ TextByte(p)
  PROVE  PipelineInv'
<1>1. NextPiece(p) /\ p.n \in Serial
  BY DEF TextHandshake, TextProbeStart, TextProbeByte, TextByte, NextPiece
<1>2. TypeOK /\ NumberInv /\ TaskInv /\ NewestInv
  BY DEF PipelineInv
<1>3. /\ Fates' = Fates /\ Answered' = Answered /\ cmd = 0 /\ cmd' = 0 /\ sent \in Nat
      /\ (p.n = 0 /\ sent' = sent) \/ (p.n = sent + 1 /\ sent' = sent + 1)
      /\ AnswerTellsFate'
      /\ Lost \cap Fates = {} /\ (Lost' \cap Fates = {} => NoCommandTwice')
      /\ (m_mode' = "FRAMED" => loop' = "FRAMED") => TaskInv'
  BY <1>1, PieceFrame
<1>4. FlowNow /\ TypeOK' /\ (FlowNow' => HeldInv')
  BY FlowStep
<1> DEFINE l == m_line.body.n
           c == m_cobs.body.n
           K == Lost
           framed == m_mode = "FRAMED"
<1>5. /\ Flow(l, c, Slot, Routed, 0, Fates, Answered, Lost, sent', framed)
      /\ Flow(p.n, c, Slot, Routed, 0, Fates, Answered, Lost, sent', framed)
      /\ Flow(0, c, Slot, Routed, 0, Fates, Answered, Lost, sent', framed)
  <2>1. Flow(l, c, Slot, Routed, 0, Fates, Answered, Lost, sent, framed)
    BY <1>3, <1>4 DEF FlowNow
  <2>2. sent \in Nat /\ ((p.n = 0 /\ sent' = sent) \/ (p.n = sent + 1 /\ sent' = sent + 1))
    BY <1>3
  <2> HIDE DEF l, c, framed
  <2> QED
    BY <2>1, <2>2, Arrives
<1>6. sent' \in Nat
  BY <1>3
<1>7. CASE TextHandshake(p)
  <2>1. /\ UNCHANGED <<m_line, m_pending, m_parserHas, m_hasPending, framedVars>>
        /\ m_mode' = "FRAMED" /\ m_cobs' = Empty /\ loop' = "FRAMED" /\ newest' = 0
        /\ cut' = cut \cup Waiting /\ late' = late /\ loop = "TEXT"
    BY <1>7 DEF TextHandshake, EnterFramedMode, CutOff, parserVars
  <2>2. m_mode = "TEXT"
    BY <1>2, <2>1 DEF TaskInv, TypeOK
  <2>3. Lost' \subseteq Lost \cup ({Slot} \ {0})
    BY <1>2, <2>1, <2>2 DEF Lost, Waiting, Slot, NumberInv
  <2>4. Flow(l, 0, Slot, Routed, 0, Fates, Answered, Lost', sent', TRUE) /\ Lost' \cap Fates = {}
    <3>1. 0 \notin 1 .. sent' /\ 0 \in 0 .. sent' /\ \A x : x \in 0 .. sent' /\ x # 0 => x \in 1 .. sent'
      BY <1>6
    <3>2. Flow(l, c, Slot, Routed, 0, Fates, Answered, Lost, sent', framed) /\ Lost \cap Fates = {}
      BY <1>3, <1>5
    <3> HIDE DEF l, c, framed
    <3> QED
      BY <2>3, <3>1, <3>2 DEF Flow
  <2>5. Slot' = Slot /\ Routed' = Routed /\ m_cobs'.body.n = 0 /\ m_line' = m_line
    BY <2>1, EmptyLemma DEF Slot, Routed, framedVars
  <2>6. FlowNow'
    BY <1>3, <2>1, <2>4, <2>5 DEF FlowNow
  <2>7. NumberInv'
    BY <1>2, <2>1, EmptyLemma DEF NumberInv, framedVars
  <2>8. NewestInv'
    BY <2>1 DEF NewestInv
  <2> QED
    BY <1>3, <1>4, <2>1, <2>4, <2>6, <2>7, <2>8 DEF PipelineInv
<1>8. CASE TextProbeStart(p) \/ TextProbeByte(p)
  <2>1. UNCHANGED <<m_mode, m_line, m_pending, m_parserHas, m_hasPending, m_cobs, framedVars,
                    newest, cut, late, loop>>
    BY <1>8 DEF TextProbeStart, TextProbeByte, parserVars
  <2>2. Slot' = Slot /\ Routed' = Routed
    BY <2>1 DEF Slot, Routed, framedVars
  <2>3. FlowNow'
    BY <1>3, <1>5, <2>1, <2>2 DEF FlowNow, Lost
  <2>4. NumberInv'
    BY <1>2, <2>1 DEF NumberInv, framedVars
  <2>5. NewestInv'
    BY <1>2, <1>3, <2>1, <2>2 DEF NewestInv
  <2>6. m_mode' = "FRAMED" => loop' = "FRAMED"
    BY <1>2, <2>1 DEF TaskInv
  <2> QED
    BY <1>3, <1>4, <2>1, <2>3, <2>4, <2>5, <2>6 DEF PipelineInv, Lost
<1>9. CASE TextByte(p)
  <2> DEFINE q == AsText(p)
  <2>1. /\ UNCHANGED <<m_mode, m_cobs, framedVars, loop, cut, late>> /\ ParserFeed(q) /\ loop = "TEXT"
    BY <1>9 DEF TextByte
  <2>2. m_mode = "TEXT" /\ framed = FALSE
    BY <1>2, <2>1 DEF TaskInv, TypeOK
  <2>3. Routed' = Routed /\ (m_mode' = "FRAMED" => loop' = "FRAMED") /\ Lost' \cap Fates = {}
    BY <1>2, <1>3, <2>1 DEF Routed, framedVars, TaskInv, Lost
  <2>4. SUFFICES FlowNow' /\ NumberInv' /\ NewestInv'
    BY <1>3, <1>4, <2>3 DEF PipelineInv, Lost
  <2>5. CASE q.kind = "nl" /\ ParseLine(m_line)
    <3>1. /\ m_pending' = l /\ m_parserHas' = TRUE /\ m_hasPending' = TRUE
          /\ m_line' = Empty /\ newest' = l
      BY <2>1, <2>5 DEF ParserFeed
    <3>2. Slot' = l /\ m_line'.body.n = 0 /\ l # 0
      BY <1>2, <2>5, <3>1, EmptyLemma DEF Slot, NumberInv, ParseLine
    <3>3. Flow(0, c, l, Routed, 0, Fates, Answered, Lost, sent', framed)
      BY <1>5, <1>6, Parsed
    <3>4. FlowNow'
      BY <1>3, <2>1, <2>3, <3>2, <3>3 DEF FlowNow, Lost
    <3>5. NumberInv'
      BY <1>2, <2>1, <3>1, <3>2, EmptyLemma DEF NumberInv, framedVars
    <3>6. NewestInv'
      BY <2>1, <2>2, <3>1, <3>2 DEF NewestInv
    <3> QED
      BY <3>4, <3>5, <3>6
  <2>6. CASE ~(q.kind = "nl" /\ ParseLine(m_line))
    <3>1. /\ UNCHANGED <<m_pending, m_parserHas, m_hasPending, newest>>
          /\ m_line' = Empty \/ (m_line.len < kMaxLineLen - 1 /\ m_line' = Put(m_line, q))
      <4>1. m_line.len \in Nat /\ kMaxLineLen - 1 \in Nat
        BY <1>2, CommsAssumption DEF TypeOK, Buffers
      <4> QED
        BY <2>1, <2>6, <4>1 DEF ParserFeed
    <3>2. Slot' = Slot
      BY <3>1 DEF Slot
    <3>3. m_line'.body = Empty.body \/ m_line'.body = Plain("junk") \/ m_line'.body = q
      BY <3>1 DEF Put
    <3>4. q = p \/ q = Plain("junk")
      BY DEF AsText
    <3>5. m_line'.body.n = 0 \/ m_line'.body.n = p.n
      BY <3>3, <3>4, EmptyLemma
    <3>6. FlowNow'
      BY <1>3, <1>5, <2>1, <2>3, <3>2, <3>5 DEF FlowNow, Lost
    <3>7. p.kind = "line" /\ p.good => p.n # 0
      BY <1>1, <1>2, HostLemma DEF TypeOK
    <3>8. m_line'.body.kind = "line" /\ m_line'.body.good => m_line'.body.n # 0
      BY <3>3, <3>4, <3>7, EmptyLemma
    <3>9. NumberInv'
      BY <1>2, <2>1, <3>1, <3>8 DEF NumberInv, framedVars
    <3>10. NewestInv'
      BY <1>2, <1>3, <2>1, <2>3, <3>1, <3>2 DEF NewestInv
    <3> QED
      BY <3>6, <3>9, <3>10
  <2> QED
    BY <2>5, <2>6
<1> QED
  BY <1>7, <1>8, <1>9

(* The branches of the framed loop.                                         *)
LEMMA FramedStep ==
  ASSUME PipelineInv, [Next]_vars, NEW p \in HostPieces,
         \/ FramedByte(p) \/ FramedReject(p) \/ FramedCommand(p)
         \/ FramedHandshake(p) \/ FramedExit(p) \/ FramedRequest(p)
  PROVE  PipelineInv'
<1>1. NextPiece(p) /\ p.n \in Serial
  BY DEF FramedByte, FramedReject, FramedCommand, FramedHandshake, FramedExit, FramedRequest,
         DecodedFrame, NextPiece
<1>2. TypeOK /\ NumberInv /\ TaskInv /\ NewestInv
  BY DEF PipelineInv, Lost
<1>3. /\ Fates' = Fates /\ Answered' = Answered /\ cmd = 0 /\ cmd' = 0 /\ sent \in Nat
      /\ (p.n = 0 /\ sent' = sent) \/ (p.n = sent + 1 /\ sent' = sent + 1)
      /\ AnswerTellsFate'
      /\ Lost \cap Fates = {} /\ (Lost' \cap Fates = {} => NoCommandTwice')
      /\ (m_mode' = "FRAMED" => loop' = "FRAMED") => TaskInv'
  BY <1>1, PieceFrame
<1>4. FlowNow /\ TypeOK' /\ (FlowNow' => HeldInv')
  BY FlowStep
<1> DEFINE l == m_line.body.n
           c == m_cobs.body.n
           framed == m_mode = "FRAMED"
<1>5. /\ Flow(l, c, Slot, Routed, 0, Fates, Answered, Lost, sent', framed)
      /\ Flow(l, p.n, Slot, Routed, 0, Fates, Answered, Lost, sent', framed)
      /\ Flow(l, 0, Slot, Routed, 0, Fates, Answered, Lost, sent', framed)
  <2>1. Flow(l, c, Slot, Routed, 0, Fates, Answered, Lost, sent, framed)
    BY <1>3, <1>4 DEF FlowNow, Lost
  <2>2. sent \in Nat /\ ((p.n = 0 /\ sent' = sent) \/ (p.n = sent + 1 /\ sent' = sent + 1))
    BY <1>3
  <2> HIDE DEF l, c, framed
  <2> QED
    BY <2>1, <2>2, Arrives
<1>6. sent' \in Nat
  BY <1>3
<1>7. loop' = "FRAMED"
  BY <1>2 DEF FramedByte, FramedReject, FramedCommand, FramedHandshake, FramedExit, FramedRequest,
              DecodedFrame
<1>8. CASE FramedByte(p) \/ FramedReject(p) \/ FramedHandshake(p) \/ FramedRequest(p)
  <2> DEFINE q == AsFrame(p)
  <2>1. UNCHANGED <<m_mode, m_line, m_pending, m_parserHas, m_hasPending, framedVars, newest, cut, late>>
    BY <1>8 DEF FramedByte, FramedReject, FramedHandshake, FramedRequest, parserVars
  <2>2. m_cobs' = Empty \/ m_cobs' = Put(m_cobs, q)
    BY <1>8 DEF FramedByte, FramedReject, FramedHandshake, FramedRequest, DecodedFrame
  <2>3. Slot' = Slot /\ Routed' = Routed
    BY <2>1 DEF Slot, Routed, framedVars
  <2>4. m_cobs'.body = Empty.body \/ m_cobs'.body = Plain("junk") \/ m_cobs'.body = q
    BY <2>2 DEF Put
  <2>5. q = p \/ q = Plain("junk")
    BY DEF AsFrame
  <2>6. m_cobs'.body.n = 0 \/ m_cobs'.body.n = p.n
    BY <2>4, <2>5, EmptyLemma
  <2>7. FlowNow'
    BY <1>3, <1>5, <2>1, <2>3, <2>6 DEF FlowNow, Lost
  <2>8. p.kind = "COMMAND" => p.n # 0
    BY <1>1, <1>2, HostLemma DEF TypeOK
  <2>9. m_cobs'.body.kind = "COMMAND" => m_cobs'.body.n # 0
    BY <2>4, <2>5, <2>8, EmptyLemma
  <2>10. NumberInv'
    BY <1>2, <2>1, <2>9 DEF NumberInv, framedVars
  <2>11. NewestInv'
    BY <1>2, <1>3, <2>1, <2>3 DEF NewestInv
  <2> QED
    BY <1>3, <1>4, <1>7, <2>1, <2>7, <2>10, <2>11 DEF PipelineInv, Lost
<1>9. CASE FramedCommand(p)
  <2>1. /\ UNCHANGED <<m_mode, m_line, m_pending, m_parserHas, m_hasPending, cut>>
        /\ m_cobs' = Empty /\ m_cobs.body.kind = "COMMAND" /\ StoreFramed(m_cobs.body)
        /\ late' = IF m_cobs.body.good /\ m_mode = "TEXT" THEN late \cup {c} ELSE late
        /\ newest' = IF m_cobs.body.good /\ m_mode = "FRAMED" THEN c ELSE newest
    BY <1>9 DEF FramedCommand, DecodedFrame, parserVars
  <2>2. Slot' = Slot /\ m_cobs'.body.n = 0 /\ c # 0
    BY <1>2, <2>1, EmptyLemma DEF Slot, NumberInv
  <2>3. CASE m_cobs.body.good
    <3>1. m_framedCommand' = c /\ m_hasFramedCommand' = TRUE /\ m_framedSeqNum' = c /\ Routed' = c
      BY <2>1, <2>3 DEF StoreFramed, Routed
    <3>2. Flow(l, 0, Slot, c, 0, Fates, Answered, Lost, sent', framed)
      BY <1>5, <1>6, Parsed
    <3>6. Lost' \subseteq Lost
      BY <2>1 DEF Lost
    <3>7. Flow(l, 0, Slot, c, 0, Fates, Answered, Lost', sent', framed)
      <4> HIDE DEF l, c, framed
      <4> QED
        BY <3>2, <3>6 DEF Flow
    <3>3. FlowNow'
      BY <1>3, <2>1, <2>2, <3>1, <3>7 DEF FlowNow, Lost
    <3>4. NumberInv'
      BY <1>2, <2>1, <2>2, <2>3, <3>1, EmptyLemma DEF NumberInv
    <3>5. NewestInv'
      BY <1>2, <1>3, <2>1, <2>2, <2>3, <3>1 DEF NewestInv, TypeOK
    <3> QED
      BY <1>3, <1>4, <1>7, <2>1, <3>3, <3>4, <3>5, <3>6 DEF PipelineInv, Lost
  <2>4. CASE ~m_cobs.body.good
    <3>1. UNCHANGED framedVars /\ Routed' = Routed /\ newest' = newest /\ late' = late
      BY <2>1, <2>4 DEF StoreFramed, Routed, framedVars
    <3>2. FlowNow'
      BY <1>3, <1>5, <2>1, <2>2, <3>1 DEF FlowNow, Lost
    <3>3. NumberInv'
      BY <1>2, <2>1, <3>1, EmptyLemma DEF NumberInv, framedVars
    <3>4. NewestInv'
      BY <1>2, <1>3, <2>1, <2>2, <3>1 DEF NewestInv
    <3> QED
      BY <1>3, <1>4, <1>7, <2>1, <3>2, <3>3, <3>4 DEF PipelineInv, Lost
  <2> QED
    BY <2>3, <2>4
<1>10. CASE FramedExit(p)
  <2>1. /\ m_mode' = "TEXT" /\ m_hasPending' = FALSE /\ m_hasFramedCommand' = FALSE
        /\ m_line' = Empty /\ m_parserHas' = FALSE /\ m_cobs' = Empty /\ newest' = 0
        /\ UNCHANGED <<m_pending, m_framedCommand, m_framedSeqNum>>
        /\ cut' = cut \cup Waiting /\ late' = late
    BY <1>10 DEF FramedExit, ExitFramedMode, CutOff, DecodedFrame
  <2>2. Lost' \subseteq Lost \cup ({Slot, Routed} \ {0})
    BY <1>2, <2>1 DEF Lost, Waiting, Slot, Routed, NumberInv
  <2>3. Flow(0, 0, 0, 0, 0, Fates, Answered, Lost', sent', FALSE) /\ Lost' \cap Fates = {}
    <3>1. 0 \notin 1 .. sent' /\ 0 \in 0 .. sent' /\ \A x : x \in 0 .. sent' /\ x # 0 => x \in 1 .. sent'
      BY <1>6
    <3>2. Flow(l, c, Slot, Routed, 0, Fates, Answered, Lost, sent', framed) /\ Lost \cap Fates = {}
      BY <1>3, <1>5
    <3> HIDE DEF l, c, framed
    <3> QED
      BY <2>2, <3>1, <3>2 DEF Flow
  <2>4. Slot' = 0 /\ Routed' = 0 /\ m_line'.body.n = 0 /\ m_cobs'.body.n = 0 /\ (m_mode' = "FRAMED") = FALSE
    BY <2>1, EmptyLemma DEF Slot, Routed
  <2>5. FlowNow'
    BY <1>3, <2>3, <2>4 DEF FlowNow, Lost
  <2>6. NumberInv'
    BY <1>2, <2>1, EmptyLemma DEF NumberInv
  <2>7. NewestInv'
    BY <2>1 DEF NewestInv
  <2> QED
    BY <1>3, <1>4, <1>7, <2>3, <2>5, <2>6, <2>7 DEF PipelineInv, Lost
<1> QED
  BY <1>8, <1>9, <1>10

(* The steps that take a command out, push it and answer for it.            *)
LEMMA DrainInv ==
  ASSUME PipelineInv, [Next]_vars, DrainStep
  PROVE  PipelineInv'
<1>1. /\ TypeOK /\ HeldInv /\ NumberInv /\ TaskInv /\ NewestInv /\ NoCommandTwice
      /\ AnswerTellsFate
  BY DEF PipelineInv, Lost
<1>2. FlowNow /\ TypeOK' /\ (FlowNow' => HeldInv')
  BY FlowStep
<1> DEFINE l == m_line.body.n
           c == m_cobs.body.n
           framed == m_mode = "FRAMED"
<1>3. Flow(l, c, Slot, Routed, cmd, Fates, Answered, Lost, sent, framed) /\ sent \in Nat
  BY <1>1, <1>2, CommsAssumption DEF FlowNow, TypeOK, Serial
<1>4. CASE TakeCommand
  <2>1. /\ cpc = "drain" /\ cpc' = "push" /\ HasCommand
        /\ UNCHANGED <<m_mode, m_line, m_pending, m_cobs, m_framedCommand, m_framedSeqNum, loop,
                       booting, queue, handled, sent, answers, newest, cut, late>>
    BY <1>4 DEF TakeCommand, controlVars, ghostVars
  <2>2. Fates' = Fates /\ Answered' = Answered /\ NoCommandTwice' /\ AnswerTellsFate'
    BY <1>1, <2>1 DEF Fates, Answered, NoCommandTwice, Lost, AnswerTellsFate
  <2>3. cmd = 0
    BY <1>1, <2>1 DEF TaskInv
  <2>4. CASE GetCommandText
    <3>1. /\ m_mode = "TEXT" /\ m_parserHas /\ cmd' = m_pending /\ m_parserHas' = FALSE
          /\ m_hasPending' = FALSE /\ m_hasFramedCommand' = m_hasFramedCommand
      BY <2>4 DEF GetCommandText
    <3>2. Slot = m_pending /\ Slot' = 0 /\ Routed' = Routed /\ m_pending # 0
      BY <1>1, <2>1, <3>1 DEF Slot, Routed, NumberInv
    <3>3. Flow(l, c, 0, Routed, Slot, Fates, Answered, Lost, sent, framed)
      BY <1>3, <2>3, <3>1, Taken
    <3>4. FlowNow'
      BY <2>1, <2>2, <3>1, <3>2, <3>3 DEF FlowNow, Lost
    <3>5. m_pending \notin Fates /\ m_pending \notin Answered
      BY <1>3, <3>2 DEF Flow
    <3>6. NumberInv'
      BY <1>1, <2>1, <3>1 DEF NumberInv
    <3>7. TaskInv'
      BY <1>1, <2>1, <2>2, <3>1, <3>2, <3>5 DEF TaskInv
    <3>8. NewestInv'
      BY <1>1, <2>1, <2>2, <2>3, <3>1, <3>2 DEF NewestInv
    <3> QED
      BY <1>2, <2>2, <3>4, <3>6, <3>7, <3>8 DEF PipelineInv, Lost
  <2>5. CASE GetCommandFramed
    <3>1. /\ m_mode = "FRAMED" /\ m_hasFramedCommand /\ cmd' = m_framedCommand
          /\ m_hasFramedCommand' = FALSE /\ UNCHANGED <<m_parserHas, m_hasPending>>
      BY <2>1, <2>5 DEF GetCommandFramed, HasCommand
    <3>2. Routed = m_framedCommand /\ Routed' = 0 /\ Slot' = Slot /\ m_framedCommand # 0
      BY <1>1, <2>1, <3>1 DEF Slot, Routed, NumberInv
    <3>3. Flow(l, c, Slot, 0, Routed, Fates, Answered, Lost, sent, framed)
      BY <1>3, <2>3, <3>1, Taken
    <3>4. FlowNow'
      BY <2>1, <2>2, <3>1, <3>2, <3>3 DEF FlowNow, Lost
    <3>5. m_framedCommand \notin Fates /\ m_framedCommand \notin Answered
      BY <1>3, <3>2 DEF Flow
    <3>6. NumberInv'
      BY <1>1, <2>1, <3>1 DEF NumberInv
    <3>7. TaskInv'
      BY <1>1, <2>1, <2>2, <3>1, <3>2, <3>5 DEF TaskInv
    <3>8. NewestInv'
      BY <1>1, <2>1, <2>2, <2>3, <3>1, <3>2 DEF NewestInv
    <3> QED
      BY <1>2, <2>2, <3>4, <3>6, <3>7, <3>8 DEF PipelineInv, Lost
  <2> QED
    BY <1>4, <2>4, <2>5 DEF TakeCommand
<1>5. CASE EndDrain
  <2>1. /\ cpc = "drain" /\ cpc' = "idle" /\ ~HasCommand
        /\ UNCHANGED <<cliVars, loop, booting, cmd, queue, handled, sent, answers, newest, cut, late>>
    BY <1>5 DEF EndDrain, controlVars, ghostVars
  <2>2. /\ Fates' = Fates /\ Answered' = Answered /\ Slot' = Slot /\ Routed' = Routed
        /\ NumberInv' /\ NewestInv' /\ NoCommandTwice' /\ FlowNow'
    BY <1>1, <1>2, <2>1 DEF Fates, Answered, Slot, Routed, NumberInv, NewestInv, NoCommandTwice, Lost,
       FlowNow, cliVars, parserVars, framedVars
  <2>3. cmd = 0 /\ TaskInv'
    BY <1>1, <2>1, <2>2 DEF TaskInv, cliVars, framedVars
  <2>4. newest # 0 => newest \in Answered
    BY <1>1, <2>1, <2>3 DEF NewestInv, HasCommand, Slot, Routed, NumberInv, TypeOK
  <2>5. AnswerTellsFate'
    BY <1>1, <2>1, <2>2, <2>4 DEF AnswerTellsFate
  <2> QED
    BY <1>2, <2>2, <2>3, <2>5 DEF PipelineInv, Lost
<1>6. CASE PushOk
  <2>1. /\ cpc = "push" /\ cpc' = "ack" /\ queue' = Append(queue, cmd)
        /\ UNCHANGED <<cliVars, loop, booting, cmd, handled, sent, answers, newest, cut, late>>
    BY <1>6 DEF PushOk, controlVars, ghostVars
  <2>2. cmd # 0 /\ cmd \notin Answered /\ cmd \notin Fates
    BY <1>1, <2>1 DEF TaskInv
  <2>3. handled' \o queue' = Append(handled \o queue, cmd) /\ handled \o queue \in Seq(Serial)
    BY <1>1, <2>1, MoveLemma DEF TypeOK
  <2>4. Fates' = Fates \cup {cmd} /\ IsInjective(handled' \o queue')
    <3> DEFINE all == handled \o queue
    <3>1. IsInjective(all) /\ cmd \notin ToSet(all) /\ all \in Seq(Serial) /\ cmd \in Serial
      BY <1>1, <2>2, <2>3 DEF NoCommandTwice, Fates, TypeOK
    <3>3. Fates = ToSet(all) /\ Fates' = ToSet(handled' \o queue')
      BY DEF Fates
    <3>4. handled' \o queue' = Append(all, cmd)
      BY <2>3
    <3> HIDE DEF all
    <3>2. ToSet(Append(all, cmd)) = ToSet(all) \cup {cmd} /\ IsInjective(Append(all, cmd))
      BY <3>1, GrowLemma
    <3> QED
      BY <3>2, <3>3, <3>4
  <2>5. Flow(l, c, Slot, Routed, cmd, Fates \cup {cmd}, Answered, Lost, sent, framed) /\ cmd \notin Lost
    <3>1. cmd \notin Lost
      BY <1>3 DEF Flow
    <3> QED
      BY <1>3, <2>2, <3>1, Pushed
  <2>6. Answered' = Answered /\ Slot' = Slot /\ Routed' = Routed /\ m_mode' = m_mode
    BY <2>1 DEF Answered, Slot, Routed, cliVars, parserVars, framedVars
  <2>7. FlowNow'
    BY <2>1, <2>4, <2>5, <2>6 DEF FlowNow, Lost, cliVars, parserVars
  <2>8. NumberInv' /\ NewestInv'
    BY <1>1, <2>1, <2>6 DEF NumberInv, NewestInv, cliVars, parserVars, framedVars
  <2>9. TaskInv'
    BY <1>1, <2>1, <2>2, <2>4, <2>6 DEF TaskInv, cliVars, framedVars
  <2>10. NoCommandTwice'
    BY <1>1, <2>1, <2>4, <2>5 DEF NoCommandTwice, Lost, Fates
  <2>11. AnswerTellsFate'
    <3>1. \A a \in answers : a.n \in Answered /\ a.n # cmd
      BY <2>2 DEF Answered
    <3>2. \A a \in answers : a.n \in Fates' <=> a.n \in Fates
      BY <2>4, <3>1
    <3> QED
      BY <1>1, <2>1, <3>2 DEF AnswerTellsFate, Fates
  <2> QED
    BY <1>2, <2>7, <2>8, <2>9, <2>10, <2>11 DEF PipelineInv, Lost
<1>7. CASE PushFull
  <2>1. /\ cpc = "push" /\ cpc' = "nack"
        /\ UNCHANGED <<cliVars, loop, booting, cmd, queue, handled, sent, answers, newest, cut, late>>
    BY <1>7 DEF PushFull, controlVars, ghostVars
  <2>2. /\ Fates' = Fates /\ Answered' = Answered /\ Slot' = Slot /\ Routed' = Routed
        /\ NumberInv' /\ NewestInv' /\ NoCommandTwice' /\ FlowNow'
    BY <1>1, <1>2, <2>1 DEF Fates, Answered, Slot, Routed, NumberInv, NewestInv, NoCommandTwice, Lost,
       FlowNow, cliVars, parserVars, framedVars
  <2>3. TaskInv'
    BY <1>1, <2>1, <2>2 DEF TaskInv, cliVars, framedVars
  <2>4. AnswerTellsFate'
    BY <1>1, <2>1, <2>2 DEF AnswerTellsFate
  <2> QED
    BY <1>2, <2>2, <2>3, <2>4 DEF PipelineInv, Lost
<1>8. ASSUME NEW ok \in BOOLEAN, Answer(ok), cpc \in {"ack", "nack"}, ok <=> cpc = "ack"
      PROVE  PipelineInv'
  <2> DEFINE x == IF m_mode = "FRAMED" THEN FramedAnswer(ok) ELSE TextAnswer(ok)
  <2>1. /\ answers' = answers \cup {x} /\ cpc' = "drain" /\ cmd' = 0
        /\ UNCHANGED <<cliVars, loop, booting, queue, handled, sent, newest, cut, late>>
    BY <1>8 DEF Answer, controlVars
  <2>2. cmd # 0 /\ cmd \notin Answered /\ (cmd \in Fates <=> ok)
    BY <1>1, <1>8 DEF TaskInv
  <2>3. x.n = cmd /\ x.ok = ok /\ x.seq = IF x.how = "FRAMED" THEN x.n ELSE 0
    <3>1. m_mode = "FRAMED" => m_framedSeqNum = cmd
      BY <1>1, <1>8 DEF TaskInv, NumberInv
    <3> QED
      BY <3>1 DEF FramedAnswer, TextAnswer
  <2>4. Answered' = Answered \cup {cmd}
    <3> HIDE DEF x
    <3> QED
      BY <2>1, <2>3 DEF Answered
  <2>5. Flow(l, c, Slot, Routed, 0, Fates, Answered \cup {cmd}, Lost, sent, framed)
    BY <1>3, <2>2, Told
  <2>6. Fates' = Fates /\ Slot' = Slot /\ Routed' = Routed /\ m_mode' = m_mode
    BY <2>1 DEF Fates, Slot, Routed, cliVars, parserVars, framedVars
  <2>7. FlowNow'
    BY <2>1, <2>4, <2>5, <2>6 DEF FlowNow, Lost, cliVars, parserVars
  <2>8. NumberInv' /\ NoCommandTwice'
    BY <1>1, <2>1 DEF NumberInv, NoCommandTwice, Lost, cliVars, parserVars, framedVars
  <2>9. NewestInv'
    BY <1>1, <2>1, <2>4, <2>6 DEF NewestInv
  <2>10. TaskInv'
    BY <1>1, <1>8, <2>1, <2>6 DEF TaskInv
  <2>11. AnswerTellsFate'
    <3> HIDE DEF x
    <3>1. \A a \in answers : a.n # cmd
      BY <2>2 DEF Answered
    <3>2. \A a \in answers : /\ a.ok <=> a.n \in Fates
                             /\ \A b \in answers : a.n = b.n => a = b
                             /\ a.seq = IF a.how = "FRAMED" THEN a.n ELSE 0
      BY <1>1 DEF AnswerTellsFate, Fates
    <3>3. \A a \in answers' : /\ a.ok <=> a.n \in Fates
                              /\ \A b \in answers' : a.n = b.n => a = b
                              /\ a.seq = IF a.how = "FRAMED" THEN a.n ELSE 0
      BY <2>1, <2>2, <2>3, <3>1, <3>2
    <3> QED
      BY <2>1, <2>6, <3>3 DEF AnswerTellsFate, Fates
  <2> QED
    BY <1>2, <2>7, <2>8, <2>9, <2>10, <2>11 DEF PipelineInv, Lost
<1>9. CASE SendAck \/ SendNack
  BY <1>8, <1>9 DEF SendAck, SendNack
<1> QED
  BY <1>4, <1>5, <1>6, <1>7, <1>9 DEF DrainStep

(* The steps that move no command: the begin and the end of a batch, the    *)
(* control task, which moves commands from the queue to the application in  *)
(* their order, and stuttering.                                             *)
LEMMA RestInv ==
  ASSUME PipelineInv, [Next]_vars,
         CommsInit \/ CommsTick \/ EndBatch \/ ControlStep \/ UNCHANGED vars
  PROVE  PipelineInv'
<1>1. /\ TypeOK /\ HeldInv /\ NumberInv /\ TaskInv /\ NewestInv /\ NoCommandTwice
      /\ AnswerTellsFate
  BY DEF PipelineInv, Lost
<1>2. FlowNow /\ TypeOK' /\ (FlowNow' => HeldInv')
  BY FlowStep
<1>3. /\ UNCHANGED <<cliVars, cmd, sent, answers, newest, cut, late>>
      /\ handled' \o queue' = handled \o queue
  <2>1. CASE HandleCommand
    <3>1. handled' \o queue' = handled \o queue
      BY <1>1, <2>1, MoveLemma DEF HandleCommand, TypeOK
    <3> QED
      BY <2>1, <3>1 DEF HandleCommand, commsVars, ghostVars
  <2>2. CASE ControlTick \/ ControlAbort \/ EndCommands \/ EndAbort
    BY <2>2 DEF ControlTick, ControlAbort, EndCommands, EndAbort, commsVars, ghostVars
  <2>3. CASE CommsInit \/ CommsTick \/ EndBatch \/ UNCHANGED vars
    BY <2>3 DEF CommsInit, CommsTick, CliTick, EndBatch, vars, controlVars, ghostVars
  <2> QED
    BY <2>1, <2>2, <2>3 DEF ControlStep
<1>4. /\ Fates' = Fates /\ Answered' = Answered /\ Slot' = Slot /\ Routed' = Routed
      /\ NumberInv' /\ NewestInv' /\ NoCommandTwice' /\ FlowNow'
  BY <1>1, <1>2, <1>3 DEF Fates, Answered, Slot, Routed, NumberInv, NewestInv, NoCommandTwice, Lost,
     FlowNow, cliVars, parserVars, framedVars
<1>5. m_mode' = m_mode /\ m_framedCommand' = m_framedCommand
  BY <1>3 DEF cliVars, framedVars
<1>6. CASE ControlStep \/ UNCHANGED vars
  <2>1. UNCHANGED <<cpc, loop, booting>>
    BY <1>6 DEF ControlStep, ControlTick, HandleCommand, EndCommands, ControlAbort, EndAbort,
       commsVars, vars
  <2>2. TaskInv' /\ AnswerTellsFate'
    BY <1>1, <1>3, <1>4, <1>5, <2>1 DEF TaskInv, AnswerTellsFate
  <2> QED
    BY <1>2, <1>4, <2>2 DEF PipelineInv, Lost
<1>7. CASE CommsInit \/ CommsTick
  <2>1. cpc' = "bytes" /\ loop' = m_mode /\ cpc \in {"off", "idle"}
    BY <1>7 DEF CommsInit, CommsTick, CliTick
  <2>2. TaskInv' /\ AnswerTellsFate'
    BY <1>1, <1>3, <1>4, <1>5, <2>1 DEF TaskInv, AnswerTellsFate
  <2> QED
    BY <1>2, <1>4, <2>2 DEF PipelineInv, Lost
<1>8. CASE EndBatch
  <2>1. /\ cpc = "bytes" /\ loop' = m_mode /\ booting' = booting
        /\ cpc' = IF booting THEN "idle" ELSE "drain"
    BY <1>8 DEF EndBatch
  <2>2. TaskInv' /\ AnswerTellsFate'
    BY <1>1, <1>3, <1>4, <1>5, <2>1 DEF TaskInv, AnswerTellsFate
  <2> QED
    BY <1>2, <1>4, <2>2 DEF PipelineInv, Lost
<1> QED
  BY <1>6, <1>7, <1>8
-----------------------------------------------------------------------------
(* CLI.h, CommandParser.h, FrameDecoder.h, ScheduledCommsTask.h,            *)
(* ScheduledControlTask.h: whatever the host sends, the bookkeeping of      *)
(* where each command is holds in every reachable state, for every size of  *)
(* the buffers and of the queue.                                            *)
THEOREM CommsInvariant == Spec => []PipelineInv
<1>1. Init => PipelineInv
  <2> SUFFICES ASSUME Init PROVE PipelineInv
    OBVIOUS
  <2>1. 0 \in Serial /\ 0 \in 0 .. kReadBufSize /\ 0 \in 0 .. kMaxCommandsPerTick
        /\ kMaxProbeSize \in Nat /\ kMaxLineLen - 1 \in Nat /\ kMaxCobsSize \in Nat
    BY CommsAssumption DEF Serial
  <2>2. TypeOK
    <3>1. <<>> \in Seq(Serial) /\ Len(<<>>) = 0 /\ 0 <= QueueCapacity
      BY CommsAssumption
    <3>3. m_probeBuf \in Buffers(kMaxProbeSize) /\ m_line \in Buffers(kMaxLineLen - 1)
          /\ m_cobs \in Buffers(kMaxCobsSize)
      BY <2>1, EmptyLemma DEF Init
    <3>4. queue \in Seq(Serial) /\ Len(queue) <= QueueCapacity /\ handled \in Seq(Serial)
      BY <3>1 DEF Init
    <3> QED
      BY <2>1, <3>3, <3>4 DEF Init, TypeOK
  <2>3. handled \o queue = <<>> /\ Fates = {} /\ IsInjective(handled \o queue)
    <3>1. <<>> \o <<>> = <<>>
      OBVIOUS
    <3>2. handled \o queue = <<>>
      BY <3>1 DEF Init
    <3>3. ToSet(<<>>) = {} /\ IsInjective(<<>>)
      BY DEF ToSet, IsInjective
    <3> QED
      BY <3>2, <3>3 DEF Fates
  <2>4. Answered = {}
    BY DEF Init, Answered
  <2>5. Slot = 0 /\ Routed = 0 /\ cmd = 0 /\ m_line.body.n = 0 /\ m_cobs.body.n = 0 /\ sent = 0
        /\ cut = {} /\ late = {} /\ newest = 0
    BY EmptyLemma DEF Init, Slot, Routed
  <2>6. FlowNow
    BY <2>3, <2>4, <2>5 DEF FlowNow, Flow, Lost
  <2>7. HeldInv
    BY <2>2, <2>6, FlowLemma
  <2>8. NumberInv /\ TaskInv /\ NewestInv
    BY <2>5, EmptyLemma DEF Init, NumberInv, TaskInv, NewestInv
  <2>9. NoCommandTwice /\ AnswerTellsFate
    BY <2>3, <2>5 DEF Init, NoCommandTwice, Lost, AnswerTellsFate
  <2> QED
    BY <2>2, <2>7, <2>8, <2>9 DEF PipelineInv
<1>2. PipelineInv /\ [Next]_vars => PipelineInv'
  <2> SUFFICES ASSUME PipelineInv, [Next]_vars PROVE PipelineInv'
    OBVIOUS
  <2>1. CASE \E p \in HostPieces :
               TextHandshake(p) \/ TextProbeStart(p) \/ TextProbeByte(p) \/ TextByte(p)
    BY <2>1, TextStep
  <2>2. CASE \E p \in HostPieces :
               \/ FramedByte(p) \/ FramedReject(p) \/ FramedCommand(p)
               \/ FramedHandshake(p) \/ FramedExit(p) \/ FramedRequest(p)
    BY <2>2, FramedStep
  <2>3. CASE DrainStep
    BY <2>3, DrainInv
  <2>4. CASE CommsInit \/ CommsTick \/ EndBatch \/ ControlStep \/ UNCHANGED vars
    BY <2>4, RestInv
  <2> QED
    BY <2>1, <2>2, <2>3, <2>4 DEF Next, CommsStep
<1> QED
  BY <1>1, <1>2, PTL DEF Spec

(* ScheduledCommsTask.h:97-110, CLI.h:318-337: no command is queued or      *)
(* executed twice, and one that waited when the mode changed is never       *)
(* executed, unless it was decoded behind an EXIT in the same read.         *)
THEOREM CommsNoCommandTwice == Spec => []NoCommandTwice
<1>1. PipelineInv => NoCommandTwice
  BY DEF PipelineInv
<1> QED
  BY <1>1, CommsInvariant, PTL

(* ScheduledCommsTask.h:93-127: an ACK means queued or executed, a NACK     *)
(* neither, a framed answer carries its command's sequence number, and a    *)
(* tick does not end before the newest command of the mode is answered.     *)
THEOREM CommsAnswerTellsFate == Spec => []AnswerTellsFate
<1>1. PipelineInv => AnswerTellsFate
  BY DEF PipelineInv
<1> QED
  BY <1>1, CommsInvariant, PTL

-----------------------------------------------------------------------------
(* The step that resynchronises: a separator leaves the buffer of its loop  *)
(* empty, a whole command after it fills the buffer alone, and the next     *)
(* separator finds it there.                                                *)
LEMMA WholeStep ==
  ASSUME TypeOK, WholeInv, [Next]_vars
  PROVE  WholeInv' /\ (candidate # 0 /\ clean' => candidate \in Waiting')
<1> DEFINE Received == candidate # 0 /\ clean' => candidate \in Waiting'
<1>0. /\ Empty.len = 0 /\ kMaxLineLen - 1 \in Nat /\ 0 < kMaxLineLen - 1 /\ 0 < kMaxCobsSize
      /\ kMaxCobsSize \in Nat
      /\ m_line.len \in Nat /\ m_cobs.len \in Nat /\ clean \in BOOLEAN
  BY EmptyLemma, CommsAssumption DEF TypeOK, Buffers
<1>1. ASSUME NEW p \in HostPieces, TextHandshake(p) PROVE WholeInv' /\ Received
  <2>1. /\ cpc' = "bytes" /\ loop = "TEXT" /\ m_probeActive /\ loop' = "FRAMED" /\ m_cobs' = Empty
        /\ candidate' = 0
    BY <1>1 DEF TextHandshake, NextPiece, EnterFramedMode, Untracked
  <2>2. candidate = 0
    BY <2>1 DEF WholeInv
  <2> QED
    BY <1>0, <2>1, <2>2 DEF WholeInv, LoopBuffer
<1>2. ASSUME NEW p \in HostPieces, TextProbeStart(p) \/ TextProbeByte(p)
      PROVE  WholeInv' /\ Received
  <2>1. cpc' = "bytes" /\ candidate' = 0 /\ ~clean'
    BY <1>2 DEF TextProbeStart, TextProbeByte, NextPiece, Untracked
  <2> QED
    BY <2>1 DEF WholeInv
<1>3. ASSUME NEW p \in HostPieces, TextByte(p) PROVE WholeInv' /\ Received
  <2> DEFINE q == AsText(p)
  <2>1. /\ cpc' = "bytes" /\ loop = "TEXT" /\ loop' = "TEXT" /\ m_probeActive' = FALSE
        /\ ParserFeed(q) /\ clean' = (p.kind = "nl")
        /\ candidate' = IF clean /\ p.kind = "line" /\ p.good THEN p.n ELSE 0
    BY <1>3 DEF TextByte, NextPiece, Track
  <2>2. CASE p.kind = "nl"
    <3>1. q = p /\ m_line' = Empty /\ candidate' = 0
      BY <2>1, <2>2 DEF AsText, ParserFeed
    <3>2. WholeInv'
      BY <1>0, <2>1, <3>1 DEF WholeInv, LoopBuffer
    <3>3. ASSUME candidate # 0 PROVE candidate \in Waiting'
      <4>1. ParseLine(m_line) /\ m_line.body.n = candidate
        BY <2>1, <3>3 DEF WholeInv, LoopBuffer, ParseLine
      <4>2. m_pending' = candidate /\ m_parserHas' = TRUE
        BY <2>1, <2>2, <3>1, <4>1 DEF ParserFeed
      <4> QED
        BY <4>2 DEF Waiting
    <3> QED
      BY <3>2, <3>3
  <2>3. CASE p.kind # "nl"
    <3>1. ~clean' /\ q.kind # "nl"
      BY <2>1, <2>3 DEF AsText, Plain
    <3>2. ASSUME candidate' # 0
          PROVE  /\ m_line'.len = 1 /\ m_line'.body = p
                 /\ p.kind = "line" /\ p.good /\ p.n = candidate'
      <4>1. clean /\ p.kind = "line" /\ p.good /\ p.n = candidate'
        BY <2>1, <3>2
      <4>2. m_line.len = 0 /\ q = p
        BY <2>1, <4>1 DEF WholeInv, LoopBuffer, AsText
      <4>3. m_line' = Put(m_line, p)
        BY <1>0, <2>1, <3>1, <4>2 DEF ParserFeed
      <4> QED
        BY <4>1, <4>2, <4>3 DEF Put
    <3> QED
      BY <2>1, <3>1, <3>2 DEF WholeInv, LoopBuffer
  <2> QED
    BY <2>2, <2>3
<1>4. ASSUME NEW p \in HostPieces, FramedByte(p) PROVE WholeInv' /\ Received
  <2>1. /\ cpc' = "bytes" /\ loop = "FRAMED" /\ loop' = "FRAMED" /\ ~clean'
        /\ m_cobs' = IF m_cobs.len < kMaxCobsSize THEN Put(m_cobs, AsFrame(p)) ELSE Empty
        /\ candidate' = IF clean /\ p.kind = "COMMAND" /\ p.good THEN p.n ELSE 0
    BY <1>4 DEF FramedByte, NextPiece, Track
  <2>2. ASSUME candidate' # 0
        PROVE  /\ m_cobs'.len = 1 /\ m_cobs'.body = p
               /\ p.kind = "COMMAND" /\ p.good /\ p.n = candidate'
    <3>1. clean /\ p.kind = "COMMAND" /\ p.good /\ p.n = candidate'
      BY <2>1, <2>2
    <3>2. m_cobs.len = 0 /\ AsFrame(p) = p
      BY <2>1, <3>1 DEF WholeInv, LoopBuffer, AsFrame, FrameTypes
    <3> QED
      BY <1>0, <2>1, <3>1, <3>2 DEF Put
  <2> QED
    BY <2>1, <2>2 DEF WholeInv, LoopBuffer
<1>5. ASSUME NEW p \in HostPieces,
             \/ FramedReject(p) \/ FramedCommand(p)
             \/ FramedHandshake(p) \/ FramedExit(p) \/ FramedRequest(p)
      PROVE  WholeInv' /\ Received
  <2>1. /\ cpc' = "bytes" /\ loop = "FRAMED" /\ loop' = "FRAMED" /\ m_cobs' = Empty
        /\ candidate' = 0
    BY <1>5 DEF FramedReject, FramedCommand, FramedHandshake, FramedExit, FramedRequest,
       DecodedFrame, NextPiece, Track
  <2>2. WholeInv'
    BY <1>0, <2>1 DEF WholeInv, LoopBuffer
  <2>3. ASSUME candidate # 0 PROVE candidate \in Waiting'
    <3>1. /\ m_cobs.len = 1 /\ m_cobs.body.kind = "COMMAND" /\ m_cobs.body.good
          /\ m_cobs.body.n = candidate
      BY <2>1, <2>3 DEF WholeInv, LoopBuffer
    <3>2. ProcessFrame(m_cobs)
      BY <3>1 DEF ProcessFrame, CobsDecodes, CrcMatches, FrameTypes
    <3>3. FramedCommand(p)
      BY <1>5, <3>1, <3>2 DEF FramedReject, FramedHandshake, FramedExit, FramedRequest, DecodedFrame
    <3>4. m_framedCommand' = candidate /\ m_hasFramedCommand' = TRUE
      BY <3>1, <3>3 DEF FramedCommand, StoreFramed
    <3> QED
      BY <3>4 DEF Waiting
  <2> QED
    BY <2>2, <2>3
<1>6. CASE EndBatch
  <2>1. /\ cpc' # "bytes" /\ loop' = m_mode /\ m_mode' = m_mode /\ m_line' = m_line
        /\ m_cobs' = m_cobs /\ m_probeActive' = m_probeActive
        /\ clean' = (clean /\ loop = m_mode)
        /\ candidate' = IF loop = m_mode THEN candidate ELSE 0
    BY <1>6 DEF EndBatch, cliVars, parserVars, probeVars
  <2>2. CASE loop = m_mode
    BY <2>1, <2>2 DEF WholeInv, LoopBuffer
  <2>3. CASE loop # m_mode
    BY <2>1, <2>3 DEF WholeInv, LoopBuffer
  <2> QED
    BY <2>2, <2>3
<1>7. CASE CommsInit \/ CommsTick
  <2>1. /\ cpc # "bytes" /\ cpc' = "bytes" /\ loop' = m_mode
        /\ UNCHANGED <<m_line, m_cobs, m_probeActive, clean, candidate>>
    BY <1>7 DEF CommsInit, CommsTick, CliTick, cliVars, parserVars, probeVars, ghostVars, trackVars
  <2> QED
    BY <2>1 DEF WholeInv, LoopBuffer
<1>8. CASE DrainStep
  <2>1. /\ cpc \in {"drain", "push", "ack", "nack"} /\ cpc' # "bytes"
        /\ UNCHANGED <<loop, m_mode, m_line, m_cobs, m_probeActive, clean, candidate>>
    BY <1>8 DEF DrainStep, TakeCommand, EndDrain, PushOk, PushFull, SendAck, SendNack, Answer,
       cliVars, parserVars, probeVars, ghostVars, trackVars
  <2> QED
    BY <2>1 DEF WholeInv, LoopBuffer
<1>9. CASE ControlStep \/ UNCHANGED vars
  <2>1. UNCHANGED <<cpc, loop, m_mode, m_line, m_cobs, m_probeActive, clean, candidate>>
    BY <1>9 DEF ControlStep, ControlTick, HandleCommand, EndCommands, ControlAbort, EndAbort,
       commsVars, vars, cliVars, parserVars, probeVars, ghostVars, trackVars
  <2> QED
    BY <2>1 DEF WholeInv, LoopBuffer
<1> QED
  BY <1>1, <1>2, <1>3, <1>4, <1>5, <1>6, <1>7, <1>8, <1>9 DEF Next, CommsStep

(* FrameDecoder.h:78-100, CommandParser.h:51-73: a command that stands      *)
(* whole between two separators is received, whatever came before it.       *)
THEOREM CommsWholeIsReceived == Spec => WholeIsReceived
<1>1. Init => WholeInv
  BY EmptyLemma DEF Init, WholeInv, LoopBuffer
<1>2. TypeOK /\ WholeInv /\ [Next]_vars
        => WholeInv' /\ [candidate # 0 /\ clean' => candidate \in Waiting']_vars
  BY WholeStep
<1>3. PipelineInv => TypeOK
  BY DEF PipelineInv
<1> QED
  BY <1>1, <1>2, <1>3, CommsInvariant, PTL DEF Spec, WholeIsReceived

-----------------------------------------------------------------------------
(* COBS.  What Cobs::encode and Cobs::decode compute for a message of any   *)
(* length.  First, that the traversal by runs of 16 is the plain one.       *)

(* Where the run c of a message of n bytes ends.                            *)
RunEnd(n, c) == IF n < 16 * c THEN n ELSE 16 * c

(* The runs of 16 follow on each other, and the last ends the message.      *)
LEMMA RunLemma ==
  ASSUME NEW n \in Nat, NEW m, m = (n + 15) \div 16
  PROVE  /\ m \in Nat /\ RunEnd(n, 0) = 0 /\ RunEnd(n, m) = n
         /\ \A c \in 1 .. m : /\ 16 * (c - 1) = RunEnd(n, c - 1) /\ 16 * (c - 1) \in Nat
                              /\ RunEnd(n, c) \in Nat /\ 16 * (c - 1) <= RunEnd(n, c) /\ RunEnd(n, c) <= n
<1>1. m \in Nat /\ 16 * m >= n /\ 16 * m <= n + 15
  OBVIOUS
<1>2. RunEnd(n, 0) = 0 /\ RunEnd(n, m) = n
  BY <1>1 DEF RunEnd
<1>3. ASSUME NEW c \in 1 .. m
      PROVE  /\ 16 * (c - 1) = RunEnd(n, c - 1) /\ 16 * (c - 1) \in Nat
             /\ RunEnd(n, c) \in Nat /\ 16 * (c - 1) <= RunEnd(n, c) /\ RunEnd(n, c) <= n
  <2>1. c \in Nat /\ c >= 1 /\ 16 * c <= n + 15
    BY <1>1
  <2> QED
    BY <2>1 DEF RunEnd
<1> QED
  BY <1>1, <1>2, <1>3

(* What Cobs::encode keeps: the bytes written, and the block still open.    *)
EncState == [out : Seq(Nat), block : Seq(Nat)]

(* Closing a block writes its bytes and one more.                           *)
LEMMA CloseType ==
  ASSUME NEW a \in EncState
  PROVE  CloseBlock(a) \in Seq(Nat) /\ Len(CloseBlock(a)) = Len(a.out) + 1 + Len(a.block)
<1>1. a.out \in Seq(Nat) /\ a.block \in Seq(Nat) /\ Len(a.block) + 1 \in Nat
  BY DEF EncState
<1>2. <<Len(a.block) + 1>> \in Seq(Nat) /\ Len(<<Len(a.block) + 1>>) = 1
  BY <1>1
<1>3. /\ a.out \o <<Len(a.block) + 1>> \in Seq(Nat)
      /\ Len(a.out \o <<Len(a.block) + 1>>) = Len(a.out) + 1
  BY <1>1, <1>2, ConcatProperties
<1> QED
  BY <1>1, <1>3, ConcatProperties DEF CloseBlock

(* The open block with one more byte.                                       *)
Longer(a, b) == [out |-> a.out, block |-> Append(a.block, b)]

(* The encoder when it has closed its block.                                *)
Closed(a) == [out |-> CloseBlock(a), block |-> <<>>]

(* One byte of Cobs::encode, by cases.                                      *)
LEMMA CobsByteLemma ==
  ASSUME NEW a \in EncState, NEW b \in Nat
  PROVE  /\ Longer(a, b) \in EncState /\ CobsByte(a, b) \in EncState
         /\ b = 0 => CobsByte(a, b) = Closed(a)
         /\ b # 0 /\ Len(a.block) = 253 => CobsByte(a, b) = Closed(Longer(a, b))
         /\ b # 0 /\ Len(a.block) # 253 => CobsByte(a, b) = Longer(a, b)
<1> DEFINE longer == [out |-> a.out, block |-> Append(a.block, b)]
<1>1. a.out \in Seq(Nat) /\ a.block \in Seq(Nat) /\ Len(a.block) \in Nat
  BY DEF EncState
<1>2. [a EXCEPT !.block = Append(@, b)] = longer
  <2> DEFINE x == Append(a.block, b)
  <2> HIDE DEF x
  <2>1. [a EXCEPT !.block = x] = [out |-> a.out, block |-> x]
    BY DEF EncState
  <2> QED
    BY <2>1 DEF x
<1>3. longer \in EncState /\ longer.block = Append(a.block, b) /\ Len(longer.block) = Len(a.block) + 1
  BY <1>1 DEF EncState
<1>4. CobsByte(a, b) = IF b = 0 THEN Closed(a)
                       ELSE IF Len(longer.block) + 1 = 255 THEN Closed(longer)
                       ELSE longer
  BY <1>2 DEF CobsByte, FullBlock, Closed
<1> HIDE DEF longer
<1>5. CloseBlock(a) \in Seq(Nat) /\ CloseBlock(longer) \in Seq(Nat)
  BY <1>3, CloseType
<1>6. Closed(a) \in EncState /\ Closed(longer) \in EncState
  BY <1>5 DEF EncState, Closed
<1>7. CobsByte(a, b) \in EncState
  BY <1>3, <1>4, <1>6
<1>8. /\ b = 0 => CobsByte(a, b) = Closed(a)
      /\ b # 0 /\ Len(a.block) = 253 => CobsByte(a, b) = Closed(longer)
      /\ b # 0 /\ Len(a.block) # 253 => CobsByte(a, b) = longer
  <2>1. Len(longer.block) + 1 = 255 <=> Len(a.block) = 253
    <3> DEFINE n == Len(a.block)
               k == Len(longer.block)
    <3>1. n \in Nat /\ k = n + 1
      BY <1>1, <1>3
    <3> HIDE DEF n, k
    <3>2. k + 1 = 255 <=> n = 253
      BY <3>1
    <3> QED
      BY <3>2 DEF n, k
  <2> QED
    BY <1>4, <2>1
<1>9. longer = Longer(a, b)
  BY DEF longer, Longer
<1> QED
  BY <1>3, <1>7, <1>8, <1>9

(* f carries the encoder from a over the bytes of a run.                    *)
EncRun(f, a, s, from, to) ==
  f = [i \in from .. to |-> IF i = from THEN a ELSE CobsByte(f[i - 1], s[i])]

(* F[n] is what the encoder keeps after n bytes of s.                       *)
Encodes(F, base, s) ==
  /\ F \in [Nat -> EncState] /\ F[0] = base
  /\ \A n \in Nat : n + 1 <= Len(s) => F[n + 1] = CobsByte(F[n], s[n + 1])

(* There is such an F.                                                      *)
LEMMA EncodesExists ==
  ASSUME NEW s \in Seq(Nat), NEW base \in EncState
  PROVE  \E F : Encodes(F, base, s)
<1> DEFINE step == [n \in Nat |-> [v \in EncState |->
                      IF n + 1 <= Len(s) THEN CobsByte(v, s[n + 1]) ELSE v]]
<1>1. step \in [Nat -> [EncState -> EncState]]
  <2>1. ASSUME NEW n \in Nat, NEW v \in EncState
        PROVE  (IF n + 1 <= Len(s) THEN CobsByte(v, s[n + 1]) ELSE v) \in EncState
    <3>1. CASE n + 1 <= Len(s)
      <4>1. s[n + 1] \in Nat
        BY <3>1
      <4>2. CobsByte(v, s[n + 1]) \in EncState
        BY <4>1, CobsByteLemma
      <4> QED
        BY <3>1, <4>2
    <3>2. CASE ~(n + 1 <= Len(s))
      BY <3>2
    <3> QED
      BY <3>1, <3>2
  <2> QED
    BY <2>1
<1>2. ASSUME NEW n \in Nat, NEW v \in EncState, n + 1 <= Len(s)
      PROVE  step[n][v] = CobsByte(v, s[n + 1])
  BY <1>2
<1> HIDE DEF step
<1>3. Recurrence(EncState, base, step)
  BY <1>1 DEF Recurrence
<1>4. PICK F \in [Nat -> EncState] : F[0] = base /\ \A n \in Nat : F[n + 1] = step[n][F[n]]
  <2>1. Solvable(EncState, base, step)
    BY <1>3, RecursionExists
  <2> QED
    BY <2>1, Zenon DEF Solvable
<1>5. ASSUME NEW n \in Nat, n + 1 <= Len(s) PROVE F[n + 1] = CobsByte(F[n], s[n + 1])
  BY <1>2, <1>4, <1>5
<1> QED
  BY <1>4, <1>5 DEF Encodes

(* On a run that begins where F is, the recursive function is F.            *)
LEMMA EncRunLemma ==
  ASSUME NEW s, NEW base, NEW F, Encodes(F, base, s), NEW from \in Nat, NEW to \in Nat, from <= to,
         Len(s) \in Nat, to <= Len(s)
  PROVE  (CHOOSE f : EncRun(f, F[from], s, from, to))[to] = F[to]
<1>0. ASSUME NEW i \in from .. to, i # from PROVE i - 1 \in from .. to /\ F[i] = CobsByte(F[i - 1], s[i])
  <2>1. i - 1 \in Nat /\ (i - 1) + 1 = i /\ i <= Len(s) /\ i - 1 \in from .. to
    BY <1>0
  <2> QED
    BY <2>1 DEF Encodes
<1> DEFINE h == [i \in from .. to |-> F[i]]
<1>1. EncRun(h, F[from], s, from, to)
  <2> DEFINE k == [i \in from .. to |-> IF i = from THEN F[from] ELSE CobsByte(h[i - 1], s[i])]
  <2>1. ASSUME NEW i \in from .. to PROVE h[i] = k[i]
    <3>1. CASE i = from
      BY <3>1
    <3>2. CASE i # from
      <4>1. h[i - 1] = F[i - 1] /\ h[i] = F[i]
        BY <3>2, <1>0
      <4> QED
        BY <3>2, <4>1, <1>0
    <3> QED
      BY <3>1, <3>2
  <2>2. h = k
    BY <2>1
  <2> QED
    BY <2>2 DEF EncRun
<1> DEFINE f == CHOOSE q : EncRun(q, F[from], s, from, to)
<1>2. EncRun(f, F[from], s, from, to)
  <2> HIDE DEF h
  <2> QED
    BY <1>1
<1> HIDE DEF f
<1>3. ASSUME NEW i \in from .. to
      PROVE  f[i] = IF i = from THEN F[from] ELSE CobsByte(f[i - 1], s[i])
  BY <1>2, Zenon DEF EncRun
<1> DEFINE S == {j \in Nat : from + j <= to => f[from + j] = F[from + j]}
<1>4. 0 \in S
  BY <1>3
<1>5. ASSUME NEW j \in Nat, j \in S PROVE j + 1 \in S
  <2> SUFFICES ASSUME from + (j + 1) <= to PROVE f[from + (j + 1)] = F[from + (j + 1)]
    OBVIOUS
  <2> DEFINE i == from + (j + 1)
  <2>1. i \in from .. to /\ i # from /\ i - 1 = from + j /\ from + j <= to
    OBVIOUS
  <2>2. f[i - 1] = F[i - 1]
    BY <1>5, <2>1
  <2> HIDE DEF i
  <2>3. f[i] = CobsByte(f[i - 1], s[i]) /\ F[i] = CobsByte(F[i - 1], s[i])
    BY <2>1, <1>0, <1>3
  <2>4. f[i] = F[i]
    BY <2>2, <2>3
  <2> QED
    BY <2>4 DEF i
<1>6. \A j \in Nat : j \in S
  <2> HIDE DEF S
  <2> QED
    BY <1>4, <1>5, SetInduction
<1>7. to - from \in Nat /\ from + (to - from) = to
  OBVIOUS
<1>8. f[to] = F[to]
  BY <1>6, <1>7
<1> QED
  BY <1>8 DEF f

(* What OverSeq makes of a run, and of the runs.                            *)
EncRunOf(a, s, c) ==
  (CHOOSE f : EncRun(f, a, s, 16 * (c - 1), RunEnd(Len(s), c)))[RunEnd(Len(s), c)]

EncRuns(g, base, s, m) ==
  g = [c \in 0 .. m |-> IF c = 0 THEN base ELSE CHOOSE r \in {EncRunOf(a, s, c) : a \in {g[c - 1]}} : TRUE]

(* Cobs::encode takes the bytes one after the other.                        *)
LEMMA EncodeFold ==
  ASSUME NEW s \in Seq(Nat), NEW base \in EncState
  PROVE  \E F : Encodes(F, base, s) /\ OverSeq(CobsByte, base, s) = F[Len(s)]
<1> DEFINE n == Len(s)
           m == (n + 15) \div 16
           g == CHOOSE q : EncRuns(q, base, s, m)
<1>1. PICK F : Encodes(F, base, s)
  BY EncodesExists
<1>2. OverSeq(CobsByte, base, s) = g[m]
  BY DEF OverSeq, EncRuns, EncRunOf, EncRun, RunEnd
<1>3. n \in Nat /\ m = (n + 15) \div 16
  OBVIOUS
<1>n. n = Len(s)
  OBVIOUS
<1> HIDE DEF n, m, g
<1>4. /\ m \in Nat /\ RunEnd(n, 0) = 0 /\ RunEnd(n, m) = n
      /\ \A c \in 1 .. m : /\ 16 * (c - 1) = RunEnd(n, c - 1) /\ 16 * (c - 1) \in Nat
                           /\ RunEnd(n, c) \in Nat /\ 16 * (c - 1) <= RunEnd(n, c) /\ RunEnd(n, c) <= n
  BY <1>3, RunLemma
<1>5. ASSUME NEW c \in 1 .. m, NEW v, v = F[RunEnd(n, c - 1)]
      PROVE  (CHOOSE r \in {EncRunOf(a, s, c) : a \in {v}} : TRUE) = F[RunEnd(n, c)]
  <2> DEFINE from == 16 * (c - 1)
             to == RunEnd(n, c)
  <2>1. from \in Nat /\ to \in Nat /\ from <= to /\ to <= Len(s) /\ Len(s) \in Nat /\ v = F[from]
    BY <1>3, <1>4, <1>5, <1>n
  <2>2. EncRunOf(v, s, c) = (CHOOSE f : EncRun(f, v, s, from, to))[to]
    BY <1>n, Zenon DEF EncRunOf
  <2> HIDE DEF from, to
  <2>3. (CHOOSE f : EncRun(f, F[from], s, from, to))[to] = F[to]
    BY <2>1, <1>1, EncRunLemma
  <2>4. EncRunOf(v, s, c) = F[to]
    BY <2>1, <2>2, <2>3
  <2>5. {EncRunOf(a, s, c) : a \in {v}} = {F[to]}
    BY <2>4
  <2> QED
    BY <2>5 DEF to
<1> DEFINE h == [c \in 0 .. m |-> F[RunEnd(n, c)]]
<1>6. EncRuns(h, base, s, m)
  <2> DEFINE k == [c \in 0 .. m |-> IF c = 0 THEN base
                                    ELSE CHOOSE r \in {EncRunOf(a, s, c) : a \in {h[c - 1]}} : TRUE]
  <2>1. ASSUME NEW c \in 0 .. m PROVE h[c] = k[c]
    <3>1. CASE c = 0
      BY <3>1, <1>1, <1>4 DEF Encodes
    <3>2. CASE c # 0
      <4>1. c \in 1 .. m /\ c - 1 \in 0 .. m
        BY <3>2, <1>4
      <4>2. h[c - 1] = F[RunEnd(n, c - 1)] /\ h[c] = F[RunEnd(n, c)]
        BY <4>1
      <4> HIDE DEF h
      <4>3. (CHOOSE r \in {EncRunOf(a, s, c) : a \in {h[c - 1]}} : TRUE) = F[RunEnd(n, c)]
        BY <4>1, <4>2, <1>5
      <4> QED
        BY <3>2, <4>2, <4>3
    <3> QED
      BY <3>1, <3>2
  <2>2. h = k
    BY <2>1
  <2> QED
    BY <2>2 DEF EncRuns
<1>7. EncRuns(g, base, s, m)
  <2> HIDE DEF h
  <2> QED
    BY <1>6 DEF g
<1>8. ASSUME NEW c \in 0 .. m
      PROVE  g[c] = IF c = 0 THEN base ELSE CHOOSE r \in {EncRunOf(a, s, c) : a \in {g[c - 1]}} : TRUE
  BY <1>7, Zenon DEF EncRuns
<1> DEFINE S == {c \in Nat : c <= m => g[c] = F[RunEnd(n, c)]}
<1>9. 0 \in S
  BY <1>1, <1>4, <1>8 DEF Encodes
<1>10. ASSUME NEW c \in Nat, c \in S PROVE c + 1 \in S
  <2> SUFFICES ASSUME c + 1 <= m PROVE g[c + 1] = F[RunEnd(n, c + 1)]
    OBVIOUS
  <2> DEFINE d == c + 1
  <2>1. d \in 1 .. m /\ d \in 0 .. m /\ d # 0 /\ d - 1 = c /\ c <= m
    BY <1>4
  <2>2. g[d - 1] = F[RunEnd(n, d - 1)]
    BY <1>10, <2>1
  <2> HIDE DEF d
  <2>3. g[d] = F[RunEnd(n, d)]
    BY <2>1, <2>2, <1>5, <1>8
  <2> QED
    BY <2>3 DEF d
<1>11. \A c \in Nat : c \in S
  <2> HIDE DEF S
  <2> QED
    BY <1>9, <1>10, SetInduction
<1>12. g[m] = F[n]
  BY <1>4, <1>11
<1> QED
  BY <1>1, <1>2, <1>12, <1>n

(* What Cobs::decode keeps.                                                 *)
DecState == [out : Seq(Nat), code : Nat, left : Int, bad : BOOLEAN]

(* What is decoded before the next block: a block that is not full stands   *)
(* for a zero too.                                                          *)
Decoded(a) == IF a.code \in 1..(FullBlock - 1) THEN Append(a.out, 0) ELSE a.out

(* One byte of Cobs::decode, by cases.                                      *)
LEMMA CobsUnbyteLemma ==
  ASSUME NEW a \in DecState, NEW b \in Nat
  PROVE  /\ CobsUnbyte(a, b) \in DecState
         /\ ~a.bad /\ b # 0 /\ a.left > 0 =>
              CobsUnbyte(a, b) = [out |-> Append(a.out, b), code |-> a.code, left |-> a.left - 1, bad |-> FALSE]
         /\ ~a.bad /\ b # 0 /\ a.left = 0 =>
              CobsUnbyte(a, b) = [out |-> Decoded(a), code |-> b, left |-> b - 1, bad |-> FALSE]
<1> DEFINE more == Append(a.out, b)
           zero == Decoded(a)
<1>1. /\ a.out \in Seq(Nat) /\ a.code \in Nat /\ a.left \in Int /\ a.bad \in BOOLEAN
      /\ more \in Seq(Nat) /\ zero \in Seq(Nat)
  BY DEF DecState, Decoded
<1> DEFINE next == [out |-> more, code |-> a.code, left |-> a.left - 1, bad |-> FALSE]
           open == [out |-> zero, code |-> b, left |-> b - 1, bad |-> FALSE]
<1>2. CobsUnbyte(a, b) = IF b = 0 \/ a.bad THEN [a EXCEPT !.bad = TRUE]
                         ELSE IF a.left > 0 THEN next ELSE open
  BY Zenon DEF CobsUnbyte, Decoded
<1> HIDE DEF more, zero
<1>3. [a EXCEPT !.bad = TRUE] \in DecState
  BY DEF DecState
<1>4. next \in DecState /\ open \in DecState
  BY <1>1 DEF DecState
<1> HIDE DEF next, open
<1>5. CobsUnbyte(a, b) \in DecState
  BY <1>2, <1>3, <1>4
<1>6. ASSUME ~a.bad, b # 0, a.left > 0 PROVE CobsUnbyte(a, b) = next
  BY <1>2, <1>6
<1>7. ASSUME ~a.bad, b # 0, a.left = 0 PROVE CobsUnbyte(a, b) = open
  <2>1. ~(a.left > 0)
    BY <1>7
  <2> QED
    BY <1>2, <1>7, <2>1
<1> QED
  BY <1>5, <1>6, <1>7 DEF more, zero, next, open

(* f carries the decoder from a over the bytes of a run.                    *)
DecRun(f, a, s, from, to) ==
  f = [i \in from .. to |-> IF i = from THEN a ELSE CobsUnbyte(f[i - 1], s[i])]

(* F[n] is what the decoder keeps after n bytes of s.                       *)
Decodes(F, base, s) ==
  /\ F \in [Nat -> DecState] /\ F[0] = base
  /\ \A n \in Nat : n + 1 <= Len(s) => F[n + 1] = CobsUnbyte(F[n], s[n + 1])

(* There is such an F.                                                      *)
LEMMA DecodesExists ==
  ASSUME NEW s \in Seq(Nat), NEW base \in DecState
  PROVE  \E F : Decodes(F, base, s)
<1> DEFINE step == [n \in Nat |-> [v \in DecState |->
                      IF n + 1 <= Len(s) THEN CobsUnbyte(v, s[n + 1]) ELSE v]]
<1>1. step \in [Nat -> [DecState -> DecState]]
  <2>1. ASSUME NEW n \in Nat, NEW v \in DecState
        PROVE  (IF n + 1 <= Len(s) THEN CobsUnbyte(v, s[n + 1]) ELSE v) \in DecState
    <3>1. CASE n + 1 <= Len(s)
      <4>1. s[n + 1] \in Nat
        BY <3>1
      <4>2. CobsUnbyte(v, s[n + 1]) \in DecState
        BY <4>1, CobsUnbyteLemma
      <4> QED
        BY <3>1, <4>2
    <3>2. CASE ~(n + 1 <= Len(s))
      BY <3>2
    <3> QED
      BY <3>1, <3>2
  <2> QED
    BY <2>1
<1>2. ASSUME NEW n \in Nat, NEW v \in DecState, n + 1 <= Len(s)
      PROVE  step[n][v] = CobsUnbyte(v, s[n + 1])
  BY <1>2
<1> HIDE DEF step
<1>3. Recurrence(DecState, base, step)
  BY <1>1 DEF Recurrence
<1>4. PICK F \in [Nat -> DecState] : F[0] = base /\ \A n \in Nat : F[n + 1] = step[n][F[n]]
  <2>1. Solvable(DecState, base, step)
    BY <1>3, RecursionExists
  <2> QED
    BY <2>1, Zenon DEF Solvable
<1>5. ASSUME NEW n \in Nat, n + 1 <= Len(s) PROVE F[n + 1] = CobsUnbyte(F[n], s[n + 1])
  BY <1>2, <1>4, <1>5
<1> QED
  BY <1>4, <1>5 DEF Decodes

(* On a run that begins where F is, the recursive function is F.            *)
LEMMA DecRunLemma ==
  ASSUME NEW s, NEW base, NEW F, Decodes(F, base, s), NEW from \in Nat, NEW to \in Nat, from <= to,
         Len(s) \in Nat, to <= Len(s)
  PROVE  (CHOOSE f : DecRun(f, F[from], s, from, to))[to] = F[to]
<1>0. ASSUME NEW i \in from .. to, i # from PROVE i - 1 \in from .. to /\ F[i] = CobsUnbyte(F[i - 1], s[i])
  <2>1. i - 1 \in Nat /\ (i - 1) + 1 = i /\ i <= Len(s) /\ i - 1 \in from .. to
    BY <1>0
  <2> QED
    BY <2>1 DEF Decodes
<1> DEFINE h == [i \in from .. to |-> F[i]]
<1>1. DecRun(h, F[from], s, from, to)
  <2> DEFINE k == [i \in from .. to |-> IF i = from THEN F[from] ELSE CobsUnbyte(h[i - 1], s[i])]
  <2>1. ASSUME NEW i \in from .. to PROVE h[i] = k[i]
    <3>1. CASE i = from
      BY <3>1
    <3>2. CASE i # from
      <4>1. h[i - 1] = F[i - 1] /\ h[i] = F[i]
        BY <3>2, <1>0
      <4> QED
        BY <3>2, <4>1, <1>0
    <3> QED
      BY <3>1, <3>2
  <2>2. h = k
    BY <2>1
  <2> QED
    BY <2>2 DEF DecRun
<1> DEFINE f == CHOOSE q : DecRun(q, F[from], s, from, to)
<1>2. DecRun(f, F[from], s, from, to)
  <2> HIDE DEF h
  <2> QED
    BY <1>1
<1> HIDE DEF f
<1>3. ASSUME NEW i \in from .. to
      PROVE  f[i] = IF i = from THEN F[from] ELSE CobsUnbyte(f[i - 1], s[i])
  BY <1>2, Zenon DEF DecRun
<1> DEFINE S == {j \in Nat : from + j <= to => f[from + j] = F[from + j]}
<1>4. 0 \in S
  BY <1>3
<1>5. ASSUME NEW j \in Nat, j \in S PROVE j + 1 \in S
  <2> SUFFICES ASSUME from + (j + 1) <= to PROVE f[from + (j + 1)] = F[from + (j + 1)]
    OBVIOUS
  <2> DEFINE i == from + (j + 1)
  <2>1. i \in from .. to /\ i # from /\ i - 1 = from + j /\ from + j <= to
    OBVIOUS
  <2>2. f[i - 1] = F[i - 1]
    BY <1>5, <2>1
  <2> HIDE DEF i
  <2>3. f[i] = CobsUnbyte(f[i - 1], s[i]) /\ F[i] = CobsUnbyte(F[i - 1], s[i])
    BY <2>1, <1>0, <1>3
  <2>4. f[i] = F[i]
    BY <2>2, <2>3
  <2> QED
    BY <2>4 DEF i
<1>6. \A j \in Nat : j \in S
  <2> HIDE DEF S
  <2> QED
    BY <1>4, <1>5, SetInduction
<1>7. to - from \in Nat /\ from + (to - from) = to
  OBVIOUS
<1>8. f[to] = F[to]
  BY <1>6, <1>7
<1> QED
  BY <1>8 DEF f

(* What OverSeq makes of a run, and of the runs.                            *)
DecRunOf(a, s, c) ==
  (CHOOSE f : DecRun(f, a, s, 16 * (c - 1), RunEnd(Len(s), c)))[RunEnd(Len(s), c)]

DecRuns(g, base, s, m) ==
  g = [c \in 0 .. m |-> IF c = 0 THEN base ELSE CHOOSE r \in {DecRunOf(a, s, c) : a \in {g[c - 1]}} : TRUE]

(* Cobs::decode takes the bytes one after the other.                        *)
LEMMA DecodeFold ==
  ASSUME NEW s \in Seq(Nat), NEW base \in DecState
  PROVE  \E F : Decodes(F, base, s) /\ OverSeq(CobsUnbyte, base, s) = F[Len(s)]
<1> DEFINE n == Len(s)
           m == (n + 15) \div 16
           g == CHOOSE q : DecRuns(q, base, s, m)
<1>1. PICK F : Decodes(F, base, s)
  BY DecodesExists
<1>2. OverSeq(CobsUnbyte, base, s) = g[m]
  BY DEF OverSeq, DecRuns, DecRunOf, DecRun, RunEnd
<1>3. n \in Nat /\ m = (n + 15) \div 16
  OBVIOUS
<1>n. n = Len(s)
  OBVIOUS
<1> HIDE DEF n, m, g
<1>4. /\ m \in Nat /\ RunEnd(n, 0) = 0 /\ RunEnd(n, m) = n
      /\ \A c \in 1 .. m : /\ 16 * (c - 1) = RunEnd(n, c - 1) /\ 16 * (c - 1) \in Nat
                           /\ RunEnd(n, c) \in Nat /\ 16 * (c - 1) <= RunEnd(n, c) /\ RunEnd(n, c) <= n
  BY <1>3, RunLemma
<1>5. ASSUME NEW c \in 1 .. m, NEW v, v = F[RunEnd(n, c - 1)]
      PROVE  (CHOOSE r \in {DecRunOf(a, s, c) : a \in {v}} : TRUE) = F[RunEnd(n, c)]
  <2> DEFINE from == 16 * (c - 1)
             to == RunEnd(n, c)
  <2>1. from \in Nat /\ to \in Nat /\ from <= to /\ to <= Len(s) /\ Len(s) \in Nat /\ v = F[from]
    BY <1>3, <1>4, <1>5, <1>n
  <2>2. DecRunOf(v, s, c) = (CHOOSE f : DecRun(f, v, s, from, to))[to]
    BY <1>n, Zenon DEF DecRunOf
  <2> HIDE DEF from, to
  <2>3. (CHOOSE f : DecRun(f, F[from], s, from, to))[to] = F[to]
    BY <2>1, <1>1, DecRunLemma
  <2>4. DecRunOf(v, s, c) = F[to]
    BY <2>1, <2>2, <2>3
  <2>5. {DecRunOf(a, s, c) : a \in {v}} = {F[to]}
    BY <2>4
  <2> QED
    BY <2>5 DEF to
<1> DEFINE h == [c \in 0 .. m |-> F[RunEnd(n, c)]]
<1>6. DecRuns(h, base, s, m)
  <2> DEFINE k == [c \in 0 .. m |-> IF c = 0 THEN base
                                    ELSE CHOOSE r \in {DecRunOf(a, s, c) : a \in {h[c - 1]}} : TRUE]
  <2>1. ASSUME NEW c \in 0 .. m PROVE h[c] = k[c]
    <3>1. CASE c = 0
      BY <3>1, <1>1, <1>4 DEF Decodes
    <3>2. CASE c # 0
      <4>1. c \in 1 .. m /\ c - 1 \in 0 .. m
        BY <3>2, <1>4
      <4>2. h[c - 1] = F[RunEnd(n, c - 1)] /\ h[c] = F[RunEnd(n, c)]
        BY <4>1
      <4> HIDE DEF h
      <4>3. (CHOOSE r \in {DecRunOf(a, s, c) : a \in {h[c - 1]}} : TRUE) = F[RunEnd(n, c)]
        BY <4>1, <4>2, <1>5
      <4> QED
        BY <3>2, <4>2, <4>3
    <3> QED
      BY <3>1, <3>2
  <2>2. h = k
    BY <2>1
  <2> QED
    BY <2>2 DEF DecRuns
<1>7. DecRuns(g, base, s, m)
  <2> HIDE DEF h
  <2> QED
    BY <1>6 DEF g
<1>8. ASSUME NEW c \in 0 .. m
      PROVE  g[c] = IF c = 0 THEN base ELSE CHOOSE r \in {DecRunOf(a, s, c) : a \in {g[c - 1]}} : TRUE
  BY <1>7, Zenon DEF DecRuns
<1> DEFINE S == {c \in Nat : c <= m => g[c] = F[RunEnd(n, c)]}
<1>9. 0 \in S
  BY <1>1, <1>4, <1>8 DEF Decodes
<1>10. ASSUME NEW c \in Nat, c \in S PROVE c + 1 \in S
  <2> SUFFICES ASSUME c + 1 <= m PROVE g[c + 1] = F[RunEnd(n, c + 1)]
    OBVIOUS
  <2> DEFINE d == c + 1
  <2>1. d \in 1 .. m /\ d \in 0 .. m /\ d # 0 /\ d - 1 = c /\ c <= m
    BY <1>4
  <2>2. g[d - 1] = F[RunEnd(n, d - 1)]
    BY <1>10, <2>1
  <2> HIDE DEF d
  <2>3. g[d] = F[RunEnd(n, d)]
    BY <2>1, <2>2, <1>5, <1>8
  <2> QED
    BY <2>3 DEF d
<1>11. \A c \in Nat : c \in S
  <2> HIDE DEF S
  <2> QED
    BY <1>9, <1>10, SetInduction
<1>12. g[m] = F[n]
  BY <1>4, <1>11
<1> QED
  BY <1>1, <1>2, <1>12, <1>n

-----------------------------------------------------------------------------
(* What sequences of bytes do when they grow.                               *)
LEMMA PrefixGrows ==
  ASSUME NEW s \in Seq(Nat), NEW k \in Nat, k + 1 <= Len(s)
  PROVE  /\ SubSeq(s, 1, k) \in Seq(Nat) /\ s[k + 1] \in Nat
         /\ SubSeq(s, 1, k + 1) = Append(SubSeq(s, 1, k), s[k + 1])
<1>1. Len(s) \in Nat /\ s[k + 1] \in Nat
  OBVIOUS
<1> DEFINE p == SubSeq(s, 1, k)
           q == SubSeq(s, 1, k + 1)
           r == Append(p, s[k + 1])
<1>2. p \in Seq(Nat) /\ Len(p) = k /\ \A i \in 1 .. k : p[i] = s[i]
  BY <1>1
<1>3. q \in Seq(Nat) /\ Len(q) = k + 1 /\ \A i \in 1 .. k + 1 : q[i] = s[i]
  BY <1>1
<1> HIDE DEF p, q
<1>4. r \in Seq(Nat) /\ Len(r) = k + 1 /\ r[k + 1] = s[k + 1] /\ \A i \in 1 .. k : r[i] = p[i]
  BY <1>1, <1>2
<1> HIDE DEF r
<1>5. ASSUME NEW i \in 1 .. k + 1 PROVE q[i] = r[i]
  <2>1. CASE i = k + 1
    BY <2>1, <1>3, <1>4
  <2>2. CASE i # k + 1
    <3>1. i \in 1 .. k
      BY <2>2
    <3>2. q[i] = s[i] /\ r[i] = p[i] /\ p[i] = s[i]
      BY <3>1, <1>2, <1>3, <1>4
    <3> QED
      BY <3>2
  <2> QED
    BY <2>1, <2>2
<1>6. q = r
  BY <1>3, <1>4, <1>5, SeqEqual
<1> QED
  BY <1>1, <1>2, <1>6 DEF p, q, r

(* A byte appended to the second of two sequences is appended to both.      *)
LEMMA AppendLast ==
  ASSUME NEW s \in Seq(Nat), NEW t \in Seq(Nat), NEW b \in Nat
  PROVE  s \o t \in Seq(Nat) /\ Len(s \o t) = Len(s) + Len(t) /\ s \o Append(t, b) = Append(s \o t, b)
<1> DEFINE u == s \o t
           w == Append(t, b)
           x == s \o w
           y == Append(u, b)
           n == Len(s)
           m == Len(t)
<1>1. n \in Nat /\ m \in Nat
  OBVIOUS
<1>2. u \in Seq(Nat) /\ Len(u) = n + m
  BY ConcatProperties
<1>3. \A i \in 1 .. n + m : u[i] = IF i <= n THEN s[i] ELSE t[i - n]
  OBVIOUS
<1>4. w \in Seq(Nat) /\ Len(w) = m + 1 /\ w[m + 1] = b /\ \A i \in 1 .. m : w[i] = t[i]
  OBVIOUS
<1> HIDE DEF w
<1>5. x \in Seq(Nat) /\ Len(x) = n + (m + 1)
  <2>1. x \in Seq(Nat) /\ Len(x) = Len(s) + Len(w)
    BY <1>4, ConcatProperties
  <2> QED
    BY <2>1, <1>4
<1>6. \A i \in 1 .. n + (m + 1) : x[i] = IF i <= n THEN s[i] ELSE w[i - n]
  BY <1>4
<1> HIDE DEF u, x
<1>7. y \in Seq(Nat) /\ Len(y) = n + m + 1 /\ y[n + m + 1] = b /\ \A i \in 1 .. n + m : y[i] = u[i]
  BY <1>2
<1> HIDE DEF y
<1>8. ASSUME NEW i \in 1 .. n + m + 1 PROVE x[i] = y[i]
  <2>1. CASE i <= n
    <3>1. i \in 1 .. n + m /\ i \in 1 .. n + (m + 1)
      BY <2>1, <1>1
    <3> QED
      BY <2>1, <3>1, <1>3, <1>6, <1>7
  <2>2. CASE i > n /\ i <= n + m
    <3>1. i \in 1 .. n + m /\ i \in 1 .. n + (m + 1) /\ ~(i <= n) /\ i - n \in 1 .. m
      BY <2>2, <1>1
    <3>2. w[i - n] = t[i - n]
      BY <3>1, <1>4
    <3> QED
      BY <3>1, <3>2, <1>3, <1>6, <1>7
  <2>3. CASE i = n + m + 1
    <3>1. i \in 1 .. n + (m + 1) /\ ~(i <= n) /\ i - n = m + 1
      BY <2>3, <1>1
    <3>2. w[m + 1] = b
      BY <1>4
    <3> QED
      BY <2>3, <3>1, <3>2, <1>6, <1>7
  <2> QED
    BY <1>1, <2>1, <2>2, <2>3
<1>9. x = y
  <2>1. Len(x) = Len(y)
    BY <1>1, <1>5, <1>7
  <2>2. \A i \in 1 .. Len(x) : x[i] = y[i]
    BY <1>1, <1>5, <1>7, <1>8
  <2> QED
    BY <1>5, <1>7, <2>1, <2>2, SeqEqual
<1> QED
  BY <1>2, <1>9 DEF u, w, x, y

(* Concatenation with a single byte, and with nothing.                      *)
LEMMA AppendOne ==
  ASSUME NEW s \in Seq(Nat), NEW b \in Nat
  PROVE  s \o <<b>> = Append(s, b) /\ s \o <<>> = s /\ <<>> \o s = s
OBVIOUS

-----------------------------------------------------------------------------
(* What Cobs::decode has made of the bytes s.                               *)
DecInit == [out |-> << >>, code |-> 0, left |-> 0, bad |-> FALSE]

Decoder(s) == OverSeq(CobsUnbyte, DecInit, s)

(* The state the decoder starts in.                                         *)
LEMMA DecInitType == DecInit \in DecState
BY DEF DecInit, DecState

(* No byte read: the decoder is where it starts.                            *)
LEMMA DecodeEmpty == Decoder(<<>>) = DecInit
<1>1. <<>> \in Seq(Nat) /\ Len(<<>>) = 0
  OBVIOUS
<1>2. PICK F : Decodes(F, DecInit, <<>>) /\ OverSeq(CobsUnbyte, DecInit, <<>>) = F[Len(<<>>)]
  BY <1>1, DecInitType, DecodeFold
<1>3. F[0] = DecInit
  BY <1>2 DEF Decodes
<1> QED
  BY <1>1, <1>2, <1>3 DEF Decoder

(* One more byte is one more step.                                          *)
LEMMA DecodeAppend ==
  ASSUME NEW s \in Seq(Nat), NEW b \in Nat
  PROVE  Decoder(s) \in DecState /\ Decoder(Append(s, b)) = CobsUnbyte(Decoder(s), b)
<1> DEFINE t == Append(s, b)
           n == Len(s)
<1>1. t \in Seq(Nat) /\ n \in Nat /\ Len(t) = n + 1 /\ t[n + 1] = b /\ \A i \in 1 .. n : t[i] = s[i]
  OBVIOUS
<1>2. PICK F : Decodes(F, DecInit, s) /\ OverSeq(CobsUnbyte, DecInit, s) = F[Len(s)]
  BY DecInitType, DecodeFold
<1> HIDE DEF t
<1>3. PICK G : Decodes(G, DecInit, t) /\ OverSeq(CobsUnbyte, DecInit, t) = G[Len(t)]
  BY <1>1, DecInitType, DecodeFold
<1>n. n = Len(s)
  OBVIOUS
<1> HIDE DEF n
<1> DEFINE S == {k \in Nat : k <= n => F[k] = G[k]}
<1>4. 0 \in S
  BY <1>2, <1>3 DEF Decodes
<1>5. ASSUME NEW k \in Nat, k \in S PROVE k + 1 \in S
  <2> SUFFICES ASSUME k + 1 <= n PROVE F[k + 1] = G[k + 1]
    OBVIOUS
  <2>1. k <= n /\ k + 1 \in 1 .. n /\ k + 1 <= Len(s) /\ k + 1 <= Len(t)
    BY <1>1, <1>n
  <2>2. F[k] = G[k] /\ t[k + 1] = s[k + 1]
    BY <1>1, <1>5, <2>1
  <2>3. F[k + 1] = CobsUnbyte(F[k], s[k + 1])
    BY <1>2, <2>1 DEF Decodes
  <2>4. G[k + 1] = CobsUnbyte(G[k], t[k + 1])
    BY <1>3, <2>1 DEF Decodes
  <2> QED
    BY <2>2, <2>3, <2>4
<1>6. \A k \in Nat : k \in S
  <2> HIDE DEF S
  <2> QED
    BY <1>4, <1>5, SetInduction
<1>7. F[n] = G[n]
  BY <1>1, <1>6
<1>8. n + 1 <= Len(t)
  BY <1>1
<1>9. G[n + 1] = CobsUnbyte(G[n], t[n + 1])
  BY <1>1, <1>3, <1>8 DEF Decodes
<1>10. F[n] \in DecState
  BY <1>1, <1>2 DEF Decodes
<1>11. Decoder(s) = F[n] /\ Decoder(t) = G[n + 1]
  BY <1>1, <1>2, <1>3, <1>n DEF Decoder
<1>12. Decoder(t) = CobsUnbyte(Decoder(s), b)
  BY <1>1, <1>7, <1>9, <1>11
<1> QED
  BY <1>10, <1>11, <1>12 DEF t

(* A byte that is not zero.                                                 *)
Byte == 1 .. 255

(* What is such a byte: every code, too.                                    *)
LEMMA ByteFacts ==
  /\ \A v \in Byte : v \in Nat /\ v # 0
  /\ \A v \in 0 .. 255 : v \in Nat /\ (v # 0 => v \in Byte)
  /\ \A k \in Nat : k <= 254 => k + 1 \in Byte
  /\ \A k \in Nat : k <= 253 => k + 1 \in 1 .. FullBlock - 1
<1>1. \A v \in Byte : v \in Nat /\ v # 0
  BY DEF Byte
<1>2. \A v \in 0 .. 255 : v \in Nat /\ (v # 0 => v \in Byte)
  BY DEF Byte
<1>3. \A k \in Nat : k <= 254 => k + 1 \in Byte
  BY DEF Byte
<1>4. \A k \in Nat : k <= 253 => k + 1 \in 1 .. FullBlock - 1
  BY DEF FullBlock
<1> QED
  BY <1>1, <1>2, <1>3, <1>4

(* A sequence of non-zero bytes is one of numbers.                          *)
LEMMA ByteSeq ==
  ASSUME NEW s \in Seq(Byte)
  PROVE  s \in Seq(Nat) /\ \A i \in 1 .. Len(s) : s[i] \in Byte
<1>1. Len(s) \in Nat /\ \A i \in 1 .. Len(s) : s[i] \in Byte
  OBVIOUS
<1>3. \A i \in 1 .. Len(s) : s[i] \in Nat
  BY <1>1, ByteFacts
<1> QED
  BY <1>1, <1>3

(* A block read from its code byte on.                                      *)
LEMMA DecodeBlock ==
  ASSUME NEW s \in Seq(Nat), NEW block \in Seq(Byte), Len(block) <= 254,
         Decoder(s).left = 0, ~Decoder(s).bad
  PROVE  /\ Decoded(Decoder(s)) \in Seq(Nat)
         /\ Decoder(Append(s, Len(block) + 1) \o block) =
              [out |-> Decoded(Decoder(s)) \o block, code |-> Len(block) + 1, left |-> 0, bad |-> FALSE]
<1> DEFINE a == Decoder(s)
           n == Len(block)
           c == n + 1
           q == Append(s, c)
           out0 == Decoded(a)
<1>1. n \in Nat /\ n <= 254 /\ c \in Nat /\ c # 0 /\ c - 1 = n
  OBVIOUS
<1>2. block \in Seq(Nat) /\ \A i \in 1 .. n : block[i] \in Byte
  BY ByteSeq
<1>n. n = Len(block) /\ c = n + 1
  OBVIOUS
<1>a. a.left = 0 /\ ~a.bad
  OBVIOUS
<1> HIDE DEF n, c, a
<1>3. a \in DecState /\ Decoder(q) = CobsUnbyte(a, c)
  BY <1>1, DecodeAppend DEF a
<1>4. Decoder(q) = [out |-> out0, code |-> c, left |-> n, bad |-> FALSE]
  BY <1>1, <1>3, <1>a, CobsUnbyteLemma
<1>5. out0 \in Seq(Nat) /\ q \in Seq(Nat)
  <2>1. a.out \in Seq(Nat)
    BY <1>3 DEF DecState
  <2> QED
    BY <1>1, <2>1 DEF Decoded
<1> HIDE DEF q, out0
<1> DEFINE P(k) == SubSeq(block, 1, k)
           S == {k \in Nat : k <= n => Decoder(q \o P(k)) = [out |-> out0 \o P(k), code |-> c, left |-> n - k, bad |-> FALSE]}
<1>6. 0 \in S
  <2>1. P(0) = <<>>
    BY <1>2
  <2>2. q \o P(0) = q /\ out0 \o P(0) = out0
    BY <1>5, <2>1, AppendOne
  <2>3. n - 0 = n
    BY <1>1
  <2> HIDE DEF P
  <2> QED
    BY <1>4, <2>2, <2>3
<1>7. ASSUME NEW k \in Nat, k \in S PROVE k + 1 \in S
  <2> SUFFICES ASSUME k + 1 <= n
               PROVE  Decoder(q \o P(k + 1)) = [out |-> out0 \o P(k + 1), code |-> c, left |-> n - (k + 1), bad |-> FALSE]
    OBVIOUS
  <2> DEFINE b == block[k + 1]
  <2>1. k <= n /\ k + 1 \in 1 .. n /\ k + 1 <= Len(block) /\ n - k > 0 /\ (n - k) - 1 = n - (k + 1) /\ n - k \in Int
    BY <1>1, <1>n
  <2>2. P(k) \in Seq(Nat) /\ P(k + 1) = Append(P(k), b)
    BY <1>2, <2>1, PrefixGrows
  <2>3. b \in Nat /\ b # 0
    <3>1. block[k + 1] \in Byte
      BY <1>2, <2>1
    <3> QED
      BY <3>1, ByteFacts
  <2> DEFINE x == q \o P(k)
             z == out0 \o P(k)
             p == P(k)
  <2>4. Decoder(x) = [out |-> z, code |-> c, left |-> n - k, bad |-> FALSE]
    BY <1>7, <2>1
  <2> HIDE DEF P, b
  <2>5. x \in Seq(Nat) /\ q \o P(k + 1) = Append(x, b)
    <3>1. x = q \o p /\ p \in Seq(Nat) /\ P(k + 1) = Append(p, b)
      BY <2>2
    <3> HIDE DEF x, p
    <3>2. q \o p \in Seq(Nat) /\ q \o Append(p, b) = Append(q \o p, b)
      BY <1>5, <2>3, <3>1, AppendLast
    <3> QED
      BY <3>1, <3>2
  <2>6. z \in Seq(Nat) /\ out0 \o P(k + 1) = Append(z, b)
    <3>1. z = out0 \o p /\ p \in Seq(Nat) /\ P(k + 1) = Append(p, b)
      BY <2>2
    <3> HIDE DEF z, p
    <3>2. out0 \o p \in Seq(Nat) /\ out0 \o Append(p, b) = Append(out0 \o p, b)
      BY <1>5, <2>3, <3>1, AppendLast
    <3> QED
      BY <3>1, <3>2
  <2> HIDE DEF x, z
  <2>7. Decoder(x) \in DecState /\ Decoder(Append(x, b)) = CobsUnbyte(Decoder(x), b)
    BY <2>3, <2>5, DecodeAppend
  <2> DEFINE d == Decoder(x)
  <2>8. d.out = z /\ d.code = c /\ d.left = n - k /\ ~d.bad /\ d.left > 0
    BY <2>1, <2>4
  <2> HIDE DEF d
  <2>9. CobsUnbyte(d, b) = [out |-> Append(d.out, b), code |-> d.code, left |-> d.left - 1, bad |-> FALSE]
    BY <2>3, <2>7, <2>8, CobsUnbyteLemma DEF d
  <2>10. CobsUnbyte(d, b) = [out |-> Append(z, b), code |-> c, left |-> n - (k + 1), bad |-> FALSE]
    BY <2>1, <2>8, <2>9
  <2> QED
    BY <2>5, <2>6, <2>7, <2>10 DEF d
<1>8. n \in S
  <2> HIDE DEF S
  <2> QED
    BY <1>1, <1>6, <1>7, SetInduction
<1>9. P(n) = block
  BY <1>2, <1>n
<1>10. n - n = 0 /\ n <= n
  BY <1>1
<1> HIDE DEF P
<1>11. Decoder(q \o block) = [out |-> out0 \o block, code |-> c, left |-> 0, bad |-> FALSE]
  BY <1>8, <1>9, <1>10
<1> QED
  BY <1>5, <1>11, <1>n DEF q, out0, a

(* Closing a block: nothing but non-zero bytes, and the decoder is where    *)
(* the encoder is.                                                          *)
LEMMA CloseDecoded ==
  ASSUME NEW a \in EncState, a.out \in Seq(Byte), a.block \in Seq(Byte), Len(a.block) <= 254,
         Decoder(a.out).left = 0, ~Decoder(a.out).bad
  PROVE  /\ Decoded(Decoder(a.out)) \in Seq(Nat)
         /\ CloseBlock(a) \in Seq(Byte) /\ Len(CloseBlock(a)) = Len(a.out) + 1 + Len(a.block)
         /\ Decoder(CloseBlock(a)) = [out |-> Decoded(Decoder(a.out)) \o a.block, code |-> Len(a.block) + 1,
                                left |-> 0, bad |-> FALSE]
<1> DEFINE s == a.out
           block == a.block
           c == Len(block) + 1
<1>1. s \in Seq(Byte) /\ block \in Seq(Byte) /\ s \in Seq(Nat) /\ c \in Byte /\ c \in Nat
  <2>1. Len(a.block) \in Nat
    OBVIOUS
  <2>2. c \in Byte /\ c \in Nat
    BY <2>1, ByteFacts
  <2> QED
    BY <2>2, ByteSeq
<1>2. CloseBlock(a) = s \o <<c>> \o block
  BY DEF CloseBlock
<1>3. Decoder(s).left = 0 /\ ~Decoder(s).bad /\ Len(block) <= 254
  OBVIOUS
<1>4. c = Len(block) + 1
  OBVIOUS
<1>5. Len(CloseBlock(a)) = Len(a.out) + 1 + Len(a.block)
  BY CloseType
<1> HIDE DEF s, block, c
<1>6. s \o <<c>> = Append(s, c)
  BY <1>1, AppendOne
<1>7. Append(s, c) \in Seq(Byte)
  BY <1>1
<1>8. Append(s, c) \o block \in Seq(Byte)
  BY <1>1, <1>7, ConcatProperties
<1>9. /\ Decoded(Decoder(s)) \in Seq(Nat)
      /\ Decoder(Append(s, c) \o block) = [out |-> Decoded(Decoder(s)) \o block, code |-> c, left |-> 0, bad |-> FALSE]
  BY <1>1, <1>3, <1>4, DecodeBlock
<1>10. CloseBlock(a) = Append(s, c) \o block
  BY <1>2, <1>6
<1> QED
  BY <1>4, <1>5, <1>8, <1>9, <1>10 DEF s, block

(* The encoder after the bytes p: the decoder would have made of what it    *)
(* has written, with the bytes of the open block, exactly p; full counts    *)
(* the full blocks, each of which costs one byte more than it stands for.   *)
EncGood(e, p) ==
  /\ e \in EncState /\ e.out \in Seq(Byte) /\ e.block \in Seq(Byte) /\ Len(e.block) <= 253
  /\ Decoder(e.out).left = 0 /\ ~Decoder(e.out).bad
  /\ Decoded(Decoder(e.out)) \o e.block = p
  /\ \E full \in Nat : 254 * full + Len(e.block) <= Len(p) /\ Len(e.out) + Len(e.block) = Len(p) + full

(* One more byte of the message keeps it so: it ends a block, fills one, or *)
(* joins the open one.                                                      *)
LEMMA EncGoodStep ==
  ASSUME NEW e, NEW p \in Seq(Nat), EncGood(e, p), NEW b \in 0 .. 255
  PROVE  EncGood(CobsByte(e, b), Append(p, b))
<1> DEFINE out0 == Decoded(Decoder(e.out))
           longer == Longer(e, b)
           next == CobsByte(e, b)
           pb == Append(p, b)
           n == Len(p)
           o == Len(e.out)
           k == Len(e.block)
<1>1. b \in Nat /\ pb \in Seq(Nat) /\ Len(pb) = n + 1 /\ n \in Nat
  OBVIOUS
<1>2. /\ e \in EncState /\ e.out \in Seq(Byte) /\ e.block \in Seq(Byte) /\ k <= 253
      /\ o \in Nat /\ k \in Nat /\ Decoder(e.out).left = 0 /\ ~Decoder(e.out).bad /\ out0 \o e.block = p
  BY DEF EncGood
<1>3. PICK full \in Nat : 254 * full + k <= n /\ o + k = n + full
  BY DEF EncGood
<1>4. /\ out0 \in Seq(Nat) /\ CloseBlock(e) \in Seq(Byte) /\ Len(CloseBlock(e)) = o + 1 + k
      /\ Decoder(CloseBlock(e)) = [out |-> out0 \o e.block, code |-> k + 1, left |-> 0, bad |-> FALSE]
  <2>1. Len(e.block) <= 254
    BY <1>2
  <2> QED
    BY <1>2, <2>1, CloseDecoded
<1>d. n = Len(p) /\ o = Len(e.out) /\ k = Len(e.block) /\ pb = Append(p, b)
  OBVIOUS
<1> HIDE DEF n, o, k, pb
<1>5. CASE b = 0
  <2> DEFINE cl == CloseBlock(e)
  <2>1. next = Closed(e) /\ next \in EncState
    BY <1>1, <1>2, <1>5, CobsByteLemma
  <2> HIDE DEF cl
  <2>2. next.out = cl /\ next.block = <<>>
    BY <2>1 DEF Closed, cl
  <2>3. Decoder(cl) = [out |-> p, code |-> k + 1, left |-> 0, bad |-> FALSE]
    BY <1>2, <1>4 DEF cl
  <2>4. k + 1 \in 1 .. FullBlock - 1
    BY <1>2, ByteFacts
  <2>5. Decoder(cl).left = 0 /\ ~Decoder(cl).bad /\ Decoder(cl).out = p /\ Decoder(cl).code = k + 1
    BY <2>3
  <2>6. Decoded(Decoder(cl)) = pb
    BY <2>4, <2>5, <1>5, <1>d DEF Decoded
  <2>7. cl \in Seq(Byte) /\ Len(cl) = o + 1 + k
    BY <1>4 DEF cl
  <2>8. <<>> \in Seq(Byte) /\ Len(<<>>) = 0
    OBVIOUS
  <2> HIDE DEF next
  <2>9. 254 * full + 0 <= Len(pb) /\ Len(cl) + 0 = Len(pb) + full
    BY <1>1, <1>2, <1>3, <2>7
  <2>10. \E f \in Nat : 254 * f + Len(next.block) <= Len(pb) /\ Len(next.out) + Len(next.block) = Len(pb) + f
    BY <2>2, <2>8, <2>9
  <2>11. pb \o <<>> = pb
    BY <1>1, AppendOne
  <2>12. Decoded(Decoder(next.out)) \o next.block = pb
    BY <2>2, <2>6, <2>11
  <2>13. /\ next.out \in Seq(Byte) /\ next.block \in Seq(Byte) /\ Len(next.block) <= 253
         /\ Decoder(next.out).left = 0 /\ ~Decoder(next.out).bad
    BY <2>2, <2>5, <2>7, <2>8
  <2>14. EncGood(next, pb)
    BY <2>1, <2>10, <2>12, <2>13 DEF EncGood
  <2> QED
    BY <2>14 DEF next, pb
<1>6. ASSUME b # 0
      PROVE  /\ longer \in EncState /\ longer.out = e.out /\ longer.block \in Seq(Byte)
             /\ Len(longer.block) = k + 1 /\ out0 \o longer.block = pb
  <2>1. b \in Byte
    BY <1>6, ByteFacts
  <2>2. longer \in EncState
    BY <1>1, <1>2, CobsByteLemma
  <2> DEFINE w == e.block
  <2>3. longer.out = e.out /\ longer.block = Append(w, b)
    BY DEF Longer
  <2>4. w \in Seq(Byte) /\ w \in Seq(Nat) /\ k = Len(w) /\ out0 \o w = p
    BY <1>2, <1>d, ByteSeq
  <2> HIDE DEF w, longer
  <2>5. Append(w, b) \in Seq(Byte) /\ Len(Append(w, b)) = Len(w) + 1
    BY <2>1, <2>4
  <2> HIDE DEF out0
  <2>6. out0 \o Append(w, b) = Append(out0 \o w, b)
    <3>1. out0 \in Seq(Nat) /\ w \in Seq(Nat) /\ b \in Nat
      BY <1>1, <1>4, <2>4
    <3> QED
      BY <3>1, AppendLast
  <2> QED
    BY <1>d, <2>2, <2>3, <2>4, <2>5, <2>6
<1>7. CASE b # 0 /\ k = 253
  <2> DEFINE cl == CloseBlock(longer)
  <2>1. next = Closed(longer) /\ next \in EncState
    <3>1. e \in EncState /\ b \in Nat /\ b # 0 /\ Len(e.block) = 253
      BY <1>1, <1>2, <1>7, <1>d
    <3> QED
      BY <3>1, CobsByteLemma
  <2>0. /\ longer \in EncState /\ longer.out = e.out /\ longer.block \in Seq(Byte)
        /\ Len(longer.block) = k + 1 /\ out0 \o longer.block = pb
    BY <1>6, <1>7
  <2> HIDE DEF longer, out0
  <2>2. /\ cl \in Seq(Byte) /\ Len(cl) = o + 1 + (k + 1)
        /\ Decoder(cl) = [out |-> out0 \o longer.block, code |-> (k + 1) + 1, left |-> 0, bad |-> FALSE]
    <3>1. /\ longer \in EncState /\ longer.out \in Seq(Byte) /\ longer.block \in Seq(Byte)
          /\ Decoder(longer.out).left = 0 /\ ~Decoder(longer.out).bad
      BY <1>2, <2>0
    <3>3. Len(longer.block) <= 254
      BY <1>7, <2>0
    <3>2. /\ cl \in Seq(Byte) /\ Len(cl) = Len(longer.out) + 1 + Len(longer.block)
          /\ Decoder(cl) = [out |-> Decoded(Decoder(longer.out)) \o longer.block, code |-> Len(longer.block) + 1,
                      left |-> 0, bad |-> FALSE]
      BY <3>1, <3>3, CloseDecoded
    <3> HIDE DEF cl
    <3> QED
      BY <3>2, <2>0, <1>7, <1>d DEF out0
  <2> HIDE DEF cl
  <2>3. next.out = cl /\ next.block = <<>>
    BY <2>1 DEF Closed, cl
  <2>4. Decoder(cl) = [out |-> pb, code |-> 255, left |-> 0, bad |-> FALSE]
    <3>1. (k + 1) + 1 = 255
      BY <1>7
    <3> QED
      BY <2>0, <2>2, <3>1
  <2>5. Decoder(cl).left = 0 /\ ~Decoder(cl).bad /\ Decoder(cl).out = pb /\ Decoder(cl).code = 255
    BY <2>4
  <2>6. Decoded(Decoder(cl)) = pb
    BY <2>5 DEF Decoded, FullBlock
  <2>8. <<>> \in Seq(Byte) /\ Len(<<>>) = 0
    OBVIOUS
  <2> HIDE DEF next
  <2>9. 254 * (full + 1) + 0 <= Len(pb) /\ Len(cl) + 0 = Len(pb) + (full + 1) /\ full + 1 \in Nat
    BY <1>1, <1>2, <1>3, <1>7, <2>2
  <2>10. \E f \in Nat : 254 * f + Len(next.block) <= Len(pb) /\ Len(next.out) + Len(next.block) = Len(pb) + f
    BY <2>3, <2>8, <2>9
  <2>11. pb \o <<>> = pb
    BY <1>1, AppendOne
  <2>12. Decoded(Decoder(next.out)) \o next.block = pb
    BY <2>3, <2>6, <2>11
  <2>13. /\ next.out \in Seq(Byte) /\ next.block \in Seq(Byte) /\ Len(next.block) <= 253
         /\ Decoder(next.out).left = 0 /\ ~Decoder(next.out).bad
    BY <2>2, <2>3, <2>5, <2>8
  <2>14. EncGood(next, pb)
    BY <2>1, <2>10, <2>12, <2>13 DEF EncGood
  <2> QED
    BY <2>14 DEF next, pb
<1>8. CASE b # 0 /\ k # 253
  <2>1. next = longer
    <3>1. e \in EncState /\ b \in Nat /\ b # 0 /\ Len(e.block) # 253
      BY <1>1, <1>2, <1>8, <1>d
    <3> QED
      BY <3>1, CobsByteLemma
  <2> HIDE DEF longer, next
  <2>2. /\ next \in EncState /\ next.out \in Seq(Byte) /\ next.block \in Seq(Byte)
        /\ Len(next.out) = o /\ Len(next.block) = k + 1
        /\ Decoder(next.out).left = 0 /\ ~Decoder(next.out).bad /\ Decoded(Decoder(next.out)) \o next.block = pb
    <3>1. /\ longer \in EncState /\ longer.out = e.out /\ longer.block \in Seq(Byte)
          /\ Len(longer.block) = k + 1 /\ out0 \o longer.block = pb
      BY <1>6, <1>8
    <3> QED
      BY <1>2, <1>d, <2>1, <3>1
  <2>3. k + 1 <= 253 /\ 254 * full + (k + 1) <= Len(pb) /\ o + (k + 1) = Len(pb) + full
    BY <1>1, <1>2, <1>3, <1>8
  <2>4. EncGood(next, pb)
    BY <2>2, <2>3 DEF EncGood
  <2> QED
    BY <2>4 DEF next, pb
<1> QED
  BY <1>5, <1>7, <1>8

(* COBS round trip.  In a buffer that cobsMaxEncodedLen() calls large       *)
(* enough, Cobs::encode writes for every message, of any length, at most    *)
(* that many bytes and no zero among them, so the delimiter of the line can *)
(* never come from a message; and Cobs::decode makes of these bytes exactly *)
(* the message again, the full blocks of 254 bytes included.                *)
THEOREM CobsRoundTrip ==
  ASSUME NEW src \in Seq(0 .. 255), NEW cap \in Nat, cap >= cobsMaxEncodedLen(Len(src)),
         NEW dst \in Nat, dst >= Len(src)
  PROVE  /\ CobsEncode(src, cap) \in Seq(1 .. 255)
         /\ Len(CobsEncode(src, cap)) <= cobsMaxEncodedLen(Len(src))
         /\ CobsDecode(CobsEncode(src, cap), dst) = src
<1> DEFINE n == Len(src)
           base == [out |-> << >>, block |-> << >>]
           enc == CobsEncode(src, cap)
           P(k) == SubSeq(src, 1, k)
<1>1. n \in Nat /\ \A i \in 1 .. n : src[i] \in 0 .. 255
  <2> DEFINE B == 0 .. 255
  <2>1. src \in Seq(B)
    OBVIOUS
  <2> HIDE DEF B
  <2>2. Len(src) \in Nat /\ \A i \in 1 .. Len(src) : src[i] \in B
    BY <2>1
  <2> QED
    BY <2>2 DEF B
<1>2. src \in Seq(Nat)
  <2>1. \A i \in 1 .. n : src[i] \in Nat
    BY <1>1, ByteFacts
  <2> QED
    BY <1>1, <2>1
<1>3. base \in EncState
  BY DEF EncState
<1>4. PICK F : Encodes(F, base, src) /\ OverSeq(CobsByte, base, src) = F[Len(src)]
  BY <1>2, <1>3, EncodeFold
<1>5. ~(cap < cobsMaxEncodedLen(n)) /\ cobsMaxEncodedLen(n) = n + (n \div 254) + 1
  <2>1. cobsMaxEncodedLen(n) = n + (n \div 254) + 1
    BY DEF cobsMaxEncodedLen, FullBlock
  <2>2. n \div 254 \in Int
    BY <1>1
  <2> QED
    BY <1>1, <2>1, <2>2
<1>6. enc = CloseBlock(F[n])
  BY <1>4, <1>5 DEF CobsEncode
<1> DEFINE S == {k \in Nat : k <= n => EncGood(F[k], P(k))}
<1>7. 0 \in S
  <2>1. P(0) = <<>>
    BY <1>2
  <2>2. F[0] = base
    BY <1>4 DEF Encodes
  <2>3. base.out = <<>> /\ base.block = <<>>
    OBVIOUS
  <2>4. Decoder(<<>>).left = 0 /\ ~Decoder(<<>>).bad /\ Decoded(Decoder(<<>>)) = <<>>
    BY DecodeEmpty DEF DecInit, Decoded
  <2> HIDE DEF base, P
  <2>5. <<>> \in Seq(Byte) /\ <<>> \in Seq(Nat) /\ Len(<<>>) = 0
    OBVIOUS
  <2>6. <<>> \o <<>> = <<>>
    BY <2>5, AppendOne
  <2>7. 254 * 0 + 0 <= 0 /\ 0 + 0 = 0 + 0
    OBVIOUS
  <2>8. \E full \in Nat : 254 * full + Len(<<>>) <= Len(<<>>) /\ Len(<<>>) + Len(<<>>) = Len(<<>>) + full
    BY <2>5, <2>7
  <2>9. EncGood(base, <<>>)
    BY <1>3, <2>3, <2>4, <2>5, <2>6, <2>8 DEF EncGood
  <2> QED
    BY <2>1, <2>2, <2>9
<1>8. ASSUME NEW k \in Nat, k \in S PROVE k + 1 \in S
  <2> SUFFICES ASSUME k + 1 <= n PROVE EncGood(F[k + 1], P(k + 1))
    OBVIOUS
  <2> DEFINE b == src[k + 1]
  <2>1. k <= n /\ k + 1 \in 1 .. n /\ k + 1 <= Len(src)
    BY <1>1
  <2>2. EncGood(F[k], P(k))
    BY <1>8, <2>1
  <2>3. P(k) \in Seq(Nat) /\ P(k + 1) = Append(P(k), b)
    BY <1>2, <2>1, PrefixGrows
  <2>4. b \in 0 .. 255
    BY <1>1, <2>1
  <2>5. F[k + 1] = CobsByte(F[k], b)
    BY <1>4, <2>1 DEF Encodes
  <2> HIDE DEF b, P
  <2>6. EncGood(CobsByte(F[k], b), Append(P(k), b))
    BY <2>2, <2>3, <2>4, EncGoodStep
  <2> QED
    BY <2>3, <2>5, <2>6
<1>9. n \in S
  <2> HIDE DEF S
  <2> QED
    BY <1>1, <1>7, <1>8, SetInduction
<1>10. P(n) = src
  BY <1>2
<1> DEFINE e == F[n]
<1>11. EncGood(e, src)
  <2> HIDE DEF n, P
  <2>1. n <= n
    BY <1>1
  <2> QED
    BY <1>9, <1>10, <2>1
<1> HIDE DEF e, P, S
<1>12. /\ e \in EncState /\ e.out \in Seq(Byte) /\ e.block \in Seq(Byte) /\ Len(e.block) <= 253
       /\ Decoder(e.out).left = 0 /\ ~Decoder(e.out).bad /\ Decoded(Decoder(e.out)) \o e.block = src
  BY <1>11 DEF EncGood
<1>13. Len(e.block) <= 254 /\ Len(e.block) \in Nat /\ Len(e.out) \in Nat
  <2>1. Len(e.block) \in Nat /\ Len(e.out) \in Nat
    BY <1>12
  <2> QED
    BY <1>12, <2>1
<1>14. /\ CloseBlock(e) \in Seq(Byte) /\ Len(CloseBlock(e)) = Len(e.out) + 1 + Len(e.block)
       /\ Decoder(CloseBlock(e)) = [out |-> Decoded(Decoder(e.out)) \o e.block, code |-> Len(e.block) + 1,
                              left |-> 0, bad |-> FALSE]
  BY <1>12, <1>13, CloseDecoded
<1>15. enc = CloseBlock(e)
  BY <1>6 DEF e
<1> HIDE DEF enc, n
<1>16. Len(enc) <= cobsMaxEncodedLen(n)
  <2> DEFINE o == Len(e.out)
             k == Len(e.block)
  <2>1. PICK full \in Nat : 254 * full + k <= n /\ o + k = n + full
    BY <1>11 DEF EncGood, n
  <2>2. o \in Nat /\ k \in Nat /\ Len(enc) = o + 1 + k
    BY <1>13, <1>14, <1>15
  <2> HIDE DEF o, k
  <2>3. full <= n \div 254
    BY <1>1, <2>1, <2>2
  <2>4. n \div 254 \in Int
    BY <1>1
  <2> QED
    BY <1>1, <1>5, <2>1, <2>2, <2>3, <2>4
<1>17. Decoder(enc).out = src /\ Decoder(enc).left = 0 /\ ~Decoder(enc).bad
  BY <1>12, <1>14, <1>15
<1>18. ~(Decoder(enc).left > 0) /\ ~(Len(Decoder(enc).out) > dst)
  BY <1>1, <1>17 DEF n
<1>19. CobsDecode(enc, dst) = Decoder(enc).out
  BY <1>17, <1>18 DEF CobsDecode, Decoder, DecInit
<1> QED
  BY <1>14, <1>15, <1>16, <1>17, <1>19 DEF enc, n, Byte
=============================================================================
