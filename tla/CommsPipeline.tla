---------------------------- MODULE CommsPipeline ----------------------------
(***************************************************************************)
(* The way a command takes from the serial stream to the application:      *)
(* ScheduledCommsTask drains the stream through CLI (TEXT: CommandParser   *)
(* and the handshake probe; FRAMED: FrameDecoder and ProtocolRouter),      *)
(* pushes the command and answers the host; ScheduledControlTask, on       *)
(* another core, evaluates the safety monitors, pops and executes.         *)
(*                                                                         *)
(* The stream is cut into pieces: the 0x00 delimiter, a line end, the      *)
(* characters of one command line, the COBS bytes of one intact frame, and *)
(* junk (any other run of bytes).  A buffer is known by how many pieces it *)
(* holds and, when it holds one, which: strtol, Cobs::decode and crc16     *)
(* accept exactly the bytes of one intact line or frame.  The queue is the *)
(* atomic FIFO that LockFreeQueue is shown to implement.                   *)
(***************************************************************************)
EXTENDS Naturals, Sequences, SequencesExt

CONSTANTS kReadBufSize,         \* most pieces one CLI tick reads
          kMaxProbeSize,        \* pieces in the probe buffer
          kMaxLineLen,          \* pieces in the line buffer, terminator included
          kMaxCobsSize,         \* pieces in the frame decoder
          QueueCapacity,        \* usable capacity of the command queue
          kMaxCommandsPerTick,  \* commands one control tick executes
          MaxCommands           \* bound: commands the host sends

ASSUME CommsAssumption ==
  /\ {kReadBufSize, kMaxProbeSize, kMaxCobsSize, QueueCapacity} \subseteq Nat \ {0}
  /\ {kMaxCommandsPerTick, MaxCommands} \subseteq Nat \ {0}
  /\ kMaxLineLen \in Nat /\ kMaxLineLen > 1

VARIABLES m_mode,             \* CLI::m_mode
          m_hasPending,       \* CLI::m_hasPending
          m_probeActive, m_probeBuf,
          m_line,             \* CommandParser::m_buf and m_len
          m_pending, m_parserHas,  \* CommandParser::m_pending and m_hasPending
          m_cobs,             \* FrameDecoder::m_cobsBuf and m_cobsLen
          m_framedCommand, m_hasFramedCommand, m_framedSeqNum,
          cpc,                \* where ScheduledCommsTask is
          loop,               \* which loop of CLI has the rest of the batch
          left,               \* pieces of the batch not yet processed
          booting,            \* this CLI::tick() is the one of init()
          cmd,                \* the command being pushed or answered
          queue,              \* the command queue, oldest first
          kpc, processed,     \* where ScheduledControlTask is
          handled,            \* the commands handleCommand() got, in order
          sent,               \* commands the host has sent so far
          answers,            \* the ACKs and NACKs written to the stream
          newest,             \* the last command received in the current mode
          cut,                \* commands that waited when the mode changed
          late,               \* commands decoded after an exit, in the read that held it
          clean, candidate    \* the last piece was a separator; a command followed one

parserVars == <<m_line, m_pending, m_parserHas>>
probeVars == <<m_probeActive, m_probeBuf>>
framedVars == <<m_framedCommand, m_hasFramedCommand, m_framedSeqNum>>
cliVars == <<m_mode, m_hasPending, parserVars, probeVars, m_cobs, framedVars>>
controlVars == <<kpc, processed, handled>>
trackVars == <<clean, candidate>>
ghostVars == <<answers, newest, cut, late, trackVars>>
vars == <<cliVars, cpc, loop, left, booting, cmd, queue, controlVars, sent, ghostVars>>

Serial == 0 .. MaxCommands
FrameTypes == {"COMMAND", "HANDSHAKE_REQ", "EXIT_HANDSHAKE", "REQUEST"}

(* A piece of the stream.  "good" is what the receiver's own checks find:  *)
(* the fields of a line parse and its id is in range, the payload of a     *)
(* frame has its length and, in a handshake, the magic.  n identifies a    *)
(* command, and is the sequence number of its frame.  A REQUEST is a       *)
(* METRICS_REQ, a HEARTBEAT or a type that the router does not know.       *)
Pieces == [kind : {"nul", "nl", "junk", "line"} \cup FrameTypes, good : BOOLEAN, n : Serial]
Plain(kind) == [kind |-> kind, good |-> TRUE, n |-> 0]

(* What the host sends next: anything.  Commands are numbered.             *)
HostPieces ==
  {Plain(k) : k \in {"nul", "nl", "junk"} \cup (FrameTypes \ {"COMMAND"})}
    \cup {[kind |-> k, good |-> FALSE, n |-> 0] : k \in {"line", "HANDSHAKE_REQ"}}
    \cup {[kind |-> k, good |-> TRUE, n |-> sent + 1] : k \in {"line", "COMMAND"}}
    \cup {[kind |-> "COMMAND", good |-> FALSE, n |-> sent + 1]}

Empty == [len |-> 0, body |-> Plain("junk")]
Put(buf, p) == [len |-> buf.len + 1, body |-> IF buf.len = 0 THEN p ELSE Plain("junk")]
Buffers(size) == [len : 0 .. size, body : Pieces]

(* What reaches the parser or a decoder as something other than its own    *)
(* kind of text is junk to it; the probe accepts nothing but a handshake.  *)
AsText(p) == IF p.kind \in {"line", "nl"} THEN p ELSE Plain("junk")
AsFrame(p) == IF p.kind \in FrameTypes THEN p ELSE Plain("junk")
AsProbe(p) == IF p.kind = "HANDSHAKE_REQ" THEN p ELSE Plain("junk")

TypeOK ==
  /\ m_mode \in {"TEXT", "FRAMED"} /\ m_hasPending \in BOOLEAN
  /\ m_probeActive \in BOOLEAN /\ m_probeBuf \in Buffers(kMaxProbeSize)
  /\ m_line \in Buffers(kMaxLineLen - 1)
  /\ m_pending \in Serial /\ m_parserHas \in BOOLEAN
  /\ m_cobs \in Buffers(kMaxCobsSize)
  /\ m_framedCommand \in Serial /\ m_hasFramedCommand \in BOOLEAN /\ m_framedSeqNum \in Serial
  /\ cpc \in {"off", "idle", "bytes", "drain", "push", "ack", "nack"}
  /\ loop \in {"TEXT", "FRAMED"} /\ left \in 0 .. kReadBufSize /\ booting \in BOOLEAN
  /\ cmd \in Serial /\ queue \in Seq(Serial) /\ Len(queue) <= QueueCapacity
  /\ kpc \in {"idle", "abort", "commands"}
  /\ processed \in 0 .. kMaxCommandsPerTick /\ handled \in Seq(Serial)
  /\ sent \in Serial
  /\ answers \subseteq [n : Serial, seq : Serial, ok : BOOLEAN, how : {"TEXT", "FRAMED"}]
  /\ newest \in Serial /\ cut \subseteq Serial /\ late \subseteq Serial
  /\ clean \in BOOLEAN /\ candidate \in Serial

Init ==
  /\ m_mode = "TEXT" /\ m_hasPending = FALSE
  /\ m_probeActive = FALSE /\ m_probeBuf = Empty
  /\ m_line = Empty /\ m_pending = 0 /\ m_parserHas = FALSE
  /\ m_cobs = Empty
  /\ m_framedCommand = 0 /\ m_hasFramedCommand = FALSE /\ m_framedSeqNum = 0
  /\ cpc = "off" /\ loop = "TEXT" /\ left = 0 /\ booting = TRUE /\ cmd = 0
  /\ queue = <<>>
  /\ kpc = "idle" /\ processed = 0 /\ handled = <<>>
  /\ sent = 0 /\ answers = {}
  /\ newest = 0 /\ cut = {} /\ late = {} /\ clean = TRUE /\ candidate = 0
-----------------------------------------------------------------------------
Answered == {a.n : a \in answers}
Waiting == (IF m_parserHas THEN {m_pending} ELSE {})
             \cup (IF m_hasFramedCommand THEN {m_framedCommand} ELSE {})

(* The frame the bytes of a buffer decode to: COBS, length and CRC must    *)
(* all agree, so it is one intact frame and nothing else.                  *)
CobsDecodes(buf) == buf.len = 1
CrcMatches(p) == p.kind \in FrameTypes
ProcessFrame(buf) == CobsDecodes(buf) /\ CrcMatches(buf.body)

ParseLine(buf) == buf.len = 1 /\ buf.body.kind = "line" /\ buf.body.good
DispatchHandshake(p) == p.kind = "HANDSHAKE_REQ" /\ p.good

(* init() and tick() of ScheduledCommsTask both call CLI::tick(), which    *)
(* reads what the stream has, at most a buffer full, and gives it to the   *)
(* loop of the mode it finds.  init() takes no command out.                *)
CliTick ==
  /\ cpc' = "bytes" /\ left' = kReadBufSize /\ loop' = m_mode
  /\ UNCHANGED <<cliVars, cmd, queue, controlVars, sent, ghostVars>>

CommsInit == cpc = "off" /\ booting' = TRUE /\ CliTick

CommsTick == cpc = "idle" /\ booting' = FALSE /\ CliTick

(* CommandParser::feedByte() and the m_hasPending its caller sets.         *)
ParserFeed(p) ==
  \/ /\ p.kind = "nl" /\ ParseLine(m_line)
     /\ m_pending' = m_line.body.n /\ m_parserHas' = TRUE /\ m_hasPending' = TRUE
     /\ m_line' = Empty
     /\ newest' = m_line.body.n
  \/ /\ p.kind = "nl" /\ ~ParseLine(m_line)
     /\ m_line' = Empty
     /\ UNCHANGED <<m_pending, m_parserHas, m_hasPending, newest>>
  \/ /\ p.kind # "nl"
     /\ m_line' = IF m_line.len >= kMaxLineLen - 1 THEN Empty ELSE Put(m_line, p)
     /\ UNCHANGED <<m_pending, m_parserHas, m_hasPending, newest>>

(* A mode switch cuts off the commands that were waiting in either slot.   *)
CutOff == cut' = cut \cup Waiting /\ newest' = 0 /\ UNCHANGED late

EnterFramedMode ==
  /\ m_mode' = "FRAMED" /\ m_probeActive' = FALSE /\ m_probeBuf' = Empty /\ m_cobs' = Empty
  /\ UNCHANGED <<m_hasPending, parserVars, framedVars>>

ExitKeepsPending ==
  /\ m_mode' = "TEXT" /\ m_hasFramedCommand' = FALSE
  /\ m_line' = Empty /\ m_parserHas' = FALSE
  /\ UNCHANGED <<m_hasPending, m_pending, m_framedCommand, m_framedSeqNum>>
(* exitFramedMode(), with the parser's reset().                            *)
ExitFramedMode ==
  /\ m_mode' = "TEXT" /\ m_hasPending' = FALSE /\ m_hasFramedCommand' = FALSE
  /\ m_line' = Empty /\ m_parserHas' = FALSE
  /\ UNCHANGED <<m_pending, m_framedCommand, m_framedSeqNum>>

(* Bookkeeping: which commands stood between two separators of the loop    *)
(* that saw them.                                                          *)
Track(p, separator, command) ==
  /\ candidate' = IF clean /\ p.kind = command /\ p.good THEN p.n ELSE 0
  /\ clean' = (p.kind = separator)
Untracked(isClean) == clean' = isClean /\ candidate' = 0

NextPiece(p) ==
  /\ cpc = "bytes" /\ left > 0 /\ left' = left - 1
  /\ p \in HostPieces /\ p.n \in Serial
  /\ sent' = IF p.n = 0 THEN sent ELSE p.n
  /\ UNCHANGED <<cpc, booting, cmd, queue, controlVars, answers>>

(* A second 0x00 with something in between: the probe holds a valid        *)
(* handshake.  tryHandshakeProbe() dispatches it, which answers the host,  *)
(* and the rest of the batch goes to the frame decoder.                    *)
TextHandshake(p) ==
  /\ NextPiece(p) /\ loop = "TEXT" /\ p.kind = "nul"
  /\ m_probeActive /\ ProcessFrame(m_probeBuf) /\ DispatchHandshake(m_probeBuf.body)
  /\ EnterFramedMode /\ loop' = "FRAMED"
  /\ CutOff /\ Untracked(TRUE)

TextProbeStart(p) ==
  /\ NextPiece(p) /\ loop = "TEXT" /\ p.kind = "nul"
  /\ ~(m_probeActive /\ ProcessFrame(m_probeBuf) /\ DispatchHandshake(m_probeBuf.body))
  /\ m_probeActive' = TRUE /\ m_probeBuf' = Empty
  /\ Untracked(FALSE)
  /\ UNCHANGED <<m_mode, m_hasPending, parserVars, m_cobs, framedVars, loop, newest, cut, late>>

TextProbeByte(p) ==
  /\ NextPiece(p) /\ loop = "TEXT" /\ p.kind # "nul"
  /\ m_probeActive /\ m_probeBuf.len < kMaxProbeSize
  /\ m_probeBuf' = Put(m_probeBuf, AsProbe(p))
  /\ Untracked(FALSE)
  /\ UNCHANGED <<m_mode, m_hasPending, parserVars, m_probeActive, m_cobs, framedVars, loop,
                 newest, cut, late>>

(* Outside a probe, or with the probe buffer full, the parser has it.      *)
TextByte(p) ==
  /\ NextPiece(p) /\ loop = "TEXT" /\ p.kind # "nul"
  /\ m_probeActive => m_probeBuf.len = kMaxProbeSize
  /\ m_probeActive' = FALSE /\ m_probeBuf' = Empty
  /\ ParserFeed(AsText(p)) /\ Track(p, "nl", "line")
  /\ UNCHANGED <<m_mode, m_cobs, framedVars, loop, cut, late>>
-----------------------------------------------------------------------------
FramedByte(p) ==
  /\ NextPiece(p) /\ loop = "FRAMED" /\ p.kind # "nul"
  /\ m_cobs' = IF m_cobs.len < kMaxCobsSize THEN Put(m_cobs, AsFrame(p)) ELSE Empty
  /\ Track(p, "nul", "COMMAND")
  /\ UNCHANGED <<m_mode, m_hasPending, parserVars, probeVars, framedVars, loop, newest, cut, late>>

FramedRejectKeeps(p) ==
  /\ NextPiece(p) /\ loop = "FRAMED" /\ p.kind = "nul" /\ ~ProcessFrame(m_cobs)
  /\ Track(p, "nul", "COMMAND")
  /\ UNCHANGED <<m_mode, m_hasPending, parserVars, probeVars, m_cobs, framedVars, loop,
                 newest, cut, late>>

(* A delimiter after nothing, or after bytes that are no valid frame.      *)
FramedReject(p) ==
  /\ NextPiece(p) /\ loop = "FRAMED" /\ p.kind = "nul" /\ ~ProcessFrame(m_cobs)
  /\ m_cobs' = Empty /\ Track(p, "nul", "COMMAND")
  /\ UNCHANGED <<m_mode, m_hasPending, parserVars, probeVars, framedVars, loop, newest, cut, late>>

DecodedFrame(p, type) ==
  /\ NextPiece(p) /\ loop = "FRAMED" /\ p.kind = "nul" /\ ProcessFrame(m_cobs)
  /\ m_cobs.body.kind = type /\ m_cobs' = Empty /\ Track(p, "nul", "COMMAND")
  /\ UNCHANGED <<probeVars, loop>>

(* The COMMAND branch of handleDecodedFrame(): one slot, the last one stays *)
StoreFramed(f) ==
  IF f.good
  THEN m_framedCommand' = f.n /\ m_hasFramedCommand' = TRUE /\ m_framedSeqNum' = f.n
  ELSE UNCHANGED framedVars

FramedCommand(p) ==
  /\ DecodedFrame(p, "COMMAND")
  /\ StoreFramed(m_cobs.body)
  /\ newest' = IF m_cobs.body.good /\ m_mode = "FRAMED" THEN m_cobs.body.n ELSE newest
  /\ late' = IF m_cobs.body.good /\ m_mode = "TEXT" THEN late \cup {m_cobs.body.n} ELSE late
  /\ UNCHANGED <<m_mode, m_hasPending, parserVars, cut>>

(* A handshake that comes in as a frame is answered; the mode is left alone *)
FramedHandshake(p) ==
  /\ DecodedFrame(p, "HANDSHAKE_REQ")
  /\ UNCHANGED <<m_mode, m_hasPending, parserVars, framedVars, newest, cut, late>>

(* onExitHandshake(): a framed ACK, then TEXT mode.  The loop goes on.     *)
FramedExit(p) ==
  /\ DecodedFrame(p, "EXIT_HANDSHAKE")
  /\ ExitFramedMode /\ CutOff

(* onMetricsRequest() and onHeartbeat() only write a frame; a type the     *)
(* router does not know is ignored.                                        *)
FramedRequest(p) ==
  /\ DecodedFrame(p, "REQUEST")
  /\ UNCHANGED <<m_mode, m_hasPending, parserVars, framedVars, newest, cut, late>>

(* The stream had no more, or the read buffer is used up.                  *)
EndBatch ==
  /\ cpc = "bytes" /\ left' = 0 /\ loop' = m_mode
  /\ cpc' = IF booting THEN "idle" ELSE "drain"
  /\ clean' = (clean /\ loop = m_mode)
  /\ candidate' = IF loop = m_mode THEN candidate ELSE 0
  /\ UNCHANGED <<cliVars, booting, cmd, queue, controlVars, sent, answers,
                 newest, cut, late>>
-----------------------------------------------------------------------------
HasCommand == IF m_mode = "TEXT" THEN m_hasPending ELSE m_hasFramedCommand

(* getCommand().  In TEXT mode with m_hasPending set and an empty parser   *)
(* it returns false and changes nothing: the loop in tick() would spin, so *)
(* no step leaves "drain" in such a state.                                 *)
GetCommandText ==
  /\ m_mode = "TEXT" /\ m_parserHas
  /\ cmd' = m_pending /\ m_parserHas' = FALSE /\ m_hasPending' = FALSE
  /\ UNCHANGED m_hasFramedCommand

GetFramedKeeps ==
  /\ m_mode = "FRAMED"
  /\ cmd' = m_framedCommand
  /\ UNCHANGED <<m_parserHas, m_hasPending, m_hasFramedCommand>>
GetCommandFramed ==
  /\ m_mode = "FRAMED"
  /\ cmd' = m_framedCommand /\ m_hasFramedCommand' = FALSE
  /\ UNCHANGED <<m_parserHas, m_hasPending>>

TakeCommand ==
  /\ cpc = "drain" /\ HasCommand
  /\ GetCommandText \/ GetCommandFramed
  /\ cpc' = "push"
  /\ UNCHANGED <<m_mode, m_line, m_pending, probeVars, m_cobs, m_framedCommand, m_framedSeqNum,
                 loop, left, booting, queue, controlVars, sent, ghostVars>>

EndDrain ==
  /\ cpc = "drain" /\ ~HasCommand
  /\ cpc' = "idle"
  /\ UNCHANGED <<cliVars, loop, left, booting, cmd, queue, controlVars, sent, ghostVars>>

(* try_push() of the command queue.                                        *)
PushOk ==
  /\ cpc = "push" /\ Len(queue) < QueueCapacity
  /\ queue' = Append(queue, cmd) /\ cpc' = "ack"
  /\ UNCHANGED <<cliVars, loop, left, booting, cmd, controlVars, sent, ghostVars>>

PushFullIgnored ==
  /\ cpc = "push" /\ Len(queue) = QueueCapacity
  /\ cpc' = "ack"
  /\ UNCHANGED <<cliVars, loop, left, booting, cmd, queue, controlVars, sent, ghostVars>>
PushFull ==
  /\ cpc = "push" /\ Len(queue) = QueueCapacity
  /\ cpc' = "nack"
  /\ UNCHANGED <<cliVars, loop, left, booting, cmd, queue, controlVars, sent, ghostVars>>

(* The answer goes out in the mode the CLI is in: a line with the command, *)
(* or a frame with the last sequence number.                               *)
TextAnswer(ok) == [n |-> cmd, seq |-> 0, ok |-> ok, how |-> "TEXT"]
FramedAnswer(ok) == [n |-> cmd, seq |-> m_framedSeqNum, ok |-> ok, how |-> "FRAMED"]
Answer(ok) ==
  /\ answers' = answers \cup {IF m_mode = "FRAMED" THEN FramedAnswer(ok) ELSE TextAnswer(ok)}
  /\ cpc' = "drain" /\ cmd' = 0
  /\ UNCHANGED <<cliVars, loop, left, booting, queue, controlVars, sent,
                 newest, cut, late, trackVars>>

SendAck == cpc = "ack" /\ Answer(TRUE)
SendNack == cpc = "nack" /\ Answer(FALSE)
-----------------------------------------------------------------------------
commsVars == <<cliVars, cpc, loop, left, booting, cmd, sent, ghostVars>>

(* tick() of ScheduledControlTask when every monitor answers that it is    *)
(* safe.                                                                   *)
ControlTick ==
  /\ kpc = "idle" /\ kpc' = "commands" /\ processed' = 0
  /\ UNCHANGED <<commsVars, queue, handled>>

(* ... and when one does not: evaluateSafety() calls forceSafeAbort() and  *)
(* signalSafetyAbort(), and the tick is over.                              *)
ControlAbort ==
  /\ kpc = "idle" /\ kpc' = "abort"
  /\ UNCHANGED <<commsVars, queue, processed, handled>>

(* One round of processCommands(): try_pop() and handleCommand().          *)
HandleCommand ==
  /\ kpc = "commands" /\ processed < kMaxCommandsPerTick /\ queue # <<>>
  /\ handled' = Append(handled, Head(queue)) /\ queue' = Tail(queue)
  /\ processed' = processed + 1
  /\ UNCHANGED <<commsVars, kpc>>

EndCommandsOffByOne ==
  /\ kpc = "commands" /\ (processed + 1 >= kMaxCommandsPerTick \/ queue = <<>>)
  /\ kpc' = "idle" /\ processed' = 0
  /\ UNCHANGED <<commsVars, queue, handled>>
(* Nothing left, or enough for one tick: the application ticks, and the    *)
(* locals of the tick are gone.                                            *)
EndCommands ==
  /\ kpc = "commands" /\ (processed = kMaxCommandsPerTick \/ queue = <<>>)
  /\ kpc' = "idle" /\ processed' = 0
  /\ UNCHANGED <<commsVars, queue, handled>>

EndAbort ==
  /\ kpc = "abort" /\ kpc' = "idle"
  /\ UNCHANGED <<commsVars, queue, processed, handled>>

-----------------------------------------------------------------------------
DrainStep == TakeCommand \/ EndDrain \/ PushOk \/ PushFull \/ SendAck \/ SendNack

CommsStep ==
  \/ CommsInit \/ CommsTick
  \/ \E p \in HostPieces : TextHandshake(p)
  \/ \E p \in HostPieces : TextProbeStart(p)
  \/ \E p \in HostPieces : TextProbeByte(p)
  \/ \E p \in HostPieces : TextByte(p)
  \/ \E p \in HostPieces : FramedByte(p)
  \/ \E p \in HostPieces : FramedReject(p)
  \/ \E p \in HostPieces : FramedCommand(p)
  \/ \E p \in HostPieces : FramedHandshake(p)
  \/ \E p \in HostPieces : FramedExit(p)
  \/ \E p \in HostPieces : FramedRequest(p)
  \/ EndBatch \/ DrainStep

ControlStep ==
  \/ ControlTick \/ HandleCommand \/ EndCommands
  \/ ControlAbort \/ EndAbort

Next == CommsStep \/ ControlStep

Spec == Init /\ [][Next]_vars

(* A tick that takes commands out runs on, and the scheduler of the        *)
(* control core keeps dispatching its task.                                *)
FairSpec == Spec /\ WF_vars(DrainStep) /\ WF_vars(ControlStep)
-----------------------------------------------------------------------------
(* The commands that waited when the mode changed, as opposed to those that *)
(* only arrived behind an exit.                                            *)
Lost == cut \ late

(* ScheduledCommsTask.h:97-110, CLI.h:318-337: no command is put into the  *)
(* queue twice.  And a command that was still waiting when the mode        *)
(* changed is never executed afterwards, in this session or a later one,   *)
(* with one exception: a COMMAND frame behind an EXIT in the same read is  *)
(* stored after the exit emptied the slots, waits through the text mode,   *)
(* and runs in the next framed session.                                    *)
NoCommandTwice == IsInjective(handled \o queue) /\ Lost \cap ToSet(handled \o queue) = {}

(* ScheduledCommsTask.h:93-127: a command that was acknowledged is queued  *)
(* or executed, one that was refused is neither, and no command gets both  *)
(* answers; an answer sent as a frame carries the number of its command,   *)
(* even after malformed commands and mode changes in between.  At the end  *)
(* of each tick the last command that came in the current mode has its     *)
(* answer.                                                                 *)
AnswerTellsFate ==
  /\ \A a \in answers :
       /\ a.ok <=> a.n \in ToSet(handled \o queue)
       /\ \A b \in answers : a.n = b.n => a = b
       /\ a.seq = IF a.how = "FRAMED" THEN a.n ELSE 0
  /\ cpc = "idle" /\ ~booting /\ newest # 0 => newest \in Answered

(* What makes the two inductive.  The numbers a command can be waiting      *)
(* under: in the line buffer, the frame buffer, the parser's slot, the      *)
(* router's slot, and the task's own copy; 0 when there is none.            *)
Fates == ToSet(handled \o queue)
Slot == IF m_parserHas THEN m_pending ELSE 0
Routed == IF m_hasFramedCommand THEN m_framedCommand ELSE 0
Held == <<m_line.body.n, m_cobs.body.n, Slot, Routed, cmd>>

(* No command is in two places, or in one of them after it was queued or    *)
(* answered; one cut off by a mode switch, and not decoded after an exit,   *)
(* is only in the parser's slot, which the framed mode does not read and    *)
(* its end empties.                                                         *)
HeldInv ==
  /\ \A i \in 1 .. 5 : Held[i] <= sent
  /\ \A i, j \in 1 .. 5 : Held[i] = Held[j] => i = j \/ Held[i] = 0
  /\ \A i \in 1 .. 4 : Held[i] \notin Fates \cup Answered
  /\ \A i \in 1 .. 5 : Held[i] \in Lost => i = 3 /\ m_mode = "FRAMED"
  /\ Fates \cup Answered \cup Lost \subseteq 1 .. sent

(* What parses has a number, what waits has one, and the sequence number    *)
(* kept for the answer is that of the command kept beside it.  In text mode *)
(* the router's slot holds nothing but a command decoded after the exit.    *)
NumberInv ==
  /\ m_line.body.kind = "line" /\ m_line.body.good => m_line.body.n # 0
  /\ m_cobs.body.kind = "COMMAND" => m_cobs.body.n # 0
  /\ m_parserHas => m_pending # 0 /\ m_hasPending
  /\ m_hasFramedCommand => m_framedCommand # 0
  /\ m_framedSeqNum = m_framedCommand
  /\ m_mode = "TEXT" /\ m_hasFramedCommand => m_framedCommand \in late

(* The task's copy between getCommand() and the answer; no batch that       *)
(* begins in framed mode ends up in the text loop.                          *)
TaskInv ==
  /\ IF cpc \in {"push", "ack", "nack"}
     THEN /\ cmd # 0 /\ cmd \notin Answered /\ (cmd \in Fates <=> cpc = "ack")
          /\ m_mode = "FRAMED" => cmd = m_framedCommand
     ELSE cmd = 0
  /\ cpc \in {"drain", "push", "ack", "nack"} => ~booting
  /\ m_mode = "FRAMED" => loop = "FRAMED"

(* The last command of the current mode is answered, or on its way to be.   *)
NewestInv ==
  newest # 0 =>
    \/ newest \in Answered \/ newest = cmd
    \/ newest = IF m_mode = "TEXT" THEN Slot ELSE Routed

PipelineInv ==
  TypeOK /\ HeldInv /\ NumberInv /\ TaskInv /\ NewestInv /\ NoCommandTwice /\ AnswerTellsFate

(* The loop that has the rest of the batch starts after a separator with an *)
(* empty buffer, and holds a whole command alone.                           *)
LoopBuffer == IF loop = "TEXT" THEN m_line ELSE m_cobs
WholeInv ==
  /\ cpc # "bytes" => loop = m_mode
  /\ clean => LoopBuffer.len = 0
  /\ candidate # 0 =>
       /\ ~clean /\ (loop = "TEXT" => ~m_probeActive)
       /\ LoopBuffer.len = 1 /\ LoopBuffer.body.good /\ LoopBuffer.body.n = candidate
       /\ LoopBuffer.body.kind = IF loop = "TEXT" THEN "line" ELSE "COMMAND"

(* FrameDecoder.h:78-100 and CommandParser.h:51-73: a command whose bytes  *)
(* stand between two separators is received, whatever junk, overflow or    *)
(* malformed frame came before: both parsers resynchronise at a separator. *)
WholeIsReceived == [][candidate # 0 /\ clean' => candidate \in Waiting']_vars

(* ScheduledCommsTask.h:97: the loop that takes the commands out ends, so  *)
(* the task returns to the scheduler.                                      *)
TickEnds == cpc = "drain" ~> cpc = "idle"

(* ScheduledControlTask.h:138-153: an acknowledged command is executed,    *)
(* unless safety aborts go on for ever.                                    *)
AcknowledgedIsExecuted ==
  \/ []<>(kpc = "abort")
  \/ \A n \in 1 .. MaxCommands : (\E a \in answers : a.ok /\ a.n = n) ~> (n \in ToSet(handled))
-----------------------------------------------------------------------------
(* Statements of the documentation that the code does not keep.            *)

(* docs/SystemArchitecture.md: "Complete commands -> try_push().  Success  *)
(* -> ACK, queue full -> NACK".                                            *)
EveryCommandAnswered == [][Waiting \subseteq Waiting' \cup {cmd'}]_vars

(* MessageType.h:38: HANDSHAKE_RESP is the "Response confirming framed     *)
(* mode entry".                                                            *)
HandshakeMeansFramed ==
  [][(\E p \in HostPieces : FramedHandshake(p)) /\ DispatchHandshake(m_cobs.body)
       => m_mode' = "FRAMED"]_vars

(* docs/CommsProtocol.md:286, Exit Handshake: after the exit "Any          *)
(* subsequent bytes are parsed as ASCII commands".  But a frame behind the *)
(* exit in the same read is decoded, and a COMMAND in it is kept.          *)
AfterExitIsText == [][m_mode = "TEXT" => UNCHANGED framedVars]_vars

(* IMessageQueue.h: commands are executed in the order the host sent them. *)
ExecutedInOrder ==
  LET all == handled \o queue
  IN \A i, j \in 1 .. Len(all) : i < j => all[i] < all[j]

(* FrameDecoder.h:97: on overflow "discard and wait for next delimiter to  *)
(* re-sync".                                                               *)
OnlyWholeExecuted == [][Waiting' \subseteq Waiting \cup {candidate}]_vars
=============================================================================
