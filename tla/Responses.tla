------------------------------ MODULE Responses ------------------------------
(***************************************************************************)
(* What the device writes in framed mode, and what the host makes of it:    *)
(* ResponseSerializer, the sendFramed functions of CLI and the metrics      *)
(* handler of ScheduledCommsTask on one side; on the other a decoder behind *)
(* a serial line that may alter, lose or repeat a byte, and the metrics     *)
(* reader of the host tool (tools/cli).                                     *)
(***************************************************************************)
EXTENDS FrameCodec, SequencesExt

CONSTANTS
    Uses,            \* by the MaxPayload of CLI, FrameEncoder and FrameDecoder, what is
                     \* sent: [frames (bound), blob (user payloads), tasks (snap.taskCount)]
    DamageLen,       \* bound: longest frame that is damaged
    SeqNum,          \* sequence numbers that occur
    Wild,            \* what an altered byte may become
    Damages          \* bound: damaged frames

ASSUME ResponsesAssumption ==
    /\ DOMAIN Uses \subseteq Nat
    /\ SeqNum \subseteq 0..255 /\ Wild \subseteq 0..255

VARIABLES
    maxPayload, \* template parameter of CLI, FrameEncoder and FrameDecoder
    sent,      \* the frames given to sendFrame, in order
    wire,      \* bytes of the last sendFrame that are still on the line
    buf,       \* m_cobsBuf of the receiving decoder
    got,       \* frames the decoder made ready while it was fed the last bytes
    intact,    \* the last bytes fed were the encoder's, and began a frame
    damaged,   \* number of damaged frames so far
    asked      \* what the last METRICS_REQ was about: a snapshot, or NoSnapshot

respVars == <<maxPayload, sent, wire, buf, got, intact, damaged, asked>>

MessageType == [ACK |-> 129, NACK |-> 130, HANDSHAKE_RESP |-> 131, METRICS_RESP |-> 133,
                LOG |-> 134, DATA |-> 135, HEARTBEAT |-> 240]
kMaxSnapshotTasks == 16
NoSnapshot == [tasks |-> -1]

(***************************************************************************)
(* ResponseSerializer: << >> when the destination is too small.             *)
(***************************************************************************)
Fits(bytes, cap) == IF cap < Len(bytes) THEN << >> ELSE bytes

serializeAck(id, cap) == Fits(<<id>>, cap)
serializeNack(id, device, value, cap) == Fits(<<id, device>> \o LittleEndian(4, value), cap)
serializeHandshakeResp(cap) == Fits(<<1, 0, 83, 79, 80, 83>>, cap)
serializeData(data, cap) == Fits(data, cap)
serializeLog(level, text, cap) == Fits(<<level>> \o text, cap)

kMetricsHeaderSize == 66
kMetricsTaskSize == 26

\* The fields in the order serializeMetrics writes them, with their widths: a
\* wider value loses its high bytes.  A float32 is its bit pattern.
HeaderWrites == << <<"timestamp", 8>>, <<"coreCount", 1>>, <<"util1", 4>>, <<"util2", 4>>,
    <<"util3", 4>>, <<"util4", 4>>, <<"queueDepth", 2>>, <<"queueMaxDepth", 2>>,
    <<"queueAvgDepth", 4>>, <<"peakHeapUsed", 4>>, <<"freeHeap", 4>>, <<"stackHighWater", 4>>,
    <<"totalGapUs", 4>>, <<"maxGapUs", 4>>, <<"avgGapUs", 4>>, <<"schedulerTickCount", 4>>,
    <<"totalOverruns", 2>>, <<"totalDeadlineMisses", 2>>, <<"tasks", 1>> >>
\* Mutant: the maximum is written before the minimum.
TaskWritesSwapped == << <<"taskIndex", 1>>, <<"coreId", 1>>, <<"lastUs", 4>>, <<"maxUs", 4>>,
    <<"minUs", 4>>, <<"avgUs", 4>>, <<"samples", 4>>, <<"overruns", 2>>, <<"misses", 2>> >>

TaskWrites == << <<"taskIndex", 1>>, <<"coreId", 1>>, <<"lastUs", 4>>, <<"minUs", 4>>,
    <<"maxUs", 4>>, <<"avgUs", 4>>, <<"samples", 4>>, <<"overruns", 2>>, <<"misses", 2>> >>

Write(writes, values) ==
    FlattenSeq([i \in DOMAIN writes |-> LittleEndian(writes[i][2], values[writes[i][1]])])

\* needed is computed from the two constants, not from what is then written
serializeMetrics(snap, cap) ==
    IF cap < kMetricsHeaderSize + snap.tasks * kMetricsTaskSize
      THEN << >>
      ELSE Write(HeaderWrites, snap.header)
           \o FlattenSeq([t \in 1..snap.tasks |-> Write(TaskWrites, snap.task[t])])

(***************************************************************************)
(* A snapshot with n tasks whose fields all differ; wide ones exceed 16 bits.*)
(***************************************************************************)
Snapshot(n, wide) ==
    LET Base(i) == IF wide THEN 70000 + i ELSE i
        Values(writes, k) == [f \in {w[1] : w \in ToSet(writes)} |->
            IF f = "tasks" THEN n
            ELSE Base(k + (CHOOSE i \in DOMAIN writes : writes[i][1] = f))]
    IN  [tasks |-> n, header |-> Values(HeaderWrites, 0),
         task |-> [t \in 1..n |-> Values(TaskWrites, 10 * t)]]

(***************************************************************************)
(* CLI: sendFrame, and one action per sendFramed function.                  *)
(***************************************************************************)
RespInit ==
    /\ maxPayload \in DOMAIN Uses
    /\ sent = << >> /\ wire = << >> /\ buf = << >> /\ got = << >>
    /\ intact = FALSE /\ damaged = 0 /\ asked = NoSnapshot

sendFrame(type, seq, payload) ==
    /\ wire = << >> /\ Len(sent) < Uses[maxPayload].frames
    /\ LET f == [type |-> MessageType[type], seq |-> seq, payload |-> payload]
       IN  /\ sent' = Append(sent, f)
           /\ wire' = FrameEncode(f, maxPayload, kMaxWireSize(maxPayload))
    /\ got' = << >> /\ intact' = FALSE
    /\ UNCHANGED <<maxPayload, buf, damaged>>

NotAsked == asked' = NoSnapshot

sendFramedAck(seq, id) == sendFrame("ACK", seq, serializeAck(id, 1)) /\ NotAsked
sendFramedNack(seq, id, device, value) ==
    sendFrame("NACK", seq, serializeNack(id, device, value, 6)) /\ NotAsked
sendFramedHandshakeResp(seq) ==
    sendFrame("HANDSHAKE_RESP", seq, serializeHandshakeResp(6)) /\ NotAsked
sendFramedHeartbeat(seq) == sendFrame("HEARTBEAT", seq, << >>) /\ NotAsked
sendFramedData(data) == sendFrame("DATA", 0, data) /\ NotAsked
sendFramedLog(level, text) ==
    LET payload == serializeLog(level, text, maxPayload)
    IN  /\ payload # << >>
        /\ sendFrame("LOG", 0, payload)
        /\ NotAsked

\* The buffer of the handler holds kMaxSnapshotTasks tasks; the frame it goes
\* into holds maxPayload bytes.
onMetricsRequest(seq, snap) ==
    /\ sendFrame("METRICS_RESP", seq,
                 IF snap = NoSnapshot THEN << >>
                 ELSE serializeMetrics(snap, kMetricsHeaderSize + kMaxSnapshotTasks * kMetricsTaskSize))
    /\ asked' = snap

(***************************************************************************)
(* The line and the receiving decoder.                                      *)
(***************************************************************************)
Feed(bytes) ==
    LET d == FeedAll(buf, bytes, maxPayload)
    IN  /\ buf' = d.buf /\ got' = d.got /\ wire' = << >>
        /\ UNCHANGED <<maxPayload, sent, asked>>

Arrives ==
    /\ wire # << >>
    /\ Feed(wire)
    /\ intact' = (buf = << >>)
    /\ UNCHANGED damaged

Damaged(bytes) ==
    /\ wire # << >> /\ bytes # wire /\ damaged < Damages /\ Len(wire) <= DamageLen
    /\ Feed(bytes)
    /\ intact' = FALSE
    /\ damaged' = damaged + 1

ByteAltered == \E i \in DOMAIN wire, b \in Wild : Damaged([wire EXCEPT ![i] = b])
ByteLost == \E i \in DOMAIN wire : Damaged(RemoveAt(wire, i))
ByteRepeated == \E i \in DOMAIN wire : Damaged(InsertAt(wire, i, wire[i]))

RespNext ==
    \/ \E s \in SeqNum :
         \/ sendFramedAck(s, 7)
         \/ sendFramedNack(s, 7, 0, 16256)
         \/ sendFramedHandshakeResp(s)
         \/ sendFramedHeartbeat(s)
         \/ onMetricsRequest(s, NoSnapshot)
         \/ \E n \in Uses[maxPayload].tasks, w \in BOOLEAN : onMetricsRequest(s, Snapshot(n, w))
    \/ \E data \in Uses[maxPayload].blob : sendFramedData(data) \/ sendFramedLog(2, data)
    \/ Arrives \/ ByteAltered \/ ByteLost \/ ByteRepeated

RespSpec == RespInit /\ [][RespNext]_respVars

(***************************************************************************)
(* The reader of the host tool: decode_metrics.                             *)
(***************************************************************************)
HostHeader == << <<"timestamp", 8>>, <<"coreCount", 1>>, <<"util1", 4>>, <<"util2", 4>>,
    <<"util3", 4>>, <<"util4", 4>>, <<"queueDepth", 2>>, <<"queueMaxDepth", 2>>,
    <<"queueAvgDepth", 4>>, <<"peakHeapUsed", 4>>, <<"freeHeap", 4>>, <<"stackHighWater", 4>>,
    <<"totalGapUs", 4>>, <<"maxGapUs", 4>>, <<"avgGapUs", 4>>, <<"schedulerTickCount", 4>>,
    <<"totalOverruns", 2>>, <<"totalDeadlineMisses", 2>>, <<"tasks", 1>> >>
HostTask == << <<"taskIndex", 1>>, <<"coreId", 1>>, <<"lastUs", 4>>, <<"minUs", 4>>,
    <<"maxUs", 4>>, <<"avgUs", 4>>, <<"samples", 4>>, <<"overruns", 2>>, <<"misses", 2>> >>

\* where field i starts
Offset(fields, i) ==
    LET o[k \in 1..i] == IF k = 1 THEN 0 ELSE o[k - 1] + fields[k - 1][2] IN o[i]

\* unpack_from(format, payload, off) as little-endian bytes
Unpack(payload, off, fields) ==
    [i \in DOMAIN fields |-> SubSeq(payload, off + Offset(fields, i) + 1,
                                     off + Offset(fields, i) + fields[i][2])]

decode_metrics(payload) ==
    LET header == Unpack(payload, 0, HostHeader)
        n == header[19][1]
    IN  IF Len(payload) < 66 \/ Len(payload) < 66 + n * 26
          THEN << >>
          ELSE << header, [t \in 1..n |-> Unpack(payload, 66 + 26 * (t - 1), HostTask)] >>

(***************************************************************************)
(* Properties.                                                              *)
(***************************************************************************)
(* A frame that arrives as the encoder wrote it, at a decoder that is       *)
(* between frames, is made ready unchanged, whatever was damaged before it  *)
(* and whatever its length and zeros are (Cobs::encode, FrameDecoder); and  *)
(* no alteration, loss or repetition of a byte makes the decoder hand over  *)
(* a frame that was not sent (processFrame's COBS, CRC and length checks).  *)
DeliveredIsSent ==
    /\ intact => got = << sent[Len(sent)] >>
    /\ ToSet(got) \subseteq ToSet(sent)

(* What decode_metrics of the host tool reads from an answer to METRICS_REQ *)
(* is the snapshot's value of that field, cut to the field's width          *)
(* (serializeMetrics and its two size constants).                           *)
MetricsReadBack ==
    intact /\ asked # NoSnapshot =>
        decode_metrics(got[1].payload) =
            << [i \in DOMAIN HostHeader |-> LittleEndian(HostHeader[i][2], asked.header[HostHeader[i][1]])],
               [t \in 1..asked.tasks |-> [i \in DOMAIN HostTask |->
                   LittleEndian(HostTask[i][2], asked.task[t][HostTask[i][1]])]] >>

(* "Device responds with METRICS_RESP containing the current performance    *)
(* snapshot" (docs/CommsProtocol.md): a METRICS_REQ leaves an answer on the *)
(* line or already received.                                                *)
MetricsAnswered == asked # NoSnapshot => wire # << >> \/ got # << >>
=============================================================================
