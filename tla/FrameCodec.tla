----------------------------- MODULE FrameCodec -----------------------------
(***************************************************************************)
(* The framed wire format over COBS: CRC16, FrameEncoder and FrameDecoder   *)
(* on real bytes.  A frame is a record [type, seq, payload] of bytes; the   *)
(* functions are pure, Responses drives them.  0 bytes written (the error   *)
(* value of the code) is the empty sequence.                                *)
(***************************************************************************)
EXTENDS Cobs, Bitwise

kFrameHeaderSize == 4
kFrameTrailerSize == 2
kFrameOverhead == kFrameHeaderSize + kFrameTrailerSize
kFrameDelimiter == 0

(***************************************************************************)
(* CRC16-CCITT, bit by bit.                                                 *)
(***************************************************************************)
CrcShift(crc) == IF crc >= 32768 THEN ((crc * 2) % 65536) ^^ 4129 ELSE crc * 2

\* The eight shifts of the inner loop, by the high byte they shift out; the
\* low byte of the register only moves up.
EightShifts == [high \in 0..255 |->
    OverSeq(LAMBDA crc, j : CrcShift(crc), high * 256, <<1, 2, 3, 4, 5, 6, 7, 8>>)]

crc16(data) ==
    OverSeq(LAMBDA crc, b : EightShifts[(crc \div 256) ^^ b] ^^ ((crc % 256) * 256), 65535, data)

(***************************************************************************)
(* FrameEncoder::encode and FrameDecoder.                                   *)
(***************************************************************************)
LittleEndian(width, v) ==
    [i \in 1..width |-> IF i > 4 THEN 0 ELSE (v \div 256^(i - 1)) % 256]

kMaxRawSize(maxPayload) == kFrameOverhead + maxPayload
kMaxCobsSize(maxPayload) == cobsMaxEncodedLen(kMaxRawSize(maxPayload))
kMaxWireSize(maxPayload) == kMaxCobsSize(maxPayload) + 1

FrameEncode(f, maxPayload, cap) ==
    LET head == <<f.type, f.seq>> \o LittleEndian(2, Len(f.payload)) \o f.payload
        raw  == head \o LittleEndian(2, crc16(head))
        cobs == CobsEncode(raw, cap - 1)
    IN  IF \/ Len(f.payload) > maxPayload
           \/ cap < cobsMaxEncodedLen(kFrameOverhead + Len(f.payload)) + 1
           \/ cobs = << >>
          THEN << >>
          ELSE Append(cobs, kFrameDelimiter)

\* processFrame(): the frame in the accumulated bytes, as a sequence of at
\* most one frame; << >> is DecoderResult::ERROR.
processFrame(cobsBuf, maxPayload) ==
    LET raw == CobsDecode(cobsBuf, kMaxRawSize(maxPayload))
        off == Len(raw) - kFrameTrailerSize
        len == raw[3] + 256 * raw[4]
    IN  IF \/ Len(raw) < kFrameOverhead
           \/ crc16(SubSeq(raw, 1, off)) # raw[off + 1] + 256 * raw[off + 2]
           \/ len # off - kFrameHeaderSize
           \/ len > maxPayload
          THEN << >>
          ELSE << [type |-> raw[1], seq |-> raw[2],
                   payload |-> SubSeq(raw, kFrameHeaderSize + 1, off)] >>

\* feedByte(): d is [buf, got], got the frames made ready so far.
feedByte(d, b, maxPayload) ==
    IF b = kFrameDelimiter
      THEN [buf |-> << >>,
            got |-> IF d.buf = << >> THEN d.got ELSE d.got \o processFrame(d.buf, maxPayload)]
    ELSE IF Len(d.buf) < kMaxCobsSize(maxPayload)
      THEN [d EXCEPT !.buf = Append(@, b)]
    ELSE [d EXCEPT !.buf = << >>]

FeedAll(buf, bytes, maxPayload) ==
    OverSeq(LAMBDA d, b : feedByte(d, b, maxPayload), [buf |-> buf, got |-> << >>], bytes)
=============================================================================
