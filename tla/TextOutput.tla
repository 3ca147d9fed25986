----------------------------- MODULE TextOutput -----------------------------
(***************************************************************************)
(* The heap-free text output: LightweightStringBuilder with the text        *)
(* answers of ScheduledCommsTask, and PerformanceFormatter.  Text is a      *)
(* string that is cut where the destination ends; a key or a heading is one *)
(* piece of it.  A float is an integer number of 2^-FracBits with at most   *)
(* MantissaBits significant bits, and the result of every float operation   *)
(* is rounded to such a number, to nearest with ties to even.               *)
(***************************************************************************)
EXTENDS FrameCodec, SequencesExt

CONSTANTS
    kCapacity,       \* size of the builder's buffer (128 in the code)
    SnapshotTasksMax, \* kMaxSnapshotTasks (16 in the code)
    Lens,            \* sizes of the buffers given to the formatter
    MantissaBits,    \* significant bits of a float (24 in the code)
    FracBits,        \* the smallest float is 2^-FracBits
    U32,             \* 2^32: a float of this size or more has no uint32_t value
    Floats,          \* floats given to the builder, a NACK or the formatter
    Sweep,           \* more of them, given to one call from the initial state
    MaxAppends       \* bound: appends since the builder was cleared

ASSUME TextAssumption ==
    /\ kCapacity \in Nat \ {0} /\ U32 \in Nat \ {0}
    /\ MantissaBits \in Nat \ {0} /\ FracBits \in Nat \ {0}

VARIABLES
    m_buf,     \* LightweightStringBuilder: the characters before the terminator
    whole,     \* history: everything appended since clear()
    appends,   \* history: how many appends that was
    written,   \* what was last written to the stream or formatted; forgotten by append()
    meant,     \* history: the same without any limit
    bufLen,    \* size of the buffer written was formatted into
    printed    \* history: the float the last call printed, with its digits, or NoFloat

textVars == <<m_buf, whole, appends, written, meant, bufLen, printed>>

kMaxSnapshotCores == 4
kHistogramBuckets == 8

(***************************************************************************)
(* Float arithmetic.  Fl(n, d) is the float nearest to n/d units, n >= 0; a *)
(* negative n follows only a cast that was undefined already.               *)
(***************************************************************************)
One == 2^FracBits
Abs(v) == IF v < 0 THEN -v ELSE v
Spacing(q) == LET k == CHOOSE k \in 0..31 : q \div 2^k < 2^MantissaBits
                                            /\ (k = 0 \/ q \div 2^(k - 1) >= 2^MantissaBits)
              IN  2^k
Fl(n, d) ==
    LET step == d * Spacing(n \div d)
        low == n \div step
        above == n % step
        up == above > step - above \/ (above = step - above /\ low % 2 = 1)
    IN  (IF up THEN low + 1 ELSE low) * Spacing(n \div d)
ToFloat(i) == Fl(i * One, 1)

\* static_cast<uint32_t>: undefined outside the range, where three values stand
\* for whatever the target makes of it
CastU32(x) ==
    IF -One < x /\ x < U32 * One THEN {IF x < 0 THEN 0 ELSE x \div One}
    ELSE {0, U32 \div 3, U32 - 1}

\* x * scale + 0.5f, two float operations; a product that is out of the range of
\* uint32_t in any case needs no digits.
\* Mutant: the half is left out and the cast cuts.
Times(x, scale) == IF x \div One > U32 \div scale THEN U32 * One ELSE Fl(x * scale, 1)
ScaledCut(x, scale) == Times(x, scale)
Scaled(x, scale) == Fl(Times(x, scale) + One \div 2, 1)

(***************************************************************************)
(* A float as text: the digits that may be printed, and the text of them.   *)
(***************************************************************************)
Shown(by, v, scale, i, f) ==
    [by |-> by, value |-> v, scale |-> scale, int |-> i, frac |-> IF f >= scale THEN scale - 1 ELSE f]
NoFloat == Shown("none", 0, 1, 0, 0)

\* PerformanceFormatter::appendFloat: the whole part is cut off, the rest rounded
FormatFloat(v) ==
    UNION {{Shown("formatter", v, 1000, i, f) : f \in CastU32(Scaled(Abs(v) - ToFloat(i), 1000))}
           : i \in CastU32(Abs(v))}

\* LightweightStringBuilder::append(float, decimals): rounded as a whole through
\* uint32_t and divided again, and only then split
Rounded(v, scale) == {Fl(ToFloat(r), scale) : r \in CastU32(Scaled(Abs(v), scale))}
BuilderFloat(v, scale) ==
    UNION {UNION {{Shown("builder", v, scale, i, f) : f \in CastU32(Scaled(x - ToFloat(i), scale))}
                  : i \in CastU32(x)} : x \in Rounded(v, scale)}

\* renderU32, appendU64: decimal digits, most significant first
Digits(n) == ToString(n)
Sign(v) == IF v < 0 THEN "-" ELSE ""
FloatText(p) ==
    LET zeros == {t \in {10, 100} : t < p.scale /\ p.frac < t}
    IN  Sign(p.value) \o Digits(p.int)
        \o (IF p.scale = 1 THEN "" ELSE "." \o SubSeq("00", 1, Cardinality(zeros)) \o Digits(p.frac))

(***************************************************************************)
(* Appending to a buffer of cap characters with its terminator.             *)
(***************************************************************************)
Cut(s, n) == SubSeq(s, 1, Min({Len(s), n}))
Appended(text, cap, s) == text \o Cut(s, cap - 1 - Len(text))
Text(pieces) == OverSeq(LAMBDA t, s : t \o s, "", pieces)

(***************************************************************************)
(* LightweightStringBuilder and the functions of CLI that write text.       *)
(***************************************************************************)
TextInit ==
    /\ m_buf = "" /\ whole = "" /\ appends = 0
    /\ written = "" /\ meant = "" /\ bufLen = 2 /\ printed = NoFloat

append(s, p) ==
    /\ appends < MaxAppends
    /\ m_buf' = Appended(m_buf, kCapacity, s)
    /\ whole' = whole \o s
    /\ appends' = appends + 1
    /\ written' = "" /\ meant' = "" /\ bufLen' = 2 /\ printed' = p

appendStr == \E s \in {"SEQ ", "!"} : append(s, NoFloat)
appendInt == \E i \in {-12, 0, 907} : append(Sign(i) \o Digits(Abs(i)), NoFloat)
appendFloat == \E v \in Floats, d \in {0, 3} :
                   \E p \in BuilderFloat(v, 10^d) : append(FloatText(p), p)

\* flush() writes what the builder holds; nothing when it is empty
flush ==
    /\ m_buf # ""
    /\ written' = m_buf /\ meant' = whole /\ bufLen' = kCapacity
    /\ m_buf' = "" /\ whole' = "" /\ appends' = 0 /\ printed' = NoFloat

clear ==
    /\ m_buf' = "" /\ whole' = "" /\ appends' = 0
    /\ UNCHANGED <<written, meant, bufLen, printed>>

\* print(), println() and the formatter do not touch the builder, so one
\* call from the empty state stands for all
Fresh == appends = 0 /\ meant = ""
Put(s) ==
    /\ written' = s /\ meant' = s /\ bufLen' = Len(s) + 1 /\ printed' = NoFloat
    /\ UNCHANGED <<m_buf, whole, appends>>
print == Fresh /\ \E s \in {"ready"} : Put(s)
println == Fresh /\ \E s \in {"ready"} : Put(s \o "\n")

\* sendTextAck and sendTextNack: clear, append, flush
Answer(pieces, p) ==
    /\ written' = OverSeq(LAMBDA t, s : Appended(t, kCapacity, s), "", pieces)
    /\ meant' = Text(pieces)
    /\ bufLen' = kCapacity /\ printed' = p
    /\ m_buf' = "" /\ whole' = "" /\ appends' = 0

sendTextAck(id) == Answer(<<"ACK ", Digits(id), "\n">>, NoFloat)
sendTextNack(cmd) ==
    \E p \in BuilderFloat(cmd.value, 1000) :
        Answer(<<"NACK ", Digits(cmd.id), " ", Digits(cmd.device), " ", FloatText(p), "\n">>, p)

(***************************************************************************)
(* PerformanceFormatter: the pieces of each format, appended in order.  All *)
(* counts of the snapshot are s.count and all its floats print as f.        *)
(***************************************************************************)
Buckets(x) == [b \in 1..kHistogramBuckets |-> x]

\* queue, heap, stack, gap and scheduler totals; the columns of one task
SystemFields(n, f) == <<n, n, f, n, n, n, n, n, f, n, n, n>>
TaskFields(n, f) == <<n, n, n, n, f, n, n, n>>

\* KV_U64, KV_U32 and KV_FLOAT: one line for each value
Lines(values) == FlattenSeq([i \in 1..Len(values) |-> <<"key=", values[i], "\n">>])
\* values between commas
Row(values) == FlattenSeq([i \in 1..Len(values) |->
                   IF i = 1 THEN <<values[i]>> ELSE <<",", values[i]>>]) \o <<"\n">>

KeyValuePieces(s, f) ==
    LET n == Digits(s.count) IN
    Lines(<<Digits(s.time), Digits(s.cores)>>)
    \o Lines([c \in 1..Min({s.cores, kMaxSnapshotCores}) |-> f])
    \o Lines(SystemFields(n, f)) \o Lines(<<Digits(s.tasks)>>)
    \o FlattenSeq([t \in 1..Min({s.tasks, SnapshotTasksMax}) |->
           Lines(TaskFields(n, f)) \o <<"key=">> \o Row(Buckets(n))])

CsvPieces(s, f) ==
    LET n == Digits(s.count) IN
    <<"headings\n">> \o Row(<<Digits(s.time), Digits(s.cores)>> \o SystemFields(n, f))
    \o <<"headings">> \o Row(Buckets("h"))
    \o FlattenSeq([t \in 1..Min({s.tasks, SnapshotTasksMax}) |->
           Row(<<Digits(t - 1)>> \o TaskFields(n, f) \o Buckets(n))])

\* buf of len characters: nothing is written when even one does not fit
Format(pieces, len) ==
    IF len < 2 THEN "" ELSE OverSeq(LAMBDA t, s : Appended(t, len, s), "", pieces)

Formatted(pieces, len, p) ==
    /\ written' = Format(pieces, len)
    /\ meant' = Text(pieces) /\ bufLen' = len /\ printed' = p
    /\ UNCHANGED <<m_buf, whole, appends>>

formatKeyValue(s, len) == \E p \in FormatFloat(s.avg) : Formatted(KeyValuePieces(s, FloatText(p)), len, p)
formatCSV(s, len) == \E p \in FormatFloat(s.avg) : Formatted(CsvPieces(s, FloatText(p)), len, p)

Snapshots ==
    [time : {0, 1234567}, cores : {1, 5}, count : {0, 42}, avg : Floats, tasks : {0, SnapshotTasksMax + 1}]
    \cup [time : {0}, cores : {1}, count : {0}, avg : Sweep, tasks : {0}]

TextNext ==
    \/ appendStr \/ appendInt \/ appendFloat \/ flush \/ clear \/ print \/ println
    \/ \E id \in {3, 255} : sendTextAck(id)
    \/ \E id \in {3, 255}, v \in Floats \cup (IF Fresh THEN Sweep ELSE {}) :
           sendTextNack([id |-> id, device |-> 1, value |-> v])
    \/ Fresh /\ \E s \in Snapshots, len \in Lens : formatKeyValue(s, len) \/ formatCSV(s, len)

TextSpec == TextInit /\ [][TextNext]_textVars

(***************************************************************************)
(* Properties.                                                              *)
(***************************************************************************)
\* the digits are off by at most one in the last place
OffByAtMostOne(p) ==
    Abs((p.int * One - Abs(p.value)) * p.scale + p.frac * One) <= One

(* Text that does not fit is cut, never reordered, skipped in the middle or *)
(* written over the terminator: what the builder holds and what a write or  *)
(* a format call left is the longest prefix of the full text that the       *)
(* buffer has room for.  And the digits of a float say what it was, to one  *)
(* in the last place, although the code rounds it up to three times: from   *)
(* LightweightStringBuilder while the value times 10^decimals is below      *)
(* 2^(MantissaBits-1) (below 8388.608 with three decimals and 24 bits),     *)
(* from PerformanceFormatter while the value is below 2^32.                 *)
TextTells ==
    /\ m_buf = Cut(whole, kCapacity - 1)
    /\ written = Cut(meant, bufLen - 1)
    /\ printed.by = "builder" /\ Times(Abs(printed.value), printed.scale) < 2^(MantissaBits - 1) * One
         => OffByAtMostOne(printed)
    /\ printed.by = "formatter" /\ Abs(printed.value) < U32 * One => OffByAtMostOne(printed)
=============================================================================
