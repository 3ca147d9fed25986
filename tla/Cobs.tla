-------------------------------- MODULE Cobs --------------------------------
(***************************************************************************)
(* comms/protocol/CobsCodec.h: the zeros of a message are replaced by the   *)
(* distances between them, so that a zero can end it on the line.  Bytes    *)
(* are numbers; 0 bytes written (the error value of the code) is the empty  *)
(* sequence.                                                                *)
(***************************************************************************)
EXTENDS Integers, Sequences

FullBlock == 255        \* 0xFF: the code of a block of 254 bytes that no zero ends

\* op applied to the elements from left to right, base first (FoldLeft).  They
\* are taken in runs of 16 (g) whose result is evaluated before the next run, so that a
\* long frame needs no deep recursion.
OverSeq(op(_, _), base, s) ==
    LET Run(a, c) ==
            LET from == 16 * (c - 1)
                to == IF Len(s) < 16 * c THEN Len(s) ELSE 16 * c
                f[i \in from..to] == IF i = from THEN a ELSE op(f[i - 1], s[i])
            IN  f[to]
        g[c \in 0..((Len(s) + 15) \div 16)] ==
            IF c = 0 THEN base ELSE CHOOSE r \in {Run(a, c) : a \in {g[c - 1]}} : TRUE
    IN  g[(Len(s) + 15) \div 16]

cobsMaxEncodedLen(n) == n + (n \div (FullBlock - 1)) + 1

\* a block with its code byte in front; the code is written when the block ends
CloseBlock(a) == a.out \o <<Len(a.block) + 1>> \o a.block

CobsByte(a, b) ==
    LET longer == [a EXCEPT !.block = Append(@, b)]
    IN  IF b = 0
          THEN [out |-> CloseBlock(a), block |-> << >>]
        ELSE IF Len(longer.block) + 1 = FullBlock
          THEN [out |-> CloseBlock(longer), block |-> << >>]
        ELSE longer

CobsEncode(src, cap) ==
    IF cap < cobsMaxEncodedLen(Len(src))
      THEN << >>
      ELSE CloseBlock(OverSeq(CobsByte, [out |-> << >>, block |-> << >>], src))

\* Mutant: a full block is taken to stand for a zero too.
CobsUnbyteFullZero(a, b) ==
    IF b = 0 \/ a.bad THEN [a EXCEPT !.bad = TRUE]
    ELSE IF a.left > 0
      THEN [out |-> Append(a.out, b), code |-> a.code, left |-> a.left - 1, bad |-> FALSE]
    ELSE [out |-> IF a.code > 0 THEN Append(a.out, 0) ELSE a.out,
          code |-> b, left |-> b - 1, bad |-> FALSE]

\* code is that of the open block (0 before the first), left what it still owes.
CobsUnbyte(a, b) ==
    IF b = 0 \/ a.bad THEN [a EXCEPT !.bad = TRUE]
    ELSE IF a.left > 0
      THEN [out |-> Append(a.out, b), code |-> a.code, left |-> a.left - 1, bad |-> FALSE]
    ELSE [out |-> IF a.code \in 1..(FullBlock - 1) THEN Append(a.out, 0) ELSE a.out,
          code |-> b, left |-> b - 1, bad |-> FALSE]

CobsDecode(src, cap) ==
    LET a == OverSeq(CobsUnbyte, [out |-> << >>, code |-> 0, left |-> 0, bad |-> FALSE], src)
    IN  IF a.bad \/ a.left > 0 \/ Len(a.out) > cap THEN << >> ELSE a.out
=============================================================================
