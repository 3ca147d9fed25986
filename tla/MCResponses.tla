----------------------------- MODULE MCResponses -----------------------------
(* TLC instance of what the device writes.  Frames: a CLI with payloads of  *)
(* 8 bytes on a line that damages one of three frames, so that two frames   *)
(* that run together overflow the decoder; and the default of 256 bytes     *)
(* with payloads around the length of a full COBS block.  Text: a builder   *)
(* of 16 characters and floats of 14 bits.  The two parts share no state; part selects one.       *)
EXTENDS Responses, TextOutput
VARIABLE part

Bytes(n, zeroAt) == [i \in 1..n |-> IF i = zeroAt THEN 0 ELSE 1 + ((i * 7) % 255)]
MCDefault == 256 :> [frames |-> 1, tasks |-> {0, 1, 7, 8, 16},
                     blob |-> {Bytes(n, 0) : n \in 246..257} \cup {Bytes(256, k) : k \in 249..253}]
MCUses == 8 :> [frames |-> 3, blob |-> {Bytes(3, 2), Bytes(9, 0)}, tasks |-> {0}] @@ MCDefault

\* Floats of 14 bits in units of 2^-15: thousandths are whole numbers of them up
\* to 8.192 and have no uint32_t value from 32.768 on, nor has a float from 32768
\* on.  The sweep takes every float next to the places where rounding changes.
MCFloats == {-49, 32764, 299008, 2^20, 2^30, 0}
Band(from, to) == {x \in from..to : Fl(x, 1) = x}
MCSweep == Band(0, 700) \cup Band(32400, 33200) \cup Band(258000, 263000)
           \cup Band(268000, 269500) \cup Band(530000, 540000) \cup Band(1073000, 1076000)
           \cup {32766 * 2^15, 16383 * 2^15}

MCInit ==
    /\ RespInit /\ TextInit
    /\ part \in {"frames", "text"}
    /\ part = "text" => maxPayload = 256

MCNext ==
    \/ part = "frames" /\ RespNext /\ UNCHANGED <<part, textVars>>
    \/ part = "text" /\ TextNext /\ UNCHANGED <<part, respVars>>

MCSpec == MCInit /\ [][MCNext]_<<part, respVars, textVars>>
=============================================================================
