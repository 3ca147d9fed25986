--------------------------- MODULE MCCommsPipeline ---------------------------
(* TLC instance of the comms pipeline: buffers of one or two pieces, so that *)
(* they overflow; a queue of one command, so that it fills.                  *)
EXTENDS CommsPipeline
=============================================================================
