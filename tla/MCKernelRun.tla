----------------------------- MODULE MCKernelRun -----------------------------
(* TLC instances of the run loop: two cores, core 1 in FLAT_LOOP or CRUNCH  *)
(* mode (chosen by the configuration), or three cores of which two crunch.  *)
EXTENDS KernelRun
=============================================================================
