--------------------------- MODULE MCSystemBuilder ---------------------------
(* TLC instance of the builder, compiled for one core (the template's       *)
(* configuration) and for two (crunchloop's): fast tasks in a rate-         *)
(* monotonic band, one that asks for the kernel's own priority, and one     *)
(* whose period the validation refuses.                                     *)
EXTENDS SystemBuilder

MCConfigs == {MyProjectConfig, CrunchLoopConfig}
\* A ring of one, with which RingWithinCapacity is refuted.
MCSmallRing == {[kCoreCount |-> 1, kQueueCapacity |-> 16, kMaxBackgroundTasks |-> 1]}
MCAttr == [fast |-> [period |-> 500, priority |-> 255, wcet |-> 450, deps |-> TRUE],
           twin |-> [period |-> 900, priority |-> 255, wcet |-> 0, deps |-> TRUE],
           top  |-> [period |-> 0, priority |-> 0, wcet |-> 0, deps |-> TRUE],
           rapid |-> [period |-> 5, priority |-> 255, wcet |-> 0, deps |-> TRUE]]
MCCrunchPeriod == [servo |-> 163, hasty |-> 5]
=============================================================================
