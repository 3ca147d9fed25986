--------------------------- MODULE MCSchedulerTick ---------------------------
(* TLC instances of the tick: a fast kernel-managed task, one that ticks    *)
(* every time and a slower managed one; rings of two or three background    *)
(* tasks.                                                                   *)
EXTENDS SchedulerTick

MCScheduled == << [period |-> 2, managed |-> TRUE, wcet |-> 1],
                  [period |-> 5, managed |-> FALSE, wcet |-> 0],
                  [period |-> 3, managed |-> TRUE, wcet |-> 2] >>
MCOneTask == << [period |-> 3, managed |-> TRUE, wcet |-> 0] >>
MCBusyTask == << [period |-> 4, managed |-> FALSE, wcet |-> 0] >>
MCRing3 == <<1, 2, 1>>
MCRing2 == <<1, 1>>
=============================================================================
