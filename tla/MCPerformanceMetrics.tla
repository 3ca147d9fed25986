------------------------- MODULE MCPerformanceMetrics -------------------------
(* TLC instance: three dispatches of a task, windows of two or three of     *)
(* them, and another core that ticks and takes a snapshot.                  *)
EXTENDS PerformanceMetrics
=============================================================================
