---------------------------- MODULE MCNativeRun ----------------------------
(* Small instances of NativeRun.  Two runs of the training thread and of   *)
(* the benchmark thread let a stop of the first meet the second; one run   *)
(* of each other thread is enough to be in their way.                      *)
EXTENDS NativeRun

RunBound == [a \in Actors |-> IF a \in Stoppable THEN 2 ELSE 1]
=============================================================================
