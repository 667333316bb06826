-------------------------- MODULE MCTrainingSession --------------------------
(* Two steps and two runs: a run resumed from step 1 of 2 can be told apart  *)
(* from a fresh one, and the second run from the first.                      *)
EXTENDS TrainingSession
=============================================================================
