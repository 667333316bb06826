----------------------------- MODULE TrainingRun -----------------------------
(***************************************************************************)
(* What an observer of TrainingSession is promised about the phase and the *)
(* step it is shown: phases advance, steps never go back while a run is    *)
(* active, a run ends once, in one of three terminal phases, and COMPLETED *)
(* is shown only with the target step reached.                             *)
(***************************************************************************)
EXTENDS Integers

CONSTANTS Total,   \* TrainingRequest.totalSteps
          NoStep   \* TrainingState.progress = null

VARIABLES phase,   \* TrainingState.phase
          step,    \* TrainingState.progress.completedSteps
          first    \* the step the run resumes from, 0 when it is fresh

runVars == <<phase, step, first>>

Active   == {"PREPARING", "INITIALIZING_HTP", "TRAINING", "SAVING_CHECKPOINT",
             "PAUSED"}
Terminal == {"COMPLETED", "ERROR", "INTERRUPTED"}
Phases   == {"IDLE"} \cup Active \cup Terminal

Init == phase = "IDLE" /\ step = NoStep /\ first = 0

Begin ==
  /\ phase \notin Active /\ phase' = "PREPARING"
  /\ first' \in 0..(Total - 1) /\ step' = first'

\* A request that is refused shows an error and is no run.
Refuse ==
  /\ phase \notin Active /\ phase' = "ERROR"
  /\ step' = NoStep /\ UNCHANGED first

Initialize ==
  /\ phase = "PREPARING" /\ phase' = "INITIALIZING_HTP"
  /\ UNCHANGED <<step, first>>

\* A checkpoint being saved at a step is not taken back to training at it.
Advance ==
  /\ phase \in {"INITIALIZING_HTP", "TRAINING", "SAVING_CHECKPOINT"}
  /\ phase' \in {"TRAINING", "SAVING_CHECKPOINT"}
  /\ step' \in step..Total
  /\ phase = "SAVING_CHECKPOINT" /\ phase' = "TRAINING" => step' # step
  /\ UNCHANGED first

Pause ==
  /\ phase = "TRAINING" /\ phase' = "PAUSED" /\ UNCHANGED <<step, first>>
Continue ==
  /\ phase = "PAUSED" /\ phase' = "TRAINING" /\ UNCHANGED <<step, first>>

Complete ==
  /\ phase \in Active \ {"PREPARING"} /\ phase' = "COMPLETED"
  /\ step' = Total /\ UNCHANGED first

\* A cancelled run may report where it stopped, never before its start.
Interrupt ==
  /\ phase \in Active \ {"PREPARING"} /\ phase' = "INTERRUPTED"
  /\ step' \in {NoStep} \cup first..Total /\ UNCHANGED first

Fail ==
  /\ phase \in Active /\ phase' = "ERROR"
  /\ step' = NoStep /\ UNCHANGED first

Next ==
  \/ Begin \/ Refuse \/ Initialize \/ Advance \/ Pause \/ Continue
  \/ Complete \/ Interrupt \/ Fail

Spec == Init /\ [][Next]_runVars
=============================================================================
