------------------------- MODULE LanguageModelAdam -------------------------
(***************************************************************************)
(* languageModelAdam under the formal protocol (candidate 3): one call      *)
(* trains a model for each seed on the HTP, with a CPU reference beside it, *)
(* and reports.  Under BEST_VALIDATION_V1 it evaluates the state on the     *)
(* schedule, keeps the best one, and after the last step writes it to the   *)
(* seed's .qvc file and goes on from it; under FINAL_STEP it goes on from   *)
(* the last state.  The process may die at any point; the files survive.    *)
(*                                                                         *)
(* A tensor is named by the seed and the number of updates behind it.       *)
(* Losses are multiples of the tie tolerance's unit.  What the QNN calls,   *)
(* the kernels and the file system return is external and nondeterministic; *)
(* dumped diagnostic checkpoints and the text of the report are left out.   *)
(***************************************************************************)
EXTENDS Integers, Sequences

CONSTANTS FirstSeed, LastSeed,  \* the seeds of one call
          Steps,                \* training steps of a seed
          FullSteps,            \* 320: fewer steps are a numerical probe
          EvaluationSteps,      \* the validation schedule
          Losses, Accuracies,   \* validation losses and accuracies
          CpuMetrics,           \* what the CPU reference evaluates to
          Tolerance,            \* kLossTieTolerance, in the unit of Losses
          Patiences,            \* the patiences early stopping is simulated for
          Unset                 \* metrics that are not finite, and no file

ASSUME LanguageModelAdamAssumption ==
  /\ FirstSeed \in Nat \ {0} /\ LastSeed \in Nat /\ FirstSeed <= LastSeed
  /\ Steps \in Nat \ {0} /\ FullSteps \in Nat /\ EvaluationSteps \subseteq Nat
  /\ Losses \subseteq Nat /\ Accuracies \subseteq Nat
  /\ Tolerance \in Nat /\ Patiences \subseteq Nat \ {0}

Seeds   == FirstSeed..LastSeed
Finite  == [loss : Losses, accuracy : Accuracies]
Metrics == Finite \union {Unset}

Tensors == [seed : Seeds, updates : Nat]
States  == [parameters : Tensors, first : Tensors, second : Tensors]

\* A .qvc file: the step it names, the step its optimizer goes on with, and
\* the state.
Checkpoints == [selectedStep : Nat, optimizerNextStep : Nat, state : States]

ASSUME MetricsAssumption == /\ Unset \notin Finite \union Checkpoints
                            /\ CpuMetrics \subseteq Metrics

\* The state of a seed after so many updates of all its tensors.
After(s, k) == LET t == [seed |-> s, updates |-> k]
               IN  [parameters |-> t, first |-> t, second |-> t]
Updated(t)  == [t EXCEPT !.updates = @ + 1]

-----------------------------------------------------------------------------
(* Choosing between two evaluations. *)

finite(m) == m # Unset

\* Mutant: accuracy decides before the loss is looked at.
betterByAccuracy(candidate, candidateStep, incumbent, incumbentStep) ==
  /\ finite(candidate)
  /\ \/ ~finite(incumbent)
     \/ candidate.accuracy > incumbent.accuracy
     \/ candidate.loss < incumbent.loss - Tolerance

\* Losses within the tolerance tie; then accuracy decides, then the step.
better(candidate, candidateStep, incumbent, incumbentStep) ==
  /\ finite(candidate)
  /\ \/ ~finite(incumbent)
     \/ candidate.loss < incumbent.loss - Tolerance
     \/ /\ candidate.loss <= incumbent.loss + Tolerance
        /\ \/ candidate.accuracy > incumbent.accuracy
           \/ /\ candidate.accuracy = incumbent.accuracy
              /\ candidateStep < incumbentStep

\* Mutant: only the loss is compared.
simulatedByLoss(r, e, patience) ==
  IF r.stopped THEN r
  ELSE IF ~finite(r.best) \/ e.metrics.loss < r.best.loss
       THEN [r EXCEPT !.best = e.metrics, !.bestStep = e.step, !.stale = 0]
       ELSE IF r.stale + 1 >= patience
            THEN [r EXCEPT !.stopped = TRUE, !.stopStep = e.step]
            ELSE [r EXCEPT !.stale = @ + 1]

\* One evaluation of the simulation: a better one resets the count of stale
\* ones, and the count that reaches the patience stops the training.
simulated(r, e, patience) ==
  IF r.stopped THEN r
  ELSE IF better(e.metrics, e.step, r.best, r.bestStep)
       THEN [r EXCEPT !.best = e.metrics, !.bestStep = e.step, !.stale = 0]
       ELSE IF r.stale + 1 >= patience
            THEN [r EXCEPT !.stopped = TRUE, !.stopStep = e.step]
            ELSE [r EXCEPT !.stale = @ + 1]

\* How training would have ended had it stopped after so many evaluations
\* without a better one.
simulateEarlyStop(trajectory, patience) ==
  LET seen[i \in 0..Len(trajectory)] ==
        IF i = 0 THEN [best |-> Unset, bestStep |-> 0, stale |-> 0,
                       stopped |-> FALSE, stopStep |-> Steps]
                 ELSE simulated(seen[i - 1], trajectory[i], patience)
  IN  seen[Len(trajectory)]

isEvaluationStep(k) == k \in EvaluationSteps

-----------------------------------------------------------------------------
VARIABLES
  pc,             \* where the call is; "idle" between calls
  request,        \* the selection mode, and whether there is a directory
  seed,           \* the seed being trained
  step,           \* seedCompletedSteps
  htp, cpu,       \* the two current states
  best,           \* bestHtp*, cpuAtBestHtp*, bestHtpValidation, bestHtpStep
  bestCpu,        \* bestCpuValidation and bestCpuStep
  final,          \* finalStepHtpValidation and finalStepCpuValidation
  trajectory,     \* htpValidationTrajectory
  validationAllFinite,
  cpuAllStepsFinite,
  nan,            \* something was not finite, or a seed did not complete
  allLoss,        \* every seed ended with a smaller loss than it began with
  timed,          \* formalTrainingStepLatencyUs.size()
  inference,      \* inferenceParameters and cpuInferenceParameters
  temporary,      \* the .qvc.tmp file while it waits for its rename
  published,      \* the .qvc file of each seed
  status          \* what the last call returned

seedVars  == <<step, htp, cpu, best, bestCpu, final, trajectory,
               validationAllFinite, cpuAllStepsFinite>>
totalVars == <<nan, allLoss, timed, inference>>
fileVars  == <<temporary, published>>
vars == <<pc, request, seed, seedVars, totalVars, fileVars, status>>

bestValidationMode == request.mode = "BEST_VALIDATION_V1"

Requests == [mode : {"FINAL_STEP", "BEST_VALIDATION_V1"},
             directory : BOOLEAN]

NoRequest == [mode |-> "FINAL_STEP", directory |-> FALSE]
NothingBest == [validation |-> Unset, step |-> -1]

\* What a seed starts with: the same parameters on both sides, zero moments,
\* nothing evaluated.
SeedStart(s) ==
  /\ seed' = s /\ step' = 0
  /\ htp' = After(s, 0) /\ cpu' = After(s, 0)
  /\ best' = [htp |-> After(s, 0), cpu |-> After(s, 0),
              validation |-> Unset, step |-> -1]
  /\ bestCpu' = NothingBest
  /\ final' = [htp |-> Unset, cpu |-> Unset]
  /\ trajectory' = <<>>
  /\ validationAllFinite' = TRUE /\ cpuAllStepsFinite' = TRUE

Init ==
  /\ pc = "idle" /\ request = NoRequest
  /\ seed = FirstSeed /\ step = 0
  /\ htp = After(FirstSeed, 0) /\ cpu = htp
  /\ best = [htp |-> htp, cpu |-> cpu, validation |-> Unset, step |-> -1]
  /\ bestCpu = NothingBest
  /\ final = [htp |-> Unset, cpu |-> Unset]
  /\ trajectory = <<>>
  /\ validationAllFinite = TRUE /\ cpuAllStepsFinite = TRUE
  /\ nan = FALSE /\ allLoss = TRUE /\ timed = 0 /\ inference = <<>>
  /\ temporary = Unset
  /\ published = [s \in Seeds |-> Unset]
  /\ status = "NONE"

-----------------------------------------------------------------------------
(* The call. *)

\* The call is over, with this status, and its locals are gone.
Ended(result) ==
  /\ pc' = "idle" /\ status' = result /\ request' = NoRequest
  /\ SeedStart(FirstSeed)
  /\ nan' = FALSE /\ allLoss' = TRUE /\ timed' = 0 /\ inference' = <<>>

\* Every early return says FAILED.
Fail == Ended("FAILED")

\* The configuration is checked, the runtime prepared and the bindings
\* audited before the first seed.
Start ==
  /\ pc = "idle"
  /\ \/ /\ pc' = "begin" /\ request' \in Requests /\ status' = "NONE"
        /\ UNCHANGED <<seed, seedVars, totalVars>>
     \/ Fail
  /\ UNCHANGED fileVars

\* pc "begin": the initialization of the seed may be refused, and the
\* validation of step 0 comes before the initial evaluation.
Begin ==
  /\ pc = "begin"
  /\ \/ Fail
     \/ /\ pc' = IF bestValidationMode THEN "observe" ELSE "initial"
        /\ UNCHANGED <<request, seed, seedVars, totalVars, status>>
  /\ UNCHANGED fileVars

\* Mutant: the second moment is not copied with the rest.
KeptWithoutSecondMoment(m) ==
  IF better(m, step, best.validation, best.step)
  THEN [htp |-> [htp EXCEPT !.second = best.htp.second], cpu |-> cpu,
        validation |-> m, step |-> step]
  ELSE best

\* The state that is kept after an evaluation.
Kept(m) == IF better(m, step, best.validation, best.step)
           THEN [htp |-> htp, cpu |-> cpu, validation |-> m, step |-> step]
           ELSE best

\* The lambda observeValidation.  An HTP evaluation that fails or is not
\* finite ends the call; a CPU one that is not finite is remembered.
ObserveValidation ==
  /\ pc = "observe"
  /\ \/ Fail
     \/ \E h \in Finite, c \in CpuMetrics :
          /\ validationAllFinite' = (validationAllFinite /\ finite(c))
          /\ trajectory' = Append(trajectory, [step |-> step, metrics |-> h])
          /\ final' = IF step = Steps THEN [htp |-> h, cpu |-> c] ELSE final
          /\ best' = Kept(h)
          /\ bestCpu' = IF better(c, step, bestCpu.validation, bestCpu.step)
                        THEN [validation |-> c, step |-> step] ELSE bestCpu
          /\ pc' = IF step = 0 THEN "initial"
                   ELSE IF step = Steps THEN "select" ELSE "train"
          /\ UNCHANGED <<request, seed, step, htp, cpu, cpuAllStepsFinite,
                         totalVars, status>>
  /\ UNCHANGED fileVars

InitialEvaluation ==
  /\ pc = "initial"
  /\ \/ Fail
     \/ pc' = "train" /\ UNCHANGED <<request, seed, seedVars, totalVars, status>>
  /\ UNCHANGED fileVars

\* Where the loop goes after a completed step.
AfterStep(k) ==
  IF bestValidationMode /\ (isEvaluationStep(k) \/ k = Steps) THEN "observe"
  ELSE IF k = Steps THEN "select" ELSE "train"

\* One training step: a failed or non-finite QNN result ends the call; a
\* loss that is not finite ends the loop of this seed after its update.
TrainStep ==
  /\ pc = "train"
  /\ \/ Fail
     \/ \E lossFinite, cpuFinite \in BOOLEAN :
          /\ htp' = [t \in DOMAIN htp |-> Updated(htp[t])]
          /\ cpu' = [t \in DOMAIN cpu |-> Updated(cpu[t])]
          /\ timed' = timed + 1
          /\ cpuAllStepsFinite' = (cpuAllStepsFinite /\ cpuFinite)
          /\ nan' = (nan \/ ~lossFinite)
          /\ step' = IF lossFinite THEN step + 1 ELSE step
          /\ pc' = IF lossFinite THEN AfterStep(step + 1) ELSE "select"
          /\ UNCHANGED <<request, seed, best, bestCpu, final, trajectory,
                         validationAllFinite, allLoss, inference, status>>
  /\ UNCHANGED fileVars

\* The checkpoint object built from the best state.
selectedCheckpoint ==
  [selectedStep |-> best.step, optimizerNextStep |-> best.step + 1,
   state |-> best.htp]

\* validation_checkpoint::validate, which encode and decode both call.
validCheckpoint(c) == /\ c.optimizerNextStep = c.selectedStep + 1
                      /\ c.selectedStep \in 0..Steps
                      /\ finite(best.validation)

\* After the loop: an incomplete or non-finite validation rejects the seed.
Select ==
  /\ pc = "select"
  /\ IF ~bestValidationMode
     THEN pc' = "final" /\ UNCHANGED <<request, seed, seedVars, totalVars, status>>
     ELSE IF /\ validationAllFinite /\ best.step >= 0 /\ bestCpu.step >= 0
             /\ finite(final.htp) /\ finite(final.cpu)
             /\ validCheckpoint(selectedCheckpoint)
          THEN /\ pc' = IF request.directory THEN "write" ELSE "restore"
               /\ UNCHANGED <<request, seed, seedVars, totalVars, status>>
          ELSE Fail
  /\ UNCHANGED fileVars

\* The temporary file is truncated and written, and replaces the published
\* one by a rename.  Nothing reads what a failure or a dead process leaves of
\* it, and the next writer truncates it: it is kept only up to the rename.
WriteTemporary ==
  /\ pc = "write"
  /\ \/ /\ temporary' = selectedCheckpoint
        /\ pc' = "rename"
        /\ UNCHANGED <<request, seed, seedVars, totalVars, status>>
     \/ Fail /\ UNCHANGED temporary
  /\ UNCHANGED published

Rename ==
  /\ pc = "rename" /\ temporary' = Unset
  /\ \/ /\ published' = [published EXCEPT ![seed] = temporary]
        /\ pc' = "restore"
        /\ UNCHANGED <<request, seed, seedVars, totalVars, status>>
     \/ Fail /\ UNCHANGED published

\* Mutant: the CPU reference goes on from its last state.
RestoreHtpOnly ==
  /\ pc = "restore"
  /\ htp' = selectedCheckpoint.state
  /\ pc' = "final"
  /\ UNCHANGED <<request, seed, step, cpu, best, bestCpu, final, trajectory,
                 validationAllFinite, cpuAllStepsFinite, totalVars, fileVars,
                 status>>

\* The selected state becomes the current one, from the decoded bytes on the
\* HTP side and from the kept copy on the CPU side.
Restore ==
  /\ pc = "restore"
  /\ htp' = selectedCheckpoint.state
  /\ cpu' = best.cpu
  /\ pc' = "final"
  /\ UNCHANGED <<request, seed, step, best, bestCpu, final, trajectory,
                 validationAllFinite, cpuAllStepsFinite, totalVars, fileVars,
                 status>>

\* The final evaluation of the seed, and the start of the next one.
FinalEvaluation ==
  /\ pc = "final"
  /\ \/ Fail
     \/ \E evaluationFinite, smaller \in BOOLEAN :
          /\ nan' = (nan \/ ~evaluationFinite \/ step # Steps
                         \/ ~cpuAllStepsFinite)
          /\ allLoss' = (allLoss /\ smaller)
          /\ inference' = Append(inference, [htp |-> htp, cpu |-> cpu])
          /\ IF seed < LastSeed
             THEN pc' = "begin" /\ SeedStart(seed + 1)
             ELSE pc' = "generate" /\ UNCHANGED <<seed, seedVars>>
          /\ UNCHANGED <<request, timed, status>>
  /\ UNCHANGED fileVars

formalComplete(generated) ==
  /\ ~nan
  /\ Steps < FullSteps \/ allLoss \/ bestValidationMode
  /\ Len(inference) = LastSeed - FirstSeed + 1
  /\ timed = (LastSeed - FirstSeed + 1) * Steps
  /\ generated

\* The parity and generation runs with every seed's state, and the report.
Generate ==
  /\ pc = "generate"
  /\ \/ Fail
     \/ \E generated \in BOOLEAN :
          /\ pc' = "done"
          /\ status' = IF formalComplete(generated) THEN "SUCCESS" ELSE "FAILED"
          /\ UNCHANGED <<request, seed, seedVars, totalVars>>
  /\ UNCHANGED fileVars

Return == pc = "done" /\ Ended(status) /\ UNCHANGED fileVars

\* The process dies.
Die == /\ pc # "idle" /\ Ended("NONE")
       /\ temporary' = Unset /\ UNCHANGED published

Next == \/ Start \/ Begin \/ ObserveValidation \/ InitialEvaluation
        \/ TrainStep \/ Select \/ WriteTemporary \/ Rename \/ Restore
        \/ FinalEvaluation \/ Generate \/ Return \/ Die

Spec == Init /\ [][Next]_vars

-----------------------------------------------------------------------------
(* Properties. *)

\* Types of the variables.
TypeOK ==
  /\ pc \in {"idle", "begin", "observe", "initial", "train", "select",
             "write", "rename", "restore", "final", "generate", "done"}
  /\ request \in Requests /\ seed \in Seeds /\ step \in 0..Steps
  /\ htp \in States /\ cpu \in States
  /\ best \in [htp : States, cpu : States, validation : Metrics,
               step : -1..Steps]
  /\ bestCpu \in [validation : Metrics, step : -1..Steps]
  /\ final \in [htp : Metrics, cpu : Metrics]
  /\ trajectory \in Seq([step : 0..Steps, metrics : Finite])
  /\ validationAllFinite \in BOOLEAN /\ cpuAllStepsFinite \in BOOLEAN
  /\ nan \in BOOLEAN /\ allLoss \in BOOLEAN /\ timed \in Nat
  /\ inference \in Seq([htp : States, cpu : States])
  /\ temporary \in Checkpoints \union {Unset}
  /\ published \in [Seeds -> Checkpoints \union {Unset}]
  /\ status \in {"NONE", "SUCCESS", "FAILED"}

\* What goes on after the selection, and what a .qvc file holds, is the state
\* of one step: parameters, both moments and the CPU reference of the step
\* the metrics of the best evaluation belong to, and the file's optimizer
\* goes on where that state was taken, whatever failed or died before.
SelectedIsWhole ==
  /\ pc = "final" /\ bestValidationMode =>
       /\ htp = After(seed, best.step) /\ cpu = htp
       /\ \E i \in DOMAIN trajectory :
            trajectory[i] = [step |-> best.step, metrics |-> best.validation]
  /\ \A s \in Seeds : published[s] # Unset =>
       LET c == published[s] IN /\ c.state = After(s, c.selectedStep)
                                /\ c.optimizerNextStep = c.selectedStep + 1

\* Ties are not transitive, so a chain of them can carry the best loss away
\* from the minimum, but by no more than one tolerance for each evaluation
\* after the first; and no later evaluation is better than the one that is kept.
SelectionBounded ==
  \A i \in DOMAIN trajectory :
    LET e == trajectory[i] IN
    /\ best.validation.loss
         <= e.metrics.loss + (Len(trajectory) - 1) * Tolerance
    /\ e.step > best.step =>
         ~better(e.metrics, e.step, best.validation, best.step)

\* The early stopping simulated in the report is that of this selection: a
\* simulation that outlives the selected step has selected that step.
SimulationAgrees ==
  pc = "final" /\ bestValidationMode =>
    \A p \in Patiences :
      LET r == simulateEarlyStop(trajectory, p) IN
      /\ r.bestStep <= r.stopStep
      /\ ~r.stopped \/ r.stopStep > best.step => r.bestStep = best.step

\* A report that says SUCCESS is about every seed: each was trained to the
\* last step and evaluated, and what was generated with is the last state
\* or, under BEST_VALIDATION_V1 with a directory, the state in its file.
SuccessIsComplete ==
  pc = "done" /\ status = "SUCCESS" =>
    /\ Len(inference) = LastSeed - FirstSeed + 1
    /\ \A s \in Seeds :
         LET i == inference[s - FirstSeed + 1] IN
         /\ i.cpu = i.htp
         /\ request.mode = "FINAL_STEP" => i.htp = After(s, Steps)
         /\ bestValidationMode /\ request.directory =>
              /\ published[s] # Unset
              /\ i.htp = published[s].state
=============================================================================
