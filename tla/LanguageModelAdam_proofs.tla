---------------------- MODULE LanguageModelAdam_proofs ----------------------
(***************************************************************************)
(* The selection of LanguageModelAdam is sound for any schedule, number of *)
(* seeds and steps, tolerance and sets of losses and accuracies, and the   *)
(* early stopping simulated after the fact is this selection for any       *)
(* patience.                                                               *)
(***************************************************************************)
EXTENDS LanguageModelAdam, WellFoundedInduction, TLAPS

\* Where the call is decides what the current states are.
ControlInv ==
  /\ cpu = htp
  /\ pc \in {"begin", "observe", "initial", "train"} => htp = After(seed, step)
  /\ pc \in {"begin", "initial"} => step = 0
  /\ pc = "train" => step < Steps
  /\ pc \in {"observe", "write", "rename", "restore"} => bestValidationMode
  /\ pc \in {"write", "rename"} => request.directory
  /\ pc \in {"write", "rename", "restore"} => best.step >= 0
  /\ pc \in {"select", "final"} /\ ~bestValidationMode =>
       nan \/ (step = Steps /\ htp = After(seed, Steps))
  /\ pc = "idle" => seed = FirstSeed /\ step = 0 /\ htp = After(seed, 0)

\* The best state is the state of its step, and its metrics are an entry of
\* the trajectory.
BestInv ==
  /\ best.cpu = best.htp
  /\ best.step = -1 => trajectory = <<>> /\ best.validation = Unset
  /\ best.step # -1 => /\ best.step \in 0..Steps
                       /\ best.htp = After(seed, best.step)
                       /\ best.validation \in Finite
                       /\ \E i \in DOMAIN trajectory :
                            trajectory[i] = [step |-> best.step,
                                             metrics |-> best.validation]
  /\ \A i \in DOMAIN trajectory : trajectory[i].step <= step
  /\ pc = "final" /\ bestValidationMode => best.step >= 0 /\ htp = best.htp

\* A published file is whole; the one of the seed is the selected state from
\* its rename on.
FileInv ==
  /\ \A s \in Seeds : published[s] # Unset =>
       LET c == published[s] IN /\ c.state = After(s, c.selectedStep)
                                /\ c.optimizerNextStep = c.selectedStep + 1
  /\ pc = "rename" => temporary = selectedCheckpoint
  /\ pc \in {"restore", "final"} /\ bestValidationMode /\ request.directory =>
       published[seed] # Unset /\ published[seed].state = best.htp

\* The states the seeds before this one ended with.
InferenceInv ==
  /\ pc \notin {"idle", "generate", "done"} => Len(inference) = seed - FirstSeed
  /\ pc \in {"generate", "done"} => Len(inference) = LastSeed - FirstSeed + 1
  /\ pc = "idle" => inference = <<>>
  /\ \A i \in DOMAIN inference :
       /\ inference[i].cpu = inference[i].htp
       /\ ~bestValidationMode =>
            nan \/ inference[i].htp = After(FirstSeed + i - 1, Steps)
       /\ bestValidationMode /\ request.directory =>
            /\ published[FirstSeed + i - 1] # Unset
            /\ inference[i].htp = published[FirstSeed + i - 1].state
  /\ pc = "done" /\ status = "SUCCESS" => ~nan

IInv == /\ TypeOK /\ ControlInv /\ BestInv /\ SelectionBounded /\ FileInv
        /\ InferenceInv

USE DEF bestValidationMode, finite

-----------------------------------------------------------------------------
(* The operators. *)

\* The state of a step is a state.
LEMMA AfterType == \A s \in Seeds, k \in Nat : After(s, k) \in States
  BY DEF After, States, Tensors

\* Updating every tensor of the state of a step gives that of the next one.
LEMMA AfterUpdated ==
  ASSUME NEW s \in Seeds, NEW k \in Nat
  PROVE  [t \in DOMAIN After(s, k) |-> Updated(After(s, k)[t])] = After(s, k + 1)
<1>1. \A t \in {"parameters", "first", "second"} :
        Updated(After(s, k)[t]) = [seed |-> s, updates |-> k + 1]
  BY DEF After, Updated
<1>2. DOMAIN After(s, k) = {"parameters", "first", "second"}
  BY DEF After
<1> QED BY <1>1, <1>2 DEF After

\* The elements of a sequence are in its set.
LEMMA ElementType ==
  ASSUME NEW S, NEW q \in Seq(S) PROVE \A i \in DOMAIN q : q[i] \in S
  OBVIOUS

\* A tie adds one tolerance to the drift.
LEMMA TieChain ==
  ASSUME NEW a \in Nat, NEW b \in Nat, NEW l \in Nat, NEW d \in Nat, NEW t \in Nat,
         a <= b + t, b <= l + d
  PROVE  a <= l + (d + t)
  OBVIOUS

\* The first and the last seed are seeds.
LEMMA EndSeeds == FirstSeed \in Seeds /\ LastSeed \in Seeds
  BY LanguageModelAdamAssumption DEF Seeds

\* A call that ends leaves a state that satisfies the invariant.
LEMMA EndedSafe ==
  ASSUME TypeOK, FileInv, NEW r \in {"NONE", "SUCCESS", "FAILED"}, Ended(r),
         UNCHANGED published, temporary' \in Checkpoints \union {Unset}
  PROVE  IInv'
<1> USE EndSeeds
<1>1. After(FirstSeed, 0) \in States
  BY AfterType
<1>0. <<>> \in Seq([step : 0..Steps, metrics : Finite])
      /\ <<>> \in Seq([htp : States, cpu : States])
  OBVIOUS
<1>2. TypeOK'
  <2>1. -1 \in -1..Steps /\ 0 \in 0..Steps /\ 0 \in Nat
    BY LanguageModelAdamAssumption
  <2>2. request' \in Requests
    BY DEF Ended, SeedStart, NoRequest, Requests
  <2>3. best' \in [htp : States, cpu : States, validation : Metrics,
                  step : -1..Steps]
    BY <1>1, <2>1 DEF Ended, SeedStart, Metrics
  <2>4. /\ bestCpu' \in [validation : Metrics, step : -1..Steps]
        /\ final' \in [htp : Metrics, cpu : Metrics]
    BY <2>1 DEF Ended, SeedStart, NothingBest, Metrics
  <2>5. /\ trajectory' \in Seq([step : 0..Steps, metrics : Finite])
        /\ inference' \in Seq([htp : States, cpu : States])
    BY <1>0 DEF Ended, SeedStart
  <2>6. published' \in [Seeds -> Checkpoints \union {Unset}]
    BY DEF TypeOK, Ended, SeedStart
  <2> QED BY <1>1, <2>1, <2>2, <2>3, <2>4, <2>5, <2>6 DEF TypeOK, Ended, SeedStart
<1>3. ControlInv'
  BY DEF ControlInv, Ended, SeedStart, NoRequest
<1>4. BestInv'
  BY DEF BestInv, Ended, SeedStart, NoRequest
<1>5. SelectionBounded'
  BY DEF SelectionBounded, Ended, SeedStart
<1>6. FileInv'
  BY DEF FileInv, Ended, SeedStart, NoRequest
<1>7. InferenceInv'
  BY DEF InferenceInv, Ended, SeedStart, NoRequest
<1> QED BY <1>2, <1>3, <1>4, <1>5, <1>6, <1>7 DEF IInv

\* The invariant holds at the start.
LEMMA InitSafe == ASSUME Init PROVE IInv
<1> USE EndSeeds
<1>1. After(FirstSeed, 0) \in States
  BY AfterType
<1>0. <<>> \in Seq([step : 0..Steps, metrics : Finite])
      /\ <<>> \in Seq([htp : States, cpu : States])
  OBVIOUS
<1>2. TypeOK
  <2>1. -1 \in -1..Steps /\ 0 \in 0..Steps /\ 0 \in Nat
    BY LanguageModelAdamAssumption
  <2>2. request \in Requests
    BY DEF Init, NoRequest, Requests
  <2>3. best \in [htp : States, cpu : States, validation : Metrics,
                  step : -1..Steps]
    BY <1>1, <2>1 DEF Init, Metrics
  <2>4. /\ bestCpu \in [validation : Metrics, step : -1..Steps]
        /\ final \in [htp : Metrics, cpu : Metrics]
    BY <2>1 DEF Init, NothingBest, Metrics
  <2>5. /\ trajectory \in Seq([step : 0..Steps, metrics : Finite])
        /\ inference \in Seq([htp : States, cpu : States])
    BY <1>0 DEF Init
  <2>6. published \in [Seeds -> Checkpoints \union {Unset}]
    BY DEF TypeOK, Init
  <2> QED BY <1>1, <2>1, <2>2, <2>3, <2>4, <2>5, <2>6 DEF TypeOK, Init
<1>3. ControlInv
  BY DEF ControlInv, Init, NoRequest
<1>4. BestInv
  BY DEF BestInv, Init, NoRequest
<1>5. SelectionBounded
  BY DEF SelectionBounded, Init
<1>6. FileInv
  BY DEF FileInv, Init, NoRequest
<1>7. InferenceInv
  BY DEF InferenceInv, Init, NoRequest
<1> QED BY <1>2, <1>3, <1>4, <1>5, <1>6, <1>7 DEF IInv

-----------------------------------------------------------------------------
(* One lemma per action. *)

\* A call that fails changes no published file.
LEMMA FailSafe ==
  ASSUME IInv, Fail, UNCHANGED published,
         temporary' \in {temporary, Unset} \union Checkpoints
  PROVE  IInv'
  BY EndedSafe DEF IInv, TypeOK, Fail

LEMMA StartSafe == ASSUME IInv, Start PROVE IInv'
<1>1. CASE Fail
  BY <1>1, FailSafe DEF Start, fileVars
<1>2. CASE ~Fail
  <2>1. /\ pc = "idle" /\ pc' = "begin" /\ request' \in Requests /\ status' = "NONE"
        /\ UNCHANGED <<seed, seedVars, totalVars, fileVars>>
    BY <1>2 DEF Start
  <2> USE <2>1 DEF IInv, seedVars, totalVars, fileVars
  <2>2. TypeOK'
    BY DEF TypeOK
  <2>3. ControlInv'
    BY DEF ControlInv
  <2>4. BestInv'
    BY DEF BestInv
  <2>5. SelectionBounded'
    BY DEF SelectionBounded
  <2>6. FileInv'
    BY DEF FileInv
  <2>7. InferenceInv'
    BY LanguageModelAdamAssumption DEF InferenceInv, ControlInv
  <2> QED BY <2>2, <2>3, <2>4, <2>5, <2>6, <2>7
<1> QED BY <1>1, <1>2

\* A step that only moves the call on keeps all but the facts about where it is.
LEMMA MoveSafe ==
  ASSUME IInv, ControlInv', pc' \in {"observe", "initial", "train", "final",
                                     "write", "restore"},
         pc \notin {"idle", "generate", "done"},
         pc' = "restore" => bestValidationMode /\ ~request.directory,
         pc' = "final" => ~bestValidationMode,
         UNCHANGED <<request, seed, seedVars, totalVars, fileVars, status>>
  PROVE  IInv'
<1> USE DEF IInv, seedVars, totalVars, fileVars
<1>2. TypeOK'
  BY DEF TypeOK
<1>4. BestInv'
  BY DEF BestInv
<1>5. SelectionBounded'
  BY DEF SelectionBounded
<1>6. FileInv'
  BY DEF FileInv
<1>7. InferenceInv'
  BY DEF InferenceInv
<1> QED BY <1>2, <1>4, <1>5, <1>6, <1>7

LEMMA BeginSafe == ASSUME IInv, Begin PROVE IInv'
<1>1. CASE Fail
  BY <1>1, FailSafe DEF Begin, fileVars
<1>2. CASE ~Fail
  <2>1. /\ pc = "begin"
        /\ pc' = IF bestValidationMode THEN "observe" ELSE "initial"
        /\ UNCHANGED <<request, seed, seedVars, totalVars, fileVars, status>>
    BY <1>2 DEF Begin
  <2>2. ControlInv'
    BY <2>1 DEF IInv, ControlInv, seedVars
  <2> QED BY <2>1, <2>2, MoveSafe
<1> QED BY <1>1, <1>2

LEMMA InitialEvaluationSafe == ASSUME IInv, InitialEvaluation PROVE IInv'
<1>1. CASE Fail
  BY <1>1, FailSafe DEF InitialEvaluation, fileVars
<1>2. CASE ~Fail
  <2>1. /\ pc = "initial" /\ pc' = "train"
        /\ UNCHANGED <<request, seed, seedVars, totalVars, fileVars, status>>
    BY <1>2 DEF InitialEvaluation
  <2>2. ControlInv'
    BY <2>1, LanguageModelAdamAssumption DEF IInv, ControlInv, seedVars
  <2> QED BY <2>1, <2>2, MoveSafe
<1> QED BY <1>1, <1>2

LEMMA SelectSafe == ASSUME IInv, Select PROVE IInv'
<1>1. CASE Fail
  BY <1>1, FailSafe DEF Select, fileVars
<1>2. CASE ~Fail
  <2>1. /\ pc = "select"
        /\ UNCHANGED <<request, seed, seedVars, totalVars, fileVars, status>>
        /\ \/ ~bestValidationMode /\ pc' = "final"
           \/ /\ bestValidationMode /\ best.step >= 0
              /\ pc' = IF request.directory THEN "write" ELSE "restore"
    BY <1>2 DEF Select, fileVars
  <2>2. request.directory \in BOOLEAN
    BY DEF IInv, TypeOK, Requests
  <2>3. ControlInv'
    BY <2>1, <2>2 DEF IInv, ControlInv, seedVars, totalVars
  <2> QED BY <2>1, <2>2, <2>3, MoveSafe
<1> QED BY <1>1, <1>2

\* A training step moves both states on by one update.
LEMMA TrainStepSafe == ASSUME IInv, TrainStep PROVE IInv'
<1>1. CASE Fail
  BY <1>1, FailSafe DEF TrainStep, fileVars
<1>2. CASE ~Fail
  <2>1. PICK lossFinite \in BOOLEAN, cpuFinite \in BOOLEAN :
          /\ htp' = [t \in DOMAIN htp |-> Updated(htp[t])]
          /\ cpu' = [t \in DOMAIN cpu |-> Updated(cpu[t])]
          /\ timed' = timed + 1
          /\ cpuAllStepsFinite' = (cpuAllStepsFinite /\ cpuFinite)
          /\ nan' = (nan \/ ~lossFinite)
          /\ step' = IF lossFinite THEN step + 1 ELSE step
          /\ pc' = IF lossFinite THEN AfterStep(step + 1) ELSE "select"
          /\ UNCHANGED <<request, seed, best, bestCpu, final, trajectory,
                         validationAllFinite, allLoss, inference, status>>
    BY <1>2 DEF TrainStep
  <2>2. pc = "train" /\ UNCHANGED <<temporary, published>>
    BY DEF TrainStep, fileVars
  <2>3. /\ htp = After(seed, step) /\ cpu = htp /\ step \in Nat /\ step < Steps
        /\ seed \in Seeds /\ Steps \in Nat
    BY <2>2, LanguageModelAdamAssumption DEF IInv, ControlInv, TypeOK
  <2>4. htp' = After(seed, step + 1) /\ cpu' = htp'
    BY <2>1, <2>3, AfterUpdated
  <2>5. htp' \in States
    BY <2>3, <2>4, AfterType
  <2>6. step' \in 0..Steps /\ step <= step' /\ (lossFinite => step' = step + 1)
    BY <2>1, <2>3
  <2>7. /\ pc' \in {"observe", "select", "train"}
        /\ pc' = "observe" => bestValidationMode /\ lossFinite
        /\ pc' = "train" => step' < Steps /\ lossFinite
        /\ pc' = "select" /\ ~bestValidationMode => nan' \/ (step' = Steps /\ lossFinite)
    <3>1. CASE lossFinite
      BY <2>1, <2>3, <3>1 DEF AfterStep, isEvaluationStep
    <3>2. CASE ~lossFinite
      <4>1. nan \in BOOLEAN
        BY DEF IInv, TypeOK
      <4>2. nan'
        BY <2>1, <3>2, <4>1
      <4>3. pc' = "select"
        BY <2>1, <3>2
      <4> QED BY <4>2, <4>3
    <3> QED BY <3>1, <3>2
  <2>8. TypeOK'
    <3>1. /\ timed' \in Nat /\ nan' \in BOOLEAN /\ cpuAllStepsFinite' \in BOOLEAN
      BY <2>1 DEF IInv, TypeOK
    <3> QED BY <2>1, <2>2, <2>4, <2>5, <2>6, <2>7, <3>1 DEF IInv, TypeOK
  <2>9. ControlInv'
    BY <2>1, <2>4, <2>6, <2>7 DEF IInv, ControlInv
  <2>10. BestInv'
    <3>1. \A i \in DOMAIN trajectory : trajectory[i].step \in Nat
      <4>1. trajectory \in Seq([step : 0..Steps, metrics : Finite])
        BY DEF IInv, TypeOK
      <4>2. \A i \in DOMAIN trajectory :
              trajectory[i] \in [step : 0..Steps, metrics : Finite]
        BY <4>1, ElementType
      <4> QED BY <2>3, <4>2
    <3>2. \A i \in DOMAIN trajectory : trajectory[i].step <= step'
      BY <2>3, <2>6, <3>1 DEF IInv, BestInv
    <3> QED BY <2>1, <2>7, <3>2 DEF IInv, BestInv
  <2>11. SelectionBounded'
    BY <2>1 DEF IInv, SelectionBounded
  <2>12. FileInv'
    BY <2>1, <2>2, <2>7 DEF IInv, FileInv
  <2>13. InferenceInv'
    BY <2>1, <2>2, <2>7 DEF IInv, InferenceInv, TypeOK
  <2> QED BY <2>8, <2>9, <2>10, <2>11, <2>12, <2>13 DEF IInv
<1> QED BY <1>1, <1>2

LEMMA WriteTemporarySafe == ASSUME IInv, WriteTemporary PROVE IInv'
<1>1. CASE Fail /\ UNCHANGED temporary
  BY <1>1, FailSafe DEF WriteTemporary
<1>2. CASE ~(Fail /\ UNCHANGED temporary)
  <2>1. /\ pc = "write" /\ pc' = "rename" /\ temporary' = selectedCheckpoint
        /\ UNCHANGED <<request, seed, seedVars, totalVars, status, published>>
    BY <1>2 DEF WriteTemporary
  <2>2. best.step \in Nat /\ best.htp \in States
    BY <2>1, LanguageModelAdamAssumption DEF IInv, TypeOK, ControlInv
  <2>3. selectedCheckpoint \in Checkpoints
    BY <2>2 DEF selectedCheckpoint, Checkpoints
  <2> USE <2>1 DEF IInv, seedVars, totalVars
  <2>4. TypeOK'
    BY <2>3 DEF TypeOK
  <2>5. ControlInv'
    BY DEF ControlInv
  <2>6. BestInv'
    BY DEF BestInv
  <2>7. SelectionBounded'
    BY DEF SelectionBounded
  <2>8. FileInv'
    BY DEF FileInv, selectedCheckpoint
  <2>9. InferenceInv'
    BY DEF InferenceInv
  <2> QED BY <2>4, <2>5, <2>6, <2>7, <2>8, <2>9
<1> QED BY <1>1, <1>2

\* The file of the seed becomes the selected state; those of the others stay.
LEMMA RenameSafe == ASSUME IInv, Rename PROVE IInv'
<1>1. CASE Fail /\ UNCHANGED published
  BY <1>1, FailSafe DEF Rename
<1>2. CASE ~(Fail /\ UNCHANGED published)
  <2>1. /\ pc = "rename" /\ pc' = "restore" /\ temporary' = Unset
        /\ published' = [published EXCEPT ![seed] = temporary]
        /\ UNCHANGED <<request, seed, seedVars, totalVars, status>>
    BY <1>2 DEF Rename
  <2>2. /\ best.step \in Nat /\ best.htp \in States /\ seed \in Seeds
        /\ best.htp = After(seed, best.step)
        /\ temporary = selectedCheckpoint
        /\ published \in [Seeds -> Checkpoints \union {Unset}]
    BY <2>1, LanguageModelAdamAssumption
       DEF IInv, TypeOK, ControlInv, BestInv, FileInv
  <2>3. temporary \in Checkpoints /\ temporary # Unset
    BY <2>2, MetricsAssumption DEF selectedCheckpoint, Checkpoints
  <2>4. \A s \in Seeds : published'[s] = IF s = seed THEN temporary ELSE published[s]
    BY <2>1, <2>2
  <2> USE <2>1 DEF IInv, seedVars, totalVars
  <2>5. TypeOK'
    BY <2>3 DEF TypeOK
  <2>6. ControlInv'
    BY DEF ControlInv
  <2>7. BestInv'
    BY DEF BestInv
  <2>8. SelectionBounded'
    BY DEF SelectionBounded
  <2>9. FileInv'
    <3>1. /\ temporary.state = After(seed, temporary.selectedStep)
          /\ temporary.optimizerNextStep = temporary.selectedStep + 1
          /\ temporary.state = best.htp
      BY <2>2 DEF selectedCheckpoint
    <3>2. \A s \in Seeds : published'[s] # Unset =>
            /\ published'[s].state = After(s, published'[s].selectedStep)
            /\ published'[s].optimizerNextStep = published'[s].selectedStep + 1
      BY <2>4, <3>1 DEF FileInv
    <3> QED BY <2>2, <2>3, <2>4, <3>1, <3>2 DEF FileInv
  <2>10. InferenceInv'
    <3>1. Len(inference) = seed - FirstSeed
      BY DEF InferenceInv
    <3>2. \A i \in DOMAIN inference : published'[FirstSeed + i - 1] =
                                     published[FirstSeed + i - 1]
      BY <2>2, <2>4, <3>1, LanguageModelAdamAssumption DEF TypeOK, Seeds
    <3> QED BY <3>2 DEF InferenceInv
  <2> QED BY <2>5, <2>6, <2>7, <2>8, <2>9, <2>10
<1> QED BY <1>1, <1>2

LEMMA RestoreSafe == ASSUME IInv, Restore PROVE IInv'
<1>1. /\ pc = "restore" /\ pc' = "final" /\ htp' = best.htp /\ cpu' = best.cpu
      /\ UNCHANGED <<request, seed, step, best, bestCpu, final, trajectory,
                     validationAllFinite, cpuAllStepsFinite, totalVars,
                     fileVars, status>>
  BY DEF Restore, selectedCheckpoint
<1>2. /\ best.htp \in States /\ best.cpu = best.htp /\ best.step >= 0
      /\ bestValidationMode
  BY <1>1 DEF IInv, TypeOK, BestInv, ControlInv
<1> USE <1>1, <1>2 DEF IInv, totalVars, fileVars
<1>3. TypeOK'
  BY DEF TypeOK
<1>4. ControlInv'
  BY DEF ControlInv
<1>5. BestInv'
  BY DEF BestInv
<1>6. SelectionBounded'
  BY DEF SelectionBounded
<1>7. FileInv'
  BY DEF FileInv
<1>8. InferenceInv'
  BY DEF InferenceInv
<1> QED BY <1>3, <1>4, <1>5, <1>6, <1>7, <1>8

\* An evaluation that is better than the best one becomes the best one; the
\* bound on the drift grows by one tolerance with each evaluation.
LEMMA ObserveValidationSafe == ASSUME IInv, ObserveValidation PROVE IInv'
<1>1. CASE Fail
  BY <1>1, FailSafe DEF ObserveValidation, fileVars
<1>2. CASE ~Fail
  <2>1. PICK h \in Finite, c \in CpuMetrics :
          /\ validationAllFinite' = (validationAllFinite /\ finite(c))
          /\ trajectory' = Append(trajectory, [step |-> step, metrics |-> h])
          /\ final' = IF step = Steps THEN [htp |-> h, cpu |-> c] ELSE final
          /\ best' = Kept(h)
          /\ bestCpu' = IF better(c, step, bestCpu.validation, bestCpu.step)
                        THEN [validation |-> c, step |-> step] ELSE bestCpu
          /\ pc' = IF step = 0 THEN "initial"
                   ELSE IF step = Steps THEN "select" ELSE "train"
          /\ UNCHANGED <<request, seed, step, htp, cpu, cpuAllStepsFinite,
                         totalVars, status>>
    BY <1>2 DEF ObserveValidation
  <2>2. pc = "observe" /\ UNCHANGED <<temporary, published>>
    BY DEF ObserveValidation, fileVars
  <2>3. /\ step \in 0..Steps /\ Steps \in Nat /\ seed \in Seeds
        /\ htp = After(seed, step) /\ cpu = htp /\ htp \in States
        /\ bestValidationMode /\ Tolerance \in Nat
        /\ trajectory \in Seq([step : 0..Steps, metrics : Finite])
        /\ best \in [htp : States, cpu : States, validation : Metrics,
                     step : -1..Steps]
    BY <2>2, LanguageModelAdamAssumption DEF IInv, ControlInv, TypeOK
  <2>4. h \in Metrics /\ h # Unset /\ c \in Metrics
    BY MetricsAssumption DEF Metrics
  <2> DEFINE n == Len(trajectory)
             e == [step |-> step, metrics |-> h]
             kept == [htp |-> htp, cpu |-> cpu, validation |-> h, step |-> step]
  <2>5. /\ n \in Nat /\ e \in [step : 0..Steps, metrics : Finite]
        /\ trajectory' \in Seq([step : 0..Steps, metrics : Finite])
        /\ Len(trajectory') = n + 1 /\ DOMAIN trajectory' = 1..(n + 1)
        /\ DOMAIN trajectory = 1..n
        /\ trajectory'[n + 1] = e
        /\ \A i \in 1..n : trajectory'[i] = trajectory[i]
    BY <2>1, <2>3
  <2>6. \A i \in 1..n : trajectory[i] \in [step : 0..Steps, metrics : Finite]
    BY <2>3, <2>5, ElementType
  <2>7. \/ best' = kept /\ better(h, step, best.validation, best.step)
        \/ best' = best /\ ~better(h, step, best.validation, best.step)
    BY <2>1 DEF Kept
  <2>8. bestCpu' \in [validation : Metrics, step : -1..Steps]
    BY <2>1, <2>3, <2>4 DEF IInv, TypeOK
  <2>9. pc' \in {"initial", "select", "train"} /\ (pc' = "initial" => step = 0)
        /\ (pc' = "train" => step < Steps)
    BY <2>1, <2>3
  <2>10. TypeOK'
    <3>1. best' \in [htp : States, cpu : States, validation : Metrics,
                     step : -1..Steps]
      BY <2>3, <2>4, <2>7
    <3>2. final' \in [htp : Metrics, cpu : Metrics]
      BY <2>1, <2>4 DEF IInv, TypeOK
    <3>3. validationAllFinite' \in BOOLEAN
      BY <2>1
    <3> QED BY <2>1, <2>2, <2>5, <2>8, <2>9, <3>1, <3>2, <3>3
            DEF IInv, TypeOK, totalVars
  <2>11. ControlInv'
    BY <2>1, <2>2, <2>3, <2>9 DEF IInv, ControlInv, totalVars
  <2>12. BestInv'
    <3>1. \A i \in DOMAIN trajectory' : trajectory'[i].step <= step'
      BY <2>1, <2>5 DEF IInv, BestInv
    <3>2. CASE best' = kept
      BY <2>1, <2>3, <2>5, <2>9, <3>1, <3>2 DEF BestInv
    <3>3. CASE best' = best /\ ~better(h, step, best.validation, best.step)
      <4>1. best.step # -1
        BY <2>4, <3>3 DEF IInv, BestInv, better
      <4> QED BY <2>1, <2>5, <2>9, <3>1, <3>3, <4>1 DEF IInv, BestInv
    <3> QED BY <2>7, <3>2, <3>3
  <2>13. SelectionBounded'
    <3>1. \A a \in Nat : a * Tolerance \in Nat /\ (a + 1) * Tolerance = a * Tolerance + Tolerance
      BY <2>3
    <3>2. \A i \in 1..n : /\ trajectory[i].metrics.loss \in Nat
                         /\ trajectory[i].step \in Nat
                         /\ trajectory[i].step <= step
      <4>1. \A m \in Finite : m.loss \in Nat
        BY LanguageModelAdamAssumption DEF Finite
      <4>2. \A i \in 1..n : /\ trajectory[i].metrics \in Finite
                           /\ trajectory[i].step \in Nat
        BY <2>3, <2>6
      <4>3. \A i \in 1..n : trajectory[i].step <= step
        BY <2>5 DEF IInv, BestInv
      <4> QED BY <4>1, <4>2, <4>3
    <3>3. h.loss \in Nat
      BY LanguageModelAdamAssumption DEF Finite
    <3>4. CASE best.step = -1
      <4>1. best' = kept /\ n = 0
        BY <2>4, <2>7, <3>4 DEF IInv, BestInv, better
      <4> QED BY <2>3, <2>5, <3>3, <4>1 DEF SelectionBounded
    <3>5. CASE best.step # -1
      <4>0. best.validation \in Finite /\ \E i \in 1..n : TRUE
        BY <2>5, <3>5 DEF IInv, BestInv
      <4>1. n - 1 \in Nat /\ best.validation.loss \in Nat
        <5>1. best.validation.loss \in Nat
          BY <4>0, LanguageModelAdamAssumption DEF Finite
        <5>2. PICK i \in 1..n : TRUE
          BY <4>0
        <5> QED BY <2>5, <5>1, <5>2
      <4> DEFINE drift == (n - 1) * Tolerance
      <4>2. n * Tolerance = drift + Tolerance /\ drift \in Nat
        <5>1. ((n - 1) + 1) * Tolerance = drift + Tolerance /\ drift \in Nat
          BY <3>1, <4>1
        <5>2. (n - 1) + 1 = n
          BY <2>5
        <5> QED BY <5>1, <5>2
      <4>3. \A i \in 1..n : best.validation.loss
                             <= trajectory[i].metrics.loss + drift
        BY <2>5 DEF IInv, SelectionBounded
      <4>6. ((n + 1) - 1) * Tolerance = drift + Tolerance
        BY <2>5, <4>2
      <4>7. \A i \in 1..(n + 1) : \/ i \in 1..n /\ trajectory'[i] = trajectory[i]
                                 \/ trajectory'[i] = e
        BY <2>5
      <4> HIDE DEF drift
      <4>4. CASE best' = kept /\ better(h, step, best.validation, best.step)
        <5>1. h.loss <= best.validation.loss + Tolerance
          BY <2>3, <3>3, <4>0, <4>1, <4>4, MetricsAssumption DEF better
        <5>2. \A i \in 1..(n + 1) : h.loss <= trajectory'[i].metrics.loss + (drift + Tolerance)
          <6>1. \A i \in 1..n : h.loss <= trajectory[i].metrics.loss + (drift + Tolerance)
            <7> TAKE i \in 1..n
            <7>1. trajectory[i].metrics.loss \in Nat
              BY <3>2
            <7>2. best.validation.loss <= trajectory[i].metrics.loss + drift
              BY <4>3
            <7> QED BY <2>3, <3>3, <4>1, <4>2, <5>1, <7>1, <7>2, TieChain
          <6>2. h.loss <= e.metrics.loss + (drift + Tolerance)
            BY <2>3, <3>3, <4>2
          <6> QED BY <4>7, <6>1, <6>2
        <5>3. \A i \in 1..(n + 1) : ~(trajectory'[i].step > best'.step)
          <6>1. best'.step = step /\ e.step = step /\ step \in Nat
            BY <2>3, <4>4
          <6>2. \A i \in 1..n : ~(trajectory[i].step > step)
            BY <3>2, <6>1
          <6> QED BY <2>5, <6>1, <6>2
        <5> QED BY <2>5, <4>4, <4>6, <5>2, <5>3 DEF SelectionBounded
      <4>5. CASE best' = best /\ ~better(h, step, best.validation, best.step)
        <5>1. best.validation.loss <= h.loss + Tolerance
          BY <2>3, <2>4, <3>3, <4>1, <4>5 DEF better
        <5>2. \A i \in 1..(n + 1) :
                best'.validation.loss <= trajectory'[i].metrics.loss + (drift + Tolerance)
          <6>1. \A i \in 1..n : best.validation.loss
                                 <= trajectory[i].metrics.loss + (drift + Tolerance)
            <7> TAKE i \in 1..n
            <7>1. trajectory[i].metrics.loss \in Nat
              BY <3>2
            <7>2. best.validation.loss <= trajectory[i].metrics.loss + drift
              BY <4>3
            <7>3. best.validation.loss <= best.validation.loss + Tolerance
              BY <2>3, <4>1
            <7> QED BY <2>3, <4>1, <4>2, <7>1, <7>2, <7>3, TieChain
          <6>2. best.validation.loss <= e.metrics.loss + (drift + Tolerance)
            BY <2>3, <3>3, <4>1, <4>2, <5>1
          <6> QED BY <4>5, <4>7, <6>1, <6>2
        <5>3. \A i \in 1..(n + 1) : trajectory'[i].step > best'.step =>
                ~better(trajectory'[i].metrics, trajectory'[i].step,
                        best'.validation, best'.step)
          BY <2>5, <4>5 DEF IInv, SelectionBounded
        <5> QED BY <2>5, <4>6, <5>2, <5>3 DEF SelectionBounded
      <4> QED BY <2>7, <4>4, <4>5
    <3> QED BY <3>4, <3>5
  <2>14. FileInv'
    BY <2>1, <2>2, <2>9 DEF IInv, FileInv
  <2>15. InferenceInv'
    BY <2>1, <2>2, <2>9 DEF IInv, InferenceInv, totalVars
  <2> QED BY <2>10, <2>11, <2>12, <2>13, <2>14, <2>15 DEF IInv
<1> QED BY <1>1, <1>2

\* A seed that is done leaves its states behind, and the next one starts clean.
LEMMA FinalEvaluationSafe == ASSUME IInv, FinalEvaluation PROVE IInv'
<1>1. CASE Fail
  BY <1>1, FailSafe DEF FinalEvaluation, fileVars
<1>2. CASE ~Fail
  <2>1. PICK evaluationFinite \in BOOLEAN, smaller \in BOOLEAN :
          /\ nan' = (nan \/ ~evaluationFinite \/ step # Steps
                         \/ ~cpuAllStepsFinite)
          /\ allLoss' = (allLoss /\ smaller)
          /\ inference' = Append(inference, [htp |-> htp, cpu |-> cpu])
          /\ IF seed < LastSeed
             THEN pc' = "begin" /\ SeedStart(seed + 1)
             ELSE pc' = "generate" /\ UNCHANGED <<seed, seedVars>>
          /\ UNCHANGED <<request, timed, status>>
    BY <1>2 DEF FinalEvaluation
  <2>2. pc = "final" /\ UNCHANGED <<temporary, published>>
    BY DEF FinalEvaluation, fileVars
  <2>3. /\ seed \in Seeds /\ FirstSeed \in Nat /\ LastSeed \in Nat
        /\ seed \in Nat /\ FirstSeed <= seed /\ seed <= LastSeed
        /\ cpu = htp /\ htp \in States
        /\ inference \in Seq([htp : States, cpu : States])
        /\ Len(inference) = seed - FirstSeed
    BY <2>2, LanguageModelAdamAssumption
       DEF IInv, TypeOK, Seeds, ControlInv, InferenceInv
  <2> DEFINE n == Len(inference)
             i == [htp |-> htp, cpu |-> cpu]
  <2>4. /\ n \in Nat /\ n + 1 = seed - FirstSeed + 1
        /\ inference' \in Seq([htp : States, cpu : States])
        /\ Len(inference') = n + 1 /\ DOMAIN inference' = 1..(n + 1)
        /\ DOMAIN inference = 1..n
        /\ inference'[n + 1] = i
        /\ \A j \in 1..n : inference'[j] = inference[j]
    BY <2>1, <2>3
  <2>5. /\ nan \in BOOLEAN /\ nan' \in BOOLEAN /\ allLoss' \in BOOLEAN
        /\ nan => nan' /\ (step # Steps => nan')
    BY <2>1 DEF IInv, TypeOK
  <2>6. \A j \in 1..(n + 1) :
          /\ inference'[j].cpu = inference'[j].htp
          /\ ~bestValidationMode =>
               nan' \/ inference'[j].htp = After(FirstSeed + j - 1, Steps)
          /\ bestValidationMode /\ request.directory =>
               /\ published[FirstSeed + j - 1] # Unset
               /\ inference'[j].htp = published[FirstSeed + j - 1].state
    <3>1. FirstSeed + (n + 1) - 1 = seed
      BY <2>3, <2>4
    <3>2. i.cpu = i.htp
      BY <2>3
    <3>3. ~bestValidationMode => nan' \/ i.htp = After(seed, Steps)
      BY <2>2, <2>5 DEF IInv, ControlInv
    <3>4. bestValidationMode /\ request.directory =>
            published[seed] # Unset /\ i.htp = published[seed].state
      BY <2>2 DEF IInv, FileInv, BestInv
    <3>5. \A j \in 1..n :
            /\ inference[j].cpu = inference[j].htp
            /\ ~bestValidationMode =>
                 nan' \/ inference[j].htp = After(FirstSeed + j - 1, Steps)
            /\ bestValidationMode /\ request.directory =>
                 /\ published[FirstSeed + j - 1] # Unset
                 /\ inference[j].htp = published[FirstSeed + j - 1].state
      BY <2>4, <2>5 DEF IInv, InferenceInv
    <3>6. \A j \in 1..(n + 1) : j \in 1..n \/ j = n + 1
      BY <2>4
    <3> HIDE DEF n, i
    <3> QED BY <2>4, <3>1, <3>2, <3>3, <3>4, <3>5, <3>6
  <2>7. CASE seed < LastSeed
    <3>1. pc' = "begin" /\ SeedStart(seed + 1) /\ seed + 1 \in Seeds
      BY <2>1, <2>3, <2>7 DEF Seeds
    <3>2. After(seed + 1, 0) \in States /\ -1 \in -1..Steps /\ 0 \in 0..Steps
      BY <3>1, AfterType, LanguageModelAdamAssumption
    <3>3. TypeOK'
      <4>1. best' \in [htp : States, cpu : States, validation : Metrics,
                       step : -1..Steps]
        BY <3>1, <3>2 DEF SeedStart, Metrics
      <4>2. /\ bestCpu' \in [validation : Metrics, step : -1..Steps]
            /\ final' \in [htp : Metrics, cpu : Metrics]
        BY <3>1, <3>2 DEF SeedStart, NothingBest, Metrics
      <4>3. trajectory' \in Seq([step : 0..Steps, metrics : Finite])
        BY <3>1 DEF SeedStart
      <4> QED BY <2>1, <2>2, <2>4, <2>5, <3>1, <3>2, <4>1, <4>2, <4>3
              DEF IInv, TypeOK, SeedStart
    <3>4. ControlInv'
      BY <2>1, <3>1 DEF ControlInv, SeedStart
    <3>5. BestInv'
      BY <2>1, <3>1 DEF BestInv, SeedStart
    <3>6. SelectionBounded'
      BY <3>1 DEF SelectionBounded, SeedStart
    <3>7. FileInv'
      BY <2>2, <3>1 DEF IInv, FileInv
    <3>8. InferenceInv'
      <4>1. Len(inference') = seed' - FirstSeed
        BY <2>3, <2>4, <3>1 DEF SeedStart
      <4> QED BY <2>1, <2>2, <2>4, <2>6, <3>1, <4>1 DEF InferenceInv
    <3> QED BY <3>3, <3>4, <3>5, <3>6, <3>7, <3>8 DEF IInv
  <2>8. CASE ~(seed < LastSeed)
    <3>1. pc' = "generate" /\ UNCHANGED <<seed, seedVars>> /\ seed = LastSeed
      BY <2>1, <2>3, <2>8
    <3>3. TypeOK'
      BY <2>1, <2>2, <2>4, <2>5, <3>1 DEF IInv, TypeOK, seedVars
    <3>4. ControlInv'
      BY <2>1, <3>1 DEF IInv, ControlInv, seedVars
    <3>5. BestInv'
      BY <2>1, <3>1 DEF IInv, BestInv, seedVars
    <3>6. SelectionBounded'
      BY <3>1 DEF IInv, SelectionBounded, seedVars
    <3>7. FileInv'
      BY <2>2, <3>1 DEF IInv, FileInv
    <3>8. InferenceInv'
      BY <2>1, <2>2, <2>3, <2>4, <2>6, <3>1 DEF InferenceInv
    <3> QED BY <3>3, <3>4, <3>5, <3>6, <3>7, <3>8 DEF IInv
  <2> QED BY <2>7, <2>8
<1> QED BY <1>1, <1>2

LEMMA GenerateSafe == ASSUME IInv, Generate PROVE IInv'
<1>1. CASE Fail
  BY <1>1, FailSafe DEF Generate, fileVars
<1>2. CASE ~Fail
  <2>1. /\ pc = "generate" /\ pc' = "done" /\ status' \in {"SUCCESS", "FAILED"}
        /\ status' = "SUCCESS" => ~nan
        /\ UNCHANGED <<request, seed, seedVars, totalVars, fileVars>>
    BY <1>2 DEF Generate, formalComplete
  <2> USE <2>1 DEF IInv, seedVars, totalVars, fileVars
  <2>2. TypeOK'
    BY DEF TypeOK
  <2>3. ControlInv'
    BY DEF ControlInv
  <2>4. BestInv'
    BY DEF BestInv
  <2>5. SelectionBounded'
    BY DEF SelectionBounded
  <2>6. FileInv'
    BY DEF FileInv
  <2>7. InferenceInv'
    BY DEF InferenceInv
  <2> QED BY <2>2, <2>3, <2>4, <2>5, <2>6, <2>7
<1> QED BY <1>1, <1>2

LEMMA ReturnSafe == ASSUME IInv, Return PROVE IInv'
<1>1. /\ Ended(status) /\ UNCHANGED published
      /\ status \in {"NONE", "SUCCESS", "FAILED"}
      /\ temporary' \in Checkpoints \union {Unset}
  BY DEF IInv, TypeOK, Return, fileVars
<1> QED BY <1>1, EndedSafe DEF IInv

LEMMA DieSafe == ASSUME IInv, Die PROVE IInv'
<1>1. /\ Ended("NONE") /\ UNCHANGED published
      /\ temporary' \in Checkpoints \union {Unset}
  BY DEF Die
<1> QED BY <1>1, EndedSafe DEF IInv

\* A step that changes nothing keeps the invariant.
LEMMA StutterSafe == ASSUME IInv, UNCHANGED vars PROVE IInv'
<1> USE DEF IInv, vars, seedVars, totalVars, fileVars
<1>1. TypeOK'
  BY DEF TypeOK
<1>2. ControlInv'
  BY DEF ControlInv
<1>3. BestInv'
  BY DEF BestInv
<1>4. SelectionBounded'
  BY DEF SelectionBounded
<1>5. FileInv'
  BY DEF FileInv, selectedCheckpoint
<1>6. InferenceInv'
  BY DEF InferenceInv
<1> QED BY <1>1, <1>2, <1>3, <1>4, <1>5, <1>6

-----------------------------------------------------------------------------
(* The theorems. *)

\* The invariant holds in every state.
LEMMA Safe == Spec => []IInv
<1>1. Init => IInv
  BY InitSafe
<1>2. IInv /\ [Next]_vars => IInv'
  BY StartSafe, BeginSafe, ObserveValidationSafe, InitialEvaluationSafe,
     TrainStepSafe, SelectSafe, WriteTemporarySafe, RenameSafe, RestoreSafe,
     FinalEvaluationSafe, GenerateSafe, ReturnSafe, DieSafe, StutterSafe DEF Next
<1> QED BY <1>1, <1>2, PTL DEF Spec

\* Every variable keeps its type: no seed is trained past the last step, and
\* every state that is kept, written or generated with is one that was trained.
THEOREM TypeCorrect == Spec => []TypeOK
<1>1. IInv => TypeOK
  BY DEF IInv
<1> QED BY <1>1, Safe, PTL

\* For any number of seeds and steps and any schedule, what the seed goes on
\* with, and what its .qvc file holds, is the whole state of the step whose
\* metrics were best, across failures and the death of the process.
THEOREM SelectedAlwaysWhole == Spec => []SelectedIsWhole
<1>1. IInv => SelectedIsWhole
  <2> SUFFICES ASSUME IInv PROVE SelectedIsWhole
    OBVIOUS
  <2>1. ASSUME pc = "final", bestValidationMode
        PROVE  /\ htp = After(seed, best.step) /\ cpu = htp
               /\ \E i \in DOMAIN trajectory :
                    trajectory[i] = [step |-> best.step,
                                     metrics |-> best.validation]
    BY <2>1 DEF IInv, ControlInv, BestInv, TypeOK
  <2> QED BY <2>1 DEF SelectedIsWhole, IInv, FileInv
<1> QED BY <1>1, Safe, PTL

\* For any losses and tolerance, a chain of ties moves the best loss away from
\* the minimum by at most one tolerance for each evaluation after the first,
\* and no evaluation after the kept one is better than it.
THEOREM DriftIsBounded == Spec => []SelectionBounded
<1>1. IInv => SelectionBounded
  BY DEF IInv
<1> QED BY <1>1, Safe, PTL

\* For any number of seeds, a SUCCESS report was generated with the last state
\* of every seed, or with the one that is in its file.
THEOREM SuccessMeansComplete == Spec => []SuccessIsComplete
<1>1. IInv => SuccessIsComplete
  <2> SUFFICES ASSUME IInv, pc = "done", status = "SUCCESS"
               PROVE  SuccessIsComplete
    BY DEF SuccessIsComplete
  <2>1. /\ Len(inference) = LastSeed - FirstSeed + 1 /\ ~nan
        /\ inference \in Seq([htp : States, cpu : States])
    BY DEF IInv, InferenceInv, TypeOK
  <2>2. ASSUME NEW s \in Seeds
        PROVE  LET i == inference[s - FirstSeed + 1] IN
               /\ i.cpu = i.htp
               /\ request.mode = "FINAL_STEP" => i.htp = After(s, Steps)
               /\ bestValidationMode /\ request.directory =>
                    /\ published[s] # Unset
                    /\ i.htp = published[s].state
    <3>1. /\ s - FirstSeed + 1 \in DOMAIN inference
          /\ FirstSeed + (s - FirstSeed + 1) - 1 = s
      BY <2>1, LanguageModelAdamAssumption DEF Seeds
    <3> QED BY <2>1, <3>1 DEF IInv, InferenceInv
  <2> QED BY <2>1, <2>2 DEF SuccessIsComplete
<1> QED BY <1>1, Safe, PTL
-----------------------------------------------------------------------------
(* The simulated early stopping. *)

\* A nonempty set of natural numbers has a least element.
LEMMA LeastNat ==
  ASSUME NEW T \in SUBSET Nat, T # {}
  PROVE  \E m \in T : \A k \in T : m <= k
<1>1. PICK m \in T : \A k \in T : <<k, m>> \notin OpToRel(<, Nat)
  BY WFMin, NatLessThanWellFounded, Zenon
<1>2. \A k \in T : ~(k < m)
  BY <1>1, Zenon DEF OpToRel
<1> QED
  BY <1>2

\* Induction up to n, over the set of the numbers it has been shown for.
LEMMA UpTo ==
  ASSUME NEW n \in Nat, NEW T, 0 \in T, \A i \in 1..n : i - 1 \in T => i \in T
  PROVE  0..n \subseteq T
<1> DEFINE Wrong == {i \in 0..n : i \notin T}
<1> SUFFICES ASSUME Wrong # {} PROVE FALSE
  OBVIOUS
<1>1. Wrong \in SUBSET Nat
  OBVIOUS
<1>2. PICK m \in Wrong : \A k \in Wrong : m <= k
  BY <1>1, LeastNat
<1>3. m \in 0..n /\ m \notin T /\ m # 0
  BY <1>2
<1>4. m \in 1..n /\ m - 1 \in 0..n /\ m - 1 < m
  BY <1>3
<1>5. m - 1 \in T
  BY <1>2, <1>4
<1> QED BY <1>3, <1>4, <1>5

\* What `body' makes of a function at an argument depends on the function's
\* values at arguments of a smaller rank only, and the ranks are bounded.
Recursive(D, S, n, rank, body) ==
  /\ n \in Nat /\ rank \in [D -> 0..n] /\ S # {}
  /\ body \in [[D -> S] -> [D -> S]]
  /\ \A g, h \in [D -> S] : \A d \in D :
       (\A e \in D : rank[e] < rank[d] => g[e] = h[e]) => body[g][d] = body[h][d]

\* Then there is a function that is what `body' makes of it: the equation of a
\* recursive definition has a solution.
LEMMA RecursionWellDefined ==
  ASSUME NEW D, NEW S, NEW n, NEW rank, NEW body, Recursive(D, S, n, rank, body)
  PROVE  \E f \in [D -> S] : f = body[f]
<1>0. /\ n \in Nat /\ rank \in [D -> 0..n] /\ S # {}
      /\ body \in [[D -> S] -> [D -> S]]
  BY DEF Recursive
<1> DEFINE Right(m) == \E f \in [D -> S] : \A d \in D : rank[d] < m => f[d] = body[f][d]
           Wrong == {m \in Nat : ~Right(m)}
<1>1. Wrong = {}
  <2> SUFFICES ASSUME Wrong # {} PROVE FALSE
    OBVIOUS
  <2>1. PICK m \in Wrong : \A k \in Wrong : m <= k
    <3> HIDE DEF Right
    <3>1. Wrong \in SUBSET Nat
      OBVIOUS
    <3> HIDE DEF Wrong
    <3> QED BY <3>1, LeastNat
  <2>0. m \in Nat
    OBVIOUS
  <2>2. m # 0
    <3>1. Right(0)
      <4>1. \A d \in D : ~(rank[d] < 0)
        BY <1>0
      <4>2. PICK s \in S : TRUE
        BY <1>0
      <4>3. [d \in D |-> s] \in [D -> S]
        OBVIOUS
      <4> QED BY <4>1, <4>3
    <3> QED BY <3>1
  <2>3. Right(m - 1)
    <3>1. m - 1 \in Nat /\ m - 1 < m
      BY <2>2
    <3> HIDE DEF Right
    <3> QED BY <2>1, <3>1
  <2>4. PICK f \in [D -> S] : \A d \in D : rank[d] < m - 1 => f[d] = body[f][d]
    BY <2>3
  <2> DEFINE g == [d \in D |-> IF rank[d] = m - 1 THEN body[f][d] ELSE f[d]]
  <2>5. g \in [D -> S]
    <3>1. body[f] \in [D -> S]
      BY <1>0
    <3> QED BY <3>1
  <2>6. \A d \in D : rank[d] < m - 1 => g[d] = f[d]
    OBVIOUS
  <2>7. \A d \in D : rank[d] = m - 1 => g[d] = body[f][d]
    OBVIOUS
  <2> HIDE DEF g
  <2>8. ASSUME NEW d \in D, rank[d] < m PROVE g[d] = body[g][d]
    <3>1. rank[d] \in Nat /\ \A e \in D : rank[e] \in Nat
      BY <1>0
    <3>2. \A e \in D : rank[e] < rank[d] => g[e] = f[e]
      BY <2>6, <2>8, <3>1
    <3>3. body[g][d] = body[f][d]
      BY <2>5, <3>2 DEF Recursive
    <3>4. \A a, b \in Nat : a < b => a < b - 1 \/ a = b - 1
      BY ONLY 0 < 1
    <3>5. rank[d] < m - 1 \/ rank[d] = m - 1
      BY <2>0, <2>8, <3>1, <3>4, Zenon
    <3> QED BY <2>4, <2>6, <2>7, <3>3, <3>5
  <2>9. Right(m)
    BY <2>5, <2>8
  <2> QED BY <2>9
<1>2. Right(n + 1)
  <2>1. n + 1 \in Nat
    BY <1>0
  <2> HIDE DEF Right
  <2> QED BY <1>1, <2>1
<1>3. PICK f \in [D -> S] : \A d \in D : rank[d] < n + 1 => f[d] = body[f][d]
  BY <1>2
<1>4. \A d \in D : rank[d] < n + 1
  BY <1>0
<1>5. body[f] \in [D -> S]
  BY <1>0
<1> QED BY <1>3, <1>4, <1>5

Evaluations == [step : 0..Steps, metrics : Finite]
Outcomes == [best : Metrics, bestStep : 0..Steps, stale : Nat, stopped : BOOLEAN,
             stopStep : 0..Steps]
NothingSeen == [best |-> Unset, bestStep |-> 0, stale |-> 0, stopped |-> FALSE,
                stopStep |-> Steps]

\* An evaluation takes the simulation from one outcome to another.
LEMMA SimulatedType ==
  ASSUME NEW r \in Outcomes, NEW e \in Evaluations, NEW patience
  PROVE  simulated(r, e, patience) \in Outcomes
<1>1. e.step \in 0..Steps /\ e.metrics \in Metrics
  BY DEF Evaluations, Metrics
<1>2. [r EXCEPT !.best = e.metrics, !.bestStep = e.step, !.stale = 0] \in Outcomes
  BY <1>1 DEF Outcomes
<1>3. [r EXCEPT !.stopped = TRUE, !.stopStep = e.step] \in Outcomes
  BY <1>1 DEF Outcomes
<1>4. [r EXCEPT !.stale = @ + 1] \in Outcomes
  BY DEF Outcomes
<1> QED BY <1>2, <1>3, <1>4 DEF simulated

\* `seen' is the outcome after each number of evaluations.
IsSimulation(seen, t, patience) ==
  /\ seen[0] = NothingSeen
  /\ \A i \in 1..Len(t) : seen[i] = simulated(seen[i - 1], t[i], patience)

\* The recursive definition of simulateEarlyStop has a solution, and is it.
LEMMA SimulationExists ==
  ASSUME NEW t \in Seq(Evaluations), NEW patience
  PROVE  \E seen \in [0..Len(t) -> Outcomes] :
           IsSimulation(seen, t, patience) /\ simulateEarlyStop(t, patience) = seen[Len(t)]
<1> DEFINE D == 0..Len(t)
           one(f, i) == IF i = 0 THEN NothingSeen ELSE simulated(f[i - 1], t[i], patience)
           body == [f \in [D -> Outcomes] |-> [i \in D |-> one(f, i)]]
           rank == [i \in D |-> i]
<1>1. Len(t) \in Nat /\ \A i \in 1..Len(t) : t[i] \in Evaluations
  BY ElementType
<1>2. NothingSeen \in Outcomes
  BY LanguageModelAdamAssumption DEF NothingSeen, Outcomes, Metrics
<1>3. ASSUME NEW f \in [D -> Outcomes], NEW i \in D PROVE one(f, i) \in Outcomes
  <2>1. CASE i = 0
    BY <1>2, <2>1
  <2>2. CASE i # 0
    <3>1. i - 1 \in D /\ i \in 1..Len(t)
      BY <1>1, <2>2
    <3> QED BY <1>1, <2>2, <3>1, SimulatedType
  <2> QED BY <2>1, <2>2
<1>4. body \in [[D -> Outcomes] -> [D -> Outcomes]]
  BY <1>3
<1>6. rank \in [D -> 0..Len(t)]
  OBVIOUS
<1>7. ASSUME NEW g \in [D -> Outcomes], NEW h \in [D -> Outcomes], NEW d \in D,
             \A e \in D : rank[e] < rank[d] => g[e] = h[e]
      PROVE  body[g][d] = body[h][d]
  <2>1. one(g, d) = one(h, d)
    <3>1. CASE d = 0
      BY <3>1
    <3>2. CASE d # 0
      <4>1. d - 1 \in D /\ d - 1 < d
        BY <1>1, <3>2
      <4>2. g[d - 1] = h[d - 1]
        BY <1>7, <4>1
      <4> QED BY <3>2, <4>2
    <3> QED BY <3>1, <3>2
  <2> QED BY <2>1
<1>8. Recursive(D, Outcomes, Len(t), rank, body)
  <2> HIDE DEF D, body, rank
  <2> QED BY <1>1, <1>2, <1>4, <1>6, <1>7 DEF Recursive
<1>9. \E f \in [D -> Outcomes] : f = body[f]
  <2> HIDE DEF D, body, rank
  <2> QED BY <1>8, RecursionWellDefined
<1>10. \E f \in [D -> Outcomes] : f = [i \in D |-> one(f, i)]
  BY <1>9
<1> DEFINE seen == CHOOSE f : f = [i \in D |-> one(f, i)]
<1>12. seen = [i \in D |-> one(seen, i)]
  BY <1>10
<1>11. simulateEarlyStop(t, patience) = seen[Len(t)]
  BY DEF simulateEarlyStop, NothingSeen
<1>13. PICK f \in [D -> Outcomes] : f = [i \in D |-> one(f, i)]
  BY <1>10
<1> HIDE DEF seen
<1>14. \A i \in D : f[i] = one(f, i) /\ seen[i] = one(seen, i)
  <2>1. \A i \in D : f[i] = one(f, i)
    BY <1>13
  <2>2. \A i \in D : seen[i] = one(seen, i)
    BY <1>12
  <2> QED BY <2>1, <2>2
<1>15. \A i \in D : seen[i] = f[i]
  <2> DEFINE T == {i \in D : seen[i] = f[i]}
  <2>1. 0 \in T
    BY <1>1, <1>14
  <2>2. ASSUME NEW i \in 1..Len(t), i - 1 \in T PROVE i \in T
    <3>1. i \in D /\ i # 0 /\ seen[i - 1] = f[i - 1]
      BY <1>1, <2>2
    <3> QED BY <1>14, <3>1
  <2>3. D \subseteq T
    <3> HIDE DEF T
    <3> QED BY <1>1, <2>1, <2>2, UpTo
  <2> QED BY <2>3
<1>16. IsSimulation(f, t, patience)
  <2>1. f[0] = NothingSeen
    BY <1>1, <1>14
  <2>2. ASSUME NEW i \in 1..Len(t) PROVE f[i] = simulated(f[i - 1], t[i], patience)
    <3>1. i \in D /\ i # 0
      BY <1>1
    <3> QED BY <1>14, <3>1
  <2> QED BY <2>1, <2>2 DEF IsSimulation
<1> QED BY <1>1, <1>11, <1>15, <1>16

\* The simulation of an empty trajectory has seen nothing.
LEMMA SimulationStarts ==
  ASSUME NEW patience
  PROVE  simulateEarlyStop(<<>>, patience) = NothingSeen
<1>1. <<>> \in Seq(Evaluations) /\ Len(<<>>) = 0
  OBVIOUS
<1> QED BY <1>1, SimulationExists DEF IsSimulation

\* One more evaluation is one more step of the simulation.
LEMMA SimulationGoesOn ==
  ASSUME NEW t \in Seq(Evaluations), NEW e \in Evaluations, NEW patience
  PROVE  /\ simulateEarlyStop(t, patience) \in Outcomes
         /\ simulateEarlyStop(Append(t, e), patience)
              = simulated(simulateEarlyStop(t, patience), e, patience)
<1> DEFINE u == Append(t, e)
<1>1. /\ u \in Seq(Evaluations) /\ Len(u) = Len(t) + 1 /\ Len(t) \in Nat
      /\ u[Len(t) + 1] = e /\ \A i \in 1..Len(t) : u[i] = t[i]
  OBVIOUS
<1> HIDE DEF u
<1>2. PICK f \in [0..Len(t) -> Outcomes] :
        IsSimulation(f, t, patience) /\ simulateEarlyStop(t, patience) = f[Len(t)]
  BY SimulationExists
<1>3. PICK g \in [0..Len(u) -> Outcomes] :
        IsSimulation(g, u, patience) /\ simulateEarlyStop(u, patience) = g[Len(u)]
  BY <1>1, SimulationExists
<1> DEFINE T == {i \in 0..Len(t) : f[i] = g[i]}
<1>4. 0 \in T
  BY <1>1, <1>2, <1>3 DEF IsSimulation
<1>5. ASSUME NEW i \in 1..Len(t), i - 1 \in T PROVE i \in T
  <2>1. i \in 1..Len(u) /\ i \in 0..Len(t) /\ f[i - 1] = g[i - 1]
    BY <1>1, <1>5
  <2>2. f[i] = simulated(f[i - 1], t[i], patience)
    BY <1>2, <2>1 DEF IsSimulation
  <2>3. g[i] = simulated(g[i - 1], u[i], patience)
    BY <1>3, <2>1 DEF IsSimulation
  <2> QED BY <1>1, <2>1, <2>2, <2>3
<1>6. 0..Len(t) \subseteq T
  <2> HIDE DEF T
  <2> QED BY <1>1, <1>4, <1>5, UpTo
<1>7. f[Len(t)] = g[Len(t)]
  BY <1>1, <1>6
<1>8. g[Len(u)] = simulated(g[Len(t)], e, patience)
  <2>1. Len(u) \in 1..Len(u) /\ Len(u) - 1 = Len(t) /\ u[Len(u)] = e
    BY <1>1
  <2> QED BY <1>3, <2>1 DEF IsSimulation
<1> QED BY <1>1, <1>2, <1>3, <1>7, <1>8 DEF u


\* As long as a simulation has not stopped it has selected what the run has;
\* a stopped one keeps the selection of its last step, and so does the run
\* unless it selects a step from there on.
SimulationInv ==
  /\ pc \in {"idle", "begin"} => trajectory = <<>>
  /\ pc = "observe" => best.step < step
  /\ \A p \in Patiences :
       LET r == simulateEarlyStop(trajectory, p) IN
       /\ ~r.stopped => /\ r.best = best.validation
                        /\ r.stopStep = Steps
                        /\ best.step # -1 => r.bestStep = best.step
       /\ r.stopped => /\ r.bestStep < r.stopStep /\ r.stopStep <= step
                       /\ pc = "observe" => r.stopStep < step
                       /\ best.step < r.stopStep => r.bestStep = best.step

\* Where nothing has been evaluated, nothing has been simulated either.
LEMMA SimulationFresh ==
  ASSUME trajectory' = <<>>, best'.validation = Unset, best'.step = -1, step' \in Nat
  PROVE  SimulationInv'
<1>1. ASSUME NEW p \in Patiences PROVE simulateEarlyStop(trajectory', p) = NothingSeen
  BY SimulationStarts
<1> QED BY <1>1 DEF SimulationInv, NothingSeen

\* An evaluation: a better one is selected by the run and by every simulation
\* that goes on, another one leaves both selections, and may end a simulation.
LEMMA SimulationObserves ==
  ASSUME IInv, SimulationInv, ObserveValidation, ~Fail
  PROVE  SimulationInv'
<1> USE DEF IInv
<1>1. PICK h \in Finite :
        /\ trajectory' = Append(trajectory, [step |-> step, metrics |-> h])
        /\ best' = Kept(h)
        /\ pc' \notin {"idle", "begin", "observe"}
        /\ step' = step
  BY DEF ObserveValidation
<1> DEFINE e == [step |-> step, metrics |-> h]
<1>2. /\ pc = "observe" /\ best.step < step
      /\ step \in 0..Steps /\ Steps \in Nat /\ h # Unset
      /\ best.step \in -1..Steps /\ best.validation \in Metrics
      /\ trajectory \in Seq(Evaluations) /\ e \in Evaluations
  BY LanguageModelAdamAssumption, MetricsAssumption
     DEF ObserveValidation, SimulationInv, TypeOK, Evaluations, Metrics
<1>3. \/ best'.validation = h /\ best'.step = step
      \/ best' = best /\ ~better(h, step, best.validation, best.step)
  BY <1>1 DEF Kept
<1>4. better(h, step, best.validation, best.step) =>
        best'.validation = h /\ best'.step = step
  BY <1>1 DEF Kept
<1>5. ASSUME NEW p \in Patiences
      PROVE  LET r == simulateEarlyStop(trajectory', p) IN
             /\ ~r.stopped => /\ r.best = best'.validation
                              /\ r.stopStep = Steps
                              /\ best'.step # -1 => r.bestStep = best'.step
             /\ r.stopped => /\ r.bestStep < r.stopStep /\ r.stopStep <= step
                             /\ best'.step < r.stopStep => r.bestStep = best'.step
  <2> DEFINE r == simulateEarlyStop(trajectory, p)
             s == simulateEarlyStop(trajectory', p)
  <2>1. r \in Outcomes /\ s = simulated(r, e, p)
    BY <1>1, <1>2, SimulationGoesOn
  <2>2. /\ ~r.stopped => /\ r.best = best.validation /\ r.stopStep = Steps
                         /\ best.step # -1 => r.bestStep = best.step
        /\ r.stopped => /\ r.bestStep < r.stopStep /\ r.stopStep < step
                        /\ best.step < r.stopStep => r.bestStep = best.step
    BY <1>2 DEF SimulationInv
  <2> HIDE DEF r, s
  <2>3. CASE r.stopped
    <3>1. s = r
      BY <2>1, <2>3 DEF simulated
    <3>2. r.stopStep \in Nat /\ r.bestStep \in Nat
      BY <2>1 DEF Outcomes
    <3> QED BY <1>2, <1>3, <2>2, <2>3, <3>1, <3>2 DEF s
  <2>4. CASE ~r.stopped
    <3>1. better(e.metrics, e.step, r.best, r.bestStep)
            <=> better(h, step, best.validation, best.step)
      <4>1. CASE best.step = -1
        BY <2>2, <2>4, <4>1 DEF better, BestInv
      <4>2. CASE best.step # -1
        BY <2>2, <2>4, <4>2
      <4> QED BY <4>1, <4>2
    <3>2. CASE better(h, step, best.validation, best.step)
      <4>1. s = [r EXCEPT !.best = h, !.bestStep = step, !.stale = 0]
        BY <2>1, <2>4, <3>1, <3>2 DEF simulated
      <4>2. ~s.stopped /\ s.best = h /\ s.bestStep = step /\ s.stopStep = Steps
        BY <2>1, <2>2, <2>4, <4>1 DEF Outcomes
      <4> QED BY <1>4, <3>2, <4>2 DEF s
    <3>3. CASE ~better(h, step, best.validation, best.step)
      <4>1. best' = best /\ best.step # -1
        <5>1. best.step = -1 => better(h, step, best.validation, best.step)
          BY <1>2 DEF better, BestInv
        <5> QED BY <1>1, <3>3, <5>1 DEF Kept
      <4>2. \/ s = [r EXCEPT !.stopped = TRUE, !.stopStep = step]
            \/ s = [r EXCEPT !.stale = @ + 1]
        BY <2>1, <2>4, <3>1, <3>3 DEF simulated
      <4>3. \/ s.stopped /\ s.stopStep = step /\ s.bestStep = r.bestStep
            \/ /\ ~s.stopped /\ s.best = r.best /\ s.stopStep = r.stopStep
               /\ s.bestStep = r.bestStep
        BY <2>1, <2>4, <4>2 DEF Outcomes
      <4> QED BY <1>2, <2>2, <2>4, <4>1, <4>3 DEF s
    <3> QED BY <3>2, <3>3
  <2> QED BY <2>3, <2>4
<1> QED BY <1>1, <1>5 DEF SimulationInv

LEMMA SimulationStep ==
  ASSUME IInv, SimulationInv, [Next]_vars
  PROVE  SimulationInv'
<1> USE DEF IInv
<1>1. step \in Nat /\ 0 \in Nat
  BY DEF TypeOK
<1>2. CASE \/ Fail \/ Return \/ Die
           \/ FinalEvaluation /\ seed < LastSeed /\ ~Fail
  <2>1. trajectory' = <<>> /\ best'.validation = Unset /\ best'.step = -1 /\ step' = 0
    BY <1>2 DEF Fail, Return, Die, Ended, FinalEvaluation, SeedStart
  <2> QED BY <1>1, <2>1, SimulationFresh
<1>3. CASE ObserveValidation /\ ~Fail
  BY <1>3, SimulationObserves
<1>4. CASE TrainStep /\ ~Fail
  <2>1. /\ pc = "train" /\ UNCHANGED <<trajectory, best>> /\ pc' \notin {"idle", "begin"}
        /\ \/ step' = step + 1
           \/ step' = step /\ pc' = "select"
    BY <1>4 DEF TrainStep, AfterStep
  <2>2. best.step <= step
    <3>1. CASE best.step = -1
      BY <1>1, <3>1
    <3>2. CASE best.step # -1
      BY <3>2 DEF BestInv
    <3> QED BY <3>1, <3>2
  <2>3. ASSUME NEW p \in Patiences
        PROVE  simulateEarlyStop(trajectory, p) \in Outcomes
    <3>1. trajectory \in Seq(Evaluations)
      BY DEF TypeOK, Evaluations
    <3> QED BY <3>1, SimulationExists
  <2>4. best.step \in Int
    BY LanguageModelAdamAssumption DEF TypeOK
  <2> QED BY <1>1, <2>1, <2>2, <2>3, <2>4 DEF SimulationInv, Outcomes
<1>5. CASE Begin /\ ~Fail
  <2>1. pc = "begin" /\ pc' # "begin" /\ UNCHANGED <<trajectory, best, step>>
    BY <1>5 DEF Begin, seedVars
  <2>2. trajectory = <<>>
    BY <2>1 DEF SimulationInv
  <2>3. best.step = -1 /\ best.validation = Unset
    BY <2>2 DEF BestInv
  <2> QED BY <1>1, <2>1, <2>2, <2>3, SimulationFresh
<1>6. CASE /\ UNCHANGED <<trajectory, best, step>>
           /\ pc' = pc \/ pc' \notin {"idle", "begin", "observe"}
  BY <1>6 DEF SimulationInv
<1>7. CASE Start /\ ~Fail
  <2>1. pc = "idle" /\ UNCHANGED <<trajectory, best, step>> /\ pc' = "begin"
    BY <1>7 DEF Start, seedVars
  <2>2. trajectory = <<>> /\ best.step = -1 /\ best.validation = Unset
    BY <2>1 DEF SimulationInv, BestInv
  <2> QED BY <1>1, <2>1, <2>2, SimulationFresh
<1> QED
  BY <1>2, <1>3, <1>4, <1>5, <1>6, <1>7
     DEF Next, vars, seedVars, InitialEvaluation, Select, WriteTemporary, Rename, Restore,
         FinalEvaluation, Generate

LEMMA SimulationSafe == Spec => []SimulationInv
<1>1. Init => SimulationInv
  <2> SUFFICES ASSUME Init PROVE SimulationInv
    OBVIOUS
  <2>1. trajectory = <<>> /\ best.validation = Unset /\ best.step = -1 /\ step = 0
    BY DEF Init
  <2>2. ASSUME NEW p \in Patiences PROVE simulateEarlyStop(trajectory, p) = NothingSeen
    BY <2>1, SimulationStarts
  <2> QED BY <2>1, <2>2 DEF SimulationInv, NothingSeen, Init
<1>2. IInv /\ SimulationInv /\ [Next]_vars => SimulationInv'
  BY SimulationStep
<1> QED BY <1>1, <1>2, Safe, PTL DEF Spec

\* For every patience, schedule and tolerance, the early stopping that the
\* report simulates after the fact is that of this selection (simulateEarlyStop):
\* a simulation that ran past the selected step has selected that step.
THEOREM SimulationIsTheSelection == Spec => []SimulationAgrees
<1>1. IInv /\ SimulationInv => SimulationAgrees
  <2> SUFFICES ASSUME IInv, SimulationInv, pc = "final", bestValidationMode,
                      NEW p \in Patiences
               PROVE  LET r == simulateEarlyStop(trajectory, p) IN
                      /\ r.bestStep <= r.stopStep
                      /\ ~r.stopped \/ r.stopStep > best.step => r.bestStep = best.step
    BY DEF SimulationAgrees
  <2> DEFINE r == simulateEarlyStop(trajectory, p)
  <2>1. best.step \in 0..Steps
    BY DEF IInv, BestInv, TypeOK
  <2>2. r \in Outcomes
    <3>1. trajectory \in Seq(Evaluations)
      BY DEF IInv, TypeOK, Evaluations
    <3> QED BY <3>1, SimulationExists
  <2>3. r.bestStep \in Nat /\ r.stopStep \in Nat
    BY <2>2 DEF Outcomes
  <2> QED BY <2>1, <2>3 DEF SimulationInv
<1> QED BY <1>1, Safe, SimulationSafe, PTL
=============================================================================
