------------------------ MODULE TrainingSession_proofs ------------------------
(***************************************************************************)
(* For every target step, every bound on the runs, with or without pause:  *)
(* the types, the safety invariants of the session, and that it implements *)
(* the lifecycle TrainingRun promises to its observers.                    *)
(***************************************************************************)
EXTENDS TrainingSession, TLAPS

\* What backend.run returns becomes a terminal state with the fields it needs.
Outcomes == [phase : {"IDLE"} \cup terminalPhases, step : {NoStep} \cup 0..Total,
             checkpoint : 0..Total]
LEMMA OutcomeType ==
  ASSUME TypeOK
  PROVE  /\ Failure(latestCheckpoint) \in Outcomes
         /\ CancelledSilently \in Outcomes
         /\ \A r \in Results : Completed(r) \in Outcomes /\ Cancelled(r) \in Outcomes
<1>1. Failure(latestCheckpoint) \in Outcomes /\ CancelledSilently \in Outcomes
  BY DEF TypeOK, Outcomes, Failure, CancelledSilently, terminalPhases
<1>2. ASSUME NEW r \in Results, finalValid(r), NEW p \in terminalPhases
      PROVE  Reported(p, r) \in Outcomes
  BY <1>2, TrainingSessionAssumption
     DEF TypeOK, Outcomes, Reported, Results, finalValid, progressValid,
         checkpointValid, NoCheckpoint
<1> QED
  BY <1>1, <1>2 DEF Completed, Cancelled, terminalPhases

\* Every step keeps the types.
LEMMA TypeStep == TypeOK /\ [Next]_vars => TypeOK'
<1> SUFFICES ASSUME TypeOK, [Next]_vars PROVE TypeOK'
  OBVIOUS
<1> USE TrainingSessionAssumption DEF TypeOK
<1>1. CASE StartAccepted
  BY <1>1 DEF StartAccepted, Show, Phases, activePhases, NoCheckpoint,
     stateVars, lockVars, localVars, backendVars
<1>2. CASE StartRefused
  BY <1>2 DEF StartRefused, Show, Phases, activePhases, NoCheckpoint,
     stateVars, lockVars, localVars, backendVars
<1>3. CASE StartPrepare
  <2>1. phase' \in Phases /\ step' \in {NoStep} \cup 0..Total
          /\ lastCheckpoint' \in 0..Total
    BY <1>3 DEF StartPrepare, Show, Phases, activePhases, PublishTerminal,
       Failure, NoCheckpoint, stateVars
  <2>2. armed' \in BOOLEAN
    BY <1>3 DEF StartPrepare
  <2> QED
    BY <1>3, <2>1, <2>2 DEF StartPrepare, stateVars, lockVars, localVars,
       backendVars
<1>4. CASE StartQueue
  <2>1. phase' \in Phases /\ step' \in {NoStep} \cup 0..Total
          /\ lastCheckpoint' \in 0..Total
    BY <1>4 DEF StartQueue, Show, Phases, activePhases, PublishTerminal,
       Failure, NoCheckpoint, stateVars
  <2>2. armed' \in BOOLEAN /\ stopAsked' \in BOOLEAN
    BY <1>4 DEF StartQueue
  <2> QED
    BY <1>4, <2>1, <2>2 DEF StartQueue, stateVars, lockVars, localVars,
       backendVars
<1>5. CASE StopChecked
  BY <1>5 DEF StopChecked, Check, stateVars, lockVars, localVars, backendVars
<1>6. CASE OwnerStopChecked
  BY <1>6 DEF OwnerStopChecked, Check, stateVars, lockVars, localVars,
     backendVars
<1>7. CASE PauseChecked
  BY <1>7 DEF PauseChecked, Check, stateVars, lockVars, localVars,
     backendVars
<1>8. CASE ResumeChecked
  BY <1>8 DEF ResumeChecked, Check, stateVars, lockVars, localVars,
     backendVars
<1>9. CASE CloseChecked
  BY <1>9 DEF CloseChecked, Check, stateVars, lockVars, localVars,
     backendVars
<1>10. CASE StopBackend
  BY <1>10 DEF StopBackend, stateVars, lockVars, localVars, backendVars
<1>11. CASE ShutDown
  BY <1>11 DEF ShutDown, stateVars, lockVars, localVars, backendVars
<1>12. CASE PauseBackend
  <2>1. phase' \in Phases /\ step' \in {NoStep} \cup 0..Total
          /\ lastCheckpoint' \in 0..Total
    BY <1>12 DEF PauseBackend, Show, Phases, activePhases, Transition,
       stateVars
  <2>2. backendPaused' \in BOOLEAN
    BY <1>12 DEF PauseBackend
  <2> QED
    BY <1>12, <2>1, <2>2 DEF PauseBackend, stateVars, lockVars, localVars,
       backendVars
<1>13. CASE ResumeBackend
  <2>1. phase' \in Phases /\ step' \in {NoStep} \cup 0..Total
          /\ lastCheckpoint' \in 0..Total
    BY <1>13 DEF ResumeBackend, Show, Phases, activePhases, Transition,
       stateVars
  <2>2. backendPaused' \in BOOLEAN
    BY <1>13 DEF ResumeBackend
  <2> QED
    BY <1>13, <2>1, <2>2 DEF ResumeBackend, stateVars, lockVars, localVars,
       backendVars
<1>14. CASE Execute
  <2>1. armed' \in BOOLEAN /\ stopAsked' \in BOOLEAN
    BY <1>14 DEF Execute
  <2> QED
    BY <1>14, <2>1 DEF Execute, stateVars, lockVars, localVars, backendVars
<1>15. CASE EnterBackend
  <2>1. phase' \in Phases /\ step' \in {NoStep} \cup 0..Total
          /\ lastCheckpoint' \in 0..Total
    BY <1>15, TrainingSessionAssumption DEF EnterBackend, Show, Phases,
       activePhases, NoCheckpoint, stateVars
  <2>2. latestStep' \in {NoStep} \cup 0..Total
          /\ latestPhase' \in {"IDLE"} \cup progressPhases
          /\ latestCheckpoint' \in 0..Total
    BY <1>15 DEF EnterBackend, NoCheckpoint, progressPhases
  <2> QED
    BY <1>15, <2>1, <2>2 DEF EnterBackend, stateVars, lockVars, localVars,
       backendVars
<1>16. CASE PublishProgress
  <2>1. phase' \in Phases /\ step' \in {NoStep} \cup 0..Total
          /\ lastCheckpoint' \in 0..Total
    BY <1>16 DEF PublishProgress, Show, Phases, activePhases,
       acceptingProgress, progressAcceptingPhases, progressPhases, stateVars
  <2>2. malformed' \in BOOLEAN /\ stopAsked' \in BOOLEAN
    BY <1>16 DEF PublishProgress
  <2> QED
    BY <1>16, <2>1, <2>2 DEF PublishProgress, stateVars, lockVars, localVars,
       backendVars
<1>17. CASE BackendReturns
  <2>1. outcome' \in [phase : {"IDLE"} \cup terminalPhases,
                        step : {NoStep} \cup 0..Total,
                        checkpoint : 0..Total]
    BY <1>17, OutcomeType DEF BackendReturns, Outcomes
  <2> QED
    BY <1>17, <2>1 DEF BackendReturns, stateVars, lockVars, localVars,
       backendVars
<1>18. CASE TerminalPublish
  <2>1. phase' \in Phases /\ step' \in {NoStep} \cup 0..Total
          /\ lastCheckpoint' \in 0..Total
    BY <1>18 DEF TerminalPublish, Show, Phases, activePhases,
       PublishTerminal, terminalPhases, stateVars
  <2>2. outcome' \in [phase : {"IDLE"} \cup terminalPhases,
                        step : {NoStep} \cup 0..Total,
                        checkpoint : 0..Total]
    BY <1>18 DEF TerminalPublish, NoOutcome, NoCheckpoint
  <2> QED
    BY <1>18, <2>1, <2>2 DEF TerminalPublish, stateVars, lockVars, localVars,
       backendVars
<1>19. ASSUME NEW r \in Records, Progress(r) PROVE TypeOK'
  <2>1. latestStep' \in {NoStep} \cup 0..Total
          /\ latestPhase' \in {"IDLE"} \cup progressPhases
          /\ latestCheckpoint' \in 0..Total
    BY <1>19 DEF Progress, progressValid, checkpointValid, Records,
       NoCheckpoint, progressPhases
  <2>2. worker' \in {"running", "publishing"}
    BY <1>19 DEF Progress
  <2>3. malformed' \in BOOLEAN /\ stopAsked' \in BOOLEAN
    BY <1>19 DEF Progress
  <2> QED
    BY <1>19, <2>1, <2>2, <2>3 DEF Progress, stateVars, lockVars, localVars,
       backendVars
<1>20. CASE UNCHANGED vars
  BY <1>20 DEF vars, stateVars, lockVars, localVars, backendVars
<1> QED
  BY <1>1, <1>2, <1>3, <1>4, <1>5, <1>6, <1>7, <1>8, <1>9, <1>10, <1>11,
     <1>12, <1>13, <1>14, <1>15, <1>16, <1>17, <1>18, <1>19, <1>20
     DEF Next, Caller, Starter, Control, WorkerSteps

\* The initial state is well typed.
LEMMA InitType == Init => TypeOK
<1> SUFFICES ASSUME Init PROVE TypeOK
  OBVIOUS
<1>1. outcome \in [phase : {"IDLE"} \cup terminalPhases,
                   step : {NoStep} \cup 0..Total, checkpoint : 0..Total]
  BY TrainingSessionAssumption DEF Init, NoOutcome, NoCheckpoint
<1>2. phase \in Phases /\ step \in {NoStep} \cup 0..Total
        /\ lastCheckpoint \in 0..Total /\ resumeFrom \in 0..(Total - 1)
  BY TrainingSessionAssumption DEF Init, Phases, NoCheckpoint
<1>3. activeRunId \in 0..MaxRuns /\ controlRun \in 0..MaxRuns
  BY TrainingSessionAssumption DEF Init
<1>4. latestStep \in {NoStep} \cup 0..Total /\ latestCheckpoint \in 0..Total
  BY TrainingSessionAssumption DEF Init, NoCheckpoint
<1> QED
  BY <1>1, <1>2, <1>3, <1>4 DEF Init, TypeOK

\* Every state of every run is well typed.
THEOREM TypeCorrect == Spec => []TypeOK
  BY InitType, TypeStep, PTL DEF Spec

-----------------------------------------------------------------------------
(* The invariant.  Its parts are what the two threads know of each other.  *)

\* A run being started is prepared and has no worker yet; close waits for it.
Starting ==
  starting # "no" => phase = "PREPARING" /\ worker = "idle" /\ ~closed

\* Where the worker is and which phase is shown agree, until the session closes.
WorkerPhase ==
  /\ worker \in {"queued", "starting"} => phase = "PREPARING"
  /\ worker \in {"running", "publishing", "returned"} /\ ~closed
       => phase \in activePhases \ {"PREPARING"}
  /\ worker = "idle" /\ starting = "no" /\ ~closed => phase \notin activePhases
  /\ worker # "idle" => phase \in activePhases

\* What is shown of a run lies between its start and its target.
ShownRange ==
  /\ phase \in {"PREPARING", "INITIALIZING_HTP"}
       => step = resumeFrom /\ lastCheckpoint = 0
  /\ phase \in {"TRAINING", "SAVING_CHECKPOINT", "PAUSED"}
       => step \in resumeFrom..Total
  /\ phase \in activePhases \cup {"COMPLETED"} => lastCheckpoint <= step

\* What is shown never runs ahead of the record execute has accepted, although
\* a record accepted while pausing is not shown.
ShownBehindLatest ==
  worker \in {"running", "publishing"} =>
    /\ worker = "publishing" => latestStep # NoStep
    /\ latestStep = NoStep =>
         /\ latestCheckpoint = 0
         /\ ~closed => phase = "INITIALIZING_HTP"
    /\ latestStep # NoStep =>
         /\ latestStep \in resumeFrom..Total /\ latestPhase \in progressPhases
         /\ latestCheckpoint <= latestStep
         /\ ~closed => step <= latestStep
         /\ ~closed /\ phase = "SAVING_CHECKPOINT" /\ latestStep = step
              => latestPhase = "SAVING_CHECKPOINT"

\* The terminal state about to be published is one that may be shown.
OutcomeOK(o) ==
  /\ o.phase \in terminalPhases
  /\ o.phase = "COMPLETED" => o.step = Total
  /\ o.phase = "INTERRUPTED" => o.step = NoStep \/ o.step \in resumeFrom..Total
  /\ o.phase = "ERROR" => o.step = NoStep
OutcomeReady == worker = "returned" => OutcomeOK(outcome)

SessionInv ==
  /\ TypeOK /\ Starting /\ WorkerPhase /\ ShownRange /\ ShownBehindLatest
  /\ OutcomeReady /\ MalformedNeverSucceeds /\ ControlHitsItsRun
  /\ worker # "returned" => outcome.phase = "IDLE"

\* Every step keeps the invariant.
LEMMA InvStep ==
  ASSUME SessionInv, [Next]_vars
  PROVE  SessionInv'
<1> USE TrainingSessionAssumption DEF SessionInv
<1>0. TypeOK'
  BY TypeStep
<1>1. CASE StartAccepted
  BY <1>1, <1>0 DEF StartAccepted, TypeOK, Starting, WorkerPhase, ShownRange,
     ShownBehindLatest, OutcomeReady, MalformedNeverSucceeds,
     ControlHitsItsRun, activePhases, progressPhases, terminalPhases,
     NoCheckpoint, Show, Failure, OutcomeOK, operationLockFree, stateVars,
     lockVars, localVars, backendVars
<1>2. CASE StartRefused
  BY <1>2, <1>0 DEF StartRefused, TypeOK, Starting, WorkerPhase, ShownRange,
     ShownBehindLatest, OutcomeReady, MalformedNeverSucceeds,
     ControlHitsItsRun, activePhases, progressPhases, terminalPhases,
     NoCheckpoint, Show, Failure, OutcomeOK, operationLockFree, stateVars,
     lockVars, localVars, backendVars
<1>3. CASE StartPrepare
  BY <1>3, <1>0 DEF StartPrepare, PublishTerminal, TypeOK, Starting,
     WorkerPhase, ShownRange, ShownBehindLatest, OutcomeReady,
     MalformedNeverSucceeds, ControlHitsItsRun, activePhases, progressPhases,
     terminalPhases, NoCheckpoint, Show, Failure, OutcomeOK,
     operationLockFree, stateVars, lockVars, localVars, backendVars
<1>4. CASE StartQueue
  BY <1>4, <1>0 DEF StartQueue, PublishTerminal, TypeOK, Starting,
     WorkerPhase, ShownRange, ShownBehindLatest, OutcomeReady,
     MalformedNeverSucceeds, ControlHitsItsRun, activePhases, progressPhases,
     terminalPhases, NoCheckpoint, Show, Failure, OutcomeOK,
     operationLockFree, stateVars, lockVars, localVars, backendVars
<1>5. CASE StopChecked
  BY <1>5, <1>0 DEF StopChecked, Check, TypeOK, Starting, WorkerPhase,
     ShownRange, ShownBehindLatest, OutcomeReady, MalformedNeverSucceeds,
     ControlHitsItsRun, activePhases, progressPhases, terminalPhases,
     NoCheckpoint, Show, Failure, OutcomeOK, operationLockFree, stateVars,
     lockVars, localVars, backendVars
<1>6. CASE OwnerStopChecked
  BY <1>6, <1>0 DEF OwnerStopChecked, Check, TypeOK, Starting, WorkerPhase,
     ShownRange, ShownBehindLatest, OutcomeReady, MalformedNeverSucceeds,
     ControlHitsItsRun, activePhases, progressPhases, terminalPhases,
     NoCheckpoint, Show, Failure, OutcomeOK, operationLockFree, stateVars,
     lockVars, localVars, backendVars
<1>7. CASE PauseChecked
  BY <1>7, <1>0 DEF PauseChecked, Check, TypeOK, Starting, WorkerPhase,
     ShownRange, ShownBehindLatest, OutcomeReady, MalformedNeverSucceeds,
     ControlHitsItsRun, activePhases, progressPhases, terminalPhases,
     NoCheckpoint, Show, Failure, OutcomeOK, operationLockFree, stateVars,
     lockVars, localVars, backendVars
<1>8. CASE ResumeChecked
  BY <1>8, <1>0 DEF ResumeChecked, Check, TypeOK, Starting, WorkerPhase,
     ShownRange, ShownBehindLatest, OutcomeReady, MalformedNeverSucceeds,
     ControlHitsItsRun, activePhases, progressPhases, terminalPhases,
     NoCheckpoint, Show, Failure, OutcomeOK, operationLockFree, stateVars,
     lockVars, localVars, backendVars
<1>9. CASE CloseChecked
  BY <1>9, <1>0 DEF CloseChecked, Check, TypeOK, Starting, WorkerPhase,
     ShownRange, ShownBehindLatest, OutcomeReady, MalformedNeverSucceeds,
     ControlHitsItsRun, activePhases, progressPhases, terminalPhases,
     NoCheckpoint, Show, Failure, OutcomeOK, operationLockFree, stateVars,
     lockVars, localVars, backendVars
<1>10. CASE StopBackend
  BY <1>10, <1>0 DEF StopBackend, TypeOK, Starting, WorkerPhase, ShownRange,
     ShownBehindLatest, OutcomeReady, MalformedNeverSucceeds,
     ControlHitsItsRun, activePhases, progressPhases, terminalPhases,
     NoCheckpoint, Show, Failure, OutcomeOK, operationLockFree, stateVars,
     lockVars, localVars, backendVars
<1>11. CASE ShutDown
  BY <1>11, <1>0 DEF ShutDown, TypeOK, Starting, WorkerPhase, ShownRange,
     ShownBehindLatest, OutcomeReady, MalformedNeverSucceeds,
     ControlHitsItsRun, activePhases, progressPhases, terminalPhases,
     NoCheckpoint, Show, Failure, OutcomeOK, operationLockFree, stateVars,
     lockVars, localVars, backendVars
<1>12. CASE PauseBackend
  BY <1>12, <1>0 DEF PauseBackend, Transition, TypeOK, Starting, WorkerPhase,
     ShownRange, ShownBehindLatest, OutcomeReady, MalformedNeverSucceeds,
     ControlHitsItsRun, activePhases, progressPhases, terminalPhases,
     NoCheckpoint, Show, Failure, OutcomeOK, operationLockFree, stateVars,
     lockVars, localVars, backendVars
<1>13. CASE ResumeBackend
  BY <1>13, <1>0 DEF ResumeBackend, Transition, TypeOK, Starting,
     WorkerPhase, ShownRange, ShownBehindLatest, OutcomeReady,
     MalformedNeverSucceeds, ControlHitsItsRun, activePhases, progressPhases,
     terminalPhases, NoCheckpoint, Show, Failure, OutcomeOK,
     operationLockFree, stateVars, lockVars, localVars, backendVars
<1>14. CASE Execute
  BY <1>14, <1>0 DEF Execute, TypeOK, Starting, WorkerPhase, ShownRange,
     ShownBehindLatest, OutcomeReady, MalformedNeverSucceeds,
     ControlHitsItsRun, activePhases, progressPhases, terminalPhases,
     NoCheckpoint, Show, Failure, OutcomeOK, operationLockFree, stateVars,
     lockVars, localVars, backendVars
<1>15. CASE EnterBackend
  BY <1>15, <1>0 DEF EnterBackend, TypeOK, Starting, WorkerPhase, ShownRange,
     ShownBehindLatest, OutcomeReady, MalformedNeverSucceeds,
     ControlHitsItsRun, activePhases, progressPhases, terminalPhases,
     NoCheckpoint, Show, Failure, OutcomeOK, operationLockFree, stateVars,
     lockVars, localVars, backendVars
<1>16. CASE PublishProgress
  BY <1>16, <1>0 DEF PublishProgress, TypeOK, Starting, WorkerPhase,
     ShownRange, ShownBehindLatest, OutcomeReady, MalformedNeverSucceeds,
     ControlHitsItsRun, activePhases, progressPhases, terminalPhases,
     NoCheckpoint, Show, Failure, OutcomeOK, operationLockFree, stateVars,
     lockVars, localVars, backendVars
<1>17. CASE BackendReturns
  <2> USE DEF TypeOK, OutcomeOK
  <2>1. OutcomeOK(Failure(latestCheckpoint)) /\ OutcomeOK(CancelledSilently)
    BY DEF Failure, CancelledSilently, terminalPhases
  <2>2. ASSUME NEW r \in Results
        PROVE  OutcomeOK(Completed(r)) /\ OutcomeOK(Cancelled(r))
    BY DEF Completed, Cancelled, Reported, Failure, Results, finalValid,
       progressValid, terminalPhases
  <2>3. OutcomeOK(outcome')
    BY <1>17, <2>1, <2>2 DEF BackendReturns
  <2>4. malformed => outcome' = Failure(latestCheckpoint)
    BY <1>17 DEF BackendReturns
  <2>5. OutcomeReady'
    BY <1>17, <2>3 DEF BackendReturns, OutcomeReady
  <2>6. MalformedNeverSucceeds'
    BY <1>17, <2>4 DEF BackendReturns, MalformedNeverSucceeds, Failure, stateVars
  <2> HIDE DEF TypeOK, OutcomeOK
  <2> QED
    BY <1>0, <1>17, <2>5, <2>6
       DEF BackendReturns, Starting, WorkerPhase, ShownRange, ShownBehindLatest,
           ControlHitsItsRun, stateVars, lockVars
<1>18. CASE TerminalPublish
  <2> USE DEF TerminalPublish, PublishTerminal, Show, stateVars, lockVars
  <2>1. OutcomeOK(outcome) /\ phase \in activePhases
    BY <1>18 DEF OutcomeReady, WorkerPhase
  <2>2. outcome'.phase = "IDLE"
    BY <1>18 DEF NoOutcome
  <2>3. Starting' /\ ShownBehindLatest' /\ OutcomeReady' /\ ControlHitsItsRun'
    BY <1>18 DEF Starting, ShownBehindLatest, OutcomeReady, ControlHitsItsRun
  <2>4. WorkerPhase'
    BY <1>18, <2>1
       DEF WorkerPhase, Starting, OutcomeOK, terminalPhases, activePhases
  <2>5. ShownRange'
    BY <1>18, <2>1
       DEF ShownRange, OutcomeOK, terminalPhases, activePhases, TypeOK
  <2>6. MalformedNeverSucceeds'
    BY <1>18, <2>1, <2>2 DEF MalformedNeverSucceeds
  <2> QED
    BY <1>0, <1>18, <2>2, <2>3, <2>4, <2>5, <2>6
<1>19. ASSUME NEW r \in Records, Progress(r) PROVE SessionInv'
  <2> USE DEF stateVars, lockVars
  <2>1. ~closed /\ phase \in activePhases \ {"PREPARING"} /\ phase # "PAUSED"
    BY <1>19 DEF Progress, acceptingProgress, progressAcceptingPhases, WorkerPhase
  <2>2. Starting' /\ OutcomeReady' /\ ControlHitsItsRun' /\ ShownRange'
    BY <1>19 DEF Progress, Starting, OutcomeReady, ControlHitsItsRun, ShownRange
  <2>3. WorkerPhase' /\ worker' # "returned" /\ outcome' = outcome
          /\ outcome.phase = "IDLE"
    BY <1>19, <2>1 DEF Progress, WorkerPhase
  <2>4. MalformedNeverSucceeds'
    BY <1>19, <2>1, <2>3 DEF Progress, MalformedNeverSucceeds, activePhases
  <2>5. ShownBehindLatest'
    <3>1. CASE progressValid(r) /\ checkpointValid(r) /\ notBackwards(r)
      <4>1. latestStep' = r.step /\ latestPhase' = r.phase /\ UNCHANGED phase
              /\ r.step \in resumeFrom..Total /\ r.phase \in progressPhases
              /\ r.step # NoStep
              /\ UNCHANGED <<step, resumeFrom, closed>>
        BY <1>19, <3>1 DEF Progress, progressValid, Records, TypeOK
      <4>2. latestCheckpoint' <= r.step
        BY <1>19, <3>1, <4>1
           DEF Progress, Records, ShownBehindLatest, checkpointValid,
               notBackwards, NoCheckpoint, TypeOK
      <4>3. step <= r.step
        <5>1. worker = "running" BY <1>19 DEF Progress
        <5>2. r.step \in Int /\ resumeFrom <= r.step BY <4>1 DEF TypeOK
        <5>3. CASE latestStep = NoStep
          <6>1. phase = "INITIALIZING_HTP"
            BY <2>1, <5>1, <5>3 DEF ShownBehindLatest
          <6>2. step = resumeFrom BY <6>1 DEF ShownRange
          <6> QED BY <5>2, <6>2
        <5>4. CASE latestStep # NoStep
          <6>1. latestStep \in resumeFrom..Total /\ step <= latestStep
            BY <2>1, <5>1, <5>4 DEF ShownBehindLatest
          <6>2. latestStep <= r.step BY <3>1, <5>4 DEF notBackwards
          <6>3. step \in Int
            BY <2>1, <6>1 DEF ShownRange, activePhases, TypeOK
          <6> QED BY <5>2, <6>1, <6>2, <6>3 DEF TypeOK
        <5> QED BY <5>3, <5>4
      <4>4. phase = "SAVING_CHECKPOINT" /\ r.step = step
              => r.phase = "SAVING_CHECKPOINT"
        BY <1>19, <2>1, <3>1, <4>1
           DEF Progress, ShownBehindLatest, notBackwards, progressPhases, TypeOK
      <4> QED
        BY <1>19, <4>1, <4>2, <4>3, <4>4 DEF ShownBehindLatest
    <3>2. CASE ~(progressValid(r) /\ checkpointValid(r) /\ notBackwards(r))
      BY <1>19, <3>2 DEF Progress, ShownBehindLatest
    <3> QED
      BY <3>1, <3>2
  <2> QED
    BY <1>0, <2>2, <2>3, <2>4, <2>5
<1>20. CASE UNCHANGED vars
  BY <1>0, <1>20
     DEF vars, Starting, WorkerPhase, ShownRange, ShownBehindLatest, OutcomeReady,
         OutcomeOK, MalformedNeverSucceeds, ControlHitsItsRun, stateVars,
         lockVars, localVars
<1> QED
  BY <1>1, <1>2, <1>3, <1>4, <1>5, <1>6, <1>7, <1>8, <1>9, <1>10, <1>11,
     <1>12, <1>13, <1>14, <1>15, <1>16, <1>17, <1>18, <1>19, <1>20
     DEF Next, Caller, Starter, Control, WorkerSteps

\* The invariant holds before anything is started.
LEMMA InitInv == Init => SessionInv
<1> SUFFICES ASSUME Init PROVE SessionInv
  OBVIOUS
<1>1. TypeOK
  BY InitType
<1> QED
  BY <1>1
     DEF Init, SessionInv, Starting, WorkerPhase, ShownRange, ShownBehindLatest,
         OutcomeReady, MalformedNeverSucceeds, ControlHitsItsRun, activePhases,
         NoOutcome

\* The invariant holds of every run of the session.
LEMMA SessionSafe == Spec => []SessionInv
<1>1. Init => SessionInv
  BY InitInv
<1>2. SessionInv /\ [Next]_vars => SessionInv'
  BY InvStep
<1> QED
  BY <1>1, <1>2, PTL DEF Spec

\* A run that has sent a malformed record is never shown as completed or
\* interrupted, whatever its backend answers in the end.
THEOREM MalformedFails == Spec => []MalformedNeverSucceeds
<1>1. SessionInv => MalformedNeverSucceeds
  BY DEF SessionInv
<1> QED
  BY <1>1, SessionSafe, PTL

\* The checkpoint shown for a resume is never ahead of the step beside it.
THEOREM CheckpointNeverAhead == Spec => []CheckpointBehindStep
<1>1. SessionInv => CheckpointBehindStep
  BY DEF SessionInv, ShownRange, CheckpointBehindStep
<1> QED
  BY <1>1, SessionSafe, PTL

\* A control acts on the run whose phase it has checked.
THEOREM ControlStaysWithRun == Spec => []ControlHitsItsRun
<1>1. SessionInv => ControlHitsItsRun
  BY DEF SessionInv
<1> QED
  BY <1>1, SessionSafe, PTL

\* A run is shown as active exactly while it is being started or executed.
THEOREM ActiveMeansExecuting == Spec => []ActiveIffExecuting
<1>1. SessionInv => ActiveIffExecuting
  BY DEF SessionInv, ActiveIffExecuting, WorkerPhase, Starting, activePhases
<1> QED
  BY <1>1, SessionSafe, PTL

\* The steps of the session are steps of the lifecycle it promises or leave the
\* phase, the step and the start of the run as they are.
LEMMA RunStep ==
  SessionInv /\ [Next]_vars => [Run!Next]_(Run!runVars)
<1> SUFFICES ASSUME SessionInv, [Next]_vars
             PROVE  [Run!Next]_(Run!runVars)
  OBVIOUS
<1> USE DEF Run!runVars, Run!Active, activePhases, terminalPhases, stateVars
<1>0. /\ TypeOK /\ Starting /\ WorkerPhase /\ ShownRange /\ ShownBehindLatest
      /\ OutcomeReady
  BY DEF SessionInv
<1>1. ASSUME UNCHANGED stateVars, UNCHANGED resumeFrom
      PROVE  UNCHANGED Run!runVars
  BY <1>1
<1>2. CASE StartAccepted
  <2>1. Run!Begin
    BY <1>2 DEF StartAccepted, Show, Run!Begin
  <2> QED BY <2>1 DEF Run!Next
<1>3. CASE StartRefused
  <2>1. Run!Refuse
    BY <1>3 DEF StartRefused, Show, Run!Refuse
  <2> QED BY <2>1 DEF Run!Next
<1>4. CASE Starter
  <2>1. phase = "PREPARING" /\ ~closed /\ UNCHANGED resumeFrom
    BY <1>0, <1>4 DEF Starter, StartPrepare, StartQueue, Starting
  <2>2. UNCHANGED stateVars \/ Run!Fail
    BY <1>4, <2>1
       DEF Starter, StartPrepare, StartQueue, PublishTerminal, Failure, Show,
           Run!Fail
  <2> QED BY <2>1, <2>2 DEF Run!Next
<1>5. CASE StopChecked \/ OwnerStopChecked \/ PauseChecked \/ ResumeChecked
             \/ CloseChecked
  BY <1>1, <1>5
     DEF StopChecked, OwnerStopChecked, PauseChecked, ResumeChecked,
         CloseChecked, Check
<1>6. CASE StopBackend \/ ShutDown
  BY <1>1, <1>6 DEF StopBackend, ShutDown
<1>7. CASE PauseBackend
  <2>1. (UNCHANGED stateVars /\ UNCHANGED resumeFrom) \/ Run!Pause
    BY <1>7 DEF PauseBackend, Transition, Run!Pause
  <2> QED BY <2>1 DEF Run!Next
<1>8. CASE ResumeBackend
  <2>1. (UNCHANGED stateVars /\ UNCHANGED resumeFrom) \/ Run!Continue
    BY <1>8 DEF ResumeBackend, Transition, Run!Continue
  <2> QED BY <2>1 DEF Run!Next
<1>9. CASE Execute
  BY <1>1, <1>9 DEF Execute
<1>10. CASE EnterBackend
  <2>1. phase = "PREPARING" /\ step = resumeFrom /\ UNCHANGED resumeFrom
    BY <1>0, <1>10 DEF EnterBackend, WorkerPhase, ShownRange
  <2>2. UNCHANGED stateVars \/ Run!Initialize
    BY <1>10, <2>1 DEF EnterBackend, Show, Run!Initialize
  <2> QED BY <2>1, <2>2 DEF Run!Next
<1>11. CASE PublishProgress
  <2>1. UNCHANGED resumeFrom
    BY <1>11 DEF PublishProgress
  <2>2. CASE UNCHANGED stateVars
    BY <2>1, <2>2
  <2>3. CASE acceptingProgress /\ Show(latestPhase, latestStep, latestCheckpoint)
    <3>1. ~closed /\ worker = "publishing"
      BY <1>11, <2>3 DEF PublishProgress, acceptingProgress
    <3>2. phase \in {"INITIALIZING_HTP", "TRAINING", "SAVING_CHECKPOINT"}
      BY <1>0, <2>3, <3>1
         DEF acceptingProgress, progressAcceptingPhases, WorkerPhase
    <3>3. /\ latestStep \in resumeFrom..Total /\ latestPhase \in progressPhases
          /\ step <= latestStep
          /\ phase = "SAVING_CHECKPOINT" /\ latestStep = step
               => latestPhase = "SAVING_CHECKPOINT"
      BY <1>0, <3>1 DEF ShownBehindLatest
    <3>4. step \in Int
      BY <1>0, <3>2 DEF ShownRange, TypeOK
    <3>5. Run!Advance
      <4>1. latestStep \in step..Total
        BY <1>0, <3>3, <3>4 DEF TypeOK
      <4> QED BY <2>1, <2>3, <3>2, <3>3, <4>1 DEF Show, progressPhases, Run!Advance
    <3> QED BY <3>5 DEF Run!Next
  <2> QED BY <1>11, <2>2, <2>3 DEF PublishProgress
<1>12. CASE BackendReturns
  BY <1>1, <1>12 DEF BackendReturns
<1>13. CASE TerminalPublish
  <2>1. UNCHANGED resumeFrom
    BY <1>13 DEF TerminalPublish
  <2>2. CASE closed
    BY <1>13, <2>1, <2>2 DEF TerminalPublish, PublishTerminal
  <2>3. CASE ~closed
    <3>1. /\ phase \in activePhases \ {"PREPARING"} /\ OutcomeOK(outcome)
      BY <1>0, <1>13, <2>3 DEF TerminalPublish, WorkerPhase, OutcomeReady
    <3>2. phase' = outcome.phase /\ step' = outcome.step
      BY <1>13, <2>3 DEF TerminalPublish, PublishTerminal, Show
    <3>3. Run!Complete \/ Run!Interrupt \/ Run!Fail
      BY <2>1, <3>1, <3>2
         DEF OutcomeOK, Run!Complete, Run!Interrupt, Run!Fail
    <3> QED BY <3>3 DEF Run!Next
  <2> QED BY <2>2, <2>3
<1>14. ASSUME NEW r \in Records, Progress(r) PROVE UNCHANGED Run!runVars
  BY <1>1, <1>14 DEF Progress
<1>15. CASE UNCHANGED vars
  BY <1>15 DEF vars
<1> QED
  BY <1>2, <1>3, <1>4, <1>5, <1>6, <1>7, <1>8, <1>9, <1>10, <1>11, <1>12, <1>13,
     <1>14, <1>15
     DEF Next, Caller, Control, WorkerSteps

\* The session implements the lifecycle of TrainingRun: whatever records and
\* results the backend sends and however start, stop, pause, resume and close
\* interleave with the worker (TrainingSession.kt:185-428).
THEOREM LifecycleImplemented == Spec => Lifecycle
<1>1. Init => Run!Init
  BY DEF Init, Run!Init
<1>2. Init => SessionInv
  BY InitInv
<1>3. SessionInv /\ [Next]_vars => SessionInv'
  BY InvStep
<1>4. SessionInv /\ [Next]_vars => [Run!Next]_(Run!runVars)
  BY RunStep
<1>5. QED
  BY <1>1, <1>2, <1>3, <1>4, PTL DEF Spec, Lifecycle, Run!Spec
=============================================================================
