--------------------------- MODULE TrainingSession ---------------------------
(***************************************************************************)
(* TrainingSession.kt, the asynchronous session: a caller thread that      *)
(* starts, stops, pauses, resumes and closes under backendOperationLock,   *)
(* and the single PhoneLM-training worker, which never takes that lock,    *)
(* interleaved at the granularity of the state lock.                       *)
(* The backend is the TrainingBackend interface: it may send any progress  *)
(* record and return any result, as the native bridge on a device may.     *)
(***************************************************************************)
EXTENDS Integers

CONSTANTS Total,      \* TrainingRequest.totalSteps
          NoStep,     \* TrainingState.progress = null
          MaxRuns,    \* bound: accepted starts
          CanPause    \* TrainingBackend.supportsPause and supportsResume

ASSUME TrainingSessionAssumption ==
  /\ Total \in Nat \ {0} /\ MaxRuns \in Nat
  /\ NoStep \notin 0..Total
  /\ CanPause \in BOOLEAN

VARIABLES
  phase, step, lastCheckpoint,  \* state: phase, progress, newest checkpoint
  resumeFrom,                   \* request.resumeFrom of the active run, 0: none
  closed, activeRunId,
  starting,    \* startInternal: what it has done while it holds the lock
  control,     \* what the other holder of backendOperationLock is doing
  controlRun,  \* the run whose phase that holder has checked
  worker,      \* where execute is
  latestStep, latestPhase, latestCheckpoint, malformed,  \* locals of execute
  outcome,     \* the terminal state execute is about to publish
  armed, stopAsked, backendPaused   \* external: the backend's own flags

stateVars   == <<phase, step, lastCheckpoint>>
lockVars    == <<starting, control, controlRun>>
localVars   == <<latestStep, latestPhase, latestCheckpoint, malformed, outcome>>
backendVars == <<armed, stopAsked, backendPaused>>
vars == <<stateVars, resumeFrom, closed, activeRunId, lockVars, worker, localVars,
          backendVars>>

Phases == {"IDLE", "PREPARING", "INITIALIZING_HTP", "TRAINING",
           "SAVING_CHECKPOINT", "PAUSED", "COMPLETED", "ERROR", "INTERRUPTED"}
activePhases == {"PREPARING", "INITIALIZING_HTP", "TRAINING",
                 "SAVING_CHECKPOINT", "PAUSED"}
progressPhases == {"TRAINING", "SAVING_CHECKPOINT"}
progressAcceptingPhases == activePhases \ {"PAUSED"}
stopAcceptingPhases == {"TRAINING", "SAVING_CHECKPOINT"}
terminalPhases == {"COMPLETED", "ERROR", "INTERRUPTED"}

NoCheckpoint == 0     \* a checkpoint's completedStep is positive
NoOutcome == [phase |-> "IDLE", step |-> NoStep, checkpoint |-> NoCheckpoint]
Failure(ckpt) == [phase |-> "ERROR", step |-> NoStep, checkpoint |-> ckpt]

Init ==
  /\ phase = "IDLE" /\ step = NoStep /\ lastCheckpoint = NoCheckpoint
  /\ resumeFrom = 0 /\ closed = FALSE /\ activeRunId = 0
  /\ starting = "no" /\ control = "none" /\ controlRun = 0
  /\ worker = "idle"
  /\ latestStep = NoStep /\ latestPhase = "IDLE"
  /\ latestCheckpoint = NoCheckpoint /\ malformed = FALSE
  /\ outcome = NoOutcome
  /\ armed = FALSE /\ stopAsked = FALSE /\ backendPaused = FALSE

operationLockFree == starting = "no" /\ control = "none"

Show(p, s, c) == phase' = p /\ step' = s /\ lastCheckpoint' = c

\* publish(next, runId) of a terminal state.
PublishTerminal(o) ==
  IF closed THEN UNCHANGED stateVars ELSE Show(o.phase, o.step, o.checkpoint)

-----------------------------------------------------------------------------
(* start: under backendOperationLock throughout.                           *)

StartAccepted_withoutLock ==
  /\ ~closed /\ phase \notin activePhases /\ activeRunId < MaxRuns
  /\ \E from \in 0..(Total - 1) :
       /\ resumeFrom' = from
       /\ Show("PREPARING", from, NoCheckpoint)
  /\ activeRunId' = activeRunId + 1
  /\ starting' = "accepted"
  /\ UNCHANGED <<closed, control, controlRun, worker, localVars, backendVars>>

StartAccepted ==
  /\ operationLockFree
  /\ ~closed /\ phase \notin activePhases /\ activeRunId < MaxRuns
  /\ \E from \in 0..(Total - 1) :
       /\ resumeFrom' = from
       /\ Show("PREPARING", from, NoCheckpoint)
  /\ activeRunId' = activeRunId + 1
  /\ starting' = "accepted"
  /\ UNCHANGED <<closed, control, controlRun, worker, localVars, backendVars>>

\* A request that does not validate replaces whatever terminal state is shown.
StartRefused ==
  /\ operationLockFree
  /\ ~closed /\ phase \notin activePhases
  /\ Show("ERROR", NoStep, NoCheckpoint)
  /\ UNCHANGED <<resumeFrom, closed, activeRunId, lockVars, worker, localVars,
                 backendVars>>

\* prepareForRun arms the backend, or throws.
StartPrepare ==
  /\ starting = "accepted"
  /\ \/ armed' = TRUE /\ starting' = "prepared" /\ UNCHANGED stateVars
     \/ /\ PublishTerminal(Failure(NoCheckpoint)) /\ starting' = "no"
        /\ UNCHANGED armed
  /\ UNCHANGED <<resumeFrom, closed, activeRunId, control, controlRun, worker,
                 localVars, stopAsked, backendPaused>>

\* onAccepted and worker.execute: either may throw, and both are compensated.
StartQueue_silentFailure ==
  /\ starting = "prepared" /\ starting' = "no"
  /\ \/ worker' = "queued" /\ UNCHANGED <<armed, stopAsked>>
     \/ armed' = FALSE /\ stopAsked' = FALSE /\ UNCHANGED worker
  /\ UNCHANGED <<stateVars, resumeFrom, closed, activeRunId, control, controlRun,
                 localVars, backendPaused>>

StartQueue ==
  /\ starting = "prepared" /\ starting' = "no"
  /\ \/ worker' = "queued" /\ UNCHANGED <<stateVars, armed, stopAsked>>
     \/ /\ armed' = FALSE /\ stopAsked' = FALSE
        /\ PublishTerminal(Failure(NoCheckpoint))
        /\ UNCHANGED worker
  /\ UNCHANGED <<resumeFrom, closed, activeRunId, control, controlRun, localVars,
                 backendPaused>>

-----------------------------------------------------------------------------
(* requestStop, requestOwnerStop, pause, resume, close: the phase is read   *)
(* under the state lock, the backend is called after it is left.           *)

Check(what) ==
  /\ operationLockFree
  /\ control' = what /\ controlRun' = activeRunId
  /\ UNCHANGED <<stateVars, resumeFrom, activeRunId, starting, worker, localVars,
                 backendVars>>

StopChecked ==
  /\ ~closed /\ phase \in stopAcceptingPhases
  /\ Check("stopping") /\ UNCHANGED closed
OwnerStopChecked ==
  /\ ~closed /\ phase \in activePhases
  /\ Check("stopping") /\ UNCHANGED closed
PauseChecked ==
  /\ CanPause /\ ~closed /\ phase = "TRAINING"
  /\ Check("pausing") /\ UNCHANGED closed
ResumeChecked ==
  /\ CanPause /\ ~closed /\ phase = "PAUSED"
  /\ Check("resuming") /\ UNCHANGED closed
CloseChecked ==
  /\ ~closed /\ closed' = TRUE
  /\ Check(IF phase \in activePhases THEN "stopping" ELSE "shutdown")

\* backend.requestStop: the backend remembers it while it is armed or running.
StopBackend ==
  /\ control = "stopping" /\ control' = "none"
  /\ stopAsked' = (stopAsked \/ armed \/ worker \in {"running", "publishing"})
  /\ UNCHANGED <<stateVars, resumeFrom, closed, activeRunId, starting, controlRun,
                 worker, localVars, armed, backendPaused>>

ShutDown ==
  /\ control = "shutdown" /\ control' = "none"
  /\ UNCHANGED <<stateVars, resumeFrom, closed, activeRunId, starting, controlRun,
                 worker, localVars, backendVars>>

\* backend.pause() or resume(), which may refuse, then transition.
Transition(from, to) ==
  IF ~closed /\ phase = from
  THEN phase' = to /\ UNCHANGED <<step, lastCheckpoint>>
  ELSE UNCHANGED stateVars

PauseBackend ==
  /\ control = "pausing" /\ control' = "none"
  /\ \/ UNCHANGED <<stateVars, backendPaused>>
     \/ backendPaused' = TRUE /\ Transition("TRAINING", "PAUSED")
  /\ UNCHANGED <<resumeFrom, closed, activeRunId, starting, controlRun, worker,
                 localVars, armed, stopAsked>>

ResumeBackend ==
  /\ control = "resuming" /\ control' = "none"
  /\ \/ UNCHANGED <<stateVars, backendPaused>>
     \/ backendPaused' = FALSE /\ Transition("PAUSED", "TRAINING")
  /\ UNCHANGED <<resumeFrom, closed, activeRunId, starting, controlRun, worker,
                 localVars, armed, stopAsked>>

-----------------------------------------------------------------------------
(* execute, on the worker thread.                                          *)

Execute ==
  /\ worker = "queued"
  /\ \/ /\ ~closed /\ phase = "PREPARING"            \* stillOwned
        /\ worker' = "starting" /\ UNCHANGED armed
     \/ /\ closed \/ phase # "PREPARING"
        /\ worker' = "idle" /\ armed' = FALSE       \* cancelPreparedRun
  /\ stopAsked' = (stopAsked /\ worker' # "idle")
  /\ UNCHANGED <<stateVars, resumeFrom, closed, activeRunId, lockVars, localVars,
                 backendPaused>>

\* publish INITIALIZING_HTP, which never replaces a terminal state, and enter
\* backend.run.
EnterBackend ==
  /\ worker = "starting" /\ worker' = "running"
  /\ IF closed \/ phase \in terminalPhases THEN UNCHANGED stateVars
     ELSE Show("INITIALIZING_HTP", resumeFrom, NoCheckpoint)
  /\ latestStep' = NoStep /\ latestPhase' = "IDLE"
  /\ latestCheckpoint' = NoCheckpoint /\ malformed' = FALSE
  /\ armed' = FALSE
  /\ UNCHANGED <<resumeFrom, closed, activeRunId, lockVars, outcome, stopAsked,
                 backendPaused>>

\* A progress record: fields and checkpoint identity are well formed or not.
Records ==
  [step : 0..(Total + 1), phase : progressPhases,
   checkpoint : 0..(Total + 1), fieldsOk : BOOLEAN, checkpointOk : BOOLEAN]

progressValid(r) == r.fieldsOk /\ r.step \in resumeFrom..Total
checkpointValid_anyStep(r) == r.checkpoint # NoCheckpoint => r.checkpointOk
checkpointValid(r) ==
  r.checkpoint # NoCheckpoint => r.checkpointOk /\ r.checkpoint <= r.step
notBackwards(r) ==
  /\ latestStep # NoStep => r.step >= latestStep
  /\ r.checkpoint # NoCheckpoint => r.checkpoint >= latestCheckpoint
  /\ ~(/\ latestPhase = "SAVING_CHECKPOINT" /\ r.phase = "TRAINING"
       /\ r.step = latestStep)

acceptingProgress == ~closed /\ phase \in progressAcceptingPhases

\* The callback, up to the publication: a record that fails a check stops the
\* backend and turns the result into a failure.
Progress(r) ==
  /\ worker = "running" /\ ~backendPaused /\ acceptingProgress
  /\ IF progressValid(r) /\ checkpointValid(r) /\ notBackwards(r)
     THEN /\ latestStep' = r.step /\ latestPhase' = r.phase
          /\ latestCheckpoint' = IF r.checkpoint # NoCheckpoint
                                 THEN r.checkpoint ELSE latestCheckpoint
          /\ worker' = "publishing" /\ UNCHANGED <<malformed, stopAsked>>
     ELSE /\ malformed' = TRUE /\ stopAsked' = TRUE
          /\ UNCHANGED <<worker, latestStep, latestPhase, latestCheckpoint>>
  /\ UNCHANGED <<stateVars, resumeFrom, closed, activeRunId, lockVars, outcome,
                 armed, backendPaused>>

\* publishProgress checks the phase again: pause or close may have come between.
PublishProgress_unchecked ==
  /\ worker = "publishing" /\ worker' = "running"
  /\ Show(latestPhase, latestStep, latestCheckpoint)
  /\ UNCHANGED <<malformed, stopAsked>>
  /\ UNCHANGED <<resumeFrom, closed, activeRunId, lockVars, latestStep,
                 latestPhase, latestCheckpoint, outcome, armed, backendPaused>>

PublishProgress ==
  /\ worker = "publishing" /\ worker' = "running"
  /\ \/ /\ IF acceptingProgress
           THEN Show(latestPhase, latestStep, latestCheckpoint)
           ELSE UNCHANGED stateVars
        /\ UNCHANGED <<malformed, stopAsked>>
     \/ /\ malformed' = TRUE /\ stopAsked' = TRUE    \* the timing was unusable
        /\ UNCHANGED stateVars
  /\ UNCHANGED <<resumeFrom, closed, activeRunId, lockVars, latestStep,
                 latestPhase, latestCheckpoint, outcome, armed, backendPaused>>

\* finalProgressValidationError.
Results ==
  [step : 0..(Total + 1), checkpoint : 0..(Total + 1), fieldsOk : BOOLEAN,
   checkpointOk : BOOLEAN, evidence : BOOLEAN]
finalValid(r) == progressValid(r) /\ checkpointValid(r)

Reported(p, r) ==
  [phase |-> p, step |-> r.step,
   checkpoint |-> IF r.checkpoint # NoCheckpoint
                  THEN r.checkpoint ELSE latestCheckpoint]

Completed(r) ==
  IF finalValid(r) /\ r.evidence /\ r.step = Total
  THEN Reported("COMPLETED", r) ELSE Failure(latestCheckpoint)
Cancelled(r) ==
  IF finalValid(r) THEN Reported("INTERRUPTED", r) ELSE Failure(latestCheckpoint)
CancelledSilently ==
  [phase |-> "INTERRUPTED", step |-> NoStep, checkpoint |-> latestCheckpoint]

\* backend.run returns or throws.  A malformed record earlier makes it a failure
\* whatever it returned.
BackendReturns_trustsResult ==
  /\ worker = "running" /\ worker' = "returned"
  /\ \/ outcome' = Failure(latestCheckpoint)
     \/ outcome' = CancelledSilently
     \/ \E r \in Results : outcome' = Completed(r) \/ outcome' = Cancelled(r)
  /\ stopAsked' = FALSE /\ backendPaused' = FALSE
  /\ UNCHANGED <<stateVars, resumeFrom, closed, activeRunId, lockVars, latestStep,
                 latestPhase, latestCheckpoint, malformed, armed>>

BackendReturns ==
  /\ worker = "running" /\ worker' = "returned"
  /\ \/ outcome' = Failure(latestCheckpoint)
     \/ ~malformed /\ outcome' = CancelledSilently
     \/ /\ ~malformed
        /\ \E r \in Results : outcome' = Completed(r) \/ outcome' = Cancelled(r)
  /\ stopAsked' = FALSE /\ backendPaused' = FALSE
  /\ UNCHANGED <<stateVars, resumeFrom, closed, activeRunId, lockVars, latestStep,
                 latestPhase, latestCheckpoint, malformed, armed>>

TerminalPublish_notPaused ==
  /\ worker = "returned" /\ worker' = "idle"
  /\ IF acceptingProgress THEN PublishTerminal(outcome) ELSE UNCHANGED stateVars
  /\ outcome' = NoOutcome
  /\ UNCHANGED <<resumeFrom, closed, activeRunId, lockVars, latestStep,
                 latestPhase, latestCheckpoint, malformed, backendVars>>

TerminalPublish ==
  /\ worker = "returned" /\ worker' = "idle"
  /\ PublishTerminal(outcome)
  /\ outcome' = NoOutcome
  /\ UNCHANGED <<resumeFrom, closed, activeRunId, lockVars, latestStep,
                 latestPhase, latestCheckpoint, malformed, backendVars>>

-----------------------------------------------------------------------------
Starter == StartPrepare \/ StartQueue
Control == StopBackend \/ ShutDown \/ PauseBackend \/ ResumeBackend
Caller ==
  \/ StartAccepted \/ StartRefused \/ StopChecked \/ OwnerStopChecked
  \/ PauseChecked \/ ResumeChecked \/ CloseChecked
WorkerSteps == Execute \/ EnterBackend \/ PublishProgress \/ TerminalPublish

Next ==
  \/ Caller \/ Starter \/ Control \/ WorkerSteps
  \/ BackendReturns
  \/ \E r \in Records : Progress(r)

\* A thread that holds the lock goes on, and so does the worker.  The native
\* run sends finitely many records, so it returns (strong fairness: it cannot
\* send them for ever), unless it is paused; a stop ends it in either case.
Fairness ==
  /\ WF_vars(Starter) /\ WF_vars(Control) /\ WF_vars(WorkerSteps)
  /\ SF_vars(BackendReturns /\ (~backendPaused \/ stopAsked))

Spec == Init /\ [][Next]_vars
FairSpec == Spec /\ Fairness

-----------------------------------------------------------------------------
\* Every variable ranges over the values its declaration in the code allows.
TypeOK ==
  /\ phase \in Phases
  /\ step \in {NoStep} \cup 0..Total /\ lastCheckpoint \in 0..Total
  /\ resumeFrom \in 0..(Total - 1)
  /\ closed \in BOOLEAN /\ activeRunId \in 0..MaxRuns
  /\ starting \in {"no", "accepted", "prepared"}
  /\ control \in {"none", "stopping", "pausing", "resuming", "shutdown"}
  /\ controlRun \in 0..MaxRuns
  /\ worker \in {"idle", "queued", "starting", "running", "publishing",
                 "returned"}
  /\ latestStep \in {NoStep} \cup 0..Total
  /\ latestPhase \in {"IDLE"} \cup progressPhases
  /\ latestCheckpoint \in 0..Total /\ malformed \in BOOLEAN
  /\ outcome \in [phase : {"IDLE"} \cup terminalPhases,
                  step : {NoStep} \cup 0..Total, checkpoint : 0..Total]
  /\ armed \in BOOLEAN /\ stopAsked \in BOOLEAN /\ backendPaused \in BOOLEAN

\* TrainingSession keeps the promise of TrainingRun to its observers: whatever
\* the backend sends, whenever pause, stop and close come.
Run == INSTANCE TrainingRun WITH first <- resumeFrom
Lifecycle == Run!Spec

\* Malformed telemetry never looks like success, whatever result follows it
\* (NativeHtpTrainingBackend.kt:447-449, TrainingSession.kt:288).
MalformedNeverSucceeds ==
  malformed =>
    /\ phase \notin {"COMPLETED", "INTERRUPTED"}
    /\ outcome.phase \notin {"COMPLETED", "INTERRUPTED"}

\* The checkpoint an observer is offered to resume from is never ahead of the
\* step shown beside it while the run is active, nor once it has completed.
CheckpointBehindStep ==
  phase \in activePhases \cup {"COMPLETED"} => lastCheckpoint <= step

\* A stop, pause or resume acts on the run whose phase it has checked, although
\* it has left the state lock in between (backendOperationLock).
ControlHitsItsRun == control # "none" => controlRun = activeRunId

\* No worker is left behind: outside close, a run that is shown as active is
\* being started or executed, and only then.
ActiveIffExecuting ==
  ~closed => (phase \in activePhases <=> starting # "no" \/ worker # "idle")

\* A stop the backend has been asked for ends the run, paused or not.
StopEndsRun == (stopAsked /\ ~closed) ~> (phase \notin activePhases \/ closed)

\* A run that is shown as active ends, unless it is paused or the session closes.
RunEnds == (phase \in activePhases) ~>
             (phase \notin activePhases \/ closed \/ backendPaused)
=============================================================================
