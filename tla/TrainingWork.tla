----------------------------- MODULE TrainingWork -----------------------------
(***************************************************************************)
(* StandaloneTrainingWork.kt and the repository of TrainingSession.kt: the *)
(* unique work that owns a training run, the worker coroutine that attaches*)
(* to it or starts it, the durable record and checkpoint index it recovers *)
(* from, and process death between any two steps.                          *)
(* Abstracted: the session's phases are PREPARING, TRAINING (a checkpoint  *)
(* being saved included) and the terminal ones, as TrainingSession models  *)
(* the rest; one configuration and dataset, so a checkpoint is its run's   *)
(* work and its step; PAUSED, which the native backend does not support.   *)
(***************************************************************************)
EXTENDS Naturals, FiniteSets

CONSTANTS MaxWorks,      \* bound: works ever enqueued
          MaxAttempts,   \* bound: worker coroutines ever started
          MaxCrashes,    \* bound: process deaths
          Total,         \* TrainingPlan.targetSteps
          MayThrow,      \* BOOLEAN: a commit, setProgress or setForeground fails
          NoCheckpoint,
          Empty          \* the conflated channel holds nothing

Works    == 1..MaxWorks
Attempts == 1..MaxAttempts
\* work: whose run wrote it; born: the record that was current at the time,
\* which is what comparing createdAtMs with runStartedAtMs tells.
Checkpoints ==
  [work : 0..MaxWorks, step : 1..Total, born : 0..MaxWorks]

ASSUME TrainingWorkAssumption ==
  /\ MaxWorks \in Nat \ {0} /\ MaxAttempts \in Nat \ {0} /\ MaxCrashes \in Nat
  /\ Total \in Nat \ {0}
  /\ MayThrow \in BOOLEAN
  /\ NoCheckpoint \notin Checkpoints

VARIABLES
  work, mode,  \* WorkManager's database: state and start mode of each work
  record,      \* TrainingWorkMetadataStore: the one durable record
  store,       \* AndroidTrainingCheckpointStore: the checkpoint index
  crashes,
  pc, job, prior, heard, updates, cancelled,  \* doWork, per attempt
  session,     \* TrainingSession's state, and the work it runs for
  stopAsked, queued,   \* the native stop flag; execute waits for the thread
  trainer, ui          \* the PhoneLM-training thread and its UI snapshot

durableVars == <<work, mode, record, store, crashes>>
workerVars  == <<pc, job, prior, heard, updates, cancelled>>
sessionVars == <<session, stopAsked, queued>>
trainerVars == <<trainer, ui>>
vars == <<durableVars, workerVars, sessionVars, trainerVars>>

Finished     == {"SUCCEEDED", "FAILED", "CANCELLED"}
Terminal     == {"COMPLETED", "ERROR", "INTERRUPTED"}
activePhases == {"PREPARING", "TRAINING"}
Idle == [phase |-> "IDLE", step |-> 0, ckpt |-> NoCheckpoint, work |-> 0]
NoRecord == [work |-> 0, ckpt |-> NoCheckpoint, started |-> FALSE]
NoUi == [phase |-> "IDLE", ckpt |-> NoCheckpoint]

active == session.phase \in activePhases
\* repository.subscribe ... subscription.close().
Listening(a) == pc[a] \in {"subscribing", "subscribed", "looping", "reporting",
                           "cancelling", "recording"}
created == Cardinality({w \in Works : work[w] # "NONE"})

Init ==
  /\ work = [w \in Works |-> "NONE"] /\ mode = [w \in Works |-> "FRESH"]
  /\ record = NoRecord /\ crashes = 0
  /\ store = {}
  /\ pc = [a \in Attempts |-> "off"] /\ job = [a \in Attempts |-> 0]
  /\ prior = [a \in Attempts |-> NoRecord]
  /\ heard = [a \in Attempts |-> NoUi]
  /\ updates = [a \in Attempts |-> Empty]
  /\ cancelled = [a \in Attempts |-> FALSE]
  /\ session = Idle /\ stopAsked = FALSE /\ queued = FALSE
  /\ trainer = "idle" /\ ui = NoUi

-----------------------------------------------------------------------------
(* Checkpoint selection and the state shown to listeners.                  *)

\* TrainingCheckpointCatalog: the highest step, then the newest.
Newest(S) ==
  CHOOSE c \in S : \A d \in S :
    d.step < c.step \/ (d.step = c.step /\ d.born <= c.born)
Resumable(S) == S # {} /\ Newest(S).step < Total

\* toUiState: without a checkpoint of the run, any compatible one is shown.
ToUiState(s, st) ==
  [phase |-> s.phase,
   ckpt  |-> IF s.ckpt # NoCheckpoint THEN s.ckpt
             ELSE IF Resumable(st) THEN Newest(st) ELSE NoCheckpoint]

\* TrainingWorkMetadataStore.update writes to the record there is.
Updated(state) ==
  IF state.ckpt # NoCheckpoint THEN [record EXCEPT !.ckpt = state.ckpt]
  ELSE record

-----------------------------------------------------------------------------
(* TrainingWorkCoordinator and WorkManager.                                *)

\* start: create the record, then enqueue under KEEP.  An unfinished work makes
\* it return true and do nothing.
Create(w) == [work |-> w, ckpt |-> NoCheckpoint, started |-> FALSE]

Start(m) ==
  /\ \A w \in Works : work[w] \in Finished \cup {"NONE"}
  /\ created < MaxWorks
  /\ LET w == created + 1 IN
       /\ work' = [work EXCEPT ![w] = "ENQUEUED"]
       /\ mode' = [mode EXCEPT ![w] = m]
       /\ record' = Create(w)
  /\ UNCHANGED <<store, crashes, workerVars, sessionVars, trainerVars>>

\* WorkManager does not wait for the coroutines it cancels.
Unfinished(w) == work[w] \in {"ENQUEUED", "RUNNING"}
EndWork(as) ==
  /\ work' = [w \in Works |-> IF Unfinished(w) THEN as ELSE work[w]]
  /\ cancelled' = [a \in Attempts |->
                     cancelled[a] \/ (job[a] # 0 /\ Unfinished(job[a]))]
  /\ UNCHANGED <<mode, record, store, crashes, pc, job, prior, heard, updates,
                 queued, session, trainerVars>>

\* The notification's cancel action.
Cancel == (\E w \in Works : Unfinished(w)) /\ EndWork("CANCELLED") /\ UNCHANGED stopAsked
\* TrainingWorkCoordinator.stop also asks the session, whoever owns its run.
Stop == EndWork("CANCELLED") /\ stopAsked' = (stopAsked \/ active)
\* Quota, timeout, constraint: the work is stopped and will be attempted again.
SystemStop ==
  (\E w \in Works : work[w] = "RUNNING") /\ EndWork("ENQUEUED") /\ UNCHANGED stopAsked

\* The process dies: what is not durable is lost, and running work is attempted
\* again by the next process.
Crash ==
  /\ crashes < MaxCrashes /\ crashes' = crashes + 1
  /\ work' = [w \in Works |-> IF work[w] = "RUNNING" THEN "ENQUEUED" ELSE work[w]]
  /\ pc' = [a \in Attempts |-> IF pc[a] = "off" THEN "off" ELSE "ended"]
  /\ job' = [a \in Attempts |-> 0]
  /\ heard' = [a \in Attempts |-> NoUi]
  /\ prior' = [a \in Attempts |-> NoRecord]
  /\ updates' = [a \in Attempts |-> Empty]
  /\ cancelled' = [a \in Attempts |-> FALSE]
  /\ session' = Idle /\ stopAsked' = FALSE /\ queued' = FALSE
  /\ trainer' = "idle" /\ ui' = NoUi
  /\ UNCHANGED <<mode, record, store>>

-----------------------------------------------------------------------------
(* doWork.                                                                 *)

Goto(a, where) == pc' = [pc EXCEPT ![a] = where]
\* The coroutine ends, and its locals with it.
Leave(a) ==
  /\ Goto(a, "ended")
  /\ job' = [job EXCEPT ![a] = 0] /\ prior' = [prior EXCEPT ![a] = NoRecord]
  /\ heard' = [heard EXCEPT ![a] = NoUi]
  /\ updates' = [updates EXCEPT ![a] = Empty]
  /\ cancelled' = [cancelled EXCEPT ![a] = FALSE]
\* A result; WorkManager ignores it unless it still counts on this attempt.
Return(a, result) ==
  /\ work' = IF work[job[a]] = "RUNNING" /\ ~cancelled[a]
             THEN [work EXCEPT ![job[a]] = result] ELSE work
  /\ Leave(a)

\* WorkManager starts a coroutine; it identifies its record and promotes itself
\* to the foreground.  A work that was stopped is attempted again after a backoff,
\* which outlasts the first statements of doWork but not the wait for a run to end.
Beginning(a) == pc[a] \in {"foreground", "marked", "subscribing", "subscribed"}
BeginAttempt(a) ==
  /\ pc[a] = "off" /\ \A b \in Attempts : b < a => pc[b] # "off"
  /\ \E w \in Works :
       /\ work[w] = "ENQUEUED" /\ record.work = w
       /\ \A b \in Attempts : job[b] = w => ~Beginning(b)
       /\ work' = [work EXCEPT ![w] = "RUNNING"]
       /\ job' = [job EXCEPT ![a] = w]
  /\ Goto(a, "foreground")
  /\ UNCHANGED <<mode, record, store, crashes, prior, heard, updates, cancelled,
                 sessionVars, trainerVars>>

\* markExecutionStarted returns the record as it was.
MarkExecutionStarted_notPersisted(a) ==
  /\ pc[a] = "foreground" /\ Goto(a, "marked")
  /\ prior' = [prior EXCEPT ![a] = record]
  /\ UNCHANGED <<durableVars, job, heard, updates, cancelled, sessionVars,
                 trainerVars>>

MarkExecutionStarted(a) ==
  /\ pc[a] = "foreground" /\ Goto(a, "marked")
  /\ record' = [record EXCEPT !.started = TRUE]
  /\ prior' = [prior EXCEPT ![a] = record]
  /\ UNCHANGED <<work, mode, store, crashes, job, heard, updates, cancelled,
                 sessionVars, trainerVars>>

\* subscribe registers the listener, then reads the snapshot it delivers first.
Subscribe(a) ==
  /\ pc[a] = "marked" /\ Goto(a, "subscribing")
  /\ heard' = [heard EXCEPT ![a] = ToUiState(session, store)]
  /\ UNCHANGED <<durableVars, job, prior, updates, cancelled, sessionVars,
                 trainerVars>>

DeliverFirst(a) ==
  /\ pc[a] = "subscribing" /\ Goto(a, "subscribed")
  /\ updates' = [updates EXCEPT ![a] = heard[a]]
  /\ UNCHANGED <<durableVars, job, prior, heard, cancelled, sessionVars,
                 trainerVars>>

\* attachOrStartWorkerRun, under commandLock: a run that is active is attached to.
Attach(a) ==
  /\ pc[a] = "subscribed" /\ active /\ Goto(a, "looping")
  /\ heard' = [heard EXCEPT ![a] = NoUi] /\ prior' = [prior EXCEPT ![a] = NoRecord]
  /\ UNCHANGED <<durableVars, job, updates, cancelled, sessionVars, trainerVars>>

Candidates(a) ==
  IF prior[a].ckpt # NoCheckpoint THEN {c \in store : c = prior[a].ckpt}
  ELSE IF mode[job[a]] = "RESUME" THEN store
  ELSE IF prior[a].started THEN {c \in store : c.born >= prior[a].work} ELSE {}

\* Refused: the newest candidate is outside the resume range or its payload is
\* unusable, or a resumed run has none.
Refuse(a) ==
  /\ pc[a] = "subscribed" /\ ~active
  /\ Candidates(a) # {} \/ mode[job[a]] = "RESUME"
  /\ Return(a, "FAILED")
  /\ UNCHANGED <<mode, record, store, crashes, sessionVars, trainerVars>>

Preparing(from, w) ==
  [phase |-> "PREPARING", step |-> from, ckpt |-> NoCheckpoint, work |-> w]
\* Every conflated channel of a listener holds the last state sent to it; what is
\* sent to a cancelled worker, which receives no more, is left out.
Receiving(a) == Listening(a) /\ pc[a] \notin {"cancelling", "recording"}
Conflate(state) ==
  [a \in Attempts |-> IF Receiving(a) THEN state ELSE updates[a]]

\* Started: the session shows PREPARING to every listener, and its execute is
\* queued behind whatever the trainer thread is doing.
StartRun(a) ==
  /\ pc[a] = "subscribed" /\ ~active
  /\ LET C == Candidates(a) IN
       /\ C = {} => mode[job[a]] # "RESUME"
       /\ C # {} => Resumable(C)
       /\ session' = Preparing(IF C = {} THEN 0 ELSE Newest(C).step, job[a])
  /\ updates' = Conflate(ToUiState(session', store))
  /\ queued' = TRUE /\ stopAsked' = FALSE
  /\ Goto(a, "looping") /\ heard' = [heard EXCEPT ![a] = NoUi]
  /\ prior' = [prior EXCEPT ![a] = NoRecord]
  /\ UNCHANGED <<durableVars, job, cancelled, trainerVars>>

\* updates.receive(), and the record.
Receive(a) ==
  /\ pc[a] = "looping" /\ updates[a] # Empty /\ Goto(a, "reporting")
  /\ heard' = [heard EXCEPT ![a] = updates[a]]
  /\ updates' = [updates EXCEPT ![a] = Empty]
  /\ record' = Updated(updates[a])
  /\ UNCHANGED <<work, mode, store, crashes, job, prior, cancelled, sessionVars,
                 trainerVars>>

\* setProgress, the notification, and what the phase says.
Report(a) ==
  /\ pc[a] = "reporting"
  /\ IF heard[a].phase \in Terminal
     THEN Return(a, IF heard[a].phase = "ERROR" THEN "FAILED" ELSE "SUCCEEDED")
     ELSE /\ Goto(a, "looping") /\ heard' = [heard EXCEPT ![a] = NoUi]
          /\ UNCHANGED <<work, job, prior, updates, cancelled>>
  /\ UNCHANGED <<mode, record, store, crashes, sessionVars, trainerVars>>

\* Any other exception fails the work and leaves the run to itself.
Throw(a) ==
  /\ MayThrow /\ pc[a] \in {"foreground", "reporting"}
  /\ Return(a, "FAILED")
  /\ UNCHANGED <<mode, record, store, crashes, sessionVars, trainerVars>>

\* CancellationException at a suspension point: before the try nothing is undone.
CancelEarly(a) ==
  /\ pc[a] = "foreground" /\ cancelled[a] /\ Leave(a)
  /\ UNCHANGED <<durableVars, sessionVars, trainerVars>>

CancelRun_leavesRun(a) ==
  /\ pc[a] \in {"looping", "reporting"} /\ cancelled[a]
  /\ Goto(a, "cancelling") /\ stopAsked' = stopAsked
  /\ updates' = [updates EXCEPT ![a] = Empty]
  /\ heard' = [heard EXCEPT ![a] = NoUi]
  /\ UNCHANGED <<durableVars, job, prior, cancelled, session, queued, trainerVars>>
CancelRun(a) ==
  /\ pc[a] \in {"looping", "reporting"} /\ cancelled[a]
  /\ Goto(a, "cancelling") /\ stopAsked' = (stopAsked \/ active)
  /\ updates' = [updates EXCEPT ![a] = Empty]
  /\ heard' = [heard EXCEPT ![a] = NoUi]
  /\ UNCHANGED <<durableVars, job, prior, cancelled, session, queued, trainerVars>>

PollTerminal(a) ==
  /\ pc[a] = "cancelling" /\ ~active /\ Goto(a, "recording")
  /\ UNCHANGED <<durableVars, job, prior, heard, updates, cancelled, sessionVars,
                 trainerVars>>

RecordCancelled(a) ==
  /\ pc[a] = "recording" /\ Leave(a)
  /\ record' = Updated(ToUiState(session, store))
  /\ UNCHANGED <<work, mode, store, crashes, sessionVars, trainerVars>>

-----------------------------------------------------------------------------
(* The trainer thread: it changes the session, then reads the snapshot for  *)
(* the listeners, then delivers it.                                        *)

Execute ==
  /\ trainer = "idle" /\ queued /\ queued' = FALSE /\ trainer' = "running"
  /\ UNCHANGED <<durableVars, workerVars, session, stopAsked, ui>>

Saved == [work |-> session.work, step |-> session.step + 1, born |-> record.work]

\* A native progress event.  The backend indexes a checkpoint before it reports
\* it.
Progress_reportsFirst ==
  /\ trainer = "running" /\ session.step < Total
  /\ \/ /\ session' = [session EXCEPT !.phase = "TRAINING", !.step = @ + 1]
        /\ UNCHANGED store
     \/ /\ session' = [session EXCEPT !.phase = "TRAINING", !.step = @ + 1,
                                      !.ckpt = Saved]
        /\ \/ store' = store \cup {Saved}
           \/ UNCHANGED store
  /\ trainer' = "publishing"
  /\ UNCHANGED <<work, mode, record, crashes, workerVars, stopAsked, queued, ui>>

Progress ==
  /\ trainer = "running" /\ session.step < Total
  /\ \/ /\ session' = [session EXCEPT !.phase = "TRAINING", !.step = @ + 1]
        /\ UNCHANGED store
     \/ /\ session' = [session EXCEPT !.phase = "TRAINING", !.step = @ + 1,
                                      !.ckpt = Saved]
        /\ store' = store \cup {Saved}
  /\ trainer' = "publishing"
  /\ UNCHANGED <<work, mode, record, crashes, workerVars, stopAsked, queued, ui>>

\* backend.run returns and execute publishes the terminal state: a completed run
\* has its last checkpoint, a stopped one may have saved one, an error may come
\* at any time.
RunEnds ==
  /\ trainer = "running"
  /\ \/ /\ session.step = Total /\ session.ckpt # NoCheckpoint
        /\ session.ckpt.step = Total
        /\ session' = [session EXCEPT !.phase = "COMPLETED"]
     \/ stopAsked /\ session' = [session EXCEPT !.phase = "INTERRUPTED"]
     \/ session' = [session EXCEPT !.phase = "ERROR"]
  /\ trainer' = "publishing" /\ stopAsked' = FALSE
  /\ UNCHANGED <<durableVars, workerVars, queued, ui>>

\* publishUi: `val ui = snapshot()` and then listeners.forEach.
ReadUi ==
  /\ trainer = "publishing" /\ trainer' = "notifying"
  /\ ui' = ToUiState(session, store)
  /\ UNCHANGED <<durableVars, workerVars, sessionVars>>

\* A run whose terminal state has been delivered leaves the thread to the next.
NotifyListeners_dropsWhenFull ==
  /\ trainer = "notifying"
  /\ updates' = [a \in Attempts |-> IF Receiving(a) /\ updates[a] = Empty
                                    THEN ui ELSE updates[a]]
  /\ trainer' = IF ui.phase \in Terminal \/ queued THEN "idle" ELSE "running"
  /\ ui' = NoUi
  /\ UNCHANGED <<durableVars, pc, job, prior, heard, cancelled, sessionVars>>

NotifyListeners ==
  /\ trainer = "notifying"
  /\ updates' = Conflate(ui)
  /\ trainer' = IF ui.phase \in Terminal \/ queued THEN "idle" ELSE "running"
  /\ ui' = NoUi
  /\ UNCHANGED <<durableVars, pc, job, prior, heard, cancelled, sessionVars>>

-----------------------------------------------------------------------------
WorkerStep(a) ==
  \/ MarkExecutionStarted(a) \/ Subscribe(a) \/ DeliverFirst(a)
  \/ Attach(a) \/ Refuse(a) \/ StartRun(a) \/ Receive(a) \/ Report(a)
  \/ CancelEarly(a) \/ PollTerminal(a) \/ RecordCancelled(a)
TrainerStep == Execute \/ ReadUi \/ NotifyListeners

Next ==
  \/ \E m \in {"FRESH", "RESUME"} : Start(m)
  \/ Cancel \/ Stop \/ SystemStop
  \/ \E a \in Attempts : BeginAttempt(a) \/ WorkerStep(a) \/ CancelRun(a)
                          \/ Throw(a)
  \/ TrainerStep \/ Progress \/ RunEnds
  \/ Crash

\* A coroutine that can go on does, one that is cancelled learns it, and so does
\* a run that has been asked to stop at its next safe boundary.
Fairness ==
  /\ WF_vars(TrainerStep) /\ WF_vars(stopAsked /\ RunEnds)
  /\ \A a \in Attempts : WF_vars(WorkerStep(a)) /\ SF_vars(CancelRun(a))

Spec == Init /\ [][Next]_vars
FairSpec == Spec /\ Fairness

-----------------------------------------------------------------------------
Records == [work : 0..MaxWorks, ckpt : Checkpoints \cup {NoCheckpoint},
            started : BOOLEAN]
UiStates == [phase : {"IDLE"} \cup activePhases \cup Terminal,
             ckpt : Checkpoints \cup {NoCheckpoint}]
ASSUME EmptyAssumption == Empty \notin UiStates

\* Every variable ranges over the values its declaration in the code allows.
TypeOK ==
  /\ work \in [Works -> {"NONE", "ENQUEUED", "RUNNING"} \cup Finished]
  /\ mode \in [Works -> {"FRESH", "RESUME"}]
  /\ record \in Records /\ store \subseteq Checkpoints /\ crashes \in 0..MaxCrashes
  /\ pc \in [Attempts -> {"off", "foreground", "marked", "subscribing",
                          "subscribed", "looping", "reporting", "cancelling",
                          "recording", "ended"}]
  /\ job \in [Attempts -> 0..MaxWorks] /\ prior \in [Attempts -> Records]
  /\ heard \in [Attempts -> UiStates]
  /\ updates \in [Attempts -> UiStates \cup {Empty}]
  /\ cancelled \in [Attempts -> BOOLEAN]
  /\ session \in [phase : {"IDLE"} \cup activePhases \cup Terminal, step : 0..Total,
                  ckpt : Checkpoints \cup {NoCheckpoint}, work : 0..MaxWorks]
  /\ stopAsked \in BOOLEAN /\ queued \in BOOLEAN
  /\ trainer \in {"idle", "running", "publishing", "notifying"}
  /\ ui \in UiStates

\* The record never names a checkpoint that the index does not hold, so that
\* recovery finds what it was promised (NativeHtpTrainingBackend.kt:745-747).
RecordedIsIndexed == record.ckpt # NoCheckpoint => record.ckpt \in store

\* A worker that waits for the end of a run is not left waiting: when the session
\* has no active run and the trainer thread has nothing more to deliver, the
\* worker's channel holds a terminal state (subscribe before attach, CONFLATED).
NoLostTerminal ==
  \A a \in Attempts :
    pc[a] = "looping" /\ ~active /\ trainer = "idle" =>
      updates[a] # Empty /\ updates[a].phase \in Terminal

\* An attempt that has not been cancelled starts its work from scratch only while
\* no run of it has saved a checkpoint, whatever crashes came before
\* (docs/android-long-running-workmanager-training.md:52: fresh initialization
\* only in the earliest stage, without a checkpoint).
Starts(a) == pc[a] = "subscribed" /\ pc'[a] = "looping" /\ session' # session
Own(a) == {c \in store : c.work = job[a]}
FreshOnlyBeforeFirstCheckpoint ==
  [][\A a \in Attempts :
       Starts(a) /\ ~cancelled[a] /\ session'.step = 0 => Own(a) = {}]_vars

\* When a worker that has attached to a run is cancelled, by the user or by the
\* system, the run ends, unless the worker was told so already and has left.
CancelEndsRun ==
  \A a \in Attempts :
    (cancelled[a] /\ pc[a] \in {"looping", "reporting"} /\ active) ~>
      (~active \/ pc[a] = "ended")

\* WorkManager owns execution (TrainingSession.kt:146): while a run is active,
\* its worker has not left.
RunOwned == active => \E a \in Attempts : Listening(a)
=============================================================================
