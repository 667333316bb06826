-------------------------- MODULE NicopediaTraining --------------------------
(***************************************************************************)
(* nicopediaHtpTraining (qnn_transformer_training.cpp): the training loop  *)
(* with its interval and final checkpoints, resume, stop and CPU replay,   *)
(* over the checkpoint files that outlive the process; and the evaluation  *)
(* and the one-update probe that share the directory.                      *)
(* Abstracted: parameters and Adam moments are the sequence of updates     *)
(* that produced them, an update being the step number that selects its    *)
(* records and its bias correction; numbers are finite or not; telemetry   *)
(* is the checkpoint it announces.                                         *)
(***************************************************************************)
EXTENDS Integers, Sequences

CONSTANTS Configs,   \* tiny_lm::Config and seed: what a header identifies
          Shapes,    \* what a checkpoint name tells of them
          Shape,     \* checkpointName of a configuration, without the step
          MaxStep,   \* bound: TrainingConfig.steps
          Interval,  \* diagnosticCheckpointInterval
          Batch,     \* TrainingConfig.batchSize
          Absent     \* no file

Steps == 1..MaxStep
Names == Shapes \X Steps
Name(c, s) == <<Shape[c], s>>   \* checkpointName

\* The sequence of updates 1..n, each once and in order.
Updates(n) == [i \in 1..n |-> i]

\* torn: bytes that are not a whole checkpoint. adam: NPRTCKPTV2 or V3.
Files  == [conf : Configs, step : Steps, hist : Seq(Nat), mom : Seq(Nat),
           adam : BOOLEAN, torn : BOOLEAN]
States == [hist : Seq(Nat), mom : Seq(Nat), finite : BOOLEAN]
Jobs   == [kind : {"train", "evaluate", "probe"}, conf : Configs,
           resume : 0..MaxStep, target : Steps]
Reports == [job : Jobs, status : {"SUCCESS", "FAILED", "CANCELLED"},
            last : 0..MaxStep, finite : BOOLEAN, written : BOOLEAN,
            hist : Seq(Nat)]

\* A file of an older build: parameters without moments (NPRTCKPTV1).
Legacy(c, s) == [conf |-> c, step |-> s, hist |-> Updates(s), mom |-> <<>>,
                 adam |-> FALSE, torn |-> FALSE]

ASSUME NicopediaAssumption ==
  /\ Shape \in [Configs -> Shapes]
  /\ MaxStep \in Nat \ {0} /\ Interval \in Nat \ {0} /\ Batch \in Nat \ {0}
  /\ Absent \notin Files \cup Jobs \cup Reports \cup (Configs \X (0..MaxStep))

VARIABLES
  files,        \* the checkpoints under their final names
  pc, job,      \* where the native thread is, and in which call
  cur,          \* current, currentFirst, currentSecond
  step, elem,   \* the step of the loop and the elements of its batch done
  last,         \* lastCompletedStep
  stepFinite, allFinite, interrupted,
  saved,        \* the step of lastCheckpointPath, 0 when there is none
  replay,       \* the step of the CPU replay, -1 when it does not run
  stop,         \* *stopRequested
  late,         \* history: updates of this call completed since a stop
  announced,    \* history: the names telemetry or a report has announced
  report        \* the report of the last call

loopVars  == <<step, elem, last, stepFinite, allFinite, interrupted, saved, replay>>
localVars == <<job, cur, loopVars, late>>
vars == <<files, pc, localVars, stop, announced, report>>

Pcs == {"idle", "prepare", "load", "scratch", "top", "batch", "save", "write",
        "stepEnd", "after", "replay", "finish", "lastSave", "lastWrite",
        "evaluate", "probe"}

Initial == [hist |-> <<>>, mom |-> <<>>, finite |-> TRUE]

\* The locals at the entry of a call; between two calls there are none.
Locals(j) ==
  /\ job = j /\ cur = Initial /\ step = 0 /\ elem = 0
  /\ last = (IF j # Absent /\ j.kind = "train" THEN j.resume ELSE 0)
  /\ stepFinite = TRUE /\ allFinite = TRUE /\ interrupted = FALSE
  /\ saved = 0 /\ replay = -1 /\ late = 0

Entered(j) ==
  /\ job' = j /\ cur' = Initial /\ step' = 0 /\ elem' = 0
  /\ last' = (IF j # Absent /\ j.kind = "train" THEN j.resume ELSE 0)
  /\ stepFinite' = TRUE /\ allFinite' = TRUE /\ interrupted' = FALSE
  /\ saved' = 0 /\ replay' = -1 /\ late' = 0

Init ==
  /\ files \in {[n \in Names |-> Absent]} \cup
       {[n \in Names |-> IF n = Name(c, s) THEN Legacy(c, s) ELSE Absent] :
          c \in Configs, s \in Steps}
  /\ pc = "idle" /\ Locals(Absent)
  /\ stop = FALSE /\ announced = {} /\ report = Absent

-----------------------------------------------------------------------------
\* The helpers of the call.

\* Bug: the flag is not looked at.
StopUnseen == FALSE

\* stopRequested->load().
StopSeen == stop

Here == Name(job.conf, last)

\* The call returns its report; checkpoint_written=true promises a file.
Return(status, finite, written) ==
  /\ pc' = "idle" /\ Entered(Absent)
  /\ report' = [job |-> job, status |-> status, last |-> last,
                finite |-> finite, written |-> written, hist |-> cur.hist]
  /\ announced' = IF written THEN announced \cup {Here} ELSE announced

\* failure(...) and the other early returns with status=FAILED.
Fail == Return("FAILED", FALSE, FALSE)

Loads(f, c, s) == f # Absent /\ ~f.torn /\ f.conf = c /\ f.step = s

CheckpointDue(s) == s % Interval = 0 \/ s = job.target

finalWriteAllowed(finalFinite) ==
  allFinite /\ finalFinite /\ last = job.target
interruptedWriteAllowed(finalFinite) ==
  allFinite /\ finalFinite /\ last > job.resume

-----------------------------------------------------------------------------
\* The start of a call, up to the training loop.

\* The bridge has cleared the stop flag.
Start(j) ==
  /\ pc = "idle" /\ Entered(j) /\ stop' = FALSE /\ report' = Absent
  /\ pc' = IF j.kind = "probe" THEN "probe" ELSE "prepare"
  /\ UNCHANGED <<files, announced>>

\* Configuration, cache and graph preparation; a resume step that is not below
\* the target is refused.
Prepared ==
  /\ pc = "prepare" /\ job.kind = "train" /\ job.resume < job.target
  /\ pc' = IF job.resume = 0 THEN "scratch" ELSE "load"
  /\ UNCHANGED <<files, localVars, stop, announced, report>>

\* Any of them may fail.
PrepareFails ==
  /\ pc = "prepare" /\ Fail /\ UNCHANGED <<files, stop>>

\* A resume takes parameters and moments from the file of its step.
ResumeFile == files[Name(job.conf, job.resume)]
CanResume  == Loads(ResumeFile, job.conf, job.resume) /\ ResumeFile.adam

\* Bug: the loop starts at the step of the checkpoint, not after it.
ResumeAtStep ==
  /\ pc = "load" /\ CanResume
  /\ cur' = [hist |-> ResumeFile.hist, mom |-> ResumeFile.mom, finite |-> TRUE]
  /\ step' = job.resume /\ pc' = "top"
  /\ UNCHANGED <<files, job, elem, last, stepFinite, allFinite,
                 interrupted, saved, replay, late, stop, announced, report>>

Resume ==
  /\ pc = "load" /\ CanResume
  /\ cur' = [hist |-> ResumeFile.hist, mom |-> ResumeFile.mom, finite |-> TRUE]
  /\ step' = job.resume + 1 /\ pc' = "top"
  /\ UNCHANGED <<files, job, elem, last, stepFinite, allFinite,
                 interrupted, saved, replay, late, stop, announced, report>>

ResumeFails ==
  /\ pc = "load" /\ ~CanResume /\ Fail /\ UNCHANGED <<files, stop>>

\* The comparison at step 0 and the eight-step trajectory keep their own
\* copies and look at no stop flag.
Scratch ==
  /\ pc = "scratch" /\ pc' = "top" /\ step' = 1
  /\ UNCHANGED <<files, job, cur, elem, last, stepFinite, allFinite,
                 interrupted, saved, replay, late, stop, announced, report>>

ScratchFails ==
  /\ pc = "scratch" /\ Fail /\ UNCHANGED <<files, stop>>

-----------------------------------------------------------------------------
\* The training loop.

StepBegin ==
  /\ pc = "top" /\ elem' = 0 /\ stepFinite' = TRUE
  /\ interrupted' = (step <= job.target /\ StopSeen)
  /\ pc' = IF step > job.target \/ StopSeen THEN "after" ELSE "batch"
  /\ UNCHANGED <<files, job, cur, step, last, allFinite, saved, replay,
                 late, stop, announced, report>>

\* One element of the batch; a stop drops the gradients of the step.
Element ==
  /\ pc = "batch" /\ elem < Batch
  /\ IF StopSeen
     THEN interrupted' = TRUE /\ pc' = "after" /\ UNCHANGED <<elem, stepFinite>>
     ELSE /\ elem' = elem + 1 /\ stepFinite' \in {stepFinite, FALSE}
          /\ UNCHANGED <<pc, interrupted>>
  /\ UNCHANGED <<files, job, cur, step, last, allFinite, saved, replay,
                 late, stop, announced, report>>

\* executeLanguageAdam; the new state is in place before it is known finite.
Adam ==
  /\ pc = "batch" /\ elem = Batch
  /\ \E finite \in BOOLEAN :
       /\ cur' = [hist |-> Append(cur.hist, step),
                  mom |-> Append(cur.mom, step), finite |-> finite]
       /\ allFinite' = (stepFinite /\ finite)
  /\ IF allFinite'
     THEN /\ last' = step /\ late' = (IF stop THEN late + 1 ELSE late)
          /\ pc' = IF CheckpointDue(step) THEN "save" ELSE "stepEnd"
     ELSE pc' = "after" /\ UNCHANGED <<last, late>>
  /\ UNCHANGED <<files, job, step, elem, stepFinite, interrupted, saved,
                 replay, stop, announced, report>>

\* executeTinyTransformerTraining or executeLanguageAdam fails.
ExecuteFails ==
  /\ pc = "batch" /\ (elem < Batch => ~StopSeen) /\ Fail
  /\ UNCHANGED <<files, stop>>

\* The end of a step: the stop flag is read, then the progress is sent.
StepEnd ==
  /\ pc = "stepEnd" /\ interrupted' = StopSeen
  /\ announced' = (IF saved = step THEN announced \cup {Here} ELSE announced)
  /\ IF StopSeen THEN pc' = "after" /\ UNCHANGED step
     ELSE pc' = "top" /\ step' = step + 1
  /\ UNCHANGED <<files, job, cur, elem, last, stepFinite, allFinite,
                 saved, replay, late, stop, report>>

-----------------------------------------------------------------------------
\* nprtSaveCheckpointV2, from the loop (save, write) and after it (lastSave,
\* lastWrite): the temporary file, then the rename.

\* A non-finite state is refused. The temporary file is written while pc is
\* write or lastWrite; nothing reads it, so one left by a dead process is not
\* part of the state.
Writable == last > 0 /\ cur.finite

\* What the file under the final name becomes at the rename.
Image == [conf |-> job.conf, step |-> last, hist |-> cur.hist,
          mom |-> cur.mom, adam |-> TRUE, torn |-> FALSE]

\* Bug: the final name is written in place.
SaveInPlace(open, write) ==
  /\ pc = open /\ pc' = write
  /\ files' = [files EXCEPT ![Here] = [Image EXCEPT !.torn = TRUE]]
  /\ UNCHANGED <<localVars, stop, announced, report>>

\* Bug: the old checkpoint is removed before the new one is written.
SaveRemovesOld(open, write) ==
  /\ pc = open /\ pc' = write
  /\ files' = [files EXCEPT ![Here] = Absent]
  /\ UNCHANGED <<localVars, stop, announced, report>>

SaveOpen(open, write) ==
  /\ pc = open /\ pc' = write
  /\ UNCHANGED <<files, localVars, stop, announced, report>>

SaveFails ==
  /\ pc \in {"write", "lastWrite"} /\ Fail
  /\ UNCHANGED <<files, stop>>

Renamed ==
  /\ Writable
  /\ files' = [files EXCEPT ![Here] = Image]

IntervalCommit ==
  /\ pc = "write" /\ Renamed /\ saved' = last /\ pc' = "stepEnd"
  /\ UNCHANGED <<job, cur, step, elem, last, stepFinite, allFinite,
                 interrupted, replay, late, stop, announced, report>>

-----------------------------------------------------------------------------
\* After the loop.

\* Only a scratch run that was not interrupted replays on the CPU.
After ==
  /\ pc = "after"
  /\ IF job.resume = 0 /\ ~interrupted
     THEN replay' = 0 /\ pc' = "replay"
     ELSE pc' = "finish" /\ UNCHANGED replay
  /\ UNCHANGED <<files, job, cur, step, elem, last, stepFinite, allFinite,
                 interrupted, saved, late, stop, announced, report>>

Replay ==
  /\ pc = "replay"
  /\ IF replay < last /\ ~StopSeen
     THEN replay' = replay + 1 /\ UNCHANGED <<pc, interrupted>>
     ELSE interrupted' = (replay < last) /\ pc' = "finish" /\ UNCHANGED replay
  /\ UNCHANGED <<files, job, cur, step, elem, last, stepFinite, allFinite,
                 saved, late, stop, announced, report>>

\* The stop flag is read a last time. What follows is a function of it, of
\* whether the CPU replay stayed finite, and of whether the run is healthy:
\* the step 0 comparison, the return codes and, from scratch, the loss.
Interrupted == interrupted \/ StopSeen
FinalFinite(cpuFinite) ==
  cur.finite /\ (replay = last /\ ~Interrupted => cpuFinite)
Eligible(cpuFinite) ==
  IF Interrupted THEN interruptedWriteAllowed(FinalFinite(cpuFinite))
  ELSE finalWriteAllowed(FinalFinite(cpuFinite))
\* Bug: any checkpoint of the loop is taken for the one of the last step.
SavedBefore == saved > 0

AlreadySaved == saved = last /\ files[Here] # Absent
Status(healthy, cpuFinite) ==
  CASE Interrupted -> "CANCELLED"
    [] ~Interrupted /\ healthy /\ finalWriteAllowed(FinalFinite(cpuFinite)) -> "SUCCESS"
    [] OTHER -> "FAILED"

\* The final checkpoint is not due, or is the one of the loop.
Finish ==
  /\ pc = "finish"
  /\ \E healthy, cpuFinite \in BOOLEAN :
       /\ Eligible(cpuFinite) => AlreadySaved
       /\ Return(Status(healthy, cpuFinite),
                 allFinite /\ FinalFinite(cpuFinite), Eligible(cpuFinite))
  /\ UNCHANGED <<files, stop>>

\* A run that was stopped between two intervals still has to write.
FinishSaving ==
  /\ pc = "finish"
  /\ \E cpuFinite \in BOOLEAN : Eligible(cpuFinite) /\ ~AlreadySaved
  /\ interrupted' = Interrupted /\ pc' = "lastSave"
  /\ UNCHANGED <<files, job, cur, step, elem, last, stepFinite, allFinite,
                 saved, replay, late, stop, announced, report>>

\* The report was decided before the write: a later stop changes nothing.
FinalCommit ==
  /\ pc = "lastWrite" /\ Renamed
  /\ \E healthy \in BOOLEAN :
       Return(IF interrupted THEN "CANCELLED"
              ELSE IF healthy THEN "SUCCESS" ELSE "FAILED", TRUE, TRUE)
  /\ UNCHANGED stop

-----------------------------------------------------------------------------
\* The calls that only read the directory.

\* nicopediaHtpEvaluate: it takes a file without moments too and is given no
\* stop flag.
EvaluateLoad ==
  /\ pc = "prepare" /\ job.kind = "evaluate" /\ job.resume > 0
  /\ Loads(ResumeFile, job.conf, job.resume)
  /\ cur' = [Initial EXCEPT !.hist = ResumeFile.hist] /\ pc' = "evaluate"
  /\ UNCHANGED <<files, job, loopVars, late, stop, announced, report>>

Evaluate ==
  /\ pc = "evaluate"
  /\ \E ok \in BOOLEAN : Return(IF ok THEN "SUCCESS" ELSE "FAILED", ok, FALSE)
  /\ UNCHANGED <<files, stop>>

\* runNicopediaHtpOneUpdateProbe: one update that is thrown away.
Probe ==
  /\ pc = "probe"
  /\ \E ok \in BOOLEAN : Return(IF ok THEN "SUCCESS" ELSE "FAILED", ok, FALSE)
  /\ UNCHANGED <<files, stop>>

-----------------------------------------------------------------------------
\* The environment.

\* nativeRequestStop while the call is inside.
RequestStop ==
  /\ pc # "idle" /\ ~stop /\ stop' = TRUE
  /\ UNCHANGED <<files, pc, localVars, announced, report>>

\* The process dies: only the files are left.
Crash ==
  /\ pc # "idle" /\ pc' = "idle" /\ Entered(Absent) /\ stop' = FALSE
  /\ UNCHANGED <<files, announced, report>>

Thread ==
  \/ Prepared \/ PrepareFails \/ Resume \/ ResumeFails \/ Scratch \/ ScratchFails
  \/ StepBegin \/ Element \/ Adam \/ ExecuteFails \/ StepEnd
  \/ SaveOpen("save", "write") \/ SaveOpen("lastSave", "lastWrite") \/ SaveFails
  \/ IntervalCommit \/ After \/ Replay \/ Finish \/ FinishSaving \/ FinalCommit
  \/ EvaluateLoad \/ Evaluate \/ Probe

Next ==
  \/ \E j \in Jobs : Start(j)
  \/ Thread \/ RequestStop \/ Crash

Spec == Init /\ [][Next]_vars

-----------------------------------------------------------------------------
\* Properties.

\* Every variable keeps its type.
TypeOK ==
  /\ files \in [Names -> Files \cup {Absent}]
  /\ pc \in Pcs /\ job \in Jobs \cup {Absent} /\ cur \in States
  /\ step \in 0..(MaxStep + 1) /\ elem \in 0..Batch /\ last \in 0..MaxStep
  /\ stepFinite \in BOOLEAN /\ allFinite \in BOOLEAN /\ interrupted \in BOOLEAN
  /\ saved \in 0..MaxStep /\ replay \in -1..MaxStep /\ stop \in BOOLEAN
  /\ late \in Nat /\ announced \subseteq Names
  /\ report \in Reports \cup {Absent}

\* A whole file under its own name, whose parameters, and moments if it has
\* them, come from the updates 1..step, each once and in order.
Canonical(f, n) ==
  /\ ~f.torn /\ n = Name(f.conf, f.step) /\ f.hist = Updates(f.step)
  /\ f.adam => f.mom = Updates(f.step)

\* Whatever is interrupted, fails or dies between two steps of a save, and
\* over any number of resumed segments, every file under a checkpoint name is
\* whole and is what one uninterrupted run would have written at that step
\* (nprtSaveCheckpointV2: never a partial, non-finite or misnamed file).
CanonicalFiles ==
  \A n \in Names : files[n] # Absent => Canonical(files[n], n)

Resumable(n) == files[n] # Absent /\ ~files[n].torn /\ files[n].adam

\* A checkpoint that telemetry or a report has named is there to be resumed
\* from, also after later runs and deaths of the process, and a run that
\* succeeds, or is cancelled past its start with finite numbers, has one.
PromisedIsDurable ==
  /\ \A n \in announced : Resumable(n)
  /\ report # Absent /\ report.job.kind = "train" /\ report.finite =>
       /\ report.status = "SUCCESS" => report.written
       /\ report.status = "CANCELLED" /\ report.last > report.job.resume
          => report.written

\* A success speaks of the state it names: the target step of a training, the
\* step of the checkpoint of an evaluation, with no update missing or twice.
ReportedAsNamed ==
  report # Absent /\ report.status = "SUCCESS" =>
    CASE report.job.kind = "train"    -> report.hist = Updates(report.job.target)
      [] report.job.kind = "evaluate" -> report.hist = Updates(report.job.resume)
      [] OTHER -> report.hist = <<>>

\* After a stop is requested at most the optimizer step in flight completes
\* ("stop_semantics=after_current_step").
StopBounded == late <= 1

\* A checkpoint that could be resumed from is never replaced by that of
\* another configuration.
NeverReplaced ==
  [][\A n \in Names : Resumable(n) => Resumable(n)' /\ files'[n].conf = files[n].conf]_vars

\* The loop with its files is a DurableTrajectory: crashes, failures, stops
\* and resumes only ever move along the updates and lose no durable position.
InMemory == {"top", "batch", "save", "write", "stepEnd", "after",
             "replay", "finish", "lastSave", "lastWrite"}

Position == IF pc \in InMemory THEN <<job.conf, last>> ELSE Absent

Durable == {p \in Configs \X Steps :
              LET n == Name(p[1], p[2]) IN
                /\ Resumable(n) /\ files[n].conf = p[1]
                /\ Canonical(files[n], n) /\ files[n].step = p[2]}

T == INSTANCE DurableTrajectory WITH
       NoRun <- Absent,
       at <- Position,
       durable <- Durable

Trajectory == T!Spec
=============================================================================
