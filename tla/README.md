# HexaTrain (PhoneLM) in TLA+

HexaTrain is an Android app that trains and samples a small language model on a
Qualcomm HTP. Kotlin code (`app/src/main/java/com/yuubinnkyoku/phonelm`, here
`K/`) owns runs, checkpoints and their life cycle; C++ code
(`app/src/main/cpp`, here `N/`) executes them behind a synchronous JNI bridge
with process-global state. This directory models the parts of that code in which
threads, coroutines, callbacks and process death meet, the native loops whose
checkpoints must survive that, and the tokenizer between text and model. Every
definition is translated from the source; `PROJECT.json` maps each one to its
lines.

## 1. Inventory

| Component | State | Operations | Interacts with |
|---|---|---|---|
| JNI arbitration: `NativeRunArbiter.kt`, `native_bridge.cpp` | `owner`; `gRunning`, `gNativeCallEntered`, `gPendingStop`, `gStopRequested` | `tryAcquire`, `release`, guarded native calls, `nativeRequestStop`, `nativeClearStop` | called by the three adapters below and by debug intents |
| Native training adapter: `NativeHtpTrainingBackend.kt` | `running`, `runArmed`, `pendingStop`, `nativeCallEntered` | `prepareForRun`, `cancelPreparedRun`, `run`, `requestStop`, record parsing, checkpoint registration | the session above it, JNI below it |
| Benchmark engine and view model: `BenchmarkViewModel.kt` | `prepared`, `pendingStop`; `running`, `closed`, output, publication flags | `startMode`, `requestStop`, `close`, `requestPublish`, `drainPublish` | JNI, the view, the foreground service |
| Training session: `TrainingSession` in `TrainingSession.kt` | `state`, `closed`, `activeRunId`; locals of `execute` | `start`, `requestStop`, `requestOwnerStop`, `pause`, `resume`, `close`, `execute` | `TrainingBackend`, listeners |
| Training repository: `StandaloneTrainingRepository` in the same file | selections, `latestRequest`, listeners | `attachOrStartWorkerRun`, `cancelWorkerExecution`, `subscribe`, `publishUi`, selections, `resume`, `startOver` | the session, the checkpoint index, the worker, the activity |
| Training work: `StandaloneTrainingWork.kt` | WorkManager's database, one durable record, locals of `doWork` | `start`, `stop`, `doWork`, `update`, `markExecutionStarted` | WorkManager, the repository |
| Checkpoint index and catalogue: `TrainingAndroidAdapters.kt`, `TrainingCheckpoint.kt` | set of entries, path index, inspection cache | `save`, `list`, `archive`, `latestCompatible`, `isUsableForResume` | adapter, repository, generation |
| Generation session: `GenerationSession.kt`, `GenerationCheckpoint.kt`, `GenerationHistory.kt` | UI state, execution, selection, history | `generate`, `refreshCheckpoints`, selection, history | JNI, the prepared engine, training (refused while it is active) |
| Prepared engine: `N/qnn/qnn_prepared_generation.cpp` | one slot, its key, `poisoned`, `runCount` | prepare, run, release | the generation backend |
| Nicopedia training loop: `nicopediaHtpTraining`, `nicopediaHtpEvaluate` and the one-update probe in `N/qnn/qnn_transformer_training.cpp`, `N/nicopedia_checkpoint_policy.h` | parameters and moments, step, the checkpoint files | load, step, interval and final checkpoint, stop at a boundary, replay, evaluate | the bridge; the files outlive it |
| Formal validation protocol: `languageModelAdam` in the same file, `N/validation_selection.h`, `N/validation_checkpoint.cpp` | current, best and final states, trajectory, `.qvc` files | evaluate, select, write, restore, generate; simulated early stopping | scripts read its report |
| QNN runtime: `N/qnn/qnn_runtime_qairt.cpp` and its `.inc` files | one context and 24 graph handles | initialize, recreate, prepare, execute, destroy | every native loop; the vendor library |
| Byte-pair tokenizer: `N/nicopedia_byte_bpe.h`, `host_tests/nicopedia_bpe_train.cpp`, `nicopedia_bpe_encode.cpp`, `N/qnn/qnn_prepared_generation.cpp` | merges, a linked token list, a queue of candidates, the answer | train, parse, encode, generate | corpus tools, the prepared engine |
| Live-update service: `LiveUpdateForegroundService.kt`, `LiveUpdateNotificationController.kt` | foreground state | start, update, finish | benchmark view model |
| UI, configuration, scripts, host experiments, WorkManager probe | | presentation, validation, experiments | |

Hard behaviours, and where the models meet them:

- **One engine, many owners.** A stop request decides under a Kotlin lock and
  acts on process-global flags after leaving it; the run may have changed.
- **Two locks.** The session holds `backendOperationLock` for control calls and
  `lock` for the state; the worker never takes the first. Everything a control
  call has read may have changed when it acts, except what the outer lock keeps.
- **A backend that is not trusted.** Records and results come from a device: any
  order, any content. The session must not show them as something they are not.
- **Process death and rescheduling.** WorkManager recreates a worker, which must
  find the run it was promised in the record and the index.
- **Conflated and unsynchronised delivery.** Snapshots are read, then delivered;
  channels keep only the last.
- **Interrupted saves.** A checkpoint is written, closed and renamed; the process
  may die, or a call fail, between any two of these, and a later segment goes on
  from whatever is there.
- **Handles of the dead.** A runtime frees its context and goes on living, with
  every slot that held a graph of it.
- **Structures that are never cleaned up.** The tokenizer's queues and counters are
  corrected step by step and stale entries recognised when they come up.
- **Ties.** Validation losses are compared with a tolerance, which is not
  transitive.

What makes each component correct:

- arbitration: at most one thread inside; a stop reaches the run it was accepted
  for, is not lost, not taken back, and reaches no other run;
- session: phases and steps follow the documented state machine for any backend;
  an accepted run ends; a stop works from every active phase; nothing malformed
  ends as success;
- work: recovery resumes the latest checkpoint of its own run or starts afresh
  only when there is none; the worker leaves exactly when its run has ended; a
  cancelled worker ends its run;
- checkpoint index: what is reported is indexed; selection fails closed;
- training loop: a file is what one uninterrupted run would have written at that
  step; what was announced stays resumable; a stop lets one step finish;
- formal protocol: what is selected, written, restored and reported is the state of
  one step; the kept loss is near the minimum;
- runtime: no graph of a dead context runs; each context is freed once; the two
  training graphs never mix;
- tokenizer: trainer and encoder cut alike; no byte is lost, no merge missed; the
  answer keeps its limits;
- generation: one generation at a time; each ends, in a result that stays on the
  screen and in a history entry or a notice; no answer from an engine prepared
  for another checkpoint, or from one that has failed; a repeated generation
  keeps its checkpoint;
- view model: the last state reaches the view; each started notification ends.

## 2. Modules

| Module | Models | Extends / instantiates |
|---|---|---|
| `NativeRun` | arbitration, training adapter, benchmark engine, stop flags | |
| `NativeRun_proofs` | theorems about it | `NativeRun`, `TLAPS` |
| `TrainingRun` | abstract: what an observer of a training run is promised | |
| `TrainingSession` | `TrainingSession.kt`, session | refines `TrainingRun` |
| `TrainingSession_proofs` | theorems, the refinement among them | `TrainingSession`, `TLAPS` |
| `TrainingWork` | coordinator, worker, record, index, repository | |
| `TrainingWork_proofs` | theorems about it | `TrainingWork`, `TLAPS` |
| `PreparedEngine` | the engine slot and the progress snapshot | |
| `Generation` | generation session, executor, backend, poller, history file | extends `PreparedEngine` |
| `Generation_proofs` | theorems about both | `Generation`, `TLAPS` |
| `DurableTrajectory` | abstract: what training with checkpoints promises | |
| `NicopediaTraining` | the training loop, its files, evaluation and probe | refines `DurableTrajectory` |
| `NicopediaTraining_proofs` | theorems, the refinement among them | `NicopediaTraining`, `TLAPS` |
| `LanguageModelAdam` | the formal protocol and the selection of the best state | |
| `LanguageModelAdam_proofs` | theorems about it | `LanguageModelAdam`, `TLAPS` |
| `QnnRuntime` | the life of a runtime, its contexts and handles | |
| `QnnRuntime_proofs` | theorems about it | `QnnRuntime`, `TLAPS` |
| `BytePairEncoding` | model file, encoder, generation loop | |
| `BytePairTraining` | trainer and article encoder, before the app's use of the model | extends `BytePairEncoding` |
| `BytePairTraining_proofs` | theorems about both | `BytePairTraining`, `TLAPS` |
| `MC*` | instances for TLC | |

Three levels overlap on purpose. `NativeRun` knows the native flags and reduces
the session to the moments at which it calls the adapter. `TrainingSession` knows
the session's phases and reduces the adapter to what `TrainingBackend` may do.
`TrainingWork` knows the worker and reduces the session to three kinds of phase.
What one level assumes of the next is stated in its header and is an action of
the next. `NicopediaTraining` is the loop that `NativeRun` reduces to polling a
flag, and its files are what `TrainingWork` calls a checkpoint; `QnnRuntime` lies
below every native loop, which knows it only as calls that may fail.

### NativeRun

Threads are the training thread, the benchmark thread, the generation thread and
a set `Debug` of threads that `MainActivity.runDebugIntentIfRequested` starts and
that never ask the arbiter. `pc` says where each thread is between its entry into
the adapter and its release of the arbiter; each Kotlin `synchronized` block, each
native critical section and each call outside them is one action, so that every
interleaving at that granularity is explored. A stop request is a second thread:
`TrainStopChecked` (the session's phase check), `TrainStopLocked` (the adapter's
lock) and `DeliverStop` (`nativeRequestStop`, outside every lock). Two history
variables change no behaviour: `asked`, a stop was accepted for the run in progress,
and `misled`, that stop was delivered while the run stood before the guard and a
debug intent was inside it, or one got inside first. `misled` names the one case in
which the code loses a stop (section 3); `StopNotLost` and `StopEndsRun` except that
case and no other, so debug intents that run before, after or beside a run in its
loop are covered.

Left out: native calls that take no guard (prepare, evaluate, probe, status);
what the loop computes; the number of progress records.

### TrainingSession

Actions are the critical sections of `lock`. A start that has been accepted holds
`backendOperationLock` until it is queued (`starting`); the other control calls
hold it from their phase check to the end (`control`); `operationLockFree` is the
guard that this lock amounts to. `Progress(r)` is the callback up to its
publication and `PublishProgress` the publication, which checks the phase again.
The backend is an adversary: any record of `Records`, any result of `Results`, in
any order, with a step or checkpoint one past the target included; whether the
fields of a record and the identity of its checkpoint are well formed is a flag,
as the code checks them for itself. `closed` freezes what observers see, as
`publish` does.

Left out: timing, CPU metrics and dashboard contents; listeners (they are in
`TrainingWork`).

`TrainingRun` is the abstract specification: `Begin`, `Refuse`, `Initialize`,
`Advance`, `Pause`, `Continue`, `Complete`, `Interrupt`, `Fail` over the phase,
the step and the step the run started from. `Lifecycle` is that specification
under the identity mapping with `first <- resumeFrom`.

### TrainingWork

`work` and `mode` are WorkManager's database, `record` the one durable record of
`TrainingWorkMetadataStore`, `store` the checkpoint index; these survive `Crash`.
Each attempt is one coroutine of `doWork`, with `pc` and its locals (`prior`, what
`markExecutionStarted` returned; `heard`, the state in hand; `updates`, the
conflated channel). The trainer thread changes the session, then reads the
snapshot it will publish (`ReadUi`), then delivers it (`NotifyListeners`): these
are the three moments between which the code holds no lock. A checkpoint is its
run's work, its step, and the record that was current when it was written, which
is what comparing `createdAtMs` with `runStartedAtMs` tells recovery.

Left out: stop timestamps of the record; more than one configuration or dataset;
`PAUSED`, which `NativeHtpTrainingBackend` does not support.

WorkManager itself is external: it runs one unfinished unique work at a time,
marks a cancelled work finished without waiting for its coroutine, attempts a
stopped work again, and reschedules running work after process death.

### PreparedEngine and Generation

`PreparedEngine` gives the native side as operators that `Generation` composes
into steps: the `slot` with an engine's key, the parameters it has loaded and
whether it is poisoned; the checkpoint `files`, which any other part may change;
the progress `snapshot`. `failed` is a history variable of an engine.
`Generation` has the state of `GenerationUiState` that anything but the form
depends on, the executor's `queue` and the one job it runs (`pc` and the job's
locals), the history file, and one poller per generation, because
`shutdownNow` does not wait for a poll in progress: `PollRead` and `PollDeliver`
are separate and the second may come late. Each native call is several steps
(`EnterNative`, `Revalidate`, `Loop`), so that a file may change between them.
An exception on the executor outside its catch is `ParseThrows` or `LoadThrows`;
like `Crash`, they leave only what is on disk (`Restart`).

Left out: form fields and request validation (a request may or may not satisfy
the stricter checks of the history, `valid`), which history entry is open,
generated tokens, the layout of files; size and time of a checkpoint file change
only with its hash. Whether the arbiter is free is an outcome of `Acquire`;
`NativeRun` has that side.

### NicopediaTraining and DurableTrajectory

A call of the native thread goes through `pc`: prepare, load or scratch, the steps
with their batch elements, the interval checkpoint (`save`, `write`), the CPU
replay, the final checkpoint (`lastSave`, `lastWrite`), the report. A parameter set
and its moments are the sequence of updates that produced them, so that a step
left out, done twice or done with the moments of another is visible; a file keeps
both sequences, its configuration and step, and whether it is torn. A save is an
open, the writing and the rename; `Crash` may come between any of them, a step or an
allocation may fail, a value may become infinite, and a stop may be requested at
any time. Segments follow each other over the same files without bound.

`DurableTrajectory` says what this amounts to: one position in memory that moves
update by update, begins at the start or at a durable position, and durable
positions that are never lost.

Left out: the values of parameters, the wording of telemetry and reports, and what
the loop does for diagnostics. Two configurations may share a name, as `Shape`
allows; the run gives every configuration its own.

### LanguageModelAdam

One call trains each seed in turn: the initial evaluation, the steps, the
evaluations on the schedule with the comparison of `validation_selection.h`, the
selection after the last step, the temporary file, the rename, the restored state,
the final evaluation, the generation, the report. A tensor is its seed and how many
updates are behind it. Whatever a QNN call or the file system returns is
nondeterministic, a validation may be infinite, and the process may die (`Die`)
and be started again on the files it left.

Left out: every mode but the formal protocol's (candidate 3), the diagnostic dumps,
the one-step diagnostic, latencies, the stability modes and `validateSeedSelection`.

### QnnRuntime

One `Runtime` object, all 24 slots that hold a graph handle, and all its prepare
and execute functions, `initialize`, `recreateContext` and the destructor. Contexts
are numbered; a handle remembers its context and whether all of its graph was
built. The caller may call in any order after `initialize`, which is called once per
object as every caller does; each call of the vendor library may fail. Calls that
their own checks refuse change nothing and are left out, and so are shapes, tensors,
weight buffers, the counters of the API trace and the log capture.
`prepareInputGradientMatMul` checks nothing: after a failed `recreateContext` it asks
the library for a graph on a null context, and so does the action. That the library
refuses this is an assumption with a name, `LibraryAssumption`; without it TLC finds
a handle of no context after three steps.

### BytePairEncoding and BytePairTraining

The trainer counts all pairs once, then selects, merges occurrence by occurrence and
corrects; the encoder keeps the token list in three arrays and a queue of candidate
merges; the app parses a model file, encodes a prompt and appends tokens. One
iteration of a loop is one action. Queue and heap are sets: an entry that is
pushed again differs from every earlier one, as the headers explain. The positions
noted for a pair are a sequence, in the order the trainer visits them (`InOrder`). The
network is any choice of tokens.

Left out: the cache of encoded windows, SHA-256, cross-tokenizer metrics, the text
formats of the host programs. Texts are shorter than 2^31 bytes. The trainer itself
accepts up to 2^32 - 1 positions while it keeps them in `int32_t` arrays; the corpora
it is used on are far smaller.

## 3. Runs

| Run | Bounds | Shows |
|---|---|---|
| `native_run` | 2 training runs, 2 benchmark runs, 1 generation, 1 debug thread; with fairness | `MutualExclusion`, `StopNotLost`, `StopSticks`, `StopEndsRun` |
| `training_session` | 2 steps, 2 runs, pausing backend; with fairness | refinement of `TrainingRun`, four safety invariants, two liveness properties |
| `training_work` | 2 works, 2 attempts, 1 crash, 2 steps, commits that fail | recovery and delivery invariants |
| `training_work_stop` | 2 works, 2 attempts, no crash, 1 step; with fairness | `CancelEndsRun` |
| `training_work_owner` | 2 works, no crash, 1 step | `RunOwned` is violated |
| `generation` | 2 generations, 2 files, 2 hashes (symmetric), 1 event; history may fail | `HandleFits`, `SuccessIsSound`, `TerminalSticks`, `RecordedWhenShown` |
| `generation_jobs` | 1 generation, 2 files, 2 hashes, 2 events; with fairness | `PinnedSelection`, `ShownIsStored`, `GenerationEnds` |
| `generation_throws` | 1 generation, 1 file, no event, history works | `FailureBecomesFailed` is violated |
| `nicopedia_training` | 4 steps, a checkpoint every 2, batches of 2, 1 configuration | `CanonicalFiles`, `PromisedIsDurable`, `ReportedAsNamed`, `StopBounded`, refinement of `DurableTrajectory` |
| `best_validation` | 2 seeds, 3 steps, evaluations at 0 and 1, 3 losses and 3 accuracies, tolerance 1, patiences 1 and 2 | `SelectedIsWhole`, `SelectionBounded`, `SimulationAgrees`, `SuccessIsComplete` |
| `qnn_runtime` | 3 contexts, at most 2 handles held when another is prepared, all 24 slots | `NoStaleGraph`, `ContextsFreedOnce`, `TrainingGraphsApart` |
| `byte_pair_encoding` | 2 byte values, 3 merges, all corpora of up to 2 articles and 8 bytes, all texts up to 6 bytes, all model files | `GreedyChoice`, `TrainerAgrees`, `EncodingIsCanonical`, `TokensSpellText`, `NoMergeMissed`, `AnswerInContext` |

Why the bounds are enough. The hazards of `NativeRun` are a request of one run
that meets the next, so two runs of each owner that can be stopped, and one run of
each other owner to be in the way; the flags are Boolean. In `TrainingSession` a
resumed run differs from a fresh one with two steps, a step or checkpoint past the
target is among the inputs, and the second run lets a control call of the first
meet it. In `TrainingWork` the second attempt is the recreated worker or the next
work's, and two steps let a checkpoint be older than another. In `Generation`
an event is a refresh, a history command, a change of a checkpoint file or a
process death: one of them between any two steps of two generations lets a warm
engine, a late poll or a shown result meet what it was not made for, and two
around one generation let a file change, be listed and be pinned. Two files and
two hashes are the least with which a wrong choice can be told from the right one.
In `NicopediaTraining` four steps with an interval of two give an interval checkpoint
that a later segment replaces, one that is also the last step, and steps between
them at which to stop or die; segments repeat without bound. In `LanguageModelAdam`
three losses one tolerance apart are the shortest chain of ties, the steps after the
schedule ends let the selected state be older than the last, and the second seed
meets what the first left. The third context of `QnnRuntime` is one that follows a
recreated one; a function touches at most two slots it did not prepare. Three merges
let a merge be made of merges, eight bytes let equal tokens overlap and let two
articles end inside a run of them.
`CHECK_DEADLOCK FALSE` is set because the bounds let each system come to a stop,
and so does the program when nothing is started.

Type invariants are proved (section 4) and not run again.

Two runs find a disagreement between the code and what its comments, documents or
tests say; `PROJECT.json` quotes both sides under `findings`:

1. a stale terminal snapshot may detach a worker from the run it has started
   (`training_work_owner`);
2. a generation whose QNN execute fails after one that worked ends the process
   instead of being shown and saved as failed (`generation_throws`).

Others met while modelling have no run of their own. The models contain the
behaviour. The properties hold in its presence, except for the first two cases
below, which `StopNotLost`, `StopEndsRun` and `NoStaleGraph` name and leave out:

- `native_bridge.cpp:24-26` keeps a stop that comes before the synchronous method has
  entered apart from the per-run flag "so the method cannot erase it with its normal
  reset", and 1108 is to "Preserve a stop that races the JNI entry". With a debug intent in
  the guard neither holds. A stop for a run that is past its Kotlin checks and not yet
  in the guard sets the flag of the debug loop (1105), and `beginNativeCall` of the run
  then overwrites it (105); or it is pending and the debug intent's `beginNativeCall`
  (105-106) or `~RunningGuard` (133) takes it first. The run then goes on. Without
  `misled[a]` in `StopNotLost` TLC shows it in ten steps.
- `qnn_runtime_qairt.cpp:979-981`, the comment of `recreateContext`, says that "on
  success no stale handle may survive into the new context"; the slot
  `elementwiseSquare` is not reset (983-1045). The one caller that prepares it
  (`qnn_transformer_training.cpp:9042`) never recreates its context.
- `docs/android-standalone-htp-training.md:112-115` and `NativeRunArbiter.kt:5-10`
  give each run its owner, but `requestStop` calls `nativeRequestStop` after it has
  left its lock, when another owner's run may be inside.
- `TrainingBackend.kt:84` against `NativeHtpTrainingBackend.kt:384-386`: a stop that
  was accepted for a run the arbiter then refuses stays pending and cancels the next.
- `docs/android-long-running-workmanager-training.md:52` against
  `TrainingSession.kt:826-827`: recovery takes the checkpoint the record names even
  where a newer one is indexed.
- `strings.xml:34` against `TrainingSession.kt:937`: a run started over that has saved
  nothing is shown and recorded with a checkpoint of an older run, and a process death
  then resumes that one.
- The comment in `qnn_transformer_training.cpp` above the checkpoint names (about
  line 5316) against `nicopedia_checkpoint_policy.h:56`: names leave out heads and
  vocabulary, so two configurations that differ in these alone replace each other's
  files. `InjectiveNamesKeepCheckpoints` proves that nothing else does.
- `docs/qnn-htp-validation-selected-depth-quality.md:38` says the minimum with ties of
  1e-7 is kept; a chain of ties may carry the kept loss further. `SelectionBounded`
  says how far.
- `executeLanguageAdam` (1545-1560) refuses outputs that are not finite, so the audit
  at 2461-2568 never sees one and a diverged optimizer is reported as `QNN_EXECUTE`,
  which `scripts/run_qnn_resumable_formal.ps1:317-320` counts as a QNN failure.
- After a failed final evaluation, `first_bad_step` names the last step although the
  state in hand is the restored one (2809-2831).

### Fairness

- `NativeRun`: scheduled threads go on. A training or benchmark loop is fair only
  while its stop flag is up, since nothing else bounds it in the model; loops that
  never read the flag end by themselves. Starting runs and asking for stops is
  never fair.
- `TrainingSession`: lock holders and the worker go on. `BackendReturns` is
  strongly fair because the native run sends finitely many records; it is fair for
  a paused backend only once it has been stopped.
- `TrainingWork`: coroutines and the trainer thread go on. `CancelRun` is strongly
  fair: a coroutine between two suspension points learns of its cancellation at
  the next one. A run ends once it has been asked to stop, which is
  `StopEndsRun` of the two levels below, where no debug intent is given the stop.
- `Generation`: the executor thread goes on; native calls return. Failures of the
  history file are taken to carry a message, which is the notice. Users, pollers
  and the world are never fair.
- The native loops, the runtime and the tokenizer are one sequential thread each.
  They end because their loops count; no fairness is stated and no liveness claimed.

## 4. Proofs

`TLAPS` proves, for every value of the constants allowed by the assumptions that
the modules name:

- `NativeRun_proofs`: `TypeCorrect`, `Exclusion` (`MutualExclusion`),
  `StopIsSticky` (`StopSticks`) and `StopNeverLost` (`StopNotLost`), for any set of
  debug threads and any number of runs. `MutualExclusion` is inductive together with
  `TypeOK`: `GuardExclusive` says who is inside the native guard from `gRunning`,
  `ArbiterExact` who holds the arbiter from `owner`. `StopSticks` follows: the flag of
  a running loop can be cleared only by `BeginNativeCall`, which needs the guard, or
  by `NativeClearStop`, which needs `gRunning` to be down. `StopNotLost` needs
  `StopInv`, which follows an accepted stop to the loop: `StandaloneWindow` and
  `BenchmarkWindow` tie the adapters' flags to the points of the thread,
  `WaitsInKotlin` says that before the native call the adapter still holds the stop,
  and `WaitsInNative` that after it the native flags do, as long as no debug intent was
  in the guard between the delivery and the entry (`misled`): an unentered run whose
  stop waits has no debug intent in the guard, and one that gets in is noted.
- `TrainingSession_proofs`: `TypeCorrect`; `MalformedFails`, `CheckpointNeverAhead`,
  `ControlStaysWithRun` and `ActiveMeansExecuting`, the four safety invariants of the
  run; and `LifecycleImplemented`, the refinement of `TrainingRun`. None of them is
  inductive alone. `SessionInv` adds what the code relies on: which phases may be
  shown at each point of the worker, that a step shown is in the range of the run,
  that what is shown lags behind the worker's locals and never beyond them, and that
  the outcome about to be published is one the run may end with. The refinement has
  one case per action and needs the invariant in every publication.
- `TrainingWork_proofs`: `TypeCorrect`, `RecordIsIndexed` (`RecordedIsIndexed`),
  `EndIsDelivered` (`NoLostTerminal`) and `FreshOnlyAtFirst`
  (`FreshOnlyBeforeFirstCheckpoint`), for any number of works, attempts, process
  deaths and steps. `IndexInv` follows a checkpoint from the session over snapshots
  and channels to the record; `DeliveryInv` ties the trainer thread's place to what
  the workers have been told; `WorkInv` says that of the attempts at one work only
  one counts; `BirthInv` that a work which has not been marked as started has saved
  nothing and that no checkpoint is older than its work: where an attempt finds no
  candidate there is none to find. That a catalogue finds a newest checkpoint
  at all (`NewestIsIn`) is a lemma by well-founded induction on finite ranges.
  Assumed: `Empty` is no UI state.
- `Generation_proofs`: `TypeCorrect` and the six safety properties of the two
  generation runs, for any number of files, hashes, generations and events.
  `GenerationInv` joins them with what makes them inductive: `OneGeneration` (a
  running generation is once in the queue or at one program point of the
  executor, and nothing else is), from which `ResultStays` follows for a step that
  could overwrite a result; `Chain`, which carries the health of the engine and
  the hash it answered for from the slot over the report, the outcome and the
  entry to the history; `Saved`, the record on its way to the screen; and
  `ShownOrLoading`, the list on the screen or the load that will bring it.
  `HandleFits` needs that the slot holds one engine. Assumed: there is a
  checkpoint file name, and `Unusable` and `NoHash` are no hashes.

- `NicopediaTraining_proofs`: `TypeCorrect` and the four invariants of the run, for
  any configurations, names, steps, interval and batch; `ImplementsTrajectory`, the
  refinement of `DurableTrajectory`, and `InjectiveNamesKeepCheckpoints`, that no
  checkpoint is replaced by that of another configuration, when no two configurations
  share a name. `Inv` adds `CallInv` (what is in memory at each point of the call),
  `StopInv` (whether a step may still be in flight) and `SavedInv` (the file that
  telemetry is about to announce is there).
- `LanguageModelAdam_proofs`: `TypeCorrect`, `SelectedAlwaysWhole`,
  `DriftIsBounded` and `SuccessMeansComplete`, for any seeds, steps, schedule,
  tolerance and metrics. `IInv` joins `ControlInv` (how old the current states are at
  each point), `BestInv` (the best state is one of the trajectory), `FileInv` (what the
  files hold, also after a death) and `InferenceInv` (what was generated with, seed by
  seed). `TieChain` is the arithmetic of one link of a chain of ties.
  `SimulationIsTheSelection` (`SimulationAgrees`) says for every patience that the early
  stopping which the report simulates afterwards is this selection. `SimulationInv`
  follows the simulation over the trajectory as it grows: one that has not stopped has
  selected what the run has; one that has stopped keeps its selection, and so does the
  run unless it selects a step from there on.
- `QnnRuntime_proofs`: `TypeCorrect`, `HandlesDieWithContext`,
  `EachContextFreedOnce` and `ModesNeverMix`, for any number of contexts and graphs.
  `ContextInv` counts what was freed; `BuilderInv` relates the builder's state to the
  two training slots. Assumed, for `HandlesDieWithContext`: the library refuses to
  create a graph on a null context (`LibraryAssumption`). `elementwiseSquare` is left
  out by name, because the code leaves it out.
- `BytePairTraining_proofs`: all six invariants of the run, `TextNeverLost`
  (`TokensSpellText`), `QueueComplete` (`NoMergeMissed`), `QueueIsCanonical`
  (`EncodingIsCanonical`), `AnswerAsAsked` (`AnswerInContext`), `TrainerIsGreedy`
  (`GreedyChoice`) and `TrainerAndEncoderAgree` (`TrainerAgrees`), with
  `EncodingMaximal` (when `encode` ends nothing can be merged), for every model file,
  corpus, text, number of merges and answer limit.
  - The encoder. `ModelInv` is what parsing establishes; `EncoderInv` is the list:
    `ListTypes`, `Linked` (what follows is live, further right and linked back) and
    `Spelled` (each token spells its tile). `CanonicalInv` adds that what is left in
    the list still comes to what the text does: a merge takes the leftmost occurrence
    of the lowest rank, and `JoinMerged` says that joining all occurrences of a pair
    gives the same before and after one has been joined at the left, `JoinNone` that it
    changes nothing where there is none. `AnswerInv` keeps the window and the answer
    (`ContextShifts`).
  - The trainer's counts. `TrainerInv` says that the counts are what counting again
    would give and that every pair which the merge under way has not touched is in the
    heap with its count; then the foremost entry that is up to date is the greedy
    choice. `CountMerged` counts again around one merge: what is gone and what came are
    the only places at which a pair differs, overlaps and article ends included.
  - Trainer against encoder. `NotedInv` says that every place of a pair has been noted,
    in order, that nothing is noted of a token not made yet, and that what a merge has
    made lies behind its cursor: so the trainer takes its occurrences from left to
    right although it finds them in a list it never sorts. `Learned` carries this over
    a corpus: every article reads as its bytes joined merge by merge, a chain, and
    `CanonicalIsChain` and `ChainsMeet` make the encoder's tokens the end of the same
    chain.

How recursive definitions are proved about. The library's induction theorems take an
operator as a parameter, which no installed prover can instantiate. Both modules use
sets instead: a nonempty set of natural numbers has a least element (`LeastNat`, from
well-founded orders), and a claim that fails nowhere for the first time holds (`UpTo`, `DownTo`).
A recursive function is a `CHOOSE` in TLA+ and says nothing unless its equation has
a solution; `RecursionWellDefined` gives one whenever every value depends on values of
smaller rank only, and `FlattenExists`, `JoinExists` and `SimulationExists` apply it.

What these theorems assume is what the named assumptions say. That articles are not
empty is the trainer's check (`TRAIN_ARTICLE_LENGTH`); that a given file has as many
pairs as the model is the size check of `parseModel`.

Only model-checked: liveness (`StopEndsRun` at both levels, `RunEnds`,
`CancelEndsRun`, `GenerationEnds`), because the prover has neither `ENABLED` nor
fairness. Every other property of a passing run is stated by a theorem.

## 5. Not modelled

- Floating point: kernels, losses and gradients, the QNN graphs, reproducibility and
  numerical diagnostics (`N/qnn/qnn_reproducibility.cpp`, `qnn_transformer.cpp`,
  `qnn_mlp_training.cpp`, the graph builders). A model checker sees no difference
  between two numbers of theirs.
- `host_tests` but the tokenizer's: probes, audits and experiments, most of the C++
  in the repository, whose steps are numerical; they keep no state that anything else
  reads. Together with the kernels they are why the models cover a small share of all
  lines.
- The synthetic-task experiments of `training_engine.cpp`, `validateSeedSelection`,
  and the modes of `languageModelAdam` outside the formal protocol.
- The bytes of files: layouts, hashes, the cache of encoded windows. A torn file is a
  value of its own; a power loss that undoes a rename is not in the models (the native
  code calls no `fsync`).
- The benchmark view model's coalesced publication, notifications and the live-update
  service, activities and Compose UI: no state of a run depends on what they show.
- Repository selections (dataset token, configuration changes while a work is
  enqueued): the models have one configuration and dataset.
- Model configuration and timing: pure functions over one record.
- Scripts, published results and the WorkManager probe.
