----------------------------- MODULE Generation -----------------------------
(***************************************************************************)
(* GenerationSession.kt: the state the user sees, the single executor      *)
(* thread behind it, the native backend with its progress poller, and the  *)
(* history file (GenerationHistory.kt), over the prepared engine.          *)
(* Abstracted: the fields of a request (a request can be recorded or not,  *)
(* as the history checks more than the request does); texts, timing and    *)
(* counters; which history entry is open.                                  *)
(***************************************************************************)
EXTENDS PreparedEngine, Sequences

CONSTANTS NoHash,          \* requiredCheckpointHash = null
          MaxGenerations,  \* bound: accepted generations
          MaxEvents,       \* bound: refreshes, history commands, changes of
                           \* checkpoint files and deaths of the process
          StorageFails     \* BOOLEAN: the history file may be unavailable

Generations == 1..MaxGenerations

ASSUME GenerationAssumption ==
  /\ NoHash \notin Contents
  /\ MaxGenerations \in Nat /\ MaxEvents \in Nat
  /\ StorageFails \in BOOLEAN

VARIABLES
  listed, selected, required,  \* checkpoints, selectedCheckpointPath, pin
  refreshing,                  \* checkpointRefreshInFlight
  execution,                   \* GenerationUiState.execution
  shown, notice,               \* history.items; history.message # null
  history,                     \* the records in the history file
  queue, pc,                   \* the executor and where its thread is
  run, seen, report, outcome, entry, failure,  \* locals of its job
  polling, polled,             \* pollers, and what each has read
  accepted, events             \* what has been used up of the bounds

uiVars   == <<listed, selected, required, refreshing, execution, shown, notice>>
localVars == <<run, seen, report, outcome, entry, failure>>
pollVars == <<polling, polled>>
bounds   == <<accepted, events>>
vars == <<engineVars, uiVars, history, queue, pc, localVars, pollVars, bounds>>

Nothing   == MaxGenerations + 1    \* a poller that holds no snapshot
Terminals == {"Success", "Failed"}
States    == [kind : {"Idle", "Running"} \cup Terminals, bytes : 0..MaxGenerations]
State(kind, bytes) == [kind |-> kind, bytes |-> bytes]
isRunning == execution.kind = "Running"

\* AcceptedGenerationRun; valid: GenerationHistory's validate accepts it.
Runs     == [path : Paths, hash : Contents, valid : BOOLEAN]
Outcomes == [kind : Terminals, report : Reports]
\* from, bytes: whose parameters answered and whose bytes are stored; healthy:
\* the engine that answered had never failed.
Records == [id : 0..MaxGenerations, hash : Contents, status : Terminals,
            from : Contents, bytes : 0..MaxGenerations, healthy : BOOLEAN]
Jobs == [op : {"refresh", "generate", "load", "clear", "delete"},
         id : 0..MaxGenerations]
Job(op, id) == [op |-> op, id |-> id]

NoRun       == [path |-> 1, hash |-> Unusable, valid |-> FALSE]
NothingSeen == [p \in Paths |-> Unusable]
NoOutcome   == [kind |-> "Failed", report |-> FailedReport]
NoEntry     == [id |-> 0, hash |-> Unusable, status |-> "Failed",
                from |-> Unusable, bytes |-> 0, healthy |-> TRUE]

\* The process starts: the session lists the checkpoints and the history.
Started ==
  /\ listed = NothingSeen /\ selected = 0 /\ required = NoHash
  /\ refreshing = TRUE
  /\ execution = State("Idle", 0) /\ shown = {} /\ notice = FALSE
  /\ queue = <<Job("refresh", 0), Job("load", 0)>> /\ pc = "idle"
  /\ run = NoRun /\ seen = NothingSeen /\ report = FailedReport
  /\ outcome = NoOutcome /\ entry = NoEntry /\ failure = FALSE
  /\ polling = [g \in Generations |-> FALSE]
  /\ polled = [g \in Generations |-> Nothing]
  /\ slot = {} /\ snapshot = 0

Init ==
  /\ files \in [Paths -> Contents] /\ Started /\ history = {}
  /\ accepted = 0 /\ events = 0

\* The locals of a job go with it.
NoLocals ==
  /\ run' = NoRun /\ seen' = NothingSeen /\ report' = FailedReport
  /\ outcome' = NoOutcome /\ entry' = NoEntry /\ failure' = FALSE

Goto(at)    == pc' = at
Count       == events < MaxEvents /\ events' = events + 1
Submit(job) == queue' = Append(queue, job)

\* The process starts anew: what it keeps is on disk, and the counters,
\* which are not the program's.
Restart ==
  /\ listed' = NothingSeen /\ selected' = 0 /\ required' = NoHash
  /\ refreshing' = TRUE
  /\ execution' = State("Idle", 0) /\ shown' = {} /\ notice' = FALSE
  /\ queue' = <<Job("refresh", 0), Job("load", 0)>> /\ pc' = "idle"
  /\ NoLocals
  /\ polling' = [g \in Generations |-> FALSE]
  /\ polled' = [g \in Generations |-> Nothing]
  /\ slot' = {} /\ snapshot' = 0
  /\ UNCHANGED <<files, history, accepted>>

----------------------------------------------------------------------------
(* The user, under the state lock *)

Highest(S) == IF S = {} THEN 0 ELSE CHOOSE p \in S : \A q \in S : q <= p

RefreshCheckpoints ==
  /\ ~refreshing /\ ~isRunning /\ Count
  /\ refreshing' = TRUE
  /\ Submit(Job("refresh", 0))
  /\ UNCHANGED <<engineVars, listed, selected, required, execution, shown,
                 notice, history, pc, localVars, pollVars, accepted>>

selectCheckpoint(p) ==
  /\ listed[p] \in Hashes
  /\ selected' = p /\ required' = NoHash
  /\ UNCHANGED <<engineVars, listed, refreshing, execution, shown, notice,
                 history, queue, pc, localVars, pollVars, bounds>>

\* Use again: the original checkpoint, or none.
useHistoryAgain(r) ==
  /\ required' = r.hash
  /\ selected' = Highest({p \in Paths : listed[p] = r.hash})
  /\ UNCHANGED <<engineVars, listed, refreshing, execution, shown, notice,
                 history, queue, pc, localVars, pollVars, bounds>>

EditHistory(job) ==
  /\ Count /\ Submit(job)
  /\ UNCHANGED <<engineVars, uiVars, history, pc, localVars, pollVars, accepted>>

\* Training is not active and the request is well formed.
generate(valid) ==
  /\ selected # 0 /\ listed[selected] \in Hashes /\ ~isRunning
  /\ accepted < MaxGenerations /\ accepted' = accepted + 1
  /\ run' = [path |-> selected, hash |-> listed[selected], valid |-> valid]
  /\ execution' = State("Running", 0)
  /\ Submit(Job("generate", accepted'))
  /\ UNCHANGED <<engineVars, listed, selected, required, refreshing, shown,
                 notice, history, pc, seen, report, outcome, entry, failure,
                 pollVars, events>>
----------------------------------------------------------------------------
(* The executor thread *)

Take(job) ==
  /\ pc = "idle" /\ queue # <<>> /\ Head(queue) = job /\ queue' = Tail(queue)

\* listCheckpoints; a failure counts as an empty list.
List == seen' \in {files, NothingSeen}

\* Mutant: a pinned checkpoint that is gone is replaced by the default one.
withCheckpointCandidatesOrDefault ==
  LET usable == {p \in Paths : seen[p] \in Hashes}
      pinned == {p \in usable : seen[p] = required}
  IN /\ listed' = seen
     /\ selected' =
          IF pinned # {} THEN Highest(pinned)
          ELSE IF selected \in usable THEN selected ELSE Highest(usable)

\* withCheckpointCandidates: the pinned checkpoint or none; else the selected
\* one while it is usable, else the newest usable one.
withCheckpointCandidates ==
  LET usable == {p \in Paths : seen[p] \in Hashes}
  IN /\ listed' = seen
     /\ selected' =
          IF required # NoHash THEN Highest({p \in Paths : seen[p] = required})
          ELSE IF selected \in usable THEN selected ELSE Highest(usable)

ListForRefresh ==
  /\ Take(Job("refresh", 0)) /\ List /\ Goto("refresh")
  /\ UNCHANGED <<engineVars, uiVars, history, run, report, outcome, entry,
                 failure, pollVars, bounds>>

ApplyRefresh ==
  /\ pc = "refresh" /\ withCheckpointCandidates /\ refreshing' = FALSE
  /\ seen' = NothingSeen /\ Goto("idle")
  /\ UNCHANGED <<engineVars, required, execution, shown, notice, history,
                 queue, run, report, outcome, entry, failure, pollVars, bounds>>

\* load, clear or delete; the file may be unavailable.
Edited(job) ==
  CASE job.op = "clear"  -> {}
    [] job.op = "delete" -> {r \in history : r.id # job.id}
    [] OTHER             -> history

TakeHistoryJob(job) ==
  /\ job.op \in {"load", "clear", "delete"} /\ Take(job)
  /\ \/ history' = Edited(job) /\ failure' = FALSE
     \/ StorageFails /\ job.op # "load" /\ history' = history /\ failure' = TRUE
  /\ Goto("history")
  /\ UNCHANGED <<engineVars, uiVars, run, seen, report, outcome, entry,
                 pollVars, bounds>>

\* Mutant: a failed load is not reported.
updateHistoryQuietly ==
  /\ pc = "history" /\ Goto("idle")
  /\ \/ shown' = history /\ notice' = failure
     \/ StorageFails /\ shown' = shown /\ notice' = failure
  /\ failure' = FALSE
  /\ UNCHANGED <<engineVars, listed, selected, required, refreshing, execution,
                 history, queue, run, seen, report, outcome, entry, pollVars,
                 bounds>>

updateHistory ==
  /\ pc = "history" /\ Goto("idle")
  /\ \/ shown' = history /\ notice' = failure
     \/ StorageFails /\ shown' = shown /\ notice' = TRUE
  /\ failure' = FALSE
  /\ UNCHANGED <<engineVars, listed, selected, required, refreshing, execution,
                 history, queue, run, seen, report, outcome, entry, pollVars,
                 bounds>>

BeginGenerate ==
  /\ Take(Job("generate", accepted))
  /\ execution' = State("Running", 0) /\ Goto("validate")
  /\ UNCHANGED <<engineVars, listed, selected, required, refreshing, shown,
                 notice, history, localVars, pollVars, bounds>>

\* An exception on the way to the report ends the generation.
FailsTo(at) == outcome' = NoOutcome /\ Goto(at) /\ UNCHANGED report

\* Mutant: a checkpoint that does not validate is dropped without a result.
validateCheckpointDrops ==
  /\ pc = "validate"
  /\ \/ files[run.path] = run.hash /\ Goto("acquire") /\ UNCHANGED <<report, outcome>>
     \/ files[run.path] # run.hash /\ FailsTo("idle")
  /\ UNCHANGED <<engineVars, uiVars, history, queue, run, seen, entry, failure,
                 pollVars, bounds>>

validateCheckpoint ==
  /\ pc = "validate"
  /\ \/ files[run.path] = run.hash /\ Goto("acquire") /\ UNCHANGED <<report, outcome>>
     \/ files[run.path] # run.hash /\ FailsTo("settle")
  /\ UNCHANGED <<engineVars, uiVars, history, queue, run, seen, entry, failure,
                 pollVars, bounds>>

\* Mutant: progress is shown whatever the state.
onProgressAlways(bytes) == execution' = State("Running", bytes)

onProgress(bytes) ==
  execution' = IF isRunning THEN State("Running", bytes) ELSE execution

\* Checks, tryAcquire and staging of the prompt; any of them may fail.
Acquire ==
  /\ pc = "acquire"
  /\ \/ /\ onProgress(0) /\ polling' = [polling EXCEPT ![accepted] = TRUE]
        /\ Goto("prepare") /\ UNCHANGED <<report, outcome>>
     \/ UNCHANGED <<execution, polling>> /\ FailsTo("settle")
  /\ UNCHANGED <<engineVars, listed, selected, required, refreshing, shown,
                 notice, history, queue, run, seen, entry, failure, polled,
                 bounds>>

RunKey == [path |-> run.path, hash |-> run.hash]

Prepare ==
  /\ pc = "prepare"
  /\ \/ /\ PrepareReuses(RunKey) \/ PrepareBuilds(RunKey)
        /\ Goto("enter") /\ UNCHANGED <<report, outcome>>
     \/ PrepareFails(RunKey) /\ FailsTo("finally")
  /\ UNCHANGED <<files, snapshot, uiVars, history, queue, run, seen, entry,
                 failure, pollVars, bounds>>

ReportIs(r) == report' = r /\ Goto("parse")

\* resetGenerationProgress comes before the guard, which another thread may hold.
EnterNative ==
  /\ pc = "enter" /\ snapshot' = 0
  /\ \/ Goto("check") /\ UNCHANGED report
     \/ ReportIs(FailedReport)
  /\ UNCHANGED <<files, slot, uiVars, history, queue, run, seen, outcome, entry,
                 failure, pollVars, bounds>>

\* The prompt file may be gone by now, which poisons nothing.
Revalidate ==
  /\ pc = "check"
  /\ \/ RevalidationOK /\ Goto("loop") /\ UNCHANGED <<slot, report>>
     \/ RevalidationOK /\ ReportIs(FailedReport) /\ UNCHANGED slot
     \/ RevalidationFails /\ ReportIs(FailedReport)
  /\ UNCHANGED <<files, snapshot, uiVars, history, queue, run, seen, outcome,
                 entry, failure, pollVars, bounds>>

Loop ==
  /\ pc = "loop"
  /\ \/ Executes(accepted) /\ UNCHANGED <<pc, report>>
     \/ /\ \E garbled \in BOOLEAN :
             /\ ExecuteFails(garbled)
             /\ ReportIs(Report(FALSE, Unusable, garbled, FALSE))
        /\ UNCHANGED snapshot
     \/ (\E r \in Reports : Answer(r) /\ ReportIs(r)) /\ UNCHANGED <<slot, snapshot>>
  /\ UNCHANGED <<files, uiVars, history, queue, run, seen, outcome, entry,
                 failure, pollVars, bounds>>

\* parseReport: a success counts only with the identity that was asked for.
parseReport ==
  /\ pc = "parse" /\ Goto("finally")
  /\ outcome' =
       [kind |-> IF report.ok /\ ~report.garbled /\ report.hash = run.hash
                   THEN "Success" ELSE "Failed",
        report |-> report]
  /\ report' = FailedReport
  /\ UNCHANGED <<engineVars, uiVars, history, queue, run, seen, entry, failure,
                 pollVars, bounds>>

\* shutdownNow does not wait for a poll in progress.
ReleaseBackend ==
  /\ pc = "finally" /\ Goto("settle")
  /\ polling' = [polling EXCEPT ![accepted] = FALSE]
  /\ UNCHANGED <<engineVars, uiVars, history, queue, localVars, polled, bounds>>

\* terminalHistoryRecord. The report of a failure is parsed again, outside any
\* catch: a garbled one throws, and an uncaught exception ends the process.
terminalHistoryRecord ==
  /\ pc = "settle" /\ ~outcome.report.garbled /\ Goto("insert")
  /\ entry' =
       [id |-> accepted, hash |-> run.hash, status |-> outcome.kind,
        from |-> outcome.report.hash,
        bytes |-> IF outcome.kind = "Success" THEN accepted ELSE execution.bytes,
        healthy |-> ~outcome.report.failed]
  /\ UNCHANGED <<engineVars, uiVars, history, queue, run, seen, report, outcome,
                 failure, pollVars, bounds>>

ParseThrows ==
  /\ pc = "settle" /\ outcome.report.garbled
  /\ Restart /\ UNCHANGED events

\* Mutant: the exception of insert is swallowed.
insertQuietly ==
  /\ pc = "insert" /\ Goto("list")
  /\ \/ run.valid /\ history' = history \cup {entry}
     \/ (~run.valid \/ StorageFails) /\ history' = history
  /\ failure' = FALSE
  /\ UNCHANGED <<engineVars, uiVars, queue, run, seen, report, outcome, entry,
                 pollVars, bounds>>

insert ==
  /\ pc = "insert" /\ Goto("list")
  /\ \/ run.valid /\ history' = history \cup {entry} /\ failure' = FALSE
     \/ (~run.valid \/ StorageFails) /\ history' = history /\ failure' = TRUE
  /\ UNCHANGED <<engineVars, uiVars, queue, run, seen, report, outcome, entry,
                 pollVars, bounds>>

ListForTerminal ==
  /\ pc = "list" /\ List /\ Goto("show")
  /\ UNCHANGED <<engineVars, uiVars, history, queue, run, report, outcome,
                 entry, failure, pollVars, bounds>>

ShowTerminal ==
  /\ pc = "show" /\ Goto("idle")
  /\ withCheckpointCandidates
  /\ execution' = State(outcome.kind, 0)
  /\ shown' = history /\ notice' = failure
  /\ NoLocals
  /\ UNCHANGED <<engineVars, required, refreshing, history, queue, pollVars,
                 bounds>>

\* loadHistoryItems is outside any catch as well.
LoadThrows ==
  /\ pc = "show" /\ StorageFails
  /\ Restart /\ UNCHANGED events

----------------------------------------------------------------------------
(* The progress poller of a generation, and the world around the process *)

PollRead(g) ==
  /\ polling[g] /\ polled[g] = Nothing
  /\ polled' = [polled EXCEPT ![g] = snapshot]
  /\ UNCHANGED <<engineVars, uiVars, history, queue, pc, localVars, polling,
                 bounds>>

\* Also after ReleaseBackend, when the poll was in progress.
PollDeliver(g) ==
  /\ polled[g] # Nothing
  /\ polled' = [polled EXCEPT ![g] = Nothing] /\ onProgress(polled[g])
  /\ UNCHANGED <<engineVars, listed, selected, required, refreshing, shown,
                 notice, history, queue, pc, localVars, polling, bounds>>

\* Training, an import or a debug command replaces or removes a file.
WriteCheckpoint(p, content) ==
  /\ content # files[p] /\ Count
  /\ files' = [files EXCEPT ![p] = content]
  /\ UNCHANGED <<slot, snapshot, uiVars, history, queue, pc, localVars,
                 pollVars, accepted>>

Crash == Count /\ Restart

----------------------------------------------------------------------------
User ==
  \/ RefreshCheckpoints
  \/ \E p \in Paths : selectCheckpoint(p)
  \/ \E r \in shown : useHistoryAgain(r) \/ EditHistory(Job("delete", r.id))
  \/ EditHistory(Job("clear", 0))
  \/ \E valid \in BOOLEAN : generate(valid)

ExecutorStep ==
  \/ ListForRefresh \/ ApplyRefresh
  \/ (\E job \in Jobs : TakeHistoryJob(job)) \/ updateHistory
  \/ BeginGenerate \/ validateCheckpoint \/ Acquire \/ Prepare \/ EnterNative
  \/ Revalidate \/ Loop \/ parseReport \/ ReleaseBackend
  \/ terminalHistoryRecord \/ ParseThrows \/ insert \/ ListForTerminal
  \/ ShowTerminal \/ LoadThrows

Poller == \E g \in Generations : PollRead(g) \/ PollDeliver(g)

World == Crash \/ \E p \in Paths, content \in Contents : WriteCheckpoint(p, content)

Next == User \/ ExecutorStep \/ Poller \/ World

Spec     == Init /\ [][Next]_vars
FairSpec == Spec /\ WF_vars(ExecutorStep)

----------------------------------------------------------------------------
(* Properties *)

Pcs == {"idle", "refresh", "history", "validate", "acquire", "prepare", "enter",
        "check", "loop", "parse", "finally", "settle", "insert", "list", "show"}

\* Every variable keeps its type; the slot holds at most one engine.
TypeOK ==
  /\ files \in [Paths -> Contents] /\ snapshot \in 0..MaxGenerations
  /\ slot \subseteq Engines /\ \A d, e \in slot : d = e
  /\ listed \in [Paths -> Contents] /\ selected \in {0} \cup Paths
  /\ required \in Contents \cup {NoHash} /\ refreshing \in BOOLEAN
  /\ execution \in States /\ shown \subseteq Records /\ notice \in BOOLEAN
  /\ history \subseteq Records /\ queue \in Seq(Jobs) /\ pc \in Pcs
  /\ run \in Runs /\ seen \in [Paths -> Contents] /\ report \in Reports
  /\ outcome \in Outcomes /\ entry \in Records /\ failure \in BOOLEAN
  /\ polling \in [Generations -> BOOLEAN]
  /\ polled \in [Generations -> 0..Nothing]
  /\ accepted \in 0..MaxGenerations /\ events \in 0..MaxEvents

\* A generation repeated from the history never changes to another checkpoint
\* behind the user's back: while the pin holds, what is selected has its hash,
\* however often the list is refreshed (GenerationSession.kt:429).
PinnedSelection ==
  required # NoHash /\ selected # 0 => listed[selected] = required

\* The handle of a prepare still fits when the run reaches the native code: the
\* slot holds the healthy engine of the accepted checkpoint, so the rejections
\* of a stale or poisoned handle are never met (qnn_prepared_generation.cpp:188).
HandleFits ==
  pc \in {"enter", "check", "loop"} => \E e \in Ready : e.key = RunKey

\* What the history calls a success was computed with the checkpoint the record
\* names, by an engine that had never failed before.
SuccessIsSound ==
  \A r \in history : r.status = "Success" => r.from = r.hash /\ r.healthy

\* A result on the screen stays until the next generation is accepted: a late
\* progress poll cannot bring a finished generation back to running.
TerminalSticks ==
  [][execution.kind \in Terminals /\ execution' # execution
       => accepted' # accepted \/ execution'.kind = "Idle"]_vars

\* A result appears together with its record in the list, or with a notice that
\* it could not be stored.
RecordedWhenShown ==
  [][isRunning /\ execution'.kind \in Terminals
       => notice' \/ \E r \in shown' : r.id = accepted /\ r.status = execution'.kind]_vars

\* When the executor has nothing to do and no notice is shown, the list on the
\* screen is what the history file holds.  A failure of the file is taken to
\* carry a message: one without would show no notice (lines 319 and 352).
ShownIsStored ==
  pc = "idle" /\ queue = <<>> /\ ~notice => shown = history

\* An accepted generation ends: in a result, or with the process.
GenerationEnds == isRunning ~> ~isRunning

\* GenerationSessionTest.kt:120 and :145 say that a failure of the backend
\* becomes the failed state and is saved: no accepted generation disappears.
FailureBecomesFailed ==
  [][isRunning /\ execution'.kind # "Running" => execution'.kind \in Terminals]_vars
=============================================================================
