------------------------- MODULE Generation_proofs -------------------------
(***************************************************************************)
(* For any number of checkpoint files, generations and events.             *)
(***************************************************************************)
EXTENDS Generation, SequenceTheorems, WellFoundedInduction, TLAPS

\* A set of paths that is not empty has a highest one.
LEMMA HighestType ==
  ASSUME NEW S \in SUBSET Paths
  PROVE  Highest(S) \in {0} \cup S
<1>1. CASE S = {}
  BY <1>1 DEF Highest
<1>2. CASE S # {}
  <2> DEFINE below == {NumPaths - p : p \in S}
  <2>1. below \subseteq Nat /\ below # {}
    <3>1. \A p \in S : NumPaths - p \in Nat
      BY PreparedEngineAssumption DEF Paths
    <3>2. PICK p \in S : TRUE
      BY <1>2
    <3>3. NumPaths - p \in below
      OBVIOUS
    <3> QED
      BY <3>1, <3>3
  <2>2. IsWellFoundedOn(OpToRel(<, Nat), Nat)
    BY NatLessThanWellFounded
  <2> HIDE DEF below
  <2>3. PICK m \in below : \A n \in below : ~(<<n, m>> \in OpToRel(<, Nat))
    BY <2>1, <2>2, WFMin
  <2>4. \A n \in below : m <= n
    <3>1. ASSUME NEW n \in below, n < m PROVE <<n, m>> \in OpToRel(<, Nat)
      <4>1. <<n, m>> \in Nat \X Nat /\ <<n, m>>[1] < <<n, m>>[2]
        BY <2>1, <3>1
      <4> QED
        BY <4>1 DEF OpToRel
    <3>2. \A n \in below : ~(n < m)
      BY <2>3, <3>1, Zenon
    <3> QED
      BY <2>1, <3>2
  <2>5. PICK p \in S : m = NumPaths - p
    BY DEF below
  <2>6. \A q \in S : q <= p
    <3> SUFFICES ASSUME NEW q \in S PROVE q <= p
      OBVIOUS
    <3>1. m <= NumPaths - q
      BY <2>4 DEF below
    <3> QED
      BY <3>1, <2>5, PreparedEngineAssumption DEF Paths
  <2> QED
    BY <1>2, <2>6 DEF Highest
<1> QED
  BY <1>1, <1>2

----------------------------------------------------------------------------
(* Types *)

\* The values of a process that has just started.
LEMMA StartTypes ==
  /\ NoRun \in Runs /\ NothingSeen \in [Paths -> Contents]
  /\ FailedReport \in Reports /\ NoOutcome \in Outcomes /\ NoEntry \in Records
  /\ State("Idle", 0) \in States
  /\ <<Job("refresh", 0), Job("load", 0)>> \in Seq(Jobs)
<1> USE PreparedEngineAssumption, GenerationAssumption
<1>1. NoRun \in Runs /\ NothingSeen \in [Paths -> Contents]
  BY DEF NoRun, Runs, NothingSeen, Paths, Contents
<1>2. FailedReport \in Reports
  BY DEF FailedReport, Report, Reports, Contents
<1>3. NoOutcome \in Outcomes /\ NoEntry \in Records
  BY <1>2 DEF NoOutcome, Outcomes, NoEntry, Records, Terminals, Contents
<1>4. State("Idle", 0) \in States
  BY DEF State, States
<1>5. Job("refresh", 0) \in Jobs /\ Job("load", 0) \in Jobs
  BY DEF Job, Jobs
<1> QED
  BY <1>1, <1>2, <1>3, <1>4, <1>5

\* A restart establishes the types of what it resets and keeps the others.
LEMMA RestartType == TypeOK /\ Restart /\ events' \in 0..MaxEvents => TypeOK'
<1> SUFFICES ASSUME TypeOK, Restart, events' \in 0..MaxEvents PROVE TypeOK'
  OBVIOUS
<1>1. /\ polling' \in [Generations -> BOOLEAN] /\ polled' \in [Generations -> 0..Nothing]
      /\ snapshot' \in 0..MaxGenerations
  BY GenerationAssumption DEF Restart, Nothing
<1>2. /\ files' \in [Paths -> Contents] /\ history' \subseteq Records
      /\ accepted' \in 0..MaxGenerations
  BY DEF TypeOK, Restart
<1> QED
  BY <1>1, <1>2, StartTypes DEF TypeOK, Restart, NoLocals, Pcs

\* Whatever is listed, what is selected is none or a file.
LEMMA CandidatesType ==
  TypeOK /\ withCheckpointCandidates
    => listed' \in [Paths -> Contents] /\ selected' \in {0} \cup Paths
<1> SUFFICES ASSUME TypeOK, withCheckpointCandidates
             PROVE  listed' \in [Paths -> Contents] /\ selected' \in {0} \cup Paths
  OBVIOUS
<1> DEFINE usable == {p \in Paths : seen[p] \in Hashes}
           pinned == {p \in Paths : seen[p] = required}
<1>1. Highest(usable) \in {0} \cup Paths /\ Highest(pinned) \in {0} \cup Paths
  BY HighestType
<1>2. selected' \in {Highest(usable), Highest(pinned), selected}
  BY DEF withCheckpointCandidates
<1> QED
  BY <1>1, <1>2 DEF TypeOK, withCheckpointCandidates

\* Every step keeps the types.
LEMMA TypeStep == TypeOK /\ [Next]_vars => TypeOK'
<1> SUFFICES ASSUME TypeOK, [Next]_vars PROVE TypeOK'
  OBVIOUS
<1> USE PreparedEngineAssumption, GenerationAssumption
<1>1. CASE RefreshCheckpoints
  BY <1>1 DEF TypeOK, RefreshCheckpoints, Count, Submit, Job, Jobs, Pcs,
     uiVars, localVars, pollVars, bounds, engineVars
<1>2. CASE \E p \in Paths : selectCheckpoint(p)
  BY <1>2 DEF TypeOK, selectCheckpoint, Pcs,
     uiVars, localVars, pollVars, bounds, engineVars
<1>3. CASE \E r \in shown : useHistoryAgain(r)
  <2>1. PICK r \in shown : useHistoryAgain(r)
    BY <1>3
  <2>2. selected' \in {0} \cup Paths
    BY <2>1, HighestType DEF useHistoryAgain
  <2> QED
    BY <2>1, <2>2 DEF TypeOK, useHistoryAgain, Records, uiVars, localVars, pollVars, bounds, engineVars
<1>4. CASE \E r \in shown : EditHistory(Job("delete", r.id))
  BY <1>4 DEF TypeOK, EditHistory, Count, Submit, Job, Jobs, Records,
     uiVars, localVars, pollVars, bounds, engineVars
<1>5. CASE EditHistory(Job("clear", 0))
  BY <1>5 DEF TypeOK, EditHistory, Count, Submit, Job, Jobs,
     uiVars, localVars, pollVars, bounds, engineVars
<1>6. CASE \E valid \in BOOLEAN : generate(valid)
  BY <1>6 DEF TypeOK, generate, Submit, Job, Jobs, Runs, State, States,
     uiVars, localVars, pollVars, bounds, engineVars
<1>7. CASE ListForRefresh
  BY <1>7, StartTypes DEF TypeOK, ListForRefresh, Take, List, Goto, Pcs,
     uiVars, localVars, pollVars, bounds, engineVars
<1>8. CASE ApplyRefresh
  BY <1>8, CandidatesType, StartTypes DEF TypeOK, ApplyRefresh, Goto, Pcs,
     uiVars, localVars, pollVars, bounds, engineVars
<1>9. CASE \E job \in Jobs : TakeHistoryJob(job)
  <2>1. PICK job \in Jobs : TakeHistoryJob(job)
    BY <1>9
  <2>2. history' \subseteq Records /\ failure' \in BOOLEAN
    BY <2>1 DEF TypeOK, TakeHistoryJob, Edited
  <2>3. queue' \in Seq(Jobs) /\ pc' \in Pcs
    BY <2>1 DEF TypeOK, TakeHistoryJob, Take, Goto, Pcs
  <2> QED
    BY <2>1, <2>2, <2>3 DEF TypeOK, TakeHistoryJob, engineVars, uiVars, pollVars, bounds
<1>10. CASE updateHistory
  BY <1>10 DEF TypeOK, updateHistory, Goto, Pcs,
     uiVars, localVars, pollVars, bounds, engineVars
<1>11. CASE BeginGenerate
  BY <1>11 DEF TypeOK, BeginGenerate, Take, State, States, Goto, Pcs,
     uiVars, localVars, pollVars, bounds, engineVars
<1>12. CASE validateCheckpoint
  BY <1>12, StartTypes DEF TypeOK, validateCheckpoint, FailsTo, Goto, Pcs,
     uiVars, localVars, pollVars, bounds, engineVars
<1>13. CASE Acquire
  <2>1. execution' \in States
    BY <1>13 DEF TypeOK, Acquire, onProgress, State, States
  <2>2. polling' \in [Generations -> BOOLEAN] /\ pc' \in Pcs
    BY <1>13 DEF TypeOK, Acquire, FailsTo, Goto, Pcs
  <2>3. report' \in Reports /\ outcome' \in Outcomes
    BY <1>13, StartTypes DEF TypeOK, Acquire, FailsTo
  <2> QED
    BY <1>13, <2>1, <2>2, <2>3 DEF TypeOK, Acquire, engineVars, bounds
<1>14. CASE Prepare
  <2>1. slot' \subseteq Engines /\ \A d, e \in slot' : d = e
    <3>1. CASE PrepareReuses(RunKey)
      BY <3>1 DEF TypeOK, PrepareReuses
    <3>2. CASE PrepareBuilds(RunKey)
      <4>1. RunKey.path \in Paths /\ files[RunKey.path] = RunKey.hash
            /\ files[RunKey.path] \in Hashes
        BY <3>2 DEF TypeOK, RunKey, Runs, PrepareBuilds
      <4>2. RunKey \in Keys /\ files[RunKey.path] \in Contents
        BY <4>1 DEF RunKey, Keys, Contents
      <4> QED
        BY <3>2, <4>2 DEF PrepareBuilds, Engines
    <3>3. CASE PrepareFails(RunKey)
      BY <3>3 DEF PrepareFails
    <3> QED
      BY <1>14, <3>1, <3>2, <3>3 DEF Prepare
  <2>2. report' \in Reports /\ outcome' \in Outcomes /\ pc' \in Pcs
    BY <1>14, StartTypes DEF TypeOK, Prepare, FailsTo, Goto, Pcs
  <2> QED
    BY <1>14, <2>1, <2>2 DEF TypeOK, Prepare, uiVars, pollVars, bounds
<1>15. CASE EnterNative
  BY <1>15, StartTypes DEF TypeOK, EnterNative, ReportIs, Goto, Pcs,
     uiVars, localVars, pollVars, bounds, engineVars
<1>16. CASE Revalidate
  BY <1>16, StartTypes DEF TypeOK, Revalidate, RevalidationOK, RevalidationFails, Poison, Ready, Engines, ReportIs, Goto, Pcs,
     uiVars, localVars, pollVars, bounds, engineVars
<1>17. CASE Loop
  <2>1. slot' \subseteq Engines /\ \A d, e \in slot' : d = e
    BY <1>17 DEF TypeOK, Loop, Executes, ExecuteFails, Ready, Engines
  <2>2. snapshot' \in 0..MaxGenerations
    BY <1>17 DEF TypeOK, Loop, Executes
  <2>3. report' \in Reports /\ pc' \in Pcs
    <3>1. \A garbled \in BOOLEAN : Report(FALSE, Unusable, garbled, FALSE) \in Reports
      BY DEF Report, Reports, Contents
    <3> QED
      BY <1>17, <3>1 DEF TypeOK, Loop, ReportIs, Goto, Pcs
  <2> QED
    BY <1>17, <2>1, <2>2, <2>3 DEF TypeOK, Loop, uiVars, pollVars, bounds
<1>18. CASE parseReport
  BY <1>18, StartTypes DEF TypeOK, parseReport, Outcomes, Terminals, Goto, Pcs,
     uiVars, localVars, pollVars, bounds, engineVars
<1>19. CASE ReleaseBackend
  BY <1>19 DEF TypeOK, ReleaseBackend, Goto, Pcs, Generations,
     uiVars, localVars, pollVars, bounds, engineVars
<1>20. CASE terminalHistoryRecord
  BY <1>20 DEF TypeOK, terminalHistoryRecord, Records, Outcomes, Reports, Runs, States, Goto, Pcs,
     uiVars, localVars, pollVars, bounds, engineVars
<1>21. CASE ParseThrows
  BY <1>21, RestartType DEF ParseThrows, TypeOK
<1>22. CASE insert
  BY <1>22 DEF TypeOK, insert, Goto, Pcs,
     uiVars, localVars, pollVars, bounds, engineVars
<1>23. CASE ListForTerminal
  BY <1>23, StartTypes DEF TypeOK, ListForTerminal, List, Goto, Pcs,
     uiVars, localVars, pollVars, bounds, engineVars
<1>24. CASE ShowTerminal
  BY <1>24, CandidatesType, StartTypes DEF TypeOK, ShowTerminal, State, States, Outcomes, Terminals, NoLocals, Goto, Pcs,
     uiVars, localVars, pollVars, bounds, engineVars
<1>25. CASE LoadThrows
  BY <1>25, RestartType DEF LoadThrows, TypeOK
<1>26. CASE \E g \in Generations : PollRead(g)
  BY <1>26 DEF TypeOK, PollRead, Nothing,
     uiVars, localVars, pollVars, bounds, engineVars
<1>27. CASE \E g \in Generations : PollDeliver(g)
  BY <1>27 DEF TypeOK, PollDeliver, onProgress, State, States, Nothing,
     uiVars, localVars, pollVars, bounds, engineVars
<1>28. CASE Crash
  BY <1>28, RestartType DEF Crash, Count, TypeOK
<1>29. CASE \E p \in Paths, content \in Contents : WriteCheckpoint(p, content)
  BY <1>29 DEF TypeOK, WriteCheckpoint, Count,
     uiVars, localVars, pollVars, bounds, engineVars
<1>30. CASE UNCHANGED vars
  BY <1>30 DEF TypeOK, vars, uiVars, localVars, pollVars, bounds, engineVars
<1> QED
  BY <1>1, <1>2, <1>3, <1>4, <1>5, <1>6, <1>7, <1>8, <1>9, <1>10, <1>11, <1>12, <1>13, <1>14, <1>15, <1>16, <1>17, <1>18, <1>19, <1>20, <1>21, <1>22, <1>23, <1>24, <1>25, <1>26, <1>27, <1>28, <1>29, <1>30
     DEF Next, User, ExecutorStep, Poller, World

LEMMA TypeInit == Init => TypeOK
<1> SUFFICES ASSUME Init PROVE TypeOK
  OBVIOUS
<1>1. /\ polling \in [Generations -> BOOLEAN] /\ polled \in [Generations -> 0..Nothing]
      /\ snapshot \in 0..MaxGenerations
  BY GenerationAssumption DEF Init, Started, Nothing
<1>2. 0 \in 0..MaxGenerations /\ 0 \in 0..MaxEvents
  BY GenerationAssumption
<1> QED
  BY <1>1, <1>2, StartTypes DEF TypeOK, Init, Started, Pcs

\* Every variable keeps its type, and the slot holds at most one engine.
THEOREM TypeCorrect == Spec => []TypeOK
  BY TypeInit, TypeStep, PTL DEF Spec

----------------------------------------------------------------------------
(* The state of a running generation *)

Busy == {"validate", "acquire", "prepare", "enter", "check", "loop", "parse",
         "finally", "settle", "insert", "list", "show"}

\* The executor has a generation only while one is shown as running; it has it
\* in its queue or in hand, and once.
OneGeneration ==
  /\ pc \in Busy => isRunning
  /\ \A i \in 1..Len(queue) :
       queue[i].op = "generate" =>
         /\ isRunning /\ pc \notin Busy
         /\ \A j \in 1..Len(queue) : queue[j].op = "generate" => i = j

\* What a success rests on, from the engine to the history.
Chain ==
  /\ \A e \in slot : e.failed => e.poisoned
  /\ report.ok => ~report.failed
  /\ outcome.kind = "Success" => ~outcome.report.failed
  /\ pc \in {"finally", "settle"} /\ outcome.kind = "Success"
       => outcome.report.hash = run.hash
  /\ entry.status = "Success" => entry.from = entry.hash /\ entry.healthy
  /\ SuccessIsSound

\* What the job of a generation holds on its way to the screen.
Saved ==
  /\ pc \in {"insert", "list", "show"} => entry.id = accepted /\ entry.status = outcome.kind
  /\ pc \in {"list", "show"} /\ ~failure => entry \in history

\* The list on the screen is the file's, or will be loaded, or says it is not.
Loading == \E i \in 1..Len(queue) : queue[i].op = "load"
ShownOrLoading ==
  pc \notin {"history", "list", "show"} /\ ~notice => shown = history \/ Loading

GenerationInv ==
  /\ TypeOK /\ OneGeneration /\ HandleFits /\ Chain
  /\ PinnedSelection /\ Saved /\ ShownOrLoading

\* A command other than a generation joins the queue.
LEMMA OneGenerationSubmit ==
  ASSUME TypeOK, OneGeneration, UNCHANGED <<pc, execution>>,
         NEW job \in Jobs, job.op # "generate", Submit(job)
  PROVE  OneGeneration'
<1>1. /\ Len(queue') = Len(queue) + 1 /\ Len(queue) \in Nat
      /\ \A i \in 1..Len(queue) : queue'[i] = queue[i]
      /\ queue'[Len(queue) + 1] = job
  BY AppendProperties, LenProperties DEF TypeOK, Submit
<1>2. \A i \in 1..Len(queue') :
        queue'[i].op = "generate" => i \in 1..Len(queue) /\ queue'[i] = queue[i]
  BY <1>1
<1> QED
  BY <1>2 DEF OneGeneration, isRunning

\* The job taken leaves the rest of the queue as it was.
LEMMA OneGenerationTake ==
  ASSUME TypeOK, NEW job, Take(job)
  PROVE  /\ queue[1] = job /\ 1 \in 1..Len(queue)
         /\ \A i \in 1..Len(queue') : i + 1 \in 1..Len(queue) /\ queue'[i] = queue[i + 1]
<1>1. queue \in Seq(Jobs) /\ queue # <<>> /\ queue' = Tail(queue)
  BY DEF TypeOK, Take
<1>2. /\ Len(queue') = Len(queue) - 1
      /\ \A i \in 1..Len(queue') : queue'[i] = queue[i + 1]
  BY <1>1, HeadTailProperties
<1>3. Len(queue) \in Nat \ {0} /\ Head(queue) = queue[1]
  BY <1>1
<1> QED
  BY <1>2, <1>3 DEF Take

\* Taking a job that is no generation leaves the generation in the queue, if any.
LEMMA OneGenerationNext ==
  ASSUME TypeOK, OneGeneration, NEW job, Take(job), pc' \notin Busy,
         execution' = execution
  PROVE  OneGeneration'
<1>1. \A i \in 1..Len(queue') : i + 1 \in 1..Len(queue) /\ queue'[i] = queue[i + 1]
  BY OneGenerationTake
<1>2. ASSUME NEW i \in 1..Len(queue'), queue'[i].op = "generate"
      PROVE  isRunning /\ \A j \in 1..Len(queue') : queue'[j].op = "generate" => i = j
  <2>1. i + 1 \in 1..Len(queue) /\ queue[i + 1].op = "generate"
    BY <1>1, <1>2
  <2>2. ASSUME NEW j \in 1..Len(queue'), queue'[j].op = "generate" PROVE i + 1 = j + 1
    BY <1>1, <2>1, <2>2 DEF OneGeneration
  <2> QED
    BY <2>1, <2>2 DEF OneGeneration
<1> QED
  BY <1>2 DEF OneGeneration, isRunning

\* Every step keeps the executor and the screen in agreement.
LEMMA OneGenerationStep ==
  TypeOK /\ OneGeneration /\ [Next]_vars => OneGeneration'
<1> SUFFICES ASSUME TypeOK, OneGeneration, [Next]_vars PROVE OneGeneration'
  OBVIOUS
<1>1. ASSUME UNCHANGED <<queue, pc>>, execution'.kind = execution.kind
      PROVE  OneGeneration'
  BY <1>1 DEF OneGeneration, isRunning
<1>2. ASSUME UNCHANGED queue, pc \in Busy, execution'.kind = execution.kind
      PROVE  OneGeneration'
  BY <1>2 DEF OneGeneration, isRunning
<1>3. ASSUME Restart PROVE OneGeneration'
  <2>1. /\ \A i \in 1..Len(queue') : queue'[i].op # "generate"
        /\ pc' \notin Busy
    BY <1>3 DEF Restart, Job, Busy
  <2> QED
    BY <2>1 DEF OneGeneration
<1>4. CASE RefreshCheckpoints
  BY <1>4, OneGenerationSubmit, GenerationAssumption DEF RefreshCheckpoints, Job, Jobs
<1>5. CASE \E r \in shown : EditHistory(Job("delete", r.id))
  BY <1>5, OneGenerationSubmit DEF TypeOK, EditHistory, Job, Jobs, Records, uiVars
<1>6. CASE EditHistory(Job("clear", 0))
  BY <1>6, OneGenerationSubmit, GenerationAssumption DEF EditHistory, Job, Jobs, uiVars
<1>7. CASE \E valid \in BOOLEAN : generate(valid)
  <2>1. PICK valid \in BOOLEAN : generate(valid)
    BY <1>7
  <2>2. /\ pc \notin Busy /\ pc' = pc
        /\ \A i \in 1..Len(queue) : queue[i].op # "generate"
    BY <2>1 DEF OneGeneration, generate
  <2>3. isRunning'
    BY <2>1 DEF generate, State, isRunning
  <2>4. Job("generate", accepted') \in Jobs
    BY <2>1, TypeStep, GenerationAssumption DEF TypeOK, generate, Job, Jobs
  <2>5. /\ Len(queue') = Len(queue) + 1 /\ Len(queue) \in Nat
        /\ \A i \in 1..Len(queue) : queue'[i] = queue[i]
    BY <2>1, <2>4, AppendProperties, LenProperties DEF TypeOK, generate, Submit
  <2>6. \A i \in 1..Len(queue') : queue'[i].op = "generate" => i = Len(queue) + 1
    BY <2>2, <2>5
  <2> QED
    BY <2>2, <2>3, <2>6 DEF OneGeneration
<1>8. CASE ListForRefresh
  <2>1. pc' \notin Busy /\ execution' = execution
    BY <1>8 DEF ListForRefresh, Goto, Busy, uiVars
  <2> QED
    BY <1>8, <2>1, OneGenerationNext DEF ListForRefresh
<1>9. CASE \E job \in Jobs : TakeHistoryJob(job)
  <2>1. pc' \notin Busy /\ execution' = execution
    BY <1>9 DEF TakeHistoryJob, Goto, Busy, uiVars
  <2> QED
    BY <1>9, <2>1, OneGenerationNext DEF TakeHistoryJob
<1>10. CASE BeginGenerate
  <2>1. isRunning'
    BY <1>10 DEF BeginGenerate, State, isRunning
  <2>2. Take(Job("generate", accepted))
    BY <1>10 DEF BeginGenerate
  <2>3. queue[1].op = "generate" /\ 1 \in 1..Len(queue)
    BY <2>2, OneGenerationTake DEF Job
  <2>4. \A i \in 1..Len(queue') : queue'[i].op # "generate"
    <3> SUFFICES ASSUME NEW i \in 1..Len(queue'), queue'[i].op = "generate"
                 PROVE  FALSE
      OBVIOUS
    <3>1. i + 1 \in 1..Len(queue) /\ queue[i + 1].op = "generate"
      BY <2>2, OneGenerationTake
    <3>2. 1 = i + 1
      BY <2>3, <3>1 DEF OneGeneration
    <3> QED
      BY <3>2
  <2> QED
    BY <2>1, <2>4 DEF OneGeneration
<1>11. CASE ApplyRefresh \/ updateHistory
  <2>1. UNCHANGED <<queue, execution>> /\ pc' \notin Busy /\ pc \notin Busy
    BY <1>11 DEF ApplyRefresh, updateHistory, Goto, Busy
  <2> QED
    BY <2>1 DEF OneGeneration, isRunning
<1>12. CASE Acquire
  <2>1. execution'.kind = execution.kind
    BY <1>12 DEF Acquire, onProgress, State, isRunning
  <2> QED
    BY <1>12, <1>2, <2>1 DEF Acquire, Busy
<1>13. CASE validateCheckpoint \/ Prepare \/ EnterNative \/ Revalidate \/ Loop
             \/ parseReport \/ ReleaseBackend \/ terminalHistoryRecord \/ insert
             \/ ListForTerminal
  <2>1. UNCHANGED <<queue, execution>> /\ pc \in Busy
    BY <1>13 DEF validateCheckpoint, Prepare, EnterNative, Revalidate, Loop,
       parseReport, ReleaseBackend, terminalHistoryRecord, insert,
       ListForTerminal, Busy, uiVars
  <2> QED
    BY <2>1, <1>2
<1>14. CASE ShowTerminal
  <2>1. pc \in Busy /\ UNCHANGED queue /\ pc' \notin Busy
    BY <1>14 DEF ShowTerminal, Goto, Busy
  <2> QED
    BY <2>1 DEF OneGeneration
<1>15. CASE ParseThrows \/ LoadThrows \/ Crash
  BY <1>15, <1>3 DEF ParseThrows, LoadThrows, Crash
<1>16. CASE \E g \in Generations : PollDeliver(g)
  <2>1. execution'.kind = execution.kind
    BY <1>16 DEF PollDeliver, onProgress, State, isRunning
  <2> QED
    BY <1>16, <2>1, <1>1 DEF PollDeliver
<1>17. CASE \/ \E p \in Paths : selectCheckpoint(p)
            \/ \E r \in shown : useHistoryAgain(r)
            \/ \E g \in Generations : PollRead(g)
            \/ \E p \in Paths, content \in Contents : WriteCheckpoint(p, content)
            \/ UNCHANGED vars
  BY <1>17, <1>1 DEF selectCheckpoint, useHistoryAgain, PollRead, WriteCheckpoint,
     vars, uiVars
<1> QED
  BY <1>4, <1>5, <1>6, <1>7, <1>8, <1>9, <1>10, <1>11, <1>12, <1>13, <1>14,
     <1>15, <1>16, <1>17
     DEF Next, User, ExecutorStep, Poller, World

----------------------------------------------------------------------------
(* The handle, and what a success rests on *)

\* Every step keeps the engine of the generation in the slot while it is used.
LEMMA HandleStep ==
  TypeOK /\ OneGeneration /\ HandleFits /\ [Next]_vars => HandleFits'
<1> SUFFICES ASSUME TypeOK, OneGeneration, HandleFits, [Next]_vars PROVE HandleFits'
  OBVIOUS
<1>1. ASSUME UNCHANGED <<slot, pc, run>> PROVE HandleFits'
  BY <1>1 DEF HandleFits, Ready, RunKey
<1>2. ASSUME pc' \notin {"enter", "check", "loop"} PROVE HandleFits'
  BY <1>2 DEF HandleFits
<1>3. CASE Prepare
  <2>1. CASE PrepareReuses(RunKey)
    BY <1>3, <2>1 DEF Prepare, PrepareReuses, Reusable, HandleFits, Ready, RunKey
  <2>2. CASE PrepareBuilds(RunKey)
    <3>1. \E e \in slot' : ~e.poisoned /\ e.key = RunKey
      BY <2>2 DEF PrepareBuilds
    <3> QED
      BY <1>3, <3>1 DEF Prepare, HandleFits, Ready, RunKey
  <2>3. CASE PrepareFails(RunKey) /\ FailsTo("finally")
    BY <2>3, <1>2 DEF FailsTo, Goto
  <2> QED
    BY <1>3, <2>1, <2>2, <2>3 DEF Prepare
<1>4. CASE EnterNative
  BY <1>4, <1>2 DEF EnterNative, ReportIs, Goto, HandleFits, Ready, RunKey
<1>5. CASE Revalidate
  BY <1>5, <1>2 DEF Revalidate, ReportIs, Goto, HandleFits, Ready, RunKey
<1>6. CASE Loop
  <2>1. CASE Executes(accepted) /\ UNCHANGED <<pc, report>>
    <3>1. PICK e \in Ready : slot' = {[e EXCEPT !.executed = TRUE]}
      BY <2>1 DEF Executes
    <3>2. e.key = RunKey /\ e \in Engines /\ ~e.poisoned
      BY <1>6, <3>1 DEF Loop, HandleFits, TypeOK, Ready
    <3>3. [e EXCEPT !.executed = TRUE].key = RunKey
            /\ ~[e EXCEPT !.executed = TRUE].poisoned
      BY <3>2 DEF Engines
    <3>4. \E d \in slot' : ~d.poisoned /\ d.key = RunKey
      BY <3>1, <3>3
    <3>5. RunKey' = RunKey
      BY <1>6 DEF Loop, RunKey
    <3> QED
      BY <3>4, <3>5 DEF HandleFits, Ready
  <2>2. CASE pc' = "parse"
    BY <2>2, <1>2
  <2> QED
    BY <1>6, <2>1, <2>2 DEF Loop, ReportIs, Goto
<1>7. CASE \E valid \in BOOLEAN : generate(valid)
  BY <1>7, <1>2 DEF generate, OneGeneration, Busy
<1>8. CASE \/ ListForRefresh \/ ApplyRefresh \/ updateHistory \/ BeginGenerate
           \/ validateCheckpoint \/ Acquire \/ parseReport \/ ReleaseBackend
           \/ terminalHistoryRecord \/ insert \/ ListForTerminal \/ ShowTerminal
           \/ ParseThrows \/ LoadThrows \/ Crash
           \/ \E job \in Jobs : TakeHistoryJob(job)
  <2>1. pc' \notin {"enter", "check", "loop"}
    BY <1>8 DEF ListForRefresh, ApplyRefresh, updateHistory, BeginGenerate,
       validateCheckpoint, Acquire, parseReport, ReleaseBackend,
       terminalHistoryRecord, insert, ListForTerminal, ShowTerminal,
       ParseThrows, LoadThrows, Crash, Restart, TakeHistoryJob, FailsTo, Goto
  <2> QED
    BY <2>1, <1>2
<1>9. CASE \/ RefreshCheckpoints
           \/ \E p \in Paths : selectCheckpoint(p)
           \/ \E r \in shown : useHistoryAgain(r) \/ EditHistory(Job("delete", r.id))
           \/ EditHistory(Job("clear", 0))
           \/ \E g \in Generations : PollRead(g) \/ PollDeliver(g)
           \/ \E p \in Paths, content \in Contents : WriteCheckpoint(p, content)
           \/ UNCHANGED vars
  BY <1>9, <1>1 DEF RefreshCheckpoints, selectCheckpoint, useHistoryAgain,
     EditHistory, PollRead, PollDeliver, WriteCheckpoint, vars, engineVars,
     localVars
<1> QED
  BY <1>3, <1>4, <1>5, <1>6, <1>7, <1>8, <1>9
     DEF Next, User, ExecutorStep, Poller, World

\* Every step keeps the chain from the engine to the history.
LEMMA ChainStep == TypeOK /\ OneGeneration /\ Chain /\ [Next]_vars => Chain'
<1> SUFFICES ASSUME TypeOK, OneGeneration, Chain, [Next]_vars PROVE Chain'
  OBVIOUS
<1> USE DEF Chain
<1>1. ASSUME UNCHANGED <<slot, report, outcome, entry, run, history>>,
             pc' \in {"finally", "settle"} => pc \in {"finally", "settle"}
      PROVE  Chain'
  BY <1>1 DEF SuccessIsSound
<1>2. ASSUME Restart PROVE Chain'
  BY <1>2 DEF Restart, NoLocals, FailedReport, Report, NoOutcome, NoEntry,
     SuccessIsSound
<1>3. CASE \E valid \in BOOLEAN : generate(valid)
  BY <1>3 DEF generate, OneGeneration, Busy, engineVars, SuccessIsSound
<1>4. CASE \E job \in Jobs : TakeHistoryJob(job)
  <2>1. PICK job \in Jobs : TakeHistoryJob(job)
    BY <1>4
  <2>2. history' \subseteq history
    BY <2>1 DEF TakeHistoryJob, Edited
  <2> QED
    BY <2>1, <2>2 DEF TakeHistoryJob, Goto, engineVars, SuccessIsSound
<1>5. CASE validateCheckpoint \/ Acquire
  BY <1>5 DEF validateCheckpoint, Acquire, FailsTo, Goto, NoOutcome, FailedReport,
     Report, engineVars, SuccessIsSound
<1>6. CASE Prepare
  BY <1>6 DEF Prepare, PrepareReuses, PrepareBuilds, PrepareFails, FailsTo, Goto,
     NoOutcome, FailedReport, Report, SuccessIsSound
<1>7. CASE EnterNative
  BY <1>7 DEF EnterNative, ReportIs, Goto, FailedReport, Report, SuccessIsSound
<1>8. CASE Revalidate
  BY <1>8 DEF Revalidate, RevalidationFails, Poison, Ready, ReportIs, Goto,
     FailedReport, Report, TypeOK, Engines, SuccessIsSound
<1>9. CASE Loop
  <2>1. \A e \in slot' : e.failed => e.poisoned
    BY <1>9 DEF Loop, Executes, ExecuteFails, Ready, TypeOK, Engines
  <2>2. report'.ok => ~report'.failed
    BY <1>9 DEF Loop, Answer, Ready, Report, ReportIs
  <2>3. UNCHANGED <<outcome, entry, run, history>> /\ pc' \in {"loop", "parse"}
    BY <1>9 DEF Loop, ReportIs, Goto
  <2> QED
    BY <2>1, <2>2, <2>3 DEF SuccessIsSound
<1>10. CASE parseReport
  BY <1>10 DEF parseReport, Goto, FailedReport, Report, engineVars, SuccessIsSound
<1>11. CASE terminalHistoryRecord
  BY <1>11 DEF terminalHistoryRecord, Goto, engineVars, SuccessIsSound
<1>12. CASE insert
  BY <1>12 DEF insert, Goto, engineVars, SuccessIsSound
<1>13. CASE ShowTerminal
  BY <1>13 DEF ShowTerminal, NoLocals, Goto, FailedReport, Report, NoOutcome,
     NoEntry, engineVars, SuccessIsSound
<1>14. CASE ParseThrows \/ LoadThrows \/ Crash
  BY <1>14, <1>2 DEF ParseThrows, LoadThrows, Crash
<1>15. CASE ListForRefresh \/ ApplyRefresh \/ updateHistory \/ BeginGenerate
             \/ ReleaseBackend \/ ListForTerminal
  BY <1>15, <1>1 DEF ListForRefresh, ApplyRefresh, updateHistory, BeginGenerate,
     ReleaseBackend, ListForTerminal, Goto, engineVars, localVars
<1>16. CASE \/ RefreshCheckpoints
            \/ \E p \in Paths : selectCheckpoint(p)
            \/ \E r \in shown : useHistoryAgain(r) \/ EditHistory(Job("delete", r.id))
            \/ EditHistory(Job("clear", 0))
            \/ \E g \in Generations : PollRead(g) \/ PollDeliver(g)
            \/ \E p \in Paths, content \in Contents : WriteCheckpoint(p, content)
            \/ UNCHANGED vars
  BY <1>16, <1>1 DEF RefreshCheckpoints, selectCheckpoint, useHistoryAgain,
     EditHistory, PollRead, PollDeliver, WriteCheckpoint, vars, engineVars,
     localVars
<1> QED
  BY <1>3, <1>4, <1>5, <1>6, <1>7, <1>8, <1>9, <1>10, <1>11, <1>12, <1>13,
     <1>14, <1>15, <1>16
     DEF Next, User, ExecutorStep, Poller, World

\* A terminal state that is replaced is replaced by the next generation.
LEMMA TerminalStep ==
  TypeOK /\ OneGeneration /\ [Next]_vars
    => (execution.kind \in Terminals /\ execution' # execution
          => accepted' # accepted \/ execution'.kind = "Idle")
<1> SUFFICES ASSUME TypeOK, OneGeneration, [Next]_vars,
                    execution.kind \in Terminals, execution' # execution
             PROVE  accepted' # accepted \/ execution'.kind = "Idle"
  OBVIOUS
<1>1. ~isRunning /\ pc \notin Busy /\ \A i \in 1..Len(queue) : queue[i].op # "generate"
  BY DEF isRunning, Terminals, OneGeneration
<1>2. ~Acquire /\ ~ShowTerminal
  BY <1>1 DEF Acquire, ShowTerminal, Busy
<1>3. ~BeginGenerate
  <2>1. SUFFICES ASSUME Take(Job("generate", accepted)) PROVE FALSE
    BY DEF BeginGenerate
  <2> QED
    BY <1>1, <2>1, OneGenerationTake DEF Job
<1>4. ~\E g \in Generations : PollDeliver(g)
  BY <1>1 DEF PollDeliver, onProgress
<1>5. CASE \E valid \in BOOLEAN : generate(valid)
  BY <1>5 DEF generate, TypeOK
<1>6. CASE ParseThrows \/ LoadThrows \/ Crash
  BY <1>6 DEF ParseThrows, LoadThrows, Crash, Restart, State
<1> QED
  BY <1>2, <1>3, <1>4, <1>5, <1>6
     DEF Next, User, ExecutorStep, Poller, World, RefreshCheckpoints,
     selectCheckpoint, useHistoryAgain, EditHistory, ListForRefresh, ApplyRefresh,
     TakeHistoryJob, updateHistory, validateCheckpoint, Prepare, EnterNative,
     Revalidate, Loop, parseReport, ReleaseBackend, terminalHistoryRecord, insert,
     ListForTerminal, PollRead, WriteCheckpoint, vars, uiVars

----------------------------------------------------------------------------
(* The pin, the record and the list *)

\* Every step keeps the pin.
LEMMA PinStep == TypeOK /\ PinnedSelection /\ [Next]_vars => PinnedSelection'
<1> SUFFICES ASSUME TypeOK, PinnedSelection, [Next]_vars PROVE PinnedSelection'
  OBVIOUS
<1>1. ASSUME UNCHANGED <<listed, selected, required>> PROVE PinnedSelection'
  BY <1>1 DEF PinnedSelection
<1>2. ASSUME withCheckpointCandidates, UNCHANGED required PROVE PinnedSelection'
  <2> DEFINE pinned == {p \in Paths : seen[p] = required}
  <2>1. Highest(pinned) \in {0} \cup pinned
    BY HighestType
  <2>2. required # NoHash => selected' = Highest(pinned)
    BY <1>2 DEF withCheckpointCandidates
  <2> QED
    BY <1>2, <2>1, <2>2 DEF PinnedSelection, withCheckpointCandidates
<1>3. CASE \E p \in Paths : selectCheckpoint(p)
  BY <1>3 DEF selectCheckpoint, PinnedSelection
<1>4. CASE \E r \in shown : useHistoryAgain(r)
  BY <1>4, HighestType DEF useHistoryAgain, PinnedSelection
<1>5. CASE ApplyRefresh \/ ShowTerminal
  BY <1>5, <1>2 DEF ApplyRefresh, ShowTerminal
<1>6. CASE ParseThrows \/ LoadThrows \/ Crash
  BY <1>6 DEF ParseThrows, LoadThrows, Crash, Restart, PinnedSelection
<1> QED
  BY <1>1, <1>3, <1>4, <1>5, <1>6
     DEF Next, User, ExecutorStep, Poller, World, RefreshCheckpoints, EditHistory,
     generate, ListForRefresh, TakeHistoryJob, updateHistory, BeginGenerate,
     validateCheckpoint, Acquire, Prepare, EnterNative, Revalidate, Loop,
     parseReport, ReleaseBackend, terminalHistoryRecord, insert, ListForTerminal,
     PollRead, PollDeliver, WriteCheckpoint, vars, uiVars

\* Every step keeps the record of the generation with it.
LEMMA SavedStep == TypeOK /\ OneGeneration /\ Saved /\ [Next]_vars => Saved'
<1> SUFFICES ASSUME TypeOK, OneGeneration, Saved, [Next]_vars PROVE Saved'
  OBVIOUS
<1>1. ASSUME UNCHANGED <<pc, entry, accepted, outcome, failure, history>> PROVE Saved'
  BY <1>1 DEF Saved
<1>2. ASSUME pc' \notin {"insert", "list", "show"} PROVE Saved'
  BY <1>2 DEF Saved
<1>3. CASE terminalHistoryRecord \/ insert \/ ListForTerminal
  BY <1>3 DEF terminalHistoryRecord, insert, ListForTerminal, Goto, Saved, bounds
<1>4. CASE \E valid \in BOOLEAN : generate(valid)
  BY <1>4, <1>2 DEF generate, OneGeneration, Busy
<1>5. CASE \/ ListForRefresh \/ ApplyRefresh \/ updateHistory \/ BeginGenerate
           \/ validateCheckpoint \/ Acquire \/ Prepare \/ EnterNative \/ Revalidate
           \/ Loop \/ parseReport \/ ReleaseBackend \/ ShowTerminal
           \/ ParseThrows \/ LoadThrows \/ Crash
           \/ \E job \in Jobs : TakeHistoryJob(job)
  <2>1. pc' \notin {"insert", "list", "show"}
    BY <1>5 DEF ListForRefresh, ApplyRefresh, updateHistory, BeginGenerate,
       validateCheckpoint, Acquire, Prepare, EnterNative, Revalidate, Loop,
       parseReport, ReleaseBackend, ShowTerminal, ParseThrows, LoadThrows, Crash,
       Restart, TakeHistoryJob, FailsTo, ReportIs, Goto
  <2> QED
    BY <2>1, <1>2
<1>6. CASE \/ RefreshCheckpoints
           \/ \E p \in Paths : selectCheckpoint(p)
           \/ \E r \in shown : useHistoryAgain(r) \/ EditHistory(Job("delete", r.id))
           \/ EditHistory(Job("clear", 0))
           \/ \E g \in Generations : PollRead(g) \/ PollDeliver(g)
           \/ \E p \in Paths, content \in Contents : WriteCheckpoint(p, content)
           \/ UNCHANGED vars
  BY <1>6, <1>1 DEF RefreshCheckpoints, selectCheckpoint, useHistoryAgain,
     EditHistory, PollRead, PollDeliver, WriteCheckpoint, vars, localVars, bounds
<1> QED
  BY <1>3, <1>4, <1>5, <1>6 DEF Next, User, ExecutorStep, Poller, World

\* A result that is shown is in the list with it, or the notice says it is not.
LEMMA RecordedStep ==
  TypeOK /\ OneGeneration /\ Saved /\ [Next]_vars
    => (isRunning /\ execution'.kind \in Terminals
          => notice' \/ \E r \in shown' : r.id = accepted /\ r.status = execution'.kind)
<1> SUFFICES ASSUME TypeOK, OneGeneration, Saved, [Next]_vars, isRunning,
                    execution'.kind \in Terminals
             PROVE  notice' \/ \E r \in shown' : r.id = accepted /\ r.status = execution'.kind
  OBVIOUS
<1>1. execution' # execution
  BY DEF isRunning, Terminals
<1>2. ~BeginGenerate /\ ~Acquire /\ ~\E valid \in BOOLEAN : generate(valid)
  BY DEF BeginGenerate, Acquire, onProgress, generate, State, Terminals, isRunning
<1>3. ~\E g \in Generations : PollDeliver(g)
  BY DEF PollDeliver, onProgress, State, Terminals, isRunning
<1>4. ~ParseThrows /\ ~LoadThrows /\ ~Crash
  BY DEF ParseThrows, LoadThrows, Crash, Restart, State, Terminals
<1>5. CASE ShowTerminal
  <2>1. execution'.kind = outcome.kind /\ shown' = history /\ notice' = failure
    BY <1>5 DEF ShowTerminal, State
  <2>2. failure \/ (entry \in history /\ entry.id = accepted /\ entry.status = outcome.kind)
    BY <1>5 DEF ShowTerminal, Saved
  <2> QED
    BY <2>1, <2>2
<1> QED
  BY <1>1, <1>2, <1>3, <1>4, <1>5
     DEF Next, User, ExecutorStep, Poller, World, RefreshCheckpoints,
     selectCheckpoint, useHistoryAgain, EditHistory, ListForRefresh, ApplyRefresh,
     TakeHistoryJob, updateHistory, validateCheckpoint, Prepare, EnterNative,
     Revalidate, Loop, parseReport, ReleaseBackend, terminalHistoryRecord, insert,
     ListForTerminal, PollRead, WriteCheckpoint, vars, uiVars

\* What is in the queue stays there while it grows, and while other jobs go.
LEMMA LoadingStays ==
  ASSUME TypeOK, Loading
  PROVE  /\ \A job \in Jobs : Submit(job) => Loading'
         /\ \A job : Take(job) /\ job.op # "load" => Loading'
<1>1. PICK i \in 1..Len(queue) : queue[i].op = "load"
  BY DEF Loading
<1>2. ASSUME NEW job \in Jobs, Submit(job) PROVE Loading'
  <2>1. i \in 1..Len(queue') /\ queue'[i] = queue[i]
    BY <1>2, AppendProperties, LenProperties DEF TypeOK, Submit
  <2> QED
    BY <1>1, <2>1 DEF Loading
<1>3. ASSUME NEW job, Take(job), job.op # "load" PROVE Loading'
  <2>1. queue[1] = job
    BY <1>3, OneGenerationTake
  <2>2. i # 1
    BY <1>1, <1>3, <2>1
  <2>3. /\ queue \in Seq(Jobs) /\ queue # <<>> /\ queue' = Tail(queue)
        /\ Len(queue) \in Nat
    BY <1>3, LenProperties DEF TypeOK, Take
  <2>4. /\ Len(queue') = Len(queue) - 1
        /\ \A j \in 1..Len(queue') : queue'[j] = queue[j + 1]
    BY <2>3, HeadTailProperties
  <2>5. i - 1 \in 1..Len(queue') /\ queue'[i - 1] = queue[i]
    BY <2>2, <2>3, <2>4
  <2> QED
    BY <1>1, <2>5 DEF Loading
<1> QED
  BY <1>2, <1>3

\* Every step keeps the list on the screen the file's.
LEMMA ShownStep ==
  TypeOK /\ OneGeneration /\ ShownOrLoading /\ [Next]_vars => ShownOrLoading'
<1> SUFFICES ASSUME TypeOK, OneGeneration, ShownOrLoading, [Next]_vars
             PROVE  ShownOrLoading'
  OBVIOUS
<1>1. ASSUME UNCHANGED <<shown, notice, history>>, Loading => Loading',
             pc \notin {"history", "list", "show"}
      PROVE  ShownOrLoading'
  BY <1>1 DEF ShownOrLoading
<1>2. ASSUME UNCHANGED <<shown, notice, history, queue, pc>> PROVE ShownOrLoading'
  BY <1>2 DEF ShownOrLoading, Loading
<1>3. ASSUME pc' \in {"history", "list", "show"} PROVE ShownOrLoading'
  BY <1>3 DEF ShownOrLoading
<1>4. ASSUME UNCHANGED <<shown, notice, history, pc>>,
             NEW job \in Jobs, Submit(job)
      PROVE  ShownOrLoading'
  BY <1>4, LoadingStays DEF ShownOrLoading
<1>5. CASE RefreshCheckpoints
  BY <1>5, <1>4, GenerationAssumption DEF RefreshCheckpoints, Job, Jobs
<1>6. CASE \E r \in shown : EditHistory(Job("delete", r.id))
  BY <1>6, <1>4 DEF TypeOK, EditHistory, Job, Jobs, Records, uiVars
<1>7. CASE EditHistory(Job("clear", 0))
  BY <1>7, <1>4, GenerationAssumption DEF EditHistory, Job, Jobs, uiVars
<1>8. CASE \E valid \in BOOLEAN : generate(valid)
  <2>1. PICK valid \in BOOLEAN : generate(valid)
    BY <1>8
  <2>2. Job("generate", accepted') \in Jobs
    BY <2>1, TypeStep, GenerationAssumption DEF TypeOK, generate, Job, Jobs
  <2> QED
    BY <2>1, <2>2, <1>4 DEF generate
<1>9. CASE ListForRefresh \/ BeginGenerate
  <2>1. PICK job \in {Job("refresh", 0), Job("generate", accepted)} : Take(job)
    BY <1>9 DEF ListForRefresh, BeginGenerate
  <2>2. Loading => Loading'
    BY <2>1, LoadingStays DEF Job
  <2>3. pc \notin {"history", "list", "show"} /\ UNCHANGED <<shown, notice, history>>
    BY <1>9 DEF ListForRefresh, BeginGenerate, Take, uiVars
  <2> QED
    BY <2>2, <2>3, <1>1
<1>10. CASE insert \/ ListForTerminal \/ \E job \in Jobs : TakeHistoryJob(job)
  BY <1>10, <1>3 DEF insert, ListForTerminal, TakeHistoryJob, Goto
<1>11. CASE updateHistory \/ ShowTerminal
  BY <1>11 DEF updateHistory, ShowTerminal, ShownOrLoading
<1>12. CASE ParseThrows \/ LoadThrows \/ Crash
  <2>1. Loading'
    BY <1>12 DEF ParseThrows, LoadThrows, Crash, Restart, Loading, Job
  <2> QED
    BY <2>1 DEF ShownOrLoading
<1>13. CASE ApplyRefresh \/ validateCheckpoint \/ Acquire \/ Prepare \/ EnterNative
             \/ Revalidate \/ Loop \/ parseReport \/ ReleaseBackend
             \/ terminalHistoryRecord
  <2>1. pc \notin {"history", "list", "show"} /\ UNCHANGED <<shown, notice, history, queue>>
    BY <1>13 DEF ApplyRefresh, validateCheckpoint, Acquire, Prepare, EnterNative,
       Revalidate, Loop, parseReport, ReleaseBackend, terminalHistoryRecord, uiVars
  <2> QED
    BY <2>1, <1>1 DEF Loading
<1>14. CASE \/ \E p \in Paths : selectCheckpoint(p)
            \/ \E r \in shown : useHistoryAgain(r)
            \/ \E g \in Generations : PollRead(g) \/ PollDeliver(g)
            \/ \E p \in Paths, content \in Contents : WriteCheckpoint(p, content)
            \/ UNCHANGED vars
  BY <1>14, <1>2 DEF selectCheckpoint, useHistoryAgain, PollRead, PollDeliver,
     WriteCheckpoint, vars, uiVars
<1> QED
  BY <1>5, <1>6, <1>7, <1>8, <1>9, <1>10, <1>11, <1>12, <1>13, <1>14
     DEF Next, User, ExecutorStep, Poller, World

----------------------------------------------------------------------------

LEMMA Invariant == Spec => []GenerationInv
<1>1. Init => GenerationInv
  <2> SUFFICES ASSUME Init PROVE GenerationInv
    OBVIOUS
  <2>1. OneGeneration
    BY DEF Init, Started, OneGeneration, Busy, Job
  <2>2. HandleFits /\ Chain
    BY DEF Init, Started, HandleFits, Chain, FailedReport, Report, NoOutcome,
       NoEntry, SuccessIsSound
  <2>3. PinnedSelection /\ Saved
    BY DEF Init, Started, PinnedSelection, Saved
  <2>4. ShownOrLoading
    BY DEF Init, Started, ShownOrLoading
  <2> QED
    BY <2>1, <2>2, <2>3, <2>4, TypeInit DEF GenerationInv
<1>2. GenerationInv /\ [Next]_vars => GenerationInv'
  BY TypeStep, OneGenerationStep, HandleStep, ChainStep, PinStep, SavedStep, ShownStep
     DEF GenerationInv
<1> QED
  BY <1>1, <1>2, PTL DEF Spec

\* When the run reaches the native code, the slot holds the healthy engine of the
\* accepted checkpoint.
THEOREM HandleAlwaysFits == Spec => []HandleFits
<1>1. GenerationInv => HandleFits
  BY DEF GenerationInv
<1> QED
  BY <1>1, Invariant, PTL

\* What the history calls a success was computed with the parameters it names, by
\* an engine that had never failed.
THEOREM SuccessSound == Spec => []SuccessIsSound
<1>1. GenerationInv => SuccessIsSound
  BY DEF GenerationInv, Chain
<1> QED
  BY <1>1, Invariant, PTL

\* A result on the screen stays until the next generation or the end of the process.
THEOREM ResultStays == Spec => TerminalSticks
<1>1. GenerationInv /\ [Next]_vars
        => [execution.kind \in Terminals /\ execution' # execution
              => accepted' # accepted \/ execution'.kind = "Idle"]_vars
  BY TerminalStep DEF GenerationInv
<1> QED
  BY <1>1, Invariant, PTL DEF Spec, TerminalSticks

\* A generation repeated from the history keeps its checkpoint.
THEOREM PinHolds == Spec => []PinnedSelection
<1>1. GenerationInv => PinnedSelection
  BY DEF GenerationInv
<1> QED
  BY <1>1, Invariant, PTL

\* A result appears together with its record, or with a notice.
THEOREM ResultRecorded == Spec => RecordedWhenShown
<1>1. GenerationInv /\ [Next]_vars
        => [isRunning /\ execution'.kind \in Terminals
              => notice' \/ \E r \in shown' : r.id = accepted /\ r.status = execution'.kind]_vars
  BY RecordedStep DEF GenerationInv
<1> QED
  BY <1>1, Invariant, PTL DEF Spec, RecordedWhenShown

\* With nothing to do and no notice, the list on the screen is the file's.
THEOREM ListIsStored == Spec => []ShownIsStored
<1>1. GenerationInv => ShownIsStored
  BY DEF GenerationInv, ShownOrLoading, ShownIsStored, Loading
<1> QED
  BY <1>1, Invariant, PTL
=============================================================================
