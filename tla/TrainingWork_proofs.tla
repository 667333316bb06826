------------------------- MODULE TrainingWork_proofs -------------------------
(***************************************************************************)
(* For any number of works, attempts, process deaths and steps: the record *)
(* names only checkpoints that are indexed, a worker that waits for the    *)
(* end of a run is told of it, and an attempt starts its work from scratch *)
(* only while the work has saved nothing.                                  *)
(***************************************************************************)
EXTENDS TrainingWork, TLAPS, FiniteSetTheorems, WellFoundedInduction

-----------------------------------------------------------------------------
(* The index: whatever names a checkpoint names one that is in it.         *)

Named(c) == c = NoCheckpoint \/ c \in store
IndexInv ==
  /\ Named(record.ckpt) /\ Named(session.ckpt) /\ Named(ui.ckpt)
  /\ \A a \in Attempts :
       /\ Named(prior[a].ckpt) /\ Named(heard[a].ckpt)
       /\ updates[a] # Empty => Named(updates[a].ckpt)

-----------------------------------------------------------------------------
(* The delivery: between two runs nobody waits without having been told.   *)

Told(a) == updates[a] # Empty /\ updates[a].phase \in Terminal
TrainerInv ==
  /\ trainer = "running" => active /\ ~queued
  /\ queued => active
  /\ trainer # "idle" => session.phase # "IDLE"
  /\ trainer = "notifying" /\ ~active => ui.phase \in Terminal
EveryoneTold ==
  ~active /\ trainer = "idle" =>
    \A a \in Attempts :
      /\ pc[a] = "looping" => Told(a)
      /\ pc[a] = "reporting" => heard[a].phase \in Terminal \/ Told(a)
DeliveryInv == TrainerInv /\ EveryoneTold

-----------------------------------------------------------------------------
(* The works: one attempt at a time counts, and what it marked is its own. *)

Marked(a) == pc[a] \in {"marked", "subscribing", "subscribed"}
Created == \A w \in Works : work[w] # "NONE" <=> w <= record.work
Jobs ==
  \A a \in Attempts :
    /\ job[a] = 0 <=> pc[a] \in {"off", "ended"}
    /\ job[a] <= record.work
    /\ job[a] # 0 /\ ~cancelled[a] => work[job[a]] = "RUNNING" /\ record.work = job[a]
Sole ==
  \A a, b \in Attempts : a # b /\ job[a] = job[b] /\ job[a] # 0 =>
    /\ cancelled[a] \/ cancelled[b]
    /\ ~(Beginning(a) /\ Beginning(b))
WorkInv == Created /\ Jobs /\ Sole

-----------------------------------------------------------------------------
(* The births: no checkpoint is older than its work.                       *)

Born ==
  /\ session.work <= record.work
  /\ \A c \in store : c.work <= c.born /\ c.born <= record.work

\* No run of w has begun.
Untouched(w) == session.work # w /\ \A c \in store : c.work # w
FirstStart ==
  /\ record.work # 0 /\ ~record.started => Untouched(record.work)
  /\ \A a \in Attempts : Marked(a) =>
       /\ job[a] = record.work => record.started
       /\ ~cancelled[a] => prior[a].work = job[a]
       /\ ~cancelled[a] /\ ~prior[a].started => Untouched(job[a])
BirthInv == Born /\ FirstStart

IInv == TypeOK /\ IndexInv /\ DeliveryInv /\ WorkInv /\ BirthInv

-----------------------------------------------------------------------------
(* The checkpoint a catalogue yields.                                      *)

LEMMA LeastNat ==
  ASSUME NEW T \in SUBSET Nat, T # {}
  PROVE  \E m \in T : \A k \in T : m <= k
<1>1. PICK m \in T : \A k \in T : <<k, m>> \notin OpToRel(<, Nat)
  BY WFMin, NatLessThanWellFounded, Zenon
<1>2. \A k \in T : ~(k < m)
  BY <1>1, Zenon DEF OpToRel
<1> QED
  BY <1>2

\* TrainingCheckpointCatalog always finds one, whatever is indexed.
LEMMA NewestIsIn ==
  ASSUME NEW S \in SUBSET Checkpoints, S # {}
  PROVE  Newest(S) \in S
<1> USE TrainingWorkAssumption DEF Checkpoints
<1> DEFINE ToGo == {Total - c.step : c \in S}
<1>1. ToGo \in SUBSET Nat /\ ToGo # {}
  OBVIOUS
<1>2. PICK g \in ToGo : \A h \in ToGo : g <= h
  BY <1>1, LeastNat
<1> DEFINE Furthest == {c \in S : Total - c.step = g}
           Ages == {MaxWorks - c.born : c \in Furthest}
<1>3. Ages \in SUBSET Nat /\ Ages # {}
  BY <1>2
<1>4. PICK y \in Ages : \A z \in Ages : y <= z
  BY <1>3, LeastNat
<1>5. PICK c \in Furthest : MaxWorks - c.born = y
  BY <1>4
<1>6. \A d \in S : d.step < c.step \/ (d.step = c.step /\ d.born <= c.born)
  <2> SUFFICES ASSUME NEW d \in S, ~(d.step < c.step)
               PROVE  d.step = c.step /\ d.born <= c.born
    OBVIOUS
  <2>1. /\ d.step \in 1..Total /\ c.step \in 1..Total
        /\ d.born \in 0..MaxWorks /\ c.born \in 0..MaxWorks
    BY <1>5
  <2>2. Total - c.step <= Total - d.step
    BY <1>2, <1>5
  <2>3. d.step = c.step
    BY <2>1, <2>2
  <2>4. MaxWorks - c.born <= MaxWorks - d.born
    <3>1. d \in Furthest
      BY <1>5, <2>3
    <3> QED
      BY <1>4, <1>5, <3>1
  <2> QED
    BY <2>1, <2>3, <2>4
<1> QED
  BY <1>5, <1>6 DEF Newest

\* What is shown for a state names its checkpoint or an indexed one.
LEMMA ShownState ==
  ASSUME NEW st \in SUBSET Checkpoints, NEW s,
         s.phase \in {"IDLE"} \cup activePhases \cup Terminal,
         s.ckpt \in Checkpoints \cup {NoCheckpoint}
  PROVE  /\ ToUiState(s, st) \in UiStates
         /\ ToUiState(s, st).phase = s.phase
         /\ ToUiState(s, st).ckpt \in {s.ckpt, NoCheckpoint} \cup st
<1> DEFINE c == IF s.ckpt # NoCheckpoint THEN s.ckpt
                ELSE IF Resumable(st) THEN Newest(st) ELSE NoCheckpoint
<1>1. c \in {s.ckpt, NoCheckpoint} \cup st
  BY NewestIsIn DEF Resumable
<1>2. ToUiState(s, st) = [phase |-> s.phase, ckpt |-> c]
  BY DEF ToUiState
<1> QED
  BY <1>1, <1>2 DEF UiStates

-----------------------------------------------------------------------------
(* Types.                                                                  *)

WorkStates == {"NONE", "ENQUEUED", "RUNNING"} \cup Finished
Pcs == {"off", "foreground", "marked", "subscribing", "subscribed", "looping", "reporting",
        "cancelling", "recording", "ended"}
Sessions == [phase : {"IDLE"} \cup activePhases \cup Terminal, step : 0..Total,
             ckpt : Checkpoints \cup {NoCheckpoint}, work : 0..MaxWorks]

LEMMA NothingYet ==
  /\ NoRecord \in Records /\ NoUi \in UiStates /\ Idle \in Sessions
  /\ \A w \in 0..MaxWorks : Create(w) \in Records
BY TrainingWorkAssumption DEF NoRecord, Records, NoUi, UiStates, Idle, Sessions, Create

LEMMA CountCreated ==
  ASSUME TypeOK, Created
  PROVE  created = record.work
<1>1. record.work \in 0..MaxWorks
  BY DEF TypeOK, Records
<1>2. {w \in Works : work[w] # "NONE"} = 1..record.work
  BY <1>1, TrainingWorkAssumption DEF Created, Works
<1>3. Cardinality(1..record.work) = record.work
  BY <1>1, FS_Interval, TrainingWorkAssumption
<1> QED
  BY <1>2, <1>3 DEF created

\* Leaving clears the locals of the coroutine and nothing else.
LEMMA LeaveType ==
  ASSUME TypeOK, NEW a \in Attempts, Leave(a)
  PROVE  /\ pc' \in [Attempts -> Pcs]
         /\ job' \in [Attempts -> 0..MaxWorks] /\ prior' \in [Attempts -> Records]
         /\ heard' \in [Attempts -> UiStates]
         /\ updates' \in [Attempts -> UiStates \cup {Empty}]
         /\ cancelled' \in [Attempts -> BOOLEAN]
BY NothingYet, TrainingWorkAssumption DEF TypeOK, Leave, Goto, Pcs

LEMMA ReturnType ==
  ASSUME TypeOK, NEW a \in Attempts, NEW result \in WorkStates, Return(a, result)
  PROVE  work' \in [Works -> WorkStates] /\ Leave(a)
BY DEF TypeOK, Return, WorkStates

LEMMA UpdatedType ==
  ASSUME record \in Records, NEW u, u.ckpt \in Checkpoints \cup {NoCheckpoint}
  PROVE  /\ Updated(u) \in Records
         /\ Updated(u).work = record.work /\ Updated(u).started = record.started
         /\ Updated(u).ckpt \in {u.ckpt, record.ckpt}
BY DEF Updated, Records

\* The state after any step has the types the code declares.
LEMMA TypeStep ==
  ASSUME TypeOK, Created, [Next]_vars
  PROVE  TypeOK'
<1> USE TrainingWorkAssumption, NothingYet
<1>a. ASSUME NEW m \in {"FRESH", "RESUME"}, Start(m) PROVE TypeOK'
  <2>1. created + 1 \in Works /\ created + 1 \in 0..MaxWorks
    <3>1. record.work \in 0..MaxWorks
      BY DEF TypeOK, Records
    <3> QED
      BY <1>a, <3>1, CountCreated DEF Start, Works
  <2>2. work' \in [Works -> WorkStates] /\ mode' \in [Works -> {"FRESH", "RESUME"}]
    BY <1>a, <2>1 DEF Start, TypeOK, WorkStates
  <2>3. record' \in Records
    BY <1>a, <2>1 DEF Start
  <2> QED
    BY <1>a, <2>2, <2>3 DEF Start, TypeOK, WorkStates, workerVars, sessionVars, trainerVars
<1>b. ASSUME NEW as \in WorkStates, EndWork(as), stopAsked' \in BOOLEAN PROVE TypeOK'
  <2>1. work' \in [Works -> WorkStates]
    BY <1>b DEF EndWork, TypeOK, WorkStates
  <2>2. cancelled' \in [Attempts -> BOOLEAN]
    BY <1>b DEF EndWork, TypeOK
  <2>3. UNCHANGED <<mode, record, store, crashes, pc, job, prior, heard, updates, queued,
                    session, trainer, ui>>
    BY <1>b DEF EndWork, trainerVars
  <2> QED
    BY <1>b, <2>1, <2>2, <2>3 DEF TypeOK, WorkStates
<1>c. CASE Cancel \/ Stop \/ SystemStop
  BY <1>b, <1>c DEF Cancel, Stop, SystemStop, WorkStates, Finished, TypeOK, active
<1>d. CASE Crash
  <2>1. work' \in [Works -> WorkStates] /\ pc' \in [Attempts -> Pcs]
    BY <1>d DEF Crash, TypeOK, WorkStates, Pcs
  <2>2. crashes' \in 0..MaxCrashes
    BY <1>d DEF Crash, TypeOK
  <2>3. /\ job' \in [Attempts -> 0..MaxWorks] /\ prior' \in [Attempts -> Records]
        /\ heard' \in [Attempts -> UiStates]
        /\ updates' \in [Attempts -> UiStates \cup {Empty}]
        /\ cancelled' \in [Attempts -> BOOLEAN]
    BY <1>d DEF Crash
  <2> QED
    BY <1>d, <2>1, <2>2, <2>3 DEF Crash, TypeOK, WorkStates, Pcs, Sessions
<1>e. ASSUME NEW a \in Attempts, BeginAttempt(a) PROVE TypeOK'
  <2>1. PICK w \in Works : work' = [work EXCEPT ![w] = "RUNNING"] /\ job' = [job EXCEPT ![a] = w]
    BY <1>e DEF BeginAttempt
  <2>2. work' \in [Works -> WorkStates] /\ job' \in [Attempts -> 0..MaxWorks]
    BY <2>1 DEF TypeOK, WorkStates, Works
  <2>3. pc' \in [Attempts -> Pcs]
    BY <1>e DEF BeginAttempt, Goto, TypeOK, Pcs
  <2> QED
    BY <1>e, <2>2, <2>3 DEF BeginAttempt, TypeOK, WorkStates, Pcs, sessionVars, trainerVars
<1>f. ASSUME NEW a \in Attempts, MarkExecutionStarted(a) PROVE TypeOK'
  <2>1. pc' \in [Attempts -> Pcs] /\ prior' \in [Attempts -> Records]
    BY <1>f DEF MarkExecutionStarted, Goto, TypeOK, Pcs
  <2>2. record' \in Records
    BY <1>f DEF MarkExecutionStarted, TypeOK, Records
  <2> QED
    BY <1>f, <2>1, <2>2 DEF MarkExecutionStarted, TypeOK, Pcs, sessionVars, trainerVars
<1>g. ASSUME NEW a \in Attempts, Subscribe(a) \/ DeliverFirst(a) \/ Attach(a) PROVE TypeOK'
  <2>1. ToUiState(session, store) \in UiStates
    BY ShownState DEF TypeOK
  <2>2. /\ pc' \in [Attempts -> Pcs] /\ prior' \in [Attempts -> Records]
        /\ heard' \in [Attempts -> UiStates]
        /\ updates' \in [Attempts -> UiStates \cup {Empty}]
    BY <1>g, <2>1 DEF Subscribe, DeliverFirst, Attach, Goto, TypeOK, Pcs
  <2> QED
    BY <1>g, <2>2 DEF Subscribe, DeliverFirst, Attach, TypeOK, Pcs, durableVars, sessionVars,
       trainerVars
<1>h. ASSUME NEW a \in Attempts, Refuse(a) \/ Report(a) \/ Throw(a) \/ CancelEarly(a)
      PROVE  TypeOK'
  <2>1. CASE Leave(a)
    <3>1. work' \in [Works -> WorkStates]
      BY <1>h, ReturnType
         DEF Refuse, Report, Throw, CancelEarly, WorkStates, Finished, TypeOK, durableVars
    <3> QED
      BY <1>h, <2>1, <3>1, LeaveType
         DEF Refuse, Report, Throw, CancelEarly, TypeOK, WorkStates, Pcs, durableVars,
             sessionVars, trainerVars
  <2>2. CASE ~Leave(a)
    <3>1. Report(a) /\ heard[a].phase \notin Terminal
      BY <1>h, <2>2 DEF Refuse, Report, Throw, CancelEarly, Return
    <3>2. pc' \in [Attempts -> Pcs] /\ heard' \in [Attempts -> UiStates]
      BY <3>1 DEF Report, Goto, TypeOK, Pcs
    <3> QED
      BY <3>1, <3>2 DEF Report, TypeOK, Pcs, sessionVars, trainerVars
  <2> QED
    BY <2>1, <2>2
<1>i. ASSUME NEW a \in Attempts, StartRun(a) PROVE TypeOK'
  <2>1. Candidates(a) \in SUBSET Checkpoints
    BY DEF Candidates, TypeOK
  <2>2. session' \in Sessions
    <3>1. job[a] \in 0..MaxWorks
      BY DEF TypeOK
    <3>2. Candidates(a) # {} => Newest(Candidates(a)).step \in 0..Total
      BY <2>1, NewestIsIn DEF Checkpoints
    <3> QED
      BY <1>i, <3>1, <3>2 DEF StartRun, Preparing, Sessions, activePhases
  <2>3. ToUiState(session', store) \in UiStates
    BY <2>2, ShownState DEF Sessions, TypeOK
  <2>4. /\ pc' \in [Attempts -> Pcs] /\ prior' \in [Attempts -> Records]
        /\ heard' \in [Attempts -> UiStates]
        /\ updates' \in [Attempts -> UiStates \cup {Empty}]
    BY <1>i, <2>3 DEF StartRun, Conflate, Goto, TypeOK, Pcs
  <2> QED
    BY <1>i, <2>2, <2>4 DEF StartRun, TypeOK, Pcs, Sessions, durableVars, trainerVars
<1>j. ASSUME NEW a \in Attempts, Receive(a) PROVE TypeOK'
  <2>1. updates[a] \in UiStates
    BY <1>j DEF Receive, TypeOK
  <2>2. record' \in Records
    BY <1>j, <2>1, UpdatedType DEF Receive, TypeOK, UiStates
  <2>3. /\ pc' \in [Attempts -> Pcs] /\ heard' \in [Attempts -> UiStates]
        /\ updates' \in [Attempts -> UiStates \cup {Empty}]
    BY <1>j, <2>1 DEF Receive, Goto, TypeOK, Pcs
  <2> QED
    BY <1>j, <2>2, <2>3 DEF Receive, TypeOK, Pcs, sessionVars, trainerVars
<1>k. ASSUME NEW a \in Attempts, CancelRun(a) \/ PollTerminal(a) PROVE TypeOK'
  <2>1. /\ pc' \in [Attempts -> Pcs] /\ heard' \in [Attempts -> UiStates]
        /\ updates' \in [Attempts -> UiStates \cup {Empty}]
    BY <1>k DEF CancelRun, PollTerminal, Goto, TypeOK, Pcs
  <2>2. stopAsked' \in BOOLEAN
    BY <1>k DEF CancelRun, PollTerminal, TypeOK, active, sessionVars
  <2> QED
    BY <1>k, <2>1, <2>2 DEF CancelRun, PollTerminal, TypeOK, Pcs, durableVars, sessionVars,
       trainerVars
<1>l. ASSUME NEW a \in Attempts, RecordCancelled(a) PROVE TypeOK'
  <2>1. ToUiState(session, store).ckpt \in Checkpoints \cup {NoCheckpoint}
    BY ShownState DEF TypeOK
  <2>2. record' \in Records
    BY <1>l, <2>1, UpdatedType DEF RecordCancelled, TypeOK
  <2> QED
    BY <1>l, <2>2, LeaveType DEF RecordCancelled, TypeOK, Pcs, sessionVars, trainerVars
<1>m. CASE Execute
  BY <1>m DEF Execute, TypeOK, durableVars, workerVars
<1>n. CASE ReadUi
  <2>1. ToUiState(session, store) \in UiStates
    BY ShownState DEF TypeOK
  <2> QED
    BY <1>n, <2>1 DEF ReadUi, TypeOK, durableVars, workerVars, sessionVars
<1>o. CASE NotifyListeners
  <2>1. updates' \in [Attempts -> UiStates \cup {Empty}]
    BY <1>o DEF NotifyListeners, Conflate, TypeOK
  <2> QED
    BY <1>o, <2>1 DEF NotifyListeners, TypeOK, durableVars, sessionVars
<1>p. CASE Progress
  <2>1. session \in Sessions
    BY DEF TypeOK, Sessions
  <2>2. session.step < Total => Saved \in Checkpoints
    BY <2>1 DEF Saved, Checkpoints, Sessions, TypeOK, Records
  <2>3. store' \subseteq Checkpoints
    BY <1>p, <2>2 DEF Progress, TypeOK
  <2>4. session.step < Total => session.step + 1 \in 0..Total
    BY <2>1 DEF Sessions
  <2>5. \A step \in 0..Total, ckpt \in Checkpoints \cup {NoCheckpoint} :
          /\ [session EXCEPT !.phase = "TRAINING", !.step = step] \in Sessions
          /\ [session EXCEPT !.phase = "TRAINING", !.step = step, !.ckpt = ckpt] \in Sessions
    BY <2>1 DEF Sessions, activePhases
  <2>6. session' \in Sessions
    BY <1>p, <2>2, <2>4, <2>5 DEF Progress
  <2> QED
    BY <1>p, <2>3, <2>6 DEF Progress, TypeOK, Sessions, workerVars
<1>q. CASE RunEnds
  <2>1. session' \in Sessions
    BY <1>q DEF RunEnds, Sessions, TypeOK, Terminal
  <2> QED
    BY <1>q, <2>1 DEF RunEnds, TypeOK, Sessions, durableVars, workerVars
<1>r. CASE UNCHANGED vars
  BY <1>r DEF vars, durableVars, workerVars, sessionVars, trainerVars, TypeOK
<1> QED
  BY <1>a, <1>c, <1>d, <1>e, <1>f, <1>g, <1>h, <1>i, <1>j, <1>k, <1>l, <1>m, <1>n, <1>o,
     <1>p, <1>q, <1>r DEF Next, WorkerStep, TrainerStep

-----------------------------------------------------------------------------
(* The index is never behind what names its checkpoints.                   *)

LEMMA ShownIsNamed ==
  ASSUME TypeOK, NEW s \in Sessions, Named(s.ckpt)
  PROVE  Named(ToUiState(s, store).ckpt)
<1>1. ToUiState(s, store).ckpt \in {s.ckpt, NoCheckpoint} \cup store
  BY ShownState DEF TypeOK, Sessions
<1> QED
  BY <1>1 DEF Named

LEMMA IndexStep ==
  ASSUME TypeOK, TypeOK', IndexInv, [Next]_vars
  PROVE  IndexInv'
<1> USE DEF Named
<1>1. Named(NoRecord.ckpt) /\ Named(NoUi.ckpt) /\ Named(Idle.ckpt)
  BY DEF NoRecord, NoUi, Idle
<1>2. Named(ToUiState(session, store).ckpt)
  BY ShownIsNamed DEF IndexInv, TypeOK, Sessions
<1>a. ASSUME NEW m \in {"FRESH", "RESUME"}, Start(m) PROVE IndexInv'
  BY <1>a DEF Start, Create, IndexInv, workerVars, sessionVars, trainerVars
<1>b. CASE Cancel \/ Stop \/ SystemStop
  BY <1>b DEF Cancel, Stop, SystemStop, EndWork, IndexInv, trainerVars
<1>c. CASE Crash
  BY <1>1, <1>c DEF Crash, IndexInv
<1>d. ASSUME NEW a \in Attempts, BeginAttempt(a) PROVE IndexInv'
  BY <1>d DEF BeginAttempt, IndexInv, sessionVars, trainerVars
<1>e. ASSUME NEW a \in Attempts, MarkExecutionStarted(a) PROVE IndexInv'
  BY <1>e DEF MarkExecutionStarted, IndexInv, TypeOK, Records, sessionVars, trainerVars
<1>f. ASSUME NEW a \in Attempts, Subscribe(a) \/ DeliverFirst(a) \/ Attach(a) PROVE IndexInv'
  <2>1. UNCHANGED <<record, store, session, ui>>
    BY <1>f DEF Subscribe, DeliverFirst, Attach, durableVars, sessionVars, trainerVars
  <2>2. \A b \in Attempts : Named(prior'[b].ckpt)
    BY <1>1, <1>f DEF Subscribe, DeliverFirst, Attach, IndexInv, TypeOK
  <2>3. \A b \in Attempts : Named(heard'[b].ckpt)
    BY <1>1, <1>2, <1>f DEF Subscribe, DeliverFirst, Attach, IndexInv, TypeOK
  <2>4. \A b \in Attempts : updates'[b] # Empty => Named(updates'[b].ckpt)
    BY <1>f DEF Subscribe, DeliverFirst, Attach, IndexInv, TypeOK
  <2> QED
    BY <2>1, <2>2, <2>3, <2>4 DEF IndexInv
<1>g. ASSUME NEW a \in Attempts, Leave(a), Named(record'.ckpt),
             UNCHANGED <<store, session, ui>>
      PROVE  IndexInv'
  BY <1>1, <1>g DEF Leave, IndexInv, TypeOK
<1>h. ASSUME NEW a \in Attempts, Refuse(a) \/ Report(a) \/ Throw(a) \/ CancelEarly(a)
      PROVE  IndexInv'
  <2>1. UNCHANGED <<record, store, session, ui>>
    BY <1>h DEF Refuse, Report, Throw, CancelEarly, durableVars, sessionVars, trainerVars
  <2>2. CASE Leave(a)
    BY <1>g, <2>1, <2>2 DEF IndexInv
  <2>3. CASE ~Leave(a)
    <3>1. UNCHANGED <<prior, updates>> /\ heard' = [heard EXCEPT ![a] = NoUi]
      BY <1>h, <2>3 DEF Refuse, Report, Throw, CancelEarly, Return
    <3> QED
      BY <1>1, <2>1, <3>1 DEF IndexInv, TypeOK
  <2> QED
    BY <2>2, <2>3
<1>i. ASSUME NEW a \in Attempts, StartRun(a) PROVE IndexInv'
  <2>1. session' \in Sessions /\ session'.ckpt = NoCheckpoint
    BY <1>i DEF StartRun, Preparing, TypeOK, Sessions
  <2>2. Named(ToUiState(session', store).ckpt)
    BY <2>1, ShownIsNamed
  <2> QED
    BY <1>1, <1>i, <2>1, <2>2
       DEF StartRun, Conflate, IndexInv, TypeOK, durableVars, trainerVars
<1>j. ASSUME NEW a \in Attempts, Receive(a) PROVE IndexInv'
  <2>1. Named(Updated(updates[a]).ckpt)
    BY <1>j, UpdatedType DEF Receive, IndexInv, TypeOK, UiStates
  <2> QED
    BY <1>j, <2>1 DEF Receive, IndexInv, TypeOK, sessionVars, trainerVars
<1>k. ASSUME NEW a \in Attempts, CancelRun(a) \/ PollTerminal(a) PROVE IndexInv'
  <2>1. UNCHANGED <<record, store, session, ui, prior>>
    BY <1>k DEF CancelRun, PollTerminal, durableVars, sessionVars, trainerVars
  <2> QED
    BY <1>1, <1>k, <2>1 DEF CancelRun, PollTerminal, IndexInv, TypeOK
<1>l. ASSUME NEW a \in Attempts, RecordCancelled(a) PROVE IndexInv'
  <2>1. Named(Updated(ToUiState(session, store)).ckpt)
    BY <1>2, UpdatedType, ShownState DEF IndexInv, TypeOK
  <2> QED
    BY <1>g, <1>l, <2>1 DEF RecordCancelled, sessionVars, trainerVars
<1>m. CASE Execute
  BY <1>m DEF Execute, IndexInv, durableVars, workerVars
<1>n. CASE ReadUi
  BY <1>2, <1>n DEF ReadUi, IndexInv, durableVars, workerVars, sessionVars
<1>o. CASE NotifyListeners
  BY <1>1, <1>o DEF NotifyListeners, Conflate, IndexInv, durableVars, sessionVars
<1>p. CASE Progress
  <2>1. store \subseteq store' /\ UNCHANGED <<record, ui, workerVars>>
    BY <1>p DEF Progress
  <2>2. session'.ckpt = session.ckpt \/ session'.ckpt \in store'
    BY <1>p DEF Progress, TypeOK
  <2> QED
    BY <2>1, <2>2 DEF IndexInv, workerVars
<1>q. CASE RunEnds
  <2>1. session'.ckpt = session.ckpt
    BY <1>q DEF RunEnds, TypeOK
  <2> QED
    BY <1>q, <2>1 DEF RunEnds, IndexInv, durableVars, workerVars
<1>r. CASE UNCHANGED vars
  BY <1>r DEF vars, durableVars, workerVars, sessionVars, trainerVars, IndexInv
<1> QED
  BY <1>a, <1>b, <1>c, <1>d, <1>e, <1>f, <1>h, <1>i, <1>j, <1>k, <1>l, <1>m, <1>n, <1>o,
     <1>p, <1>q, <1>r DEF Next, WorkerStep, TrainerStep

-----------------------------------------------------------------------------
(* Between two runs everyone has been told.                                *)

LEMMA TrainerStepInv ==
  ASSUME TypeOK, TrainerInv, [Next]_vars
  PROVE  TrainerInv'
<1> USE DEF TrainerInv, active
<1>1. CASE UNCHANGED <<session, queued, trainer, ui>>
  BY <1>1
<1>2. ASSUME NEW m \in {"FRESH", "RESUME"}, Start(m) PROVE TrainerInv'
  BY <1>1, <1>2 DEF Start, sessionVars, trainerVars
<1>3. CASE Cancel \/ Stop \/ SystemStop
  BY <1>1, <1>3 DEF Cancel, Stop, SystemStop, EndWork, trainerVars
<1>4. CASE Crash
  BY <1>4 DEF Crash
<1>5. ASSUME NEW a \in Attempts,
             \/ BeginAttempt(a) \/ MarkExecutionStarted(a) \/ Subscribe(a) \/ DeliverFirst(a)
             \/ Attach(a) \/ Refuse(a) \/ Receive(a) \/ Report(a) \/ CancelEarly(a)
             \/ PollTerminal(a) \/ RecordCancelled(a) \/ CancelRun(a) \/ Throw(a)
      PROVE  TrainerInv'
  BY <1>1, <1>5 DEF BeginAttempt, MarkExecutionStarted, Subscribe, DeliverFirst, Attach, Refuse,
     Receive, Report, CancelEarly, PollTerminal, RecordCancelled, CancelRun, Throw,
     sessionVars, trainerVars
<1>6. ASSUME NEW a \in Attempts, StartRun(a) PROVE TrainerInv'
  BY <1>6 DEF StartRun, Preparing, activePhases, trainerVars
<1>7. CASE Execute
  BY <1>7 DEF Execute, activePhases
<1>8. CASE ReadUi
  <2>1. ToUiState(session, store).phase = session.phase
    BY ShownState DEF TypeOK
  <2> QED
    BY <1>8, <2>1 DEF ReadUi, sessionVars, TypeOK
<1>9. CASE NotifyListeners
  BY <1>9 DEF NotifyListeners, sessionVars
<1>10. CASE Progress
  BY <1>10 DEF Progress, TypeOK, activePhases
<1>11. CASE RunEnds
  BY <1>11 DEF RunEnds, TypeOK
<1>12. CASE UNCHANGED vars
  BY <1>1, <1>12 DEF vars, sessionVars, trainerVars
<1> QED
  BY <1>2, <1>3, <1>4, <1>5, <1>6, <1>7, <1>8, <1>9, <1>10, <1>11, <1>12
     DEF Next, WorkerStep, TrainerStep

LEMMA ToldStep ==
  ASSUME TypeOK, DeliveryInv, [Next]_vars
  PROVE  EveryoneTold'
<1> USE DEF EveryoneTold, Told, DeliveryInv
<1>1. ASSUME UNCHANGED <<session, trainer, pc, heard, updates>> PROVE EveryoneTold'
  BY <1>1 DEF active
<1>2. ASSUME NEW m \in {"FRESH", "RESUME"}, Start(m) PROVE EveryoneTold'
  BY <1>1, <1>2 DEF Start, workerVars, sessionVars, trainerVars
<1>3. CASE Cancel \/ Stop \/ SystemStop
  BY <1>1, <1>3 DEF Cancel, Stop, SystemStop, EndWork, trainerVars
<1>4. CASE Crash
  <2>1. \A b \in Attempts : pc'[b] \in {"off", "ended"}
    BY <1>4 DEF Crash
  <2> QED
    BY <2>1
\* A step of one worker that ends outside the loop.
<1>5. ASSUME NEW a \in Attempts, UNCHANGED <<session, trainer>>,
             \A b \in Attempts \ {a} : /\ pc'[b] = pc[b] /\ heard'[b] = heard[b]
                                       /\ updates'[b] = updates[b],
             pc'[a] \notin {"looping", "reporting"}
      PROVE  EveryoneTold'
  BY <1>5 DEF active
<1>6. ASSUME NEW a \in Attempts, Leave(a), UNCHANGED <<session, trainer>> PROVE EveryoneTold'
  BY <1>5, <1>6 DEF Leave, Goto, TypeOK
<1>7. ASSUME NEW a \in Attempts,
             \/ BeginAttempt(a) \/ MarkExecutionStarted(a) \/ Subscribe(a) \/ DeliverFirst(a)
             \/ PollTerminal(a) \/ CancelRun(a)
      PROVE  EveryoneTold'
  <2>1. UNCHANGED <<session, trainer>>
    BY <1>7 DEF BeginAttempt, MarkExecutionStarted, Subscribe, DeliverFirst, PollTerminal,
       CancelRun, sessionVars, trainerVars
  <2>2. \A b \in Attempts \ {a} : /\ pc'[b] = pc[b] /\ heard'[b] = heard[b]
                                  /\ updates'[b] = updates[b]
    BY <1>7 DEF BeginAttempt, MarkExecutionStarted, Subscribe, DeliverFirst, PollTerminal,
       CancelRun, Goto, TypeOK
  <2>3. pc'[a] \notin {"looping", "reporting"}
    BY <1>7 DEF BeginAttempt, MarkExecutionStarted, Subscribe, DeliverFirst, PollTerminal,
       CancelRun, Goto, TypeOK
  <2> QED
    BY <1>5, <2>1, <2>2, <2>3
<1>8. ASSUME NEW a \in Attempts,
             Refuse(a) \/ Throw(a) \/ CancelEarly(a) \/ RecordCancelled(a)
      PROVE  EveryoneTold'
  <2>1. Leave(a) /\ UNCHANGED <<session, trainer>>
    BY <1>8 DEF Refuse, Throw, CancelEarly, RecordCancelled, Return, sessionVars, trainerVars
  <2> QED
    BY <1>6, <2>1
<1>9. ASSUME NEW a \in Attempts, Attach(a) PROVE EveryoneTold'
  BY <1>9 DEF Attach, active, sessionVars
<1>10. ASSUME NEW a \in Attempts, StartRun(a) PROVE EveryoneTold'
  BY <1>10 DEF StartRun, Preparing, active, activePhases
<1>11. ASSUME NEW a \in Attempts, Receive(a) PROVE EveryoneTold'
  <2>1. /\ UNCHANGED <<session, trainer>>
        /\ pc[a] = "looping" /\ pc'[a] = "reporting" /\ heard'[a] = updates[a]
    BY <1>11 DEF Receive, Goto, TypeOK, sessionVars, trainerVars
  <2>2. \A b \in Attempts \ {a} : /\ pc'[b] = pc[b] /\ heard'[b] = heard[b]
                                  /\ updates'[b] = updates[b]
    BY <1>11 DEF Receive, Goto, TypeOK
  <2> QED
    BY <2>1, <2>2 DEF active
<1>12. ASSUME NEW a \in Attempts, Report(a) PROVE EveryoneTold'
  <2>1. UNCHANGED <<session, trainer>> /\ pc[a] = "reporting"
    BY <1>12 DEF Report, sessionVars, trainerVars
  <2>2. CASE heard[a].phase \in Terminal
    BY <1>6, <1>12, <2>1, <2>2 DEF Report, Return
  <2>3. CASE heard[a].phase \notin Terminal
    <3>1. pc'[a] = "looping" /\ UNCHANGED updates
      BY <1>12, <2>3 DEF Report, Goto, TypeOK
    <3>2. \A b \in Attempts \ {a} : pc'[b] = pc[b] /\ heard'[b] = heard[b]
      BY <1>12, <2>3 DEF Report, Goto, TypeOK
    <3> QED
      BY <2>1, <2>3, <3>1, <3>2 DEF active
  <2> QED
    BY <2>2, <2>3
<1>13. CASE Execute \/ ReadUi \/ Progress \/ RunEnds
  BY <1>13 DEF Execute, ReadUi, Progress, RunEnds
<1>14. CASE NotifyListeners
  <2> SUFFICES ASSUME ~active', trainer' = "idle", NEW b \in Attempts,
                      pc'[b] \in {"looping", "reporting"}
               PROVE  Told(b)'
    OBVIOUS
  <2>1. UNCHANGED <<session, pc>> /\ trainer = "notifying" /\ updates' = Conflate(ui)
    BY <1>14 DEF NotifyListeners, sessionVars
  <2>2. updates'[b] = ui
    BY <2>1 DEF Conflate, Receiving, Listening
  <2>3. ui \in UiStates /\ ui.phase \in Terminal
    BY <2>1 DEF TypeOK, TrainerInv, active
  <2> QED
    BY <2>2, <2>3, EmptyAssumption
<1>15. CASE UNCHANGED vars
  BY <1>1, <1>15 DEF vars, workerVars, sessionVars, trainerVars
<1> QED
  BY <1>2, <1>3, <1>4, <1>7, <1>8, <1>9, <1>10, <1>11, <1>12, <1>13, <1>14, <1>15
     DEF Next, WorkerStep, TrainerStep

-----------------------------------------------------------------------------
(* One attempt at a time counts.                                           *)

LEMMA WorkStep ==
  ASSUME TypeOK, WorkInv, [Next]_vars
  PROVE  WorkInv'
<1> USE DEF WorkInv, Created, Jobs, Sole, Beginning
<1>t. /\ record.work \in 0..MaxWorks /\ \A a \in Attempts : job[a] \in 0..MaxWorks
      /\ Works = 1..MaxWorks /\ MaxWorks \in Nat
  BY TrainingWorkAssumption DEF TypeOK, Records, Works
<1>1. ASSUME UNCHANGED <<work, pc, job, cancelled>>, record'.work = record.work
      PROVE  WorkInv'
  BY <1>1
<1>2. ASSUME NEW m \in {"FRESH", "RESUME"}, Start(m) PROVE WorkInv'
  <2>1. created = record.work
    BY CountCreated
  <2>2. /\ record.work + 1 \in Works /\ record'.work = record.work + 1
        /\ work' = [work EXCEPT ![record.work + 1] = "ENQUEUED"]
        /\ \A w \in Works : work[w] \in Finished \cup {"NONE"}
        /\ UNCHANGED <<pc, job, cancelled>>
    BY <1>2, <1>t, <2>1 DEF Start, Create, workerVars
  <2>3. Created'
    BY <1>t, <2>2 DEF TypeOK
  <2>4. \A a \in Attempts : job[a] # 0 => cancelled[a]
    BY <1>t, <2>2 DEF Finished
  <2>5. Jobs' /\ Sole'
    BY <1>t, <2>2, <2>4
  <2> QED
    BY <2>3, <2>5
<1>3. ASSUME NEW as \in Finished \cup {"ENQUEUED"}, EndWork(as) PROVE WorkInv'
  <2>1. UNCHANGED <<record, pc, job>>
    BY <1>3 DEF EndWork
  <2>2. \A w \in Works : work'[w] = IF Unfinished(w) THEN as ELSE work[w]
    BY <1>3 DEF EndWork
  <2>3. \A a \in Attempts :
          cancelled'[a] = (cancelled[a] \/ (job[a] # 0 /\ Unfinished(job[a])))
    BY <1>3 DEF EndWork
  <2>4. Created'
    BY <2>1, <2>2 DEF Unfinished, Finished
  <2>5. \A a \in Attempts : job[a] # 0 => cancelled'[a]
    BY <2>3 DEF Unfinished, TypeOK
  <2> QED
    BY <2>1, <2>4, <2>5
<1>4. CASE Cancel \/ Stop \/ SystemStop
  BY <1>3, <1>4 DEF Cancel, Stop, SystemStop, Finished
<1>5. CASE Crash
  <2>1. /\ record' = record
        /\ \A w \in Works : work'[w] = IF work[w] = "RUNNING" THEN "ENQUEUED" ELSE work[w]
        /\ \A a \in Attempts : job'[a] = 0 /\ pc'[a] \in {"off", "ended"}
    BY <1>5 DEF Crash
  <2> QED
    BY <1>t, <2>1
<1>6. ASSUME NEW a \in Attempts, BeginAttempt(a) PROVE WorkInv'
  <2>1. /\ record.work \in Works /\ work[record.work] = "ENQUEUED"
        /\ work' = [work EXCEPT ![record.work] = "RUNNING"]
        /\ job' = [job EXCEPT ![a] = record.work]
        /\ \A b \in Attempts : job[b] = record.work => ~Beginning(b)
        /\ pc' = [pc EXCEPT ![a] = "foreground"]
        /\ UNCHANGED <<record, cancelled>>
    BY <1>6 DEF BeginAttempt, Goto
  <2>2. \A w \in Works : work'[w] = IF w = record.work THEN "RUNNING" ELSE work[w]
    BY <2>1 DEF TypeOK
  <2>3. \A b \in Attempts : /\ job'[b] = IF b = a THEN record.work ELSE job[b]
                            /\ pc'[b] = IF b = a THEN "foreground" ELSE pc[b]
    BY <2>1 DEF TypeOK
  <2>4. \A b \in Attempts : job[b] = record.work => cancelled[b]
    BY <1>t, <2>1
  <2>5. Created'
    BY <2>1, <2>2
  <2>6. Jobs'
    BY <1>t, <2>1, <2>2, <2>3
  <2>7. Sole'
    BY <2>1, <2>3, <2>4
  <2> QED
    BY <2>5, <2>6, <2>7
\* A step of one worker that neither begins nor leaves.
<1>7. ASSUME NEW a \in Attempts, NEW to, pc' = [pc EXCEPT ![a] = to],
             pc[a] \notin {"off", "ended"}, to \notin {"off", "ended"},
             to \in {"foreground", "marked", "subscribing", "subscribed"} => Beginning(a),
             UNCHANGED <<work, job, cancelled>>, record'.work = record.work
      PROVE  WorkInv'
  <2>1. \A b \in Attempts : pc'[b] = IF b = a THEN to ELSE pc[b]
    BY <1>7 DEF TypeOK
  <2> QED
    BY <1>7, <2>1
\* The end of a coroutine.
<1>8. ASSUME NEW a \in Attempts, Leave(a), pc[a] \notin {"off", "ended"},
             record'.work = record.work,
             \A w \in Works : work'[w] # work[w] =>
               work'[w] # "NONE" /\ w = job[a] /\ ~cancelled[a] /\ work[w] # "NONE"
      PROVE  WorkInv'
  <2>1. \A b \in Attempts : /\ job'[b] = IF b = a THEN 0 ELSE job[b]
                            /\ pc'[b] = IF b = a THEN "ended" ELSE pc[b]
                            /\ b # a => cancelled'[b] = cancelled[b]
    BY <1>8 DEF Leave, Goto, TypeOK
  <2>2. Created'
    BY <1>8
  <2>3. Jobs'
    <3> SUFFICES ASSUME NEW b \in Attempts, b # a, job[b] # 0, ~cancelled[b]
                 PROVE  work'[job[b]] = work[job[b]]
      BY <1>t, <1>8, <2>1
    <3>1. job[b] \in Works
      BY <1>t
    <3> QED
      BY <1>8, <3>1
  <2>4. Sole'
    BY <2>1
  <2> QED
    BY <2>2, <2>3, <2>4
<1>9. ASSUME NEW a \in Attempts, NEW result \in Finished, Return(a, result),
             pc[a] \notin {"off", "ended"}, UNCHANGED record
      PROVE  WorkInv'
  <2>1. \A w \in Works : work'[w] # work[w] =>
          work'[w] = result /\ w = job[a] /\ ~cancelled[a] /\ work[w] = "RUNNING"
    BY <1>9 DEF Return, TypeOK
  <2> QED
    BY <1>8, <1>9, <2>1 DEF Return, Finished
<1>10. ASSUME NEW a \in Attempts, Refuse(a) \/ Throw(a) PROVE WorkInv'
  BY <1>9, <1>10 DEF Refuse, Throw, Finished
<1>11. ASSUME NEW a \in Attempts, Report(a) PROVE WorkInv'
  <2>1. CASE heard[a].phase \in Terminal
    BY <1>9, <1>11, <2>1 DEF Report, Finished
  <2>2. CASE heard[a].phase \notin Terminal
    BY <1>7, <1>11, <2>2 DEF Report, Goto
  <2> QED
    BY <2>1, <2>2
<1>12. ASSUME NEW a \in Attempts, CancelEarly(a) \/ RecordCancelled(a) PROVE WorkInv'
  <2>1. record'.work = record.work
    BY <1>12 DEF CancelEarly, RecordCancelled, Updated, durableVars, TypeOK, Records
  <2>2. UNCHANGED work /\ Leave(a) /\ pc[a] \in {"foreground", "recording"}
    BY <1>12 DEF CancelEarly, RecordCancelled, durableVars
  <2> QED
    BY <1>8, <2>1, <2>2
<1>13. ASSUME NEW a \in Attempts,
              \/ MarkExecutionStarted(a) \/ Subscribe(a) \/ DeliverFirst(a) \/ Attach(a)
              \/ StartRun(a) \/ Receive(a) \/ CancelRun(a) \/ PollTerminal(a)
       PROVE  WorkInv'
  <2>1. PICK from \in Pcs, to \in Pcs :
          /\ pc[a] = from /\ pc' = [pc EXCEPT ![a] = to]
          /\ from \notin {"off", "ended"} /\ to \notin {"off", "ended"}
          /\ to \in {"foreground", "marked", "subscribing", "subscribed"} => Beginning(a)
    BY <1>13 DEF MarkExecutionStarted, Subscribe, DeliverFirst, Attach, StartRun, Receive,
       CancelRun, PollTerminal, Goto, Pcs
  <2>2. UNCHANGED <<work, job, cancelled>>
    BY <1>13 DEF MarkExecutionStarted, Subscribe, DeliverFirst, Attach, StartRun, Receive,
       CancelRun, PollTerminal, durableVars
  <2>3. record'.work = record.work
    BY <1>13 DEF MarkExecutionStarted, Subscribe, DeliverFirst, Attach, StartRun, Receive,
       CancelRun, PollTerminal, durableVars, Updated, TypeOK, Records
  <2> QED
    BY <1>7, <2>1, <2>2, <2>3
<1>14. CASE Execute \/ ReadUi \/ NotifyListeners \/ Progress \/ RunEnds
  BY <1>1, <1>14 DEF Execute, ReadUi, NotifyListeners, Progress, RunEnds, durableVars, workerVars
<1>15. CASE UNCHANGED vars
  BY <1>1, <1>15 DEF vars, durableVars, workerVars
<1> QED
  BY <1>2, <1>4, <1>5, <1>6, <1>10, <1>11, <1>12, <1>13, <1>14, <1>15
     DEF Next, WorkerStep, TrainerStep


-----------------------------------------------------------------------------
(* A work that has not been marked has saved nothing.                      *)

LEMMA BirthStep ==
  ASSUME TypeOK, WorkInv, BirthInv, [Next]_vars
  PROVE  BirthInv'
<1> USE DEF BirthInv, Born, FirstStart, Untouched, Marked
<1>t. /\ record.work \in 0..MaxWorks /\ session.work \in 0..MaxWorks /\ MaxWorks \in Nat
      /\ \A a \in Attempts : job[a] \in 0..MaxWorks
      /\ \A c \in store : c.work \in 0..MaxWorks /\ c.born \in 0..MaxWorks
  BY TrainingWorkAssumption DEF TypeOK, Records, Checkpoints
\* Nothing is saved, started or marked.
<1>1. ASSUME UNCHANGED store, session'.work = session.work,
             record'.work = record.work, record'.started = record.started,
             \A b \in Attempts : Marked(b)' =>
               /\ Marked(b) /\ job'[b] = job[b] /\ prior'[b] = prior[b]
               /\ cancelled[b] => cancelled'[b]
      PROVE  BirthInv'
  BY <1>1
<1>2. ASSUME NEW m \in {"FRESH", "RESUME"}, Start(m) PROVE BirthInv'
  <2>1. created = record.work
    BY CountCreated DEF WorkInv
  <2>2. /\ record'.work = record.work + 1
        /\ UNCHANGED <<store, session, pc, job, prior, cancelled>>
    BY <1>2, <2>1 DEF Start, Create, workerVars, sessionVars
  <2>3. \A a \in Attempts : job[a] <= record.work
    BY DEF WorkInv, Jobs
  <2> QED
    BY <1>t, <2>2, <2>3
<1>3. CASE Cancel \/ Stop \/ SystemStop
  BY <1>1, <1>3 DEF Cancel, Stop, SystemStop, EndWork
<1>4. CASE Crash
  <2>1. UNCHANGED <<store, record>> /\ session'.work = 0
    BY <1>4 DEF Crash, Idle
  <2>2. \A b \in Attempts : pc'[b] \in {"off", "ended"}
    BY <1>4 DEF Crash
  <2>3. Born'
    BY <1>t, <2>1
  <2>4. FirstStart'
    BY <2>1, <2>2
  <2> QED
    BY <2>3, <2>4
<1>5. ASSUME NEW a \in Attempts, MarkExecutionStarted(a) PROVE BirthInv'
  <2>1. /\ record'.work = record.work /\ record'.started
        /\ prior' = [prior EXCEPT ![a] = record] /\ pc' = [pc EXCEPT ![a] = "marked"]
        /\ pc[a] = "foreground" /\ UNCHANGED <<store, session, job, cancelled>>
    BY <1>5 DEF MarkExecutionStarted, Goto, sessionVars, TypeOK, Records
  <2>2. \A b \in Attempts \ {a} : pc'[b] = pc[b] /\ prior'[b] = prior[b]
    BY <2>1 DEF TypeOK
  <2>3. prior'[a] = record
    BY <2>1 DEF TypeOK
  <2>4. ~cancelled[a] => record.work = job[a] /\ record.work # 0
    BY <2>1 DEF WorkInv, Jobs
  <2> QED
    BY <2>1, <2>2, <2>3, <2>4
<1>6. ASSUME NEW a \in Attempts, StartRun(a) PROVE BirthInv'
  <2>1. /\ UNCHANGED <<store, record, job, cancelled>> /\ session'.work = job[a]
        /\ pc[a] = "subscribed" /\ pc' = [pc EXCEPT ![a] = "looping"]
        /\ prior' = [prior EXCEPT ![a] = NoRecord]
    BY <1>6 DEF StartRun, Preparing, Goto, durableVars
  <2>2. pc'[a] = "looping" /\ \A b \in Attempts \ {a} : pc'[b] = pc[b] /\ prior'[b] = prior[b]
    BY <2>1 DEF TypeOK
  <2>3. job[a] # 0 /\ job[a] <= record.work
    BY <2>1 DEF WorkInv, Jobs
  <2>4. \A b \in Attempts \ {a} : Marked(b) => job[b] # job[a]
    BY <2>1, <2>3 DEF WorkInv, Sole, Beginning
  <2> QED
    BY <2>1, <2>2, <2>3, <2>4
\* A step of one worker that is not the first two.
<1>7. ASSUME NEW a \in Attempts, NEW to, pc' = [pc EXCEPT ![a] = to],
             to \in {"marked", "subscribing", "subscribed"} => Marked(a),
             UNCHANGED <<store, session>>,
             record'.work = record.work, record'.started = record.started,
             \A b \in Attempts : Marked(b)' =>
               job'[b] = job[b] /\ prior'[b] = prior[b] /\ cancelled'[b] = cancelled[b]
      PROVE  BirthInv'
  <2>1. \A b \in Attempts : Marked(b)' => Marked(b)
    BY <1>7 DEF TypeOK
  <2> QED
    BY <1>1, <1>7, <2>1
<1>8. ASSUME NEW a \in Attempts, Leave(a), UNCHANGED <<store, session>>,
             record'.work = record.work, record'.started = record.started
      PROVE  BirthInv'
  <2>1. \A b \in Attempts : Marked(b)' =>
          job'[b] = job[b] /\ prior'[b] = prior[b] /\ cancelled'[b] = cancelled[b]
    BY <1>8 DEF Leave, Goto, TypeOK
  <2> QED
    BY <1>7, <1>8, <2>1 DEF Leave, Goto
<1>9. ASSUME NEW a \in Attempts, \/ Refuse(a) \/ Throw(a) \/ CancelEarly(a)
                                  \/ RecordCancelled(a)
      PROVE  BirthInv'
  <2>1. Leave(a) /\ UNCHANGED <<store, session>>
    BY <1>9 DEF Refuse, Throw, CancelEarly, RecordCancelled, Return, durableVars, sessionVars
  <2>2. record'.work = record.work /\ record'.started = record.started
    BY <1>9 DEF Refuse, Throw, CancelEarly, RecordCancelled, Updated, durableVars, TypeOK,
       Records
  <2> QED
    BY <1>8, <2>1, <2>2
<1>10. ASSUME NEW a \in Attempts, Report(a) PROVE BirthInv'
  <2>1. UNCHANGED <<store, session, record>>
    BY <1>10 DEF Report, sessionVars
  <2>2. CASE heard[a].phase \in Terminal
    BY <1>8, <1>10, <2>1, <2>2 DEF Report, Return
  <2>3. CASE heard[a].phase \notin Terminal
    BY <1>7, <1>10, <2>1, <2>3 DEF Report, Goto
  <2> QED
    BY <2>2, <2>3
<1>11. ASSUME NEW a \in Attempts,
              \/ BeginAttempt(a) \/ Subscribe(a) \/ DeliverFirst(a) \/ Attach(a)
              \/ Receive(a) \/ CancelRun(a) \/ PollTerminal(a)
       PROVE  BirthInv'
  <2>1. PICK to \in Pcs : /\ pc' = [pc EXCEPT ![a] = to]
                          /\ to \in {"marked", "subscribing", "subscribed"} => Marked(a)
    BY <1>11 DEF BeginAttempt, Subscribe, DeliverFirst, Attach, Receive, CancelRun,
       PollTerminal, Goto, Pcs
  <2>2. UNCHANGED <<store, session>>
    BY <1>11 DEF BeginAttempt, Subscribe, DeliverFirst, Attach, Receive, CancelRun,
       PollTerminal, durableVars, sessionVars
  <2>3. record'.work = record.work /\ record'.started = record.started
    BY <1>11 DEF BeginAttempt, Subscribe, DeliverFirst, Attach, Receive, CancelRun,
       PollTerminal, durableVars, Updated, TypeOK, Records
  <2>4. \A b \in Attempts : Marked(b)' =>
          job'[b] = job[b] /\ prior'[b] = prior[b] /\ cancelled'[b] = cancelled[b]
    BY <1>11 DEF BeginAttempt, Subscribe, DeliverFirst, Attach, Receive, CancelRun,
       PollTerminal, Goto, durableVars, TypeOK
  <2> QED
    BY <1>7, <2>1, <2>2, <2>3, <2>4
<1>12. CASE Execute \/ ReadUi \/ NotifyListeners
  BY <1>1, <1>12 DEF Execute, ReadUi, NotifyListeners, durableVars, workerVars, sessionVars
<1>13. CASE RunEnds
  <2>1. session'.work = session.work
    BY <1>13 DEF RunEnds, TypeOK
  <2> QED
    BY <1>1, <1>13, <2>1 DEF RunEnds, durableVars, workerVars
<1>14. CASE Progress
  <2>1. session'.work = session.work /\ UNCHANGED <<record, pc, job, prior, cancelled>>
    BY <1>14 DEF Progress, workerVars, TypeOK
  <2>2. store' \in {store, store \cup {Saved}}
    BY <1>14 DEF Progress
  <2>3. Saved.work = session.work /\ Saved.born = record.work
    BY DEF Saved
  <2>4. \A c \in store' : c \in store \/ (c.work = session.work /\ c.born = record.work)
    BY <2>2, <2>3
  <2>5. Born'
    BY <1>t, <2>1, <2>4
  <2>6. \A w : Untouched(w) => Untouched(w)'
    BY <2>1, <2>4
  <2>7. FirstStart'
    <3> HIDE DEF Untouched
    <3> QED
      BY <2>1, <2>6
  <2> QED
    BY <2>5, <2>7
<1>15. CASE UNCHANGED vars
  BY <1>1, <1>15 DEF vars, durableVars, workerVars, sessionVars
<1> QED
  BY <1>2, <1>3, <1>4, <1>5, <1>6, <1>9, <1>10, <1>11, <1>12, <1>13, <1>14, <1>15
     DEF Next, WorkerStep, TrainerStep


-----------------------------------------------------------------------------
(* The invariant.                                                          *)

LEMMA InitInv ==
  ASSUME Init
  PROVE  IInv
<1>1. TypeOK
  <2>1. work \in [Works -> WorkStates] /\ mode \in [Works -> {"FRESH", "RESUME"}]
    BY DEF Init, WorkStates
  <2>2. record \in Records /\ session \in Sessions /\ ui \in UiStates
    BY NothingYet DEF Init
  <2>3. store \subseteq Checkpoints /\ crashes \in 0..MaxCrashes
    BY TrainingWorkAssumption DEF Init
  <2>4. /\ pc \in [Attempts -> Pcs] /\ job \in [Attempts -> 0..MaxWorks]
        /\ prior \in [Attempts -> Records] /\ heard \in [Attempts -> UiStates]
        /\ updates \in [Attempts -> UiStates \cup {Empty}]
        /\ cancelled \in [Attempts -> BOOLEAN]
    BY NothingYet, TrainingWorkAssumption DEF Init, Pcs
  <2>5. stopAsked \in BOOLEAN /\ queued \in BOOLEAN /\ trainer = "idle"
    BY DEF Init
  <2> QED
    BY <2>1, <2>2, <2>3, <2>4, <2>5 DEF TypeOK, WorkStates, Sessions, Pcs
<1>2. IndexInv
  BY DEF Init, IndexInv, Named, NoRecord, Idle, NoUi
<1>3. DeliveryInv
  BY DEF Init, DeliveryInv, TrainerInv, EveryoneTold, Told, Idle, NoUi, active, activePhases
<1>4. WorkInv
  <2>1. Created
    BY DEF Init, Created, NoRecord, Works
  <2>2. Jobs /\ Sole
    BY DEF Init, Jobs, Sole, NoRecord
  <2> QED
    BY <2>1, <2>2 DEF WorkInv
<1>5. BirthInv
  <2>1. record.work = 0 /\ session.work = 0 /\ store = {}
    BY DEF Init, NoRecord, Idle
  <2>2. \A a \in Attempts : ~Marked(a)
    BY DEF Init, Marked
  <2> QED
    BY <2>1, <2>2 DEF BirthInv, Born, FirstStart
<1> QED
  BY <1>1, <1>2, <1>3, <1>4, <1>5 DEF IInv

LEMMA StepInv ==
  ASSUME IInv, [Next]_vars
  PROVE  IInv'
<1>1. TypeOK'
  BY TypeStep DEF IInv, WorkInv
<1>2. IndexInv'
  BY <1>1, IndexStep DEF IInv
<1>3. DeliveryInv'
  BY TrainerStepInv, ToldStep DEF IInv, DeliveryInv
<1>4. WorkInv' /\ BirthInv'
  BY WorkStep, BirthStep DEF IInv
<1> QED
  BY <1>1, <1>2, <1>3, <1>4 DEF IInv

LEMMA Invariant == Spec => []IInv
<1>1. Init => IInv
  BY InitInv
<1>2. IInv /\ [Next]_vars => IInv'
  BY StepInv
<1> QED
  BY <1>1, <1>2, PTL DEF Spec

-----------------------------------------------------------------------------
(* Every variable keeps to the values its declaration allows, whatever is  *)
(* started, cancelled, stopped by the system or killed, and when.          *)
THEOREM TypeCorrect == Spec => []TypeOK
<1>1. IInv => TypeOK
  BY DEF IInv
<1> QED
  BY <1>1, Invariant, PTL

\* The durable record only ever names a checkpoint that the index holds, so that
\* the worker of the next process finds what the last one recorded.
THEOREM RecordIsIndexed == Spec => []RecordedIsIndexed
<1>1. IInv => RecordedIsIndexed
  BY DEF IInv, IndexInv, Named, RecordedIsIndexed
<1> QED
  BY <1>1, Invariant, PTL

\* No worker waits for the end of a run that it will never be told of: the
\* subscription before the attachment and the conflated channel leave it no gap.
THEOREM EndIsDelivered == Spec => []NoLostTerminal
<1>1. IInv => NoLostTerminal
  BY DEF IInv, DeliveryInv, EveryoneTold, Told, NoLostTerminal
<1> QED
  BY <1>1, Invariant, PTL

\* However often a work is attempted and its process killed, an attempt that has
\* not been cancelled starts from step 0 only while the work has saved nothing.
THEOREM FreshOnlyAtFirst == Spec => FreshOnlyBeforeFirstCheckpoint
<1>1. ASSUME IInv, [Next]_vars, NEW a \in Attempts, Starts(a), ~cancelled[a],
             session'.step = 0
      PROVE  Own(a) = {}
  <2>1. StartRun(a)
    <3>1. pc[a] = "subscribed" /\ pc'[a] = "looping" /\ session' # session
      BY <1>1 DEF Starts
    <3>2. ~(Cancel \/ Stop \/ SystemStop \/ TrainerStep \/ Progress \/ RunEnds \/ Crash)
      BY <3>1 DEF Cancel, Stop, SystemStop, EndWork, TrainerStep, Execute, ReadUi,
         NotifyListeners, Progress, RunEnds, Crash, workerVars, sessionVars
    <3>3. ~\E m \in {"FRESH", "RESUME"} : Start(m)
      BY <3>1 DEF Start, workerVars
    <3>4. ASSUME NEW b \in Attempts, BeginAttempt(b) \/ WorkerStep(b) \/ CancelRun(b) \/ Throw(b)
          PROVE  StartRun(b)
      BY <3>1, <3>4 DEF BeginAttempt, WorkerStep, MarkExecutionStarted, Subscribe,
         DeliverFirst, Attach, Refuse, Receive, Report, CancelEarly, PollTerminal,
         RecordCancelled, CancelRun, Throw, sessionVars
    <3>5. ASSUME NEW b \in Attempts, StartRun(b)
          PROVE  b = a
      BY <3>1, <3>5 DEF StartRun, Goto, IInv, TypeOK
    <3>6. UNCHANGED vars => FALSE
      BY <3>1 DEF vars, sessionVars
    <3> QED
      BY <1>1, <3>2, <3>3, <3>4, <3>5, <3>6 DEF Next
  <2>2. Candidates(a) = {}
    <3>1. Candidates(a) \in SUBSET Checkpoints
      BY <1>1 DEF Candidates, IInv, TypeOK
    <3>2. Candidates(a) # {} => Newest(Candidates(a)).step \in 1..Total
      BY <3>1, NewestIsIn DEF Checkpoints
    <3> QED
      BY <1>1, <2>1, <3>2, TrainingWorkAssumption DEF StartRun, Preparing
  <2>3. Marked(a) /\ mode[job[a]] # "RESUME"
    BY <2>1, <2>2 DEF StartRun, Marked
  <2>4. prior[a].ckpt = NoCheckpoint
    BY <1>1, <2>2 DEF Candidates, IInv, IndexInv, Named
  <2>5. CASE prior[a].started
    <3>1. prior[a].work = job[a]
      BY <1>1, <2>3 DEF IInv, BirthInv, FirstStart
    <3>2. \A c \in store : ~(c.born >= job[a])
      BY <2>2, <2>3, <2>4, <2>5, <3>1 DEF Candidates
    <3>3. \A c \in store : c.work <= c.born /\ c.work \in Nat /\ c.born \in Nat
      BY <1>1, TrainingWorkAssumption DEF IInv, BirthInv, Born, TypeOK, Checkpoints
    <3> QED
      BY <3>2, <3>3 DEF Own
  <2>6. CASE ~prior[a].started
    BY <1>1, <2>3, <2>6 DEF IInv, BirthInv, FirstStart, Untouched, Own
  <2> QED
    BY <2>5, <2>6
<1>2. IInv /\ [Next]_vars =>
        [\A a \in Attempts : Starts(a) /\ ~cancelled[a] /\ session'.step = 0 => Own(a) = {}]_vars
  BY <1>1
<1> QED
  BY <1>2, Invariant, PTL DEF Spec, FreshOnlyBeforeFirstCheckpoint
=============================================================================
