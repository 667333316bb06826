---------------------- MODULE NicopediaTraining_proofs ----------------------
(***************************************************************************)
(* For any configurations, number of steps, interval and batch size.       *)
(***************************************************************************)
EXTENDS NicopediaTraining, TLAPS

(* The inductive invariant: what holds at each point of the call. *)

\* The state in memory is that of the updates 1..n.
At(n) == cur.hist = Updates(n) /\ cur.mom = Updates(n) /\ cur.finite

Training == pc \in InMemory \cup {"load", "scratch"}
Looping  == pc \in {"top", "batch"}
Stepped  == pc \in {"save", "write", "stepEnd"}
Ending   == pc \in {"after", "replay", "finish", "lastSave", "lastWrite"}

\* Where the call is, and what it has computed.
CallInv ==
  /\ pc # "idle" => job \in Jobs
  /\ Training => job.kind = "train" /\ job.resume < job.target
  /\ pc \in {"evaluate", "probe"} => job.kind = pc
  /\ Training => last \in job.resume..job.target
  /\ pc = "load" => job.resume > 0
  /\ pc \in {"prepare", "load", "scratch", "probe"} => cur = Initial
  /\ pc \in {"load", "scratch"} => last = job.resume
  /\ pc = "prepare" => allFinite /\ (job.kind = "train" => last = job.resume)
  /\ pc \in {"load", "scratch"} \/ Looping \/ Stepped => allFinite
  /\ pc = "scratch" => job.resume = 0
  /\ Looping => At(last) /\ step = last + 1 /\ (pc = "batch" => step <= job.target)
  /\ Stepped => At(last) /\ step = last /\ last > job.resume
  /\ Ending /\ allFinite => At(last)
  /\ pc = "after" /\ allFinite /\ ~interrupted => last = job.target
  /\ pc = "replay" => ~interrupted
  /\ pc \in {"replay", "finish"} /\ allFinite /\ ~interrupted => last = job.target
  /\ pc \in {"lastSave", "lastWrite"} =>
       allFinite /\ (interrupted => last > job.resume) /\ (~interrupted => last = job.target)
  /\ pc = "evaluate" => cur.hist = Updates(job.resume)

\* The stop flag and the step that may complete after it.
StopInv ==
  /\ late \in {0, 1} /\ (late = 1 => stop)
  /\ pc \in {"prepare", "load", "scratch", "top", "batch", "idle"} => late = 0

SavedInv ==
  saved # 0 => pc \in InMemory /\ saved <= last /\ Resumable(Name(job.conf, saved))

Inv == /\ TypeOK /\ CanonicalFiles /\ CallInv /\ StopInv /\ SavedInv
       /\ PromisedIsDurable /\ ReportedAsNamed

----------------------------------------------------------------------------
(* Types *)

\* A longer sequence of updates is the next update appended.
LEMMA UpdatesNext ==
  ASSUME NEW n \in Nat
  PROVE  /\ Updates(n) \in Seq(Nat) /\ Updates(0) = <<>>
         /\ Append(Updates(n), n + 1) = Updates(n + 1)
  BY DEF Updates

LEMMA InitialType == Initial \in States
  BY DEF Initial, States

\* Entering and leaving a call establish the types of the locals.
LEMMA EnteredType ==
  ASSUME TypeOK, NEW j \in Jobs \cup {Absent}, Entered(j)
  PROVE  /\ job' \in Jobs \cup {Absent} /\ cur' \in States
         /\ step' \in 0..(MaxStep + 1) /\ elem' \in 0..Batch /\ last' \in 0..MaxStep
         /\ stepFinite' \in BOOLEAN /\ allFinite' \in BOOLEAN /\ interrupted' \in BOOLEAN
         /\ saved' \in 0..MaxStep /\ replay' \in -1..MaxStep /\ late' \in Nat
<1>1. last' \in 0..MaxStep
  BY NicopediaAssumption DEF Entered, Jobs
<1>2. cur' \in States
  BY InitialType DEF Entered
<1>3. /\ step' \in 0..(MaxStep + 1) /\ elem' \in 0..Batch /\ saved' \in 0..MaxStep
      /\ replay' \in -1..MaxStep /\ late' \in Nat
  BY NicopediaAssumption DEF Entered
<1> QED
  BY <1>1, <1>2, <1>3 DEF Entered

\* A call in progress returns a report of the right type.
LEMMA ReturnType ==
  ASSUME TypeOK, CallInv, pc # "idle",
         NEW st \in {"SUCCESS", "FAILED", "CANCELLED"},
         NEW f \in BOOLEAN, NEW w \in BOOLEAN, Return(st, f, w), w => last > 0,
         files' \in [Names -> Files \cup {Absent}], stop' = stop
  PROVE  TypeOK'
<1>1. report' \in Reports
  BY DEF Return, Reports, TypeOK, CallInv, States
<1>2. announced' \subseteq Names
  <2>1. CASE w
    <3>1. Here \in Names
      BY <2>1, NicopediaAssumption DEF Here, Name, Names, Steps, TypeOK, CallInv, Jobs
    <3> QED
      BY <3>1 DEF Return, TypeOK
  <2>2. CASE ~w
    BY <2>2 DEF Return, TypeOK
  <2> QED
    BY <2>1, <2>2
<1>3. Entered(Absent)
  BY DEF Return
<1> QED
  BY <1>1, <1>2, <1>3, EnteredType DEF Return, TypeOK, Pcs

\* The rename puts a file of the right type under a name there is.
LEMMA RenamedType ==
  ASSUME TypeOK, CallInv, pc # "idle", Renamed
  PROVE  /\ Image \in Files /\ Here \in Names
         /\ files' \in [Names -> Files \cup {Absent}]
<1>1. Image \in Files
  BY NicopediaAssumption DEF Image, Files, Renamed, Writable, TypeOK, CallInv, Jobs, States, Steps
<1>2. Here \in Names
  BY NicopediaAssumption DEF Here, Name, Names, Steps, Renamed, Writable, TypeOK, CallInv, Jobs
<1> QED
  BY <1>1, <1>2 DEF Renamed, TypeOK

----------------------------------------------------------------------------
(* The steps of the call *)

\* What the reports of a success must say.
SuccessSays(kind, hist) ==
  CASE kind = "train"    -> hist = Updates(job.target)
    [] kind = "evaluate" -> hist = Updates(job.resume)
    [] OTHER -> hist = <<>>

\* A call that returns keeps the invariant if its report is true and the files
\* are still canonical and resumable.
LEMMA ReturnInv ==
  ASSUME Inv, pc # "idle",
         NEW st \in {"SUCCESS", "FAILED", "CANCELLED"},
         NEW f \in BOOLEAN, NEW w \in BOOLEAN, Return(st, f, w), stop' = stop,
         files' \in [Names -> Files \cup {Absent}], CanonicalFiles',
         \A n \in Names : Resumable(n) => Resumable(n)',
         w => /\ last > 0 /\ files'[Here] # Absent
              /\ ~files'[Here].torn /\ files'[Here].adam,
         job.kind = "train" /\ f /\ st = "SUCCESS" => w,
         job.kind = "train" /\ f /\ st = "CANCELLED" /\ last > job.resume => w,
         st = "SUCCESS" => SuccessSays(job.kind, cur.hist)
  PROVE  Inv'
<1>1. TypeOK'
  BY ReturnType DEF Inv, TypeOK
<1>2. Entered(Absent) /\ pc' = "idle"
  BY DEF Return
<1>3. CallInv' /\ StopInv' /\ SavedInv'
  BY <1>2 DEF CallInv, StopInv, SavedInv, Entered, Training, InMemory, Looping,
              Stepped, Ending
<1>4. \A n \in announced' : Resumable(n)'
  BY DEF Inv, TypeOK, PromisedIsDurable, Resumable, Return
<1>5. report' = [job |-> job, status |-> st, last |-> last, finite |-> f,
                 written |-> w, hist |-> cur.hist]
  BY DEF Return
<1>6. PromisedIsDurable'
  BY <1>4, <1>5 DEF PromisedIsDurable
<1>7. ReportedAsNamed'
  BY <1>5 DEF ReportedAsNamed, SuccessSays, Updates
<1> QED
  BY <1>1, <1>3, <1>6, <1>7 DEF Inv

\* So it does when it leaves the files alone.
LEMMA ReadOnlyReturnInv ==
  ASSUME Inv, pc # "idle",
         NEW st \in {"SUCCESS", "FAILED", "CANCELLED"},
         NEW f \in BOOLEAN, NEW w \in BOOLEAN, Return(st, f, w),
         files' = files, stop' = stop,
         w => last > 0 /\ Resumable(Here),
         job.kind = "train" /\ f /\ st = "SUCCESS" => w,
         job.kind = "train" /\ f /\ st = "CANCELLED" /\ last > job.resume => w,
         st = "SUCCESS" => SuccessSays(job.kind, cur.hist)
  PROVE  Inv'
<1>1. files' \in [Names -> Files \cup {Absent}]
  BY DEF Inv, TypeOK
<1>2. CanonicalFiles'
  BY DEF Inv, CanonicalFiles, Canonical, Name, Updates
<1>3. \A n \in Names : Resumable(n) => Resumable(n)'
  BY DEF Resumable
<1>4. w => /\ last > 0 /\ files'[Here] # Absent
           /\ ~files'[Here].torn /\ files'[Here].adam
  BY DEF Resumable
<1> QED
  BY <1>1, <1>2, <1>3, <1>4, ReturnInv

\* A failure is always a true report.
LEMMA FailInv ==
  ASSUME Inv, pc # "idle", Fail, files' = files, stop' = stop
  PROVE  Inv'
  BY ReadOnlyReturnInv DEF Fail

\* A step inside the call that leaves the files, the promises and the report.
LEMMA InsideInv ==
  ASSUME Inv, files' = files, report' = report,
         TypeOK', CallInv', StopInv', SavedInv',
         \A n \in announced' : n \in announced \/ Resumable(n)
  PROVE  Inv'
<1>1. CanonicalFiles'
  BY DEF Inv, CanonicalFiles, Canonical, Name, Updates
<1>2. \A n \in announced' : Resumable(n)'
  BY DEF Inv, PromisedIsDurable, Resumable
<1>3. PromisedIsDurable'
  BY <1>2 DEF Inv, PromisedIsDurable
<1>4. ReportedAsNamed'
  BY DEF Inv, ReportedAsNamed, Updates
<1> QED
  BY <1>1, <1>3, <1>4 DEF Inv

LEMMA StartInv == Inv /\ (\E j \in Jobs : Start(j)) => Inv'
<1> SUFFICES ASSUME Inv, NEW j \in Jobs, Start(j) PROVE Inv'
  OBVIOUS
<1>1. TypeOK'
  BY EnteredType DEF Inv, TypeOK, Start, Pcs
<1>2. CallInv'
  BY NicopediaAssumption DEF Inv, Start, CallInv, Entered, Jobs, Training,
     InMemory, Looping, Stepped, Ending
<1>3. StopInv' /\ SavedInv'
  BY DEF Start, StopInv, SavedInv, Entered
<1>4. CanonicalFiles'
  BY DEF Inv, CanonicalFiles, Canonical, Name, Updates, Start
<1>5. PromisedIsDurable' /\ ReportedAsNamed'
  BY DEF Inv, PromisedIsDurable, ReportedAsNamed, Resumable, Start
<1> QED
  BY <1>1, <1>2, <1>3, <1>4, <1>5 DEF Inv

\* One lemma per action.

LEMMA PreparedInv == Inv /\ Prepared => Inv'
<1> SUFFICES ASSUME Inv, Prepared PROVE Inv'
  OBVIOUS
<1>1. TypeOK'
  BY DEF Inv, TypeOK, Prepared, Pcs, localVars, loopVars
<1>2. /\ job \in Jobs /\ job.target \in 1..MaxStep /\ job.resume \in 0..MaxStep
      /\ job.kind = "train" /\ job.resume < job.target /\ allFinite
      /\ last = job.resume /\ cur = Initial
  BY DEF Inv, CallInv, Prepared, Jobs, Steps
<1>3. /\ job' = job /\ last' = last /\ cur' = cur /\ allFinite' = allFinite
      /\ pc' \in {"load", "scratch"} /\ (pc' = "load" <=> job.resume # 0)
  BY DEF Prepared, localVars, loopVars
<1>4. CallInv'
  BY <1>2, <1>3, NicopediaAssumption DEF CallInv, Training, InMemory, Looping, Stepped, Ending
<1>5. StopInv' /\ SavedInv'
  BY DEF Inv, Prepared, StopInv, SavedInv, Resumable, Name, localVars, loopVars, InMemory
<1> QED
  BY <1>1, <1>4, <1>5, InsideInv DEF Prepared, localVars, loopVars

LEMMA ResumeInv == Inv /\ Resume => Inv'
<1> SUFFICES ASSUME Inv, Resume PROVE Inv'
  OBVIOUS
<1> DEFINE r == job.resume
<1>1. job \in Jobs /\ r \in 1..MaxStep /\ r < job.target /\ job.kind = "train"
      /\ job.target \in Steps /\ last = r
  BY NicopediaAssumption DEF Inv, CallInv, Resume, Training, InMemory, Jobs
<1>2. Name(job.conf, r) \in Names
  BY <1>1, NicopediaAssumption DEF Name, Names, Steps, Jobs
<1>3. ResumeFile \in Files /\ ResumeFile.hist = Updates(r) /\ ResumeFile.mom = Updates(r)
  BY <1>1, <1>2 DEF Inv, CanonicalFiles, Canonical, TypeOK, Resume, CanResume, Loads, ResumeFile
<1>4. cur' \in States /\ cur'.hist = Updates(r) /\ cur'.mom = Updates(r) /\ cur'.finite
  BY <1>3 DEF Resume, States, Files
<1>5. TypeOK'
  BY <1>1, <1>4, NicopediaAssumption DEF Inv, TypeOK, Resume, Pcs, Steps
<1>6. CallInv'
  BY <1>1, <1>4 DEF Inv, CallInv, Resume, At, Updates, Training, InMemory, Looping, Stepped,
     Ending, Steps
<1>7. StopInv' /\ SavedInv'
  BY DEF Inv, Resume, StopInv, SavedInv, Resumable, Name, InMemory
<1> QED
  BY <1>5, <1>6, <1>7, InsideInv DEF Resume

LEMMA ScratchInv == Inv /\ Scratch => Inv'
<1> SUFFICES ASSUME Inv, Scratch PROVE Inv'
  OBVIOUS
<1>1. job \in Jobs /\ last = 0 /\ job.kind = "train" /\ cur = Initial
      /\ 0 < job.target /\ job.target \in Steps /\ job.resume = 0 /\ allFinite
  BY NicopediaAssumption DEF Inv, CallInv, Scratch, Training, InMemory, Jobs
<1>2. TypeOK'
  BY NicopediaAssumption DEF Inv, TypeOK, Scratch, Pcs
<1>3. At(0)'
  BY <1>1, UpdatesNext DEF At, Scratch, Initial, Updates
<1>4. CallInv'
  BY <1>1, <1>3 DEF Inv, CallInv, Scratch, At, Training, InMemory, Looping, Stepped,
     Ending, Steps
<1>5. StopInv' /\ SavedInv'
  BY DEF Inv, Scratch, StopInv, SavedInv, Resumable, Name, InMemory
<1> QED
  BY <1>2, <1>4, <1>5, InsideInv DEF Scratch

LEMMA StepBeginInv == Inv /\ StepBegin => Inv'
<1> SUFFICES ASSUME Inv, StepBegin PROVE Inv'
  OBVIOUS
<1>1. /\ job \in Jobs /\ job.target \in Steps /\ job.resume \in 0..MaxStep
      /\ job.kind = "train" /\ job.resume < job.target /\ allFinite
      /\ last \in job.resume..job.target /\ step = last + 1 /\ At(last)
  BY DEF Inv, CallInv, StepBegin, Training, InMemory, Looping, Jobs
<1>2. TypeOK'
  BY NicopediaAssumption DEF Inv, TypeOK, StepBegin, StopSeen, Pcs
<1>3. At(last)'
  BY <1>1 DEF At, StepBegin, Updates
<1>4. CallInv'
  BY <1>1, <1>3 DEF Inv, TypeOK, CallInv, StepBegin, StopSeen, At, Training, InMemory, Looping,
     Stepped, Ending, Steps
<1>5. StopInv' /\ SavedInv'
  BY DEF Inv, StepBegin, StopInv, SavedInv, Resumable, Name, InMemory
<1> QED
  BY <1>2, <1>4, <1>5, InsideInv DEF StepBegin

LEMMA ElementInv == Inv /\ Element => Inv'
<1> SUFFICES ASSUME Inv, Element PROVE Inv'
  OBVIOUS
<1>1. /\ job \in Jobs /\ job.target \in Steps /\ job.resume \in 0..MaxStep
      /\ job.kind = "train" /\ job.resume < job.target /\ allFinite
      /\ last \in job.resume..job.target /\ step = last + 1 /\ At(last) /\ step <= job.target
  BY DEF Inv, CallInv, Element, Training, InMemory, Looping, Jobs
<1>2. TypeOK'
  <2>1. elem' \in 0..Batch /\ stepFinite' \in BOOLEAN /\ pc' \in Pcs /\ interrupted' \in BOOLEAN
    <3>1. CASE StopSeen
      BY <3>1 DEF Inv, TypeOK, Element, Pcs
    <3>2. CASE ~StopSeen
      <4>1. elem \in 0..Batch /\ elem < Batch /\ elem' = elem + 1 /\ pc' = pc
            /\ stepFinite' \in {stepFinite, FALSE} /\ interrupted' = interrupted
        BY <3>2 DEF Inv, TypeOK, Element
      <4>2. elem' \in 0..Batch
        BY <4>1, NicopediaAssumption
      <4> QED
        BY <4>1, <4>2 DEF Inv, TypeOK
    <3> QED
      BY <3>1, <3>2
  <2> QED
    BY <2>1 DEF Inv, TypeOK, Element
<1>3. At(last)'
  BY <1>1 DEF At, Element, Updates
<1>4. CallInv'
  BY <1>1, <1>3 DEF Inv, TypeOK, CallInv, Element, StopSeen, At, Training, InMemory, Looping,
     Stepped, Ending, Steps
<1>5. StopInv' /\ SavedInv'
  BY DEF Inv, Element, StopInv, SavedInv, Resumable, Name, InMemory
<1> QED
  BY <1>2, <1>4, <1>5, InsideInv DEF Element

LEMMA AdamInv == Inv /\ Adam => Inv'
<1> SUFFICES ASSUME Inv, Adam PROVE Inv'
  OBVIOUS
<1>1. /\ job \in Jobs /\ job.target \in Steps /\ job.resume \in 0..MaxStep
      /\ job.kind = "train" /\ job.resume < job.target /\ allFinite
      /\ last \in job.resume..job.target /\ step = last + 1 /\ At(last) /\ step <= job.target
  BY DEF Inv, CallInv, Adam, Training, InMemory, Looping, Jobs
<1>2. PICK finite \in BOOLEAN :
        /\ cur' = [hist |-> Append(cur.hist, step), mom |-> Append(cur.mom, step),
                   finite |-> finite]
        /\ allFinite' = (stepFinite /\ finite)
  BY DEF Adam
<1>3. last \in Nat /\ step \in 1..MaxStep
  BY <1>1, NicopediaAssumption DEF Steps
<1>4. cur'.hist = Updates(step) /\ cur'.mom = Updates(step) /\ cur'.finite = finite
  BY <1>1, <1>2, <1>3, UpdatesNext DEF At
<1>5. cur' \in States
  <2>1. Updates(step) \in Seq(Nat)
    BY <1>3, UpdatesNext
  <2> QED
    BY <1>2, <1>4, <2>1 DEF States
<1>6. allFinite' => At(step)'
  BY <1>2, <1>4 DEF At, Adam, Updates
<1>7. /\ allFinite' \in BOOLEAN /\ late' \in {0, 1} /\ (late' = 1 => stop')
      /\ last' \in job.resume..job.target /\ (allFinite' => last' = step)
      /\ pc' \in {"save", "stepEnd", "after"} /\ (pc' # "after" <=> allFinite')
  BY <1>1, <1>2, <1>3 DEF Inv, TypeOK, StopInv, Adam, Steps
<1>8. TypeOK'
  BY <1>1, <1>5, <1>7, NicopediaAssumption DEF Inv, TypeOK, Adam, Pcs, Steps
<1>9. CallInv'
  <2>1. CASE pc' = "after"
    BY <1>1, <1>3, <1>7, <2>1 DEF CallInv, Adam, Training, InMemory, Looping, Stepped, Ending
  <2>2. CASE pc' # "after"
    <3>1. At(last)'
      BY <1>4, <1>6, <1>7, <2>2 DEF At, Updates, Adam
    <3>2. job' = job /\ step' = step /\ last' = step /\ allFinite'
          /\ pc' \in {"save", "stepEnd"}
      BY <1>7, <2>2 DEF Adam
    <3>3. Stepped' /\ ~Looping' /\ ~Ending'
      BY <3>2 DEF Looping, Stepped, Ending
    <3>4. last' > job'.resume /\ last' \in job'.resume..job'.target /\ job' \in Jobs
          /\ job'.kind = "train" /\ job'.resume < job'.target
      BY <1>1, <1>3, <1>7, <3>2, NicopediaAssumption DEF Steps
    <3> QED
      BY <3>1, <3>2, <3>3, <3>4 DEF CallInv
  <2> QED
    BY <2>1, <2>2
<1>10. StopInv'
  BY <1>7 DEF StopInv
<1>11. SavedInv'
  BY <1>1, <1>7 DEF Inv, TypeOK, Adam, SavedInv, Resumable, Name, InMemory
<1> QED
  BY <1>8, <1>9, <1>10, <1>11, InsideInv DEF Adam

LEMMA StepEndInv == Inv /\ StepEnd => Inv'
<1> SUFFICES ASSUME Inv, StepEnd PROVE Inv'
  OBVIOUS
<1>1. /\ job \in Jobs /\ job.target \in Steps /\ job.resume \in 0..MaxStep
      /\ job.kind = "train" /\ job.resume < job.target /\ allFinite
      /\ last \in job.resume..job.target /\ step = last /\ At(last) /\ last > job.resume
  BY DEF Inv, CallInv, StepEnd, Training, InMemory, Stepped, Jobs
<1>2. saved = step => Resumable(Here) /\ Here \in Names
  BY <1>1, NicopediaAssumption DEF Inv, SavedInv, Here, Name, Names, Jobs, Steps
<1>3. TypeOK'
  BY <1>1, <1>2, NicopediaAssumption DEF Inv, TypeOK, StepEnd, StopSeen, Pcs, Steps
<1>4. At(last)'
  BY <1>1 DEF At, StepEnd, Updates
<1>5. CallInv'
  BY <1>1, <1>4 DEF Inv, TypeOK, CallInv, StepEnd, StopSeen, At, Training, InMemory, Looping,
     Stepped, Ending, Steps
<1>6. StopInv' /\ SavedInv'
  BY DEF Inv, StepEnd, StopInv, StopSeen, SavedInv, Resumable, Name, InMemory
<1>7. \A n \in announced' : n \in announced \/ Resumable(n)
  BY <1>2 DEF StepEnd
<1> QED
  BY <1>3, <1>5, <1>6, <1>7, InsideInv DEF StepEnd

LEMMA SaveOpenInv ==
  ASSUME Inv,
         SaveOpen("save", "write") \/ SaveOpen("lastSave", "lastWrite")
  PROVE  Inv'
<1>1. TypeOK'
  BY DEF Inv, TypeOK, SaveOpen, Pcs, localVars, loopVars
<1>2. At(last)' <=> At(last)
  BY DEF At, SaveOpen, localVars, loopVars, Updates
<1>3. CallInv'
  <2>1. CASE SaveOpen("save", "write")
    BY <1>2, <2>1 DEF Inv, CallInv, SaveOpen, localVars, loopVars, Training, InMemory,
       Looping, Stepped, Ending
  <2>2. CASE SaveOpen("lastSave", "lastWrite")
    BY <1>2, <2>2 DEF Inv, CallInv, SaveOpen, localVars, loopVars, Training, InMemory,
       Looping, Stepped, Ending
  <2> QED
    BY <2>1, <2>2
<1>4. StopInv' /\ SavedInv'
  BY DEF Inv, SaveOpen, StopInv, SavedInv, Resumable, Name, InMemory, localVars, loopVars
<1> QED
  BY <1>1, <1>3, <1>4, InsideInv DEF SaveOpen, localVars, loopVars

\* The rename keeps every file canonical and everything resumable resumable.
LEMMA RenamedInv ==
  ASSUME Inv, pc \in {"write", "lastWrite"}, Renamed
  PROVE  /\ files' \in [Names -> Files \cup {Absent}] /\ CanonicalFiles'
         /\ Here \in Names /\ files'[Here] # Absent /\ ~files'[Here].torn /\ files'[Here].adam
         /\ \A n \in Names : Resumable(n) => Resumable(n)'
         /\ \A n \in Names : n # Here => files'[n] = files[n]
         /\ files'[Here] = Image /\ At(last) /\ job \in Jobs /\ last \in Steps
<1>1. Image \in Files /\ Here \in Names /\ files' \in [Names -> Files \cup {Absent}]
  BY RenamedType DEF Inv
<1>2. At(last) /\ job \in Jobs /\ last \in Steps
  BY NicopediaAssumption DEF Inv, CallInv, TypeOK, Stepped, Ending, Renamed, Writable, Steps
<1>3. files'[Here] = Image /\ \A n \in Names : n # Here => files'[n] = files[n]
  BY <1>1 DEF Renamed, Inv, TypeOK
<1>4. Image # Absent
  BY <1>1, NicopediaAssumption
<1>5. Image.adam /\ ~Image.torn /\ Here = Name(Image.conf, Image.step)
      /\ Image.hist = Updates(Image.step) /\ Image.mom = Updates(Image.step)
  BY <1>2 DEF Image, At, Here
<1>6. CanonicalFiles'
  BY <1>1, <1>3, <1>5 DEF Inv, CanonicalFiles, Canonical, Name, Updates
<1>7. \A n : Resumable(n)' <=> (files'[n] # Absent /\ ~files'[n].torn /\ files'[n].adam)
  BY DEF Resumable
<1> QED
  BY <1>1, <1>2, <1>3, <1>4, <1>5, <1>6, <1>7 DEF Resumable

LEMMA IntervalCommitInv == Inv /\ IntervalCommit => Inv'
<1> SUFFICES ASSUME Inv, IntervalCommit PROVE Inv'
  OBVIOUS
<1>1. /\ files' \in [Names -> Files \cup {Absent}] /\ CanonicalFiles'
      /\ Here \in Names /\ files'[Here] # Absent /\ ~files'[Here].torn /\ files'[Here].adam
      /\ \A n \in Names : Resumable(n) => Resumable(n)'
      /\ At(last) /\ job \in Jobs /\ last \in Steps
  BY RenamedInv DEF IntervalCommit
<1>2. TypeOK'
  BY <1>1, NicopediaAssumption DEF Inv, TypeOK, IntervalCommit, Pcs, Steps
<1>3. At(last)'
  BY <1>1 DEF At, IntervalCommit, Updates
<1>4. CallInv'
  BY <1>3 DEF Inv, CallInv, IntervalCommit, Training, InMemory, Looping, Stepped, Ending
<1>5. StopInv'
  BY DEF Inv, StopInv, IntervalCommit
<1>6. SavedInv'
  BY <1>1, NicopediaAssumption
     DEF IntervalCommit, SavedInv, Resumable, InMemory, Here, Name, Steps
<1>7. PromisedIsDurable'
  <2>1. \A n \in announced' : Resumable(n)'
    BY <1>1 DEF Inv, TypeOK, PromisedIsDurable, IntervalCommit
  <2> QED
    BY <2>1 DEF Inv, PromisedIsDurable, IntervalCommit
<1>8. ReportedAsNamed'
  BY DEF Inv, ReportedAsNamed, IntervalCommit, Updates
<1> QED
  BY <1>1, <1>2, <1>4, <1>5, <1>6, <1>7, <1>8 DEF Inv

LEMMA AfterInv == Inv /\ After => Inv'
<1> SUFFICES ASSUME Inv, After PROVE Inv'
  OBVIOUS
<1>1. TypeOK'
  BY NicopediaAssumption DEF Inv, TypeOK, After, Pcs
<1>2. At(last)' <=> At(last)
  BY DEF At, After, Updates
<1>3. CallInv'
  BY <1>2 DEF Inv, CallInv, After, Training, InMemory, Looping, Stepped, Ending
<1>4. StopInv' /\ SavedInv'
  BY DEF Inv, After, StopInv, SavedInv, Resumable, Name, InMemory
<1> QED
  BY <1>1, <1>3, <1>4, InsideInv DEF After

LEMMA ReplayInv == Inv /\ Replay => Inv'
<1> SUFFICES ASSUME Inv, Replay PROVE Inv'
  OBVIOUS
<1>1. TypeOK'
  <2>1. replay' \in -1..MaxStep
    <3>1. replay \in -1..MaxStep /\ last \in 0..MaxStep
      BY DEF Inv, TypeOK
    <3>2. replay' = replay \/ (replay < last /\ replay' = replay + 1)
      BY DEF Replay
    <3> QED
      BY <3>1, <3>2, NicopediaAssumption
  <2>2. interrupted' \in BOOLEAN /\ pc' \in Pcs
    <3>1. CASE replay < last /\ ~StopSeen
      BY <3>1 DEF Inv, TypeOK, Replay
    <3>2. CASE ~(replay < last /\ ~StopSeen)
      <4>1. interrupted' = (replay < last) /\ pc' = "finish"
        BY <3>2, Zenon DEF Replay
      <4> QED
        BY <4>1 DEF Pcs
    <3> QED
      BY <3>1, <3>2
  <2> QED
    BY <2>1, <2>2 DEF Inv, TypeOK, Replay
<1>2. At(last)' <=> At(last)
  BY DEF At, Replay, Updates
<1>3. CallInv'
  BY <1>2 DEF Inv, CallInv, Replay, StopSeen, Training, InMemory, Looping, Stepped, Ending
<1>4. StopInv' /\ SavedInv'
  BY DEF Inv, Replay, StopSeen, StopInv, SavedInv, Resumable, Name, InMemory
<1> QED
  BY <1>1, <1>3, <1>4, InsideInv DEF Replay

\* What the final checkpoint rules let through.
LEMMA FinalRules ==
  ASSUME Inv, pc = "finish", NEW cpuFinite \in BOOLEAN
  PROVE  /\ Interrupted \in BOOLEAN /\ Eligible(cpuFinite) \in BOOLEAN
         /\ FinalFinite(cpuFinite) \in BOOLEAN /\ allFinite \in BOOLEAN
         /\ job \in Jobs /\ job.kind = "train" /\ job.resume < job.target
         /\ last \in 0..MaxStep /\ job.resume \in 0..MaxStep /\ job.target \in Steps
         /\ Eligible(cpuFinite) => At(last) /\ last > job.resume /\ allFinite
         /\ Eligible(cpuFinite) /\ ~Interrupted => last = job.target
         /\ allFinite /\ FinalFinite(cpuFinite) /\ (Interrupted => last > job.resume)
              => Eligible(cpuFinite)
<1>1. /\ job \in Jobs /\ job.kind = "train" /\ job.resume < job.target
      /\ last \in 0..MaxStep /\ job.resume \in 0..MaxStep /\ job.target \in Steps
      /\ (allFinite => At(last)) /\ (allFinite /\ ~interrupted => last = job.target)
  BY DEF Inv, TypeOK, CallInv, Training, InMemory, Ending, Jobs
<1>2. Interrupted \in BOOLEAN /\ allFinite \in BOOLEAN
  BY DEF Interrupted, StopSeen, Inv, TypeOK
<1>3. FinalFinite(cpuFinite) \in BOOLEAN
  BY <1>2 DEF FinalFinite, Inv, TypeOK, States
<1>4. ~Interrupted => ~interrupted
  BY DEF Interrupted
<1> QED
  BY <1>1, <1>2, <1>3, <1>4, NicopediaAssumption
     DEF Eligible, finalWriteAllowed, interruptedWriteAllowed, Steps

LEMMA FinishInv == Inv /\ Finish => Inv'
<1> SUFFICES ASSUME Inv, Finish PROVE Inv'
  OBVIOUS
<1>1. PICK healthy, cpuFinite \in BOOLEAN :
        /\ Eligible(cpuFinite) => AlreadySaved
        /\ Return(Status(healthy, cpuFinite),
                  allFinite /\ FinalFinite(cpuFinite), Eligible(cpuFinite))
  BY DEF Finish
<1> DEFINE st == Status(healthy, cpuFinite)
           f  == allFinite /\ FinalFinite(cpuFinite)
           w  == Eligible(cpuFinite)
<1>2. /\ Interrupted \in BOOLEAN /\ w \in BOOLEAN /\ f \in BOOLEAN
      /\ FinalFinite(cpuFinite) \in BOOLEAN /\ allFinite \in BOOLEAN
      /\ job \in Jobs /\ job.kind = "train" /\ last \in 0..MaxStep
      /\ w => At(last) /\ last > job.resume /\ allFinite
      /\ w /\ ~Interrupted => last = job.target
      /\ job.resume \in 0..MaxStep
      /\ f /\ (Interrupted => last > job.resume) => w
  BY FinalRules DEF Finish
<1>3. /\ st \in {"SUCCESS", "FAILED", "CANCELLED"}
      /\ (st = "CANCELLED" <=> Interrupted)
      /\ (st = "SUCCESS" => ~Interrupted /\ w)
  BY <1>2 DEF Status, Eligible
<1>4. w => last > 0 /\ Resumable(Here)
  <2> SUFFICES ASSUME w PROVE last > 0 /\ Resumable(Here)
    OBVIOUS
  <2>1. AlreadySaved /\ last > 0
    BY <1>1, <1>2, NicopediaAssumption
  <2> QED
    BY <2>1, <1>2 DEF AlreadySaved, Inv, SavedInv, Here
<1>5. st = "SUCCESS" => SuccessSays(job.kind, cur.hist)
  BY <1>2, <1>3 DEF SuccessSays, At
<1>6. pc # "idle" /\ files' = files /\ stop' = stop
  BY DEF Finish
<1> HIDE DEF st, f, w
<1>7. Return(st, f, w)
  BY <1>1 DEF st, f, w
<1> QED
  BY <1>2, <1>3, <1>4, <1>5, <1>6, <1>7, ReadOnlyReturnInv

LEMMA FinishSavingInv == Inv /\ FinishSaving => Inv'
<1> SUFFICES ASSUME Inv, FinishSaving PROVE Inv'
  OBVIOUS
<1>1. PICK cpuFinite \in BOOLEAN : Eligible(cpuFinite) /\ ~AlreadySaved
  BY DEF FinishSaving
<1>2. /\ Interrupted \in BOOLEAN /\ job \in Jobs /\ job.kind = "train"
      /\ job.resume < job.target /\ At(last) /\ last > job.resume /\ allFinite
      /\ (~Interrupted => last = job.target) /\ job.resume \in 0..MaxStep
  BY <1>1, FinalRules DEF FinishSaving
<1>3. TypeOK'
  BY <1>2 DEF Inv, TypeOK, FinishSaving, Pcs
<1>4. At(last)'
  BY <1>2 DEF At, FinishSaving, Updates
<1>5. CallInv'
  BY <1>2, <1>4 DEF Inv, CallInv, FinishSaving, Training, InMemory, Looping, Stepped, Ending
<1>6. StopInv' /\ SavedInv'
  BY DEF Inv, FinishSaving, StopInv, SavedInv, Resumable, Name, InMemory
<1> QED
  BY <1>3, <1>5, <1>6, InsideInv DEF FinishSaving

LEMMA FinalCommitInv == Inv /\ FinalCommit => Inv'
<1> SUFFICES ASSUME Inv, FinalCommit PROVE Inv'
  OBVIOUS
<1>1. /\ files' \in [Names -> Files \cup {Absent}] /\ CanonicalFiles'
      /\ Here \in Names /\ files'[Here] # Absent /\ ~files'[Here].torn /\ files'[Here].adam
      /\ \A n \in Names : Resumable(n) => Resumable(n)'
      /\ At(last) /\ last \in Steps
  BY RenamedInv DEF FinalCommit
<1>2. PICK healthy \in BOOLEAN :
        Return(IF interrupted THEN "CANCELLED"
               ELSE IF healthy THEN "SUCCESS" ELSE "FAILED", TRUE, TRUE)
  BY DEF FinalCommit
<1> DEFINE st == IF interrupted THEN "CANCELLED"
                 ELSE IF healthy THEN "SUCCESS" ELSE "FAILED"
<1>3. /\ pc # "idle" /\ stop' = stop /\ job.kind = "train"
      /\ (~interrupted => last = job.target)
  BY DEF FinalCommit, Inv, CallInv, Training, InMemory
<1>4. st \in {"SUCCESS", "FAILED", "CANCELLED"} /\ (st = "SUCCESS" => ~interrupted)
  OBVIOUS
<1>5. st = "SUCCESS" => SuccessSays(job.kind, cur.hist)
  BY <1>1, <1>3, <1>4 DEF SuccessSays, At
<1>6. last > 0
  BY <1>1, NicopediaAssumption DEF Steps
<1> HIDE DEF st
<1>7. Return(st, TRUE, TRUE)
  BY <1>2 DEF st
<1> QED
  BY <1>1, <1>3, <1>4, <1>5, <1>6, <1>7, ReturnInv

LEMMA EvaluateLoadInv == Inv /\ EvaluateLoad => Inv'
<1> SUFFICES ASSUME Inv, EvaluateLoad PROVE Inv'
  OBVIOUS
<1> DEFINE r == job.resume
<1>1. job \in Jobs /\ r \in 1..MaxStep /\ job.kind = "evaluate"
  BY NicopediaAssumption DEF Inv, CallInv, EvaluateLoad, Jobs
<1>2. Name(job.conf, r) \in Names
  BY <1>1, NicopediaAssumption DEF Name, Names, Steps, Jobs
<1>3. ResumeFile \in Files /\ ResumeFile.hist = Updates(r)
  BY <1>1, <1>2 DEF Inv, CanonicalFiles, Canonical, TypeOK, EvaluateLoad, Loads, ResumeFile
<1>4. cur' \in States /\ cur'.hist = Updates(r)
  BY <1>3, InitialType DEF EvaluateLoad, States, Files
<1>5. TypeOK'
  BY <1>1, <1>4 DEF Inv, TypeOK, EvaluateLoad, Pcs, loopVars
<1>6. CallInv'
  BY <1>1, <1>4 DEF Inv, CallInv, EvaluateLoad, Updates, Training, InMemory, Looping, Stepped,
     Ending, loopVars
<1>7. StopInv' /\ SavedInv'
  BY DEF Inv, EvaluateLoad, StopInv, SavedInv, Resumable, Name, InMemory, loopVars
<1> QED
  BY <1>5, <1>6, <1>7, InsideInv DEF EvaluateLoad

\* The two calls that end in a report of their own and write nothing.
LEMMA ReadersInv == Inv /\ (Evaluate \/ Probe) => Inv'
<1> SUFFICES ASSUME Inv, Evaluate \/ Probe PROVE Inv'
  OBVIOUS
<1>1. PICK ok \in BOOLEAN : Return(IF ok THEN "SUCCESS" ELSE "FAILED", ok, FALSE)
  BY DEF Evaluate, Probe
<1> DEFINE st == IF ok THEN "SUCCESS" ELSE "FAILED"
<1>2. pc \in {"evaluate", "probe"} /\ job.kind = pc /\ files' = files /\ stop' = stop
  BY DEF Evaluate, Probe, Inv, CallInv
<1>3. SuccessSays(job.kind, cur.hist)
  BY <1>2 DEF SuccessSays, Inv, CallInv, Initial
<1>4. st \in {"SUCCESS", "FAILED", "CANCELLED"}
  OBVIOUS
<1> HIDE DEF st
<1>5. Return(st, ok, FALSE)
  BY <1>1 DEF st
<1> QED
  BY <1>2, <1>3, <1>4, <1>5, ReadOnlyReturnInv

LEMMA RequestStopInv == Inv /\ RequestStop => Inv'
<1> SUFFICES ASSUME Inv, RequestStop PROVE Inv'
  OBVIOUS
<1>1. TypeOK'
  BY DEF Inv, TypeOK, RequestStop, localVars, loopVars
<1>2. CallInv'
  BY DEF Inv, CallInv, RequestStop, localVars, loopVars, At, Updates, Training, InMemory,
     Looping, Stepped, Ending
<1>3. StopInv' /\ SavedInv'
  BY DEF Inv, RequestStop, StopInv, SavedInv, Resumable, Name, InMemory, localVars, loopVars
<1> QED
  BY <1>1, <1>2, <1>3, InsideInv DEF RequestStop

LEMMA CrashInv == Inv /\ Crash => Inv'
<1> SUFFICES ASSUME Inv, Crash PROVE Inv'
  OBVIOUS
<1>1. TypeOK'
  BY EnteredType DEF Inv, TypeOK, Crash, Pcs
<1>2. CallInv' /\ StopInv' /\ SavedInv'
  BY DEF Crash, CallInv, StopInv, SavedInv, Entered, Training, InMemory, Looping, Stepped,
     Ending
<1> QED
  BY <1>1, <1>2, InsideInv DEF Crash

----------------------------------------------------------------------------
(* The theorems *)

LEMMA InitInv == Init => Inv
<1> SUFFICES ASSUME Init PROVE Inv
  OBVIOUS
<1>1. files = [n \in Names |-> Absent]
      \/ \E c \in Configs, s \in Steps :
           files = [n \in Names |-> IF n = Name(c, s) THEN Legacy(c, s) ELSE Absent]
  BY DEF Init
<1>2. \A c \in Configs, s \in Steps : Legacy(c, s) \in Files /\ Canonical(Legacy(c, s), Name(c, s))
  <2> TAKE c \in Configs, s \in Steps
  <2>1. s \in Nat /\ Updates(s) \in Seq(Nat) /\ <<>> \in Seq(Nat)
    BY UpdatesNext, NicopediaAssumption DEF Steps
  <2> QED
    BY <2>1 DEF Legacy, Files, Canonical
<1>3. files \in [Names -> Files \cup {Absent}] /\ CanonicalFiles
  BY <1>1, <1>2 DEF CanonicalFiles
<1>4. Locals(Absent) /\ pc = "idle" /\ stop = FALSE /\ announced = {} /\ report = Absent
  BY DEF Init
<1>5. TypeOK
  <2>1. last = 0 /\ cur = Initial /\ job = Absent
    BY <1>4 DEF Locals
  <2>2. /\ step \in 0..(MaxStep + 1) /\ elem \in 0..Batch /\ last \in 0..MaxStep
        /\ saved \in 0..MaxStep /\ replay \in -1..MaxStep /\ late \in Nat
    BY <1>4, <2>1, NicopediaAssumption DEF Locals
  <2>3. stepFinite \in BOOLEAN /\ allFinite \in BOOLEAN /\ interrupted \in BOOLEAN
    BY <1>4 DEF Locals
  <2> QED
    BY <1>3, <1>4, <2>1, <2>2, <2>3, InitialType DEF TypeOK, Pcs
<1>6. CallInv /\ StopInv /\ SavedInv
  BY <1>4 DEF CallInv, StopInv, SavedInv, Locals, Training, InMemory, Looping, Stepped, Ending
<1> QED
  BY <1>3, <1>4, <1>5, <1>6 DEF Inv, PromisedIsDurable, ReportedAsNamed

LEMMA FailuresInv ==
  Inv /\ (PrepareFails \/ ResumeFails \/ ScratchFails \/ ExecuteFails \/ SaveFails) => Inv'
  BY FailInv DEF PrepareFails, ResumeFails, ScratchFails, ExecuteFails, SaveFails

LEMMA StutterInv == Inv /\ UNCHANGED vars => Inv'
<1> SUFFICES ASSUME Inv, UNCHANGED vars PROVE Inv'
  OBVIOUS
<1>1. TypeOK'
  BY DEF Inv, TypeOK, vars, localVars, loopVars
<1>2. CallInv'
  BY DEF Inv, CallInv, vars, localVars, loopVars, At, Updates, Training, InMemory,
     Looping, Stepped, Ending
<1>3. StopInv' /\ SavedInv'
  BY DEF Inv, vars, StopInv, SavedInv, Resumable, Name, InMemory, localVars, loopVars
<1> QED
  BY <1>1, <1>2, <1>3, InsideInv DEF vars

LEMMA NextInv == Inv /\ [Next]_vars => Inv'
  BY StartInv, PreparedInv, FailuresInv, ResumeInv, ScratchInv, StepBeginInv, ElementInv,
     AdamInv, StepEndInv, SaveOpenInv, IntervalCommitInv, AfterInv, ReplayInv, FinishInv,
     FinishSavingInv, FinalCommitInv, EvaluateLoadInv, ReadersInv, RequestStopInv, CrashInv,
     StutterInv
  DEF Next, Thread

LEMMA Inductive == Spec => []Inv
  BY InitInv, NextInv, PTL DEF Spec

\* Every variable keeps its type.
THEOREM TypeCorrect == Spec => []TypeOK
  BY Inductive, PTL DEF Inv

\* Through every crash, failed save and resumed segment, a file under a
\* checkpoint name is whole and is what an uninterrupted run would have written.
THEOREM FilesCanonical == Spec => []CanonicalFiles
  BY Inductive, PTL DEF Inv

\* A checkpoint that telemetry or a report has named can be resumed from, from
\* then on.
THEOREM PromisesDurable == Spec => []PromisedIsDurable
  BY Inductive, PTL DEF Inv

\* A success speaks of the state of the step it names.
THEOREM SuccessIsExact == Spec => []ReportedAsNamed
  BY Inductive, PTL DEF Inv

\* At most the optimizer step in flight completes after a stop.
THEOREM StopIsBounded == Spec => []StopBounded
<1>1. Inv => StopBounded
  BY DEF Inv, StopInv, StopBounded
<1> QED
  BY <1>1, Inductive, PTL

----------------------------------------------------------------------------
(* The refinement, where two configurations have no checkpoint name in common *)

LEMMA InMemoryPosition ==
  ASSUME Inv, pc \in InMemory
  PROVE  /\ Position = <<job.conf, last>> /\ Position # Absent
         /\ job \in Jobs /\ last \in 0..MaxStep
<1>1. job \in Jobs /\ last \in 0..MaxStep
  BY DEF Inv, TypeOK, CallInv, InMemory
<1>2. <<job.conf, last>> \in Configs \X (0..MaxStep)
  BY <1>1 DEF Jobs
<1> QED
  BY <1>1, <1>2, NicopediaAssumption DEF Position

LEMMA DurableSame == files' = files => Durable' = Durable
  BY DEF Durable, Resumable, Canonical, Name, Updates

LEMMA DurableGrows ==
  ASSUME Inv, pc \in {"write", "lastWrite"}, Renamed,
         \A c, d \in Configs : Shape[c] = Shape[d] => c = d
  PROVE  Durable' = Durable \cup {<<job.conf, last>>}
<1>1. /\ \A n \in Names : n # Here => files'[n] = files[n]
      /\ Here \in Names /\ files'[Here] # Absent /\ ~files'[Here].torn /\ files'[Here].adam
      /\ files'[Here] = Image /\ At(last) /\ job \in Jobs /\ last \in Steps
  BY RenamedInv
<1>2. job.conf \in Configs
  BY <1>1 DEF Jobs
<1>3. ASSUME NEW q \in Configs \X Steps
      PROVE  q \in Durable' <=> q \in Durable \/ q = <<job.conf, last>>
  <2>1. PICK c \in Configs, s \in Steps : q = <<c, s>>
    OBVIOUS
  <2>2. Name(c, s) \in Names
    BY NicopediaAssumption DEF Name, Names
  <2>3. Name(c, s) = Here <=> q = <<job.conf, last>>
    BY <1>1, <1>2, <2>1 DEF Here, Name
  <2> DEFINE Holds(f) == /\ f # Absent /\ ~f.torn /\ f.adam /\ f.conf = c /\ f.step = s
                         /\ f.hist = Updates(s) /\ f.mom = Updates(s)
  <2>4. q[1] = c /\ q[2] = s
    BY <2>1
  <2>5. q \in Durable <=> Holds(files[Name(c, s)])
    BY <2>4 DEF Durable, Resumable, Canonical, Name
  <2>6. q \in Durable' <=> Holds(files'[Name(c, s)])
    BY <2>4 DEF Durable, Resumable, Canonical, Name, Updates
  <2>7. CASE q = <<job.conf, last>>
    <3>1. files'[Name(c, s)] = Image /\ files'[Name(c, s)] # Absent
      BY <1>1, <2>3, <2>7
    <3>2. c = job.conf /\ s = last
      BY <2>1, <2>7
    <3> QED
      BY <1>1, <2>6, <2>7, <3>1, <3>2 DEF Image, At
  <2>8. CASE q # <<job.conf, last>>
    <3>1. files'[Name(c, s)] = files[Name(c, s)]
      BY <1>1, <2>2, <2>3, <2>8
    <3> QED
      BY <2>5, <2>6, <2>8, <3>1
  <2> QED
    BY <2>7, <2>8
<1>4. Durable' \subseteq Configs \X Steps /\ Durable \subseteq Configs \X Steps
  BY DEF Durable
<1>5. <<job.conf, last>> \in Configs \X Steps
  BY <1>1, <1>2
<1> QED
  BY <1>3, <1>4, <1>5

LEMMA BeginSteps ==
  ASSUME Inv, Resume \/ Scratch
  PROVE  \E c \in Configs : T!Begin(c)
<1>1. job \in Jobs /\ job.conf \in Configs /\ Position = Absent /\ Durable' = Durable
      /\ last' = last /\ job' = job /\ pc' = "top"
  BY DurableSame DEF Inv, CallInv, Jobs, Position, InMemory, Resume, Scratch
<1>2. Position' = <<job.conf, last>>
  BY <1>1 DEF Position, InMemory
<1>3. CASE Resume
  <2> DEFINE r == job.resume
  <2>1. r \in 1..MaxStep /\ last = r
    BY <1>1, <1>3, NicopediaAssumption DEF Inv, CallInv, Resume, Jobs, Training
  <2>2. Name(job.conf, r) \in Names
    BY <1>1, <2>1, NicopediaAssumption DEF Name, Names, Steps
  <2>3. Canonical(ResumeFile, Name(job.conf, r)) /\ Resumable(Name(job.conf, r))
        /\ ResumeFile.conf = job.conf /\ ResumeFile.step = r
    BY <1>3, <2>2 DEF Inv, CanonicalFiles, Resume, CanResume, Loads, ResumeFile, Resumable
  <2>4. <<job.conf, r>> \in Durable
    BY <1>1, <2>1, <2>3 DEF Durable, ResumeFile, Steps
  <2> QED
    BY <1>1, <1>2, <2>1, <2>4 DEF T!Begin
<1>4. CASE Scratch
  <2>1. last = 0
    BY <1>4 DEF Inv, CallInv, Scratch
  <2> QED
    BY <1>1, <1>2, <2>1 DEF T!Begin
<1> QED
  BY <1>3, <1>4

LEMMA AdamSteps ==
  ASSUME Inv, Adam
  PROVE  T!Advance \/ UNCHANGED T!trajectoryVars
<1>1. Durable' = Durable /\ job' = job /\ pc \in InMemory /\ pc' \in InMemory
  BY DurableSame DEF Adam, InMemory
<1>2. Position = <<job.conf, last>> /\ Position # Absent
  BY <1>1, InMemoryPosition
<1>3. Position' = <<job.conf, last'>>
  BY <1>1 DEF Position
<1>4. step = last + 1 /\ step <= job.target /\ job.target \in 1..MaxStep /\ last \in 0..MaxStep
  BY DEF Inv, TypeOK, CallInv, Adam, Looping, Jobs, Steps
<1>5. CASE last' = last
  BY <1>1, <1>2, <1>3, <1>5 DEF T!trajectoryVars
<1>6. CASE last' = last + 1
  BY <1>1, <1>2, <1>3, <1>4, <1>6, NicopediaAssumption DEF T!Advance
<1> QED
  BY <1>4, <1>5, <1>6 DEF Adam

\* The steps that end a run.
LEMMA LeaveSteps ==
  ASSUME Inv, files' = files, pc' = "idle"
  PROVE  T!Leave \/ UNCHANGED T!trajectoryVars
<1>1. Durable' = Durable /\ Position' = Absent
  BY DurableSame DEF Position, InMemory
<1>2. CASE pc \in InMemory
  BY <1>1, <1>2, InMemoryPosition DEF T!Leave
<1>3. CASE pc \notin InMemory
  BY <1>1, <1>3 DEF Position, T!trajectoryVars
<1> QED
  BY <1>2, <1>3

LEMMA CommitSteps ==
  ASSUME Inv, IntervalCommit \/ FinalCommit,
         \A c, d \in Configs : Shape[c] = Shape[d] => c = d
  PROVE  T!Commit \/ T!Leave
<1>1. pc \in {"write", "lastWrite"} /\ pc \in InMemory /\ Renamed
  BY DEF IntervalCommit, FinalCommit, InMemory
<1>2. Durable' = Durable \cup {<<job.conf, last>>}
  BY <1>1, DurableGrows
<1>3. Position = <<job.conf, last>> /\ Position # Absent
  BY <1>1, InMemoryPosition
<1>4. CASE IntervalCommit
  <2>1. Position' = Position
    BY <1>4 DEF IntervalCommit, Position, InMemory
  <2> QED
    BY <1>2, <1>3, <2>1 DEF T!Commit
<1>5. CASE FinalCommit
  <2>1. Position' = Absent
    BY <1>5 DEF FinalCommit, Return, Position, InMemory
  <2> QED
    BY <1>2, <1>3, <2>1 DEF T!Leave
<1> QED
  BY <1>4, <1>5

\* The other steps move nothing that the abstract specification sees.
LEMMA QuietSteps ==
  ASSUME files' = files, job' = job, last' = last, pc' \in InMemory <=> pc \in InMemory
  PROVE  UNCHANGED T!trajectoryVars
  BY DurableSame DEF Position, T!trajectoryVars, InMemory

LEMMA StepsRefine ==
  ASSUME Inv, [Next]_vars,
         \A c, d \in Configs : Shape[c] = Shape[d] => c = d
  PROVE  [T!Next]_T!trajectoryVars
<1>1. CASE \E j \in Jobs : Start(j)
  <2>1. Position' = Position /\ files' = files
    BY <1>1 DEF Start, Position, InMemory
  <2> QED
    BY <2>1, DurableSame DEF T!trajectoryVars
<1>2. CASE Resume \/ Scratch
  BY <1>2, BeginSteps DEF T!Next
<1>3. CASE Adam
  BY <1>3, AdamSteps DEF T!Next
<1>4. CASE \/ PrepareFails \/ ResumeFails \/ ScratchFails \/ ExecuteFails \/ SaveFails
           \/ Finish \/ Evaluate \/ Probe \/ Crash
  <2>1. files' = files /\ pc' = "idle"
    BY <1>4 DEF PrepareFails, ResumeFails, ScratchFails, ExecuteFails, SaveFails, Finish,
       Evaluate, Probe, Crash, Fail, Return
  <2> QED
    BY <2>1, LeaveSteps DEF T!Next
<1>5. CASE IntervalCommit \/ FinalCommit
  BY <1>5, CommitSteps DEF T!Next
<1>6. CASE Prepared \/ EvaluateLoad
  BY <1>6, QuietSteps DEF Prepared, EvaluateLoad, localVars, loopVars, InMemory
<1>7. CASE StepBegin \/ Element \/ StepEnd
  BY <1>7, QuietSteps DEF StepBegin, Element, StepEnd, InMemory
<1>8. CASE After \/ Replay \/ FinishSaving
  BY <1>8, QuietSteps DEF After, Replay, FinishSaving, InMemory
<1>9. CASE \/ SaveOpen("save", "write") \/ SaveOpen("lastSave", "lastWrite")
           \/ RequestStop \/ UNCHANGED vars
  BY <1>9, QuietSteps DEF SaveOpen, RequestStop, vars, localVars, loopVars, InMemory
<1> QED
  BY <1>1, <1>2, <1>3, <1>4, <1>5, <1>6, <1>7, <1>8, <1>9 DEF Next, Thread

LEMMA InitRefines == Init => T!Init
<1> SUFFICES ASSUME Init PROVE T!Init
  OBVIOUS
<1>1. Position = Absent
  BY DEF Init, Position, InMemory
<1>2. \A n \in Names : ~Resumable(n)
  BY DEF Init, Resumable, Legacy
<1>3. \A p \in Configs \X Steps : Name(p[1], p[2]) \in Names
  BY NicopediaAssumption DEF Name, Names
<1>4. Durable = {}
  BY <1>2, <1>3 DEF Durable
<1> QED
  BY <1>1, <1>4 DEF T!Init

\* When no two configurations share a checkpoint name, the loop with its files
\* implements the durable trajectory: it only moves along the updates, begins
\* where something durable is, and never loses it.
THEOREM ImplementsTrajectory ==
  ASSUME \A c, d \in Configs : Shape[c] = Shape[d] => c = d
  PROVE  Spec => Trajectory
<1>1. Inv /\ [Next]_vars => [T!Next]_T!trajectoryVars
  BY StepsRefine
<1> QED
  BY InitRefines, Inductive, <1>1, PTL DEF Spec, Trajectory, T!Spec

\* And then a checkpoint is only ever overwritten by one of its own
\* configuration: it is the name alone that keeps them apart.
THEOREM InjectiveNamesKeepCheckpoints ==
  ASSUME \A c, d \in Configs : Shape[c] = Shape[d] => c = d
  PROVE  Spec => NeverReplaced
<1> DEFINE Kept == \A n \in Names :
              Resumable(n) => Resumable(n)' /\ files'[n].conf = files[n].conf
<1>1. ASSUME Inv, [Next]_vars PROVE Kept
  <2>1. CASE files' = files
    BY <2>1 DEF Resumable
  <2>2. CASE pc \in {"write", "lastWrite"} /\ Renamed
    <3>1. /\ Here \in Names /\ files'[Here] = Image /\ job \in Jobs
          /\ \A n \in Names : Resumable(n) => Resumable(n)'
          /\ \A n \in Names : n # Here => files'[n] = files[n]
      BY <1>1, <2>2, RenamedInv
    <3>2. ASSUME Resumable(Here) PROVE files[Here].conf = job.conf
      <4>1. /\ files[Here] \in Files
            /\ Here = Name(files[Here].conf, files[Here].step)
        BY <1>1, <3>1, <3>2 DEF Inv, TypeOK, CanonicalFiles, Canonical, Resumable
      <4>2. Shape[files[Here].conf] = Shape[job.conf]
        BY <4>1 DEF Here, Name
      <4> QED
        BY <3>1, <4>1, <4>2 DEF Files, Jobs
    <3> QED
      BY <3>1, <3>2 DEF Image
  <2>3. files' = files \/ (pc \in {"write", "lastWrite"} /\ Renamed)
    <3>1. CASE Next
      BY <3>1 DEF Next, Thread, Start, Prepared, PrepareFails, Resume, ResumeFails, Scratch,
         ScratchFails, StepBegin, Element, Adam, ExecuteFails, StepEnd, SaveOpen, SaveFails,
         IntervalCommit, After, Replay, Finish, FinishSaving, FinalCommit, EvaluateLoad,
         Evaluate, Probe, RequestStop, Crash
    <3> QED
      BY <1>1, <3>1 DEF vars
  <2> QED
    BY <2>1, <2>2, <2>3
<1>2. Inv /\ [Next]_vars => [Kept]_vars
  BY <1>1
<1> QED
  BY Inductive, <1>2, PTL DEF Spec, NeverReplaced
=============================================================================
