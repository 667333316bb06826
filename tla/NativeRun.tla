----------------------------- MODULE NativeRun -----------------------------
(***************************************************************************)
(* Who may be inside the synchronous JNI bridge, and whom a stop request   *)
(* reaches.  Four kinds of threads share the process-global flags of       *)
(* native_bridge.cpp:                                                      *)
(*                                                                         *)
(*   "standalone"  the PhoneLM-training thread in NativeHtpTrainingBackend *)
(*   "benchmark"   the PhoneLM-benchmark thread in NativeBenchmarkEngine   *)
(*   "generation"  the generation thread in NativeHtpGenerationBackend     *)
(*   Debug         threads of MainActivity.runDebugIntentIfRequested, which*)
(*                 enter JNI without asking NativeRunArbiter               *)
(*                                                                         *)
(* A stop request runs on another thread than the run it is meant for: it  *)
(* decides under a Kotlin lock whether the run is inside JNI and calls     *)
(* nativeRequestStop after leaving the lock.                               *)
(***************************************************************************)
EXTENDS Naturals, FiniteSets

CONSTANTS Debug,     \* debug threads that bypass the arbiter
          NoOwner,   \* NativeRunArbiter.owner = null
          MaxRuns    \* bound: runs started by each thread

Arbitrated == {"standalone", "benchmark", "generation"}
Stoppable  == {"standalone", "benchmark"}
Actors     == Arbitrated \cup Debug

ASSUME NativeRunAssumption ==
  /\ MaxRuns \in [Actors -> Nat]
  /\ Debug \cap Arbitrated = {}
  /\ NoOwner \notin Actors

VARIABLES
  owner,             \* NativeRunArbiter.owner
  gRunning, gNativeCallEntered, gPendingStop, gStopRequested, \* native globals
  pc,                \* where each thread is
  runs,              \* runs each thread has begun, bounded by MaxRuns
  runArmed, running, pendingStop, nativeCallEntered,  \* training backend
  callbackFailure,   \* the JNI progress callback met a malformed record
  prepared, benchPendingStop,                         \* benchmark engine
  stopCall,          \* progress of the stop request of each stoppable owner
  sessionClosed,     \* TrainingSession.closed
  asked,             \* history: a stop was accepted for the current run
  misled             \* history: the last one met a debug intent in the guard

nativeVars == <<gRunning, gNativeCallEntered, gPendingStop, gStopRequested>>
trainVars  == <<runArmed, running, pendingStop, nativeCallEntered,
                callbackFailure>>
benchVars  == <<prepared, benchPendingStop>>
stopVars   == <<stopCall, sessionClosed, asked, misled>>
vars == <<owner, nativeVars, pc, runs, trainVars, benchVars, stopVars>>

Pcs == {"idle", "queued", "entry", "acquired", "cancelled", "staging",
        "cancelledBeforeJni", "jni", "guarded", "loop", "replay", "returned",
        "clearStop", "finally", "release", "terminal"}

\* The pcs between a successful tryAcquire and the release that ends the run.
Holding == {"acquired", "cancelled", "staging", "cancelledBeforeJni", "jni",
            "guarded", "loop", "replay", "returned", "clearStop", "finally",
            "release"}
\* The pcs between the gRunning exchange and the RunningGuard destructor.
InGuard == {"guarded", "loop", "replay"}

DebugInGuard == \E d \in Debug : pc[d] \in InGuard
\* The stop of a's run has been delivered and the run stands before the guard.
StopWaits(a) == asked[a] /\ stopCall[a] # "native" /\ pc[a] = "jni"

-----------------------------------------------------------------------------
Init ==
  /\ owner = NoOwner
  /\ gRunning = FALSE /\ gNativeCallEntered = FALSE
  /\ gPendingStop = FALSE /\ gStopRequested = FALSE
  /\ pc = [a \in Actors |-> "idle"]
  /\ runs = [a \in Actors |-> 0]
  /\ runArmed = FALSE /\ running = FALSE /\ pendingStop = FALSE
  /\ nativeCallEntered = FALSE /\ callbackFailure = FALSE
  /\ prepared = FALSE /\ benchPendingStop = FALSE
  /\ stopCall = [a \in Stoppable |-> "none"]
  /\ sessionClosed = FALSE
  /\ asked = [a \in Stoppable |-> FALSE]
  /\ misled = [a \in Stoppable |-> FALSE]

Goto(a, from, to) == pc[a] = from /\ pc' = [pc EXCEPT ![a] = to]

\* NativeRunArbiter.tryAcquire / release: compare-and-set on the owner.
TryAcquire(a) == owner = NoOwner /\ owner' = a
Release(a)    == owner' = IF owner = a THEN NoOwner ELSE owner

NewRun(a) ==
  /\ runs[a] < MaxRuns[a]
  /\ runs' = [runs EXCEPT ![a] = @ + 1]
NewStoppableRun(a) ==
  /\ NewRun(a)
  /\ asked' = [asked EXCEPT ![a] = FALSE]
  /\ misled' = [misled EXCEPT ![a] = FALSE]

-----------------------------------------------------------------------------
(* The native side: each operation below holds gStopStateMutex.            *)

\* compare_exchange_strong(gRunning): the second entry returns a FAILED report.
\* A debug intent that gets in before a run whose stop waits will take the stop.
EnterGuard(a) ==
  /\ pc[a] = "jni"
  /\ pc' = [pc EXCEPT ![a] = IF gRunning THEN "returned" ELSE "guarded"]
  /\ gRunning' = TRUE
  /\ misled' = [x \in Stoppable |->
                  misled[x] \/ (a \in Debug /\ ~gRunning /\ StopWaits(x))]
  /\ UNCHANGED <<owner, gNativeCallEntered, gPendingStop, gStopRequested, runs,
                 trainVars, benchVars, stopCall, sessionClosed, asked>>

BeginNativeCall_dropsPending(a) ==
  /\ Goto(a, "guarded", "loop")
  /\ gStopRequested' = FALSE
  /\ gPendingStop' = FALSE
  /\ gNativeCallEntered' = TRUE
  /\ UNCHANGED <<owner, gRunning, runs, trainVars, benchVars, stopVars>>

BeginNativeCall(a) ==
  /\ Goto(a, "guarded", "loop")
  /\ gStopRequested' = gPendingStop
  /\ gPendingStop' = FALSE
  /\ gNativeCallEntered' = TRUE
  /\ UNCHANGED <<owner, gRunning, runs, trainVars, benchVars, stopVars>>

\* nativeReplayFirstNonfiniteCheckpoint takes the guard but never begins a call.
EnterReplay(a) ==
  /\ a \in Debug
  /\ Goto(a, "guarded", "replay")
  /\ UNCHANGED <<owner, nativeVars, runs, trainVars, benchVars, stopVars>>

\* ~RunningGuard: whatever ended the native loop.
LeaveGuard(a) ==
  /\ pc[a] \in {"loop", "replay"}
  /\ pc' = [pc EXCEPT ![a] = "returned"]
  /\ gNativeCallEntered' = FALSE
  /\ gPendingStop' = FALSE
  /\ gRunning' = FALSE
  /\ UNCHANGED <<owner, gStopRequested, runs, trainVars, benchVars, stopVars>>

NativeRequestStop ==
  /\ gStopRequested' = (gStopRequested \/ gNativeCallEntered)
  /\ gPendingStop' = (gPendingStop \/ ~gNativeCallEntered)
  /\ UNCHANGED <<gRunning, gNativeCallEntered>>

NativeClearStop_unguarded ==
  /\ gPendingStop' = FALSE
  /\ gStopRequested' = FALSE
  /\ UNCHANGED <<gRunning, gNativeCallEntered>>

NativeClearStop ==
  /\ IF ~gRunning /\ ~gNativeCallEntered
     THEN gPendingStop' = FALSE /\ gStopRequested' = FALSE
     ELSE UNCHANGED <<gPendingStop, gStopRequested>>
  /\ UNCHANGED <<gRunning, gNativeCallEntered>>

-----------------------------------------------------------------------------
(* The training run: TrainingSession queues it, the worker executes it.    *)

\* startInternal under backendOperationLock, which no stop request holds.
\* queued: worker.execute accepted the run; otherwise the foreground callback
\* or the executor failed and cancelPreparedRun undid prepareForRun.
TrainStart ==
  /\ ~sessionClosed
  /\ pc["standalone"] = "idle" /\ stopCall["standalone"] = "none"
  /\ NewStoppableRun("standalone")
  /\ \/ /\ pc' = [pc EXCEPT !["standalone"] = "queued"]
        /\ runArmed' = TRUE
        /\ UNCHANGED pendingStop
     \/ /\ UNCHANGED pc
        /\ runArmed' = FALSE /\ pendingStop' = FALSE
  /\ UNCHANGED <<owner, nativeVars, running, nativeCallEntered, callbackFailure,
                 benchVars, stopCall, sessionClosed>>

\* execute: the run is still owned, or the session was closed while it queued.
TrainExecute ==
  /\ \/ /\ ~sessionClosed
        /\ Goto("standalone", "queued", "entry")
        /\ UNCHANGED <<runArmed, pendingStop>>
     \/ /\ sessionClosed
        /\ Goto("standalone", "queued", "terminal")
        /\ runArmed' = FALSE /\ pendingStop' = FALSE
  /\ UNCHANGED <<owner, nativeVars, runs, running, nativeCallEntered,
                 callbackFailure, benchVars, stopVars>>

TrainAcquire_takesOver ==
  /\ Goto("standalone", "entry", "acquired")
  /\ owner' = "standalone"
  /\ UNCHANGED <<nativeVars, runs, trainVars, benchVars, stopVars>>

TrainAcquire ==
  /\ \/ TryAcquire("standalone") /\ Goto("standalone", "entry", "acquired")
     \/ /\ owner # NoOwner /\ Goto("standalone", "entry", "terminal")
        /\ UNCHANGED owner
  /\ UNCHANGED <<nativeVars, runs, trainVars, benchVars, stopVars>>

\* The first synchronized block of run(): a stop that came before it cancels.
TrainEnterRun ==
  /\ pc["standalone"] = "acquired"
  /\ pc' = [pc EXCEPT !["standalone"] =
              IF running THEN "release"
              ELSE IF pendingStop THEN "cancelled" ELSE "staging"]
  /\ runArmed' = IF running THEN runArmed ELSE FALSE
  /\ running' = (running \/ ~pendingStop)
  /\ pendingStop' = (running /\ pendingStop)
  /\ callbackFailure' = FALSE
  /\ UNCHANGED <<owner, nativeVars, runs, nativeCallEntered, benchVars,
                 stopVars>>

\* Model, environment, dataset and capability checks, then the second
\* synchronized block, which either consumes a stop or opens the JNI window.
TrainStage_ignoresStop ==
  /\ Goto("standalone", "staging", "jni")
  /\ nativeCallEntered' = TRUE
  /\ pendingStop' = FALSE
  /\ UNCHANGED <<owner, nativeVars, runs, runArmed, running, callbackFailure,
                 benchVars, stopVars>>

TrainStage ==
  /\ \/ /\ Goto("standalone", "staging", "finally")      \* a check failed
        /\ UNCHANGED <<running, pendingStop, nativeCallEntered>>
     \/ /\ pendingStop
        /\ Goto("standalone", "staging", "cancelledBeforeJni")
        /\ pendingStop' = FALSE /\ running' = FALSE
        /\ UNCHANGED nativeCallEntered
     \/ /\ ~pendingStop
        /\ Goto("standalone", "staging", "jni")
        /\ nativeCallEntered' = TRUE
        /\ UNCHANGED <<running, pendingStop>>
  /\ UNCHANGED <<owner, nativeVars, runs, runArmed, callbackFailure, benchVars,
                 stopVars>>

\* A progress record the adapter cannot parse: the callback stops the loop.
MalformedNativeRecord ==
  /\ pc["standalone"] = "loop"
  /\ callbackFailure' = TRUE
  /\ NativeRequestStop
  /\ UNCHANGED <<owner, pc, runs, runArmed, running, pendingStop,
                 nativeCallEntered, benchVars, stopVars>>

\* A record TrainingSession rejects: its callback calls backend.requestStop on
\* the worker thread, which is inside JNI, so both halves happen here.
RejectedProgress ==
  /\ pc["standalone"] = "loop"
  /\ pendingStop' = TRUE
  /\ asked' = [asked EXCEPT !["standalone"] = TRUE]
  /\ misled' = [misled EXCEPT !["standalone"] = FALSE]
  /\ NativeRequestStop
  /\ UNCHANGED <<owner, pc, runs, runArmed, running, nativeCallEntered,
                 callbackFailure, benchVars, stopCall, sessionClosed>>

\* Back in Kotlin: close the window, or an exception goes straight to finally.
TrainReturned ==
  /\ \/ /\ Goto("standalone", "returned", "clearStop")
        /\ nativeCallEntered' = FALSE
     \/ /\ Goto("standalone", "returned", "finally")
        /\ UNCHANGED nativeCallEntered
  /\ UNCHANGED <<owner, nativeVars, runs, runArmed, running, pendingStop,
                 callbackFailure, benchVars, stopVars>>

\* nativeClearStop, on each of the three paths that call it.
TrainClearStop ==
  /\ \/ Goto("standalone", "cancelled", "release")
     \/ Goto("standalone", "cancelledBeforeJni", "finally")
     \/ Goto("standalone", "clearStop", "finally")
  /\ NativeClearStop
  /\ UNCHANGED <<owner, runs, trainVars, benchVars, stopVars>>

TrainFinally ==
  /\ Goto("standalone", "finally", "release")
  /\ running' = FALSE /\ nativeCallEntered' = FALSE
  /\ pendingStop' = FALSE /\ runArmed' = FALSE
  /\ UNCHANGED <<owner, nativeVars, runs, callbackFailure, benchVars, stopVars>>

TrainRelease ==
  /\ Goto("standalone", "release", "terminal")
  /\ Release("standalone")
  /\ UNCHANGED <<nativeVars, runs, trainVars, benchVars, stopVars>>

\* The session publishes the terminal phase after run() has returned.
TrainTerminal ==
  /\ Goto("standalone", "terminal", "idle")
  /\ UNCHANGED <<owner, nativeVars, runs, trainVars, benchVars, stopVars>>

-----------------------------------------------------------------------------
(* Stopping the training run: requestStop, requestOwnerStop and close all  *)
(* check the session phase and call backend.requestStop, in this order and *)
(* under backendOperationLock.                                             *)

TrainStopChecked ==
  /\ ~sessionClosed /\ stopCall["standalone"] = "none"
  /\ pc["standalone"] # "idle"
  /\ stopCall' = [stopCall EXCEPT !["standalone"] = "checked"]
  /\ sessionClosed' \in BOOLEAN                \* TRUE: close, FALSE: a stop
  /\ UNCHANGED <<owner, nativeVars, pc, runs, trainVars, benchVars, asked,
                 misled>>

\* The synchronized block of NativeHtpTrainingBackend.requestStop.
TrainStopLocked ==
  /\ stopCall["standalone"] = "checked"
  /\ stopCall' = [stopCall EXCEPT !["standalone"] =
                    IF running /\ nativeCallEntered THEN "native" ELSE "none"]
  /\ pendingStop' = (pendingStop \/ running \/ runArmed)
  /\ asked' = [asked EXCEPT !["standalone"] =
                 @ \/ (pc["standalone"] # "idle" /\ (running \/ runArmed))]
  /\ UNCHANGED <<owner, nativeVars, pc, runs, runArmed, running,
                 nativeCallEntered, callbackFailure, benchVars, sessionClosed,
                 misled>>

-----------------------------------------------------------------------------
(* The benchmark engine: prepareRun and withOwnership under stopLock.      *)

BenchPrepare ==
  /\ pc["benchmark"] = "idle" /\ stopCall["benchmark"] = "none"
  /\ NewStoppableRun("benchmark")
  /\ benchPendingStop' = FALSE
  /\ \/ /\ pc' = [pc EXCEPT !["benchmark"] = "queued"] /\ prepared' = TRUE
     \/ /\ UNCHANGED pc /\ prepared' = FALSE             \* cancelPreparedRun
  /\ UNCHANGED <<owner, nativeVars, trainVars, stopCall, sessionClosed>>

BenchOwn ==
  /\ pc["benchmark"] = "queued"
  /\ prepared' = FALSE
  /\ benchPendingStop' = FALSE
  /\ \/ /\ benchPendingStop \/ owner # NoOwner
        /\ pc' = [pc EXCEPT !["benchmark"] = "idle"]
        /\ UNCHANGED owner
     \/ /\ ~benchPendingStop
        /\ TryAcquire("benchmark")
        /\ pc' = [pc EXCEPT !["benchmark"] = "jni"]
  /\ UNCHANGED <<nativeVars, runs, trainVars, stopVars>>

BenchRelease ==
  /\ Goto("benchmark", "returned", "idle")
  /\ Release("benchmark")
  /\ UNCHANGED <<nativeVars, runs, trainVars, benchVars, stopVars>>

\* NativeBenchmarkEngine.requestStop: the view model calls it while it runs.
BenchStopLocked ==
  /\ stopCall["benchmark"] = "none" /\ pc["benchmark"] # "idle"
  /\ LET owned == owner = "benchmark" IN
     /\ stopCall' = [stopCall EXCEPT !["benchmark"] =
                       IF owned THEN "native" ELSE "none"]
     /\ benchPendingStop' = (benchPendingStop \/ (~owned /\ prepared))
     /\ asked' = [asked EXCEPT !["benchmark"] = @ \/ owned \/ prepared]
  /\ UNCHANGED <<owner, nativeVars, pc, runs, trainVars, prepared,
                 sessionClosed, misled>>

-----------------------------------------------------------------------------
\* nativeRequestStop on behalf of x, outside every Kotlin lock.
DeliverStop(x) ==
  /\ stopCall[x] = "native"
  /\ stopCall' = [stopCall EXCEPT ![x] = "none"]
  /\ NativeRequestStop
  /\ misled' = [misled EXCEPT ![x] = pc[x] = "jni" /\ DebugInGuard]
  /\ UNCHANGED <<owner, pc, runs, trainVars, benchVars, sessionClosed, asked>>

(* Generation acquires the arbiter and ignores the stop flag; a debug      *)
(* intent enters JNI directly.                                             *)
GenAcquire ==
  /\ NewRun("generation")
  /\ \/ TryAcquire("generation") /\ Goto("generation", "idle", "jni")
     \/ owner # NoOwner /\ pc["generation"] = "idle" /\ UNCHANGED <<owner, pc>>
  /\ UNCHANGED <<nativeVars, trainVars, benchVars, stopVars>>

GenRelease ==
  /\ Goto("generation", "returned", "idle")
  /\ Release("generation")
  /\ UNCHANGED <<nativeVars, runs, trainVars, benchVars, stopVars>>

DebugStart(d) ==
  /\ NewRun(d)
  /\ Goto(d, "idle", "jni")
  /\ UNCHANGED <<owner, nativeVars, trainVars, benchVars, stopVars>>

DebugDone(d) ==
  /\ Goto(d, "returned", "idle")
  /\ UNCHANGED <<owner, nativeVars, runs, trainVars, benchVars, stopVars>>

-----------------------------------------------------------------------------
TrainWorker ==
  \/ TrainExecute \/ TrainAcquire \/ TrainEnterRun \/ TrainStage
  \/ TrainReturned \/ TrainClearStop \/ TrainFinally \/ TrainRelease
  \/ TrainTerminal
JniEntry(a) == EnterGuard(a) \/ BeginNativeCall(a)

Next ==
  \/ TrainStart \/ TrainWorker \/ TrainStopChecked \/ TrainStopLocked
  \/ MalformedNativeRecord \/ RejectedProgress
  \/ BenchPrepare \/ BenchOwn \/ BenchRelease \/ BenchStopLocked
  \/ GenAcquire \/ GenRelease
  \/ \E x \in Stoppable : DeliverStop(x)
  \/ \E a \in Actors : JniEntry(a) \/ EnterReplay(a) \/ LeaveGuard(a)
  \/ \E d \in Debug : DebugStart(d) \/ DebugDone(d)

\* Threads that are scheduled keep running.  A training or benchmark loop is
\* fair only once its stop flag is up: nothing bounds it otherwise.  The other
\* loops, which never read the flag, end by themselves.
Fairness ==
  /\ WF_vars(TrainWorker) /\ WF_vars(TrainStopLocked)
  /\ WF_vars(BenchOwn) /\ WF_vars(BenchRelease) /\ WF_vars(GenRelease)
  /\ \A x \in Stoppable : WF_vars(DeliverStop(x))
  /\ \A a \in Actors : WF_vars(JniEntry(a))
  /\ \A a \in Stoppable : WF_vars(gStopRequested /\ LeaveGuard(a))
  /\ \A a \in Actors \ Stoppable : WF_vars(LeaveGuard(a))
  /\ \A d \in Debug : WF_vars(DebugDone(d))

Spec == Init /\ [][Next]_vars
FairSpec == Spec /\ Fairness

-----------------------------------------------------------------------------
\* Every variable ranges over the values its declaration in the code allows.
TypeOK ==
  /\ owner \in Arbitrated \cup {NoOwner}
  /\ gRunning \in BOOLEAN /\ gNativeCallEntered \in BOOLEAN
  /\ gPendingStop \in BOOLEAN /\ gStopRequested \in BOOLEAN
  /\ pc \in [Actors -> Pcs]
  /\ runs \in [Actors -> Nat]
  /\ \A a \in Actors : runs[a] <= MaxRuns[a]
  /\ runArmed \in BOOLEAN /\ running \in BOOLEAN /\ pendingStop \in BOOLEAN
  /\ nativeCallEntered \in BOOLEAN /\ callbackFailure \in BOOLEAN
  /\ prepared \in BOOLEAN /\ benchPendingStop \in BOOLEAN
  /\ sessionClosed \in BOOLEAN
  /\ stopCall \in [Stoppable -> {"none", "checked", "native"}]
  /\ asked \in [Stoppable -> BOOLEAN]
  /\ misled \in [Stoppable -> BOOLEAN]

\* At most one thread is between the gRunning exchange and the RunningGuard
\* destructor, debug intents included, and the two native flags say so: the
\* exchange is the gate when a thread does not ask the arbiter.
GuardExclusive ==
  /\ \A a, b \in Actors :
       pc[a] \in InGuard /\ pc[b] \in InGuard => a = b
  /\ gRunning <=> \E a \in Actors : pc[a] \in InGuard
  /\ gNativeCallEntered <=> \E a \in Actors : pc[a] = "loop"

\* A thread is between acquisition and release exactly while the arbiter names
\* it, on every path: early failures, cancellations, exceptions, rejections.
ArbiterExact == \A a \in Arbitrated : pc[a] \in Holding <=> owner = a

MutualExclusion == GuardExclusive /\ ArbiterExact

\* A stop accepted for a run, whose native half is not still on its way, is
\* visible to the loop that polls for it, whenever it came: before the arbiter,
\* while staging, between the Kotlin window and nativeRequestStop, or between
\* the gRunning exchange and the start of the native call.  It is lost in one
\* way only: the run is past its Kotlin checks and stands before the guard, its
\* stop is delivered, and a debug intent is inside the guard then or gets there
\* first.  Its loop is given the stop, or ~RunningGuard drops it.  Debug intents
\* that run at any other time take nothing away.
StopNotLost ==
  \A a \in Stoppable :
    asked[a] /\ stopCall[a] # "native" /\ pc[a] = "loop" => gStopRequested \/ misled[a]

\* While a thread stays in its native loop nothing takes a stop back: not
\* nativeClearStop of another owner, not a second entry.
StopSticks ==
  [][\A a \in Actors :
       pc[a] = "loop" /\ pc'[a] = "loop" /\ gStopRequested => gStopRequested']_vars

\* An accepted stop ends the run it was accepted for, whatever debug intents do
\* meanwhile, unless one of them is given the stop at the entry to JNI.  Asking
\* once more, when the run has entered, ends it.
StopEndsRun == \A a \in Stoppable : asked[a] ~> (pc[a] = "idle" \/ misled[a])
=============================================================================
