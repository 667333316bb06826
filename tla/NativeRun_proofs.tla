-------------------------- MODULE NativeRun_proofs --------------------------
(***************************************************************************)
(* For every set of debug threads and every bound on the runs: the types,  *)
(* mutual exclusion inside the JNI guard, the exactness of the arbiter,    *)
(* that nothing takes back a stop the running loop has been given, and     *)
(* that a stop accepted for a run is not lost on its way there.            *)
(***************************************************************************)
EXTENDS NativeRun, TLAPS

\* Which threads are actors: debug intents and the three arbitrated owners.
LEMMA ActorFacts ==
  /\ "standalone" \in Arbitrated /\ "benchmark" \in Arbitrated
  /\ "generation" \in Arbitrated
  /\ "standalone" \in Stoppable /\ "benchmark" \in Stoppable
  /\ Stoppable \subseteq Arbitrated /\ Arbitrated \subseteq Actors
  /\ Debug \subseteq Actors
  BY DEF Actors, Arbitrated, Stoppable

\* The places a thread can be, one by one.
LEMMA PcFacts ==
  /\ "idle" \in Pcs /\ "queued" \in Pcs /\ "entry" \in Pcs
  /\ "acquired" \in Pcs /\ "cancelled" \in Pcs /\ "staging" \in Pcs
  /\ "cancelledBeforeJni" \in Pcs /\ "jni" \in Pcs /\ "guarded" \in Pcs
  /\ "loop" \in Pcs /\ "replay" \in Pcs /\ "returned" \in Pcs
  /\ "clearStop" \in Pcs /\ "finally" \in Pcs /\ "release" \in Pcs
  /\ "terminal" \in Pcs
  BY DEF Pcs

\* The state after any step of the program has the types the code declares.
LEMMA TypeStep == TypeOK /\ [Next]_vars => TypeOK'
  <1> SUFFICES ASSUME TypeOK, [Next]_vars PROVE TypeOK'
    OBVIOUS
  <1> USE NativeRunAssumption, ActorFacts, PcFacts DEF TypeOK
  <1>1. CASE TrainStart
    <2>1. pc' \in [Actors -> Pcs]
      BY <1>1 DEF TrainStart
    <2>2. runs' \in [Actors -> Nat] /\ \A a \in Actors : runs'[a] <= MaxRuns[a]
      BY <1>1 DEF TrainStart, NewStoppableRun, NewRun
    <2>3. asked' \in [Stoppable -> BOOLEAN] /\ misled' \in [Stoppable -> BOOLEAN]
      BY <1>1 DEF TrainStart, NewStoppableRun, NewRun
    <2>4. runArmed' \in BOOLEAN /\ pendingStop' \in BOOLEAN
      BY <1>1 DEF TrainStart, NewStoppableRun, NewRun
    <2> QED
      BY <1>1, <2>1, <2>2, <2>3, <2>4 DEF TrainStart, nativeVars, trainVars,
         benchVars, stopVars
  <1>2. CASE TrainExecute
    <2>1. pc' \in [Actors -> Pcs]
      BY <1>2 DEF TrainExecute, Goto
    <2>2. runArmed' \in BOOLEAN /\ pendingStop' \in BOOLEAN
      BY <1>2 DEF TrainExecute
    <2> QED
      BY <1>2, <2>1, <2>2 DEF TrainExecute, nativeVars, trainVars, benchVars,
         stopVars
  <1>3. CASE TrainAcquire
    <2>1. pc' \in [Actors -> Pcs]
      BY <1>3 DEF TrainAcquire, Goto
    <2>2. owner' \in Arbitrated \cup {NoOwner}
      BY <1>3 DEF TrainAcquire, TryAcquire
    <2> QED
      BY <1>3, <2>1, <2>2 DEF TrainAcquire, nativeVars, trainVars, benchVars,
         stopVars
  <1>4. CASE TrainEnterRun
    <2>1. pc' \in [Actors -> Pcs]
      BY <1>4 DEF TrainEnterRun
    <2>2. running' \in BOOLEAN /\ pendingStop' \in BOOLEAN
      BY <1>4 DEF TrainEnterRun
    <2> QED
      BY <1>4, <2>1, <2>2 DEF TrainEnterRun, nativeVars, trainVars,
         benchVars, stopVars
  <1>5. CASE TrainStage
    <2>1. pc' \in [Actors -> Pcs]
      BY <1>5 DEF TrainStage, Goto
    <2>2. running' \in BOOLEAN /\ pendingStop' \in BOOLEAN
      BY <1>5 DEF TrainStage
    <2>3. nativeCallEntered' \in BOOLEAN
      BY <1>5 DEF TrainStage
    <2> QED
      BY <1>5, <2>1, <2>2, <2>3 DEF TrainStage, nativeVars, trainVars,
         benchVars, stopVars
  <1>6. CASE TrainReturned
    <2>1. pc' \in [Actors -> Pcs]
      BY <1>6 DEF TrainReturned, Goto
    <2>2. nativeCallEntered' \in BOOLEAN
      BY <1>6 DEF TrainReturned
    <2> QED
      BY <1>6, <2>1, <2>2 DEF TrainReturned, nativeVars, trainVars,
         benchVars, stopVars
  <1>7. CASE TrainClearStop
    <2>1. pc' \in [Actors -> Pcs]
      BY <1>7 DEF TrainClearStop, Goto
    <2>2. gPendingStop' \in BOOLEAN /\ gStopRequested' \in BOOLEAN
      BY <1>7 DEF TrainClearStop, NativeClearStop
    <2> QED
      BY <1>7, <2>1, <2>2 DEF TrainClearStop, NativeClearStop, nativeVars,
         trainVars, benchVars, stopVars
  <1>8. CASE TrainFinally
    BY <1>8 DEF TrainFinally, Goto, nativeVars, trainVars, benchVars,
       stopVars
  <1>9. CASE TrainRelease
    BY <1>9 DEF TrainRelease, Goto, Release, nativeVars, trainVars,
       benchVars, stopVars
  <1>10. CASE TrainTerminal
    BY <1>10 DEF TrainTerminal, Goto, nativeVars, trainVars, benchVars,
       stopVars
  <1>11. CASE TrainStopChecked
    BY <1>11 DEF TrainStopChecked, nativeVars, trainVars, benchVars, stopVars
  <1>12. CASE TrainStopLocked
    BY <1>12 DEF TrainStopLocked, nativeVars, trainVars, benchVars, stopVars
  <1>13. CASE MalformedNativeRecord
    BY <1>13 DEF MalformedNativeRecord, NativeRequestStop, nativeVars,
       trainVars, benchVars, stopVars
  <1>14. CASE RejectedProgress
    BY <1>14 DEF RejectedProgress, NativeRequestStop, nativeVars, trainVars,
       benchVars, stopVars
  <1>15. CASE BenchPrepare
    <2>1. pc' \in [Actors -> Pcs]
      BY <1>15 DEF BenchPrepare
    <2>2. runs' \in [Actors -> Nat] /\ \A a \in Actors : runs'[a] <= MaxRuns[a]
      BY <1>15 DEF BenchPrepare, NewStoppableRun, NewRun
    <2>3. asked' \in [Stoppable -> BOOLEAN] /\ misled' \in [Stoppable -> BOOLEAN]
      BY <1>15 DEF BenchPrepare, NewStoppableRun, NewRun
    <2>4. prepared' \in BOOLEAN
      BY <1>15 DEF BenchPrepare, NewStoppableRun, NewRun
    <2> QED
      BY <1>15, <2>1, <2>2, <2>3, <2>4 DEF BenchPrepare, nativeVars,
         trainVars, benchVars, stopVars
  <1>16. CASE BenchOwn
    <2>1. pc' \in [Actors -> Pcs]
      BY <1>16 DEF BenchOwn
    <2>2. owner' \in Arbitrated \cup {NoOwner}
      BY <1>16 DEF BenchOwn, TryAcquire
    <2> QED
      BY <1>16, <2>1, <2>2 DEF BenchOwn, nativeVars, trainVars, benchVars,
         stopVars
  <1>17. CASE BenchRelease
    BY <1>17 DEF BenchRelease, Goto, Release, nativeVars, trainVars,
       benchVars, stopVars
  <1>18. CASE BenchStopLocked
    BY <1>18 DEF BenchStopLocked, nativeVars, trainVars, benchVars, stopVars
  <1>19. CASE GenAcquire
    <2>1. pc' \in [Actors -> Pcs]
      BY <1>19 DEF GenAcquire, Goto
    <2>2. owner' \in Arbitrated \cup {NoOwner}
      BY <1>19 DEF GenAcquire, NewRun, TryAcquire
    <2>3. runs' \in [Actors -> Nat] /\ \A a \in Actors : runs'[a] <= MaxRuns[a]
      BY <1>19 DEF GenAcquire, NewRun, TryAcquire
    <2> QED
      BY <1>19, <2>1, <2>2, <2>3 DEF GenAcquire, nativeVars, trainVars,
         benchVars, stopVars
  <1>20. CASE GenRelease
    BY <1>20 DEF GenRelease, Goto, Release, nativeVars, trainVars, benchVars,
       stopVars
  <1>21. ASSUME NEW x \in Stoppable, DeliverStop(x) PROVE TypeOK'
    BY <1>21 DEF DeliverStop, NativeRequestStop, nativeVars, trainVars,
       benchVars, stopVars
  <1>22. ASSUME NEW a \in Actors, EnterGuard(a) PROVE TypeOK'
    BY <1>22 DEF EnterGuard, nativeVars, trainVars, benchVars, stopVars
  <1>23. ASSUME NEW a \in Actors, BeginNativeCall(a) PROVE TypeOK'
    BY <1>23 DEF BeginNativeCall, Goto, nativeVars, trainVars, benchVars,
       stopVars
  <1>24. ASSUME NEW a \in Actors, EnterReplay(a) PROVE TypeOK'
    BY <1>24 DEF EnterReplay, Goto, nativeVars, trainVars, benchVars,
       stopVars
  <1>25. ASSUME NEW a \in Actors, LeaveGuard(a) PROVE TypeOK'
    BY <1>25 DEF LeaveGuard, nativeVars, trainVars, benchVars, stopVars
  <1>26. ASSUME NEW d \in Debug, DebugStart(d) PROVE TypeOK'
    BY <1>26 DEF DebugStart, NewRun, Goto, nativeVars, trainVars, benchVars,
       stopVars
  <1>27. ASSUME NEW d \in Debug, DebugDone(d) PROVE TypeOK'
    BY <1>27 DEF DebugDone, Goto, nativeVars, trainVars, benchVars, stopVars
  <1>28. CASE UNCHANGED vars
    BY <1>28 DEF vars, nativeVars, trainVars, benchVars, stopVars
  <1> QED
    BY <1>1, <1>2, <1>3, <1>4, <1>5, <1>6, <1>7, <1>8, <1>9, <1>10, <1>11,
       <1>12, <1>13, <1>14, <1>15, <1>16, <1>17, <1>18, <1>19, <1>20, <1>21,
       <1>22, <1>23, <1>24, <1>25, <1>26, <1>27, <1>28
       DEF Next, TrainWorker, JniEntry

\* Every state of every run of the program is well typed.
THEOREM TypeCorrect == Spec => []TypeOK
<1>1. Init => TypeOK
  <2> SUFFICES ASSUME Init PROVE TypeOK
    OBVIOUS
  <2>1. pc \in [Actors -> Pcs] /\ owner \in Arbitrated \cup {NoOwner}
    BY PcFacts DEF Init
  <2>2. runs \in [Actors -> Nat] /\ \A a \in Actors : runs[a] <= MaxRuns[a]
    BY NativeRunAssumption DEF Init
  <2>3. stopCall \in [Stoppable -> {"none", "checked", "native"}]
    BY DEF Init
  <2>4. asked \in [Stoppable -> BOOLEAN] /\ misled \in [Stoppable -> BOOLEAN]
    BY DEF Init
  <2> QED
    BY <2>1, <2>2, <2>3, <2>4 DEF Init, TypeOK
<1>2. QED
  BY <1>1, TypeStep, PTL DEF Spec

-----------------------------------------------------------------------------
\* A step that moves nobody across the guard, the native call or the ownership
\* boundary, and leaves their flags alone, keeps mutual exclusion.
SameClass(a) ==
  /\ pc'[a] \in InGuard <=> pc[a] \in InGuard
  /\ pc'[a] = "loop" <=> pc[a] = "loop"
  /\ a \in Arbitrated => (pc'[a] \in Holding <=> pc[a] \in Holding)

LEMMA NobodyCrosses ==
  ASSUME MutualExclusion, UNCHANGED <<owner, gRunning, gNativeCallEntered>>,
         \A a \in Actors : SameClass(a)
  PROVE  MutualExclusion'
<1>1. GuardExclusive'
  BY DEF MutualExclusion, GuardExclusive, SameClass
<1>2. ArbiterExact'
  BY ActorFacts DEF MutualExclusion, ArbiterExact, SameClass
<1> QED
  BY <1>1, <1>2 DEF MutualExclusion

\* A step of one thread outside the guard that only takes or gives ownership.
LEMMA OwnershipMoves ==
  ASSUME TypeOK, MutualExclusion, UNCHANGED <<gRunning, gNativeCallEntered>>,
         NEW a \in Arbitrated, NEW to,
         pc' = [pc EXCEPT ![a] = to],
         pc[a] \notin InGuard, to \notin InGuard,
         owner \in {NoOwner, a}, owner' \in {NoOwner, a},
         to \in Holding <=> owner' = a
  PROVE  MutualExclusion'
<1> USE ActorFacts, NativeRunAssumption
<1>1. \A b \in Actors : pc'[b] = IF b = a THEN to ELSE pc[b]
  BY DEF TypeOK
<1>2. GuardExclusive'
  BY <1>1 DEF MutualExclusion, GuardExclusive, InGuard
<1>3. ArbiterExact'
  BY <1>1 DEF MutualExclusion, ArbiterExact, Actors
<1> QED
  BY <1>2, <1>3 DEF MutualExclusion

\* Every step keeps the guard exclusive and the arbiter exact.
LEMMA ExclusionStep ==
  ASSUME TypeOK, MutualExclusion, [Next]_vars
  PROVE  MutualExclusion'
<1> USE NativeRunAssumption, ActorFacts
<1>1. CASE TrainStart
  <2>1. \A b \in Actors : SameClass(b)
    BY <1>1 DEF TrainStart, NewStoppableRun, NewRun, SameClass, InGuard,
       Holding, TypeOK
  <2> QED
    BY <1>1, <2>1, NobodyCrosses DEF TrainStart, nativeVars
<1>2. CASE TrainExecute
  <2>1. \A b \in Actors : SameClass(b)
    BY <1>2 DEF TrainExecute, Goto, SameClass, InGuard, Holding, TypeOK
  <2> QED
    BY <1>2, <2>1, NobodyCrosses DEF TrainExecute, nativeVars
<1>3. CASE TrainAcquire
  <2>1. CASE TryAcquire("standalone") /\ Goto("standalone", "entry", "acquired")
    BY <1>3, <2>1, OwnershipMoves
       DEF TrainAcquire, TryAcquire, Goto, InGuard, Holding, nativeVars
  <2>2. CASE Goto("standalone", "entry", "terminal") /\ UNCHANGED owner
    <3>1. \A b \in Actors : SameClass(b)
      BY <2>2 DEF Goto, SameClass, InGuard, Holding, TypeOK
    <3> QED
      BY <1>3, <2>2, <3>1, NobodyCrosses DEF TrainAcquire, nativeVars
  <2> QED
    BY <1>3, <2>1, <2>2 DEF TrainAcquire
<1>4. CASE TrainEnterRun
  <2>1. \A b \in Actors : SameClass(b)
    BY <1>4 DEF TrainEnterRun, SameClass, InGuard, Holding, TypeOK
  <2> QED
    BY <1>4, <2>1, NobodyCrosses DEF TrainEnterRun, nativeVars
<1>5. CASE TrainStage
  <2>1. \A b \in Actors : SameClass(b)
    BY <1>5 DEF TrainStage, Goto, SameClass, InGuard, Holding, TypeOK
  <2> QED
    BY <1>5, <2>1, NobodyCrosses DEF TrainStage, nativeVars
<1>6. CASE TrainReturned
  <2>1. \A b \in Actors : SameClass(b)
    BY <1>6 DEF TrainReturned, Goto, SameClass, InGuard, Holding, TypeOK
  <2> QED
    BY <1>6, <2>1, NobodyCrosses DEF TrainReturned, nativeVars
<1>7. CASE TrainClearStop
  <2>1. \A b \in Actors : SameClass(b)
    BY <1>7 DEF TrainClearStop, Goto, NativeClearStop, SameClass, InGuard,
       Holding, TypeOK
  <2> QED
    BY <1>7, <2>1, NobodyCrosses DEF TrainClearStop, NativeClearStop,
       nativeVars
<1>8. CASE TrainFinally
  <2>1. \A b \in Actors : SameClass(b)
    BY <1>8 DEF TrainFinally, Goto, SameClass, InGuard, Holding, TypeOK
  <2> QED
    BY <1>8, <2>1, NobodyCrosses DEF TrainFinally, nativeVars
<1>9. CASE TrainRelease
  <2>1. owner = "standalone"
    BY <1>9 DEF TrainRelease, Goto, MutualExclusion, ArbiterExact, Holding
  <2> QED
    BY <1>9, <2>1, OwnershipMoves
       DEF TrainRelease, Goto, Release, InGuard, Holding, nativeVars
<1>10. CASE TrainTerminal
  <2>1. \A b \in Actors : SameClass(b)
    BY <1>10 DEF TrainTerminal, Goto, SameClass, InGuard, Holding, TypeOK
  <2> QED
    BY <1>10, <2>1, NobodyCrosses DEF TrainTerminal, nativeVars
<1>11. CASE TrainStopChecked
  <2>1. \A b \in Actors : SameClass(b)
    BY <1>11 DEF TrainStopChecked, SameClass, InGuard, Holding, TypeOK
  <2> QED
    BY <1>11, <2>1, NobodyCrosses DEF TrainStopChecked, nativeVars
<1>12. CASE TrainStopLocked
  <2>1. \A b \in Actors : SameClass(b)
    BY <1>12 DEF TrainStopLocked, SameClass, InGuard, Holding, TypeOK
  <2> QED
    BY <1>12, <2>1, NobodyCrosses DEF TrainStopLocked, nativeVars
<1>13. CASE MalformedNativeRecord
  <2>1. \A b \in Actors : SameClass(b)
    BY <1>13 DEF MalformedNativeRecord, NativeRequestStop, SameClass,
       InGuard, Holding, TypeOK
  <2> QED
    BY <1>13, <2>1, NobodyCrosses DEF MalformedNativeRecord,
       NativeRequestStop, nativeVars
<1>14. CASE RejectedProgress
  <2>1. \A b \in Actors : SameClass(b)
    BY <1>14 DEF RejectedProgress, NativeRequestStop, SameClass, InGuard,
       Holding, TypeOK
  <2> QED
    BY <1>14, <2>1, NobodyCrosses DEF RejectedProgress, NativeRequestStop,
       nativeVars
<1>15. CASE BenchPrepare
  <2>1. \A b \in Actors : SameClass(b)
    BY <1>15 DEF BenchPrepare, NewStoppableRun, NewRun, SameClass, InGuard,
       Holding, TypeOK
  <2> QED
    BY <1>15, <2>1, NobodyCrosses DEF BenchPrepare, nativeVars
<1>16. CASE BenchOwn
  <2>1. CASE pc' = [pc EXCEPT !["benchmark"] = "idle"] /\ UNCHANGED owner
    <3>1. \A b \in Actors : SameClass(b)
      BY <1>16, <2>1 DEF BenchOwn, SameClass, InGuard, Holding, TypeOK
    <3> QED
      BY <1>16, <2>1, <3>1, NobodyCrosses DEF BenchOwn, nativeVars
  <2>2. CASE TryAcquire("benchmark") /\ pc' = [pc EXCEPT !["benchmark"] = "jni"]
    BY <1>16, <2>2, OwnershipMoves
       DEF BenchOwn, TryAcquire, InGuard, Holding, nativeVars
  <2> QED
    BY <1>16, <2>1, <2>2 DEF BenchOwn
<1>17. CASE BenchRelease
  <2>1. owner = "benchmark"
    BY <1>17 DEF BenchRelease, Goto, MutualExclusion, ArbiterExact, Holding
  <2> QED
    BY <1>17, <2>1, OwnershipMoves
       DEF BenchRelease, Goto, Release, InGuard, Holding, nativeVars
<1>18. CASE BenchStopLocked
  <2>1. \A b \in Actors : SameClass(b)
    BY <1>18 DEF BenchStopLocked, SameClass, InGuard, Holding, TypeOK
  <2> QED
    BY <1>18, <2>1, NobodyCrosses DEF BenchStopLocked, nativeVars
<1>19. CASE GenAcquire
  <2>1. CASE TryAcquire("generation") /\ Goto("generation", "idle", "jni")
    BY <1>19, <2>1, OwnershipMoves
       DEF GenAcquire, TryAcquire, Goto, InGuard, Holding, nativeVars
  <2>2. CASE UNCHANGED <<owner, pc>>
    <3>1. \A b \in Actors : SameClass(b)
      BY <2>2 DEF SameClass
    <3> QED
      BY <1>19, <2>2, <3>1, NobodyCrosses DEF GenAcquire, nativeVars
  <2> QED
    BY <1>19, <2>1, <2>2 DEF GenAcquire
<1>20. CASE GenRelease
  <2>1. owner = "generation"
    BY <1>20 DEF GenRelease, Goto, MutualExclusion, ArbiterExact, Holding
  <2> QED
    BY <1>20, <2>1, OwnershipMoves
       DEF GenRelease, Goto, Release, InGuard, Holding, nativeVars
<1>21. ASSUME NEW x \in Stoppable, DeliverStop(x) PROVE MutualExclusion'
  <2>1. \A b \in Actors : SameClass(b)
    BY <1>21 DEF DeliverStop, NativeRequestStop, SameClass, InGuard, Holding,
       TypeOK
  <2> QED
    BY <1>21, <2>1, NobodyCrosses DEF DeliverStop, NativeRequestStop,
       nativeVars
<1>22. ASSUME NEW a \in Actors, EnterGuard(a) PROVE MutualExclusion'
  <2>1. GuardExclusive'
    BY <1>22 DEF EnterGuard, MutualExclusion, GuardExclusive, InGuard, TypeOK
  <2>2. ArbiterExact'
    BY <1>22 DEF EnterGuard, MutualExclusion, ArbiterExact, Holding, TypeOK
  <2> QED
    BY <2>1, <2>2 DEF MutualExclusion
<1>23. ASSUME NEW a \in Actors, BeginNativeCall(a) PROVE MutualExclusion'
  <2>1. GuardExclusive'
    BY <1>23 DEF BeginNativeCall, Goto, MutualExclusion, GuardExclusive,
       InGuard, TypeOK
  <2>2. ArbiterExact'
    BY <1>23 DEF BeginNativeCall, Goto, MutualExclusion, ArbiterExact,
       Holding, TypeOK
  <2> QED
    BY <2>1, <2>2 DEF MutualExclusion
<1>24. ASSUME NEW a \in Actors, EnterReplay(a) PROVE MutualExclusion'
  <2>1. \A b \in Actors : SameClass(b)
    BY <1>24 DEF EnterReplay, Goto, SameClass, InGuard, Holding, TypeOK
  <2> QED
    BY <1>24, <2>1, NobodyCrosses DEF EnterReplay, nativeVars
<1>25. ASSUME NEW a \in Actors, LeaveGuard(a) PROVE MutualExclusion'
  <2>1. GuardExclusive'
    BY <1>25 DEF LeaveGuard, MutualExclusion, GuardExclusive, InGuard, TypeOK
  <2>2. ArbiterExact'
    BY <1>25 DEF LeaveGuard, MutualExclusion, ArbiterExact, Holding, TypeOK
  <2> QED
    BY <2>1, <2>2 DEF MutualExclusion
<1>26. ASSUME NEW d \in Debug, DebugStart(d) PROVE MutualExclusion'
  <2>1. \A b \in Actors : SameClass(b)
    BY <1>26 DEF DebugStart, NewRun, Goto, SameClass, InGuard, Holding,
       TypeOK
  <2> QED
    BY <1>26, <2>1, NobodyCrosses DEF DebugStart, nativeVars
<1>27. ASSUME NEW d \in Debug, DebugDone(d) PROVE MutualExclusion'
  <2>1. \A b \in Actors : SameClass(b)
    BY <1>27 DEF DebugDone, Goto, SameClass, InGuard, Holding, TypeOK
  <2> QED
    BY <1>27, <2>1, NobodyCrosses DEF DebugDone, nativeVars
<1>28. CASE UNCHANGED vars
  <2>1. \A b \in Actors : SameClass(b)
    BY <1>28 DEF vars, SameClass
  <2> QED
    BY <1>28, <2>1, NobodyCrosses DEF vars, nativeVars
<1> QED
  BY <1>1, <1>2, <1>3, <1>4, <1>5, <1>6, <1>7, <1>8, <1>9, <1>10, <1>11,
     <1>12, <1>13, <1>14, <1>15, <1>16, <1>17, <1>18, <1>19, <1>20, <1>21,
     <1>22, <1>23, <1>24, <1>25, <1>26, <1>27, <1>28
     DEF Next, TrainWorker, JniEntry

\* Two threads are never inside the native guard together, its flags say who
\* is, and the arbiter's owner is exactly the thread between acquisition and
\* release, however many debug intents bypass it.
THEOREM Exclusion == Spec => []MutualExclusion
<1>1. Init => MutualExclusion
  BY NativeRunAssumption, ActorFacts
     DEF Init, MutualExclusion, GuardExclusive, ArbiterExact, InGuard, Holding
<1>2. TypeOK /\ MutualExclusion /\ [Next]_vars => MutualExclusion'
  BY ExclusionStep
<1>3. QED
  BY <1>1, <1>2, TypeCorrect, PTL DEF Spec

-----------------------------------------------------------------------------
\* A stop flag that the running loop has been given stays up until it leaves.
LEMMA StopSticksStep ==
  ASSUME TypeOK, MutualExclusion, Next, NEW a \in Actors,
         pc[a] = "loop", pc'[a] = "loop", gStopRequested
  PROVE  gStopRequested'
<1>1. gRunning
  BY DEF MutualExclusion, GuardExclusive, InGuard
<1>2. \A b \in Actors : pc[b] = "guarded" => FALSE
  BY DEF MutualExclusion, GuardExclusive, InGuard
<1>3. CASE TrainClearStop
  BY <1>1, <1>3 DEF TrainClearStop, NativeClearStop
<1>4. ASSUME NEW b \in Actors, BeginNativeCall(b) PROVE gStopRequested'
  BY <1>2, <1>4 DEF BeginNativeCall, Goto
<1>5. CASE TrainStart \/ TrainExecute \/ TrainAcquire \/ TrainEnterRun
             \/ TrainStage \/ TrainReturned \/ TrainFinally \/ TrainRelease
             \/ TrainTerminal \/ TrainStopChecked \/ TrainStopLocked
  BY <1>5 DEF TrainStart, TrainExecute, TrainAcquire, TrainEnterRun,
     TrainStage, TrainReturned, TrainFinally, TrainRelease, TrainTerminal,
     TrainStopChecked, TrainStopLocked, nativeVars
<1>6. CASE BenchPrepare \/ BenchOwn \/ BenchRelease \/ BenchStopLocked
             \/ GenAcquire \/ GenRelease
  BY <1>6 DEF BenchPrepare, BenchOwn, BenchRelease, BenchStopLocked,
     GenAcquire, GenRelease, nativeVars
<1>7. CASE MalformedNativeRecord \/ RejectedProgress
             \/ \E x \in Stoppable : DeliverStop(x)
  BY <1>7 DEF MalformedNativeRecord, RejectedProgress, DeliverStop,
     NativeRequestStop, TypeOK
<1>8. ASSUME NEW b \in Actors, EnterGuard(b) \/ EnterReplay(b) \/ LeaveGuard(b)
      PROVE  gStopRequested'
  BY <1>8 DEF EnterGuard, EnterReplay, LeaveGuard, nativeVars
<1>9. ASSUME NEW d \in Debug, DebugStart(d) \/ DebugDone(d)
      PROVE  gStopRequested'
  BY <1>9 DEF DebugStart, DebugDone, nativeVars
<1> QED
  BY <1>3, <1>4, <1>5, <1>6, <1>7, <1>8, <1>9 DEF Next, TrainWorker, JniEntry

\* While a thread stays in its native loop nothing takes a stop back.
THEOREM StopIsSticky == Spec => StopSticks
<1>1. TypeOK /\ MutualExclusion /\ [Next]_vars
        => [\A a \in Actors : pc[a] = "loop" /\ pc'[a] = "loop"
               /\ gStopRequested => gStopRequested']_vars
  BY StopSticksStep
<1>2. QED
  BY <1>1, TypeCorrect, Exclusion, PTL DEF Spec, StopSticks

-----------------------------------------------------------------------------
\* The backend's own flags say how far the training run has come.
StandaloneWindow ==
  /\ pc["standalone"] \in {"idle", "queued", "entry", "acquired", "cancelled", "release",
                           "terminal"} => ~running /\ ~nativeCallEntered
  /\ pc["standalone"] \in {"queued", "entry", "acquired"} => runArmed
  /\ pc["standalone"] = "staging" => running /\ ~nativeCallEntered
  /\ pc["standalone"] \in {"jni", "guarded", "loop"} => running /\ nativeCallEntered
  /\ stopCall["standalone"] = "native" =>
       pc["standalone"] \notin {"queued", "entry", "acquired", "staging"}

BenchmarkWindow ==
  pc["benchmark"] = "queued" => prepared /\ stopCall["benchmark"] # "native"

\* Where an accepted stop waits until the run reaches the next check.
WaitsInKotlin ==
  /\ asked["standalone"] /\ pc["standalone"] \in {"queued", "entry", "acquired", "staging"}
       => pendingStop
  /\ asked["benchmark"] /\ pc["benchmark"] = "queued" => benchPendingStop
\* Unless a debug intent has been in the way; while the run stands before the
\* guard, none is inside.
WaitsInNative ==
  \A a \in Stoppable : asked[a] /\ stopCall[a] # "native" /\ ~misled[a] =>
    /\ pc[a] = "jni" => gPendingStop /\ ~DebugInGuard
    /\ pc[a] = "guarded" => gPendingStop
    /\ pc[a] = "loop" => gStopRequested

StopInv ==
  StandaloneWindow /\ BenchmarkWindow /\ WaitsInKotlin /\ WaitsInNative

LEMMA WindowStep ==
  ASSUME TypeOK, StandaloneWindow, [Next]_vars
  PROVE  StandaloneWindow'
<1> USE NativeRunAssumption, ActorFacts DEF StandaloneWindow
<1>1. CASE TrainStart
  BY <1>1 DEF TrainStart, TypeOK
<1>2. CASE TrainExecute
  BY <1>2 DEF TrainExecute, Goto, TypeOK, stopVars
<1>3. CASE TrainAcquire
  BY <1>3 DEF TrainAcquire, Goto, TypeOK, trainVars, stopVars
<1>4. CASE TrainEnterRun
  BY <1>4 DEF TrainEnterRun, TypeOK, stopVars
<1>5. CASE TrainStage
  BY <1>5 DEF TrainStage, Goto, TypeOK, stopVars
<1>6. CASE TrainReturned
  BY <1>6 DEF TrainReturned, Goto, TypeOK, stopVars
<1>7. CASE TrainClearStop
  BY <1>7 DEF TrainClearStop, Goto, TypeOK, trainVars, stopVars
<1>8. CASE TrainFinally \/ TrainRelease \/ TrainTerminal
  BY <1>8 DEF TrainFinally, TrainRelease, TrainTerminal, Goto, TypeOK, trainVars, stopVars
<1>9. CASE TrainStopChecked \/ TrainStopLocked
  BY <1>9 DEF TrainStopChecked, TrainStopLocked, TypeOK, trainVars
<1>10. CASE MalformedNativeRecord \/ RejectedProgress
  BY <1>10 DEF MalformedNativeRecord, RejectedProgress, stopVars
<1>11. CASE BenchPrepare \/ BenchOwn \/ BenchRelease \/ BenchStopLocked \/ GenAcquire
              \/ GenRelease
  <2>1. pc'["standalone"] = pc["standalone"] /\ UNCHANGED trainVars
    BY <1>11 DEF BenchPrepare, BenchOwn, BenchRelease, BenchStopLocked, GenAcquire,
       GenRelease, Goto, TypeOK
  <2>2. stopCall'["standalone"] = stopCall["standalone"]
    BY <1>11 DEF BenchPrepare, BenchOwn, BenchRelease, BenchStopLocked, GenAcquire,
       GenRelease, TypeOK, stopVars
  <2> QED
    BY <2>1, <2>2 DEF trainVars
<1>12. ASSUME NEW x \in Stoppable, DeliverStop(x) PROVE StandaloneWindow'
  BY <1>12 DEF DeliverStop, TypeOK, trainVars
<1>13. ASSUME NEW a \in Actors, JniEntry(a) \/ EnterReplay(a) \/ LeaveGuard(a)
       PROVE  StandaloneWindow'
  BY <1>13 DEF JniEntry, EnterGuard, BeginNativeCall, EnterReplay, LeaveGuard, Goto, TypeOK,
     trainVars, stopVars
<1>14. ASSUME NEW d \in Debug, DebugStart(d) \/ DebugDone(d) PROVE StandaloneWindow'
  <2>1. d # "standalone"
    BY DEF Arbitrated
  <2> QED
    BY <1>14, <2>1 DEF DebugStart, DebugDone, Goto, TypeOK, trainVars, stopVars
<1>15. CASE UNCHANGED vars
  BY <1>15 DEF vars, trainVars, stopVars
<1> QED
  BY <1>1, <1>2, <1>3, <1>4, <1>5, <1>6, <1>7, <1>8, <1>9, <1>10, <1>11, <1>12, <1>13,
     <1>14, <1>15 DEF Next, TrainWorker

LEMMA BenchmarkStep ==
  ASSUME TypeOK, MutualExclusion, BenchmarkWindow, [Next]_vars
  PROVE  BenchmarkWindow'
<1> USE NativeRunAssumption, ActorFacts DEF BenchmarkWindow
<1>1. CASE BenchPrepare
  BY <1>1 DEF BenchPrepare, TypeOK
<1>2. CASE BenchOwn
  BY <1>2 DEF BenchOwn, TypeOK, stopVars
<1>3. CASE BenchRelease
  BY <1>3 DEF BenchRelease, Goto, TypeOK, benchVars, stopVars
<1>4. CASE BenchStopLocked
  <2>1. pc["benchmark"] = "queued" => owner # "benchmark"
    BY DEF MutualExclusion, ArbiterExact, Holding
  <2> QED
    BY <1>4, <2>1 DEF BenchStopLocked, TypeOK
<1>5. CASE TrainStart \/ TrainWorker \/ TrainStopChecked \/ TrainStopLocked
             \/ MalformedNativeRecord \/ RejectedProgress \/ GenAcquire \/ GenRelease
  <2>1. pc'["benchmark"] = pc["benchmark"] /\ UNCHANGED benchVars
    BY <1>5 DEF TrainStart, TrainWorker, TrainExecute, TrainAcquire, TrainEnterRun, TrainStage,
       TrainReturned, TrainClearStop, TrainFinally, TrainRelease, TrainTerminal,
       TrainStopChecked, TrainStopLocked, MalformedNativeRecord, RejectedProgress,
       GenAcquire, GenRelease, Goto, TypeOK
  <2>2. stopCall'["benchmark"] = stopCall["benchmark"]
    BY <1>5 DEF TrainStart, TrainWorker, TrainExecute, TrainAcquire, TrainEnterRun, TrainStage,
       TrainReturned, TrainClearStop, TrainFinally, TrainRelease, TrainTerminal,
       TrainStopChecked, TrainStopLocked, MalformedNativeRecord, RejectedProgress,
       GenAcquire, GenRelease, TypeOK, stopVars
  <2> QED
    BY <2>1, <2>2 DEF benchVars
<1>6. ASSUME NEW x \in Stoppable, DeliverStop(x) PROVE BenchmarkWindow'
  BY <1>6 DEF DeliverStop, TypeOK, benchVars
<1>7. ASSUME NEW a \in Actors, JniEntry(a) \/ EnterReplay(a) \/ LeaveGuard(a)
      PROVE  BenchmarkWindow'
  BY <1>7 DEF JniEntry, EnterGuard, BeginNativeCall, EnterReplay, LeaveGuard, Goto, TypeOK,
     benchVars, stopVars
<1>8. ASSUME NEW d \in Debug, DebugStart(d) \/ DebugDone(d) PROVE BenchmarkWindow'
  BY <1>8 DEF DebugStart, DebugDone, Goto, TypeOK, Arbitrated, benchVars, stopVars
<1>9. CASE UNCHANGED vars
  BY <1>9 DEF vars, benchVars, stopVars
<1> QED
  BY <1>1, <1>2, <1>3, <1>4, <1>5, <1>6, <1>7, <1>8, <1>9 DEF Next

\* A stop that came before the run entered JNI is kept by the Kotlin flags.
LEMMA KotlinStep ==
  ASSUME TypeOK, MutualExclusion, StandaloneWindow, BenchmarkWindow, WaitsInKotlin, [Next]_vars
  PROVE  WaitsInKotlin'
<1> USE NativeRunAssumption, ActorFacts DEF WaitsInKotlin
<1>1. CASE TrainStart
  BY <1>1 DEF TrainStart, NewStoppableRun, TypeOK, benchVars
<1>2. CASE TrainExecute \/ TrainAcquire
  BY <1>2 DEF TrainExecute, TrainAcquire, Goto, TypeOK, trainVars, benchVars, stopVars
<1>3. CASE TrainEnterRun
  BY <1>3 DEF TrainEnterRun, StandaloneWindow, TypeOK, benchVars, stopVars
<1>4. CASE TrainStage
  BY <1>4 DEF TrainStage, Goto, TypeOK, benchVars, stopVars
<1>5. CASE TrainReturned \/ TrainClearStop \/ TrainFinally \/ TrainRelease \/ TrainTerminal
  BY <1>5 DEF TrainReturned, TrainClearStop, TrainFinally, TrainRelease, TrainTerminal, Goto,
     TypeOK, trainVars, benchVars, stopVars
<1>6. CASE TrainStopChecked
  BY <1>6 DEF TrainStopChecked, trainVars, benchVars
<1>7. CASE TrainStopLocked
  BY <1>7 DEF TrainStopLocked, TypeOK, benchVars
<1>8. CASE MalformedNativeRecord \/ RejectedProgress
  BY <1>8 DEF MalformedNativeRecord, RejectedProgress, TypeOK, benchVars, stopVars
<1>9. CASE BenchPrepare
  BY <1>9 DEF BenchPrepare, NewStoppableRun, TypeOK, trainVars
<1>10. CASE BenchOwn \/ BenchRelease
  BY <1>10 DEF BenchOwn, BenchRelease, Goto, TypeOK, trainVars, benchVars, stopVars
<1>11. CASE BenchStopLocked
  <2>1. pc["benchmark"] = "queued" => owner # "benchmark" /\ prepared
    BY DEF MutualExclusion, ArbiterExact, Holding, BenchmarkWindow
  <2> QED
    BY <1>11, <2>1 DEF BenchStopLocked, TypeOK, trainVars
<1>12. CASE GenAcquire \/ GenRelease
  BY <1>12 DEF GenAcquire, GenRelease, Goto, TypeOK, trainVars, benchVars, stopVars
<1>13. ASSUME NEW x \in Stoppable, DeliverStop(x) PROVE WaitsInKotlin'
  BY <1>13 DEF DeliverStop, trainVars, benchVars
<1>14. ASSUME NEW a \in Actors, JniEntry(a) \/ EnterReplay(a) \/ LeaveGuard(a)
       PROVE  WaitsInKotlin'
  BY <1>14 DEF JniEntry, EnterGuard, BeginNativeCall, EnterReplay, LeaveGuard, Goto, TypeOK,
     trainVars, benchVars, stopVars
<1>15. ASSUME NEW d \in Debug, DebugStart(d) \/ DebugDone(d) PROVE WaitsInKotlin'
  BY <1>15 DEF DebugStart, DebugDone, Goto, TypeOK, Arbitrated, trainVars, benchVars, stopVars
<1>16. CASE UNCHANGED vars
  BY <1>16 DEF vars, trainVars, benchVars, stopVars
<1> QED
  BY <1>1, <1>2, <1>3, <1>4, <1>5, <1>6, <1>7, <1>8, <1>9, <1>10, <1>11, <1>12, <1>13,
     <1>14, <1>15, <1>16 DEF Next, TrainWorker

\* A step that moves no debug intent into the guard and none of the runs that
\* can be stopped, raises flags at most, and accepts no stop for a run that is
\* past its Kotlin checks without sending it on its way.
LEMMA WaitsOn ==
  ASSUME WaitsInNative, DebugInGuard' => DebugInGuard,
         gPendingStop => gPendingStop', gStopRequested => gStopRequested',
         \A a \in Stoppable : pc'[a] \in {"jni", "guarded", "loop"} =>
           \/ pc'[a] = pc[a] /\ asked'[a] = asked[a] /\ stopCall'[a] = stopCall[a]
                /\ misled'[a] = misled[a]
           \/ ~asked'[a] \/ stopCall'[a] = "native"
  PROVE  WaitsInNative'
BY DEF WaitsInNative

\* Only debug intents enter the guard beside the thread that the arbiter names.
LEMMA DebugStays ==
  ASSUME \A d \in Debug : pc'[d] \in InGuard => pc[d] \in InGuard
  PROVE  DebugInGuard' => DebugInGuard
BY DEF DebugInGuard

\* Only one arbitrated thread is past the arbiter, so no other run takes away,
\* or is given, the stop that waits for this one in the native flags; and a
\* debug intent that gets into the guard first is noted.
LEMMA NativeStep ==
  ASSUME TypeOK, MutualExclusion, StopInv, [Next]_vars
  PROVE  WaitsInNative'
<1> USE NativeRunAssumption, ActorFacts
<1> DEFINE InNative(a) == pc[a] \in {"jni", "guarded", "loop"}
           Waiting(a) == asked[a] /\ stopCall[a] # "native" /\ ~misled[a] /\ InNative(a)
<1>1. \A a, b \in Arbitrated : pc[a] \in Holding /\ pc[b] \in Holding => a = b
  BY DEF MutualExclusion, ArbiterExact
<1>2. gNativeCallEntered <=> \E a \in Actors : pc[a] = "loop"
  BY DEF MutualExclusion, GuardExclusive
<1>3. WaitsInNative
  BY DEF StopInv
<1>4. \A a \in Stoppable : a \in Arbitrated /\ (InNative(a) => pc[a] \in Holding)
  BY DEF Holding
<1>5. \A d \in Debug : d \in Actors \ Arbitrated /\ d \notin Stoppable
  BY DEF Stoppable, Arbitrated, Actors
<1>6. CASE TrainStart
  <2>1. UNCHANGED nativeVars /\ \A d \in Debug : pc'[d] = pc[d]
    BY <1>5, <1>6 DEF TrainStart, TypeOK
  <2>2. \A a \in Stoppable : pc'[a] \in {"jni", "guarded", "loop"} =>
          pc'[a] = pc[a] /\ asked'[a] = asked[a] /\ stopCall'[a] = stopCall[a]
            /\ misled'[a] = misled[a]
    BY <1>6 DEF TrainStart, NewStoppableRun, TypeOK
  <2> QED
    BY <1>3, <2>1, <2>2, DebugStays, WaitsOn DEF nativeVars
<1>7. CASE TrainExecute \/ TrainAcquire \/ TrainEnterRun \/ TrainReturned \/ TrainFinally
             \/ TrainRelease \/ TrainTerminal
  <2>1. UNCHANGED nativeVars /\ UNCHANGED stopVars
    BY <1>7 DEF TrainExecute, TrainAcquire, TrainEnterRun, TrainReturned, TrainFinally,
       TrainRelease, TrainTerminal
  <2>3. \A d \in Debug : pc'[d] = pc[d]
    <3>1. \A d \in Debug : d \in Actors /\ d # "standalone"
      BY <1>5 DEF Stoppable
    <3>2. CASE TrainExecute \/ TrainAcquire
      BY <3>1, <3>2 DEF TrainExecute, TrainAcquire, Goto, TypeOK
    <3>3. CASE TrainEnterRun
      BY <3>1, <3>3 DEF TrainEnterRun, TypeOK
    <3>4. CASE TrainReturned \/ TrainFinally \/ TrainRelease \/ TrainTerminal
      BY <3>1, <3>4 DEF TrainReturned, TrainFinally, TrainRelease, TrainTerminal, Goto, TypeOK
    <3> QED
      BY <1>7, <3>2, <3>3, <3>4
  <2>2. \A a \in Stoppable : pc'[a] \in {"jni", "guarded", "loop"} => pc'[a] = pc[a]
    BY <1>7 DEF TrainExecute, TrainAcquire, TrainEnterRun, TrainReturned, TrainFinally,
       TrainRelease, TrainTerminal, Goto, TypeOK
  <2> QED
    BY <1>3, <2>1, <2>2, <2>3, DebugStays, WaitsOn DEF nativeVars, stopVars
<1>8. CASE TrainStage
  <2>1. pc'["standalone"] = "jni" => ~asked["standalone"]
    BY <1>8 DEF TrainStage, Goto, TypeOK, StopInv, WaitsInKotlin
  <2>2. /\ UNCHANGED nativeVars /\ UNCHANGED stopVars /\ \A d \in Debug : pc'[d] = pc[d]
        /\ pc'["standalone"] \in {"finally", "cancelledBeforeJni", "jni"}
        /\ pc'["benchmark"] = pc["benchmark"]
    BY <1>5, <1>8 DEF TrainStage, Goto, TypeOK
  <2> QED
    BY <1>3, <2>1, <2>2, DebugStays, WaitsOn DEF nativeVars, stopVars, Stoppable
<1>9. CASE TrainClearStop
  <2>1. pc["standalone"] \in Holding /\ pc'["standalone"] \in {"release", "finally"}
    BY <1>9 DEF TrainClearStop, Goto, TypeOK, Holding
  <2>2. ~InNative("benchmark") /\ pc'["benchmark"] = pc["benchmark"]
    BY <1>1, <1>4, <1>9, <2>1 DEF TrainClearStop, Goto, TypeOK
  <2> QED
    BY <2>1, <2>2 DEF WaitsInNative, Stoppable
<1>10. CASE TrainStopChecked
  <2>1. /\ UNCHANGED <<nativeVars, pc, asked, misled>>
        /\ pc["standalone"] \in {"jni", "guarded", "loop"} =>
             stopCall["standalone"] = "none" /\ stopCall'["standalone"] = "checked"
        /\ stopCall'["benchmark"] = stopCall["benchmark"]
    BY <1>10 DEF TrainStopChecked, TypeOK
  <2> QED
    BY <1>3, <2>1 DEF WaitsInNative, DebugInGuard, Stoppable, nativeVars
<1>11. CASE TrainStopLocked
  <2>1. InNative("standalone") => stopCall'["standalone"] = "native"
    BY <1>11 DEF TrainStopLocked, StopInv, StandaloneWindow, TypeOK
  <2>2. /\ UNCHANGED <<pc, nativeVars, misled>>
        /\ asked'["benchmark"] = asked["benchmark"]
        /\ stopCall'["benchmark"] = stopCall["benchmark"]
    BY <1>11 DEF TrainStopLocked, TypeOK
  <2> QED
    BY <1>3, <2>1, <2>2, DebugStays, WaitsOn DEF Stoppable, nativeVars
<1>12. CASE MalformedNativeRecord \/ RejectedProgress
  <2>1. pc["standalone"] = "loop" /\ gNativeCallEntered
    BY <1>2, <1>12 DEF MalformedNativeRecord, RejectedProgress
  <2>2. gStopRequested' = TRUE /\ gPendingStop' = gPendingStop
    BY <1>12, <2>1 DEF MalformedNativeRecord, RejectedProgress, NativeRequestStop, TypeOK
  <2>3. /\ UNCHANGED <<pc, stopCall>>
        /\ asked'["benchmark"] = asked["benchmark"] /\ misled'["benchmark"] = misled["benchmark"]
    BY <1>12 DEF MalformedNativeRecord, RejectedProgress, TypeOK, stopVars
  <2> QED
    BY <1>3, <2>1, <2>2, <2>3 DEF WaitsInNative, DebugInGuard, Stoppable
<1>13. CASE BenchPrepare
  <2>1. UNCHANGED nativeVars /\ \A d \in Debug : pc'[d] = pc[d]
    BY <1>5, <1>13 DEF BenchPrepare, TypeOK
  <2>2. \A a \in Stoppable : pc'[a] \in {"jni", "guarded", "loop"} =>
          pc'[a] = pc[a] /\ asked'[a] = asked[a] /\ stopCall'[a] = stopCall[a]
            /\ misled'[a] = misled[a]
    BY <1>13 DEF BenchPrepare, NewStoppableRun, TypeOK
  <2> QED
    BY <1>3, <2>1, <2>2, DebugStays, WaitsOn DEF nativeVars
<1>14. CASE BenchOwn
  <2>1. pc'["benchmark"] = "jni" => ~asked["benchmark"]
    BY <1>14 DEF BenchOwn, TypeOK, StopInv, WaitsInKotlin
  <2>2. /\ UNCHANGED nativeVars /\ UNCHANGED stopVars /\ \A d \in Debug : pc'[d] = pc[d]
        /\ pc'["benchmark"] \in {"idle", "jni"}
        /\ pc'["standalone"] = pc["standalone"]
    BY <1>5, <1>14 DEF BenchOwn, TypeOK
  <2> QED
    BY <1>3, <2>1, <2>2, DebugStays, WaitsOn DEF nativeVars, stopVars, Stoppable
<1>15. CASE BenchRelease \/ GenAcquire \/ GenRelease
  <2>1. UNCHANGED nativeVars /\ UNCHANGED stopVars /\ \A d \in Debug : pc'[d] = pc[d]
    BY <1>5, <1>15 DEF BenchRelease, GenAcquire, GenRelease, Goto, TypeOK
  <2>2. \A a \in Stoppable : pc'[a] \in {"jni", "guarded", "loop"} => pc'[a] = pc[a]
    BY <1>15 DEF BenchRelease, GenAcquire, GenRelease, Goto, TypeOK, Stoppable
  <2> QED
    BY <1>3, <2>1, <2>2, DebugStays, WaitsOn DEF nativeVars, stopVars
<1>16. CASE BenchStopLocked
  <2>1. InNative("benchmark") => stopCall'["benchmark"] = "native"
    BY <1>4, <1>16 DEF BenchStopLocked, MutualExclusion, ArbiterExact, TypeOK
  <2>2. /\ UNCHANGED <<pc, nativeVars, misled>>
        /\ asked'["standalone"] = asked["standalone"]
        /\ stopCall'["standalone"] = stopCall["standalone"]
    BY <1>16 DEF BenchStopLocked, TypeOK
  <2> QED
    BY <1>3, <2>1, <2>2, DebugStays, WaitsOn DEF Stoppable, nativeVars
<1>17. ASSUME NEW x \in Stoppable, DeliverStop(x) PROVE WaitsInNative'
  <2>1. pc[x] = "loop" => gStopRequested'
    BY <1>2, <1>17 DEF DeliverStop, NativeRequestStop
  <2>2. pc[x] = "guarded" \/ (pc[x] = "jni" /\ ~DebugInGuard) => gPendingStop'
    <3> SUFFICES ASSUME pc[x] = "guarded" \/ (pc[x] = "jni" /\ ~DebugInGuard), gNativeCallEntered
                 PROVE  FALSE
      BY <1>17 DEF DeliverStop, NativeRequestStop
    <3>1. PICK b \in Actors : pc[b] = "loop"
      BY <1>2
    <3>2. b \in Arbitrated => b = x
      BY <1>1, <3>1 DEF Holding
    <3>3. pc[x] = "guarded" => b = x
      BY <3>1 DEF MutualExclusion, GuardExclusive, InGuard
    <3>4. b \in Debug => DebugInGuard
      BY <3>1 DEF DebugInGuard, InGuard
    <3> QED
      BY <3>1, <3>2, <3>3, <3>4 DEF Actors
  <2>3. /\ UNCHANGED <<pc, asked>> /\ misled'[x] = (pc[x] = "jni" /\ DebugInGuard)
        /\ \A a \in Stoppable : a # x => stopCall'[a] = stopCall[a] /\ misled'[a] = misled[a]
    BY <1>17 DEF DeliverStop, TypeOK
  <2>4. (gStopRequested => gStopRequested') /\ (gPendingStop => gPendingStop')
    BY <1>17 DEF DeliverStop, NativeRequestStop
  <2>5. DebugInGuard' = DebugInGuard
    BY <2>3 DEF DebugInGuard
  <2>6. ASSUME NEW a \in Stoppable, asked'[a], stopCall'[a] # "native", ~misled'[a]
        PROVE  /\ pc'[a] = "jni" => gPendingStop' /\ ~DebugInGuard'
               /\ pc'[a] = "guarded" => gPendingStop'
               /\ pc'[a] = "loop" => gStopRequested'
    <3>1. CASE a = x
      BY <2>1, <2>2, <2>3, <2>5, <2>6, <3>1
    <3>2. CASE a # x
      BY <1>3, <2>3, <2>4, <2>5, <2>6, <3>2 DEF WaitsInNative
    <3> QED BY <3>1, <3>2
  <2> QED
    BY <2>6 DEF WaitsInNative
<1>18. ASSUME NEW a \in Arbitrated, EnterGuard(a) \/ BeginNativeCall(a) \/ LeaveGuard(a)
       PROVE  WaitsInNative'
  <2>1. pc[a] \in Holding /\ a \notin Debug
    BY <1>18 DEF EnterGuard, BeginNativeCall, LeaveGuard, Goto, Holding
  <2>2. \A b \in Stoppable : b # a => ~InNative(b) /\ pc'[b] = pc[b]
    BY <1>1, <1>4, <1>18, <2>1 DEF EnterGuard, BeginNativeCall, LeaveGuard, Goto, TypeOK
  <2>3. UNCHANGED <<asked, stopCall>> /\ \A b \in Stoppable : misled'[b] = misled[b]
    BY <1>18, <2>1 DEF EnterGuard, BeginNativeCall, LeaveGuard, stopVars, TypeOK
  <2>4. CASE EnterGuard(a)
    <3>1. pc[a] = "jni" /\ pc'[a] \in {"returned", "guarded"} /\ gPendingStop' = gPendingStop
      BY <2>4 DEF EnterGuard, TypeOK
    <3> QED
      BY <1>3, <2>2, <2>3, <3>1 DEF WaitsInNative
  <2>5. CASE BeginNativeCall(a)
    <3>1. pc[a] = "guarded" /\ pc'[a] = "loop" /\ gStopRequested' = gPendingStop
      BY <2>5 DEF BeginNativeCall, Goto, TypeOK
    <3> QED
      BY <1>3, <2>2, <2>3, <3>1 DEF WaitsInNative
  <2>6. CASE LeaveGuard(a)
    <3>1. pc'[a] = "returned"
      BY <2>6 DEF LeaveGuard, TypeOK
    <3> QED
      BY <2>2, <3>1 DEF WaitsInNative
  <2> QED
    BY <1>18, <2>4, <2>5, <2>6
<1>19. ASSUME NEW d \in Debug, EnterGuard(d) PROVE WaitsInNative'
  <2>1. /\ UNCHANGED <<gPendingStop, gStopRequested, asked, stopCall>>
        /\ \A a \in Stoppable :
             /\ pc'[a] = pc[a]
             /\ misled'[a] = (misled[a] \/ (~gRunning /\ StopWaits(a)))
    BY <1>5, <1>19 DEF EnterGuard, TypeOK
  <2>2. ASSUME gRunning PROVE DebugInGuard' => DebugInGuard
    <3>1. \A c \in Debug : pc'[c] \in InGuard => pc[c] \in InGuard
      BY <1>19, <2>2 DEF EnterGuard, TypeOK, InGuard
    <3> QED BY <3>1, DebugStays
  <2>3. ASSUME NEW a \in Stoppable, asked'[a], stopCall'[a] # "native", ~misled'[a]
        PROVE  /\ pc'[a] = "jni" => gPendingStop' /\ ~DebugInGuard'
               /\ pc'[a] = "guarded" => gPendingStop'
               /\ pc'[a] = "loop" => gStopRequested'
    <3>1. pc[a] = "jni" => gRunning
      BY <2>1, <2>3 DEF StopWaits
    <3> QED
      BY <1>3, <2>1, <2>2, <2>3, <3>1 DEF WaitsInNative
  <2> QED
    BY <2>3 DEF WaitsInNative
<1>20. ASSUME NEW d \in Debug, BeginNativeCall(d) \/ EnterReplay(d) \/ LeaveGuard(d)
       PROVE  WaitsInNative'
  <2>1. pc[d] \in InGuard
    BY <1>20 DEF BeginNativeCall, EnterReplay, LeaveGuard, Goto, InGuard
  <2>2. DebugInGuard
    BY <2>1 DEF DebugInGuard
  <2>3. \A a \in Stoppable : pc[a] \notin {"guarded", "loop"} /\ ~Waiting(a)
    BY <1>3, <1>5, <2>1, <2>2 DEF MutualExclusion, GuardExclusive, InGuard, WaitsInNative
  <2>4. \A a \in Stoppable : pc'[a] = pc[a]
    BY <1>5, <1>20 DEF BeginNativeCall, EnterReplay, LeaveGuard, Goto, TypeOK
  <2>5. UNCHANGED <<asked, stopCall, misled>>
    BY <1>20 DEF BeginNativeCall, EnterReplay, LeaveGuard, stopVars
  <2> QED
    BY <2>3, <2>4, <2>5 DEF WaitsInNative
<1>21. ASSUME NEW a \in Actors, JniEntry(a) \/ EnterReplay(a) \/ LeaveGuard(a)
       PROVE  WaitsInNative'
  <2>1. a \in Arbitrated \/ a \in Debug
    BY DEF Actors
  <2>2. EnterReplay(a) => a \in Debug
    BY DEF EnterReplay
  <2> QED
    BY <1>18, <1>19, <1>20, <1>21, <2>1, <2>2, <1>5 DEF JniEntry
<1>22. ASSUME NEW d \in Debug, DebugStart(d) \/ DebugDone(d) PROVE WaitsInNative'
  <2>1. UNCHANGED nativeVars /\ UNCHANGED stopVars
    BY <1>22 DEF DebugStart, DebugDone
  <2>2. \A c \in Debug : pc'[c] \in InGuard => pc[c] \in InGuard
    BY <1>22 DEF DebugStart, DebugDone, Goto, TypeOK, InGuard
  <2>3. \A a \in Stoppable : pc'[a] = pc[a]
    BY <1>5, <1>22 DEF DebugStart, DebugDone, Goto, TypeOK
  <2> QED
    BY <1>3, <2>1, <2>2, <2>3, DebugStays, WaitsOn DEF nativeVars, stopVars
<1>23. CASE UNCHANGED vars
  BY <1>3, <1>23 DEF vars, nativeVars, stopVars, WaitsInNative, DebugInGuard
<1> QED
  BY <1>6, <1>7, <1>8, <1>9, <1>10, <1>11, <1>12, <1>13, <1>14, <1>15, <1>16, <1>17, <1>21,
     <1>22, <1>23 DEF Next, TrainWorker

\* However many debug intents enter JNI, and whenever, an accepted stop is seen
\* by the loop that polls for it, whenever it came and whoever else runs: only
\* a debug intent in the guard while the run stands before it with its stop
\* delivered takes it away.
THEOREM StopNeverLost == Spec => []StopNotLost
<1>1. Init => StopInv
  BY ActorFacts, NativeRunAssumption DEF Init, StopInv, StandaloneWindow, BenchmarkWindow,
     WaitsInKotlin, WaitsInNative
<1>2. TypeOK /\ MutualExclusion /\ StopInv /\ [Next]_vars => StopInv'
  <2> SUFFICES ASSUME TypeOK, MutualExclusion, StopInv, [Next]_vars PROVE StopInv'
    OBVIOUS
  <2>1. StandaloneWindow' /\ BenchmarkWindow' /\ WaitsInKotlin'
    BY WindowStep, BenchmarkStep, KotlinStep DEF StopInv
  <2>2. WaitsInNative'
    BY NativeStep
  <2> QED
    BY <2>1, <2>2 DEF StopInv
<1>3. TypeOK /\ StopInv => StopNotLost
  BY DEF StopInv, WaitsInNative, StopNotLost
<1> QED
  BY <1>1, <1>2, <1>3, TypeCorrect, Exclusion, PTL DEF Spec
=============================================================================
