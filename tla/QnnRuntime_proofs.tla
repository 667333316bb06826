------------------------- MODULE QnnRuntime_proofs -------------------------
(***************************************************************************)
(* For any number of contexts and graphs, of a library that refuses to     *)
(* create a graph without a context.                                       *)
(***************************************************************************)
EXTENDS QnnRuntime, TLAPS

(* The inductive invariant. *)

\* Which contexts exist, and what the library was told about them.
ContextInv ==
  /\ context <= created
  /\ impl # "initialized" => context = 0 /\ \A s \in Slots : graph[s] = NoGraph
  /\ \A c \in 1..MaxContexts :
       freed[c] = IF c = context \/ c > created THEN 0 ELSE 1

\* What the state of the builder says of the two training slots.
BuilderInv ==
  /\ state = "INACTIVE" => graph[Generalized] = NoGraph
  /\ state # "INACTIVE" => graph[FixedL1] = NoGraph
  /\ state = "ACTIVE" => graph[Generalized].built

Inv == TypeOK /\ ContextInv /\ NoStaleGraph /\ BuilderInv /\ TrainingGraphsApart

\* The slots that are prepared without regard to the others.
Plain == Slots \ {Generalized, FixedL1}

LEMMA NoGraphType == NoGraph \in Handles
  BY QnnRuntimeAssumption DEF NoGraph, Handles

LEMMA NoRunType == NoRun \in [slot : Slots \cup {"none"}, graph : Handles]
  BY NoGraphType DEF NoRun

LEMMA InitInv == ASSUME Init PROVE Inv
<1>1. TypeOK
  <2>1. graph \in [Slots -> Handles] /\ freed \in [1..MaxContexts -> Nat]
    BY NoGraphType DEF Init
  <2>2. ran \in [slot : Slots \cup {"none"}, graph : Handles]
    BY NoGraphType DEF Init, NoRun
  <2>3. context \in 0..MaxContexts /\ created \in 0..MaxContexts
    BY QnnRuntimeAssumption DEF Init
  <2>4. QED BY <2>1, <2>2, <2>3 DEF Init, TypeOK
<1>2. ContextInv
  BY QnnRuntimeAssumption DEF Init, ContextInv
<1>3. Generalized \in Slots /\ FixedL1 \in Slots /\ "none" \notin Slots
  BY DEF Slots, Generalized, FixedL1
<1>4. NoStaleGraph /\ BuilderInv /\ TrainingGraphsApart
  BY <1>3 DEF Init, NoStaleGraph, BuilderInv, TrainingGraphsApart, NoRun, Generalized, FixedL1
<1>5. QED BY <1>1, <1>2, <1>4 DEF Inv

\* What the ways a preparation can end do to the slots.
LEMMA AttemptedSlots ==
  ASSUME NEW g \in [Slots -> Handles], NEW s \in Slots, context \in 0..MaxContexts,
         NEW h \in Attempted(g, s)
  PROVE  /\ h \in [Slots -> Handles]
         /\ \A t \in Slots \ {s} : h[t] = g[t]
         /\ h[s] \in {g[s], NoGraph, [context |-> context, built |-> FALSE],
                      [context |-> context, built |-> TRUE]}
<1> DEFINE N(v) == [g EXCEPT ![s] = v]
<1>1. /\ NoGraph \in Handles
      /\ [context |-> context, built |-> FALSE] \in Handles
      /\ [context |-> context, built |-> TRUE] \in Handles
  BY NoGraphType DEF Handles
<1>2. ASSUME NEW v \in Handles
      PROVE  N(v) \in [Slots -> Handles] /\ N(v)[s] = v
             /\ \A t \in Slots \ {s} : N(v)[t] = g[t]
  OBVIOUS
<1>3. h \in {g, N(NoGraph), N([context |-> context, built |-> FALSE]),
             N([context |-> context, built |-> TRUE])}
  BY DEF Attempted, Failed, Built
<1>4. QED BY <1>1, <1>2, <1>3

\* And a graphCreate that was refused.
LEMMA RefusedSlots ==
  ASSUME NEW g \in [Slots -> Handles], NEW s \in Slots, NEW h \in Refused(g, s)
  PROVE  /\ h \in [Slots -> Handles]
         /\ \A t \in Slots \ {s} : h[t] = g[t]
         /\ h[s] \in {g[s], NoGraph}
  BY NoGraphType DEF Refused

\* New graphs of a live context in some of the plain slots, and slots that are
\* emptied, keep the invariant.
LEMMA PlainSlots ==
  ASSUME Inv, impl = "initialized",
         graph' \in [Slots -> Handles],
         \A t \in Slots : \/ graph'[t] = graph[t]
                          \/ graph'[t] = NoGraph
                          \/ t \in Plain /\ context # 0 /\ graph'[t].context = context,
         graph'[Generalized] = graph[Generalized], graph'[FixedL1] = graph[FixedL1],
         ran' = NoRun, UNCHANGED <<contextVars, state, forwardOnly>>
  PROVE  Inv'
<1>1. TypeOK'
  BY QnnRuntimeAssumption DEF Inv, TypeOK, contextVars, NoRun, NoGraph, Handles
<1>2. ContextInv'
  BY DEF Inv, ContextInv, contextVars
<1>3. context # 0 => context \in 1..MaxContexts /\ freed[context] = 0
  BY DEF Inv, TypeOK, ContextInv
<1>4. NoStaleGraph'
  BY <1>3 DEF Inv, NoStaleGraph, Live, contextVars
<1>5. BuilderInv' /\ TrainingGraphsApart'
  BY DEF Inv, BuilderInv, TrainingGraphsApart, NoRun, Generalized, FixedL1
<1>6. QED BY <1>1, <1>2, <1>4, <1>5 DEF Inv

\* With a context or without one.
LEMMA AttemptInv ==
  ASSUME Inv, NEW s \in Plain, impl = "initialized", Attempt(s)
  PROVE  Inv'
<1>1. s \in Slots /\ graph \in [Slots -> Handles] /\ context \in 0..MaxContexts
  BY DEF Inv, TypeOK, Plain
<1>2. /\ graph' \in [Slots -> Handles]
      /\ \A t \in Slots \ {s} : graph'[t] = graph[t]
      /\ \/ graph'[s] \in {graph[s], NoGraph}
         \/ context # 0 /\ graph'[s].context = context
  <2>1. CASE context # 0
    <3>1. graph' \in Attempted(graph, s)
      BY <2>1 DEF Attempt
    <3>2. QED BY <1>1, <2>1, <3>1, AttemptedSlots
  <2>2. CASE context = 0
    <3>1. graph' \in Refused(graph, s)
      BY <2>2, LibraryAssumption DEF Attempt
    <3>2. QED BY <1>1, <3>1, RefusedSlots
  <2>3. QED BY <2>1, <2>2
<1>3. Generalized \in Slots \ {s} /\ FixedL1 \in Slots \ {s}
  BY DEF Plain, Slots, Generalized, FixedL1
<1>4. QED BY <1>2, <1>3, PlainSlots DEF Attempt

LEMMA PrepareInv ==
  ASSUME Inv, NEW s \in Plain, Prepare(s)
  PROVE  Inv'
  BY AttemptInv DEF Prepare, CanPrepare

\* The two that do not look at the context.
LEMMA PrepareUncheckedInv ==
  ASSUME Inv, PrepareInputGradientMatMul \/ PrepareMlpFusedBackward
  PROVE  Inv'
<1>1. "dx" \in Plain /\ "fusedBackward" \in Plain
  BY DEF Plain, Slots, Generalized, FixedL1
<1>2. QED
  BY <1>1, AttemptInv DEF PrepareInputGradientMatMul, PrepareMlpFusedBackward

LEMMA PrepareMlpInv ==
  ASSUME Inv, PrepareMlp
  PROVE  Inv'
<1> DEFINE F == Built(graph, "mlpForward")
           D == Built(F, "dw2")
           H == Built(D, "dh")
           Kept(g) == \A t \in Slots : \/ g[t] = graph[t] \/ g[t] = NoGraph
                                       \/ /\ t \in Plain /\ context # 0
                                          /\ g[t].context = context
           Same(g) == g[Generalized] = graph[Generalized] /\ g[FixedL1] = graph[FixedL1]
           Good(g) == g \in [Slots -> Handles] /\ Kept(g) /\ Same(g)
<1>1. impl = "initialized" /\ context # 0 /\ graph \in [Slots -> Handles]
      /\ context \in 0..MaxContexts
  BY DEF PrepareMlp, CanPrepare, Inv, TypeOK
<1>2. {"mlpForward", "dw2", "dh", "dw1"} \subseteq Plain
  BY DEF Plain, Slots, Generalized, FixedL1
<1>3. ASSUME NEW g, Good(g), NEW s \in Plain, NEW h \in Attempted(g, s)
      PROVE  Good(h)
  <2>1. /\ h \in [Slots -> Handles]
        /\ \A t \in Slots \ {s} : h[t] = g[t]
        /\ h[s] \in {g[s], NoGraph, [context |-> context, built |-> FALSE],
                     [context |-> context, built |-> TRUE]}
    BY <1>1, <1>3, AttemptedSlots DEF Plain
  <2>2. Generalized \in Slots \ {s} /\ FixedL1 \in Slots \ {s}
    BY DEF Plain, Slots, Generalized, FixedL1
  <2>3. Kept(h)
    <3>1. \A t \in Slots \ {s} : h[t] = g[t]
      BY <2>1
    <3>2. \/ h[s] = g[s] \/ h[s] = NoGraph
          \/ s \in Plain /\ context # 0 /\ h[s].context = context
      BY <1>1, <2>1
    <3>3. Kept(g)
      BY <1>3
    <3>4. QED BY <3>1, <3>2, <3>3
  <2>4. Same(h)
    BY <1>3, <2>1, <2>2
  <2>5. QED BY <2>1, <2>3, <2>4
<1>4. ASSUME NEW g, NEW s PROVE Built(g, s) \in Attempted(g, s)
  BY DEF Attempted
<1>5. Good(graph)
  BY <1>1
<1>6. Good(F) /\ Good(D) /\ Good(H)
  BY <1>2, <1>3, <1>4, <1>5
<1>7. graph' \in Attempted(graph, "mlpForward") \cup Attempted(F, "dw2")
               \cup Attempted(D, "dh") \cup Attempted(H, "dw1")
  BY DEF PrepareMlp
<1>8. Good(graph')
  BY <1>2, <1>3, <1>5, <1>6, <1>7
<1>9. QED BY <1>1, <1>8, PlainSlots DEF PrepareMlp

----------------------------------------------------------------------------
(* The training graphs *)

LEMMA FailedSlots ==
  ASSUME NEW g \in [Slots -> Handles], NEW s \in Slots, context \in 0..MaxContexts,
         NEW h \in Failed(g, s)
  PROVE  h \in Attempted(g, s)
  BY DEF Attempted

LEMMA PrepareTinyTransformerTrainingInv ==
  ASSUME Inv, PrepareTinyTransformerTraining
  PROVE  Inv'
<1>1. /\ impl = "initialized" /\ context # 0 /\ state = "INACTIVE"
      /\ graph[FixedL1] = NoGraph /\ graph[Generalized] = NoGraph
      /\ graph \in [Slots -> Handles] /\ context \in 0..MaxContexts
  BY DEF PrepareTinyTransformerTraining, CanPrepare, Inv, TypeOK, BuilderInv
<1>2. Generalized \in Slots /\ FixedL1 \in Slots /\ Generalized # FixedL1
  BY DEF Slots, Generalized, FixedL1
<1> DEFINE Result(s) == /\ graph' \in [Slots -> Handles]
                        /\ \A t \in Slots \ {s} : graph'[t] = graph[t]
                        /\ graph'[s] = NoGraph \/ graph'[s].context = context
<1>3. \/ /\ Result(Generalized) /\ state' \in {"ACTIVE", "FAILED"}
         /\ forwardOnly' \in BOOLEAN
         /\ state' = "ACTIVE" => graph'[Generalized].built
      \/ Result(FixedL1) /\ UNCHANGED <<state, forwardOnly>>
  <2>1. CASE PrepareGeneralized
    <3>1. graph' \in Attempted(graph, Generalized)
      BY <2>1 DEF PrepareGeneralized, Attempted
    <3>2. Result(Generalized)
      BY <1>1, <1>2, <3>1, AttemptedSlots
    <3>3. state' = "ACTIVE" => graph'[Generalized].built
      BY <1>1, <1>2, <2>1 DEF PrepareGeneralized, Built
    <3>4. QED BY <2>1, <3>2, <3>3 DEF PrepareGeneralized
  <2>2. CASE graph' \in Attempted(graph, FixedL1) /\ UNCHANGED <<state, forwardOnly>>
    BY <1>1, <1>2, <2>2, AttemptedSlots
  <2>3. QED BY <2>1, <2>2 DEF PrepareTinyTransformerTraining
<1>4. ran' = NoRun /\ UNCHANGED contextVars
  BY DEF PrepareTinyTransformerTraining
<1>5. TypeOK'
  <2>1. state' \in {"INACTIVE", "ACTIVE", "FAILED"} /\ forwardOnly' \in BOOLEAN
    BY <1>3 DEF Inv, TypeOK
  <2>2. graph' \in [Slots -> Handles]
    BY <1>3
  <2>3. QED BY <1>4, <2>1, <2>2, NoRunType DEF Inv, TypeOK, contextVars
<1>6. ContextInv'
  BY <1>1, <1>4 DEF Inv, ContextInv, contextVars
<1>7. context \in 1..MaxContexts /\ freed[context] = 0
  BY <1>1 DEF Inv, TypeOK, ContextInv
<1>8. NoStaleGraph'
  BY <1>3, <1>4, <1>7 DEF Inv, NoStaleGraph, Live, contextVars
<1>9. BuilderInv' /\ TrainingGraphsApart'
  BY <1>1, <1>2, <1>3, <1>4 DEF BuilderInv, TrainingGraphsApart, NoRun, Generalized, FixedL1
<1>10. QED BY <1>5, <1>6, <1>8, <1>9 DEF Inv

----------------------------------------------------------------------------
(* The life of the object *)

LEMMA InitializeInv ==
  ASSUME Inv, Initialize
  PROVE  Inv'
<1>1. context = 0 /\ \A s \in Slots : graph[s] = NoGraph
  BY DEF Inv, ContextInv, Initialize
<1>2. TypeOK'
  <2>1. context' \in 0..MaxContexts /\ created' \in 0..MaxContexts
    BY QnnRuntimeAssumption DEF Inv, TypeOK, Initialize, CreateContext
  <2>2. QED BY <2>1, NoRunType DEF Inv, TypeOK, Initialize
<1>3. ContextInv'
  BY <1>1, QnnRuntimeAssumption DEF Inv, TypeOK, ContextInv, Initialize, CreateContext
<1>4. NoStaleGraph'
  BY <1>1 DEF NoStaleGraph, Initialize
<1>5. BuilderInv' /\ TrainingGraphsApart'
  BY DEF Inv, BuilderInv, TrainingGraphsApart, Initialize, NoRun, Generalized, FixedL1
<1>6. QED BY <1>2, <1>3, <1>4, <1>5 DEF Inv

LEMMA RecreateContextInv ==
  ASSUME Inv, RecreateContext
  PROVE  Inv'
<1>1. context \in 1..MaxContexts /\ context <= created /\ freed[context] = 0
  BY DEF Inv, TypeOK, ContextInv, RecreateContext
<1>2. /\ \A s \in Slots \ {"elementwiseSquare"} : graph'[s] = NoGraph
      /\ graph' \in [Slots -> Handles]
  BY NoGraphType DEF Inv, TypeOK, RecreateContext, InvalidateContextGraphs
<1>3. Generalized \in Slots \ {"elementwiseSquare"} /\ FixedL1 \in Slots \ {"elementwiseSquare"}
  BY DEF Slots, Generalized, FixedL1
<1>4. TypeOK'
  <2>1. context' \in 0..MaxContexts /\ created' \in 0..MaxContexts
    BY QnnRuntimeAssumption DEF Inv, TypeOK, RecreateContext, CreateContext
  <2>2. freed' \in [1..MaxContexts -> Nat]
    BY <1>1 DEF Inv, TypeOK, RecreateContext
  <2>3. ran' \in [slot : Slots \cup {"none"}, graph : Handles]
    BY NoGraphType DEF RecreateContext, NoRun
  <2>4. QED
    BY <1>2, <2>1, <2>2, <2>3
    DEF Inv, TypeOK, RecreateContext, InvalidateContextGraphs
<1>5. ContextInv'
  <2>1. impl' = "initialized"
    BY DEF RecreateContext
  <2>2. \/ context' = created + 1 /\ created' = created + 1
        \/ context' = 0 /\ created' = created
    BY DEF RecreateContext, CreateContext
  <2>3. \A c \in 1..MaxContexts : freed'[c] = IF c = context THEN 1 ELSE freed[c]
    BY <1>1 DEF Inv, TypeOK, RecreateContext
  <2>4. QED
    BY <1>1, <2>1, <2>2, <2>3, QnnRuntimeAssumption DEF Inv, TypeOK, ContextInv
<1>6. NoStaleGraph'
  BY <1>2 DEF NoStaleGraph
<1>7. BuilderInv' /\ TrainingGraphsApart'
  BY <1>2, <1>3
  DEF BuilderInv, TrainingGraphsApart, RecreateContext, InvalidateContextGraphs,
      NoRun, Generalized, FixedL1
<1>8. QED BY <1>4, <1>5, <1>6, <1>7 DEF Inv

LEMMA DestroyInv ==
  ASSUME Inv, Destroy
  PROVE  Inv'
<1>1. \A c \in 1..MaxContexts :
        freed'[c] = IF c = context /\ context # 0 THEN 1 ELSE freed[c]
  BY QnnRuntimeAssumption DEF Inv, TypeOK, ContextInv, Destroy
<1>2. /\ \A s \in Slots : graph'[s] = NoGraph
      /\ graph' \in [Slots -> Handles]
  BY NoGraphType DEF Destroy
<1>3. Generalized \in Slots /\ FixedL1 \in Slots
  BY DEF Slots, Generalized, FixedL1
<1>4. TypeOK'
  <2>1. freed' \in [1..MaxContexts -> Nat]
    BY QnnRuntimeAssumption DEF Inv, TypeOK, ContextInv, Destroy
  <2>2. ran' \in [slot : Slots \cup {"none"}, graph : Handles]
    BY NoGraphType DEF Destroy, NoRun
  <2>3. QED
    <3>1. context' \in 0..MaxContexts /\ created' \in 0..MaxContexts
      BY QnnRuntimeAssumption DEF Inv, TypeOK, Destroy
    <3>2. QED BY <1>2, <2>1, <2>2, <3>1 DEF Inv, TypeOK, Destroy
<1>5. ContextInv'
  BY <1>1, <1>2, QnnRuntimeAssumption DEF Inv, TypeOK, ContextInv, Destroy
<1>6. NoStaleGraph'
  BY <1>2 DEF NoStaleGraph
<1>7. BuilderInv' /\ TrainingGraphsApart'
  BY <1>2, <1>3 DEF BuilderInv, TrainingGraphsApart, Destroy, NoRun, Generalized, FixedL1
<1>8. QED BY <1>4, <1>5, <1>6, <1>7 DEF Inv

----------------------------------------------------------------------------
(* Executing *)

LEMMA ExecuteInv ==
  ASSUME Inv, NEW s \in Slots, Execute(s),
         s = Generalized => state = "ACTIVE", s = FixedL1 => state = "INACTIVE"
  PROVE  Inv'
<1>1. TypeOK' /\ ContextInv' /\ NoStaleGraph' /\ BuilderInv'
  BY DEF Inv, TypeOK, ContextInv, NoStaleGraph, Live, BuilderInv, Execute, contextVars
<1>2. ran'.slot = s /\ ran'.graph = graph[s] /\ UNCHANGED <<graph, state>>
  BY DEF Execute
<1>3. TrainingGraphsApart'
  BY <1>2 DEF Inv, BuilderInv, TrainingGraphsApart, Generalized, FixedL1
<1>4. QED BY <1>1, <1>3 DEF Inv

LEMMA ExecuteSomeInv ==
  ASSUME Inv, ExecuteSome
  PROVE  Inv'
<1>1. Plain \subseteq Slots /\ Generalized \in Slots /\ FixedL1 \in Slots
      /\ Generalized # FixedL1 /\ Generalized \notin Plain /\ FixedL1 \notin Plain
  BY DEF Plain, Slots, Generalized, FixedL1
<1>2. \/ \E s \in Plain : Execute(s)
      \/ Execute(Generalized) /\ state = "ACTIVE"
      \/ Execute(FixedL1) /\ state = "INACTIVE"
  <2>1. {"graph", "dWeightGraph", "dx", "dw2", "dh", "dw1", "mlpForward",
         "reluBackward", "fusedBackward", "trainingOpsMicro", "mlpFullStep",
         "layerNorm", "softmax", "elementwiseSquare", "layerNormBackward",
         "softmaxBackward", "attention", "attentionBackward",
         "momentumOptimizer", "adamOptimizer", "crossEntropyGradient",
         "tinyTransformer"} \subseteq Plain
    BY DEF Plain, Slots, Generalized, FixedL1
  <2>2. QED
    BY <2>1 DEF ExecuteSome, ExecutePrepared, ExecuteDWeight, ExecuteInputGradient,
      ExecuteMlpForward, ExecuteMlpSecondBackward, ExecuteMlpFirstBackward,
      ExecuteReluBackward, ExecuteMlpFusedBackward, ExecuteTrainingOpsMicro,
      ExecuteMlpFullStep, ExecuteLayerNorm, ExecuteSoftmax,
      ExecuteElementwiseSquare, ExecuteLayerNormBackward, ExecuteSoftmaxBackward,
      ExecuteAttention, ExecuteAttentionBackward, ExecuteMomentumOptimizer,
      ExecuteAdamOptimizer, ExecuteCrossEntropyGradient, ExecuteTinyTransformer,
      ExecuteTinyTransformerTraining, ExecuteTinyTransformerTrainingGeneralized,
      ExecuteTinyTransformerForwardOnly
<1>3. QED BY <1>1, <1>2, ExecuteInv

LEMMA PrepareSomeInv ==
  ASSUME Inv, PrepareSome
  PROVE  Inv'
<1>1. \/ \E s \in Plain : Prepare(s)
      \/ PrepareInputGradientMatMul \/ PrepareMlp \/ PrepareMlpFusedBackward
      \/ PrepareTinyTransformerTraining
  <2>1. {"graph", "dWeightGraph", "reluBackward", "trainingOpsMicro",
         "mlpFullStep", "layerNorm", "softmax", "elementwiseSquare",
         "layerNormBackward", "softmaxBackward", "attention", "attentionBackward",
         "momentumOptimizer", "adamOptimizer", "crossEntropyGradient",
         "tinyTransformer"} \subseteq Plain
    BY DEF Plain, Slots, Generalized, FixedL1
  <2>2. QED
    BY <2>1 DEF PrepareSome, PrepareMatMul, PrepareDWeightMatMul,
      PrepareReluBackward, PrepareTrainingOpsMicro,
      PrepareMlpFullStep, PrepareLayerNorm, PrepareSoftmax,
      PrepareLayerNormBackward, PrepareSoftmaxBackward, PrepareAttention,
      PrepareAttentionBackward, PrepareMomentumOptimizer, PrepareAdamOptimizer,
      PrepareCrossEntropyGradient, PrepareTinyTransformer, PrepareElementwiseSquare
<1>2. QED
  BY <1>1, PrepareInv, PrepareMlpInv, PrepareUncheckedInv,
     PrepareTinyTransformerTrainingInv

LEMMA NextInv == ASSUME Inv, [Next]_vars PROVE Inv'
<1>1. CASE UNCHANGED vars
  BY <1>1 DEF Inv, TypeOK, ContextInv, NoStaleGraph, Live, BuilderInv,
     TrainingGraphsApart, vars, contextVars
<1>2. CASE Next
  BY <1>2, InitializeInv, RecreateContextInv, DestroyInv, PrepareSomeInv,
     ExecuteSomeInv DEF Next
<1>3. QED BY <1>1, <1>2

LEMMA Invariant == Spec => []Inv
  BY InitInv, NextInv, PTL DEF Spec

----------------------------------------------------------------------------
(* The results *)

\* Every variable of the runtime keeps its type.
THEOREM TypeCorrect == Spec => []TypeOK
<1>1. Inv => TypeOK BY DEF Inv
<1>2. QED BY <1>1, Invariant, PTL

\* For any number of contexts and graphs, and in any order of prepares and
\* recreations, those that prepare on a null context included, no slot but
\* elementwiseSquare, which the code forgets, keeps the handle of a context that
\* recreateContext freed or abandoned.  It assumes that the library refuses to
\* create a graph without a context.
THEOREM HandlesDieWithContext == Spec => []NoStaleGraph
<1>1. Inv => NoStaleGraph BY DEF Inv
<1>2. QED BY <1>1, Invariant, PTL

\* Every context a runtime made goes to contextFree exactly once.
THEOREM EachContextFreedOnce == Spec => []ContextsFreedOnce
<1>1. Inv => ContextsFreedOnce
  BY QnnRuntimeAssumption DEF Inv, TypeOK, ContextInv, ContextsFreedOnce
<1>2. QED BY <1>1, Invariant, PTL

\* A half-built generalized graph never runs, and never as an L1 graph.
THEOREM ModesNeverMix == Spec => []TrainingGraphsApart
<1>1. Inv => TrainingGraphsApart BY DEF Inv
<1>2. QED BY <1>1, Invariant, PTL
=============================================================================
