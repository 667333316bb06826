---------------------------- MODULE QnnRuntime -----------------------------
(***************************************************************************)
(* One phonelm::qnn::Runtime object: the QNN backend, device and context it *)
(* owns, and the graph handles its prepare functions leave behind for its  *)
(* execute functions.  A handle belongs to the context it was created in;  *)
(* recreateContext frees that context and makes another while the object,  *)
(* with all its slots, lives on.                                           *)
(*                                                                         *)
(* The caller may call the public functions in any order after initialize. *)
(* A call that its own checks refuse before it changes anything (a null    *)
(* context where it is looked at, a bad shape, a buffer of the wrong size) *)
(* is a step that does nothing and is left out.  Shapes, tensors and       *)
(* timings are abstracted away.  The QNN library is external: any of its   *)
(* calls may fail, and a graphCreate that fails leaves in the handle what  *)
(* was there or null.                                                      *)
(***************************************************************************)
EXTENDS Naturals, FiniteSets

CONSTANTS MaxContexts,  \* bound: contexts one Runtime creates
          MaxGraphs,    \* bound: handles held when another is prepared
          RefusesNullContext  \* graphCreate on a null context always fails

ASSUME QnnRuntimeAssumption == MaxContexts \in Nat /\ MaxGraphs \in Nat

\* The one thing taken from the QNN library: not every prepare function of
\* the runtime makes sure that there is a context before it calls graphCreate.
ASSUME LibraryAssumption == RefusesNullContext

\* The members of Runtime::Impl that hold a graph handle.
Slots == {"graph", "dWeightGraph", "dx", "dw2", "dh", "dw1", "mlpForward",
          "reluBackward", "fusedBackward", "trainingOpsMicro", "mlpFullStep",
          "layerNorm", "softmax", "elementwiseSquare", "layerNormBackward",
          "softmaxBackward", "attention", "attentionBackward",
          "momentumOptimizer", "adamOptimizer", "crossEntropyGradient",
          "tinyTransformer", "tinyTransformerTraining",
          "generalizedTinyTransformerTraining"}

Generalized == "generalizedTinyTransformerTraining"
FixedL1     == "tinyTransformerTraining"

\* Contexts are numbered as they are created; 0 is a null context.
Handles == [context : 0..MaxContexts, built : BOOLEAN]
NoGraph == [context |-> 0, built |-> FALSE]
NoRun   == [slot |-> "none", graph |-> NoGraph]

VARIABLES
  impl,         \* "none" | "initialized" | "unusable" | "destroyed"
  device,       \* Impl.device is not null
  context,      \* Impl.context
  created,      \* contexts created so far
  freed,        \* how often each context was passed to contextFree
  graph,        \* the handle each slot holds
  state,        \* generalizedTinyTransformerTraining.state
  forwardOnly,  \* generalizedTinyTransformerTraining.forwardOnly
  ran           \* the graph the last step passed to graphExecute, or NoRun

contextVars == <<impl, device, context, created, freed>>
vars == <<contextVars, graph, state, forwardOnly, ran>>

Init ==
  /\ impl = "none" /\ device = FALSE
  /\ context = 0 /\ created = 0
  /\ freed = [c \in 1..MaxContexts |-> 0]
  /\ graph = [s \in Slots |-> NoGraph]
  /\ state = "INACTIVE" /\ forwardOnly = FALSE
  /\ ran = NoRun

-----------------------------------------------------------------------------
(* The object's own life. *)

\* contextCreate, when it succeeds.
CreateContext ==
  /\ created < MaxContexts
  /\ created' = created + 1
  /\ context' = created + 1

\* Every stage before the last may fail and leave the object with fewer
\* handles; the context is the last thing made.  A CPU backend may have no
\* device.
Initialize ==
  /\ impl = "none"
  /\ device' \in BOOLEAN
  /\ \/ impl' = "initialized" /\ CreateContext
     \/ impl' = "unusable" /\ UNCHANGED <<context, created>>
  /\ ran' = NoRun
  /\ UNCHANGED <<freed, graph, state, forwardOnly>>

\* Bug: a slot added later is left out of the reset.
InvalidateAllButCrossEntropy ==
  /\ graph' = [s \in Slots |->
                 IF s \in {"elementwiseSquare", "crossEntropyGradient"}
                 THEN graph[s] ELSE NoGraph]
  /\ state' = "INACTIVE"
  /\ forwardOnly' = FALSE

\* invalidateContextGraphs: what recreateContext clears.
InvalidateContextGraphs ==
  /\ graph' = [s \in Slots |->
                 IF s = "elementwiseSquare" THEN graph[s] ELSE NoGraph]
  /\ state' = "INACTIVE"
  /\ forwardOnly' = FALSE

\* Bug: the abandoned context stays in Impl.context.
RecreateKeepsAbandoned ==
  /\ impl = "initialized" /\ device /\ context # 0
  /\ freed' = [freed EXCEPT ![context] = @ + 1]
  /\ InvalidateContextGraphs
  /\ CreateContext \/ UNCHANGED <<context, created>>
  /\ ran' = NoRun
  /\ UNCHANGED <<impl, device>>

\* The old context goes first.  When contextFree fails it is abandoned, when
\* the options are invalid or contextCreate fails none takes its place.
RecreateContext ==
  /\ impl = "initialized" /\ device /\ context # 0
  /\ freed' = [freed EXCEPT ![context] = @ + 1]
  /\ InvalidateContextGraphs
  /\ \/ CreateContext
     \/ context' = 0 /\ UNCHANGED created
  /\ ran' = NoRun
  /\ UNCHANGED <<impl, device>>

\* ~Runtime.
Destroy ==
  /\ impl \in {"initialized", "unusable"}
  /\ impl' = "destroyed"
  /\ freed' = IF context # 0 THEN [freed EXCEPT ![context] = @ + 1] ELSE freed
  /\ context' = 0 /\ device' = FALSE
  /\ graph' = [s \in Slots |-> NoGraph]
  /\ state' = "INACTIVE" /\ forwardOnly' = FALSE
  /\ ran' = NoRun
  /\ UNCHANGED created

-----------------------------------------------------------------------------
(* Preparing.  graphCreate stores the handle, the tensors and nodes follow, *)
(* graphFinalize is last; a failure on the way returns at once and leaves   *)
(* the handle in its slot.                                                  *)

\* The slots after preparing s from the slots g, for each way it can end.
Failed(g, s) ==
  {g, [g EXCEPT ![s] = NoGraph],
   [g EXCEPT ![s] = [context |-> context, built |-> FALSE]]}
Built(g, s) == [g EXCEPT ![s] = [context |-> context, built |-> TRUE]]
Attempted(g, s) == Failed(g, s) \cup {Built(g, s)}

\* And after a graphCreate that the library refused.
Refused(g, s) == {g, [g EXCEPT ![s] = NoGraph]}

HasRoom == Cardinality({s \in Slots : graph[s] # NoGraph}) < MaxGraphs
CanPrepare == impl = "initialized" /\ context # 0 /\ HasRoom

Attempt(s) ==
  /\ graph' \in IF context = 0 /\ RefusesNullContext THEN Refused(graph, s)
                ELSE Attempted(graph, s)
  /\ ran' = NoRun
  /\ UNCHANGED <<contextVars, state, forwardOnly>>
Prepare(s) == CanPrepare /\ Attempt(s)

PrepareMatMul               == Prepare("graph")
PrepareDWeightMatMul        == Prepare("dWeightGraph")
PrepareReluBackward         == Prepare("reluBackward")
PrepareTrainingOpsMicro     == Prepare("trainingOpsMicro")
\* A debug build may fail after graphFinalize succeeded: the same outcomes.
PrepareMlpFullStep          == Prepare("mlpFullStep")
PrepareLayerNorm            == Prepare("layerNorm")
PrepareSoftmax              == Prepare("softmax")
PrepareLayerNormBackward    == Prepare("layerNormBackward")
PrepareSoftmaxBackward      == Prepare("softmaxBackward")
PrepareAttention            == Prepare("attention")
PrepareAttentionBackward    == Prepare("attentionBackward")
PrepareMomentumOptimizer    == Prepare("momentumOptimizer")
PrepareAdamOptimizer        == Prepare("adamOptimizer")
PrepareCrossEntropyGradient == Prepare("crossEntropyGradient")
PrepareTinyTransformer      == Prepare("tinyTransformer")

\* The split backward slots follow the forward graph, each only if the one
\* before it was built.
PrepareMlp ==
  /\ CanPrepare
  /\ LET forward == Built(graph, "mlpForward")
         dw2     == Built(forward, "dw2")
         dh      == Built(dw2, "dh")
     IN  graph' \in Attempted(graph, "mlpForward") \cup Attempted(forward, "dw2")
                   \cup Attempted(dw2, "dh") \cup Attempted(dh, "dw1")
  /\ ran' = NoRun
  /\ UNCHANGED <<contextVars, state, forwardOnly>>

\* Checks nothing: after a failed recreateContext it calls graphCreate on a
\* null context.  (Its callers have seen initialize succeed.)
PrepareInputGradientMatMul ==
  /\ impl = "initialized" /\ HasRoom
  /\ Attempt("dx")

\* Asks for the forward graph, not for a context.
PrepareMlpFusedBackward ==
  /\ impl = "initialized" /\ graph["mlpForward"] # NoGraph /\ HasRoom
  /\ Attempt("fusedBackward")

\* The one diagnostic graph that cannot be prepared twice.
PrepareElementwiseSquare ==
  /\ graph["elementwiseSquare"] = NoGraph
  /\ Prepare("elementwiseSquare")

\* prepareTinyTransformerTrainingGeneralized: PREPARING lasts until the call
\* returns, and every failure of the builder leaves FAILED.
PrepareGeneralized ==
  /\ state = "INACTIVE" /\ graph[Generalized] = NoGraph
  /\ forwardOnly' \in BOOLEAN
  /\ \/ state' = "ACTIVE" /\ graph' = Built(graph, Generalized)
     \/ state' = "FAILED" /\ graph' \in Failed(graph, Generalized)

\* Bug: only the graph is looked at, not the state of the builder.
PrepareTrainingOnGraph ==
  /\ CanPrepare
  /\ graph[FixedL1] = NoGraph
  /\ \/ PrepareGeneralized
     \/ /\ graph' \in Attempted(graph, FixedL1)
        /\ UNCHANGED <<state, forwardOnly>>
  /\ ran' = NoRun
  /\ UNCHANGED contextVars

\* One layer and one head use the fixed-L1 slot, all else the builder.
PrepareTinyTransformerTraining ==
  /\ CanPrepare
  /\ state = "INACTIVE" /\ graph[FixedL1] = NoGraph
  /\ \/ PrepareGeneralized
     \/ /\ graph' \in Attempted(graph, FixedL1)
        /\ UNCHANGED <<state, forwardOnly>>
  /\ ran' = NoRun
  /\ UNCHANGED contextVars

-----------------------------------------------------------------------------
(* Executing: the handle is all an execute function looks at, except for    *)
(* the training graphs.  What graphExecute returns changes nothing here.    *)

Execute(s) ==
  /\ impl = "initialized"
  /\ graph[s] # NoGraph
  /\ ran' = [slot |-> s, graph |-> graph[s]]
  /\ UNCHANGED <<contextVars, graph, state, forwardOnly>>

ExecutePrepared             == Execute("graph")
ExecuteDWeight              == Execute("dWeightGraph")
ExecuteInputGradient        == Execute("dx")
ExecuteMlpForward           == Execute("mlpForward")
ExecuteMlpSecondBackward    ==
  \/ Execute("dw2")
  \/ graph["dw2"] # NoGraph /\ Execute("dh")
ExecuteMlpFirstBackward     == Execute("dw1")
ExecuteReluBackward         == Execute("reluBackward")
ExecuteMlpFusedBackward     == Execute("fusedBackward")
ExecuteTrainingOpsMicro     == Execute("trainingOpsMicro")
ExecuteMlpFullStep          == Execute("mlpFullStep")
ExecuteLayerNorm            == Execute("layerNorm")
ExecuteSoftmax              == Execute("softmax")
ExecuteElementwiseSquare    == Execute("elementwiseSquare")
ExecuteLayerNormBackward    == Execute("layerNormBackward")
ExecuteSoftmaxBackward      == Execute("softmaxBackward")
ExecuteAttention            == Execute("attention")
ExecuteAttentionBackward    == Execute("attentionBackward")
ExecuteMomentumOptimizer    == Execute("momentumOptimizer")
ExecuteAdamOptimizer        == Execute("adamOptimizer")
ExecuteCrossEntropyGradient == Execute("crossEntropyGradient")
ExecuteTinyTransformer      == Execute("tinyTransformer")

ExecuteTinyTransformerTrainingGeneralized ==
  ~forwardOnly /\ state = "ACTIVE" /\ Execute(Generalized)

ExecuteTinyTransformerTraining ==
  \/ state = "ACTIVE" /\ ExecuteTinyTransformerTrainingGeneralized
  \/ state = "INACTIVE" /\ Execute(FixedL1)

ExecuteTinyTransformerForwardOnly ==
  forwardOnly /\ state = "ACTIVE" /\ Execute(Generalized)

-----------------------------------------------------------------------------
PrepareSome ==
  \/ PrepareMatMul \/ PrepareDWeightMatMul \/ PrepareInputGradientMatMul
  \/ PrepareReluBackward \/ PrepareTrainingOpsMicro \/ PrepareMlpFullStep
  \/ PrepareLayerNorm \/ PrepareSoftmax \/ PrepareLayerNormBackward
  \/ PrepareSoftmaxBackward \/ PrepareAttention \/ PrepareAttentionBackward
  \/ PrepareMomentumOptimizer \/ PrepareAdamOptimizer
  \/ PrepareCrossEntropyGradient \/ PrepareTinyTransformer \/ PrepareMlp
  \/ PrepareMlpFusedBackward \/ PrepareElementwiseSquare
  \/ PrepareTinyTransformerTraining

ExecuteSome ==
  \/ ExecutePrepared \/ ExecuteDWeight \/ ExecuteInputGradient
  \/ ExecuteMlpForward \/ ExecuteMlpSecondBackward \/ ExecuteMlpFirstBackward
  \/ ExecuteReluBackward \/ ExecuteMlpFusedBackward \/ ExecuteTrainingOpsMicro
  \/ ExecuteMlpFullStep \/ ExecuteLayerNorm \/ ExecuteSoftmax
  \/ ExecuteElementwiseSquare \/ ExecuteLayerNormBackward
  \/ ExecuteSoftmaxBackward \/ ExecuteAttention \/ ExecuteAttentionBackward
  \/ ExecuteMomentumOptimizer \/ ExecuteAdamOptimizer
  \/ ExecuteCrossEntropyGradient \/ ExecuteTinyTransformer
  \/ ExecuteTinyTransformerTraining \/ ExecuteTinyTransformerForwardOnly

Next ==
  Initialize \/ RecreateContext \/ Destroy \/ PrepareSome \/ ExecuteSome

Spec == Init /\ [][Next]_vars

-----------------------------------------------------------------------------
TypeOK ==
  /\ impl \in {"none", "initialized", "unusable", "destroyed"}
  /\ device \in BOOLEAN
  /\ context \in 0..MaxContexts /\ created \in 0..MaxContexts
  /\ freed \in [1..MaxContexts -> Nat]
  /\ graph \in [Slots -> Handles]
  /\ state \in {"INACTIVE", "ACTIVE", "FAILED"} /\ forwardOnly \in BOOLEAN
  /\ ran \in [slot : Slots \cup {"none"}, graph : Handles]

\* A handle of a context that still stands.
Live(h) == h.context \in 1..MaxContexts /\ h.context = context
           /\ freed[h.context] = 0

\* However prepares, failed prepares and recreations follow each other, the
\* prepare on a null context included, no slot but elementwiseSquare keeps a
\* handle of a context that was freed or abandoned, not even when contextFree
\* or the new contextCreate fails: an execute function, which checks its handle
\* only, never runs a graph of a dead context.  It rests on LibraryAssumption.
\* The exception is the code's: invalidateContextGraphs forgets
\* elementwiseSquare, against its own comment that no stale handle may survive;
\* the one caller that prepares this slot never recreates the context.
NoStaleGraph ==
  \A s \in Slots \ {"elementwiseSquare"} :
    graph[s] # NoGraph => Live(graph[s])

\* Every context is handed to contextFree once and no more, by recreateContext
\* or by the destructor: none is freed twice after a failed recreation and
\* none is left behind.
ContextsFreedOnce ==
  \A c \in 1..created : freed[c] = IF c = context THEN 0 ELSE 1

\* A training execute never mixes the two training graphs of one runtime: the
\* builder's graph runs only if all of it was built, the fixed-L1 graph only
\* if the builder was never tried on this context, so a builder that failed
\* half way is never taken for an L1 graph.
TrainingGraphsApart ==
  /\ ran.slot = Generalized => ran.graph.built /\ graph[FixedL1] = NoGraph
  /\ ran.slot = FixedL1 => state = "INACTIVE" /\ graph[Generalized] = NoGraph
=============================================================================
