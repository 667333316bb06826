------------------------ MODULE MCLanguageModelAdam ------------------------
(***************************************************************************)
(* LanguageModelAdam with small losses and accuracies, in which ties can   *)
(* chain.                                                                  *)
(***************************************************************************)
EXTENDS LanguageModelAdam

\* The CPU metrics only decide bestCpuStep, which nothing but the report
\* uses, and whether the validation stayed finite.
FewCpuMetrics == {[loss |-> 0, accuracy |-> 0], Unset}
=============================================================================
