---------------------------- MODULE MCQnnRuntime ----------------------------
(***************************************************************************)
(* QnnRuntime over every slot of the runtime.                              *)
(***************************************************************************)
EXTENDS QnnRuntime
=============================================================================
