--------------------------- MODULE PreparedEngine ---------------------------
(***************************************************************************)
(* qnn_prepared_generation.cpp: the one slot that keeps a generation engine*)
(* warm, its identity, its re-validation and its poisoning; and the        *)
(* progress snapshot of native_bridge.cpp that a run writes.               *)
(* Abstracted: a checkpoint file is its parameter hash, or Unusable when it*)
(* is missing, malformed or not finite; the step is part of the path, as   *)
(* the file name carries it; a file's size and time change only with its   *)
(* hash; the graph options are fixed; tokens are not told apart.           *)
(***************************************************************************)
EXTENDS Naturals

CONSTANTS NumPaths,  \* checkpoint files, by step
          Hashes,    \* parameter hashes
          Unusable   \* a file that cannot be loaded as a finite checkpoint

Paths    == 1..NumPaths
Contents == Hashes \cup {Unusable}
Keys     == [path : Paths, hash : Hashes]

ASSUME PreparedEngineAssumption == NumPaths \in Nat \ {0} /\ Unusable \notin Hashes

VARIABLES
  files,     \* the checkpoint directory, which other parts write
  slot,      \* engineSlot(): empty or one engine
  snapshot   \* gGenerationProgress: whose bytes it holds, 0 for none

engineVars == <<files, slot, snapshot>>

\* executed: the execute diagnostics were emitted; failed: an execute or the
\* sampling has failed on this engine (history variable).
Engines == [key : Keys, loaded : Contents, poisoned : BOOLEAN,
            executed : BOOLEAN, failed : BOOLEAN]

Report(ok, hash, garbled, failed) ==
  [ok |-> ok, hash |-> hash, garbled |-> garbled, failed |-> failed]
\* hash: the parameters that answered; garbled: a field is given twice with
\* different values; failed: the engine that answered had failed before.
Reports == [ok : BOOLEAN, hash : Contents, garbled : BOOLEAN, failed : BOOLEAN]
FailedReport == Report(FALSE, Unusable, FALSE, FALSE)

----------------------------------------------------------------------------
(* prepareNicopediaGeneration *)

\* Mutant: the hash is left out of the comparison of keys.
ReusableByPath(key) == \E e \in slot : ~e.poisoned /\ e.key.path = key.path

Reusable(key) == \E e \in slot : ~e.poisoned /\ e.key = key

PrepareReuses(key) == Reusable(key) /\ UNCHANGED slot

\* Any other engine is deleted first, also when the new one cannot be built.
PrepareBuilds(key) ==
  /\ ~Reusable(key)
  /\ files[key.path] \in Hashes /\ files[key.path] = key.hash
  /\ slot' = {[key |-> key, loaded |-> files[key.path], poisoned |-> FALSE,
               executed |-> FALSE, failed |-> FALSE]}

PrepareFails(key) == ~Reusable(key) /\ slot' = {}

----------------------------------------------------------------------------
(* runPreparedNicopediaGeneration, from the checks of the handle on *)

Ready == {e \in slot : ~e.poisoned}

Poison(e) == slot' = {[e EXCEPT !.poisoned = TRUE]}

RevalidationOK == \E e \in Ready : files[e.key.path] = e.loaded

\* The file is missing, cannot be decoded or is no longer the one prepared.
RevalidationFails ==
  \E e \in Ready : files[e.key.path] # e.loaded /\ Poison(e)

\* The health gate and the loop: what has executed well once has left its
\* diagnostics; the loop publishes the bytes of generation g.
Executes(g) ==
  \E e \in Ready :
    /\ slot' = {[e EXCEPT !.executed = TRUE]}
    /\ \/ snapshot' = snapshot /\ ~e.executed
       \/ snapshot' = g /\ snapshot # g /\ e.executed

\* Mutant: a failed run does not poison the engine.
ExecuteFailsUnpoisoned(garbled) ==
  \E e \in Ready :
    /\ garbled => e.executed
    /\ slot' = {[e EXCEPT !.failed = TRUE]}

\* An execute that fails after one that did not adds return codes and counts
\* that contradict those in the diagnostics; sampling adds none.
ExecuteFails(garbled) ==
  \E e \in Ready :
    /\ garbled => e.executed
    /\ slot' = {[e EXCEPT !.poisoned = TRUE, !.failed = TRUE]}

Answer(r) ==
  \E e \in Ready :
    /\ e.executed
    /\ r = Report(TRUE, e.loaded, FALSE, e.failed)
=============================================================================
