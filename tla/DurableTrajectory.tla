-------------------------- MODULE DurableTrajectory --------------------------
(***************************************************************************)
(* What training with checkpoints promises: the state in memory is a       *)
(* position of the one sequence of optimizer updates of its configuration, *)
(* it moves one update at a time, a run begins at the start or where a     *)
(* durable position is, and a durable position is never lost.              *)
(***************************************************************************)
EXTENDS Integers

CONSTANTS Configs,  \* whose trajectories there are
          MaxStep,  \* the last update there can be
          NoRun     \* nothing in memory

VARIABLES at,       \* the position in memory: a configuration and a step
          durable   \* the positions a later run can begin at

trajectoryVars == <<at, durable>>

Begin(c) ==
  /\ at = NoRun /\ at' \in {<<c, 0>>} \cup {p \in durable : p[1] = c}
  /\ UNCHANGED durable

Advance ==
  /\ at # NoRun /\ at[2] < MaxStep /\ at' = <<at[1], at[2] + 1>>
  /\ UNCHANGED durable

Commit == at # NoRun /\ durable' = durable \cup {at} /\ UNCHANGED at

\* A run that ends, fails or dies leaves the durable positions behind; its
\* last commit may be the step it ends with.
Leave ==
  /\ at # NoRun /\ at' = NoRun
  /\ durable' \in {durable, durable \cup {at}}

Init == at = NoRun /\ durable = {}
Next == (\E c \in Configs : Begin(c)) \/ Advance \/ Commit \/ Leave
Spec == Init /\ [][Next]_trajectoryVars
=============================================================================
