---------------------------- MODULE MCGeneration ----------------------------
(* The instances of Generation that TLC checks. *)
EXTENDS Generation, TLC

\* The hashes are interchangeable; the checkpoint files are ordered by step.
HashSymmetry == Permutations(Hashes)
=============================================================================
