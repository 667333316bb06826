------------------------ MODULE MCNicopediaTraining ------------------------
(* The instances of NicopediaTraining that TLC checks. *)
EXTENDS NicopediaTraining

\* Every configuration has a checkpoint name of its own.
NamesApart == [c \in Configs |-> c]
=============================================================================
