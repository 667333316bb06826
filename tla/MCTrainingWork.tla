---------------------------- MODULE MCTrainingWork ----------------------------
EXTENDS TrainingWork
=============================================================================
