------------------------------- MODULE MCDraft -------------------------------
(* Draft on small instances: one worker at a time, or two that race.         *)
EXTENDS Draft, TLC

WorkerSymmetry == Permutations(Worker)
=============================================================================
