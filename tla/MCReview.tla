------------------------------ MODULE MCReview ------------------------------
(* Review on small instances. *)
EXTENDS Review, TLC

WorkerSymmetry == Permutations(Worker)
=============================================================================
