----------------------------- MODULE MCJournal -----------------------------
(* Journal on a small instance: what the events say does not matter here.   *)
EXTENDS Journal, TLC

WriterSymmetry == Permutations(Writer)
=============================================================================
