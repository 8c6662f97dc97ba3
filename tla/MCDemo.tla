------------------------------- MODULE MCDemo -------------------------------
(* Demo on small instances. *)
EXTENDS Demo, TLC
=============================================================================
