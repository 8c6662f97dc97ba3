------------------------------ MODULE MCNotify ------------------------------
(* Notify on small instances: both triggers have a template, as in the       *)
(* repository's config/notifications.                                        *)
EXTENDS Notify, TLC

BothTemplates == {[received |-> "receipt", routed |-> "status"]}

WorkerSymmetry == Permutations(Worker)
=============================================================================
