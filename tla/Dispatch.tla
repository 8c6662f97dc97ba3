------------------------------ MODULE Dispatch ------------------------------
(***************************************************************************)
(* What a worker that stores first and journals second promises, whatever  *)
(* it sends: each source event is sent at most once, only when it owes      *)
(* something, and is recorded only after it was sent.  One notification     *)
(* worker (Notify) and one drafting worker (Draft) implement it.            *)
(***************************************************************************)
EXTENDS Naturals, Sequences, Functions

VARIABLES
  owed,       \* the source events that ever owed a message
  sent,       \* the sources of the stored messages, oldest first
  recorded    \* the sources the journal records a dispatch for

vars == <<owed, sent, recorded>>

Init == owed = {} /\ sent = <<>> /\ recorded = {}

(* An event that owes a message is journaled. *)
Owe == /\ \E s \in owed' \ owed : owed' = owed \cup {s}
       /\ UNCHANGED <<sent, recorded>>

Send == /\ \E s \in owed \ Range(sent) : sent' = Append(sent, s)
        /\ UNCHANGED <<owed, recorded>>

Record == /\ \E s \in Range(sent) \ recorded : recorded' = recorded \cup {s}
          /\ UNCHANGED <<owed, sent>>

Next == Owe \/ Send \/ Record

Spec == Init /\ [][Next]_vars
=============================================================================
