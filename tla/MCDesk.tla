------------------------------- MODULE MCDesk -------------------------------
(* Two cases: decided or not, corrected, decided again, confirmed, with a  *)
(* journal that lost its first line or with a file number in its prose.      *)
EXTENDS Desk, TLC

QueuesConfig == [budget |-> <<2, 4, 8>>, widerspruch |-> {"objections"}, reha |-> {"reha"},
                 rehaHours |-> 6, clearingHours |-> 3]
Deciding(at, tier, unit, sampled) ==
  << [type |-> "TIER_DECIDED", at |-> at, tier |-> tier, sampled |-> sampled],
     [type |-> "ROUTED", at |-> at, unit |-> unit] >>
Correcting(at, field, to) == <<[type |-> "OVERRIDDEN", at |-> at, field |-> field, to |-> to]>>
Heads == { << >>, <<[type |-> "RECEIVED", at |-> 0]>>, <<[type |-> "RECEIVED", at |-> 5]>>,
           <<[type |-> "RECEIVED", at |-> 0],
             [type |-> "REDACTED", at |-> 0, parts |-> {"part-text-0", "part-text-1"},
              spans |-> <<[part |-> "part-text-0", kind |-> "AKTZ"]>>],
             [type |-> "ANOMALY_SCORED", at |-> 0, flagged |-> TRUE]>> }
Decisions == { << >>, Deciding(5, 1, "reha", FALSE), Deciding(5, 2, "objections", TRUE),
               Deciding(5, 3, NoUnit, FALSE) }
Corrections == { << >>, Correcting(6, "unit", "reha"), Correcting(6, "escalation", 3),
                 Correcting(6, "unit", "objections") \o Correcting(7, "tier", 2)
                   \o Deciding(7, 1, NoUnit, FALSE) }
Ends == { << >>, <<[type |-> "CONFIRMED", at |-> 8, edited |-> TRUE]>> }
Histories == { h \o d \o c \o e : h \in Heads, d \in Decisions, c \in Corrections, e \in Ends }
Others == { << [type |-> "RECEIVED", at |-> 3] >> \o d \o c \o e :
              d \in {Deciding(4, 1, "reha", FALSE), Deciding(4, 2, NoUnit, FALSE)},
              c \in {<< >>, Correcting(6, "tier", 2)}, e \in Ends }
AskDesk ==
  \E one \in Histories, other \in Others, now \in {8, 12} :
    question = [about |-> "desk", journal |-> <<one, other>>, now |-> now,
                config |-> QueuesConfig]

(* Dispatches of up to six notifications, one without its source.            *)
AskLatency ==
  \E n \in 0 .. 6 : \E took \in [1 .. n -> {1, 2, 4}] :
    question =
      [about |-> "latency",
       log |-> << [id |-> 0, type |-> "RECEIVED", at |-> 1, source |-> 0] >> \o
               [i \in 1 .. n |-> [id |-> i, type |-> "NOTIFIED", at |-> 1 + took[i],
                                  source |-> IF i = 6 THEN 9 ELSE 0]]]

DeskSpec == AskDesk /\ [][UNCHANGED question]_question
=============================================================================
