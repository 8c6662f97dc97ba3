----------------------------- MODULE MCDecision -----------------------------
(* Three rules for two units, two of them of one priority, and table v1.     *)
EXTENDS Decision

MCUnit == {"reha", "rente"}
MCRule == { [id |-> 1, unit |-> "reha", priority |-> 10],
            [id |-> 2, unit |-> "rente", priority |-> 20],
            [id |-> 3, unit |-> "reha", priority |-> 20] }
MCGuess == { [unit |-> "reha", confidence |-> 95],
             [unit |-> "rente", confidence |-> 0] }

(* A complete item, the same not clear cut, one with an open gap. *)
Complete == [verdict |-> "complete", discarded |-> 0, tier1 |-> TRUE,
             clear_cut |-> TRUE]
MCFacts == { Complete, [Complete EXCEPT !.clear_cut = FALSE],
             [Complete EXCEPT !.verdict = "incomplete"] }

Is(f, v) == [field |-> f, accepts |-> {v}]
Trusted == { Is("rule_hit", TRUE), [field |-> "confidence", accepts |-> 90 .. 100] }
MCRows == <<
  [id |-> "tier1_clear_and_complete", tier |-> 1,
   when |-> Trusted \cup { Is("verdict", "complete"), Is("discarded", 0),
                           Is("tier1", TRUE), Is("clear_cut", TRUE) }],
  [id |-> "tier2_routable_incomplete", tier |-> 2,
   when |-> Trusted \cup { Is("verdict", "incomplete") }] >>
MCDowngrades == { [id |-> "flagged", atLeast |-> 0, flagged |-> TRUE],
                  [id |-> "score", atLeast |-> 85, flagged |-> FALSE] }

MCPolicies == {[mode |-> "enforcing", rate |-> 50, salt |-> "long", classifier |-> FALSE]}
  \cup [mode : {"log_only", "enforcing"}, rate : {0, 50},
         salt : {"short"}, classifier : BOOLEAN]
=============================================================================
