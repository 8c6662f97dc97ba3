------------------------------ MODULE Decision ------------------------------
(***************************************************************************)
(* The evidence and decision planes of one submission: routing arbitration *)
(* (engine/evidence/routing.py), the fallback classifier, the shadow       *)
(* scorer and the tier decision (engine/decide/interpreter.py), in the     *)
(* order engine/pipeline.py calls them.  A submission may be posted again, *)
(* under a policy the agency has edited meanwhile and with another score,  *)
(* so the journal of one case may hold several decisions.                  *)
(***************************************************************************)
EXTENDS Naturals, Sequences

CONSTANTS
  Unit, NoUnit,
  Rule,            \* routing rules: [id, unit, priority]
  Guess,           \* what the classifier may propose: [unit, confidence]
  Facts,           \* the rest of the evidence: fact |-> value
  Rows,            \* the table's rows, a sequence of [id, tier, when]
  Downgrades,      \* the table's downgrades: [id, atLeast, flagged]
  Score, NoAnomaly, \* anomaly scores in percent, and no anomaly evidence
  Threshold,       \* a score at or above it is flagged
  Policies,        \* [mode, rate, salt, classifier]
  Draw,            \* the positions in 0 .. 99 a case id may hash to
  MaxRuns          \* bound on the times the submission is posted

Tier == 1 .. 3
Sampleable == {1, 2}

(* Percent: RULE_CONFIDENCE, CONTESTED_CONFIDENCE, ALTERNATIVE_CONFIDENCE.  *)
RuleConfidence == 100
ContestedConfidence == 60
AlternativeConfidence == 50

Suggestion == [unit : Unit, source : {"rule", "classifier"}, confidence : Nat]
Anomaly == [score : Nat, flagged : BOOLEAN]
Policy == [mode : {"log_only", "enforcing"}, rate : Nat,
           salt : {"none", "short", "long"}, classifier : BOOLEAN]
Reason == {"failed", "qualified", "defaulted", "downgraded", "sampled", "error"}
Decided == [tier : Tier, pre : Tier, routed : Unit \cup {NoUnit},
            kinds : SUBSET Reason]

ASSUME DecisionAssumption ==
  /\ NoUnit \notin Unit
  /\ Rule \subseteq [id : Nat, unit : Unit, priority : Nat]
  /\ \A r, s \in Rule : r.id = s.id => r = s
  /\ Guess \subseteq [unit : Unit, confidence : Nat]
  /\ \A i \in DOMAIN Rows : Rows[i].tier \in Tier
  /\ \A d \in Downgrades : d.atLeast \in Nat /\ d.flagged \in BOOLEAN
  /\ Score \subseteq Nat /\ Threshold \in Nat
  /\ NoAnomaly \notin Anomaly
  /\ Policies \subseteq Policy
  /\ Draw \subseteq Nat /\ MaxRuns \in Nat

VARIABLES
  phase,        \* how far the run through both planes has come
  hits,         \* the rules whose predicate holds for this submission
  facts, draw,  \* functions of the submission, too
  policy,       \* the configuration this run was started with
  suggestions, anomaly, decision,   \* of this run
  past,         \* the TIER_DECIDED payloads of the case, oldest first
  runs

submission == <<hits, facts, draw>>
vars == <<phase, hits, facts, draw, policy, suggestions, anomaly, decision,
          past, runs>>

-----------------------------------------------------------------------------
(* rule_order_key: lower priority wins, the rule id breaks the tie. *)
Before(r, s) == r.priority < s.priority
                \/ (r.priority = s.priority /\ r.id < s.id)

(* A unit stands in arbitration with its best rule. *)
Candidate(r) == r \in hits /\ \A s \in hits : s.unit = r.unit => ~ Before(s, r)

Winner(r) == r \in hits /\ \A s \in hits : ~ Before(s, r)

Contested(r) == \E s \in hits : s.unit # r.unit /\ s.priority = r.priority

(* Mutant: a conflict the priorities leave open costs nothing. *)
RuleSuggestionsSure ==
  { [unit |-> r.unit, source |-> "rule",
     confidence |-> IF Winner(r) THEN RuleConfidence ELSE AlternativeConfidence] :
      r \in {c \in hits : Candidate(c)} }

RuleSuggestions ==
  { [unit |-> r.unit, source |-> "rule",
     confidence |-> IF ~ Winner(r) THEN AlternativeConfidence
                    ELSE IF Contested(r) THEN ContestedConfidence
                    ELSE RuleConfidence] : r \in {c \in hits : Candidate(c)} }

(* Mutant: the classifier is asked about every item. *)
FallbackAlways ==
  {{}} \cup { {[unit |-> g.unit, source |-> "classifier",
              confidence |-> g.confidence]} : g \in Guess }

(* The classifier is asked only about an item no rule caught, and every      *)
(* failure of it is "no suggestion".                                         *)
FallbackSuggestions ==
  IF hits # {} THEN {{}}
  ELSE {{}} \cup { {[unit |-> g.unit, source |-> "classifier",
                     confidence |-> g.confidence]} : g \in Guess }

(* admitted_routing: the classifier governs only when the agency enabled it. *)
Admitted(sugg, pol) == {s \in sugg : s.source = "rule" \/ pol.classifier}

(* The highest confidence, 0 without a suggestion. *)
Confidence(sugg) ==
  CHOOSE c \in {0} \cup {s.confidence : s \in sugg} :
    \A s \in sugg : s.confidence <= c

(* resolve_qualifying_fields *)
Field(sugg, name) ==
  CASE name = "confidence" -> Confidence(sugg)
    [] name = "rule_hit" -> \E s \in sugg : s.source = "rule"
    [] OTHER -> facts[name]

RowHolds(row, sugg) == \A c \in row.when : Field(sugg, c.field) \in c.accepts

(* _evaluate_rows: the first row that holds, tier 3 when none does. *)
FirstRow(i, sugg) ==
  /\ i \in DOMAIN Rows /\ RowHolds(Rows[i], sugg)
  /\ \A j \in 1 .. i - 1 : ~ RowHolds(Rows[j], sugg)

PreTier(sugg) ==
  CHOOSE t \in Tier : \/ \E i \in DOMAIN Rows : FirstRow(i, sugg) /\ Rows[i].tier = t
                      \/ (\A i \in DOMAIN Rows : ~ FirstRow(i, sugg)) /\ t = 3

(* A row was tried and failed before the first that held, or all of them did. *)
RowKinds(sugg) ==
  {IF \E i \in DOMAIN Rows : FirstRow(i, sugg) THEN "qualified" ELSE "defaulted"}
  \cup (IF FirstRow(1, sugg) THEN {} ELSE {"failed"})

(* evaluate_downgrades: what fired, and what was applied. *)
Fired(anom) ==
  IF anom = NoAnomaly THEN {}
  ELSE {d \in Downgrades : anom.score >= d.atLeast
                           /\ (d.flagged => anom.flagged)}

(* Mutant: the mode is not asked. *)
AppliedAnyway(anom, pol) == Fired(anom)

Applied(anom, pol) == IF pol.mode = "enforcing" THEN Fired(anom) ELSE {}

(* evaluate_audit_sample: off without a rate or a salt; blake2b refuses a    *)
(* key over 64 bytes.                                                        *)
SamplingOn(pol) == pol.rate > 0 /\ pol.salt # "none"
SampleRaises(pol) == SamplingOn(pol) /\ pol.salt = "long"
Drawn(pol) == SamplingOn(pol) /\ draw < pol.rate

(* _routed_unit: the admitted suggestion of the highest confidence. *)
Routed(sugg) ==
  IF sugg = {} THEN NoUnit
  ELSE (CHOOSE s \in sugg : \A o \in sugg : o.confidence <= s.confidence).unit

ErrorDecision ==
  [tier |-> 3, pre |-> 3, routed |-> NoUnit, kinds |-> {"error"}]

(* Mutant: the downgrade assigns a tier instead of taking the worse of both. *)
TierAssigned(pre, anom, pol) ==
  IF Applied(anom, pol) # {} THEN 2 ELSE pre

TierAfter(pre, anom, pol) ==
  IF Applied(anom, pol) # {} THEN 3 ELSE pre

(* decide *)
Verdict(sugg, anom, pol) ==
  LET admitted == Admitted(sugg, pol)
      pre == PreTier(admitted)
      after == TierAfter(pre, anom, pol)
      pulled == Drawn(pol) /\ after \in Sampleable
  IN  IF SampleRaises(pol) THEN ErrorDecision
      ELSE [tier |-> IF pulled THEN 3 ELSE after,
            pre |-> pre,
            routed |-> Routed(admitted),
            kinds |-> RowKinds(admitted)
                      \cup (IF Applied(anom, pol) = {} THEN {} ELSE {"downgraded"})
                      \cup (IF pulled THEN {"sampled"} ELSE {})]

-----------------------------------------------------------------------------
Init ==
  /\ phase = "received"
  /\ hits \in SUBSET Rule /\ facts \in Facts /\ draw \in Draw
  /\ policy \in Policies
  /\ suggestions = {} /\ anomaly = NoAnomaly /\ decision = ErrorDecision
  /\ past = << >> /\ runs = 1

(* Arbitration, then the fallback, then assemble_evidence. *)
Assemble ==
  /\ phase = "received"
  /\ \E extra \in FallbackSuggestions : suggestions' = RuleSuggestions \cup extra
  /\ phase' = "assembled"
  /\ UNCHANGED <<submission, policy, anomaly, decision, past, runs>>

(* _score: a score, a degradation (journaled as one) or no scorer at all.    *)
Scored ==
  /\ phase = "assembled"
  /\ \E s \in Score :
       anomaly' = [score |-> s, flagged |-> s >= Threshold]
  /\ phase' = "scored"
  /\ UNCHANGED <<submission, policy, suggestions, decision, past, runs>>

NotScored ==
  /\ phase = "assembled"
  /\ anomaly' = NoAnomaly
  /\ phase' = "scored"
  /\ UNCHANGED <<submission, policy, suggestions, decision, past, runs>>

Decide ==
  /\ phase = "scored"
  /\ decision' = Verdict(suggestions, anomaly, policy)
  /\ phase' = "decided"
  /\ UNCHANGED <<submission, policy, suggestions, anomaly, past, runs>>

(* _journal_decision evaluates downgrades and sample a second time, outside  *)
(* decide and its error rail, for the payload's own account of them.         *)
Payload ==
  [decision |-> decision, suggestions |-> suggestions, anomaly |-> anomaly,
   policy |-> policy, fired |-> Fired(anomaly),
   applied |-> Applied(anomaly, policy), sampled |-> Drawn(policy)]

JournalDecision ==
  /\ phase = "decided"
  /\ ~ SampleRaises(policy)
  /\ past' = Append(past, Payload)
  /\ phase' = "journaled"
  /\ UNCHANGED <<submission, policy, suggestions, anomaly, decision, runs>>

JournalRaises ==
  /\ phase = "decided"
  /\ SampleRaises(policy)
  /\ phase' = "aborted"
  /\ UNCHANGED <<submission, policy, suggestions, anomaly, decision, past, runs>>

(* POST /ingest of the same submission, under the configuration of the day.  *)
Resubmit ==
  /\ phase \in {"journaled", "aborted"} /\ runs < MaxRuns
  /\ runs' = runs + 1
  /\ policy' \in Policies
  /\ phase' = "received"
  /\ UNCHANGED <<submission, suggestions, anomaly, decision, past>>

Next == Assemble \/ Scored \/ NotScored \/ Decide \/ JournalDecision
        \/ JournalRaises \/ Resubmit

Spec == Init /\ [][Next]_vars

-----------------------------------------------------------------------------
(* No more anomalous, and no less watched over. *)
Milder(a, b) ==
  \/ a = NoAnomaly
  \/ a # NoAnomaly /\ b # NoAnomaly /\ a.score <= b.score
     /\ (a.flagged => b.flagged)
Laxer(p, q) ==
  /\ p.classifier = q.classifier /\ p.salt = q.salt /\ p.rate <= q.rate
  /\ (p.mode = "enforcing" => q.mode = "enforcing")

(* The one-way valve over the life of a case: of two decisions the journal   *)
(* holds on the same routing evidence, the one with the worse anomaly        *)
(* evidence, or under the stricter policy, never has the better tier         *)
(* (interpreter.decide, DowngradeCondition, audit_sample_rate).              *)
OversightIsMonotone ==
  \A i, j \in DOMAIN past :
    past[i].suggestions = past[j].suggestions
    /\ Milder(past[i].anomaly, past[j].anomaly)
    /\ Laxer(past[i].policy, past[j].policy)
    => past[i].decision.tier <= past[j].decision.tier

(* In log_only mode the scorer changes nothing: two decisions on the same    *)
(* routing evidence and policy agree, whatever the two scores were, and none *)
(* claims a downgrade (ScorerMode.LOG_ONLY, _journal_decision).              *)
LogOnlyIsInert ==
  \A i, j \in DOMAIN past :
    past[i].policy.mode = "log_only" =>
      /\ "downgraded" \notin past[i].decision.kinds
      /\ past[i].policy = past[j].policy
         /\ past[i].suggestions = past[j].suggestions
         => past[i].decision = past[j].decision

(* A case a caseworker sees at tier 3 says why it left its qualifying tier,  *)
(* and gives one reason only: an audit draw is never mixed with a scorer's   *)
(* downgrade, nor claimed for an item that was at tier 3 anyway              *)
(* (SAMPLEABLE_TIERS, is_audit_sample_reason).                               *)
OneCauseOfReview ==
  \A i \in DOMAIN past :
    LET d == past[i].decision
        causes == d.kinds \cap {"downgraded", "sampled"}
    IN  /\ d.tier # d.pre => causes \in {{"downgraded"}, {"sampled"}}
        /\ "sampled" \in d.kinds => d.pre \in Sampleable /\ d.tier = 3
                                    /\ past[i].sampled
        /\ d.tier \in Sampleable => ~ past[i].sampled /\ past[i].applied = {}

(* The unit a Vorgang is handed to is the one the agency's own rules put     *)
(* first; a similarity hands it over only when no rule spoke and the agency  *)
(* admitted the classifier (_routed_unit, _classify_fallback).  And neither  *)
(* a similarity nor a conflict that the priorities leave open ever qualifies *)
(* an item by the shipped table, whatever the policy (config/decision, v1).  *)
RoutingIsTheAgencys ==
  \A i \in DOMAIN past :
    LET decided == past[i].decision
    IN  /\ IF hits # {} THEN \E r \in hits : Winner(r) /\ decided.routed = r.unit
           ELSE decided.routed # NoUnit => past[i].policy.classifier
        /\ decided.pre \in Sampleable => \E r \in hits : Winner(r) /\ ~ Contested(r)
=============================================================================
