--------------------------- MODULE DecisionProofs ---------------------------
(***************************************************************************)
(* The one-way valve for every decision table, every set of routing rules, *)
(* every policy and any number of decisions of a case.  The argument: what *)
(* the journal holds of a decision is always what the pure function        *)
(* Verdict says of the evidence and the policy beside it (SoundPast), and  *)
(* Verdict is monotone.                                                    *)
(***************************************************************************)
EXTENDS Decision, ListFacts, TLAPS

Evidence == Anomaly \cup {NoAnomaly}

(* The payloads _journal_decision can write for this submission. *)
Sound ==
  { [decision |-> Verdict(S, a, p), suggestions |-> S, anomaly |-> a,
     policy |-> p, fired |-> Fired(a), applied |-> Applied(a, p),
     sampled |-> Drawn(p)] :
      S \in SUBSET Suggestion, a \in Evidence,
      p \in {q \in Policies : ~ SampleRaises(q)} }

SoundPast ==
  /\ suggestions \in SUBSET Suggestion
  /\ anomaly \in Evidence
  /\ policy \in Policies
  /\ phase = "decided" => decision = Verdict(suggestions, anomaly, policy)
  /\ past \in Seq(Sound)

-----------------------------------------------------------------------------
(* The tier of the rows alone is a tier, whatever the table says.            *)
LEMMA TierOfTheRows ==
  ASSUME NEW S
  PROVE  \E t \in Tier : \/ \E i \in DOMAIN Rows : FirstRow(i, S) /\ Rows[i].tier = t
                         \/ (\A i \in DOMAIN Rows : ~ FirstRow(i, S)) /\ t = 3
<1>1. CASE \E i \in DOMAIN Rows : FirstRow(i, S)
  <2>1. PICK i \in DOMAIN Rows : FirstRow(i, S)  BY <1>1
  <2>2. Rows[i].tier \in Tier  BY DecisionAssumption
  <2> QED  BY <2>1, <2>2
<1>2. CASE \A i \in DOMAIN Rows : ~ FirstRow(i, S)
  <2>1. 3 \in Tier  BY DEF Tier
  <2> QED  BY <1>2, <2>1
<1> QED  BY <1>1, <1>2

LEMMA PreTierIsATier == ASSUME NEW S PROVE PreTier(S) \in Tier
BY TierOfTheRows DEF PreTier

(* What every decision looks like that did not take the error rail. *)
LEMMA VerdictFields ==
  ASSUME NEW S, NEW a, NEW p, ~ SampleRaises(p)
  PROVE  LET pre == PreTier(Admitted(S, p))
             after == TierAfter(pre, a, p)
             pulled == Drawn(p) /\ after \in Sampleable
             v == Verdict(S, a, p)
         IN  /\ v.tier = IF pulled THEN 3 ELSE after
             /\ v.pre = pre
             /\ v.kinds = RowKinds(Admitted(S, p))
                  \cup (IF Applied(a, p) = {} THEN {} ELSE {"downgraded"})
                  \cup (IF pulled THEN {"sampled"} ELSE {})
BY DEF Verdict

(* Worse anomaly evidence fires no fewer downgrades. *)
LEMMA FiredIsMonotone ==
  ASSUME NEW a \in Evidence, NEW b \in Evidence, Milder(a, b)
  PROVE  Fired(a) \subseteq Fired(b)
<1>1. CASE a = NoAnomaly  BY <1>1 DEF Fired
<1>2. CASE a # NoAnomaly
  <2>1. b # NoAnomaly /\ a.score <= b.score /\ (a.flagged => b.flagged)
    BY <1>2 DEF Milder
  <2>2. a.score \in Nat /\ b.score \in Nat  BY <1>2, <2>1 DEF Evidence, Anomaly
  <2>3. \A d \in Downgrades : d.atLeast \in Nat  BY DecisionAssumption
  <2> QED  BY <1>2, <2>1, <2>2, <2>3 DEF Fired
<1> QED  BY <1>1, <1>2

(* The same rows, worse evidence and a stricter policy: no better a tier. *)
LEMMA VerdictIsMonotone ==
  ASSUME NEW S, NEW a \in Evidence, NEW b \in Evidence,
         NEW p \in Policies, NEW q \in Policies, draw \in Nat,
         ~ SampleRaises(p), ~ SampleRaises(q), Milder(a, b), Laxer(p, q)
  PROVE  Verdict(S, a, p).tier <= Verdict(S, b, q).tier
<1>1. Admitted(S, p) = Admitted(S, q)  BY DEF Laxer, Admitted
<1> DEFINE pre == PreTier(Admitted(S, p))
<1>2. pre \in 1 .. 3  BY PreTierIsATier DEF Tier
<1>3. Applied(a, p) # {} => Applied(b, q) # {}
  BY FiredIsMonotone, DecisionAssumption DEF Applied, Laxer, Policy
<1>4. Drawn(p) => Drawn(q)
  <2>1. p.rate \in Nat /\ q.rate \in Nat  BY DecisionAssumption DEF Policy
  <2> QED  BY <2>1 DEF Drawn, SamplingOn, Laxer
<1>5. /\ Verdict(S, a, p).tier =
           IF Drawn(p) /\ TierAfter(pre, a, p) \in Sampleable THEN 3
           ELSE TierAfter(pre, a, p)
      /\ Verdict(S, b, q).tier =
           IF Drawn(q) /\ TierAfter(pre, b, q) \in Sampleable THEN 3
           ELSE TierAfter(pre, b, q)
  BY <1>1, VerdictFields
<1> HIDE DEF pre
<1>6. CASE Applied(b, q) # {}
  BY <1>2, <1>5, <1>6 DEF TierAfter, Sampleable
<1>7. CASE Applied(b, q) = {}
  BY <1>2, <1>3, <1>4, <1>5, <1>7 DEF TierAfter, Sampleable
<1> QED  BY <1>6, <1>7

-----------------------------------------------------------------------------
LEMMA RuleSuggestionsTyped ==
  hits \subseteq Rule => RuleSuggestions \subseteq Suggestion
BY DecisionAssumption
   DEF RuleSuggestions, Suggestion, RuleConfidence, ContestedConfidence,
       AlternativeConfidence

LEMMA FallbackTyped ==
  \A extra \in FallbackSuggestions : extra \subseteq Suggestion
BY DecisionAssumption DEF FallbackSuggestions, Suggestion

(* Only JournalDecision and Decide have anything to show. *)
Inv == hits \subseteq Rule /\ draw \in Nat /\ SoundPast

LEMMA InitSound == Init => Inv
<1> SUFFICES ASSUME Init PROVE Inv  OBVIOUS
<1>1. hits \subseteq Rule /\ draw \in Nat  BY DecisionAssumption DEF Init
<1>2. past \in Seq(Sound)  BY DEF Init
<1> QED  BY <1>1, <1>2 DEF Init, Inv, SoundPast, Evidence

LEMMA SameSubmissionSameSound ==
  UNCHANGED <<facts, draw>> => Sound' = Sound
BY DEF Sound, Verdict, Admitted, PreTier, FirstRow, RowHolds, Field, Confidence,
       TierAfter, Applied, Fired, Drawn, SamplingOn, SampleRaises, Routed,
       RowKinds, ErrorDecision

(* The verdict is a function of the item and of what the run has gathered. *)
LEMMA SameEvidenceSameVerdict ==
  ASSUME UNCHANGED <<facts, draw, suggestions, anomaly, policy>>
  PROVE  Verdict(suggestions, anomaly, policy)'
           = Verdict(suggestions, anomaly, policy)
<1> DEFINE admitted == Admitted(suggestions, policy)
<1>1. admitted' = admitted  BY DEF Admitted
<1>2. PreTier(admitted)' = PreTier(admitted)
  BY <1>1 DEF PreTier, FirstRow, RowHolds, Field, Confidence
<1>3. Routed(admitted)' = Routed(admitted)  BY <1>1 DEF Routed
<1>4. RowKinds(admitted)' = RowKinds(admitted)
  BY <1>1 DEF RowKinds, FirstRow, RowHolds, Field, Confidence
<1>5. Applied(anomaly, policy)' = Applied(anomaly, policy)
  BY DEF Applied, Fired
<1>6. /\ Drawn(policy)' <=> Drawn(policy)
      /\ SampleRaises(policy)' <=> SampleRaises(policy)
  BY DEF Drawn, SampleRaises, SamplingOn
<1> QED
  BY <1>2, <1>3, <1>4, <1>5, <1>6 DEF Verdict, TierAfter, ErrorDecision

LEMMA AppendedPast ==
  ASSUME NEW T, NEW s \in Seq(T), NEW e \in T PROVE Append(s, e) \in Seq(T)
OBVIOUS

LEMMA StepSound == Inv /\ [Next]_vars => Inv'
<1> SUFFICES ASSUME Inv, [Next]_vars PROVE Inv'  OBVIOUS
<1>0. UNCHANGED <<hits, facts, draw>>
  BY DEF Next, Assemble, Scored, NotScored, Decide, JournalDecision,
         JournalRaises, Resubmit, vars, submission
<1>1. Sound' = Sound  BY <1>0, SameSubmissionSameSound
<1>2. hits' \subseteq Rule /\ draw' \in Nat  BY <1>0 DEF Inv
<1>3. CASE Assemble
  <2>1. suggestions' \in SUBSET Suggestion
    BY <1>3, RuleSuggestionsTyped, FallbackTyped DEF Assemble, Inv
  <2> QED  BY <1>1, <1>2, <1>3, <2>1 DEF Assemble, Inv, SoundPast
<1>4. CASE Scored
  <2>1. anomaly' \in Evidence
    BY <1>4, DecisionAssumption DEF Scored, Evidence, Anomaly
  <2> QED  BY <1>1, <1>2, <1>4, <2>1 DEF Scored, Inv, SoundPast
<1>5. CASE NotScored
  BY <1>1, <1>2, <1>5 DEF NotScored, Inv, SoundPast, Evidence
<1>6. CASE Decide
  <2>1. decision' = Verdict(suggestions, anomaly, policy)  BY <1>6 DEF Decide
  <2>2. Verdict(suggestions, anomaly, policy)'
          = Verdict(suggestions, anomaly, policy)
    BY <1>0, <1>6, SameEvidenceSameVerdict DEF Decide, submission
  <2> QED  BY <1>1, <1>2, <1>6, <2>1, <2>2 DEF Decide, Inv, SoundPast
<1>7. CASE JournalDecision
  <2>1. Payload \in Sound
    BY <1>7 DEF JournalDecision, Payload, Sound, Inv, SoundPast
  <2>2. past' \in Seq(Sound)
    <3>1. past \in Seq(Sound)  BY DEF Inv, SoundPast
    <3>2. Append(past, Payload) \in Seq(Sound)  BY <2>1, <3>1, AppendedPast
    <3> QED  BY <1>7, <3>2 DEF JournalDecision
  <2> QED  BY <1>1, <1>2, <1>7, <2>2 DEF JournalDecision, Inv, SoundPast
<1>8. CASE JournalRaises
  BY <1>1, <1>2, <1>8 DEF JournalRaises, Inv, SoundPast
<1>9. CASE Resubmit
  BY <1>1, <1>2, <1>9 DEF Resubmit, Inv, SoundPast
<1>10. CASE UNCHANGED vars
  <2>1. UNCHANGED <<phase, suggestions, anomaly, policy, decision, past>>
    BY <1>10 DEF vars
  <2>2. Verdict(suggestions, anomaly, policy)'
          = Verdict(suggestions, anomaly, policy)
    BY <1>0, <2>1, SameEvidenceSameVerdict
  <2> QED  BY <1>1, <1>2, <2>1, <2>2 DEF Inv, SoundPast
<1> QED
  BY <1>3, <1>4, <1>5, <1>6, <1>7, <1>8, <1>9, <1>10 DEF Next

THEOREM SoundAlways == Spec => []Inv
BY InitSound, StepSound, PTL DEF Spec

(* A member of the journal, taken apart. *)
LEMMA EntryIsSound ==
  ASSUME Inv, NEW i \in DOMAIN past
  PROVE  /\ past[i].suggestions \in SUBSET Suggestion
         /\ past[i].anomaly \in Evidence
         /\ past[i].policy \in Policies
         /\ ~ SampleRaises(past[i].policy)
         /\ past[i].decision =
              Verdict(past[i].suggestions, past[i].anomaly, past[i].policy)
         /\ past[i].applied = Applied(past[i].anomaly, past[i].policy)
         /\ past[i].sampled = Drawn(past[i].policy)
<1>1. past[i] \in Sound  BY DEF Inv, SoundPast
<1>2. PICK S \in SUBSET Suggestion, a \in Evidence,
           p \in {q \in Policies : ~ SampleRaises(q)} :
        past[i] = [decision |-> Verdict(S, a, p), suggestions |-> S,
                   anomaly |-> a, policy |-> p, fired |-> Fired(a),
                   applied |-> Applied(a, p), sampled |-> Drawn(p)]
  BY <1>1 DEF Sound
<1> QED  BY <1>2

(* The one-way valve, between any two decisions of a case.                   *)
THEOREM Valve == Spec => []OversightIsMonotone
<1>1. Inv => OversightIsMonotone
  <2> SUFFICES ASSUME Inv, NEW i \in DOMAIN past, NEW j \in DOMAIN past,
                      past[i].suggestions = past[j].suggestions,
                      Milder(past[i].anomaly, past[j].anomaly),
                      Laxer(past[i].policy, past[j].policy)
               PROVE  past[i].decision.tier <= past[j].decision.tier
    BY DEF OversightIsMonotone
  <2> DEFINE S == past[i].suggestions
             a == past[i].anomaly
             b == past[j].anomaly
             p == past[i].policy
             q == past[j].policy
  <2>1. /\ a \in Evidence /\ p \in Policies /\ ~ SampleRaises(p)
        /\ past[i].decision = Verdict(S, a, p)
    BY EntryIsSound
  <2>2. /\ b \in Evidence /\ q \in Policies /\ ~ SampleRaises(q)
        /\ past[j].decision = Verdict(S, b, q)
    BY EntryIsSound
  <2>3. draw \in Nat  BY DEF Inv
  <2>4. Verdict(S, a, p).tier <= Verdict(S, b, q).tier
    BY <2>1, <2>2, <2>3, VerdictIsMonotone
  <2> QED  BY <2>1, <2>2, <2>4
<1> QED  BY <1>1, SoundAlways, PTL

(* A scorer in log_only mode changes no decision.                            *)
THEOREM LogOnly == Spec => []LogOnlyIsInert
<1>1. Inv => LogOnlyIsInert
  <2> SUFFICES ASSUME Inv, NEW i \in DOMAIN past, NEW j \in DOMAIN past,
                      past[i].policy.mode = "log_only"
               PROVE  /\ "downgraded" \notin past[i].decision.kinds
                      /\ past[i].policy = past[j].policy
                         /\ past[i].suggestions = past[j].suggestions
                         => past[i].decision = past[j].decision
    BY DEF LogOnlyIsInert
  <2> DEFINE p == past[i].policy
             S == past[i].suggestions
  <2>1. past[i].decision = Verdict(S, past[i].anomaly, p) /\ ~ SampleRaises(p)
    BY EntryIsSound
  <2>2. \A a : Applied(a, p) = {}  BY DEF Applied
  <2>3. "downgraded" \notin Verdict(S, past[i].anomaly, p).kinds
    <3>1. "downgraded" \notin RowKinds(Admitted(S, p))  BY DEF RowKinds
    <3> QED  BY <2>1, <2>2, <3>1, VerdictFields
  <2>4. \A a, b : Verdict(S, a, p) = Verdict(S, b, p)
    BY <2>2 DEF Verdict, TierAfter
  <2>5. past[j].decision =
          Verdict(past[j].suggestions, past[j].anomaly, past[j].policy)
    BY EntryIsSound
  <2> QED  BY <2>1, <2>3, <2>4, <2>5
<1> QED  BY <1>1, SoundAlways, PTL

(* The reasons of a decision never mix an audit draw with a downgrade.       *)
THEOREM OneCause == Spec => []OneCauseOfReview
<1>1. Inv => OneCauseOfReview
  <2> SUFFICES ASSUME Inv, NEW i \in DOMAIN past
               PROVE  LET d == past[i].decision
                          causes == d.kinds \cap {"downgraded", "sampled"}
                      IN  /\ d.tier # d.pre => causes \in {{"downgraded"}, {"sampled"}}
                          /\ "sampled" \in d.kinds => d.pre \in Sampleable
                               /\ d.tier = 3 /\ past[i].sampled
                          /\ d.tier \in Sampleable => ~ past[i].sampled
                               /\ past[i].applied = {}
    BY DEF OneCauseOfReview
  <2> DEFINE p == past[i].policy
             a == past[i].anomaly
             S == past[i].suggestions
             d == past[i].decision
             pre == PreTier(Admitted(S, p))
             rows == RowKinds(Admitted(S, p))
  <2>1. /\ d = Verdict(S, a, p) /\ ~ SampleRaises(p)
        /\ past[i].applied = Applied(a, p) /\ past[i].sampled = Drawn(p)
    BY EntryIsSound
  <2>2. pre \in 1 .. 3  BY PreTierIsATier DEF Tier
  <2>3. rows \subseteq {"qualified", "defaulted", "failed"}  BY DEF RowKinds
  <2>4. /\ d.pre = pre
        /\ d.tier = IF Drawn(p) /\ TierAfter(pre, a, p) \in Sampleable THEN 3
                    ELSE TierAfter(pre, a, p)
        /\ d.kinds = rows \cup (IF Applied(a, p) = {} THEN {} ELSE {"downgraded"})
             \cup (IF Drawn(p) /\ TierAfter(pre, a, p) \in Sampleable
                   THEN {"sampled"} ELSE {})
    BY <2>1, VerdictFields
  <2> DEFINE pulled == Drawn(p) /\ TierAfter(pre, a, p) \in Sampleable
  <2>5. "downgraded" \in d.kinds <=> Applied(a, p) # {}  BY <2>3, <2>4
  <2>6. "sampled" \in d.kinds <=> pulled  BY <2>3, <2>4
  <2>7. pulled => Applied(a, p) = {} /\ pre \in Sampleable /\ d.tier = 3
    BY <2>4 DEF TierAfter, Sampleable
  <2>8. d.tier # d.pre => Applied(a, p) # {} \/ pulled
    BY <2>4 DEF TierAfter
  <2>9. d.tier # d.pre =>
          d.kinds \cap {"downgraded", "sampled"} \in {{"downgraded"}, {"sampled"}}
    BY <2>5, <2>6, <2>7, <2>8
  <2>10. d.tier \in Sampleable => ~ Drawn(p) /\ Applied(a, p) = {}
    BY <2>4 DEF TierAfter, Sampleable
  <2> QED  BY <2>1, <2>4, <2>6, <2>7, <2>9, <2>10
<1> QED  BY <1>1, SoundAlways, PTL

-----------------------------------------------------------------------------
(* Routing: what speaks for a unit, and with which confidence.               *)
LEMMA WinnerExists ==
  ASSUME hits \subseteq Rule, hits # {}
  PROVE  \E w \in hits : Winner(w)
<1>1. \A r \in hits : r.priority \in Nat /\ r.id \in Nat  BY DecisionAssumption
<1> DEFINE P == {r.priority : r \in hits}
<1>2. PICK m \in P : \A n \in P : m <= n
  <2>1. P \subseteq Nat /\ P # {}  BY <1>1
  <2> QED  BY <2>1, LeastNumber
<1> DEFINE I == {r.id : r \in {s \in hits : s.priority = m}}
<1>3. PICK k \in I : \A n \in I : k <= n
  <2>1. I \subseteq Nat /\ I # {}  BY <1>1, <1>2
  <2> QED  BY <2>1, LeastNumber
<1>4. PICK w \in hits : w.priority = m /\ w.id = k  BY <1>3
<1>5. \A s \in hits : ~ Before(s, w)
  <2> SUFFICES ASSUME NEW s \in hits PROVE ~ Before(s, w)  OBVIOUS
  <2>1. m <= s.priority  BY <1>2
  <2>2. s.priority = m => k <= s.id  BY <1>3
  <2> HIDE DEF P, I
  <2> QED  BY <1>1, <1>4, <2>1, <2>2 DEF Before
<1> QED  BY <1>4, <1>5 DEF Winner

LEMMA WinnerIsOne ==
  ASSUME hits \subseteq Rule, NEW r, NEW s, Winner(r), Winner(s)
  PROVE  r = s
<1>1. \A x \in hits : x \in Rule /\ x.priority \in Nat /\ x.id \in Nat
  BY DecisionAssumption
<1>2. r.priority = s.priority /\ r.id = s.id  BY <1>1 DEF Winner, Before
<1> QED  BY <1>1, <1>2, DecisionAssumption DEF Winner

(* What the winning rule says of its unit. *)
Word(w) ==
  [unit |-> w.unit, source |-> "rule",
   confidence |-> IF Contested(w) THEN ContestedConfidence ELSE RuleConfidence]

LEMMA TheWinnerSpeaksLoudest ==
  ASSUME hits \subseteq Rule, NEW w, Winner(w)
  PROVE  /\ Word(w) \in RuleSuggestions
         /\ \A s \in RuleSuggestions :
              s = Word(w) \/ s.confidence = AlternativeConfidence
         /\ \A s \in RuleSuggestions : s.source = "rule"
<1>1. w \in hits /\ Candidate(w)  BY DEF Winner, Candidate
<1>2. Word(w) \in RuleSuggestions  BY <1>1 DEF RuleSuggestions, Word
<1>3. ASSUME NEW s \in RuleSuggestions
      PROVE  s.source = "rule" /\ (s = Word(w) \/ s.confidence = AlternativeConfidence)
  <2>1. PICK r \in hits :
          s = [unit |-> r.unit, source |-> "rule",
               confidence |-> IF ~ Winner(r) THEN AlternativeConfidence
                              ELSE IF Contested(r) THEN ContestedConfidence
                              ELSE RuleConfidence]
    BY <1>3 DEF RuleSuggestions
  <2>2. CASE Winner(r)
    <3>1. r = w  BY <2>2, WinnerIsOne
    <3> QED  BY <2>1, <2>2, <3>1 DEF Word
  <2>3. CASE ~ Winner(r)  BY <2>1, <2>3
  <2> QED  BY <2>2, <2>3
<1> QED  BY <1>2, <1>3

(* Who may speak in a run: the rules that hit, or else the classifier alone. *)
Gathered(S) ==
  IF hits # {} THEN S = RuleSuggestions
  ELSE \A s \in S : s.source = "classifier"

LEMMA AssembledIsGathered ==
  ASSUME NEW extra \in FallbackSuggestions
  PROVE  Gathered(RuleSuggestions \cup extra)
<1>1. CASE hits # {}
  BY <1>1 DEF FallbackSuggestions, Gathered
<1>2. CASE hits = {}
  <2>1. RuleSuggestions = {}  BY <1>2 DEF RuleSuggestions
  <2>2. \A s \in extra : s.source = "classifier"
    BY <1>2 DEF FallbackSuggestions
  <2> QED  BY <1>2, <2>1, <2>2 DEF Gathered
<1> QED  BY <1>1, <1>2

(* With a rule that hit, the unit and the confidence are the winner's,       *)
(* whether the classifier is admitted or not.                                *)
LEMMA TheWinnerRoutes ==
  ASSUME hits \subseteq Rule, NEW w, Winner(w), NEW S, Gathered(S), NEW p
  PROVE  /\ Routed(Admitted(S, p)) = w.unit
         /\ Confidence(Admitted(S, p)) = Word(w).confidence
<1>1. hits # {}  BY DEF Winner
<1>2. /\ Word(w) \in RuleSuggestions
      /\ \A s \in RuleSuggestions :
           s = Word(w) \/ s.confidence = AlternativeConfidence
      /\ \A s \in RuleSuggestions : s.source = "rule"
  BY TheWinnerSpeaksLoudest
<1> DEFINE A == Admitted(S, p)
           c == Word(w).confidence
<1>3. A = RuleSuggestions  BY <1>1, <1>2 DEF Admitted, Gathered
<1>4. c \in {60, 100} /\ Word(w).unit = w.unit
  BY DEF Word, ContestedConfidence, RuleConfidence
<1>5. /\ Word(w) \in A
      /\ \A s \in A : s = Word(w) \/ s.confidence = 50
  BY <1>2, <1>3 DEF AlternativeConfidence
<1>6. \A o \in A : o.confidence <= c /\ o.confidence \in Nat  BY <1>4, <1>5
<1>7. Routed(A) = w.unit
  <2> DEFINE best == CHOOSE s \in A : \A o \in A : o.confidence <= s.confidence
  <2>1. \E s \in A : \A o \in A : o.confidence <= s.confidence  BY <1>5, <1>6
  <2>2. best \in A /\ \A o \in A : o.confidence <= best.confidence  BY <2>1
  <2>3. best = Word(w)
    <3>1. c <= best.confidence  BY <1>5, <2>2
    <3> HIDE DEF best
    <3> QED  BY <1>4, <1>5, <2>2, <3>1
  <2>4. A # {}  BY <1>5
  <2> QED  BY <1>4, <2>3, <2>4 DEF Routed
<1>8. Confidence(A) = c
  <2> DEFINE C == {0} \cup {s.confidence : s \in A}
             top == CHOOSE x \in C : \A s \in A : s.confidence <= x
  <2>1. c \in C  BY <1>5
  <2>2. top \in C /\ \A s \in A : s.confidence <= top
    <3>1. \E x \in C : \A s \in A : s.confidence <= x  BY <1>6, <2>1
    <3> HIDE DEF C
    <3> QED  BY <3>1
  <2>3. \A x \in C : x \in Nat /\ x <= c  BY <1>4, <1>6
  <2>4. Confidence(A) = top  BY DEF Confidence
  <2> HIDE DEF top
  <2>5. c <= top /\ top <= c /\ top \in Nat  BY <1>5, <2>2, <2>3
  <2> QED  BY <1>4, <2>4, <2>5
<1> QED  BY <1>7, <1>8

(* Every row the table routes by asks for a rule that hit and for more than  *)
(* the confidence of a contested winner (config/decision, v1).               *)
RowsTrustRulesOnly ==
  \A i \in DOMAIN Rows : Rows[i].tier \in Sampleable =>
    /\ \E c \in Rows[i].when : c.field = "rule_hit" /\ c.accepts \subseteq {TRUE}
    /\ \E c \in Rows[i].when :
         c.field = "confidence" /\ \A n \in c.accepts : n > ContestedConfidence

LEMMA OnlyClearWinnersQualify ==
  ASSUME RowsTrustRulesOnly, hits \subseteq Rule, NEW S, Gathered(S), NEW p,
         PreTier(Admitted(S, p)) \in Sampleable
  PROVE  \E r \in hits : Winner(r) /\ ~ Contested(r)
<1> DEFINE A == Admitted(S, p)
<1>1. PICK i \in DOMAIN Rows : FirstRow(i, A) /\ Rows[i].tier \in Sampleable
  <2>1. \E t \in Tier : \/ \E i \in DOMAIN Rows : FirstRow(i, A) /\ Rows[i].tier = t
                        \/ (\A i \in DOMAIN Rows : ~ FirstRow(i, A)) /\ t = 3
    BY TierOfTheRows
  <2>2. \/ \E i \in DOMAIN Rows : FirstRow(i, A) /\ Rows[i].tier = PreTier(A)
        \/ (\A i \in DOMAIN Rows : ~ FirstRow(i, A)) /\ PreTier(A) = 3
    BY <2>1 DEF PreTier
  <2>3. PreTier(A) # 3  BY DEF Sampleable
  <2> QED  BY <2>2, <2>3
<1>2. RowHolds(Rows[i], A)  BY <1>1 DEF FirstRow
<1>3. \E s \in A : s.source = "rule"
  <2>1. PICK c \in Rows[i].when : c.field = "rule_hit" /\ c.accepts \subseteq {TRUE}
    BY <1>1 DEF RowsTrustRulesOnly
  <2>2. Field(A, "rule_hit") \in c.accepts  BY <1>2, <2>1 DEF RowHolds
  <2>3. Field(A, "rule_hit") = TRUE  BY <2>1, <2>2
  <2> QED  BY <2>3 DEF Field
<1>4. hits # {}  BY <1>3 DEF Admitted, Gathered
<1>5. PICK w \in hits : Winner(w)  BY <1>4, WinnerExists
<1>6. Confidence(A) > ContestedConfidence
  <2>1. PICK c \in Rows[i].when :
          c.field = "confidence" /\ \A n \in c.accepts : n > ContestedConfidence
    BY <1>1 DEF RowsTrustRulesOnly
  <2>2. Field(A, "confidence") \in c.accepts  BY <1>2, <2>1 DEF RowHolds
  <2> QED  BY <2>1, <2>2 DEF Field
<1>7. Confidence(A) = Word(w).confidence  BY <1>5, TheWinnerRoutes
<1>8. ~ Contested(w)
  BY <1>6, <1>7 DEF Word, ContestedConfidence
<1> QED  BY <1>5, <1>8

(* Between assembly and journal, and in the journal, only evidence that was  *)
(* gathered by arbitration: a decision cannot carry another's.               *)
GatheredInv ==
  /\ phase \in {"assembled", "scored", "decided"} => Gathered(suggestions)
  /\ \A i \in DOMAIN past : Gathered(past[i].suggestions)

LEMMA StepGathered == Inv /\ GatheredInv /\ [Next]_vars => GatheredInv'
<1> SUFFICES ASSUME Inv, GatheredInv, [Next]_vars PROVE GatheredInv'  OBVIOUS
<1>0. UNCHANGED hits
  BY DEF Next, Assemble, Scored, NotScored, Decide, JournalDecision,
         JournalRaises, Resubmit, vars, submission
<1>1. RuleSuggestions' = RuleSuggestions
  BY <1>0 DEF RuleSuggestions, Candidate, Winner, Contested
<1>2. Gathered(suggestions)' <=> Gathered(suggestions')
  BY <1>0, <1>1 DEF Gathered
<1>3. past' = past => \A i \in DOMAIN past' : Gathered(past[i].suggestions)'
  BY <1>0, <1>1 DEF Gathered, GatheredInv
<1>4. CASE Assemble
  <2>1. Gathered(suggestions')
    BY <1>4, AssembledIsGathered DEF Assemble
  <2> QED  BY <1>2, <1>3, <1>4, <2>1 DEF Assemble, GatheredInv
<1>5. CASE Scored \/ NotScored \/ Decide
  <2>1. Gathered(suggestions) /\ suggestions' = suggestions /\ past' = past
    BY <1>5 DEF Scored, NotScored, Decide, GatheredInv
  <2> QED  BY <1>2, <1>3, <2>1 DEF GatheredInv
<1>6. CASE JournalDecision
  <2>1. /\ past' = Append(past, Payload) /\ phase' = "journaled"
        /\ Gathered(suggestions)
    BY <1>6 DEF JournalDecision, GatheredInv
  <2>2. past \in Seq(Sound)  BY DEF Inv, SoundPast
  <2>3. Payload.suggestions = suggestions  BY DEF Payload
  <2>4. ASSUME NEW i \in DOMAIN past' PROVE Gathered(past'[i].suggestions)
    <3>1. CASE i \in DOMAIN past
      <4>1. past'[i] = past[i]  BY <2>1, <2>2, <3>1
      <4> QED  BY <3>1, <4>1 DEF GatheredInv
    <3>2. CASE i \notin DOMAIN past
      <4>1. past'[i] = Payload  BY <2>1, <2>2, <2>4, <3>2
      <4> QED  BY <2>1, <2>3, <4>1
    <3> QED  BY <3>1, <3>2
  <2>5. \A i \in DOMAIN past' : Gathered(past[i].suggestions)'
    BY <1>0, <1>1, <2>4 DEF Gathered
  <2> QED  BY <2>1, <2>5 DEF GatheredInv
<1>7. CASE JournalRaises \/ Resubmit
  <2>1. phase' \in {"aborted", "received"} /\ past' = past
    BY <1>7 DEF JournalRaises, Resubmit
  <2> QED  BY <1>3, <2>1 DEF GatheredInv
<1>8. CASE UNCHANGED vars
  <2>1. UNCHANGED <<phase, suggestions, past>>  BY <1>8 DEF vars
  <2> QED  BY <1>2, <1>3, <2>1 DEF GatheredInv
<1> QED
  BY <1>4, <1>5, <1>6, <1>7, <1>8 DEF Next

(* The unit is the agency's own: the rule its priorities put first, never a  *)
(* similarity where a rule spoke; and no conflict or similarity qualifies,   *)
(* by any table whose routable rows ask for what the shipped one asks for.   *)
THEOREM RulesRoute ==
  ASSUME RowsTrustRulesOnly PROVE Spec => []RoutingIsTheAgencys
<1>1. Init => GatheredInv  BY DEF Init, GatheredInv
<1>2. Inv /\ GatheredInv => RoutingIsTheAgencys
  <2> SUFFICES ASSUME Inv, GatheredInv, NEW i \in DOMAIN past
               PROVE  LET decided == past[i].decision
                      IN  /\ IF hits # {}
                             THEN \E r \in hits : Winner(r) /\ decided.routed = r.unit
                             ELSE decided.routed # NoUnit => past[i].policy.classifier
                          /\ decided.pre \in Sampleable =>
                               \E r \in hits : Winner(r) /\ ~ Contested(r)
    BY DEF RoutingIsTheAgencys
  <2> DEFINE S == past[i].suggestions
             p == past[i].policy
             d == past[i].decision
  <2>1. d = Verdict(S, past[i].anomaly, p) /\ ~ SampleRaises(p)
    BY EntryIsSound
  <2>2. d.pre = PreTier(Admitted(S, p)) /\ d.routed = Routed(Admitted(S, p))
    BY <2>1, VerdictFields DEF Verdict
  <2>3. Gathered(S) /\ hits \subseteq Rule  BY DEF GatheredInv, Inv
  <2>4. CASE hits # {}
    <3>1. PICK w \in hits : Winner(w)  BY <2>3, <2>4, WinnerExists
    <3>2. d.routed = w.unit  BY <2>2, <2>3, <3>1, TheWinnerRoutes
    <3>3. d.pre \in Sampleable => \E r \in hits : Winner(r) /\ ~ Contested(r)
      BY <2>2, <2>3, OnlyClearWinnersQualify
    <3> QED  BY <2>4, <3>1, <3>2, <3>3
  <2>5. CASE hits = {}
    <3>1. ~ p.classifier => Admitted(S, p) = {}
      BY <2>3, <2>5 DEF Gathered, Admitted
    <3>2. d.routed # NoUnit => p.classifier  BY <2>2, <3>1 DEF Routed
    <3>3. d.pre \in Sampleable => \E r \in hits : Winner(r) /\ ~ Contested(r)
      BY <2>2, <2>3, OnlyClearWinnersQualify
    <3> QED  BY <2>5, <3>2, <3>3
  <2> QED  BY <2>4, <2>5
<1> QED  BY <1>1, <1>2, InitSound, StepSound, StepGathered, PTL DEF Spec
=============================================================================
