-------------------------------- MODULE Score -------------------------------
(***************************************************************************)
(* The shadow scorer (engine/score): the feature vector of one submission, *)
(* its score as a rank in a reference population, what each feature        *)
(* contributed to it, and the reasons given for a flag.                    *)
(*                                                                         *)
(* Shares, ranks and scores are counted in sixtieths, dates in years and   *)
(* all of them rounded down.  A value of the working copy is a text, known *)
(* by what it says, a placeholder, or no string at all.                    *)
(***************************************************************************)
EXTENDS Question, Lists, Integers, Sequences, FiniteSets, SequencesExt

One == 60
Token == [kind |-> "token", says |-> 0]
Unparsable == -1000
Reading(n) == [kind |-> "text", says |-> n]

FeatureId == {"filled", "prose", "indizienShare", "indizienSeen", "dateDistance",
              "datePresent", "scan", "turnover"}
DeviationFeature == {"indizienShare", "dateDistance", "turnover"}

-----------------------------------------------------------------------------
(* features.py.  An item is what was extracted, the payload, the parts, the  *)
(* fields and the leading date of its procedure.                             *)
ShareOf(part, whole) == IF whole = 0 THEN 0 ELSE (One * part) \div whole

(* _at, _extracted: a text at that place, read past the guard.               *)
Has(values, key) == key \in DOMAIN values /\ values[key].kind = "text"
DateOf(item) ==
  IF item.leading \in DOMAIN item.records /\ Has(item.records, item.leading)
       /\ item.records[item.leading].says # Unparsable
  THEN {item.records[item.leading].says} ELSE {}

(* _guarded: a token at any place the scorer reads raises FeatureGuardError.  *)
(* Mutant: only the payload is guarded.                                      *)
GuardRaisesInPayload(item) ==
  \E key \in DOMAIN item.payload : item.payload[key] = Token

GuardRaises(item) ==
  \/ \E key \in DOMAIN item.payload : item.payload[key] = Token
  \/ item.leading \in DOMAIN item.records /\ item.records[item.leading] = Token

BuildFeatures(item, indizien) ==
  LET seen == {i \in indizien : Has(item.payload, i)}
      employed == {i \in seen : item.payload[i].says = 1}
      date == DateOf(item)
      turnover == IF Has(item.payload, "turnover")
                  THEN {item.payload["turnover"].says} \ {Unparsable} ELSE {}
      the(S) == CHOOSE n \in S : TRUE
      flag(b) == IF b THEN One ELSE 0
  IN  [filled |-> ShareOf(Cardinality(item.fields \cap DOMAIN item.records),
                          Cardinality(item.fields)),
       prose |-> flag(item.prose),
       scan |-> flag(item.prose /\ item.ocr),
       indizienShare |-> ShareOf(Cardinality(employed), Cardinality(seen)),
       indizienSeen |-> ShareOf(Cardinality(seen), Cardinality(indizien)),
       dateDistance |-> IF date = {} THEN 0 ELSE the(date) - item.received,
       datePresent |-> flag(date # {}),
       turnover |-> IF turnover = {} THEN 0
                    ELSE Min({One, Max({0, the(turnover)})})]

-----------------------------------------------------------------------------
(* model.py.  The isolation forest is scikit-learn's: its reading of a row   *)
(* is a number, and which one is open; three shapes of it stand for it.      *)
Forest(shape, row) ==
  CASE shape = "flat" -> 0
    [] shape = "prose" -> row["prose"]
    [] shape = "late" -> row["dateDistance"]

(* parse_reference: rows of this build's features, and at least one.         *)
ReferenceFits(reference) ==
  reference # << >> /\ \A i \in DOMAIN reference : DOMAIN reference[i] = FeatureId

CountLe(values, v) == Cardinality({i \in DOMAIN values : values[i] <= v})
CountGe(values, v) == Cardinality({i \in DOMAIN values : values[i] >= v})
RankIn(values, v) == ShareOf(CountLe(values, v), Len(values))
Column(reference, feature) == [i \in DOMAIN reference |-> reference[i][feature]]

Median(values) ==
  LET sorted == InOrder(values)
      middle == Len(values) \div 2
  IN  IF Len(values) % 2 = 1 THEN sorted[middle + 1]
      ELSE (sorted[middle] + sorted[middle + 1]) \div 2

Quartiles(values) ==
  LET sorted == InOrder(values)
      half == Len(values) \div 2
      lower == SubSeq(sorted, 1, half)
      upper == SubSeq(sorted, Len(values) - half + 1, Len(values))
  IN  IF half = 0 THEN [low |-> sorted[1], high |-> sorted[1]]
      ELSE [low |-> Median(lower), high |-> Median(upper)]

(* _deviation: how far out the row lies in the tail of its most unusual      *)
(* feature, either tail.                                                     *)
(* Mutant: only the lower tail is looked at.                                 *)
DeviationBelow(reference, row) ==
  One - Min({One} \cup {RankIn(Column(reference, f), row[f]) : f \in DeviationFeature})

Deviation(reference, row) ==
  LET tail(f) == Min({CountLe(Column(reference, f), row[f]),
                      CountGe(Column(reference, f), row[f])})
  IN  One - Min({One} \cup {ShareOf(tail(f), Len(reference)) : f \in DeviationFeature})

(* ScoringModel: the reference ranked by the forest and by both together.    *)
Combine(shape, reference, forest, row) ==
  Max({RankIn(forest, Forest(shape, row)), Deviation(reference, row)})

Model(shape, reference) ==
  LET forest == [i \in DOMAIN reference |-> Forest(shape, reference[i])]
  IN  [shape |-> shape, reference |-> reference, forest |-> forest,
       combined |-> [i \in DOMAIN reference |->
                       Combine(shape, reference, forest, reference[i])]]

ScoreOf(m, row) == RankIn(m.combined, Combine(m.shape, m.reference, m.forest, row))

(* explain: a feature contributes what the score loses when its value is     *)
(* replaced by the median of the reference.                                  *)
Contributions(m, row) ==
  LET score == ScoreOf(m, row)
  IN  [f \in FeatureId |->
         score - ScoreOf(m, [row EXCEPT ![f] = Median(Column(m.reference, f))])]

-----------------------------------------------------------------------------
(* build_reasons: the features that contributed enough, most first; with     *)
(* none, the one that lies farthest out.  Equal ones go by the feature's id. *)
FeatureOrder == <<"filled", "prose", "indizienShare", "indizienSeen", "dateDistance",
                  "datePresent", "scan", "turnover">>
Ranked(weight, least) ==
  LET at(f) == CHOOSE i \in DOMAIN FeatureOrder : FeatureOrder[i] = f
      enough == {f \in FeatureId : weight[f] >= least}
      surer(f) == {g \in enough : \/ weight[g] > weight[f]
                                  \/ weight[g] = weight[f] /\ at(g) < at(f)}
  IN  ByPlace(enough, [f \in enough |-> surer(f)])

(* How far out, in widths of the middle half of the reference.               *)
FartherOut(reference, row, f, g) ==
  LET out(h) == LET d == row[h] - Median(Column(reference, h)) IN IF d < 0 THEN -d ELSE d
      width(h) == LET q == Quartiles(Column(reference, h))
                  IN  Max({1, 1000 * (q.high - q.low)})
  IN  out(f) * width(g) >= out(g) * width(f)
MostDeviant(reference, row) ==
  LET far == {i \in DOMAIN FeatureOrder :
                \A g \in FeatureId : FartherOut(reference, row, FeatureOrder[i], g)}
  IN  <<FeatureOrder[Min(far)]>>

(* Mutant: a flag no feature explains goes out without a reason.             *)
ReasonsUnlessFlat(q, m, row) ==
  LET chosen == Ranked(Contributions(m, row), q.least)
  IN  SubSeq(chosen, 1, Min({q.most, Len(chosen)}))

Reasons(q, m, row) ==
  LET enough == Ranked(Contributions(m, row), q.least)
      chosen == IF enough = << >> THEN MostDeviant(q.reference, row) ELSE enough
  IN  SubSeq(chosen, 1, Min({q.most, Len(chosen)}))

(* Scorer.score: evidence, or none where the guard or anything else raised;  *)
(* AnomalyEvidence itself refuses a flag without a reason.                   *)
NoEvidence == [score |-> -1, flagged |-> FALSE, reasons |-> << >>]
Flagging(score, flagged, reasons) ==
  IF flagged /\ reasons = << >> THEN NoEvidence
  ELSE [score |-> score, flagged |-> flagged, reasons |-> reasons]
Weighed(q, m, row) ==
  LET score == ScoreOf(m, row)
  IN  IF score >= q.threshold THEN Flagging(score, TRUE, Reasons(q, m, row))
      ELSE Flagging(score, FALSE, << >>)
ScoreItem(q, item) ==
  IF GuardRaises(item) \/ ~ ReferenceFits(q.reference) THEN NoEvidence
  ELSE Weighed(q, Model(q.forest, q.reference), BuildFeatures(item, q.indizien))

(* What the pipeline journals under ANOMALY_SCORED: the evidence with its    *)
(* reasons, or that the scorer ran and produced none.                        *)
JournalAnomaly(evidence) ==
  [flagged |-> evidence.flagged, reasons |-> evidence.reasons, degraded |-> FALSE]
JournalDegradation == [flagged |-> FALSE, reasons |-> << >>, degraded |-> TRUE]
JournalOf(evidence) ==
  IF evidence = NoEvidence THEN JournalDegradation ELSE JournalAnomaly(evidence)
Journaled(q) == IF q.configured THEN <<JournalOf(ScoreItem(q, q.item))>> ELSE << >>

-----------------------------------------------------------------------------
(* A value sealed in the working copy changes a score to no evidence or not  *)
(* at all: no number is ever computed over a token (features.py, "a sealed   *)
(* value reached the feature vector").                                       *)
NoNumberOverAToken ==
  Asked("score") =>
    LET sent == question.item
        seal(values, S) == [k \in DOMAIN values |-> IF k \in S THEN Token ELSE values[k]]
    IN  \A scored \in {ScoreItem(question, sent)},
           P \in SUBSET DOMAIN sent.payload, R \in SUBSET DOMAIN sent.records :
          ScoreItem(question, [sent EXCEPT !.payload = seal(@, P), !.records = seal(@, R)])
            \in {NoEvidence, scored}

(* A configured scorer leaves one event for an item, none otherwise: a       *)
(* degradation exactly when it could not read the item or its reference (an  *)
(* audit may not take a scorer that fell over for one that does not exist).  *)
(* A flag comes with at least one reason and at most the configured number,  *)
(* each feature once; without a flag there is none (schemas/anomaly.py, "a   *)
(* flag without readable reasons never ships": it costs the evidence).       *)
AFlagIsExplained ==
  Asked("score") =>
    LET readable == ~ GuardRaises(question.item) /\ ReferenceFits(question.reference)
    IN  \A events \in {Journaled(question)} :
          /\ Len(events) = IF question.configured THEN 1 ELSE 0
          /\ \A e \in {events[i] : i \in DOMAIN events} :
               /\ e.degraded <=> ~ readable
               /\ e.flagged <=> e.reasons # << >>
               /\ Len(e.reasons) <= question.most
               /\ \A i, j \in DOMAIN e.reasons : e.reasons[i] = e.reasons[j] => i = j

(* Between two items that differ in one deviation feature, the one farther   *)
(* from the middle of the reference, to either side, is not scored as less   *)
(* unusual, the forest's reading being the same (model.py, _deviation).      *)
FartherOutIsNoLessUnusual ==
  Asked("score") /\ question.forest # "late" /\ ReferenceFits(question.reference) =>
    LET ref == question.reference
        row == BuildFeatures(question.item, question.indizien)
    IN  \A m \in {Model(question.forest, ref)}, f \in DeviationFeature,
           far \in {-One, 0, 2, One, 2 * One} :
          LET middle == Median(Column(ref, f))
              at(v) == ScoreOf(m, [row EXCEPT ![f] = v])
          IN  /\ at(far) >= at(middle)
              /\ (middle <= row[f] /\ row[f] <= far) \/ (far <= row[f] /\ row[f] <= middle)
                   => at(far) >= at(row[f])
=============================================================================
