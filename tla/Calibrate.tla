------------------------------ MODULE Calibrate -----------------------------
(***************************************************************************)
(* Fitting the calibration the fallback classifier needs                   *)
(* (eval/calibration.py): from scored outcomes to a step map, and the      *)
(* block of it that is pasted into the configuration.                      *)
(*                                                                         *)
(* A score counts in 1/30000 up to Top; the four decimals of the written   *)
(* block are its multiples of three.  A share of samples is a fraction     *)
(* [right, of], so that pooled means are exact.                            *)
(***************************************************************************)
EXTENDS Contracts, SequencesExt

Top == 30000
Rounded(score) == 3 * ((score + 1) \div 3)
FourDecimals(share) == (20000 * share.right + share.of) \div (2 * share.of)

AtMost(a, b) == a.right * b.of <= b.right * a.of
Accuracy(outcomes) ==
  [right |-> Cardinality({i \in DOMAIN outcomes : outcomes[i].correct}),
   of |-> Len(outcomes)]

-----------------------------------------------------------------------------
Ordered(outcomes) == SortSeq(outcomes, LAMBDA a, b : a.raw < b.raw)

(* _equal_frequency_groups: cut evenly, then a group that begins with the    *)
(* score the one before it ends with is joined to it.                        *)
EqualFrequencyGroups(ordered, count) ==
  LET n == IF count < Len(ordered) THEN count ELSE Len(ordered)
      cut == [i \in 1 .. n |-> SubSeq(ordered, ((i - 1) * Len(ordered)) \div n + 1,
                                      (i * Len(ordered)) \div n)]
      join(merged, group) ==
        IF merged # << >> /\ Last(Last(merged)).raw = Head(group).raw
        THEN Front(merged) \o <<Last(merged) \o group>>
        ELSE Append(merged, group)
  IN  FoldLeft(join, << >>, cut)

(* _pool_adjacent_violators: a new block absorbs the blocks on the stack     *)
(* whose mean lies above its own, as long as there is one on top.            *)
Pooled(blocks) ==
  FoldLeft(LAMBDA a, b : [right |-> a.right + b.right, of |-> a.of + b.of,
                          bins |-> a.bins + b.bins],
           [right |-> 0, of |-> 0, bins |-> 0], blocks)
(* Mutant: it absorbs the top one only, and does not look again.             *)
PushOnce(stack, block) ==
  IF stack # << >> /\ ~ AtMost(Last(stack), block)
  THEN Append(Front(stack), Pooled(<<Last(stack), block>>))
  ELSE Append(stack, block)

Push(stack, block) ==
  LET merged(n) == Pooled(Append(SubSeq(stack, n + 1, Len(stack)), block))
      left == CHOOSE n \in 0 .. Len(stack) :
                /\ n = 0 \/ AtMost(stack[n], merged(n))
                /\ \A m \in n + 1 .. Len(stack) : ~ AtMost(stack[m], merged(m))
  IN  Append(SubSeq(stack, 1, left), merged(left))

PoolAdjacentViolators(shares) ==
  LET single == [i \in DOMAIN shares |-> shares[i] @@ [bins |-> 1]]
      stack == FoldLeft(Push, << >>, single)
      spread(block) == [i \in 1 .. block.bins |-> [right |-> block.right, of |-> block.of]]
  IN  FlattenSeq([i \in DOMAIN stack |-> spread(stack[i])])

(* _drop_duplicate_uppers: the first of two bins with one bound is kept.     *)
DropDuplicateUppers(bins) ==
  LET first == {i \in DOMAIN bins : \A j \in 1 .. i - 1 : bins[j].upper # bins[i].upper}
      kept == SetToSeq({bins[i] : i \in first})
  IN  SortSeq(kept, LAMBDA a, b : a.upper < b.upper)

FitCalibration(outcomes, count) ==
  LET groups == EqualFrequencyGroups(Ordered(outcomes), count)
      values == PoolAdjacentViolators([i \in DOMAIN groups |-> Accuracy(groups[i])])
  IN  DropDuplicateUppers(
        [i \in DOMAIN groups |->
           [upper |-> IF i = Len(groups) THEN Top ELSE Last(groups[i]).raw,
            confidence |-> values[i]]])

(* as_block: rounded, then de-duplicated again. *)
AsBlock(bins) ==
  DropDuplicateUppers(
    [i \in DOMAIN bins |-> [upper |-> Rounded(bins[i].upper),
                            confidence |-> FourDecimals(bins[i].confidence)]])

(* expected_calibration_error, times the number of samples and Sixty: every  *)
(* share of at most six samples is a whole number of sixtieths.              *)
Sixty == 60
Claimed(bins, outcome) ==
  LET confidence == Apply(bins, outcome.raw)
  IN  (Sixty \div confidence.of) * confidence.right
ExpectedCalibrationError(outcomes, bins, count) ==
  LET gap(group) ==
        FoldLeft(LAMBDA total, o : total + Claimed(bins, o), 0, group)
          - Sixty * Accuracy(group).right
      distance(d) == IF d < 0 THEN -d ELSE d
  IN  FoldLeft(LAMBDA total, group : total + distance(gap(group)), 0,
               EqualFrequencyGroups(Ordered(outcomes), count))

-----------------------------------------------------------------------------
(* The fit is the isotonic regression of the groups' accuracies: each value  *)
(* is the largest, over where a stretch behind it may begin, of the smallest *)
(* mean.  On its own sample it errs exactly when the groups did not rise by  *)
(* themselves ("what enforcing monotonicity cost"), and the block written    *)
(* from it is one the loader accepts (calibration.py:88-95).                 *)
AFitIsIsotonic ==
  Asked("fit") =>
    LET outcomes == question.outcomes
        groups == EqualFrequencyGroups(Ordered(outcomes), question.bins)
        bins == FitCalibration(outcomes, question.bins)
        block == AsBlock(bins)
        mean(j, k) == Accuracy(FlattenSeq(SubSeq(groups, j, k)))
        same(a, b) == AtMost(a, b) /\ AtMost(b, a)
        least(v, j, i) == /\ \A k \in i .. Len(groups) : AtMost(v, mean(j, k))
                          /\ \E k \in i .. Len(groups) : same(v, mean(j, k))
        claimed(i) == Apply(bins, Last(groups[i]).raw)
    IN  /\ \A i \in DOMAIN groups :
             /\ \E j \in 1 .. i : least(claimed(i), j, i)
             /\ \A j \in 1 .. i : \E k \in i .. Len(groups) : AtMost(mean(j, k), claimed(i))
        /\ ExpectedCalibrationError(outcomes, bins, question.bins) = 0
             <=> \A i, j \in DOMAIN groups :
                   i < j => AtMost(Accuracy(groups[i]), Accuracy(groups[j]))
        /\ CalibrationIsMonotone(block, Top)
=============================================================================
