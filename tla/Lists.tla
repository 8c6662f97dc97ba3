------------------------------- MODULE Lists --------------------------------
(***************************************************************************)
(* Filtering and sorting lists.  Sorting is by counting: an element stands *)
(* behind as many others as come before it.  Elements that are equal keep  *)
(* their order, as in the sort of the language.                            *)
(***************************************************************************)
EXTENDS Integers, Sequences, FiniteSets, SequencesExt

(* The elements of a list that are among these, in their order.              *)
Those(list, these) ==
  FoldLeft(LAMBDA found, e : IF e \in these THEN Append(found, e) ELSE found, << >>, list)

CountIf(list, Test(_)) == Cardinality({i \in DOMAIN list : Test(list[i])})

(* The elements of a finite set in order; before[e] is what comes before e.  *)
ByPlace(S, before) ==
  [k \in 1 .. Cardinality(S) |-> CHOOSE e \in S : Cardinality(before[e]) = k - 1]

(* sorted(values), for a list of numbers: behind the k-th there are at least  *)
(* k of them at or below it, and fewer than k below it.                      *)
InOrder(values) ==
  LET below(v) == Cardinality({i \in DOMAIN values : values[i] < v})
      upTo(v) == Cardinality({i \in DOMAIN values : values[i] <= v})
  IN  [k \in DOMAIN values |->
         CHOOSE v \in {values[i] : i \in DOMAIN values} : below(v) < k /\ k <= upTo(v)]

(* The numbers of a set, the least first.                                    *)
Ascending(numbers) ==
  ByPlace(numbers, [n \in numbers |-> {m \in numbers : m < n}])
=============================================================================
