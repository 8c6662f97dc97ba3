---------------------------- MODULE RulesProofs -----------------------------
(***************************************************************************)
(* Proofs about the modules without a state: the calendar and what is put  *)
(* back into a letter (Letters), the score (Score), predicates and         *)
(* completeness (Evidence), the table, the configuration and the           *)
(* classifier (Contracts), the extraction of values and what it loses      *)
(* (Extraction), the queues and the reports (Desk).  Each part says of     *)
(* which questions it speaks; the last part puts them together.            *)
(***************************************************************************)
EXTENDS Contracts, Score, Letters, Extraction, Desk, ListFacts, TLAPS

-----------------------------------------------------------------------------
(* The calendar. *)
LEMMA NextWorkingDayIsTheFirst ==
  ASSUME NEW day \in Int, NEW H, NextWorkingDay(day, H) # NoDay
  PROVE  LET n == NextWorkingDay(day, H)
         IN  /\ n \in Int /\ n >= day /\ IsWorkingDay(n, H)
             /\ \A d \in Int : d >= day /\ IsWorkingDay(d, H) => n <= d
<1> DEFINE near == {d \in day .. day + 7 : IsWorkingDay(d, H)}
<1>1. near # {}
  BY DEF NextWorkingDay
<1>2. PICK m \in near : \A x \in near : m <= x
  <2> DEFINE T == {x - day : x \in near}
  <2>1. T \subseteq Nat /\ T # {}
    BY <1>1
  <2> HIDE DEF T
  <2>2. PICK k \in T : \A l \in T : k <= l
    BY <2>1, LeastNumber
  <2> USE DEF T
  <2>3. QED
    BY <2>2
<1>3. NextWorkingDay(day, H) = m
  <2>1. NextWorkingDay(day, H) = CHOOSE x \in near : \A y \in near : x <= y
    BY <1>1 DEF NextWorkingDay, Min
  <2>2. QED
    BY <1>2, <2>1
<1>4. QED
  BY <1>2, <1>3

LEMMA NextWorkingDayIsMonotone ==
  ASSUME NEW a \in Int, NEW b \in Int, a <= b, NEW H,
         NextWorkingDay(a, H) # NoDay, NextWorkingDay(b, H) # NoDay
  PROVE  NextWorkingDay(a, H) <= NextWorkingDay(b, H)
<1> DEFINE m == NextWorkingDay(b, H)
<1>1. m \in Int /\ m >= b /\ IsWorkingDay(m, H)
  BY NextWorkingDayIsTheFirst
<1>2. \A d \in Int : d >= a /\ IsWorkingDay(d, H) => NextWorkingDay(a, H) <= d
  BY NextWorkingDayIsTheFirst
<1> HIDE DEF m
<1>3. m >= a
  BY <1>1
<1>4. NextWorkingDay(a, H) <= m
  BY <1>1, <1>2, <1>3
<1>5. QED
  BY <1>4 DEF m

(* What is asked about a deadline: any day of posting, any window, any set of *)
(* holidays.                                                                 *)
DeadlineQuestions ==
  Asked("deadline") => question.posted \in Int /\ question.window \in Nat

LEMMA DeadlinesAreWhole == DeadlineQuestions => TheWindowIsWhole
<1> SUFFICES ASSUME DeadlineQuestions, Asked("deadline") PROVE TheWindowIsWhole
  BY DEF TheWindowIsWhole
<1> DEFINE p == question.posted
           w == question.window
           H == question.holidays
           told == NextWorkingDay(p + BekanntgabeDays, H)
           toldNext == NextWorkingDay(p + 1 + BekanntgabeDays, H)
           this == ResponseDeadline(p, w, H)
           next == ResponseDeadline(p + 1, w, H)
<1>1. p \in Int /\ w \in Nat /\ BekanntgabeDays \in Int
  BY DEF DeadlineQuestions, BekanntgabeDays
<1>2. /\ this.told = told
      /\ this.due = IF told = NoDay THEN NoDay ELSE NextWorkingDay(told + w, H)
      /\ next.told = toldNext
      /\ next.due = IF toldNext = NoDay THEN NoDay ELSE NextWorkingDay(toldNext + w, H)
  BY DEF ResponseDeadline
<1> HIDE DEF p, w, H, told, toldNext, this, next
<1>3. SUFFICES ASSUME this.due # NoDay
               PROVE  /\ IsWorkingDay(this.told, H) /\ IsWorkingDay(this.due, H)
                      /\ this.told >= p + BekanntgabeDays
                      /\ this.due >= this.told + w
                      /\ \A d \in this.told + w .. this.due - 1 : ~ IsWorkingDay(d, H)
                      /\ next.due # NoDay => this.told <= next.told /\ this.due <= next.due
  BY DEF TheWindowIsWhole, this, next, p, w, H
<1>4. told # NoDay /\ this.due = NextWorkingDay(told + w, H)
  BY <1>2, <1>3
<1>5. told \in Int /\ told >= p + BekanntgabeDays /\ IsWorkingDay(told, H)
  BY <1>1, <1>4, NextWorkingDayIsTheFirst DEF told
<1>6. /\ this.due \in Int /\ this.due >= told + w /\ IsWorkingDay(this.due, H)
      /\ \A d \in Int : d >= told + w /\ IsWorkingDay(d, H) => this.due <= d
  <2>1. told + w \in Int /\ NextWorkingDay(told + w, H) # NoDay
    BY <1>1, <1>3, <1>4, <1>5
  <2>2. QED
    BY <1>4, <2>1, NextWorkingDayIsTheFirst
<1>7. ASSUME next.due # NoDay PROVE told <= toldNext /\ this.due <= next.due
  <2>1. toldNext # NoDay /\ next.due = NextWorkingDay(toldNext + w, H)
    BY <1>2, <1>7
  <2>2. told <= toldNext
    <3>1. p + BekanntgabeDays <= p + 1 + BekanntgabeDays
      BY <1>1
    <3>2. QED
      BY <1>1, <1>4, <2>1, <3>1, NextWorkingDayIsMonotone DEF told, toldNext
  <2>3. toldNext \in Int
    BY <1>1, <2>1, NextWorkingDayIsTheFirst DEF toldNext
  <2>4. told + w \in Int /\ toldNext + w \in Int /\ told + w <= toldNext + w
    BY <1>1, <1>5, <2>2, <2>3
  <2>5. QED
    BY <1>3, <1>4, <1>7, <2>1, <2>2, <2>4, NextWorkingDayIsMonotone
<1>8. \A d \in told + w .. this.due - 1 : ~ IsWorkingDay(d, H)
  BY <1>1, <1>5, <1>6
<1>9. QED
  BY <1>2, <1>5, <1>6, <1>7, <1>8

-----------------------------------------------------------------------------
(* The scorer and the tokens.  The features are read from the payload, from  *)
(* the places that are filled and from the leading date, nowhere else.       *)
ReadAlike(one, two) ==
  /\ \A part \in {"leading", "fields", "received", "prose", "ocr"} : one[part] = two[part]
  /\ DOMAIN one.payload = DOMAIN two.payload
  /\ \A k \in DOMAIN one.payload : one.payload[k] = two.payload[k]
  /\ DOMAIN one.records = DOMAIN two.records
  /\ one.leading \in DOMAIN one.records =>
       one.records[one.leading] = two.records[one.leading]

LEMMA SameReadingSameFeatures ==
  ASSUME NEW one, NEW two, ReadAlike(one, two), NEW indizien
  PROVE  /\ GuardRaises(one) <=> GuardRaises(two)
         /\ BuildFeatures(one, indizien) = BuildFeatures(two, indizien)
<1>1. /\ one.leading = two.leading /\ one.fields = two.fields
      /\ one.received = two.received /\ one.prose = two.prose /\ one.ocr = two.ocr
  BY DEF ReadAlike
<1>2. \A k : Has(one.payload, k) <=> Has(two.payload, k)
  BY DEF ReadAlike, Has
<1>3. \A k : Has(one.payload, k) => one.payload[k] = two.payload[k]
  BY DEF ReadAlike, Has
<1>4. DateOf(one) = DateOf(two)
  BY <1>1 DEF ReadAlike, DateOf, Has
<1>5. DOMAIN one.records = DOMAIN two.records
  BY DEF ReadAlike
<1>6. GuardRaises(one) <=> GuardRaises(two)
  BY <1>1, <1>5 DEF GuardRaises, ReadAlike
<1> DEFINE seen(item) == {i \in indizien : Has(item.payload, i)}
           employed(item) == {i \in seen(item) : item.payload[i].says = 1}
           turnover(item) == IF Has(item.payload, "turnover")
                             THEN {item.payload["turnover"].says} \ {Unparsable} ELSE {}
           the(S) == CHOOSE n \in S : TRUE
           flag(b) == IF b THEN One ELSE 0
           row(fields, places, prose, ocr, read, used, date, received, counted) ==
             [filled |-> ShareOf(Cardinality(fields \cap places), Cardinality(fields)),
              prose |-> flag(prose), scan |-> flag(prose /\ ocr),
              indizienShare |-> ShareOf(Cardinality(used), Cardinality(read)),
              indizienSeen |-> ShareOf(Cardinality(read), Cardinality(indizien)),
              dateDistance |-> IF date = {} THEN 0 ELSE the(date) - received,
              datePresent |-> flag(date # {}),
              turnover |-> IF counted = {} THEN 0
                           ELSE Min({One, Max({0, the(counted)})})]
<1>7. seen(one) = seen(two)
  BY <1>2
<1>8. employed(one) = employed(two)
  BY <1>2, <1>3
<1>9. turnover(one) = turnover(two)
  BY <1>2, <1>3
<1>10. \A item :
         BuildFeatures(item, indizien)
           = row(item.fields, DOMAIN item.records, item.prose, item.ocr, seen(item),
                 employed(item), DateOf(item), item.received, turnover(item))
  BY DEF BuildFeatures
<1> HIDE DEF row, seen, employed, turnover
<1>11. BuildFeatures(one, indizien) = BuildFeatures(two, indizien)
  BY <1>1, <1>4, <1>5, <1>7, <1>8, <1>9, <1>10
<1>12. QED
  BY <1>6, <1>11

(* What is asked of the scorer: an item with the parts it reads and numbers   *)
(* where it reads them, a reference of rows of numbers (parse_reference looks *)
(* whose), and a flag may have a reason (ReasonPolicy, max_reasons >= 1).     *)
Rows == UNION {[F -> Int] : F \in SUBSET STRING}

ScoreQuestions ==
  Asked("score") =>
    LET item == question.item
    IN  /\ {"payload", "records", "leading", "fields", "received", "prose", "ocr"}
             \subseteq DOMAIN item
        /\ item.received \in Int
        /\ \A k : Has(item.payload, k) => item.payload[k].says \in Int
        /\ \A k : Has(item.records, k) => item.records[k].says \in Int
        /\ IsFiniteSet(question.indizien)
        /\ question.reference \in Seq(Rows)
        /\ question.forest \in {"flat", "prose", "late"}
        /\ question.most \in Nat /\ question.most > 0

LEMMA TokensCostTheNumber == ScoreQuestions => NoNumberOverAToken
<1> SUFFICES ASSUME ScoreQuestions, Asked("score") PROVE NoNumberOverAToken
  BY DEF NoNumberOverAToken
<1> DEFINE sent == question.item
           seal(values, S) == [k \in DOMAIN values |-> IF k \in S THEN Token ELSE values[k]]
           sealed(P, R) == [sent EXCEPT !.payload = seal(@, P), !.records = seal(@, R)]
<1>1. ASSUME NEW P \in SUBSET DOMAIN sent.payload, NEW R \in SUBSET DOMAIN sent.records
      PROVE  ScoreItem(question, sealed(P, R)) \in {NoEvidence, ScoreItem(question, sent)}
  <2> DEFINE t == sealed(P, R)
  <2>1. /\ t.payload = seal(sent.payload, P) /\ t.records = seal(sent.records, R)
        /\ \A part \in {"leading", "fields", "received", "prose", "ocr"} : t[part] = sent[part]
    BY DEF ScoreQuestions
  <2> HIDE DEF t
  <2>2. CASE P # {}
    <3>1. PICK k \in P : TRUE
      BY <2>2
    <3>2. k \in DOMAIN t.payload /\ t.payload[k] = Token
      BY <2>1, <3>1
    <3>3. GuardRaises(t)
      BY <3>2 DEF GuardRaises
    <3>4. QED
      BY <3>3 DEF ScoreItem, t
  <2>3. CASE sent.leading \in R
    <3>1. /\ t.leading = sent.leading /\ sent.leading \in DOMAIN t.records
          /\ t.records[sent.leading] = Token
      BY <2>1, <2>3
    <3>2. GuardRaises(t)
      BY <3>1 DEF GuardRaises
    <3>3. QED
      BY <3>2 DEF ScoreItem, t
  <2>4. CASE P = {} /\ sent.leading \notin R
    <3>1. ReadAlike(t, sent)
      BY <2>1, <2>4 DEF ReadAlike
    <3>2. ScoreItem(question, t) = ScoreItem(question, sent)
      BY <3>1, SameReadingSameFeatures DEF ScoreItem
    <3>3. QED
      BY <3>2 DEF t
  <2>5. QED
    BY <2>2, <2>3, <2>4
<1>2. QED
  BY <1>1 DEF NoNumberOverAToken

-----------------------------------------------------------------------------
(* Sorted lists, and the score by the places in them.                        *)

(* A list of numbers has its sorted list.                                    *)
LEMMA ListsAreSorted ==
  ASSUME NEW values \in Seq(Int)
  PROVE  LET s == InOrder(values)
             n == Len(values)
             below(v) == Cardinality({i \in 1..n : values[i] < v})
             upTo(v) == Cardinality({i \in 1..n : values[i] <= v})
         IN  /\ s \in Seq(Int) /\ Len(s) = n
             /\ \A k \in 1..n : below(s[k]) < k /\ k <= upTo(s[k])
<1> DEFINE n == Len(values)
           P == 1..n
           s == InOrder(values)
           below(v) == Cardinality({i \in P : values[i] < v})
           upTo(v) == Cardinality({i \in P : values[i] <= v})
           before == [i \in P |-> {j \in P : \/ values[j] < values[i]
                                             \/ values[j] = values[i] /\ j < i}]
           at == ByPlace(P, before)
<1>1. n \in Nat /\ DOMAIN values = P /\ \A i \in P : values[i] \in Int
  OBVIOUS
<1>2. IsFiniteSet(P) /\ Cardinality(P) = n
  <2> HIDE DEF n
  <2>1. IsFiniteSet(1..n) /\ Cardinality(1..n) = IF 1 > n THEN 0 ELSE n - 1 + 1
    BY <1>1, FS_Interval
  <2>2. QED
    BY <1>1, <2>1
<1>3. Ordering(P, before)
  <2>1. \A i \in P : i \in Int
    OBVIOUS
  <2> HIDE DEF P
  <2>2. before \in [P -> SUBSET P]
    OBVIOUS
  <2>3. \A e \in P : e \notin before[e]
    BY <1>1, <2>1
  <2>4. \A e, f \in P : e = f \/ e \in before[f] \/ f \in before[e]
    BY <1>1, <2>1
  <2>5. \A e, f, g \in P : e \in before[f] /\ f \in before[g] => e \in before[g]
    BY <1>1, <2>1
  <2>6. QED
    BY <2>2, <2>3, <2>4, <2>5 DEF Ordering
<1>4. \A k \in 1..n : at[k] \in P /\ Cardinality(before[at[k]]) = k - 1
  <2> HIDE DEF before, P
  <2> QED
    BY <1>2, <1>3, EachHasItsPlace
<1>5. ASSUME NEW k \in 1..n
      PROVE  \E v \in {values[i] : i \in P} : below(v) < k /\ k <= upTo(v)
  <2> DEFINE p == at[k]
             B == before[p]
             W == {i \in P : values[i] < values[p]}
             L == {i \in P : values[i] <= values[p]}
  <2>1. p \in P /\ Cardinality(B) = k - 1
    BY <1>4
  <2>2. B = {j \in P : \/ values[j] < values[p]
                       \/ values[j] = values[p] /\ j < p}
    BY <2>1
  <2> HIDE DEF p, before, at, B
  <2>3. W \in SUBSET B /\ B \cup {p} \in SUBSET L /\ p \notin B /\ L \in SUBSET P /\ B \in SUBSET P
    BY <1>1, <2>1, <2>2
  <2> HIDE DEF P, W, L
  <2>4. IsFiniteSet(B) /\ IsFiniteSet(L)
    BY <1>2, <2>3, FS_Subset
  <2>5. Cardinality(W) <= k - 1 /\ Cardinality(W) \in Nat
    BY <2>1, <2>3, <2>4, FS_Subset, FS_CardinalityType
  <2>6. Cardinality(B \cup {p}) = k
    <3>1. Cardinality(B \cup {p}) = Cardinality(B) + 1
      BY <2>3, <2>4, FS_AddElement
    <3>2. QED
      BY <1>1, <2>1, <3>1
  <2>7. k <= Cardinality(L)
    BY <2>3, <2>4, <2>6, FS_Subset
  <2>8. below(values[p]) < k /\ k <= upTo(values[p])
    BY <2>5, <2>7 DEF W, L
  <2>9. QED
    BY <2>1, <2>8
<1>6. /\ DOMAIN s = P
      /\ \A k \in P : s[k] = CHOOSE v \in {values[i] : i \in P} : below(v) < k /\ k <= upTo(v)
  BY <1>1 DEF InOrder
<1> HIDE DEF s, at, before
<1>7. \A k \in P : s[k] \in {values[i] : i \in P} /\ below(s[k]) < k /\ k <= upTo(s[k])
  <2> SUFFICES ASSUME NEW k \in P
               PROVE  s[k] \in {values[i] : i \in P} /\ below(s[k]) < k /\ k <= upTo(s[k])
    BY Zenon
  <2>1. s[k] = CHOOSE v \in {values[i] : i \in P} : below(v) < k /\ k <= upTo(v)
    BY <1>6
  <2>2. \E v \in {values[i] : i \in P} : below(v) < k /\ k <= upTo(v)
    BY <1>5
  <2> HIDE DEF P, below, upTo
  <2>3. QED
    BY <2>1, <2>2, Zenon
<1>8. s \in Seq(Int) /\ Len(s) = n
  <2> DEFINE pick(k) == CHOOSE v \in {values[i] : i \in P} : below(v) < k /\ k <= upTo(v)
  <2>1. s = [k \in P |-> pick(k)]
    BY <1>1 DEF s, InOrder
  <2>2. \A k \in P : s[k] \in Int
    BY <1>1, <1>7
  <2> HIDE DEF pick, n
  <2>3. s \in [1..n -> Int]
    BY <2>1, <2>2
  <2>4. QED
    BY <1>1, <2>3
<1>9. QED
  BY <1>7, <1>8 DEF s

(* Half of a list of numbers is not above its median, and half not below.    *)
LEMMA MedianHalves ==
  ASSUME NEW values \in Seq(Int), values # << >>
  PROVE  LET n == Len(values)
             m == Median(values)
         IN  /\ m \in Int
             /\ 2 * Cardinality({i \in 1..n : values[i] <= m}) >= n
             /\ 2 * Cardinality({i \in 1..n : values[i] >= m}) >= n
<1> DEFINE n == Len(values)
           P == 1..n
           s == InOrder(values)
           m == Median(values)
           middle == n \div 2
           low(v) == {i \in P : values[i] < v}
           upTo(v) == {i \in P : values[i] <= v}
           from(v) == {i \in P : values[i] >= v}
<1>1. n \in Nat /\ n > 0 /\ DOMAIN values = P /\ \A i \in P : values[i] \in Int
  OBVIOUS
<1>2. /\ s \in Seq(Int) /\ Len(s) = n
      /\ \A k \in P : Cardinality(low(s[k])) < k /\ k <= Cardinality(upTo(s[k]))
  BY ListsAreSorted
<1>3. \A k \in P : s[k] \in Int
  <2> HIDE DEF s
  <2> QED
    BY <1>2
<1>4. m = IF n % 2 = 1 THEN s[middle + 1] ELSE (s[middle] + s[middle + 1]) \div 2
  BY DEF Median
<1> HIDE DEF s, m
<1>5. IsFiniteSet(P) /\ Cardinality(P) = n
  <2> HIDE DEF n
  <2>1. IsFiniteSet(1..n) /\ Cardinality(1..n) = IF 1 > n THEN 0 ELSE n - 1 + 1
    BY <1>1, FS_Interval
  <2>2. QED
    BY <1>1, <2>1
<1>6. ASSUME NEW v \in Int
      PROVE  /\ Cardinality(from(v)) = n - Cardinality(low(v))
             /\ Cardinality(from(v)) \in Nat /\ Cardinality(low(v)) \in Nat
             /\ Cardinality(upTo(v)) \in Nat
  <2>1. from(v) = P \ low(v) /\ low(v) \in SUBSET P /\ from(v) \in SUBSET P /\ upTo(v) \in SUBSET P
    BY <1>1
  <2> HIDE DEF low, from, P, upTo
  <2>2. P \cap low(v) = low(v)
    BY <2>1
  <2>3. Cardinality(P \ low(v)) = Cardinality(P) - Cardinality(P \cap low(v))
    BY <1>5, FS_Difference
  <2>4. QED
    BY <1>5, <2>1, <2>2, <2>3, FS_Subset, FS_CardinalityType
<1>7. ASSUME NEW v \in Int, NEW w \in Int, v <= w
      PROVE  /\ Cardinality(upTo(v)) <= Cardinality(upTo(w))
             /\ Cardinality(from(w)) <= Cardinality(from(v))
             /\ Cardinality(low(v)) <= Cardinality(upTo(v))
  <2>1. /\ upTo(v) \in SUBSET upTo(w) /\ from(w) \in SUBSET from(v) /\ low(v) \in SUBSET upTo(v)
        /\ upTo(w) \in SUBSET P /\ from(v) \in SUBSET P /\ upTo(v) \in SUBSET P
    BY <1>1, <1>7
  <2> HIDE DEF low, from, P, upTo
  <2>2. QED
    BY <1>5, <2>1, FS_Subset
<1>8. ASSUME NEW j \in P, NEW k \in P, j < k PROVE s[j] <= s[k]
  <2> SUFFICES ASSUME s[k] < s[j] PROVE FALSE
    BY <1>3
  <2>1. Cardinality(low(s[j])) < j /\ k <= Cardinality(upTo(s[k]))
    BY <1>2
  <2>2. upTo(s[k]) \in SUBSET low(s[j]) /\ low(s[j]) \in SUBSET P
    BY SMTT(40), <1>1, <1>3
  <2>3. Cardinality(upTo(s[k])) <= Cardinality(low(s[j]))
    <3> HIDE DEF low, upTo, P
    <3> QED
      BY <1>5, <2>2, FS_Subset
  <2>4. Cardinality(low(s[j])) \in Nat /\ Cardinality(upTo(s[k])) \in Nat
    BY <1>3, <1>6
  <2> HIDE DEF low, upTo
  <2>5. QED
    BY <1>1, <1>8, <2>1, <2>3, <2>4
<1> HIDE DEF low, upTo, from
<1>9. CASE n % 2 = 1
  <2>1. middle \in Nat /\ n = 2 * middle + 1 /\ middle + 1 \in P
    <3> HIDE DEF n
    <3>1. n \in Nat /\ n % 2 = 1
      BY <1>1, <1>9
    <3>2. middle \in Nat /\ n = 2 * middle + 1
      BY <3>1
    <3> HIDE DEF middle
    <3>3. QED
      BY <3>1, <3>2
  <2> HIDE DEF middle
  <2>2. m = s[middle + 1] /\ m \in Int
    BY <1>3, <1>4, <1>9, <2>1
  <2>3. Cardinality(low(m)) < middle + 1 /\ middle + 1 <= Cardinality(upTo(m))
    BY <1>2, <2>1, <2>2
  <2>4. /\ Cardinality(from(m)) = n - Cardinality(low(m)) /\ Cardinality(low(m)) \in Nat
        /\ Cardinality(upTo(m)) \in Nat
    BY <1>6, <2>2
  <2>5. 2 * Cardinality(upTo(m)) >= n /\ 2 * Cardinality(from(m)) >= n
    BY <2>1, <2>3, <2>4
  <2>6. QED
    BY <2>2, <2>5 DEF m, upTo, from
<1>10. CASE n % 2 = 0
  <2>1. middle \in Nat /\ n = 2 * middle /\ middle \in P /\ middle + 1 \in P /\ middle < middle + 1
    <3> HIDE DEF n
    <3>1. n \in Nat /\ n > 0 /\ n % 2 = 0
      BY <1>1, <1>10
    <3>2. middle \in Nat /\ n = 2 * middle
      BY <3>1
    <3> HIDE DEF middle
    <3>3. middle > 0 /\ middle + 1 <= n
      BY <3>1, <3>2
    <3>4. QED
      BY <3>1, <3>2, <3>3
  <2> HIDE DEF middle
  <2> DEFINE a == s[middle]
             b == s[middle + 1]
  <2>2. a \in Int /\ b \in Int /\ a <= b
    BY <1>3, <1>8, <2>1
  <2>3. m = (a + b) \div 2
    BY <1>4, <1>10
  <2>4. middle <= Cardinality(upTo(a)) /\ Cardinality(low(b)) < middle + 1
    BY <1>2, <2>1
  <2> HIDE DEF a, b
  <2>5. m \in Int /\ a <= m /\ m <= b
    BY <2>2, <2>3
  <2>6. /\ Cardinality(from(b)) = n - Cardinality(low(b)) /\ Cardinality(low(b)) \in Nat
        /\ Cardinality(upTo(a)) \in Nat /\ Cardinality(upTo(m)) \in Nat
        /\ Cardinality(from(b)) \in Nat /\ Cardinality(from(m)) \in Nat
    BY <1>6, <2>2, <2>5
  <2>7. Cardinality(upTo(a)) <= Cardinality(upTo(m)) /\ Cardinality(from(b)) <= Cardinality(from(m))
    BY <1>7, <2>2, <2>5
  <2>8. 2 * Cardinality(upTo(m)) >= n /\ 2 * Cardinality(from(m)) >= n
    BY SMTT(40), <2>1, <2>4, <2>6, <2>7
  <2>9. QED
    BY <2>5, <2>8 DEF m, upTo, from
<1>11. QED
  BY <1>1, <1>9, <1>10

(* A larger part of the same whole is no smaller share.                      *)
LEMMA SharesGrow ==
  ASSUME NEW whole \in Nat, NEW a \in Nat, NEW b \in Nat, a <= b
  PROVE  /\ ShareOf(a, whole) \in Nat /\ ShareOf(b, whole) \in Nat
         /\ ShareOf(a, whole) <= ShareOf(b, whole)
<1>1. CASE whole = 0
  BY <1>1 DEF ShareOf
<1>2. CASE whole # 0
  <2> DEFINE x == One * a
             y == One * b
             p == x \div whole
             q == y \div whole
  <2>1. x \in Nat /\ y \in Nat /\ x <= y /\ whole > 0
    BY <1>2 DEF One
  <2> HIDE DEF x, y
  <2>2. /\ p \in Int /\ q \in Int
        /\ whole * p <= x /\ x < whole * (p + 1)
        /\ whole * q <= y /\ y < whole * (q + 1)
    BY <2>1
  <2> HIDE DEF p, q
  <2>3. p >= 0 /\ q >= 0
    <3>1. \A r \in Int : r < 0 => whole * (r + 1) <= 0
      BY <2>1
    <3>2. QED
      BY <2>1, <2>2, <3>1
  <2>4. p <= q
    <3> SUFFICES ASSUME q + 1 <= p PROVE FALSE
      BY <2>2
    <3>1. whole * (q + 1) <= whole * p
      BY <2>1, <2>2
    <3>2. whole * (q + 1) \in Int /\ whole * p \in Int
      BY <2>1, <2>2
    <3>3. QED
      BY <2>1, <2>2, <3>1, <3>2
  <2>5. ShareOf(a, whole) = p /\ ShareOf(b, whole) = q
    BY <1>2 DEF ShareOf, p, q, x, y
  <2>6. QED
    BY <2>2, <2>3, <2>4, <2>5
<1>3. QED
  BY <1>1, <1>2

(* What is at or below a number, or at or above it, in a list.               *)
LEMMA CountsAreNumbers ==
  ASSUME NEW n \in Nat, NEW values, DOMAIN values = 1..n, NEW v
  PROVE  /\ CountLe(values, v) \in Nat /\ CountLe(values, v) <= n
         /\ CountGe(values, v) \in Nat /\ CountGe(values, v) <= n
<1> DEFINE P == 1..n
           L == {i \in P : values[i] <= v}
           G == {i \in P : values[i] >= v}
<1>1. IsFiniteSet(P) /\ Cardinality(P) = n
  <2>1. IsFiniteSet(1..n) /\ Cardinality(1..n) = IF 1 > n THEN 0 ELSE n - 1 + 1
    BY FS_Interval
  <2>2. QED
    BY <2>1
<1>2. CountLe(values, v) = Cardinality(L) /\ CountGe(values, v) = Cardinality(G)
  BY DEF CountLe, CountGe
<1>3. L \in SUBSET P /\ G \in SUBSET P
  OBVIOUS
<1> HIDE DEF P, L, G
<1>4. QED
  BY <1>1, <1>2, <1>3, FS_Subset, FS_CardinalityType

LEMMA CountsAreMonotone ==
  ASSUME NEW n \in Nat, NEW values, DOMAIN values = 1..n, \A i \in 1..n : values[i] \in Int,
         NEW v \in Int, NEW w \in Int, v <= w
  PROVE  /\ CountLe(values, v) <= CountLe(values, w)
         /\ CountGe(values, w) <= CountGe(values, v)
         /\ v < w => CountLe(values, v) + CountGe(values, w) <= n
<1> DEFINE P == 1..n
           L(x) == {i \in P : values[i] <= x}
           G(x) == {i \in P : values[i] >= x}
<1>1. IsFiniteSet(P) /\ Cardinality(P) = n
  <2>1. IsFiniteSet(1..n) /\ Cardinality(1..n) = IF 1 > n THEN 0 ELSE n - 1 + 1
    BY FS_Interval
  <2>2. QED
    BY <2>1
<1>2. \A x : CountLe(values, x) = Cardinality(L(x)) /\ CountGe(values, x) = Cardinality(G(x))
  BY DEF CountLe, CountGe
<1>3. /\ L(v) \in SUBSET L(w) /\ G(w) \in SUBSET G(v) /\ L(w) \in SUBSET P /\ G(v) \in SUBSET P
      /\ v < w => G(w) \in SUBSET (P \ L(v))
  <2>1. \A i \in P : values[i] \in Int
    OBVIOUS
  <2> HIDE DEF P
  <2>2. QED
    BY <2>1
<1> HIDE DEF P, L, G
<1>4. IsFiniteSet(L(w)) /\ IsFiniteSet(G(v)) /\ L(v) \in SUBSET P
  BY <1>1, <1>3, FS_Subset
<1>5. ASSUME v < w PROVE Cardinality(L(v)) + Cardinality(G(w)) <= n
  <2>1. P \cap L(v) = L(v)
    BY <1>4
  <2>2. Cardinality(P \ L(v)) = n - Cardinality(L(v)) /\ IsFiniteSet(P \ L(v))
    BY <1>1, <2>1, FS_Difference
  <2>3. Cardinality(G(w)) <= Cardinality(P \ L(v)) /\ Cardinality(G(w)) \in Nat
    BY <1>3, <1>5, <2>2, FS_Subset, FS_CardinalityType
  <2>4. Cardinality(L(v)) \in Nat
    BY <1>1, <1>4, FS_Subset, FS_CardinalityType
  <2>5. QED
    BY <2>2, <2>3, <2>4
<1>6. QED
  BY <1>2, <1>3, <1>4, <1>5, FS_Subset

(* The reasons are features, each once.                                      *)
LEMMA RankedIsRanked ==
  ASSUME NEW weight, \A f \in FeatureId : weight[f] \in Int, NEW least
  PROVE  LET r == Ranked(weight, least)
         IN  /\ r \in Seq(FeatureId)
             /\ \A j, k \in 1..Len(r) : r[j] = r[k] => j = k
<1> DEFINE r == Ranked(weight, least)
           at(f) == CHOOSE i \in DOMAIN FeatureOrder : FeatureOrder[i] = f
           enough == {f \in FeatureId : weight[f] >= least}
           surer(f) == {g \in enough : \/ weight[g] > weight[f]
                                       \/ weight[g] = weight[f] /\ at(g) < at(f)}
           before == [f \in enough |-> surer(f)]
           n == Cardinality(enough)
<1>1. \A f \in FeatureId : at(f) \in Int /\ FeatureOrder[at(f)] = f
  <2>1. DOMAIN FeatureOrder = 1..8
    BY DEF FeatureOrder
  <2>2. \A f \in FeatureId : \E i \in 1..8 : FeatureOrder[i] = f
    BY DEF FeatureOrder, FeatureId
  <2>3. \A f \in FeatureId : at(f) \in DOMAIN FeatureOrder /\ FeatureOrder[at(f)] = f
    BY <2>1, <2>2
  <2> HIDE DEF at
  <2>4. QED
    BY <2>1, <2>3
<1>2. IsFiniteSet(FeatureId)
  <2> DEFINE F == {FeatureOrder[i] : i \in 1..8}
  <2>1. FeatureId \subseteq F
    <3>1. \A f \in FeatureId : \E i \in 1..8 : FeatureOrder[i] = f
      BY DEF FeatureOrder, FeatureId
    <3>2. ASSUME NEW f \in FeatureId PROVE f \in F
      <4>1. PICK i \in 1..8 : FeatureOrder[i] = f
        BY <3>1
      <4>2. QED
        BY <4>1
    <3> HIDE DEF F
    <3>3. QED
      BY <3>2
  <2>2. IsFiniteSet(1..8)
    <3> DEFINE last == 8
    <3>1. last \in Int
      OBVIOUS
    <3> HIDE DEF last
    <3>2. IsFiniteSet(1..last)
      BY <3>1, FS_Interval
    <3>3. QED
      BY <3>2 DEF last
  <2>3. IsFiniteSet(F)
    <3> DEFINE name == [i \in 1..8 |-> FeatureOrder[i]]
    <3>1. name \in Surjection(1..8, F)
      BY DEF Surjection
    <3> HIDE DEF name, F
    <3>2. QED
      BY <2>2, <3>1, FS_Surjection
  <2> HIDE DEF F
  <2>4. QED
    BY <2>1, <2>3, FS_Subset
<1>3. r = ByPlace(enough, before)
  BY Zenon DEF Ranked
<1>4. enough \in SUBSET FeatureId /\ \A f \in enough : weight[f] \in Int /\ at(f) \in Int
  BY <1>1
<1>5. \A f, g \in enough : at(f) = at(g) => f = g
  BY <1>1, <1>4
<1> HIDE DEF r, at, enough
<1>6. Ordering(enough, before)
  <2>1. before \in [enough -> SUBSET enough]
    OBVIOUS
  <2>2. \A f \in enough : before[f] = surer(f)
    OBVIOUS
  <2> HIDE DEF before
  <2>3. \A e \in enough : e \notin before[e]
    BY <1>4, <2>2
  <2>4. \A e, f \in enough : e = f \/ e \in before[f] \/ f \in before[e]
    BY <1>4, <1>5, <2>2
  <2>5. \A e, f, g \in enough : e \in before[f] /\ f \in before[g] => e \in before[g]
    BY <1>4, <2>2
  <2>6. QED
    BY <2>1, <2>3, <2>4, <2>5 DEF Ordering
<1>7. IsFiniteSet(enough)
  BY <1>2, <1>4, FS_Subset
<1> HIDE DEF before
<1>8. /\ n \in Nat /\ DOMAIN r = 1..n
      /\ \A k \in 1..n : r[k] \in enough
      /\ \A j, k \in 1..n : r[j] = r[k] => j = k
  BY <1>3, <1>6, <1>7, EachHasItsPlace
<1>9. r \in [1..n -> FeatureId]
  <2> DEFINE pick(k) == CHOOSE e \in enough : Cardinality(before[e]) = k - 1
  <2>1. r = [k \in 1..n |-> pick(k)]
    BY <1>3 DEF ByPlace
  <2>2. \A k \in 1..n : r[k] \in FeatureId
    BY <1>4, <1>8
  <2> HIDE DEF pick, n
  <2>3. QED
    BY <2>1, <2>2
<1> DEFINE F == FeatureId
<1> HIDE DEF n, F
<1>10. r \in Seq(F) /\ Len(r) = n
  BY <1>8, <1>9 DEF F
<1>11. QED
  BY <1>8, <1>10 DEF F, r

LEMMA ScoresAreNumbers ==
  ASSUME NEW S, NEW reference \in Seq(S), NEW shape, NEW row
  PROVE  ScoreOf(Model(shape, reference), row) \in Nat
<1> DEFINE m == Model(shape, reference)
           v == Combine(m.shape, m.reference, m.forest, row)
           n == Len(reference)
<1>1. n \in Nat /\ DOMAIN m.combined = 1..n /\ Len(m.combined) = n
  <2>1. DOMAIN reference = 1..n /\ n \in Nat
    OBVIOUS
  <2>2. DOMAIN m.combined = 1..n
    BY <2>1 DEF Model
  <2> HIDE DEF m, n
  <2>3. QED
    BY <2>1, <2>2
<1> HIDE DEF v
<1>2. ScoreOf(m, row) = ShareOf(CountLe(m.combined, v), n)
  BY <1>1 DEF ScoreOf, RankIn, v
<1> HIDE DEF m, n
<1>3. CountLe(m.combined, v) \in Nat
  BY <1>1, CountsAreNumbers
<1>4. ShareOf(CountLe(m.combined, v), n) \in Nat
  <2> DEFINE c == CountLe(m.combined, v)
  <2>1. c \in Nat /\ c <= c
    BY <1>3
  <2> HIDE DEF c
  <2>2. ShareOf(c, n) \in Nat
    BY <1>1, <2>1, SharesGrow
  <2>3. QED
    BY <2>2 DEF c
<1>5. QED
  BY <1>2, <1>4 DEF m

(* The first few of a list of different elements, of which there is one.     *)
LEMMA TheFirstFew ==
  ASSUME NEW S, NEW chosen \in Seq(S), chosen # << >>, NEW most \in Nat, most > 0,
         \A j, k \in 1..Len(chosen) : chosen[j] = chosen[k] => j = k
  PROVE  LET few == SubSeq(chosen, 1, Min({most, Len(chosen)}))
         IN  /\ few \in Seq(S) /\ few # << >> /\ Len(few) <= most
             /\ \A i, j \in DOMAIN few : few[i] = few[j] => i = j
<1> DEFINE n == Len(chosen)
           b == Min({most, n})
           few == SubSeq(chosen, 1, b)
<1>1. n \in Nat /\ n > 0
  OBVIOUS
<1>2. b \in Nat /\ b > 0 /\ b <= most /\ b <= n
  <2> HIDE DEF n
  <2>1. \E x \in {most, n} : \A y \in {most, n} : x <= y
    BY <1>1
  <2>2. b \in {most, n} /\ \A y \in {most, n} : b <= y
    BY <2>1 DEF Min
  <2> HIDE DEF b
  <2>3. QED
    BY <1>1, <2>2
<1> HIDE DEF b
<1>3. few \in Seq(S) /\ Len(few) = b /\ DOMAIN few = 1..b
  BY <1>1, <1>2
<1>4. \A k \in 1..b : few[k] = chosen[k] /\ k \in 1..n
  BY <1>1, <1>2
<1> HIDE DEF few
<1>5. few # << >>
  BY <1>2, <1>3
<1>6. QED
  BY <1>2, <1>3, <1>4, <1>5 DEF few, b, n

LEMMA FlagsAreExplained == ScoreQuestions => AFlagIsExplained
<1> SUFFICES ASSUME ScoreQuestions, Asked("score") PROVE AFlagIsExplained
  BY DEF AFlagIsExplained
<1> DEFINE q == question
           item == q.item
           readable == ~ GuardRaises(item) /\ ReferenceFits(q.reference)
           evidence == ScoreItem(q, item)
           e == JournalOf(evidence)
           events == Journaled(q)
           Explained(x) == /\ x.degraded <=> ~ readable
                           /\ x.flagged <=> x.reasons # << >>
                           /\ Len(x.reasons) <= q.most
                           /\ \A i, j \in DOMAIN x.reasons : x.reasons[i] = x.reasons[j] => i = j
<1>1. q.most \in Nat /\ q.most > 0 /\ q.reference \in Seq(Rows)
  BY DEF ScoreQuestions
<1>2. ASSUME ~ readable PROVE Explained(e)
  <2>1. evidence = NoEvidence
    BY <1>2 DEF ScoreItem
  <2>2. e.degraded = TRUE /\ e.flagged = FALSE /\ e.reasons = << >>
    BY <2>1 DEF JournalOf, JournalDegradation
  <2>3. Len(e.reasons) = 0 /\ DOMAIN e.reasons = {}
    BY <2>2
  <2> HIDE DEF e, readable, q
  <2>4. QED
    BY <1>1, <1>2, <2>2, <2>3
<1>3. ASSUME readable PROVE Explained(e)
  <2> DEFINE m == Model(q.forest, q.reference)
             row == BuildFeatures(item, q.indizien)
             score == ScoreOf(m, row)
             weight == Contributions(m, row)
             enough == Ranked(weight, q.least)
             chosen == IF enough = << >> THEN MostDeviant(q.reference, row) ELSE enough
             few == SubSeq(chosen, 1, Min({q.most, Len(chosen)}))
             F == FeatureId
  <2>1. evidence = Weighed(q, m, row)
    BY <1>3 DEF ScoreItem
  <2> HIDE DEF row, item
  <2>2. score \in Nat
    BY <1>1, ScoresAreNumbers
  <2>3. \A f \in F : weight[f] \in Int
    <3>1. \A r : ScoreOf(m, r) \in Nat
      BY <1>1, ScoresAreNumbers
    <3>2. \A f \in F : weight[f] = score - ScoreOf(m, [row EXCEPT ![f] = Median(Column(m.reference, f))])
      BY DEF Contributions
    <3>3. ASSUME NEW f \in F PROVE weight[f] \in Int
      <4> DEFINE less == ScoreOf(m, [row EXCEPT ![f] = Median(Column(m.reference, f))])
      <4>1. weight[f] = score - less
        BY <3>2
      <4>2. less \in Nat
        BY <3>1
      <4> HIDE DEF weight, score, less
      <4>3. QED
        BY <2>2, <4>1, <4>2
    <3>4. QED
      BY <3>3
  <2> HIDE DEF m, weight
  <2>4. /\ enough \in Seq(F)
        /\ \A j, k \in 1..Len(enough) : enough[j] = enough[k] => j = k
    BY <2>3, RankedIsRanked
  <2> DEFINE A == F \cup {MostDeviant(q.reference, row)[1]}
  <2>5. /\ chosen \in Seq(A) /\ chosen # << >>
        /\ \A j, k \in 1..Len(chosen) : chosen[j] = chosen[k] => j = k
    <3> DEFINE one == MostDeviant(q.reference, row)
    <3>1. one = <<one[1]>>
      <4>1. PICK x : one = <<x>>
        BY DEF MostDeviant
      <4> HIDE DEF one
      <4>2. one[1] = x
        BY <4>1
      <4>3. QED
        BY <4>1, <4>2
    <3>2. one \in Seq({one[1]}) /\ Len(one) = 1 /\ one # << >>
      <4> DEFINE x == one[1]
      <4>1. one = <<x>>
        BY <3>1
      <4> HIDE DEF one, x
      <4>2. one \in Seq({x}) /\ Len(one) = 1 /\ one # << >>
        BY <4>1
      <4>3. QED
        BY <4>2 DEF x
    <3> HIDE DEF one, enough, F
    <3>3. CASE enough = << >>
      <4>1. chosen = one
        BY <3>3 DEF one
      <4>2. one \in Seq(A)
        BY <3>2 DEF one
      <4>3. QED
        BY <3>2, <4>1, <4>2
    <3>4. CASE enough # << >>
      BY <2>4, <3>4
    <3>5. QED
      BY <3>3, <3>4
  <2> HIDE DEF chosen, A, enough, F
  <2>6. /\ few \in Seq(A) /\ few # << >> /\ Len(few) <= q.most
        /\ \A i, j \in DOMAIN few : few[i] = few[j] => i = j
    BY <1>1, <2>5, TheFirstFew
  <2>7. few = Reasons(q, m, row)
    BY DEF Reasons, few, chosen, enough, weight
  <2> HIDE DEF few
  <2>8. CASE score >= q.threshold
    <3>1. evidence = [score |-> score, flagged |-> TRUE, reasons |-> few]
      BY <2>1, <2>6, <2>7, <2>8 DEF Weighed, Flagging
    <3>2. evidence # NoEvidence
      <4>1. evidence.flagged = TRUE /\ NoEvidence.flagged = FALSE
        BY <3>1 DEF NoEvidence
      <4>2. QED
        BY <4>1
    <3>3. e = [flagged |-> TRUE, reasons |-> few, degraded |-> FALSE]
      BY <3>1, <3>2 DEF JournalOf, JournalAnomaly
    <3> HIDE DEF e, readable, q
    <3>4. e.flagged = TRUE /\ e.degraded = FALSE /\ e.reasons = few
      BY <3>3
    <3>5. QED
      BY <1>3, <2>6, <3>4
  <2>9. CASE ~ (score >= q.threshold)
    <3>1. evidence = [score |-> score, flagged |-> FALSE, reasons |-> << >>]
      BY <2>1, <2>9 DEF Weighed, Flagging
    <3>2. evidence # NoEvidence
      <4>1. evidence.score = score /\ NoEvidence.score = -1
        BY <3>1 DEF NoEvidence
      <4> HIDE DEF evidence, score
      <4>2. QED
        BY <2>2, <4>1
    <3>3. e = [flagged |-> FALSE, reasons |-> << >>, degraded |-> FALSE]
      BY <3>1, <3>2 DEF JournalOf, JournalAnomaly
    <3> HIDE DEF e, readable, q
    <3>4. e.flagged = FALSE /\ e.degraded = FALSE /\ e.reasons = << >>
      BY <3>3
    <3>5. Len(e.reasons) = 0 /\ DOMAIN e.reasons = {}
      BY <3>4
    <3>6. QED
      BY <1>1, <1>3, <3>4, <3>5
  <2>10. QED
    BY <2>8, <2>9
<1>4. Explained(e)
  BY <1>2, <1>3
<1>5. events = IF q.configured THEN <<e>> ELSE << >>
  BY DEF Journaled
<1> HIDE DEF e, readable, evidence
<1>6. Len(events) = IF q.configured THEN 1 ELSE 0
  <2> HIDE DEF events
  <2> QED
    BY <1>5
<1>7. \A x \in {events[i] : i \in DOMAIN events} : x = e
  <2> HIDE DEF events
  <2>1. CASE q.configured
    <3>1. events = <<e>>
      BY <1>5, <2>1
    <3>2. DOMAIN events = {1} /\ events[1] = e
      BY <3>1
    <3>3. QED
      BY <3>2
  <2>2. CASE ~ q.configured
    <3>1. DOMAIN events = {}
      BY <1>5, <2>2
    <3>2. QED
      BY <3>1
  <2>3. QED
    BY <2>1, <2>2
<1>8. \A x \in {events[i] : i \in DOMAIN events} : Explained(x)
  <2> HIDE DEF events, Explained
  <2> QED
    BY <1>4, <1>7
<1> HIDE DEF events
<1>9. QED
  BY <1>6, <1>8, Zenon DEF AFlagIsExplained, events, readable

LEMMA MaxOfTwo ==
  ASSUME NEW a \in Int, NEW b \in Int
  PROVE  Max({a, b}) \in {a, b} /\ Max({a, b}) >= a /\ Max({a, b}) >= b
<1>1. \E x \in {a, b} : \A y \in {a, b} : x >= y
  OBVIOUS
<1>2. Max({a, b}) \in {a, b} /\ \A y \in {a, b} : Max({a, b}) >= y
  BY <1>1 DEF Max
<1>3. QED
  BY <1>2

TailAt(values, v) == Min({CountLe(values, v), CountGe(values, v)})

(* The tails of a list are the shorter the farther they are from its median. *)
LEMMA TailsFall ==
  ASSUME NEW values \in Seq(Int), values # << >>, NEW a \in Int, NEW b \in Int,
         \/ Median(values) <= a /\ a <= b
         \/ b <= a /\ a <= Median(values)
  PROVE  TailAt(values, a) \in Nat /\ TailAt(values, b) \in Nat /\ TailAt(values, b) <= TailAt(values, a)
<1> DEFINE n == Len(values)
           m == Median(values)
           L(v) == CountLe(values, v)
           G(v) == CountGe(values, v)
<1>1. n \in Nat /\ DOMAIN values = 1..n /\ \A i \in 1..n : values[i] \in Int
  OBVIOUS
<1>2. m \in Int /\ 2 * L(m) >= n /\ 2 * G(m) >= n
  <2>1. /\ m \in Int
        /\ 2 * Cardinality({i \in 1..n : values[i] <= m}) >= n
        /\ 2 * Cardinality({i \in 1..n : values[i] >= m}) >= n
    BY MedianHalves
  <2>2. L(m) = Cardinality({i \in 1..n : values[i] <= m}) /\ G(m) = Cardinality({i \in 1..n : values[i] >= m})
    BY <1>1 DEF CountLe, CountGe
  <2>3. QED
    BY <2>1, <2>2
<1>3. \A v \in {a, b, m} : L(v) \in Nat /\ G(v) \in Nat
  BY <1>1, CountsAreNumbers
<1>4. \A v, w \in Int : v <= w => /\ L(v) <= L(w) /\ G(w) <= G(v)
                                  /\ v < w => L(v) + G(w) <= n
  BY <1>1, CountsAreMonotone
<1>5. \A v \in {a, b} : /\ TailAt(values, v) \in {L(v), G(v)}
                        /\ TailAt(values, v) <= L(v) /\ TailAt(values, v) <= G(v)
  BY <1>3, MinOfTwo DEF TailAt
<1> DEFINE s == TailAt(values, a)
           t == TailAt(values, b)
<1> DEFINE la == L(a)
           ga == G(a)
           lb == L(b)
           gb == G(b)
           lm == L(m)
           gm == G(m)
<1>6. /\ la \in Nat /\ ga \in Nat /\ lb \in Nat /\ gb \in Nat /\ lm \in Nat /\ gm \in Nat
      /\ s \in {la, ga} /\ t \in {lb, gb} /\ t <= lb /\ t <= gb
  BY <1>3, <1>5
<1>7. \/ m <= a /\ a <= b
      \/ b <= a /\ a <= m
  BY Zenon
<1>8. 2 * lm >= n /\ 2 * gm >= n
  BY <1>2
<1>9. m <= a /\ a < b => lm <= la /\ gb <= ga /\ la + gb <= n
  BY <1>2, <1>4
<1>10. a <= m /\ b < a => gm <= ga /\ lb <= la /\ lb + ga <= n
  BY <1>2, <1>4
<1>11. a = b => s = t
  OBVIOUS
<1> HIDE DEF n, m, L, G, la, ga, lb, gb, lm, gm, s, t
<1>12. s \in Nat /\ t \in Nat
  BY <1>6
<1>13. s = la \/ s = ga
  BY <1>6
<1>14. CASE a = b
  BY <1>11, <1>12, <1>14 DEF s, t
<1>15. CASE m <= a /\ a < b
  <2>1. lm <= la /\ gb <= ga /\ la + gb <= n
    BY <1>9, <1>15
  <2>2. gb <= la
    BY <1>1, <1>6, <1>8, <2>1
  <2>3. t <= s
    BY <1>6, <1>12, <1>13, <2>1, <2>2
  <2>4. QED
    BY <1>12, <2>3 DEF s, t
<1>16. CASE a <= m /\ b < a
  <2>1. gm <= ga /\ lb <= la /\ lb + ga <= n
    BY <1>10, <1>16
  <2>2. lb <= ga
    BY <1>1, <1>6, <1>8, <2>1
  <2>3. t <= s
    BY <1>6, <1>12, <1>13, <2>1, <2>2
  <2>4. QED
    BY <1>12, <2>3 DEF s, t
<1>17. QED
  <2>1. a = b \/ a < b \/ b < a
    OBVIOUS
  <2>2. QED
    BY <1>7, <1>14, <1>15, <1>16, <2>1

NumbersOf(reference) ==
  \A f \in FeatureId : Column(reference, f) \in Seq(Int) /\ Column(reference, f) # << >>
                       /\ Len(Column(reference, f)) = Len(reference)

LEMMA ColumnsAreNumbers ==
  ASSUME NEW reference \in Seq([FeatureId -> Int]), reference # << >>
  PROVE  NumbersOf(reference)
<1> SUFFICES ASSUME NEW f \in FeatureId
             PROVE  Column(reference, f) \in Seq(Int) /\ Column(reference, f) # << >>
                    /\ Len(Column(reference, f)) = Len(reference)
  BY DEF NumbersOf
<1> DEFINE n == Len(reference)
           c == Column(reference, f)
           F == FeatureId
<1>1. n \in Nat /\ n > 0 /\ DOMAIN reference = 1..n /\ \A i \in 1..n : reference[i] \in [F -> Int]
  OBVIOUS
<1>2. c = [i \in 1..n |-> reference[i][f]]
  BY <1>1 DEF Column
<1> HIDE DEF n, c
<1>3. \A i \in 1..n : reference[i][f] \in Int
  BY <1>1
<1>4. c \in [1..n -> Int]
  BY <1>2, <1>3
<1>5. c \in Seq(Int) /\ Len(c) = n
  BY <1>1, <1>4
<1>6. QED
  BY <1>1, <1>5 DEF c, n

(* How far out an item lies, by the shares of its three tails.               *)
LEMMA DeviationIs ==
  ASSUME NEW reference, NumbersOf(reference), Len(reference) \in Nat,
         NEW row, \A f \in DeviationFeature : row[f] \in Int
  PROVE  LET share(f) == ShareOf(TailAt(Column(reference, f), row[f]), Len(reference))
             T == {One} \cup {share(f) : f \in DeviationFeature}
         IN  /\ Deviation(reference, row) = One - Min(T)
             /\ T \subseteq Nat
             /\ Min(T) \in T /\ \A y \in T : Min(T) <= y
<1> DEFINE n == Len(reference)
           share(f) == ShareOf(TailAt(Column(reference, f), row[f]), n)
           T == {One} \cup {share(f) : f \in DeviationFeature}
<1>1. Deviation(reference, row) = One - Min(T)
  BY DEF Deviation, TailAt
<1>2. ASSUME NEW f \in DeviationFeature PROVE share(f) \in Nat
  <2> DEFINE c == Column(reference, f)
             t == TailAt(c, row[f])
  <2>1. f \in FeatureId
    BY DEF DeviationFeature, FeatureId
  <2>2. c \in Seq(Int) /\ c # << >>
    BY <2>1 DEF NumbersOf
  <2> HIDE DEF c
  <2>3. row[f] \in Int
    OBVIOUS
  <2>4. t \in Nat
    <3>1. Median(c) \in Int
      BY <2>2, MedianHalves
    <3>2. \/ Median(c) <= row[f] /\ row[f] <= row[f]
          \/ row[f] <= row[f] /\ row[f] <= Median(c)
      BY <2>3, <3>1
    <3>3. QED
      BY <2>2, <2>3, <3>2, TailsFall
  <2> HIDE DEF t
  <2>5. ShareOf(t, n) \in Nat
    <3>1. t <= t /\ n \in Nat
      BY <2>4
    <3> HIDE DEF n
    <3>2. QED
      BY <2>4, <3>1, SharesGrow
  <2>6. QED
    BY <2>5 DEF t, c
<1>3. T \subseteq Nat /\ T # {}
  <2>1. One \in Nat
    BY DEF One
  <2> HIDE DEF share
  <2>2. QED
    BY <1>2, <2>1
<1> HIDE DEF T
<1>4. Min(T) \in T /\ \A y \in T : Min(T) <= y
  BY <1>3, MinIsLeast
<1>5. QED
  BY <1>1, <1>3, <1>4 DEF T

(* A number for how unusual an item is, and for every item of the reference. *)
LEMMA CombinedIsANumber ==
  ASSUME NEW reference \in Seq([FeatureId -> Int]), reference # << >>, NEW shape,
         NEW forest, DOMAIN forest = 1..Len(reference), Len(forest) = Len(reference),
         NEW row, \A f \in DeviationFeature : row[f] \in Int
  PROVE  LET r == RankIn(forest, Forest(shape, row))
             d == Deviation(reference, row)
             c == Combine(shape, reference, forest, row)
         IN  r \in Nat /\ d \in Int /\ c \in {r, d} /\ c >= r /\ c >= d
<1> DEFINE n == Len(reference)
           v == Forest(shape, row)
           r == RankIn(forest, v)
           d == Deviation(reference, row)
           c == Combine(shape, reference, forest, row)
<1>1. n \in Nat
  OBVIOUS
<1> HIDE DEF n, v
<1>2. r \in Nat
  <2> DEFINE k == CountLe(forest, v)
  <2>1. k \in Nat /\ k <= k
    BY <1>1, CountsAreNumbers DEF n
  <2>2. r = ShareOf(k, n)
    BY DEF RankIn, n
  <2> HIDE DEF k, r
  <2>3. QED
    BY <1>1, <2>1, <2>2, SharesGrow
<1>3. d \in Int
  <2> DEFINE share(f) == ShareOf(TailAt(Column(reference, f), row[f]), Len(reference))
             T == {One} \cup {share(f) : f \in DeviationFeature}
  <2>1. NumbersOf(reference)
    BY ColumnsAreNumbers
  <2>2. d = One - Min(T) /\ T \subseteq Nat /\ Min(T) \in T
    BY <1>1, <2>1, DeviationIs DEF n
  <2>3. One \in Int
    BY DEF One
  <2> HIDE DEF T, d
  <2>4. QED
    BY <2>2, <2>3
<1>4. c = Max({r, d})
  BY DEF Combine, v
<1> HIDE DEF r, d, c
<1>5. c \in {r, d} /\ c >= r /\ c >= d
  <2>1. r \in Int /\ d \in Int
    BY <1>2, <1>3
  <2>2. Max({r, d}) \in {r, d} /\ Max({r, d}) >= r /\ Max({r, d}) >= d
    BY <2>1, MaxOfTwo
  <2>3. QED
    BY <1>4, <2>2
<1>6. QED
  BY <1>2, <1>3, <1>5 DEF r, d, c, v

LEMMA ScoresGrow ==
  ASSUME NEW reference \in Seq([FeatureId -> Int]), reference # << >>,
         NEW shape \in {"flat", "prose"}, NEW f \in DeviationFeature, NEW one, NEW two,
         \A g \in DeviationFeature : one[g] \in Int /\ two[g] \in Int,
         \A g \in DeviationFeature : g # f => one[g] = two[g],
         one["prose"] = two["prose"],
         TailAt(Column(reference, f), two[f]) <= TailAt(Column(reference, f), one[f])
  PROVE  LET m == Model(shape, reference)
         IN  ScoreOf(m, one) <= ScoreOf(m, two)
<1> DEFINE m == Model(shape, reference)
           n == Len(reference)
           R == [FeatureId -> Int]
           share(row, g) == ShareOf(TailAt(Column(reference, g), row[g]), n)
           T(row) == {One} \cup {share(row, g) : g \in DeviationFeature}
           d(row) == Deviation(reference, row)
           r(row) == RankIn(m.forest, Forest(shape, row))
           c(row) == Combine(shape, reference, m.forest, row)
           count(row) == CountLe(m.combined, c(row))
<1>1. n \in Nat /\ n > 0 /\ DOMAIN reference = 1..n /\ \A i \in 1..n : reference[i] \in R
  OBVIOUS
<1>2. NumbersOf(reference)
  BY ColumnsAreNumbers
<1>3. /\ m.shape = shape /\ m.reference = reference
      /\ m.forest = [i \in 1..n |-> Forest(shape, reference[i])]
      /\ m.combined = [i \in 1..n |-> Combine(shape, reference, m.forest, reference[i])]
  BY <1>1 DEF Model
<1> HIDE DEF n, m
<1>4. /\ DOMAIN m.forest = 1..n /\ Len(m.forest) = n
      /\ DOMAIN m.combined = 1..n /\ Len(m.combined) = n
  <2> DEFINE a == m.forest
             b == m.combined
  <2>1. DOMAIN a = 1..n /\ DOMAIN b = 1..n
    BY <1>3
  <2> HIDE DEF a, b
  <2>2. Len(a) = n /\ Len(b) = n
    BY <1>1, <2>1
  <2>3. QED
    BY <2>1, <2>2 DEF a, b
<1>5. \A g \in DeviationFeature : g \in FeatureId
  BY DEF DeviationFeature, FeatureId
<1>6. \A i \in 1..n : c(reference[i]) \in Int
  <2> SUFFICES ASSUME NEW i \in 1..n PROVE c(reference[i]) \in Int
    OBVIOUS
  <2> DEFINE row == reference[i]
  <2>1. \A g \in DeviationFeature : row[g] \in Int
    BY <1>1, <1>5
  <2> HIDE DEF row
  <2>2. /\ r(row) \in Nat /\ d(row) \in Int /\ c(row) \in {r(row), d(row)}
    BY <1>4, <2>1, CombinedIsANumber DEF n
  <2> HIDE DEF r, d, c
  <2>3. QED
    BY <2>2 DEF row
<1>7. \A i \in 1..n : m.combined[i] \in Int
  BY <1>3, <1>6
<1>8. \A row \in {one, two} : /\ r(row) \in Nat /\ d(row) \in Int /\ c(row) \in {r(row), d(row)}
                              /\ c(row) >= r(row) /\ c(row) >= d(row)
  <2> SUFFICES ASSUME NEW row \in {one, two}
               PROVE  /\ r(row) \in Nat /\ d(row) \in Int /\ c(row) \in {r(row), d(row)}
                      /\ c(row) >= r(row) /\ c(row) >= d(row)
    OBVIOUS
  <2>1. \A g \in DeviationFeature : row[g] \in Int
    OBVIOUS
  <2>2. QED
    BY <1>4, <2>1, CombinedIsANumber DEF n
<1>9. r(one) = r(two)
  BY DEF Forest
<1>10. d(one) <= d(two)
  <2>1. /\ d(one) = One - Min(T(one)) /\ T(one) \subseteq Nat /\ Min(T(one)) \in T(one)
        /\ d(two) = One - Min(T(two)) /\ T(two) \subseteq Nat /\ Min(T(two)) \in T(two)
        /\ \A y \in T(two) : Min(T(two)) <= y
    BY ZenonT(40), <1>1, <1>2, DeviationIs DEF n
  <2>2. ASSUME NEW g \in DeviationFeature
        PROVE  share(two, g) <= share(one, g) /\ share(two, g) \in Nat /\ share(one, g) \in Nat
    <3> DEFINE a == TailAt(Column(reference, g), one[g])
               b == TailAt(Column(reference, g), two[g])
               col == Column(reference, g)
               h == Median(col)
               x == one[g]
               y == two[g]
    <3>1. col \in Seq(Int) /\ col # << >> /\ x \in Int /\ y \in Int
      BY <1>2, <1>5 DEF NumbersOf
    <3> HIDE DEF col, x, y
    <3>2. h \in Int
      BY <3>1, MedianHalves
    <3>3. TailAt(col, x) \in Nat /\ TailAt(col, y) \in Nat
      <4>1. \/ Median(col) <= x /\ x <= x
            \/ x <= x /\ x <= Median(col)
        BY <3>1, <3>2
      <4>2. \/ Median(col) <= y /\ y <= y
            \/ y <= y /\ y <= Median(col)
        BY <3>1, <3>2
      <4>3. QED
        BY <3>1, <4>1, <4>2, TailsFall
    <3>4. a \in Nat /\ b \in Nat
      BY <3>3 DEF col, x, y
    <3>5. b <= a
      <4>1. CASE g = f
        BY <4>1
      <4>2. CASE g # f
        <5>1. a = b
          BY <4>2
        <5> HIDE DEF a, b
        <5>2. QED
          BY <3>4, <5>1
      <4>3. QED
        BY <4>1, <4>2
    <3> HIDE DEF a, b
    <3>6. ShareOf(b, n) <= ShareOf(a, n) /\ ShareOf(b, n) \in Nat /\ ShareOf(a, n) \in Nat
      BY <1>1, <3>4, <3>5, SharesGrow
    <3>7. QED
      BY <3>6 DEF a, b
  <2>3. \A x \in T(one) : \E y \in T(two) : y <= x
    <3>1. One <= One
      BY DEF One
    <3> HIDE DEF share
    <3>2. QED
      BY <2>2, <3>1
  <2>4. One \in Int
    BY DEF One
  <2> DEFINE p == Min(T(one))
             q == Min(T(two))
             A == T(one)
             B == T(two)
  <2> HIDE DEF T, d
  <2>5. p \in Nat /\ q \in Nat /\ \E y \in B : y \in Nat /\ q <= y /\ y <= p
    BY <2>1, <2>3
  <2>6. d(one) = One - p /\ d(two) = One - q
    BY <2>1
  <2> HIDE DEF p, q, B
  <2>7. q <= p
    BY <2>5
  <2>8. QED
    BY <2>4, <2>5, <2>6, <2>7
<1>11. ScoreOf(m, one) = ShareOf(count(one), n) /\ ScoreOf(m, two) = ShareOf(count(two), n)
  <2>1. \A row : ScoreOf(m, row) = ShareOf(CountLe(m.combined, c(row)), n)
    BY <1>3, <1>4 DEF ScoreOf, RankIn
  <2>2. QED
    BY <2>1
<1> HIDE DEF r, d, c
<1>12. c(one) \in Int /\ c(two) \in Int /\ c(one) <= c(two)
  <2> DEFINE p == c(one)
             q == c(two)
             x == d(one)
             y == d(two)
             z == r(one)
  <2>1. z \in Nat /\ x \in Int /\ y \in Int /\ p \in {z, x} /\ q \in {z, y} /\ q >= z /\ q >= y /\ x <= y
    BY <1>8, <1>9, <1>10
  <2> HIDE DEF p, q, x, y, z
  <2>2. p \in Int /\ q \in Int /\ p <= q
    BY <2>1
  <2>3. QED
    BY <2>2 DEF p, q
<1>13. count(one) \in Nat /\ count(two) \in Nat /\ count(one) <= count(two)
  <2> DEFINE p == c(one)
             q == c(two)
             all == m.combined
  <2>1. p \in Int /\ q \in Int /\ p <= q /\ DOMAIN all = 1..n /\ \A i \in 1..n : all[i] \in Int
    BY <1>4, <1>7, <1>12
  <2> HIDE DEF p, q, all
  <2>2. CountLe(all, p) \in Nat /\ CountLe(all, q) \in Nat
    BY <1>1, <2>1, CountsAreNumbers
  <2>3. CountLe(all, p) <= CountLe(all, q)
    BY <1>1, <2>1, CountsAreMonotone
  <2>4. QED
    BY <2>2, <2>3 DEF p, q, all
<1> HIDE DEF count
<1>14. ShareOf(count(one), n) <= ShareOf(count(two), n)
  <2> DEFINE p == count(one)
             q == count(two)
  <2>1. p \in Nat /\ q \in Nat /\ p <= q
    BY <1>13
  <2> HIDE DEF p, q
  <2>2. ShareOf(p, n) <= ShareOf(q, n)
    BY <1>1, <2>1, SharesGrow
  <2>3. QED
    BY <2>2 DEF p, q
<1>15. QED
  BY <1>11, <1>14 DEF m

LEMMA FeaturesAreNumbers ==
  ASSUME NEW item, NEW indizien, IsFiniteSet(indizien), item.received \in Int,
         \A k : Has(item.payload, k) => item.payload[k].says \in Int,
         \A k : Has(item.records, k) => item.records[k].says \in Int
  PROVE  LET row == BuildFeatures(item, indizien)
         IN  DOMAIN row = FeatureId /\ \A f \in DeviationFeature : row[f] \in Int
<1> DEFINE row == BuildFeatures(item, indizien)
           seen == {i \in indizien : Has(item.payload, i)}
           employed == {i \in seen : item.payload[i].says = 1}
           date == DateOf(item)
           turnover == IF Has(item.payload, "turnover")
                       THEN {item.payload["turnover"].says} \ {Unparsable} ELSE {}
           the(S) == CHOOSE n \in S : TRUE
           share == ShareOf(Cardinality(employed), Cardinality(seen))
           distance == IF date = {} THEN 0 ELSE the(date) - item.received
           counted == IF turnover = {} THEN 0 ELSE Min({One, Max({0, the(turnover)})})
<1>1. /\ DOMAIN row = FeatureId
      /\ row["indizienShare"] = share /\ row["dateDistance"] = distance
      /\ row["turnover"] = counted
  BY DEF BuildFeatures, FeatureId
<1>2. share \in Int
  <2>1. employed \in SUBSET seen /\ seen \in SUBSET indizien
    OBVIOUS
  <2> DEFINE a == Cardinality(employed)
             b == Cardinality(seen)
  <2> HIDE DEF employed, seen
  <2>2. a \in Nat /\ b \in Nat /\ a <= a
    BY <2>1, FS_Subset, FS_CardinalityType
  <2> HIDE DEF a, b
  <2>3. ShareOf(a, b) \in Nat
    BY <2>2, SharesGrow
  <2>4. QED
    BY <2>3 DEF a, b
<1>3. distance \in Int
  <2>1. \A x \in date : x \in Int
    BY DEF DateOf
  <2> HIDE DEF date
  <2>2. date # {} => the(date) \in date
    OBVIOUS
  <2> HIDE DEF the
  <2>3. QED
    BY <2>1, <2>2
<1>4. counted \in Int
  <2>1. \A x \in turnover : x \in Int
    OBVIOUS
  <2> HIDE DEF turnover
  <2>2. turnover # {} => the(turnover) \in turnover
    OBVIOUS
  <2> DEFINE x == the(turnover)
  <2>3. ASSUME turnover # {} PROVE Min({One, Max({0, x})}) \in Int
    <3>1. x \in Int
      BY <2>1, <2>2, <2>3
    <3> HIDE DEF x
    <3> DEFINE y == Max({0, x})
    <3>2. y \in {0, x} /\ y >= 0
      <4>1. 0 \in Int
        OBVIOUS
      <4>2. QED
        BY <3>1, <4>1, MaxOfTwo
    <3> HIDE DEF y
    <3>3. y \in Nat /\ One \in Nat
      BY <3>1, <3>2 DEF One
    <3>4. Min({One, y}) \in {One, y}
      BY <3>3, MinOfTwo
    <3>5. QED
      BY <3>3, <3>4 DEF y
  <2> HIDE DEF x
  <2>4. counted = IF turnover = {} THEN 0 ELSE Min({One, Max({0, x})})
    BY DEF x
  <2> HIDE DEF counted
  <2>5. QED
    BY <2>3, <2>4
<1> HIDE DEF row, share, distance, counted
<1>5. QED
  BY <1>1, <1>2, <1>3, <1>4 DEF DeviationFeature, row

LEMMA FartherIsNoLessUnusual == ScoreQuestions => FartherOutIsNoLessUnusual
<1> DEFINE ref == question.reference
           row == BuildFeatures(question.item, question.indizien)
           shape == question.forest
           m == Model(shape, ref)
           middle(f) == Median(Column(ref, f))
           with(f, v) == [row EXCEPT ![f] = v]
           at(f, v) == ScoreOf(m, with(f, v))
<1> SUFFICES ASSUME ScoreQuestions, Asked("score"), shape # "late", ReferenceFits(ref),
                    NEW f \in DeviationFeature, NEW far \in {-One, 0, 2, One, 2 * One}
             PROVE  /\ at(f, far) >= at(f, middle(f))
                    /\ \/ middle(f) <= row[f] /\ row[f] <= far
                       \/ far <= row[f] /\ row[f] <= middle(f)
                       => at(f, far) >= at(f, row[f])
  BY Zenon DEF FartherOutIsNoLessUnusual
<1>1. shape \in {"flat", "prose"} /\ ref \in Seq(Rows)
  BY DEF ScoreQuestions
<1>2. DOMAIN row = FeatureId /\ \A g \in DeviationFeature : row[g] \in Int
  BY FeaturesAreNumbers DEF ScoreQuestions
<1>3. far \in Int
  BY DEF One
<1>4. ref \in Seq([FeatureId -> Int]) /\ ref # << >>
  <2>1. ref # << >> /\ \A i \in DOMAIN ref : DOMAIN ref[i] = FeatureId
    BY DEF ReferenceFits
  <2>2. Len(ref) \in Nat /\ DOMAIN ref = 1..Len(ref) /\ \A i \in 1..Len(ref) : ref[i] \in Rows
    BY <1>1
  <2> DEFINE F == FeatureId
             A == [F -> Int]
  <2> HIDE DEF F
  <2>3. ASSUME NEW i \in 1..Len(ref) PROVE ref[i] \in A
    <3>1. PICK G \in SUBSET STRING : ref[i] \in [G -> Int]
      BY <2>2 DEF Rows
    <3>2. G = F
      BY <2>1, <2>2, <3>1 DEF F
    <3>3. QED
      BY <3>1, <3>2
  <2> HIDE DEF A
  <2>4. ref \in Seq(A)
    BY <1>1, <2>2, <2>3
  <2>5. QED
    BY <2>1, <2>4 DEF A, F
<1>5. /\ Column(ref, f) \in Seq(Int) /\ Column(ref, f) # << >> /\ middle(f) \in Int
  <2>1. f \in FeatureId
    BY DEF DeviationFeature, FeatureId
  <2>2. Column(ref, f) \in Seq(Int) /\ Column(ref, f) # << >>
    BY <1>4, <2>1, ColumnsAreNumbers DEF NumbersOf
  <2>3. QED
    BY <2>2, MedianHalves
<1> HIDE DEF row, shape, ref, m, middle
<1>6. ASSUME NEW v \in Int, NEW w \in Int,
             \/ middle(f) <= v /\ v <= w
             \/ w <= v /\ v <= middle(f)
      PROVE  at(f, v) <= at(f, w)
  <2> DEFINE one == with(f, v)
             two == with(f, w)
  <2>1. f \in FeatureId /\ "prose" \in FeatureId /\ f # "prose"
        /\ \A g \in DeviationFeature : g \in FeatureId
    BY DEF DeviationFeature, FeatureId
  <2>2. /\ one[f] = v /\ two[f] = w
        /\ \A g \in FeatureId : g # f => one[g] = row[g] /\ two[g] = row[g]
    BY <1>2, <2>1
  <2> HIDE DEF one, two
  <2>3. \A g \in DeviationFeature : /\ one[g] \in Int /\ two[g] \in Int
                                    /\ g # f => one[g] = two[g]
    BY <1>2, <2>1, <2>2
  <2>4. one["prose"] = two["prose"]
    BY <2>1, <2>2
  <2>5. TailAt(Column(ref, f), two[f]) <= TailAt(Column(ref, f), one[f])
    BY <1>5, <1>6, <2>2, TailsFall DEF middle
  <2>6. ScoreOf(m, one) <= ScoreOf(m, two)
    BY <1>1, <1>4, <2>3, <2>4, <2>5, ScoresGrow DEF m
  <2>7. QED
    BY <2>6 DEF one, two
<1>7. \A v : at(f, v) \in Nat
  BY <1>4, ScoresAreNumbers DEF m
<1> HIDE DEF at
<1>8. at(f, far) >= at(f, middle(f))
  <2>1. at(f, middle(f)) <= at(f, far)
    <3>1. middle(f) <= far \/ far <= middle(f)
      BY <1>3, <1>5
    <3>2. middle(f) <= middle(f)
      BY <1>5
    <3>3. QED
      BY <1>3, <1>5, <1>6, <3>1, <3>2
  <2>2. QED
    BY <1>7, <2>1
<1>9. ASSUME \/ middle(f) <= row[f] /\ row[f] <= far
             \/ far <= row[f] /\ row[f] <= middle(f)
      PROVE  at(f, far) >= at(f, row[f])
  <2>1. row[f] \in Int
    BY <1>2
  <2>2. at(f, row[f]) <= at(f, far)
    BY <1>3, <1>6, <1>9, <2>1
  <2>3. QED
    BY <1>7, <2>2
<1>10. QED
  BY <1>8, <1>9

-----------------------------------------------------------------------------
(* The completeness check: its branches, one after the other. *)
Due(requirement, record) ==
  requirement.kind = "document" \/ record[requirement.id].form \in {"absent", "blank"}
Failed(requirement, record, witness) ==
  {i \in DOMAIN requirement.cross :
     CrossFails(requirement.cross[i], record[requirement.id].typed, Values(record, witness))}

LEMMA CheckSays ==
  ASSUME NEW r, NEW record, NEW witness, NEW sealed
  PROVE  LET gaps == Check(r, record, witness, sealed)
             broken == BrokenChecks(r, record[r.id].typed)
             failed == Failed(r, record, witness)
         IN  \/ Due(r, record) /\ gaps = Gap(r, "missing", "present", {})
             \/ /\ ~ Readable(record, r.id, witness)
                /\ gaps = Gap(r, "invalid", "sealed.unresolved", {})
             \/ /\ broken # {}
                /\ \E rule : gaps = Gap(r, "invalid", rule, {r.id} \ sealed)
             \/ /\ failed # {}
                /\ \E entry, rule, answer :
                     gaps = Gap(r, "invalid", rule, CrossQuotes(r, entry, answer, sealed))
             \/ /\ ~ Due(r, record) /\ Readable(record, r.id, witness)
                /\ broken = {} /\ failed = {} /\ gaps = {}
<1> DEFINE gaps == Check(r, record, witness, sealed)
           answer == record[r.id].typed
           broken == BrokenChecks(r, answer)
           failed == Failed(r, record, witness)
           first(S) == CHOOSE i \in S : \A j \in S : i <= j
           entry == r.cross[first(failed)]
           one == CheckOrder[first(broken)]
           other == CrossQuotes(r, entry, answer, sealed)
<1>1. gaps = IF Due(r, record) THEN Gap(r, "missing", "present", {})
             ELSE IF ~ Readable(record, r.id, witness)
                  THEN Gap(r, "invalid", "sealed.unresolved", {})
             ELSE IF broken # {} THEN Gap(r, "invalid", one, {r.id} \ sealed)
             ELSE IF failed # {} THEN Gap(r, "invalid", entry.kind, other)
             ELSE {}
  BY Zenon DEF Check, Due, Failed
<1> HIDE DEF gaps, broken, failed, one
<1>2. \E rule : Gap(r, "invalid", one, {r.id} \ sealed) = Gap(r, "invalid", rule, {r.id} \ sealed)
  OBVIOUS
<1>3. \E e, rule, a : Gap(r, "invalid", entry.kind, other)
                       = Gap(r, "invalid", rule, CrossQuotes(r, e, a, sealed))
  OBVIOUS
<1> HIDE DEF entry, other
<1>4. QED
  BY <1>1, <1>2, <1>3 DEF gaps, broken, failed

LEMMA GapsTellNothingSealed == GapsQuoteNothingSealed
<1> SUFFICES ASSUME NEW r, NEW record, NEW witness, NEW sealed, NEW texts,
                    NEW g \in Check(r, record, witness, sealed)
             PROVE  /\ g.quotes \cap sealed = {}
                    /\ Sentence(g, texts).quotes \subseteq g.quotes
  BY DEF GapsQuoteNothingSealed, Gaps
<1>1. \A entry, answer : CrossQuotes(r, entry, answer, sealed) \cap sealed = {}
  BY DEF CrossQuotes
<1>2. \A status, rule, q : g \in Gap(r, status, rule, q) => g.quotes = q
  BY DEF Gap
<1> DEFINE gaps == Check(r, record, witness, sealed)
<1>3. g.quotes \cap sealed = {}
  <2>1. \/ gaps = Gap(r, "missing", "present", {})
        \/ gaps = Gap(r, "invalid", "sealed.unresolved", {})
        \/ \E rule : gaps = Gap(r, "invalid", rule, {r.id} \ sealed)
        \/ \E entry, rule, answer :
             gaps = Gap(r, "invalid", rule, CrossQuotes(r, entry, answer, sealed))
        \/ gaps = {}
    BY CheckSays, Zenon
  <2> HIDE DEF gaps
  <2>2. g \in gaps
    BY DEF gaps
  <2>3. CASE \E rule : gaps = Gap(r, "invalid", rule, {r.id} \ sealed)
    BY <1>2, <2>2, <2>3
  <2>4. CASE \E entry, rule, answer :
               gaps = Gap(r, "invalid", rule, CrossQuotes(r, entry, answer, sealed))
    BY <1>1, <1>2, <2>2, <2>4
  <2>5. QED
    BY <1>2, <2>1, <2>2, <2>3, <2>4
<1>4. Sentence(g, texts).quotes \subseteq g.quotes
  BY DEF Sentence
<1>5. QED
  BY <1>3, <1>4

(* What the loader makes sure of: a cross-field rule is one of those there   *)
(* are, and compares with a requirement of the same list (config_loader.py,  *)
(* _check_cross_field).  Every requirement has its place in the record.      *)
CompletenessQuestions ==
  Asked("completeness") =>
    \A r \in question.requirements :
      /\ r.id \in DOMAIN question.record /\ question.record[r.id].typed \in Answer
      /\ \A i \in DOMAIN r.cross :
           /\ r.cross[i].kind \in CrossKind /\ r.cross[i].years \in Int
           /\ \E s \in question.requirements : s.id = r.cross[i].field

LEMMA EncodedDigits ==
  ASSUME NEW digits \in [year : 0 .. 99, day : 0 .. 3], NEW b \in [year : Nat, day : 0 .. 3],
         Encoded(digits) # NoDate, Encoded(digits).day = b.day,
         Encoded(digits).year % 100 = b.year % 100
  PROVE  digits = [year |-> b.year % 100, day |-> b.day]
<1>1. Encoded(digits) = [year |-> 1900 + digits.year, day |-> digits.day]
  BY DEF Encoded
<1>2. digits.day = b.day /\ (1900 + digits.year) % 100 = b.year % 100
  BY <1>1
<1>3. (1900 + digits.year) % 100 = digits.year
  <2>1. digits.year \in 0 .. 99
    OBVIOUS
  <2>2. \A y \in 0 .. 99 : (1900 + y) % 100 = y
    BY SMTT(40)
  <2>3. QED
    BY <2>1, <2>2
<1>4. QED
  BY <1>2, <1>3

LEMMA CompleteMeansCoherent == CompletenessQuestions => CompleteIsCoherent
<1> DEFINE list == question.requirements
           record == question.record
           typed(f) == record[f].typed
<1> SUFFICES ASSUME CompletenessQuestions, Asked("completeness"),
                    Completeness(list, record, question.witness, question.sealed) = "complete",
                    NEW r \in list, NEW i \in DOMAIN r.cross,
                    typed(r.cross[i].field).date # NoDate
             PROVE  LET e == r.cross[i]
                        a == typed(r.id)
                        b == typed(e.field).date
                    IN  CASE e.kind = "birthdate_in_vsnr" ->
                               a.digits = [year |-> b.year % 100, day |-> b.day]
                          [] e.kind = "not_before" -> a.date # NoDate => ~ Earlier(a.date, b)
                          [] e.kind = "not_after" -> a.date # NoDate => ~ Earlier(b, a.date)
                          [] e.kind = "min_years_after" ->
                               a.date # NoDate =>
                                 ~ Earlier(a.date, [year |-> b.year + e.years, day |-> b.day])
                          [] e.kind = "max_years_after" ->
                               a.date # NoDate =>
                                 Earlier(a.date, [year |-> b.year + e.years + 1, day |-> b.day])
  BY DEF CompleteIsCoherent
<1> DEFINE e == r.cross[i]
           a == typed(r.id)
           b == typed(e.field).date
           values == Values(record, question.witness)
<1>1. \A s \in list : /\ Readable(record, s.id, question.witness)
                      /\ Failed(s, record, question.witness) = {}
  <2> SUFFICES ASSUME NEW s \in list
               PROVE  /\ Readable(record, s.id, question.witness)
                      /\ Failed(s, record, question.witness) = {}
    OBVIOUS
  <2> DEFINE gaps == Check(s, record, question.witness, question.sealed)
  <2>1. Gaps(list, record, question.witness, question.sealed) = {}
    BY DEF Completeness
  <2>2. gaps = {}
    BY <2>1 DEF Gaps
  <2>3. \A status, rule, q : Gap(s, status, rule, q) # {}
    BY DEF Gap
  <2>4. QED
    BY <2>2, <2>3, CheckSays
<1>2. /\ e.kind \in CrossKind /\ e.years \in Int /\ a \in Answer
      /\ \E s \in list : s.id = e.field
  BY DEF CompletenessQuestions
<1>3. /\ e.field \in DOMAIN record /\ Readable(record, e.field, question.witness)
      /\ typed(e.field) \in Answer
  BY <1>1, <1>2 DEF CompletenessQuestions
<1>4. e.field \in DOMAIN values /\ values[e.field] = typed(e.field)
  BY <1>3 DEF Values
<1>5. ~ CrossFails(e, a, values)
  BY SMTT(40), <1>1 DEF Failed
<1>6. /\ b \in [year : Nat, day : 0 .. 3] /\ b # NoDate
      /\ a.date \in [year : Nat, day : 0 .. 3] /\ a.digits \in [year : 0 .. 99, day : 0 .. 3]
  BY <1>2, <1>3 DEF Answer
<1>7. e.field \in DOMAIN values /\ values[e.field].date = b
  BY SMTT(40), <1>4
<1> HIDE DEF values, a, b
<1>8. CASE e.kind = "birthdate_in_vsnr"
  <2>1. /\ Encoded(a.digits) # NoDate /\ Encoded(a.digits).day = b.day
        /\ Encoded(a.digits).year % 100 = b.year % 100
    BY <1>5, <1>6, <1>7, <1>8 DEF CrossFails
  <2>2. a.digits = [year |-> b.year % 100, day |-> b.day]
    BY SMTT(40), <1>6, <2>1, EncodedDigits
  <2>3. QED
    BY <1>8, <2>2 DEF a, b
<1>9. CASE e.kind # "birthdate_in_vsnr"
  <2>1. a.date # NoDate =>
          /\ e.kind = "not_before" => ~ Earlier(a.date, b)
          /\ e.kind = "not_after" => ~ Earlier(b, a.date)
          /\ e.kind = "min_years_after" => ~ (YearsBetween(b, a.date) < e.years)
          /\ e.kind = "max_years_after" => ~ (YearsBetween(b, a.date) > e.years)
    BY <1>5, <1>6, <1>7, <1>9 DEF CrossFails
  <2>2. ~ (YearsBetween(b, a.date) < e.years)
          => ~ Earlier(a.date, [year |-> b.year + e.years, day |-> b.day])
    BY <1>2, <1>6 DEF YearsBetween, Earlier
  <2>3. ~ (YearsBetween(b, a.date) > e.years)
          => Earlier(a.date, [year |-> b.year + e.years + 1, day |-> b.day])
    BY <1>2, <1>6 DEF YearsBetween, Earlier
  <2>4. QED
    BY <1>2, <1>9, <2>1, <2>2, <2>3 DEF CrossKind, a, b
<1>10. QED
  BY ZenonT(40), <1>8, <1>9

-----------------------------------------------------------------------------
(* The decision table of a configuration that loads. *)
AnomalyOf(score, flagged) == [score |-> Number(score), flagged |-> Flag(flagged)]

(* Scores are numbers, and so is what a condition compares them with, or it  *)
(* is no number at all.                                                      *)
TableQuestions ==
  Asked("table") =>
    /\ question.scores \subseteq Int
    /\ DOMAIN question.table.rows \subseteq Nat
    /\ \A i \in DOMAIN question.table.rows : question.table.rows[i].tier \in 1 .. 3
    /\ \A rule \in Listed(question.table.downgrades) : \A c \in rule.when :
         c.value.kind = "number" => c.value.is \in Int

LEMMA ScoresCompare ==
  ASSUME NEW n, NEW v
  PROVE  /\ Compare("gt", Number(n), v) <=> v.kind = "number" /\ n > v.is
         /\ Compare("ge", Number(n), v) <=> v.kind = "number" /\ n >= v.is
<1>1. Number(n).kind = "number" /\ Number(n).is = n
  BY DEF Number
<1>2. Compare("gt", Number(n), v) <=> Numbers(Number(n), v) /\ Number(n).is > v.is
  BY DEF Compare
<1>3. Compare("ge", Number(n), v) <=> Numbers(Number(n), v) /\ Number(n).is >= v.is
  BY DEF Compare
<1>4. QED
  BY <1>1, <1>2, <1>3 DEF Numbers

LEMMA ConditionGrows ==
  ASSUME NEW c, DowngradeCondition(c), c.value.kind = "number" => c.value.is \in Int,
         NEW s \in Int, NEW m \in Int, s <= m, NEW f \in BOOLEAN,
         Compare(c.op, Known(c.field, AnomalyOf(s, f)), c.value)
  PROVE  Compare(c.op, Known(c.field, AnomalyOf(m, TRUE)), c.value)
<1>1. CASE c.field = "score"
  <2>1. /\ Known(c.field, AnomalyOf(s, f)) = Number(s)
        /\ Known(c.field, AnomalyOf(m, TRUE)) = Number(m)
    BY <1>1 DEF Known, AnomalyOf
  <2>2. c.op \in {"gt", "ge"}
    BY <1>1 DEF DowngradeCondition, MonotoneOps
  <2>3. CASE c.op = "gt"
    <3>1. Compare("gt", Number(s), c.value)
      BY <2>1, <2>3
    <3>2. c.value.kind = "number" /\ s > c.value.is
      BY <3>1, ScoresCompare
    <3>3. c.value.is \in Int /\ m > c.value.is
      BY <3>2
    <3>4. Compare("gt", Number(m), c.value)
      BY <3>2, <3>3, ScoresCompare
    <3>5. QED
      BY <2>1, <2>3, <3>4
  <2>4. CASE c.op = "ge"
    <3>1. Compare("ge", Number(s), c.value)
      BY <2>1, <2>4
    <3>2. c.value.kind = "number" /\ s >= c.value.is
      BY <3>1, ScoresCompare
    <3>3. c.value.is \in Int /\ m >= c.value.is
      BY <3>2
    <3>4. Compare("ge", Number(m), c.value)
      BY <3>2, <3>3, ScoresCompare
    <3>5. QED
      BY <2>1, <2>4, <3>4
  <2>5. QED
    BY <2>2, <2>3, <2>4
<1>2. CASE c.field = "flagged"
  <2>1. Known(c.field, AnomalyOf(m, TRUE)) = Flag(TRUE)
    BY <1>2 DEF Known, AnomalyOf
  <2>2. MonotoneOps["flagged"] = {"eq"}
    BY DEF MonotoneOps
  <2>3. c.op = "eq" /\ c.value = Flag(TRUE)
    BY <1>2, <2>2 DEF DowngradeCondition
  <2>4. Compare("eq", Flag(TRUE), Flag(TRUE))
    BY DEF Compare, Equal
  <2>5. QED
    BY <2>1, <2>3, <2>4
<1>3. QED
  BY <1>1, <1>2 DEF DowngradeCondition, MonotoneOps

LEMMA AnomalyDowngrades == TableQuestions => AnomalyOnlyDowngrades
<1> DEFINE table == question.table
           facts == question.facts
           tier(a) == TierUnder(table, facts, a)
           fired(a) == \E rule \in Listed(table.downgrades) : DowngradeFires(rule, a)
           holding == {i \in DOMAIN table.rows : RowHolds(table.rows[i], facts)}
           first == CHOOSE i \in holding : \A j \in holding : i <= j
           plain == IF holding = {} THEN 3 ELSE table.rows[first].tier
<1> SUFFICES ASSUME TableQuestions, Asked("table"), TableIsOneWay(table),
                    NEW s \in question.scores, NEW f \in BOOLEAN
             PROVE  /\ tier(<< >>) <= tier(AnomalyOf(s, f))
                    /\ \A m \in {x \in question.scores : s <= x} :
                         tier(AnomalyOf(s, f)) <= tier(AnomalyOf(m, TRUE))
  BY DEF AnomalyOnlyDowngrades, AnomalyOf
<1>1. plain \in 1 .. 3
  <2>1. CASE holding # {}
    <3>1. holding \subseteq Nat
      BY DEF TableQuestions
    <3>2. first \in holding
      <4> HIDE DEF holding
      <4>1. \E i \in holding : \A j \in holding : i <= j
        BY <2>1, <3>1, LeastNumber
      <4>2. QED
        BY <4>1
    <3>3. QED
      BY <2>1, <3>2 DEF TableQuestions
  <2>2. QED
    BY <2>1
<1>2. \A a : tier(a) = IF holding = {} \/ (a # << >> /\ fired(a)) THEN 3 ELSE plain
  BY DEF TierUnder
<1>3. \A x, y : AnomalyOf(x, y) # << >>
  <2>1. \A x, y : "score" \in DOMAIN AnomalyOf(x, y)
    BY DEF AnomalyOf
  <2>2. DOMAIN << >> = {}
    OBVIOUS
  <2>3. QED
    BY <2>1, <2>2
<1>4. ASSUME NEW m \in question.scores, s <= m, fired(AnomalyOf(s, f))
      PROVE  fired(AnomalyOf(m, TRUE))
  <2>1. PICK rule \in Listed(table.downgrades) : DowngradeFires(rule, AnomalyOf(s, f))
    BY <1>4
  <2>2. ASSUME NEW c \in rule.when
        PROVE  Compare(c.op, Known(c.field, AnomalyOf(m, TRUE)), c.value)
    <3>1. DowngradeCondition(c) /\ (c.value.kind = "number" => c.value.is \in Int)
      BY <2>1 DEF TableIsOneWay, TableQuestions
    <3>2. s \in Int /\ m \in Int
      BY DEF TableQuestions
    <3>3. Compare(c.op, Known(c.field, AnomalyOf(s, f)), c.value)
      BY <2>1 DEF DowngradeFires
    <3>4. QED
      BY <1>4, <3>1, <3>2, <3>3, ConditionGrows
  <2>3. QED
    BY <2>1, <2>2 DEF DowngradeFires
<1> HIDE DEF tier, fired, holding, first, plain
<1>5. tier(<< >>) = plain \/ holding = {}
  BY <1>2
<1>6. \A a : tier(a) \in {3, plain} /\ plain <= tier(a) /\ tier(a) <= 3
  BY <1>1, <1>2
<1>7. plain \in Int /\ tier(<< >>) \in Int /\ plain <= 3
  BY <1>1, <1>6
<1>8. tier(<< >>) <= tier(AnomalyOf(s, f))
  <2>1. CASE holding = {}
    <3>1. tier(AnomalyOf(s, f)) = 3
      BY <1>2, <2>1
    <3>2. QED
      BY <1>6, <1>7, <3>1
  <2>2. CASE holding # {}
    BY <1>5, <1>6, <1>7, <2>2
  <2>3. QED
    BY <2>1, <2>2
<1>9. ASSUME NEW m \in {x \in question.scores : s <= x}
      PROVE  tier(AnomalyOf(s, f)) <= tier(AnomalyOf(m, TRUE))
  <2>1. CASE tier(AnomalyOf(m, TRUE)) = 3
    BY <1>1, <1>6, <2>1
  <2>2. CASE tier(AnomalyOf(m, TRUE)) # 3
    <3>1. holding # {} /\ ~ fired(AnomalyOf(m, TRUE))
      BY <1>2, <1>3, <2>2
    <3>2. ~ fired(AnomalyOf(s, f))
      BY <1>4, <3>1
    <3>3. tier(AnomalyOf(s, f)) = plain
      BY <1>2, <3>1, <3>2
    <3>4. QED
      BY <1>6, <3>3
  <2>3. QED
    BY <2>1, <2>2
<1>10. QED
  BY <1>8, <1>9

-----------------------------------------------------------------------------
(* The configuration that loads. *)
LEMMA OneOf ==
  ASSUME NEW s, NEW key, NEW v, Distinct(Of(s, key)), v \in Listed(Of(s, key))
  PROVE  Cardinality({i \in DOMAIN s : s[i][key] = v}) = 1
<1>1. /\ DOMAIN Of(s, key) = DOMAIN s
      /\ \A i \in DOMAIN s : Of(s, key)[i] = s[i][key]
  BY DEF Of
<1>2. PICK i \in DOMAIN s : s[i][key] = v
  BY <1>1 DEF Listed
<1>3. {j \in DOMAIN s : s[j][key] = v} = {i}
  BY <1>1, <1>2 DEF Distinct
<1>4. QED
  BY <1>3, FS_Singleton

(* What a configuration is asked with: budgets are numbers.                  *)
BudgetsAreNumbers ==
  Asked("config") /\ question.config.queues # Absent =>
    \A t \in DOMAIN question.config.queues.budget : question.config.queues.budget[t] \in Int

LEMMA ItemsAreAnswered == BudgetsAreNumbers => EveryItemCanBeAnswered
<1> DEFINE c == question.config
           one(s, key, v) == Cardinality({i \in DOMAIN s : s[i][key] = v}) = 1
<1> SUFFICES ASSUME BudgetsAreNumbers, Asked("config"), Accepts(c)
             PROVE  EveryItemCanBeAnswered
  BY DEF EveryItemCanBeAnswered
<1>1. \A r \in Listed(c.routing.rules) : one(c.taxonomy, "unit", r.unit)
  <2>1. Distinct(Of(c.taxonomy, "unit"))
    BY DEF Accepts, TaxonomyResolves
  <2>2. ASSUME NEW r \in Listed(c.routing.rules)
        PROVE  one(c.taxonomy, "unit", r.unit)
    <3>1. r.unit \in Listed(Of(c.taxonomy, "unit"))
      BY DEF Accepts, UnitsExist, Units
    <3>2. QED
      BY <2>1, <3>1, OneOf
  <2>3. QED
    BY <2>2
<1>2. c.queues # Absent =>
        \A t \in Tier : t \in DOMAIN c.queues.budget /\ c.queues.budget[t] > 0
  <2>1. c.queues # Absent => BudgetsCoverEveryTier(c.queues)
    BY DEF Accepts
  <2>2. QED
    BY <2>1 DEF BudgetsCoverEveryTier, BudgetsAreNumbers
<1>3. c.notifications # Absent =>
        \A ch \in Channel : ch \in Listed(c.notifications.channels)
  <2>1. c.notifications # Absent => NotificationsAreComplete(c.notifications)
    BY DEF Accepts
  <2>2. QED
    BY <2>1 DEF NotificationsAreComplete
<1>4. c.drafting # Absent =>
        /\ \A ch \in Channel : one(c.drafting.channels, "channel", ch)
        /\ \A k \in DraftKind : one(c.drafting.templates, "kind", k)
  <2>1. c.drafting # Absent => DraftingIsComplete(c.drafting)
    BY DEF Accepts
  <2>2. ASSUME DraftingIsComplete(c.drafting), NEW ch \in Channel
        PROVE  one(c.drafting.channels, "channel", ch)
    <3>1. /\ Distinct(Of(c.drafting.channels, "channel"))
          /\ ch \in Listed(Of(c.drafting.channels, "channel"))
      BY <2>2 DEF DraftingIsComplete
    <3>2. QED
      BY <3>1, OneOf
  <2>3. ASSUME DraftingIsComplete(c.drafting), NEW k \in DraftKind
        PROVE  one(c.drafting.templates, "kind", k)
    <3>1. /\ Distinct(Of(c.drafting.templates, "kind"))
          /\ k \in Listed(Of(c.drafting.templates, "kind"))
      BY <2>3 DEF DraftingIsComplete
    <3>2. QED
      BY <3>1, OneOf
  <2> HIDE DEF one
  <2>4. QED
    BY <2>1, <2>2, <2>3
<1>5. \A p \in DOMAIN c.procedures : \A i \in DOMAIN c.procedures[p].requirements :
        \A e \in Listed(c.procedures[p].requirements[i].cross) :
          e.field \in Listed(Of(c.procedures[p].requirements, "id"))
  <2> SUFFICES ASSUME NEW p \in DOMAIN c.procedures,
                      NEW i \in DOMAIN c.procedures[p].requirements,
                      NEW e \in Listed(c.procedures[p].requirements[i].cross)
               PROVE  e.field \in Listed(Of(c.procedures[p].requirements, "id"))
    OBVIOUS
  <2>1. ProcedureIsConsistent(p, c.procedures[p])
    BY DEF Accepts
  <2>2. c.procedures[p].requirements[i] \in Listed(c.procedures[p].requirements)
    BY DEF Listed
  <2>3. CrossFieldsKnown(c.procedures[p].requirements[i],
                         Listed(Of(c.procedures[p].requirements, "id")))
    BY <2>1, <2>2 DEF ProcedureIsConsistent
  <2>4. QED
    BY <2>3 DEF CrossFieldsKnown
<1>6. QED
  BY <1>1, <1>2, <1>3, <1>4, <1>5 DEF EveryItemCanBeAnswered

LEMMA SealedAreReachable == SealedValuesAreReachable
<1> DEFINE c == question.config
           sent == question.payload
           policy == Sealing(c.policy)
           under(root) == {l \in DOMAIN sent : Below(l, root)}
           collapsed == {root \in policy.subtrees : under(root) # {}}
           stays == DOMAIN sent \ UNION {under(root) : root \in collapsed}
           kept == SealPayload(sent, policy)
           below(path) == \E root \in policy.subtrees : Below(path, root)
           sealed(leaf) == \/ leaf \in collapsed
                           \/ leaf \in policy.paths \cup policy.subtrees /\ Usable(sent[leaf])
<1> SUFFICES ASSUME Asked("config"), Accepts(c) PROVE SealedValuesAreReachable
  BY DEF SealedValuesAreReachable
<1>1. kept = [leaf \in stays \cup collapsed |-> IF sealed(leaf) THEN Placeholder ELSE sent[leaf]]
  BY DEF SealPayload
<1> HIDE DEF kept, sealed
<1>2. \A path \in DOMAIN sent : ~ below(path) => path \in stays
  OBVIOUS
<1>3. /\ policy.paths = {f.path : f \in {g \in Listed(c.policy) : ~ g.subtree}}
      /\ policy.subtrees = {f.path : f \in {g \in Listed(c.policy) : g.subtree}}
  BY DEF Sealing
<1>4. \A path \in WitnessPaths(c.policy) : ~ below(path)
  <2>1. \A f, g \in Listed(c.policy) : ~ Below(f.path, g.path)
    BY DEF Accepts, PolicyIsDisjoint
  <2>2. QED
    BY <1>3, <2>1 DEF WitnessPaths
<1>5. ASSUME NEW p \in DOMAIN c.procedures,
             NEW path \in Listed(Of(c.procedures[p].fieldMap, "path")), path \in DOMAIN sent
      PROVE  path \in DOMAIN kept /\ (kept[path] # sent[path] => path \in WitnessPaths(c.policy))
  <2>1. Covered(path, policy) => path \in WitnessPaths(c.policy)
    BY DEF Accepts, SealedAreWitnessed
  <2>2. below(path) => Covered(path, policy)
    BY DEF Covered
  <2>3. path \in stays
    BY <1>2, <1>4, <1>5, <2>1, <2>2
  <2>4. sealed(path) => Covered(path, policy)
    BY DEF sealed, Covered
  <2> HIDE DEF policy
  <2>5. QED
    BY <1>1, <2>1, <2>3, <2>4
<1>6. ASSUME c.drafting # Absent, NEW path \in c.drafting.addressee,
             path \in DOMAIN sent, Usable(sent[path]), ~ below(path)
      PROVE  kept[path] = Placeholder
  <2>1. Covered(path, policy)
    BY <1>6 DEF Accepts, AddresseeIsSealed
  <2>2. path \in policy.paths \cup policy.subtrees
    BY <1>6, <2>1 DEF Covered
  <2>3. path \in stays /\ sealed(path)
    BY <1>2, <1>6, <2>2 DEF sealed
  <2>4. QED
    BY <1>1, <2>3
<1> HIDE DEF policy
<1>7. QED
  BY <1>5, <1>6 DEF SealedValuesAreReachable, kept, policy

LEMMA LoadedConfigurationsAnswer == BudgetsAreNumbers => WhatLoadsCanAnswer
  BY ItemsAreAnswered, SealedAreReachable DEF WhatLoadsCanAnswer

-----------------------------------------------------------------------------
(* The fallback classifier. *)
LEMMA PlaceOf ==
  ASSUME NEW u \in Listed(UnitOrder)
  PROVE  Place(u) \in Nat /\ UnitOrder[Place(u)] = u
<1>1. DOMAIN UnitOrder \subseteq Nat
  BY UnitOrderAssumption
<1>2. \E i \in DOMAIN UnitOrder : UnitOrder[i] = u
  BY DEF Listed
<1>3. QED
  BY <1>1, <1>2 DEF Place

(* The unit that is suggested: the most alike, the first of those in order.  *)
Nearest(units, alike, u) ==
  /\ u \in units
  /\ \A v \in units : \/ alike[u] > alike[v]
                      \/ alike[u] = alike[v] /\ Place(u) <= Place(v)

LEMMA NearestExists ==
  ASSUME NEW units, units # {}, units \subseteq Listed(UnitOrder),
         NEW alike, \A u \in units : alike[u] \in -4 .. 4
  PROVE  \E u \in units : Nearest(units, alike, u)
<1> DEFINE far == {4 - alike[u] : u \in units}
<1>1. far \subseteq Nat /\ far # {}
  OBVIOUS
<1> HIDE DEF far
<1>2. PICK k \in far : \A l \in far : k <= l
  BY <1>1, LeastNumber
<1> USE DEF far
<1> DEFINE top == {u \in units : 4 - alike[u] = k}
           places == {Place(u) : u \in top}
<1>3. places \subseteq Nat /\ places # {}
  <2>1. top # {} /\ top \subseteq Listed(UnitOrder)
    BY <1>2
  <2>2. QED
    BY <2>1, PlaceOf
<1> HIDE DEF places
<1>4. PICK m \in places : \A l \in places : m <= l
  BY <1>3, LeastNumber
<1> USE DEF places
<1>5. PICK u \in top : Place(u) = m
  BY <1>4
<1>6. ASSUME NEW v \in units
      PROVE  alike[u] > alike[v] \/ (alike[u] = alike[v] /\ Place(u) <= Place(v))
  <2>1. 4 - alike[u] <= 4 - alike[v]
    BY <1>2
  <2>2. alike[u] \in Int /\ alike[v] \in Int /\ k \in Int
    BY <1>1, <1>2
  <2>3. alike[u] = alike[v] => Place(u) <= Place(v)
    <3>1. alike[u] = alike[v] => v \in top
      BY <2>2
    <3>2. QED
      BY <1>4, <1>5, <3>1
  <2>4. QED
    BY <2>1, <2>2, <2>3
<1>7. QED
  BY <1>6 DEF Nearest

LEMMA NearestIsOne ==
  ASSUME NEW units, units \subseteq Listed(UnitOrder),
         NEW alike, \A u \in units : alike[u] \in Int,
         NEW u, Nearest(units, alike, u), NEW v, Nearest(units, alike, v)
  PROVE  u = v
<1>1. alike[u] \in Int /\ alike[v] \in Int
  BY DEF Nearest
<1>2. /\ alike[u] > alike[v] \/ (alike[u] = alike[v] /\ Place(u) <= Place(v))
      /\ alike[v] > alike[u] \/ (alike[v] = alike[u] /\ Place(v) <= Place(u))
  BY DEF Nearest
<1>3. Place(u) \in Nat /\ Place(v) \in Nat /\ UnitOrder[Place(u)] = u /\ UnitOrder[Place(v)] = v
  BY PlaceOf DEF Nearest
<1>4. Place(u) = Place(v)
  BY <1>1, <1>2, <1>3
<1>5. QED
  BY <1>3, <1>4

(* The bins of a calibration: at least one. *)
Bins == Seq([upper : Int, confidence : Int]) \ {<< >>}

LEMMA FirstAbove ==
  ASSUME NEW bins \in Bins, NEW raw \in Int, \E i \in DOMAIN bins : raw <= bins[i].upper
  PROVE  \E i \in DOMAIN bins :
           /\ raw <= bins[i].upper /\ Apply(bins, raw) = bins[i].confidence
           /\ \A j \in DOMAIN bins : raw <= bins[j].upper => i <= j
<1> DEFINE above == {i \in DOMAIN bins : raw <= bins[i].upper}
           first == CHOOSE i \in above : \A j \in above : i <= j
<1>1. above \subseteq Nat /\ above # {}
  BY DEF Bins
<1>2. Apply(bins, raw) = bins[first].confidence
  BY <1>1 DEF Apply
<1>3. first \in above /\ \A j \in above : first <= j
  <2> HIDE DEF above
  <2>1. \E i \in above : \A j \in above : i <= j
    BY <1>1, LeastNumber
  <2>2. QED
    BY <2>1
<1> HIDE DEF first
<1>4. QED
  BY <1>2, <1>3

LEMMA BinsAreNumbers ==
  ASSUME NEW bins \in Bins
  PROVE  /\ DOMAIN bins = 1 .. Len(bins) /\ Len(bins) \in Nat /\ Len(bins) >= 1
         /\ \A i \in DOMAIN bins : bins[i].upper \in Int /\ bins[i].confidence \in Int
<1> DEFINE Bin == [upper : Int, confidence : Int]
<1>1. bins \in Seq(Bin) /\ bins # << >>
  BY DEF Bins
<1> HIDE DEF Bin
<1>2. /\ DOMAIN bins = 1 .. Len(bins) /\ Len(bins) \in Nat /\ Len(bins) >= 1
      /\ \A i \in DOMAIN bins : bins[i] \in Bin
  BY <1>1
<1>3. QED
  BY <1>2 DEF Bin

LEMMA ConfidencesAreNumbers ==
  ASSUME NEW bins \in Bins, NEW raw \in Int
  PROVE  Apply(bins, raw) \in Int
<1>1. CASE \E i \in DOMAIN bins : raw <= bins[i].upper
  <2>1. PICK i \in DOMAIN bins : Apply(bins, raw) = bins[i].confidence
    BY <1>1, FirstAbove
  <2>2. QED
    BY <2>1, BinsAreNumbers
<1>2. CASE ~ \E i \in DOMAIN bins : raw <= bins[i].upper
  <2>1. Apply(bins, raw) = bins[Len(bins)].confidence
    BY <1>2 DEF Apply
  <2>2. QED
    BY <2>1, BinsAreNumbers
<1>3. QED
  BY <1>1, <1>2

LEMMA SurerWhenNearer ==
  ASSUME NEW bins \in Bins, NEW top, CalibrationIsMonotone(bins, top),
         NEW raw \in Int, NEW more \in Int, raw <= more
  PROVE  Apply(bins, raw) <= Apply(bins, more)
<1> DEFINE covers(x) == \E i \in DOMAIN bins : x <= bins[i].upper
           last == Len(bins)
<1>1. /\ DOMAIN bins = 1 .. last /\ last \in Nat /\ last >= 1
      /\ \A i \in DOMAIN bins : bins[i].upper \in Int /\ bins[i].confidence \in Int
  BY BinsAreNumbers
<1>2. \A i, j \in DOMAIN bins : i <= j => bins[i].confidence <= bins[j].confidence
  BY <1>1 DEF CalibrationIsMonotone
<1>3. \A x : ~ covers(x) => Apply(bins, x) = bins[last].confidence
  BY DEF Apply
<1> HIDE DEF last
<1>4. CASE covers(more)
  <2>1. covers(raw)
    BY <1>1, <1>4
  <2>2. PICK i \in DOMAIN bins :
           /\ raw <= bins[i].upper /\ Apply(bins, raw) = bins[i].confidence
           /\ \A j \in DOMAIN bins : raw <= bins[j].upper => i <= j
    BY <2>1, FirstAbove
  <2>3. PICK j \in DOMAIN bins :
           more <= bins[j].upper /\ Apply(bins, more) = bins[j].confidence
    BY <1>4, FirstAbove
  <2>4. raw <= bins[j].upper
    BY <1>1, <2>3
  <2>5. QED
    BY <1>2, <2>2, <2>3, <2>4
<1>5. CASE ~ covers(more) /\ covers(raw)
  <2>1. PICK i \in DOMAIN bins : Apply(bins, raw) = bins[i].confidence
    BY <1>5, FirstAbove
  <2>2. Apply(bins, more) = bins[last].confidence
    BY <1>3, <1>5
  <2>3. last \in DOMAIN bins /\ i <= last
    BY <1>1
  <2>4. QED
    BY <1>2, <2>1, <2>2, <2>3
<1>6. CASE ~ covers(more) /\ ~ covers(raw)
  BY <1>1, <1>3, <1>6
<1>7. QED
  BY <1>4, <1>5, <1>6

(* What the classifier is asked with: how alike the item is to every unit    *)
(* that may be suggested, in quarters; the taxonomy lists known units; a     *)
(* calibration has bins.                                                     *)
ClassifierQuestions ==
  Asked("config") /\ question.config.classifier # Absent =>
    LET c == question.config
        fit == c.classifier.calibration
    IN  /\ Suggestible(c) \subseteq DOMAIN question.alike \cap Listed(UnitOrder)
        /\ \A u \in Suggestible(c) : question.alike[u] \in -4 .. 4
        /\ c.classifier.min \in Int
        /\ fit # Absent => fit.bins \in Bins

LEMMA ClassifiersRoute == ClassifierQuestions => OnlyACalibratedScoreRoutes
<1> DEFINE c == question.config
           alike == question.alike
           units == Suggestible(c)
           fit == c.classifier.calibration
           least == c.classifier.min
           heard == Heard(c, question.matched, alike)
           best(a) == CHOOSE u \in units : Nearest(units, a, u)
           sure(a) == IF fit = Absent THEN 0 ELSE Apply(fit.bins, a[best(a)])
           told(a) == [unit |-> best(a), confidence |-> sure(a), calibrated |-> fit # Absent]
<1> SUFFICES ASSUME ClassifierQuestions, Asked("config"), Accepts(c), heard # NoSuggestion
             PROVE  LET nearer(raw) == Heard(c, question.matched, [alike EXCEPT ![heard.unit] = raw])
                    IN  /\ heard.calibrated /\ heard.confidence >= least
                        /\ fit.model = c.classifier.model
                        /\ ~ question.matched
                        /\ heard.unit \in Units(c) \ c.classifier.exclude
                        /\ \A raw \in alike[heard.unit] .. 4 :
                             /\ nearer(raw).unit = heard.unit
                             /\ nearer(raw).confidence >= heard.confidence
  BY DEF OnlyACalibratedScoreRoutes
<1>1. ~ question.matched /\ c.classifier # Absent /\ c.classifier.enabled
  BY DEF Heard
<1>2. /\ fit # Absent /\ fit.model = c.classifier.model
      /\ CalibrationIsMonotone(fit.bins, 4)
  BY <1>1 DEF Accepts, EnabledIsCalibrated
<1>3. /\ units \subseteq DOMAIN alike /\ units \subseteq Listed(UnitOrder)
      /\ \A u \in units : alike[u] \in -4 .. 4
      /\ least \in Int /\ fit.bins \in Bins
  BY <1>1, <1>2 DEF ClassifierQuestions
<1>4. \A a : Heard(c, question.matched, a)
               = IF units = {} \/ sure(a) < least THEN NoSuggestion ELSE told(a)
  <2> TAKE a
  <2>1. Heard(c, question.matched, a) = Suggest(c, a)
    BY <1>1 DEF Heard
  <2> DEFINE pick == CHOOSE u \in units :
                       \A v \in units : \/ a[u] > a[v]
                                        \/ a[u] = a[v] /\ Place(u) <= Place(v)
  <2>2. pick = best(a)
    BY DEF Nearest
  <2>3. Suggest(c, a)
          = IF \/ units = {}
               \/ fit # Absent /\ (IF fit = Absent THEN 0 ELSE Apply(fit.bins, a[pick])) < least
            THEN NoSuggestion
            ELSE [unit |-> pick, confidence |-> IF fit = Absent THEN 0 ELSE Apply(fit.bins, a[pick]),
                  calibrated |-> fit # Absent]
    BY Zenon DEF Suggest
  <2> HIDE DEF pick, best
  <2>4. QED
    BY <1>2, <2>1, <2>2, <2>3
<1>5. \A u \in units : u \in Units(c) \ c.classifier.exclude
  BY DEF Suggestible, Units, Listed, Of
<1> HIDE DEF units, fit, heard, best, sure, told
<1>6. heard = told(alike) /\ units # {} /\ ~ (sure(alike) < least)
  BY <1>4 DEF heard
<1> DEFINE b == best(alike)
<1>7. Nearest(units, alike, b)
  <2>1. \E u \in units : Nearest(units, alike, u)
    BY <1>3, <1>6, NearestExists
  <2>2. QED
    BY <2>1 DEF best
<1>8. /\ heard.unit = b /\ heard.confidence = Apply(fit.bins, alike[b]) /\ heard.calibrated
      /\ b \in units
  BY <1>2, <1>6, <1>7 DEF told, sure, Nearest
<1>9. \A a : \A u \in units : Nearest(units, a, u) /\ (\A w \in units : a[w] \in Int) => best(a) = u
  <2> TAKE a
  <2> TAKE u \in units
  <2> HAVE Nearest(units, a, u) /\ \A w \in units : a[w] \in Int
  <2>1. Nearest(units, a, best(a))
    BY DEF best
  <2>2. QED
    BY <1>3, <2>1, NearestIsOne
<1> HIDE DEF b
<1>10. /\ heard.confidence \in Int /\ heard.confidence >= least
       /\ alike[b] \in Int
  <2>1. alike[b] \in Int
    BY <1>3, <1>8
  <2>2. Apply(fit.bins, alike[b]) \in Int
    BY <1>3, <2>1, ConfidencesAreNumbers
  <2>3. sure(alike) = Apply(fit.bins, alike[b])
    BY <1>2 DEF sure, b
  <2>4. QED
    BY <1>3, <1>6, <1>8, <2>1, <2>2, <2>3
<1>11. ASSUME NEW raw \in alike[b] .. 4
       PROVE  LET a == [alike EXCEPT ![b] = raw]
              IN  /\ Heard(c, question.matched, a).unit = b
                  /\ Heard(c, question.matched, a).confidence >= heard.confidence
  <2> DEFINE a == [alike EXCEPT ![b] = raw]
  <2>1. b \in DOMAIN alike /\ raw \in Int /\ alike[b] <= raw
    BY <1>3, <1>8, <1>10
  <2>2. a[b] = raw /\ \A v \in units \ {b} : a[v] = alike[v]
    BY <1>3, <2>1
  <2> HIDE DEF a
  <2>3. \A v \in units : a[v] \in Int
    BY <1>3, <2>1, <2>2
  <2>4. Nearest(units, a, b)
    <3> SUFFICES ASSUME NEW v \in units
                 PROVE  a[b] > a[v] \/ (a[b] = a[v] /\ Place(b) <= Place(v))
      BY <1>8 DEF Nearest
    <3>1. CASE v = b
      <4>1. Place(b) \in Nat
        BY <1>3, <1>8, PlaceOf
      <4>2. QED
        BY <2>1, <2>2, <3>1, <4>1
    <3>2. CASE v # b
      <4>1. alike[b] > alike[v] \/ (alike[b] = alike[v] /\ Place(b) <= Place(v))
        BY <1>7 DEF Nearest
      <4>2. a[v] = alike[v] /\ alike[v] \in Int
        BY <1>3, <2>2, <3>2
      <4>3. QED
        BY <1>10, <2>1, <2>2, <4>1, <4>2
    <3>3. QED
      BY <3>1, <3>2
  <2>5. best(a) = b
    BY <1>8, <1>9, <2>3, <2>4
  <2>6. sure(a) = Apply(fit.bins, raw)
    BY <1>2, <2>2, <2>5 DEF sure
  <2>7. Apply(fit.bins, alike[b]) <= Apply(fit.bins, raw)
    BY <1>2, <1>3, <1>10, <2>1, SurerWhenNearer
  <2>8. Apply(fit.bins, raw) \in Int
    BY <1>3, <2>1, ConfidencesAreNumbers
  <2>9. ~ (sure(a) < least) /\ sure(a) >= heard.confidence
    BY <1>3, <1>8, <1>10, <2>6, <2>7, <2>8
  <2>10. Heard(c, question.matched, a) = told(a)
    BY <1>4, <1>6, <2>9
  <2>11. told(a).unit = b /\ told(a).confidence = sure(a)
    BY <2>5 DEF told
  <2>12. QED
    BY <2>9, <2>10, <2>11 DEF a
<1>12. QED
  BY <1>1, <1>2, <1>5, <1>8, <1>10, <1>11

-----------------------------------------------------------------------------
(* Predicates.  Those that are modelled have at most three layers below the  *)
(* first; every layer is conjunctions, disjunctions and comparisons.         *)
Comparison(n) == n.node = "is"
Flat(n) == \/ Comparison(n)
           \/ n.node \in {"all", "any"} /\ \A m \in Children(n) : Comparison(m)
Nested(n) == \/ Comparison(n)
             \/ n.node \in {"all", "any"} /\ \A m \in Children(n) : Flat(m)
Predicate(n) == \/ Comparison(n)
                \/ n.node \in {"all", "any"} /\ \A m \in Children(n) : Nested(m)

(* What a node says when its children say what f tells of them. *)
Says(f, n, context) ==
  CASE n.node = "all" -> \A i \in DOMAIN n.of : f[n.of[i]]
    [] n.node = "any" -> \E i \in DOMAIN n.of : f[n.of[i]]
    [] n.node = "is" -> ComparisonHolds(n, context)

LEMMA Layers ==
  /\ \A n : Comparison(n) => Flat(n) /\ Children(n) = {}
  /\ \A n : Flat(n) => Nested(n) /\ \A m \in Children(n) : Comparison(m)
  /\ \A n : Nested(n) => Predicate(n) /\ \A m \in Children(n) : Flat(m)
  /\ \A n : Predicate(n) => \A m \in Children(n) : Nested(m)
  /\ \A n : Predicate(n) => n.node \in {"all", "any", "is"}
<1>1. \A n : Comparison(n) => Flat(n) /\ Children(n) = {}
  BY DEF Comparison, Flat, Children
<1>2. \A n : Flat(n) => Nested(n) /\ \A m \in Children(n) : Comparison(m)
  BY <1>1 DEF Flat, Nested
<1>3. \A n : Nested(n) => Predicate(n) /\ \A m \in Children(n) : Flat(m)
  BY <1>1, <1>2 DEF Nested, Predicate
<1>4. \A n : Predicate(n) => \A m \in Children(n) : Nested(m)
  BY <1>1 DEF Predicate
<1>5. \A n : Predicate(n) => n.node \in {"all", "any", "is"}
  BY DEF Predicate, Comparison
<1>6. QED
  BY <1>1, <1>2, <1>3, <1>4, <1>5

LEMMA NodesAreClosed ==
  ASSUME NEW tree, Predicate(tree)
  PROVE  /\ tree \in Nodes(tree)
         /\ \A n \in Nodes(tree) : Predicate(n) /\ Children(n) \subseteq Nodes(tree)
<1> DEFINE first == Children(tree)
           second == ChildrenOf(first)
           third == ChildrenOf(second)
<1>1. Nodes(tree) = {tree} \cup first \cup second \cup third
  BY DEF Nodes
<1>2. \A n \in first : Nested(n) /\ Children(n) \subseteq second
  BY Layers DEF ChildrenOf
<1> HIDE DEF first
<1>3. \A n \in second : Flat(n) /\ Children(n) \subseteq third
  <2>1. \A n \in second : Flat(n)
    BY <1>2, Layers DEF ChildrenOf
  <2>2. QED
    BY <2>1 DEF ChildrenOf
<1> HIDE DEF second
<1>4. \A n \in third : Comparison(n) /\ Children(n) = {}
  BY <1>3, Layers DEF ChildrenOf
<1> HIDE DEF third
<1>5. \A n \in Nodes(tree) : Predicate(n)
  BY <1>1, <1>2, <1>3, <1>4, Layers
<1>6. \A n \in Nodes(tree) : Children(n) \subseteq Nodes(tree)
  <2>1. Children(tree) = first
    BY DEF first
  <2>2. QED
    BY <1>1, <1>2, <1>3, <1>4, <2>1
<1>7. QED
  BY <1>1, <1>5, <1>6

LEMMA SayingsAgree ==
  ASSUME NEW f, NEW g, NEW n, NEW context, Predicate(n),
         \A m \in Children(n) : f[m] = g[m]
  PROVE  Says(f, n, context) = Says(g, n, context)
<1>1. CASE n.node = "is"
  <2>1. \A h : Says(h, n, context) = ComparisonHolds(n, context)
    BY <1>1 DEF Says
  <2>2. QED
    BY <2>1
<1>2. ASSUME n.node # "is" PROVE \A i \in DOMAIN n.of : f[n.of[i]] = g[n.of[i]]
  BY <1>2 DEF Children
<1>3. CASE n.node = "all"
  <2>1. \A h : Says(h, n, context) = \A i \in DOMAIN n.of : h[n.of[i]]
    BY <1>3 DEF Says
  <2>2. QED
    BY <1>2, <1>3, <2>1
<1>4. CASE n.node = "any"
  <2>1. \A h : Says(h, n, context) = \E i \in DOMAIN n.of : h[n.of[i]]
    BY <1>4 DEF Says
  <2>2. QED
    BY <1>2, <1>4, <2>1
<1>5. QED
  BY <1>1, <1>3, <1>4, Layers

(* The function Holds is defined by exists: one pass per layer reaches it.   *)
LEMMA HoldsIsDefined ==
  ASSUME NEW tree, NEW context, Predicate(tree)
  PROVE  \E f : /\ f = [n \in Nodes(tree) |-> Says(f, n, context)]
                /\ Holds(tree, context) = f[tree]
<1> DEFINE S == Nodes(tree)
           pass(f) == [n \in S |-> Says(f, n, context)]
           g0 == [n \in S |-> ComparisonHolds(n, context)]
           g1 == pass(g0)
           g2 == pass(g1)
           g3 == pass(g2)
<1>1. \A n \in S : Predicate(n) /\ Children(n) \subseteq S
  BY NodesAreClosed
<1>2. \A f, g : \A n \in S :
        (\A m \in Children(n) : f[m] = g[m]) => pass(f)[n] = pass(g)[n]
  BY <1>1, SayingsAgree
<1>3. \A n \in S : Comparison(n) => g1[n] = g0[n]
  BY DEF Comparison, Says
<1> HIDE DEF S, pass, g0
<1>4. \A n \in S : Flat(n) => g2[n] = g1[n]
  BY <1>1, <1>2, <1>3, Layers
<1> HIDE DEF g1
<1>5. \A n \in S : Nested(n) => g3[n] = g2[n]
  BY <1>1, <1>2, <1>4, Layers DEF g2
<1> HIDE DEF g2
<1>6. \A n \in S : pass(g3)[n] = g3[n]
  BY ZenonT(40), <1>1, <1>2, <1>5, Layers DEF g3
<1>7. g3 = pass(g3)
  BY <1>6 DEF g3, pass
<1>8. Holds(tree, context) = (CHOOSE f : f = pass(f))[tree]
  BY DEF Holds, pass, Says, S
<1>9. QED
  BY <1>7, <1>8 DEF pass, S

LEMMA HoldsGrows ==
  ASSUME NEW tree, NEW less, NEW more, Predicate(tree),
         \A n \in Comparisons(tree) : ComparisonHolds(n, less) => ComparisonHolds(n, more)
  PROVE  Holds(tree, less) => Holds(tree, more)
<1> DEFINE S == Nodes(tree)
<1>1. /\ tree \in S
      /\ \A n \in S : Predicate(n) /\ Children(n) \subseteq S
  BY NodesAreClosed
<1>2. PICK f : f = [n \in S |-> Says(f, n, less)] /\ Holds(tree, less) = f[tree]
  BY HoldsIsDefined
<1>3. PICK g : g = [n \in S |-> Says(g, n, more)] /\ Holds(tree, more) = g[tree]
  BY HoldsIsDefined
<1>4. \A n \in S : f[n] = Says(f, n, less) /\ g[n] = Says(g, n, more)
  BY <1>2, <1>3
<1>5. \A n \in S : Comparison(n) => (ComparisonHolds(n, less) => ComparisonHolds(n, more))
  BY DEF Comparison, Comparisons
<1> HIDE DEF S
<1>6. ASSUME NEW n \in S, \A m \in Children(n) : f[m] => g[m]
      PROVE  f[n] => g[n]
  <2>1. CASE n.node = "is"
    <3>1. f[n] = ComparisonHolds(n, less) /\ g[n] = ComparisonHolds(n, more)
      BY <1>4, <2>1 DEF Says
    <3>2. QED
      BY <1>5, <2>1, <3>1 DEF Comparison
  <2>2. ASSUME n.node # "is" PROVE \A i \in DOMAIN n.of : f[n.of[i]] => g[n.of[i]]
    BY <1>6, <2>2 DEF Children
  <2>3. CASE n.node = "all"
    <3>1. /\ f[n] = \A i \in DOMAIN n.of : f[n.of[i]]
          /\ g[n] = \A i \in DOMAIN n.of : g[n.of[i]]
      BY <1>4, <2>3 DEF Says
    <3>2. QED
      BY <2>2, <2>3, <3>1
  <2>4. CASE n.node = "any"
    <3>1. /\ f[n] = \E i \in DOMAIN n.of : f[n.of[i]]
          /\ g[n] = \E i \in DOMAIN n.of : g[n.of[i]]
      BY <1>4, <2>4 DEF Says
    <3>2. QED
      BY <2>2, <2>4, <3>1
  <2>5. QED
    BY <1>1, <2>1, <2>3, <2>4, Layers
<1>7. \A n \in S : Comparison(n) => (f[n] => g[n])
  BY <1>6, Layers
<1>8. \A n \in S : Flat(n) => (f[n] => g[n])
  BY <1>1, <1>6, <1>7, Layers
<1>9. \A n \in S : Nested(n) => (f[n] => g[n])
  BY <1>1, <1>6, <1>8, Layers
<1>10. \A n \in S : f[n] => g[n]
  BY <1>1, <1>6, <1>9, Layers
<1>11. QED
  BY <1>1, <1>2, <1>3, <1>10

LEMMA KnowingMore ==
  ASSUME NEW tree, NEW less, NEW more, Predicate(tree),
         \A f \in DOMAIN less : f \in DOMAIN more /\ more[f] = less[f]
  PROVE  Holds(tree, less) => Holds(tree, more)
<1>1. ASSUME NEW n, ComparisonHolds(n, less) PROVE ComparisonHolds(n, more)
  <2>1. Known(n.field, less) # None /\ Compare(n.op, Known(n.field, less), n.value)
    BY <1>1 DEF ComparisonHolds
  <2>2. n.field \in DOMAIN less
    BY <2>1 DEF Known
  <2>3. Known(n.field, more) = Known(n.field, less)
    BY <2>2 DEF Known
  <2>4. QED
    BY <2>1, <2>3 DEF ComparisonHolds
<1>2. QED
  BY <1>1, HoldsGrows

(* What is asked about a predicate, and about a procedure.                   *)
PredicateQuestions ==
  /\ Asked("predicate") => Predicate(question.tree)
  /\ Asked("procedure") =>
       /\ IsFiniteSet(DOMAIN question.procedures)
       /\ \A p \in DOMAIN question.procedures : Predicate(question.procedures[p])
       /\ \A f \in DOMAIN question.context :
            f \in DOMAIN question.more /\ question.more[f] = question.context[f]

LEMMA TheUnknownNeverSatisfies == PredicateQuestions => UnknownNeverSatisfies
<1> SUFFICES ASSUME PredicateQuestions, Asked("predicate"),
                    NEW D \in SUBSET DOMAIN PayloadContext(question.payload)
             PROVE  Holds(question.tree, [f \in D |-> PayloadContext(question.payload)[f]])
                      => Holds(question.tree, PayloadContext(question.payload))
  BY DEF UnknownNeverSatisfies
<1> DEFINE more == PayloadContext(question.payload)
           less == [f \in D |-> more[f]]
<1>1. Predicate(question.tree)
  BY DEF PredicateQuestions
<1> HIDE DEF more
<1>2. \A f \in DOMAIN less : f \in DOMAIN more /\ more[f] = less[f]
  BY DEF more
<1> HIDE DEF less
<1>3. Holds(question.tree, less) => Holds(question.tree, more)
  BY <1>1, <1>2, KnowingMore
<1>4. QED
  BY <1>3 DEF less, more

LEMMA SealingTellsNothing == PredicateQuestions => SealingIsTransparent
<1> DEFINE sent == question.payload
           policy == question.policy
           tree == question.tree
           under(root) == {l \in DOMAIN sent : Below(l, root)}
           collapsed == {root \in policy.subtrees : under(root) # {}}
           kept == (DOMAIN sent \ UNION {under(root) : root \in collapsed}) \cup collapsed
           copy == SealPayload(sent, policy)
           seals(f) == \/ f \in collapsed
                       \/ f \in policy.paths \cup policy.subtrees /\ Usable(sent[f])
           ofSubtree(f) == \E r \in policy.subtrees : f = r \/ Below(f, r)
           true == PayloadContext(sent)
           working == PayloadContext(copy)
<1> SUFFICES ASSUME PredicateQuestions, Asked("predicate"), LintAccepts(tree, policy),
                    \A c \in Comparisons(tree) : ~ ofSubtree(c.field)
             PROVE  Holds(tree, true) <=> Holds(tree, working)
  BY DEF SealingIsTransparent
<1>1. copy = [f \in kept |-> IF seals(f) THEN Placeholder ELSE sent[f]]
  BY DEF SealPayload
<1>2. /\ true = [f \in {l \in DOMAIN sent : Len(l) <= MaxPayloadDepth /\ Usable(sent[l])}
                  |-> Scalar(sent[f])]
      /\ working = [f \in {l \in DOMAIN copy : Len(l) <= MaxPayloadDepth /\ Usable(copy[l])}
                     |-> Scalar(copy[f])]
  BY DEF PayloadContext
<1>3. \A f : ~ ofSubtree(f) =>
        /\ f \in kept <=> f \in DOMAIN sent
        /\ seals(f) <=> f \in policy.paths /\ Usable(sent[f])
  OBVIOUS
<1>4. \A f : f \in policy.paths => Covered(f, policy)
  BY DEF Covered
<1> HIDE DEF copy, kept, seals, true, working, sent
<1>5. Usable(Placeholder) /\ Scalar(Placeholder) = Placeholder
  BY DEF Placeholder, Text, Usable, Scalar
<1>6. \A v : Usable(v) => Usable(Scalar(v))
  BY DEF Usable, Scalar, Text
<1>7. ASSUME NEW v, NEW w, Usable(v), Usable(w), NEW op \in {"eq", "ne"}
      PROVE  Compare(op, v, None) <=> Compare(op, w, None)
  <2>1. v.kind # None.kind /\ w.kind # None.kind
    BY <1>7 DEF Usable, None
  <2>2. ~ Equal(v, None) /\ ~ Equal(w, None)
    BY <2>1 DEF Equal
  <2>3. CASE op = "eq"
    BY <2>2, <2>3 DEF Compare
  <2>4. CASE op = "ne"
    BY <2>2, <2>4 DEF Compare
  <2>5. QED
    BY <2>3, <2>4
<1>8. ASSUME NEW c \in Comparisons(tree)
      PROVE  ComparisonHolds(c, true) <=> ComparisonHolds(c, working)
  <2> DEFINE f == c.field
  <2>1. ~ ofSubtree(f)
    OBVIOUS
  <2>2. /\ f \in DOMAIN copy <=> f \in DOMAIN sent
        /\ f \in DOMAIN sent => copy[f] = IF f \in policy.paths /\ Usable(sent[f])
                                          THEN Placeholder ELSE sent[f]
    BY <1>1, <1>3, <2>1
  <2>3. f \in DOMAIN true <=> f \in DOMAIN working
    BY <1>2, <1>5, <2>2
  <2>4. CASE f \notin DOMAIN true
    BY <2>3, <2>4 DEF ComparisonHolds, Known
  <2>5. CASE f \in DOMAIN true /\ f \notin policy.paths
    <3>1. true[f] = working[f]
      BY <1>2, <2>2, <2>3, <2>5
    <3>2. QED
      BY <2>3, <2>5, <3>1 DEF ComparisonHolds, Known
  <2>6. CASE f \in DOMAIN true /\ f \in policy.paths
    <3>1. PresenceTest(c)
      BY <1>4, <2>6 DEF LintAccepts
    <3>2. Usable(true[f]) /\ Usable(working[f])
      BY <1>2, <1>6, <2>3, <2>6
    <3>3. true[f] # None /\ working[f] # None
      BY <3>2 DEF Usable, None
    <3>4. c.op \in {"eq", "ne"} /\ c.value = None
      BY <3>1 DEF PresenceTest
    <3>5. Compare(c.op, true[f], c.value) <=> Compare(c.op, working[f], c.value)
      BY <1>7, <3>2, <3>4
    <3>6. Known(f, true) = true[f] /\ Known(f, working) = working[f]
      BY <2>3, <2>6 DEF Known
    <3>7. QED
      BY <3>3, <3>5, <3>6 DEF ComparisonHolds
  <2>7. QED
    BY <2>4, <2>5, <2>6
<1>9. Predicate(tree)
  BY DEF PredicateQuestions
<1>10. QED
  BY <1>8, <1>9, HoldsGrows

LEMMA PredicatesAreSafe == PredicateQuestions => PredicatesFailClosed
  BY TheUnknownNeverSatisfies, SealingTellsNothing DEF PredicatesFailClosed

LEMMA AtMostOne ==
  ASSUME NEW S, IsFiniteSet(S), ~ (Cardinality(S) > 1), NEW x \in S, NEW y \in S
  PROVE  x = y
<1> SUFFICES ASSUME x # y PROVE FALSE
  OBVIOUS
<1>1. IsFiniteSet({x}) /\ Cardinality({x}) = 1
  BY FS_Singleton
<1>2. Cardinality({x} \cup {y}) = 2
  BY <1>1, FS_AddElement
<1>3. Cardinality({x} \cup {y}) <= Cardinality(S)
  <2>1. {x} \cup {y} \subseteq S
    OBVIOUS
  <2>2. QED
    BY <2>1, FS_Subset
<1>4. Cardinality(S) \in Nat
  BY FS_CardinalityType
<1>5. QED
  BY <1>2, <1>3, <1>4

LEMMA ProceduresStand == PredicateQuestions => AWordNeverSwitches
<1> DEFINE procs == question.procedures
           hint == question.hint
           few == Candidates(procs, question.context)
           many == Candidates(procs, question.more)
           one == Derive(procs, question.context, hint)
           two == Derive(procs, question.more, hint)
<1> SUFFICES ASSUME PredicateQuestions, Asked("procedure"), one # NoProcedure, two # NoProcedure
             PROVE  one = two
  BY DEF AWordNeverSwitches
<1>1. few \subseteq many /\ many \subseteq DOMAIN procs
  BY KnowingMore DEF Candidates, PredicateQuestions
<1>2. IsFiniteSet(few) /\ IsFiniteSet(many)
  BY <1>1, FS_Subset DEF PredicateQuestions
<1>3. CASE hint \in DOMAIN procs
  BY <1>3 DEF Derive
<1>4. CASE hint \notin DOMAIN procs
  <2>1. /\ ~ (Cardinality(many) > 1) /\ few # {} /\ many # {}
        /\ one = CHOOSE p \in few : TRUE
        /\ two = CHOOSE p \in many : TRUE
    BY <1>4 DEF Derive
  <2>2. \A x, y \in many : x = y
    BY <1>2, <2>1, AtMostOne
  <2>3. few = many
    BY <1>1, <2>1, <2>2
  <2> HIDE DEF few, many, one, two
  <2>4. QED
    BY Zenon, <2>1, <2>3
<1>5. QED
  BY <1>3, <1>4

-----------------------------------------------------------------------------
(* Lists that are folded.  A fold is a function on sets of places, the       *)
(* greatest of them last; these lemmas give its value after each place, so   *)
(* that what holds of every value is shown place by place.                   *)

(* What is said of a text when it is folded, character by character.         *)
Characters == {"v", "V", "w", " ", Sealed}
Written == Seq(Characters)
Spoken(said, c) == IF c # " " THEN Append(said, IF c = "V" THEN "v" ELSE c)
                   ELSE IF said = << >> \/ Last(said) = " " THEN said
                   ELSE Append(said, " ")
Ended(said) == IF said # << >> /\ Last(said) = " " THEN Front(said) ELSE said

SpeakingSteps(text) ==
  {r \in [0..Len(text) -> Written] :
     /\ r[0] = << >>
     /\ \A k \in 1..Len(text) : r[k] = Spoken(r[k-1], text[k])
     /\ FoldedText(text) = Ended(r[Len(text)])}

LEMMA FoldedTextSteps ==
  ASSUME NEW text \in Written
  PROVE  \E r : r \in SpeakingSteps(text)
<1> DEFINE n == Len(text)
           A == Written
           g == [k \in 1..n |-> [a \in A |-> Spoken(a, text[k])]]
           Folds(h) == h = [s \in SUBSET DOMAIN text |->
                              IF s = {} THEN << >> ELSE Spoken(h[s \ {Max(s)}], text[Max(s)])]
           it == CHOOSE h : Folds(h)
           base == << >>
           r == [k \in 0..n |-> it[1..k]]
<1>1. n \in Nat /\ DOMAIN text = 1..n /\ \A k \in 1..n : text[k] \in Characters
  BY DEF Written
<1>2. FoldedText(text) = Ended(it[DOMAIN text])
  BY Zenon DEF FoldedText, FoldLeft, MapThenFoldSet, Ended, Spoken
<1>3. base \in A /\ \A c \in Characters : \A a \in A : Spoken(a, c) \in A
  <2>1. base \in A
    BY DEF Written
  <2>2. ASSUME NEW c \in Characters, NEW a \in A PROVE Spoken(a, c) \in A
    <3> DEFINE d == IF c = "V" THEN "v" ELSE c
    <3>1. d \in Characters /\ " " \in Characters
      <4>1. "v" \in Characters /\ " " \in Characters
        BY DEF Characters
      <4>2. d = "v" \/ d = c
        OBVIOUS
      <4>3. QED
        BY <4>1, <4>2
    <3> HIDE DEF d
    <3>2. Append(a, d) \in A /\ Append(a, " ") \in A
      BY <3>1, AppendedElements DEF Written
    <3>3. Spoken(a, c) \in {Append(a, d), a, Append(a, " ")}
      BY DEF Spoken, d
    <3>4. QED
      BY <3>2, <3>3
  <2>3. QED
    BY <2>1, <2>2
<1> HIDE DEF A, n
<1>4. g \in [1..n -> [A -> A]]
  BY <1>1, <1>3
<1>5. \A k \in 1..n : \A a \in A : g[k][a] = Spoken(a, text[k])
  OBVIOUS
<1> HIDE DEF g, base
<1>6. \E h : Folds(h)
  <2>1. PICK h : h \in FoldOf(n, A, base, g)
    BY <1>1, <1>3, <1>4, FoldExists
  <2>2. /\ h = [s \in SUBSET (1..n) |-> h[s]]
        /\ h[{}] = base
        /\ \A s \in SUBSET (1..n) : s # {} =>
             /\ Max(s) \in 1..n /\ h[s \ {Max(s)}] \in A
             /\ h[s] = g[Max(s)][h[s \ {Max(s)}]]
    BY <1>1, <2>1, FoldOfStep
  <2>3. \A s \in SUBSET (1..n) :
          h[s] = IF s = {} THEN << >> ELSE Spoken(h[s \ {Max(s)}], text[Max(s)])
    BY <1>5, <2>2 DEF base
  <2>4. Folds(h)
    BY <1>1, <2>2, <2>3
  <2>5. QED
    BY <2>4
<1>7. Folds(it)
  BY <1>6, Zenon
<1> HIDE DEF it
<1>8. it[{}] = base
  BY <1>7 DEF base
<1>9. ASSUME NEW k \in 1..n, it[1..(k-1)] \in A PROVE it[1..k] = g[k][it[1..(k-1)]]
  <2>1. 1..k \in SUBSET DOMAIN text /\ 1..k # {} /\ Max(1..k) = k /\ (1..k) \ {k} = 1..(k-1)
    BY <1>1, FirstPlaces
  <2>2. it[1..k] = Spoken(it[(1..k) \ {Max(1..k)}], text[Max(1..k)])
    BY <1>7, <2>1
  <2>3. QED
    BY <1>5, <1>9, <2>1, <2>2
<1>10. r \in StepsOf(n, A, base, g)
  <2> HIDE DEF Folds
  <2>1. QED
    BY <1>1, <1>3, <1>4, <1>8, <1>9, FoldSteps
<1> HIDE DEF r
<1>11. r \in [0..n -> A] /\ r[0] = base /\ \A k \in 1..n : r[k-1] \in A /\ r[k] = g[k][r[k-1]]
  BY <1>1, <1>10 DEF StepsOf
<1>12. \A k \in 1..n : r[k] = Spoken(r[k-1], text[k])
  BY <1>5, <1>11
<1>13. FoldedText(text) = Ended(r[n])
  BY <1>1, <1>2 DEF r
<1>14. r \in SpeakingSteps(text)
  BY <1>11, <1>12, <1>13 DEF base, n, A, SpeakingSteps
<1>15. QED
  BY <1>14

LEMMA AppendedLast ==
  ASSUME NEW S, NEW list \in Seq(S), NEW e \in S
  PROVE  /\ Append(list, e) \in Seq(S) /\ Append(list, e) # << >>
         /\ Last(Append(list, e)) = e
         /\ Front(Append(list, e)) = list
<1> DEFINE out == Append(list, e)
<1>1. /\ out \in Seq(S) /\ Len(list) \in Nat
      /\ Len(out) = Len(list) + 1
      /\ \A i \in 1..Len(list) : out[i] = list[i]
      /\ out[Len(list) + 1] = e
  BY AppendedElements
<1> HIDE DEF out
<1>2. out # << >> /\ Last(out) = e
  BY <1>1 DEF Last
<1>3. Front(out) = list
  <2>1. Len(out) - 1 = Len(list)
    BY <1>1
  <2>2. Front(out) \in Seq(S) /\ Len(Front(out)) = Len(list)
    BY <1>1, <2>1 DEF Front
  <2>3. \A i \in 1..Len(list) : Front(out)[i] = list[i]
    BY <1>1, <2>1 DEF Front
  <2>4. QED
    BY <1>1, <2>2, <2>3
<1>4. QED
  BY <1>1, <1>2, <1>3 DEF out

(* The blanks around a text are not said.                                    *)
LEMMA SpokenKinds ==
  ASSUME NEW said \in Written, NEW c \in Characters
  PROVE  /\ c = " " /\ said = << >> => Spoken(said, c) = << >>
         /\ c = " " /\ said # << >> /\ Last(said) = " " => Spoken(said, c) = said
         /\ c = " " /\ said # << >> /\ Last(said) # " " => Spoken(said, c) = Append(said, " ")
         /\ c # " " => /\ Spoken(said, c) \in Written /\ Spoken(said, c) # << >>
                       /\ Last(Spoken(said, c)) # " "
<1>1. ASSUME c # " "
      PROVE  Spoken(said, c) \in Written /\ Spoken(said, c) # << >> /\ Last(Spoken(said, c)) # " "
  <2> DEFINE d == IF c = "V" THEN "v" ELSE c
             out == Append(said, d)
  <2>1. d \in Characters /\ d # " "
    BY <1>1 DEF Characters
  <2>2. Spoken(said, c) = out
    BY <1>1 DEF Spoken
  <2> HIDE DEF d
  <2>3. out \in Written /\ out # << >> /\ Last(out) = d
    BY <2>1, AppendedLast DEF Written
  <2> HIDE DEF out
  <2>4. QED
    BY <2>1, <2>2, <2>3
<1>2. QED
  BY <1>1, Zenon DEF Spoken

LEMMA SpokenEnds ==
  ASSUME NEW said \in Written, said = << >> \/ Last(said) # " "
  PROVE  /\ Ended(said) = said
         /\ said # << >> => Ended(Append(said, " ")) = said
<1>1. Ended(said) = said
  BY DEF Ended
<1>2. ASSUME said # << >> PROVE Ended(Append(said, " ")) = said
  <2> DEFINE out == Append(said, " ")
  <2>1. " " \in Characters
    BY DEF Characters
  <2>2. out # << >> /\ Last(out) = " " /\ Front(out) = said
    BY <2>1, AppendedLast DEF Written
  <2> HIDE DEF out
  <2>3. Ended(out) = said
    BY <2>2 DEF Ended
  <2>4. QED
    BY <2>3 DEF out
<1>3. QED
  BY <1>1, <1>2

LEMMA TrimmedIs ==
  ASSUME NEW text \in Written
  PROVE  \/ TrimmedText(text) = << >> /\ \A i \in 1..Len(text) : text[i] = " "
         \/ \E a, b \in 1..Len(text) :
              /\ a <= b /\ text[b] # " "
              /\ \A i \in 1..(a-1) : text[i] = " "
              /\ \A i \in (b+1)..Len(text) : text[i] = " "
              /\ TrimmedText(text) = SubSeq(text, a, b)
<1> DEFINE n == Len(text)
           solid == {i \in DOMAIN text : text[i] # " "}
           Starts(i) == i \in solid /\ \A j \in solid : i <= j
           Stops(i) == i \in solid /\ \A j \in solid : j <= i
           a == CHOOSE i \in solid : \A j \in solid : i <= j
           b == CHOOSE i \in solid : \A j \in solid : j <= i
<1>1. n \in Nat /\ DOMAIN text = 1..n
  BY DEF Written
<1>2. CASE solid = {}
  <2>1. TrimmedText(text) = << >>
    BY <1>2 DEF TrimmedText
  <2>2. QED
    BY <1>1, <1>2, <2>1
<1>3. CASE solid # {}
  <2>1. solid \subseteq 1..n
    BY <1>1
  <2>2. \E i \in solid : \A j \in solid : i <= j
    <3> HIDE DEF solid, n
    <3>1. solid \subseteq Nat
      BY <1>1, <2>1
    <3>2. QED
      BY <1>3, <3>1, LeastNumber
  <2>3. \E i \in solid : \A j \in solid : j <= i
    <3> HIDE DEF solid, n
    <3>1. QED
      BY <1>1, <1>3, <2>1, GreatestPlace
  <2>4. Starts(a)
    <3> HIDE DEF solid
    <3>1. QED
      BY <2>2, Zenon
  <2>5. Stops(b)
    <3> HIDE DEF solid
    <3>1. QED
      BY <2>3, Zenon
  <2>6. TrimmedText(text) = SubSeq(text, a, b)
    BY <1>3, Zenon DEF TrimmedText
  <2> HIDE DEF a, b
  <2>7. a \in 1..n /\ b \in 1..n /\ a <= b /\ text[b] # " "
    BY <2>1, <2>4, <2>5
  <2>8. \A i \in 1..(a-1) : text[i] = " "
    <3>1. n \in Nat /\ a \in 1..n /\ b \in 1..n
      BY <1>1, <2>7
    <3>2. ASSUME NEW i \in 1..(a-1) PROVE i \in 1..n /\ ~ (a <= i)
      <4> HIDE DEF n
      <4>1. QED
        BY <3>1
    <3>3. QED
      BY <1>1, <2>4, <3>2
  <2>9. \A i \in (b+1)..n : text[i] = " "
    <3>1. n \in Nat /\ a \in 1..n /\ b \in 1..n
      BY <1>1, <2>7
    <3>2. ASSUME NEW i \in (b+1)..n PROVE i \in 1..n /\ ~ (i <= b)
      <4> HIDE DEF n
      <4>1. QED
        BY <3>1
    <3>3. QED
      BY <1>1, <2>5, <3>2
  <2>10. QED
    BY <2>6, <2>7, <2>8, <2>9
<1>4. QED
  BY <1>2, <1>3

LEMMA CutOut ==
  ASSUME NEW S, NEW list \in Seq(S), NEW a \in 1..Len(list), NEW b \in 1..Len(list), a <= b
  PROVE  LET cut == SubSeq(list, a, b)
         IN  cut \in Seq(S) /\ Len(cut) = b - a + 1
             /\ \A k \in 1..(b - a + 1) : cut[k] = list[a - 1 + k]
<1>1. Len(list) \in Nat
  OBVIOUS
<1>2. Len(SubSeq(list, a, b)) = b - a + 1
  BY <1>1
<1>3. SubSeq(list, a, b) \in Seq(S)
  BY <1>1
<1>4. \A k \in 1..(b - a + 1) : SubSeq(list, a, b)[k] = list[a - 1 + k]
  BY <1>1
<1>5. QED
  BY <1>2, <1>3, <1>4

LEMMA TrimmingIsSilent ==
  ASSUME NEW text \in Written
  PROVE  /\ TrimmedText(text) \in Written
         /\ FoldedText(TrimmedText(text)) = FoldedText(text)
<1> DEFINE n == Len(text)
           w == TrimmedText(text)
           Space(i) == text[i] = " "
           Solid(said) == said # << >> /\ Last(said) # " "
           Spaced(said) == Append(said, " ")
<1>1. n \in Nat /\ \A i \in 1..n : text[i] \in Characters
  BY DEF Written
<1>p. PICK r : r \in SpeakingSteps(text)
  BY FoldedTextSteps
<1>2. /\ \A k \in 0..n : r[k] \in Written
      /\ r[0] = << >>
      /\ \A k \in 1..n : r[k] = Spoken(r[k-1], text[k])
      /\ FoldedText(text) = Ended(r[n])
  BY <1>p DEF SpeakingSteps
<1>3. \A k \in 1..n : k \in 0..n /\ k - 1 \in 0..n
  BY <1>1
<1>4. << >> \in Written /\ Ended(<< >>) = << >>
  BY DEF Ended, Written
<1>5. ASSUME NEW k \in 1..n
      PROVE  /\ r[k] \in Written
             /\ Space(k) /\ r[k-1] = << >> => r[k] = << >>
             /\ Space(k) /\ Solid(r[k-1]) => r[k] = Spaced(r[k-1])
             /\ \A x \in Written : Space(k) /\ r[k-1] = Spaced(x) => r[k] = Spaced(x)
             /\ ~ Space(k) => Solid(r[k])
  <2>1. r[k] \in Written /\ r[k-1] \in Written /\ text[k] \in Characters
    BY <1>1, <1>2, <1>3
  <2>2. r[k] = Spoken(r[k-1], text[k])
    BY <1>2
  <2>3. " " \in Characters
    BY DEF Characters
  <2>4. \A x \in Written : Spaced(x) # << >> /\ Last(Spaced(x)) = " "
    BY <2>3, AppendedLast DEF Written
  <2> DEFINE was == r[k-1]
             c == text[k]
  <2>5. was \in Written /\ c \in Characters /\ r[k] = Spoken(was, c)
    BY <2>1, <2>2
  <2> HIDE DEF n, was, c
  <2>6. /\ c = " " /\ was = << >> => r[k] = << >>
        /\ c = " " /\ was # << >> /\ Last(was) = " " => r[k] = was
        /\ c = " " /\ was # << >> /\ Last(was) # " " => r[k] = Append(was, " ")
        /\ c # " " => /\ r[k] # << >> /\ Last(r[k]) # " "
    BY <2>5, SpokenKinds
  <2>7. \A x \in Written : c = " " /\ was = Spaced(x) => r[k] = Spaced(x)
    <3> HIDE DEF Spaced
    <3>1. QED
      BY <2>4, <2>6
  <2>8. /\ Space(k) /\ r[k-1] = << >> => r[k] = << >>
        /\ Space(k) /\ Solid(r[k-1]) => r[k] = Spaced(r[k-1])
        /\ ~ Space(k) => Solid(r[k])
    BY <2>6, Zenon DEF was, c
  <2>9. \A x \in Written : Space(k) /\ r[k-1] = Spaced(x) => r[k] = Spaced(x)
    BY <2>7, Zenon DEF was, c
  <2> HIDE DEF Space, Solid, Spaced
  <2>10. QED
    BY <2>1, <2>8, <2>9
<1>6. \A x \in Written : Solid(x) => Ended(x) = x /\ Ended(Spaced(x)) = x
  BY SpokenEnds
<1>7. \/ w = << >> /\ \A i \in 1..n : Space(i)
      \/ \E a, b \in 1..n :
           /\ a <= b /\ ~ Space(b)
           /\ \A i \in 1..(a-1) : Space(i)
           /\ \A i \in (b+1)..n : Space(i)
           /\ w = SubSeq(text, a, b)
  BY TrimmedIs
<1>8. /\ r[0] = << >> /\ FoldedText(text) = Ended(r[n])
      /\ \A k \in 1..n : r[k] = Spoken(r[k-1], text[k])
  BY <1>2
<1> HIDE DEF Space, Solid, Spaced
<1>9. ASSUME w = << >>, \A i \in 1..n : Space(i)
      PROVE  w \in Written /\ FoldedText(w) = FoldedText(text)
  <2> DEFINE T == {k \in 0..n : r[k] = << >>}
  <2> HIDE DEF n, w
  <2>1. 0 \in T
    BY <1>1, <1>8
  <2>2. ASSUME NEW k \in 1..n, k - 1 \in T PROVE k \in T
    BY <1>3, <1>5, <1>9, <2>2
  <2>3. \A k \in 0..n : k \in T
    <3> HIDE DEF T
    <3>1. QED
      BY <1>1, <2>1, <2>2, EveryPlace
  <2>4. r[n] = << >>
    BY <1>1, <2>3
  <2>5. FoldedText(<< >>) = << >>
    <3>1. PICK e : e \in SpeakingSteps(<< >>)
      BY <1>4, FoldedTextSteps
    <3>2. Len(<< >>) = 0
      OBVIOUS
    <3>3. FoldedText(<< >>) = Ended(e[0]) /\ e[0] = << >>
      BY <3>1, <3>2 DEF SpeakingSteps
    <3>4. QED
      BY <1>4, <3>3
  <2>6. QED
    BY <1>4, <1>8, <1>9, <2>4, <2>5
<1>10. ASSUME NEW a \in 1..n, NEW b \in 1..n,
              a <= b, ~ Space(b),
              \A i \in 1..(a-1) : Space(i),
              \A i \in (b+1)..n : Space(i),
              w = SubSeq(text, a, b)
       PROVE  w \in Written /\ FoldedText(w) = FoldedText(text)
  <2> DEFINE m == b - a + 1
             x == a - 1
             l == n - b
  <2>1. /\ m \in Nat /\ x \in Nat /\ l \in Nat
        /\ 0 \in 0..m /\ m \in 0..m /\ 0 \in 0..x /\ x \in 0..x /\ 0 \in 0..l /\ l \in 0..l
        /\ x + 0 = x /\ x + m = b /\ b + 0 = b /\ b + l = n
    <3> HIDE DEF n
    <3>1. QED
      BY <1>1, <1>10
  <2>2. /\ \A k \in 1..m : /\ x + k \in 1..n /\ x + k - 1 = x + (k - 1) /\ k \in 0..m
        /\ \A k \in 1..x : k \in 1..n /\ k \in 0..x
        /\ \A k \in 1..l : /\ b + k \in 1..n /\ b + k \in (b+1)..n /\ k \in 0..l
                           /\ b + k - 1 = b + (k - 1)
    <3> HIDE DEF n
    <3>1. QED
      BY <1>1, <1>10
  <2>3. w \in Written /\ Len(w) = m /\ \A k \in 1..m : w[k] = text[x + k]
    BY <1>10, CutOut DEF Written
  <2>p. PICK e : e \in SpeakingSteps(w)
    BY <2>3, FoldedTextSteps
  <2> HIDE DEF n, w, m, l
  <2>4. /\ e[0] = << >>
        /\ \A k \in 1..m : e[k] = Spoken(e[k-1], w[k])
        /\ FoldedText(w) = Ended(e[m])
    BY <2>p, <2>3 DEF SpeakingSteps
  <2>5. \A k \in 1..x : Space(k)
    BY <1>10
  <2> HIDE DEF x
  <2>6. r[x] = << >>
    <3> DEFINE T == {k \in 0..x : r[k] = << >>}
    <3>1. 0 \in T
      BY <1>8, <2>1
    <3>2. ASSUME NEW k \in 1..x, k - 1 \in T PROVE k \in T
      BY <1>5, <2>2, <2>5, <3>2
    <3>3. \A k \in 0..x : k \in T
      <4> HIDE DEF T
      <4>1. QED
        BY <2>1, <3>1, <3>2, EveryPlace
    <3>4. QED
      BY <2>1, <3>3
  <2>7. e[m] = r[b]
    <3> DEFINE T == {k \in 0..m : e[k] = r[x + k]}
    <3>1. 0 \in T
      BY <2>1, <2>4, <2>6
    <3>2. ASSUME NEW k \in 1..m, k - 1 \in T PROVE k \in T
      <4> DEFINE y == x + k
      <4>a. y \in 1..n /\ e[k-1] = r[y-1]
        <5>1. e[k-1] = r[x + (k - 1)]
          BY <3>2
        <5>2. x + k \in 1..n
          BY <2>2
        <5>3. y \in 1..n /\ y - 1 = x + (k - 1)
          BY <2>1, <5>2
        <5> HIDE DEF y
        <5>4. QED
          BY <5>1, <5>3
      <4>b. w[k] = text[y]
        BY <2>3, Zenon
      <4>1. y \in 1..n /\ e[k-1] = r[y-1] /\ w[k] = text[y]
        BY <4>a, <4>b
      <4> HIDE DEF y
      <4>2. e[k] = r[y]
        BY <1>8, <2>4, <4>1
      <4>3. QED
        BY <2>2, <4>2 DEF y
    <3>3. \A k \in 0..m : k \in T
      <4> HIDE DEF T
      <4>1. QED
        BY <2>1, <3>1, <3>2, EveryPlace
    <3>4. e[m] = r[x + m]
      BY <2>1, <3>3
    <3>5. QED
      BY <2>1, <3>4
  <2>8. r[b] \in Written /\ Solid(r[b])
    BY <1>5, <1>10
  <2>9. r[n] \in {r[b], Spaced(r[b])}
    <3> DEFINE T == {k \in 0..l : r[b + k] \in {r[b], Spaced(r[b])}}
    <3>1. 0 \in T
      BY <2>1
    <3>2. ASSUME NEW k \in 1..l, k - 1 \in T PROVE k \in T
      <4> DEFINE y == b + k
      <4>1. y \in 1..n /\ Space(y) /\ r[y-1] \in {r[b], Spaced(r[b])}
        BY <1>10, <2>2, <3>2
      <4> HIDE DEF y
      <4>2. r[y] \in {r[b], Spaced(r[b])}
        BY <1>5, <2>8, <4>1
      <4>3. QED
        BY <2>2, <4>2 DEF y
    <3>3. \A k \in 0..l : k \in T
      <4> HIDE DEF T
      <4>1. QED
        BY <2>1, <3>1, <3>2, EveryPlace
    <3>4. r[b + l] \in {r[b], Spaced(r[b])}
      BY <2>1, <3>3
    <3>5. QED
      BY <2>1, <3>4
  <2>10. Ended(r[n]) = r[b] /\ Ended(r[b]) = r[b]
    BY <1>6, <2>8, <2>9
  <2>11. QED
    BY <1>8, <2>3, <2>4, <2>7, <2>10
<1> HIDE DEF w, n
<1>11. w \in Written /\ FoldedText(w) = FoldedText(text)
  BY <1>7, <1>9, <1>10
<1>12. QED
  BY <1>11 DEF w

(* The parts of a submission are texts of it, under the type each is due.    *)
TextForms == [text : Written, says : STRING]
SentTexts(submission) ==
  {submission.body} \cup {submission.attachments[i] : i \in DOMAIN submission.attachments}

LEMMA PartsAreSent ==
  ASSUME NEW submission, submission.body \in TextForms,
         submission.attachments \in Seq(TextForms)
  PROVE  LET parts == TextPartsOf(submission)
         IN  \E m \in 0..(1 + Len(submission.attachments)) :
               /\ DOMAIN parts = 1..m
               /\ \A i \in 1..m : \E t \in SentTexts(submission) :
                    /\ t \in TextForms /\ parts[i].text = t.text
                    /\ parts[i].type = SourceTypeOf(t.says, submission.channel)
<1> DEFINE body == submission.body
           att == submission.attachments
           all == <<body>> \o att
           these == {part \in Range(all) : ~ BlankText(part.text)}
           texts == Those(all, these)
           parts == TextPartsOf(submission)
<1>1. parts = [i \in DOMAIN texts |->
                 [text |-> texts[i].text, type |-> SourceTypeOf(texts[i].says, submission.channel)]]
  BY DEF TextPartsOf
<1>2. /\ all \in Seq(TextForms) /\ Len(all) = 1 + Len(att) /\ Len(att) \in Nat
      /\ \A i \in 1..Len(all) : all[i] \in SentTexts(submission)
  <2>1. /\ body \in TextForms /\ att \in Seq(TextForms)
        /\ SentTexts(submission) = {body} \cup {att[i] : i \in DOMAIN att}
    BY DEF SentTexts
  <2> HIDE DEF body, att
  <2>2. <<body>> \in Seq(TextForms) /\ Len(<<body>>) = 1 /\ <<body>>[1] = body
    BY <2>1
  <2>3. all \in Seq(TextForms) /\ Len(all) = 1 + Len(att) /\ Len(att) \in Nat
    BY <2>1, <2>2
  <2>4. ASSUME NEW i \in 1..Len(all) PROVE all[i] \in {body} \cup {att[k] : k \in DOMAIN att}
    <3>1. CASE i = 1
      BY <2>1, <2>2, <3>1
    <3>2. CASE i # 1
      <4>1. i - 1 \in DOMAIN att /\ all[i] = att[i - 1]
        BY <2>1, <2>3, <3>2
      <4>2. QED
        BY <4>1
    <3>3. QED
      BY <3>1, <3>2
  <2>5. QED
    BY <2>1, <2>3, <2>4
<1> HIDE DEF all, these, att, body
<1>3. AreKept(texts, TextForms, all, these)
  BY <1>2, ThoseAreKept
<1> HIDE DEF texts
<1>4. /\ texts \in Seq(TextForms) /\ DOMAIN texts = 1..Len(texts) /\ Len(texts) \in Nat
      /\ \A k \in 1..Len(texts) : texts[k] \in SentTexts(submission)
  <2>1. texts \in Seq(TextForms)
    BY <1>3 DEF AreKept
  <2>2. \A k \in 1..Len(texts) : \E i \in 1..Len(all) : texts[k] = all[i]
    BY <1>3 DEF AreKept
  <2>3. QED
    BY <1>2, <2>1, <2>2
<1>5. Len(texts) <= 1 + Len(att)
  <2> DEFINE C == {i \in 1..Len(all) : all[i] \in these}
             N == 1..Len(all)
  <2>1. Len(texts) = Cardinality(C)
    BY <1>3 DEF AreKept
  <2>2. IsFiniteSet(N) /\ Cardinality(N) = Len(all)
    BY <1>2, FS_Interval
  <2>3. C \subseteq N
    OBVIOUS
  <2> HIDE DEF C, N
  <2>4. Cardinality(C) <= Cardinality(N)
    BY <2>2, <2>3, FS_Subset
  <2>5. QED
    BY <1>2, <2>1, <2>2, <2>4
<1>6. ASSUME NEW i \in 1..Len(texts)
      PROVE  \E t \in SentTexts(submission) :
               /\ t \in TextForms /\ parts[i].text = t.text
               /\ parts[i].type = SourceTypeOf(t.says, submission.channel)
  <2>1. texts[i] \in TextForms /\ texts[i] \in SentTexts(submission)
    BY <1>4
  <2>2. /\ parts[i].text = texts[i].text
        /\ parts[i].type = SourceTypeOf(texts[i].says, submission.channel)
    BY <1>1, <1>4
  <2>3. QED
    BY <2>1, <2>2
<1>7. DOMAIN parts = 1..Len(texts) /\ Len(texts) \in 0..(1 + Len(att))
  BY <1>1, <1>2, <1>4, <1>5
<1> HIDE DEF parts
<1>8. QED
  BY <1>6, <1>7 DEF parts, att

(* What a fixture declares, what a model answers, and the proposals.         *)
FixtureEntries == [field : STRING, part : Int, anchor : Written,
                   mode : {"literal", "sealed"}, value : Written, quote : Written]
AnswerEntries == [field : STRING, value : Written, quote : Written, offset : Int,
                  typed : {TRUE}]
ProposalForms == [field : STRING, value : Written, quote : Written, part : Int, offset : Int]

LEMMA ProposalsHaveForm ==
  ASSUME NEW field \in STRING, NEW value \in Written, NEW quote \in Written,
         NEW part \in Int, NEW offset \in Int
  PROVE  Proposal(field, value, quote, part, offset) \in ProposalForms
  BY DEF Proposal, ProposalForms

LEMMA AnchorIsFound ==
  ASSUME NEW text \in Written, NEW anchor \in Written, Places(text, anchor) # {}
  PROVE  /\ AnchorStart(text, anchor) \in Int
         /\ ValueStart(text, anchor) \in Int
<1> DEFINE places == Places(text, anchor)
           n == Len(text)
           start == AnchorStart(text, anchor)
           from == start + Len(anchor)
           Ends(k) == /\ \A j \in from + 1 .. k : text[j] = " "
                      /\ k < Len(text) => text[k + 1] # " "
           end == CHOOSE k \in from .. Len(text) : Ends(k)
<1>1. n \in Nat /\ Len(anchor) \in Nat
  BY DEF Written
<1>2. places \subseteq 0 .. n - Len(anchor)
  BY DEF Places
<1>3. start \in places
  <2>1. \E k \in places : \A j \in places : k <= j
    <3>1. places \subseteq Nat
      BY <1>1, <1>2
    <3> HIDE DEF places
    <3>2. QED
      BY <3>1, LeastNumber DEF places
  <2>2. start = CHOOSE k \in places : \A j \in places : k <= j
    BY Zenon DEF AnchorStart
  <2> HIDE DEF places, start
  <2>3. QED
    BY <2>1, <2>2, Zenon
<1>4. start \in Int /\ from \in Int /\ from <= n /\ from >= 0
  <2> HIDE DEF places, n, start
  <2>1. QED
    BY <1>1, <1>2, <1>3
<1>5. ValueStart(text, anchor) = end
  BY Zenon DEF ValueStart
<1>6. \E k \in from .. n : Ends(k)
  <2> DEFINE Stop(k) == k = n \/ text[k + 1] # " "
             stops == {k \in from .. n : Stop(k)}
  <2>1. n \in stops
    <3> HIDE DEF from, n
    <3>1. n \in from .. n /\ Stop(n)
      BY <1>1, <1>4
    <3>2. QED
      BY <3>1
  <2>2. stops \subseteq Nat
    <3>1. from .. n \subseteq Nat
      <4> HIDE DEF from, n
      <4>1. QED
        BY <1>1, <1>4
    <3> HIDE DEF from, n, Stop
    <3>2. QED
      BY <3>1
  <2>3. PICK k \in stops : \A j \in stops : k <= j
    <3> HIDE DEF stops
    <3>1. QED
      BY <2>1, <2>2, LeastNumber
  <2>4. k \in from .. n /\ Stop(k)
    OBVIOUS
  <2>5. ASSUME NEW j \in from + 1 .. k PROVE text[j] = " "
    <3> DEFINE i == j - 1
    <3>1. i \in from .. n /\ ~ (k <= i) /\ i # n /\ i + 1 = j
      <4> HIDE DEF from, n, Stop
      <4>1. QED
        BY <1>1, <1>4, <2>4
    <3> HIDE DEF i
    <3>2. ~ Stop(i)
      BY <2>3, <3>1
    <3>3. QED
      BY <3>1, <3>2
  <2>6. k < n => text[k + 1] # " "
    <3>1. k < n => k # n
      <4> HIDE DEF from, n, stops, Stop
      <4>1. k \in from .. n
        BY <2>4
      <4>2. from \in Int /\ n \in Int
        BY <1>1, <1>4
      <4>3. QED
        BY <4>1, <4>2
    <3>2. QED
      BY <2>4, <3>1, Zenon
  <2>7. QED
    BY <2>4, <2>5, <2>6
<1>7. end \in from .. n
  <2> HIDE DEF from, Ends
  <2>1. QED
    BY <1>6, Zenon
<1> HIDE DEF end, from, start, n
<1>8. end \in Int
  BY <1>1, <1>4, <1>7
<1>9. QED
  BY <1>4, <1>5, <1>8 DEF start

LEMMA ReplayedHaveForm ==
  ASSUME NEW entry \in FixtureEntries, NEW parts, NEW m \in Nat, DOMAIN parts = 1..m,
         \A i \in 1..m : parts[i].text \in Written
  PROVE  Replayed(entry, parts) \in Seq(ProposalForms)
<1> DEFINE text == parts[entry.part].text
           P == ProposalForms
<1>1. /\ entry.field \in STRING /\ entry.part \in Int /\ entry.anchor \in Written
      /\ entry.value \in Written /\ entry.quote \in Written
  BY DEF FixtureEntries
<1>2. << >> \in Seq(P) /\ \A p \in P : << p >> \in Seq(P)
  <2> HIDE DEF P
  <2>1. QED
    OBVIOUS
<1>3. CASE entry.part \notin DOMAIN parts \/ Places(text, entry.anchor) = {}
  <2>1. Replayed(entry, parts) = << >>
    BY <1>3, Zenon DEF Replayed
  <2>2. QED
    BY <1>2, <2>1
<1>4. CASE entry.part \in DOMAIN parts /\ Places(text, entry.anchor) # {}
  <2> DEFINE at == ValueStart(text, entry.anchor)
             said == Proposal(entry.field, entry.value, entry.quote, entry.part,
                              AnchorStart(text, entry.anchor))
             sealed == Proposal(entry.field, <<Sealed>>, <<Sealed>>, entry.part, at)
  <2>1. text \in Written
    BY <1>4
  <2> HIDE DEF text
  <2>2. AnchorStart(text, entry.anchor) \in Int /\ at \in Int
    BY <1>1, <1>4, <2>1, AnchorIsFound
  <2>3. <<Sealed>> \in Written
    <3>1. Sealed \in Characters
      BY DEF Characters
    <3>2. QED
      BY <3>1 DEF Written
  <2>4. said \in P /\ sealed \in P
    <3> HIDE DEF at
    <3>1. QED
      BY <1>1, <2>2, <2>3, ProposalsHaveForm
  <2>5. Replayed(entry, parts) \in {<< >>, << said >>, << sealed >>}
    <3>1. \/ Replayed(entry, parts) = << said >>
          \/ Replayed(entry, parts) = << sealed >>
          \/ Replayed(entry, parts) = << >>
      BY <1>4, Zenon DEF Replayed, text
    <3>2. QED
      BY <3>1
  <2> HIDE DEF said, sealed, P
  <2>6. QED
    BY <1>2, <2>4, <2>5 DEF P
<1>5. QED
  BY <1>3, <1>4

LEMMA AnswersHaveForm ==
  ASSUME NEW answers, DOMAIN answers \subseteq Nat,
         \A i \in DOMAIN answers : WellFormed(answers[i]) =>
           answers[i].entries \in Seq(AnswerEntries),
         NEW attempts, NEW part \in Int, NEW text, NEW fields
  PROVE  LiveProposals(answers, attempts, part, text, fields) \in Seq(ProposalForms)
<1> DEFINE good == Answered(answers, attempts)
           first == CHOOSE i \in good : \A j \in good : i <= j
           entries == answers[first].entries
           these == {e \in Range(entries) : e.field \in fields}
           wanted == Those(entries, these)
           told == [k \in DOMAIN wanted |->
                      Proposal(wanted[k].field, wanted[k].value, wanted[k].quote, part,
                               wanted[k].offset)]
           proposals == LiveProposals(answers, attempts, part, text, fields)
           P == ProposalForms
<1>1. CASE good = {} \/ text = << >> \/ fields = {}
  <2>1. proposals = << >>
    BY <1>1, Zenon DEF LiveProposals
  <2>2. QED
    BY <2>1
<1>2. CASE good # {} /\ ~ (text = << >> \/ fields = {})
  <2>1. proposals = told
    BY <1>2, Zenon DEF LiveProposals
  <2>2. first \in good
    <3>1. good \subseteq Nat
      BY DEF Answered
    <3> HIDE DEF good
    <3>2. \E i \in good : \A j \in good : i <= j
      BY <1>2, <3>1, LeastNumber
    <3>3. QED
      BY <3>2, Zenon
  <2> HIDE DEF first
  <2>3. entries \in Seq(AnswerEntries)
    BY <2>2 DEF Answered
  <2> HIDE DEF entries, these
  <2>4. wanted \in Seq(AnswerEntries)
    BY <2>3, ThoseAreKept DEF AreKept
  <2> HIDE DEF wanted
  <2>5. /\ Len(wanted) \in Nat /\ DOMAIN wanted = 1..Len(wanted)
        /\ \A k \in 1..Len(wanted) : wanted[k] \in AnswerEntries
    BY <2>4
  <2>6. ASSUME NEW k \in 1..Len(wanted)
        PROVE  Proposal(wanted[k].field, wanted[k].value, wanted[k].quote, part,
                        wanted[k].offset) \in P
    <3> DEFINE e == wanted[k]
    <3>1. e \in AnswerEntries
      BY <2>5
    <3> HIDE DEF e
    <3>2. e.field \in STRING /\ e.value \in Written /\ e.quote \in Written /\ e.offset \in Int
      BY <3>1 DEF AnswerEntries
    <3>3. QED
      BY <3>2, ProposalsHaveForm DEF e
  <2> HIDE DEF P
  <2>7. told \in Seq(P)
    BY <2>5, <2>6
  <2>8. QED
    BY <2>1, <2>7 DEF P
<1>3. QED
  BY <1>1, <1>2

(* What is asked about an extraction: any map of fields, any submission,     *)
(* fixture, posture and policy, any answers to each part.                    *)
Answerable(answers) ==
  /\ DOMAIN answers \subseteq Nat
  /\ \A k \in DOMAIN answers : WellFormed(answers[k]) =>
       answers[k].entries \in Seq(AnswerEntries)

ExtractionQuestions ==
  Asked("extraction") =>
    /\ question.fieldMap \in Seq(STRING)
    /\ question.submission.body \in TextForms
    /\ question.submission.attachments \in Seq(TextForms)
    /\ question.fixture \in Seq(FixtureEntries)
    /\ \A i \in 1..(1 + Len(question.submission.attachments)) : Answerable(question.answers[i])

(* A procedure maps each field once.  The shipped ones do; the loader does not *)
(* look (ProcedureConfig._consistent), and a field mapped twice would have two *)
(* records, or be a loss and a record at once.                               *)
MapsEachFieldOnce == Asked("extraction") => AllApart(question.fieldMap)

LEMMA ProposalsAreAList ==
  ASSUME NEW q, NEW parts, NEW m \in Nat, DOMAIN parts = 1..m,
         \A i \in 1..m : parts[i].text \in Written,
         q.fixture \in Seq(FixtureEntries),
         \A i \in 1..m : Answerable(q.answers[i])
  PROVE  Proposals(q, parts) \in Seq(ProposalForms)
<1> DEFINE P == ProposalForms
           replayed == [i \in DOMAIN q.fixture |-> Replayed(q.fixture[i], parts)]
           told == [i \in DOMAIN parts |->
                      LiveProposals(q.answers[i], q.policy.attempts, i, parts[i].text,
                                    Described(q))]
<1>1. FlattenSeq(replayed) \in Seq(P)
  <2>1. /\ DOMAIN q.fixture = 1..Len(q.fixture) /\ Len(q.fixture) \in Nat
        /\ \A i \in 1..Len(q.fixture) : q.fixture[i] \in FixtureEntries
    OBVIOUS
  <2>2. \A i \in 1..Len(q.fixture) : Replayed(q.fixture[i], parts) \in Seq(P)
    BY <2>1, ReplayedHaveForm
  <2> DEFINE A == Seq(P)
  <2> HIDE DEF P, A
  <2>3. replayed \in Seq(A)
    BY <2>1, <2>2 DEF A
  <2> HIDE DEF replayed
  <2>4. QED
    BY <2>3, FlattenedIsAList DEF A
<1>2. FlattenSeq(told) \in Seq(P)
  <2>1. \A i \in 1..m : LiveProposals(q.answers[i], q.policy.attempts, i, parts[i].text,
                                      Described(q)) \in Seq(P)
    BY AnswersHaveForm DEF Answerable
  <2> DEFINE A == Seq(P)
  <2> HIDE DEF P, A
  <2>2. told \in Seq(A)
    BY <2>1 DEF A
  <2> HIDE DEF told
  <2>3. QED
    BY <2>2, FlattenedIsAList DEF A
<1> HIDE DEF P
<1>3. Proposals(q, parts) \in {FlattenSeq(replayed) \o FlattenSeq(told),
                               FlattenSeq(replayed) \o << >>}
  <2>1. Proposals(q, parts) = FlattenSeq(replayed)
          \o (IF Extractor(q.posture, q.policy) = "live" THEN FlattenSeq(told) ELSE << >>)
    BY Zenon DEF Proposals
  <2> HIDE DEF replayed, told
  <2>2. QED
    BY <2>1
<1> DEFINE one == FlattenSeq(replayed)
           two == FlattenSeq(told)
<1> HIDE DEF replayed, told
<1>4. one \o two \in Seq(P) /\ one \o << >> \in Seq(P)
  <2>1. one \in Seq(P) /\ two \in Seq(P)
    BY <1>1, <1>2
  <2> HIDE DEF one, two
  <2>2. QED
    BY <2>1
<1> HIDE DEF one, two
<1>5. QED
  BY <1>3, <1>4 DEF P, one, two

(* One proposal after another, a sum is taken of what verification lets      *)
(* through and what it rejects.                                              *)
RecordsOf(parts) == {TextRecord(p, parts) : p \in ProposalForms}
Sums(parts) == [records : Seq(RecordsOf(parts)), rejected : Seq(ProposalForms)]
Refuses(sum, p, parts, known, taken) ==
  \/ p.field \in taken
  \/ \E i \in DOMAIN sum.records : sum.records[i].field = p.field
  \/ FailureOf(p, parts, known) # "none"
Summed(sum, p, parts, known, taken) ==
  IF Refuses(sum, p, parts, known, taken)
  THEN [sum EXCEPT !.rejected = Append(@, p)]
  ELSE [sum EXCEPT !.records = Append(@, TextRecord(p, parts))]
NoSum == [records |-> << >>, rejected |-> << >>]

SummingSteps(proposals, parts, known, taken) ==
  {r \in [0..Len(proposals) -> Sums(parts)] :
     /\ r[0] = NoSum
     /\ \A k \in 1..Len(proposals) :
          r[k] = Summed(r[k-1], proposals[k], parts, known, taken)
     /\ VerifyProposals(proposals, parts, known, taken) = r[Len(proposals)]}

LEMMA VerifySteps ==
  ASSUME NEW proposals \in Seq(ProposalForms), NEW parts, NEW known, NEW taken
  PROVE  \E r : r \in SummingSteps(proposals, parts, known, taken)
<1> DEFINE n == Len(proposals)
           A == Sums(parts)
           next(a, p) == Summed(a, p, parts, known, taken)
           g == [k \in 1..n |-> [a \in A |-> next(a, proposals[k])]]
           Folds(h) == h = [s \in SUBSET DOMAIN proposals |->
                              IF s = {} THEN NoSum ELSE next(h[s \ {Max(s)}], proposals[Max(s)])]
           it == CHOOSE h : Folds(h)
           base == NoSum
           r == [k \in 0..n |-> it[1..k]]
<1>1. n \in Nat /\ DOMAIN proposals = 1..n /\ \A k \in 1..n : proposals[k] \in ProposalForms
  OBVIOUS
<1>2. VerifyProposals(proposals, parts, known, taken) = it[DOMAIN proposals]
  BY Zenon DEF VerifyProposals, FoldLeft, MapThenFoldSet, NoSum, Summed, Refuses
<1>3. base \in A /\ \A p \in ProposalForms : \A a \in A : next(a, p) \in A
  <2> DEFINE R == RecordsOf(parts)
             P == ProposalForms
  <2>1. A = [records : Seq(R), rejected : Seq(P)]
    BY DEF Sums
  <2>2. \A p \in P : TextRecord(p, parts) \in R
    BY DEF RecordsOf
  <2> HIDE DEF R, P, A
  <2>3. base \in A
    BY <2>1 DEF NoSum
  <2>4. ASSUME NEW p \in P, NEW a \in A PROVE next(a, p) \in A
    <3>1. /\ a.records \in Seq(R) /\ a.rejected \in Seq(P)
          /\ a = [records |-> a.records, rejected |-> a.rejected]
      BY <2>1
    <3>2. Append(a.records, TextRecord(p, parts)) \in Seq(R) /\ Append(a.rejected, p) \in Seq(P)
      BY <2>2, <3>1
    <3>3. \/ next(a, p) = [records |-> a.records, rejected |-> Append(a.rejected, p)]
          \/ next(a, p) = [records |-> Append(a.records, TextRecord(p, parts)), rejected |-> a.rejected]
      BY <3>1 DEF Summed
    <3> DEFINE recs == Append(a.records, TextRecord(p, parts))
               rejs == Append(a.rejected, p)
    <3> HIDE DEF recs, rejs, next
    <3>4. /\ [records |-> a.records, rejected |-> rejs] \in A
          /\ [records |-> recs, rejected |-> a.rejected] \in A
      BY <2>1, <3>1, <3>2 DEF recs, rejs
    <3>5. QED
      BY <3>3, <3>4 DEF recs, rejs
  <2>5. QED
    BY <2>3, <2>4 DEF P
<1> HIDE DEF A, n, next
<1>4. g \in [1..n -> [A -> A]]
  BY <1>1, <1>3
<1>5. \A k \in 1..n : \A a \in A : g[k][a] = next(a, proposals[k])
  OBVIOUS
<1> HIDE DEF g, base
<1>6. \E h : Folds(h)
  <2>1. PICK h : h \in FoldOf(n, A, base, g)
    BY <1>1, <1>3, <1>4, FoldExists
  <2>2. /\ h = [s \in SUBSET (1..n) |-> h[s]]
        /\ h[{}] = base
        /\ \A s \in SUBSET (1..n) : s # {} =>
             /\ Max(s) \in 1..n /\ h[s \ {Max(s)}] \in A
             /\ h[s] = g[Max(s)][h[s \ {Max(s)}]]
    BY <1>1, <2>1, FoldOfStep
  <2>3. \A s \in SUBSET (1..n) :
          h[s] = IF s = {} THEN NoSum ELSE next(h[s \ {Max(s)}], proposals[Max(s)])
    BY <1>5, <2>2 DEF base
  <2>4. Folds(h)
    BY <1>1, <2>2, <2>3
  <2>5. QED
    BY <2>4
<1>7. Folds(it)
  BY <1>6, Zenon
<1> HIDE DEF it
<1>8. it[{}] = base
  BY <1>7 DEF base
<1>9. ASSUME NEW k \in 1..n, it[1..(k-1)] \in A PROVE it[1..k] = g[k][it[1..(k-1)]]
  <2>1. 1..k \in SUBSET DOMAIN proposals /\ 1..k # {} /\ Max(1..k) = k /\ (1..k) \ {k} = 1..(k-1)
    BY <1>1, FirstPlaces
  <2>2. it[1..k] = next(it[(1..k) \ {Max(1..k)}], proposals[Max(1..k)])
    BY <1>7, <2>1
  <2>3. QED
    BY <1>5, <1>9, <2>1, <2>2
<1>10. r \in StepsOf(n, A, base, g)
  <2> HIDE DEF Folds
  <2>1. QED
    BY <1>1, <1>3, <1>4, <1>8, <1>9, FoldSteps
<1> HIDE DEF r
<1>11. r \in [0..n -> A] /\ r[0] = base /\ \A k \in 1..n : r[k-1] \in A /\ r[k] = g[k][r[k-1]]
  BY <1>1, <1>10 DEF StepsOf
<1>12. \A k \in 1..n : r[k] = next(r[k-1], proposals[k])
  BY <1>5, <1>11
<1>13. VerifyProposals(proposals, parts, known, taken) = r[n]
  BY <1>1, <1>2 DEF r
<1>14. r \in SummingSteps(proposals, parts, known, taken)
  BY <1>11, <1>12, <1>13 DEF base, n, A, next, SummingSteps
<1>15. QED
  BY <1>14

(* What verification lets through: records of proposals without a failure,   *)
(* for fields not taken, one for each field.                                 *)
Passed(record, parts, known, taken) ==
  \E p \in ProposalForms : /\ record = TextRecord(p, parts) /\ p.field \notin taken
                           /\ FailureOf(p, parts, known) = "none"
Verified(sum, parts, known, taken) ==
  /\ sum \in Sums(parts)
  /\ \A k \in 1..Len(sum.records) : Passed(sum.records[k], parts, known, taken)
  /\ \A i, j \in 1..Len(sum.records) : sum.records[i].field = sum.records[j].field => i = j

LEMMA SummedIsVerified ==
  ASSUME NEW parts, NEW known, NEW taken, NEW sum, Verified(sum, parts, known, taken),
         NEW p \in ProposalForms, Summed(sum, p, parts, known, taken) \in Sums(parts)
  PROVE  Verified(Summed(sum, p, parts, known, taken), parts, known, taken)
<1> DEFINE next == Summed(sum, p, parts, known, taken)
           record == TextRecord(p, parts)
           R == RecordsOf(parts)
<1>1. /\ sum.records \in Seq(R) /\ sum = [records |-> sum.records, rejected |-> sum.rejected]
      /\ record \in R
  <2>1. record \in R
    BY DEF RecordsOf
  <2> HIDE DEF R, record
  <2>2. QED
    BY <2>1 DEF Verified, Sums, R
<1>2. CASE Refuses(sum, p, parts, known, taken)
  <2>1. next.records = sum.records
    BY <1>1, <1>2 DEF Summed
  <2> HIDE DEF next
  <2>2. Verified(next, parts, known, taken)
    BY <2>1 DEF Verified, next
  <2>3. QED
    BY <2>2 DEF next
<1>3. CASE ~ Refuses(sum, p, parts, known, taken)
  <2> DEFINE old == sum.records
             new == next.records
  <2>1. new = Append(old, record)
    BY <1>1, <1>3 DEF Summed
  <2>2. /\ p.field \notin taken /\ FailureOf(p, parts, known) = "none"
        /\ \A i \in 1..Len(old) : old[i].field # p.field
    BY <1>1, <1>3 DEF Refuses
  <2>3. record.field = p.field
    BY DEF TextRecord
  <2>4. Passed(record, parts, known, taken)
    BY <2>2 DEF Passed
  <2> HIDE DEF next, record, R, old, new
  <2>5. /\ Len(old) \in Nat /\ Len(new) = Len(old) + 1
        /\ \A i \in 1..Len(old) : new[i] = old[i]
        /\ new[Len(old) + 1] = record
    BY <1>1, <2>1, AppendedElements DEF old
  <2>6. /\ \A k \in 1..Len(old) : Passed(old[k], parts, known, taken)
        /\ \A i, j \in 1..Len(old) : old[i].field = old[j].field => i = j
    BY DEF Verified, old
  <2>7. \A i \in 1..Len(new) : i \in 1..Len(old) \/ i = Len(old) + 1
    BY <2>5
  <2>8. \A k \in 1..Len(new) : Passed(new[k], parts, known, taken)
    BY <2>4, <2>5, <2>6, <2>7
  <2>9. \A i, j \in 1..Len(new) : new[i].field = new[j].field => i = j
    BY <2>2, <2>3, <2>5, <2>6, <2>7
  <2>10. Verified(next, parts, known, taken)
    BY <2>8, <2>9 DEF Verified, new, next
  <2>11. QED
    BY <2>10 DEF next
<1>4. QED
  BY <1>2, <1>3

LEMMA VerificationIsSound ==
  ASSUME NEW proposals \in Seq(ProposalForms), NEW parts, NEW known, NEW taken
  PROVE  Verified(VerifyProposals(proposals, parts, known, taken), parts, known, taken)
<1> DEFINE n == Len(proposals)
           V(sum) == Verified(sum, parts, known, taken)
<1>1. PICK r : r \in SummingSteps(proposals, parts, known, taken)
  BY VerifySteps
<1>2. n \in Nat /\ \A k \in 1..n : proposals[k] \in ProposalForms
  OBVIOUS
<1> HIDE DEF n
<1>3. /\ r \in [0..n -> Sums(parts)]
      /\ r[0] = NoSum
      /\ \A k \in 1..n : r[k] = Summed(r[k-1], proposals[k], parts, known, taken)
      /\ VerifyProposals(proposals, parts, known, taken) = r[n]
  BY <1>1 DEF SummingSteps, n
<1>4. \A k \in 0..n : r[k] \in Sums(parts)
  BY <1>3
<1> DEFINE T == {k \in 0..n : V(r[k])}
<1>5. 0 \in T
  <2>1. r[0] \in Sums(parts) /\ 0 \in 0..n
    BY <1>2, <1>4
  <2>2. Len(r[0].records) = 0
    BY <1>3 DEF NoSum
  <2>3. V(r[0])
    BY <2>1, <2>2 DEF Verified
  <2>4. QED
    BY <2>1, <2>3
<1>6. ASSUME NEW k \in 1..n, k - 1 \in T PROVE k \in T
  <2>1. V(r[k-1]) /\ k \in 0..n
    BY <1>2, <1>6
  <2>2. r[k] = Summed(r[k-1], proposals[k], parts, known, taken) /\ r[k] \in Sums(parts)
    BY <1>3, <1>4, <2>1
  <2>3. V(r[k])
    BY <1>2, <2>1, <2>2, SummedIsVerified
  <2>4. QED
    BY <2>1, <2>3
<1>7. \A k \in 0..n : k \in T
  <2> HIDE DEF T
  <2>1. QED
    BY <1>2, <1>5, <1>6, EveryPlace
<1>8. V(r[n])
  BY <1>2, <1>7
<1>9. QED
  BY <1>3, <1>8

(* A proposal without a failure stands where it says, in a text of the       *)
(* submission.                                                               *)
ReadByMachine(t, channel) == t.says = "ocr" \/ (t.says # "typed" /\ channel = "scan")
StandsIn(r, t, channel) ==
  /\ 0 <= r.from /\ r.to <= Len(t.text)
  /\ \/ ReadByMachine(t, channel)
     \/ Occurs(FoldedText(r.value), FoldedText(Window(t.text, r.from, r.to)))

LEMMA NoFailureMeans ==
  ASSUME NEW p, NEW parts, NEW known, FailureOf(p, parts, known) = "none"
  PROVE  /\ p.field \in known /\ p.part \in DOMAIN parts
         /\ ~ (p.offset < 0) /\ ~ (EndOf(p) > Len(parts[p.part].text))
         /\ QuoteMatches(Window(parts[p.part].text, p.offset, EndOf(p)), p.quote,
                         PolicyFor(parts[p.part]))
         /\ ValueInQuote(p.value, p.quote, PolicyFor(parts[p.part]))
  BY Zenon DEF FailureOf

LEMMA WhatPassesStands ==
  ASSUME NEW p \in ProposalForms, NEW parts, NEW known, NEW channel,
         FailureOf(p, parts, known) = "none",
         NEW t \in TextForms, parts[p.part].text = t.text,
         parts[p.part].type = SourceTypeOf(t.says, channel)
  PROVE  StandsIn(TextRecord(p, parts), t, channel)
<1> DEFINE r == TextRecord(p, parts)
           policy == PolicyFor(parts[p.part])
           window == Window(t.text, p.offset, EndOf(p))
<1>1. p.value \in Written /\ p.quote \in Written /\ p.offset \in Int
  BY DEF ProposalForms
<1>2. t.text \in Written
  BY DEF TextForms
<1>3. r.from = p.offset /\ r.to = EndOf(p) /\ r.value = TrimmedText(p.value)
  BY DEF TextRecord
<1>4. /\ ~ (p.offset < 0) /\ ~ (EndOf(p) > Len(t.text))
      /\ QuoteMatches(window, p.quote, policy)
      /\ ValueInQuote(p.value, p.quote, policy)
  BY NoFailureMeans
<1>5. 0 <= r.from /\ r.to <= Len(t.text)
  <2>1. EndOf(p) \in Int /\ Len(t.text) \in Int
    BY <1>1, <1>2 DEF EndOf, Written
  <2> HIDE DEF r
  <2>2. QED
    BY <1>1, <1>3, <1>4, <2>1
<1>6. CASE parts[p.part].type = "typed"
  <2>1. policy = "exact"
    BY <1>6 DEF PolicyFor
  <2>2. window = p.quote
    BY <1>4, <2>1, Zenon DEF QuoteMatches
  <2>3. Occurs(FoldedText(p.value), FoldedText(p.quote))
    BY <1>4, <2>1, Zenon DEF ValueInQuote
  <2>4. FoldedText(r.value) = FoldedText(p.value)
    BY <1>1, <1>3, TrimmingIsSilent
  <2>5. Window(t.text, r.from, r.to) = window
    BY <1>3
  <2> HIDE DEF r, window, policy
  <2>6. Occurs(FoldedText(r.value), FoldedText(Window(t.text, r.from, r.to)))
    BY <2>2, <2>3, <2>4, <2>5
  <2>7. QED
    BY <1>5, <2>6 DEF StandsIn, r
<1>7. CASE parts[p.part].type # "typed"
  <2>1. ReadByMachine(t, channel)
    BY <1>7 DEF SourceTypeOf, ReadByMachine
  <2>2. QED
    BY <1>5, <2>1 DEF StandsIn
<1>8. QED
  BY <1>6, <1>7

(* The run of the question. *)
PartsHere == TextPartsOf(question.submission)
MappedHere == Mapped(question.payload, question.fieldMap)
MissedHere == Unmapped(question.payload, question.fieldMap)
KnownHere == {question.fieldMap[i] : i \in DOMAIN question.fieldMap}
VerifiedHere == VerifyProposals(Proposals(question, PartsHere), PartsHere, KnownHere,
                                FieldsOf(MappedHere))

LEMMA TheRun ==
  ExtractAll(question) =
    [records |-> MappedHere \o VerifiedHere.records, missed |-> MissedHere,
     rejected |-> VerifiedHere.rejected, discarded |-> Discarded(MissedHere, VerifiedHere)]
  BY DEF ExtractAll, PartsHere, MappedHere, MissedHere, KnownHere, VerifiedHere

LEMMA TheRunIsVerified ==
  ASSUME ExtractionQuestions, Asked("extraction")
  PROVE  Verified(VerifiedHere, PartsHere, KnownHere, FieldsOf(MappedHere))
<1>1. /\ question.submission.body \in TextForms
      /\ question.submission.attachments \in Seq(TextForms)
      /\ question.fixture \in Seq(FixtureEntries)
      /\ \A i \in 1..(1 + Len(question.submission.attachments)) : Answerable(question.answers[i])
  BY DEF ExtractionQuestions
<1>2. PICK m \in 0..(1 + Len(question.submission.attachments)) :
        /\ DOMAIN PartsHere = 1..m
        /\ \A i \in 1..m : \E t \in SentTexts(question.submission) :
             /\ t \in TextForms /\ PartsHere[i].text = t.text
             /\ PartsHere[i].type = SourceTypeOf(t.says, question.submission.channel)
  BY <1>1, PartsAreSent DEF PartsHere
<1>3. m \in Nat /\ \A i \in 1..m : i \in 1..(1 + Len(question.submission.attachments))
  BY <1>1
<1>4. \A i \in 1..m : PartsHere[i].text \in Written
  BY <1>2 DEF TextForms
<1>5. Proposals(question, PartsHere) \in Seq(ProposalForms)
  BY <1>1, <1>2, <1>3, <1>4, ProposalsAreAList
<1>6. QED
  BY <1>5, VerificationIsSound DEF VerifiedHere

LEMMA FormsAreMapped ==
  ASSUME ExtractionQuestions, Asked("extraction")
  PROVE  LET valued == Those(question.fieldMap, DOMAIN question.payload)
         IN  /\ AreKept(valued, STRING, question.fieldMap, DOMAIN question.payload)
             /\ DOMAIN MappedHere = 1..Len(valued) /\ Len(valued) \in Nat
             /\ MappedHere \in Seq(Range(MappedHere))
             /\ \A k \in 1..Len(valued) : /\ MappedHere[k].field = valued[k]
                                          /\ MappedHere[k].mode = "structured"
<1> DEFINE valued == Those(question.fieldMap, DOMAIN question.payload)
           mapped == [k \in DOMAIN valued |->
             [field |-> valued[k], value |-> question.payload[valued[k]], mode |-> "structured"]]
<1>1. AreKept(valued, STRING, question.fieldMap, DOMAIN question.payload)
  BY ThoseAreKept DEF ExtractionQuestions
<1>2. MappedHere = mapped
  BY DEF MappedHere, Mapped
<1> HIDE DEF valued
<1>3. DOMAIN valued = 1..Len(valued) /\ Len(valued) \in Nat
  <2> DEFINE S == STRING
  <2> HIDE DEF S
  <2>1. valued \in Seq(S)
    BY <1>1 DEF AreKept, S
  <2>2. QED
    BY <2>1
<1>4. \A k \in 1..Len(valued) : mapped[k].field = valued[k] /\ mapped[k].mode = "structured"
  BY <1>3
<1>5. mapped \in Seq(Range(mapped))
  <2> DEFINE S == Range(mapped)
  <2>1. \A k \in 1..Len(valued) : mapped[k] \in S
    BY <1>3 DEF Range
  <2>2. mapped = [k \in 1..Len(valued) |-> mapped[k]]
    BY <1>3
  <2> HIDE DEF S, mapped
  <2>3. mapped \in Seq(S)
    BY <1>3, <2>1, <2>2
  <2>4. QED
    BY <2>3 DEF S
<1>6. DOMAIN mapped = 1..Len(valued)
  BY <1>3
<1> HIDE DEF mapped
<1>7. QED
  BY <1>1, <1>2, <1>3, <1>4, <1>5, <1>6 DEF valued

(* Different names of different places are as many as their places.          *)
NamedPlaces(n, m, F, c) == {i \in 1..n : \E k \in 1..m : c[k] = F[i]}

LEMMA PlacesOfNames ==
  ASSUME NEW n \in Nat, NEW m \in Nat, NEW F, NEW c,
         \A i, j \in 1..n : F[i] = F[j] => i = j,
         \A k \in 1..m : \E i \in 1..n : F[i] = c[k],
         \A k, l \in 1..m : c[k] = c[l] => k = l
  PROVE  Cardinality(NamedPlaces(n, m, F, c)) = m
<1> DEFINE V == {i \in 1..n : \E k \in 1..m : c[k] = F[i]}
           f == [k \in 1..m |-> CHOOSE i \in 1..n : F[i] = c[k]]
<1>1. ASSUME NEW k \in 1..m PROVE f[k] \in 1..n /\ F[f[k]] = c[k]
  <2> DEFINE x == CHOOSE i \in 1..n : F[i] = c[k]
  <2>1. x \in 1..n /\ F[x] = c[k]
    BY Zenon
  <2> HIDE DEF x
  <2>2. f[k] = x
    BY DEF x
  <2>3. QED
    BY <2>1, <2>2
<1>2. f = [k \in 1..m |-> f[k]]
  OBVIOUS
<1> HIDE DEF f
<1>3. f \in [1..m -> V]
  BY <1>1, <1>2
<1>4. \A k, l \in 1..m : f[k] = f[l] => k = l
  BY <1>1
<1>5. \A i \in V : \E k \in 1..m : f[k] = i
  BY <1>1
<1>6. f \in Bijection(1..m, V)
  BY <1>3, <1>4, <1>5 DEF Bijection, Injection, Surjection, IsInjective
<1>7. ExistsBijection(1..m, V)
  BY <1>6 DEF ExistsBijection
<1> HIDE DEF V
<1>8. Cardinality(V) = m
  BY <1>7, FS_CountingElements
<1>9. QED
  BY <1>8 DEF V, NamedPlaces

LEMMA Joined ==
  ASSUME NEW S, NEW R, NEW one \in Seq(S), NEW two \in Seq(R)
  PROVE  /\ Len(one) \in Nat /\ Len(two) \in Nat
         /\ DOMAIN (one \o two) = 1..(Len(one) + Len(two))
         /\ \A i \in 1..(Len(one) + Len(two)) :
              \/ i \in 1..Len(one) /\ (one \o two)[i] = one[i]
              \/ i - Len(one) \in 1..Len(two) /\ (one \o two)[i] = two[i - Len(one)]
<1>1. one \in Seq(S \cup R) /\ two \in Seq(S \cup R)
  OBVIOUS
<1>2. QED
  BY <1>1

LEMMA ValuesStand == ExtractionQuestions => AValueStandsAtItsSpan
<1> DEFINE all == ExtractAll(question).records
           sent == SentTexts(question.submission)
           channel == question.submission.channel
           v == VerifiedHere.records
<1> SUFFICES ASSUME ExtractionQuestions, Asked("extraction"),
                    NEW k \in DOMAIN all, all[k].mode # "structured"
             PROVE  \E t \in sent : StandsIn(all[k], t, channel)
  BY Zenon DEF AValueStandsAtItsSpan, StandsIn, ReadByMachine, SentTexts
<1>1. Verified(VerifiedHere, PartsHere, KnownHere, FieldsOf(MappedHere))
  BY TheRunIsVerified
<1>2. v \in Seq(RecordsOf(PartsHere))
  <2> HIDE DEF v
  <2> DEFINE R == RecordsOf(PartsHere)
             P == ProposalForms
  <2> HIDE DEF R, P
  <2>1. VerifiedHere \in [records : Seq(R), rejected : Seq(P)]
    BY <1>1 DEF Verified, Sums, R, P
  <2>2. QED
    BY <2>1 DEF v, R
<1>3. /\ MappedHere \in Seq(Range(MappedHere))
      /\ \A i \in DOMAIN MappedHere : MappedHere[i].mode = "structured"
  BY FormsAreMapped
<1>4. all = MappedHere \o v
  BY TheRun
<1>5. \A i \in 1..Len(v) : Passed(v[i], PartsHere, KnownHere, FieldsOf(MappedHere))
  BY <1>1 DEF Verified
<1> HIDE DEF all, v
<1>6. PICK i \in 1..Len(v) : all[k] = v[i]
  <2>1. DOMAIN MappedHere = 1..Len(MappedHere)
    BY <1>3
  <2>2. QED
    BY <1>2, <1>3, <1>4, <2>1, Joined
<1>7. PICK p \in ProposalForms : /\ all[k] = TextRecord(p, PartsHere)
                                 /\ FailureOf(p, PartsHere, KnownHere) = "none"
  BY <1>5, <1>6 DEF Passed
<1>8. PICK m \in 0..(1 + Len(question.submission.attachments)) :
        /\ DOMAIN PartsHere = 1..m
        /\ \A j \in 1..m : \E t \in sent :
             /\ t \in TextForms /\ PartsHere[j].text = t.text
             /\ PartsHere[j].type = SourceTypeOf(t.says, channel)
  BY PartsAreSent DEF PartsHere, ExtractionQuestions
<1>9. p.part \in DOMAIN PartsHere
  BY <1>7, NoFailureMeans
<1>10. PICK t \in sent : /\ t \in TextForms /\ PartsHere[p.part].text = t.text
                         /\ PartsHere[p.part].type = SourceTypeOf(t.says, channel)
  BY <1>8, <1>9
<1>11. StandsIn(all[k], t, channel)
  BY <1>7, <1>10, WhatPassesStands
<1>12. QED
  BY <1>11

(* The fields a text record may have are those the form left out.            *)
LEMMA TextFillsWhatTheFormLeft ==
  ASSUME ExtractionQuestions, Asked("extraction")
  PROVE  LET v == VerifiedHere.records
             F == question.fieldMap
             given == DOMAIN question.payload
         IN  /\ v \in Seq(RecordsOf(PartsHere)) /\ Len(VerifiedHere.rejected) \in Nat
             /\ \A k \in 1..Len(v) :
                  /\ v[k].field \notin given /\ v[k].field \in Range(MissedHere)
                  /\ \E i \in 1..Len(F) : F[i] = v[k].field /\ F[i] \in Range(F) \ given
             /\ \A k, l \in 1..Len(v) : v[k].field = v[l].field => k = l
             /\ \A i \in DOMAIN MappedHere : \A k \in 1..Len(v) :
                  MappedHere[i].field # v[k].field
<1> DEFINE v == VerifiedHere.records
           F == question.fieldMap
           given == DOMAIN question.payload
           valued == Those(F, given)
           S == STRING
<1>1. Verified(VerifiedHere, PartsHere, KnownHere, FieldsOf(MappedHere))
  BY TheRunIsVerified
<1>2. v \in Seq(RecordsOf(PartsHere)) /\ Len(VerifiedHere.rejected) \in Nat
  <2> DEFINE R == RecordsOf(PartsHere)
             P == ProposalForms
  <2> HIDE DEF R, P, v
  <2>1. VerifiedHere \in [records : Seq(R), rejected : Seq(P)]
    BY <1>1 DEF Verified, Sums, R, P
  <2>2. VerifiedHere.rejected \in Seq(P)
    BY <2>1
  <2>3. QED
    BY <2>1, <2>2 DEF v, R
<1>3. \A k, l \in 1..Len(v) : v[k].field = v[l].field => k = l
  BY <1>1 DEF Verified
<1>4. /\ AreKept(valued, S, F, given) /\ DOMAIN MappedHere = 1..Len(valued)
      /\ \A k \in 1..Len(valued) : MappedHere[k].field = valued[k]
  BY FormsAreMapped
<1>5. /\ F \in Seq(S) /\ KnownHere = {F[i] : i \in DOMAIN F}
      /\ FieldsOf(MappedHere) = {MappedHere[i].field : i \in DOMAIN MappedHere}
  BY DEF ExtractionQuestions, KnownHere, FieldsOf
<1>6. AreKept(MissedHere, S, F, Range(F) \ given)
  <2> HIDE DEF F, S, given
  <2>1. AreKept(Those(F, Range(F) \ given), S, F, Range(F) \ given)
    BY <1>5, ThoseAreKept
  <2>2. QED
    BY <2>1 DEF MissedHere, Unmapped, F, given
<1> HIDE DEF S, F, given, valued
<1>7. DOMAIN F = 1..Len(F) /\ Range(F) = {F[i] : i \in 1..Len(F)}
  BY <1>5 DEF Range
<1>8. DOMAIN MissedHere = 1..Len(MissedHere)
  BY <1>6 DEF AreKept
<1>9. ASSUME NEW k \in 1..Len(v)
      PROVE  /\ v[k].field \notin given /\ v[k].field \in Range(MissedHere)
             /\ \E i \in 1..Len(F) : F[i] = v[k].field /\ F[i] \in Range(F) \ given
             /\ \A i \in DOMAIN MappedHere : MappedHere[i].field # v[k].field
  <2>1. Passed(v[k], PartsHere, KnownHere, FieldsOf(MappedHere))
    BY <1>1 DEF Verified
  <2>2. PICK p \in ProposalForms :
          /\ v[k] = TextRecord(p, PartsHere) /\ p.field \notin FieldsOf(MappedHere)
          /\ FailureOf(p, PartsHere, KnownHere) = "none"
    BY <2>1 DEF Passed
  <2> DEFINE f == v[k].field
  <2>3. f = p.field
    BY <2>2 DEF TextRecord
  <2>4. f \in KnownHere /\ f \notin FieldsOf(MappedHere)
    BY <2>2, <2>3, NoFailureMeans
  <2> HIDE DEF f
  <2>5. PICK i \in 1..Len(F) : F[i] = f
    BY <1>5, <1>7, <2>4
  <2>6. \A j \in 1..Len(valued) : valued[j] # f
    BY <1>4, <1>5, <2>4
  <2>7. F[i] \notin given
    <3>1. F[i] \in given => \E j \in 1..Len(valued) : valued[j] = F[i]
      BY <1>4 DEF AreKept
    <3>2. QED
      BY <2>5, <2>6, <3>1
  <2>8. F[i] \in Range(F) \ given
    BY <1>7, <2>7
  <2>9. \E j \in 1..Len(MissedHere) : MissedHere[j] = F[i]
    BY <1>6, <2>8 DEF AreKept
  <2>10. f \in Range(MissedHere)
    BY <1>8, <2>5, <2>9 DEF Range
  <2>11. \A j \in DOMAIN MappedHere : MappedHere[j].field # f
    BY <1>4, <2>6
  <2>12. QED
    BY <2>5, <2>7, <2>8, <2>10, <2>11 DEF f
<1> HIDE DEF v
<1>10. QED
  BY <1>2, <1>3, <1>9 DEF v, F, given

LEMMA LossesAreCounted ==
  ASSUME ExtractionQuestions, MapsEachFieldOnce, Asked("extraction")
  PROVE  LET F == question.fieldMap
             all == MappedHere \o VerifiedHere.records
             silent == {i \in 1..Len(F) : ~ \E k \in DOMAIN all : all[k].field = F[i]}
         IN  Discarded(MissedHere, VerifiedHere) = Cardinality(silent) + Len(VerifiedHere.rejected)
<1> DEFINE v == VerifiedHere.records
           F == question.fieldMap
           given == DOMAIN question.payload
           valued == Those(F, given)
           all == MappedHere \o v
           n == Len(F)
           m == Len(v)
           rest == Range(F) \ given
           M == {i \in 1..n : F[i] \in rest}
           V == {i \in 1..n : \E k \in 1..m : v[k].field = F[i]}
           silent == {i \in 1..n : ~ \E k \in DOMAIN all : all[k].field = F[i]}
           these == {r \in Range(v) : r.field \in Range(MissedHere)}
           lost == Len(VerifiedHere.rejected)
           S == STRING
           R == RecordsOf(PartsHere)
<1>1. /\ v \in Seq(R) /\ lost \in Nat
      /\ \A k \in 1..m : /\ v[k].field \notin given /\ v[k].field \in Range(MissedHere)
                         /\ \E i \in 1..n : F[i] = v[k].field /\ F[i] \in rest
      /\ \A k, l \in 1..m : v[k].field = v[l].field => k = l
  BY TextFillsWhatTheFormLeft
<1>2. /\ AreKept(valued, S, F, given) /\ DOMAIN MappedHere = 1..Len(valued)
      /\ MappedHere \in Seq(Range(MappedHere)) /\ Len(valued) \in Nat
      /\ \A k \in 1..Len(valued) : MappedHere[k].field = valued[k]
  BY FormsAreMapped
<1>3. F \in Seq(S) /\ AllApart(F)
  BY DEF ExtractionQuestions, MapsEachFieldOnce
<1>4. AreKept(MissedHere, S, F, rest)
  <2> HIDE DEF F, S, given
  <2>1. AreKept(Those(F, rest), S, F, rest)
    BY <1>3, ThoseAreKept
  <2>2. QED
    BY <2>1 DEF MissedHere, Unmapped, F, given
<1>5. Discarded(MissedHere, VerifiedHere) =
        LET count == Len(MissedHere) + lost - Len(Those(v, these))
        IN  IF count > 0 THEN count ELSE 0
  BY Zenon DEF Discarded
<1> HIDE DEF v, F, given, valued, S, R, lost
<1>6. n \in Nat /\ m \in Nat /\ \A i \in 1..n : F[i] \in Range(F)
  BY <1>1, <1>3 DEF Range
<1>7. Len(Those(v, these)) = m
  <2>1. AreKept(Those(v, these), R, v, these)
    BY <1>1, ThoseAreKept
  <2>2. \A i \in 1..m : v[i] \in these
    BY <1>1 DEF Range
  <2>3. {i \in 1..m : v[i] \in these} = 1..m
    BY <2>2
  <2>4. Cardinality(1..m) = m
    <3>1. m \in Nat
      BY <1>6
    <3> HIDE DEF m
    <3>2. QED
      BY <3>1, FS_Interval
  <2>5. QED
    BY <2>1, <2>3, <2>4 DEF AreKept
<1>8. Len(MissedHere) = Cardinality(M)
  BY <1>4 DEF AreKept
<1>9. V \subseteq M
  BY <1>1, <1>3 DEF AllApart
<1>10. Cardinality(V) = m
  <2> DEFINE c == [k \in 1..m |-> v[k].field]
  <2>1. \A k \in 1..m : c[k] = v[k].field
    OBVIOUS
  <2> HIDE DEF c
  <2>2. \A i, j \in 1..n : F[i] = F[j] => i = j
    BY <1>3 DEF AllApart
  <2>3. \A k \in 1..m : \E i \in 1..n : F[i] = c[k]
    BY <1>1, <2>1
  <2>4. \A k, l \in 1..m : c[k] = c[l] => k = l
    BY <1>1, <2>1
  <2>5. V = {i \in 1..n : \E k \in 1..m : c[k] = F[i]}
    BY <2>1
  <2>6. n \in Nat /\ m \in Nat
    BY <1>6
  <2> HIDE DEF n, m, V
  <2>7. Cardinality(NamedPlaces(n, m, F, c)) = m
    BY <2>2, <2>3, <2>4, <2>6, PlacesOfNames
  <2>8. V = NamedPlaces(n, m, F, c)
    BY <2>5 DEF NamedPlaces
  <2>9. QED
    BY <2>7, <2>8
<1>11. silent = M \ V
  <2> DEFINE Q == Range(MappedHere)
             one == MappedHere
  <2>1. Len(one) = Len(valued) /\ one \in Seq(Q) /\ v \in Seq(R)
    BY <1>1, <1>2
  <2>2. /\ DOMAIN all = 1..(Len(valued) + m)
        /\ \A i \in 1..(Len(valued) + m) :
             \/ i \in 1..Len(valued) /\ all[i] = MappedHere[i]
             \/ i - Len(valued) \in 1..m /\ all[i] = v[i - Len(valued)]
    <3> HIDE DEF Q, one
    <3>1. /\ DOMAIN (one \o v) = 1..(Len(one) + Len(v))
          /\ \A i \in 1..(Len(one) + Len(v)) :
               \/ i \in 1..Len(one) /\ (one \o v)[i] = one[i]
               \/ i - Len(one) \in 1..Len(v) /\ (one \o v)[i] = v[i - Len(one)]
      BY <2>1, Joined
    <3>2. all = one \o v
      BY DEF one
    <3> HIDE DEF all
    <3>3. QED
      BY <2>1, <3>1, <3>2, Zenon DEF one
  <2> DEFINE ByForm(i) == \E k \in 1..Len(valued) : MappedHere[k].field = F[i]
             ByText(i) == \E k \in 1..m : v[k].field = F[i]
  <2>3. ASSUME NEW i \in 1..n
        PROVE  (\E k \in DOMAIN all : all[k].field = F[i]) <=> (ByForm(i) \/ ByText(i))
    <3> HIDE DEF all, m
    <3>1. ASSUME NEW k \in DOMAIN all, all[k].field = F[i] PROVE ByForm(i) \/ ByText(i)
      BY <2>2, <3>1
    <3>2. ASSUME NEW k \in 1..Len(valued), MappedHere[k].field = F[i]
          PROVE  \E l \in DOMAIN all : all[l].field = F[i]
      <4>1. k \in 1..(Len(valued) + m) /\ ~ (k - Len(valued) \in 1..m)
        BY <1>2, <1>6
      <4>2. QED
        BY <2>2, <3>2, <4>1
    <3>3. ASSUME NEW k \in 1..m, v[k].field = F[i]
          PROVE  \E l \in DOMAIN all : all[l].field = F[i]
      <4> DEFINE l == k + Len(valued)
      <4>1. l \in 1..(Len(valued) + m) /\ l \notin 1..Len(valued) /\ l - Len(valued) = k
        BY <1>2, <1>6
      <4> HIDE DEF l
      <4>2. QED
        BY <2>2, <3>3, <4>1
    <3>4. QED
      BY <3>1, <3>2, <3>3
  <2>4. ASSUME NEW i \in 1..n PROVE ByForm(i) <=> F[i] \in given
    <3>1. \A k \in 1..Len(valued) : valued[k] \in given
      BY <1>2 DEF AreKept
    <3>2. F[i] \in given => \E k \in 1..Len(valued) : valued[k] = F[i]
      BY <1>2 DEF AreKept
    <3>3. QED
      BY <1>2, <3>1, <3>2
  <2>5. \A i \in 1..n : i \in M <=> F[i] \notin given
    BY <1>6
  <2>6. \A i \in 1..n : i \in silent <=> i \in M /\ i \notin V
    BY <2>3, <2>4, <2>5
  <2>7. QED
    BY <2>6
<1>12. Cardinality(silent) = Cardinality(M) - m /\ Cardinality(silent) \in Nat
  <2>1. IsFiniteSet(M)
    <3>1. IsFiniteSet(1..n) /\ M \subseteq 1..n
      BY <1>6, FS_Interval
    <3>2. QED
      BY <3>1, FS_Subset
  <2>2. M \cap V = V
    BY <1>9
  <2> HIDE DEF M, V, silent
  <2>3. IsFiniteSet(M \ V) /\ Cardinality(M \ V) = Cardinality(M) - Cardinality(M \cap V)
    BY <2>1, FS_Difference
  <2>4. QED
    BY <1>10, <1>11, <2>2, <2>3, FS_CardinalityType
<1> HIDE DEF silent, M, V, m, n, these
<1>13. Len(MissedHere) \in Nat
  BY <1>4 DEF AreKept
<1>14. Discarded(MissedHere, VerifiedHere) = Cardinality(silent) + lost
  BY <1>1, <1>5, <1>6, <1>7, <1>8, <1>12, <1>13
<1>15. QED
  BY <1>14 DEF silent, lost, n, F, v

LEMMA FieldsAreTakenOnce ==
  ASSUME ExtractionQuestions, MapsEachFieldOnce, Asked("extraction")
  PROVE  LET all == MappedHere \o VerifiedHere.records
         IN  \A i, j \in DOMAIN all :
               /\ all[i].field = all[j].field => i = j
               /\ all[i].field \in DOMAIN question.payload => all[i].mode = "structured"
<1> DEFINE v == VerifiedHere.records
           F == question.fieldMap
           given == DOMAIN question.payload
           valued == Those(F, given)
           all == MappedHere \o v
           a == Len(MappedHere)
           m == Len(v)
           S == STRING
           R == RecordsOf(PartsHere)
           Q == Range(MappedHere)
<1>1. /\ v \in Seq(R)
      /\ \A k \in 1..m : v[k].field \notin given
      /\ \A k, l \in 1..m : v[k].field = v[l].field => k = l
      /\ \A i \in DOMAIN MappedHere : \A k \in 1..m : MappedHere[i].field # v[k].field
  BY TextFillsWhatTheFormLeft
<1>2. /\ AreKept(valued, S, F, given) /\ DOMAIN MappedHere = 1..Len(valued)
      /\ MappedHere \in Seq(Q)
      /\ \A k \in 1..Len(valued) : /\ MappedHere[k].field = valued[k]
                                   /\ MappedHere[k].mode = "structured"
  BY FormsAreMapped
<1>3. AllApart(F)
  BY DEF MapsEachFieldOnce
<1> HIDE DEF v, F, given, valued, S, R, Q
<1>4. AllApart(valued)
  BY <1>2, <1>3 DEF AreKept
<1>5. DOMAIN MappedHere = 1..a /\ a \in Nat
  BY <1>2
<1>6. \A i, j \in 1..a : MappedHere[i].field = MappedHere[j].field => i = j
  BY <1>2, <1>4, <1>5 DEF AllApart
<1>7. /\ m \in Nat /\ DOMAIN all = 1..(a + m)
      /\ \A i \in 1..(a + m) : \/ i \in 1..a /\ all[i] = MappedHere[i]
                               \/ i - a \in 1..m /\ all[i] = v[i - a]
  <2> DEFINE one == MappedHere
  <2>1. one \in Seq(Q) /\ v \in Seq(R)
    BY <1>1, <1>2
  <2> HIDE DEF one
  <2>2. /\ Len(v) \in Nat /\ DOMAIN (one \o v) = 1..(Len(one) + Len(v))
        /\ \A i \in 1..(Len(one) + Len(v)) :
             \/ i \in 1..Len(one) /\ (one \o v)[i] = one[i]
             \/ i - Len(one) \in 1..Len(v) /\ (one \o v)[i] = v[i - Len(one)]
    BY <2>1, Joined
  <2>3. QED
    BY <2>2, Zenon DEF one
<1> HIDE DEF all, a, m
<1>8. ASSUME NEW i \in 1..(a + m)
      PROVE  all[i].field \in given => all[i].mode = "structured"
  <2>1. CASE i \in 1..a /\ all[i] = MappedHere[i]
    BY <1>2, <1>5, <2>1
  <2>2. CASE i - a \in 1..m /\ all[i] = v[i - a]
    BY <1>1, <2>2
  <2>3. QED
    BY <1>7, <2>1, <2>2
<1>9. ASSUME NEW i \in 1..(a + m), NEW j \in 1..(a + m), all[i].field = all[j].field
      PROVE  i = j
  <2>1. CASE i \in 1..a /\ all[i] = MappedHere[i] /\ j \in 1..a /\ all[j] = MappedHere[j]
    BY <1>6, <1>9, <2>1
  <2>2. CASE i - a \in 1..m /\ all[i] = v[i - a] /\ j - a \in 1..m /\ all[j] = v[j - a]
    <3>1. i - a = j - a
      BY <1>1, <1>9, <2>2
    <3>2. QED
      BY <1>5, <1>7, <3>1
  <2>3. CASE i \in 1..a /\ all[i] = MappedHere[i] /\ j - a \in 1..m /\ all[j] = v[j - a]
    BY <1>1, <1>5, <1>9, <2>3
  <2>4. CASE i - a \in 1..m /\ all[i] = v[i - a] /\ j \in 1..a /\ all[j] = MappedHere[j]
    BY <1>1, <1>5, <1>9, <2>4
  <2>5. QED
    BY <1>7, <2>1, <2>2, <2>3, <2>4
<1>10. QED
  BY <1>7, <1>8, <1>9 DEF all, v, given

LEMMA EveryLossIsCounted == ExtractionQuestions /\ MapsEachFieldOnce => LossIsCounted
<1> DEFINE outcome == ExtractAll(question)
           all == outcome.records
           event == Extracted(outcome)
           F == question.fieldMap
           joined == MappedHere \o VerifiedHere.records
           silent == {i \in DOMAIN F : ~ \E k \in DOMAIN event.fields : event.fields[k] = F[i]}
<1> SUFFICES ASSUME ExtractionQuestions, MapsEachFieldOnce, Asked("extraction")
             PROVE  /\ event.discarded = Cardinality(silent) + Len(outcome.rejected)
                    /\ \A i, j \in DOMAIN all :
                         /\ all[i].field = all[j].field => i = j
                         /\ all[i].field \in DOMAIN question.payload => all[i].mode = "structured"
  BY Zenon DEF LossIsCounted
<1>1. /\ all = joined /\ outcome.rejected = VerifiedHere.rejected
      /\ outcome.discarded = Discarded(MissedHere, VerifiedHere)
  BY TheRun
<1>2. /\ event.discarded = outcome.discarded
      /\ event.fields = [i \in DOMAIN all |-> all[i].field]
  BY DEF Extracted
<1>3. DOMAIN F = 1..Len(F)
  <2> DEFINE S == STRING
  <2>1. F \in Seq(S)
    BY DEF ExtractionQuestions
  <2> HIDE DEF S, F
  <2>2. QED
    BY <2>1
<1>4. silent = {i \in 1..Len(F) : ~ \E k \in DOMAIN joined : joined[k].field = F[i]}
  <2> HIDE DEF all, event, joined, F
  <2>1. /\ DOMAIN event.fields = DOMAIN joined
        /\ \A k \in DOMAIN joined : event.fields[k] = joined[k].field
    BY <1>1, <1>2
  <2>2. QED
    BY <1>3, <2>1
<1>5. Discarded(MissedHere, VerifiedHere) =
        Cardinality({i \in 1..Len(F) : ~ \E k \in DOMAIN joined : joined[k].field = F[i]})
          + Len(VerifiedHere.rejected)
  BY LossesAreCounted
<1>6. \A i, j \in DOMAIN joined :
        /\ joined[i].field = joined[j].field => i = j
        /\ joined[i].field \in DOMAIN question.payload => joined[i].mode = "structured"
  BY FieldsAreTakenOnce
<1> HIDE DEF outcome, event, silent, F, joined, all
<1>7. event.discarded = Cardinality(silent) + Len(outcome.rejected)
  BY <1>1, <1>2, <1>4, <1>5
<1>8. QED
  BY <1>1, <1>6, <1>7

-----------------------------------------------------------------------------
(* The queues: sums over what a finite set is divided into. *)

(* A finite set is as large as the sum of its fibres.                        *)
LEMMA FibresAddUp ==
  ASSUME NEW D, IsFiniteSet(D), NEW K, NEW g \in [D -> K],
         NEW f, f = [k \in K |-> Cardinality({d \in D : g[d] = k})]
  PROVE  SumOver(f) = Cardinality(D)
<1> DEFINE F(k) == {d \in D : g[d] = k}
           n(k) == Cardinality(F(k))
           T == UNION {{x} \X (1 .. f[x]) : x \in DOMAIN f}
           Counts(k) == Bijection(1..n(k), F(k))
           b == [k \in K |-> CHOOSE h : h \in Counts(k)]
           v == [p \in T |-> b[p[1]][p[2]]]
<1>1. DOMAIN f = K /\ \A k \in K : f[k] = n(k)
  OBVIOUS
<1>2. \A k \in K : F(k) \in SUBSET D /\ IsFiniteSet(F(k)) /\ n(k) \in Nat /\ \E h : h \in Counts(k)
  BY FS_Subset, FS_CardinalityType DEF ExistsBijection
<1>3. \A k \in K : b[k] \in Counts(k)
  <2> HIDE DEF Counts
  <2>1. QED BY <1>2, Zenon
<1> HIDE DEF b
<1>4. \A k \in K : /\ b[k] \in [1..n(k) -> F(k)]
                   /\ \A i, j \in 1..n(k) : b[k][i] = b[k][j] => i = j
                   /\ \A d \in F(k) : \E i \in 1..n(k) : b[k][i] = d
  <2> TAKE k \in K
  <2>1. b[k] \in Counts(k)
    BY <1>3
  <2> HIDE DEF F, n
  <2>2. QED
    BY <2>1 DEF Bijection, Injection, Surjection, IsInjective
<1>5. T = {p \in K \X Nat : p[2] \in 1..n(p[1])}
  <2>1. ASSUME NEW p \in T PROVE p \in K \X Nat /\ p[2] \in 1..n(p[1])
    <3>1. PICK x \in DOMAIN f : p \in {x} \X (1..f[x])
      OBVIOUS
    <3>2. x \in K /\ f[x] = n(x) /\ n(x) \in Nat
      BY <1>1, <1>2
    <3> HIDE DEF n
    <3>3. QED
      BY <3>1, <3>2
  <2>2. ASSUME NEW p \in K \X Nat, p[2] \in 1..n(p[1]) PROVE p \in T
    <3>1. p[1] \in K /\ p \in {p[1]} \X (1..f[p[1]])
      BY <1>1, <2>2
    <3>2. QED
      BY <1>1, <3>1
  <2>3. QED
    BY <2>1, <2>2
<1>6. \A p \in T : p[1] \in K /\ p[2] \in 1..n(p[1]) /\ p = <<p[1], p[2]>>
  <2> HIDE DEF T, n
  <2>1. QED BY <1>5
<1>7. \A k \in K : \A i \in 1..n(k) : <<k, i>> \in T
  BY <1>5
<1> HIDE DEF T, n
<1>8. \A p \in T : v[p] = b[p[1]][p[2]]
  OBVIOUS
<1>9. v \in [T -> D]
  <2>1. ASSUME NEW p \in T PROVE v[p] \in D
    <3>1. b[p[1]] \in [1..n(p[1]) -> F(p[1])] /\ F(p[1]) \in SUBSET D
      BY <1>2, <1>4, <1>6
    <3> HIDE DEF F
    <3>2. QED
      BY <1>6, <1>8, <3>1
  <2>2. QED
    BY <2>1
<1> HIDE DEF v
<1>10. ASSUME NEW p \in T, NEW q \in T, v[p] = v[q] PROVE p = q
  <2>1. v[p] \in F(p[1]) /\ v[q] \in F(q[1])
    <3>1. /\ b[p[1]] \in [1..n(p[1]) -> F(p[1])] /\ p[2] \in 1..n(p[1])
          /\ b[q[1]] \in [1..n(q[1]) -> F(q[1])] /\ q[2] \in 1..n(q[1])
          /\ v[p] = b[p[1]][p[2]] /\ v[q] = b[q[1]][q[2]]
      BY <1>4, <1>6, <1>8
    <3> HIDE DEF F
    <3>2. QED
      BY <3>1
  <2>2. p[1] = q[1]
    BY <1>10, <2>1
  <2>3. p[2] = q[2]
    BY <1>4, <1>6, <1>8, <1>10, <2>2
  <2>4. QED
    BY <1>6, <2>2, <2>3
<1>11. ASSUME NEW d \in D PROVE \E p \in T : v[p] = d
  <2>1. g[d] \in K /\ d \in F(g[d])
    OBVIOUS
  <2>2. PICK i \in 1..n(g[d]) : b[g[d]][i] = d
    <3> HIDE DEF F
    <3> QED BY <1>4, <2>1
  <2>3. <<g[d], i>> \in T /\ v[<<g[d], i>>] = d
    BY <1>7, <1>8, <2>1, <2>2
  <2>4. QED
    BY <2>3
<1>12. v \in Injection(T, D) /\ v \in Surjection(T, D)
  BY <1>9, <1>10, <1>11 DEF Injection, Surjection, IsInjective
<1>13. Cardinality(T) = Cardinality(D)
  BY <1>12, FS_Injection
<1>14. QED
  BY <1>13 DEF SumOver, T

-----------------------------------------------------------------------------
(* The journals: what an event says, by its type.                            *)
UnitNames == {NoUnit} \cup (STRING \ {ClearingQueue})
Overrides ==
  [type : {"OVERRIDDEN"}, at : Nat, field : {"unit"}, to : UnitNames]
    \cup [type : {"OVERRIDDEN"}, at : Nat, field : {"tier", "escalation"}, to : Tiers]
Telling ==
  {"RECEIVED", "REDACTED", "ANOMALY_SCORED", "TIER_DECIDED", "ROUTED", "OVERRIDDEN", "CONFIRMED"}
Facts ==
  UNION { [type : {"RECEIVED"}, at : Nat],
          [type : {"REDACTED"}, at : Nat, parts : SUBSET STRING,
           spans : Seq([part : STRING, kind : STRING])],
          [type : {"ANOMALY_SCORED"}, at : Nat, flagged : BOOLEAN],
          [type : {"TIER_DECIDED"}, at : Nat, tier : Tiers, sampled : BOOLEAN],
          [type : {"ROUTED"}, at : Nat, unit : UnitNames],
          [type : {"CONFIRMED"}, at : Nat, edited : BOOLEAN],
          [type : STRING \ Telling, at : Nat] }
Events == Overrides \cup Facts

Moments == Nat \cup {Never}
CaseStates ==
  [received : Moments, last : Moments, sealed : UNION {[P -> Nat] : P \in SUBSET STRING},
   flagged : BOOLEAN, tier : Tiers \cup {NoTier}, sampled : BOOLEAN, unit : UnitNames,
   overrides : Seq(Overrides), confirmed : Moments, edited : BOOLEAN]

LEMMA EventsSay ==
  ASSUME NEW e \in Events
  PROVE  /\ e.at \in Nat
         /\ e.type = "OVERRIDDEN" <=> e \in Overrides
         /\ e.type = "REDACTED" =>
              e.parts \in SUBSET STRING /\ e.spans \in Seq([part : STRING, kind : STRING])
         /\ e.type = "ANOMALY_SCORED" => e.flagged \in BOOLEAN
         /\ e.type = "TIER_DECIDED" => e.tier \in Tiers /\ e.sampled \in BOOLEAN
         /\ e.type = "ROUTED" => e.unit \in UnitNames
         /\ e.type = "CONFIRMED" => e.edited \in BOOLEAN
<1> DEFINE R == Seq([part : STRING, kind : STRING])
<1> HIDE DEF R
<1>1. CASE e \in Overrides
  BY <1>1 DEF Overrides
<1>2. CASE e \in [type : {"RECEIVED"}, at : Nat]
  BY <1>2 DEF Overrides
<1>3. CASE e \in [type : {"REDACTED"}, at : Nat, parts : SUBSET STRING, spans : R]
  BY <1>3 DEF Overrides, R
<1>4. CASE e \in [type : {"ANOMALY_SCORED"}, at : Nat, flagged : BOOLEAN]
  BY <1>4 DEF Overrides
<1>5. CASE e \in [type : {"TIER_DECIDED"}, at : Nat, tier : Tiers, sampled : BOOLEAN]
  BY <1>5 DEF Overrides
<1>6. CASE e \in [type : {"ROUTED"}, at : Nat, unit : UnitNames]
  BY <1>6 DEF Overrides
<1>7. CASE e \in [type : {"CONFIRMED"}, at : Nat, edited : BOOLEAN]
  BY <1>7 DEF Overrides
<1>8. CASE e \in [type : STRING \ Telling, at : Nat]
  BY <1>8 DEF Overrides, Telling
<1>9. QED
  BY <1>1, <1>2, <1>3, <1>4, <1>5, <1>6, <1>7, <1>8 DEF Events, Facts, R

(* Counting gives a number.                                                  *)
LEMMA CountedPlaces ==
  ASSUME NEW n \in Nat, NEW P, P \subseteq 1..n
  PROVE  IsFiniteSet(P) /\ Cardinality(P) \in Nat
<1>1. IsFiniteSet(1..n)
  BY FS_Interval
<1>2. QED
  BY <1>1, FS_Subset, FS_CardinalityType

LEMMA ApplyingIsTyped ==
  /\ Nothing \in CaseStates
  /\ \A c \in CaseStates : \A e \in Events :
       /\ ApplyEvent(c, e) \in CaseStates
       /\ ApplyEvent(c, e).overrides =
            IF e.type = "OVERRIDDEN" THEN Append(c.overrides, e) ELSE c.overrides
<1>1. Nothing \in CaseStates
  <2>1. [p \in {} |-> 0] \in UNION {[P -> Nat] : P \in SUBSET STRING}
    <3>1. [p \in {} |-> 0] \in [{} -> Nat] /\ {} \in SUBSET STRING
      OBVIOUS
    <3>2. QED
      BY <3>1
  <2>2. NoUnit \in UnitNames
    BY DEF UnitNames
  <2>3. << >> \in Seq(Overrides)
    OBVIOUS
  <2>4. Never \in Moments
    BY DEF Moments, Never
  <2>5. QED
    BY <2>1, <2>2, <2>3, <2>4 DEF Nothing, CaseStates
<1>2. ASSUME NEW c \in CaseStates, NEW e \in Events
      PROVE  /\ ApplyEvent(c, e) \in CaseStates
             /\ ApplyEvent(c, e).overrides =
                  IF e.type = "OVERRIDDEN" THEN Append(c.overrides, e) ELSE c.overrides
  <2> DEFINE Tallies == UNION {[P -> Nat] : P \in SUBSET STRING}
             Made == Seq(Overrides)
             d == [c EXCEPT !.last = e.at]
  <2>1. /\ e.at \in Nat
        /\ e.type = "OVERRIDDEN" <=> e \in Overrides
        /\ e.type = "REDACTED" =>
              e.parts \in SUBSET STRING /\ e.spans \in Seq([part : STRING, kind : STRING])
        /\ e.type = "ANOMALY_SCORED" => e.flagged \in BOOLEAN
        /\ e.type = "TIER_DECIDED" => e.tier \in Tiers /\ e.sampled \in BOOLEAN
        /\ e.type = "ROUTED" => e.unit \in UnitNames
        /\ e.type = "CONFIRMED" => e.edited \in BOOLEAN
    BY EventsSay
  <2>2. e.type = "REDACTED" => TextSealedCounts(e.parts, e.spans) \in Tallies
    <3> SUFFICES ASSUME e.type = "REDACTED" PROVE TextSealedCounts(e.parts, e.spans) \in Tallies
      OBVIOUS
    <3>1. e.parts \in SUBSET STRING /\ e.spans \in Seq([part : STRING, kind : STRING])
      BY <2>1
    <3> DEFINE found(p) == {i \in DOMAIN e.spans : e.spans[i].part = p}
    <3>2. Len(e.spans) \in Nat /\ DOMAIN e.spans = 1..Len(e.spans)
      BY <3>1
    <3>3. \A p : found(p) \subseteq 1..Len(e.spans)
      BY <3>2
    <3>4. \A p : Cardinality(found(p)) \in Nat
      <4> HIDE DEF found
      <4> QED BY <3>2, <3>3, CountedPlaces
    <3>5. TextSealedCounts(e.parts, e.spans) = [p \in e.parts |-> Cardinality(found(p))]
      BY DEF TextSealedCounts, CountIf
    <3> HIDE DEF found
    <3>6. [p \in e.parts |-> Cardinality(found(p))] \in [e.parts -> Nat]
      BY <3>4
    <3>7. QED
      BY <3>1, <3>5, <3>6
  <2> HIDE DEF Tallies, Made
  <2>3. CaseStates = [received : Moments, last : Moments, sealed : Tallies,
          flagged : BOOLEAN, tier : Tiers \cup {NoTier}, sampled : BOOLEAN, unit : UnitNames,
          overrides : Made, confirmed : Moments, edited : BOOLEAN]
    BY DEF CaseStates, Tallies, Made
  <2>4. d \in CaseStates /\ e.at \in Moments /\ d.overrides = c.overrides /\ d.overrides \in Made
    BY <2>1, <2>3 DEF Moments
  <2>5. e.type = "OVERRIDDEN" => Append(d.overrides, e) \in Made
    BY <2>1, <2>4 DEF Made
  <2> HIDE DEF d
  <2>6. ApplyEvent(c, e) =
          CASE e.type = "RECEIVED" -> [d EXCEPT !.received = e.at]
            [] e.type = "REDACTED" -> [d EXCEPT !.sealed = TextSealedCounts(e.parts, e.spans)]
            [] e.type = "ANOMALY_SCORED" -> [d EXCEPT !.flagged = e.flagged]
            [] e.type = "TIER_DECIDED" -> [d EXCEPT !.tier = e.tier, !.sampled = e.sampled]
            [] e.type = "ROUTED" -> [d EXCEPT !.unit = e.unit]
            [] e.type = "OVERRIDDEN" -> [d EXCEPT !.overrides = Append(@, e)]
            [] e.type = "CONFIRMED" -> [d EXCEPT !.confirmed = e.at, !.edited = e.edited]
            [] OTHER -> d
    BY DEF ApplyEvent, d
  <2>c1. CASE e.type = "RECEIVED"
    <3>1. ApplyEvent(c, e) = [d EXCEPT !.received = e.at]
      BY <2>6, <2>c1
    <3>2. QED
      BY <2>3, <2>4, <2>c1, <3>1
  <2>c2. CASE e.type = "REDACTED"
    <3>1. ApplyEvent(c, e) = [d EXCEPT !.sealed = TextSealedCounts(e.parts, e.spans)]
      BY <2>6, <2>c2
    <3>2. QED
      BY <2>2, <2>3, <2>4, <2>c2, <3>1
  <2>c3. CASE e.type = "ANOMALY_SCORED"
    <3>1. ApplyEvent(c, e) = [d EXCEPT !.flagged = e.flagged]
      BY <2>6, <2>c3
    <3>2. QED
      BY <2>1, <2>3, <2>4, <2>c3, <3>1
  <2>c4. CASE e.type = "TIER_DECIDED"
    <3>1. ApplyEvent(c, e) = [d EXCEPT !.tier = e.tier, !.sampled = e.sampled]
      BY <2>6, <2>c4
    <3>2. QED
      BY <2>1, <2>3, <2>4, <2>c4, <3>1
  <2>c5. CASE e.type = "ROUTED"
    <3>1. ApplyEvent(c, e) = [d EXCEPT !.unit = e.unit]
      BY <2>6, <2>c5
    <3>2. QED
      BY <2>1, <2>3, <2>4, <2>c5, <3>1
  <2>c6. CASE e.type = "OVERRIDDEN"
    <3>1. ApplyEvent(c, e) = [d EXCEPT !.overrides = Append(d.overrides, e)]
      BY <2>6, <2>c6
    <3>2. QED
      BY <2>3, <2>4, <2>5, <2>c6, <3>1
  <2>c7. CASE e.type = "CONFIRMED"
    <3>1. ApplyEvent(c, e) = [d EXCEPT !.confirmed = e.at, !.edited = e.edited]
      BY <2>6, <2>c7
    <3>2. QED
      BY <2>1, <2>3, <2>4, <2>c7, <3>1
  <2>c8. CASE e.type \notin {"RECEIVED", "REDACTED", "ANOMALY_SCORED", "TIER_DECIDED", "ROUTED",
                            "OVERRIDDEN", "CONFIRMED"}
    <3>1. ApplyEvent(c, e) = d
      BY <2>6, <2>c8
    <3>2. QED
      BY <2>4, <2>c8, <3>1
  <2>7. QED
    BY <2>c1, <2>c2, <2>c3, <2>c4, <2>c5, <2>c6, <2>c7, <2>c8
<1>3. QED
  BY <1>1, <1>2

(* The fold of a journal, event by event. *)
ApplyingSteps(log) ==
  {r \in [0..Len(log) -> CaseStates] :
     /\ r[0] = Nothing
     /\ \A k \in 1..Len(log) : r[k] = ApplyEvent(r[k-1], log[k])
     /\ DeriveCaseState(log) = r[Len(log)]}

LEMMA JournalsAreFolded ==
  ASSUME NEW log \in Seq(Events)
  PROVE  \E r : r \in ApplyingSteps(log)
<1> DEFINE n == Len(log)
           A == CaseStates
           g == [k \in 1..n |-> [a \in A |-> ApplyEvent(a, log[k])]]
           Folds(h) == h = [s \in SUBSET DOMAIN log |->
                              IF s = {} THEN Nothing ELSE ApplyEvent(h[s \ {Max(s)}], log[Max(s)])]
           it == CHOOSE h : Folds(h)
           base == Nothing
           r == [k \in 0..n |-> it[1..k]]
<1>1. n \in Nat /\ DOMAIN log = 1..n /\ \A k \in 1..n : log[k] \in Events
  OBVIOUS
<1>2. DeriveCaseState(log) = it[DOMAIN log]
  BY Zenon DEF DeriveCaseState, FoldLeft, MapThenFoldSet
<1>3. base \in A /\ \A a \in A : \A e \in Events : ApplyEvent(a, e) \in A
  BY ApplyingIsTyped
<1> HIDE DEF A, n
<1>4. g \in [1..n -> [A -> A]]
  BY <1>1, <1>3
<1>5. \A k \in 1..n : \A a \in A : g[k][a] = ApplyEvent(a, log[k])
  OBVIOUS
<1> HIDE DEF g, base
<1>6. \E h : Folds(h)
  <2>1. PICK h : h \in FoldOf(n, A, base, g)
    BY <1>1, <1>3, <1>4, FoldExists
  <2>2. /\ h = [s \in SUBSET (1..n) |-> h[s]]
        /\ h[{}] = base
        /\ \A s \in SUBSET (1..n) : s # {} =>
             /\ Max(s) \in 1..n /\ h[s \ {Max(s)}] \in A
             /\ h[s] = g[Max(s)][h[s \ {Max(s)}]]
    BY <1>1, <2>1, FoldOfStep
  <2>3. \A s \in SUBSET (1..n) :
          h[s] = IF s = {} THEN Nothing ELSE ApplyEvent(h[s \ {Max(s)}], log[Max(s)])
    BY <1>5, <2>2 DEF base
  <2>4. Folds(h)
    BY <1>1, <2>2, <2>3
  <2>5. QED
    BY <2>4
<1>7. Folds(it)
  BY <1>6, Zenon
<1> HIDE DEF it
<1>8. it[{}] = base
  BY <1>7 DEF base
<1>9. ASSUME NEW k \in 1..n, it[1..(k-1)] \in A PROVE it[1..k] = g[k][it[1..(k-1)]]
  <2>1. 1..k \in SUBSET DOMAIN log /\ 1..k # {} /\ Max(1..k) = k /\ (1..k) \ {k} = 1..(k-1)
    BY <1>1, FirstPlaces
  <2>2. it[1..k] = ApplyEvent(it[(1..k) \ {Max(1..k)}], log[Max(1..k)])
    BY <1>7, <2>1
  <2>3. QED
    BY <1>5, <1>9, <2>1, <2>2
<1>10. r \in StepsOf(n, A, base, g)
  <2> HIDE DEF Folds
  <2>1. QED
    BY <1>1, <1>3, <1>4, <1>8, <1>9, FoldSteps
<1> HIDE DEF r
<1>11. r \in [0..n -> A] /\ r[0] = base /\ \A k \in 1..n : r[k-1] \in A /\ r[k] = g[k][r[k-1]]
  BY <1>1, <1>10 DEF StepsOf
<1>12. \A k \in 1..n : r[k] = ApplyEvent(r[k-1], log[k])
  BY <1>5, <1>11
<1>13. DeriveCaseState(log) = r[n]
  BY <1>1, <1>2 DEF r
<1>14. r \in ApplyingSteps(log)
  BY <1>11, <1>12, <1>13 DEF base, n, A, ApplyingSteps
<1>15. QED
  BY <1>14

(* The machine's word about a case, with its corrections.                    *)
ReviewStates ==
  [id : Int, case : CaseStates, tier : Tiers \cup {NoTier}, unit : UnitNames, escalated : BOOLEAN]
MachineState(id, case) ==
  [id |-> id, case |-> case, tier |-> case.tier, unit |-> case.unit, escalated |-> FALSE]

LEMMA CorrectingIsTyped ==
  ASSUME NEW s \in ReviewStates, NEW e \in Overrides
  PROVE  /\ Corrected(s, e) \in ReviewStates
         /\ Corrected(s, e).id = s.id /\ Corrected(s, e).case = s.case
<1>1. CASE e.field = "unit" /\ e.to \in UnitNames
  <2>1. Corrected(s, e) = [s EXCEPT !.unit = e.to]
    BY <1>1 DEF Corrected
  <2>2. QED
    BY <1>1, <2>1 DEF ReviewStates
<1>2. CASE e.field = "tier" /\ e.to \in Tiers
  <2>1. Corrected(s, e) = [s EXCEPT !.tier = e.to]
    BY <1>2 DEF Corrected
  <2>2. QED
    BY <1>2, <2>1 DEF ReviewStates
<1>3. CASE e.field = "escalation" /\ e.to \in Tiers
  <2>1. Corrected(s, e) = [s EXCEPT !.tier = e.to, !.escalated = TRUE]
    BY <1>3 DEF Corrected
  <2>2. QED
    BY <1>3, <2>1 DEF ReviewStates
<1>4. \/ e.field = "unit" /\ e.to \in UnitNames
      \/ e.field \in {"tier", "escalation"} /\ e.to \in Tiers
  BY DEF Overrides
<1>5. QED
  BY <1>1, <1>2, <1>3, <1>4

(* What the review makes of one case.                                        *)
LEMMA ReviewsAreTyped ==
  ASSUME NEW id \in Int, NEW log \in Seq(Events)
  PROVE  LET s == ReviewStateOf(id, log)
         IN  /\ s \in ReviewStates /\ s.id = id /\ s.case = DeriveCaseState(log)
             /\ (s.case.overrides # << >> <=> \E i \in 1..Len(log) : log[i].type = "OVERRIDDEN")
<1> DEFINE case == DeriveCaseState(log)
           made == case.overrides
           A == {s \in ReviewStates : s.id = id /\ s.case = case}
<1>a. /\ case \in CaseStates
      /\ made # << >> <=> \E i \in 1..Len(log) : log[i].type = "OVERRIDDEN"
  <2> DEFINE l == Len(log)
             Had(k) == \E i \in 1..k : log[i].type = "OVERRIDDEN"
  <2>1. PICK r : r \in ApplyingSteps(log)
    BY JournalsAreFolded
  <2>2. /\ l \in Nat /\ r \in [0..l -> CaseStates] /\ r[0] = Nothing
        /\ \A k \in 1..l : r[k] = ApplyEvent(r[k-1], log[k])
        /\ case = r[l]
    BY <2>1 DEF ApplyingSteps
  <2> DEFINE T == {k \in 0..l : r[k].overrides # << >> <=> Had(k)}
  <2>3. 0 \in T
    BY <2>2 DEF Nothing
  <2>4. ASSUME NEW k \in 1..l, k - 1 \in T PROVE k \in T
    <3>1. r[k-1] \in CaseStates /\ log[k] \in Events
      <4>1. k - 1 \in 0..l
        BY <2>2
      <4> HIDE DEF T
      <4>2. QED
        BY <2>2, <4>1
    <3>2. r[k].overrides = IF log[k].type = "OVERRIDDEN" THEN Append(r[k-1].overrides, log[k])
                           ELSE r[k-1].overrides
      <4>1. r[k] = ApplyEvent(r[k-1], log[k])
        BY <2>2
      <4>2. ApplyEvent(r[k-1], log[k]).overrides =
              IF log[k].type = "OVERRIDDEN" THEN Append(r[k-1].overrides, log[k])
              ELSE r[k-1].overrides
        BY <3>1, ApplyingIsTyped
      <4> HIDE DEF case, made, A, l, Had, T
      <4>3. QED
        BY <4>1, <4>2
    <3>3. r[k-1].overrides \in Seq(Overrides)
      BY <3>1 DEF CaseStates
    <3>4. log[k].type = "OVERRIDDEN" => Append(r[k-1].overrides, log[k]) # << >>
      <4>1. log[k].type = "OVERRIDDEN" => log[k] \in Overrides
        BY <3>1, EventsSay
      <4>2. QED
        BY <3>3, <4>1, AppendedLast
    <3>5. Had(k) <=> Had(k-1) \/ log[k].type = "OVERRIDDEN"
      BY <2>2
    <3>6. k \in 0..l /\ (r[k-1].overrides # << >> <=> Had(k-1))
      BY <2>4
    <3> HIDE DEF Had
    <3>7. r[k].overrides # << >> <=> Had(k)
      BY <3>2, <3>4, <3>5, <3>6
    <3>8. QED
      BY <3>6, <3>7
  <2>5. l \in T
    <3> HIDE DEF T, l
    <3>1. \A k \in 0..l : k \in T
      BY <2>2, <2>3, <2>4, EveryPlace
    <3>2. QED
      BY <2>2, <3>1
  <2>6. l \in 0..l
    BY <2>2
  <2>7. QED
    BY <2>2, <2>5, <2>6
<1>b. made \in Seq(Overrides) /\ MachineState(id, case) \in A
  BY <1>a DEF CaseStates, MachineState, ReviewStates
<1>c. \A a \in A : \A e \in Overrides : Corrected(a, e) \in A
  BY CorrectingIsTyped
<1> DEFINE n == Len(made)
           g == [k \in 1..n |-> [a \in A |-> Corrected(a, made[k])]]
           Folds(h) == h = [s \in SUBSET DOMAIN made |->
                              IF s = {} THEN MachineState(id, case) ELSE Corrected(h[s \ {Max(s)}], made[Max(s)])]
           it == CHOOSE h : Folds(h)
           base == MachineState(id, case)
           r == [k \in 0..n |-> it[1..k]]
<1>1. n \in Nat /\ DOMAIN made = 1..n /\ \A k \in 1..n : made[k] \in Overrides
  BY <1>b
<1>2. ReviewStateOf(id, log) = it[DOMAIN made]
  BY Zenon DEF ReviewStateOf, MachineState, FoldLeft, MapThenFoldSet
<1>3. base \in A /\ \A a \in A : \A e \in Overrides : Corrected(a, e) \in A
  BY <1>b, <1>c
<1> HIDE DEF A, n, case
<1>4. g \in [1..n -> [A -> A]]
  BY <1>1, <1>3
<1>5. \A k \in 1..n : \A a \in A : g[k][a] = Corrected(a, made[k])
  OBVIOUS
<1> HIDE DEF g, base
<1>6. \E h : Folds(h)
  <2>1. PICK h : h \in FoldOf(n, A, base, g)
    BY <1>1, <1>3, <1>4, FoldExists
  <2>2. /\ h = [s \in SUBSET (1..n) |-> h[s]]
        /\ h[{}] = base
        /\ \A s \in SUBSET (1..n) : s # {} =>
             /\ Max(s) \in 1..n /\ h[s \ {Max(s)}] \in A
             /\ h[s] = g[Max(s)][h[s \ {Max(s)}]]
    BY ZenonT(40), <1>1, <2>1, FoldOfStep
  <2>3. \A s \in SUBSET (1..n) :
          h[s] = IF s = {} THEN MachineState(id, case) ELSE Corrected(h[s \ {Max(s)}], made[Max(s)])
    BY <1>5, <2>2 DEF base
  <2>4. Folds(h)
    BY <1>1, <2>2, <2>3
  <2>5. QED
    BY <2>4
<1>7. Folds(it)
  BY <1>6, Zenon
<1> HIDE DEF it
<1>8. it[{}] = base
  BY <1>7 DEF base
<1>9. ASSUME NEW k \in 1..n, it[1..(k-1)] \in A PROVE it[1..k] = g[k][it[1..(k-1)]]
  <2>1. 1..k \in SUBSET DOMAIN made /\ 1..k # {} /\ Max(1..k) = k /\ (1..k) \ {k} = 1..(k-1)
    BY <1>1, FirstPlaces
  <2>2. it[1..k] = Corrected(it[(1..k) \ {Max(1..k)}], made[Max(1..k)])
    BY <1>7, <2>1
  <2>3. QED
    BY <1>5, <1>9, <2>1, <2>2
<1>10. r \in StepsOf(n, A, base, g)
  <2> HIDE DEF Folds
  <2>1. QED
    BY <1>1, <1>3, <1>4, <1>8, <1>9, FoldSteps
<1> HIDE DEF r
<1>11. r \in [0..n -> A] /\ r[0] = base /\ \A k \in 1..n : r[k-1] \in A /\ r[k] = g[k][r[k-1]]
  BY <1>1, <1>10 DEF StepsOf
<1>12. \A k \in 1..n : r[k] = Corrected(r[k-1], made[k])
  BY <1>5, <1>11
<1>13. ReviewStateOf(id, log) = r[n]
  BY <1>1, <1>2 DEF r
<1>14. ReviewStateOf(id, log) \in A
  <2>1. n \in 0..n
    BY <1>1
  <2>2. QED
    BY <1>11, <1>13, <2>1
<1>15. QED
  BY <1>a, <1>14 DEF A, case

(* The cases that are there, each once.                                      *)
IndexOf(index, journal) ==
  /\ index \in Seq(ReviewStates) /\ Len(index) \in Nat
  /\ \A i, j \in 1..Len(index) : index[i].id = index[j].id => i = j
  /\ \A id \in DOMAIN journal : \E i \in 1..Len(index) : index[i].id = id
  /\ \A i \in 1..Len(index) :
       LET log == journal[index[i].id]
       IN  /\ index[i].id \in DOMAIN journal
           /\ (index[i].case.overrides # << >> <=>
                 \E k \in 1..Len(log) : log[k].type = "OVERRIDDEN")

LEMMA TheIndexIs ==
  ASSUME NEW ids \in SUBSET Int, IsFiniteSet(ids), NEW journal \in [ids -> Seq(Events)]
  PROVE  IndexOf(BuildIndex(journal), journal)
<1> DEFINE at == Ascending(ids)
           before == [a \in ids |-> {b \in ids : b < a}]
           n == Cardinality(ids)
           index == [i \in 1..n |-> ReviewStateOf(at[i], journal[at[i]])]
<1>1. Ordering(ids, before)
  BY DEF Ordering
<1>2. /\ n \in Nat /\ at \in [1..n -> ids]
      /\ \A j, k \in 1..n : at[j] = at[k] => j = k
      /\ \A s \in ids : \E k \in 1..n : at[k] = s
  <2>1. at = ByPlace(ids, before)
    BY DEF Ascending
  <2> HIDE DEF before, at, index
  <2>2. LET p == ByPlace(ids, before)
        IN  /\ n \in Nat /\ p \in [1..n -> ids]
            /\ \A j, k \in 1..n : p[j] = p[k] => j = k
            /\ \A s \in ids : \E k \in 1..n : p[k] = s
    BY <1>1, EachStandsOnce
  <2>3. QED
    BY <2>1, <2>2
<1>3. BuildIndex(journal) = index
  <2>1. DOMAIN journal = ids
    OBVIOUS
  <2>2. DOMAIN at = 1..n
    BY <1>2
  <2> HIDE DEF n
  <2>3. QED
    BY <2>1, <2>2 DEF BuildIndex
<1> HIDE DEF at, n
<1>4. ASSUME NEW i \in 1..n
      PROVE  /\ index[i] \in ReviewStates /\ index[i].id = at[i] /\ at[i] \in ids
             /\ (index[i].case.overrides # << >> <=>
                   \E k \in 1..Len(journal[at[i]]) : journal[at[i]][k].type = "OVERRIDDEN")
  <2>1. at[i] \in ids /\ at[i] \in Int /\ journal[at[i]] \in Seq(Events)
    BY <1>2
  <2>2. index[i] = ReviewStateOf(at[i], journal[at[i]])
    OBVIOUS
  <2> HIDE DEF index
  <2>3. QED
    BY <2>1, <2>2, ReviewsAreTyped
<1>5. index \in [1..n -> ReviewStates]
  BY <1>4
<1> HIDE DEF index
<1>6. index \in Seq(ReviewStates) /\ Len(index) = n
  BY <1>2, <1>5
<1>7. \A i, j \in 1..n : index[i].id = index[j].id => i = j
  BY <1>2, <1>4
<1>8. \A id \in ids : \E i \in 1..n : index[i].id = id
  BY <1>2, <1>4
<1>9. DOMAIN journal = ids
  OBVIOUS
<1>10. \A i \in 1..n :
         /\ index[i].id \in ids
         /\ (index[i].case.overrides # << >> <=>
               \E k \in 1..Len(journal[index[i].id]) : journal[index[i].id][k].type = "OVERRIDDEN")
  BY <1>4
<1>11. IndexOf(index, journal)
  BY <1>2, <1>6, <1>7, <1>8, <1>9, <1>10 DEF IndexOf
<1>12. QED
  BY <1>3, <1>11

(* The open ones, each once.                                                 *)
OpenAt(index) == {i \in 1..Len(index) : Open(index[i])}
OpenOf(open, index) ==
  /\ open \in Seq(ReviewStates) /\ Len(open) = Cardinality(OpenAt(index))
  /\ \A k \in 1..Len(open) : \E i \in OpenAt(index) : open[k] = index[i]
  /\ \A i \in OpenAt(index) : \E k \in 1..Len(open) : open[k] = index[i]
  /\ \A j, k \in 1..Len(open) : open[j].id = open[k].id => j = k

LEMMA TheOpenAre ==
  ASSUME NEW index, NEW journal, IndexOf(index, journal)
  PROVE  OpenOf(OpenStates(index), index)
<1> DEFINE these == {s \in Range(index) : Open(s)}
           open == Those(index, these)
<1>1. index \in Seq(ReviewStates) /\ \A i, j \in 1..Len(index) : index[i].id = index[j].id => i = j
  BY DEF IndexOf
<1>2. OpenStates(index) = open
  BY DEF OpenStates
<1>3. \A i \in 1..Len(index) : index[i] \in these <=> i \in OpenAt(index)
  BY <1>1 DEF Range, OpenAt
<1> HIDE DEF these
<1>4. AreKept(open, ReviewStates, index, these)
  BY <1>1, ThoseAreKept
<1> HIDE DEF open
<1>5. /\ open \in Seq(ReviewStates)
      /\ \A k \in 1..Len(open) : \E i \in 1..Len(index) : open[k] = index[i] /\ index[i] \in these
      /\ \A i \in 1..Len(index) : index[i] \in these => \E k \in 1..Len(open) : open[k] = index[i]
      /\ Len(open) = Cardinality({i \in 1..Len(index) : index[i] \in these})
      /\ AllApart(index) => AllApart(open)
  BY <1>4 DEF AreKept
<1>6. {i \in 1..Len(index) : index[i] \in these} = OpenAt(index)
  BY <1>3 DEF OpenAt
<1>7. AllApart(open)
  BY <1>1, <1>5 DEF AllApart
<1>8. \A j, k \in 1..Len(open) : open[j].id = open[k].id => j = k
  <2>1. \A i, j \in 1..Len(index) : index[i].id = index[j].id => index[i] = index[j]
    BY <1>1
  <2>2. \A j, k \in 1..Len(open) : open[j].id = open[k].id => open[j] = open[k]
    BY <1>5, <2>1
  <2>3. QED
    BY <1>7, <2>2 DEF AllApart
<1>9. \A i \in OpenAt(index) : i \in 1..Len(index)
  BY DEF OpenAt
<1>10. QED
  BY ZenonT(40), <1>2, <1>3, <1>5, <1>6, <1>8, <1>9 DEF OpenOf

(* A queue has each of its rows once, and none is older than the first.      *)
Rowed(q, rows) ==
  /\ q \in Seq(rows) /\ Len(q) = Cardinality(rows)
  /\ \A r \in rows : \E k \in 1..Len(q) : q[k] = r
  /\ \A j, k \in 1..Len(q) : q[j] = q[k] => j = k
  /\ \A k \in 1..Len(q) : Max({q[k].age, 0}) <= Max({q[1].age, 0})

LEMMA RowsAreOrdered ==
  ASSUME NEW rows, IsFiniteSet(rows), \A r \in rows : r.id \in Int /\ r.age \in Int,
         \A r, t \in rows : r.id = t.id => r = t
  PROVE  Rowed(OldestFirst(rows), rows)
<1> DEFINE age == [r \in rows |-> Max({r.age, 0})]
           before == [row \in rows |->
                        {r \in rows : \/ age[r] > age[row]
                                      \/ age[r] = age[row] /\ r.id < row.id}]
           q == ByPlace(rows, before)
           n == Cardinality(rows)
<1>1. \A r \in rows : age[r] = Max({r.age, 0}) /\ age[r] \in Int
  <2> TAKE r \in rows
  <2>1. r.age \in Int /\ 0 \in Int
    OBVIOUS
  <2>2. Max({r.age, 0}) \in {r.age, 0}
    BY <2>1, MaxOfTwo
  <2>3. QED
    BY <2>1, <2>2
<1>2. OldestFirst(rows) = q
  <2>1. before = [row \in rows |->
                    {r \in rows : \/ Max({r.age, 0}) > Max({row.age, 0})
                                  \/ Max({r.age, 0}) = Max({row.age, 0}) /\ r.id < row.id}]
    OBVIOUS
  <2> HIDE DEF before
  <2>2. QED
    BY <2>1 DEF OldestFirst
<1> HIDE DEF age
<1>3. /\ before \in [rows -> SUBSET rows]
      /\ \A row \in rows :
           before[row] = {r \in rows : \/ age[r] > age[row]
                                       \/ age[r] = age[row] /\ r.id < row.id}
  OBVIOUS
<1> HIDE DEF before
<1>4. Ordering(rows, before)
  <2>1. \A r \in rows : age[r] \in Int /\ r.id \in Int
    BY <1>1
  <2>2. \A e, f \in rows : e \in before[f] <=> \/ age[e] > age[f]
                                               \/ age[e] = age[f] /\ e.id < f.id
    BY <1>3
  <2>3. \A e \in rows : e \notin before[e]
    BY <2>1, <2>2
  <2>4. \A e, f \in rows : e = f \/ e \in before[f] \/ f \in before[e]
    <3> SUFFICES ASSUME NEW e \in rows, NEW f \in rows, e # f PROVE e \in before[f] \/ f \in before[e]
      OBVIOUS
    <3>1. e.id # f.id
      OBVIOUS
    <3>2. QED
      BY <2>1, <2>2, <3>1
  <2>5. \A e, f, g \in rows : e \in before[f] /\ f \in before[g] => e \in before[g]
    BY <2>1, <2>2
  <2>6. QED
    BY <1>3, <2>3, <2>4, <2>5 DEF Ordering
<1>5. /\ n \in Nat /\ q \in [1..n -> rows] /\ q \in Seq(rows) /\ Len(q) = n
      /\ \A j, k \in 1..n : q[j] = q[k] => j = k
      /\ \A s \in rows : \E k \in 1..n : q[k] = s
      /\ \A k \in 1..n : Cardinality(before[q[k]]) = k - 1
  BY <1>4, EachStandsOnce
<1> HIDE DEF q, n
<1>6. ASSUME NEW k \in 1..n PROVE Max({q[k].age, 0}) <= Max({q[1].age, 0})
  <2>1. 1 \in 1..n /\ q[1] \in rows /\ q[k] \in rows
    BY <1>5
  <2>2. Cardinality(before[q[1]]) = 0
    BY <1>5, <2>1
  <2>3. before[q[1]] \in SUBSET rows
    BY <1>3, <2>1
  <2>4. before[q[1]] = {}
    BY <2>2, <2>3, FS_Subset, FS_EmptySet
  <2>5. ~ age[q[k]] > age[q[1]]
    BY <1>3, <2>1, <2>4
  <2>6. QED
    BY <1>1, <2>1, <2>5
<1>7. QED
  BY <1>2, <1>5, <1>6 DEF Rowed, n

(* The queue of a unit holds the open cases that are there.                  *)
Standing(q, open, index, unit, now, config) ==
  /\ Len(q) \in Nat /\ DOMAIN q = 1..Len(q)
  /\ Len(q) = Cardinality({k \in 1..Len(open) : open[k].unit = unit})
  /\ \A k \in 1..Len(q) : \E i \in OpenAt(index) :
       index[i].unit = unit /\ q[k] = QueueRow(index[i], now, config)
  /\ \A i \in OpenAt(index) : index[i].unit = unit =>
       \E k \in 1..Len(q) : q[k] = QueueRow(index[i], now, config)
  /\ \A j, k \in 1..Len(q) : q[j].id = q[k].id => j = k
  /\ \A k \in 1..Len(q) : Max({q[k].age, 0}) <= Max({q[1].age, 0})

LEMMA AUnitsQueueIs ==
  ASSUME NEW index, NEW journal, IndexOf(index, journal), NEW now \in Int, NEW config, NEW unit
  PROVE  Standing(BuildQueue(index, unit, now, config), OpenStates(index), index, unit, now, config)
<1> DEFINE open == OpenStates(index)
           K == {k \in 1..Len(open) : open[k].unit = unit}
           row(k) == QueueRow(open[k], now, config)
           show == [k \in K |-> row(k)]
           rows == {row(k) : k \in K}
           q == OldestFirst(rows)
<1>1. /\ open \in Seq(ReviewStates) /\ Len(open) = Cardinality(OpenAt(index))
      /\ \A k \in 1..Len(open) : \E i \in OpenAt(index) : open[k] = index[i]
      /\ \A i \in OpenAt(index) : \E k \in 1..Len(open) : open[k] = index[i]
      /\ \A j, k \in 1..Len(open) : open[j].id = open[k].id => j = k
  BY TheOpenAre DEF OpenOf
<1> HIDE DEF open
<1>2. Len(open) \in Nat /\ DOMAIN open = 1..Len(open)
      /\ \A k \in 1..Len(open) : open[k] \in ReviewStates
  BY <1>1
<1>3. BuildQueue(index, unit, now, config) = q
  <2>1. {QueueRow(s, now, config) : s \in {o \in Range(open) : o.unit = unit}} = rows
    BY <1>2 DEF Range
  <2> HIDE DEF rows
  <2>2. QED
    BY <2>1 DEF BuildQueue, open
<1>4. \A k \in K : k \in 1..Len(open) /\ row(k).id = open[k].id /\ row(k).age = AgeHours(open[k], now)
  BY DEF QueueRow
<1>5. \A k \in K : row(k).id \in Int /\ row(k).age \in Int
  <2> TAKE k \in K
  <2>1. open[k].id \in Int /\ open[k].case \in CaseStates
    BY <1>2, <1>4 DEF ReviewStates
  <2>2. open[k].case.received \in Int
    BY <2>1 DEF CaseStates, Moments, Never
  <2>3. AgeHours(open[k], now) \in Int
    BY <2>2 DEF AgeHours, Never
  <2> HIDE DEF K, row
  <2>4. QED
    BY <1>4, <2>1, <2>3
<1>6. \A j, k \in K : row(j).id = row(k).id => j = k
  BY <1>1, <1>4
<1>7. IsFiniteSet(K)
  BY <1>2, CountedPlaces
<1> HIDE DEF K, row
<1>8. show \in Surjection(K, rows) /\ show \in Injection(K, rows)
  BY <1>6 DEF Surjection, Injection, IsInjective
<1>9. IsFiniteSet(rows) /\ Cardinality(rows) = Cardinality(K)
  <2> HIDE DEF show, rows
  <2> QED BY <1>7, <1>8, FS_Surjection
<1>10. \A r \in rows : r.id \in Int /\ r.age \in Int
  BY <1>5
<1>11. \A r, t \in rows : r.id = t.id => r = t
  BY <1>6
<1>12. \A r \in rows : \E k \in K : r = row(k)
  OBVIOUS
<1>13. \A k \in K : row(k) \in rows
  OBVIOUS
<1> HIDE DEF rows
<1>14. /\ q \in Seq(rows) /\ Len(q) = Cardinality(rows)
       /\ \A r \in rows : \E k \in 1..Len(q) : q[k] = r
       /\ \A j, k \in 1..Len(q) : q[j] = q[k] => j = k
       /\ \A k \in 1..Len(q) : Max({q[k].age, 0}) <= Max({q[1].age, 0})
  BY <1>9, <1>10, <1>11, RowsAreOrdered DEF Rowed
<1> HIDE DEF q
<1>15. Len(q) \in Nat /\ DOMAIN q = 1..Len(q) /\ \A k \in 1..Len(q) : q[k] \in rows
  BY <1>14
<1>16. \A k \in K : k \in 1..Len(open) /\ open[k].unit = unit
  BY DEF K
<1>17. \A k \in 1..Len(q) : \E i \in OpenAt(index) :
         index[i].unit = unit /\ q[k] = QueueRow(index[i], now, config)
  <2> TAKE k \in 1..Len(q)
  <2>1. PICK l \in K : q[k] = row(l)
    BY <1>12, <1>15
  <2>2. PICK i \in OpenAt(index) : open[l] = index[i]
    BY <1>1, <1>16
  <2>3. QED
    BY <1>16, <2>1, <2>2 DEF row
<1>18. \A i \in OpenAt(index) : index[i].unit = unit =>
         \E k \in 1..Len(q) : q[k] = QueueRow(index[i], now, config)
  <2> SUFFICES ASSUME NEW i \in OpenAt(index), index[i].unit = unit
               PROVE  \E k \in 1..Len(q) : q[k] = QueueRow(index[i], now, config)
    OBVIOUS
  <2>1. PICK l \in 1..Len(open) : open[l] = index[i]
    BY <1>1
  <2>2. l \in K
    BY <2>1 DEF K
  <2>3. row(l) = QueueRow(index[i], now, config)
    BY <2>1 DEF row
  <2>4. QED
    BY <1>13, <1>14, <2>2, <2>3
<1>19. \A j, k \in 1..Len(q) : q[j].id = q[k].id => j = k
  BY <1>11, <1>14, <1>15
<1>20. Len(q) = Cardinality({k \in 1..Len(open) : open[k].unit = unit})
  BY <1>9, <1>14 DEF K
<1>21. QED
  BY SMTT(40), <1>3, <1>14, <1>15, <1>17, <1>18, <1>19, <1>20 DEF Standing, open

(* The places of the overview, and what its links open.                      *)
QueueIds(index) == UnitsWithWork(index) \cup {NoUnit}

LEMMA TheLinksOpen ==
  ASSUME NEW index, NEW journal, IndexOf(index, journal)
  PROVE  /\ \A k \in 1..Len(OpenStates(index)) : OpenStates(index)[k].unit \in QueueIds(index)
         /\ \A i \in OpenAt(index) : index[i].unit \in QueueIds(index)
         /\ \A unit \in QueueIds(index) : \A now, config :
              QueueView(index, LinkTo(unit), now, config) = BuildQueue(index, unit, now, config)
<1> DEFINE open == OpenStates(index)
<1>1. /\ open \in Seq(ReviewStates)
      /\ \A i \in OpenAt(index) : \E k \in 1..Len(open) : open[k] = index[i]
  BY TheOpenAre DEF OpenOf
<1>2. QueueIds(index) = {open[k].unit : k \in DOMAIN open} \cup {NoUnit}
  BY DEF QueueIds, UnitsWithWork
<1> HIDE DEF open
<1>3. \A k \in 1..Len(open) : open[k].unit \in QueueIds(index) /\ open[k].unit \in UnitNames
  <2> TAKE k \in 1..Len(open)
  <2>1. k \in DOMAIN open /\ open[k] \in ReviewStates
    BY <1>1
  <2>2. QED
    BY <1>2, <2>1 DEF ReviewStates
<1>4. \A i \in OpenAt(index) : index[i].unit \in QueueIds(index)
  BY <1>1, <1>3
<1>5. ClearingQueue \notin UnitNames
  BY DEF ClearingQueue, UnitNames, NoUnit
<1>6. \A unit \in QueueIds(index) : unit # ClearingQueue
  BY <1>1, <1>2, <1>3, <1>5 DEF UnitNames
<1>7. ASSUME NEW unit \in QueueIds(index), NEW now, NEW config
      PROVE  QueueView(index, LinkTo(unit), now, config) = BuildQueue(index, unit, now, config)
  BY <1>6 DEF QueueView, LinkTo
<1>8. QED
  BY <1>3, <1>4, <1>7 DEF open

TheQueuesOpen(opened, index, now, config) ==
  \A u \in QueueIds(index) : opened[u] = BuildQueue(index, u, now, config)

(* An open case stands at one place of one queue, a confirmed one at none.   *)
LEMMA EachStandsInOneQueue ==
  ASSUME NEW index, NEW journal, IndexOf(index, journal), NEW now \in Int, NEW config,
         NEW opened, TheQueuesOpen(opened, index, now, config),
         NEW i \in 1..Len(index),
         NEW P, \A p : p \in P <=> /\ p \in QueueIds(index) \X (1 .. Len(index))
                                   /\ p[2] \in DOMAIN opened[p[1]]
                                   /\ opened[p[1]][p[2]].id = index[i].id
  PROVE  Cardinality(P) = IF Open(index[i]) THEN 1 ELSE 0
<1> DEFINE open == OpenStates(index)
           Q == QueueIds(index)
           N == Len(index)
<1>0. \A p : p \in P <=> /\ p \in Q \X (1..N)
                         /\ p[2] \in DOMAIN opened[p[1]]
                         /\ opened[p[1]][p[2]].id = index[i].id
  OBVIOUS
<1>1. /\ index \in Seq(ReviewStates) /\ N \in Nat
      /\ \A j, k \in 1..N : index[j].id = index[k].id => j = k
  BY DEF IndexOf
<1>2. ASSUME NEW u \in Q
      PROVE  /\ Len(opened[u]) \in Nat /\ DOMAIN opened[u] = 1..Len(opened[u])
             /\ Len(opened[u]) = Cardinality({k \in 1..Len(open) : open[k].unit = u})
             /\ \A k \in 1..Len(opened[u]) : \E j \in OpenAt(index) :
                  index[j].unit = u /\ opened[u][k] = QueueRow(index[j], now, config)
             /\ \A j \in OpenAt(index) : index[j].unit = u =>
                  \E k \in 1..Len(opened[u]) : opened[u][k] = QueueRow(index[j], now, config)
             /\ \A j, k \in 1..Len(opened[u]) : opened[u][j].id = opened[u][k].id => j = k
  <2>1. Standing(BuildQueue(index, u, now, config), open, index, u, now, config)
    BY AUnitsQueueIs
  <2>2. Standing(opened[u], open, index, u, now, config)
    BY <2>1 DEF TheQueuesOpen
  <2> HIDE DEF open, Q, N
  <2>3. QED
    BY <2>2 DEF Standing
<1>3. \A j : QueueRow(index[j], now, config).id = index[j].id
  BY DEF QueueRow
<1>4. OpenAt(index) = {j \in 1..N : Open(index[j])}
  BY DEF OpenAt
<1>5. Len(open) \in Nat /\ Len(open) <= N
  <2>1. IsFiniteSet(1..N) /\ Cardinality(1..N) = N
    <3> HIDE DEF N
    <3>1. QED
      BY <1>1, FS_Interval
  <2>2. OpenAt(index) \in SUBSET (1..N)
    BY <1>4
  <2>3. IsFiniteSet(OpenAt(index)) /\ Cardinality(OpenAt(index)) <= Cardinality(1..N)
    BY <2>1, <2>2, FS_Subset
  <2>4. Len(open) = Cardinality(OpenAt(index))
    BY TheOpenAre DEF OpenOf
  <2> HIDE DEF N, open
  <2>5. QED
    BY <1>1, <2>1, <2>3, <2>4, FS_CardinalityType
<1> HIDE DEF open, Q, N
<1>6. ASSUME NEW u \in Q PROVE Len(opened[u]) <= N
  <2> DEFINE K == {k \in 1..Len(open) : open[k].unit = u}
  <2>1. IsFiniteSet(1..Len(open)) /\ Cardinality(1..Len(open)) = Len(open)
    <3> DEFINE l == Len(open)
    <3>1. l \in Nat
      BY <1>5
    <3> HIDE DEF l
    <3>2. IsFiniteSet(1..l) /\ Cardinality(1..l) = l
      BY <3>1, FS_Interval
    <3>3. QED
      BY <3>2 DEF l
  <2>2. K \in SUBSET (1..Len(open))
    OBVIOUS
  <2>3. Cardinality(K) <= Len(open)
    <3> HIDE DEF K
    <3> QED BY <2>1, <2>2, FS_Subset
  <2>4. Len(opened[u]) = Cardinality(K) /\ Len(opened[u]) \in Nat
    BY <1>2
  <2> HIDE DEF K
  <2>5. QED
    BY <1>1, <1>5, <2>3, <2>4
<1>7. ASSUME NEW p \in P
      PROVE  /\ p = <<p[1], p[2]>> /\ p[1] \in Q /\ i \in OpenAt(index) /\ index[i].unit = p[1]
             /\ p[2] \in 1..Len(opened[p[1]]) /\ opened[p[1]][p[2]].id = index[i].id
  <2>1. /\ p \in Q \X (1..N) /\ p[2] \in DOMAIN opened[p[1]]
        /\ opened[p[1]][p[2]].id = index[i].id
    BY <1>0, <1>7
  <2>2. p[1] \in Q /\ p = <<p[1], p[2]>>
    BY <2>1
  <2>3. p[2] \in 1..Len(opened[p[1]])
    BY <1>2, <2>1, <2>2
  <2>4. PICK j \in OpenAt(index) :
          index[j].unit = p[1] /\ opened[p[1]][p[2]] = QueueRow(index[j], now, config)
    BY ZenonT(40), <1>2, <2>2, <2>3
  <2>5. j \in 1..N /\ i \in 1..N /\ index[j].id = index[i].id
    <3>1. j \in 1..N
      BY <1>4
    <3>2. i \in 1..N
      BY DEF N
    <3>3. QED
      BY <1>3, <2>1, <2>4, <3>1, <3>2
  <2>6. j = i
    BY <1>1, <2>5
  <2>7. QED
    BY <2>1, <2>2, <2>3, <2>4, <2>6
<1>8. CASE ~ Open(index[i])
  <2>1. i \notin OpenAt(index)
    BY <1>4, <1>8
  <2>2. P = {}
    BY <1>7, <2>1
  <2>3. Cardinality(P) = 0
    BY <2>2, FS_EmptySet
  <2>4. QED
    BY <1>8, <2>3
<1>9. CASE Open(index[i])
  <2> DEFINE u == index[i].unit
  <2>1. i \in OpenAt(index)
    BY <1>4, <1>9 DEF N
  <2>2. u \in Q
    BY <2>1, TheLinksOpen DEF Q
  <2>3. PICK k \in 1..Len(opened[u]) : opened[u][k] = QueueRow(index[i], now, config)
    <3>1. \A j \in OpenAt(index) : index[j].unit = u =>
            \E k \in 1..Len(opened[u]) : opened[u][k] = QueueRow(index[j], now, config)
      BY <1>2, <2>2
    <3>2. index[i].unit = u
      OBVIOUS
    <3> HIDE DEF u
    <3>3. QED
      BY <2>1, <3>1, <3>2
  <2>4. k \in 1..N /\ opened[u][k].id = index[i].id
    BY <1>1, <1>2, <1>3, <1>6, <2>2, <2>3
  <2>5. k \in DOMAIN opened[u]
    BY <1>2, <2>2
  <2>6. <<u, k>> \in P
    BY <1>0, <2>2, <2>4, <2>5
  <2>7. ASSUME NEW p \in P PROVE p = <<u, k>>
    <3>1. p[1] = u /\ p[2] \in 1..Len(opened[u]) /\ opened[u][p[2]].id = index[i].id
      BY <1>7
    <3>2. \A j, l \in 1..Len(opened[u]) : opened[u][j].id = opened[u][l].id => j = l
      BY <1>2, <2>2
    <3>3. p[2] = k
      <4> HIDE DEF u
      <4>1. QED
        BY <2>3, <2>4, <3>1, <3>2
    <3>4. QED
      BY <1>7, <3>1, <3>3
  <2>8. P = {<<u, k>>}
    BY <2>6, <2>7
  <2>9. Cardinality(P) = 1
    BY <2>8, FS_Singleton
  <2>10. QED
    BY <1>9, <2>9
<1>10. QED
  BY <1>8, <1>9

(* The corrections of the pool are those of the journals.                    *)
LEMMA ThePoolIs ==
  ASSUME NEW ids \in SUBSET Int, IsFiniteSet(ids), NEW journal \in [ids -> Seq(Events)]
  PROVE  LET pool == BuildPool(journal).corrections
             corrected(id) == \E k \in 1..Len(journal[id]) : journal[id][k].type = "OVERRIDDEN"
         IN  /\ Len(pool) \in Nat /\ DOMAIN pool = 1..Len(pool)
             /\ \A c \in 1..Len(pool) : pool[c].id \in ids /\ corrected(pool[c].id)
             /\ \A id \in ids : corrected(id) => \E c \in 1..Len(pool) : pool[c].id = id
<1> DEFINE entry(id, i) == [id |-> id, at |-> journal[id][i].at, place |-> i]
           at(id) == {j \in DOMAIN journal[id] : journal[id][j].type = "OVERRIDDEN"}
           of == [id \in ids |-> {entry(id, i) : i \in at(id)}]
           made == UNION {of[id] : id \in ids}
           before == [a \in made |->
                        {b \in made : \/ b.id < a.id
                                      \/ b.id = a.id /\ b.at < a.at
                                      \/ b.id = a.id /\ b.at = a.at /\ b.place < a.place}]
           order == ByPlace(made, before)
           n == Cardinality(made)
           said(k) == Correction(order[k].id, journal[order[k].id], order[k].place)
           pool == [k \in 1..n |-> said(k)]
<1>1. DOMAIN journal = ids /\ \A id \in ids :
         /\ journal[id] \in Seq(Events) /\ Len(journal[id]) \in Nat
         /\ DOMAIN journal[id] = 1..Len(journal[id])
  OBVIOUS
<1>2. \A id \in ids : \A i \in at(id) :
        i \in 1..Len(journal[id]) /\ journal[id][i].type = "OVERRIDDEN" /\ journal[id][i].at \in Nat
  <2> TAKE id \in ids
  <2> TAKE i \in at(id)
  <2>1. i \in 1..Len(journal[id]) /\ journal[id][i] \in Events /\ journal[id][i].type = "OVERRIDDEN"
    BY <1>1
  <2>2. QED
    BY <2>1, EventsSay
<1>3. \A id \in ids : \A i \in 1..Len(journal[id]) : journal[id][i].type = "OVERRIDDEN" => i \in at(id)
  BY <1>1
<1>4. \A id \in ids : IsFiniteSet(at(id))
  <2> TAKE id \in ids
  <2>1. at(id) \subseteq 1..Len(journal[id]) /\ Len(journal[id]) \in Nat
    BY <1>1
  <2> HIDE DEF at
  <2>2. QED
    BY <2>1, CountedPlaces
<1> HIDE DEF at
<1>5. \A id \in ids : IsFiniteSet(of[id])
  <2> TAKE id \in ids
  <2> DEFINE f == [i \in at(id) |-> entry(id, i)]
             T == {entry(id, i) : i \in at(id)}
  <2>1. f \in Surjection(at(id), T)
    BY DEF Surjection
  <2> HIDE DEF f
  <2>2. IsFiniteSet(T)
    <3> HIDE DEF T
    <3> QED BY <1>4, <2>1, FS_Surjection
  <2>3. QED
    BY <2>2
<1>6. \A e \in made : /\ e.id \in ids /\ e.place \in at(e.id) /\ e = entry(e.id, e.place)
                      /\ e.id \in Int /\ e.at \in Int /\ e.place \in Int
  <2> TAKE e \in made
  <2>1. PICK id \in ids : e \in of[id]
    OBVIOUS
  <2>2. PICK i \in at(id) : e = entry(id, i)
    BY <2>1
  <2>3. e.id = id /\ e.place = i /\ e.at = journal[id][i].at
    BY <2>2
  <2>4. id \in Int /\ i \in Int /\ journal[id][i].at \in Int
    BY <1>2
  <2> HIDE DEF made, of, entry
  <2>5. QED
    BY <2>2, <2>3, <2>4
<1>7. \A id \in ids : \A i \in at(id) : entry(id, i) \in made /\ entry(id, i).id = id
  <2> TAKE id \in ids
  <2> TAKE i \in at(id)
  <2>1. entry(id, i) \in of[id]
    OBVIOUS
  <2>2. QED
    BY <2>1
<1>8. IsFiniteSet(made)
  <2> DEFINE Parts == {of[id] : id \in ids}
             f == [id \in ids |-> of[id]]
  <2> HIDE DEF of
  <2>1. f \in Surjection(ids, Parts)
    BY DEF Surjection
  <2>2. \A T \in Parts : IsFiniteSet(T)
    BY <1>5
  <2> HIDE DEF f
  <2>3. IsFiniteSet(Parts)
    <3> HIDE DEF Parts
    <3> QED BY <2>1, FS_Surjection
  <2>4. IsFiniteSet(UNION Parts)
    <3> HIDE DEF Parts
    <3> QED BY <2>2, <2>3, FS_UNION
  <2>5. QED
    BY <2>4
<1>9. \A e, f \in made : e.id = f.id /\ e.place = f.place => e = f
  <2> HIDE DEF made
  <2> QED BY SMTT(40), <1>6
<1>10. BuildPool(journal).corrections = [k \in DOMAIN order |-> said(k)]
  <2>1. made = UNION {{[id |-> id, at |-> journal[id][i].at, place |-> i] :
                        i \in {j \in DOMAIN journal[id] : journal[id][j].type = "OVERRIDDEN"}} :
                     id \in DOMAIN journal}
    BY <1>1 DEF at
  <2> HIDE DEF made
  <2>2. QED
    BY <2>1 DEF BuildPool
<1> HIDE DEF made, of, entry
<1>11. /\ before \in [made -> SUBSET made]
       /\ \A e, f \in made : e \in before[f] <=>
            \/ e.id < f.id
            \/ e.id = f.id /\ e.at < f.at
            \/ e.id = f.id /\ e.at = f.at /\ e.place < f.place
  OBVIOUS
<1> HIDE DEF before
<1>12. Ordering(made, before)
  <2>1. \A e \in made : e.id \in Int /\ e.at \in Int /\ e.place \in Int
    BY <1>6
  <2>2. \A e \in made : e \notin before[e]
    BY <1>11, <2>1
  <2>3. \A e, f \in made : e = f \/ e \in before[f] \/ f \in before[e]
    BY <1>9, <1>11, <2>1
  <2>4. \A e, f, g \in made : e \in before[f] /\ f \in before[g] => e \in before[g]
    BY <1>11, <2>1
  <2>5. QED
    BY <1>11, <2>2, <2>3, <2>4 DEF Ordering
<1>13. /\ n \in Nat /\ order \in [1..n -> made]
       /\ \A e \in made : \E k \in 1..n : order[k] = e
  BY <1>8, <1>12, EachStandsOnce
<1>14. BuildPool(journal).corrections = pool
  <2>1. DOMAIN order = 1..n
    BY <1>13
  <2> HIDE DEF order, n
  <2>2. QED
    BY <1>10, <2>1
<1> HIDE DEF order, n
<1>15. \A k \in 1..n : said(k).id = order[k].id
  BY DEF Correction
<1> HIDE DEF said
<1>16. Len(pool) = n /\ DOMAIN pool = 1..n /\ \A k \in 1..n : pool[k].id = order[k].id
  <2> DEFINE C == {said(k) : k \in 1..n}
  <2>1. pool \in [1..n -> C]
    OBVIOUS
  <2> HIDE DEF C
  <2>2. pool \in Seq(C) /\ Len(pool) = n
    BY <1>13, <2>1
  <2>3. QED
    BY <1>15, <2>2
<1> HIDE DEF pool
<1>17. \A c \in 1..Len(pool) :
         pool[c].id \in ids /\ \E k \in 1..Len(journal[pool[c].id]) : journal[pool[c].id][k].type = "OVERRIDDEN"
  <2> TAKE c \in 1..Len(pool)
  <2>1. order[c] \in made /\ pool[c].id = order[c].id
    BY <1>13, <1>16
  <2>2. QED
    BY <1>2, <1>6, <2>1
<1>18. ASSUME NEW id \in ids, NEW k \in 1..Len(journal[id]), journal[id][k].type = "OVERRIDDEN"
       PROVE  \E c \in 1..Len(pool) : pool[c].id = id
  <2>1. k \in at(id)
    BY <1>3, <1>18
  <2>2. entry(id, k) \in made /\ entry(id, k).id = id
    BY <1>7, <2>1
  <2>3. PICK c \in 1..n : order[c] = entry(id, k)
    BY <1>13, <2>2
  <2>4. QED
    BY <1>16, <2>2, <2>3
<1>19. QED
  BY <1>13, <1>14, <1>16, <1>17, <1>18

(* What is asked of the desk: the journals of finitely many cases, numbers   *)
(* for the moment and for the budgets.                                       *)
DeskQuestions ==
  Asked("desk") =>
    /\ \E ids \in SUBSET Int : IsFiniteSet(ids) /\ question.journal \in [ids -> Seq(Events)]
    /\ question.now \in Int
    /\ question.config.budget \in [Tiers -> Nat]

(* The overview and the census count the open cases.                         *)
LEMMA TheOpenAreCounted ==
  ASSUME NEW index, NEW journal, IndexOf(index, journal), NEW now \in Int, NEW config
  PROVE  LET queues == OverviewQueues(index, now, config)
             census == QueueCensus(index)
         IN  /\ SumOver([u \in DOMAIN queues |-> Summary(queues[u]).count]) = census.open
             /\ SumOver(census.byUnit) = census.open /\ SumOver(census.byTier) = census.open
<1> DEFINE open == OpenStates(index)
           queues == OverviewQueues(index, now, config)
           census == QueueCensus(index)
           D == 1..Len(open)
           Q == QueueIds(index)
           U == {open[i].unit : i \in DOMAIN open}
           T == {open[i].tier : i \in DOMAIN open}
           inUnit(u) == Cardinality({k \in D : open[k].unit = u})
           inTier(t) == Cardinality({k \in D : open[k].tier = t})
<1>1. open \in Seq(ReviewStates)
  BY TheOpenAre DEF OpenOf
<1>2. \A k \in D : open[k].unit \in Q
  BY TheLinksOpen
<1>3. \A u \in Q : queues[u] = BuildQueue(index, u, now, config)
  BY DEF OverviewQueues, QueueIds
<1>4. DOMAIN queues = Q
  BY DEF OverviewQueues, QueueIds
<1>5. \A u \in Q : Len(queues[u]) = inUnit(u)
  <2> TAKE u \in Q
  <2>1. Standing(BuildQueue(index, u, now, config), open, index, u, now, config)
    BY AUnitsQueueIs
  <2> HIDE DEF open, queues, Q
  <2>2. QED
    BY <1>3, <2>1 DEF Standing
<1>6. /\ census.open = Len(open)
      /\ census.byUnit = [u \in U |-> Cardinality({i \in DOMAIN open : open[i].unit = u})]
      /\ census.byTier = [t \in T |-> Cardinality({i \in DOMAIN open : open[i].tier = t})]
  BY DEF QueueCensus, CountIf
<1> HIDE DEF open, queues, census, Q
<1>7. DOMAIN open = D /\ Len(open) \in Nat
  BY <1>1
<1>8. IsFiniteSet(D) /\ Cardinality(D) = Len(open)
  <2> DEFINE l == Len(open)
  <2>1. l \in Nat
    BY <1>7
  <2> HIDE DEF l
  <2>2. IsFiniteSet(1..l) /\ Cardinality(1..l) = l
    BY <2>1, FS_Interval
  <2>3. QED
    BY <2>2 DEF l
<1> HIDE DEF D
<1>9. SumOver([u \in DOMAIN queues |-> Summary(queues[u]).count]) = Len(open)
  <2> DEFINE g == [k \in D |-> open[k].unit]
             f == [u \in Q |-> Cardinality({d \in D : g[d] = u})]
  <2>1. g \in [D -> Q]
    BY <1>2
  <2>2. \A u \in Q : {d \in D : g[d] = u} = {k \in D : open[k].unit = u}
    OBVIOUS
  <2>3. [u \in DOMAIN queues |-> Summary(queues[u]).count] = f
    BY <1>4, <1>5, <2>2 DEF Summary
  <2> HIDE DEF g
  <2>4. SumOver(f) = Cardinality(D)
    BY SMTT(40), <1>8, <2>1, FibresAddUp
  <2>5. QED
    BY <1>8, <2>3, <2>4
<1>10. SumOver(census.byUnit) = Len(open)
  <2> DEFINE g == [k \in D |-> open[k].unit]
             f == [u \in U |-> Cardinality({d \in D : g[d] = u})]
  <2>1. g \in [D -> U]
    BY <1>7
  <2>2. \A u \in U : {d \in D : g[d] = u} = {i \in DOMAIN open : open[i].unit = u}
    BY <1>7
  <2> HIDE DEF U
  <2>3. census.byUnit = f
    BY <1>6, <2>2
  <2> HIDE DEF g
  <2>4. SumOver(f) = Cardinality(D)
    BY SMTT(40), <1>8, <2>1, FibresAddUp
  <2>5. QED
    BY <1>8, <2>3, <2>4
<1>11. SumOver(census.byTier) = Len(open)
  <2> DEFINE g == [k \in D |-> open[k].tier]
             f == [t \in T |-> Cardinality({d \in D : g[d] = t})]
  <2>1. g \in [D -> T]
    BY <1>7
  <2>2. \A t \in T : {d \in D : g[d] = t} = {i \in DOMAIN open : open[i].tier = t}
    BY <1>7
  <2> HIDE DEF T
  <2>3. census.byTier = f
    BY <1>6, <2>2
  <2> HIDE DEF g
  <2>4. SumOver(f) = Cardinality(D)
    BY <1>8, <2>1, FibresAddUp
  <2>5. QED
    BY <1>8, <2>3, <2>4
<1>12. QED
  BY <1>6, <1>9, <1>10, <1>11 DEF queues, census

(* The metrics of the units count the cases that have one.                   *)
LEMMA TheUnitsAreCounted ==
  ASSUME NEW index, NEW journal, IndexOf(index, journal)
  PROVE  LET units == UnitReviews(index)
             done == {i \in 1..Len(index) : ~ Open(index[i])}
         IN  /\ SumOver([u \in DOMAIN units |-> units[u].confirmed])
                   + Cardinality({i \in done : index[i].unit = NoUnit}) = Cardinality(done)
             /\ SumOver([u \in DOMAIN units |-> units[u].overridden]) =
                  Cardinality({i \in 1..Len(index) :
                    index[i].unit # NoUnit /\ index[i].case.overrides # << >>})
<1> DEFINE units == UnitReviews(index)
           D == 1..Len(index)
           K == {index[i].unit : i \in DOMAIN index} \ {NoUnit}
           done == {i \in D : ~ Open(index[i])}
           none == {i \in done : index[i].unit = NoUnit}
           C == {i \in done : index[i].unit # NoUnit}
           O == {i \in D : index[i].unit # NoUnit /\ index[i].case.overrides # << >>}
<1>1. Len(index) \in Nat /\ DOMAIN index = D
  BY DEF IndexOf
<1>2. /\ DOMAIN units = K
      /\ \A u \in K :
           /\ units[u].confirmed =
                Cardinality({i \in DOMAIN index : index[i].unit = u /\ ~ Open(index[i])})
           /\ units[u].overridden =
                Cardinality({i \in DOMAIN index : index[i].unit = u /\ index[i].case.overrides # << >>})
  BY DEF UnitReviews, CountIf
<1> HIDE DEF units
<1>3. IsFiniteSet(done) /\ IsFiniteSet(C) /\ IsFiniteSet(O) /\ IsFiniteSet(none)
      /\ Cardinality(C) \in Nat /\ Cardinality(none) \in Nat
  <2>1. done \subseteq D /\ C \subseteq D /\ O \subseteq D /\ none \subseteq D
    OBVIOUS
  <2> HIDE DEF done, C, O, none
  <2>2. QED
    BY <1>1, <2>1, CountedPlaces
<1>4. Cardinality(C) + Cardinality(none) = Cardinality(done)
  <2>1. C = done \ none /\ done \cap none = none
    OBVIOUS
  <2> HIDE DEF done, C, none
  <2>2. Cardinality(done \ none) = Cardinality(done) - Cardinality(done \cap none)
    BY <1>3, FS_Difference
  <2>3. Cardinality(done) \in Nat
    BY <1>3, FS_CardinalityType
  <2>4. Cardinality(C) = Cardinality(done) - Cardinality(none)
    BY <2>1, <2>2, Zenon
  <2>5. QED
    BY <1>3, <2>3, <2>4
<1>5. SumOver([u \in DOMAIN units |-> units[u].confirmed]) = Cardinality(C)
  <2> DEFINE g == [i \in C |-> index[i].unit]
             f == [u \in K |-> Cardinality({i \in C : g[i] = u})]
  <2>1. g \in [C -> K]
    BY <1>1
  <2>2. \A u \in K : {i \in C : g[i] = u} = {i \in DOMAIN index : index[i].unit = u /\ ~ Open(index[i])}
    BY <1>1
  <2> HIDE DEF K
  <2>3. [u \in DOMAIN units |-> units[u].confirmed] = f
    BY <1>2, <2>2
  <2> HIDE DEF g, C
  <2>4. SumOver(f) = Cardinality(C)
    BY <1>3, <2>1, FibresAddUp
  <2>5. QED
    BY <2>3, <2>4
<1>6. SumOver([u \in DOMAIN units |-> units[u].overridden]) = Cardinality(O)
  <2> DEFINE g == [i \in O |-> index[i].unit]
             f == [u \in K |-> Cardinality({i \in O : g[i] = u})]
  <2>1. g \in [O -> K]
    BY <1>1
  <2>2. \A u \in K : {i \in O : g[i] = u} =
                       {i \in DOMAIN index : index[i].unit = u /\ index[i].case.overrides # << >>}
    BY <1>1
  <2> HIDE DEF K
  <2>3. [u \in DOMAIN units |-> units[u].overridden] = f
    BY <1>2, <2>2
  <2> HIDE DEF g, O
  <2>4. SumOver(f) = Cardinality(O)
    BY <1>3, <2>1, FibresAddUp
  <2>5. QED
    BY <2>3, <2>4
<1>7. QED
  BY <1>4, <1>5, <1>6 DEF units

LEMMA NoneFallsThrough == DeskQuestions => NoCaseFallsThrough
<1> SUFFICES ASSUME DeskQuestions, Asked("desk") PROVE NoCaseFallsThrough
  BY DEF NoCaseFallsThrough
<1> DEFINE journal == question.journal
           now == question.now
           config == question.config
           index == BuildIndex(journal)
           queues == OverviewQueues(index, now, config)
           census == QueueCensus(index)
           units == UnitReviews(index)
           homeless == CountIf(index, LAMBDA s : ~ Open(s) /\ s.unit = NoUnit)
           pool == BuildPool(journal)
           opened == [u \in DOMAIN queues |-> QueueView(index, LinkTo(u), now, config)]
           places(s) == {p \in (DOMAIN queues) \X (1 .. Len(index)) :
                           /\ p[2] \in DOMAIN opened[p[1]]
                           /\ opened[p[1]][p[2]].id = s.id}
<1>1. PICK ids \in SUBSET Int : IsFiniteSet(ids) /\ journal \in [ids -> Seq(Events)]
  BY DEF DeskQuestions
<1>2. now \in Int
  BY DEF DeskQuestions
<1> HIDE DEF journal, now, config
<1>3. IndexOf(index, journal)
  BY <1>1, TheIndexIs
<1>4. Len(index) \in Nat /\ DOMAIN index = 1..Len(index)
  BY <1>3 DEF IndexOf
<1> HIDE DEF index
<1>5. DOMAIN queues = QueueIds(index)
  BY DEF OverviewQueues, QueueIds
<1>6. \A i \in DOMAIN index : Cardinality(places(index[i])) = IF Open(index[i]) THEN 1 ELSE 0
  <2> TAKE i \in DOMAIN index
  <2>1. TheQueuesOpen(opened, index, now, config)
    BY <1>3, <1>5, TheLinksOpen DEF TheQueuesOpen
  <2>2. i \in 1..Len(index)
    BY <1>4
  <2> HIDE DEF opened, queues
  <2> DEFINE P == places(index[i])
  <2>3. \A p : p \in P <=> /\ p \in QueueIds(index) \X (1 .. Len(index))
                           /\ p[2] \in DOMAIN opened[p[1]]
                           /\ opened[p[1]][p[2]].id = index[i].id
    BY <1>5
  <2> HIDE DEF P
  <2>4. Cardinality(P) = IF Open(index[i]) THEN 1 ELSE 0
    BY <1>2, <1>3, <2>1, <2>2, <2>3, EachStandsInOneQueue
  <2>5. QED
    BY <2>4 DEF P
<1>7. /\ SumOver([u \in DOMAIN queues |-> Summary(queues[u]).count]) = census.open
      /\ SumOver(census.byUnit) = census.open /\ SumOver(census.byTier) = census.open
  BY <1>2, <1>3, TheOpenAreCounted
<1> DEFINE done == {i \in 1..Len(index) : ~ Open(index[i])}
<1>8. /\ homeless = Cardinality({i \in done : index[i].unit = NoUnit})
      /\ census.confirmed = Cardinality(done)
  <2>1. homeless = Cardinality({i \in DOMAIN index : ~ Open(index[i]) /\ index[i].unit = NoUnit})
    BY DEF CountIf
  <2>2. census.confirmed = Cardinality({i \in DOMAIN index : ~ Open(index[i])})
    BY DEF QueueCensus, CountIf
  <2>3. {i \in DOMAIN index : ~ Open(index[i]) /\ index[i].unit = NoUnit} =
          {i \in done : index[i].unit = NoUnit}
    BY <1>4
  <2>4. QED
    BY <1>4, <2>1, <2>2, <2>3
<1>9. /\ SumOver([u \in DOMAIN units |-> units[u].confirmed]) + homeless = census.confirmed
      /\ SumOver([u \in DOMAIN units |-> units[u].overridden]) =
           Cardinality({i \in 1..Len(index) :
             index[i].unit # NoUnit /\ index[i].case.overrides # << >>})
  <2> HIDE DEF homeless, census
  <2>1. QED
    BY <1>3, <1>8, TheUnitsAreCounted
<1>10. /\ Len(pool.corrections) \in Nat /\ DOMAIN pool.corrections = 1..Len(pool.corrections)
       /\ \A c \in 1..Len(pool.corrections) :
            LET id == pool.corrections[c].id
            IN  id \in ids /\ \E k \in 1..Len(journal[id]) : journal[id][k].type = "OVERRIDDEN"
       /\ \A id \in ids : (\E k \in 1..Len(journal[id]) : journal[id][k].type = "OVERRIDDEN") =>
            \E c \in 1..Len(pool.corrections) : pool.corrections[c].id = id
  BY <1>1, ThePoolIs
<1>11. {i \in 1..Len(index) : index[i].unit # NoUnit /\ index[i].case.overrides # << >>} =
         {i \in DOMAIN index : index[i].unit # NoUnit /\
            \E c \in DOMAIN pool.corrections : pool.corrections[c].id = index[i].id}
  <2> HIDE DEF pool
  <2>1. \A i \in 1..Len(index) : index[i].case.overrides # << >> <=>
           \E c \in DOMAIN pool.corrections : pool.corrections[c].id = index[i].id
    <3> TAKE i \in 1..Len(index)
    <3>1. /\ index[i].id \in ids
          /\ (index[i].case.overrides # << >> <=>
                 \E k \in 1..Len(journal[index[i].id]) : journal[index[i].id][k].type = "OVERRIDDEN")
      BY <1>1, <1>3 DEF IndexOf
    <3> DEFINE said == pool.corrections
               id == index[i].id
               Corrects == \E k \in 1..Len(journal[id]) : journal[id][k].type = "OVERRIDDEN"
    <3>2. DOMAIN said = 1..Len(said)
      BY <1>10
    <3>3. ASSUME Corrects PROVE \E c \in 1..Len(said) : said[c].id = id
      BY <1>10, <3>1, <3>3
    <3>4. ASSUME NEW c \in 1..Len(said), said[c].id = id PROVE Corrects
      <4>1. \E k \in 1..Len(journal[said[c].id]) : journal[said[c].id][k].type = "OVERRIDDEN"
        BY <1>10
      <4> HIDE DEF said, id
      <4>2. QED
        BY <3>4, <4>1
    <3>5. index[i].case.overrides # << >> <=> Corrects
      BY <3>1
    <3> HIDE DEF said, id, Corrects
    <3>6. index[i].case.overrides # << >> <=> \E c \in DOMAIN said : said[c].id = id
      BY <3>2, <3>3, <3>4, <3>5
    <3>7. QED
      BY <3>6 DEF said, id
  <2>2. QED
    BY <1>4, <2>1
<1>12. SumOver(pool.byField) = Len(pool.corrections)
  <2> DEFINE said == pool.corrections
             D == 1..Len(said)
             K == {said[i].field : i \in DOMAIN said}
             g == [i \in D |-> said[i].field]
             f == [k \in K |-> Cardinality({i \in D : g[i] = k})]
  <2>1. pool.byField = [k \in K |-> Cardinality({i \in DOMAIN said : said[i].field = k})]
    BY ZenonT(40) DEF BuildPool, CountIf
  <2> HIDE DEF pool
  <2>2. DOMAIN said = D /\ Len(said) \in Nat
    BY <1>10
  <2> HIDE DEF said
  <2>3. g \in [D -> K]
    BY <2>2
  <2>4. \A k \in K : {i \in D : g[i] = k} = {i \in DOMAIN said : said[i].field = k}
    BY <2>2
  <2>5. IsFiniteSet(D) /\ Cardinality(D) = Len(said)
    <3> DEFINE l == Len(said)
    <3>1. l \in Nat
      BY <2>2
    <3> HIDE DEF l
    <3>2. IsFiniteSet(1..l) /\ Cardinality(1..l) = l
      BY <3>1, FS_Interval
    <3>3. QED
      BY <3>2 DEF l
  <2> HIDE DEF K, D
  <2>6. pool.byField = f
    BY <2>1, <2>4
  <2> HIDE DEF g
  <2>7. SumOver(f) = Cardinality(D)
    BY SMTT(40), <2>3, <2>5, FibresAddUp
  <2>8. QED
    BY SMTT(40), <2>5, <2>6, <2>7 DEF said
<1>13. SumOver([u \in DOMAIN units |-> units[u].overridden]) =
         Cardinality({i \in DOMAIN index : index[i].unit # NoUnit /\
            \E c \in DOMAIN pool.corrections : pool.corrections[c].id = index[i].id})
  BY <1>9, <1>11
<1>14. QED
  <2> HIDE DEF places, homeless, census, units, pool, queues, opened
  <2> QED
    BY <1>6, <1>7, <1>9, <1>12, <1>13
       DEF NoCaseFallsThrough, places, homeless, census, units, pool, queues, opened, index, journal, now, config

-----------------------------------------------------------------------------
(* The clocks.                                                               *)

(* Of some numbers in a list one is the greatest.                            *)
LEMMA GreatestOfSome ==
  ASSUME NEW n \in Nat, NEW f \in [1..n -> Int], NEW K, K \subseteq 1..n, K # {}
  PROVE  LET S == {f[k] : k \in K}
         IN  Max(S) \in S /\ \A k \in K : Max(S) >= f[k]
<1> DEFINE S == {f[k] : k \in K}
           Leads(i, k) == i \in K /\ i <= k /\ \A j \in K : j <= k => f[j] <= f[i]
           T == {k \in 0..n : (\E j \in K : j <= k) => \E i : Leads(i, k)}
<1>0. \A j \in K : j \in 1..n /\ j \in Int /\ 1 <= j /\ j <= n /\ f[j] \in Int
  OBVIOUS
<1>1. \A k \in 0..n : k \in T
  <2>1. 0 \in T
    <3>1. \A j \in K : ~ (j <= 0)
      BY <1>0
    <3>2. QED
      BY <3>1
  <2>2. ASSUME NEW k \in 1..n, k - 1 \in T PROVE k \in T
    <3>1. (\E j \in K : j <= k - 1) => \E i : Leads(i, k - 1)
      <4> HIDE DEF Leads
      <4> QED BY <2>2
    <3>2. \A j \in K : j <= k <=> j <= k - 1 \/ j = k
      BY <1>0
    <3>3. SUFFICES ASSUME NEW l \in K, l <= k PROVE \E i : Leads(i, k)
      <4> HIDE DEF Leads
      <4> QED BY <3>3
    <3>4. CASE k \notin K
      <4>1. \A j \in K : j <= k <=> j <= k - 1
        BY <3>2, <3>4
      <4>2. PICK i : Leads(i, k - 1)
        BY <3>1, <3>3, <4>1
      <4>3. QED
        BY <4>1, <4>2
    <3>5. CASE k \in K /\ \A j \in K : ~ (j <= k - 1)
      <4>1. \A j \in K : j <= k => f[j] <= f[k]
        BY <1>0, <3>2, <3>5
      <4>2. k <= k
        OBVIOUS
      <4>3. QED
        BY <3>5, <4>1, <4>2
    <3>6. CASE k \in K /\ \E j \in K : j <= k - 1
      <4>1. PICK i : Leads(i, k - 1)
        BY <3>1, <3>6
      <4>2. i \in K /\ i <= k - 1 /\ \A j \in K : j <= k - 1 => f[j] <= f[i]
        BY <4>1
      <4>3. CASE f[k] <= f[i]
        <5>1. i <= k /\ \A j \in K : j <= k => f[j] <= f[i]
          BY <3>2, <4>2, <4>3
        <5>2. QED
          BY <4>2, <5>1
      <4>4. CASE f[i] <= f[k]
        <5>1. \A j \in K : j <= k => f[j] <= f[k]
          <6>1. \A j \in K : j <= k - 1 => f[j] <= f[k]
            <7> SUFFICES ASSUME NEW j \in K, j <= k - 1 PROVE f[j] <= f[k]
              OBVIOUS
            <7>1. f[j] <= f[i]
              BY <4>2
            <7>2. f[j] \in Int /\ f[i] \in Int /\ f[k] \in Int
              BY <1>0, <3>6, <4>2
            <7>3. QED
              BY <4>4, <7>1, <7>2
          <6>2. f[k] <= f[k]
            BY <1>0, <3>6
          <6>3. QED
            BY <3>2, <6>1, <6>2
        <5>2. k <= k
          OBVIOUS
        <5>3. QED
          BY <3>6, <5>1, <5>2
      <4>5. f[i] \in Int /\ f[k] \in Int
        BY <1>0, <3>6, <4>2
      <4>6. QED
        BY <4>3, <4>4, <4>5
    <3>7. QED
      BY <3>4, <3>5, <3>6
  <2> HIDE DEF T
  <2>3. QED
    BY <2>1, <2>2, EveryPlace
<1>2. \E i : Leads(i, n)
  <2>1. n \in T
    <3> HIDE DEF T
    <3> QED BY <1>1
  <2>2. \E j \in K : j <= n
    BY <1>0
  <2> HIDE DEF Leads
  <2>3. QED
    BY <2>1, <2>2
<1>3. PICK i \in K : \A j \in K : f[j] <= f[i]
  BY <1>0, <1>2
<1>4. \A k \in K : f[k] \in Int
  BY <1>0
<1>5. \E x \in S : \A y \in S : x >= y
  <2>1. f[i] \in S
    OBVIOUS
  <2>2. \A y \in S : f[i] >= y
    BY <1>3, <1>4
  <2>3. QED
    BY <2>1, <2>2
<1>6. \A k \in K : f[k] \in S
  OBVIOUS
<1> HIDE DEF S
<1>7. Max(S) \in S /\ \A y \in S : Max(S) >= y
  BY <1>5 DEF Max
<1>8. QED
  BY <1>6, <1>7 DEF S

LEMMA AgesAreNumbers ==
  ASSUME NEW s \in ReviewStates, NEW now \in Int
  PROVE  AgeHours(s, now) \in Int
<1>1. s.case \in CaseStates
  BY DEF ReviewStates
<1>2. s.case.received \in Int
  BY <1>1 DEF CaseStates, Moments, Never
<1>3. QED
  BY <1>2 DEF AgeHours, Never

(* The flag of a row is the budget of its tier.                              *)
LEMMA TheFlagIsTheBudget ==
  ASSUME NEW s, NEW now, NEW config
  PROVE  (\E f \in QueueRow(s, now, config).flags : f.flag = "over_budget")
            <=> OverBudget(s, now, config)
<1> DEFINE over == OverBudget(s, now, config)
           flags == Flags(s, now, config)
<1>1. QueueRow(s, now, config).flags = flags
  BY DEF QueueRow
<1>2. ASSUME over PROVE \E f \in flags : f.flag = "over_budget"
  <2> DEFINE f == [flag |-> "over_budget", says |-> "attention"]
  <2>1. f \in flags
    <3> HIDE DEF over
    <3> QED BY <1>2 DEF Flags, over
  <2>2. QED
    BY <2>1
<1>3. ASSUME ~ over, NEW f \in flags PROVE f.flag # "over_budget"
  <2> HIDE DEF over
  <2>1. \E id \in {"sampled", "anomaly", "escalated", "widerspruch", "reha_frist", "clearing_sla"} :
          \E says : f = [flag |-> id, says |-> says]
    BY <1>3, Zenon DEF Flags, over
  <2>2. QED
    BY <2>1
<1> HIDE DEF over, flags
<1>4. QED
  BY <1>1, <1>2, <1>3 DEF over, flags

LEMMA OverAtItsAge ==
  ASSUME NEW s \in ReviewStates, NEW now \in Int, NEW config,
         config.budget \in [Tiers -> Nat], s.tier \in Tiers
  PROVE  OverBudget(s, now, config) <=>
           Max({AgeHours(s, now), 0}) > BudgetHours(config, s.tier)
<1>1. AgeHours(s, now) \in Int
  BY AgesAreNumbers
<1>2. BudgetHours(config, s.tier) \in Nat
  BY DEF BudgetHours, Tiers, NoTier
<1>3. /\ Max({AgeHours(s, now), 0}) \in {AgeHours(s, now), 0}
      /\ Max({AgeHours(s, now), 0}) >= AgeHours(s, now) /\ Max({AgeHours(s, now), 0}) >= 0
  BY <1>1, MaxOfTwo
<1>4. QED
  BY <1>1, <1>2, <1>3 DEF OverBudget, Never

(* A tier has an open case over its budget; a queue shows the flag for it.   *)
TierIsLate(tier, index, now, config) ==
  \E j \in OpenAt(index) : index[j].tier = tier /\ OverBudget(index[j], now, config)
ShowsLate(tier, queues) ==
  \E u \in DOMAIN queues : \E i \in DOMAIN queues[u] :
    /\ queues[u][i].tier = tier
    /\ \E f \in queues[u][i].flags : f.flag = "over_budget"

(* A tier's backlog is over its budget when one of its open cases is.        *)
LEMMA TheBacklogIs ==
  ASSUME NEW index, NEW journal, IndexOf(index, journal), NEW now \in Int, NEW config,
         config.budget \in [Tiers -> Nat], NEW tier \in Tiers
  PROVE  LET backlog == Backlog(index, now, config)
         IN  tier \in DOMAIN backlog /\ backlog[tier].over <=> TierIsLate(tier, index, now, config)
<1> DEFINE open == OpenStates(index)
           N == 1..Len(open)
           K == {k \in N : open[k].tier = tier}
           f == [k \in N |-> Max({AgeHours(open[k], now), 0})]
           S == {f[k] : k \in K}
           budget == BudgetHours(config, tier)
           backlog == Backlog(index, now, config)
<1>1. /\ open \in Seq(ReviewStates)
      /\ \A k \in 1..Len(open) : \E i \in OpenAt(index) : open[k] = index[i]
      /\ \A i \in OpenAt(index) : \E k \in 1..Len(open) : open[k] = index[i]
  BY TheOpenAre DEF OpenOf
<1>2. /\ DOMAIN backlog = {open[i].tier : i \in DOMAIN open} \ {NoTier}
      /\ tier \in DOMAIN backlog => backlog[tier].over =
           (Max({Max({AgeHours(s, now), 0}) : s \in {s \in Range(open) : s.tier = tier}}) > budget)
  BY DEF Backlog
<1> HIDE DEF backlog, open
<1>3. Len(open) \in Nat /\ DOMAIN open = N /\ \A k \in N : open[k] \in ReviewStates
  BY <1>1
<1>4. tier \in DOMAIN backlog <=> K # {}
  BY <1>2, <1>3 DEF Tiers, NoTier
<1>5. {Max({AgeHours(s, now), 0}) : s \in {s \in Range(open) : s.tier = tier}} = S
  BY <1>3 DEF Range
<1>6. f \in [N -> Int]
  <2>1. ASSUME NEW k \in N PROVE Max({AgeHours(open[k], now), 0}) \in Int
    <3>1. AgeHours(open[k], now) \in Int /\ 0 \in Int
      BY <1>3, AgesAreNumbers
    <3>2. Max({AgeHours(open[k], now), 0}) \in {AgeHours(open[k], now), 0}
      BY <3>1, MaxOfTwo
    <3>3. QED
      BY <3>1, <3>2
  <2>2. QED
    BY <2>1
<1>7. ASSUME NEW k \in K PROVE OverBudget(open[k], now, config) <=> f[k] > budget
  <2>1. open[k] \in ReviewStates /\ open[k].tier = tier /\ k \in N
    BY <1>3
  <2>2. OverBudget(open[k], now, config) <=> Max({AgeHours(open[k], now), 0}) > budget
    BY <2>1, OverAtItsAge
  <2>3. QED
    BY <2>1, <2>2
<1>8. budget \in Int
  BY DEF BudgetHours, Tiers, NoTier
<1>9. K # {} => Max(S) \in S /\ \A k \in K : Max(S) >= f[k]
  <2>1. K \subseteq 1..Len(open)
    OBVIOUS
  <2> HIDE DEF K, f
  <2>2. QED
    BY <1>3, <1>6, <2>1, GreatestOfSome
<1>10. \A k \in K : k \in N /\ f[k] \in Int
  BY <1>6
<1>11. \A k \in N : open[k].tier = tier <=> k \in K
  OBVIOUS
<1>12. K # {} => (Max(S) > budget <=> \E k \in K : f[k] > budget)
  <2> HIDE DEF K, f, budget
  <2> SUFFICES ASSUME K # {} PROVE Max(S) > budget <=> \E k \in K : f[k] > budget
    OBVIOUS
  <2>1. PICK k \in K : Max(S) = f[k]
    BY <1>9
  <2>2. \A l \in K : f[k] >= f[l]
    BY <1>9, <2>1
  <2>3. ASSUME NEW l \in K, f[l] > budget PROVE f[k] > budget
    <3>1. f[k] >= f[l] /\ f[k] \in Int /\ f[l] \in Int
      BY <1>10, <2>2
    <3>2. QED
      BY <1>8, <2>3, <3>1
  <2>4. QED
    BY <2>1, <2>3
<1>13. tier \in DOMAIN backlog /\ backlog[tier].over <=> \E k \in K : f[k] > budget
  <2>1. tier \in DOMAIN backlog => backlog[tier].over = (Max(S) > budget)
    BY <1>2, <1>5
  <2> HIDE DEF K, f, S, budget
  <2>2. QED
    BY <1>4, <1>12, <2>1
<1>14. (\E k \in K : f[k] > budget) <=> \E k \in K : OverBudget(open[k], now, config)
  <2> HIDE DEF K, f, budget
  <2> QED BY <1>7
<1>15. (\E k \in K : OverBudget(open[k], now, config)) <=>
         \E j \in OpenAt(index) : index[j].tier = tier /\ OverBudget(index[j], now, config)
  <2> HIDE DEF K
  <2>1. ASSUME NEW k \in K, OverBudget(open[k], now, config)
        PROVE  \E j \in OpenAt(index) : index[j].tier = tier /\ OverBudget(index[j], now, config)
    <3>1. k \in N /\ open[k].tier = tier
      BY <1>10, <1>11
    <3>2. PICK j \in OpenAt(index) : open[k] = index[j]
      BY <1>1, <3>1
    <3>3. QED
      BY <2>1, <3>1, <3>2
  <2>2. ASSUME NEW j \in OpenAt(index), index[j].tier = tier, OverBudget(index[j], now, config)
        PROVE  \E k \in K : OverBudget(open[k], now, config)
    <3>1. PICK k \in N : open[k] = index[j]
      BY <1>1
    <3>2. QED
      BY <1>11, <2>2, <3>1
  <2>3. QED
    BY <2>1, <2>2
<1>16. QED
  BY <1>13, <1>14, <1>15 DEF backlog, TierIsLate

(* The queues show the flag at the open cases over their budget.             *)
LEMMA TheFlagsShown ==
  ASSUME NEW index, NEW journal, IndexOf(index, journal), NEW now \in Int, NEW config,
         NEW tier
  PROVE  ShowsLate(tier, OverviewQueues(index, now, config)) <=> TierIsLate(tier, index, now, config)
<1> DEFINE queues == OverviewQueues(index, now, config)
           open == OpenStates(index)
           Flagged(row) == \E f \in row.flags : f.flag = "over_budget"
<1>1. /\ DOMAIN queues = QueueIds(index)
      /\ \A u \in QueueIds(index) : queues[u] = BuildQueue(index, u, now, config)
  BY DEF OverviewQueues, QueueIds
<1> HIDE DEF queues
<1>2. ASSUME NEW u \in QueueIds(index)
      PROVE  /\ DOMAIN queues[u] = 1..Len(queues[u])
             /\ \A k \in 1..Len(queues[u]) : \E i \in OpenAt(index) :
                  index[i].unit = u /\ queues[u][k] = QueueRow(index[i], now, config)
             /\ \A i \in OpenAt(index) : index[i].unit = u =>
                  \E k \in 1..Len(queues[u]) : queues[u][k] = QueueRow(index[i], now, config)
  <2>1. Standing(BuildQueue(index, u, now, config), open, index, u, now, config)
    BY AUnitsQueueIs
  <2>2. Standing(queues[u], open, index, u, now, config)
    BY <1>1, <2>1
  <2> HIDE DEF open
  <2>3. QED
    BY <2>2 DEF Standing
<1>3. \A j : LET row == QueueRow(index[j], now, config)
             IN  row.tier = index[j].tier /\ (Flagged(row) <=> OverBudget(index[j], now, config))
  <2> TAKE j
  <2>1. QueueRow(index[j], now, config).tier = index[j].tier
    BY DEF QueueRow
  <2>2. Flagged(QueueRow(index[j], now, config)) <=> OverBudget(index[j], now, config)
    BY TheFlagIsTheBudget
  <2>3. QED
    BY <2>1, <2>2
<1>4. \A j \in OpenAt(index) : index[j].unit \in QueueIds(index)
  BY TheLinksOpen
<1> HIDE DEF Flagged
<1>5. ASSUME NEW u \in DOMAIN queues, NEW k \in DOMAIN queues[u], queues[u][k].tier = tier,
             Flagged(queues[u][k])
      PROVE  \E j \in OpenAt(index) : index[j].tier = tier /\ OverBudget(index[j], now, config)
  <2>1. PICK j \in OpenAt(index) : queues[u][k] = QueueRow(index[j], now, config)
    BY <1>1, <1>2
  <2>2. QED
    BY <1>3, <1>5, <2>1
<1>6. ASSUME NEW j \in OpenAt(index), index[j].tier = tier, OverBudget(index[j], now, config)
      PROVE  \E u \in DOMAIN queues : \E k \in DOMAIN queues[u] :
               queues[u][k].tier = tier /\ Flagged(queues[u][k])
  <2> DEFINE u == index[j].unit
  <2>1. u \in QueueIds(index)
    BY <1>4
  <2>2. \A i \in OpenAt(index) : index[i].unit = u =>
          \E k \in 1..Len(queues[u]) : queues[u][k] = QueueRow(index[i], now, config)
    BY <1>2, <2>1
  <2>3. PICK k \in 1..Len(queues[u]) : queues[u][k] = QueueRow(index[j], now, config)
    BY <2>2
  <2>4. k \in DOMAIN queues[u] /\ u \in DOMAIN queues
    BY <1>1, <1>2, <2>1
  <2>5. queues[u][k].tier = tier /\ Flagged(queues[u][k])
    BY <1>3, <1>6, <2>3
  <2>6. QED
    BY <2>4, <2>5
<1>7. QED
  BY <1>5, <1>6 DEF queues, Flagged, ShowsLate, TierIsLate

(* The oldest of a queue stands first in it.                                 *)
LEMMA TheOldestIsFirst ==
  ASSUME NEW rows, Len(rows) \in Nat \ {0}, DOMAIN rows = 1..Len(rows),
         \A k \in 1..Len(rows) : rows[k].age \in Int,
         \A k \in 1..Len(rows) : Max({rows[k].age, 0}) <= Max({rows[1].age, 0})
  PROVE  Max({0, rows[1].age}) = Max({0, Summary(rows).oldest})
<1> DEFINE n == Len(rows)
           f == [k \in 1..n |-> rows[k].age]
           K == {k \in 1..n : rows[k].age # Never}
           S == {f[k] : k \in K}
           ages == {rows[i].age : i \in DOMAIN rows} \ {Never}
           Top(a) == IF a >= 0 THEN a ELSE 0
<1>1. n \in Nat /\ 1 \in 1..n
  OBVIOUS
<1>2. ASSUME NEW a \in Int PROVE Max({0, a}) = Top(a) /\ Max({a, 0}) = Top(a)
  <2>1. {0, a} = {a, 0} /\ 0 \in Int
    OBVIOUS
  <2>2. Max({a, 0}) \in {a, 0} /\ Max({a, 0}) >= a /\ Max({a, 0}) >= 0
    BY <2>1, MaxOfTwo
  <2>3. Max({a, 0}) = Top(a)
    BY <2>2
  <2>4. QED
    BY <2>1, <2>3
<1>3. ages = S
  OBVIOUS
<1>4. f \in [1..n -> Int] /\ \A k \in 1..n : f[k] = rows[k].age
  OBVIOUS
<1>5. \A k \in 1..n : k \in K <=> f[k] # Never
  OBVIOUS
<1>6. K \subseteq 1..n
  OBVIOUS
<1> DEFINE oldest == IF ages = {} THEN Never ELSE Max(ages)
<1>7. Summary(rows).oldest = oldest
  BY DEF Summary
<1>8. \A k \in 1..n : f[k] \in Int /\ Top(f[k]) <= Top(f[1])
  BY <1>1, <1>2, <1>4
<1> HIDE DEF K, f, ages, n
<1>9. oldest \in Int /\ Top(oldest) = Top(f[1])
  <2>1. CASE K = {}
    <3>1. f[1] = Never
      BY <1>1, <1>5, <2>1
    <3>2. ages = {}
      BY <1>3, <2>1
    <3>3. QED
      BY <3>1, <3>2 DEF Never
  <2>2. CASE K # {}
    <3>1. Max(S) \in S /\ \A k \in K : Max(S) >= f[k]
      BY <1>1, <1>4, <1>6, <2>2, GreatestOfSome
    <3>2. PICK k \in K : Max(S) = f[k]
      BY <3>1
    <3>3. k \in 1..n /\ f[k] \in Int /\ f[1] \in Int /\ Top(f[k]) <= Top(f[1])
      BY <1>1, <1>6, <1>8
    <3>4. oldest = f[k]
      BY <1>3, <2>2, <3>2
    <3>5. f[1] # Never => f[k] >= f[1]
      BY <1>1, <1>5, <3>1, <3>2
    <3> HIDE DEF oldest
    <3>6. QED
      BY <3>3, <3>4, <3>5 DEF Never
  <2>3. QED
    BY <2>1, <2>2
<1>10. Max({0, oldest}) = Top(oldest)
  <2> HIDE DEF oldest
  <2> QED BY <1>2, <1>9
<1>11. Max({0, rows[1].age}) = Top(f[1])
  BY <1>1, <1>2, <1>4
<1>12. QED
  BY <1>7, <1>9, <1>10, <1>11

LEMMA TheClocksSayTheSame == DeskQuestions => LatenessAgrees
<1> SUFFICES ASSUME DeskQuestions, Asked("desk") PROVE LatenessAgrees
  BY DEF LatenessAgrees
<1> DEFINE journal == question.journal
           now == question.now
           config == question.config
           index == BuildIndex(journal)
           queues == OverviewQueues(index, now, config)
           backlog == Backlog(index, now, config)
<1>1. PICK ids \in SUBSET Int : IsFiniteSet(ids) /\ journal \in [ids -> Seq(Events)]
  BY DEF DeskQuestions
<1>2. now \in Int /\ config.budget \in [Tiers -> Nat]
  BY DEF DeskQuestions
<1> HIDE DEF journal, now, config
<1>3. IndexOf(index, journal)
  BY <1>1, TheIndexIs
<1> HIDE DEF index
<1>4. ASSUME NEW tier \in Tiers
      PROVE  ShowsLate(tier, queues) <=> tier \in DOMAIN backlog /\ backlog[tier].over
  <2>1. tier \in DOMAIN backlog /\ backlog[tier].over <=> TierIsLate(tier, index, now, config)
    BY <1>2, <1>3, TheBacklogIs
  <2>2. ShowsLate(tier, queues) <=> TierIsLate(tier, index, now, config)
    BY <1>2, <1>3, TheFlagsShown
  <2>3. QED
    BY <2>1, <2>2
<1>5. ASSUME NEW u \in DOMAIN queues, queues[u] # << >>
      PROVE  Max({0, queues[u][1].age}) = Max({0, Summary(queues[u]).oldest})
  <2> DEFINE rows == BuildQueue(index, u, now, config)
             open == OpenStates(index)
  <2>1. queues[u] = rows
    BY <1>5 DEF OverviewQueues
  <2>2. Standing(rows, open, index, u, now, config)
    BY <1>2, <1>3, AUnitsQueueIs
  <2> HIDE DEF rows, open
  <2>3. /\ Len(rows) \in Nat /\ DOMAIN rows = 1..Len(rows)
        /\ \A k \in 1..Len(rows) : \E i \in OpenAt(index) :
             index[i].unit = u /\ rows[k] = QueueRow(index[i], now, config)
        /\ \A k \in 1..Len(rows) : Max({rows[k].age, 0}) <= Max({rows[1].age, 0})
    BY <2>2 DEF Standing
  <2>4. ASSUME NEW k \in 1..Len(rows) PROVE rows[k].age \in Int
    <3>1. PICK i \in OpenAt(index) : rows[k] = QueueRow(index[i], now, config)
      BY <2>3
    <3>2. index[i] \in ReviewStates
      BY <1>3 DEF IndexOf, OpenAt
    <3>3. rows[k].age = AgeHours(index[i], now)
      BY <3>1 DEF QueueRow
    <3>4. QED
      BY <1>2, <3>2, <3>3, AgesAreNumbers
  <2>5. Len(rows) # 0
    <3>1. rows # << >>
      BY <1>5, <2>1
    <3>2. QED
      BY <2>3, <3>1
  <2>6. Max({0, rows[1].age}) = Max({0, Summary(rows).oldest})
    BY <2>3, <2>4, <2>5, TheOldestIsFirst
  <2>7. QED
    BY <2>1, <2>6
<1>6. QED
  <2> HIDE DEF queues, backlog
  <2>1. QED
    BY <1>4, <1>5 DEF LatenessAgrees, ShowsLate, queues, backlog, index, journal, now, config

-----------------------------------------------------------------------------
(* The latencies.                                                            *)
Dispatches == [id : Int, type : STRING, at : Int, source : Int]
LatencyQuestions == Asked("latency") => question.log \in Seq(Dispatches)

(* The nearest rank: at it the stated share is reached, before it it is not. *)
LEMMA NearestRank ==
  ASSUME NEW n \in Nat, NEW total \in Nat, 0 < total, total <= 100 * n
  PROVE  LET rank == Max({1, Min({n, (total + 99) \div 100})})
         IN  rank \in 1..n /\ 100 * rank >= total /\ 100 * (rank - 1) < total
<1> DEFINE r == (total + 99) \div 100
<1>1. r \in Nat /\ r \in 1..n /\ 100 * r >= total /\ 100 * (r - 1) < total
  OBVIOUS
<1> HIDE DEF r
<1>2. Min({n, r}) = r
  <2>1. Min({n, r}) \in {n, r} /\ Min({n, r}) <= n /\ Min({n, r}) <= r
    BY <1>1, MinOfTwo
  <2>2. QED
    BY <1>1, <2>1
<1>3. Max({1, r}) = r
  <2>1. 1 \in Int /\ r \in Int
    BY <1>1
  <2>2. Max({1, r}) \in {1, r} /\ Max({1, r}) >= 1 /\ Max({1, r}) >= r
    BY <2>1, MaxOfTwo
  <2>3. QED
    BY <1>1, <2>2
<1>4. QED
  BY <1>1, <1>2, <1>3 DEF r

AtOrBelow(values, w) == Cardinality({i \in DOMAIN values : values[i] <= w})

Reached(values, percent, v) ==
  /\ 100 * AtOrBelow(values, v) >= percent * Len(values)
  /\ \A i \in DOMAIN values :
       values[i] < v => 100 * AtOrBelow(values, values[i]) < percent * Len(values)

LEMMA PercentilesAreReached ==
  ASSUME NEW values \in Seq(Int), values # << >>, NEW percent \in {50, 95}
  PROVE  Reached(values, percent, Percentile(InOrder(values), percent))
<1> DEFINE n == Len(values)
           total == percent * n
           s == InOrder(values)
           rank == Max({1, Min({n, (total + 99) \div 100})})
           below(v) == Cardinality({i \in 1..n : values[i] < v})
           within(v) == Cardinality({i \in 1..n : values[i] <= v})
<1>1. n \in Nat \ {0} /\ DOMAIN values = 1..n /\ \A i \in 1..n : values[i] \in Int
  OBVIOUS
<1>2. s \in Seq(Int) /\ Len(s) = n /\ \A k \in 1..n : below(s[k]) < k /\ k <= within(s[k])
  BY ListsAreSorted
<1>3. Percentile(s, percent) = s[rank]
  BY <1>2 DEF Percentile
<1> HIDE DEF n
<1>4. total \in Nat /\ 0 < total /\ total <= 100 * n
  <2>1. CASE percent = 50
    BY <1>1, <2>1
  <2>2. CASE percent = 95
    BY <1>1, <2>2
  <2>3. QED
    BY <2>1, <2>2
<1> HIDE DEF total
<1>5. rank \in 1..n /\ 100 * rank >= total /\ 100 * (rank - 1) < total
  BY <1>1, <1>4, NearestRank
<1> HIDE DEF rank, s
<1> DEFINE v == s[rank]
<1>6. v \in Int /\ below(v) < rank /\ rank <= within(v)
  <2>1. rank \in 1..Len(s)
    BY <1>2, <1>5
  <2>2. v \in Int
    BY <1>2, <2>1
  <2> HIDE DEF below, within
  <2>3. QED
    BY <1>2, <1>5, <2>2
<1> HIDE DEF v
<1>7. \A w : within(w) \in Nat /\ below(w) \in Nat
  <2> TAKE w
  <2>1. {i \in 1..n : values[i] <= w} \subseteq 1..n /\ {i \in 1..n : values[i] < w} \subseteq 1..n
    OBVIOUS
  <2>2. QED
    BY <1>1, <2>1, CountedPlaces
<1>8. 100 * within(v) >= total
  <2> HIDE DEF within, below
  <2>1. within(v) \in Nat /\ rank \in Nat /\ total \in Nat
    BY <1>1, <1>4, <1>5, <1>7
  <2>2. QED
    BY <1>4, <1>5, <1>6, <2>1
<1>9. ASSUME NEW i \in 1..n, values[i] < v PROVE 100 * within(values[i]) < total
  <2> DEFINE w == values[i]
             A == {j \in 1..n : values[j] <= w}
             B == {j \in 1..n : values[j] < v}
  <2>1. A \subseteq B /\ B \subseteq 1..n
    <3>1. w \in Int
      BY <1>1
    <3> HIDE DEF w
    <3>2. \A j \in 1..n : values[j] <= w => values[j] < v
      <4>1. \A j \in 1..n : values[j] \in Int
        BY <1>1
      <4>2. w < v
        BY <1>9 DEF w
      <4>3. QED
        BY <1>6, <3>1, <4>1, <4>2
    <3>3. QED
      BY <3>2
  <2>2. Cardinality(A) <= Cardinality(B)
    <3>1. IsFiniteSet(B)
      BY <1>1, <2>1, CountedPlaces
    <3> HIDE DEF A, B
    <3>2. QED
      BY <2>1, <3>1, FS_Subset
  <2>3. within(w) <= below(v)
    BY <2>2
  <2> HIDE DEF within, below, w
  <2>4. /\ within(w) \in Nat /\ below(v) \in Nat /\ rank \in Nat /\ total \in Nat
        /\ 100 * (rank - 1) < total
    BY <1>1, <1>4, <1>5, <1>7
  <2>5. within(w) <= rank - 1
    BY <1>6, <2>3, <2>4
  <2>6. 100 * within(w) < total
    BY <2>4, <2>5
  <2>7. QED
    BY <2>6 DEF w
<1> DEFINE reached(w) == AtOrBelow(values, w)
<1>10. \A w : reached(w) = within(w)
  BY <1>1 DEF AtOrBelow
<1>11. Percentile(InOrder(values), percent) = v
  BY <1>3 DEF s, v
<1>12. DOMAIN values = 1..n /\ total = percent * Len(values)
  BY <1>1 DEF n, total
<1> HIDE DEF within, reached
<1>13. /\ 100 * reached(v) >= total
       /\ \A i \in DOMAIN values : values[i] < v => 100 * reached(values[i]) < total
  BY <1>8, <1>9, <1>10, <1>12
<1>14. QED
  BY <1>11, <1>12, <1>13 DEF reached, Reached

LEMMA LatenciesAreNumbers ==
  ASSUME NEW log \in Seq(Dispatches)
  PROVE  LET took == CaseLatencies(log)
         IN  [i \in DOMAIN took |-> took[i].took] \in Seq(Int)
<1> DEFINE Answers(e) == \E i \in DOMAIN log : log[i].id = e.source
           these == {e \in Range(log) : e.type = "NOTIFIED" /\ Answers(e)}
           told == Those(log, these)
           owed(e) == CHOOSE i \in DOMAIN log : log[i].id = e.source
           took == CaseLatencies(log)
           values == [i \in DOMAIN took |-> took[i].took]
<1>1. told \in Seq(Dispatches) /\ \A k \in 1..Len(told) : told[k] \in these
  <2> HIDE DEF these
  <2>1. AreKept(told, Dispatches, log, these)
    BY ThoseAreKept
  <2> HIDE DEF told
  <2>2. QED
    BY <2>1 DEF AreKept
<1>2. took = [i \in DOMAIN told |-> [trigger |-> log[owed(told[i])].type,
                                    took |-> told[i].at - log[owed(told[i])].at]]
  BY DEF CaseLatencies
<1>3. \A e \in these : Answers(e)
  OBVIOUS
<1> HIDE DEF these, told
<1>4. Len(told) \in Nat /\ DOMAIN told = 1..Len(told)
      /\ \A k \in 1..Len(told) : told[k] \in Dispatches /\ Answers(told[k])
  BY <1>1, <1>3
<1>5. \A k \in 1..Len(told) : owed(told[k]) \in DOMAIN log
  <2> TAKE k \in 1..Len(told)
  <2>1. \E i \in DOMAIN log : log[i].id = told[k].source
    BY <1>4
  <2>2. QED
    BY <2>1, Zenon
<1> HIDE DEF owed
<1>6. \A i \in DOMAIN log : log[i].at \in Int
  <2>1. \A i \in DOMAIN log : log[i] \in Dispatches
    OBVIOUS
  <2>2. QED
    BY <2>1 DEF Dispatches
<1>7. \A k \in 1..Len(told) : told[k].at \in Int
  BY <1>4 DEF Dispatches
<1> HIDE DEF took
<1>8. values = [k \in 1..Len(told) |-> told[k].at - log[owed(told[k])].at]
  BY <1>2, <1>4
<1>9. \A k \in 1..Len(told) : told[k].at - log[owed(told[k])].at \in Int
  BY <1>5, <1>6, <1>7
<1>10. [k \in 1..Len(told) |-> told[k].at - log[owed(told[k])].at] \in Seq(Int)
  <2> DEFINE n == Len(told)
             d == [k \in 1..n |-> told[k].at - log[owed(told[k])].at]
  <2>1. n \in Nat /\ d \in [1..n -> Int]
    BY <1>4, <1>9
  <2> HIDE DEF n, d
  <2>2. d \in Seq(Int)
    BY <2>1
  <2>3. QED
    BY <2>2 DEF d, n
<1>11. values \in Seq(Int)
  BY <1>8, <1>10
<1>12. QED
  BY <1>11 DEF took

LEMMA RanksAreReached == LatencyQuestions => APercentileIsReached
<1> SUFFICES ASSUME LatencyQuestions, Asked("latency") PROVE APercentileIsReached
  BY DEF APercentileIsReached
<1> DEFINE took == CaseLatencies(question.log)
           values == [i \in DOMAIN took |-> took[i].took]
           all == Distribution(values)
           count(v) == CountIf(values, LAMBDA w : w <= v)
           reached(percent, v) ==
             /\ 100 * count(v) >= percent * Len(values)
             /\ \A i \in DOMAIN values :
                  values[i] < v => 100 * count(values[i]) < percent * Len(values)
<1>1. values \in Seq(Int)
  BY LatenciesAreNumbers DEF LatencyQuestions
<1> HIDE DEF took
<1>2. all.median = Percentile(InOrder(values), 50) /\ all.p95 = Percentile(InOrder(values), 95)
  BY DEF Distribution
<1>3. \A v : count(v) = AtOrBelow(values, v)
  BY DEF CountIf, AtOrBelow
<1> HIDE DEF values
<1>4. ASSUME values # << >>, NEW percent \in {50, 95}
      PROVE  reached(percent, Percentile(InOrder(values), percent))
  <2> DEFINE v == Percentile(InOrder(values), percent)
  <2>1. Reached(values, percent, v)
    BY <1>1, <1>4, PercentilesAreReached
  <2> HIDE DEF count, v
  <2>2. reached(percent, v)
    BY <1>3, <2>1 DEF Reached
  <2>3. QED
    BY <2>2 DEF v
<1>5. values # << >> => reached(50, all.median) /\ reached(95, all.p95)
  <2> HIDE DEF reached, all
  <2>1. QED
    BY <1>2, <1>4
<1>6. QED
  BY <1>5 DEF APercentileIsReached, values, took

LEMMA ClocksAgree == DeskQuestions /\ LatencyQuestions => TheClocksAgree
  BY TheClocksSayTheSame, RanksAreReached DEF TheClocksAgree

-----------------------------------------------------------------------------
(* The letters.                                                             *)
(* A piece stands in a list once for each place it has there.               *)
PlacesOf(c, text) == {i \in DOMAIN text : text[i] = c}

LEMMA PlacesAreFinite ==
  ASSUME NEW S, NEW text \in Seq(S), NEW c
  PROVE  /\ Times(c, text) = Cardinality(PlacesOf(c, text))
         /\ IsFiniteSet(PlacesOf(c, text)) /\ Times(c, text) \in Nat
         /\ Times(c, text) = 0 <=> c \notin ToSet(text)
<1>1. Times(c, text) = Cardinality(PlacesOf(c, text))
  BY DEF Times, PlacesOf
<1>2. IsFiniteSet(1..Len(text)) /\ PlacesOf(c, text) \subseteq 1..Len(text)
  BY FS_Interval DEF PlacesOf
<1>3. IsFiniteSet(PlacesOf(c, text))
  BY <1>2, FS_Subset
<1>4. Cardinality(PlacesOf(c, text)) \in Nat
  BY <1>3, FS_CardinalityType
<1>5. Cardinality(PlacesOf(c, text)) = 0 <=> PlacesOf(c, text) = {}
  BY <1>3, FS_EmptySet
<1>6. PlacesOf(c, text) = {} <=> c \notin ToSet(text)
  BY DEF PlacesOf, ToSet
<1>7. QED
  BY <1>1, <1>3, <1>4, <1>5, <1>6

(* Of two texts, one after the other, each keeps its pieces.                 *)
LEMMA TimesOfBoth ==
  ASSUME NEW S, NEW s \in Seq(S), NEW t \in Seq(S), NEW c
  PROVE  s \o t \in Seq(S) /\ Times(c, s \o t) = Times(c, s) + Times(c, t)
<1> DEFINE m == Len(s)
           both == s \o t
           A == PlacesOf(c, s)
           B == PlacesOf(c, t)
           moved == [j \in B |-> m + j]
           C == {i \in PlacesOf(c, both) : i > m}
<1>1. both \in Seq(S) /\ Len(both) = m + Len(t) /\ m \in Nat /\ Len(t) \in Nat
  OBVIOUS
<1>2. /\ \A i \in 1..m : both[i] = s[i]
      /\ \A i \in 1..Len(t) : both[m + i] = t[i]
  OBVIOUS
<1>3. /\ DOMAIN s = 1..m /\ DOMAIN t = 1..Len(t) /\ DOMAIN both = 1..(m + Len(t))
  BY <1>1
<1> HIDE DEF both, m
<1>4. PlacesOf(c, both) = A \cup C
  BY <1>1, <1>2, <1>3 DEF PlacesOf
<1>5. A \cap C = {}
  BY <1>1, <1>3 DEF PlacesOf
<1>6. \A j \in B : j \in 1..Len(t) /\ m + j \in C
  BY <1>1, <1>2, <1>3 DEF PlacesOf
<1>7. \A i \in C : i - m \in B /\ i = m + (i - m)
  <2> TAKE i \in C
  <2>1. i \in 1..(m + Len(t)) /\ i > m /\ both[i] = c
    BY <1>3 DEF PlacesOf
  <2>2. i - m \in 1..Len(t) /\ i = m + (i - m)
    BY <1>1, <2>1
  <2>3. t[i - m] = c
    BY <1>2, <2>1, <2>2
  <2>4. QED
    BY <1>3, <2>2, <2>3 DEF PlacesOf
<1>8. moved \in Bijection(B, C)
  <2>1. moved \in [B -> C]
    BY <1>6
  <2>2. \A j, k \in B : moved[j] = moved[k] => j = k
    BY <1>1, <1>6
  <2>3. \A i \in C : \E j \in B : moved[j] = i
    BY <1>7
  <2> HIDE DEF moved, B, C
  <2>4. QED
    BY <2>1, <2>2, <2>3 DEF Bijection, Injection, Surjection, IsInjective
<1>9. IsFiniteSet(A) /\ IsFiniteSet(B) /\ IsFiniteSet(PlacesOf(c, both))
  BY <1>1, PlacesAreFinite
<1>10. IsFiniteSet(C) /\ Cardinality(C) = Cardinality(B)
  <2>1. ExistsBijection(B, C)
    <3> HIDE DEF moved, B, C
    <3> QED BY <1>8 DEF ExistsBijection
  <2> HIDE DEF B, C
  <2>2. QED
    BY <1>9, <2>1, FS_Bijection
<1>11. Cardinality(A \cup C) = Cardinality(A) + Cardinality(C)
  <2>1. Cardinality(A \cup C) = Cardinality(A) + Cardinality(C) - Cardinality(A \cap C)
    <3> HIDE DEF A, C
    <3> QED BY <1>9, <1>10, FS_Union
  <2>2. Cardinality(A \cap C) = 0
    BY <1>5, FS_EmptySet
  <2>3. Cardinality(A) \in Nat /\ Cardinality(C) \in Nat
    BY <1>9, <1>10, FS_CardinalityType
  <2>4. QED
    BY <2>1, <2>2, <2>3
<1>12. Times(c, both) = Cardinality(A) + Cardinality(B)
  BY <1>1, <1>4, <1>10, <1>11, PlacesAreFinite
<1>13. QED
  BY <1>1, <1>12, PlacesAreFinite DEF both

LEMMA TimesOfOne ==
  ASSUME NEW c, NEW x
  PROVE  Times(c, << >>) = 0 /\ Times(c, <<x>>) = IF x = c THEN 1 ELSE 0
<1>1. PlacesOf(c, << >>) = {}
  BY DEF PlacesOf
<1>2. PlacesOf(c, <<x>>) = IF x = c THEN {1} ELSE {}
  BY DEF PlacesOf
<1>3. Times(c, << >>) = Cardinality(PlacesOf(c, << >>)) /\ Times(c, <<x>>) = Cardinality(PlacesOf(c, <<x>>))
  BY DEF PlacesOf, Times
<1>4. QED
  BY <1>1, <1>2, <1>3, FS_EmptySet, FS_Singleton

LEMMA TimesOfOneMore ==
  ASSUME NEW S, NEW text \in Seq(S), NEW x \in S, NEW c
  PROVE  /\ Append(text, x) \in Seq(S)
         /\ Times(c, Append(text, x)) = Times(c, text) + IF x = c THEN 1 ELSE 0
<1>1. <<x>> \in Seq(S) /\ Append(text, x) = text \o <<x>> /\ Append(text, x) \in Seq(S)
  OBVIOUS
<1>2. Times(c, text \o <<x>>) = Times(c, text) + Times(c, <<x>>)
  BY <1>1, TimesOfBoth, ZenonT(40)
<1>3. QED
  BY <1>1, <1>2, TimesOfOne

(* Packing a text takes blanks from it and nothing else.                     *)
LEMMA PackedKeepsTimes ==
  ASSUME NEW S, NEW text \in Seq(S), NEW c, c \notin Blanks
  PROVE  Packed(text) \in Seq(S) /\ Times(c, Packed(text)) = Times(c, text)
<1> DEFINE these == ToSet(text) \ Blanks
           n == Len(text)
           upTo(k) == {i \in 1..k : text[i] = c}
           A == Seq(S)
<1>1. PICK r : r \in KeepingSteps(S, text, these)
  BY ThoseSteps
<1>2. /\ r \in [0..n -> A] /\ r[0] = << >> /\ n \in Nat
      /\ \A k \in 1..n : r[k] = IF text[k] \in these THEN Append(r[k-1], text[k]) ELSE r[k-1]
      /\ Packed(text) = r[n]
  BY <1>1 DEF KeepingSteps, Packed, Without
<1>3. \A k \in 1..n : text[k] \in S /\ (text[k] \in these <=> text[k] \notin Blanks)
  BY DEF ToSet
<1>4. \A k \in 0..n : IsFiniteSet(upTo(k))
  <2> TAKE k \in 0..n
  <2>1. IsFiniteSet(1..k) /\ upTo(k) \subseteq 1..k
    BY FS_Interval
  <2>2. QED
    BY <2>1, FS_Subset
<1> DEFINE T == {k \in 0..n : Times(c, r[k]) = Cardinality(upTo(k))}
<1>5. 0 \in T
  <2>1. upTo(0) = {} /\ 0 \in 0..n
    BY <1>2
  <2>2. QED
    BY <1>2, <2>1, TimesOfOne, FS_EmptySet
<1>6. ASSUME NEW k \in 1..n, k - 1 \in T PROVE k \in T
  <2>1. k \in 0..n /\ k - 1 \in 0..n /\ k \notin upTo(k-1)
    BY <1>2
  <2>2. r[k-1] \in A /\ Times(c, r[k-1]) = Cardinality(upTo(k-1))
    <3> HIDE DEF A
    <3> QED BY <1>2, <1>6, <2>1
  <2> DEFINE t == r[k-1]
             e == text[k]
  <2>3. e \in S /\ Times(c, Append(t, e)) = Times(c, t) + IF e = c THEN 1 ELSE 0
    <3>1. e \in S /\ t \in Seq(S)
      BY <1>3, <2>2
    <3> HIDE DEF e, t
    <3>2. QED
      BY <3>1, TimesOfOneMore
  <2>4. Times(c, t) \in Nat
    <3>1. t \in Seq(S)
      BY <2>2
    <3> HIDE DEF t
    <3>2. QED
      BY <3>1, PlacesAreFinite
  <2>5. r[k] = IF e \notin Blanks THEN Append(t, e) ELSE t
    <3> HIDE DEF these
    <3> QED BY <1>2, <1>3
  <2> HIDE DEF t
  <2>6. CASE e = c
    <3>1. upTo(k) = upTo(k-1) \cup {k}
      BY <1>2, <2>6
    <3>2. Times(c, r[k]) = Times(c, t) + 1
      BY <2>3, <2>5, <2>6
    <3>3. Cardinality(upTo(k)) = Cardinality(upTo(k-1)) + 1
      <4> HIDE DEF upTo
      <4> QED BY <1>4, <2>1, <3>1, FS_AddElement
    <3>4. QED
      BY <2>1, <2>2, <3>2, <3>3 DEF t
  <2>7. CASE e # c
    <3>1. upTo(k) = upTo(k-1)
      BY <1>2, <2>7
    <3>2. Times(c, r[k]) = Times(c, t)
      BY <2>3, <2>4, <2>5, <2>7
    <3>3. QED
      BY <2>1, <2>2, <3>1, <3>2 DEF t
  <2>8. QED
    BY <2>6, <2>7
<1>7. n \in T
  <2>1. n \in 0..n
    BY <1>2
  <2> HIDE DEF T
  <2>2. \A k \in 0..n : k \in T
    BY <1>2, <1>5, <1>6, EveryPlace
  <2>3. QED
    BY <2>1, <2>2
<1>8. Times(c, r[n]) = Cardinality(upTo(n)) /\ r[n] \in Seq(S)
  BY <1>2, <1>7
<1>9. PlacesOf(c, text) = upTo(n)
  BY DEF PlacesOf
<1>10. QED
  BY <1>2, <1>8, <1>9, PlacesAreFinite

(* Lists joined hold a piece as often as the lists do together: lists that    *)
(* hold it alike, joined hold it alike.                                      *)
LEMMA JoinedAlike ==
  ASSUME NEW S, NEW a \in Seq(Seq(S)), NEW b \in Seq(Seq(S)), NEW c, Len(a) = Len(b),
         \A i \in 1..Len(a) : Times(c, a[i]) = Times(c, b[i])
  PROVE  Times(c, FlattenSeq(a)) = Times(c, FlattenSeq(b))
<1> DEFINE n == Len(a)
           A == Seq(S)
<1>1. PICK r : r \in JoiningSteps(S, a)
  BY FlatteningSteps
<1>2. PICK q : q \in JoiningSteps(S, b)
  BY FlatteningSteps
<1>3. /\ r \in [0..n -> A] /\ r[0] = << >> /\ n \in Nat
      /\ \A k \in 1..n : r[k] = r[k-1] \o a[k] /\ a[k] \in A
      /\ FlattenSeq(a) = r[n]
  BY <1>1 DEF JoiningSteps
<1>4. /\ q \in [0..n -> A] /\ q[0] = << >>
      /\ \A k \in 1..n : q[k] = q[k-1] \o b[k] /\ b[k] \in A
      /\ FlattenSeq(b) = q[n]
  BY <1>2 DEF JoiningSteps
<1>t. \A s, t \in A : Times(c, s \o t) = Times(c, s) + Times(c, t)
  BY TimesOfBoth
<1>s. \A k \in 1..n : Times(c, a[k]) = Times(c, b[k])
  OBVIOUS
<1> HIDE DEF n, A
<1> DEFINE T == {k \in 0..n : Times(c, r[k]) = Times(c, q[k])}
<1>5. 0 \in T
  BY <1>3, <1>4
<1>6. ASSUME NEW k \in 1..n, k - 1 \in T PROVE k \in T
  <2>1. k \in 0..n /\ k - 1 \in 0..n
    BY <1>3
  <2>2. r[k-1] \in A /\ q[k-1] \in A /\ a[k] \in A /\ b[k] \in A
    BY <1>3, <1>4, <2>1
  <2>3. Times(c, r[k]) = Times(c, r[k-1]) + Times(c, a[k])
    BY <1>3, <1>t, <2>2, Zenon
  <2>4. Times(c, q[k]) = Times(c, q[k-1]) + Times(c, b[k])
    BY <1>4, <1>t, <2>2, Zenon
  <2>5. Times(c, r[k-1]) = Times(c, q[k-1]) /\ Times(c, a[k]) = Times(c, b[k])
    BY <1>6, <1>s
  <2>6. Times(c, r[k]) = Times(c, q[k])
    BY <2>3, <2>4, <2>5, Zenon
  <2>7. QED
    BY <2>1, <2>6
<1>7. n \in T
  <2>1. n \in 0..n
    BY <1>3
  <2> HIDE DEF T
  <2>2. \A k \in 0..n : k \in T
    BY <1>3, <1>5, <1>6, EveryPlace
  <2>3. QED
    BY <2>1, <2>2
<1>8. QED
  BY <1>3, <1>4, <1>7

(* Where a piece stands in lists: in which list, and at which place of it.   *)
PiecesOf(c, lists, k) ==
  {p \in (1..k) \X Nat : p[2] \in PlacesOf(c, lists[p[1]])}

LEMMA JoinedTimes ==
  ASSUME NEW S, NEW lists \in Seq(Seq(S)), NEW c
  PROVE  /\ IsFiniteSet(PiecesOf(c, lists, Len(lists)))
         /\ Times(c, FlattenSeq(lists)) = Cardinality(PiecesOf(c, lists, Len(lists)))
<1> DEFINE n == Len(lists)
           A == Seq(S)
           of(k) == PiecesOf(c, lists, k)
<1>1. PICK r : r \in JoiningSteps(S, lists)
  BY FlatteningSteps
<1>2. /\ r \in [0..n -> A] /\ r[0] = << >> /\ n \in Nat
      /\ \A k \in 1..n : r[k] = r[k-1] \o lists[k] /\ lists[k] \in A
      /\ FlattenSeq(lists) = r[n]
  <2>1. n \in Nat /\ \A k \in 1..n : lists[k] \in A
    OBVIOUS
  <2> HIDE DEF of
  <2>2. QED
    BY <1>1, <2>1 DEF JoiningSteps
<1>3. \A s, t \in A : Times(c, s \o t) = Times(c, s) + Times(c, t)
  BY TimesOfBoth
<1>4. \A k \in 1..n : /\ IsFiniteSet(PlacesOf(c, lists[k])) /\ PlacesOf(c, lists[k]) \subseteq Nat
                      /\ Times(c, lists[k]) = Cardinality(PlacesOf(c, lists[k]))
  <2> TAKE k \in 1..n
  <2>1. lists[k] \in Seq(S)
    BY <1>2
  <2>2. PlacesOf(c, lists[k]) \subseteq Nat
    BY <2>1 DEF PlacesOf
  <2>3. QED
    BY <2>1, <2>2, PlacesAreFinite
<1> HIDE DEF n, A
<1> DEFINE T == {k \in 0..n : IsFiniteSet(of(k)) /\ Times(c, r[k]) = Cardinality(of(k))}
<1>5. 0 \in T
  <2>1. of(0) = {} /\ 0 \in 0..n
    BY <1>2 DEF PiecesOf
  <2>2. QED
    BY <1>2, <2>1, TimesOfOne, FS_EmptySet
<1>6. ASSUME NEW k \in 1..n, k - 1 \in T PROVE k \in T
  <2> DEFINE here == {k} \X PlacesOf(c, lists[k])
  <2>1. k \in 0..n /\ k - 1 \in 0..n /\ k \in 1..k /\ k \notin 1..(k-1) /\ 1..k = (1..(k-1)) \cup {k}
    BY <1>2
  <2>2. of(k) = of(k-1) \cup here
    <3>1. ASSUME NEW p \in of(k) PROVE p \in of(k-1) \cup here
      BY <2>1 DEF PiecesOf
    <3>2. of(k-1) \subseteq of(k)
      BY <2>1 DEF PiecesOf
    <3>3. here \subseteq of(k)
      BY <1>4, <2>1 DEF PiecesOf
    <3>4. QED
      BY <3>1, <3>2, <3>3
  <2>3. of(k-1) \cap here = {}
    BY <2>1 DEF PiecesOf
  <2>4. IsFiniteSet(here) /\ Cardinality(here) = Times(c, lists[k])
    <3>1. IsFiniteSet({k}) /\ Cardinality({k}) = 1
      BY FS_Singleton
    <3>2. IsFiniteSet(here) /\ Cardinality(here) = 1 * Cardinality(PlacesOf(c, lists[k]))
      BY <1>4, <3>1, FS_Product
    <3>3. Cardinality(PlacesOf(c, lists[k])) \in Nat
      BY <1>4, FS_CardinalityType
    <3>4. QED
      BY <1>4, <3>2, <3>3
  <2>5. IsFiniteSet(of(k-1)) /\ Times(c, r[k-1]) = Cardinality(of(k-1))
    BY <1>6
  <2> HIDE DEF of, here
  <2>6. IsFiniteSet(of(k)) /\ Cardinality(of(k)) = Cardinality(of(k-1)) + Cardinality(here)
    <3>1. /\ IsFiniteSet(of(k))
          /\ Cardinality(of(k)) = Cardinality(of(k-1)) + Cardinality(here) - Cardinality(of(k-1) \cap here)
      <4> DEFINE X == of(k-1)
      <4>1. IsFiniteSet(X) /\ IsFiniteSet(here) /\ of(k) = X \cup here
        BY <2>2, <2>4, <2>5
      <4> HIDE DEF X
      <4>2. /\ IsFiniteSet(X \cup here)
            /\ Cardinality(X \cup here) = Cardinality(X) + Cardinality(here) - Cardinality(X \cap here)
        BY <4>1, FS_Union
      <4>3. QED
        BY <4>1, <4>2, Zenon DEF X
    <3>2. Cardinality(of(k-1) \cap here) = 0
      BY <2>3, FS_EmptySet
    <3>3. Cardinality(of(k-1)) \in Nat /\ Cardinality(here) \in Nat
      BY <2>4, <2>5, FS_CardinalityType
    <3>4. QED
      BY <3>1, <3>2, <3>3
  <2>7. r[k-1] \in A /\ lists[k] \in A
    BY <1>2, <2>1
  <2>8. Times(c, r[k]) = Times(c, r[k-1]) + Times(c, lists[k])
    BY <1>2, <1>3, <2>7, Zenon
  <2>9. Times(c, r[k]) = Cardinality(of(k))
    BY <2>4, <2>5, <2>6, <2>8, Zenon
  <2>10. QED
    BY <2>1, <2>6, <2>9
<1>7. n \in T
  <2>1. n \in 0..n
    BY <1>2
  <2> HIDE DEF T
  <2>2. \A k \in 0..n : k \in T
    BY <1>2, <1>5, <1>6, EveryPlace
  <2>3. QED
    BY <2>1, <2>2
<1>8. QED
  BY <1>2, <1>7 DEF n

(* Lists joined in another order hold each piece as often.                   *)
LEMMA JoinedInAnyOrder ==
  ASSUME NEW S, NEW a \in Seq(Seq(S)), NEW b \in Seq(Seq(S)), NEW c, Len(a) = Len(b),
         NEW order \in [1..Len(a) -> 1..Len(a)],
         \A j, k \in 1..Len(a) : order[j] = order[k] => j = k,
         \A i \in 1..Len(a) : \E k \in 1..Len(a) : order[k] = i,
         \A k \in 1..Len(a) : b[k] = a[order[k]]
  PROVE  Times(c, FlattenSeq(b)) = Times(c, FlattenSeq(a))
<1> DEFINE n == Len(a)
           A == PiecesOf(c, a, n)
           B == PiecesOf(c, b, n)
           moved == [p \in B |-> <<order[p[1]], p[2]>>]
<1>1. \A p \in B : <<order[p[1]], p[2]>> \in A
  BY DEF PiecesOf
<1>2. \A q \in A : \E p \in B : q = <<order[p[1]], p[2]>>
  <2> TAKE q \in A
  <2>1. q = <<q[1], q[2]>> /\ q[1] \in 1..n /\ q[2] \in Nat /\ q[2] \in PlacesOf(c, a[q[1]])
    BY DEF PiecesOf
  <2>2. PICK k \in 1..n : order[k] = q[1]
    BY <2>1
  <2> DEFINE p == <<k, q[2]>>
  <2>3. p \in B
    BY <2>1, <2>2, ZenonT(40) DEF PiecesOf
  <2>4. q = <<order[p[1]], p[2]>>
    BY <2>1, <2>2
  <2>5. QED
    BY <2>3, <2>4
<1>3. \A p, q \in B : <<order[p[1]], p[2]>> = <<order[q[1]], q[2]>> => p = q
  <2> TAKE p, q \in B
  <2>1. /\ p = <<p[1], p[2]>> /\ q = <<q[1], q[2]>>
        /\ p[1] \in 1..n /\ q[1] \in 1..n
    BY DEF PiecesOf
  <2>2. order[p[1]] = order[q[1]] => p[1] = q[1]
    BY <2>1
  <2>3. <<order[p[1]], p[2]>> = <<order[q[1]], q[2]>> => order[p[1]] = order[q[1]] /\ p[2] = q[2]
    OBVIOUS
  <2> HIDE DEF B
  <2>4. QED
    BY <2>1, <2>2, <2>3
<1> HIDE DEF A, B
<1>4. moved \in Bijection(B, A)
  <2>1. moved \in [B -> A]
    BY <1>1
  <2>2. \A p, q \in B : moved[p] = moved[q] => p = q
    BY <1>3
  <2>3. \A q \in A : \E p \in B : moved[p] = q
    BY <1>2
  <2> HIDE DEF moved
  <2>4. QED
    BY <2>1, <2>2, <2>3 DEF Bijection, Injection, Surjection, IsInjective
<1>5. IsFiniteSet(B)
  BY JoinedTimes DEF B
<1>6. Cardinality(A) = Cardinality(B)
  <2>1. ExistsBijection(B, A)
    <3> HIDE DEF moved
    <3> QED BY <1>4 DEF ExistsBijection
  <2>2. QED
    BY <1>5, <2>1, FS_Bijection
<1>7. /\ Times(c, FlattenSeq(a)) = Cardinality(A)
      /\ Times(c, FlattenSeq(b)) = Cardinality(B)
  BY JoinedTimes DEF A, B
<1>8. QED
  BY <1>6, <1>7

(* Taking a part out of a text: what is left and the part are the text.      *)
LEMMA ConsumedOnce ==
  ASSUME NEW S, "blocked" \in S, NEW text \in Seq(S), NEW leaf \in Seq(S), NEW c
  PROVE  /\ Consume(text, leaf) \in Seq(S)
         /\ Consume(text, leaf) # NoText =>
              /\ text # NoText
              /\ Times(c, text) = Times(c, Consume(text, leaf)) + Times(c, leaf)
<1> DEFINE starts == StartsOf(leaf, text)
           a == Min(starts)
           n == Len(text)
           m == Len(leaf)
           before == SubSeq(text, 1, a - 1)
           behind == SubSeq(text, a + m, n)
<1>1. NoText \in Seq(S)
  BY DEF NoText
<1>2. CASE text = NoText \/ starts = {}
  BY <1>1, <1>2 DEF Consume
<1>3. CASE text # NoText /\ starts # {}
  <2>1. Consume(text, leaf) = before \o behind
    BY <1>3 DEF Consume
  <2>2. n \in Nat /\ m \in Nat /\ starts \subseteq 1..n
    BY DEF StartsOf
  <2>3. a \in starts
    <3> HIDE DEF starts, n
    <3>1. starts \subseteq Nat
      BY <2>2
    <3>2. QED
      BY <1>3, <3>1, MinIsLeast
  <2>4. a \in 1..n /\ a + m - 1 <= n /\ SubSeq(text, a, a + m - 1) = leaf
    BY <2>2, <2>3 DEF StartsOf
  <2> DEFINE p == a - 1
             q == a - 1 + m
  <2>5. /\ 0 \in Nat /\ p \in Nat /\ q \in Nat /\ 0 <= p /\ 0 <= q /\ p <= q /\ q <= n
        /\ p <= n /\ n <= n /\ p + 1 = a /\ q + 1 = a + m /\ q = a + m - 1 /\ 0 + 1 = 1
    <3>1. a \in 1..n /\ a + m - 1 <= n
      BY <2>4
    <3> HIDE DEF a, m, n
    <3>2. QED
      BY <2>2, <3>1
  <2> HIDE DEF p, q
  <2>6. /\ SubSeq(text, 0 + 1, p) \in Seq(S)
        /\ SubSeq(text, 0 + 1, p) \o SubSeq(text, p + 1, q) = SubSeq(text, 0 + 1, q)
    <3>1. 0 \in Nat /\ p \in Nat /\ q \in Nat /\ 0 <= p /\ p <= q /\ q <= Len(text)
      BY <2>5
    <3> HIDE DEF a, n, m, before, behind, starts
    <3>2. QED
      BY <3>1, StretchesJoin
  <2>7. /\ SubSeq(text, 0 + 1, q) \in Seq(S)
        /\ SubSeq(text, 0 + 1, q) \o SubSeq(text, q + 1, n) = SubSeq(text, 0 + 1, n)
    <3>1. 0 \in Nat /\ q \in Nat /\ n \in Nat /\ 0 <= q /\ q <= n /\ n <= Len(text)
      BY <2>2, <2>5
    <3> HIDE DEF a, n, m, before, behind, starts
    <3>2. QED
      BY <3>1, StretchesJoin
  <2>8. SubSeq(text, 1, n) = text
    BY DEF n
  <2>9. before \o leaf \in Seq(S) /\ (before \o leaf) \o behind = text /\ before \in Seq(S)
    <3>1. SubSeq(text, p + 1, q) = leaf
      BY <2>4, <2>5, Zenon
    <3>2. before = SubSeq(text, 0 + 1, p)
      BY <2>5 DEF p
    <3>3. behind = SubSeq(text, q + 1, n)
      BY <2>5, Zenon
    <3> HIDE DEF before, behind
    <3>4. QED
      BY <2>5, <2>6, <2>7, <2>8, <3>1, <3>2, <3>3, Zenon
  <2>10. behind \in Seq(S)
    <3>1. a + m \in Nat /\ a + m >= 1
      BY <2>2, <2>4
    <3>2. QED
      BY <2>2, <3>1 DEF n
  <2> HIDE DEF before, behind
  <2> DEFINE front == before \o leaf
  <2>11. Times(c, front) = Times(c, before) + Times(c, leaf)
    BY <2>9, TimesOfBoth
  <2> HIDE DEF front
  <2>12. front \in Seq(S) /\ text = front \o behind
    BY <2>9 DEF front
  <2>13. Times(c, front \o behind) = Times(c, front) + Times(c, behind)
    BY <2>10, <2>12, TimesOfBoth
  <2>14. /\ before \o behind \in Seq(S)
         /\ Times(c, before \o behind) = Times(c, before) + Times(c, behind)
    BY <2>9, <2>10, TimesOfBoth
  <2>15. Times(c, before) \in Nat /\ Times(c, behind) \in Nat /\ Times(c, leaf) \in Nat
    BY <2>9, <2>10, PlacesAreFinite
  <2>16. Times(c, text) = Times(c, before \o behind) + Times(c, leaf)
    BY <2>11, <2>12, <2>13, <2>14, <2>15
  <2>17. QED
    BY <1>3, <2>1, <2>14, <2>16, Zenon
<1>4. QED
  BY <1>2, <1>3

(* Taking the parts of a value out of its display, part by part.             *)
ConsumingSteps(S, text, leaves) ==
  {r \in [0..Len(leaves) -> Seq(S)] :
     /\ r[0] = text
     /\ \A k \in 1..Len(leaves) : r[k] = Consume(r[k-1], leaves[k])
     /\ FoldLeft(Consume, text, leaves) = r[Len(leaves)]}

LEMMA ConsumptionGoesByStep ==
  ASSUME NEW S, "blocked" \in S, NEW text \in Seq(S), NEW leaves \in Seq(Seq(S))
  PROVE  \E r : r \in ConsumingSteps(S, text, leaves)
<1> DEFINE n == Len(leaves)
           A == Seq(S)
           g == [k \in 1..n |-> [a \in A |-> Consume(a, leaves[k])]]
           Folds(h) == h = [s \in SUBSET DOMAIN leaves |->
                              IF s = {} THEN text
                              ELSE Consume(h[s \ {Max(s)}], leaves[Max(s)])]
           it == CHOOSE h : Folds(h)
           r == [k \in 0..n |-> it[1..k]]
<1>1. n \in Nat /\ DOMAIN leaves = 1..n /\ \A k \in 1..n : leaves[k] \in A
  OBVIOUS
<1>2. FoldLeft(Consume, text, leaves) = it[DOMAIN leaves]
  BY Zenon DEF FoldLeft, MapThenFoldSet
<1>3. text \in A /\ \A k \in 1..n : \A a \in A : Consume(a, leaves[k]) \in A
  BY <1>1, ConsumedOnce
<1> HIDE DEF A, n
<1>4. g \in [1..n -> [A -> A]]
  BY <1>3
<1>5. \A k \in 1..n : \A a \in A : g[k][a] = Consume(a, leaves[k])
  OBVIOUS
<1> HIDE DEF g
<1>6. \E h : Folds(h)
  <2>1. PICK h : h \in FoldOf(n, A, text, g)
    BY <1>1, <1>3, <1>4, FoldExists
  <2>2. /\ h = [s \in SUBSET (1..n) |-> h[s]]
        /\ h[{}] = text
        /\ \A s \in SUBSET (1..n) : s # {} =>
             /\ Max(s) \in 1..n /\ h[s \ {Max(s)}] \in A
             /\ h[s] = g[Max(s)][h[s \ {Max(s)}]]
    BY <1>1, <2>1, FoldOfStep
  <2>3. \A s \in SUBSET (1..n) :
          h[s] = IF s = {} THEN text ELSE Consume(h[s \ {Max(s)}], leaves[Max(s)])
    BY <1>5, <2>2
  <2>4. Folds(h)
    BY <1>1, <2>2, <2>3
  <2>5. QED
    BY <2>4
<1>7. Folds(it)
  BY <1>6, Zenon
<1> HIDE DEF it
<1>8. it[{}] = text
  BY <1>7
<1>9. ASSUME NEW k \in 1..n, it[1..(k-1)] \in A PROVE it[1..k] = g[k][it[1..(k-1)]]
  <2>1. 1..k \in SUBSET DOMAIN leaves /\ 1..k # {} /\ Max(1..k) = k /\ (1..k) \ {k} = 1..(k-1)
    BY <1>1, FirstPlaces
  <2>2. it[1..k] = Consume(it[(1..k) \ {Max(1..k)}], leaves[Max(1..k)])
    BY <1>7, <2>1
  <2>3. QED
    BY <1>5, <1>9, <2>1, <2>2
<1>10. r \in StepsOf(n, A, text, g)
  <2> HIDE DEF Folds
  <2>1. QED
    BY <1>1, <1>3, <1>4, <1>8, <1>9, FoldSteps
<1> HIDE DEF r
<1>11. r \in [0..n -> A] /\ r[0] = text /\ \A k \in 1..n : r[k-1] \in A /\ r[k] = g[k][r[k-1]]
  BY <1>1, <1>10 DEF StepsOf
<1>12. \A k \in 1..n : r[k] = Consume(r[k-1], leaves[k])
  BY <1>5, <1>11
<1>13. FoldLeft(Consume, text, leaves) = r[n]
  BY <1>1, <1>2 DEF r
<1>14. QED
  <2>1. r \in ConsumingSteps(S, text, leaves)
    BY <1>11, <1>12, <1>13 DEF n, A, ConsumingSteps
  <2>2. QED
    BY <2>1

(* A text the parts use up holds what they hold.                             *)
LEMMA UsedUp ==
  ASSUME NEW S, "blocked" \in S, NEW text \in Seq(S), NEW leaves \in Seq(Seq(S)), NEW c,
         FoldLeft(Consume, text, leaves) = << >>
  PROVE  Times(c, text) = Times(c, FlattenSeq(leaves))
<1> DEFINE n == Len(leaves)
           A == Seq(S)
<1>1. PICK r : r \in ConsumingSteps(S, text, leaves)
  BY ConsumptionGoesByStep
<1>2. PICK q : q \in JoiningSteps(S, leaves)
  BY FlatteningSteps
<1>3. n \in Nat /\ \A k \in 1..n : leaves[k] \in A
  OBVIOUS
<1>4. /\ r \in [0..n -> A] /\ r[0] = text
      /\ \A k \in 1..n : r[k] = Consume(r[k-1], leaves[k])
      /\ r[n] = << >>
  BY <1>1 DEF ConsumingSteps
<1>5. /\ q \in [0..n -> A] /\ q[0] = << >>
      /\ \A k \in 1..n : q[k] = q[k-1] \o leaves[k]
      /\ FlattenSeq(leaves) = q[n]
  BY <1>2 DEF JoiningSteps
<1>6. /\ \A s, t \in A : Times(c, s \o t) = Times(c, s) + Times(c, t)
      /\ \A s \in A : Times(c, s) \in Nat
  BY TimesOfBoth, PlacesAreFinite
<1>7. \A s, t \in A : Consume(s, t) # NoText =>
        s # NoText /\ Times(c, s) = Times(c, Consume(s, t)) + Times(c, t)
  BY ConsumedOnce
<1>8. text \in A
  OBVIOUS
<1> HIDE DEF n, A
<1> DEFINE T == {k \in 0..n : r[k] # NoText => Times(c, text) = Times(c, r[k]) + Times(c, q[k])}
<1>9. 0 \in T
  <2>1. Times(c, << >>) = 0 /\ Times(c, text) \in Nat
    BY <1>6, <1>8, TimesOfOne
  <2>2. QED
    BY <1>3, <1>4, <1>5, <2>1
<1>10. ASSUME NEW k \in 1..n, k - 1 \in T PROVE k \in T
  <2>1. k \in 0..n /\ k - 1 \in 0..n
    BY <1>3
  <2>2. r[k-1] \in A /\ q[k-1] \in A /\ leaves[k] \in A /\ r[k] \in A
    BY SMTT(40), <1>3, <1>4, <1>5, <2>1
  <2>3. Times(c, q[k]) = Times(c, q[k-1]) + Times(c, leaves[k])
    <3>1. Times(c, q[k-1] \o leaves[k]) = Times(c, q[k-1]) + Times(c, leaves[k])
      BY <1>6, <2>2
    <3>2. q[k] = q[k-1] \o leaves[k]
      BY <1>5
    <3>3. QED
      BY <3>1, <3>2, Zenon
  <2>4. r[k] # NoText =>
          r[k-1] # NoText /\ Times(c, r[k-1]) = Times(c, r[k]) + Times(c, leaves[k])
    <3>1. Consume(r[k-1], leaves[k]) # NoText =>
            /\ r[k-1] # NoText
            /\ Times(c, r[k-1]) = Times(c, Consume(r[k-1], leaves[k])) + Times(c, leaves[k])
      BY <1>7, <2>2
    <3>2. r[k] = Consume(r[k-1], leaves[k])
      BY <1>4
    <3>3. QED
      BY <3>1, <3>2, Zenon
  <2>5. /\ Times(c, q[k-1]) \in Nat /\ Times(c, leaves[k]) \in Nat /\ Times(c, r[k]) \in Nat
    BY <1>6, <2>2, Zenon
  <2>6. r[k-1] # NoText => Times(c, text) = Times(c, r[k-1]) + Times(c, q[k-1])
    BY <1>10
  <2>7. r[k] # NoText => Times(c, text) = Times(c, r[k]) + Times(c, q[k])
    BY <2>3, <2>4, <2>5, <2>6
  <2>8. QED
    BY <2>1, <2>7
<1>11. n \in T
  <2>1. n \in 0..n
    BY <1>3
  <2> HIDE DEF T
  <2>2. \A k \in 0..n : k \in T
    BY <1>3, <1>9, <1>10, EveryPlace
  <2>3. QED
    BY <2>1, <2>2
<1>12. r[n] # NoText
  BY <1>4 DEF NoText
<1>13. Times(c, << >>) = 0 /\ Times(c, q[n]) \in Nat
  <2>1. n \in 0..n
    BY <1>3
  <2>2. q[n] \in A
    BY <1>5, <2>1
  <2>3. QED
    BY <1>6, <2>2, TimesOfOne
<1>14. QED
  BY <1>4, <1>5, <1>11, <1>12, <1>13

(* The parts of a value, the longest first, are its parts.                   *)
LEMMA LongestFirstIsAnOrder ==
  ASSUME NEW S, NEW leaves \in Seq(Seq(S)), NEW c
  PROVE  /\ LongestFirst(leaves) \in Seq(Seq(S))
         /\ Times(c, FlattenSeq(LongestFirst(leaves))) = Times(c, FlattenSeq(leaves))
<1> DEFINE n == Len(leaves)
           D == DOMAIN leaves
           longer == [i \in D |-> {j \in D : \/ Len(leaves[j]) > Len(leaves[i])
                                             \/ Len(leaves[j]) = Len(leaves[i]) /\ j < i}]
           order == ByPlace(D, longer)
           longest == [k \in D |-> leaves[order[k]]]
<1>1. LongestFirst(leaves) = longest
  BY DEF LongestFirst
<1>2. /\ n \in Nat /\ D = 1..n
      /\ \A i \in 1..n : leaves[i] \in Seq(S) /\ Len(leaves[i]) \in Nat
  OBVIOUS
<1>3. IsFiniteSet(D) /\ Cardinality(D) = n
  BY <1>2, FS_Interval
<1>4. Ordering(D, longer)
  <2> DEFINE size(i) == Len(leaves[i])
  <2>1. \A i \in D : i \in Nat /\ size(i) \in Nat
    BY <1>2
  <2>2. /\ longer \in [D -> SUBSET D]
        /\ \A j, i \in D : j \in longer[i] <=> size(j) > size(i) \/ (size(j) = size(i) /\ j < i)
    OBVIOUS
  <2> HIDE DEF longer, D, size
  <2>3. \A e \in D : e \notin longer[e]
    BY <2>1, <2>2
  <2>4. \A e, f \in D : e = f \/ e \in longer[f] \/ f \in longer[e]
    BY <2>1, <2>2
  <2>5. \A e, f, g \in D : e \in longer[f] /\ f \in longer[g] => e \in longer[g]
    BY <2>1, <2>2
  <2>6. QED
    BY <2>2, <2>3, <2>4, <2>5 DEF Ordering
<1> HIDE DEF longer
<1>5. /\ order \in [1..n -> D]
      /\ \A j, k \in 1..n : order[j] = order[k] => j = k
      /\ \A s \in D : \E k \in 1..n : order[k] = s
  <2> HIDE DEF D, n
  <2>1. QED
    BY <1>3, <1>4, EachStandsOnce
<1> HIDE DEF order
<1>6. longest \in [1..n -> Seq(S)] /\ \A k \in 1..n : longest[k] = leaves[order[k]]
  BY <1>2, <1>5
<1>7. longest \in Seq(Seq(S)) /\ Len(longest) = n
  <2> HIDE DEF longest, n
  <2>1. QED
    BY <1>2, <1>6, FunctionsAreLists
<1> HIDE DEF longest
<1>8. Times(c, FlattenSeq(longest)) = Times(c, FlattenSeq(leaves))
  <2>1. order \in [1..n -> 1..n]
    BY <1>2, <1>5
  <2>2. QED
    BY <1>2, <1>5, <1>6, <1>7, <2>1, JoinedInAnyOrder
<1>9. QED
  BY <1>1, <1>7, <1>8

(* Lists of a kind that joining keeps, joined, are of that kind; and a piece  *)
(* of one of them is a piece of all.                                         *)
LEMMA JoinedStayIn ==
  ASSUME NEW S, NEW lists \in Seq(Seq(S)), NEW G, G \subseteq Seq(S), << >> \in G,
         \A s, t \in G : s \o t \in G,
         \A i \in 1..Len(lists) : lists[i] \in G
  PROVE  FlattenSeq(lists) \in G
<1> DEFINE n == Len(lists)
<1>1. PICK r : r \in JoiningSteps(S, lists)
  BY FlatteningSteps
<1>2. /\ n \in Nat /\ r[0] = << >> /\ FlattenSeq(lists) = r[n]
      /\ \A k \in 1..n : r[k] = r[k-1] \o lists[k]
  BY <1>1 DEF JoiningSteps
<1>3. \A i \in 1..n : lists[i] \in G
  OBVIOUS
<1> HIDE DEF n
<1> DEFINE T == {k \in 0..n : r[k] \in G}
<1>4. 0 \in T
  BY <1>2
<1>5. ASSUME NEW k \in 1..n, k - 1 \in T PROVE k \in T
  <2>1. k \in 0..n
    BY <1>2
  <2>2. r[k-1] \in G /\ lists[k] \in G
    BY <1>3, <1>5
  <2>3. r[k] \in G
    BY <1>2, <2>2
  <2>4. QED
    BY <2>1, <2>3
<1>6. n \in T
  <2>1. n \in 0..n
    BY <1>2
  <2> HIDE DEF T
  <2>2. \A k \in 0..n : k \in T
    BY <1>2, <1>4, <1>5, EveryPlace
  <2>3. QED
    BY <2>1, <2>2
<1>7. QED
  BY <1>2, <1>6

LEMMA PiecesOfBoth ==
  ASSUME NEW S, NEW s \in Seq(S), NEW t \in Seq(S)
  PROVE  ToSet(s \o t) = ToSet(s) \cup ToSet(t)
<1>1. ASSUME NEW c PROVE c \in ToSet(s \o t) <=> c \in ToSet(s) \/ c \in ToSet(t)
  <2>1. s \o t \in Seq(S) /\ Times(c, s \o t) = Times(c, s) + Times(c, t)
    BY TimesOfBoth
  <2>2. Times(c, s) \in Nat /\ Times(c, t) \in Nat
    BY PlacesAreFinite
  <2>3. /\ Times(c, s \o t) = 0 <=> c \notin ToSet(s \o t)
        /\ Times(c, s) = 0 <=> c \notin ToSet(s)
        /\ Times(c, t) = 0 <=> c \notin ToSet(t)
    BY <2>1, PlacesAreFinite
  <2>4. QED
    BY <2>1, <2>2, <2>3
<1>2. QED
  BY <1>1

LEMMA JoinedHold ==
  ASSUME NEW S, NEW lists \in Seq(Seq(S)), NEW i \in 1..Len(lists)
  PROVE  ToSet(lists[i]) \subseteq ToSet(FlattenSeq(lists))
<1> DEFINE n == Len(lists)
           A == Seq(S)
<1>1. PICK r : r \in JoiningSteps(S, lists)
  BY FlatteningSteps
<1>2. /\ n \in Nat /\ r \in [0..n -> A] /\ FlattenSeq(lists) = r[n]
      /\ \A k \in 1..n : r[k] = r[k-1] \o lists[k] /\ lists[k] \in A
  <2>1. n \in Nat /\ \A k \in 1..n : lists[k] \in A
    OBVIOUS
  <2>2. QED
    BY <1>1, <2>1 DEF JoiningSteps
<1>3. i \in 1..n
  OBVIOUS
<1>4. \A s, t \in A : ToSet(s \o t) = ToSet(s) \cup ToSet(t)
  BY PiecesOfBoth
<1> HIDE DEF n, A
<1>5. \A k \in 1..n : ToSet(r[k]) = ToSet(r[k-1]) \cup ToSet(lists[k])
  <2> TAKE k \in 1..n
  <2>1. k - 1 \in 0..n
    BY <1>2
  <2>2. r[k-1] \in A /\ lists[k] \in A
    BY <1>2, <2>1
  <2>3. QED
    BY <1>2, <1>4, <2>2
<1> DEFINE T == {k \in 0..n : k >= i => ToSet(lists[i]) \subseteq ToSet(r[k])}
<1>6. 0 \in T
  BY <1>2, <1>3
<1>7. ASSUME NEW k \in 1..n, k - 1 \in T PROVE k \in T
  <2>1. k \in 0..n
    BY <1>2
  <2>2. CASE k = i
    BY <1>5, <2>1, <2>2
  <2>3. CASE k # i
    <3>1. k >= i => k - 1 >= i
      BY <1>2, <1>3, <2>3
    <3>2. k >= i => ToSet(lists[i]) \subseteq ToSet(r[k-1])
      BY <1>7, <3>1
    <3>3. QED
      BY <1>5, <2>1, <3>2
  <2>4. QED
    BY <2>2, <2>3
<1>8. n \in T
  <2>1. n \in 0..n
    BY <1>2
  <2> HIDE DEF T
  <2>2. \A k \in 0..n : k \in T
    BY <1>2, <1>6, <1>7, EveryPlace
  <2>3. QED
    BY <2>1, <2>2
<1>9. QED
  BY <1>2, <1>3, <1>8

(* Texts put together with something between them.                           *)
SaidOf(texts, between) ==
  LET said == Without(texts, {<< >>})
  IN  [i \in DOMAIN said |-> IF i = 1 THEN said[i] ELSE <<between>> \o said[i]]

SaysThese(said, texts, between) ==
  \A k \in 1..Len(said) : \E i \in 1..Len(texts) :
    said[k] = texts[i] \/ said[k] = <<between>> \o texts[i]

LEMMA SaidIs ==
  ASSUME NEW S, NEW texts \in Seq(Seq(S)), NEW between \in S
  PROVE  /\ Join(texts, between) = FlattenSeq(SaidOf(texts, between))
         /\ SaidOf(texts, between) \in Seq(Seq(S))
         /\ SaysThese(SaidOf(texts, between), texts, between)
         /\ \A i \in 1..Len(texts) : texts[i] # << >> =>
              \E k \in 1..Len(SaidOf(texts, between)) :
                \/ SaidOf(texts, between)[k] = texts[i]
                \/ SaidOf(texts, between)[k] = <<between>> \o texts[i]
<1> DEFINE A == Seq(S)
           these == ToSet(texts) \ {<< >>}
           said == Those(texts, these)
           n == Len(said)
           parts == [i \in 1..n |-> IF i = 1 THEN said[i] ELSE <<between>> \o said[i]]
<1>1. AreKept(said, A, texts, these)
  BY ThoseAreKept
<1>2. /\ said \in Seq(A)
      /\ \A k \in 1..n : \E i \in 1..Len(texts) : said[k] = texts[i]
      /\ \A i \in 1..Len(texts) : texts[i] \in these => \E k \in 1..n : said[k] = texts[i]
  BY <1>1 DEF AreKept
<1>3. \A i \in 1..Len(texts) : texts[i] # << >> => texts[i] \in these
  BY DEF ToSet
<1> HIDE DEF these, said
<1>4. n \in Nat /\ DOMAIN said = 1..n /\ \A k \in 1..n : said[k] \in A
  BY <1>2
<1>5. SaidOf(texts, between) = parts /\ Join(texts, between) = FlattenSeq(parts)
  BY <1>4 DEF SaidOf, Join, Without, said, these
<1>6. \A s \in A : <<between>> \o s \in A
  OBVIOUS
<1> HIDE DEF A, n
<1>7. parts \in [1..n -> A]
  BY <1>4, <1>6
<1>8. \A k \in 1..n : parts[k] = said[k] \/ parts[k] = <<between>> \o said[k]
  OBVIOUS
<1> HIDE DEF parts
<1>9. parts \in Seq(A) /\ Len(parts) = n
  BY <1>4, <1>7, FunctionsAreLists
<1>10. \A k \in 1..n : \E i \in 1..Len(texts) :
         parts[k] = texts[i] \/ parts[k] = <<between>> \o texts[i]
  <2> SUFFICES ASSUME NEW k \in 1..n
               PROVE  \E i \in 1..Len(texts) :
                        parts[k] = texts[i] \/ parts[k] = <<between>> \o texts[i]
    OBVIOUS
  <2>1. PICK i \in 1..Len(texts) : said[k] = texts[i]
    BY <1>2
  <2>2. parts[k] = texts[i] \/ parts[k] = <<between>> \o texts[i]
    BY <1>8, <2>1, Zenon
  <2>3. QED
    BY <2>2
<1>11. \A i \in 1..Len(texts) : texts[i] # << >> =>
         \E k \in 1..n : parts[k] = texts[i] \/ parts[k] = <<between>> \o texts[i]
  BY <1>2, <1>3, <1>8 DEF n
<1>12. SaysThese(parts, texts, between)
  BY <1>9, <1>10 DEF SaysThese
<1>13. QED
  BY <1>5, <1>9, <1>11, <1>12 DEF A

LEMMA JoinIsIn ==
  ASSUME NEW S, NEW texts \in Seq(Seq(S)), NEW between \in S,
         NEW G, G \subseteq Seq(S), << >> \in G, <<between>> \in G,
         \A s, t \in G : s \o t \in G,
         \A i \in 1..Len(texts) : texts[i] \in G
  PROVE  Join(texts, between) \in G
<1> DEFINE said == SaidOf(texts, between)
<1>1. /\ Join(texts, between) = FlattenSeq(said) /\ said \in Seq(Seq(S))
      /\ \A k \in 1..Len(said) : \E i \in 1..Len(texts) :
           said[k] = texts[i] \/ said[k] = <<between>> \o texts[i]
  <2>1. /\ Join(texts, between) = FlattenSeq(said) /\ said \in Seq(Seq(S))
    BY SaidIs
  <2>2. SaysThese(said, texts, between)
    BY SaidIs
  <2> HIDE DEF said
  <2>3. QED
    BY <2>1, <2>2 DEF SaysThese
<1> HIDE DEF said
<1>2. \A k \in 1..Len(said) : said[k] \in G
  BY <1>1
<1>3. FlattenSeq(said) \in G
  BY <1>1, <1>2, JoinedStayIn
<1>4. QED
  BY <1>1, <1>3

LEMMA JoinHolds ==
  ASSUME NEW S, NEW texts \in Seq(Seq(S)), NEW between \in S, NEW i \in 1..Len(texts)
  PROVE  ToSet(texts[i]) \subseteq ToSet(Join(texts, between))
<1> DEFINE said == SaidOf(texts, between)
<1>1. /\ Join(texts, between) = FlattenSeq(said) /\ said \in Seq(Seq(S))
      /\ texts[i] # << >> => \E k \in 1..Len(said) :
           said[k] = texts[i] \/ said[k] = <<between>> \o texts[i]
  BY SaidIs
<1> HIDE DEF said
<1>2. CASE texts[i] = << >>
  BY <1>2 DEF ToSet
<1>3. CASE texts[i] # << >>
  <2>1. PICK k \in 1..Len(said) : said[k] = texts[i] \/ said[k] = <<between>> \o texts[i]
    BY <1>1, <1>3
  <2>2. ToSet(texts[i]) \subseteq ToSet(said[k])
    <3>1. texts[i] \in Seq(S) /\ <<between>> \in Seq(S)
      OBVIOUS
    <3>2. ToSet(<<between>> \o texts[i]) = ToSet(<<between>>) \cup ToSet(texts[i])
      BY <3>1, PiecesOfBoth, ZenonT(40)
    <3>3. QED
      BY <2>1, <3>2
  <2>3. QED
    BY <1>1, <2>2, JoinedHold
<1>4. QED
  BY <1>2, <1>3

(* A finite set can be listed.                                               *)
LEMMA SetsAreListed ==
  ASSUME NEW D, IsFiniteSet(D)
  PROVE  SetToSeq(D) \in Seq(D)
<1> DEFINE n == Cardinality(D)
<1>1. n \in Nat /\ ExistsBijection(1..n, D)
  BY FS_CardinalityType
<1>2. PICK f : f \in Bijection(1..n, D)
  BY <1>1 DEF ExistsBijection
<1>3. f \in [1..n -> D] /\ IsInjective(f)
  BY <1>2 DEF Bijection, Injection
<1>4. SetToSeq(D) \in [1..n -> D]
  BY <1>3, Zenon DEF SetToSeq
<1> HIDE DEF n
<1>5. QED
  BY <1>1, <1>4, FunctionsAreLists

(* What may be sealed: a text, a list of parts, an address of parts.         *)
IsAPart(part, S) == part.of \in Seq(S)
IsAValue(value, S) ==
  \/ value.form = "text" /\ value.of \in Seq(S)
  \/ /\ value.form = "list"
     /\ \E n \in Nat : DOMAIN value.of = 1..n /\ \A i \in 1..n : IsAPart(value.of[i], S)
  \/ /\ value.form = "address" /\ IsFiniteSet(DOMAIN value.of)
     /\ \A key \in DOMAIN value.of : IsAPart(value.of[key], S)

LEMMA CollapsedIsAText ==
  ASSUME NEW S, OneBlank \in S, NEW part, IsAPart(part, S)
  PROVE  Collapse(part) \in Seq(S)
<1> DEFINE text == part.of
           n == Len(text)
           written == {i \in DOMAIN text : text[i] \notin Blanks}
           gaps == {i \in DOMAIN text \ written : i + 1 \in written /\ \E j \in written : j < i}
           P == written \cup gaps
           kept == Ascending(P)
           m == Cardinality(P)
           shown == [k \in 1..m |-> IF kept[k] \in gaps THEN OneBlank ELSE text[kept[k]]]
<1>1. n \in Nat /\ DOMAIN text = 1..n /\ \A i \in 1..n : text[i] \in S
  BY DEF IsAPart
<1>2. P \subseteq 1..n
  BY <1>1
<1>3. Collapse(part) = IF part.form = "nested" THEN << >>
                       ELSE [k \in DOMAIN kept |-> IF kept[k] \in gaps THEN OneBlank ELSE text[kept[k]]]
  BY DEF Collapse
<1> HIDE DEF gaps, P, n, text
<1>4. m \in Nat /\ DOMAIN kept = 1..m /\ \A k \in 1..m : kept[k] \in 1..n
  BY <1>1, <1>2, PlacesAscend
<1> HIDE DEF kept, m
<1>5. shown \in [1..m -> S]
  BY <1>1, <1>4
<1>6. Collapse(part) = IF part.form = "nested" THEN << >> ELSE shown
  BY <1>3, <1>4
<1> HIDE DEF shown
<1>7. shown \in Seq(S)
  BY <1>4, <1>5, FunctionsAreLists
<1>8. QED
  BY <1>6, <1>7

LEMMA JoinedIsAText ==
  ASSUME NEW S, NEW texts \in Seq(Seq(S)), NEW between \in S
  PROVE  Join(texts, between) \in Seq(S)
<1> DEFINE G == Seq(S)
<1>1. /\ G \subseteq Seq(S) /\ << >> \in G /\ <<between>> \in G
      /\ \A s, t \in G : s \o t \in G
  OBVIOUS
<1>2. \A i \in 1..Len(texts) : texts[i] \in G
  OBVIOUS
<1> HIDE DEF G
<1>3. Join(texts, between) \in G
  BY <1>1, <1>2, JoinIsIn
<1>4. QED
  BY <1>3 DEF G

(* Every part of an address in its line.                                     *)
LEMMA AddressIsAText ==
  ASSUME NEW S, OneBlank \in S, NextLine \in S, NEW parts, IsFiniteSet(DOMAIN parts),
         \A key \in DOMAIN parts : IsAPart(parts[key], S)
  PROVE  FormatAddress(parts) \in Seq(S)
<1> DEFINE A == Seq(S)
           told(keys) == [i \in DOMAIN keys |->
                            IF keys[i] \in DOMAIN parts THEN Collapse(parts[keys[i]])
                            ELSE << >>]
           lines == [i \in DOMAIN AddressLines |-> Join(told(AddressLines[i]), OneBlank)]
           known == FormatKnownAddress(parts)
           rest == SetToSeq(DOMAIN parts \ AddressKeys)
           others == [i \in DOMAIN rest |-> Collapse(parts[rest[i]])]
<1>1. \A key \in DOMAIN parts : Collapse(parts[key]) \in A
  BY CollapsedIsAText
<1>2. << >> \in A
  OBVIOUS
<1>3. ASSUME NEW n \in Nat, NEW keys, DOMAIN keys = 1..n
      PROVE  Join(told(keys), OneBlank) \in A
  <2> HIDE DEF A
  <2>1. told(keys) \in [1..n -> A]
    BY <1>1, <1>2, <1>3
  <2> HIDE DEF told
  <2>2. told(keys) \in Seq(A)
    BY <2>1, FunctionsAreLists
  <2>3. QED
    BY <2>2, JoinedIsAText DEF A
<1>4. /\ DOMAIN AddressLines = 1..6
      /\ \A i \in 1..6 : \E n \in Nat : DOMAIN AddressLines[i] = 1..n
  BY DEF AddressLines
<1>5. known = Join(lines, NextLine)
  BY DEF FormatKnownAddress
<1>6. FormatAddress(parts) = Join(<<known>> \o others, NextLine)
  BY DEF FormatAddress
<1>7. known \in A
  <2> HIDE DEF told, A, known
  <2>1. lines \in [1..6 -> A]
    BY <1>3, <1>4
  <2>2. 6 \in Nat
    OBVIOUS
  <2> HIDE DEF lines
  <2>3. lines \in Seq(A)
    BY <2>1, <2>2, FunctionsAreLists
  <2>4. QED
    BY <1>5, <2>3, JoinedIsAText DEF A
<1>8. others \in Seq(A)
  <2>1. IsFiniteSet(DOMAIN parts \ AddressKeys)
    BY FS_Subset
  <2>2. rest \in Seq(DOMAIN parts \ AddressKeys)
    BY <2>1, SetsAreListed
  <2> HIDE DEF rest, A
  <2>3. DOMAIN rest = 1..Len(rest) /\ Len(rest) \in Nat /\ \A i \in 1..Len(rest) : rest[i] \in DOMAIN parts
    BY <2>2
  <2>4. others \in [1..Len(rest) -> A]
    BY <1>1, <2>3
  <2> HIDE DEF others
  <2>5. QED
    BY <2>3, <2>4, FunctionsAreLists
<1>9. <<known>> \o others \in Seq(A)
  <2> HIDE DEF known, others, A
  <2>1. <<known>> \in Seq(A)
    BY <1>7
  <2>2. QED
    BY <1>8, <2>1
<1>10. QED
  <2> HIDE DEF known, others
  <2>1. QED
    BY <1>6, <1>9, JoinedIsAText

LEMMA DisplayIsAText ==
  ASSUME NEW S, OneBlank \in S, NextLine \in S, NEW value, IsAValue(value, S)
  PROVE  FormatValue(value) \in Seq(S)
<1>1. CASE value.form = "text"
  <2>1. IsAPart(value, S)
    BY <1>1 DEF IsAValue, IsAPart
  <2>2. FormatValue(value) = Collapse(value)
    BY <1>1 DEF FormatValue
  <2>3. QED
    BY <2>1, <2>2, CollapsedIsAText
<1>2. CASE value.form = "list"
  <2> DEFINE A == Seq(S)
             texts == [i \in DOMAIN value.of |-> Collapse(value.of[i])]
  <2>1. PICK n \in Nat : DOMAIN value.of = 1..n /\ \A i \in 1..n : IsAPart(value.of[i], S)
    BY <1>2 DEF IsAValue
  <2>2. \A i \in 1..n : Collapse(value.of[i]) \in A
    BY <2>1, CollapsedIsAText
  <2> HIDE DEF A
  <2>3. texts \in [1..n -> A]
    BY <2>1, <2>2
  <2>4. FormatValue(value) = Join(texts, NextLine)
    BY <1>2 DEF FormatValue
  <2> HIDE DEF texts
  <2>5. texts \in Seq(A)
    BY <2>3, FunctionsAreLists
  <2>6. QED
    BY <2>4, <2>5, JoinedIsAText DEF A
<1>3. CASE value.form = "address"
  <2>1. IsFiniteSet(DOMAIN value.of) /\ \A key \in DOMAIN value.of : IsAPart(value.of[key], S)
    BY <1>3 DEF IsAValue
  <2>2. FormatValue(value) = FormatAddress(value.of)
    BY <1>3 DEF FormatValue
  <2>3. QED
    BY <2>1, <2>2, AddressIsAText
<1>4. QED
  BY <1>1, <1>2, <1>3 DEF IsAValue

LEMMA LeavesAreTexts ==
  ASSUME NEW S, NEW value, IsAValue(value, S), value.form # "text"
  PROVE  LeafTexts(value) \in Seq(Seq(S))
<1> DEFINE A == Seq(S)
           keys == SetToSeq(DOMAIN value.of)
           parts == IF value.form = "list" THEN value.of
                    ELSE [i \in DOMAIN keys |-> value.of[keys[i]]]
           packed == [i \in DOMAIN parts |-> Packed(parts[i].of)]
<1>1. LeafTexts(value) = Without(packed, {<< >>})
  BY DEF LeafTexts
<1>2. \E n \in Nat : DOMAIN parts = 1..n /\ \A i \in 1..n : IsAPart(parts[i], S)
  <2>1. CASE value.form = "list"
    BY <2>1 DEF IsAValue
  <2>2. CASE value.form = "address"
    <3>1. IsFiniteSet(DOMAIN value.of) /\ \A key \in DOMAIN value.of : IsAPart(value.of[key], S)
      BY <2>2 DEF IsAValue
    <3>2. keys \in Seq(DOMAIN value.of)
      BY <3>1, SetsAreListed
    <3> HIDE DEF keys
    <3>3. DOMAIN keys = 1..Len(keys) /\ Len(keys) \in Nat /\ \A i \in 1..Len(keys) : keys[i] \in DOMAIN value.of
      BY <3>2
    <3>4. DOMAIN parts = 1..Len(keys) /\ \A i \in 1..Len(keys) : parts[i] = value.of[keys[i]]
      BY <2>2, <3>3
    <3> HIDE DEF parts
    <3>5. QED
      BY <3>1, <3>3, <3>4
  <2>3. QED
    BY SMTT(40), <2>1, <2>2 DEF IsAValue
<1> HIDE DEF parts
<1>3. PICK n \in Nat : DOMAIN parts = 1..n /\ \A i \in 1..n : IsAPart(parts[i], S)
  BY <1>2
<1>4. ASSUME NEW i \in 1..n PROVE Packed(parts[i].of) \in A
  <2>1. parts[i].of \in Seq(S)
    BY <1>3 DEF IsAPart
  <2>2. AreKept(Packed(parts[i].of), S, parts[i].of, ToSet(parts[i].of) \ Blanks)
    BY <2>1, ThoseAreKept DEF Packed, Without
  <2>3. QED
    BY <2>2 DEF AreKept
<1> HIDE DEF A
<1>5. packed \in [1..n -> A]
  BY <1>3, <1>4
<1> HIDE DEF packed
<1>6. packed \in Seq(A)
  BY <1>5, FunctionsAreLists
<1>7. AreKept(LeafTexts(value), A, packed, ToSet(packed) \ {<< >>})
  BY <1>1, <1>6, ThoseAreKept DEF Without
<1>8. QED
  BY <1>7 DEF AreKept, A

(* What the round trip lets through holds every character of the value, as    *)
(* often as the value does, and no other.                                    *)
LEMMA RoundTripsKeepAll ==
  ASSUME NEW S, "blocked" \in S, NEW value, IsAValue(value, S),
         NEW display \in Seq(S), RoundTripOk(value, display), NEW c, c \notin Blanks
  PROVE  Contents(value) \in Seq(S) /\ Times(c, display) = Times(c, Contents(value))
<1>1. Packed(display) \in Seq(S) /\ Times(c, Packed(display)) = Times(c, display)
  BY PackedKeepsTimes
<1>2. CASE value.form = "text"
  <2>1. value.of \in Seq(S) /\ Contents(value) = value.of
    BY <1>2 DEF IsAValue, Contents
  <2>2. Times(c, Packed(value.of)) = Times(c, value.of)
    BY <2>1, PackedKeepsTimes
  <2>3. Packed(value.of) = Packed(display)
    BY <1>2 DEF RoundTripOk
  <2>4. QED
    BY <1>1, <2>1, <2>2, <2>3
<1>3. CASE value.form # "text"
  <2> DEFINE leaves == LeafTexts(value)
  <2>1. leaves \in Seq(Seq(S))
    BY <1>3, LeavesAreTexts
  <2>2. Contents(value) = FlattenSeq(leaves)
    BY <1>3 DEF Contents
  <2>3. FoldLeft(Consume, Packed(display), LongestFirst(leaves)) = << >>
    BY <1>3 DEF RoundTripOk
  <2> HIDE DEF leaves
  <2>4. /\ LongestFirst(leaves) \in Seq(Seq(S))
        /\ Times(c, FlattenSeq(LongestFirst(leaves))) = Times(c, FlattenSeq(leaves))
    BY <2>1, LongestFirstIsAnOrder
  <2>5. Times(c, Packed(display)) = Times(c, FlattenSeq(LongestFirst(leaves)))
    BY <1>1, <2>3, <2>4, UsedUp
  <2>6. FlattenSeq(leaves) \in Seq(S)
    BY <2>1, FlattenedIsAList
  <2>7. QED
    BY <1>1, <2>2, <2>4, <2>5, <2>6
<1>4. QED
  BY <1>2, <1>3

(* A record: what is sealed in it, each under a token of its own.            *)
IsARecord(record, S) ==
  /\ \A e \in ToSet(record) : IsAValue(e.value, S)
  /\ \A e, f \in ToSet(record) : e.token = f.token => e = f

(* The words of a letter every value of which resolves.                      *)
CanBeShown(words, record) ==
  \A i \in DOMAIN words : NamesFirst(words, i) => Resolves(record, words[i])

LEMMA SyntaxIs ==
  \A p \in DOMAIN Syntax : Syntax[p] = [token |-> Syntax[p].token, kind |-> Syntax[p].kind]
  BY DEF Syntax

(* A placeholder that is shown, at whichever place of its token, shows an     *)
(* entry that passed the round trip where the token was first named.         *)
LEMMA EachShowsItsEntry ==
  ASSUME NEW S, NEW record, IsARecord(record, S), NEW words \in Seq(S),
         CanBeShown(words, record), NEW i \in 1..Len(words), IsPlaceholder(words[i])
  PROVE  \E e \in EntriesFor(record, words[i]) :
           /\ ValueOf(record, words[i]) = e.value
           /\ IsAValue(e.value, S) /\ RoundTripOk(e.value, FormatValue(e.value))
           /\ \E j \in 1..Len(words) : /\ IsPlaceholder(words[j])
                                       /\ Syntax[words[j]] = [token |-> e.token, kind |-> e.kind]
<1> DEFINE token(k) == Syntax[words[k]].token
           same == {k \in 1..i : IsPlaceholder(words[k]) /\ token(k) = token(i)}
<1>1. DOMAIN words = 1..Len(words) /\ Len(words) \in Nat /\ i \in same /\ same \subseteq Nat
  OBVIOUS
<1>2. PICK j \in same : \A k \in same : j <= k
  <2> HIDE DEF same
  <2> QED BY <1>1, LeastNumber
<1>3. j \in 1..Len(words) /\ IsPlaceholder(words[j]) /\ token(j) = token(i) /\ j \in 1..i
  BY <1>1
<1>4. NamesFirst(words, j)
  <2>1. ASSUME NEW k \in 1 .. j - 1, IsPlaceholder(words[k]) PROVE token(k) # token(j)
    <3>1. k \in 1..i /\ ~ (j <= k)
      BY <1>1, <1>3
    <3>2. k \notin same
      BY <1>2, <3>1
    <3>3. QED
      BY <1>3, <2>1, <3>1, <3>2
  <2>2. QED
    BY <1>3, <2>1 DEF NamesFirst
<1>5. Resolves(record, words[j])
  BY <1>1, <1>3, <1>4 DEF CanBeShown
<1>6. PICK e \in EntriesFor(record, words[j]) :
        e.kind = Syntax[words[j]].kind /\ RoundTripOk(e.value, FormatValue(e.value))
  BY <1>5 DEF Resolves
<1>7. e \in ToSet(record) /\ e.token = token(j)
  BY <1>6 DEF EntriesFor
<1>8. EntriesFor(record, words[i]) = {e}
  BY <1>3, <1>7 DEF EntriesFor, IsARecord
<1>9. ValueOf(record, words[i]) = e.value
  BY <1>8 DEF ValueOf
<1>10. IsAValue(e.value, S)
  BY <1>7 DEF IsARecord
<1>11. Syntax[words[j]] = [token |-> e.token, kind |-> e.kind]
  BY <1>3, <1>6, <1>7, SyntaxIs DEF IsPlaceholder
<1>12. QED
  BY <1>3, <1>6, <1>8, <1>9, <1>10, <1>11

(* What is shown of a piece holds what the piece carries, blanks aside.      *)
Carried(record, piece) ==
  IF IsPlaceholder(piece) THEN Contents(ValueOf(record, piece)) ELSE <<piece>>

LEMMA EachPieceIsCarried ==
  ASSUME NEW S, {"blocked", OneBlank, NextLine} \subseteq S,
         NEW record, IsARecord(record, S), NEW words \in Seq(S),
         CanBeShown(words, record), NEW i \in 1..Len(words)
  PROVE  /\ Shown(record, words[i]) \in Seq(S) /\ Carried(record, words[i]) \in Seq(S)
         /\ \A c : c \notin Blanks =>
              Times(c, Shown(record, words[i])) = Times(c, Carried(record, words[i]))
<1>1. CASE ~ IsPlaceholder(words[i])
  <2>1. words[i] \in S
    OBVIOUS
  <2>2. Shown(record, words[i]) = <<words[i]>> /\ Carried(record, words[i]) = <<words[i]>>
    BY <1>1 DEF Shown, Carried
  <2>3. QED
    BY <2>1, <2>2
<1>2. CASE IsPlaceholder(words[i])
  <2>1. PICK e \in EntriesFor(record, words[i]) :
          /\ ValueOf(record, words[i]) = e.value
          /\ IsAValue(e.value, S) /\ RoundTripOk(e.value, FormatValue(e.value))
    BY <1>2, EachShowsItsEntry
  <2> DEFINE value == e.value
             display == FormatValue(value)
  <2>2. Shown(record, words[i]) = display /\ Carried(record, words[i]) = Contents(value)
    BY <1>2, <2>1 DEF Shown, Carried
  <2>3. IsAValue(value, S) /\ RoundTripOk(value, display)
    BY <2>1
  <2> HIDE DEF value
  <2>4. display \in Seq(S)
    BY <2>3, DisplayIsAText
  <2> HIDE DEF display
  <2>5. \A c : c \notin Blanks =>
          Contents(value) \in Seq(S) /\ Times(c, display) = Times(c, Contents(value))
    BY <2>3, <2>4, RoundTripsKeepAll
  <2>6. "blocked" \notin Blanks
    BY DEF Blanks, OneBlank, NextLine
  <2>7. QED
    BY <2>2, <2>4, <2>5, <2>6
<1>3. QED
  BY <1>1, <1>2

(* A letter that is written.                                                 *)
LEMMA WrittenIs ==
  ASSUME NEW words, NEW record, Rehydrate(words, record) # NoText
  PROVE  /\ Rehydrate(words, record) = FlattenSeq([i \in DOMAIN words |-> Shown(record, words[i])])
         /\ CanBeShown(words, record) /\ Survivors(Rehydrate(words, record)) = {}
<1> DEFINE once == RehydrateOnce(words, record)
<1>1. Rehydrate(words, record) = once /\ Survivors(once) = {}
  BY DEF Rehydrate, Unsealed
<1>2. once # NoText
  BY <1>1
<1>3. \A i \in DOMAIN words : words[i] # Opener /\ (NamesFirst(words, i) => Resolves(record, words[i]))
  BY <1>2 DEF RehydrateOnce
<1>4. once = FlattenSeq([i \in DOMAIN words |-> Shown(record, words[i])])
  BY <1>3 DEF RehydrateOnce
<1>5. QED
  BY <1>1, <1>3, <1>4 DEF CanBeShown

LEMMA ValuesAreCarried ==
  ASSUME NEW S, {"blocked", OneBlank, NextLine} \subseteq S,
         NEW record, IsARecord(record, S), NEW words \in Seq(S),
         Rehydrate(words, record) # NoText
  PROVE  CarriesItsValues(Rehydrate(words, record), words, record)
<1> DEFINE n == Len(words)
           A == Seq(S)
           shown == [i \in DOMAIN words |-> Shown(record, words[i])]
           carried == [i \in DOMAIN words |-> Carried(record, words[i])]
           body == Rehydrate(words, record)
           named == {p \in ToSet(words) : IsPlaceholder(p)}
<1>1. body = FlattenSeq(shown) /\ CanBeShown(words, record) /\ Survivors(body) = {}
  BY WrittenIs
<1>2. n \in Nat /\ DOMAIN words = 1..n
  OBVIOUS
<1>3. \A i \in 1..n : /\ Shown(record, words[i]) \in A /\ Carried(record, words[i]) \in A
                      /\ \A c : c \notin Blanks =>
                           Times(c, Shown(record, words[i])) = Times(c, Carried(record, words[i]))
  BY <1>1, EachPieceIsCarried
<1> HIDE DEF A, n
<1>4. shown \in [1..n -> A] /\ carried \in [1..n -> A]
  BY <1>2, <1>3
<1>5. \A i \in 1..n : \A c : c \notin Blanks => Times(c, shown[i]) = Times(c, carried[i])
  BY <1>2, <1>3
<1>6. CarriesItsValues(body, words, record) <=>
        /\ Survivors(body) = {}
        /\ \A p \in named : \E e \in EntriesFor(record, p) : \E q \in named :
             Syntax[q] = [token |-> e.token, kind |-> e.kind]
        /\ \A c \in (ToSet(body) \cup ToSet(FlattenSeq(carried))) \ Blanks :
             Times(c, body) = Times(c, FlattenSeq(carried))
  BY DEF CarriesItsValues, Carried
<1> HIDE DEF shown, carried, body
<1>7. /\ shown \in Seq(A) /\ Len(shown) = n
      /\ carried \in Seq(A) /\ Len(carried) = n
  BY <1>2, <1>4, FunctionsAreLists
<1>8. ASSUME NEW c, c \notin Blanks PROVE Times(c, body) = Times(c, FlattenSeq(carried))
  <2>1. \A i \in 1..Len(shown) : Times(c, shown[i]) = Times(c, carried[i])
    BY <1>5, <1>7, <1>8
  <2>2. QED
    BY <1>1, <1>7, <2>1, JoinedAlike DEF A
<1>9. ASSUME NEW p \in named
      PROVE  \E e \in EntriesFor(record, p) : \E q \in named :
               Syntax[q] = [token |-> e.token, kind |-> e.kind]
  <2>1. PICK i \in 1..n : p = words[i] /\ IsPlaceholder(words[i])
    BY <1>2 DEF ToSet
  <2>2. PICK e \in EntriesFor(record, words[i]) :
          \E j \in 1..Len(words) : /\ IsPlaceholder(words[j])
                                   /\ Syntax[words[j]] = [token |-> e.token, kind |-> e.kind]
    BY <1>1, <2>1, EachShowsItsEntry DEF n
  <2>3. QED
    BY <1>2, <2>1, <2>2 DEF ToSet, n
<1>10. QED
  BY <1>1, <1>6, <1>8, <1>9 DEF body

(* The pieces of a letter: the characters of values, among them placeholders  *)
(* and the syntax that imitates one, and the words of the wording.           *)
Reserved == {"bitte", "amtsermittlung", "hinweis"}
LetterCharacters ==
  (STRING \cup {"blocked", OneBlank, NextLine, Opener} \cup DOMAIN Syntax) \ Reserved
Pieces == LetterCharacters \cup Reserved
Names == {x \in Pieces : x \notin Reserved \cup Blanks \cup {Opener} \cup DOMAIN Syntax}

LEMMA PiecesAre ==
  /\ {"blocked", OneBlank, NextLine} \subseteq LetterCharacters /\ DOMAIN Syntax \subseteq LetterCharacters
  /\ {"blocked", OneBlank, NextLine} \subseteq Pieces
  /\ LetterCharacters \subseteq Pieces /\ Reserved \subseteq Pieces /\ Names \subseteq LetterCharacters
  /\ \A x \in Names \cup Reserved : ~ IsPlaceholder(x)
  /\ OneBlank \notin Reserved /\ NextLine \notin Reserved
  /\ \A p \in DOMAIN Syntax : p \notin Reserved
  BY DEF LetterCharacters, Pieces, Names, Reserved, OneBlank, NextLine, Opener, Blanks, Syntax,
         IsPlaceholder

(* Texts without the word of the warning, in which every note that the agency *)
(* finds something out itself stands behind a name of these.                 *)
NotedTexts(soft) ==
  {t \in Seq(Pieces) :
     /\ "hinweis" \notin ToSet(t)
     /\ \A i \in 1..Len(t) : t[i] = "amtsermittlung" => i > 1 /\ t[i-1] \in soft}

LEMMA NotedTogether ==
  ASSUME NEW soft, NEW s \in NotedTexts(soft), NEW t \in NotedTexts(soft)
  PROVE  s \o t \in NotedTexts(soft)
<1> DEFINE both == s \o t
           m == Len(s)
           n == Len(t)
<1>1. /\ both \in Seq(Pieces) /\ Len(both) = m + n /\ m \in Nat /\ n \in Nat
      /\ \A i \in 1..m : both[i] = s[i]
      /\ \A i \in 1..n : both[m + i] = t[i]
  BY DEF NotedTexts
<1>2. ToSet(both) = ToSet(s) \cup ToSet(t)
  BY PiecesOfBoth DEF NotedTexts
<1>3. /\ "hinweis" \notin ToSet(s) /\ "hinweis" \notin ToSet(t)
      /\ \A i \in 1..m : s[i] = "amtsermittlung" => i > 1 /\ s[i-1] \in soft
      /\ \A i \in 1..n : t[i] = "amtsermittlung" => i > 1 /\ t[i-1] \in soft
  BY DEF NotedTexts
<1> HIDE DEF both, m, n
<1>4. ASSUME NEW i \in 1..(m + n), both[i] = "amtsermittlung" PROVE i > 1 /\ both[i-1] \in soft
  <2>1. CASE i \in 1..m
    <3>1. s[i] = "amtsermittlung"
      BY <1>1, <1>4, <2>1
    <3>2. i > 1 /\ s[i-1] \in soft /\ i - 1 \in 1..m
      BY <1>1, <1>3, <2>1, <3>1
    <3>3. QED
      BY <1>1, <3>2
  <2>2. CASE i \notin 1..m
    <3> DEFINE j == i - m
    <3>1. j \in 1..n /\ m + j = i
      BY <1>1, <2>2
    <3>2. t[j] = "amtsermittlung"
      BY <1>1, <1>4, <3>1
    <3>3. j > 1 /\ t[j-1] \in soft /\ j - 1 \in 1..n /\ m + (j - 1) = i - 1
      BY <1>1, <1>3, <3>1, <3>2
    <3>4. both[i-1] = t[j-1]
      BY <1>1, <3>3
    <3>5. QED
      BY <1>1, <3>1, <3>3, <3>4
  <2>3. QED
    BY <2>1, <2>2
<1>5. QED
  BY <1>1, <1>2, <1>3, <1>4 DEF NotedTexts, both

(* A text of characters alone has no such note.                              *)
LEMMA CharactersAreNoted ==
  ASSUME NEW soft, NEW t \in Seq(LetterCharacters)
  PROVE  t \in NotedTexts(soft)
<1>1. \A i \in 1..Len(t) : t[i] \in LetterCharacters /\ t[i] \in Pieces /\ t[i] \notin Reserved
  BY DEF Pieces, LetterCharacters
<1>2. t \in Seq(Pieces)
  BY PiecesAre
<1>3. QED
  BY <1>1, <1>2 DEF NotedTexts, ToSet, Reserved

LEMMA OneMoreBefore ==
  ASSUME NEW S, NEW c \in S, NEW t \in Seq(S)
  PROVE  /\ <<c>> \in Seq(S) /\ <<c>> \o t \in Seq(S)
         /\ \A s \in Seq(S) : s \o (<<c>> \o t) = (s \o <<c>>) \o t
<1>1. <<c>> \in Seq(S)
  OBVIOUS
<1>2. QED
  BY <1>1

LEMMA TwoFlattened ==
  ASSUME NEW S, NEW lists \in Seq(Seq(S)), Len(lists) = 2
  PROVE  FlattenSeq(lists) = lists[1] \o lists[2]
<1>1. PICK r : r \in JoiningSteps(S, lists)
  BY FlatteningSteps
<1>2. r[0] = << >> /\ r[1] = r[0] \o lists[1] /\ r[2] = r[1] \o lists[2] /\ FlattenSeq(lists) = r[2]
  BY <1>1 DEF JoiningSteps
<1>3. lists[1] \in Seq(S)
  OBVIOUS
<1>4. << >> \o lists[1] = lists[1]
  BY <1>3
<1>5. QED
  BY <1>2, <1>4

(* Of two texts joined.                                                      *)
LEMMA TwoJoined ==
  ASSUME NEW S, NEW s \in Seq(S), NEW t \in Seq(S), NEW between \in S
  PROVE  /\ t = << >> => Join(<<s, t>>, between) = s
         /\ s # << >> /\ t # << >> => Join(<<s, t>>, between) = (s \o <<between>>) \o t
<1> DEFINE A == Seq(S)
           texts == <<s, t>>
           these == ToSet(texts) \ {<< >>}
           said == Those(texts, these)
           parts == [i \in DOMAIN said |-> IF i = 1 THEN said[i] ELSE <<between>> \o said[i]]
<1>1. texts \in Seq(A) /\ Len(texts) = 2 /\ texts[1] = s /\ texts[2] = t
  OBVIOUS
<1>2. s \in these <=> s # << >>
  BY DEF ToSet
<1>3. t \in these <=> t # << >>
  BY DEF ToSet
<1>4. Join(texts, between) = FlattenSeq(parts)
  BY DEF Join, Without
<1> HIDE DEF these, texts
<1>5. PICK r : r \in KeepingSteps(A, texts, these)
  BY <1>1, ThoseSteps
<1>6. /\ r[0] = << >> /\ r[1] = IF s \in these THEN Append(r[0], s) ELSE r[0]
      /\ r[2] = IF t \in these THEN Append(r[1], t) ELSE r[1]
      /\ said = r[2]
  BY <1>1, <1>5 DEF KeepingSteps
<1>7. CASE s = << >> /\ t = << >>
  <2>1. said = << >>
    BY <1>2, <1>3, <1>6, <1>7
  <2>2. parts = << >>
    BY <2>1
  <2>3. FlattenSeq(<< >>) = << >>
    BY DEF FlattenSeq
  <2>4. QED
    BY <1>4, <1>7, <2>2, <2>3 DEF texts
<1>8. CASE s # << >> /\ t = << >>
  <2>1. said = <<s>>
    BY <1>2, <1>3, <1>6, <1>8
  <2>2. parts = <<s>>
    BY <2>1
  <2>3. QED
    BY <1>4, <1>8, <2>2, OneAlone DEF texts
<1>9. CASE s # << >> /\ t # << >>
  <2> DEFINE u == <<between>> \o t
  <2>1. said = Append(<<s>>, t)
    BY <1>2, <1>3, <1>6, <1>9
  <2>2. /\ said \in Seq(A) /\ Len(said) = 2 /\ DOMAIN said = 1..2
        /\ said[1] = s /\ said[2] = t
    BY <2>1
  <2>3. s \in A /\ u \in A
    BY OneMoreBefore
  <2> HIDE DEF u, said, A
  <2>4. DOMAIN parts = 1..2 /\ parts[1] = s /\ parts[2] = <<between>> \o t
    BY <2>2
  <2>5. parts[2] = u
    BY <2>4 DEF u
  <2>6. parts = [i \in 1..2 |-> parts[i]]
    BY <2>2
  <2> HIDE DEF parts
  <2>7. parts \in [1..2 -> A]
    BY <2>3, <2>4, <2>5, <2>6
  <2>8. parts \in Seq(A) /\ Len(parts) = 2
    BY <2>7, FunctionsAreLists
  <2>9. FlattenSeq(parts) = parts[1] \o parts[2]
    BY <2>8, TwoFlattened DEF A
  <2>10. s \o (<<between>> \o t) = (s \o <<between>>) \o t
    BY OneMoreBefore
  <2>11. QED
    BY <1>4, <1>9, <2>4, <2>9, <2>10, Zenon DEF texts
<1>10. QED
  BY <1>7, <1>8, <1>9

LEMMA EmptyIsNoted ==
  ASSUME NEW soft
  PROVE  << >> \in NotedTexts(soft) /\ NotedTexts(soft) \subseteq Seq(Pieces)
<1>1. Len(<< >>) = 0 /\ << >> \in Seq(Pieces) /\ ToSet(<< >>) = {}
  BY DEF ToSet
<1>2. QED
  BY <1>1 DEF NotedTexts

LEMMA OnePieceIsNoted ==
  ASSUME NEW soft, NEW c \in Pieces \ {"hinweis", "amtsermittlung"}
  PROVE  <<c>> \in NotedTexts(soft)
<1> DEFINE t == <<c>>
<1>1. t \in Seq(Pieces) /\ Len(t) = 1 /\ t[1] = c /\ ToSet(t) = {c}
  BY DEF ToSet
<1> HIDE DEF t
<1>2. \A i \in 1..Len(t) : t[i] = c
  BY <1>1
<1>3. t \in NotedTexts(soft)
  BY <1>1, <1>2 DEF NotedTexts
<1>4. QED
  BY <1>3 DEF t

(* The note may be added behind one of these names.                          *)
LEMMA NoteIsAdded ==
  ASSUME NEW soft, NEW t \in NotedTexts(soft), Len(t) > 0, t[Len(t)] \in soft
  PROVE  t \o <<"amtsermittlung">> \in NotedTexts(soft)
<1> DEFINE n == Len(t)
           both == Append(t, "amtsermittlung")
<1>1. /\ t \in Seq(Pieces) /\ n \in Nat /\ "amtsermittlung" \in Pieces
      /\ "hinweis" \notin ToSet(t)
      /\ \A i \in 1..n : t[i] = "amtsermittlung" => i > 1 /\ t[i-1] \in soft
  BY DEF NotedTexts, Pieces, Reserved
<1>2. t \o <<"amtsermittlung">> = both
  BY <1>1
<1>3. /\ both \in Seq(Pieces) /\ Len(both) = n + 1 /\ DOMAIN both = 1 .. n + 1
      /\ \A i \in 1..n : both[i] = t[i]
      /\ both[n + 1] = "amtsermittlung"
  BY <1>1
<1> HIDE DEF both, n
<1>4. n > 0 /\ t[n] \in soft /\ DOMAIN t = 1..n
  BY DEF n, NotedTexts
<1>5. "hinweis" \notin ToSet(both)
  <2>1. SUFFICES ASSUME NEW i \in 1 .. n + 1, both[i] = "hinweis" PROVE FALSE
    BY <1>3 DEF ToSet
  <2>2. i \in 1..n /\ t[i] = "hinweis"
    BY <1>1, <1>3, <2>1
  <2>3. QED
    BY <1>1, <1>4, <2>2 DEF ToSet
<1>6. ASSUME NEW i \in 1 .. n + 1, both[i] = "amtsermittlung" PROVE i > 1 /\ both[i-1] \in soft
  <2>1. CASE i = n + 1
    <3>1. i - 1 = n /\ n \in 1..n
      BY <1>1, <1>4, <2>1
    <3>2. QED
      BY <1>1, <1>3, <1>4, <2>1, <3>1
  <2>2. CASE i \in 1..n
    <3>1. t[i] = "amtsermittlung"
      BY <1>3, <1>6, <2>2
    <3>2. i > 1 /\ t[i-1] \in soft /\ i - 1 \in 1..n
      BY <1>1, <2>2, <3>1
    <3>3. QED
      BY <1>3, <3>2
  <2>3. QED
    BY <1>1, <2>1, <2>2
<1>7. both \in NotedTexts(soft)
  BY <1>3, <1>5, <1>6 DEF NotedTexts
<1>8. QED
  BY <1>2, <1>7

(* A sentence that asks, with and without the note.                          *)
LEMMA SentencesAreNoted ==
  ASSUME NEW soft, NEW g \in Names
  PROVE  /\ <<"bitte", g>> \in NotedTexts(soft)
         /\ g \in ToSet(<<"bitte", g>>)
         /\ g \in soft => <<"bitte", g>> \o <<"amtsermittlung">> \in NotedTexts(soft)
<1> DEFINE t == <<"bitte", g>>
<1>1. "bitte" \in Pieces /\ g \in Pieces /\ g # "hinweis" /\ g # "amtsermittlung"
  BY DEF Names, Pieces, Reserved
<1>2. t \in Seq(Pieces) /\ Len(t) = 2 /\ DOMAIN t = 1..2 /\ t[1] = "bitte" /\ t[2] = g
  BY <1>1
<1> HIDE DEF t
<1>3. \A i \in 1..2 : t[i] \in {"bitte", g}
  BY <1>2
<1>4. "hinweis" \notin ToSet(t) /\ g \in ToSet(t)
  BY <1>1, <1>2, <1>3 DEF ToSet
<1>5. t \in NotedTexts(soft)
  BY <1>1, <1>2, <1>3, <1>4 DEF NotedTexts
<1>6. ASSUME g \in soft PROVE t \o <<"amtsermittlung">> \in NotedTexts(soft)
  <2>1. Len(t) > 0 /\ t[Len(t)] \in soft
    BY <1>2, <1>6
  <2>2. QED
    BY <1>5, <2>1, NoteIsAdded
<1>7. QED
  BY <1>4, <1>5, <1>6 DEF t

(* What the placeholders of such a text show changes nothing about its notes. *)
ShownOf(record, words) == [i \in DOMAIN words |-> Shown(record, words[i])]

LEMMA ShownIsNoted ==
  ASSUME NEW soft, soft \subseteq Names, NEW record, NEW words \in NotedTexts(soft),
         \A i \in 1..Len(words) :
           IsPlaceholder(words[i]) => Shown(record, words[i]) \in Seq(LetterCharacters)
  PROVE  /\ ShownOf(record, words) \in Seq(Seq(Pieces))
         /\ Len(ShownOf(record, words)) = Len(words)
         /\ FlattenSeq(ShownOf(record, words)) \in NotedTexts(soft)
<1> DEFINE n == Len(words)
           shown == ShownOf(record, words)
           A == Seq(Pieces)
           G == NotedTexts(soft)
<1>1. /\ n \in Nat /\ DOMAIN words = 1..n /\ words \in Seq(Pieces)
      /\ \A i \in 1..n : words[i] = "amtsermittlung" => i > 1 /\ words[i-1] \in soft
      /\ \A i \in 1..n : words[i] # "hinweis" /\ words[i] \in Pieces
  BY DEF NotedTexts, ToSet
<1>2. \A i \in 1..n : IF IsPlaceholder(words[i]) THEN shown[i] \in Seq(LetterCharacters)
                      ELSE shown[i] = <<words[i]>>
  BY <1>1 DEF ShownOf, Shown
<1>3. \A i \in 1..n : shown[i] \in A
  <2> TAKE i \in 1..n
  <2>1. CASE IsPlaceholder(words[i])
    <3>1. shown[i] \in G
      BY <1>2, <2>1, CharactersAreNoted
    <3>2. QED
      BY <3>1, EmptyIsNoted
  <2>2. CASE ~ IsPlaceholder(words[i])
    <3>1. words[i] \in Pieces /\ shown[i] = <<words[i]>>
      BY <1>1, <1>2, <2>2
    <3>2. QED
      BY <3>1, OneMoreBefore
  <2>3. QED
    BY <2>1, <2>2
<1>4. shown = [i \in 1..n |-> shown[i]]
  BY <1>1 DEF ShownOf
<1> HIDE DEF shown, A
<1>5. shown \in [1..n -> A]
  BY <1>3, <1>4
<1>6. shown \in Seq(A) /\ Len(shown) = n
  BY <1>1, <1>5, FunctionsAreLists
<1>7. PICK r : r \in JoiningSteps(Pieces, shown)
  BY <1>6, FlatteningSteps DEF A
<1>8. /\ r[0] = << >> /\ FlattenSeq(shown) = r[n]
      /\ \A k \in 1..n : r[k] = r[k-1] \o shown[k]
  BY <1>6, <1>7 DEF JoiningSteps
<1> HIDE DEF n
<1> DEFINE T == {k \in 0..n : /\ r[k] \in G
                              /\ k > 0 /\ words[k] \in soft =>
                                   Len(r[k]) > 0 /\ r[k][Len(r[k])] = words[k]}
<1>9. 0 \in T
  BY <1>1, <1>8, EmptyIsNoted
<1>10. ASSUME NEW k \in 1..n, k - 1 \in T PROVE k \in T
  <2>1. k \in 0..n /\ k > 0 /\ k - 1 \in 0..n
    BY <1>1
  <2>2. r[k-1] \in G /\ r[k] = r[k-1] \o shown[k]
    BY <1>8, <1>10
  <2>3. CASE IsPlaceholder(words[k])
    <3>1. shown[k] \in G
      BY <1>2, <2>3, CharactersAreNoted
    <3>2. r[k] \in G
      BY <2>2, <3>1, NotedTogether
    <3>3. words[k] \notin soft
      BY <2>3, PiecesAre
    <3>4. QED
      BY <2>1, <3>2, <3>3
  <2>4. CASE words[k] = "amtsermittlung"
    <3>1. k > 1 /\ words[k-1] \in soft /\ ~ IsPlaceholder(words[k])
      BY <1>1, <2>4, PiecesAre DEF Reserved
    <3>2. k - 1 > 0
      BY <2>1, <3>1
    <3>3. Len(r[k-1]) > 0 /\ r[k-1][Len(r[k-1])] \in soft
      BY <1>10, <3>1, <3>2
    <3>4. r[k] = r[k-1] \o <<"amtsermittlung">>
      BY <1>2, <2>2, <2>4, <3>1
    <3>5. r[k] \in G
      BY <2>2, <3>3, <3>4, NoteIsAdded
    <3>6. words[k] \notin soft
      BY <2>4 DEF Names, Reserved
    <3>7. QED
      BY <2>1, <3>5, <3>6
  <2>5. CASE ~ IsPlaceholder(words[k]) /\ words[k] # "amtsermittlung"
    <3>1. shown[k] = <<words[k]>> /\ words[k] \in Pieces \ {"hinweis", "amtsermittlung"}
      BY <1>1, <1>2, <2>5
    <3>2. shown[k] \in G
      BY <3>1, OnePieceIsNoted
    <3>3. r[k] \in G
      BY <2>2, <3>2, NotedTogether
    <3>4. Len(r[k]) > 0 /\ r[k][Len(r[k])] = words[k]
      <4> DEFINE s == r[k-1]
                 x == words[k]
      <4>1. s \in Seq(Pieces) /\ x \in Pieces
        BY <2>2, <3>1, EmptyIsNoted
      <4>2. r[k] = s \o <<x>>
        BY <2>2, <3>1
      <4> HIDE DEF s, x
      <4>3. Len(s \o <<x>>) = Len(s) + 1 /\ (s \o <<x>>)[Len(s) + 1] = x /\ Len(s) \in Nat
        BY <4>1
      <4>4. Len(r[k]) > 0 /\ r[k][Len(r[k])] = x
        BY <4>2, <4>3
      <4>5. QED
        BY <4>4 DEF x
    <3>5. QED
      BY <2>1, <3>3, <3>4
  <2>6. QED
    BY <2>3, <2>4, <2>5
<1>11. n \in T
  <2>1. n \in 0..n
    BY <1>1
  <2> HIDE DEF T
  <2>2. \A k \in 0..n : k \in T
    BY <1>1, <1>9, <1>10, EveryPlace
  <2>3. QED
    BY <2>1, <2>2
<1>12. QED
  BY <1>6, <1>8, <1>11 DEF A, shown, n

LEMMA BothHold ==
  ASSUME NEW S, NEW s \in Seq(S), NEW t \in Seq(S)
  PROVE  /\ s \o t \in Seq(S) /\ Len(s \o t) = Len(s) + Len(t)
         /\ DOMAIN (s \o t) = 1..(Len(s) + Len(t))
         /\ \A i \in 1..Len(s) : (s \o t)[i] = s[i]
         /\ \A i \in 1..Len(t) : (s \o t)[Len(s) + i] = t[i]
  OBVIOUS

LEMMA PlacesBehind ==
  ASSUME NEW m \in Nat, NEW n \in Nat, NEW i \in 1..(m + (n + 1)), i > m + 1
  PROVE  \E k \in 1..n : i = m + 1 + k /\ k + 1 \in 1..(n + 1) /\ i = m + (k + 1)
<1>1. (i - m) - 1 \in 1..n /\ i = m + 1 + ((i - m) - 1) /\ i = m + (((i - m) - 1) + 1)
  OBVIOUS
<1>2. ((i - m) - 1) + 1 \in 1..(n + 1)
  OBVIOUS
<1>3. QED
  BY <1>1, <1>2

LEMMA AListIs ==
  ASSUME NEW S, NEW s \in Seq(S)
  PROVE  s = [i \in 1..Len(s) |-> s[i]]
  OBVIOUS

LEMMA OneStretch ==
  ASSUME NEW S, NEW t \in Seq(S), NEW k \in 1..Len(t)
  PROVE  SubSeq(t, k, k) = <<t[k]>>
<1> DEFINE u == SubSeq(t, k, k)
           v == <<t[k]>>
<1>1. u \in Seq(S) /\ Len(u) = 1 /\ u[1] = t[k]
  OBVIOUS
<1>2. v \in Seq(S) /\ Len(v) = 1 /\ v[1] = t[k]
  OBVIOUS
<1> HIDE DEF u, v
<1>3. u = v
  BY <1>1, <1>2
<1>4. QED
  BY <1>3 DEF u, v

(* Words without placeholders are shown as they stand, and of words one after *)
(* the other each are.                                                       *)
LEMMA ShownTogether ==
  ASSUME NEW S, NEW record, NEW s \in Seq(S), NEW t \in Seq(S),
         ShownOf(record, s) \in Seq(Seq(S)), ShownOf(record, t) \in Seq(Seq(S))
  PROVE  FlattenSeq(ShownOf(record, s \o t)) =
           FlattenSeq(ShownOf(record, s)) \o FlattenSeq(ShownOf(record, t))
<1> DEFINE m == Len(s)
           n == Len(t)
           A == Seq(S)
           both == s \o t
           a == ShownOf(record, s)
           b == ShownOf(record, t)
           c == ShownOf(record, both)
<1>1. /\ m \in Nat /\ n \in Nat /\ both \in Seq(S) /\ Len(both) = m + n
      /\ DOMAIN s = 1..m /\ DOMAIN t = 1..n /\ DOMAIN both = 1..(m + n)
      /\ \A i \in 1..m : both[i] = s[i]
      /\ \A i \in 1..n : both[m + i] = t[i]
  OBVIOUS
<1> HIDE DEF both, m, n
<1>2. /\ DOMAIN a = 1..m /\ \A i \in 1..m : a[i] = Shown(record, s[i])
      /\ DOMAIN b = 1..n /\ \A i \in 1..n : b[i] = Shown(record, t[i])
      /\ DOMAIN c = 1..(m + n) /\ \A i \in 1..(m + n) : c[i] = Shown(record, both[i])
  BY <1>1 DEF ShownOf
<1>3. c = [i \in 1..(m + n) |-> c[i]]
  BY <1>1 DEF ShownOf
<1>4. a \in Seq(A) /\ b \in Seq(A)
  OBVIOUS
<1>5. FlattenSeq(a \o b) = FlattenSeq(a) \o FlattenSeq(b)
  BY FlattenedTogether
<1> HIDE DEF a, b, c, A
<1>6. Len(a) = m /\ Len(b) = n
  BY <1>1, <1>2, <1>4
<1> DEFINE d == a \o b
<1>7. /\ d \in Seq(A) /\ Len(d) = m + n /\ DOMAIN d = 1..(m + n)
      /\ \A i \in 1..m : d[i] = a[i]
      /\ \A i \in 1..n : d[m + i] = b[i]
  <2>1. /\ d \in Seq(A) /\ Len(d) = Len(a) + Len(b) /\ DOMAIN d = 1..(Len(a) + Len(b))
        /\ \A i \in 1..Len(a) : d[i] = a[i]
        /\ \A i \in 1..Len(b) : d[Len(a) + i] = b[i]
    BY <1>4, BothHold
  <2> HIDE DEF d
  <2>2. QED
    BY <1>6, <2>1
<1>8. d = [i \in 1..(m + n) |-> d[i]]
  <2>1. d \in Seq(A) /\ Len(d) = m + n
    BY <1>7
  <2> HIDE DEF d
  <2>2. d = [i \in 1..Len(d) |-> d[i]]
    BY <2>1, AListIs
  <2>3. QED
    BY <2>1, <2>2
<1> HIDE DEF d
<1>9. \A i \in 1..(m + n) : c[i] = d[i]
  <2> TAKE i \in 1..(m + n)
  <2>1. CASE i \in 1..m
    BY <1>1, <1>2, <1>7, <2>1
  <2>2. CASE i \notin 1..m
    <3> DEFINE j == i - m
    <3>1. j \in 1..n /\ m + j = i
      BY <1>1, <2>2
    <3> HIDE DEF j
    <3>2. both[i] = t[j] /\ d[i] = b[j]
      BY <1>1, <1>7, <3>1
    <3>3. QED
      BY <1>2, <3>1, <3>2
  <2>3. QED
    BY <2>1, <2>2
<1>10. c = d
  BY <1>3, <1>8, <1>9
<1>11. QED
  BY <1>5, <1>10, Zenon DEF a, b, c, d, both

LEMMA PlainIsShown ==
  ASSUME NEW S, NEW record, NEW t \in Seq(S), \A i \in 1..Len(t) : ~ IsPlaceholder(t[i])
  PROVE  ShownOf(record, t) \in Seq(Seq(S)) /\ FlattenSeq(ShownOf(record, t)) = t
<1> DEFINE n == Len(t)
           A == Seq(S)
           shown == ShownOf(record, t)
<1>1. n \in Nat /\ DOMAIN t = 1..n /\ \A i \in 1..n : t[i] \in S /\ ~ IsPlaceholder(t[i])
  OBVIOUS
<1>2. /\ shown = [i \in 1..n |-> shown[i]]
      /\ \A i \in 1..n : shown[i] = <<t[i]>>
  BY <1>1 DEF ShownOf, Shown
<1>3. \A i \in 1..n : shown[i] \in A
  BY <1>1, <1>2, OneMoreBefore
<1> HIDE DEF shown, A
<1>4. shown \in [1..n -> A]
  BY <1>2, <1>3
<1>5. shown \in Seq(A) /\ Len(shown) = n
  BY <1>1, <1>4, FunctionsAreLists
<1>6. PICK r : r \in JoiningSteps(S, shown)
  BY <1>5, FlatteningSteps DEF A
<1>7. /\ r[0] = << >> /\ FlattenSeq(shown) = r[n]
      /\ \A k \in 1..n : r[k] = r[k-1] \o shown[k]
  BY <1>5, <1>6 DEF JoiningSteps
<1>8. \A k \in 1..n : SubSeq(t, 1, k - 1) \o <<t[k]>> = SubSeq(t, 1, k)
  <2> TAKE k \in 1..n
  <2> DEFINE b == k - 1
  <2>1. 0 \in Nat /\ b \in Nat /\ k \in Nat /\ 0 <= b /\ b <= k /\ k <= Len(t) /\ b + 1 = k
        /\ 0 + 1 = 1
    BY <1>1
  <2> HIDE DEF b
  <2>2. SubSeq(t, 0 + 1, b) \o SubSeq(t, b + 1, k) = SubSeq(t, 0 + 1, k)
    BY <2>1, StretchesJoin
  <2>3. SubSeq(t, k, k) = <<t[k]>>
    BY OneStretch
  <2>4. QED
    BY <2>1, <2>2, <2>3 DEF b
<1>9. SubSeq(t, 1, 0) = << >> /\ SubSeq(t, 1, n) = t
  OBVIOUS
<1> HIDE DEF n
<1> DEFINE T == {k \in 0..n : r[k] = SubSeq(t, 1, k)}
<1>10. 0 \in T
  <2>1. 0 \in 0..n
    BY <1>1
  <2>2. r[0] = SubSeq(t, 1, 0)
    BY <1>7, <1>9, Zenon
  <2>3. QED
    BY <2>1, <2>2
<1>11. ASSUME NEW k \in 1..n, k - 1 \in T PROVE k \in T
  <2>1. k \in 0..n
    BY <1>1
  <2>2. r[k] = SubSeq(t, 1, k - 1) \o <<t[k]>>
    BY <1>2, <1>7, <1>11
  <2>3. r[k] = SubSeq(t, 1, k)
    BY <1>8, <2>2
  <2>4. QED
    BY <2>1, <2>3
<1>12. n \in T
  <2>1. n \in 0..n
    BY <1>1
  <2> HIDE DEF T
  <2>2. \A k \in 0..n : k \in T
    BY <1>1, <1>10, <1>11, EveryPlace
  <2>3. QED
    BY <2>1, <2>2
<1>13. r[n] = t
  BY <1>9, <1>12
<1>14. QED
  BY <1>5, <1>7, <1>13 DEF A, shown

(* Behind such a text, the warning names only what the text asks for and does *)
(* not note.                                                                 *)
Warned(text, scope) == text \o (<<"hinweis">> \o scope)

LEMMA WarningStands ==
  ASSUME NEW soft, NEW text \in NotedTexts(soft), NEW scope \in Seq(Names),
         \A k \in 1..Len(scope) : scope[k] \in ToSet(text) /\ scope[k] \notin soft,
         NEW body, body = Warned(text, scope)
  PROVE  LET at(word) == {i \in DOMAIN body : body[i] = word}
         IN  /\ at("hinweis") # {}
             /\ \A i \in DOMAIN body : i > Min(at("hinweis")) =>
                  /\ \E k \in 1..Len(scope) : body[i] = scope[k]
                  /\ ~ \E j \in DOMAIN body :
                         /\ j + 2 <= Len(body) /\ body[j] = "bitte"
                         /\ body[j + 1] = body[i] /\ body[j + 2] = "amtsermittlung"
                  /\ Min(at(body[i])) < i
<1> DEFINE at(word) == {i \in DOMAIN body : body[i] = word}
           m == Len(text)
           n == Len(scope)
           tail == <<"hinweis">> \o scope
<1>1. /\ m \in Nat /\ n \in Nat /\ text \in Seq(Pieces) /\ DOMAIN text = 1..m
      /\ \A i \in 1..m : text[i] # "hinweis"
      /\ \A i \in 1..m : text[i] = "amtsermittlung" => i > 1 /\ text[i-1] \in soft
  BY DEF NotedTexts, ToSet
<1>2. \A k \in 1..n : /\ scope[k] \in Pieces /\ scope[k] \notin soft
                      /\ scope[k] # "hinweis" /\ scope[k] # "amtsermittlung"
                      /\ \E j \in 1..m : text[j] = scope[k]
  <2> TAKE k \in 1..n
  <2>1. scope[k] \in Names
    OBVIOUS
  <2>2. \E j \in 1..m : text[j] = scope[k]
    BY <1>1 DEF ToSet
  <2>3. QED
    BY <2>1, <2>2 DEF Names, Reserved
<1>3. "hinweis" \in Pieces
  BY DEF Pieces, Reserved
<1>4. scope \in Seq(Pieces)
  BY DEF Names
<1>5. /\ tail \in Seq(Pieces) /\ Len(tail) = n + 1 /\ tail[1] = "hinweis"
      /\ \A k \in 1..n : tail[k + 1] = scope[k]
  BY <1>1, <1>3, <1>4
<1> HIDE DEF tail
<1>6. body = text \o tail
  BY DEF tail, Warned
<1>7. /\ body \in Seq(Pieces) /\ Len(body) = m + (n + 1) /\ DOMAIN body = 1..(m + (n + 1))
      /\ \A i \in 1..m : body[i] = text[i]
      /\ \A i \in 1..(n + 1) : body[m + i] = tail[i]
  <2> DEFINE both == text \o tail
  <2>t. text \in Seq(Pieces) /\ tail \in Seq(Pieces)
    BY <1>1, <1>5
  <2>a. /\ both \in Seq(Pieces) /\ Len(both) = Len(text) + Len(tail)
        /\ DOMAIN both = 1..(Len(text) + Len(tail))
    BY <2>t, BothHold
  <2>b. \A i \in 1..Len(text) : both[i] = text[i]
    BY SMTT(40), <2>t
  <2>c. \A i \in 1..Len(tail) : both[Len(text) + i] = tail[i]
    BY SMTT(40), <2>t
  <2>1. /\ both \in Seq(Pieces) /\ Len(both) = m + Len(tail) /\ DOMAIN both = 1..(m + Len(tail))
        /\ \A i \in 1..m : both[i] = text[i]
        /\ \A i \in 1..Len(tail) : both[m + i] = tail[i]
    BY <2>a, <2>b, <2>c, Zenon
  <2> HIDE DEF both, m, n
  <2>2. body = both
    BY <1>6 DEF both
  <2>3. QED
    BY <1>5, <2>1, <2>2
<1> HIDE DEF m, n
<1>8. body[m + 1] = "hinweis" /\ m + 1 \in DOMAIN body
  BY <1>1, <1>5, <1>7
<1>9. \A i \in DOMAIN body : \/ i \in 1..m /\ body[i] = text[i]
                             \/ i = m + 1
                             \/ \E k \in 1..n : i = m + 1 + k /\ body[i] = scope[k]
  <2> TAKE i \in DOMAIN body
  <2>1. CASE i > m + 1
    <3>a. i \in 1..(m + (n + 1)) /\ m \in Nat /\ n \in Nat
      BY <1>1, <1>7
    <3>1. PICK k \in 1..n : i = m + 1 + k /\ k + 1 \in 1..(n + 1) /\ i = m + (k + 1)
      BY <2>1, <3>a, PlacesBehind, Zenon
    <3>2. body[i] = scope[k]
      BY <1>5, <1>7, <3>1
    <3>3. QED
      BY <3>1, <3>2
  <2>2. CASE ~ (i > m + 1)
    BY <1>1, <1>7, <2>2
  <2>3. QED
    BY <2>1, <2>2
<1>10. at("hinweis") = {m + 1}
  <2>1. \A i \in DOMAIN body : body[i] = "hinweis" => i = m + 1
    BY <1>1, <1>2, <1>9
  <2>2. QED
    BY <1>8, <2>1
<1>11. Min(at("hinweis")) = m + 1
  <2>1. {m + 1} \subseteq Nat /\ {m + 1} # {}
    BY <1>1
  <2>2. Min({m + 1}) \in {m + 1}
    BY <2>1, MinIsLeast
  <2>3. QED
    BY <1>10, <2>2
<1>12. \A j \in DOMAIN body : body[j] = "amtsermittlung" => j \in 1..m /\ text[j] = "amtsermittlung"
  BY <1>2, <1>8, <1>9
<1>13. ASSUME NEW i \in DOMAIN body, i > m + 1
       PROVE  /\ \E k \in 1..n : body[i] = scope[k]
              /\ ~ \E j \in DOMAIN body :
                     /\ j + 2 <= Len(body) /\ body[j] = "bitte"
                     /\ body[j + 1] = body[i] /\ body[j + 2] = "amtsermittlung"
              /\ Min(at(body[i])) < i
  <2>1. i \in Nat /\ i \notin 1..m /\ i # m + 1
    BY <1>1, <1>7, <1>13
  <2>2. PICK k \in 1..n : body[i] = scope[k]
    BY <1>9, <2>1
  <2>3. ASSUME NEW j \in DOMAIN body, j + 2 <= Len(body),
               body[j + 1] = body[i], body[j + 2] = "amtsermittlung"
        PROVE  FALSE
    <3>1. j \in Nat /\ j + 2 \in DOMAIN body
      BY <1>1, <1>7, <2>3
    <3>2. j + 2 \in 1..m /\ text[j + 2] = "amtsermittlung"
      BY <1>12, <2>3, <3>1
    <3>3. j + 1 \in 1..m /\ (j + 2) - 1 = j + 1
      BY <1>1, <3>1, <3>2
    <3>4. text[j + 1] \in soft
      BY <1>1, <3>2, <3>3
    <3>5. body[j + 1] = text[j + 1]
      BY <1>7, <3>3
    <3>6. QED
      BY <1>2, <2>2, <2>3, <3>4, <3>5
  <2>4. Min(at(body[i])) < i
    <3>1. PICK j \in 1..m : text[j] = scope[k]
      BY <1>2
    <3>2. j \in at(body[i]) /\ j < i
      BY <1>1, <1>7, <1>13, <2>1, <2>2, <3>1
    <3>3. at(body[i]) \subseteq Nat /\ at(body[i]) # {}
      BY <1>7, <3>2
    <3>4. Min(at(body[i])) \in Nat /\ Min(at(body[i])) <= j
      <4> HIDE DEF at
      <4>1. QED BY <3>2, <3>3, MinIsLeast
    <3>5. QED
      <4> DEFINE least == Min(at(body[i]))
      <4>1. least \in Nat /\ least <= j /\ j \in Nat /\ j < i /\ i \in Nat
        BY <1>1, <2>1, <3>2, <3>4
      <4> HIDE DEF least
      <4>2. least < i
        BY <4>1
      <4>3. QED
        BY <4>2 DEF least
  <2>5. QED
    BY <2>2, <2>3, <2>4
<1>14. QED
  <2>1. at("hinweis") # {}
    BY <1>10
  <2>2. QED
    BY <1>11, <1>13, <2>1 DEF n

(* The texts a letter is written from.                                       *)
HeadTexts(drafting, record) ==
  LET slots == AddresseeSlots(record, drafting)
  IN  [i \in DOMAIN drafting.head |->
         IF drafting.head[i] \in DOMAIN slots THEN <<slots[drafting.head[i]]>> ELSE << >>]
AskedTexts(request) == [i \in DOMAIN request.gaps |-> SoftenedText(request.gaps[i])]
StatedTexts(request, drafting) ==
  LET order == OrderedFacts(request.facts, drafting.declared)
  IN  [i \in DOMAIN order |-> <<order[i]>> \o request.facts[order[i]]]

(* What is sealed in a record is named by placeholders there are.            *)
EachHasAPlaceholder(record) ==
  \A e \in ToSet(record) : \E p \in DOMAIN Syntax :
    Syntax[p] = [token |-> e.token, kind |-> e.kind]

LEMMA SlotsArePlaceholders ==
  ASSUME NEW record, EachHasAPlaceholder(record), NEW drafting
  PROVE  \A s \in DOMAIN AddresseeSlots(record, drafting) :
           AddresseeSlots(record, drafting)[s] \in DOMAIN Syntax
<1> DEFINE slot(s) == CHOOSE e \in ToSet(record) : e.path = drafting.addressee[s]
           filled == {s \in DOMAIN drafting.addressee :
                        \E e \in ToSet(record) : e.path = drafting.addressee[s]}
           named(s) == CHOOSE p \in DOMAIN Syntax :
                         Syntax[p] = [token |-> slot(s).token, kind |-> slot(s).kind]
<1>1. AddresseeSlots(record, drafting) = [s \in filled |-> named(s)]
  BY DEF AddresseeSlots
<1>2. \A s \in filled : slot(s) \in ToSet(record)
  OBVIOUS
<1>3. \A s \in filled : \E p \in DOMAIN Syntax :
        Syntax[p] = [token |-> slot(s).token, kind |-> slot(s).kind]
  <2> HIDE DEF filled, slot
  <2>1. QED
    BY <1>2 DEF EachHasAPlaceholder
<1> HIDE DEF filled, slot
<1>4. \A s \in filled : named(s) \in DOMAIN Syntax
  BY <1>3
<1> HIDE DEF named
<1>5. QED
  BY <1>1, <1>4

LEMMA HeadsAreTexts ==
  ASSUME NEW record, EachHasAPlaceholder(record), NEW drafting,
         NEW n \in Nat, DOMAIN drafting.head = 1..n
  PROVE  HeadTexts(drafting, record) \in Seq(Seq(LetterCharacters))
<1> DEFINE slots == AddresseeSlots(record, drafting)
           head == HeadTexts(drafting, record)
           A == Seq(LetterCharacters)
<1>1. \A s \in DOMAIN slots : slots[s] \in LetterCharacters
  BY SlotsArePlaceholders, PiecesAre
<1>2. \A c \in LetterCharacters : <<c>> \in A
  OBVIOUS
<1>3. << >> \in A
  OBVIOUS
<1>4. head = [i \in 1..n |-> IF drafting.head[i] \in DOMAIN slots
                             THEN <<slots[drafting.head[i]]>> ELSE << >>]
  BY DEF HeadTexts
<1> HIDE DEF slots, A
<1>5. \A i \in 1..n : (IF drafting.head[i] \in DOMAIN slots
                       THEN <<slots[drafting.head[i]]>> ELSE << >>) \in A
  BY <1>1, <1>2, <1>3
<1>6. head \in [1..n -> A]
  BY <1>4, <1>5
<1> HIDE DEF head
<1>7. head \in Seq(A)
  BY <1>6, FunctionsAreLists
<1>8. QED
  BY <1>7 DEF head, A

(* Facts whose names and values are texts of characters.                     *)
FactsAreTexts(facts, declared) ==
  /\ IsFiniteSet(DOMAIN facts) /\ DOMAIN facts \subseteq LetterCharacters
  /\ \A f \in DOMAIN facts : facts[f] \in Seq(LetterCharacters)
  /\ declared \in Seq(LetterCharacters)

LEMMA StatementsAreTexts ==
  ASSUME NEW request, NEW drafting, FactsAreTexts(request.facts, drafting.declared)
  PROVE  StatedTexts(request, drafting) \in Seq(Seq(LetterCharacters))
<1> DEFINE D == DOMAIN request.facts
           known == Those(drafting.declared, D)
           others == SetToSeq(D \ ToSet(drafting.declared))
           order == OrderedFacts(request.facts, drafting.declared)
           A == Seq(LetterCharacters)
<1>1. /\ IsFiniteSet(D) /\ D \subseteq LetterCharacters /\ drafting.declared \in A
      /\ \A f \in D : request.facts[f] \in A
  BY DEF FactsAreTexts
<1>2. AreKept(known, LetterCharacters, drafting.declared, D)
  BY <1>1, ThoseAreKept
<1>3. known \in Seq(LetterCharacters) /\ \A k \in 1..Len(known) : known[k] \in D
  BY <1>2 DEF AreKept
<1>4. others \in Seq(D)
  <2>1. IsFiniteSet(D \ ToSet(drafting.declared))
    BY <1>1, FS_Subset
  <2>2. others \in Seq(D \ ToSet(drafting.declared))
    <3> DEFINE rest == D \ ToSet(drafting.declared)
    <3> HIDE DEF rest
    <3>1. IsFiniteSet(rest)
      BY <2>1 DEF rest
    <3>2. SetToSeq(rest) \in Seq(rest)
      BY <3>1, SetsAreListed
    <3>3. QED
      BY <3>2 DEF rest
  <2> HIDE DEF others
  <2>3. QED
    BY <2>2
<1>5. order = known \o others
  BY DEF OrderedFacts
<1> HIDE DEF known, others, D
<1>6. known \in Seq(D)
  BY <1>3
<1>7. order \in Seq(D)
  BY <1>4, <1>5, <1>6
<1> HIDE DEF order
<1> DEFINE n == Len(order)
           stated == StatedTexts(request, drafting)
<1>8. n \in Nat /\ DOMAIN order = 1..n /\ \A i \in 1..n : order[i] \in D
  BY <1>7
<1>9. stated = [i \in 1..n |-> <<order[i]>> \o request.facts[order[i]]]
  BY <1>8 DEF StatedTexts, order
<1>10. \A i \in 1..n : <<order[i]>> \o request.facts[order[i]] \in A
  <2> TAKE i \in 1..n
  <2>1. order[i] \in LetterCharacters /\ request.facts[order[i]] \in A
    BY <1>1, <1>8
  <2>2. QED
    BY <2>1, OneMoreBefore
<1> HIDE DEF n, A
<1>11. stated \in [1..n -> A]
  BY <1>9, <1>10
<1> HIDE DEF stated
<1>12. stated \in Seq(A)
  BY <1>8, <1>11, FunctionsAreLists
<1>13. QED
  BY <1>12 DEF stated, A

(* What is asked for, each sentence with the note its requirement asks for.  *)
SoftOf(gaps, drafting, procedure) == {g \in ToSet(gaps) : g \in Softened(drafting, procedure)}

LEMMA SentencesAreTexts ==
  ASSUME NEW gaps \in Seq(Names), NEW drafting, NEW procedure, NEW request,
         request.gaps = GapSentences(gaps, drafting, procedure)
  PROVE  LET asked == AskedTexts(request)
             soft == SoftOf(gaps, drafting, procedure)
         IN  /\ soft \subseteq Names
             /\ asked \in Seq(Seq(Pieces)) /\ Len(asked) = Len(gaps)
             /\ \A i \in 1..Len(gaps) : asked[i] \in NotedTexts(soft) /\ gaps[i] \in ToSet(asked[i])
<1> DEFINE asked == AskedTexts(request)
           soft == SoftOf(gaps, drafting, procedure)
           sentences == GapSentences(gaps, drafting, procedure)
           n == Len(gaps)
           A == Seq(Pieces)
<1>1. n \in Nat /\ DOMAIN gaps = 1..n /\ \A i \in 1..n : gaps[i] \in Names
  OBVIOUS
<1>2. soft \subseteq Names
  BY <1>1 DEF SoftOf, ToSet
<1>3. \A i \in 1..n : gaps[i] \in soft <=> gaps[i] \in Softened(drafting, procedure)
  BY <1>1 DEF SoftOf, ToSet
<1> HIDE DEF n, soft
<1>4. /\ DOMAIN sentences = 1..n
      /\ \A i \in 1..n : /\ sentences[i].sentence = <<"bitte", gaps[i]>>
                         /\ sentences[i].softened <=> gaps[i] \in Softened(drafting, procedure)
  BY <1>1 DEF GapSentences
<1> HIDE DEF sentences
<1>5. asked = [i \in 1..n |-> SoftenedText(sentences[i])]
  BY <1>4 DEF AskedTexts, sentences
<1>6. ASSUME NEW i \in 1..n
      PROVE  /\ SoftenedText(sentences[i]) \in NotedTexts(soft)
             /\ gaps[i] \in ToSet(SoftenedText(sentences[i]))
  <2> DEFINE plain == <<"bitte", gaps[i]>>
  <2>1. /\ plain \in NotedTexts(soft) /\ gaps[i] \in ToSet(plain)
        /\ gaps[i] \in soft => plain \o <<"amtsermittlung">> \in NotedTexts(soft)
    BY <1>1, SentencesAreNoted
  <2>2. SoftenedText(sentences[i]) =
          plain \o (IF sentences[i].softened THEN <<"amtsermittlung">> ELSE << >>)
    BY <1>4 DEF SoftenedText
  <2> HIDE DEF plain
  <2>3. plain \in A
    BY <2>1, EmptyIsNoted
  <2>4. CASE sentences[i].softened
    <3>1. SoftenedText(sentences[i]) = plain \o <<"amtsermittlung">> /\ gaps[i] \in soft
      BY <1>3, <1>4, <2>2, <2>4
    <3>2. <<"amtsermittlung">> \in A
      BY OneMoreBefore, EmptyIsNoted DEF Pieces, Reserved
    <3>3. ToSet(plain \o <<"amtsermittlung">>) = ToSet(plain) \cup ToSet(<<"amtsermittlung">>)
      BY <2>3, <3>2, PiecesOfBoth, ZenonT(40)
    <3>4. QED
      BY <2>1, <3>1, <3>3
  <2>5. CASE ~ sentences[i].softened
    <3>1. SoftenedText(sentences[i]) = plain \o << >>
      BY <2>2, <2>5
    <3>2. plain \o << >> = plain
      BY <2>3
    <3>3. QED
      BY <2>1, <3>1, <3>2
  <2>6. QED
    BY <2>4, <2>5
<1>7. \A i \in 1..n : SoftenedText(sentences[i]) \in A
  BY <1>6, EmptyIsNoted
<1> HIDE DEF A
<1>8. asked \in [1..n -> A] /\ \A i \in 1..n : asked[i] = SoftenedText(sentences[i])
  BY <1>5, <1>7
<1> HIDE DEF asked
<1>9. asked \in Seq(A) /\ Len(asked) = n
  BY <1>1, <1>8, FunctionsAreLists
<1>10. \A i \in 1..n : asked[i] \in NotedTexts(soft) /\ gaps[i] \in ToSet(asked[i])
  BY <1>6, <1>8
<1>11. QED
  BY <1>2, <1>9, <1>10 DEF n, soft, asked, A

(* The warning is about requirements asked for without the note.             *)
LEMMA ScopeIs ==
  ASSUME NEW gaps \in Seq(Names), NEW drafting, NEW procedure, NEW request,
         request.gaps = GapSentences(gaps, drafting, procedure), NEW requested
  PROVE  LET scope == RechtsfolgenScope(request, requested)
         IN  /\ scope \in Seq(Names)
             /\ scope # << >> => requested /\ request.kind = NachforderungLetter
             /\ \A k \in 1..Len(scope) : \E i \in 1..Len(gaps) :
                  scope[k] = gaps[i] /\ gaps[i] \notin SoftOf(gaps, drafting, procedure)
<1> DEFINE scope == RechtsfolgenScope(request, requested)
           sentences == GapSentences(gaps, drafting, procedure)
           n == Len(gaps)
           S == ToSet(sentences)
           soft == {g \in S : g.softened}
           hard == S \ soft
           due == Those(sentences, hard)
           m == Len(due)
<1>1. n \in Nat /\ DOMAIN gaps = 1..n /\ \A i \in 1..n : gaps[i] \in Names
  OBVIOUS
<1>2. /\ request.gaps = sentences /\ DOMAIN sentences = 1..n
      /\ sentences = [i \in 1..n |-> sentences[i]]
      /\ \A i \in 1..n : /\ sentences[i].requirement = gaps[i]
                         /\ sentences[i].softened <=> gaps[i] \in Softened(drafting, procedure)
  <2> HIDE DEF n
  <2>1. /\ DOMAIN sentences = 1..n
        /\ \A i \in 1..n : /\ sentences[i].requirement = gaps[i]
                           /\ sentences[i].softened <=> gaps[i] \in Softened(drafting, procedure)
    BY <1>1 DEF GapSentences
  <2>2. sentences = [i \in 1..n |-> sentences[i]]
    BY <1>1 DEF GapSentences
  <2>3. QED
    BY <2>1, <2>2
<1> HIDE DEF n, sentences
<1>3. \A i \in 1..n : sentences[i] \in S
  BY <1>2 DEF ToSet
<1> HIDE DEF S
<1>4. sentences \in [1..n -> S]
  BY <1>2, <1>3
<1>5. sentences \in Seq(S) /\ Len(sentences) = n
  BY <1>1, <1>4, FunctionsAreLists
<1>6. AreKept(due, S, sentences, hard)
  BY <1>5, ThoseAreKept
<1>7. /\ due \in Seq(S)
      /\ \A k \in 1..m : due[k] \in hard
      /\ \A k \in 1..m : \E i \in 1..n : due[k] = sentences[i]
  BY <1>5, <1>6 DEF AreKept
<1>8. scope = IF ~ requested \/ request.kind # NachforderungLetter THEN << >>
              ELSE [i \in DOMAIN due |-> due[i].requirement]
  BY <1>2 DEF RechtsfolgenScope, Without, S
<1>9. CASE ~ requested \/ request.kind # NachforderungLetter
  <2>1. scope = << >>
    BY <1>8, <1>9
  <2> HIDE DEF scope
  <2>2. scope \in Seq(Names) /\ Len(scope) = 0
    BY <2>1
  <2>3. QED
    BY <2>1, <2>2 DEF scope
<1>10. CASE requested /\ request.kind = NachforderungLetter
  <2> HIDE DEF due
  <2>1. m \in Nat /\ DOMAIN due = 1..m
    BY <1>7
  <2>2. scope = [i \in 1..m |-> due[i].requirement]
    BY <1>8, <1>10, <2>1
  <2>3. \A k \in 1..m : \E i \in 1..n :
          due[k].requirement = gaps[i] /\ gaps[i] \notin Softened(drafting, procedure)
    <3> TAKE k \in 1..m
    <3>1. PICK i \in 1..n : due[k] = sentences[i]
      BY <1>7
    <3>2. due[k] \in S /\ ~ due[k].softened
      BY <1>7
    <3>3. QED
      BY <1>2, <3>1, <3>2
  <2> HIDE DEF m, scope
  <2>4. scope \in [1..m -> Names] /\ \A k \in 1..m : scope[k] = due[k].requirement
    BY <1>1, <2>2, <2>3
  <2>5. scope \in Seq(Names) /\ Len(scope) = m
    BY <2>1, <2>4, FunctionsAreLists
  <2>6. \A k \in 1..m : \E i \in 1..n :
          scope[k] = gaps[i] /\ gaps[i] \notin SoftOf(gaps, drafting, procedure)
    BY <2>3, <2>4 DEF SoftOf
  <2>7. QED
    BY <1>10, <2>5, <2>6 DEF scope, n
<1>11. QED
  BY <1>9, <1>10

(* A text that fits its warning: none is given, or it stands behind a text    *)
(* that asks, without the note, for all the warning is about.                *)
WarnsOnlyOf(text, soft, scope) ==
  /\ scope = << >> => text \in NotedTexts(soft)
  /\ scope # << >> =>
       \E t \in NotedTexts(soft) :
         /\ text = Warned(t, scope)
         /\ \A k \in 1..Len(scope) : scope[k] \in ToSet(t) /\ scope[k] \notin soft

LEMMA WarnedIsAText ==
  ASSUME NEW soft, NEW t \in NotedTexts(soft), NEW scope \in Seq(Names)
  PROVE  /\ Warned(t, scope) \in Seq(Pieces)
         /\ t \in Seq(Pieces) /\ RechtsfolgenBody(scope) \in Seq(Pieces)
         /\ <<"hinweis">> \o scope \in Seq(Pieces)
         /\ \A i \in 1..Len(<<"hinweis">> \o scope) : ~ IsPlaceholder((<<"hinweis">> \o scope)[i])
<1> DEFINE tail == <<"hinweis">> \o scope
<1>1. t \in Seq(Pieces)
  BY EmptyIsNoted
<1>2. scope \in Seq(Pieces)
  BY DEF Names
<1>3. "hinweis" \in Pieces
  BY DEF Pieces, Reserved
<1>4. tail \in Seq(Pieces)
  BY <1>2, <1>3, OneMoreBefore
<1>5. RechtsfolgenBody(scope) \in Seq(Pieces)
  BY <1>4, EmptyIsNoted DEF RechtsfolgenBody
<1>6. Warned(t, scope) \in Seq(Pieces)
  <2> HIDE DEF tail
  <2>1. t \o tail \in Seq(Pieces)
    BY <1>1, <1>4
  <2>2. QED
    BY <2>1 DEF Warned, tail
<1>7. \A i \in 1..Len(tail) : tail[i] \in Names \cup Reserved
  <2>1. scope \in Seq(Names \cup Reserved) /\ "hinweis" \in Names \cup Reserved
    BY DEF Reserved
  <2>2. tail \in Seq(Names \cup Reserved)
    BY <2>1, OneMoreBefore
  <2> HIDE DEF tail
  <2>3. QED
    BY <2>2
<1>8. \A i \in 1..Len(tail) : ~ IsPlaceholder(tail[i])
  <2> HIDE DEF tail
  <2>1. QED
    BY <1>7, PiecesAre
<1>9. QED
  BY <1>1, <1>4, <1>5, <1>6, <1>8

(* What the letter is written as.                                            *)
LEMMA WordingWarns ==
  ASSUME NEW gaps \in Seq(Names), NEW drafting, NEW procedure, NEW request,
         request.gaps = GapSentences(gaps, drafting, procedure),
         NEW record, EachHasAPlaceholder(record), NEW n \in Nat, DOMAIN drafting.head = 1..n,
         FactsAreTexts(request.facts, drafting.declared), NEW requested
  PROVE  LET scope == RechtsfolgenScope(request, requested)
             words == Wording(request, drafting, record, scope)
         IN  words \in Seq(Pieces) /\ WarnsOnlyOf(words, SoftOf(gaps, drafting, procedure), scope)
<1> DEFINE scope == RechtsfolgenScope(request, requested)
           soft == SoftOf(gaps, drafting, procedure)
           words == Wording(request, drafting, record, scope)
           head == HeadTexts(drafting, record)
           asked == AskedTexts(request)
           stated == StatedTexts(request, drafting)
           prev == Join(head \o asked, NextLine)
           G == NotedTexts(soft)
           A == Seq(Pieces)
<1>1. /\ scope \in Seq(Names)
      /\ scope # << >> => requested /\ request.kind = NachforderungLetter
      /\ \A k \in 1..Len(scope) : \E i \in 1..Len(gaps) : scope[k] = gaps[i] /\ gaps[i] \notin soft
  BY ScopeIs
<1>2. /\ soft \subseteq Names
      /\ asked \in Seq(Seq(Pieces)) /\ Len(asked) = Len(gaps)
      /\ \A i \in 1..Len(gaps) : asked[i] \in G /\ gaps[i] \in ToSet(asked[i])
  BY SentencesAreTexts
<1>3. head \in Seq(Seq(LetterCharacters)) /\ stated \in Seq(Seq(LetterCharacters))
  BY HeadsAreTexts, StatementsAreTexts
<1>4. words = IF request.kind = NachforderungLetter
              THEN Join(<<prev, RechtsfolgenBody(scope)>>, NextLine)
              ELSE Join(head \o stated, NextLine)
  BY DEF Wording, HeadTexts, AskedTexts, StatedTexts
<1>5. << >> \in G /\ G \subseteq A /\ \A s, t \in G : s \o t \in G
  BY EmptyIsNoted, NotedTogether
<1>6. NextLine \in Pieces /\ NextLine \in LetterCharacters /\ <<NextLine>> \in G
  <2>1. NextLine \in Pieces \ {"hinweis", "amtsermittlung"} /\ NextLine \in LetterCharacters
    BY PiecesAre DEF Reserved
  <2>2. QED
    BY <2>1, OnePieceIsNoted
<1> HIDE DEF scope, soft, words, head, asked, stated
<1>7. CASE request.kind # NachforderungLetter
  <2> DEFINE texts == head \o stated
  <2>1. texts \in Seq(Seq(LetterCharacters))
    <3> DEFINE B == Seq(LetterCharacters)
    <3>1. head \in Seq(B) /\ stated \in Seq(B)
      BY <1>3
    <3> HIDE DEF B
    <3>2. texts \in Seq(B)
      BY <3>1
    <3>3. QED
      BY <3>2 DEF B
  <2> HIDE DEF texts
  <2>2. Join(texts, NextLine) \in Seq(LetterCharacters)
    BY <1>6, <2>1, JoinedIsAText
  <2>3. words \in Seq(LetterCharacters)
    BY <1>4, <1>7, <2>2 DEF texts
  <2>4. words \in G /\ scope = << >>
    BY <1>1, <1>7, <2>3, CharactersAreNoted
  <2>5. QED
    BY <1>5, <2>4 DEF WarnsOnlyOf, scope, soft, words
<1>8. CASE request.kind = NachforderungLetter
  <2> DEFINE texts == head \o asked
             body == RechtsfolgenBody(scope)
  <2>1. head \in Seq(A) /\ \A i \in 1..Len(head) : head[i] \in G
    <3>1. \A i \in 1..Len(head) : head[i] \in Seq(LetterCharacters)
      BY <1>3
    <3>2. \A i \in 1..Len(head) : head[i] \in G
      BY <3>1, CharactersAreNoted
    <3>3. \A i \in 1..Len(head) : head[i] \in A
      BY <1>5, <3>2
    <3> HIDE DEF A, G
    <3>4. head \in Seq(A)
      BY SMTT(40), <1>3, <3>3
    <3>5. QED
      BY <3>2, <3>4
  <2> DEFINE m == Len(head)
             l == Len(asked)
  <2>2. m \in Nat /\ l \in Nat /\ asked \in Seq(A) /\ l = Len(gaps)
    BY <1>2, <2>1
  <2>3. /\ texts \in Seq(A) /\ Len(texts) = m + l
        /\ \A i \in 1..m : texts[i] = head[i]
        /\ \A i \in 1..l : texts[m + i] = asked[i]
    <3> HIDE DEF A
    <3>1. head \in Seq(A) /\ asked \in Seq(A)
      BY <2>1, <2>2
    <3>2. texts \in Seq(A) /\ Len(texts) = Len(head) + Len(asked)
      BY <3>1, BothHold
    <3>3. \A i \in 1..Len(head) : texts[i] = head[i]
      BY SMTT(40), <3>1
    <3>4. \A i \in 1..Len(asked) : texts[Len(head) + i] = asked[i]
      BY SMTT(40), <3>1
    <3>5. QED
      BY <3>2, <3>3, <3>4, Zenon
  <2> HIDE DEF texts, m, l
  <2>4. \A i \in 1..(m + l) : texts[i] \in G
    <3> TAKE i \in 1..(m + l)
    <3>1. CASE i \in 1..m
      BY <2>1, <2>3, <3>1 DEF m
    <3>2. CASE i \notin 1..m
      <4> DEFINE j == i - m
      <4>1. j \in 1..l /\ m + j = i
        BY <2>2, <3>2
      <4> HIDE DEF j
      <4>2. texts[i] = asked[j]
        BY <2>3, <4>1
      <4>3. QED
        BY <1>2, <2>2, <4>1, <4>2
    <3>3. QED
      BY <3>1, <3>2
  <2>5. prev = Join(texts, NextLine)
    BY DEF texts
  <2> HIDE DEF prev
  <2>6. prev \in G
    <3>1. texts \in Seq(Seq(Pieces)) /\ \A i \in 1..Len(texts) : texts[i] \in G
      BY <2>3, <2>4
    <3> HIDE DEF G, A
    <3>2. Join(texts, NextLine) \in G
      BY <1>5, <1>6, <3>1, JoinIsIn DEF A
    <3>3. QED
      BY <2>5, <3>2
  <2>7. \A i \in 1..l : gaps[i] \in ToSet(prev)
    <3> TAKE i \in 1..l
    <3>1. m + i \in 1..Len(texts) /\ texts \in Seq(Seq(Pieces))
      BY <2>2, <2>3
    <3>2. ToSet(texts[m + i]) \subseteq ToSet(prev)
      <4> DEFINE j == m + i
      <4> HIDE DEF j
      <4>1. j \in 1..Len(texts)
        BY <3>1 DEF j
      <4>2. ToSet(texts[j]) \subseteq ToSet(Join(texts, NextLine))
        BY <1>6, <3>1, <4>1, JoinHolds
      <4>3. QED
        BY <2>5, <4>2 DEF j
    <3>3. gaps[i] \in ToSet(texts[m + i])
      BY <1>2, <2>2, <2>3
    <3>4. QED
      BY <3>2, <3>3
  <2>8. prev \in Seq(Pieces) /\ body \in Seq(Pieces) /\ words = Join(<<prev, body>>, NextLine)
    <3>1. prev \in Seq(Pieces)
      BY <1>5, <2>6
    <3>2. body \in Seq(Pieces)
      BY <1>1, <2>6, WarnedIsAText
    <3>3. words = Join(<<prev, body>>, NextLine)
      BY <1>4, <1>8
    <3>4. QED
      BY <3>1, <3>2, <3>3
  <2>9. CASE scope = << >>
    <3>1. body = << >>
      BY <2>9 DEF RechtsfolgenBody
    <3> HIDE DEF body
    <3>p. body = << >> => Join(<<prev, body>>, NextLine) = prev
      <4>1. prev \in Seq(Pieces) /\ body \in Seq(Pieces) /\ NextLine \in Pieces
        BY <1>6, <2>8
      <4> HIDE DEF prev
      <4>2. QED
        BY ZenonT(40), <4>1, TwoJoined
    <3>2. Join(<<prev, body>>, NextLine) = prev
      BY <3>1, <3>p
    <3>3. words \in G
      BY <2>6, <2>8, <3>2
    <3>4. QED
      BY <1>5, <2>9, <3>3 DEF WarnsOnlyOf, scope, soft, words
  <2>10. CASE scope # << >>
    <3> DEFINE t == prev \o <<NextLine>>
    <3>1. body = <<"hinweis">> \o scope
      BY <2>10 DEF RechtsfolgenBody
    <3>2. \A k \in 1..Len(scope) : scope[k] \in ToSet(prev) /\ scope[k] \notin soft
      BY <1>1, <2>2, <2>7
    <3>3. Len(scope) > 0
      BY <1>1, <2>10
    <3>4. prev # << >>
      <4>1. 1 \in 1..Len(scope)
        BY <1>1, <3>3
      <4>2. scope[1] \in ToSet(prev)
        BY <3>2, <4>1
      <4>3. QED
        BY <4>2 DEF ToSet
    <3>5. body # << >>
      <4>1. scope \in Seq(Pieces) /\ "hinweis" \in Pieces
        BY <1>1 DEF Pieces, Reserved, Names
      <4>2. Len(<<"hinweis">> \o scope) = Len(scope) + 1
        BY <4>1
      <4>3. Len(<< >>) = 0 /\ Len(scope) \in Nat
        BY <1>1
      <4>4. QED
        BY <3>1, <4>2, <4>3
    <3> HIDE DEF body
    <3>6. Join(<<prev, body>>, NextLine) = (prev \o <<NextLine>>) \o body
      BY <1>6, <2>8, <3>4, <3>5, TwoJoined
    <3>7. words = Warned(t, scope)
      BY <2>8, <3>1, <3>6, Zenon DEF Warned
    <3>8. t \in G
      BY <1>6, <2>6, NotedTogether
    <3>9. ToSet(prev) \subseteq ToSet(t)
      <4> DEFINE line == <<NextLine>>
      <4>1. line \in Seq(Pieces) /\ prev \in Seq(Pieces)
        BY <1>6, OneMoreBefore, <2>8
      <4> HIDE DEF line
      <4>t. t = prev \o line
        BY DEF line
      <4> HIDE DEF t
      <4>2. ToSet(prev \o line) = ToSet(prev) \cup ToSet(line)
        BY <4>1, PiecesOfBoth
      <4>3. QED
        BY <4>t, <4>2
    <3> HIDE DEF t
    <3>10. words \in Seq(Pieces)
      BY <1>1, <3>7, <3>8, WarnedIsAText
    <3>11. WarnsOnlyOf(words, soft, scope)
      BY <2>10, <3>2, <3>7, <3>8, <3>9 DEF WarnsOnlyOf
    <3>12. QED
      BY <3>10, <3>11 DEF scope, soft, words
  <2>11. QED
    BY <2>9, <2>10
<1>9. QED
  BY <1>7, <1>8

(* Re-hydrated, the text still warns only of that.                           *)
LEMMA WiderCharacters ==
  ASSUME NEW record, IsARecord(record, LetterCharacters)
  PROVE  IsARecord(record, Pieces)
<1>1. \A t \in Seq(LetterCharacters) : t \in Seq(Pieces)
  BY PiecesAre
<1>2. ASSUME NEW value, IsAValue(value, LetterCharacters) PROVE IsAValue(value, Pieces)
  <2>1. \A part : IsAPart(part, LetterCharacters) => IsAPart(part, Pieces)
    BY <1>1 DEF IsAPart
  <2>2. CASE value.form = "text"
    BY <1>1, <1>2, <2>2 DEF IsAValue
  <2>3. CASE value.form = "list"
    BY <1>2, <2>1, <2>3 DEF IsAValue
  <2>4. CASE value.form = "address"
    BY <1>2, <2>1, <2>4 DEF IsAValue
  <2>5. QED
    BY <1>2, <2>2, <2>3, <2>4 DEF IsAValue
<1>3. QED
  BY <1>2 DEF IsARecord

LEMMA PlaceholdersShowTexts ==
  ASSUME NEW S, NEW T, OneBlank \in T, NextLine \in T,
         NEW record, IsARecord(record, S), IsARecord(record, T), NEW words \in Seq(S),
         CanBeShown(words, record), NEW i \in 1..Len(words), IsPlaceholder(words[i])
  PROVE  Shown(record, words[i]) \in Seq(T)
<1>1. PICK e \in EntriesFor(record, words[i]) :
        /\ ValueOf(record, words[i]) = e.value
        /\ IsAValue(e.value, S) /\ RoundTripOk(e.value, FormatValue(e.value))
  BY EachShowsItsEntry
<1>2. IsAValue(e.value, T)
  BY <1>1 DEF EntriesFor, IsARecord
<1>3. FormatValue(e.value) \in Seq(T)
  BY <1>2, DisplayIsAText
<1>4. QED
  BY <1>1, <1>3 DEF Shown

LEMMA RenderedWarns ==
  ASSUME NEW soft, soft \subseteq Names, NEW scope \in Seq(Names),
         NEW record, IsARecord(record, LetterCharacters),
         NEW words \in Seq(Pieces), WarnsOnlyOf(words, soft, scope),
         Rehydrate(words, record) # NoText
  PROVE  WarnsOnlyOf(Rehydrate(words, record), soft, scope)
<1> DEFINE body == Rehydrate(words, record)
           G == NotedTexts(soft)
<1>1. body = FlattenSeq(ShownOf(record, words)) /\ CanBeShown(words, record)
  BY WrittenIs DEF ShownOf
<1>2. \A i \in 1..Len(words) :
        IsPlaceholder(words[i]) => Shown(record, words[i]) \in Seq(LetterCharacters)
  <2>1. /\ IsARecord(record, Pieces) /\ IsARecord(record, LetterCharacters)
        /\ OneBlank \in LetterCharacters /\ NextLine \in LetterCharacters
    BY WiderCharacters, PiecesAre
  <2>2. QED
    BY <1>1, <2>1, PlaceholdersShowTexts
<1> HIDE DEF body
<1>3. CASE scope = << >>
  <2>1. words \in G
    BY <1>3 DEF WarnsOnlyOf
  <2>2. body \in G
    BY <1>1, <1>2, <2>1, ShownIsNoted
  <2>3. QED
    BY <1>3, <2>2 DEF WarnsOnlyOf, body
<1>4. CASE scope # << >>
  <2>1. PICK t \in G : /\ words = Warned(t, scope)
                       /\ \A k \in 1..Len(scope) : scope[k] \in ToSet(t) /\ scope[k] \notin soft
    BY <1>4 DEF WarnsOnlyOf
  <2> DEFINE tail == <<"hinweis">> \o scope
             shown == ShownOf(record, t)
             text == FlattenSeq(shown)
  <2>2. /\ t \in Seq(Pieces) /\ tail \in Seq(Pieces)
        /\ \A i \in 1..Len(tail) : ~ IsPlaceholder(tail[i])
    BY WarnedIsAText
  <2>3. words = t \o tail
    BY <2>1 DEF Warned
  <2> HIDE DEF tail
  <2>4. Len(t) \in Nat /\ \A i \in 1..Len(t) : i \in 1..Len(words) /\ words[i] = t[i]
    BY <2>2, <2>3
  <2>5. \A i \in 1..Len(t) : IsPlaceholder(t[i]) => Shown(record, t[i]) \in Seq(LetterCharacters)
    BY <1>2, <2>4
  <2>6. shown \in Seq(Seq(Pieces)) /\ Len(shown) = Len(t) /\ text \in G
    BY <2>5, ShownIsNoted
  <2>7. ShownOf(record, tail) \in Seq(Seq(Pieces)) /\ FlattenSeq(ShownOf(record, tail)) = tail
    BY <2>2, PlainIsShown
  <2>8. FlattenSeq(ShownOf(record, t \o tail)) = text \o FlattenSeq(ShownOf(record, tail))
    <3>1. t \in Seq(Pieces)
      BY <2>2
    <3>2. tail \in Seq(Pieces)
      BY <2>2
    <3>3. ShownOf(record, t) \in Seq(Seq(Pieces))
      BY <2>6
    <3>4. ShownOf(record, tail) \in Seq(Seq(Pieces))
      BY <2>7
    <3>5. \A u, v \in Seq(Pieces) :
            ShownOf(record, u) \in Seq(Seq(Pieces)) /\ ShownOf(record, v) \in Seq(Seq(Pieces)) =>
              FlattenSeq(ShownOf(record, u \o v)) =
                FlattenSeq(ShownOf(record, u)) \o FlattenSeq(ShownOf(record, v))
      BY ShownTogether
    <3>6. QED
      BY <3>1, <3>2, <3>3, <3>4, <3>5, Zenon
  <2>9. body = Warned(text, scope)
    BY <1>1, <2>3, <2>7, <2>8, Zenon DEF Warned, tail
  <2>10. \A k \in 1..Len(scope) : scope[k] \in ToSet(text) /\ scope[k] \notin soft
    <3> TAKE k \in 1..Len(scope)
    <3>1. scope[k] \in ToSet(t) /\ scope[k] \notin soft
      BY <2>1
    <3>2. PICK j \in 1..Len(t) : t[j] = scope[k]
      BY <2>2, <3>1 DEF ToSet
    <3>3. ~ IsPlaceholder(t[j])
      <4>1. scope[k] \in Names
        OBVIOUS
      <4>2. QED
        BY <3>2, <4>1, PiecesAre
    <3>4. shown[j] = <<t[j]>>
      BY <2>2, <3>3 DEF ShownOf, Shown
    <3>5. ToSet(shown[j]) \subseteq ToSet(text)
      <4> HIDE DEF shown
      <4>1. QED BY <2>6, JoinedHold
    <3>6. t[j] \in ToSet(shown[j])
      BY <3>4 DEF ToSet
    <3>7. QED
      BY <3>1, <3>2, <3>5, <3>6
  <2> HIDE DEF text
  <2>11. QED
    BY <1>4, <2>6, <2>9, <2>10 DEF WarnsOnlyOf, body
<1>5. QED
  BY <1>3, <1>4

(* Without holidays there is always a working day within the week.           *)
LEMMA AWorkingDayIsNear ==
  ASSUME NEW day \in Nat
  PROVE  NextWorkingDay(day, {}) \in Nat /\ NextWorkingDay(day, {}) >= day
<1> DEFINE near == {d \in day .. day + 7 : IsWorkingDay(d, {})}
<1>1. near \subseteq Nat
  OBVIOUS
<1>2. near # {}
  <2>1. CASE day % 7 \notin {5, 6}
    <3>1. day \in near
      BY <2>1 DEF IsWorkingDay
    <3>2. QED
      BY <3>1
  <2>2. CASE day % 7 = 5
    <3>1. (day + 2) % 7 = 0
      BY <2>2
    <3>2. day + 2 \in near
      BY <3>1 DEF IsWorkingDay
    <3>3. QED
      BY <3>2
  <2>3. CASE day % 7 = 6
    <3>1. (day + 1) % 7 = 0
      BY <2>3
    <3>2. day + 1 \in near
      BY <3>1 DEF IsWorkingDay
    <3>3. QED
      BY <3>2
  <2>4. QED
    BY <2>1, <2>2, <2>3
<1>3. NextWorkingDay(day, {}) = Min(near)
  BY <1>2 DEF NextWorkingDay
<1>4. Min(near) \in near
  <2> HIDE DEF near
  <2>1. QED BY <1>1, <1>2, MinIsLeast
<1> DEFINE m == Min(near)
<1>5. m \in day .. day + 7
  BY <1>4
<1> HIDE DEF m
<1>6. m \in Nat /\ m >= day
  BY <1>5
<1>7. QED
  BY <1>3, <1>6 DEF m

(* What is asked about a letter: a record of values that are texts, lists or  *)
(* addresses of any characters, placeholders and openers among them; any      *)
(* gaps, facts and order of the facts, any procedure and any drafting.        *)
ALetterOfTexts ==
  /\ IsARecord(question.record, LetterCharacters) /\ EachHasAPlaceholder(question.record)
  /\ question.gaps \in Seq(Names)
  /\ \E n \in Nat : DOMAIN question.drafting.head = 1..n
  /\ FactsAreTexts(question.facts, question.drafting.declared)
  /\ question.drafting.window \in Nat /\ question.requested \in BOOLEAN

LetterQuestions == Asked("letter out") => ALetterOfTexts

LEMMA ALetterFits ==
  ASSUME ALetterOfTexts, NEW letter, letter # Refused,
         letter = BuildLetter(RequestOf(question), question.drafting, question.record,
                              question.requested)
  PROVE  /\ CarriesItsValues(letter.body,
               Wording(RequestOf(question), question.drafting, question.record,
                       RechtsfolgenScope(RequestOf(question), question.requested)),
               question.record)
         /\ WarningFits(letter, DispatchFacts(letter, question.drafting, question.channel,
                                              0, {}).deadline, question.requested)
<1> DEFINE drafting == question.drafting
           record == question.record
           gaps == question.gaps
           request == RequestOf(question)
           scope == RechtsfolgenScope(request, question.requested)
           soft == SoftOf(gaps, drafting, question.procedure)
           words == Wording(request, drafting, record, scope)
           body == Rehydrate(words, record)
           asks == [i \in DOMAIN request.gaps |-> request.gaps[i].requirement]
           window == IF request.kind = NachforderungLetter THEN drafting.window ELSE 0
           deadline == DispatchFacts(letter, drafting, question.channel, 0, {}).deadline
<1>1. /\ IsARecord(record, LetterCharacters) /\ EachHasAPlaceholder(record) /\ gaps \in Seq(Names)
      /\ \E n \in Nat : DOMAIN drafting.head = 1..n
      /\ FactsAreTexts(question.facts, drafting.declared)
      /\ drafting.window \in Nat
  BY DEF ALetterOfTexts
<1>2. /\ request.gaps = GapSentences(gaps, drafting, question.procedure)
      /\ request.facts = question.facts
  BY DEF RequestOf
<1>3. /\ letter = [kind |-> request.kind, body |-> body, warns |-> scope # << >>,
                   asks |-> asks, window |-> window]
      /\ body # NoText
  BY DEF BuildLetter, Prepared
<1>4. deadline = IF letter.kind = NachforderungLetter /\ letter.window # 0
                 THEN ResponseDeadline(0, letter.window, {})
                 ELSE [told |-> NoDay, due |-> NoDay]
  BY DEF DispatchFacts
<1> HIDE DEF drafting, record, gaps, request, scope, soft, words, body, asks, window, deadline
<1>5. /\ letter.kind = request.kind /\ letter.body = body /\ letter.warns = (scope # << >>)
      /\ letter.asks = asks /\ letter.window = window
  BY <1>3
<1>6. words \in Seq(Pieces) /\ WarnsOnlyOf(words, soft, scope)
  BY <1>1, <1>2, WordingWarns DEF words, scope, soft
<1>7. /\ scope \in Seq(Names)
      /\ scope # << >> => question.requested /\ request.kind = NachforderungLetter
      /\ \A k \in 1..Len(scope) : \E i \in 1..Len(gaps) : scope[k] = gaps[i]
  <2>1. gaps \in Seq(Names)
    BY <1>1
  <2>2. request.gaps = GapSentences(gaps, drafting, question.procedure)
    BY <1>2
  <2>3. /\ scope \in Seq(Names)
        /\ scope # << >> => question.requested /\ request.kind = NachforderungLetter
        /\ \A k \in 1..Len(scope) : \E i \in 1..Len(gaps) :
             scope[k] = gaps[i] /\ gaps[i] \notin SoftOf(gaps, drafting, question.procedure)
    BY <2>1, <2>2, ScopeIs, SMTT(40) DEF scope
  <2>4. QED
    BY <2>3
<1>8. soft \subseteq Names
  <2>1. \A g \in ToSet(gaps) : g \in Names
    BY <1>1 DEF ToSet
  <2>2. QED
    BY <2>1 DEF soft, SoftOf
<1>9. CarriesItsValues(body, words, record)
  <2>1. IsARecord(record, Pieces)
    BY <1>1, WiderCharacters
  <2>2. QED
    BY <1>3, <1>6, <2>1, PiecesAre, ValuesAreCarried DEF body
<1>10. WarnsOnlyOf(body, soft, scope)
  BY <1>1, <1>3, <1>6, <1>7, <1>8, RenderedWarns DEF body
<1>11. WarningFits(letter, deadline, question.requested)
  <2> DEFINE text == letter.body
             at(word) == {i \in DOMAIN text : text[i] = word}
             noted(r) == \E i \in DOMAIN text :
                           /\ i + 2 <= Len(text) /\ text[i] = "bitte"
                           /\ text[i + 1] = r /\ text[i + 2] = "amtsermittlung"
  <2>1. SUFFICES /\ at("hinweis") # {} <=> letter.warns
                 /\ letter.warns =>
                      /\ question.requested /\ letter.kind = NachforderungLetter
                      /\ deadline.due >= deadline.told + letter.window
                      /\ \A i \in DOMAIN text : i > Min(at("hinweis")) =>
                           /\ text[i] \in ToSet(letter.asks) /\ ~ noted(text[i])
                           /\ Min(at(text[i])) < i
    BY DEF WarningFits
  <2>t. WarnsOnlyOf(text, soft, scope) /\ (letter.warns <=> scope # << >>)
    BY <1>5, <1>10
  <2> HIDE DEF text
  <2>2. CASE scope = << >>
    <3>1. text \in NotedTexts(soft)
      BY <2>t, <2>2 DEF WarnsOnlyOf
    <3>2. at("hinweis") = {}
      BY <3>1 DEF NotedTexts, ToSet
    <3>3. QED
      BY <2>t, <2>2, <3>2
  <2>3. CASE scope # << >>
    <3>1. PICK t \in NotedTexts(soft) :
            /\ text = Warned(t, scope)
            /\ \A k \in 1..Len(scope) : scope[k] \in ToSet(t) /\ scope[k] \notin soft
      BY <2>t, <2>3 DEF WarnsOnlyOf
    <3>2. /\ at("hinweis") # {}
          /\ \A i \in DOMAIN text : i > Min(at("hinweis")) =>
               /\ \E k \in 1..Len(scope) : text[i] = scope[k]
               /\ ~ noted(text[i])
               /\ Min(at(text[i])) < i
      BY <1>7, <3>1, WarningStands
    <3>3. \A k \in 1..Len(scope) : scope[k] \in ToSet(asks)
      <4> TAKE k \in 1..Len(scope)
      <4>1. PICK i \in 1..Len(gaps) : scope[k] = gaps[i]
        BY <1>7
      <4>2. DOMAIN gaps = 1..Len(gaps)
        BY <1>1
      <4>3. i \in DOMAIN asks /\ asks[i] = gaps[i]
        BY <1>2, <4>2 DEF asks, GapSentences
      <4>4. QED
        BY <4>1, <4>3 DEF ToSet
    <3>4. deadline.due >= deadline.told + window
      <4>1. window \in Nat
        BY <1>1 DEF window
      <4>2. CASE window = 0
        <5>1. deadline = [told |-> NoDay, due |-> NoDay]
          BY <1>4, <1>5, <4>2
        <5>2. QED
          BY <4>2, <5>1 DEF NoDay
      <4>3. CASE window # 0
        <5> DEFINE told == NextWorkingDay(0 + BekanntgabeDays, {})
        <5>1. told \in Nat
          <6>1. 0 + BekanntgabeDays \in Nat
            BY DEF BekanntgabeDays
          <6>2. QED
            BY <6>1, AWorkingDayIsNear
        <5>2. deadline = ResponseDeadline(0, window, {})
          BY <1>4, <1>5, <1>7, <2>3, <4>3
        <5> HIDE DEF window, told
        <5>3. told # NoDay
          BY <5>1 DEF NoDay
        <5>4. deadline.told = told /\ deadline.due = NextWorkingDay(told + window, {})
          BY <5>2, <5>3 DEF ResponseDeadline, told
        <5>5. told + window \in Nat
          BY <4>1, <5>1
        <5>6. NextWorkingDay(told + window, {}) >= told + window
          BY <5>5, AWorkingDayIsNear
        <5>7. QED
          BY <5>4, <5>6
      <4>4. QED
        BY <4>2, <4>3
    <3> HIDE DEF at, noted
    <3>5. \A i \in DOMAIN text : i > Min(at("hinweis")) => text[i] \in ToSet(letter.asks)
      BY <1>5, <3>2, <3>3
    <3>6. deadline.due >= deadline.told + letter.window /\ letter.kind = NachforderungLetter
      BY <1>5, <1>7, <2>3, <3>4
    <3>7. QED
      BY <1>7, <2>t, <2>3, <3>2, <3>5, <3>6
  <2>4. QED
    BY <2>2, <2>3
<1>12. QED
  BY <1>5, <1>9, <1>11 DEF body, words, scope, request, drafting, record, deadline

LEMMA LettersFit == LetterQuestions => ALetterSaysWhatItMust
  BY ALetterFits, Zenon DEF LetterQuestions, ALetterSaysWhatItMust

-----------------------------------------------------------------------------
(* The rules, asked any number of questions of these forms.                  *)
Questions ==
  /\ DeadlineQuestions /\ ScoreQuestions /\ CompletenessQuestions /\ TableQuestions
  /\ BudgetsAreNumbers /\ ClassifierQuestions /\ PredicateQuestions /\ ExtractionQuestions
  /\ DeskQuestions /\ LatencyQuestions /\ LetterQuestions

AnyQuestion == Questions /\ [][UNCHANGED question]_question

LEMMA QuestionsStay == AnyQuestion => []Questions
<1>1. Questions /\ [UNCHANGED question]_question => Questions'
  <2> SUFFICES ASSUME Questions, [UNCHANGED question]_question PROVE Questions'
    OBVIOUS
  <2>1. question' = question
    OBVIOUS
  <2>2. DeadlineQuestions'
    BY <2>1 DEF Questions, DeadlineQuestions, Asked
  <2>3. ScoreQuestions'
    BY <2>1 DEF Questions, ScoreQuestions, Asked
  <2>4. CompletenessQuestions'
    BY <2>1 DEF Questions, CompletenessQuestions, Asked
  <2>5. TableQuestions'
    BY <2>1 DEF Questions, TableQuestions, Asked
  <2>6. BudgetsAreNumbers'
    BY <2>1 DEF Questions, BudgetsAreNumbers, Asked
  <2>7. ClassifierQuestions'
    BY <2>1 DEF Questions, ClassifierQuestions, Asked
  <2>8. PredicateQuestions'
    BY <2>1 DEF Questions, PredicateQuestions, Asked
  <2>9. ExtractionQuestions'
    BY <2>1 DEF Questions, ExtractionQuestions, Asked
  <2>10. DeskQuestions'
    BY <2>1 DEF Questions, DeskQuestions, Asked
  <2>11. LatencyQuestions'
    BY <2>1 DEF Questions, LatencyQuestions, Asked
  <2>12. LetterQuestions'
    BY <2>1 DEF Questions, LetterQuestions, ALetterOfTexts, Asked
  <2>13. QED
    BY <2>2, <2>3, <2>4, <2>5, <2>6, <2>7, <2>8, <2>9, <2>10, <2>11, <2>12 DEF Questions
<1>2. QED
  BY <1>1, PTL DEF AnyQuestion

(* For any day of posting, any window and any set of holidays: the deadline is *)
(* a working day, leaves the window whole, and a later posting never ends it *)
(* sooner (dispatch.py).                                                     *)
THEOREM DeadlinesLeaveTheWindow == AnyQuestion => []TheWindowIsWhole
<1>1. Questions => TheWindowIsWhole
  BY DeadlinesAreWhole DEF Questions
<1>2. QED
  BY <1>1, QuestionsStay, PTL

(* For any item, reference population and forest: with any values sealed, the *)
(* item is given the number it has unsealed, or none (score/score.py).       *)
THEOREM SealingCostsTheNumber == AnyQuestion => []NoNumberOverAToken
<1>1. Questions => NoNumberOverAToken
  BY TokensCostTheNumber DEF Questions
<1>2. QED
  BY <1>1, QuestionsStay, PTL

(* For any item, reference and forest: a configured scorer leaves one event, *)
(* and a flag in it has its reasons, at most as many as are wanted, each once *)
(* (score/reasons.py).                                                       *)
THEOREM FlagsHaveTheirReasons == AnyQuestion => []AFlagIsExplained
<1>1. Questions => AFlagIsExplained
  BY FlagsAreExplained DEF Questions
<1>2. QED
  BY <1>1, QuestionsStay, PTL

(* For any item and reference, the forest reading the same: farther from the *)
(* middle of the reference is scored as no less unusual (score/model.py).    *)
THEOREM FartherIsScoredHigher == AnyQuestion => []FartherOutIsNoLessUnusual
<1>1. Questions => FartherOutIsNoLessUnusual
  BY FartherIsNoLessUnusual DEF Questions
<1>2. QED
  BY <1>1, QuestionsStay, PTL

(* For any requirements, answers, policy and witness: complete means that every *)
(* cross-field rule holds of what was typed, and no gap and no sentence quotes *)
(* a sealed value (completeness.py).                                         *)
THEOREM CompletenessIsSound == AnyQuestion => []TheVerdictIsSound
<1>1. Questions => TheVerdictIsSound
  BY CompleteMeansCoherent, GapsTellNothingSealed DEF Questions, TheVerdictIsSound
<1>2. QED
  BY <1>1, QuestionsStay, PTL

(* For any decision table the schema accepts, any facts and any scores: more *)
(* anomaly is never a better tier (schemas/config.py, pipeline.py).          *)
THEOREM AnomalyNeverHelps == AnyQuestion => []AnomalyOnlyDowngrades
<1>1. Questions => AnomalyOnlyDowngrades
  BY AnomalyDowngrades DEF Questions
<1>2. QED
  BY <1>1, QuestionsStay, PTL

(* For any configuration the loader accepts and any submission: every lookup of *)
(* a later item has its answer, and nothing it needs is lost behind a seal   *)
(* (config_loader.py).                                                       *)
THEOREM LoadingIsEnough == AnyQuestion => []WhatLoadsCanAnswer
<1>1. Questions => WhatLoadsCanAnswer
  BY LoadedConfigurationsAnswer DEF Questions
<1>2. QED
  BY <1>1, QuestionsStay, PTL

(* For any configuration the loader accepts and any similarities: what the   *)
(* decision hears of the classifier is calibrated, and a closer match is told *)
(* no less surely (classify.py).                                             *)
THEOREM OnlyCalibratedScoresRoute == AnyQuestion => []OnlyACalibratedScoreRoutes
<1>1. Questions => OnlyACalibratedScoreRoutes
  BY ClassifiersRoute DEF Questions
<1>2. QED
  BY <1>1, QuestionsStay, PTL

(* For any predicate of the modelled depth, any payload and any policy: what is *)
(* not known satisfies nothing, and what the loader accepts answers the same on *)
(* the working copy as on the submission (predicate.py).                     *)
THEOREM PredicatesAreBlindAndCautious == AnyQuestion => []PredicatesFailClosed
<1>1. Questions => PredicatesFailClosed
  BY PredicatesAreSafe DEF Questions
<1>2. QED
  BY <1>1, QuestionsStay, PTL

(* For any procedures with predicates of the modelled depth and any content: *)
(* more content may leave the procedure open and never turns it into another *)
(* (derive.py).                                                              *)
THEOREM ProceduresAreNeverSwitched == AnyQuestion => []AWordNeverSwitches
<1>1. Questions => AWordNeverSwitches
  BY ProceduresStand DEF Questions
<1>2. QED
  BY <1>1, QuestionsStay, PTL

(* For any submission, fixture, posture and answers: the value of a record read *)
(* from a text stands at the span it names, unless the text was machine-read *)
(* (verify.py).                                                              *)
THEOREM ValuesStandAtTheirSpans == AnyQuestion => []AValueStandsAtItsSpan
<1>1. Questions => AValueStandsAtItsSpan
  BY ValuesStand DEF Questions
<1>2. QED
  BY <1>1, QuestionsStay, PTL

(* For any map that names each field once, any submission, fixture, posture  *)
(* and answers: each mapped field ends with one record or as one counted loss *)
(* (orchestrate.py).                                                         *)
THEOREM EachLossIsCountedOnce == AnyQuestion /\ []MapsEachFieldOnce => []LossIsCounted
<1>1. Questions /\ MapsEachFieldOnce => LossIsCounted
  BY EveryLossIsCounted DEF Questions
<1>2. QED
  BY <1>1, QuestionsStay, PTL

(* For any journals of any cases and any moment: an open case stands at one   *)
(* place of one queue, a confirmed one at none, and what the overview, the   *)
(* census, the unit metrics and the pool count adds up (review/queues.py,     *)
(* review/metrics.py, journal/corrections.py).                               *)
THEOREM NoCaseIsLost == AnyQuestion => []NoCaseFallsThrough
<1>1. Questions => NoCaseFallsThrough
  BY NoneFallsThrough DEF Questions
<1>2. QED
  BY <1>1, QuestionsStay, PTL

(* For any journals, budgets and moment, and any log of dispatches: a tier is  *)
(* late in the backlog exactly when a queue flags a case of it, the oldest    *)
(* stands first, and a percentile is the least wait that the stated share    *)
(* does not exceed (queues.py, metrics.py, latency.py).                      *)
THEOREM ReportsAgreeOnTime == AnyQuestion => []TheClocksAgree
<1>1. Questions => TheClocksAgree
  BY ClocksAgree DEF Questions
<1>2. QED
  BY <1>1, QuestionsStay, PTL

(* For any record, gaps, facts and drafting, and values that overlap, nest or *)
(* imitate a placeholder: a letter that is written carries the characters of *)
(* every value it names and no other, leaves no placeholder, and warns only  *)
(* of what it asks for and does not call determinable (letters.py,           *)
(* rehydrate.py).                                                            *)
THEOREM LettersSayWhatTheyMust == AnyQuestion => []ALetterSaysWhatItMust
<1>1. Questions => ALetterSaysWhatItMust
  BY LettersFit DEF Questions
<1>2. QED
  BY <1>1, QuestionsStay, PTL
=============================================================================
