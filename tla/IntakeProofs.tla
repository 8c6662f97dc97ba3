---------------------------- MODULE IntakeProofs ----------------------------
(***************************************************************************)
(* Proofs about the privacy boundary, for every set of places, every policy *)
(* and every submission, any number of requests, posts and crashes; and     *)
(* about the text layer that reads what the boundary let through.           *)
(***************************************************************************)
EXTENDS Intake, TextLayer, ListFacts, TLAPS

(* A place holds a value, a token or what is left of one, and which it is    *)
(* can be read from it.                                                      *)
LEMMA Kinds ==
  /\ \A t \in Token : IsToken(t) /\ ~ IsValue(t) /\ ~ IsTorn(t) /\ TokenOf(t) = t
  /\ \A v \in Value : IsValue(v) /\ ~ IsToken(v) /\ ~ IsTorn(v) /\ TokenOf(v) = v
  /\ \A x \in Torn : IsTorn(x) /\ ~ IsToken(x) /\ ~ IsValue(x) /\ TokenOf(x) \in Token
  BY DEF Token, Value, Torn, IsToken, IsValue, IsTorn, TokenOf

LEMMA Apart3 ==
  ASSUME NEW i \in Value \cup Token \cup Torn
  PROVE  /\ i \in Value <=> IsValue(i)
         /\ i \in Token <=> IsToken(i)
         /\ i \in Torn <=> IsTorn(i)
         /\ IsValue(i) \/ IsToken(i) \/ IsTorn(i)
  BY Kinds

-----------------------------------------------------------------------------
(* What is true of a working copy and its entries between two rounds: tokens *)
(* and values are of the post; outside the prose each place holds what was   *)
(* received, or a token whose entry alone holds it.                          *)
OfPost(n, copy) ==
  \A p \in Place :
    /\ IsToken(copy[p]) => copy[p].post = n
    /\ IsValue(copy[p]) => copy[p].at = p /\ copy[p].by = n
    /\ p \notin Prose => ~ IsTorn(copy[p])

EntriesOfPost(n, entries) ==
  \A e \in entries :
    /\ e.token.post = n
    /\ IsValue(e.value) => e.value.by = n
    /\ e.at \notin Prose => /\ IsValue(e.value) /\ e.value.at = e.at
                            /\ e.value.shape # "absent"

Restores(raw, copy, entries) ==
  \A p \in Place \ Prose :
    /\ \A e \in entries : e.token = copy[p] => e.value = raw[p] /\ e.at = p
    /\ (\E e \in entries : e.token = copy[p]) \/ copy[p] = raw[p]

SealedCopy(n, raw, copy, entries) ==
  /\ copy \in Copy /\ entries \subseteq Entry
  /\ OfPost(n, copy) /\ EntriesOfPost(n, entries)
  /\ Restores(raw, copy, entries)

LEMMA RawIsSealedCopy ==
  ASSUME NEW n \in Post, n \in DOMAIN posted, posted \in Seq(Submission)
  PROVE  /\ SealedCopy(n, AsReceived(n), AsReceived(n), {})
         /\ \A p \in Place : ~ IsTorn(AsReceived(n)[p])
<1> DEFINE raw == AsReceived(n)
<1>1. posted[n] \in [Place -> Shape]
  BY IntakeAssumption
<1>2. OwnToken(n) \in Token /\ OwnToken(n).post = n
  BY DEF OwnToken, Token
<1>3. ASSUME NEW p \in Place, posted[n][p] # "foreign"
      PROVE  [at |-> p, by |-> n, shape |-> posted[n][p]] \in Value
  BY <1>1 DEF Value
<1>4. raw \in Copy
  BY <1>2, <1>3 DEF AsReceived, Copy
<1>5. ASSUME NEW p \in Place
      PROVE  /\ IsToken(raw[p]) => raw[p].post = n
             /\ IsValue(raw[p]) => raw[p].at = p /\ raw[p].by = n
             /\ ~ IsTorn(raw[p])
  <2>1. CASE posted[n][p] = "foreign"
    <3>1. raw[p] = OwnToken(n)
      BY <2>1 DEF AsReceived
    <3>2. QED
      BY <1>2, <3>1, Kinds
  <2>2. CASE posted[n][p] # "foreign"
    <3>1. raw[p] = [at |-> p, by |-> n, shape |-> posted[n][p]]
      BY <2>2 DEF AsReceived
    <3>2. raw[p] \in Value
      BY <1>3, <2>2, <3>1
    <3>3. raw[p].at = p /\ raw[p].by = n
      BY <3>1
    <3>4. QED
      BY <3>2, <3>3, Kinds
  <2>3. QED
    BY <2>1, <2>2
<1>6. QED
  BY <1>4, <1>5 DEF SealedCopy, OfPost, EntriesOfPost, Restores

(* What the token source may hand out for the places of S: tokens of the     *)
(* post, no two alike, none issued before and none in the submission.        *)
FreshDraw(n, S, issued, d) ==
  /\ d \in [S -> Token] /\ DOMAIN d = S
  /\ \A p \in S : d[p].post = n /\ d[p] \notin issued \cup Range(AsReceived(n))
  /\ \A p, q \in S : d[p] = d[q] => p = q

LEMMA DrawsAreFresh ==
  ASSUME NEW n \in Post, NEW S \in SUBSET Place, NEW round \in 1 .. 2,
         NEW issued \in SUBSET Token, \A t \in issued : t.post = n,
         NEW d \in Draws(n, S, round, issued)
  PROVE  FreshDraw(n, S, issued, d)
<1>1. OwnToken(n) \in Token /\ OwnToken(n).post = n /\ OwnToken(n).for = "own"
  BY DEF OwnToken, Token
<1> DEFINE Drawn(lucky, t) ==
             [p \in S |-> IF p \in lucky THEN t ELSE [post |-> n, for |-> p, round |-> round]]
           Places == {{}} \cup {{p} : p \in S}
           Lucks == {OwnToken(n)} \cup issued
           All == {Drawn(lucky, t) : lucky \in Places, t \in Lucks}
<1>13. Draws(n, S, round, issued) = {x \in All : \A p \in S : Usable(x[p], n, issued)}
  BY DEF Draws
<1> HIDE DEF All
<1>14. d \in All /\ \A p \in S : Usable(d[p], n, issued)
  BY <1>13
<1>2. PICK lucky \in Places, luck \in Lucks : d = Drawn(lucky, luck)
  <2> HIDE DEF Drawn, Places, Lucks
  <2> QED BY <1>14 DEF All
<1>3. \A p \in S : d[p] \notin issued \cup Range(AsReceived(n))
  BY <1>14 DEF Usable
<1>4. luck \in Token /\ luck.post = n
  BY <1>1
<1>5. \A p \in S : [post |-> n, for |-> p, round |-> round] \in Token /\ p # "own"
  BY IntakeAssumption DEF Token
<1>6. d \in [S -> Token] /\ DOMAIN d = S
  BY <1>2, <1>4, <1>5
<1>7. ASSUME NEW p \in S, p \in lucky PROVE d[p] = OwnToken(n)
  <2>1. d[p] = luck
    BY <1>2, <1>7
  <2>2. QED
    BY <1>3, <2>1
<1>8. ASSUME NEW p \in S, p \notin lucky
      PROVE  d[p].post = n /\ d[p].for = p
  <2>1. d[p] = [post |-> n, for |-> p, round |-> round]
    BY <1>2, <1>8
  <2>2. QED
    BY <2>1
<1>9. \A p \in S : d[p].post = n /\ d[p].for = IF p \in lucky THEN "own" ELSE p
  BY <1>1, <1>7, <1>8
<1>10. \A p, q \in S : p \in lucky /\ q \in lucky => p = q
  BY <1>2
<1>11. \A p, q \in S : d[p] = d[q] => p = q
  BY <1>5, <1>9, <1>10
<1>12. QED
  BY <1>3, <1>6, <1>9, <1>11 DEF FreshDraw

(* A round of sealing at places that hold a value, or in prose anything,     *)
(* some placeholders of prose cut, keeps this.                               *)
LEMMA RoundSeals ==
  ASSUME NEW n \in Post, NEW raw, NEW copy, NEW entries, SealedCopy(n, raw, copy, entries),
         NEW S \in SUBSET Place, NEW B \in SUBSET S, B \subseteq Prose,
         \A p \in S \ Prose : IsValue(copy[p]) /\ copy[p].shape # "absent",
         NEW issued, \A e \in entries : e.token \in issued,
         NEW d \in [S -> Token], \A p, q \in S : d[p] = d[q] => p = q,
         \A p \in S : d[p].post = n /\ d[p] \notin issued \cup Range(raw),
         \A p \in Place : raw[p] \in Range(raw)
  PROVE  SealedCopy(n, raw, Substituted(copy, d, B), entries \cup Sealed(copy, d))
<1> DEFINE new == Substituted(copy, d, B)
           more == Sealed(copy, d)
           Entered(p) == [token |-> d[p], value |-> copy[p], at |-> p]
<1>1. /\ copy \in Copy /\ entries \subseteq Entry /\ OfPost(n, copy)
      /\ EntriesOfPost(n, entries) /\ Restores(raw, copy, entries) /\ DOMAIN d = S
  BY DEF SealedCopy
<1>2. \A p \in Place : copy[p] \in Value \cup Token \cup Torn
  BY <1>1 DEF Copy
<1>3. \A p \in Place : new[p] = IF p \in B THEN [torn |-> d[p]]
                                ELSE IF p \in S THEN d[p] ELSE copy[p]
  BY <1>1 DEF Substituted
<1>4. \A p \in B : [torn |-> d[p]] \in Torn
  BY DEF Torn
<1>5. new \in Copy
  <2>1. ASSUME NEW p \in Place PROVE new[p] \in Value \cup Token \cup Torn
    <3>1. CASE p \in B
      <4>1. new[p] = [torn |-> d[p]]
        BY <1>3, <3>1
      <4>2. QED
        BY <1>4, <3>1, <4>1
    <3>2. CASE p \in S \ B
      <4>1. new[p] = d[p]
        BY <1>3, <3>2
      <4>2. QED
        BY <3>2, <4>1
    <3>3. CASE p \notin S
      <4>1. new[p] = copy[p]
        BY <1>3, <3>3
      <4>2. QED
        BY <1>2, <4>1
    <3>4. QED
      BY <3>1, <3>2, <3>3
  <2>2. QED
    BY <2>1 DEF Substituted, Copy
<1>6. \A p \in S : Entered(p) \in Entry
  BY <1>2 DEF Entry
<1>7. \A e \in more : \E p \in S : e = Entered(p)
  BY <1>1 DEF Sealed
<1>8. \A p \in S : Entered(p) \in more
  BY <1>1 DEF Sealed
<1>9. entries \cup more \subseteq Entry
  BY <1>1, <1>6, <1>7
<1>10. \A p \in S : Entered(p).token = d[p] /\ Entered(p).value = copy[p] /\ Entered(p).at = p
  OBVIOUS
<1> HIDE DEF new, more, Entered
<1>11. OfPost(n, new)
  <2> SUFFICES ASSUME NEW p \in Place
               PROVE  /\ IsToken(new[p]) => new[p].post = n
                      /\ IsValue(new[p]) => new[p].at = p /\ new[p].by = n
                      /\ p \notin Prose => ~ IsTorn(new[p])
    BY DEF OfPost
  <2>1. CASE p \in B
    BY <1>3, <1>4, <2>1, Kinds
  <2>2. CASE p \in S \ B
    BY <1>3, <2>2, Kinds
  <2>3. CASE p \notin S
    BY <1>1, <1>3, <2>3 DEF OfPost
  <2>4. QED
    BY <2>1, <2>2, <2>3
<1>12. EntriesOfPost(n, entries \cup more)
  <2>1. ASSUME NEW e \in more
        PROVE  /\ e.token.post = n
               /\ IsValue(e.value) => e.value.by = n
               /\ e.at \notin Prose => /\ IsValue(e.value) /\ e.value.at = e.at
                                       /\ e.value.shape # "absent"
    <3>1. PICK p \in S : e = Entered(p)
      BY <1>7
    <3>2. e.token = d[p] /\ e.value = copy[p] /\ e.at = p
      BY <1>10, <3>1
    <3>3. IsValue(copy[p]) => copy[p].by = n /\ copy[p].at = p
      BY <1>1 DEF OfPost
    <3>4. QED
      BY <3>2, <3>3
  <2>2. QED
    BY <1>1, <2>1 DEF EntriesOfPost
<1>13. ASSUME NEW p \in S \ Prose PROVE copy[p] = raw[p]
  <2>1. \A e \in entries : IsToken(e.token)
    BY <1>1, Kinds DEF Entry
  <2>2. ~ IsToken(copy[p])
    BY <1>2, Kinds
  <2>3. QED
    BY <1>1, <2>1, <2>2 DEF Restores
<1>14. ASSUME NEW p \in (Place \ S) \ Prose, NEW e \in more PROVE e.token # copy[p]
  <2>1. PICK q \in S : e.token = d[q]
    BY <1>7, <1>10
  <2>2. CASE copy[p] = raw[p]
    BY <2>1, <2>2
  <2>3. CASE \E f \in entries : f.token = copy[p]
    BY <2>1, <2>3
  <2>4. QED
    BY <1>1, <2>2, <2>3 DEF Restores
<1>15. Restores(raw, new, entries \cup more)
  <2>1. ASSUME NEW p \in S \ Prose, NEW e \in entries \cup more, e.token = d[p]
        PROVE  e.value = raw[p] /\ e.at = p
    <3>1. e \in more
      BY <2>1
    <3>2. PICK q \in S : e = Entered(q)
      BY <1>7, <3>1
    <3>3. e.token = d[q] /\ e.value = copy[q] /\ e.at = q
      BY <1>10, <3>2
    <3>4. q = p
      BY <2>1, <3>3
    <3>5. QED
      BY <1>13, <3>3, <3>4
  <2>2. ASSUME NEW p \in S \ Prose PROVE \E e \in entries \cup more : e.token = d[p]
    BY <1>8, <1>10
  <2>3. ASSUME NEW p \in (Place \ S) \ Prose
        PROVE  /\ \A e \in entries \cup more : e.token = copy[p] => e.value = raw[p] /\ e.at = p
               /\ (\E e \in entries \cup more : e.token = copy[p]) \/ copy[p] = raw[p]
    BY <1>1, <1>14 DEF Restores
  <2>4. \A p \in Place \ Prose : new[p] = IF p \in S THEN d[p] ELSE copy[p]
    BY <1>3
  <2>5. QED
    BY <2>1, <2>2, <2>3, <2>4 DEF Restores
<1>16. QED
  BY <1>5, <1>9, <1>11, <1>12, <1>15 DEF SealedCopy, new, more

-----------------------------------------------------------------------------
(* The way back.  A round leads back to the copy it began with where it      *)
(* sealed, and changes nothing of the way back from anywhere else.           *)
LeadsBack(copy, new, entries, all, d) ==
  /\ \A p \in DOMAIN d : Before(new[p], all) = {copy[p]}
  /\ \A p \in Place \ DOMAIN d : new[p] = copy[p]
  /\ \A i : (\A p \in DOMAIN d : TokenOf(i) # d[p]) => Before(i, all) = Before(i, entries)

LEMMA RoundGoesBack ==
  ASSUME NEW copy, NEW entries, NEW S \in SUBSET Place, NEW B \in SUBSET S,
         NEW d \in [S -> Token], \A p, q \in S : d[p] = d[q] => p = q,
         \A p \in S : \A e \in entries : e.token # d[p],
         NEW new, new = Substituted(copy, d, B),
         NEW all, all = entries \cup Sealed(copy, d)
  PROVE  LeadsBack(copy, new, entries, all, d)
<1> DEFINE more == Sealed(copy, d)
           Entered(p) == [token |-> d[p], value |-> copy[p], at |-> p]
<1>1. /\ \A p \in S : Entered(p) \in more
      /\ \A e \in more : \E p \in S : e = Entered(p)
  BY DEF Sealed
<1>2. \A p \in S : Entered(p).token = d[p] /\ Entered(p).value = copy[p]
  OBVIOUS
<1>3. \A p \in Place : new[p] = IF p \in B THEN [torn |-> d[p]]
                                ELSE IF p \in S THEN d[p] ELSE copy[p]
  BY DEF Substituted
<1>8. all = entries \cup more
  OBVIOUS
<1> HIDE DEF more, Entered
<1>4. ASSUME NEW p \in S PROVE TokenOf(new[p]) = d[p]
  <2>1. CASE p \in B
    <3>1. new[p] = [torn |-> d[p]]
      BY <1>3, <2>1
    <3>2. QED
      BY <3>1 DEF TokenOf, IsTorn
  <2>2. CASE p \notin B
    BY <1>3, <2>2, Kinds
  <2>3. QED
    BY <2>1, <2>2
<1>5. ASSUME NEW p \in S PROVE Before(new[p], all) = {copy[p]}
  <2>1. \A e \in all : e.token = d[p] => e.value = copy[p]
    <3> SUFFICES ASSUME NEW e \in all, e.token = d[p] PROVE e.value = copy[p]
      OBVIOUS
    <3>1. e \in more
      BY <1>8
    <3>2. PICK q \in S : e = Entered(q)
      BY <1>1, <3>1
    <3>3. q = p
      BY <1>2, <3>2
    <3>4. QED
      BY <1>2, <3>2, <3>3
  <2>2. \E e \in all : e.token = d[p]
    BY <1>1, <1>2, <1>8
  <2>3. {e.value : e \in {f \in all : f.token = d[p]}} = {copy[p]}
    BY <2>1, <2>2
  <2>4. QED
    BY <1>4, <2>3 DEF Before
<1>6. ASSUME NEW i, \A p \in S : TokenOf(i) # d[p] PROVE Before(i, all) = Before(i, entries)
  <2>1. \A e \in more : e.token # TokenOf(i)
    BY <1>1, <1>2, <1>6
  <2>2. {f \in all : f.token = TokenOf(i)} = {f \in entries : f.token = TokenOf(i)}
    BY <1>8, <2>1
  <2>3. QED
    BY <2>2 DEF Before
<1>7. QED
  BY <1>3, <1>5, <1>6 DEF LeadsBack

GoesBack(raw, copy, entries) == \A p \in Place : Before(copy[p], entries) = {raw[p]}

GoesBackTwice(raw, copy, entries) ==
  \A p \in Place :
    UNION {Before(i, entries) : i \in Before(copy[p], entries)} = {raw[p]}

(* Whatever a copy names was issued, or came with the submission. *)
Names(raw, copy, issued) == \A p \in Place : TokenOf(copy[p]) \in issued \cup Range(raw)

-----------------------------------------------------------------------------
(* What redact_payload returns. *)
DeclaredSealed(copy) ==
  \A p \in Declared : IsToken(copy[p]) \/ copy[p].shape = "absent"

Accepted(n, raw, copy, entries) ==
  /\ SealedCopy(n, raw, copy, entries)
  /\ GoesBackTwice(raw, copy, entries)
  /\ DeclaredSealed(copy)
  /\ Residue(copy) = {}

(* A scan touches prose only, and cuts only placeholders it does not take.   *)
LEMMA ScansStayInProse ==
  ASSUME NEW copy, NEW s \in Scans(copy)
  PROVE  Hit(s) \subseteq Prose /\ s.part \subseteq Hit(s)
<1>1. PICK M \in SUBSET Maybe(copy) :
        s \in {[whole |-> Known(copy) \cup M, part |-> B] :
                 B \in SUBSET {p \in Prose \ M : IsToken(copy[p])}}
  BY DEF Scans
<1>2. PICK B \in SUBSET {p \in Prose \ M : IsToken(copy[p])} :
        s = [whole |-> Known(copy) \cup M, part |-> B]
  BY <1>1
<1>3. s.whole = Known(copy) \cup M /\ s.part = B
  BY <1>2
<1>4. s.whole \subseteq Prose /\ s.part \subseteq Prose
  BY <1>3 DEF Known, Maybe
<1>5. QED
  BY <1>4 DEF Hit

(* What a copy has after its first round. *)
OnceSealed(n, raw, copy, entries, issued) ==
  /\ SealedCopy(n, raw, copy, entries) /\ DeclaredSealed(copy)
  /\ GoesBack(raw, copy, entries) /\ GoesBack(raw, raw, entries)
  /\ Names(raw, copy, issued) /\ Names(raw, raw, issued)
  /\ \A e \in entries : e.token \in issued
  /\ issued \subseteq Token /\ \A t \in issued : t.post = n

LEMMA FirstRound ==
  ASSUME NEW n \in Post, n \in DOMAIN posted, posted \in Seq(Submission),
         NEW raw, raw = AsReceived(n), NEW s \in Scans(raw),
         NEW d \in Draws(n, SealedPlaces(raw) \cup Hit(s), 1, {})
  PROVE  OnceSealed(n, raw, Substituted(raw, d, s.part), Sealed(raw, d), Range(d))
<1> DEFINE S == SealedPlaces(raw) \cup Hit(s)
           B == s.part
           once == Substituted(raw, d, B)
           entries == Sealed(raw, d)
<1>1. SealedCopy(n, raw, raw, {}) /\ \A p \in Place : ~ IsTorn(raw[p])
  BY RawIsSealedCopy
<1>2. /\ S \in SUBSET Place /\ B \in SUBSET S /\ B \subseteq Prose
      /\ \A p \in S \ Prose : IsValue(raw[p]) /\ raw[p].shape # "absent"
  BY ScansStayInProse DEF SealedPlaces, Place
<1>3. /\ d \in [S -> Token] /\ DOMAIN d = S
      /\ \A p \in S : d[p].post = n /\ d[p] \notin Range(raw)
      /\ \A p, q \in S : d[p] = d[q] => p = q
  <2>1. {} \in SUBSET Token /\ (\A t \in {} : t.post = n) /\ 1 \in 1 .. 2
    OBVIOUS
  <2> HIDE DEF S
  <2>2. d \in Draws(n, S, 1, {})
    BY DEF S
  <2>3. FreshDraw(n, S, {}, d)
    BY <1>2, <2>1, <2>2, DrawsAreFresh
  <2>4. QED
    BY <2>3 DEF FreshDraw
<1>4. \A p \in Place : raw[p] \in Range(raw) /\ TokenOf(raw[p]) = raw[p]
  <2>1. \A p \in Place : raw[p] \in Range(raw)
    BY DEF Range, AsReceived
  <2>2. \A p \in Place : TokenOf(raw[p]) = raw[p]
    BY <1>1 DEF TokenOf
  <2>3. QED
    BY <2>1, <2>2
<1> HIDE DEF S, B
<1>5. SealedCopy(n, raw, once, entries)
  <2>1. SealedCopy(n, raw, once, {} \cup entries)
    BY <1>1, <1>2, <1>3, <1>4, RoundSeals
  <2>2. {} \cup entries = entries
    OBVIOUS
  <2> HIDE DEF once, entries
  <2>3. QED
    BY <2>1, <2>2
<1>6. /\ \A p \in S : Before(once[p], entries) = {raw[p]}
      /\ \A p \in Place \ S : once[p] = raw[p]
      /\ \A i : (\A p \in S : TokenOf(i) # d[p]) => Before(i, entries) = Before(i, {})
  <2>1. entries = {} \cup Sealed(raw, d) /\ once = Substituted(raw, d, B)
    OBVIOUS
  <2>2. \A p \in S : \A e \in {} : e.token # d[p]
    OBVIOUS
  <2> HIDE DEF once, entries
  <2>3. LeadsBack(raw, once, {}, entries, d)
    BY <1>2, <1>3, <2>1, <2>2, RoundGoesBack
  <2>4. QED
    BY <1>3, <2>3 DEF LeadsBack
<1>7. \A i : Before(i, {}) = {i}
  BY DEF Before
<1>8. \A p \in Place : Before(raw[p], entries) = {raw[p]}
  <2> SUFFICES ASSUME NEW p \in Place PROVE Before(raw[p], entries) = {raw[p]}
    OBVIOUS
  <2>1. \A q \in S : TokenOf(raw[p]) # d[q]
    BY <1>3, <1>4
  <2> HIDE DEF once, entries
  <2>2. QED
    BY <1>6, <1>7, <2>1
<1>9. GoesBack(raw, once, entries) /\ GoesBack(raw, raw, entries)
  <2> HIDE DEF once, entries
  <2> QED BY <1>6, <1>8 DEF GoesBack
<1>10. /\ Names(raw, once, Range(d)) /\ Names(raw, raw, Range(d))
  <2>1. ASSUME NEW p \in S PROVE TokenOf(once[p]) = d[p]
    <3>1. CASE p \in B
      <4>1. once[p] = [torn |-> d[p]]
        BY <1>2, <3>1 DEF Substituted
      <4>2. QED
        BY <4>1 DEF TokenOf, IsTorn
    <3>2. CASE p \notin B
      <4>1. once[p] = d[p]
        BY <1>2, <1>3, <3>2 DEF Substituted
      <4>2. QED
        BY <1>3, <4>1, Kinds
    <3>3. QED
      BY <3>1, <3>2
  <2>2. \A p \in S : d[p] \in Range(d)
    BY <1>3 DEF Range
  <2> HIDE DEF once
  <2>3. QED
    BY <1>4, <1>6, <2>1, <2>2 DEF Names
<1>11. DeclaredSealed(once)
  <2> SUFFICES ASSUME NEW p \in Declared
               PROVE  IsToken(once[p]) \/ once[p].shape = "absent"
    BY DEF DeclaredSealed
  <2>1. p \in Place /\ p \notin Prose
    BY IntakeAssumption DEF Place
  <2>2. CASE p \in S
    <3>1. once[p] = d[p]
      BY <1>2, <1>3, <2>1, <2>2 DEF Substituted
    <3>2. QED
      BY <1>3, <2>2, <3>1, Kinds
  <2>3. CASE p \notin S
    <3>1. raw[p] \in Value \cup Token \cup Torn
      BY <1>1, <2>1 DEF SealedCopy, Copy
    <3>2. IsValue(raw[p]) \/ IsToken(raw[p])
      BY <1>1, <2>1, <3>1, Apart3
    <3>3. IsValue(raw[p]) => raw[p].shape = "absent"
      BY <2>3 DEF S, SealedPlaces
    <3> HIDE DEF once
    <3>4. QED
      BY <1>6, <2>1, <2>3, <3>2, <3>3
  <2>4. QED
    BY <2>2, <2>3
<1>12. \A e \in entries : e.token \in Range(d)
  BY DEF Sealed, Range
<1>13. Range(d) \subseteq Token /\ \A t \in Range(d) : t.post = n
  BY <1>3 DEF Range
<1>14. QED
  BY <1>5, <1>9, <1>10, <1>11, <1>12, <1>13 DEF OnceSealed, B

(* One round is enough when it leaves no residue. *)
LEMMA OneRoundIsAccepted ==
  ASSUME NEW n, NEW raw, NEW copy, NEW entries, NEW issued,
         OnceSealed(n, raw, copy, entries, issued), Residue(copy) = {}
  PROVE  Accepted(n, raw, copy, entries)
<1>1. GoesBackTwice(raw, copy, entries)
  <2> SUFFICES ASSUME NEW p \in Place
               PROVE  UNION {Before(i, entries) : i \in Before(copy[p], entries)} = {raw[p]}
    BY DEF GoesBackTwice
  <2>1. Before(copy[p], entries) = {raw[p]} /\ Before(raw[p], entries) = {raw[p]}
    BY DEF OnceSealed, GoesBack
  <2>2. QED
    BY <2>1
<1>2. QED
  BY <1>1 DEF OnceSealed, Accepted

LEMMA RescansStayInProse ==
  ASSUME NEW copy, NEW s \in Rescans(copy)
  PROVE  Hit(s) \subseteq Prose /\ s.part \subseteq Hit(s)
<1>1. CASE s = [whole |-> {}, part |-> {}]
  BY <1>1 DEF Hit
<1>2. CASE s \in Scans(copy)
  BY <1>2, ScansStayInProse
<1>3. QED
  BY <1>1, <1>2 DEF Rescans

(* The second round may take a placeholder of the first for a name: then it  *)
(* is two steps back to what was received.                                   *)
LEMMA SecondRound ==
  ASSUME NEW n \in Post, NEW raw, raw = AsReceived(n), NEW once, NEW entries, NEW issued,
         OnceSealed(n, raw, once, entries, issued),
         NEW s \in Rescans(once), NEW e \in Draws(n, AutoSealed(once) \cup Hit(s), 2, issued),
         Residue(Substituted(once, e, s.part)) = {}
  PROVE  Accepted(n, raw, Substituted(once, e, s.part), entries \cup Sealed(once, e))
<1> DEFINE S == AutoSealed(once) \cup Hit(s)
           B == s.part
           new == Substituted(once, e, B)
           all == entries \cup Sealed(once, e)
<1>1. /\ SealedCopy(n, raw, once, entries) /\ DeclaredSealed(once)
      /\ GoesBack(raw, once, entries) /\ GoesBack(raw, raw, entries)
      /\ Names(raw, once, issued) /\ Names(raw, raw, issued)
      /\ \A x \in entries : x.token \in issued
      /\ issued \in SUBSET Token /\ \A t \in issued : t.post = n
  BY DEF OnceSealed
<1>2. \A p \in Open : p \in Place /\ p \notin Prose /\ p \notin Declared
  BY IntakeAssumption DEF Place
<1>3. AutoSealed(once) \subseteq Open
  BY DEF AutoSealed
<1>4. Hit(s) \subseteq Prose /\ B \subseteq Hit(s)
  BY RescansStayInProse
<1>5. S \in SUBSET Place /\ B \in SUBSET S /\ B \subseteq Prose
  BY <1>2, <1>3, <1>4 DEF Place
<1>6. \A p \in S \ Prose : IsValue(once[p]) /\ once[p].shape # "absent"
  <2> SUFFICES ASSUME NEW p \in AutoSealed(once)
               PROVE  IsValue(once[p]) /\ once[p].shape # "absent"
    BY <1>4
  <2>1. p \in Place /\ p \notin Prose /\ p \in Residue(once)
    BY <1>2, <1>3 DEF AutoSealed
  <2>2. ~ IsTorn(once[p])
    BY <1>1, <2>1 DEF SealedCopy, OfPost
  <2>3. QED
    BY <2>1, <2>2 DEF Residue, IsSeam
<1>7. /\ e \in [S -> Token] /\ DOMAIN e = S
      /\ \A p \in S : e[p].post = n /\ e[p] \notin issued \cup Range(raw)
      /\ \A p, q \in S : e[p] = e[q] => p = q
  <2>1. e \in Draws(n, S, 2, issued) /\ 2 \in 1 .. 2
    OBVIOUS
  <2> HIDE DEF S
  <2>2. FreshDraw(n, S, issued, e)
    BY <1>1, <1>5, <2>1, DrawsAreFresh
  <2>3. QED
    BY <2>2 DEF FreshDraw
<1>8. \A p \in Place : raw[p] \in Range(raw)
  BY DEF Range, AsReceived
<1> HIDE DEF S, B
<1>9. SealedCopy(n, raw, new, all)
  BY <1>1, <1>5, <1>6, <1>7, <1>8, RoundSeals
<1>10. /\ \A p \in S : Before(new[p], all) = {once[p]}
       /\ \A p \in Place \ S : new[p] = once[p]
       /\ \A i : (\A p \in S : TokenOf(i) # e[p]) => Before(i, all) = Before(i, entries)
  <2>1. \A p \in S : \A x \in entries : x.token # e[p]
    BY <1>1, <1>7
  <2>2. all = entries \cup Sealed(once, e) /\ new = Substituted(once, e, B)
    OBVIOUS
  <2> HIDE DEF new, all
  <2>3. LeadsBack(once, new, entries, all, e)
    BY <1>5, <1>7, <2>1, <2>2, RoundGoesBack
  <2>4. QED
    BY <1>7, <2>3 DEF LeadsBack
<1> HIDE DEF new, all
<1>11. ASSUME NEW p \in Place
       PROVE  Before(once[p], all) = {raw[p]} /\ Before(raw[p], all) = {raw[p]}
  <2>1. TokenOf(once[p]) \in issued \cup Range(raw) /\ TokenOf(raw[p]) \in issued \cup Range(raw)
    BY <1>1 DEF Names
  <2>2. /\ \A q \in S : TokenOf(once[p]) # e[q]
        /\ \A q \in S : TokenOf(raw[p]) # e[q]
    BY <1>7, <2>1
  <2>3. Before(once[p], entries) = {raw[p]} /\ Before(raw[p], entries) = {raw[p]}
    BY <1>1 DEF GoesBack
  <2>4. QED
    BY <1>10, <2>2, <2>3
<1>12. GoesBackTwice(raw, new, all)
  <2> SUFFICES ASSUME NEW p \in Place
               PROVE  UNION {Before(i, all) : i \in Before(new[p], all)} = {raw[p]}
    BY DEF GoesBackTwice
  <2>1. CASE p \in S
    <3>1. Before(new[p], all) = {once[p]}
      BY <1>10, <2>1
    <3>2. QED
      BY <1>11, <3>1
  <2>2. CASE p \notin S
    <3>1. Before(new[p], all) = {raw[p]}
      BY <1>10, <1>11, <2>2
    <3>2. QED
      BY <1>11, <3>1
  <2>3. QED
    BY <2>1, <2>2
<1>13. DeclaredSealed(new)
  <2> SUFFICES ASSUME NEW p \in Declared PROVE new[p] = once[p]
    BY <1>1 DEF DeclaredSealed
  <2>1. p \in Place /\ p \notin S
    BY <1>2, <1>3, <1>4, IntakeAssumption DEF Place, S
  <2>2. QED
    BY <1>10, <2>1
<1>14. QED
  BY <1>9, <1>12, <1>13 DEF Accepted, new, all, B

(* redact_payload refuses, or returns what the rest of the request relies    *)
(* on.                                                                       *)
Goes(w, copy, entries) ==
  /\ refused' = refused
  /\ job' = [job EXCEPT ![w] =
       [step |-> "vault", post |-> job[w].post, copy |-> copy,
        entries |-> entries, witness |-> WitnessOf(entries)]]

Refuses(w) ==
  /\ refused' = refused \cup {job[w].post}
  /\ job' = [job EXCEPT ![w] = Resting]

LEMMA RedactOutcome ==
  ASSUME NEW w \in Request, Redact(w), posted \in Seq(Submission),
         job[w].post \in Post, job[w].post \in DOMAIN posted
  PROVE  \/ Refuses(w)
         \/ \E copy, entries :
              Goes(w, copy, entries)
              /\ Accepted(job[w].post, AsReceived(job[w].post), copy, entries)
<1> DEFINE n == job[w].post
           raw == AsReceived(n)
<1>1. ASSUME NEW copy, NEW entries, Conclude(w, copy, entries)
      PROVE  Refuses(w) \/ (Goes(w, copy, entries) /\ Residue(copy) = {})
  BY <1>1 DEF Conclude, Accept, Rest, Refuses, Goes
<1> DEFINE Ends(d, once) ==
             \/ Residue(once) = {} /\ Conclude(w, once, Sealed(raw, d))
             \/ /\ Residue(once) # {}
                /\ \E again \in Rescans(once) :
                   \E e \in Draws(n, AutoSealed(once) \cup Hit(again), 2, Range(d)) :
                     Conclude(w, Substituted(once, e, again.part), Sealed(raw, d) \cup Sealed(once, e))
<1>7. PICK first \in Scans(raw) :
        \E d \in Draws(n, SealedPlaces(raw) \cup Hit(first), 1, {}) :
          Ends(d, Substituted(raw, d, first.part))
  BY DEF Redact
<1>2. PICK d \in Draws(n, SealedPlaces(raw) \cup Hit(first), 1, {}) :
        Ends(d, Substituted(raw, d, first.part))
  BY <1>7
<1> DEFINE once == Substituted(raw, d, first.part)
<1>3. OnceSealed(n, raw, once, Sealed(raw, d), Range(d))
  BY FirstRound
<1>4. CASE Residue(once) = {} /\ Conclude(w, once, Sealed(raw, d))
  <2>1. Accepted(n, raw, once, Sealed(raw, d))
    BY <1>3, <1>4, OneRoundIsAccepted
  <2>2. QED
    BY <1>1, <1>4, <2>1
<1>5. ASSUME NEW again \in Rescans(once),
             NEW e \in Draws(n, AutoSealed(once) \cup Hit(again), 2, Range(d)),
             Conclude(w, Substituted(once, e, again.part), Sealed(raw, d) \cup Sealed(once, e))
      PROVE  \/ Refuses(w)
             \/ \E copy, entries : Goes(w, copy, entries) /\ Accepted(n, raw, copy, entries)
  <2> DEFINE copy == Substituted(once, e, again.part)
             entries == Sealed(raw, d) \cup Sealed(once, e)
  <2>1. Refuses(w) \/ (Goes(w, copy, entries) /\ Residue(copy) = {})
    BY <1>1, <1>5
  <2>2. ASSUME Residue(copy) = {} PROVE Accepted(n, raw, copy, entries)
    BY <1>3, <2>2, SecondRound
  <2> HIDE DEF copy, entries
  <2>3. QED
    BY <2>1, <2>2
<1>6. QED
  BY <1>2, <1>4, <1>5

-----------------------------------------------------------------------------
(* What the vault holds of a post: values of this post only, and every       *)
(* declared value it has.                                                    *)
Kept(n, sent, raw, entries) ==
  /\ entries \subseteq Entry /\ EntriesOfPost(n, entries)
  /\ \A p \in Declared : sent[p] \notin {"absent", "foreign"} =>
       \E e \in entries : e.value = raw[p]

LEMMA AcceptedIsKept ==
  ASSUME NEW n \in Post, NEW copy, NEW entries, Accepted(n, AsReceived(n), copy, entries)
  PROVE  Kept(n, posted[n], AsReceived(n), entries)
<1> DEFINE raw == AsReceived(n)
<1>1. ASSUME NEW p \in Declared, posted[n][p] \notin {"absent", "foreign"}
      PROVE  \E e \in entries : e.value = raw[p]
  <2>1. p \in Place \ Prose
    BY IntakeAssumption DEF Place
  <2>2. raw[p] = [at |-> p, by |-> n, shape |-> posted[n][p]]
    BY <1>1, <2>1 DEF AsReceived
  <2>3. ~ IsToken(raw[p]) /\ raw[p].shape # "absent"
    BY <1>1, <2>2 DEF IsToken
  <2>4. copy[p] # raw[p]
    BY <2>3 DEF Accepted, DeclaredSealed
  <2>5. QED
    BY <2>1, <2>4 DEF Accepted, SealedCopy, Restores
<1>2. QED
  BY <1>1 DEF Kept, Accepted, SealedCopy

(* A mapped path validates as the value that was sent. *)
LEMMA AcceptedValidates ==
  ASSUME NEW n \in Post, NEW raw, NEW copy, NEW entries, Accepted(n, raw, copy, entries),
         NEW p \in Required,
         IsToken(raw[p]) => raw[p] \in Token,
         ~ IsToken(raw[p]) => raw[p] \in Value /\ raw[p].at = p
  PROVE  Resolved(copy[p], WitnessOf(entries))
           = IF IsToken(raw[p]) THEN {} ELSE {v \in {raw[p]} : v.shape # "absent"}
<1> DEFINE witness == WitnessOf(entries)
<1>1. p \in Place \ Prose
  BY IntakeAssumption DEF Place
<1>2. /\ copy[p] \in Value \cup Token \cup Torn /\ entries \subseteq Entry
      /\ EntriesOfPost(n, entries)
      /\ \A e \in entries : e.token = copy[p] => e.value = raw[p] /\ e.at = p
      /\ (\E e \in entries : e.token = copy[p]) \/ copy[p] = raw[p]
  BY <1>1 DEF Accepted, SealedCopy, Copy, Restores
<1>3. \A e \in entries : IsToken(e.token)
  BY <1>2, Kinds DEF Entry
<1>4. CASE \E e \in entries : e.token = copy[p]
  <2>1. PICK e \in entries : e.token = copy[p]
    BY <1>4
  <2>2. IsToken(copy[p]) /\ e.value = raw[p] /\ e.at = p
    BY <1>2, <1>3, <2>1
  <2>3. IsValue(raw[p]) /\ raw[p].shape # "absent"
    BY <1>1, <1>2, <2>2 DEF EntriesOfPost
  <2>4. ~ IsToken(raw[p])
    BY <2>3, Kinds
  <2>5. e.at \notin Declared \ Witnessed
    BY <2>2, IntakeAssumption
  <2>6. e \in witness /\ witness \subseteq entries
    BY <2>5 DEF WitnessOf
  <2>7. {f.value : f \in {g \in witness : g.token = copy[p]}} = {raw[p]}
    BY <1>2, <2>1, <2>2, <2>6
  <2>8. QED
    BY <2>2, <2>3, <2>4, <2>7 DEF Resolved
<1>5. CASE copy[p] = raw[p] /\ ~ \E e \in entries : e.token = copy[p]
  <2>1. {f.value : f \in {g \in witness : g.token = copy[p]}} = {}
    BY <1>5 DEF WitnessOf
  <2>2. QED
    BY <1>5, <2>1 DEF Resolved
<1>6. QED
  BY <1>2, <1>4, <1>5

-----------------------------------------------------------------------------
(* The inductive invariant, stated over a state's parts so that what holds   *)
(* of the ones before a step can be carried to the ones after it.            *)
JobType == {Resting} \cup Redacting \cup Carrying

Raw(ps, n) ==
  [p \in Place |-> IF ps[n][p] = "foreign" THEN OwnToken(n)
                   ELSE [at |-> p, by |-> n, shape |-> ps[n][p]]]

HasReceived(events) == \E i \in DOMAIN events : events[i].type = "received"

(* A post under way is in the vault only when the request put it there, and  *)
(* what the request carries is what the boundary accepted.                   *)
JobOK(ps, vlt, events, ref, v) ==
  v # Resting =>
    /\ v.post \in 1 .. Len(ps)
    /\ v.step = "redact" => v.post \notin DOMAIN vlt \cup ref
    /\ v.step = "vault" => v.post \notin ref
    /\ v.step \in {"receive", "decide", "draft"} => v.post \in DOMAIN vlt
    /\ v.step \in {"decide", "draft"} => HasReceived(events)
    /\ v.step # "redact" =>
         /\ Accepted(v.post, Raw(ps, v.post), v.copy, v.entries)
         /\ v.witness = WitnessOf(v.entries)

StoresOK(ps, vlt, events, ref) ==
  /\ \A n \in DOMAIN vlt : n \in 1 .. Len(ps) /\ Kept(n, ps[n], Raw(ps, n), vlt[n])
  /\ \A i \in DOMAIN events : events[i].type = "received" => events[i].post \in DOMAIN vlt
  /\ ref \subseteq 1 .. Len(ps) /\ ref \cap DOMAIN vlt = {}

(* No two requests work on the same post. *)
Apart(jobs) ==
  \A u, w \in Request :
    jobs[u] # Resting /\ jobs[w] # Resting /\ jobs[u].post = jobs[w].post => u = w

IntakeInv ==
  /\ TypeOK
  /\ \A w \in Request : JobOK(posted, vault, journal, refused, job[w])
  /\ Apart(job)
  /\ StoresOK(posted, vault, journal, refused)
  /\ IdentityIsOfOneRecord

LEMMA InitInv == Init => IntakeInv
<1> SUFFICES ASSUME Init PROVE IntakeInv
  OBVIOUS
<1>1. /\ posted = << >> /\ vault = << >> /\ journal = << >>
      /\ letters = {} /\ refused = {} /\ crashes = 0 /\ job = [w \in Request |-> Resting]
  BY DEF Init
<1>2. posted \in Seq(Submission) /\ Len(posted) <= MaxPosts
      /\ journal \in Seq(Received \cup TierDecided)
  BY <1>1, IntakeAssumption
<1>3. DOMAIN vault = {} /\ DOMAIN journal = {}
  BY <1>1
<1>4. job \in [Request -> {Resting} \cup Redacting \cup Carrying]
  BY <1>1
<1>5. TypeOK
  BY <1>1, <1>2, <1>3, <1>4, IntakeAssumption DEF TypeOK
<1>6. /\ \A w \in Request : JobOK(posted, vault, journal, refused, job[w])
      /\ Apart(job)
  BY <1>1 DEF JobOK, Apart
<1>7. StoresOK(posted, vault, journal, refused)
  BY <1>1, <1>3 DEF StoresOK
<1>8. IdentityIsOfOneRecord
  BY <1>1 DEF IdentityIsOfOneRecord
<1>9. QED
  BY <1>5, <1>6, <1>7, <1>8 DEF IntakeInv

(* Posts are only added, so that what was received stays what it is. *)
Longer(s, t) == Len(s) <= Len(t) /\ \A n \in 1 .. Len(s) : t[n] = s[n]

LEMMA RawStays ==
  ASSUME NEW s, NEW t, Longer(s, t), NEW n \in 1 .. Len(s)
  PROVE  Raw(t, n) = Raw(s, n)
  BY DEF Longer, Raw

LEMMA JobStays ==
  ASSUME NEW s, NEW t, Longer(s, t), Len(s) \in Nat, Len(t) \in Nat,
         NEW v1, NEW v2, NEW e1, NEW e2, NEW r1, NEW r2, NEW k,
         DOMAIN v1 \subseteq DOMAIN v2, DOMAIN v2 \subseteq DOMAIN v1 \cup {k},
         r2 \subseteq r1 \cup {k}, HasReceived(e1) => HasReceived(e2),
         NEW j, j # Resting => j.post # k, JobOK(s, v1, e1, r1, j)
  PROVE  JobOK(t, v2, e2, r2, j)
<1> SUFFICES ASSUME j # Resting
             PROVE  /\ j.post \in 1 .. Len(t)
                    /\ j.step = "redact" => j.post \notin DOMAIN v2 \cup r2
                    /\ j.step = "vault" => j.post \notin r2
                    /\ j.step \in {"receive", "decide", "draft"} => j.post \in DOMAIN v2
                    /\ j.step \in {"decide", "draft"} => HasReceived(e2)
                    /\ j.step # "redact" =>
                         /\ Accepted(j.post, Raw(t, j.post), j.copy, j.entries)
                         /\ j.witness = WitnessOf(j.entries)
  BY DEF JobOK
<1>1. j.post \in 1 .. Len(s) /\ j.post # k
  BY DEF JobOK
<1>2. j.post \in 1 .. Len(t) /\ Raw(t, j.post) = Raw(s, j.post)
  BY <1>1, RawStays DEF Longer
<1>3. QED
  BY <1>1, <1>2 DEF JobOK

(* A step of one request.  Its post k is nobody else's; whatever it does to  *)
(* the vault and to the refusals it does to k.                               *)
LEMMA OneRequest ==
  ASSUME IntakeInv, NEW w \in Request, NEW v \in JobType, NEW k,
         v # Resting => v.post = k,
         \A u \in Request \ {w} : job[u] # Resting => job[u].post # k,
         job' = [job EXCEPT ![w] = v],
         Longer(posted, posted'), Len(posted') \in Nat,
         DOMAIN vault \subseteq DOMAIN vault', DOMAIN vault' \subseteq DOMAIN vault \cup {k},
         refused' \subseteq refused \cup {k}, HasReceived(journal) => HasReceived(journal'),
         JobOK(posted', vault', journal', refused', v)
  PROVE  /\ job' \in [Request -> JobType]
         /\ \A u \in Request : JobOK(posted', vault', journal', refused', job'[u])
         /\ Apart(job')
<1>1. job \in [Request -> JobType] /\ Len(posted) \in Nat
  BY DEF IntakeInv, TypeOK, JobType
<1>2. \A u \in Request : job'[u] = IF u = w THEN v ELSE job[u]
  BY <1>1
<1>3. ASSUME NEW u \in Request \ {w} PROVE JobOK(posted', vault', journal', refused', job[u])
  <2>1. JobOK(posted, vault, journal, refused, job[u])
    BY DEF IntakeInv
  <2>2. QED
    BY <1>1, <2>1, JobStays
<1>4. Apart(job')
  BY <1>2 DEF IntakeInv, Apart
<1>5. QED
  BY <1>1, <1>2, <1>3, <1>4

(* A request that is at work has its post to itself. *)
LEMMA OwnPost ==
  ASSUME IntakeInv, NEW w \in Request, job[w] # Resting
  PROVE  /\ \A u \in Request \ {w} : job[u] # Resting => job[u].post # job[w].post
         /\ JobOK(posted, vault, journal, refused, job[w])
         /\ posted \in Seq(Submission) /\ DOMAIN posted = 1 .. Len(posted)
         /\ job[w].post \in Post /\ job[w].post \in DOMAIN posted
         /\ job[w] \in Redacting \/ job[w] \in Carrying
<1>1. posted \in Seq(Submission) /\ Len(posted) <= MaxPosts
      /\ job[w] \in Redacting \cup Carrying
  BY DEF IntakeInv, TypeOK
<1>2. DOMAIN posted = 1 .. Len(posted) /\ Len(posted) \in Nat
  BY <1>1
<1>3. JobOK(posted, vault, journal, refused, job[w]) /\ job[w].post \in 1 .. Len(posted)
  BY DEF IntakeInv, JobOK
<1>4. job[w].post \in Post
  BY <1>1, <1>2, <1>3, IntakeAssumption DEF Post
<1>5. \A u \in Request \ {w} : job[u] # Resting => job[u].post # job[w].post
  BY DEF IntakeInv, Apart
<1>6. QED
  BY <1>1, <1>2, <1>3, <1>4, <1>5

LEMMA Together ==
  ASSUME posted' \in Seq(Submission), Len(posted') <= MaxPosts,
         \A n \in DOMAIN vault' : n \in Post /\ vault'[n] \subseteq Entry,
         journal' \in Seq(Received \cup TierDecided),
         letters' \subseteq Letter, job' \in [Request -> JobType],
         refused' \subseteq Post, crashes' \in 0 .. MaxCrashes,
         \A u \in Request : JobOK(posted', vault', journal', refused', job'[u]),
         Apart(job'), StoresOK(posted', vault', journal', refused'),
         IdentityIsOfOneRecord'
  PROVE  IntakeInv'
<1>1. TypeOK'
  BY DEF TypeOK, JobType
<1>2. QED
  BY <1>1 DEF IntakeInv

LEMMA Types ==
  ASSUME IntakeInv
  PROVE  /\ posted \in Seq(Submission) /\ Len(posted) <= MaxPosts /\ Len(posted) \in Nat
         /\ \A n \in DOMAIN vault : n \in Post /\ vault[n] \subseteq Entry
         /\ journal \in Seq(Received \cup TierDecided)
         /\ letters \subseteq Letter /\ job \in [Request -> JobType]
         /\ refused \subseteq Post /\ crashes \in 0 .. MaxCrashes
         /\ Longer(posted, posted)
         /\ StoresOK(posted, vault, journal, refused)
         /\ IdentityIsOfOneRecord
  BY DEF IntakeInv, TypeOK, JobType, Longer

LEMMA RawIsReceived == \A n : AsReceived(n) = Raw(posted, n)
  BY DEF AsReceived, Raw

LEMMA AppendJournal ==
  ASSUME IntakeInv, NEW e \in Received \cup TierDecided, journal' = Append(journal, e)
  PROVE  /\ journal' \in Seq(Received \cup TierDecided)
         /\ \A i \in DOMAIN journal' :
              (i \in DOMAIN journal /\ journal'[i] = journal[i]) \/ journal'[i] = e
         /\ HasReceived(journal) \/ e.type = "received" => HasReceived(journal')
<1>1. journal \in Seq(Received \cup TierDecided)
  BY DEF IntakeInv, TypeOK
<1>2. /\ journal' \in Seq(Received \cup TierDecided) /\ DOMAIN journal = 1 .. Len(journal)
      /\ DOMAIN journal' = 1 .. (Len(journal) + 1)
      /\ \A i \in 1 .. Len(journal) : journal'[i] = journal[i]
      /\ journal'[Len(journal) + 1] = e
  BY <1>1, AppendedElements
<1>3. HasReceived(journal) => HasReceived(journal')
  BY <1>2 DEF HasReceived
<1>4. e.type = "received" => HasReceived(journal')
  <2>1. Len(journal) + 1 \in DOMAIN journal'
    BY <1>1, <1>2
  <2>2. QED
    BY <1>2, <2>1 DEF HasReceived
<1>5. QED
  BY <1>2, <1>3, <1>4

-----------------------------------------------------------------------------
(* Each action of a request, in turn. *)
LEMMA SubmitStep ==
  ASSUME IntakeInv, NEW w \in Request, Submit(w)
  PROVE  IntakeInv'
<1> DEFINE k == Len(posted) + 1
           v == [step |-> "redact", post |-> k]
<1>1. /\ job[w] = Resting /\ Len(posted) < MaxPosts /\ job' = [job EXCEPT ![w] = v]
      /\ UNCHANGED <<vault, journal, letters, refused, crashes>>
  BY DEF Submit
<1>2. PICK s \in Submission : posted' = Append(posted, s)
  BY DEF Submit
<1>3. posted \in Seq(Submission) /\ Len(posted) \in Nat
  BY Types
<1>4. /\ posted' \in Seq(Submission) /\ Len(posted') = k /\ Longer(posted, posted')
  BY <1>2, <1>3, AppendedElements DEF Longer
<1>5. k \in Post /\ Len(posted') <= MaxPosts
  BY <1>1, <1>3, <1>4, IntakeAssumption DEF Post
<1>6. k \notin DOMAIN vault \cup refused
  BY <1>3, Types DEF StoresOK
<1>7. \A u \in Request \ {w} : job[u] # Resting => job[u].post # k
  <2> SUFFICES ASSUME NEW u \in Request, job[u] # Resting PROVE job[u].post # k
    OBVIOUS
  <2>1. job[u].post \in 1 .. Len(posted)
    BY DEF IntakeInv, JobOK
  <2>2. QED
    BY <1>3, <2>1
<1>8. v \in JobType
  BY <1>5 DEF JobType, Redacting
<1>9. JobOK(posted', vault', journal', refused', v)
  BY <1>1, <1>3, <1>4, <1>6 DEF JobOK
<1>10. StoresOK(posted', vault', journal', refused')
  <2>1. \A n \in DOMAIN vault :
          n \in 1 .. Len(posted) /\ posted'[n] = posted[n] /\ Raw(posted', n) = Raw(posted, n)
    BY <1>4, Types, RawStays DEF StoresOK, Longer
  <2>2. 1 .. Len(posted) \subseteq 1 .. Len(posted')
    BY <1>3, <1>4
  <2>3. QED
    BY <1>1, <2>1, <2>2, Types DEF StoresOK
<1>11. IdentityIsOfOneRecord'
  BY <1>1 DEF IntakeInv, IdentityIsOfOneRecord
<1> HIDE DEF v
<1>12. /\ job' \in [Request -> JobType] /\ Apart(job')
       /\ \A u \in Request : JobOK(posted', vault', journal', refused', job'[u])
  <2>1. v # Resting => v.post = k
    BY DEF v
  <2>2. Len(posted') \in Nat
    BY <1>3, <1>4
  <2>3. QED
    BY <1>1, <1>4, <1>7, <1>8, <1>9, <2>1, <2>2, OneRequest
<1>13. QED
  BY <1>1, <1>4, <1>5, <1>10, <1>11, <1>12, Types, Together

LEMMA RefuseStep ==
  ASSUME IntakeInv, NEW w \in Request, job[w].step = "redact", Refuses(w),
         UNCHANGED <<posted, vault, journal, letters, crashes>>
  PROVE  IntakeInv'
<1> DEFINE k == job[w].post
<1>1. job[w] # Resting
  BY DEF Resting
<1>2. /\ k \in Post /\ k \in 1 .. Len(posted) /\ k \notin DOMAIN vault
      /\ \A u \in Request \ {w} : job[u] # Resting => job[u].post # k
  BY <1>1, OwnPost DEF JobOK
<1>3. refused' = refused \cup {k} /\ job' = [job EXCEPT ![w] = Resting]
  BY DEF Refuses
<1>4. Resting \in JobType /\ JobOK(posted', vault', journal', refused', Resting)
  BY DEF JobType, JobOK
<1>5. StoresOK(posted', vault', journal', refused')
  BY <1>2, <1>3, Types DEF StoresOK
<1>6. IdentityIsOfOneRecord'
  BY DEF IntakeInv, IdentityIsOfOneRecord
<1>7. /\ job' \in [Request -> JobType] /\ Apart(job')
      /\ \A u \in Request : JobOK(posted', vault', journal', refused', job'[u])
  BY <1>2, <1>3, <1>4, Types, OneRequest
<1>8. QED
  BY <1>2, <1>3, <1>5, <1>6, <1>7, Types, Together

LEMMA GoStep ==
  ASSUME IntakeInv, NEW w \in Request, job[w].step = "redact",
         NEW copy, NEW entries, Goes(w, copy, entries),
         Accepted(job[w].post, AsReceived(job[w].post), copy, entries),
         UNCHANGED <<posted, vault, journal, letters, crashes>>
  PROVE  IntakeInv'
<1> DEFINE k == job[w].post
           v == [step |-> "vault", post |-> k, copy |-> copy,
                 entries |-> entries, witness |-> WitnessOf(entries)]
<1>1. job[w] # Resting
  BY DEF Resting
<1>2. /\ k \in Post /\ k \in 1 .. Len(posted) /\ k \notin refused
      /\ \A u \in Request \ {w} : job[u] # Resting => job[u].post # k
  BY <1>1, OwnPost DEF JobOK
<1>3. refused' = refused /\ job' = [job EXCEPT ![w] = v]
  BY DEF Goes
<1>4. v \in JobType
  <2>1. copy \in Copy /\ entries \in SUBSET Entry /\ WitnessOf(entries) \in SUBSET Entry
    BY DEF Accepted, SealedCopy, WitnessOf
  <2>2. QED
    BY <1>2, <2>1 DEF JobType, Carrying
<1>5. JobOK(posted', vault', journal', refused', v)
  BY <1>2, <1>3, RawIsReceived DEF JobOK
<1>6. StoresOK(posted', vault', journal', refused') /\ IdentityIsOfOneRecord'
  BY <1>3 DEF IntakeInv, IdentityIsOfOneRecord
<1>7. v # Resting => v.post = k
  OBVIOUS
<1> HIDE DEF v
<1>8. /\ job' \in [Request -> JobType] /\ Apart(job')
      /\ \A u \in Request : JobOK(posted', vault', journal', refused', job'[u])
  BY <1>2, <1>3, <1>4, <1>5, <1>7, Types, OneRequest
<1>9. QED
  BY <1>3, <1>6, <1>8, Types, Together

LEMMA RedactStep ==
  ASSUME IntakeInv, NEW w \in Request, Redact(w)
  PROVE  IntakeInv'
<1>1. job[w].step = "redact" /\ UNCHANGED <<posted, vault, journal, letters, crashes>>
  BY DEF Redact
<1>2. job[w] # Resting
  BY <1>1 DEF Resting
<1>3. posted \in Seq(Submission) /\ job[w].post \in Post /\ job[w].post \in DOMAIN posted
  BY <1>2, OwnPost
<1>4. \/ Refuses(w)
      \/ \E copy, entries :
           Goes(w, copy, entries)
           /\ Accepted(job[w].post, AsReceived(job[w].post), copy, entries)
  BY <1>3, RedactOutcome
<1>5. QED
  BY <1>1, <1>4, RefuseStep, GoStep

(* A request that carries an accepted copy keeps it and goes on to its next  *)
(* step.                                                                     *)
LEMMA Advance ==
  ASSUME IntakeInv, NEW w \in Request, job[w] # Resting, job[w].step # "redact",
         NEW next \in {"vault", "receive", "decide", "draft"}
  PROVE  LET v == [job[w] EXCEPT !.step = next] IN
         /\ v \in JobType /\ v.step = next /\ v.post = job[w].post
         /\ v.copy = job[w].copy /\ v.entries = job[w].entries /\ v.witness = job[w].witness
<1>1. job[w] \in Carrying
  BY OwnPost DEF Redacting
<1>2. QED
  BY <1>1 DEF Carrying, JobType

LEMMA SealVaultStep ==
  ASSUME IntakeInv, NEW w \in Request, SealVault(w)
  PROVE  IntakeInv'
<1> DEFINE k == job[w].post
           v == [job[w] EXCEPT !.step = "receive"]
<1>1. /\ job[w].step = "vault" /\ job' = [job EXCEPT ![w] = v]
      /\ vault' = [n \in DOMAIN vault \cup {k} |->
                     IF n = k THEN job[w].entries ELSE vault[n]]
      /\ UNCHANGED <<posted, journal, letters, refused, crashes>>
  BY DEF SealVault
<1>2. job[w] # Resting /\ job[w].step # "redact"
  BY <1>1 DEF Resting
<1>3. /\ k \in Post /\ k \in 1 .. Len(posted) /\ k \notin refused
      /\ \A u \in Request \ {w} : job[u] # Resting => job[u].post # k
      /\ Accepted(k, Raw(posted, k), job[w].copy, job[w].entries)
      /\ job[w].witness = WitnessOf(job[w].entries)
  BY <1>1, <1>2, OwnPost DEF JobOK
<1>4. /\ v \in JobType /\ v.step = "receive" /\ v.post = k
      /\ v.copy = job[w].copy /\ v.entries = job[w].entries /\ v.witness = job[w].witness
  BY <1>2, Advance
<1>5. Kept(k, posted[k], Raw(posted, k), job[w].entries)
  BY <1>3, AcceptedIsKept, RawIsReceived
<1>6. /\ DOMAIN vault' = DOMAIN vault \cup {k} /\ vault'[k] = job[w].entries
      /\ \A n \in DOMAIN vault \ {k} : vault'[n] = vault[n]
  BY <1>1
<1>7. StoresOK(posted', vault', journal', refused')
  <2>1. \A n \in DOMAIN vault' :
          n \in 1 .. Len(posted) /\ Kept(n, posted[n], Raw(posted, n), vault'[n])
    BY <1>3, <1>5, <1>6, Types DEF StoresOK
  <2>2. \A i \in DOMAIN journal : journal[i].type = "received" => journal[i].post \in DOMAIN vault'
    BY <1>6, Types DEF StoresOK
  <2>3. refused \subseteq 1 .. Len(posted) /\ refused \cap DOMAIN vault' = {}
    BY <1>3, <1>6, Types DEF StoresOK
  <2>4. posted' = posted /\ journal' = journal /\ refused' = refused
    BY <1>1
  <2>5. StoresOK(posted, vault', journal, refused)
    BY <2>1, <2>2, <2>3 DEF StoresOK
  <2>6. QED
    BY <2>4, <2>5
<1>8. IdentityIsOfOneRecord'
  BY <1>1 DEF IntakeInv, IdentityIsOfOneRecord
<1>9. \A n \in DOMAIN vault' : n \in Post /\ vault'[n] \subseteq Entry
  BY <1>3, <1>5, <1>6, Types DEF Kept
<1> HIDE DEF v
<1>10. JobOK(posted', vault', journal', refused', v)
  BY <1>1, <1>3, <1>4, <1>6 DEF JobOK
<1>11. /\ job' \in [Request -> JobType] /\ Apart(job')
       /\ \A u \in Request : JobOK(posted', vault', journal', refused', job'[u])
  <2>1. /\ Longer(posted, posted') /\ Len(posted') \in Nat
        /\ journal' = journal /\ refused' = refused
    BY <1>1, Types
  <2>2. DOMAIN vault \subseteq DOMAIN vault' /\ DOMAIN vault' \subseteq DOMAIN vault \cup {k}
    BY <1>6
  <2>3. refused' \subseteq refused \cup {k}
    BY <2>1
  <2>4. v # Resting => v.post = k
    BY <1>4
  <2>5. v \in JobType /\ (HasReceived(journal) => HasReceived(journal'))
    BY <1>4, <2>1
  <2> HIDE DEF k
  <2>6. QED
    BY <1>1, <1>3, <2>5, <1>10, <2>1, <2>2, <2>3, <2>4, OneRequest
<1>12. QED
  BY <1>1, <1>7, <1>8, <1>9, <1>11, Types, Together

(* The two appends of a request. *)
LEMMA AppendStep ==
  ASSUME IntakeInv, NEW w \in Request, job[w] # Resting,
         NEW e \in Received \cup TierDecided, journal' = Append(journal, e),
         NEW next, job' = [job EXCEPT ![w].step = next],
         \/ job[w].step = "receive" /\ next = "decide" /\ e.type = "received" /\ e.post = job[w].post
         \/ job[w].step = "decide" /\ next = "draft" /\ e.type = "decided",
         UNCHANGED <<posted, vault, letters, refused, crashes>>
  PROVE  IntakeInv'
<1> DEFINE k == job[w].post
           v == [job[w] EXCEPT !.step = next]
<1>1. job' = [job EXCEPT ![w] = v] /\ next \in {"decide", "draft"} /\ job[w].step # "redact"
  OBVIOUS
<1>2. /\ k \in 1 .. Len(posted) /\ k \in DOMAIN vault
      /\ \A u \in Request \ {w} : job[u] # Resting => job[u].post # k
      /\ Accepted(k, Raw(posted, k), job[w].copy, job[w].entries)
      /\ job[w].witness = WitnessOf(job[w].entries)
      /\ job[w].step = "decide" => HasReceived(journal)
  BY OwnPost DEF JobOK
<1>3. /\ v \in JobType /\ v.step = next /\ v.post = k
      /\ v.copy = job[w].copy /\ v.entries = job[w].entries /\ v.witness = job[w].witness
  <2>1. next \in {"vault", "receive", "decide", "draft"}
    BY <1>1
  <2> HIDE DEF k
  <2>2. job[w] \in Carrying
    BY <1>1, OwnPost DEF Redacting
  <2>3. QED
    BY <2>1, <2>2 DEF k, Carrying, JobType
<1>4. /\ journal' \in Seq(Received \cup TierDecided)
      /\ \A i \in DOMAIN journal' :
           (i \in DOMAIN journal /\ journal'[i] = journal[i]) \/ journal'[i] = e
      /\ HasReceived(journal) \/ e.type = "received" => HasReceived(journal')
  BY AppendJournal
<1>5. HasReceived(journal')
  BY <1>2, <1>4
<1> HIDE DEF v
<1>6. JobOK(posted', vault', journal', refused', v)
  BY <1>1, <1>2, <1>3, <1>5 DEF JobOK
<1>7. StoresOK(posted', vault', journal', refused')
  BY <1>2, <1>4, Types DEF StoresOK
<1>8. IdentityIsOfOneRecord'
  BY DEF IntakeInv, IdentityIsOfOneRecord
<1>9. /\ job' \in [Request -> JobType] /\ Apart(job')
      /\ \A u \in Request : JobOK(posted', vault', journal', refused', job'[u])
  <2>1. Longer(posted, posted') /\ Len(posted') \in Nat /\ vault' = vault /\ refused' = refused
    BY Types
  <2>2. DOMAIN vault \subseteq DOMAIN vault' /\ DOMAIN vault' \subseteq DOMAIN vault \cup {k}
    BY <2>1
  <2>3. refused' \subseteq refused \cup {k}
    BY <2>1
  <2>4. v # Resting => v.post = k
    BY <1>3
  <2>5. v \in JobType /\ HasReceived(journal')
    BY <1>3, <1>5
  <2> HIDE DEF k
  <2>6. QED
    BY <1>1, <1>2, <1>6, <2>1, <2>2, <2>3, <2>4, <2>5, OneRequest
<1>10. QED
  BY <1>4, <1>7, <1>8, <1>9, Types, Together

LEMMA EmitReceivedStep ==
  ASSUME IntakeInv, NEW w \in Request, EmitReceived(w)
  PROVE  IntakeInv'
<1> DEFINE e == [type |-> "received", post |-> job[w].post]
<1>1. /\ job[w].step = "receive" /\ journal' = Append(journal, e)
      /\ job' = [job EXCEPT ![w].step = "decide"]
      /\ UNCHANGED <<posted, vault, letters, refused, crashes>>
  BY DEF EmitReceived
<1>2. job[w] # Resting
  BY <1>1 DEF Resting
<1>3. e \in Received /\ e.type = "received" /\ e.post = job[w].post
  BY <1>2, OwnPost DEF Received
<1> HIDE DEF e
<1>4. QED
  BY <1>1, <1>2, <1>3, AppendStep

LEMMA DecideStep ==
  ASSUME IntakeInv, NEW w \in Request, Decide(w)
  PROVE  IntakeInv'
<1>1. PICK t \in 1 .. 3 :
        journal' = Append(journal, [type |-> "decided", post |-> job[w].post, tier |-> t])
  BY DEF Decide
<1> DEFINE e == [type |-> "decided", post |-> job[w].post, tier |-> t]
<1>2. /\ job[w].step = "decide" /\ journal' = Append(journal, e)
      /\ job' = [job EXCEPT ![w].step = "draft"]
      /\ UNCHANGED <<posted, vault, letters, refused, crashes>>
  BY <1>1 DEF Decide
<1>3. job[w] # Resting
  BY <1>2 DEF Resting
<1>4. e \in TierDecided /\ e.type = "decided"
  BY <1>3, OwnPost DEF TierDecided
<1> HIDE DEF e
<1>5. QED
  BY <1>2, <1>3, <1>4, AppendStep

LEMMA CrashStep ==
  ASSUME IntakeInv, NEW w \in Request, Crash(w)
  PROVE  IntakeInv'
<1> DEFINE k == job[w].post
<1>1. /\ job[w] # Resting /\ job' = [job EXCEPT ![w] = Resting]
      /\ crashes < MaxCrashes /\ crashes' = crashes + 1
      /\ UNCHANGED <<posted, vault, journal, letters, refused>>
  BY DEF Crash, Rest
<1>2. \A u \in Request \ {w} : job[u] # Resting => job[u].post # k
  BY <1>1, OwnPost
<1>3. Resting \in JobType /\ JobOK(posted', vault', journal', refused', Resting)
  BY DEF JobType, JobOK
<1>4. crashes' \in 0 .. MaxCrashes
  BY <1>1, Types, IntakeAssumption
<1>5. StoresOK(posted', vault', journal', refused') /\ IdentityIsOfOneRecord'
  BY <1>1 DEF IntakeInv, IdentityIsOfOneRecord
<1>6. /\ job' \in [Request -> JobType] /\ Apart(job')
      /\ \A u \in Request : JobOK(posted', vault', journal', refused', job'[u])
  BY <1>1, <1>2, <1>3, Types, OneRequest
<1>7. QED
  BY <1>1, <1>4, <1>5, <1>6, Types, Together

-----------------------------------------------------------------------------
(* An open value that is no person's, or a token. *)
Harmless(v) == IsToken(v) \/ (v \in Value /\ v.at \notin Declared /\ v.shape # "identity")

(* The facts of an accepted copy name nobody by themselves.                  *)
LEMMA FactsAreHarmless ==
  ASSUME NEW n, NEW raw, NEW copy, NEW entries, Accepted(n, raw, copy, entries)
  PROVE  \A v \in FactsOf(copy) : Harmless(v)
<1> SUFFICES ASSUME NEW p \in Required, ~ IsToken(copy[p]), copy[p].shape # "absent"
             PROVE  Harmless(copy[p])
  BY DEF FactsOf, Harmless
<1>1. p \in Place \ Prose
  BY IntakeAssumption DEF Place
<1>2. copy[p] \in Value /\ copy[p].at = p /\ IsValue(copy[p])
  <2>1. /\ copy[p] \in Value \cup Token \cup Torn /\ ~ IsTorn(copy[p])
        /\ IsValue(copy[p]) => copy[p].at = p
    BY <1>1 DEF Accepted, SealedCopy, Copy, OfPost
  <2>2. QED
    BY <2>1, Apart3
<1>3. p \notin Declared
  BY DEF Accepted, DeclaredSealed
<1>4. copy[p].shape # "identity"
  <2>1. p \notin Residue(copy)
    BY DEF Accepted
  <2>2. QED
    BY <1>1, <1>2, <2>1 DEF Residue
<1>5. QED
  BY <1>2, <1>3, <1>4 DEF Harmless

(* The record of a case that was received is in the vault. *)
LEMMA RecordIsKept ==
  ASSUME IntakeInv, HasReceived(journal)
  PROVE  /\ CaseRecord \in DOMAIN vault /\ CaseRecord \in Post
         /\ vault[CaseRecord] \subseteq Entry /\ EntriesOfPost(CaseRecord, vault[CaseRecord])
<1>1. /\ At("received") \subseteq 1 .. Len(journal) /\ At("received") # {}
      /\ Len(journal) \in Nat
  BY Types DEF At, HasReceived
<1> DEFINE Latest(i) == \A j \in At("received") : j <= i
           m == CHOOSE i \in At("received") : Latest(i)
<1>2. \E i \in At("received") : Latest(i)
  BY <1>1, GreatestPlace
<1>3. m \in At("received")
  BY <1>2
<1>4. CaseRecord = journal[m].post
  BY DEF CaseRecord
<1>5. CaseRecord \in DOMAIN vault
  <2> HIDE DEF m
  <2> QED BY <1>3, <1>4, Types DEF At, StoresOK
<1>6. QED
  BY <1>5, Types DEF StoresOK, Kept

(* A letter restores its tokens from one record, and what it says openly is  *)
(* harmless: who is named in it is the person of that record.                *)
LEMMA LetterNamesItsPerson ==
  ASSUME NEW n \in DOMAIN vault, vault[n] \subseteq Entry, EntriesOfPost(n, vault[n]),
         NEW items, \A v \in items : Harmless(v), Rehydrates(items, n)
  PROVE  \A v \in Restored(items, n) :
           v \in Value /\ (v.at \in Declared \/ v.shape = "identity" => v.by = n)
<1> SUFFICES ASSUME NEW v \in Restored(items, n)
             PROVE  v \in Value /\ (v.at \in Declared \/ v.shape = "identity" => v.by = n)
  OBVIOUS
<1>1. CASE v \in items /\ ~ IsToken(v)
  BY <1>1 DEF Harmless
<1>2. CASE \E t \in items : \E e \in EntriesFor(t, n) : v = e.value
  <2>1. PICK e \in vault[n] : v = e.value
    BY <1>2 DEF EntriesFor
  <2>2. IsValue(v)
    BY DEF Rehydrates
  <2>3. e.value \in Value
    BY <2>1, <2>2, Apart3 DEF Entry
  <2>4. QED
    BY <2>1, <2>2, <2>3 DEF EntriesOfPost
<1>3. QED
  BY <1>1, <1>2 DEF Restored

LEMMA DraftedLetters ==
  ASSUME IntakeInv, HasReceived(journal), NEW facts, \A v \in facts : Harmless(v),
         DraftCase(facts)
  PROVE  letters' \subseteq Letter /\ IdentityIsOfOneRecord'
<1> DEFINE r == CaseRecord
           new(i) == [answers |-> i, record |-> r, states |-> Restored(TextOf(i, facts), r)]
<1>1. letters' = letters \cup {new(i) : i \in Writable(facts)}
  BY DEF DraftCase
<1>2. /\ r \in DOMAIN vault /\ r \in Post
      /\ vault[r] \subseteq Entry /\ EntriesOfPost(r, vault[r])
  BY RecordIsKept
<1>3. ASSUME NEW i \in Writable(facts)
      PROVE  \A v \in Restored(TextOf(i, facts), r) :
               v \in Value /\ (v.at \in Declared \/ v.shape = "identity" => v.by = r)
  <2>1. \A t \in Addressee(r) : Harmless(t)
    BY <1>2, Kinds DEF Addressee, Entry, Harmless
  <2>2. \A v \in TextOf(i, facts) : Harmless(v)
    BY <2>1 DEF TextOf
  <2>3. Rehydrates(TextOf(i, facts), r)
    BY DEF Writable
  <2> HIDE DEF r
  <2>4. QED
    BY <1>2, <2>2, <2>3, LetterNamesItsPerson
<1>4. \A i \in Writable(facts) : i \in Nat
  BY Types DEF Writable, At
<1> HIDE DEF r
<1>5. \A i \in Writable(facts) : new(i) \in Letter
  BY <1>2, <1>3, <1>4 DEF Letter
<1>6. letters' \subseteq Letter
  BY <1>1, <1>5, Types
<1>7. ASSUME NEW l \in letters', NEW v \in l.states, v.at \in Declared \/ v.shape = "identity"
      PROVE  v.by = l.record
  <2>1. CASE l \in letters
    BY <1>7, <2>1 DEF IntakeInv, IdentityIsOfOneRecord
  <2>2. CASE l \notin letters
    <3>1. PICK i \in Writable(facts) : l = new(i)
      BY <1>1, <2>2
    <3>2. l.record = r /\ l.states = Restored(TextOf(i, facts), r)
      BY <3>1
    <3>3. QED
      BY <1>3, <1>7, <3>2
  <2>3. QED
    BY <2>1, <2>2
<1>8. IdentityIsOfOneRecord'
  BY <1>7 DEF IdentityIsOfOneRecord
<1>9. QED
  BY <1>6, <1>8

LEMMA DraftStep ==
  ASSUME IntakeInv, NEW w \in Request, Draft(w)
  PROVE  IntakeInv'
<1> DEFINE k == job[w].post
<1>1. /\ job[w].step = "draft" /\ DraftCase(FactsOf(job[w].copy))
      /\ job' = [job EXCEPT ![w] = Resting]
      /\ UNCHANGED <<posted, vault, journal, refused, crashes>>
  BY DEF Draft, Rest
<1>2. job[w] # Resting
  BY <1>1 DEF Resting
<1>3. /\ HasReceived(journal)
      /\ Accepted(k, Raw(posted, k), job[w].copy, job[w].entries)
      /\ \A u \in Request \ {w} : job[u] # Resting => job[u].post # k
  BY <1>1, <1>2, OwnPost DEF JobOK
<1>4. letters' \subseteq Letter /\ IdentityIsOfOneRecord'
  BY <1>1, <1>3, FactsAreHarmless, DraftedLetters
<1>5. Resting \in JobType /\ JobOK(posted', vault', journal', refused', Resting)
  BY DEF JobType, JobOK
<1>6. StoresOK(posted', vault', journal', refused')
  BY <1>1 DEF IntakeInv
<1>7. /\ job' \in [Request -> JobType] /\ Apart(job')
      /\ \A u \in Request : JobOK(posted', vault', journal', refused', job'[u])
  BY <1>1, <1>3, <1>5, Types, OneRequest
<1>8. QED
  BY <1>1, <1>4, <1>6, <1>7, Types, Together

LEMMA ReplayStep ==
  ASSUME IntakeInv, NEW w \in Request, Replay(w)
  PROVE  IntakeInv'
<1>1. /\ DraftCase({}) /\ At("received") # {}
      /\ UNCHANGED <<posted, vault, journal, job, refused, crashes>>
  BY DEF Replay
<1>2. letters' \subseteq Letter /\ IdentityIsOfOneRecord'
  BY <1>1, DraftedLetters DEF At, HasReceived
<1>3. /\ \A u \in Request : JobOK(posted', vault', journal', refused', job'[u])
      /\ Apart(job') /\ StoresOK(posted', vault', journal', refused')
  BY <1>1 DEF IntakeInv
<1>4. QED
  BY <1>1, <1>2, <1>3, Types, Together

LEMMA NextStep == IntakeInv /\ [Next]_vars => IntakeInv'
<1> SUFFICES ASSUME IntakeInv, [Next]_vars PROVE IntakeInv'
  OBVIOUS
<1>1. CASE UNCHANGED vars
  <2>1. UNCHANGED <<posted, vault, journal, letters, job, refused, crashes>>
    BY <1>1 DEF vars
  <2>2. /\ \A u \in Request : JobOK(posted', vault', journal', refused', job'[u])
        /\ Apart(job') /\ StoresOK(posted', vault', journal', refused')
        /\ IdentityIsOfOneRecord'
    BY <2>1 DEF IntakeInv, IdentityIsOfOneRecord
  <2>3. QED
    BY <2>1, <2>2, Types, Together
<1>2. ASSUME NEW w \in Request,
             \/ Submit(w) \/ Redact(w) \/ SealVault(w) \/ EmitReceived(w) \/ Decide(w)
             \/ Draft(w) \/ Replay(w) \/ Crash(w)
      PROVE  IntakeInv'
  BY <1>2, SubmitStep, RedactStep, SealVaultStep, EmitReceivedStep, DecideStep,
     DraftStep, ReplayStep, CrashStep
<1>3. QED
  BY <1>1, <1>2 DEF Next

LEMMA Invariance == Spec => []IntakeInv
  BY InitInv, NextStep, PTL DEF Spec

-----------------------------------------------------------------------------
(* What an accepted copy says of the request that carries it. *)
LEMMA CarriedIsAccepted ==
  ASSUME IntakeInv, NEW w \in Request, Carries(w)
  PROVE  LET n == job[w].post IN
         /\ Accepted(n, AsReceived(n), job[w].copy, job[w].entries)
         /\ job[w].witness = WitnessOf(job[w].entries)
         /\ n \in Post /\ n \in DOMAIN posted /\ posted \in Seq(Submission)
<1>1. job[w].step # "redact" /\ job[w] # Resting
  BY DEF Carries, Resting
<1>2. QED
  BY <1>1, OwnPost, RawIsReceived DEF JobOK

(* The case, the vault and every request keep their types. *)
THEOREM TypeCorrect == Spec => []TypeOK
<1>1. IntakeInv => TypeOK
  BY DEF IntakeInv
<1>2. QED
  BY <1>1, Invariance, PTL

(* Nothing a sweep would find goes on, whatever the second round changed     *)
(* (boundary.py:21).                                                         *)
THEOREM CopyIsClean == Spec => []WorkingCopyIsClean
<1>1. IntakeInv => WorkingCopyIsClean
  BY CarriedIsAccepted DEF WorkingCopyIsClean, Accepted
<1>2. QED
  BY <1>1, Invariance, PTL

(* Whatever tokens are drawn, in one round or two, and whatever placeholders *)
(* a hit takes or cuts: with each entry back at its token, twice, the        *)
(* working copy is the submission (SealedEntry).                             *)
THEOREM SealsAreReversible == Spec => []SealIsReversible
<1>1. ASSUME IntakeInv PROVE SealIsReversible
  <2> SUFFICES ASSUME NEW w \in Request, Carries(w)
               PROVE  GoesBackTwice(AsReceived(job[w].post), job[w].copy, job[w].entries)
    BY DEF SealIsReversible, GoesBackTwice
  <2>1. Accepted(job[w].post, AsReceived(job[w].post), job[w].copy, job[w].entries)
    BY <1>1, CarriedIsAccepted
  <2>2. QED
    BY <2>1 DEF Accepted
<1>2. QED
  BY <1>1, Invariance, PTL

(* A mapped path validates as the value that was sent, for every policy that *)
(* gives its sealed mapped paths a witness (seal.py:24).                     *)
THEOREM Validation == Spec => []ValidatesWhatWasSent
<1>1. ASSUME IntakeInv PROVE ValidatesWhatWasSent
  <2> SUFFICES ASSUME NEW w \in Request, Carries(w), NEW p \in Required
               PROVE  LET raw == AsReceived(job[w].post)[p]
                      IN Resolved(job[w].copy[p], job[w].witness)
                           = IF IsToken(raw) THEN {} ELSE {v \in {raw} : v.shape # "absent"}
    BY DEF ValidatesWhatWasSent
  <2> DEFINE n == job[w].post
             raw == AsReceived(n)
  <2>1. /\ Accepted(n, raw, job[w].copy, job[w].entries)
        /\ job[w].witness = WitnessOf(job[w].entries)
        /\ n \in Post /\ n \in DOMAIN posted /\ posted \in Seq(Submission)
    BY <1>1, CarriedIsAccepted
  <2>2. p \in Place
    BY IntakeAssumption DEF Place
  <2>3. raw \in Copy /\ OfPost(n, raw)
    BY <2>1, RawIsSealedCopy DEF SealedCopy
  <2>4. /\ IsToken(raw[p]) => raw[p] \in Token
        /\ ~ IsToken(raw[p]) => raw[p] \in Value /\ raw[p].at = p
    <3>1. raw[p] \in Value \cup Token \cup Torn /\ ~ IsTorn(raw[p])
      BY <2>1, <2>2, <2>3, RawIsSealedCopy DEF Copy
    <3>2. IsValue(raw[p]) => raw[p].at = p
      BY <2>2, <2>3 DEF OfPost
    <3>3. QED
      BY <3>1, <3>2, Apart3
  <2> DEFINE copy == job[w].copy
             entries == job[w].entries
  <2>5. n \in Post /\ Accepted(n, raw, copy, entries)
    BY <2>1
  <2> HIDE DEF n, raw, copy, entries
  <2>6. Resolved(copy[p], WitnessOf(entries))
          = IF IsToken(raw[p]) THEN {} ELSE {v \in {raw[p]} : v.shape # "absent"}
    BY <2>4, <2>5, AcceptedValidates
  <2>7. job[w].witness = WitnessOf(entries)
    BY <2>1 DEF entries
  <2>8. QED
    BY <2>6, <2>7 DEF n, raw, copy
<1>2. QED
  BY <1>1, Invariance, PTL

(* The three together: for any policy, submissions and tokens, the copy that *)
(* goes on is clean and stands for the submission.                           *)
THEOREM BoundaryHolds == Spec => []TheCopyStandsForTheSubmission
<1>1. WorkingCopyIsClean /\ SealIsReversible /\ ValidatesWhatWasSent
        <=> TheCopyStandsForTheSubmission
  BY DEF TheCopyStandsForTheSubmission
<1>2. QED
  BY <1>1, CopyIsClean, SealsAreReversible, Validation, PTL

(* A case in the journal has its record in the vault, and a refused post has *)
(* neither, whichever requests die (ingest_submission).                      *)
THEOREM SealedBeforeReceived == Spec => []ReceivedIsSealed
<1>1. ASSUME IntakeInv PROVE ReceivedIsSealed
  <2>1. StoresOK(posted, vault, journal, refused)
    BY <1>1, Types
  <2>2. ASSUME NEW i \in At("received")
        PROVE  LET n == journal[i].post IN
               /\ n \in DOMAIN vault
               /\ \A p \in Declared : posted[n][p] \notin {"absent", "foreign"} =>
                    \E e \in vault[n] : e.value = AsReceived(n)[p]
    BY <2>1, RawIsReceived DEF At, StoresOK, Kept
  <2>3. refused \cap DOMAIN vault = {}
    BY <2>1 DEF StoresOK
  <2>4. QED
    BY <2>2, <2>3 DEF ReceivedIsSealed
<1>2. QED
  BY <1>1, Invariance, PTL

(* Who a letter names is the person of the record it was written from, for   *)
(* any number of requests and posts (rehydrate).                             *)
THEOREM OnePersonPerLetter == Spec => []IdentityIsOfOneRecord
<1>1. IntakeInv => IdentityIsOfOneRecord
  BY DEF IntakeInv
<1>2. QED
  BY <1>1, Invariance, PTL

-----------------------------------------------------------------------------
(* The text of a letter.  A run of characters of some kinds has one end.     *)
EndsAt(text, i, these, j) ==
  /\ j \in i..Len(text)
  /\ \A k \in (i+1)..j : text[k] \in these
  /\ j < Len(text) => text[j+1] \notin these

LEMMA RunsEnd ==
  ASSUME NEW S, NEW text \in Seq(S), NEW i \in 0..Len(text), NEW these
  PROVE  EndsAt(text, i, these, EndOfRun(text, i, these))
<1> DEFINE n == Len(text)
           T == {j \in i..n : j < n => text[j+1] \notin these}
<1>1. n \in Nat /\ i \in Nat /\ n \in T
  OBVIOUS
<1>2. T \subseteq Nat /\ T # {}
  BY <1>1
<1>3. PICK m \in T : \A j \in T : m <= j
  BY <1>2, LeastNumber
<1>4. ASSUME NEW k \in (i+1)..m PROVE text[k] \in these
  <2>1. k - 1 \in i..n /\ k - 1 < m /\ k - 1 < n /\ (k - 1) + 1 = k
    BY <1>1, <1>3
  <2>2. k - 1 \notin T
    BY <1>3, <2>1
  <2>3. QED
    BY <2>1, <2>2
<1>5. EndsAt(text, i, these, m)
  BY <1>3, <1>4 DEF EndsAt
<1>6. QED
  BY <1>5, Zenon DEF EndOfRun, EndsAt

(* Whatever has the properties of the end is the end.                        *)
LEMMA TheEndIs ==
  ASSUME NEW S, NEW text \in Seq(S), NEW i \in 0..Len(text), NEW these,
         NEW j, EndsAt(text, i, these, j)
  PROVE  EndOfRun(text, i, these) = j
<1> DEFINE m == EndOfRun(text, i, these)
<1>1. EndsAt(text, i, these, m)
  BY RunsEnd
<1> HIDE DEF m
<1>2. /\ m \in i..Len(text) /\ j \in i..Len(text) /\ i \in Nat /\ Len(text) \in Nat
      /\ (\A k \in (i+1)..m : text[k] \in these) /\ (\A k \in (i+1)..j : text[k] \in these)
      /\ (m < Len(text) => text[m+1] \notin these) /\ (j < Len(text) => text[j+1] \notin these)
  BY <1>1 DEF EndsAt
<1>3. ~ (m < j)
  <2>1. m < j => m + 1 \in (i+1)..j /\ m < Len(text)
    BY <1>2
  <2>2. QED
    BY <1>2, <2>1
<1>4. ~ (j < m)
  <2>1. j < m => j + 1 \in (i+1)..m /\ j < Len(text)
    BY <1>2
  <2>2. QED
    BY <1>2, <2>1
<1>5. QED
  BY <1>2, <1>3, <1>4 DEF m

(* A stretch of a text, and two texts together, character by character.      *)
LEMMA StretchIs ==
  ASSUME NEW C, NEW text \in Seq(C), NEW a \in Nat, NEW b \in Nat, 1 <= a, a <= b + 1, b <= Len(text)
  PROVE  /\ SubSeq(text, a, b) \in Seq(C) /\ Len(SubSeq(text, a, b)) = b - a + 1
         /\ \A k \in 1..(b - a + 1) : SubSeq(text, a, b)[k] = text[k + a - 1]
  BY SMTT(40)

LEMMA BothAre ==
  ASSUME NEW C, NEW s \in Seq(C), NEW t \in Seq(C)
  PROVE  /\ s \o t \in Seq(C) /\ Len(s \o t) = Len(s) + Len(t)
         /\ \A k \in 1..Len(s) : (s \o t)[k] = s[k]
         /\ \A k \in 1..Len(t) : (s \o t)[Len(s) + k] = t[k]
  BY SMTT(40)

(* A stretch of a text by itself: its runs end where they did, or with it.   *)
LEMMA RunsOfAPart ==
  ASSUME NEW S, NEW text \in Seq(S), NEW these, NEW a \in 1..Len(text), NEW e \in a..Len(text),
         NEW p \in a..e
  PROVE  /\ p - a + 1 \in 1..Len(SubSeq(text, a, e))
         /\ SubSeq(text, a, e)[p - a + 1] = text[p]
         /\ EndOfRun(SubSeq(text, a, e), p - a + 1, these) =
              IF EndOfRun(text, p, these) < e THEN EndOfRun(text, p, these) - a + 1
              ELSE Len(SubSeq(text, a, e))
<1> DEFINE part == SubSeq(text, a, e)
           q == p - a + 1
           end == EndOfRun(text, p, these)
           m == Len(part)
           new == IF end < e THEN end - a + 1 ELSE m
<1>0. part = SubSeq(text, a, e) /\ q = p - a + 1
  OBVIOUS
<1> HIDE DEF part, q
<1>1. Len(text) \in Nat /\ a \in Nat /\ e \in Nat /\ p \in Nat /\ 1 <= a /\ a <= p /\ p <= e /\ e <= Len(text)
  OBVIOUS
<1>2. part \in Seq(S) /\ m = e - a + 1 /\ \A k \in 1..(e - a + 1) : part[k] = text[k + a - 1]
  BY <1>0, <1>1, StretchIs
<1>3. q \in 1..m /\ part[q] = text[p]
  <2>1. q \in 1..m /\ q + a - 1 = p
    BY <1>0, <1>1, <1>2
  <2>2. QED
    BY <1>2, <2>1
<1>4. EndsAt(text, p, these, end)
  <2>1. p \in 0..Len(text)
    BY <1>1
  <2>2. QED
    BY <2>1, RunsEnd, Zenon
<1> HIDE DEF end
<1>5. /\ end \in p..Len(text) /\ (\A k \in (p+1)..end : text[k] \in these)
      /\ (end < Len(text) => text[end+1] \notin these)
  BY <1>4 DEF EndsAt
<1>n. /\ m \in Nat /\ m = e - a + 1 /\ q = p - a + 1 /\ q \in Nat
      /\ end \in Nat /\ p <= end /\ end <= Len(text)
  BY <1>0, <1>1, <1>2, <1>5
<1> HIDE DEF m
<1>6. new \in q..m
  BY <1>1, <1>n
<1>7. ASSUME NEW k \in (q+1)..new PROVE part[k] \in these
  <2>1. k \in 1..m /\ k + a - 1 \in (p+1)..end
    BY <1>1, <1>n, <1>6
  <2>2. QED
    BY <1>2, <1>5, <1>n, <2>1
<1>8. new < m => part[new+1] \notin these
  <2>1. new < m => new + 1 \in 1..m /\ (new + 1) + a - 1 = end + 1 /\ end < Len(text)
    BY <1>1, <1>n
  <2>2. QED
    BY <1>2, <1>5, <1>n, <2>1
<1>9. EndsAt(part, q, these, new)
  <2> HIDE DEF new
  <2>1. QED
    BY <1>6, <1>7, <1>8 DEF EndsAt, m
<1>10. EndOfRun(part, q, these) = new
  <2>1. q \in 0..Len(part)
    BY <1>2, <1>3, <1>n DEF m
  <2> HIDE DEF new
  <2>2. QED
    BY <1>2, <1>9, <2>1, TheEndIs
<1>11. QED
  BY <1>2, <1>3, <1>10 DEF end, m, part, q

(* A stretch of a stretch of a text is a stretch of the text.                *)
LEMMA StretchOfAStretch ==
  ASSUME NEW C, NEW text \in Seq(C), NEW a \in Nat, NEW e \in Nat, NEW p \in Nat, NEW d \in Nat,
         1 <= a, a <= p, p <= d + 1, d <= e, e <= Len(text),
         NEW q, q = p - a + 1, NEW x, x = d - a + 1
  PROVE  SubSeq(SubSeq(text, a, e), q, x) = SubSeq(text, p, d)
<1> DEFINE part == SubSeq(text, a, e)
           s == SubSeq(part, q, x)
           t == SubSeq(text, p, d)
<1>1. /\ q \in Nat /\ x \in Nat /\ 1 <= q /\ q <= x + 1 /\ x <= e - a + 1 /\ a <= e + 1
      /\ x - q + 1 = d - p + 1 /\ 1 <= p /\ d <= Len(text)
  OBVIOUS
<1>2. part \in Seq(C) /\ Len(part) = e - a + 1 /\ \A k \in 1..(e - a + 1) : part[k] = text[k + a - 1]
  BY <1>1, StretchIs
<1>3. t \in Seq(C) /\ Len(t) = d - p + 1 /\ \A k \in 1..(d - p + 1) : t[k] = text[k + p - 1]
  BY <1>1, StretchIs
<1> HIDE DEF part
<1>4. s \in Seq(C) /\ Len(s) = x - q + 1 /\ \A k \in 1..(x - q + 1) : s[k] = part[k + q - 1]
  BY <1>1, <1>2, StretchIs
<1> HIDE DEF s, t
<1>5. ASSUME NEW k \in 1..(d - p + 1) PROVE s[k] = t[k]
  <2>1. k + q - 1 \in 1..(e - a + 1) /\ (k + q - 1) + a - 1 = k + p - 1
    BY <1>1
  <2>2. s[k] = part[k + q - 1] /\ t[k] = text[k + p - 1]
    BY <1>1, <1>3, <1>4
  <2>3. part[k + q - 1] = text[(k + q - 1) + a - 1]
    BY <1>2, <2>1
  <2>4. QED
    BY <2>1, <2>2, <2>3
<1>6. s = t
  BY <1>1, <1>3, <1>4, <1>5, SMTT(40)
<1>7. QED
  BY <1>6 DEF s, t, part

(* What is put out at a character: nothing, one blank, or a cluster.         *)
NoBlankIn(text) == \A k \in 1..Len(text) : ~ Blank(text[k])

(* Composing a cluster leaves something, and no blank.                       *)
LEMMA ComposedIs ==
  ASSUME NEW cluster \in Seq(Character), cluster # << >>, NoBlankIn(cluster)
  PROVE  Composed(cluster) \in Seq(Character) /\ Composed(cluster) # << >> /\ NoBlankIn(Composed(cluster))
<1>1. CASE Len(cluster) > 1 /\ cluster[1] = "letter"
  <2> DEFINE n == Len(cluster)
             rest == SubSeq(cluster, 3, n)
             first == <<"composed">>
             whole == first \o rest
  <2>1. n \in Nat /\ n > 1
    BY <1>1
  <2>2. rest \in Seq(Character) /\ Len(rest) = n - 2 /\ \A k \in 1..(n - 2) : rest[k] = cluster[k+2]
    <3>1. 3 <= n + 1 /\ n <= Len(cluster) /\ n - 3 + 1 = n - 2 /\ \A k \in 1..(n - 2) : k + 3 - 1 = k + 2
      BY <2>1
    <3> HIDE DEF n
    <3>2. QED
      BY <2>1, <3>1, StretchIs
  <2>3. first \in Seq(Character) /\ Len(first) = 1 /\ first[1] = "composed"
    BY DEF Character
  <2> HIDE DEF rest, first, n
  <2>w. /\ whole \in Seq(Character) /\ Len(whole) = Len(first) + Len(rest)
        /\ \A k \in 1..Len(first) : whole[k] = first[k]
        /\ \A k \in 1..Len(rest) : whole[Len(first) + k] = rest[k]
    <3> USE DEF whole
    <3>1. first \in Seq(Character) /\ rest \in Seq(Character)
      BY <2>2, <2>3
    <3>2. QED
      BY <3>1, BothAre
  <2>6. Composed(cluster) = whole
    BY <1>1 DEF Composed, whole, first, rest, n
  <2> HIDE DEF whole
  <2>4. whole \in Seq(Character) /\ Len(whole) = 1 + (n - 2)
    BY <2>2, <2>3, <2>w
  <2>5. \A k \in 1..(n - 1) : whole[k] = IF k = 1 THEN "composed" ELSE rest[k-1]
    <3> SUFFICES ASSUME NEW k \in 1..(n - 1)
                 PROVE  whole[k] = IF k = 1 THEN "composed" ELSE rest[k-1]
      OBVIOUS
    <3>1. k = 1 \/ (k - 1 \in 1..(n - 2) /\ k = 1 + (k - 1))
      BY <2>1
    <3>2. whole[1] = first[1] /\ \A l \in 1..(n - 2) : whole[1 + l] = rest[l]
      BY <2>1, <2>2, <2>3, <2>w
    <3>3. QED
      BY <2>3, <3>1, <3>2
  <2>7. Len(whole) = n - 1
    BY <2>1, <2>4
  <2>8. ASSUME NEW k \in 1..(n - 1) PROVE ~ Blank(whole[k])
    <3>1. CASE k = 1
      <4>1. whole[k] = "composed"
        BY <2>5, <3>1
      <4>2. QED
        BY <4>1 DEF Blank, Whitespace
    <3>2. CASE k # 1
      <4>1. k - 1 \in 1..(n - 2) /\ (k - 1) + 2 = k + 1 /\ k + 1 \in 1..n
        BY <2>1, <3>2
      <4>2. whole[k] = cluster[k+1]
        BY <2>2, <2>5, <3>2, <4>1
      <4>3. QED
        BY <4>1, <4>2 DEF NoBlankIn, n
    <3>3. QED
      BY <3>1, <3>2
  <2>9. whole # << >>
    BY <2>1, <2>7
  <2>10. QED
    BY <2>4, <2>6, <2>7, <2>8, <2>9 DEF NoBlankIn
<1>2. CASE ~ (Len(cluster) > 1 /\ cluster[1] = "letter")
  <2>1. Composed(cluster) = cluster
    BY <1>2 DEF Composed
  <2>2. QED
    BY <2>1
<1>3. QED
  BY <1>1, <1>2

(* So does the cluster that begins at a character.                           *)
LEMMA ClusterIs ==
  ASSUME NEW text \in Seq(Character), NEW p \in 1..Len(text), BeginsCluster(text, p)
  PROVE  /\ ClusterAt(text, p) \in Seq(Character) /\ ClusterAt(text, p) # << >>
         /\ NoBlankIn(ClusterAt(text, p))
<1> DEFINE e == EndOfMarks(text, p)
           cluster == SubSeq(text, p, e)
<1>1. EndsAt(text, p, {"mark"}, e)
  <2>1. p \in 0..Len(text)
    OBVIOUS
  <2>2. QED
    BY <2>1, RunsEnd DEF EndOfMarks
<1> HIDE DEF e
<1>2. e \in p..Len(text) /\ \A k \in (p+1)..e : text[k] = "mark"
  BY <1>1 DEF EndsAt
<1>3. /\ cluster \in Seq(Character) /\ Len(cluster) = e - p + 1
      /\ \A k \in 1..(e - p + 1) : cluster[k] = text[k + p - 1]
  BY <1>2, StretchIs
<1>4. cluster # << >>
  BY <1>2, <1>3
<1>5. ClusterAt(text, p) = Composed(cluster)
  <2>1. (p - 1) + 1 = p
    OBVIOUS
  <2>2. QED
    BY <2>1 DEF ClusterAt, Cut, cluster, e
<1> HIDE DEF cluster
<1>6. NoBlankIn(cluster)
  <2> SUFFICES ASSUME NEW k \in 1..(e - p + 1) PROVE ~ Blank(cluster[k])
    BY <1>3 DEF NoBlankIn
  <2>1. cluster[k] = text[p] \/ cluster[k] = "mark"
    <3>1. k + p - 1 = p \/ k + p - 1 \in (p+1)..e
      BY <1>2
    <3>2. QED
      BY <1>2, <1>3, <3>1
  <2>2. ~ Blank(text[p]) /\ ~ Blank("mark")
    BY DEF BeginsCluster, Blank, Whitespace
  <2>3. QED
    BY <2>1, <2>2
<1>7. QED
  BY <1>3, <1>4, <1>5, <1>6, ComposedIs

(* A chunk is empty, one blank, or a cluster without blanks.                 *)
LEMMA ChunkIs ==
  ASSUME NEW text \in Seq(Character), NEW p \in 1..Len(text)
  PROVE  /\ Chunk(text, p) \in Seq(Character)
         /\ Chunk(text, p) # << >> <=>
              BlanksCollapse(text, p) \/ (BeginsCluster(text, p) /\ ~ Hyphenation(text, p))
         /\ BlanksCollapse(text, p) => Chunk(text, p) = <<"space">>
         /\ Blank(text[p]) /\ Chunk(text, p) # << >> => BlanksCollapse(text, p)
         /\ ~ Blank(text[p]) => NoBlankIn(Chunk(text, p))
<1>1. BlanksCollapse(text, p) => Blank(text[p])
  BY DEF BlanksCollapse
<1>2. BeginsCluster(text, p) => ~ Blank(text[p])
  BY DEF BeginsCluster
<1>3. <<"space">> \in Seq(Character) /\ <<"space">> # << >> /\ << >> \in Seq(Character) /\ NoBlankIn(<< >>)
  BY DEF Character, NoBlankIn
<1>4. CASE BlanksCollapse(text, p)
  <2>1. Chunk(text, p) = <<"space">>
    BY <1>1, <1>2, <1>4 DEF Chunk
  <2>2. QED
    BY <1>1, <1>3, <1>4, <2>1
<1>5. CASE BeginsCluster(text, p) /\ ~ Hyphenation(text, p)
  <2>1. Chunk(text, p) = ClusterAt(text, p)
    BY <1>1, <1>2, <1>5 DEF Chunk
  <2>2. QED
    BY <1>1, <1>2, <1>5, <2>1, ClusterIs
<1>6. CASE ~ BlanksCollapse(text, p) /\ ~ (BeginsCluster(text, p) /\ ~ Hyphenation(text, p))
  <2>1. Chunk(text, p) = << >>
    BY <1>6 DEF Chunk
  <2>2. QED
    BY <1>3, <1>6, <2>1
<1>7. QED
  BY <1>4, <1>5, <1>6

(* Behind the first character of a cluster or of a run of blanks nothing more *)
(* is put out until it ends.                                                 *)
EndOfIt(text, p) ==
  IF Blank(text[p]) THEN EndOfWhitespace(text, p) ELSE EndOfMarks(text, p)

(* It ends at or after the character, and goes on as it began.               *)
LEMMA ItEnds ==
  ASSUME NEW text \in Seq(Character), NEW j \in 1..Len(text)
  PROVE  /\ EndOfIt(text, j) \in j..Len(text)
         /\ \A p \in (j+1)..EndOfIt(text, j) :
              IF Blank(text[j]) THEN Blank(text[p]) ELSE text[p] = "mark"
<1>0. j \in 0..Len(text)
  OBVIOUS
<1>1. EndsAt(text, j, Whitespace, EndOfWhitespace(text, j))
  BY <1>0, RunsEnd DEF EndOfWhitespace
<1>2. EndsAt(text, j, {"mark"}, EndOfMarks(text, j))
  BY <1>0, RunsEnd DEF EndOfMarks
<1>3. QED
  BY <1>1, <1>2 DEF EndsAt, EndOfIt, Blank

LEMMA BehindABeginning ==
  ASSUME NEW text \in Seq(Character), NEW j \in 1..Len(text),
         NEW p \in (j+1)..EndOfIt(text, j)
  PROVE  /\ p \in 1..Len(text) /\ Chunk(text, p) = << >>
         /\ ~ BeginsCluster(text, p) /\ ~ BlanksCollapse(text, p)
<1>1. /\ EndOfIt(text, j) \in j..Len(text)
      /\ \A k \in (j+1)..EndOfIt(text, j) :
           IF Blank(text[j]) THEN Blank(text[k]) ELSE text[k] = "mark"
  BY ItEnds
<1>2. p \in 1..Len(text) /\ (p - 1 = j \/ p - 1 \in (j+1)..EndOfIt(text, j)) /\ p # 1
  BY <1>1
<1>3. ~ Blank("mark")
  BY DEF Blank, Whitespace
<1>4. /\ IF Blank(text[j]) THEN Blank(text[p]) ELSE text[p] = "mark"
      /\ Blank(text[j]) <=> Blank(text[p-1])
  BY <1>1, <1>2, <1>3
<1>5. ~ BeginsCluster(text, p)
  BY <1>2, <1>3, <1>4 DEF BeginsCluster
<1>6. ~ BlanksCollapse(text, p)
  BY <1>3, <1>4 DEF BlanksCollapse
<1>7. Chunk(text, p) = << >>
  BY <1>2, <1>5, <1>6, ChunkIs
<1>8. QED
  BY <1>2, <1>5, <1>6, <1>7

(* So what begins something is not behind another beginning.                 *)
LEMMA NothingBehind ==
  ASSUME NEW text \in Seq(Character), NEW j \in 1..Len(text)
  PROVE  \A p \in (j+1)..EndOfIt(text, j) :
           /\ Chunk(text, p) = << >>
           /\ ~ BeginsCluster(text, p) /\ ~ BlanksCollapse(text, p)
BY BehindABeginning

(* A stretch of a letter from where one chunk comes from to the end of where *)
(* another comes from.                                                       *)
IsPassage(text, i, j, e, part) ==
  /\ text \in Seq(Character) /\ i \in 1..Len(text) /\ j \in i..Len(text)
  /\ Chunk(text, i) # << >> /\ Chunk(text, j) # << >>
  /\ e = EndOfIt(text, j) /\ part = SubSeq(text, i, e)

(* The characters of a passage are those of the letter, further on.          *)
LEMMA APassageIs ==
  ASSUME NEW text, NEW i, NEW j, NEW e, NEW part, IsPassage(text, i, j, e, part)
  PROVE  /\ text \in Seq(Character) /\ Len(text) \in Nat /\ i \in 1..Len(text)
         /\ j \in i..Len(text) /\ e \in j..Len(text) /\ e \in i..Len(text)
         /\ part \in Seq(Character) /\ Len(part) = e - i + 1
         /\ \A p \in i..e : /\ p - i + 1 \in 1..Len(part) /\ part[p - i + 1] = text[p]
                            /\ p \in 1..Len(text)
<1>1. /\ text \in Seq(Character) /\ Len(text) \in Nat /\ i \in 1..Len(text)
      /\ j \in i..Len(text) /\ part = SubSeq(text, i, e)
  BY DEF IsPassage
<1>2. e \in j..Len(text)
  BY <1>1, ItEnds DEF IsPassage
<1>3. e \in i..Len(text)
  BY <1>1, <1>2
<1>4. \A p \in i..e : p - i + 1 \in 1..Len(part) /\ part[p - i + 1] = text[p] /\ p \in 1..Len(text)
  BY <1>1, <1>3, RunsOfAPart
<1>5. part \in Seq(Character) /\ Len(part) = e - i + 1
  BY <1>1, <1>3, StretchIs
<1>6. QED
  BY <1>1, <1>2, <1>3, <1>4, <1>5

(* No cluster and no run of blanks goes on where a chunk begins.             *)
LEMMA NothingRunsInto ==
  ASSUME NEW text \in Seq(Character), NEW j \in 1..Len(text), Chunk(text, j) # << >>,
         NEW p \in 1..Len(text), p < j
  PROVE  EndOfIt(text, p) < j
<1>1. EndOfIt(text, p) \in p..Len(text)
  BY ItEnds
<1>2. j \notin (p+1)..EndOfIt(text, p)
  BY BehindABeginning
<1>3. QED
  BY <1>1, <1>2

(* A passage has the clusters of its letter.                                 *)
LEMMA ClustersOfAPassage ==
  ASSUME NEW text, NEW i, NEW j, NEW e, NEW part, IsPassage(text, i, j, e, part),
         NEW p \in i..e
  PROVE  LET q == p - i + 1
         IN  /\ BeginsCluster(part, q) <=> BeginsCluster(text, p)
             /\ BeginsCluster(text, p) =>
                  /\ p <= j /\ EndOfMarks(text, p) \in p..e
                  /\ EndOfMarks(part, q) = EndOfMarks(text, p) - i + 1
                  /\ ClusterAt(part, q) = ClusterAt(text, p)
<1> DEFINE q == p - i + 1
           d == EndOfMarks(text, p)
<1>1. /\ text \in Seq(Character) /\ Len(text) \in Nat /\ i \in 1..Len(text)
      /\ j \in i..Len(text) /\ e \in j..Len(text) /\ e \in i..Len(text)
      /\ part \in Seq(Character) /\ Len(part) = e - i + 1
      /\ \A k \in i..e : k - i + 1 \in 1..Len(part) /\ part[k - i + 1] = text[k] /\ k \in 1..Len(text)
  BY APassageIs
<1>2. Chunk(text, i) # << >> /\ Chunk(text, j) # << >> /\ e = EndOfIt(text, j) /\ part = SubSeq(text, i, e)
  BY DEF IsPassage
<1>3. p \in 1..Len(text) /\ q \in 1..Len(part) /\ part[q] = text[p]
  BY <1>1
<1>4. BeginsCluster(part, q) <=> BeginsCluster(text, p)
  <2>1. CASE p = i
    <3>1. q = 1
      BY <1>1, <2>1
    <3>2. BeginsCluster(part, q) <=> ~ Blank(text[i])
      BY <1>3, <2>1, <3>1 DEF BeginsCluster
    <3>3. ~ Blank(text[i]) => BeginsCluster(text, i)
      BY <1>1, <1>2, ChunkIs DEF BlanksCollapse
    <3>4. BeginsCluster(text, i) => ~ Blank(text[i])
      BY DEF BeginsCluster
    <3>5. QED
      BY <2>1, <3>2, <3>3, <3>4
  <2>2. CASE p # i
    <3>1. p - 1 \in i..e /\ (p - 1) - i + 1 = q - 1 /\ q # 1 /\ p # 1
      BY <1>1, <2>2
    <3>2. part[q-1] = text[p-1]
      BY <1>1, <3>1
    <3> HIDE DEF q
    <3>3. QED
      BY <1>3, <3>1, <3>2 DEF BeginsCluster
  <2>3. QED
    BY <2>1, <2>2
<1>5. ASSUME BeginsCluster(text, p)
      PROVE  /\ p <= j /\ d \in p..e
             /\ EndOfMarks(part, q) = d - i + 1
             /\ ClusterAt(part, q) = ClusterAt(text, p)
  <2>1. ~ Blank(text[p]) /\ EndOfIt(text, p) = d
    BY <1>5 DEF BeginsCluster, EndOfIt
  <2>2. p <= j
    <3>1. p \notin (j+1)..EndOfIt(text, j)
      BY <1>1, <1>5, NothingBehind
    <3>2. QED
      BY <1>1, <1>2, <3>1
  <2>3. d \in p..e
    <3>1. d \in p..Len(text)
      BY <1>1, <1>3, <2>1, ItEnds
    <3>2. CASE p = j
      BY <1>2, <2>1, <3>1, <3>2
    <3>3. CASE p < j
      <4>1. d < j
        BY <1>1, <1>2, <1>3, <2>1, <3>3, NothingRunsInto
      <4>2. QED
        BY <1>1, <3>1, <4>1
    <3>4. QED
      BY <1>1, <2>2, <3>2, <3>3
  <2>4. EndOfMarks(part, q) = d - i + 1
    <3>1. EndOfMarks(part, q) = IF d < e THEN d - i + 1 ELSE Len(part)
      <4>1. EndOfRun(part, q, {"mark"}) = IF EndOfRun(text, p, {"mark"}) < e
                                          THEN EndOfRun(text, p, {"mark"}) - i + 1
                                          ELSE Len(part)
        <5>1. /\ text \in Seq(Character) /\ i \in 1..Len(text) /\ e \in i..Len(text)
              /\ part = SubSeq(text, i, e)
          BY <1>1, <1>2
        <5>2. EndOfRun(SubSeq(text, i, e), p - i + 1, {"mark"}) =
                IF EndOfRun(text, p, {"mark"}) < e THEN EndOfRun(text, p, {"mark"}) - i + 1
                ELSE Len(SubSeq(text, i, e))
          BY <5>1, RunsOfAPart
        <5>3. QED
          BY <5>1, <5>2
      <4>2. QED
        BY <4>1, Zenon DEF EndOfMarks
    <3>2. e - i + 1 = Len(part) /\ e \in Nat /\ i \in Nat /\ d \in Nat /\ d <= e
      BY <1>1, <2>3
    <3> HIDE DEF d, q
    <3>3. QED
      BY <3>1, <3>2
  <2>5. SubSeq(part, q, d - i + 1) = SubSeq(text, p, d)
    <3>1. /\ i \in Nat /\ e \in Nat /\ p \in Nat /\ d \in Nat
          /\ 1 <= i /\ i <= p /\ p <= d + 1 /\ d <= e /\ e <= Len(text)
      BY <1>1, <2>3
    <3>2. \A x : x = d - i + 1 => SubSeq(SubSeq(text, i, e), q, x) = SubSeq(text, p, d)
      <4> HIDE DEF d
      <4>1. QED
        BY <1>1, <3>1, StretchOfAStretch
    <3>3. QED
      BY <1>2, <3>2
  <2>6. ClusterAt(part, q) = Composed(SubSeq(part, q, d - i + 1))
    <3>1. (q - 1) + 1 = q
      BY <1>1, <1>3
    <3> HIDE DEF q
    <3>2. QED
      BY <2>4, <3>1 DEF ClusterAt, Cut
  <2>7. ClusterAt(text, p) = Composed(SubSeq(text, p, d))
    <3>1. (p - 1) + 1 = p
      BY <1>3
    <3>2. QED
      BY <3>1 DEF ClusterAt, Cut
  <2>8. QED
    BY <2>2, <2>3, <2>4, <2>5, <2>6, <2>7
<1>6. QED
  BY <1>4, <1>5

(* Behind a letter in the passage is behind a letter in the whole.           *)
LEMMA LettersOfAPassage ==
  ASSUME NEW text, NEW i, NEW j, NEW e, NEW part, IsPassage(text, i, j, e, part),
         NEW p \in (i+1)..e
  PROVE  AfterALetter(part, p - i + 1) <=> AfterALetter(text, p)
<1> DEFINE q == p - i + 1
<1>1. /\ text \in Seq(Character) /\ Len(text) \in Nat /\ i \in 1..Len(text)
      /\ j \in i..Len(text) /\ e \in j..Len(text) /\ e \in i..Len(text)
  BY APassageIs
<1>2. ASSUME AfterALetter(part, q) PROVE AfterALetter(text, p)
  <2>1. PICK g \in 1..(q - 1) : /\ BeginsCluster(part, g) /\ EndOfMarks(part, g) = q - 1
                                /\ Alpha(Last(ClusterAt(part, g)))
    BY <1>2 DEF AfterALetter
  <2> DEFINE h == g + i - 1
  <2>2. h \in i..e /\ h \in 1..(p - 1) /\ h - i + 1 = g
    BY <1>1
  <2> HIDE DEF h
  <2>3. /\ BeginsCluster(text, h) /\ EndOfMarks(text, h) \in h..e
        /\ EndOfMarks(part, g) = EndOfMarks(text, h) - i + 1
        /\ ClusterAt(part, g) = ClusterAt(text, h)
    BY <2>1, <2>2, ClustersOfAPassage
  <2>4. EndOfMarks(text, h) = p - 1
    BY <1>1, <2>1, <2>2, <2>3
  <2>5. QED
    BY <2>1, <2>2, <2>3, <2>4 DEF AfterALetter
<1>3. ASSUME AfterALetter(text, p) PROVE AfterALetter(part, q)
  <2>1. PICK h \in 1..(p - 1) : /\ BeginsCluster(text, h) /\ EndOfMarks(text, h) = p - 1
                                /\ Alpha(Last(ClusterAt(text, h)))
    BY <1>3 DEF AfterALetter
  <2>2. h >= i
    <3> SUFFICES ASSUME h < i PROVE FALSE
      BY <1>1
    <3>1. EndOfIt(text, h) = p - 1
      BY <2>1 DEF EndOfIt, BeginsCluster
    <3>2. h \in 1..Len(text) /\ Chunk(text, i) # << >>
      BY <1>1 DEF IsPassage
    <3>3. p - 1 < i
      BY <1>1, <3>1, <3>2, NothingRunsInto
    <3>4. QED
      BY <1>1, <3>3
  <2> DEFINE g == h - i + 1
  <2>3. h \in i..e /\ g \in 1..(q - 1)
    BY <1>1, <2>2
  <2>4. /\ BeginsCluster(part, g) /\ EndOfMarks(part, g) = EndOfMarks(text, h) - i + 1
        /\ ClusterAt(part, g) = ClusterAt(text, h)
    BY <2>1, <2>3, ClustersOfAPassage
  <2>5. EndOfMarks(part, g) = q - 1
    <3>1. (p - 1) - i + 1 = q - 1
      BY <1>1
    <3>2. QED
      BY <2>1, <2>4, <3>1
  <2> HIDE DEF g
  <2>6. QED
    BY <2>1, <2>3, <2>4, <2>5 DEF AfterALetter
<1>4. QED
  BY <1>2, <1>3

(* A hyphen joins in the passage where it joins in the letter.               *)
LEMMA HyphensOfAPassage ==
  ASSUME NEW text, NEW i, NEW j, NEW e, NEW part, IsPassage(text, i, j, e, part),
         NEW p \in i..e
  PROVE  Hyphenation(part, p - i + 1) <=> Hyphenation(text, p)
<1> DEFINE q == p - i + 1
           w == EndOfWhitespace(text, p)
           v == EndOfWhitespace(part, q)
<1>1. /\ text \in Seq(Character) /\ Len(text) \in Nat /\ i \in 1..Len(text)
      /\ j \in i..Len(text) /\ e \in j..Len(text) /\ e \in i..Len(text)
      /\ part \in Seq(Character) /\ Len(part) = e - i + 1
      /\ \A k \in i..e : k - i + 1 \in 1..Len(part) /\ part[k - i + 1] = text[k] /\ k \in 1..Len(text)
  BY APassageIs
<1>2. Chunk(text, i) # << >> /\ Chunk(text, j) # << >> /\ e = EndOfIt(text, j) /\ part = SubSeq(text, i, e)
  BY DEF IsPassage
<1>3. p \in 1..Len(text) /\ q \in 1..Len(part) /\ part[q] = text[p]
  BY <1>1
<1>4. v = IF w < e THEN w - i + 1 ELSE Len(part)
  <2>1. EndOfRun(SubSeq(text, i, e), p - i + 1, Whitespace) =
          IF EndOfRun(text, p, Whitespace) < e THEN EndOfRun(text, p, Whitespace) - i + 1
          ELSE Len(SubSeq(text, i, e))
    BY <1>1, RunsOfAPart
  <2>2. QED
    BY <1>2, <2>1 DEF EndOfWhitespace
<1>5. w \in p..Len(text) /\ \A k \in (p+1)..w : Blank(text[k])
  <2>1. p \in 0..Len(text)
    BY <1>1
  <2>2. EndsAt(text, p, Whitespace, w)
    BY <1>1, <2>1, RunsEnd DEF EndOfWhitespace
  <2> HIDE DEF w
  <2>3. QED
    BY <2>2 DEF EndsAt, Blank
<1> DEFINE Joins(t, r, x) == /\ \E k \in r + 1 .. x : t[k] = "newline"
                             /\ x < Len(t) /\ Alpha(t[x + 1])
<1>6. /\ Hyphenation(text, p) <=> text[p] = "hyphen" /\ AfterALetter(text, p) /\ Joins(text, p, w)
      /\ Hyphenation(part, q) <=> part[q] = "hyphen" /\ AfterALetter(part, q) /\ Joins(part, q, v)
  BY DEF Hyphenation
<1> HIDE DEF w, v
<1>7. ASSUME w < e PROVE Joins(part, q, v) <=> Joins(text, p, w)
  <2>1. v = w - i + 1 /\ v < Len(part) /\ w < Len(text)
    BY <1>1, <1>4, <1>5, <1>7
  <2>2. part[v+1] = text[w+1]
    <3>1. w + 1 \in i..e /\ (w + 1) - i + 1 = v + 1
      BY <1>1, <1>5, <1>7, <2>1
    <3>2. part[(w + 1) - i + 1] = text[w+1]
      BY <1>1, <3>1, Zenon
    <3>3. QED
      BY <3>1, <3>2, Zenon
  <2>3. ASSUME NEW k \in (p+1)..w PROVE k - i + 1 \in (q+1)..v /\ part[k - i + 1] = text[k]
    <3>1. k \in i..e /\ k - i + 1 \in (q+1)..v
      BY <1>1, <1>5, <1>7, <2>1
    <3>2. QED
      BY <1>1, <3>1
  <2>4. ASSUME NEW k \in (q+1)..v PROVE k + i - 1 \in (p+1)..w /\ part[k] = text[k + i - 1]
    <3>1. k + i - 1 \in i..e /\ k + i - 1 \in (p+1)..w /\ (k + i - 1) - i + 1 = k
      BY <1>1, <1>5, <1>7, <2>1
    <3>2. QED
      BY <1>1, <3>1
  <2> HIDE DEF q
  <2>5. (\E k \in (q+1)..v : part[k] = "newline") <=> (\E k \in (p+1)..w : text[k] = "newline")
    BY <2>3, <2>4, Zenon
  <2>6. v < Len(part) /\ w < Len(text) /\ (Alpha(part[v+1]) <=> Alpha(text[w+1]))
    BY <2>1, <2>2
  <2>7. QED
    BY <2>5, <2>6
<1> HIDE DEF Joins
<1>8. ASSUME Hyphenation(part, q) PROVE Hyphenation(text, p)
  <2>1. part[q] = "hyphen" /\ AfterALetter(part, q) /\ Joins(part, q, v)
    BY <1>6, <1>8
  <2>2. p # i
    <3>1. p = i => q = 1
      BY <1>1
    <3>2. ~ AfterALetter(part, 1)
      BY DEF AfterALetter
    <3> HIDE DEF q
    <3>3. QED
      BY <2>1, <3>1, <3>2
  <2>3. AfterALetter(text, p)
    <3>1. p \in (i+1)..e
      BY <1>1, <2>2
    <3>2. QED
      BY <2>1, <3>1, LettersOfAPassage
  <2>4. w < e
    <3>1. v < Len(part)
      BY <2>1 DEF Joins
    <3>2. QED
      BY <1>1, <1>4, <1>5, <3>1
  <2>5. QED
    BY <1>3, <1>6, <1>7, <2>1, <2>3, <2>4
<1>9. ASSUME Hyphenation(text, p) PROVE Hyphenation(part, q)
  <2>1. text[p] = "hyphen" /\ AfterALetter(text, p) /\ Joins(text, p, w)
    BY <1>6, <1>9
  <2>2. BeginsCluster(text, p) /\ ~ Blank(text[p]) /\ ~ BlanksCollapse(text, p)
    <3>1. text[p] # "mark" /\ ~ Blank(text[p])
      BY <2>1 DEF Blank, Whitespace
    <3>2. QED
      BY <3>1 DEF BeginsCluster, BlanksCollapse
  <2>3. Chunk(text, p) = << >>
    BY <1>1, <1>3, <1>9, <2>2, ChunkIs
  <2>4. p < j
    <3>1. p <= j
      BY <2>2, ClustersOfAPassage
    <3>2. p # j
      BY <1>2, <2>3
    <3>3. QED
      BY <1>1, <3>1, <3>2
  <2>5. p \in (i+1)..e
    BY <1>1, <1>2, <2>3
  <2>6. w < j
    <3>0. p \in Nat /\ w \in Nat /\ w <= Len(text)
      BY <1>1, <1>3, <1>5
    <3>1. ASSUME NEW k \in (p+1)..w PROVE k # j
      <4>1. k \in 1..Len(text) /\ Blank(text[k])
        <5>1. k \in 1..Len(text)
          BY <1>1, <3>0
        <5>2. QED
          BY <1>5, <5>1
      <4>2. ~ BlanksCollapse(text, k)
        <5>1. CASE k = p + 1
          <6>1. k - 1 = p
            BY <1>1, <5>1
          <6>2. QED
            BY <1>9, <6>1 DEF BlanksCollapse
        <5>2. CASE k # p + 1
          <6>1. k - 1 \in (p+1)..w
            BY <3>0, <5>2
          <6>2. Blank(text[k-1])
            BY <1>5, <6>1
          <6>3. QED
            BY <6>2 DEF BlanksCollapse
        <5>3. QED
          BY <5>1, <5>2
      <4>3. Chunk(text, k) = << >>
        BY <1>1, <4>1, <4>2, ChunkIs
      <4>4. QED
        BY <1>2, <4>3
    <3>2. QED
      BY <1>1, <1>5, <2>4, <3>1
  <2>7. w < e
    BY <1>1, <1>5, <2>6
  <2>8. AfterALetter(part, q)
    BY <2>1, <2>5, LettersOfAPassage
  <2>9. QED
    BY <1>3, <1>6, <1>7, <2>1, <2>7, <2>8
<1>10. QED
  BY <1>8, <1>9

(* Between its ends a passage collapses the blanks its letter collapses.     *)
LEMMA BlanksOfAPassage ==
  ASSUME NEW text, NEW i, NEW j, NEW e, NEW part, IsPassage(text, i, j, e, part),
         NEW p \in (i+1)..e, p # j
  PROVE  BlanksCollapse(part, p - i + 1) <=> BlanksCollapse(text, p)
<1> DEFINE q == p - i + 1
<1>1. /\ text \in Seq(Character) /\ Len(text) \in Nat /\ i \in 1..Len(text)
      /\ j \in i..Len(text) /\ e \in j..Len(text) /\ e \in i..Len(text)
      /\ part \in Seq(Character) /\ Len(part) = e - i + 1
      /\ \A k \in i..e : k - i + 1 \in 1..Len(part) /\ part[k - i + 1] = text[k] /\ k \in 1..Len(text)
  BY APassageIs
<1>2. Chunk(text, i) # << >> /\ Chunk(text, j) # << >> /\ e = EndOfIt(text, j) /\ part = SubSeq(text, i, e)
  BY DEF IsPassage
<1>3. /\ p \in i..e /\ p - 1 \in i..e /\ p > 1 /\ q > 1 /\ (p - 1) - i + 1 = q - 1
      /\ p \in 1..Len(text) /\ p - 1 \in 1..Len(text)
  BY <1>1
<1>4. part[q] = text[p] /\ part[q-1] = text[p-1]
  <2>1. part[q] = text[p]
    BY <1>1, <1>3
  <2>2. part[(p - 1) - i + 1] = text[p-1]
    BY <1>1, <1>3
  <2> HIDE DEF q
  <2>3. QED
    BY <1>3, <2>1, <2>2
<1>5. Hyphenation(part, q - 1) <=> Hyphenation(text, p - 1)
  <2>1. Hyphenation(part, (p - 1) - i + 1) <=> Hyphenation(text, p - 1)
    BY <1>3, HyphensOfAPassage
  <2> HIDE DEF q
  <2>2. QED
    BY <1>3, <2>1
<1> HIDE DEF q
<1>6. CASE Blank(text[p]) /\ ~ Blank(text[p-1])
  <2>1. p < j
    <3>1. \A k \in j..EndOfIt(text, j) : Blank(text[k]) <=> Blank(text[j])
      <4>1. ~ Blank("mark")
        BY DEF Blank, Whitespace
      <4>2. EndOfIt(text, j) \in j..Len(text)
            /\ \A k \in (j+1)..EndOfIt(text, j) :
                 IF Blank(text[j]) THEN Blank(text[k]) ELSE text[k] = "mark"
        BY <1>1, ItEnds
      <4> SUFFICES ASSUME NEW k \in j..EndOfIt(text, j) PROVE Blank(text[k]) <=> Blank(text[j])
        OBVIOUS
      <4>3. k = j \/ k \in (j+1)..EndOfIt(text, j)
        BY <1>1, <4>2
      <4>4. QED
        BY <4>1, <4>2, <4>3
    <3>2. p \in Nat /\ j \in Nat /\ e \in Nat /\ p <= e
      BY <1>1, <1>3
    <3>3. p > j => p \in j..e /\ p - 1 \in j..e
      BY <3>2
    <3>4. ~ (p > j)
      BY <1>2, <1>6, <3>1, <3>3
    <3>5. QED
      BY <3>2, <3>4
  <2>2. EndOfWhitespace(text, p) < j /\ EndOfWhitespace(text, p) \in p..Len(text)
    <3>1. EndOfIt(text, p) = EndOfWhitespace(text, p)
      BY <1>6 DEF EndOfIt
    <3>2. QED
      BY <1>1, <1>2, <1>3, <2>1, <3>1, NothingRunsInto, ItEnds
  <2>3. EndOfWhitespace(part, q) < Len(part)
    <3>1. EndOfWhitespace(part, q) = IF EndOfWhitespace(text, p) < e
                                     THEN EndOfWhitespace(text, p) - i + 1 ELSE Len(part)
      <4>1. EndOfRun(SubSeq(text, i, e), p - i + 1, Whitespace) =
              IF EndOfRun(text, p, Whitespace) < e THEN EndOfRun(text, p, Whitespace) - i + 1
              ELSE Len(SubSeq(text, i, e))
        <5>1. /\ text \in Seq(Character) /\ i \in 1..Len(text) /\ e \in i..Len(text) /\ p \in i..e
          BY <1>1, <1>3
        <5>2. QED
          BY <5>1, RunsOfAPart
      <4>2. QED
        BY <1>2, <4>1 DEF EndOfWhitespace, q
    <3>2. EndOfWhitespace(text, p) < e /\ EndOfWhitespace(text, p) \in Nat /\ e \in Nat /\ i \in Nat
      BY <1>1, <2>2
    <3>3. EndOfWhitespace(part, q) = EndOfWhitespace(text, p) - i + 1 /\ Len(part) = e - i + 1
      BY <1>1, <3>1, <3>2
    <3>4. QED
      BY <3>2, <3>3
  <2>4. EndOfWhitespace(text, p) < Len(text)
    BY <1>1, <2>2
  <2>5. QED
    <3>1. q > 1 /\ Blank(part[q]) /\ ~ Blank(part[q-1]) /\ p > 1
      BY <1>3, <1>4, <1>6
    <3>2. Hyphenation(part, q - 1) <=> Hyphenation(text, p - 1)
      BY <1>5
    <3>3. BlanksCollapse(part, q) <=> BlanksCollapse(text, p)
      BY <1>6, <2>3, <2>4, <3>1, <3>2, <1>3 DEF BlanksCollapse
    <3>4. QED
      BY <3>3 DEF q
<1>7. CASE ~ (Blank(text[p]) /\ ~ Blank(text[p-1]))
  BY <1>4, <1>7 DEF BlanksCollapse, q
<1>8. QED
  BY <1>6, <1>7 DEF q

(* A passage by itself puts out what it puts out in its letter, except blanks *)
(* at its ends.                                                              *)
LEMMA ChunksOfAPassage ==
  ASSUME NEW text, NEW i, NEW j, NEW e, NEW part, IsPassage(text, i, j, e, part),
         NEW p \in i..e
  PROVE  Chunk(part, p - i + 1) =
           IF Blank(text[p]) /\ p \in {i, j} THEN << >> ELSE Chunk(text, p)
<1> DEFINE q == p - i + 1
<1>1. /\ text \in Seq(Character) /\ Len(text) \in Nat /\ i \in 1..Len(text)
      /\ j \in i..Len(text) /\ e \in j..Len(text) /\ e \in i..Len(text)
      /\ part \in Seq(Character) /\ Len(part) = e - i + 1
      /\ \A k \in i..e : k - i + 1 \in 1..Len(part) /\ part[k - i + 1] = text[k] /\ k \in 1..Len(text)
  BY APassageIs
<1>2. Chunk(text, i) # << >> /\ Chunk(text, j) # << >> /\ e = EndOfIt(text, j) /\ part = SubSeq(text, i, e)
  BY DEF IsPassage
<1>3. p \in 1..Len(text) /\ q \in 1..Len(part) /\ part[q] = text[p] /\ (p = i => q = 1)
  BY <1>1
<1>4. /\ BeginsCluster(part, q) <=> BeginsCluster(text, p)
      /\ BeginsCluster(text, p) => ClusterAt(part, q) = ClusterAt(text, p)
  BY ClustersOfAPassage
<1>5. Hyphenation(part, q) <=> Hyphenation(text, p)
  BY HyphensOfAPassage
<1>6. p \notin {i, j} => (BlanksCollapse(part, q) <=> BlanksCollapse(text, p))
  <2>1. p \notin {i, j} => p \in (i+1)..e /\ p # j
    BY <1>1
  <2>2. QED
    BY <2>1, BlanksOfAPassage
<1>7. p = j /\ Blank(text[p]) => EndOfWhitespace(part, q) = Len(part)
  <2>1. p = j /\ Blank(text[p]) => EndOfWhitespace(text, p) = e
    BY <1>2 DEF EndOfIt
  <2>2. EndOfRun(SubSeq(text, i, e), p - i + 1, Whitespace) =
          IF EndOfRun(text, p, Whitespace) < e THEN EndOfRun(text, p, Whitespace) - i + 1
          ELSE Len(SubSeq(text, i, e))
    BY <1>1, RunsOfAPart
  <2>3. e \in Nat /\ ~ (e < e)
    BY <1>1
  <2>4. QED
    BY <1>2, <2>1, <2>2, <2>3 DEF EndOfWhitespace
<1>a. /\ BlanksCollapse(part, q) => Blank(part[q]) /\ q > 1 /\ EndOfWhitespace(part, q) < Len(part)
      /\ BlanksCollapse(text, p) => Blank(text[p])
      /\ BeginsCluster(text, p) => ~ Blank(text[p])
  BY DEF BlanksCollapse, BeginsCluster
<1>b. Len(part) \in Nat /\ ~ (Len(part) < Len(part)) /\ ~ (1 > 1)
  BY <1>1
<1> HIDE DEF q
<1>8. CASE Blank(text[p]) /\ p \in {i, j}
  <2>1. ~ BeginsCluster(part, q)
    BY <1>4, <1>8, <1>a
  <2>2. ~ BlanksCollapse(part, q)
    BY <1>3, <1>7, <1>8, <1>a, <1>b
  <2>3. Chunk(part, q) = << >>
    BY <2>1, <2>2, Zenon DEF Chunk
  <2>4. QED
    BY <1>8, <2>3 DEF q
<1>9. CASE ~ (Blank(text[p]) /\ p \in {i, j})
  <2>1. BlanksCollapse(part, q) <=> BlanksCollapse(text, p)
    BY <1>3, <1>6, <1>9, <1>a
  <2>2. Chunk(part, q) = Chunk(text, p)
    BY <1>4, <1>5, <2>1 DEF Chunk
  <2>3. QED
    BY <1>9, <2>2 DEF q
<1>10. QED
  BY <1>8, <1>9

(* Lists that agree at every place are the same.                             *)
LEMMA SameList ==
  ASSUME NEW S, NEW s \in Seq(S), NEW t \in Seq(S), Len(s) = Len(t), \A k \in 1..Len(s) : s[k] = t[k]
  PROVE  s = t
  BY SMTT(40)

(* The stretch from the first place to the last is the list.                 *)
LEMMA WholeStretch ==
  ASSUME NEW S, NEW s \in Seq(S)
  PROVE  SubSeq(s, 1, Len(s)) = s
<1>1. Len(s) \in Nat /\ 1 <= Len(s) + 1 /\ Len(s) - 1 + 1 = Len(s) /\ \A k \in 1..Len(s) : k + 1 - 1 = k
  OBVIOUS
<1>2. /\ SubSeq(s, 1, Len(s)) \in Seq(S) /\ Len(SubSeq(s, 1, Len(s))) = Len(s)
      /\ \A k \in 1..Len(s) : SubSeq(s, 1, Len(s))[k] = s[k]
  <2>1. /\ SubSeq(s, 1, Len(s)) \in Seq(S) /\ Len(SubSeq(s, 1, Len(s))) = Len(s) - 1 + 1
        /\ \A k \in 1..(Len(s) - 1 + 1) : SubSeq(s, 1, Len(s))[k] = s[k + 1 - 1]
    BY <1>1, StretchIs
  <2>2. QED
    BY <1>1, <2>1
<1>3. QED
  BY <1>2, SameList

(* A list between two others is where they put it.                           *)
LEMMA BetweenTwo ==
  ASSUME NEW S, NEW p \in Seq(S), NEW m \in Seq(S), NEW t \in Seq(S)
  PROVE  /\ (p \o m) \o t \in Seq(S) /\ Len((p \o m) \o t) = Len(p) + Len(m) + Len(t)
         /\ SubSeq((p \o m) \o t, Len(p) + 1, Len(p) + Len(m)) = m
<1> DEFINE a == p \o m
           w == a \o t
<1>1. a \in Seq(S) /\ Len(a) = Len(p) + Len(m) /\ \A k \in 1..Len(m) : a[Len(p) + k] = m[k]
  BY BothAre
<1> HIDE DEF a
<1>2. w \in Seq(S) /\ Len(w) = Len(a) + Len(t) /\ \A k \in 1..Len(a) : w[k] = a[k]
  <2>1. a \in Seq(S)
    BY <1>1
  <2>2. QED
    BY <2>1, BothAre
<1> HIDE DEF w
<1>3. Len(p) \in Nat /\ Len(m) \in Nat /\ Len(t) \in Nat /\ Len(a) \in Nat
  BY <1>1
<1> DEFINE x == Len(p) + 1
           y == Len(p) + Len(m)
           u == SubSeq(w, x, y)
<1>4. /\ x \in Nat /\ y \in Nat /\ 1 <= x /\ x <= y + 1 /\ y <= Len(w) /\ y - x + 1 = Len(m)
      /\ \A k \in 1..Len(m) : k + x - 1 = Len(p) + k /\ Len(p) + k \in 1..Len(a)
  BY <1>1, <1>2, <1>3
<1> HIDE DEF x, y
<1>5. u \in Seq(S) /\ Len(u) = y - x + 1 /\ \A k \in 1..(y - x + 1) : u[k] = w[k + x - 1]
  BY <1>2, <1>4, StretchIs
<1> HIDE DEF u
<1>6. \A k \in 1..Len(m) : u[k] = m[k]
  BY <1>1, <1>2, <1>4, <1>5
<1>7. u = m
  <2>1. Len(u) = Len(m) /\ \A k \in 1..Len(u) : u[k] = m[k]
    BY <1>4, <1>5, <1>6
  <2>2. QED
    BY <1>5, <2>1, SameList
<1>8. QED
  BY <1>1, <1>2, <1>7 DEF u, w, a, x, y

(* Lists joined, as far as a place of them.                                  *)
UpTo(lists, k) == Len(FlattenSeq(SubSeq(lists, 1, k)))

(* Joined up to a place, and from there on.                                  *)
LEMMA JoinedInParts ==
  ASSUME NEW S, NEW lists \in Seq(Seq(S)), NEW a \in 0..Len(lists), NEW b \in a..Len(lists)
  PROVE  /\ SubSeq(lists, 1, a) \in Seq(Seq(S)) /\ SubSeq(lists, a + 1, b) \in Seq(Seq(S))
         /\ FlattenSeq(SubSeq(lists, 1, a)) \in Seq(S)
         /\ FlattenSeq(SubSeq(lists, a + 1, b)) \in Seq(S)
         /\ FlattenSeq(SubSeq(lists, 1, b)) =
              FlattenSeq(SubSeq(lists, 1, a)) \o FlattenSeq(SubSeq(lists, a + 1, b))
         /\ UpTo(lists, a) \in Nat /\ UpTo(lists, b) \in Nat
         /\ UpTo(lists, b) = UpTo(lists, a) + Len(FlattenSeq(SubSeq(lists, a + 1, b)))
<1> DEFINE s == SubSeq(lists, 1, a)
           t == SubSeq(lists, a + 1, b)
           A == Seq(S)
           f == FlattenSeq(s)
           g == FlattenSeq(t)
<1>1. a \in Nat /\ b \in Nat /\ Len(lists) \in Nat /\ a <= b /\ b <= Len(lists) /\ 0 <= a /\ 0 \in Nat
      /\ a + 1 \in Nat /\ 1 <= a + 1 /\ a + 1 <= b + 1 /\ 1 \in Nat /\ 1 <= 1 /\ a <= Len(lists)
  OBVIOUS
<1>2. lists \in Seq(A)
  OBVIOUS
<1> HIDE DEF A
<1>3. s \in Seq(A) /\ t \in Seq(A)
  BY <1>1, <1>2, StretchIs
<1>4. s \o t = SubSeq(lists, 1, b)
  <2>1. SubSeq(lists, 0 + 1, a) \o SubSeq(lists, a + 1, b) = SubSeq(lists, 0 + 1, b)
    BY <1>1, <1>2, StretchesJoin
  <2>2. 0 + 1 = 1
    OBVIOUS
  <2>3. QED
    BY <2>1, <2>2
<1> HIDE DEF s, t
<1>5. FlattenSeq(s \o t) = f \o g /\ f \in Seq(S) /\ g \in Seq(S)
  BY <1>3, FlattenedTogether, FlattenedIsAList DEF A
<1> HIDE DEF f, g
<1>6. Len(f \o g) = Len(f) + Len(g) /\ Len(f) \in Nat /\ Len(f \o g) \in Nat
  <2>1. f \o g \in Seq(S) /\ Len(f \o g) = Len(f) + Len(g)
    BY <1>5, BothAre
  <2>2. Len(f) \in Nat /\ Len(g) \in Nat
    BY <1>5
  <2>3. QED
    BY <2>1, <2>2
<1>7. FlattenSeq(SubSeq(lists, 1, b)) = f \o g
  BY <1>4, <1>5
<1>8. UpTo(lists, a) = Len(f) /\ UpTo(lists, b) = Len(f \o g)
  BY <1>7 DEF UpTo, f, s
<1>9. QED
  BY <1>3, <1>5, <1>6, <1>7, <1>8 DEF f, g, s, t, A

(* One more list makes what is joined so much longer.                        *)
LEMMA OneMorePart ==
  ASSUME NEW S, NEW lists \in Seq(Seq(S)), NEW k \in 1..Len(lists)
  PROVE  /\ lists[k] \in Seq(S) /\ SubSeq(lists, k, k) = <<lists[k]>>
         /\ FlattenSeq(SubSeq(lists, k, k)) = lists[k]
         /\ UpTo(lists, k - 1) \in Nat /\ UpTo(lists, k) = UpTo(lists, k - 1) + Len(lists[k])
<1>1. lists[k] \in Seq(S)
  OBVIOUS
<1>2. SubSeq(lists, k, k) = <<lists[k]>>
  <2> DEFINE A == Seq(S)
  <2>1. lists \in Seq(A) /\ k \in Nat /\ 1 <= k /\ k <= k + 1 /\ k <= Len(lists) /\ k - k + 1 = 1
        /\ 1 + k - 1 = k
    OBVIOUS
  <2> HIDE DEF A
  <2>2. /\ SubSeq(lists, k, k) \in Seq(A) /\ Len(SubSeq(lists, k, k)) = 1
        /\ \A l \in 1..1 : SubSeq(lists, k, k)[l] = lists[l + k - 1]
    BY <2>1, StretchIs
  <2>3. SubSeq(lists, k, k)[1] = lists[k]
    BY <2>1, <2>2
  <2>4. /\ <<lists[k]>> \in Seq(A) /\ Len(<<lists[k]>>) = 1 /\ <<lists[k]>>[1] = lists[k]
    BY <1>1 DEF A
  <2>5. \A l \in 1..Len(SubSeq(lists, k, k)) : SubSeq(lists, k, k)[l] = <<lists[k]>>[l]
    BY <2>2, <2>3, <2>4
  <2>6. QED
    BY <2>2, <2>4, <2>5, SameList
<1>3. FlattenSeq(SubSeq(lists, k, k)) = lists[k]
  BY <1>1, <1>2, OneAlone
<1>4. /\ UpTo(lists, k - 1) \in Nat
      /\ UpTo(lists, k) = UpTo(lists, k - 1) + Len(FlattenSeq(SubSeq(lists, (k - 1) + 1, k)))
  <2>1. k - 1 \in 0..Len(lists) /\ k \in (k - 1)..Len(lists)
    OBVIOUS
  <2>2. QED
    BY <2>1, JoinedInParts
<1>5. (k - 1) + 1 = k
  OBVIOUS
<1>6. QED
  BY <1>1, <1>2, <1>3, <1>4, <1>5

(* Some of the lists joined are a stretch of all of them joined.             *)
LEMMA AStretchOfWhatIsJoined ==
  ASSUME NEW S, NEW lists \in Seq(Seq(S)), NEW a \in 0..Len(lists), NEW b \in a..Len(lists)
  PROVE  /\ FlattenSeq(lists) \in Seq(S) /\ UpTo(lists, Len(lists)) = Len(FlattenSeq(lists))
         /\ UpTo(lists, 0) = 0
         /\ UpTo(lists, a) \in Nat /\ UpTo(lists, b) \in Nat /\ UpTo(lists, a) <= UpTo(lists, b)
         /\ UpTo(lists, b) <= Len(FlattenSeq(lists))
         /\ FlattenSeq(SubSeq(lists, a + 1, b)) =
              SubSeq(FlattenSeq(lists), UpTo(lists, a) + 1, UpTo(lists, b))
<1> DEFINE n == Len(lists)
           p == FlattenSeq(SubSeq(lists, 1, a))
           m == FlattenSeq(SubSeq(lists, a + 1, b))
           t == FlattenSeq(SubSeq(lists, b + 1, n))
<1>1. n \in Nat /\ b \in 0..n /\ n \in b..n /\ a \in 0..n /\ 0 \in 0..n /\ 0 \in 0..0
  OBVIOUS
<1>2. SubSeq(lists, 1, n) = lists
  BY WholeStretch
<1>3. /\ p \in Seq(S) /\ m \in Seq(S) /\ FlattenSeq(SubSeq(lists, 1, b)) = p \o m
      /\ UpTo(lists, a) \in Nat /\ UpTo(lists, b) \in Nat
      /\ UpTo(lists, b) = UpTo(lists, a) + Len(m) /\ UpTo(lists, a) = Len(p)
  BY JoinedInParts DEF UpTo
<1>4. /\ t \in Seq(S) /\ FlattenSeq(SubSeq(lists, 1, n)) = FlattenSeq(SubSeq(lists, 1, b)) \o t
  BY <1>1, JoinedInParts
<1>5. FlattenSeq(lists) = (p \o m) \o t
  BY <1>2, <1>3, <1>4
<1> HIDE DEF p, m, t, n
<1>6. /\ (p \o m) \o t \in Seq(S) /\ Len((p \o m) \o t) = Len(p) + Len(m) + Len(t)
      /\ SubSeq((p \o m) \o t, Len(p) + 1, Len(p) + Len(m)) = m
  BY <1>3, <1>4, BetweenTwo
<1>7. Len(p) \in Nat /\ Len(m) \in Nat /\ Len(t) \in Nat
  BY <1>3, <1>4
<1>8. UpTo(lists, n) = Len(FlattenSeq(lists))
  BY <1>2 DEF UpTo
<1>9. UpTo(lists, 0) = 0
  <2>1. SubSeq(lists, 1, 0) = << >>
    <3> DEFINE A == Seq(S)
    <3>1. lists \in Seq(A) /\ 0 \in Nat /\ 1 \in Nat /\ 1 <= 1 /\ 1 <= 0 + 1 /\ 0 <= Len(lists)
          /\ 0 - 1 + 1 = 0
      BY <1>1
    <3> HIDE DEF A
    <3>2. SubSeq(lists, 1, 0) \in Seq(A) /\ Len(SubSeq(lists, 1, 0)) = 0
      BY <3>1, StretchIs
    <3>3. QED
      BY <3>2
  <2>2. Len(FlattenSeq(SubSeq(lists, 1, 0))) = 0
    BY <2>1 DEF FlattenSeq
  <2>3. QED
    BY <2>2 DEF UpTo
<1>10. SubSeq(FlattenSeq(lists), UpTo(lists, a) + 1, UpTo(lists, b)) = m
  BY <1>3, <1>5, <1>6
<1>11. UpTo(lists, a) <= UpTo(lists, b) /\ UpTo(lists, b) <= Len(FlattenSeq(lists))
  BY <1>3, <1>5, <1>6, <1>7
<1>12. QED
  BY <1>3, <1>5, <1>6, <1>8, <1>9, <1>10, <1>11 DEF n, m

(* Nothing before or behind a list leaves the list.                          *)
LEMMA NothingAdded ==
  ASSUME NEW S, NEW s \in Seq(S)
  PROVE  s \o << >> = s /\ << >> \o s = s
  OBVIOUS

AreLists(S, u, v, z) == u \in Seq(S) /\ v \in Seq(S) /\ z \in Seq(S)

(* Three lists one after the other, however they are put together.           *)
LEMMA Associates ==
  ASSUME NEW S, NEW u, NEW v, NEW z, AreLists(S, u, v, z)
  PROVE  (u \o v) \o z = u \o (v \o z)
  BY SMTT(40) DEF AreLists

SameTogether(p, x, m, y, q) ==
  ((p \o x) \o m) \o (y \o q) = (p \o ((x \o m) \o y)) \o q

(* The same of five.                                                         *)
LEMMA FiveTogether ==
  ASSUME NEW S, NEW p, NEW x, NEW m, NEW y, NEW q,
         AreLists(S, p, x, m), AreLists(S, x, y, q)
  PROVE  SameTogether(p, x, m, y, q)
<1> DEFINE a == x \o m
           b == p \o a
<1>1. (p \o x) \o m = b
  BY Associates
<1>2. a \in Seq(S)
  BY BothAre DEF AreLists
<1>3. AreLists(S, p, a, y)
  BY <1>2 DEF AreLists
<1> HIDE DEF a
<1>4. b \in Seq(S)
  BY <1>2, BothAre DEF AreLists
<1>5. b \o y = p \o (a \o y)
  BY <1>3, Associates
<1>6. AreLists(S, b, y, q)
  BY <1>4 DEF AreLists
<1> HIDE DEF b
<1>7. (b \o y) \o q = b \o (y \o q)
  BY <1>6, Associates
<1>8. QED
  BY <1>1, <1>5, <1>7, Zenon DEF a, SameTogether

(* Empty lists joined are empty.                                             *)
LEMMA NothingIsJoined ==
  ASSUME NEW S, NEW lists \in Seq(Seq(S)), \A k \in 1..Len(lists) : lists[k] = << >>
  PROVE  FlattenSeq(lists) = << >>
<1> DEFINE n == Len(lists)
           T == {k \in 0..n : UpTo(lists, k) = 0}
<1>1. n \in Nat /\ 0 \in 0..n /\ n \in 0..n /\ n \in 0..n
  OBVIOUS
<1>2. 0 \in T
  <2>1. UpTo(lists, 0) = 0
    BY <1>1, AStretchOfWhatIsJoined
  <2>2. QED
    BY <1>1, <2>1
<1>3. ASSUME NEW k \in 1..n, k - 1 \in T PROVE k \in T
  <2>1. UpTo(lists, k) = UpTo(lists, k - 1) + Len(lists[k])
    BY OneMorePart
  <2>2. Len(lists[k]) = 0 /\ UpTo(lists, k - 1) = 0
    BY <1>3
  <2>3. QED
    BY <2>1, <2>2
<1>4. \A k \in 0..n : k \in T
  <2> HIDE DEF n, T
  <2>1. QED
    BY <1>1, <1>2, <1>3, EveryPlace
<1>5. Len(FlattenSeq(lists)) = 0 /\ FlattenSeq(lists) \in Seq(S)
  <2>1. UpTo(lists, n) = Len(FlattenSeq(lists)) /\ FlattenSeq(lists) \in Seq(S)
    BY <1>1, AStretchOfWhatIsJoined
  <2>2. QED
    BY <1>1, <1>4, <2>1
<1>6. QED
  BY <1>5

(* A text is stripped of the blank at its beginning and of the one at its end. *)
StripsTo(s, t) ==
  \/ s = <<"space">> /\ t = << >>
  \/ s # << >> /\ NoBlankIn(s) /\ t = s

(* What is stripped of a chunk is the chunk, or it is one blank.             *)
LEMMA BlankOrNot ==
  ASSUME NEW s \in Seq(Character), NEW t, StripsTo(s, t)
  PROVE  /\ t \in Seq(Character) /\ Len(s) \in Nat /\ Len(s) >= 1 /\ s # << >>
         /\ t = << >> => s = <<"space">> /\ Len(s) = 1 /\ s[1] = "space" /\ s[Len(s)] = "space"
         /\ t # << >> => t = s /\ s[1] # "space" /\ s[Len(s)] # "space"
<1>1. CASE s = <<"space">> /\ t = << >>
  <2>1. Len(s) = 1 /\ s[1] = "space" /\ t \in Seq(Character)
    BY <1>1
  <2>2. QED
    BY <1>1, <2>1
<1>2. CASE s # << >> /\ NoBlankIn(s) /\ t = s
  <2>1. Len(s) \in Nat /\ Len(s) >= 1
    BY <1>2
  <2>2. ~ Blank(s[1]) /\ ~ Blank(s[Len(s)])
    BY <1>2, <2>1 DEF NoBlankIn
  <2>3. QED
    BY <1>2, <2>1, <2>2 DEF Blank, Whitespace
<1>3. QED
  BY <1>1, <1>2 DEF StripsTo

StripsBoth(s, m, t, x, y) == Stripped((s \o m) \o t) = (x \o m) \o y

(* Stripping takes from the first and the last of three parts.               *)
LEMMA StrippedAtBothEnds ==
  ASSUME NEW s \in Seq(Character), NEW m \in Seq(Character), NEW t \in Seq(Character),
         NEW x, NEW y, StripsTo(s, x), StripsTo(t, y)
  PROVE  StripsBoth(s, m, t, x, y)
<1> DEFINE w == (s \o m) \o t
           from == IF w[1] = "space" THEN 1 ELSE 0
           to == IF w[Len(w)] = "space" THEN Len(w) - 1 ELSE Len(w)
<1>1. /\ x \in Seq(Character) /\ Len(s) \in Nat /\ Len(s) >= 1
      /\ x = << >> => s = <<"space">> /\ Len(s) = 1 /\ s[1] = "space"
      /\ x # << >> => x = s /\ s[1] # "space"
  BY BlankOrNot
<1>2. /\ y \in Seq(Character) /\ Len(t) \in Nat /\ Len(t) >= 1
      /\ y = << >> => t = <<"space">> /\ Len(t) = 1 /\ t[Len(t)] = "space"
      /\ y # << >> => y = t /\ t[Len(t)] # "space"
  BY BlankOrNot
<1>3. /\ s \o m \in Seq(Character) /\ Len(s \o m) = Len(s) + Len(m) /\ Len(m) \in Nat
      /\ \A k \in 1..Len(s) : (s \o m)[k] = s[k]
  BY BothAre
<1>4. /\ w \in Seq(Character) /\ Len(w) = Len(s \o m) + Len(t)
      /\ \A k \in 1..Len(s \o m) : w[k] = (s \o m)[k]
      /\ \A k \in 1..Len(t) : w[Len(s \o m) + k] = t[k]
  <2>1. s \o m \in Seq(Character)
    BY <1>3
  <2>2. QED
    BY <2>1, BothAre
<1> HIDE DEF w
<1>5. Len(w) = Len(s) + Len(m) + Len(t) /\ Len(w) >= 1 /\ w # << >>
  BY <1>1, <1>2, <1>3, <1>4
<1>6. w[1] = s[1]
  BY <1>1, <1>3, <1>4
<1>7. w[Len(w)] = t[Len(t)]
  BY <1>2, <1>3, <1>4, <1>5
<1>8. Stripped(w) = SubSeq(w, from + 1, to)
  BY <1>5 DEF Stripped, Cut
<1>a. from = Len(s) - Len(x)
  <2>1. CASE x = << >>
    <3>1. Len(s) = 1 /\ Len(x) = 0 /\ s[1] = "space"
      BY <1>1, <2>1
    <3>2. QED
      BY <1>6, <3>1
  <2>2. CASE x # << >>
    <3>1. x = s /\ s[1] # "space"
      BY <1>1, <2>2
    <3>2. QED
      BY <1>1, <1>6, <3>1
  <2>3. QED
    BY <2>1, <2>2
<1>b. to = Len(w) - (Len(t) - Len(y))
  <2>1. CASE y = << >>
    <3>1. Len(t) = 1 /\ Len(y) = 0 /\ t[Len(t)] = "space"
      BY <1>2, <2>1
    <3>2. Len(t) - Len(y) = 1
      BY <3>1
    <3>3. QED
      BY <1>7, <3>1, <3>2
  <2>2. CASE y # << >>
    <3>1. y = t /\ t[Len(t)] # "space"
      BY <1>2, <2>2
    <3>2. Len(t) - Len(y) = 0 /\ Len(w) \in Nat
      BY <1>2, <1>4, <3>1
    <3>3. QED
      BY <1>7, <3>1, <3>2
  <2>3. QED
    BY <2>1, <2>2
<1>9. from = Len(s) - Len(x) /\ to = Len(w) - (Len(t) - Len(y))
  BY <1>a, <1>b
<1> HIDE DEF from, to
<1>10. PICK p \in Seq(Character) : s = p \o x /\ Len(p) = Len(s) - Len(x)
  <2>1. CASE x = << >>
    <3>1. s = s \o << >> /\ Len(<< >>) = 0 /\ Len(s) = Len(s) - 0
      BY <1>1, NothingAdded
    <3>2. QED
      BY <2>1, <3>1
  <2>2. CASE x # << >>
    <3>1. s = << >> \o s /\ Len(<< >>) = Len(s) - Len(s) /\ << >> \in Seq(Character)
      BY <1>1, NothingAdded
    <3>2. QED
      BY <1>1, <2>2, <3>1
  <2>3. QED
    BY <2>1, <2>2
<1>11. PICK q \in Seq(Character) : t = y \o q /\ Len(q) = Len(t) - Len(y)
  <2>1. CASE y = << >>
    <3>1. t = << >> \o t /\ Len(<< >>) = 0 /\ Len(t) = Len(t) - 0
      BY <1>2, NothingAdded
    <3>2. QED
      BY <2>1, <3>1
  <2>2. CASE y # << >>
    <3>1. t = t \o << >> /\ Len(<< >>) = Len(t) - Len(t) /\ << >> \in Seq(Character)
      BY <1>2, NothingAdded
    <3>2. QED
      BY <1>2, <2>2, <3>1
  <2>3. QED
    BY <2>1, <2>2
<1> DEFINE core == (x \o m) \o y
<1>12. core \in Seq(Character) /\ Len(core) = Len(x) + Len(m) + Len(y)
  <2>1. x \o m \in Seq(Character) /\ Len(x \o m) = Len(x) + Len(m)
    BY <1>1, BothAre
  <2>2. (x \o m) \o y \in Seq(Character) /\ Len((x \o m) \o y) = Len(x \o m) + Len(y)
    BY <1>2, <2>1, BothAre
  <2>3. QED
    BY <2>1, <2>2
<1>13. w = (p \o core) \o q
  <2>1. w = ((p \o x) \o m) \o (y \o q)
    BY <1>10, <1>11 DEF w
  <2>2. AreLists(Character, p, x, m) /\ AreLists(Character, x, y, q)
    BY <1>1, <1>2 DEF AreLists
  <2>3. SameTogether(p, x, m, y, q)
    BY <2>2, FiveTogether
  <2>4. QED
    BY <2>1, <2>3, Zenon DEF SameTogether
<1> HIDE DEF core
<1>14. SubSeq((p \o core) \o q, Len(p) + 1, Len(p) + Len(core)) = core
  BY <1>12, BetweenTwo
<1>15. from = Len(p) /\ to = Len(p) + Len(core)
  <2>1. Len(x) \in Nat /\ Len(y) \in Nat
    BY <1>1, <1>2
  <2>2. QED
    BY <1>1, <1>2, <1>3, <1>5, <1>9, <1>10, <1>12, <2>1
<1>16. QED
  BY <1>8, <1>13, <1>14, <1>15, Zenon DEF core, w, StripsBoth

(* Stripping takes from a part that stands alone.                            *)
LEMMA StrippedAlone ==
  ASSUME NEW s \in Seq(Character), NEW t, StripsTo(s, t)
  PROVE  Stripped(s) = t
<1>1. /\ t \in Seq(Character) /\ Len(s) \in Nat /\ Len(s) >= 1 /\ s # << >>
      /\ t = << >> => s = <<"space">> /\ Len(s) = 1 /\ s[1] = "space" /\ s[Len(s)] = "space"
      /\ t # << >> => t = s /\ s[1] # "space" /\ s[Len(s)] # "space"
  BY BlankOrNot
<1>2. CASE t = << >>
  <2>1. Stripped(s) = SubSeq(s, 2, 0)
    <3>1. s # << >> /\ s[1] = "space" /\ s[Len(s)] = "space" /\ 1 + 1 = 2 /\ Len(s) - 1 = 0
      BY <1>1, <1>2
    <3>2. QED
      BY <3>1, Zenon DEF Stripped, Cut
  <2>2. SubSeq(s, 2, 0) = << >>
    BY SMTT(40)
  <2>3. QED
    BY <1>2, <2>1, <2>2
<1>3. CASE t # << >>
  <2>1. Stripped(s) = SubSeq(s, 1, Len(s))
    <3>1. s # << >> /\ s[1] # "space" /\ s[Len(s)] # "space" /\ 0 + 1 = 1
      BY <1>1, <1>3
    <3>2. QED
      BY <3>1, Zenon DEF Stripped, Cut
  <2>2. SubSeq(s, 1, Len(s)) = s
    BY WholeStretch
  <2>3. QED
    BY <1>1, <1>3, <2>1, <2>2
<1>4. QED
  BY <1>2, <1>3

(* Empty lists at the end add nothing.                                       *)
LEMMA NothingAtTheEnd ==
  ASSUME NEW S, NEW lists \in Seq(Seq(S)), NEW m \in 1..Len(lists),
         \A k \in (m+1)..Len(lists) : lists[k] = << >>
  PROVE  /\ FlattenSeq(lists) = FlattenSeq(SubSeq(lists, 1, m))
         /\ UpTo(lists, m) = UpTo(lists, Len(lists))
<1> DEFINE n == Len(lists)
           A == Seq(S)
           rest == SubSeq(lists, m + 1, n)
           first == FlattenSeq(SubSeq(lists, 1, m))
<1>1. /\ m \in 0..Len(lists) /\ n \in m..Len(lists) /\ m \in Nat /\ n \in Nat /\ m <= n
      /\ lists \in Seq(A) /\ n = Len(lists)
  OBVIOUS
<1> HIDE DEF A, n
<1>2. rest \in Seq(A) /\ Len(rest) = n - m /\ \A k \in 1..(n - m) : rest[k] = lists[k + (m + 1) - 1]
  <2>1. /\ rest \in Seq(A) /\ Len(rest) = n - (m + 1) + 1
        /\ \A k \in 1..(n - (m + 1) + 1) : rest[k] = lists[k + (m + 1) - 1]
    <3>1. /\ lists \in Seq(A) /\ m + 1 \in Nat /\ n \in Nat /\ 1 <= m + 1 /\ m + 1 <= n + 1
          /\ n <= Len(lists)
      BY <1>1
    <3>2. QED
      BY <3>1, StretchIs
  <2>2. n - (m + 1) + 1 = n - m
    BY <1>1
  <2>3. QED
    BY <2>1, <2>2
<1>3. /\ first \in Seq(S) /\ FlattenSeq(SubSeq(lists, 1, n)) = first \o FlattenSeq(rest)
      /\ FlattenSeq(rest) \in Seq(S)
      /\ UpTo(lists, n) = UpTo(lists, m) + Len(FlattenSeq(rest)) /\ UpTo(lists, m) \in Nat
  <2>1. m \in 0..Len(lists) /\ n \in m..Len(lists)
    BY <1>1
  <2>2. QED
    BY <2>1, JoinedInParts
<1> HIDE DEF rest, first
<1>4. ASSUME NEW k \in 1..Len(rest) PROVE rest[k] = << >>
  <2>1. k + (m + 1) - 1 \in (m+1)..Len(lists) /\ k \in 1..(n - m)
    <3>1. k \in 1..(n - m)
      BY <1>2
    <3>2. QED
      BY <1>1, <3>1
  <2>2. QED
    BY <1>2, <2>1
<1>5. FlattenSeq(rest) = << >>
  BY <1>2, <1>4, NothingIsJoined DEF A
<1>6. SubSeq(lists, 1, n) = lists
  <2>1. SubSeq(lists, 1, Len(lists)) = lists
    BY WholeStretch
  <2>2. QED
    BY <1>1, <2>1
<1>7. first \o << >> = first /\ Len(<< >>) = 0
  BY <1>3, NothingAdded
<1>8. UpTo(lists, m) = UpTo(lists, n)
  BY <1>3, <1>5, <1>7
<1>9. QED
  BY <1>3, <1>5, <1>6, <1>7, <1>8, Zenon DEF first, n

(* Lists joined are the first, what is between, and the last.                *)
LEMMA FirstMiddleLast ==
  ASSUME NEW S, NEW lists \in Seq(Seq(S)), NEW m \in 2..Len(lists)
  PROVE  /\ lists[1] \in Seq(S) /\ lists[m] \in Seq(S)
         /\ FlattenSeq(SubSeq(lists, 2, m - 1)) \in Seq(S)
         /\ FlattenSeq(SubSeq(lists, 1, m)) =
              (lists[1] \o FlattenSeq(SubSeq(lists, 2, m - 1))) \o lists[m]
<1> DEFINE l == m - 1
<1>1. /\ 1 \in 0..Len(lists) /\ l \in 1..Len(lists) /\ 1 \in 1..Len(lists) /\ m \in 1..Len(lists)
      /\ l \in 0..Len(lists) /\ m \in l..Len(lists) /\ l + 1 = m /\ 1 + 1 = 2
  OBVIOUS
<1> HIDE DEF l
<1>2. /\ FlattenSeq(SubSeq(lists, 2, l)) \in Seq(S)
      /\ FlattenSeq(SubSeq(lists, 1, l)) =
              FlattenSeq(SubSeq(lists, 1, 1)) \o FlattenSeq(SubSeq(lists, 2, l))
  <2>1. /\ FlattenSeq(SubSeq(lists, 1 + 1, l)) \in Seq(S)
        /\ FlattenSeq(SubSeq(lists, 1, l)) =
              FlattenSeq(SubSeq(lists, 1, 1)) \o FlattenSeq(SubSeq(lists, 1 + 1, l))
    BY <1>1, JoinedInParts
  <2>2. QED
    BY <1>1, <2>1
<1>3. FlattenSeq(SubSeq(lists, 1, m)) =
        FlattenSeq(SubSeq(lists, 1, l)) \o FlattenSeq(SubSeq(lists, m, m))
  <2>1. FlattenSeq(SubSeq(lists, 1, m)) =
          FlattenSeq(SubSeq(lists, 1, l)) \o FlattenSeq(SubSeq(lists, l + 1, m))
    BY <1>1, JoinedInParts
  <2>2. QED
    BY <1>1, <2>1
<1>4. /\ FlattenSeq(SubSeq(lists, 1, 1)) = lists[1] /\ FlattenSeq(SubSeq(lists, m, m)) = lists[m]
      /\ lists[1] \in Seq(S) /\ lists[m] \in Seq(S)
  BY <1>1, OneMorePart
<1>5. QED
  BY <1>2, <1>3, <1>4, Zenon DEF l

(* Stripping what is joined is joining what is stripped at the ends.         *)
LEMMA TrimmedLists ==
  ASSUME NEW lists \in Seq(Seq(Character)), NEW trimmed \in Seq(Seq(Character)),
         Len(trimmed) = Len(lists), NEW m \in 1..Len(lists),
         \A k \in (m+1)..Len(lists) : lists[k] = << >> /\ trimmed[k] = << >>,
         \A k \in 2..(m-1) : trimmed[k] = lists[k],
         StripsTo(lists[1], trimmed[1]), StripsTo(lists[m], trimmed[m])
  PROVE  FlattenSeq(trimmed) = Stripped(FlattenSeq(lists))
<1>1. Len(lists) \in Nat /\ 1 \in 1..Len(lists) /\ m \in 1..Len(trimmed) /\ 1 \in 1..Len(trimmed)
  OBVIOUS
<1>2. /\ FlattenSeq(lists) = FlattenSeq(SubSeq(lists, 1, m))
      /\ FlattenSeq(trimmed) = FlattenSeq(SubSeq(trimmed, 1, m))
  BY <1>1, NothingAtTheEnd
<1>3. CASE m = 1
  <2>1. /\ FlattenSeq(SubSeq(lists, 1, 1)) = lists[1] /\ lists[1] \in Seq(Character)
        /\ FlattenSeq(SubSeq(trimmed, 1, 1)) = trimmed[1]
    BY <1>1, OneMorePart
  <2>2. Stripped(lists[1]) = trimmed[1]
    BY <2>1, StrippedAlone
  <2>3. QED
    BY <1>2, <1>3, <2>1, <2>2
<1>4. CASE m # 1
  <2> DEFINE a == SubSeq(lists, 2, m - 1)
             b == SubSeq(trimmed, 2, m - 1)
             A == Seq(Character)
             mid == FlattenSeq(a)
  <2>1. m \in 2..Len(lists) /\ m \in 2..Len(trimmed)
    BY <1>4
  <2>2. a = b
    <3>1. /\ lists \in Seq(A) /\ trimmed \in Seq(A) /\ 2 \in Nat /\ m - 1 \in Nat /\ 1 <= 2 /\ 2 <= (m - 1) + 1
          /\ m - 1 <= Len(lists) /\ m - 1 <= Len(trimmed) /\ (m - 1) - 2 + 1 = m - 2
      BY <2>1
    <3> HIDE DEF A
    <3>2. /\ a \in Seq(A) /\ Len(a) = m - 2 /\ \A k \in 1..(m - 2) : a[k] = lists[k + 2 - 1]
      BY <3>1, StretchIs
    <3>3. /\ b \in Seq(A) /\ Len(b) = m - 2 /\ \A k \in 1..(m - 2) : b[k] = trimmed[k + 2 - 1]
      BY <3>1, StretchIs
    <3> HIDE DEF a, b
    <3>4. \A k \in 1..(m - 2) : k + 2 - 1 \in 2..(m - 1)
      BY <2>1
    <3>5. \A k \in 1..(m - 2) : a[k] = b[k]
      BY <3>2, <3>3, <3>4
    <3>6. QED
      BY <3>2, <3>3, <3>5, SameList
  <2>3. /\ lists[1] \in Seq(Character) /\ lists[m] \in Seq(Character) /\ mid \in Seq(Character)
        /\ FlattenSeq(SubSeq(lists, 1, m)) = (lists[1] \o mid) \o lists[m]
    BY <2>1, FirstMiddleLast
  <2>4. FlattenSeq(SubSeq(trimmed, 1, m)) = (trimmed[1] \o mid) \o trimmed[m]
    <3>1. FlattenSeq(SubSeq(trimmed, 1, m)) = (trimmed[1] \o FlattenSeq(b)) \o trimmed[m]
      BY <2>1, FirstMiddleLast
    <3>2. QED
      BY <2>2, <3>1
  <2> HIDE DEF mid
  <2>5. Stripped((lists[1] \o mid) \o lists[m]) = (trimmed[1] \o mid) \o trimmed[m]
    <3>1. StripsBoth(lists[1], mid, lists[m], trimmed[1], trimmed[m])
      BY <2>3, StrippedAtBothEnds
    <3>2. QED
      BY <3>1 DEF StripsBoth
  <2>6. QED
    BY <1>2, <2>3, <2>4, <2>5, Zenon
<1>5. QED
  BY <1>3, <1>4

(* A letter is put out chunk after chunk.                                    *)
Chunks(text) == [p \in 1..Len(text) |-> Chunk(text, p)]

(* The normalized letter is its chunks joined.                               *)
LEMMA ChunksAre ==
  ASSUME NEW text \in Seq(Character)
  PROVE  /\ Chunks(text) \in Seq(Seq(Character)) /\ Len(Chunks(text)) = Len(text)
         /\ \A p \in 1..Len(text) : Chunks(text)[p] = Chunk(text, p)
         /\ Normalized(text) = FlattenSeq(Chunks(text))
         /\ Normalized(text) \in Seq(Character)
<1> DEFINE n == Len(text)
           S == Seq(Character)
           C == Chunks(text)
           e == Emissions(text)
<1>1. n \in Nat /\ DOMAIN text = 1..n
  OBVIOUS
<1>2. \A p \in 1..n : Chunk(text, p) \in S
  BY ChunkIs
<1>3. C = [p \in 1..n |-> Chunk(text, p)]
  BY DEF Chunks
<1> HIDE DEF n, C, S
<1>4. C \in [1..n -> S] /\ \A p \in 1..n : C[p] = Chunk(text, p)
  BY <1>2, <1>3
<1>5. C \in Seq(S) /\ Len(C) = n
  BY <1>1, <1>4, FunctionsAreLists
<1>6. DOMAIN e = 1..n /\ \A p \in 1..n : e[p].chunk = Chunk(text, p)
  BY <1>1 DEF Emissions
<1>7. [p \in DOMAIN e |-> e[p].chunk] = C
  BY <1>3, <1>6
<1>8. Normalized(text) = FlattenSeq(C)
  BY <1>7 DEF Normalized, Joined
<1>9. FlattenSeq(C) \in S
  BY <1>5, FlattenedIsAList DEF S
<1>10. QED
  BY <1>4, <1>5, <1>8, <1>9 DEF n, C, S

(* A passage of a letter normalized by itself is the stretch of the normalized *)
(* letter that came from it, stripped.                                       *)
LEMMA PassagesNormalize ==
  ASSUME NEW text, NEW i, NEW j, NEW e, NEW part, IsPassage(text, i, j, e, part)
  PROVE  Normalized(part) =
           Stripped(SubSeq(Normalized(text), UpTo(Chunks(text), i - 1) + 1, UpTo(Chunks(text), j)))
<1> DEFINE C == Chunks(text)
           D == Chunks(part)
           K == SubSeq(C, i, e)
           A == Seq(Character)
           m == j - i + 1
           n == e - i + 1
           h == i - 1
<1>1. /\ text \in Seq(Character) /\ Len(text) \in Nat /\ i \in 1..Len(text)
      /\ j \in i..Len(text) /\ e \in j..Len(text) /\ e \in i..Len(text)
      /\ part \in Seq(Character) /\ Len(part) = e - i + 1
      /\ \A k \in i..e : k - i + 1 \in 1..Len(part) /\ part[k - i + 1] = text[k] /\ k \in 1..Len(text)
  BY APassageIs
<1>2. Chunk(text, i) # << >> /\ Chunk(text, j) # << >> /\ e = EndOfIt(text, j)
  BY DEF IsPassage
<1>3. /\ C \in Seq(A) /\ Len(C) = Len(text) /\ \A p \in 1..Len(text) : C[p] = Chunk(text, p)
      /\ Normalized(text) = FlattenSeq(C)
  BY <1>1, ChunksAre
<1>4. /\ D \in Seq(A) /\ Len(D) = n /\ \A q \in 1..n : D[q] = Chunk(part, q)
      /\ Normalized(part) = FlattenSeq(D)
  <2>1. /\ D \in Seq(A) /\ Len(D) = Len(part) /\ \A q \in 1..Len(part) : D[q] = Chunk(part, q)
        /\ Normalized(part) = FlattenSeq(D)
    BY <1>1, ChunksAre
  <2>2. QED
    BY <1>1, <2>1
<1> HIDE DEF C, D, A
<1>5. K \in Seq(A) /\ Len(K) = n /\ \A k \in 1..n : K[k] = C[k + i - 1]
  <2>1. i \in Nat /\ e \in Nat /\ 1 <= i /\ i <= e + 1 /\ e <= Len(C)
    BY <1>1, <1>3
  <2>2. QED
    BY <1>3, <2>1, StretchIs
<1> HIDE DEF K
<1>6. /\ m \in 1..n /\ n \in Nat /\ h \in 0..Len(C) /\ e \in h..Len(C) /\ h + 1 = i
      /\ j \in h..Len(C) /\ j \in Nat /\ i \in Nat /\ e \in Nat /\ h \in Nat
      /\ 1 + i - 1 = i /\ m + i - 1 = j /\ i - i + 1 = 1
  BY <1>1, <1>3
<1>7. ASSUME NEW q \in 1..n
      PROVE  /\ K[q] = Chunk(text, q + i - 1) /\ q + i - 1 \in i..e
             /\ D[q] = IF Blank(text[q + i - 1]) /\ q + i - 1 \in {i, j} THEN << >>
                       ELSE Chunk(text, q + i - 1)
  <2> DEFINE p == q + i - 1
  <2>1. p \in i..e /\ p - i + 1 = q /\ p \in 1..Len(text)
    BY <1>1
  <2>2. K[q] = Chunk(text, p)
    BY <1>3, <1>5, <2>1
  <2> HIDE DEF p
  <2>3. Chunk(part, p - i + 1) = IF Blank(text[p]) /\ p \in {i, j} THEN << >> ELSE Chunk(text, p)
    BY <2>1, ChunksOfAPassage
  <2>4. D[q] = Chunk(part, q)
    BY <1>4
  <2>5. QED
    BY <2>1, <2>2, <2>3, <2>4 DEF p
<1> HIDE DEF m, n, h
<1>8. ASSUME NEW q \in 1..n, q + i - 1 \in {i, j} PROVE StripsTo(K[q], D[q])
  <2> DEFINE p == q + i - 1
  <2>1. K[q] = Chunk(text, p) /\ p \in {i, j} /\ p \in 1..Len(text) /\ Chunk(text, p) # << >>
        /\ D[q] = IF Blank(text[p]) THEN << >> ELSE Chunk(text, p)
    BY <1>1, <1>2, <1>7, <1>8
  <2> HIDE DEF p
  <2>2. CASE Blank(text[p])
    <3>1. Chunk(text, p) = <<"space">>
      BY <1>1, <2>1, <2>2, ChunkIs
    <3>2. QED
      BY <2>1, <2>2, <3>1 DEF StripsTo
  <2>3. CASE ~ Blank(text[p])
    <3>1. NoBlankIn(Chunk(text, p))
      BY <1>1, <2>1, <2>3, ChunkIs
    <3>2. QED
      BY <2>1, <2>3, <3>1 DEF StripsTo
  <2>4. QED
    BY <2>2, <2>3
<1>9. StripsTo(K[1], D[1]) /\ StripsTo(K[m], D[m])
  <2>1. 1 \in 1..n /\ m \in 1..n
    BY <1>6
  <2>2. QED
    BY <1>6, <1>8, <2>1
<1>10. \A q \in (m+1)..n : K[q] = << >> /\ D[q] = << >>
  <2> SUFFICES ASSUME NEW q \in (m+1)..n PROVE K[q] = << >> /\ D[q] = << >>
    OBVIOUS
  <2>1. q \in 1..n /\ q + i - 1 \in (j+1)..EndOfIt(text, j)
    <3>1. q \in 1..n /\ q \in Nat /\ q >= m + 1 /\ q <= n
      BY <1>6
    <3>2. q + i - 1 \in (j+1)..e
      BY <1>6, <3>1 DEF m, n
    <3>3. QED
      BY <1>2, <3>1, <3>2
  <2>2. Chunk(text, q + i - 1) = << >>
    BY <1>1, <2>1, NothingBehind
  <2>3. QED
    BY <1>7, <2>1, <2>2
<1>11. \A q \in 2..(m-1) : D[q] = K[q]
  <2> SUFFICES ASSUME NEW q \in 2..(m-1) PROVE D[q] = K[q]
    OBVIOUS
  <2>1. q \in 1..n /\ q + i - 1 \notin {i, j}
    BY <1>6 DEF m
  <2>2. QED
    BY <1>7, <2>1
<1>12. FlattenSeq(D) = Stripped(FlattenSeq(K))
  <2>1. /\ K \in Seq(Seq(Character)) /\ D \in Seq(Seq(Character)) /\ Len(D) = Len(K)
        /\ m \in 1..Len(K)
        /\ \A q \in (m+1)..Len(K) : K[q] = << >> /\ D[q] = << >>
    BY <1>4, <1>5, <1>6, <1>10 DEF A
  <2>2. QED
    BY <1>9, <1>11, <2>1, TrimmedLists
<1>13. FlattenSeq(K) = SubSeq(Normalized(text), UpTo(C, h) + 1, UpTo(C, e))
  <2>1. FlattenSeq(SubSeq(C, h + 1, e)) = SubSeq(FlattenSeq(C), UpTo(C, h) + 1, UpTo(C, e))
    BY <1>3, <1>6, AStretchOfWhatIsJoined DEF A
  <2>2. QED
    BY <1>3, <1>6, <2>1 DEF K
<1>14. UpTo(C, e) = UpTo(C, j)
  <2> DEFINE T == {k \in 0..(e - j) : UpTo(C, j + k) = UpTo(C, j)}
  <2>1. 0 \in T /\ e - j \in Nat /\ e - j \in 0..(e - j) /\ j + (e - j) = e /\ j + 0 = j
    BY <1>1
  <2>2. ASSUME NEW k \in 1..(e - j), k - 1 \in T PROVE k \in T
    <3> DEFINE p == j + k
    <3>1. p \in (j+1)..EndOfIt(text, j) /\ p \in 1..Len(C) /\ p - 1 = j + (k - 1) /\ k \in 0..(e - j)
      BY <1>1, <1>2, <1>3
    <3>2. C[p] = << >>
      BY <1>1, <1>3, <3>1, NothingBehind
    <3>3. UpTo(C, p - 1) = UpTo(C, j)
      BY <2>2, <3>1
    <3> HIDE DEF p
    <3>4. UpTo(C, p - 1) \in Nat /\ UpTo(C, p) = UpTo(C, p - 1) + Len(C[p])
      BY <1>3, <3>1, OneMorePart DEF A
    <3>5. UpTo(C, p) = UpTo(C, j)
      BY <3>2, <3>3, <3>4
    <3>6. QED
      BY <3>1, <3>5 DEF p
  <2>3. \A k \in 0..(e - j) : k \in T
    <3> DEFINE d == e - j
    <3>1. d \in Nat /\ 0 \in T /\ \A k \in 1..d : k - 1 \in T => k \in T
      BY <2>1, <2>2
    <3> HIDE DEF d, T
    <3>2. \A k \in 0..d : k \in T
      BY <3>1, EveryPlace
    <3>3. QED
      BY <3>2 DEF d
  <2>4. QED
    BY <2>1, <2>3
<1>15. QED
  BY <1>4, <1>12, <1>13, <1>14 DEF C, h

(* The segments of a letter, as its emissions come.                          *)
Segment == [normStart : Nat, normEnd : Nat, origStart : Nat, origEnd : Nat]
Emission == [chunk : Seq(Character), from : Nat, to : Nat]

ReachedBy(segments) == IF segments = << >> THEN 0 ELSE segments[Len(segments)].normEnd
SegmentOf(segments, e) ==
  [normStart |-> ReachedBy(segments), normEnd |-> ReachedBy(segments) + Len(e.chunk),
   origStart |-> e.from, origEnd |-> e.to]
MergesInto(segments, e) ==
  segments # << >> /\ Merges(segments[Len(segments)], SegmentOf(segments, e))

(* One emission extends the last segment or adds one.                        *)
LEMMA EmittedOne ==
  ASSUME NEW segments \in Seq(Segment), NEW e \in Emission
  PROVE  LET n == Len(segments)
             t == WithEmission(segments, e)
         IN  /\ t \in Seq(Segment) /\ n \in Nat /\ ReachedBy(segments) \in Nat
             /\ SegmentOf(segments, e) \in Segment
             /\ e.chunk = << >> => t = segments
             /\ e.chunk # << >> /\ MergesInto(segments, e) =>
                  /\ n >= 1 /\ Len(t) = n /\ \A x \in 1..(n-1) : t[x] = segments[x]
                  /\ t[n] = [segments[n] EXCEPT !.normEnd = SegmentOf(segments, e).normEnd,
                                                !.origEnd = SegmentOf(segments, e).origEnd]
             /\ e.chunk # << >> /\ ~ MergesInto(segments, e) =>
                  /\ Len(t) = n + 1 /\ \A x \in 1..n : t[x] = segments[x]
                  /\ t[n+1] = SegmentOf(segments, e)
<1> DEFINE n == Len(segments)
           t == WithEmission(segments, e)
           new == SegmentOf(segments, e)
           last == segments[n]
           wider == [last EXCEPT !.normEnd = new.normEnd, !.origEnd = new.origEnd]
           front == SubSeq(segments, 1, n - 1)
<1>1. n \in Nat /\ (segments # << >> => n >= 1 /\ last \in Segment)
  OBVIOUS
<1>2. ReachedBy(segments) \in Nat
  BY <1>1 DEF ReachedBy, Segment
<1>3. new \in Segment
  <2>1. Len(e.chunk) \in Nat /\ e.from \in Nat /\ e.to \in Nat
    BY DEF Emission
  <2>2. ReachedBy(segments) + Len(e.chunk) \in Nat
    BY <1>2, <2>1
  <2>3. QED
    BY <1>2, <2>1, <2>2 DEF SegmentOf, Segment
<1>4. t = IF e.chunk = << >> THEN segments
          ELSE IF MergesInto(segments, e) THEN Append(front, wider) ELSE Append(segments, new)
  BY Zenon DEF WithEmission, MergesInto, ReachedBy, SegmentOf, Last, Front
<1> HIDE DEF t
<1>5. CASE e.chunk = << >>
  BY <1>1, <1>2, <1>3, <1>4, <1>5 DEF t
<1>6. CASE e.chunk # << >> /\ MergesInto(segments, e)
  <2>1. segments # << >> /\ n >= 1 /\ last \in Segment
    BY <1>1, <1>6 DEF MergesInto
  <2>2. wider \in Segment
    BY <1>3, <2>1 DEF Segment
  <2>3. front \in Seq(Segment) /\ Len(front) = n - 1 /\ \A x \in 1..(n-1) : front[x] = segments[x]
    <3>1. 1 \in Nat /\ n - 1 \in Nat /\ 1 <= 1 /\ 1 <= (n - 1) + 1 /\ n - 1 <= Len(segments) /\ (n - 1) - 1 + 1 = n - 1
      BY <1>1, <2>1
    <3>2. /\ front \in Seq(Segment) /\ Len(front) = n - 1
          /\ \A x \in 1..(n-1) : front[x] = segments[x + 1 - 1]
      BY <3>1, StretchIs
    <3>3. \A x \in 1..(n-1) : x + 1 - 1 = x
      BY <1>1
    <3>4. QED
      BY <3>2, <3>3
  <2>4. t = Append(front, wider)
    BY <1>4, <1>6
  <2> HIDE DEF front, wider
  <2>5. /\ t \in Seq(Segment) /\ Len(t) = Len(front) + 1 /\ \A x \in 1..Len(front) : t[x] = front[x]
        /\ t[Len(front)+1] = wider
    BY <2>2, <2>3, <2>4, AppendedElements
  <2>6. Len(front) + 1 = n
    BY <1>1, <2>3
  <2>7. Len(t) = n /\ t[n] = wider /\ \A x \in 1..(n-1) : t[x] = segments[x]
    BY <2>3, <2>5, <2>6
  <2>8. QED
    BY <1>1, <1>2, <1>3, <1>6, <2>1, <2>5, <2>7 DEF t, wider
<1>7. CASE e.chunk # << >> /\ ~ MergesInto(segments, e)
  <2>1. t = Append(segments, new)
    BY <1>4, <1>7
  <2>2. /\ t \in Seq(Segment) /\ Len(t) = n + 1 /\ \A x \in 1..n : t[x] = segments[x]
        /\ t[n+1] = new
    <3> HIDE DEF new
    <3>1. QED
      BY <1>3, <2>1, AppendedElements
  <2>3. QED
    BY <1>1, <1>2, <1>3, <1>7, <2>2 DEF t
<1>8. QED
  BY <1>5, <1>6, <1>7

SegmentSteps(emitted) ==
  {r \in [0..Len(emitted) -> Seq(Segment)] :
     /\ r[0] = << >>
     /\ \A k \in 1..Len(emitted) : r[k] = WithEmission(r[k-1], emitted[k])
     /\ Segments(emitted) = r[Len(emitted)]}

(* The segments of a letter are had emission by emission.                    *)
LEMMA SegmentsComeStepByStep ==
  ASSUME NEW emitted \in Seq(Emission)
  PROVE  \E r : r \in SegmentSteps(emitted)
<1> DEFINE n == Len(emitted)
           A == Seq(Segment)
           g == [k \in 1..n |-> [a \in A |-> WithEmission(a, emitted[k])]]
           Folds(h) == h = [s \in SUBSET DOMAIN emitted |->
                              IF s = {} THEN << >>
                              ELSE WithEmission(h[s \ {Max(s)}], emitted[Max(s)])]
           it == CHOOSE h : Folds(h)
           base == << >>
           r == [k \in 0..n |-> it[1..k]]
<1>1. n \in Nat /\ DOMAIN emitted = 1..n /\ \A k \in 1..n : emitted[k] \in Emission
  OBVIOUS
<1>2. Segments(emitted) = it[DOMAIN emitted]
  BY Zenon DEF Segments, FoldLeft, MapThenFoldSet
<1>3. base \in A /\ \A k \in 1..n : \A a \in A : WithEmission(a, emitted[k]) \in A
  <2>1. base \in A
    OBVIOUS
  <2>2. QED
    BY <1>1, <2>1, EmittedOne
<1> HIDE DEF A, n
<1>4. g \in [1..n -> [A -> A]]
  BY <1>3
<1>5. \A k \in 1..n : \A a \in A : g[k][a] = WithEmission(a, emitted[k])
  OBVIOUS
<1> HIDE DEF g, base
<1>6. \E h : Folds(h)
  <2>1. PICK h : h \in FoldOf(n, A, base, g)
    BY <1>1, <1>3, <1>4, FoldExists
  <2>2. /\ h = [s \in SUBSET (1..n) |-> h[s]]
        /\ h[{}] = base
        /\ \A s \in SUBSET (1..n) : s # {} =>
             /\ Max(s) \in 1..n /\ h[s \ {Max(s)}] \in A
             /\ h[s] = g[Max(s)][h[s \ {Max(s)}]]
    BY <1>1, <2>1, FoldOfStep
  <2>3. \A s \in SUBSET (1..n) :
          h[s] = IF s = {} THEN << >> ELSE WithEmission(h[s \ {Max(s)}], emitted[Max(s)])
    BY <1>5, <2>2 DEF base
  <2>4. Folds(h)
    BY <1>1, <2>2, <2>3
  <2>5. QED
    BY <2>4
<1>7. Folds(it)
  BY <1>6, Zenon
<1> HIDE DEF it
<1>8. it[{}] = base
  BY <1>7 DEF base
<1>9. ASSUME NEW k \in 1..n, it[1..(k-1)] \in A PROVE it[1..k] = g[k][it[1..(k-1)]]
  <2>1. 1..k \in SUBSET DOMAIN emitted /\ 1..k # {} /\ Max(1..k) = k /\ (1..k) \ {k} = 1..(k-1)
    BY <1>1, FirstPlaces
  <2>2. it[1..k] = WithEmission(it[(1..k) \ {Max(1..k)}], emitted[Max(1..k)])
    BY <1>7, <2>1
  <2>3. QED
    BY <1>5, <1>9, <2>1, <2>2
<1>10. r \in StepsOf(n, A, base, g)
  <2> HIDE DEF Folds
  <2>1. QED
    BY <1>1, <1>3, <1>4, <1>8, <1>9, FoldSteps
<1> HIDE DEF r
<1>11. r \in [0..n -> A] /\ r[0] = base /\ \A k \in 1..n : r[k-1] \in A /\ r[k] = g[k][r[k-1]]
  BY <1>1, <1>10 DEF StepsOf
<1>12. \A k \in 1..n : r[k] = WithEmission(r[k-1], emitted[k])
  BY <1>5, <1>11
<1>13. Segments(emitted) = r[n]
  BY <1>1, <1>2 DEF r
<1>14. QED
  <2>1. r \in SegmentSteps(emitted)
    BY <1>11, <1>12, <1>13 DEF base, n, A, SegmentSteps
  <2>2. QED
    BY <2>1

(* The emission at a character is its chunk and where it came from.          *)
LEMMA EmissionsAre ==
  ASSUME NEW text \in Seq(Character)
  PROVE  /\ Emissions(text) \in Seq(Emission) /\ Len(Emissions(text)) = Len(text)
         /\ \A p \in 1..Len(text) :
              /\ Emissions(text)[p].chunk = Chunk(text, p) /\ Emissions(text)[p].from = p - 1
              /\ Emissions(text)[p].to = EndOfIt(text, p)
<1> DEFINE n == Len(text)
           one(p) == [chunk |-> Chunk(text, p), from |-> p - 1, to |-> EndOfIt(text, p)]
<1>1. n \in Nat /\ DOMAIN text = 1..n
  OBVIOUS
<1>2. ASSUME NEW p \in 1..n PROVE one(p) \in Emission
  <2>1. Chunk(text, p) \in Seq(Character) /\ p - 1 \in Nat
    BY ChunkIs
  <2>2. EndOfIt(text, p) \in Nat
    BY ItEnds
  <2>3. QED
    BY <2>1, <2>2 DEF Emission
<1>3. Emissions(text) = [p \in 1..n |-> one(p)]
  BY <1>1 DEF Emissions, EndOfIt
<1>4. \A p \in 1..n : one(p).chunk = Chunk(text, p) /\ one(p).from = p - 1 /\ one(p).to = EndOfIt(text, p)
  OBVIOUS
<1> HIDE DEF n, one
<1>5. Emissions(text) \in [1..n -> Emission] /\ \A p \in 1..n : Emissions(text)[p] = one(p)
  BY <1>2, <1>3
<1>6. Emissions(text) \in Seq(Emission) /\ Len(Emissions(text)) = n
  BY <1>1, <1>5, FunctionsAreLists
<1>7. QED
  BY <1>4, <1>5, <1>6 DEF n

(* A segment over a chunk leads from its ends to where it came from.         *)
Leads(s, before, after, from, to) ==
  /\ s.normStart <= before /\ after <= s.normEnd
  /\ IF SameLength(s)
     THEN s.origStart + (before - s.normStart) = from /\ s.origStart + (after - s.normStart) = to
     ELSE s.normStart = before /\ s.normEnd = after /\ s.origStart = from /\ s.origEnd = to
Covers(s, text, l) ==
  Leads(s, UpTo(Chunks(text), l - 1), UpTo(Chunks(text), l), l - 1, EndOfIt(text, l))

(* A segment leads from its own ends to where it came from.                  *)
LEMMA ASegmentLeads ==
  ASSUME NEW s \in Segment
  PROVE  /\ s.normStart \in Nat /\ s.normEnd \in Nat /\ s.origStart \in Nat /\ s.origEnd \in Nat
         /\ s.normStart <= s.normEnd => Leads(s, s.normStart, s.normEnd, s.origStart, s.origEnd)
<1>1. s.normStart \in Nat /\ s.normEnd \in Nat /\ s.origStart \in Nat /\ s.origEnd \in Nat
  BY DEF Segment
<1>2. QED
  BY <1>1 DEF Leads, SameLength

(* A segment that takes in the next leads wherever both did.                 *)
LEMMA AWiderSegmentLeads ==
  ASSUME NEW s \in Segment, NEW new \in Segment, Merges(s, new), new.normStart <= new.normEnd,
         s.normStart <= s.normEnd, NEW t,
         t = [s EXCEPT !.normEnd = new.normEnd, !.origEnd = new.origEnd]
  PROVE  /\ t \in Segment /\ t.normStart = s.normStart /\ t.normEnd = new.normEnd
         /\ Leads(t, new.normStart, new.normEnd, new.origStart, new.origEnd)
         /\ \A before, after, from, to \in Nat :
              Leads(s, before, after, from, to) => Leads(t, before, after, from, to)
<1>1. /\ s.normStart \in Nat /\ s.normEnd \in Nat /\ s.origStart \in Nat /\ s.origEnd \in Nat
      /\ new.normStart \in Nat /\ new.normEnd \in Nat /\ new.origStart \in Nat /\ new.origEnd \in Nat
  BY DEF Segment
<1>2. /\ t \in Segment /\ t.normStart = s.normStart /\ t.normEnd = new.normEnd
      /\ t.origStart = s.origStart /\ t.origEnd = new.origEnd
  BY <1>1 DEF Segment
<1>3. /\ s.normEnd - s.normStart = s.origEnd - s.origStart
      /\ new.normEnd - new.normStart = new.origEnd - new.origStart
      /\ s.normEnd = new.normStart /\ s.origEnd = new.origStart
  BY DEF Merges, SameLength
<1>4. SameLength(s) /\ SameLength(t)
  BY <1>1, <1>2, <1>3 DEF SameLength
<1>5. Leads(t, new.normStart, new.normEnd, new.origStart, new.origEnd)
  BY <1>1, <1>2, <1>3, <1>4 DEF Leads
<1>6. ASSUME NEW before \in Nat, NEW after \in Nat, NEW from \in Nat, NEW to \in Nat,
             Leads(s, before, after, from, to)
      PROVE  Leads(t, before, after, from, to)
  <2>1. /\ s.normStart <= before /\ after <= s.normEnd
        /\ s.origStart + (before - s.normStart) = from /\ s.origStart + (after - s.normStart) = to
    BY <1>4, <1>6 DEF Leads
  <2>2. after <= t.normEnd
    BY <1>1, <1>2, <1>3, <2>1
  <2>3. QED
    BY <1>2, <1>4, <2>1, <2>2 DEF Leads
<1>7. QED
  BY <1>2, <1>5, <1>6

(* The segments up to a character.                                           *)
Following(segments, text, k) ==
  /\ segments \in Seq(Segment)
  /\ ReachedBy(segments) = UpTo(Chunks(text), k)
  /\ \A x \in 1..Len(segments) : segments[x].normStart <= segments[x].normEnd
  /\ \A x, y \in 1..Len(segments) : x < y => segments[x].normEnd <= segments[y].normStart
  /\ \A l \in 1..k : Chunk(text, l) # << >> =>
       \E x \in 1..Len(segments) : Covers(segments[x], text, l)

(* One more emission keeps the segments in order and covers its chunk.       *)
LEMMA SegmentsFollow ==
  ASSUME NEW text \in Seq(Character), NEW k \in 1..Len(text), NEW segments,
         Following(segments, text, k - 1)
  PROVE  Following(WithEmission(segments, Emissions(text)[k]), text, k)
<1> DEFINE C == Chunks(text)
           e == Emissions(text)[k]
           t == WithEmission(segments, e)
           new == SegmentOf(segments, e)
           n == Len(segments)
           last == segments[n]
           before == UpTo(C, k - 1)
           after == UpTo(C, k)
           to == EndOfIt(text, k)
<1>1. /\ segments \in Seq(Segment) /\ ReachedBy(segments) = before
      /\ \A x \in 1..n : segments[x].normStart <= segments[x].normEnd
      /\ \A x, y \in 1..n : x < y => segments[x].normEnd <= segments[y].normStart
      /\ \A l \in 1..(k-1) : Chunk(text, l) # << >> => \E x \in 1..n : Covers(segments[x], text, l)
  BY DEF Following
<1>2. e \in Emission /\ e.chunk = Chunk(text, k) /\ e.from = k - 1 /\ e.to = to
  BY EmissionsAre
<1>3. before \in Nat /\ after = before + Len(e.chunk)
  <2>1. C \in Seq(Seq(Character)) /\ k \in 1..Len(C) /\ C[k] = Chunk(text, k)
    BY ChunksAre
  <2>2. QED
    BY <1>2, <2>1, OneMorePart
<1>4. /\ new \in Segment /\ new.normStart = before /\ new.normEnd = after
      /\ new.origStart = k - 1 /\ new.origEnd = to
  BY <1>1, <1>2, <1>3, EmittedOne DEF SegmentOf
<1>5. e.chunk # << >> => before < after
  <2>1. e.chunk \in Seq(Character)
    BY <1>2 DEF Emission
  <2>2. e.chunk # << >> => Len(e.chunk) \in Nat /\ Len(e.chunk) >= 1
    BY <2>1
  <2>3. QED
    BY <1>3, <2>2
<1>6. ASSUME NEW l \in 1..(k-1)
      PROVE  /\ UpTo(C, l - 1) \in Nat /\ UpTo(C, l) \in Nat /\ l - 1 \in Nat /\ EndOfIt(text, l) \in Nat
  <2>1. C \in Seq(Seq(Character)) /\ l \in 1..Len(C) /\ l \in 1..Len(text)
    BY ChunksAre
  <2>2. UpTo(C, l - 1) \in Nat /\ UpTo(C, l) = UpTo(C, l - 1) + Len(C[l]) /\ C[l] \in Seq(Character)
    BY <2>1, OneMorePart
  <2>3. EndOfIt(text, l) \in Nat
    BY <2>1, ItEnds
  <2>4. QED
    BY <2>1, <2>2, <2>3
<1>7. /\ t \in Seq(Segment) /\ n \in Nat
      /\ e.chunk = << >> => t = segments
      /\ e.chunk # << >> /\ MergesInto(segments, e) =>
           /\ n >= 1 /\ Len(t) = n /\ \A x \in 1..(n-1) : t[x] = segments[x]
           /\ t[n] = [last EXCEPT !.normEnd = new.normEnd, !.origEnd = new.origEnd]
      /\ e.chunk # << >> /\ ~ MergesInto(segments, e) =>
           Len(t) = n + 1 /\ (\A x \in 1..n : t[x] = segments[x]) /\ t[n+1] = new
  BY <1>1, <1>2, EmittedOne
<1>8. MergesInto(segments, e) => Merges(last, new)
  BY DEF MergesInto
<1> HIDE DEF C, e, t, new, to, before, after
<1>9. \A l \in 1..k : l = k \/ l \in 1..(k-1)
  OBVIOUS
<1>s. \A x \in 1..n : segments[x] \in Segment /\ segments[x].normStart \in Nat /\ segments[x].normEnd \in Nat
  <2>1. \A x \in 1..n : segments[x] \in Segment
    BY <1>1
  <2>2. \A s \in Segment : s.normStart \in Nat /\ s.normEnd \in Nat
    BY DEF Segment
  <2> HIDE DEF n
  <2>3. QED
    BY <2>1, <2>2
<1>10. CASE e.chunk = << >>
  <2>1. t = segments /\ after = before
    BY <1>3, <1>7, <1>10
  <2>2. \A l \in 1..k : Chunk(text, l) # << >> => l \in 1..(k-1)
    BY <1>2, <1>9, <1>10
  <2>3. QED
    BY <1>1, <2>1, <2>2, Zenon DEF Following, t, after, C, e
<1>11. CASE e.chunk # << >> /\ MergesInto(segments, e)
  <2>1. /\ n >= 1 /\ Len(t) = n /\ \A x \in 1..(n-1) : t[x] = segments[x]
        /\ t[n] = [last EXCEPT !.normEnd = new.normEnd, !.origEnd = new.origEnd]
        /\ Merges(last, new) /\ n \in 1..n /\ last \in Segment /\ last.normStart <= last.normEnd
        /\ new.normStart <= new.normEnd
    BY <1>1, <1>3, <1>4, <1>5, <1>7, <1>8, <1>11, <1>s
  <2>2. /\ t[n] \in Segment /\ t[n].normStart = last.normStart /\ t[n].normEnd = new.normEnd
        /\ Leads(t[n], new.normStart, new.normEnd, new.origStart, new.origEnd)
        /\ \A b, a, from, end \in Nat :
              Leads(last, b, a, from, end) => Leads(t[n], b, a, from, end)
    BY <1>4, <2>1, AWiderSegmentLeads
  <2>3. ReachedBy(t) = after
    <3>1. t # << >>
      BY <1>7, <2>1
    <3>2. QED
      BY <1>4, <2>1, <2>2, <3>1 DEF ReachedBy
  <2>4. \A x \in 1..n : x # n => x \in 1..(n-1)
    BY <1>7
  <2>5. \A x \in 1..n : t[x].normStart = segments[x].normStart
    BY <2>1, <2>2, <2>4
  <2>6. \A x \in 1..n : t[x].normStart <= t[x].normEnd
    <3>1. last.normEnd = new.normStart
      BY <2>1 DEF Merges
    <3>2. t[n].normStart <= t[n].normEnd
      <4>1. last.normStart \in Nat /\ last.normEnd \in Nat /\ new.normStart \in Nat /\ new.normEnd \in Nat
        BY <1>4, <2>1 DEF Segment
      <4>2. QED
        BY <2>1, <2>2, <3>1, <4>1
    <3>3. QED
      BY <1>1, <2>1, <2>4, <3>2
  <2>7. \A x, y \in 1..n : x < y => t[x].normEnd <= t[y].normStart
    <3>1. \A x, y \in 1..n : x < y => x \in 1..(n-1)
      BY <1>7
    <3>2. QED
      BY <1>1, <2>1, <2>5, <3>1
  <2>8. ASSUME NEW l \in 1..k, Chunk(text, l) # << >> PROVE \E x \in 1..n : Covers(t[x], text, l)
    <3>1. CASE l = k
      <4>1. Covers(t[n], text, k)
        BY <1>4, <2>2, Zenon DEF Covers, before, after, to, C
      <4>2. QED
        BY <2>1, <3>1, <4>1
    <3>2. CASE l # k
      <4>1. l \in 1..(k-1)
        BY <1>9, <3>2
      <4>2. PICK x \in 1..n : Covers(segments[x], text, l)
        BY <1>1, <2>8, <4>1
      <4>3. CASE x = n
        <5>1. Leads(last, UpTo(C, l - 1), UpTo(C, l), l - 1, EndOfIt(text, l))
          BY <4>2, <4>3 DEF Covers, C
        <5>2. Leads(t[n], UpTo(C, l - 1), UpTo(C, l), l - 1, EndOfIt(text, l))
          BY <1>6, <2>2, <4>1, <5>1
        <5>3. QED
          BY <2>1, <5>2 DEF Covers, C
      <4>4. CASE x # n
        BY <2>1, <2>4, <4>2, <4>4
      <4>5. QED
        BY <4>3, <4>4
    <3>3. QED
      BY <3>1, <3>2
  <2>9. QED
    BY <1>7, <2>1, <2>3, <2>6, <2>7, <2>8, Zenon DEF Following, t, after, C, e
<1>12. CASE e.chunk # << >> /\ ~ MergesInto(segments, e)
  <2>1. /\ Len(t) = n + 1 /\ (\A x \in 1..n : t[x] = segments[x]) /\ t[n+1] = new
        /\ n + 1 \in 1..(n+1) /\ before < after
    BY <1>5, <1>7, <1>12
  <2>2. \A x \in 1..(n+1) : x = n + 1 \/ x \in 1..n
    BY <1>7
  <2>3. ReachedBy(t) = after
    <3>1. t # << >>
      BY <1>7, <2>1
    <3>2. QED
      BY <1>4, <2>1, <3>1 DEF ReachedBy
  <2>4. \A x \in 1..(n+1) : t[x].normStart <= t[x].normEnd
    <3>1. new.normStart <= new.normEnd
      BY <1>3, <1>4, <1>5, <1>12
    <3>2. QED
      BY <1>1, <2>1, <2>2, <3>1
  <2>5. \A x \in 1..n : segments[x].normEnd <= before
    <3> SUFFICES ASSUME NEW x \in 1..n PROVE segments[x].normEnd <= before
      OBVIOUS
    <3>1. n \in 1..n /\ segments # << >> /\ before = last.normEnd
      BY <1>1, <1>7 DEF ReachedBy
    <3>2. x = n \/ segments[x].normEnd <= last.normStart
      <4>1. x = n \/ x < n
        BY <1>7
      <4>2. QED
        BY <1>1, <3>1, <4>1
    <3>3. last.normStart <= last.normEnd
      BY <1>1, <3>1
    <3>4. segments[x].normEnd \in Nat /\ last.normStart \in Nat /\ last.normEnd \in Nat
      BY <1>s, <3>1
    <3>5. QED
      BY <3>1, <3>2, <3>3, <3>4
  <2>6. \A x, y \in 1..(n+1) : x < y => t[x].normEnd <= t[y].normStart
    <3> SUFFICES ASSUME NEW x \in 1..(n+1), NEW y \in 1..(n+1), x < y
                 PROVE  t[x].normEnd <= t[y].normStart
      OBVIOUS
    <3>1. x \in 1..n
      BY <1>7
    <3>2. CASE y = n + 1
      BY <1>4, <2>1, <2>5, <3>1, <3>2
    <3>3. CASE y \in 1..n
      BY <1>1, <2>1, <3>1, <3>3
    <3>4. QED
      BY <2>2, <3>2, <3>3
  <2>7. ASSUME NEW l \in 1..k, Chunk(text, l) # << >> PROVE \E x \in 1..(n+1) : Covers(t[x], text, l)
    <3>1. CASE l = k
      <4>1. Leads(new, new.normStart, new.normEnd, new.origStart, new.origEnd)
        BY <1>3, <1>4, <1>5, <1>12, ASegmentLeads
      <4>2. Covers(t[n+1], text, k)
        BY <1>4, <2>1, <4>1, Zenon DEF Covers, before, after, to, C
      <4>3. QED
        BY <2>1, <3>1, <4>2
    <3>2. CASE l # k
      <4>1. l \in 1..(k-1)
        BY <1>9, <3>2
      <4>2. PICK x \in 1..n : Covers(segments[x], text, l)
        BY <1>1, <2>7, <4>1
      <4>3. x \in 1..(n+1) /\ t[x] = segments[x]
        BY <1>7, <2>1
      <4>4. QED
        BY <4>2, <4>3
    <3>3. QED
      BY <3>1, <3>2
  <2>8. QED
    BY <1>7, <2>1, <2>3, <2>4, <2>6, <2>7, Zenon DEF Following, t, after, C, e
<1>13. QED
  BY <1>10, <1>11, <1>12

(* The segments of a letter are in order and cover its chunks.               *)
LEMMA SegmentsCover ==
  ASSUME NEW text \in Seq(Character)
  PROVE  Following(Segments(Emissions(text)), text, Len(text))
<1> DEFINE n == Len(text)
           E == Emissions(text)
<1>1. E \in Seq(Emission) /\ Len(E) = n /\ n \in Nat
  BY EmissionsAre
<1> HIDE DEF E
<1>2. PICK r : r \in SegmentSteps(E)
  BY <1>1, SegmentsComeStepByStep
<1>3. /\ r[0] = << >> /\ Segments(E) = r[n]
      /\ \A k \in 1..n : r[k] = WithEmission(r[k-1], E[k])
  BY <1>1, <1>2 DEF SegmentSteps
<1> DEFINE T == {k \in 0..n : Following(r[k], text, k)}
<1>4. 0 \in T
  <2>1. UpTo(Chunks(text), 0) = 0
    <3>1. Chunks(text) \in Seq(Seq(Character)) /\ 0 \in 0..Len(Chunks(text)) /\ 0 \in 0..0
      BY ChunksAre
    <3>2. QED
      BY <3>1, AStretchOfWhatIsJoined
  <2>2. Following(<< >>, text, 0)
    BY <2>1 DEF Following, ReachedBy
  <2>3. QED
    BY <1>1, <1>3, <2>2
<1>5. ASSUME NEW k \in 1..n, k - 1 \in T PROVE k \in T
  <2>1. Following(r[k-1], text, k - 1) /\ k \in 1..Len(text) /\ k \in 0..n
    BY <1>5
  <2>2. Following(WithEmission(r[k-1], E[k]), text, k)
    BY <2>1, SegmentsFollow DEF E
  <2>3. QED
    BY <1>3, <2>1, <2>2
<1>6. \A k \in 0..n : k \in T
  <2> HIDE DEF T, n
  <2>1. QED
    BY <1>1, <1>4, <1>5, EveryPlace
<1>7. n \in 0..n
  BY <1>1
<1>8. QED
  BY <1>3, <1>6, <1>7 DEF E

(* Two segments that hold a piece in common are not one after the other.     *)
LEMMA Overlap ==
  ASSUME NEW from \in Nat, NEW to \in Nat, NEW before \in Nat, NEW after \in Nat,
         NEW start \in Nat, NEW end \in Nat,
         from <= before, after <= to, before < after,
         (start <= before /\ before < end) \/ (start < after /\ after <= end)
  PROVE  ~ (end <= from \/ to <= start)
OBVIOUS

(* A place where a chunk begins in the normalized letter leads to where the  *)
(* chunk came from, and so does the place where one ends.                    *)
LEMMA StartsLead ==
  ASSUME NEW text \in Seq(Character), NEW i \in 1..Len(text), Chunk(text, i) # << >>
  PROVE  /\ Segments(Emissions(text)) # << >>
         /\ TranslateStart(Segments(Emissions(text)), UpTo(Chunks(text), i - 1)) = i - 1
         /\ UpTo(Chunks(text), i) > 0
         /\ TranslateEnd(Segments(Emissions(text)), UpTo(Chunks(text), i)) = EndOfIt(text, i)
<1> DEFINE S == Segments(Emissions(text))
           n == Len(S)
           C == Chunks(text)
           before == UpTo(C, i - 1)
           after == UpTo(C, i)
           over(at) == {x \in DOMAIN S : S[x].normStart <= at /\ at < S[x].normEnd}
           until(at) == {x \in DOMAIN S : S[x].normStart < at /\ at <= S[x].normEnd}
<1>1. /\ S \in Seq(Segment)
      /\ \A x \in 1..n : S[x].normStart <= S[x].normEnd
      /\ \A x, y \in 1..n : x < y => S[x].normEnd <= S[y].normStart
      /\ \A l \in 1..Len(text) : Chunk(text, l) # << >> => \E x \in 1..n : Covers(S[x], text, l)
  BY SegmentsCover DEF Following
<1>2. before \in Nat /\ after \in Nat /\ before < after
  <2>1. C \in Seq(Seq(Character)) /\ i \in 1..Len(C) /\ C[i] = Chunk(text, i)
    BY ChunksAre
  <2>2. before \in Nat /\ after = before + Len(C[i]) /\ C[i] \in Seq(Character)
    BY <2>1, OneMorePart
  <2>3. Len(C[i]) \in Nat /\ Len(C[i]) >= 1
    BY <2>1, <2>2
  <2>4. QED
    BY <2>2, <2>3
<1>3. PICK x \in 1..n : Covers(S[x], text, i)
  BY <1>1
<1> HIDE DEF S, C
<1>4. Leads(S[x], before, after, i - 1, EndOfIt(text, i))
  BY <1>3 DEF Covers, C
<1> HIDE DEF before, after
<1>5. n \in Nat /\ DOMAIN S = 1..n /\ \A y \in 1..n : S[y] \in Segment
  BY <1>1
<1>6. \A y \in 1..n : S[y].normStart \in Nat /\ S[y].normEnd \in Nat
  <2>1. \A s \in Segment : s.normStart \in Nat /\ s.normEnd \in Nat
    BY DEF Segment
  <2> HIDE DEF n
  <2>2. QED
    BY <1>5, <2>1
<1> HIDE DEF n
<1>7. S[x].normStart <= before /\ after <= S[x].normEnd
  BY <1>4 DEF Leads
<1>8. \A y \in 1..n : y # x => S[y].normEnd <= S[x].normStart \/ S[x].normEnd <= S[y].normStart
  BY <1>1, <1>5
<1>9. over(before) = {x}
  <2>1. x \in over(before)
    BY <1>2, <1>5, <1>6, <1>7
  <2>2. ASSUME NEW y \in over(before), y # x PROVE FALSE
    <3>1. y \in 1..n /\ S[y].normStart <= before /\ before < S[y].normEnd
      BY <1>5
    <3>2. S[y].normEnd <= S[x].normStart \/ S[x].normEnd <= S[y].normStart
      BY <1>8, <2>2, <3>1
    <3>3. /\ S[x].normStart \in Nat /\ S[x].normEnd \in Nat
          /\ S[y].normStart \in Nat /\ S[y].normEnd \in Nat
      BY <1>6, <3>1
    <3>4. QED
      BY <1>2, <1>7, <3>1, <3>2, <3>3, Overlap
  <2>3. QED
    BY <2>1, <2>2
<1>10. until(after) = {x}
  <2>1. x \in until(after)
    BY <1>2, <1>5, <1>6, <1>7
  <2>2. ASSUME NEW y \in until(after), y # x PROVE FALSE
    <3>1. y \in 1..n /\ S[y].normStart < after /\ after <= S[y].normEnd
      BY <1>5
    <3>2. S[y].normEnd <= S[x].normStart \/ S[x].normEnd <= S[y].normStart
      BY <1>8, <2>2, <3>1
    <3>3. /\ S[x].normStart \in Nat /\ S[x].normEnd \in Nat
          /\ S[y].normStart \in Nat /\ S[y].normEnd \in Nat
      BY <1>6, <3>1
    <3>4. QED
      BY <1>2, <1>7, <3>1, <3>2, <3>3, Overlap
  <2>3. QED
    BY <2>1, <2>2
<1>11. (CHOOSE y \in {x} : TRUE) = x
  OBVIOUS
<1> DEFINE s == S[x]
<1>12. TranslateStart(S, before) =
         IF SameLength(s) THEN s.origStart + (before - s.normStart) ELSE s.origStart
  BY <1>9, <1>11 DEF TranslateStart
<1>13. TranslateEnd(S, after) =
         IF SameLength(s) THEN s.origStart + (after - s.normStart) ELSE s.origEnd
  <2>1. ~ (after <= 0)
    BY <1>2
  <2>2. QED
    BY <1>10, <1>11, <2>1 DEF TranslateEnd
<1>14. TranslateStart(S, before) = i - 1 /\ TranslateEnd(S, after) = EndOfIt(text, i)
  BY <1>4, <1>12, <1>13 DEF Leads
<1>15. S # << >> /\ after > 0
  BY <1>2, <1>5
<1>16. QED
  BY <1>14, <1>15 DEF S, C, before, after

(* Between two places that split no cluster, the chunks there are.           *)
LEMMA UnsplitPlaces ==
  ASSUME NEW text \in Seq(Character), NEW p \in Nat, ~ SplitsCluster(text, p)
  PROVE  \E k \in 0..Len(text) : UpTo(Chunks(text), k) = p
<1> DEFINE e == Emissions(text)
           C == Chunks(text)
<1>1. e \in Seq(Emission) /\ Len(e) = Len(text) /\ \A l \in 1..Len(text) : e[l].chunk = Chunk(text, l)
  BY EmissionsAre
<1>2. /\ C \in Seq(Seq(Character)) /\ Len(C) = Len(text)
      /\ \A l \in 1..Len(text) : C[l] = Chunk(text, l)
  BY ChunksAre
<1>3. PICK k \in 0..Len(e) : Len(Joined(SubSeq(e, 1, k))) = p
  BY DEF SplitsCluster
<1> HIDE DEF e, C
<1>4. k \in 0..Len(text) /\ k \in Nat /\ Len(text) \in Nat
  BY <1>1
<1> DEFINE s == SubSeq(e, 1, k)
           A == Seq(Character)
           t == SubSeq(C, 1, k)
<1>5. s \in Seq(Emission) /\ Len(s) = k /\ \A l \in 1..k : s[l] = e[l]
  <2>1. 1 \in Nat /\ 1 <= 1 /\ 1 <= k + 1 /\ k <= Len(e) /\ k - 1 + 1 = k /\ \A l \in 1..k : l + 1 - 1 = l
    BY <1>1, <1>4
  <2>2. s \in Seq(Emission) /\ Len(s) = k /\ \A l \in 1..k : s[l] = e[l + 1 - 1]
    BY <1>1, <1>4, <2>1, StretchIs
  <2>3. QED
    BY <2>1, <2>2
<1>6. t \in Seq(A) /\ Len(t) = k /\ \A l \in 1..k : t[l] = C[l]
  <2>1. /\ 1 \in Nat /\ 1 <= 1 /\ 1 <= k + 1 /\ k <= Len(C) /\ k - 1 + 1 = k /\ C \in Seq(A)
        /\ \A l \in 1..k : l + 1 - 1 = l
    BY <1>2, <1>4
  <2> HIDE DEF A
  <2>2. t \in Seq(A) /\ Len(t) = k /\ \A l \in 1..k : t[l] = C[l + 1 - 1]
    BY <1>4, <2>1, StretchIs
  <2>3. QED
    BY <2>1, <2>2
<1>7. t = [l \in DOMAIN s |-> s[l].chunk]
  <2> DEFINE u == [l \in DOMAIN s |-> s[l].chunk]
  <2>1. DOMAIN s = 1..k /\ \A l \in 1..k : l \in 1..Len(text) /\ s[l].chunk = t[l] /\ t[l] \in A
    BY <1>1, <1>2, <1>4, <1>5, <1>6
  <2> HIDE DEF s, t
  <2>2. u \in [1..k -> A] /\ \A l \in 1..k : u[l] = t[l]
    BY <2>1
  <2>3. u \in Seq(A) /\ Len(u) = k
    <3> HIDE DEF u, A
    <3>1. QED
      BY <1>4, <2>2, FunctionsAreLists
  <2> HIDE DEF u, A
  <2>4. t = u
    BY <1>6, <2>2, <2>3, SameList
  <2>5. QED
    BY <2>4 DEF u
<1>8. Joined(s) = FlattenSeq(t)
  BY <1>7 DEF Joined
<1>9. UpTo(C, k) = p
  BY <1>3, <1>8 DEF UpTo, s, t
<1>10. QED
  BY <1>4, <1>9 DEF C

(* A span that splits no cluster is from one chunk to another.               *)
LEMMA ChunksBetween ==
  ASSUME NEW text \in Seq(Character), NEW start \in Nat, NEW end \in Nat, start < end,
         ~ SplitsCluster(text, start), ~ SplitsCluster(text, end)
  PROVE  \E i \in 1..Len(text) : \E j \in i..Len(text) :
           /\ UpTo(Chunks(text), i - 1) = start /\ UpTo(Chunks(text), j) = end
           /\ Chunk(text, i) # << >> /\ Chunk(text, j) # << >>
<1> DEFINE C == Chunks(text)
           n == Len(text)
<1>1. C \in Seq(Seq(Character)) /\ Len(C) = n /\ n \in Nat /\ \A l \in 1..n : C[l] = Chunk(text, l)
  BY ChunksAre
<1>2. PICK k \in 0..n : UpTo(C, k) = start
  BY UnsplitPlaces
<1>3. PICK l \in 0..n : UpTo(C, l) = end
  BY UnsplitPlaces
<1> HIDE DEF C, n
<1>4. \A a \in 0..n : \A b \in a..n : UpTo(C, a) \in Nat /\ UpTo(C, a) <= UpTo(C, b)
  BY <1>1, AStretchOfWhatIsJoined
<1>5. \A p \in 1..n : UpTo(C, p) # UpTo(C, p - 1) => Chunk(text, p) # << >>
  <2> SUFFICES ASSUME NEW p \in 1..n, Chunk(text, p) = << >> PROVE UpTo(C, p) = UpTo(C, p - 1)
    OBVIOUS
  <2>1. UpTo(C, p - 1) \in Nat /\ UpTo(C, p) = UpTo(C, p - 1) + Len(C[p])
    BY <1>1, OneMorePart
  <2>2. Len(C[p]) = 0
    BY <1>1
  <2>3. QED
    BY <2>1, <2>2
<1> DEFINE ends == {b \in 0..n : UpTo(C, b) = end}
           behind == {b \in 0..n : UpTo(C, b) > start}
<1>6. PICK j \in ends : \A b \in ends : j <= b
  <2>1. ends \subseteq Nat /\ l \in ends
    BY <1>1, <1>3
  <2>2. QED
    BY <2>1, LeastNumber
<1>7. PICK i \in behind : \A b \in behind : i <= b
  <2>1. behind \subseteq Nat /\ l \in behind
    BY <1>1, <1>3
  <2>2. QED
    BY <2>1, LeastNumber
<1>8. i \in 1..n /\ j \in i..n
  <2>1. k \in 0..n /\ UpTo(C, k) = start /\ j \in behind
    BY <1>2, <1>6
  <2>2. i # 0
    <3>1. UpTo(C, 0) <= start
      BY <1>1, <1>2, <1>4
    <3>2. UpTo(C, 0) \in Nat
      BY <1>1, <1>4
    <3>3. QED
      BY <1>7, <3>1, <3>2
  <2>3. QED
    BY <1>1, <1>7, <2>1, <2>2
<1>9. UpTo(C, i - 1) = start
  <2>1. i - 1 \in 0..n /\ i - 1 \notin behind
    BY <1>1, <1>7, <1>8
  <2>2. UpTo(C, i - 1) \in Nat /\ UpTo(C, i - 1) <= start
    BY <1>1, <1>4, <2>1
  <2>3. k <= i - 1
    <3>1. ~ (i <= k)
      <4>1. i <= k => UpTo(C, i) <= UpTo(C, k)
        BY <1>1, <1>4, <1>8
      <4>2. UpTo(C, i) > start /\ UpTo(C, i) \in Nat
        BY <1>1, <1>4, <1>7
      <4>3. QED
        BY <1>2, <4>1, <4>2
    <3>2. QED
      BY <1>1, <1>8, <3>1
  <2>4. UpTo(C, k) <= UpTo(C, i - 1)
    BY <1>1, <1>4, <2>1, <2>3
  <2>5. QED
    BY <1>2, <2>2, <2>4
<1>10. Chunk(text, i) # << >>
  BY <1>5, <1>7, <1>8, <1>9
<1>11. Chunk(text, j) # << >>
  <2>1. j \in 1..n /\ j - 1 \in 0..n /\ j - 1 \notin ends
    BY <1>1, <1>6, <1>8
  <2>2. UpTo(C, j) # UpTo(C, j - 1)
    BY <1>6, <2>1
  <2>3. QED
    BY <1>5, <2>1, <2>2
<1>12. QED
  BY <1>6, <1>8, <1>9, <1>10, <1>11 DEF C, n

(* A letter is a list of characters.                                         *)
TextQuestions == Asked("letter") => question.text \in Seq(Character)

(* A quote is in the letter.                                                 *)
LEMMA QuotesStand == TextQuestions => AQuoteIsInTheLetter
<1> DEFINE text == question.text
           norm == Normalized(text)
           segments == Segments(Emissions(text))
<1> SUFFICES ASSUME TextQuestions, Asked("letter"),
                    NEW end \in 1..Len(norm), NEW start \in 0..(end - 1),
                    ~ SplitsCluster(text, start), ~ SplitsCluster(text, end)
             PROVE  LET place == Original(segments, start, end)
                    IN  Normalized(Cut(text, place.from, place.to)) = Stripped(Cut(norm, start, end))
  BY Zenon DEF AQuoteIsInTheLetter
<1>1. text \in Seq(Character) /\ norm \in Seq(Character)
  BY ChunksAre DEF TextQuestions
<1> HIDE DEF text, norm, segments
<1>2. start \in Nat /\ end \in Nat /\ start < end
  BY <1>1
<1>3. PICK i \in 1..Len(text) : \E j \in i..Len(text) :
           /\ UpTo(Chunks(text), i - 1) = start /\ UpTo(Chunks(text), j) = end
           /\ Chunk(text, i) # << >> /\ Chunk(text, j) # << >>
  BY <1>1, <1>2, ChunksBetween
<1>4. PICK j \in i..Len(text) :
           /\ UpTo(Chunks(text), i - 1) = start /\ UpTo(Chunks(text), j) = end
           /\ Chunk(text, i) # << >> /\ Chunk(text, j) # << >>
  BY <1>3
<1> DEFINE e == EndOfIt(text, j)
           part == SubSeq(text, i, e)
           place == Original(segments, start, end)
<1>5. j \in 1..Len(text)
  BY <1>1
<1>6. segments # << >> /\ TranslateStart(segments, start) = i - 1 /\ TranslateEnd(segments, end) = e
  <2>1. segments # << >> /\ TranslateStart(segments, UpTo(Chunks(text), i - 1)) = i - 1
    BY <1>1, <1>4, StartsLead DEF segments
  <2>2. TranslateEnd(segments, UpTo(Chunks(text), j)) = EndOfIt(text, j)
    BY <1>1, <1>4, <1>5, StartsLead DEF segments
  <2>3. QED
    BY <1>4, <2>1, <2>2
<1> HIDE DEF e
<1>7. place = [from |-> i - 1, to |-> e]
  <2>1. (IF start > 0 THEN start ELSE 0) = start /\ (IF end > start THEN end ELSE start) = end
    BY <1>2
  <2>2. QED
    BY <1>6, <2>1, Zenon DEF Original
<1>8. Cut(text, place.from, place.to) = part
  <2>1. (i - 1) + 1 = i
    OBVIOUS
  <2>2. place.from = i - 1 /\ place.to = e
    BY <1>7
  <2>3. QED
    BY <2>1, <2>2, Zenon DEF Cut
<1>9. IsPassage(text, i, j, e, part)
  BY <1>1, <1>4 DEF IsPassage, e
<1>10. Normalized(part) =
         Stripped(SubSeq(norm, UpTo(Chunks(text), i - 1) + 1, UpTo(Chunks(text), j)))
  BY <1>9, PassagesNormalize DEF norm
<1>11. Normalized(part) = Stripped(Cut(norm, start, end))
  BY <1>4, <1>10, Zenon DEF Cut
<1>12. QED
  BY <1>8, <1>11

(* A letter, asked any number of questions.                                  *)
AnyText == TextQuestions /\ [][UNCHANGED question]_question

(* For any letter of characters of these kinds: every span of its normalized *)
(* text that splits no cluster leads to the passage that says it             *)
(* (textlayer/normalize.py).                                                 *)
THEOREM QuotesAreInTheLetter == AnyText => []AQuoteIsInTheLetter
<1>1. TextQuestions /\ [UNCHANGED question]_question => TextQuestions'
  <2> SUFFICES ASSUME TextQuestions, [UNCHANGED question]_question PROVE TextQuestions'
    OBVIOUS
  <2>1. question' = question
    OBVIOUS
  <2>2. QED
    BY <2>1 DEF TextQuestions, Asked
<1>2. TextQuestions => AQuoteIsInTheLetter
  BY QuotesStand
<1>3. QED
  BY <1>1, <1>2, PTL DEF AnyText
=============================================================================
