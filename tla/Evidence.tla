------------------------------ MODULE Evidence ------------------------------
(***************************************************************************)
(* What the evidence plane concludes from a working copy: the predicate    *)
(* language (engine/predicate.py) over the context of one submission       *)
(* (engine/evidence/context.py), the procedure derived from it             *)
(* (derive.py), the load-time lint that keeps predicates blind to identity *)
(* values (config_loader.py), the completeness check with its cross-field  *)
(* rules (completeness.py) and the sentences asked of the applicant        *)
(* (nachforderung.py).                                                     *)
(*                                                                         *)
(* A value is a kind and what it is.  A typed answer is known by what the  *)
(* checks can tell apart: the local constraints it breaks, the date it is, *)
(* the date its six digits encode.  A date is a year and a day of the year *)
(* out of three, the last of which is the 29th of February.                *)
(***************************************************************************)
EXTENDS Question, Integers, Sequences, FiniteSets, TLC

None == [kind |-> "none", is |-> "none"]      \* Python's None, YAML's null
Text(s) == [kind |-> "text", is |-> s]
Placeholder == Text("placeholder")

-----------------------------------------------------------------------------
(* A payload is what its leaves say, each under the keys that lead to it.    *)
(* context.py: a leaf deeper than the cap, a list, a null and a blank are    *)
(* not in the context, and a number is there as its text (_as_scalar).       *)
MaxPayloadDepth == 6
Usable(value) == value.kind \notin {"none", "list", "blank"}
Scalar(value) == IF value.kind = "number" THEN Text(ToString(value.is)) ELSE value

PayloadContext(payload) ==
  [leaf \in {l \in DOMAIN payload : Len(l) <= MaxPayloadDepth /\ Usable(payload[l])} |->
     Scalar(payload[leaf])]

(* policy.py, IdentityField.covers: a path itself, or what lies below a      *)
(* sealed sub-object.                                                        *)
Below(path, root) == Len(path) > Len(root) /\ SubSeq(path, 1, Len(root)) = root
Covered(path, policy) ==
  path \in policy.paths \cup policy.subtrees
    \/ \E root \in policy.subtrees : Below(path, root)

(* seal_payload: a leaf becomes a placeholder unless it is no scalar, also   *)
(* where a sub-object was declared; a sub-object becomes one placeholder     *)
(* unless it is empty.                                                       *)
SealPayload(payload, policy) ==
  LET under(root) == {l \in DOMAIN payload : Below(l, root)}
      collapsed == {root \in policy.subtrees : under(root) # {}}
      kept == DOMAIN payload \ UNION {under(root) : root \in collapsed}
  IN  [leaf \in kept \cup collapsed |->
         IF \/ leaf \in collapsed
            \/ leaf \in policy.paths \cup policy.subtrees /\ Usable(payload[leaf])
         THEN Placeholder ELSE payload[leaf]]

-----------------------------------------------------------------------------
(* The words of the texts: "JA" is "ja" but for its case, which is part of   *)
(* "jansen".                                                                 *)
Folded(word) == IF word = "JA" THEN "ja" ELSE word
Within(word, text) == word = text \/ (word = "ja" /\ text = "jansen")

Texts(l, r) == l.kind = "text" /\ r.kind = "text"
Numbers(l, r) == l.kind = "number" /\ r.kind = "number"
Equal(l, r) == l.kind = r.kind /\ l.is = r.is

(* compare, _compare_text: a pattern that does not compile matches nothing.  *)
Compare(op, l, r) ==
  CASE op = "contains" -> Texts(l, r) /\ Within(Folded(r.is), Folded(l.is))
    [] op = "matches" -> Texts(l, r) /\ r.is # "[" /\ Within(Folded(r.is), Folded(l.is))
    [] op = "eq" -> Equal(l, r)
    [] op = "ne" -> ~ Equal(l, r)
    [] op = "in" -> \/ r.kind = "list" /\ \E item \in r.is : Equal(l, item)
                    \/ Texts(l, r) /\ Within(l.is, r.is)
    [] op = "gt" -> Numbers(l, r) /\ l.is > r.is
    [] op = "ge" -> Numbers(l, r) /\ l.is >= r.is
    [] op = "lt" -> Numbers(l, r) /\ l.is < r.is
    [] op = "le" -> Numbers(l, r) /\ l.is <= r.is

Known(field, context) == IF field \in DOMAIN context THEN context[field] ELSE None

(* Mutant: a field nobody knows is compared like any other. *)
ComparisonHoldsAnyway(node, context) ==
  Compare(node.op, Known(node.field, context), node.value)

ComparisonHolds(node, context) ==
  LET left == Known(node.field, context)
  IN  left # None /\ Compare(node.op, left, node.value)

(* The nodes of a predicate, layer by layer; predicates of more than three   *)
(* layers below the first are not modelled.                                  *)
Children(node) == IF node.node = "is" THEN {} ELSE {node.of[i] : i \in DOMAIN node.of}
ChildrenOf(nodes) == UNION {Children(n) : n \in nodes}
Nodes(tree) ==
  LET first == Children(tree)
      second == ChildrenOf(first)
      third == ChildrenOf(second)
  IN  {tree} \cup first \cup second \cup third

Holds(tree, context) ==
  LET holds[node \in Nodes(tree)] ==
        CASE node.node = "all" -> \A i \in DOMAIN node.of : holds[node.of[i]]
          [] node.node = "any" -> \E i \in DOMAIN node.of : holds[node.of[i]]
          [] node.node = "is" -> ComparisonHolds(node, context)
  IN  holds[tree]

Comparisons(tree) == {node \in Nodes(tree) : node.node = "is"}

(* _value_comparisons_on_identity: only presence may be asked of them.       *)
(* Mutant: any test for equality is let through.                             *)
PresenceTestLoose(c) == c.op \in {"eq", "ne"}

PresenceTest(c) == c.op \in {"eq", "ne"} /\ c.value = None

LintAccepts(node, policy) ==
  \A c \in Comparisons(node) : Covered(c.field, policy) => PresenceTest(c)

-----------------------------------------------------------------------------
(* derive_procedure.  No predicate is no signal.                             *)
NoProcedure == "none"
NoPredicate == [node |-> "any", of |-> << >>]

Candidates(procedures, context) ==
  {p \in DOMAIN procedures : Holds(procedures[p], context)}

(* Mutant: of several procedures that fit, one is taken. *)
DeriveGuess(procedures, context, hint) ==
  LET found == Candidates(procedures, context)
  IN  IF hint \in DOMAIN procedures
      THEN IF found \subseteq {hint} THEN hint ELSE NoProcedure
      ELSE IF found # {} THEN CHOOSE p \in found : TRUE ELSE NoProcedure

Derive(procedures, context, hint) ==
  LET found == Candidates(procedures, context)
  IN  IF Cardinality(found) > 1 THEN NoProcedure
      ELSE IF hint \in DOMAIN procedures
           THEN IF found \subseteq {hint} THEN hint ELSE NoProcedure
      ELSE IF found # {} THEN CHOOSE p \in found : TRUE
      ELSE NoProcedure

-----------------------------------------------------------------------------
(* Dates.  Day 3 exists in leap years only.                                  *)
NoDate == [year |-> 0, day |-> 0]
Leap(year) == year % 4 = 0 /\ (year % 100 # 0 \/ year % 400 = 0)
Real(date) == date # NoDate /\ (date.day = 3 => Leap(date.year))
Earlier(a, b) == a.year < b.year \/ (a.year = b.year /\ a.day < b.day)
YearsBetween(a, b) == b.year - a.year - (IF b.day < a.day THEN 1 ELSE 0)

(* _vsnr_birthdate: two digits of the year, read as the last century's. *)
Encoded(digits) ==
  LET date == [year |-> 1900 + digits.year, day |-> digits.day]
  IN  IF digits # NoDate /\ Real(date) THEN date ELSE NoDate

Answer == [breaks : SUBSET {"pattern", "one_of", "min_length", "max_length", "date"},
           date : [year : Nat, day : 0 .. 3], digits : [year : 0 .. 99, day : 0 .. 3]]
Unread == [breaks |-> {"pattern"}, date |-> NoDate, digits |-> NoDate]

(* A record is the answer itself, a placeholder for it, blank, or missing;   *)
(* a placeholder stands for the answer only while the witness knows it.      *)
Readable(record, f, witness) ==
  record[f].form = "plain" \/ (record[f].form = "sealed" /\ f \in witness)

(* Mutant: the other operand is read from the working copy. *)
ValuesUnresolved(record, witness) ==
  [f \in {g \in DOMAIN record : record[g].form \in {"plain", "sealed"}} |->
     IF record[f].form = "plain" THEN record[f].typed ELSE Unread]

Values(record, witness) ==
  [f \in {g \in DOMAIN record : Readable(record, g, witness)} |-> record[f].typed]

(* validation_problem: the local checks in their order, the first that fails. *)
CheckOrder == <<"pattern", "one_of", "min_length", "max_length", "date">>

BrokenChecks(requirement, answer) ==
  {i \in DOMAIN CheckOrder : CheckOrder[i] \in requirement.checks \cap answer.breaks}

(* _check_cross_field: an operand that is missing or no date is not compared, *)
(* but a number whose digits are no date fails by itself.                     *)
CrossFails(entry, answer, values) ==
  LET given == entry.field \in DOMAIN values
      other == values[entry.field].date
      this == answer.date
  IN  CASE entry.kind = "birthdate_in_vsnr" ->
             \/ Encoded(answer.digits) = NoDate
             \/ /\ given /\ other # NoDate
                /\ \/ Encoded(answer.digits).day # other.day
                   \/ Encoded(answer.digits).year % 100 # other.year % 100
        [] OTHER ->
             /\ given /\ this # NoDate /\ other # NoDate
             /\ CASE entry.kind = "not_before" -> Earlier(this, other)
                  [] entry.kind = "not_after" -> Earlier(other, this)
                  [] entry.kind = "min_years_after" ->
                       YearsBetween(other, this) < entry.years
                  [] entry.kind = "max_years_after" ->
                       YearsBetween(other, this) > entry.years

(* Whose value the problem text of a failed cross-field rule quotes.         *)
(* Mutant: _named shows the other operand whoever it belongs to.             *)
CrossQuotesOther(requirement, entry, answer, sealed) ==
  ({requirement.id} \ sealed) \cup {entry.field}

CrossQuotes(requirement, entry, answer, sealed) ==
  IF entry.kind = "birthdate_in_vsnr"
  THEN IF Encoded(answer.digits) = NoDate THEN {requirement.id} \ sealed
       ELSE IF {requirement.id, entry.field} \cap sealed # {} THEN {}
       ELSE {requirement.id, entry.field}
  ELSE {requirement.id, entry.field} \ sealed

Gap(requirement, status, rule, quotes) ==
  {[id |-> requirement.id, status |-> status, rule |-> rule, quotes |-> quotes]}

(* _check_requirement: no gap or one. *)
Check(requirement, record, witness, sealed) ==
  LET form == record[requirement.id].form
      values == Values(record, witness)
      answer == record[requirement.id].typed
      broken == BrokenChecks(requirement, answer)
      failed == {i \in DOMAIN requirement.cross :
                   CrossFails(requirement.cross[i], answer, values)}
      first(S) == CHOOSE i \in S : \A j \in S : i <= j
  IN  IF requirement.kind = "document" \/ form \in {"absent", "blank"}
      THEN Gap(requirement, "missing", "present", {})
      ELSE IF ~ Readable(record, requirement.id, witness)
      THEN Gap(requirement, "invalid", "sealed.unresolved", {})
      ELSE IF broken # {}
      THEN Gap(requirement, "invalid", CheckOrder[first(broken)],
               {requirement.id} \ sealed)
      ELSE IF failed # {}
      THEN LET entry == requirement.cross[first(failed)]
           IN  Gap(requirement, "invalid", entry.kind,
                   CrossQuotes(requirement, entry, answer, sealed))
      ELSE {}

Gaps(requirements, record, witness, sealed) ==
  UNION {Check(r, record, witness, sealed) : r \in requirements}

(* evaluate_completeness; an unknown procedure has no list. *)
NoList == {}
Completeness(requirements, record, witness, sealed) ==
  IF requirements = NoList THEN "not_evaluable"
  ELSE IF Gaps(requirements, record, witness, sealed) = {} THEN "complete"
  ELSE "incomplete"

(* _template: the agency's wording for an invalid value, else for a missing  *)
(* one, else the built-in sentence; only {problem} carries a quote.          *)
Sentence(gap, texts) ==
  LET wording == IF gap.id \notin DOMAIN texts THEN "default"
                 ELSE IF gap.status = "invalid" /\ texts[gap.id].invalid # "none"
                      THEN texts[gap.id].invalid ELSE texts[gap.id].missing
      shows == wording = "problem" \/ (wording = "default" /\ gap.status = "invalid")
  IN  [id |-> gap.id, quotes |-> IF shows THEN gap.quotes ELSE {}]

-----------------------------------------------------------------------------
(* Knowing more never makes a predicate false that knowing less made true:   *)
(* the language has no negation that an unknown field could satisfy          *)
(* (predicate.py, "bad config degrades toward more oversight").              *)
UnknownNeverSatisfies ==
  Asked("predicate") =>
    \A D \in SUBSET DOMAIN PayloadContext(question.payload) :
      LET more == PayloadContext(question.payload)
      IN  Holds(question.tree, [f \in D |-> more[f]]) => Holds(question.tree, more)

(* A predicate the loader accepts answers the same about what was sent and   *)
(* about the working copy in which identity values are placeholders          *)
(* (config_loader.py, _check_identity_paths_are_presence_only: "the          *)
(* transparency invariant").  Predicates on a sealed sub-object are left     *)
(* out: sealing makes a leaf of the object and its own leaves vanish.        *)
SealingIsTransparent ==
  Asked("predicate") =>
    LET policy == question.policy
        tree == question.tree
        ofSubtree(f) == \E r \in policy.subtrees : f = r \/ Below(f, r)
    IN  LintAccepts(tree, policy)
          /\ (\A c \in Comparisons(tree) : ~ ofSubtree(c.field)) =>
        (Holds(tree, PayloadContext(question.payload))
           <=> Holds(tree, PayloadContext(SealPayload(question.payload, policy))))

(* Another piece of content may leave the procedure open, and never turns    *)
(* one procedure into another (derive.py: "es wird nicht geraten").          *)
AWordNeverSwitches ==
  Asked("procedure") =>
    LET one == Derive(question.procedures, question.context, question.hint)
        two == Derive(question.procedures, question.more, question.hint)
    IN  NoProcedure \in {one, two} \/ one = two

(* "We could not check" never looks like "we checked": with every gap        *)
(* closed, what the applicant typed satisfies each rule on the true values,  *)
(* also the rules between two sealed ones (completeness.py, witness).        *)
CompleteIsCoherent ==
  Asked("completeness") =>
    LET list == question.requirements
        typed(f) == question.record[f].typed
    IN  Completeness(list, question.record, question.witness, question.sealed)
          = "complete" =>
        \A r \in list : \A i \in DOMAIN r.cross :
          LET e == r.cross[i]
              a == typed(r.id)
              b == typed(e.field).date
          IN  b # NoDate =>
                CASE e.kind = "birthdate_in_vsnr" ->
                       a.digits = [year |-> b.year % 100, day |-> b.day]
                  [] e.kind = "not_before" -> a.date # NoDate => ~ Earlier(a.date, b)
                  [] e.kind = "not_after" -> a.date # NoDate => ~ Earlier(b, a.date)
                  [] e.kind = "min_years_after" ->
                       a.date # NoDate =>
                         ~ Earlier(a.date, [year |-> b.year + e.years, day |-> b.day])
                  [] e.kind = "max_years_after" ->
                       a.date # NoDate =>
                         Earlier(a.date, [year |-> b.year + e.years + 1, day |-> b.day])

(* No gap, and no sentence made of it, quotes the value of a field the       *)
(* policy seals, as the failing field or as the other operand                *)
(* (completeness.py, "Value visibility").                                    *)
GapsQuoteNothingSealed ==
  Asked("completeness") =>
    \A g \in Gaps(question.requirements, question.record, question.witness,
                  question.sealed) :
      (g.quotes \cup Sentence(g, question.texts).quotes) \cap question.sealed = {}

(* What the engine does not know, or may not see, decides nothing: neither a *)
(* missing field nor a placeholder where a value was makes a predicate hold. *)
PredicatesFailClosed == UnknownNeverSatisfies /\ SealingIsTransparent

(* The verdict of the completeness check is right on the values that were    *)
(* typed, and tells none of those the policy seals.                          *)
TheVerdictIsSound == CompleteIsCoherent /\ GapsQuoteNothingSealed
=============================================================================
