------------------------------ MODULE Letters -------------------------------
(***************************************************************************)
(* How a prepared letter is written: the wording and its conditional parts *)
(* (engine/draft/letters.py), the sealed values put back into it           *)
(* (engine/draft/rehydrate.py), and what is stamped when it is sent:       *)
(* its deadline (engine/draft/bekanntgabe.py) and the facts of the dispatch *)
(* (engine/review/actions.py, engine/dispatch/xdomea.py).                  *)
(*                                                                         *)
(* A text is a sequence of pieces.  A piece is a character of a value, a   *)
(* word of the wording, a placeholder, or Opener: the reserved syntax      *)
(* without a valid placeholder behind it.  Lines and blanks of the layout  *)
(* are the two blanks.  Days are counted; day 0 is a Monday.               *)
(***************************************************************************)
EXTENDS Question, Lists

OneBlank == " "
NextLine == "/"
Opener == "[[PII"
NoPath == "none"
NachforderungLetter == "nachforderung"
(* The placeholders, the token and the kind in each. *)
Syntax == [n1 |-> [token |-> "1", kind |-> "NAME"], n2 |-> [token |-> "2", kind |-> "NAME"],
                a2 |-> [token |-> "2", kind |-> "ADDR"], a3 |-> [token |-> "3", kind |-> "ADDR"]]
IsPlaceholder(piece) == piece \in DOMAIN Syntax
NoText == <<"blocked">>
Refused == [refused |-> TRUE]

-----------------------------------------------------------------------------
(* Values.  A sealed value is a text, a list or an address, the parts of     *)
(* which are texts; a nested part stands for any deeper value.               *)
Blanks == {OneBlank, NextLine}
Without(list, these) == Those(list, ToSet(list) \ these)
Packed(text) == Without(text, Blanks)
Join(texts, between) ==
  LET said == Without(texts, {<< >>})
  IN  FlattenSeq([i \in DOMAIN said |-> IF i = 1 THEN said[i] ELSE <<between>> \o said[i]])

(* _collapse_text: one gap between words, none at the ends; a nested part    *)
(* has no text.                                                              *)
Collapse(part) ==
  LET written == {i \in DOMAIN part.of : part.of[i] \notin Blanks}
      gaps == {i \in DOMAIN part.of \ written :
                 i + 1 \in written /\ \E j \in written : j < i}
      kept == Ascending(written \cup gaps)
  IN  IF part.form = "nested" THEN << >>
      ELSE [k \in DOMAIN kept |-> IF kept[k] \in gaps THEN OneBlank ELSE part.of[kept[k]]]

AddressLines == << <<"co">>, <<"strasse", "hausnummer", "adresszusatz", "zusatz">>,
                   <<"postfach">>, <<"plz", "ort">>, <<"bundesland">>, <<"land">> >>
AddressKeys == ToSet(FlattenSeq(AddressLines))

(* The keys a letter has a line for. *)
FormatKnownAddress(parts) ==
  LET line(keys) == Join([i \in DOMAIN keys |->
                            IF keys[i] \in DOMAIN parts THEN Collapse(parts[keys[i]])
                            ELSE << >>], OneBlank)
  IN  Join([i \in DOMAIN AddressLines |-> line(AddressLines[i])], NextLine)

(* format_address: the known lines in a letter's order, then what is left.   *)
FormatAddress(parts) ==
  LET known == FormatKnownAddress(parts)
      rest == SetToSeq(DOMAIN parts \ AddressKeys)
      others == [i \in DOMAIN rest |-> Collapse(parts[rest[i]])]
  IN  Join(<<known>> \o others, NextLine)

FormatValue(value) ==
  CASE value.form = "address" -> FormatAddress(value.of)
    [] value.form = "list" -> Join([i \in DOMAIN value.of |-> Collapse(value.of[i])], NextLine)
    [] value.form = "text" -> Collapse(value)

LeafTexts(value) ==
  LET parts == IF value.form = "list" THEN value.of
               ELSE LET keys == SetToSeq(DOMAIN value.of)
                    IN  [i \in DOMAIN keys |-> value.of[keys[i]]]
  IN  Without([i \in DOMAIN parts |-> Packed(parts[i].of)], {<< >>})

(* Mutant: every part must occur somewhere in the display. *)
RoundTripOccurs(value, display) ==
  IF value.form = "text" THEN Packed(value.of) = Packed(display)
  ELSE \A i \in DOMAIN LeafTexts(value) :
         \E a, b \in DOMAIN display : SubSeq(Packed(display), a, b) = LeafTexts(value)[i]

(* round_trip_ok: the parts, the longest first, use up the whole display.    *)
LongestFirst(leaves) ==
  LET longer == [i \in DOMAIN leaves |->
                   {j \in DOMAIN leaves : \/ Len(leaves[j]) > Len(leaves[i])
                                          \/ Len(leaves[j]) = Len(leaves[i]) /\ j < i}]
      order == ByPlace(DOMAIN leaves, longer)
  IN  [k \in DOMAIN leaves |-> leaves[order[k]]]
StartsOf(leaf, text) ==
  {a \in DOMAIN text : /\ a + Len(leaf) - 1 <= Len(text)
                       /\ SubSeq(text, a, a + Len(leaf) - 1) = leaf}
Consume(left, leaf) ==
  IF left = NoText \/ StartsOf(leaf, left) = {} THEN NoText
  ELSE LET a == Min(StartsOf(leaf, left))
       IN  SubSeq(left, 1, a - 1) \o SubSeq(left, a + Len(leaf), Len(left))
RoundTripOk(value, display) ==
  IF value.form = "text" THEN Packed(value.of) = Packed(display)
  ELSE FoldLeft(Consume, Packed(display), LongestFirst(LeafTexts(value))) = << >>

-----------------------------------------------------------------------------
(* Re-hydration.  A record is a sequence of entries with different tokens.   *)
EntriesFor(record, piece) ==
  {e \in ToSet(record) : e.token = Syntax[piece].token}
ValueOf(record, piece) == (CHOOSE e \in EntriesFor(record, piece) : TRUE).value

Resolves(record, piece) ==
  \E e \in EntriesFor(record, piece) :
    /\ e.kind = Syntax[piece].kind
    /\ FormatValue(e.value) # << >>
    /\ RoundTripOk(e.value, FormatValue(e.value))

Survivors(text) == {i \in DOMAIN text : text[i] = Opener \/ IsPlaceholder(text[i])}

(* The first placeholder of each token resolves - what stands at a later one  *)
(* of the same token is not looked up again, nor its kind compared -, and     *)
(* every opener begins one.                                                  *)
NamesFirst(text, i) ==
  /\ IsPlaceholder(text[i])
  /\ \A j \in 1 .. i - 1 :
       IsPlaceholder(text[j]) => Syntax[text[j]].token # Syntax[text[i]].token

Shown(record, piece) ==
  IF IsPlaceholder(piece) THEN FormatValue(ValueOf(record, piece)) ELSE <<piece>>

RehydrateOnce(text, record) ==
  IF \A i \in DOMAIN text : /\ text[i] # Opener
                            /\ NamesFirst(text, i) => Resolves(record, text[i])
  THEN FlattenSeq([i \in DOMAIN text |-> Shown(record, text[i])])
  ELSE NoText

Unsealed(rendered) == IF Survivors(rendered) = {} THEN rendered ELSE NoText
Rehydrate(text, record) == Unsealed(RehydrateOnce(text, record))

-----------------------------------------------------------------------------
(* The letter.                                                               *)
Softened(drafting, procedure) ==
  UNION {e.requirements : e \in {d \in drafting.amtsermittlung : d.procedure = procedure}}

GapSentences(gaps, drafting, procedure) ==
  [i \in DOMAIN gaps |-> [requirement |-> gaps[i], sentence |-> <<"bitte", gaps[i]>>,
                          softened |-> gaps[i] \in Softened(drafting, procedure)]]

(* Mutant: the warning covers every gap. *)
ScopeOfEveryGap(request, requested) ==
  IF ~ requested \/ request.kind # NachforderungLetter THEN << >>
  ELSE [i \in DOMAIN request.gaps |-> request.gaps[i].requirement]

RechtsfolgenScope(request, requested) ==
  LET due == Without(request.gaps, {g \in ToSet(request.gaps) : g.softened})
  IN  IF ~ requested \/ request.kind # NachforderungLetter THEN << >>
      ELSE [i \in DOMAIN due |-> due[i].requirement]

RechtsfolgenBody(scope) == IF scope = << >> THEN << >> ELSE <<"hinweis">> \o scope

AddresseeSlots(record, drafting) ==
  LET slot(s) == CHOOSE e \in ToSet(record) : e.path = drafting.addressee[s]
      filled == {s \in DOMAIN drafting.addressee :
                   \E e \in ToSet(record) : e.path = drafting.addressee[s]}
  IN  [s \in filled |-> CHOOSE p \in DOMAIN Syntax :
                          Syntax[p] = [token |-> slot(s).token, kind |-> slot(s).kind]]

SoftenedText(gap) ==
  gap.sentence \o (IF gap.softened THEN <<"amtsermittlung">> ELSE << >>)

OrderedFacts(facts, declared) ==
  LET known == Those(declared, DOMAIN facts)
      others == SetToSeq(DOMAIN facts \ ToSet(declared))
  IN  known \o others

(* build_letter, its template reduced to the slots that vary.                *)
Wording(request, drafting, record, scope) ==
  LET slots == AddresseeSlots(record, drafting)
      head == [i \in DOMAIN drafting.head |->
                 IF drafting.head[i] \in DOMAIN slots THEN <<slots[drafting.head[i]]>>
                 ELSE << >>]
      asked == [i \in DOMAIN request.gaps |-> SoftenedText(request.gaps[i])]
      order == OrderedFacts(request.facts, drafting.declared)
      stated == [i \in DOMAIN order |-> <<order[i]>> \o request.facts[order[i]]]
  IN  IF request.kind = NachforderungLetter
      THEN Join(<<Join(head \o asked, NextLine), RechtsfolgenBody(scope)>>, NextLine)
      ELSE Join(head \o stated, NextLine)

Prepared(request, drafting, scope, body) ==
  IF body = NoText THEN Refused
  ELSE [kind |-> request.kind, body |-> body, warns |-> scope # << >>,
        asks |-> [i \in DOMAIN request.gaps |-> request.gaps[i].requirement],
        window |-> IF request.kind = NachforderungLetter THEN drafting.window ELSE 0]
BuildLetter(request, drafting, record, requested) ==
  LET scope == RechtsfolgenScope(request, requested)
  IN  Prepared(request, drafting, scope,
               Rehydrate(Wording(request, drafting, record, scope), record))

-----------------------------------------------------------------------------
(* The calendar.                                                             *)
BekanntgabeDays == 4
IsWorkingDay(day, holidays) == day % 7 \notin {5, 6} /\ day \notin holidays
NoDay == -1
NextWorkingDay(day, holidays) ==
  LET near == {d \in day .. day + 7 : IsWorkingDay(d, holidays)}
  IN  IF near = {} THEN NoDay ELSE Min(near)

(* Mutant: only the end of the period is moved to a working day. *)
DeadlineMovedOnce(posted, window, holidays) ==
  [told |-> NextWorkingDay(posted + BekanntgabeDays, holidays),
   due |-> NextWorkingDay(posted + BekanntgabeDays + window, holidays)]

ResponseDeadline(posted, window, holidays) ==
  LET told == NextWorkingDay(posted + BekanntgabeDays, holidays)
  IN  [told |-> told,
       due |-> IF told = NoDay THEN NoDay ELSE NextWorkingDay(told + window, holidays)]

(* _facts_for: what the confirmation stamps.                                 *)
DispatchFacts(letter, drafting, channel, posted, holidays) ==
  [shape |-> IF channel \in DOMAIN drafting.dispatch THEN drafting.dispatch[channel]
             ELSE "unbekannt",
   posted |-> posted, holidays |-> Cardinality(holidays),
   deadline |-> IF letter.kind = NachforderungLetter /\ letter.window # 0
                THEN ResponseDeadline(posted, letter.window, holidays)
                ELSE [told |-> NoDay, due |-> NoDay]]

-----------------------------------------------------------------------------
Times(c, text) == Cardinality({i \in DOMAIN text : text[i] = c})
RequestOf(q) == [kind |-> q.kind, facts |-> q.facts,
                 gaps |-> GapSentences(q.gaps, q.drafting, q.procedure)]

(* A letter that is written carries everything it was to carry: the          *)
(* characters of each sealed value it names, no more and no fewer, the words  *)
(* around them, and no placeholder, not even one that a value brought along;  *)
(* and each value is in the record and is named by its kind (rehydrate.py: a  *)
(* draft that could not be re-hydrated does not exist).                       *)
Contents(value) ==
  IF value.form = "text" THEN value.of ELSE FlattenSeq(LeafTexts(value))
CarriesItsValues(body, words, record) ==
  LET carried(piece) ==
        IF IsPlaceholder(piece) THEN Contents(ValueOf(record, piece)) ELSE <<piece>>
      whole == FlattenSeq([i \in DOMAIN words |-> carried(words[i])])
      named == {p \in ToSet(words) : IsPlaceholder(p)}
  IN  /\ Survivors(body) = {}
      /\ \A p \in named : \E e \in EntriesFor(record, p) : \E q \in named :
           Syntax[q] = [token |-> e.token, kind |-> e.kind]
      /\ \A c \in (ToSet(body) \cup ToSet(whole)) \ Blanks :
           Times(c, body) = Times(c, whole)

(* A letter threatens only with what it asks for and does not itself call    *)
(* determinable by the agency: the warning is never on a letter that states   *)
(* a decision, is on it exactly when it was recorded, and the deadline        *)
(* stamped with it leaves the window the letter states (C-7).                 *)
WarningFits(letter, deadline, requested) ==
  LET body == letter.body
      at(word) == {i \in DOMAIN body : body[i] = word}
      noted(r) == \E i \in DOMAIN body :
                    /\ i + 2 <= Len(body) /\ body[i] = "bitte"
                    /\ body[i + 1] = r /\ body[i + 2] = "amtsermittlung"
  IN  /\ at("hinweis") # {} <=> letter.warns
      /\ letter.warns =>
           /\ requested /\ letter.kind = NachforderungLetter
           /\ deadline.due >= deadline.told + letter.window
           /\ \A i \in DOMAIN body : i > Min(at("hinweis")) =>
                /\ body[i] \in ToSet(letter.asks) /\ ~ noted(body[i])
                /\ Min(at(body[i])) < i

(* A letter carries what it has to carry and threatens only where it may.    *)
ALetterSaysWhatItMust ==
  Asked("letter out") =>
    \A request \in {RequestOf(question)} :
    \A letter \in {BuildLetter(request, question.drafting, question.record,
                               question.requested)} \ {Refused} :
      /\ CarriesItsValues(letter.body,
                          Wording(request, question.drafting, question.record,
                                  RechtsfolgenScope(request, question.requested)),
                          question.record)
      /\ WarningFits(letter, DispatchFacts(letter, question.drafting, question.channel,
                                           0, {}).deadline, question.requested)

(* A deadline is a working day, leaves the whole window after the day on     *)
(* which the letter counts as received, is the first such day, and is never   *)
(* earlier for a letter posted later.                                         *)
TheWindowIsWhole ==
  Asked("deadline") =>
    LET this == ResponseDeadline(question.posted, question.window, question.holidays)
        next == ResponseDeadline(question.posted + 1, question.window, question.holidays)
        works(d) == IsWorkingDay(d, question.holidays)
    IN  this.due # NoDay =>
          /\ works(this.told) /\ works(this.due)
          /\ this.told >= question.posted + BekanntgabeDays
          /\ this.due >= this.told + question.window
          /\ \A d \in this.told + question.window .. this.due - 1 : ~ works(d)
          /\ next.due # NoDay => this.told <= next.told /\ this.due <= next.due
=============================================================================
