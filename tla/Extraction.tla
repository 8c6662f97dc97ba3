----------------------------- MODULE Extraction -----------------------------
(***************************************************************************)
(* The extraction plane (engine/extract): records mapped from a structured *)
(* payload, proposals replayed from a fixture or asked of a live model,    *)
(* the two locks that verify a proposal against the text, and what one run *)
(* journals about its losses.                                              *)
(*                                                                         *)
(* A text is a sequence of characters: two letters, one of them in both    *)
(* cases, a blank, and a placeholder, which counts as one character.       *)
(* Offsets count from zero and ends are exclusive, as in the code.         *)
(***************************************************************************)
EXTENDS Question, Lists, Integers, Sequences, FiniteSets, SequencesExt

Sealed == "placeholder"
Window(text, from, to) == SubSeq(text, from + 1, to)
Occurs(needle, text) ==
  \E k \in 0 .. Len(text) - Len(needle) : Window(text, k, k + Len(needle)) = needle
BlankText(text) == \A i \in DOMAIN text : text[i] = " "

(* _fold: runs of whitespace are one blank, none at the ends; no case.       *)
FoldedText(text) ==
  LET say(said, c) == IF c # " " THEN Append(said, IF c = "V" THEN "v" ELSE c)
                      ELSE IF said = << >> \/ Last(said) = " " THEN said
                      ELSE Append(said, " ")
      said == FoldLeft(say, << >>, text)
  IN  IF said # << >> /\ Last(said) = " " THEN Front(said) ELSE said

TrimmedText(text) ==
  LET solid == {i \in DOMAIN text : text[i] # " "}
  IN  IF solid = {} THEN << >>
      ELSE SubSeq(text, CHOOSE i \in solid : \A j \in solid : i <= j,
                        CHOOSE i \in solid : \A j \in solid : j <= i)

-----------------------------------------------------------------------------
(* _source_type: what a part says of itself, if it says one there is, else   *)
(* what its channel implies.                                                 *)
SourceTypeOf(says, channel) ==
  IF says \in {"typed", "ocr"} THEN says
  ELSE IF channel = "scan" THEN "ocr" ELSE "typed"

(* text_parts_of: the body, then the attachments that carry text; a part is  *)
(* named by its place among those that are not blank.                        *)
(* Mutant: all of them are what the channel implies.                         *)
TextPartsOfChannel(submission) ==
  LET all == <<submission.body>> \o submission.attachments
      texts == Those(all, {part \in Range(all) : ~ BlankText(part.text)})
  IN  [i \in DOMAIN texts |->
         [text |-> texts[i].text, type |-> SourceTypeOf("unset", submission.channel)]]

TextPartsOf(submission) ==
  LET all == <<submission.body>> \o submission.attachments
      texts == Those(all, {part \in Range(all) : ~ BlankText(part.text)})
  IN  [i \in DOMAIN texts |->
         [text |-> texts[i].text,
          type |-> SourceTypeOf(texts[i].says, submission.channel)]]

(* map_payload: a record for every mapped field whose path has a value.      *)
Mapped(payload, fieldMap) ==
  LET valued == Those(fieldMap, DOMAIN payload)
  IN  [k \in DOMAIN valued |->
         [field |-> valued[k], value |-> payload[valued[k]], mode |-> "structured"]]

Unmapped(payload, fieldMap) == Those(fieldMap, Range(fieldMap) \ DOMAIN payload)

(* A proposal, by fixture or by model; its end follows from the quote.       *)
Proposal(field, value, quote, part, offset) ==
  [field |-> field, value |-> value, quote |-> quote, part |-> part, offset |-> offset]
EndOf(proposal) == proposal.offset + Len(proposal.quote)

(* _locate: the first place of the anchor, and where the blanks after it end. *)
Places(text, anchor) ==
  {k \in 0 .. Len(text) - Len(anchor) : Window(text, k, k + Len(anchor)) = anchor}
AnchorStart(text, anchor) ==
  CHOOSE k \in Places(text, anchor) : \A j \in Places(text, anchor) : k <= j
ValueStart(text, anchor) ==
  LET from == AnchorStart(text, anchor) + Len(anchor)
  IN  CHOOSE k \in from .. Len(text) :
        /\ \A j \in from + 1 .. k : text[j] = " "
        /\ k < Len(text) => text[k + 1] # " "

(* replay_proposals, one entry: no proposal or one.  A sealed entry wants    *)
(* the placeholder itself behind its anchor; a literal one quotes what it    *)
(* declares from the anchor on.                                              *)
Replayed(entry, parts) ==
  IF entry.part \notin DOMAIN parts \/ Places(parts[entry.part].text, entry.anchor) = {}
  THEN << >>
  ELSE LET text == parts[entry.part].text
           at == ValueStart(text, entry.anchor)
       IN  IF entry.mode = "literal"
           THEN << Proposal(entry.field, entry.value, entry.quote, entry.part,
                            AnchorStart(text, entry.anchor)) >>
           ELSE IF at < Len(text) /\ text[at + 1] = Sealed
           THEN << Proposal(entry.field, <<Sealed>>, <<Sealed>>, entry.part, at) >>
           ELSE << >>

(* ExtractorPosture.from_env, build_extractor: replay unless the environment *)
(* or the config asks for live; live without an endpoint is refused.         *)
Extractor(posture, policy) ==
  LET mode == IF posture.mode # "unset" THEN posture.mode
              ELSE IF policy.enabled THEN "live" ELSE "replay"
      endpoint == posture.endpoint \/ policy.endpoint
  IN  IF mode = "live" /\ ~ endpoint THEN "refused" ELSE mode

(* LiveExtractor.propose: attempts until one is answered and every entry of  *)
(* the answer has its shape; entries for other fields are dropped.           *)
WellFormed(answer) == answer.sent /\ \A i \in DOMAIN answer.entries :
                                       answer.entries[i].typed
Answered(answers, attempts) ==
  {i \in DOMAIN answers : i <= attempts /\ WellFormed(answers[i])}
LiveProposals(answers, attempts, part, text, fields) ==
  LET good == Answered(answers, attempts)
      first == CHOOSE i \in good : \A j \in good : i <= j
      wanted == Those(answers[first].entries,
                      {e \in Range(answers[first].entries) : e.field \in fields})
  IN  IF good = {} \/ text = << >> \/ fields = {} THEN << >>
      ELSE [k \in DOMAIN wanted |->
              Proposal(wanted[k].field, wanted[k].value, wanted[k].quote, part,
                       wanted[k].offset)]

(* field_descriptions: the fields a live model is asked for.                 *)
Described(q) == {f \in q.required : \E i \in DOMAIN q.fieldMap : q.fieldMap[i] = f}

Proposals(q, parts) ==
  FlattenSeq([i \in DOMAIN q.fixture |-> Replayed(q.fixture[i], parts)])
    \o IF Extractor(q.posture, q.policy) = "live"
       THEN FlattenSeq([i \in DOMAIN parts |->
              LiveProposals(q.answers[i], q.policy.attempts, i, parts[i].text,
                            Described(q))])
       ELSE << >>

-----------------------------------------------------------------------------
(* The quotes of a typed part must match exactly; of one that was read,      *)
(* rapidfuzz's ratio decides (ScoreOf: outside the repository; here texts of *)
(* one length that differ in at most one place are alike enough).            *)
PolicyFor(part) == IF part.type = "typed" THEN "exact" ELSE "fuzzy"
AlikeEnough(a, b) ==
  Len(a) = Len(b) /\ Cardinality({i \in DOMAIN a : a[i] # b[i]}) <= 1

(* match_score against the policy's minimum, which is 1 when exact.          *)
QuoteMatches(window, quote, policy) ==
  window = quote \/ (policy = "fuzzy" /\ window # << >> /\ AlikeEnough(window, quote))

ValueInQuote(value, quote, policy) ==
  /\ FoldedText(value) # << >>
  /\ \/ Occurs(FoldedText(value), FoldedText(quote))
     \/ policy = "fuzzy" /\ AlikeEnough(FoldedText(value), FoldedText(quote))

(* verify_proposal: the first failure, in the order of the code.             *)
FailureOf(p, parts, known) ==
  IF BlankText(p.value) \/ BlankText(p.quote) THEN "empty_value"
  ELSE IF p.field \notin known THEN "unknown_field"
  ELSE IF p.part \notin DOMAIN parts THEN "unknown_part"
  ELSE IF p.offset < 0 \/ EndOf(p) > Len(parts[p.part].text) THEN "offset_out_of_range"
  ELSE IF ~ QuoteMatches(Window(parts[p.part].text, p.offset, EndOf(p)), p.quote,
                         PolicyFor(parts[p.part])) THEN "quote_mismatch"
  ELSE IF ~ ValueInQuote(p.value, p.quote, PolicyFor(parts[p.part])) THEN "value_not_in_quote"
  ELSE "none"

TextRecord(p, parts) ==
  [field |-> p.field, value |-> TrimmedText(p.value), mode |-> PolicyFor(parts[p.part]),
   part |-> p.part, from |-> p.offset, to |-> EndOf(p)]

(* verify_proposals: a field is taken by the first record that has it.       *)
VerifyProposals(proposals, parts, known, taken) ==
  FoldLeft(LAMBDA sum, p :
             IF \/ p.field \in taken
                \/ \E i \in DOMAIN sum.records : sum.records[i].field = p.field
                \/ FailureOf(p, parts, known) # "none"
             THEN [sum EXCEPT !.rejected = Append(@, p)]
             ELSE [sum EXCEPT !.records = Append(@, TextRecord(p, parts))],
           [records |-> << >>, rejected |-> << >>], proposals)

FieldsOf(records) == {records[i].field : i \in DOMAIN records}

(* extract_all's count: what the mapper missed and a text record did not     *)
(* recover, and what verification rejected.                                  *)
(* Mutant: a recovered field stays counted.                                  *)
DiscardedUnrecovered(missed, verified) == Len(missed) + Len(verified.rejected)

Discarded(missed, verified) ==
  LET recovered == Those(verified.records,
                         {r \in Range(verified.records) : r.field \in Range(missed)})
      count == Len(missed) + Len(verified.rejected) - Len(recovered)
  IN  IF count > 0 THEN count ELSE 0

ExtractAll(q) ==
  LET mapped == Mapped(q.payload, q.fieldMap)
      missed == Unmapped(q.payload, q.fieldMap)
      parts == TextPartsOf(q.submission)
      verified == VerifyProposals(Proposals(q, parts), parts,
                                  {q.fieldMap[i] : i \in DOMAIN q.fieldMap},
                                  FieldsOf(mapped))
  IN  [records |-> mapped \o verified.records, missed |-> missed,
       rejected |-> verified.rejected, discarded |-> Discarded(missed, verified)]

(* _journal: what the EXTRACTED event says of the run: fields and spans,     *)
(* never values.                                                             *)
Extracted(outcome) ==
  LET rejected == Range(outcome.rejected)
  IN  [fields |-> [i \in DOMAIN outcome.records |-> outcome.records[i].field],
       discarded |-> outcome.discarded, missed |-> outcome.missed,
       byPart |-> [p \in {r.part : r \in rejected} |->
                     Len(Those(outcome.rejected, {r \in rejected : r.part = p}))]]

-----------------------------------------------------------------------------
(* Whatever a model or a fixture proposes, the value of a record stands in a *)
(* text of the submission at the span the record names; only a text that was *)
(* machine-read excuses a difference (verify.py, the two locks; envelope.py, *)
(* "calling e-mail text OCR would license fuzzy matching").                  *)
AValueStandsAtItsSpan ==
  Asked("extraction") =>
    LET all == ExtractAll(question).records
        sent == {question.submission.body}
                  \cup {question.submission.attachments[i] :
                         i \in DOMAIN question.submission.attachments}
        read(t) == \/ t.says = "ocr"
                   \/ t.says # "typed" /\ question.submission.channel = "scan"
    IN  \A r \in {all[i] : i \in DOMAIN all} :
          r.mode # "structured" =>
            \E t \in sent :
              /\ 0 <= r.from /\ r.to <= Len(t.text)
              /\ \/ read(t)
                 \/ Occurs(FoldedText(r.value), FoldedText(Window(t.text, r.from, r.to)))

(* Every mapped field ends with one record, the form's where the form gives  *)
(* a value, or as a loss; and the journaled count is that of the losses and  *)
(* of the rejected proposals, each once, whichever of the sources failed     *)
(* (orchestrate.py: a field the text could fill "is no longer a loss").      *)
LossIsCounted ==
  Asked("extraction") =>
    LET outcome == ExtractAll(question)
        all == outcome.records
        event == Extracted(outcome)
        silent == {i \in DOMAIN question.fieldMap :
                     ~ \E k \in DOMAIN event.fields :
                         event.fields[k] = question.fieldMap[i]}
    IN  /\ event.discarded = Cardinality(silent) + Len(outcome.rejected)
        /\ \A i, j \in DOMAIN all :
             /\ all[i].field = all[j].field => i = j
             /\ all[i].field \in DOMAIN question.payload => all[i].mode = "structured"
=============================================================================
