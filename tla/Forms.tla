------------------------------- MODULE Forms -------------------------------
(***************************************************************************)
(* The demo's forms: what a posted form becomes as a submission            *)
(* (engine/demo/personas.py), the hearing of the counterparty built from    *)
(* it (engine/demo/gegenpartei.py), and what the pages show of both         *)
(* (api/demo.py).                                                          *)
(*                                                                         *)
(* A typed text is the sequence of its words after strip, so a blank is    *)
(* the empty sequence; a path is the sequence of its keys.                 *)
(***************************************************************************)
EXTENDS Question, Lists

Empty == << >>
NoLink == [absent |-> TRUE]
Statusfeststellung == "statusfeststellung"
Auftraggeber == <<"auftraggeber", "firmenname">>
Applicant == <<"antragsteller", "name">>
Taetigkeit == <<"antrag", "taetigkeit">>
Beginn == <<"antrag", "beginn">>
Antragsart == <<"antrag", "antragsart">>

-----------------------------------------------------------------------------
(* personas.py: a submission from the posted values.                         *)
InBox(field, values) ==
  IF field.id \in DOMAIN values THEN values[field.id] ELSE field.value

FieldsAt(persona, path) == {i \in DOMAIN persona.fields : persona.fields[i].path = path}

(* The words in these boxes, the boxes in this order.                        *)
WordsOf(persona, values, boxes) ==
  FlattenSeq([k \in DOMAIN boxes |-> InBox(persona.fields[boxes[k]], values)])

(* Join order, and screen order within it.                                   *)
InJoinOrder(persona, boxes) ==
  LET order(i) == persona.fields[i].order
  IN  ByPlace(boxes, [i \in boxes |->
        {j \in boxes : order(j) < order(i) \/ (order(j) = order(i) /\ j < i)}])

(* _by_path and the join.                                                    *)
JoinedAt(persona, values, path) ==
  WordsOf(persona, values, InJoinOrder(persona, FieldsAt(persona, path)))

(* _assign: a value written over an object, or below a value, replaces it.   *)
Assign(data, path, text) ==
  LET kept == {p \in DOMAIN data : ~ IsPrefix(p, path) /\ ~ IsPrefix(path, p)}
  IN  [p \in kept \cup {path} |-> IF p = path THEN text ELSE data[p]]

FormData(persona, values) ==
  LET first == {i \in DOMAIN persona.fields :
                  \A j \in 1 .. i - 1 : persona.fields[j].path # persona.fields[i].path}
      add(data, i) ==
        LET path == persona.fields[i].path
            text == JoinedAt(persona, values, path)
        IN  IF text = Empty THEN data ELSE Assign(data, path, text)
  IN  FoldLeft(add, [p \in {} |-> Empty],
               Those([i \in DOMAIN persona.fields |-> i], first))

SelectedAttachments(persona, values) ==
  {a \in persona.attachments : a \in DOMAIN values /\ values[a] # Empty}

BuildFormSubmission(persona, values) ==
  [channel |-> "fit_connect", data |-> FormData(persona, values), body |-> Empty,
   attachments |-> SelectedAttachments(persona, values), hint |-> persona.hint]

At(submission, path) ==
  IF path \in DOMAIN submission.data THEN submission.data[path] ELSE Empty

-----------------------------------------------------------------------------
(* gegenpartei.py.  _joined is a second join, ties going by the value.       *)
Precedes(a, b) ==
  \E n \in 0 .. Min({Len(a), Len(b)}) :
    /\ \A i \in 1 .. n : a[i] = b[i]
    /\ \/ n = Len(a) /\ n < Len(b)
       \/ n < Len(a) /\ n < Len(b) /\ a[n + 1] < b[n + 1]

(* Mutant: the boxes are read in the order of the screen.                    *)
JoinedOnScreen(persona, values, path) ==
  WordsOf(persona, values, Ascending(FieldsAt(persona, path)))

JoinedText(persona, values, path) ==
  LET boxes == FieldsAt(persona, path)
      order(i) == persona.fields[i].order
      text(i) == InBox(persona.fields[i], values)
      sooner(j, i) == Precedes(text(j), text(i)) \/ (text(j) = text(i) /\ j < i)
      before == [i \in boxes |-> {j \in boxes : order(j) < order(i)
                                               \/ (order(j) = order(i) /\ sooner(j, i))}]
  IN  WordsOf(persona, values, ByPlace(boxes, before))

(* statement_request: one is earned by a procedure with a second party and a  *)
(* party that was named.                                                     *)
StatementRequest(persona, values, procedure) ==
  IF procedure # Statusfeststellung \/ JoinedText(persona, values, Auftraggeber) = Empty
  THEN NoLink
  ELSE [auftraggeber |-> JoinedText(persona, values, Auftraggeber),
        applicant |-> JoinedText(persona, values, Applicant),
        taetigkeit |-> JoinedText(persona, values, Taetigkeit),
        beginn |-> JoinedText(persona, values, Beginn),
        antragsart |-> JoinedText(persona, values, Antragsart)]

(* statement_form: the counterparty's own fields, four of them carried.      *)
StatementForm(link, own) ==
  LET carried == [firmenname |-> link.auftraggeber, taetigkeit_beginn |-> link.beginn,
                  antragsart |-> link.antragsart, taetigkeit_bezeichnung |-> link.taetigkeit]
  IN  [fields |-> [i \in DOMAIN own |->
                     IF own[i].id \in DOMAIN carried
                     THEN [own[i] EXCEPT !.value = carried[own[i].id]] ELSE own[i]],
       attachments |-> {}, hint |-> Statusfeststellung]

(* request_letter: its slots; Unstated and UnnamedApplicant stand in.        *)
Unstated == <<0>>
RequestLetter(link) ==
  [slot \in DOMAIN link |-> IF link[slot] = Empty THEN Unstated ELSE link[slot]]

BuildStatementSubmission(statement, values, body) ==
  [BuildFormSubmission(statement, values) EXCEPT !.body = body]

(* statement_answers: the questions of the form that were answered.          *)
StatementAnswers(asked, values) ==
  LET value(id) == IF id \in DOMAIN values THEN values[id] ELSE Empty
      answered == Those(asked, {id \in Range(asked) : value(id) # Empty})
  IN  [i \in DOMAIN answered |-> [field |-> answered[i], value |-> value(answered[i])]]

-----------------------------------------------------------------------------
(* demo.py: a form as the page shows it, and as a browser sends it back.     *)
Vocabulary(procedures, path) ==
  LET says(i) == path \in DOMAIN procedures[i] /\ procedures[i][path] # << >>
  IN  IF \E i \in DOMAIN procedures : says(i)
      THEN procedures[Min({i \in DOMAIN procedures : says(i)})][path] ELSE << >>

(* Mutant: a value the vocabulary does not know is not offered.              *)
FieldViewOfVocabulary(field, value, procedures) ==
  LET choices == IF field.control # "select" THEN << >>
                 ELSE IF field.options # << >> THEN field.options
                 ELSE Vocabulary(procedures, field.path)
  IN  [id |-> field.id, value |-> value, choices |-> choices,
       control |-> IF field.control = "select" /\ choices = << >> THEN "text"
                   ELSE field.control]

FieldView(field, value, procedures) ==
  LET known == IF field.control # "select" THEN << >>
               ELSE IF field.options # << >> THEN field.options
               ELSE Vocabulary(procedures, field.path)
      choices == IF known # << >> /\ value # Empty /\ value \notin Range(known)
                 THEN <<value>> \o known ELSE known
  IN  [id |-> field.id, value |-> value, choices |-> choices,
       control |-> IF field.control = "select" /\ choices = << >> THEN "text"
                   ELSE field.control]

(* grouped_rows: consecutive fields of one group share a row.                *)
GroupedRows(fields, values, procedures) ==
  LET place(rows, i) ==
        LET view == FieldView(fields[i], InBox(fields[i], values), procedures)
        IN  IF i > 1 /\ fields[i].group # "" /\ fields[i].group = fields[i - 1].group
            THEN [rows EXCEPT ![Len(rows)] = Append(@, view)]
            ELSE Append(rows, <<view>>)
  IN  FoldLeft(place, << >>, [i \in DOMAIN fields |-> i])

(* build_intake_view, as far as it is posted: the rows and the ticked boxes. *)
IntakeView(persona, values, procedures) ==
  [rows |-> GroupedRows(persona.fields, values, procedures),
   ticked |-> SelectedAttachments(persona, values)]

(* The browser sends every control of the page; a list without a selected    *)
(* entry sends its first.                                                    *)
PostedUnchanged(view) ==
  LET shown == UNION {Range(view.rows[k]) : k \in DOMAIN view.rows}
      sends(v) == IF v.control = "select" /\ v.value \notin Range(v.choices)
                  THEN v.choices[1] ELSE v.value
  IN  [id \in {v.id : v \in shown} \cup view.ticked |->
         IF id \in view.ticked THEN <<1>>
         ELSE sends(CHOOSE v \in shown : v.id = id)]

-----------------------------------------------------------------------------
(* echo_values: the identity values, one entry for each group.               *)
PairKey(field) == IF field.group = "" THEN field.id ELSE field.group

(* Mutant: a group's values are shown in the order of the screen.            *)
EchoOnScreen(persona, values) ==
  LET fields == persona.fields
      typed == {i \in DOMAIN fields : fields[i].kind # "" /\ InBox(fields[i], values) # Empty}
      of(key) == {i \in typed : PairKey(fields[i]) = key}
      heads == Ascending({i \in typed : \A j \in of(PairKey(fields[i])) : i <= j})
      row(head) == [key |-> PairKey(head), kind |-> head.kind,
                    value |-> WordsOf(persona, values, Ascending(of(PairKey(head))))]
  IN  [k \in DOMAIN heads |-> row(fields[heads[k]])]

EchoValues(persona, values) ==
  LET fields == persona.fields
      typed == {i \in DOMAIN fields : fields[i].kind # "" /\ InBox(fields[i], values) # Empty}
      of(key) == {i \in typed : PairKey(fields[i]) = key}
      heads == Ascending({i \in typed : \A j \in of(PairKey(fields[i])) : i <= j})
      row(head) == [key |-> PairKey(head), kind |-> head.kind,
                    value |-> WordsOf(persona, values,
                                      InJoinOrder(persona, of(PairKey(head))))]
  IN  [k \in DOMAIN heads |-> row(fields[heads[k]])]

(* The copy the boundary makes of the structured part (redact/seal.py,        *)
(* boundary.py), each leaf the sequence of its words: a word that is no      *)
(* placeholder is NoToken.  The visitor may have typed a placeholder: foreign *)
(* gives the kind of each word that is one.                                  *)
NoToken == [kind |-> "", of |-> << >>, typed |-> FALSE]
Read(data, foreign) ==
  [p \in DOMAIN data |-> [i \in DOMAIN data[p] |->
     IF data[p][i] \in DOMAIN foreign
     THEN [kind |-> foreign[data[p][i]], of |-> p, typed |-> TRUE] ELSE NoToken]]

(* parse_placeholder: the text is one placeholder and nothing else.          *)
IsOnePlaceholder(leaf) == Len(leaf) = 1 /\ leaf[1] # NoToken

PutToken(copy, path, kind) ==
  LET kept == {p \in DOMAIN copy : ~ IsPrefix(path, p)}
  IN  [p \in kept \cup {path} |->
         IF p = path THEN <<[kind |-> kind, of |-> path, typed |-> FALSE]>> ELSE copy[p]]

(* _seal_one: a sub-object becomes one token, and a placeholder stays.       *)
SealOne(copy, entry) ==
  LET seals == IF entry.path \in DOMAIN copy THEN ~ IsOnePlaceholder(copy[entry.path])
               ELSE entry.subtree /\ \E p \in DOMAIN copy : IsPrefix(entry.path, p)
  IN  IF seals THEN PutToken(copy, entry.path, entry.kind) ELSE copy

SealedData(policy, data, foreign) == FoldLeft(SealOne, Read(data, foreign), policy)

(* _auto_seal: a leaf the sweep found something in, with AUTOSEAL_KIND.      *)
AutoSeal(copy, found) ==
  [p \in DOMAIN copy |-> IF p \in found /\ ~ IsOnePlaceholder(copy[p])
                         THEN <<[kind |-> "TEXT", of |-> p, typed |-> FALSE]>> ELSE copy[p]]

(* _render_payload: one line for each path, sorted; here its placeholders.   *)
ShownTokens(copy, alphabet) ==
  LET lines == Those(alphabet, DOMAIN copy)
      placeholders(leaf) == SelectSeq(leaf, LAMBDA t : t # NoToken)
  IN  FlattenSeq([k \in DOMAIN lines |-> placeholders(copy[lines[k]])])

Pairing(entry, token) == [key |-> entry.key, typed |-> entry.value, placeholder |-> token]

(* Mutant: the placeholders are taken in order, whatever their kind.         *)
PairingsInOrder(echo, workingCopy) ==
  LET tokens == FlattenSeq(workingCopy)
  IN  [i \in DOMAIN echo |-> Pairing(echo[i], IF i <= Len(tokens) THEN tokens[i] ELSE NoToken)]

(* _pairings: by kind, in order of appearance.                               *)
Pairings(echo, workingCopy) ==
  LET tokens == FlattenSeq(workingCopy)
      available(kind) == SelectSeq(tokens, LAMBDA t : t.kind = kind)
      before(i) == Cardinality({j \in 1 .. i - 1 : echo[j].kind = echo[i].kind})
      token(i) == IF before(i) < Len(available(echo[i].kind))
                  THEN available(echo[i].kind)[before(i) + 1] ELSE NoToken
  IN  [i \in DOMAIN echo |-> Pairing(echo[i], token(i))]

-----------------------------------------------------------------------------
(* segments: a working copy split for painting.  A text is a sequence of     *)
(* plain characters, separators, line breaks and whole placeholders.         *)
Letter == "x"
Space == "_"        \* a space
Punct == " = "
Newline == "\n"
Placeholders == {"[[NAME]]", "[[ADDR]]"}
Segment(text, role) == [text |-> text, token |-> FALSE, role |-> role]

(* A text cut at these places: what stands before each, and after the last.  *)
CutAt(text, places) ==
  LET at == Ascending(places)
      m == Cardinality(places)
  IN  [k \in 1 .. m + 1 |-> SubSeq(text, IF k = 1 THEN 1 ELSE at[k - 1] + 1,
                                   IF k = m + 1 THEN Len(text) ELSE at[k] - 1)]

(* The placeholders of a text, and the segment of the k-th.                  *)
TokensIn(text) == {i \in DOMAIN text : text[i] \in Placeholders}
TokenAt(text, k) == [text |-> <<text[Ascending(TokensIn(text))[k]]>>, token |-> TRUE,
                     role |-> ""]

(* Mutant: the text after the last placeholder is lost.                      *)
RunsUpToAToken(text, role) ==
  LET runs == CutAt(text, TokensIn(text))
  IN  FlattenSeq([k \in 1 .. Len(runs) - 1 |->
        (IF runs[k] = << >> THEN << >> ELSE <<Segment(runs[k], role)>>)
          \o <<TokenAt(text, k)>>])

PlainRuns(text, role) ==
  LET runs == CutAt(text, TokensIn(text))
  IN  FlattenSeq([k \in DOMAIN runs |->
        (IF runs[k] = << >> THEN << >> ELSE <<Segment(runs[k], role)>>)
          \o (IF k = Len(runs) THEN << >> ELSE <<TokenAt(text, k)>>)])

LineSegments(line) ==
  LET seps == {i \in DOMAIN line : line[i] = Punct}
      at == Min(seps)
      keyed == /\ seps # {} /\ at > 1
               /\ \A i \in 1 .. at - 1 : line[i] # Space
  IN  IF ~ keyed THEN PlainRuns(line, "")
      ELSE <<Segment(SubSeq(line, 1, at - 1), "key"), Segment(<<Punct>>, "punct")>>
             \o PlainRuns(SubSeq(line, at + 1, Len(line)), "value")

SegmentsOf(text, shape) ==
  LET lines == CutAt(text, {i \in DOMAIN text : text[i] = Newline})
  IN  IF shape # "structured" THEN PlainRuns(text, "")
      ELSE FlattenSeq([k \in DOMAIN lines |->
             (IF k = 1 THEN << >> ELSE <<Segment(<<Newline>>, "")>>) \o LineSegments(lines[k])])

-----------------------------------------------------------------------------
(* What a posted form gives, as far as the properties need it.               *)
Submitted == BuildFormSubmission(question.persona, question.values)

(* No two boxes of one path claim the same place in it, as in the shipped    *)
(* personas and in the counterparty's form.                                  *)
PlacesAreDistinct(persona) ==
  \A i, j \in DOMAIN persona.fields :
    persona.fields[i].path = persona.fields[j].path
      /\ persona.fields[i].order = persona.fields[j].order => i = j

(* The letter of the hearing names what the submission says, whatever was    *)
(* edited, and a statement posted as it was prefilled contradicts the         *)
(* application in nothing it carries: only another answer is "a genuine      *)
(* contradiction" (gegenpartei.py, _joined: "it has to be the same string"). *)
(* The answers kept for the summary are those of the statement.              *)
TheHearingReadsTheSubmission ==
  Asked("form") /\ PlacesAreDistinct(question.persona) =>
    LET link == StatementRequest(question.persona, question.values, question.procedure)
        statement == StatementForm(link, question.party)
        posted == PostedUnchanged(IntakeView(statement, << >>, question.procedures))
        reply == BuildStatementSubmission(statement, posted, Empty)
        carries(path) == At(reply, path) = At(Submitted, path)
        answers == StatementAnswers(<<"taetigkeit_beginn">>, posted)
        reads(slot, path) ==
          LET said == At(Submitted, path)
          IN  RequestLetter(link)[slot] = IF said = Empty THEN Unstated ELSE said
    IN  link # NoLink =>
          /\ reads("auftraggeber", Auftraggeber) /\ reads("applicant", Applicant)
          /\ reads("taetigkeit", Taetigkeit) /\ reads("beginn", Beginn)
          /\ reads("antragsart", Antragsart)
          /\ carries(Auftraggeber) /\ carries(Taetigkeit) /\ carries(Beginn)
          /\ carries(Antragsart)
          /\ answers = IF At(reply, Beginn) = Empty THEN << >>
                       ELSE <<[field |-> "taetigkeit_beginn", value |-> At(reply, Beginn)]>>

(* A form the boundary refused is shown again with what was typed, and sent  *)
(* again unchanged it is the same submission (api/app.py, refused).          *)
ARefusedFormPostsTheSame ==
  Asked("form") =>
    LET again == PostedUnchanged(IntakeView(question.persona, question.values,
                                            question.procedures))
    IN  BuildFormSubmission(question.persona, again) = Submitted

(* What the page shows as typed is what the submission says, and the token   *)
(* beside it is the one that replaced it, never "somebody else's" (demo.py,  *)
(* _pairings) - unless a placeholder the visitor typed was left standing     *)
(* that has the row's kind, or that fills a box of the row.                  *)
TypedIsBesideItsToken ==
  Asked("form") =>
    LET echo == EchoValues(question.persona, question.values)
        sealed == SealedData(question.policy, Submitted.data, question.foreign)
        tokens == ShownTokens(AutoSeal(sealed, question.found), question.alphabet)
        rows == Pairings(echo, <<tokens, question.prose>>)
        paths(key) == {f.path : f \in {g \in Range(question.persona.fields) :
                                         PairKey(g) = key}}
        mistakable(i) == \E t \in Range(tokens) :
          t.typed /\ (t.kind = echo[i].kind \/ t.of \in paths(rows[i].key))
    IN  \A i \in DOMAIN rows :
          /\ \A path \in paths(rows[i].key) :
               paths(rows[i].key) = {path} => rows[i].typed = At(Submitted, path)
          /\ ~ mistakable(i) =>
               /\ rows[i].placeholder # NoToken
               /\ \E path \in paths(rows[i].key) : IsPrefix(rows[i].placeholder.of, path)

(* Nothing of a working copy is lost or moved when it is coloured, and       *)
(* every placeholder outside a key stands alone in its segment (demo.py,     *)
(* segments: "the concatenation of every segment's text is the input").      *)
AColouredCopyIsTheCopy ==
  Asked("copy") =>
    LET painted == SegmentsOf(question.text, question.shape)
    IN  /\ FlattenSeq([i \in DOMAIN painted |-> painted[i].text]) = question.text
        /\ \A i \in DOMAIN painted : \A j \in DOMAIN painted[i].text :
             painted[i].text[j] \in Placeholders =>
               painted[i].token \/ painted[i].role = "key"

(* What the demo's pages show is what there is: the form as it will be sent, *)
(* the typed value beside its own token, and the whole working copy.         *)
ThePagesShowWhatIs ==
  ARefusedFormPostsTheSame /\ TypedIsBesideItsToken /\ AColouredCopyIsTheCopy
=============================================================================
