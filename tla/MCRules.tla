------------------------------- MODULE MCRules ------------------------------
(* Finite sets of questions for the modules without a state.                 *)
EXTENDS Evidence, TextLayer, Extraction, MCContracts, Score, Calibrate, MCForms,
        MCDesk, MCLetters

(* Predicates over an identity field (name) and an open one (role): every    *)
(* single comparison, and pairs of the telling ones under all and any.       *)
Name == <<"person", "name">>
Role == <<"role">>
Street == <<"person", "address", "street">>
Deep == <<"a", "b", "c", "d", "e", "f", "g">>
MCPolicy == [paths |-> {Name}, subtrees |-> {<<"person", "address">>}]
EmptyText == [kind |-> "blank", is |-> ""]
Literals == {None, Text("ja"), Text("JA"), Text("["), Number(2),
             [kind |-> "list", is |-> {Text("ja"), Number(2)}]}
Is(f, op, v) == [node |-> "is", field |-> f, op |-> op, value |-> v]
Leaves == { Is(f, op, v) : f \in {Name, Role}, v \in Literals,
              op \in {"contains", "matches", "eq", "ne", "in", "gt", "ge", "lt", "le"} }
Telling(f) == { Is(f, "ne", None), Is(f, "eq", None), Is(f, "ne", Text("ja")),
                Is(f, "contains", Text("JA")), Is(f, "in", Text("jansen")),
                Is(f, "gt", Number(1)) }
Pairs == { [node |-> n, of |-> <<a, b>>] : n \in {"all", "any"},
             a \in Telling(Name), b \in Telling(Role) \cup Telling(Street) }
Nested == { [node |-> "any", of |-> << [node |-> "all", of |-> <<a, b>>],
                                       Is(Role, "eq", Text("jansen")) >>] :
              a \in Telling(Name), b \in Telling(Role) \cup Telling(Deep) }

Payloads == { p @@ (Street :> Text("ja")) @@ (Deep :> Text("ja")) :
                p \in [{Name, Role} -> {Text("ja"), Text("JA"), Text("jansen"), Number(2),
                                        EmptyText, None, [kind |-> "list", is |-> {}]}] }
AskPredicate ==
  \E tree \in Leaves \cup Pairs \cup Nested, payload \in Payloads :
    question = [about |-> "predicate", tree |-> tree, payload |-> payload,
                policy |-> MCPolicy]

Full == [{Name, Role} -> {Text("ja"), Text("JA"), Text("jansen")}]
Contexts == UNION { { [f \in D |-> c[f]] : c \in Full } : D \in SUBSET {Name, Role} }
Part(c, D) == [f \in DOMAIN c \cap D |-> c[f]]
Signals == {NoPredicate, Is(Name, "ne", None), Is(Role, "contains", Text("ja"))}
             \cup { [node |-> "all", of |-> <<Is(Name, "eq", Text("ja")),
                                              Is(Role, "ne", None)>>] }
AskProcedure ==
  \E procs \in [{"rente", "status"} -> Signals], more \in Contexts,
     D \in SUBSET {Name, Role}, hint \in {"none", "rente", "status", "unknown"} :
    question = [about |-> "procedure", procedures |-> procs, more |-> more,
                context |-> Part(more, D), hint |-> hint]

Date(y, d) == [year |-> y, day |-> d]
Shipped == { [id |-> "vsnr", kind |-> "field", checks |-> {"pattern"},
              cross |-> <<[kind |-> "birthdate_in_vsnr", field |-> "birth", years |-> 0]>>],
             [id |-> "birth", kind |-> "field", checks |-> {"date"}, cross |-> << >>],
             [id |-> "start", kind |-> "field", checks |-> {"date"},
              cross |-> <<[kind |-> "not_before", field |-> "birth", years |-> 0],
                          [kind |-> "min_years_after", field |-> "birth", years |-> 14],
                          [kind |-> "max_years_after", field |-> "birth", years |-> 16]>>] }
Documented == Shipped \cup { [id |-> "proof", kind |-> "document", checks |-> {},
                              cross |-> << >>] }
Typed(breaks, date, digits) == [breaks |-> breaks, date |-> date, digits |-> digits]
Births == {NoDate, Date(1990, 1), Date(1990, 2), Date(2000, 3)}
AskCompleteness ==
  \E list \in {NoList, Shipped, Documented},
     digits \in {NoDate, Date(90, 1), Date(90, 2), Date(90, 3), Date(0, 3)},
     broken \in {{}, {"pattern"}}, birth \in Births,
     start \in {Date(2004, 1), Date(1989, 2), Date(2007, 2)},
     numberForm \in {"absent", "plain", "sealed"},
     birthForm \in {"blank", "plain", "sealed"},
     witness \in SUBSET {"vsnr", "birth"}, sealed \in {{}, {"vsnr"}, {"vsnr", "birth"}} :
    question =
      [about |-> "completeness", requirements |-> list, witness |-> witness,
       sealed |-> sealed,
       texts |-> ("vsnr" :> [missing |-> "plain", invalid |-> "problem"]
                  @@ "start" :> [missing |-> "plain", invalid |-> "none"]),
       record |-> [vsnr |-> [form |-> numberForm, typed |-> Typed(broken, NoDate, digits)],
                   birth |-> [form |-> birthForm,
                              typed |-> Typed(IF birth = NoDate THEN {"date"} ELSE {},
                                              birth, NoDate)],
                   start |-> [form |-> "plain", typed |-> Typed({}, start, NoDate)],
                   proof |-> [form |-> "plain", typed |-> Typed({}, NoDate, NoDate)]]]

(* Letters of up to five characters; the sender may write a composed one.    *)
MaxLetter == 5
AskLetter ==
  \E n \in 0 .. MaxLetter : \E text \in [1 .. n -> Character] :
    question = [about |-> "letter", text |-> text]

(* Letters with and without a label, a placeholder, another case; what a     *)
(* fixture declares and a model proposes is right, wrong, malformed or late. *)
Body == { <<"v", "w">>, <<"w", " ", "V">>, <<"w", " ", Sealed>>, <<"v", " ", " ", "w">>,
          <<"w">> }
Attached(text, says) == << [text |-> text, says |-> says] >>
Attachments == { Attached(<<"v", "w">>, "typed"), Attached(<<"w", " ", "v">>, "typed"),
                 Attached(<<"v", "w">>, "ocr"), Attached(<<"w", " ", "v">>, "other") }
Postures == { [mode |-> m, endpoint |-> e] : m \in {"unset", "live"}, e \in BOOLEAN }
              \ { [mode |-> "unset", endpoint |-> TRUE] }
Entry(f, mode, v, quote) == [field |-> f, part |-> 1, anchor |-> <<"w">>,
                             mode |-> mode, value |-> v, quote |-> quote]
Fixtures == {<< >>, << Entry("a", "sealed", << >>, << >>) >>,
             << Entry("a", "literal", <<"v">>, <<"w", " ", "V">>),
                Entry("b", "sealed", << >>, << >>) >>,
             << Entry("b", "literal", <<"v">>, <<"w">>),
                Entry("b", "literal", <<"w">>, <<"w">>) >>}
Told(f, v, quote, at) == [field |-> f, value |-> v, quote |-> quote, offset |-> at,
                          typed |-> TRUE]
Says(entries) == [sent |-> TRUE, entries |-> entries]
Silent == [sent |-> FALSE, entries |-> << >>]
Garbled == Says(<< [Told("a", <<"v">>, <<"v">>, 0) EXCEPT !.typed = FALSE] >>)
Tellings == {Told("a", v, quote, at) : v \in {<<"v">>, <<" ">>, <<"V", " ">>},
               quote \in {<<"v">>, <<"w", " ", "V">>, <<"v", " ", "w">>, << >>},
               at \in {-1, 0, 1, 3}}
Bodies == {<<Silent>>, <<Silent, Garbled, Says(<<Told("a", <<"v">>, <<"v">>, 0)>>)>>}
            \cup {<<Garbled, Says(<<t, Told("b", <<"w">>, <<"w">>, 0)>>)>> : t \in Tellings}
AskExtraction ==
  \E body \in Body \cup {<<" ">>}, attachments \in {<< >>} \cup Attachments,
     payload \in {{}, {"a"}, {"b"}}, channel \in {"email", "scan"}, fixture \in Fixtures,
     posture \in Postures, answers \in Bodies :
    question =
      [about |-> "extraction", fieldMap |-> <<"a", "b">>,
       required |-> IF channel = "scan" THEN {"b"} ELSE {"a", "b"},
       payload |-> [f \in payload |-> <<"v">>],
       submission |-> [channel |-> channel, body |-> [text |-> body, says |-> "unset"],
                       attachments |-> attachments],
       fixture |-> fixture, posture |-> posture,
       policy |-> [enabled |-> FALSE, endpoint |-> FALSE, attempts |-> 2],
       answers |-> <<answers,
                     << Says(<<Told("a", <<"v">>, <<"w">>, 0),
                                       Told("b", <<"v">>, <<"v">>, 0)>>) >> >>]

(* Items near and far from a small reference population. *)
Row(date, turnover, employed, prose) ==
  [filled |-> One, prose |-> prose, scan |-> 0, indizienShare |-> employed,
   indizienSeen |-> One, dateDistance |-> date, datePresent |-> One, turnover |-> turnover]
References == { <<Row(0, 30, 0, 0)>>, <<Row(0, 30, 0, 0), Row(2, 60, 60, 60), Row(2, 0, 30, 0)>>,
                <<Row(0, 0, 0, 0), Row(0, 0, 0, 0), Row(4, 60, 0, 60), Row(2, 30, 60, 60)>>,
                <<Row(2, 30, 60, 0), Row(0, 0, 0, 60), Row(0, 50, 30, 60), Row(2, 60, 60, 60)>>,
                << >> }
AskScore ==
  \E reference \in References, forest \in {"flat", "prose", "late"},
     limits \in {[threshold |-> 30, least |-> 1, most |-> 3],
                 [threshold |-> 60, least |-> 1, most |-> 1],
                 [threshold |-> 45, least |-> 20, most |-> 3]},
     leading \in {"date", "none"}, date \in {-4, 3, Unparsable}, turnover \in {0, 90},
     indizien \in { [i1 |-> Reading(0), i2 |-> Reading(1)], [i1 |-> Reading(1), i2 |-> Reading(1)],
                    [i1 |-> Reading(0), i2 |-> [kind |-> "other", says |-> 0]] },
     prose \in BOOLEAN, sealed \in BOOLEAN, configured \in BOOLEAN :
    (configured \/ reference = << >>) /\ question =
      [about |-> "score", configured |-> configured, reference |-> reference, forest |-> forest,
       threshold |-> limits.threshold, least |-> limits.least, most |-> limits.most,
       indizien |-> {"i1", "i2"},
       item |-> [payload |-> indizien @@ ("turnover" :> Reading(turnover)),
                 records |-> [date |-> IF sealed THEN Token ELSE Reading(date),
                              name |-> Token],
                 leading |-> leading, fields |-> {"date", "name", "place"},
                 received |-> 0, prose |-> prose, ocr |-> sealed]]

(* Scored outcomes with ties, and with scores that coincide once written.    *)
Raw == {-1, 0, 1, 5, 29999, 30000}
MaxOutcomes == 5
AskFit ==
  \E n \in 1 .. MaxOutcomes, bins \in {1, 2, 3, 5} :
  \E raw \in [1 .. n -> Raw], right \in [1 .. n -> BOOLEAN] :
    /\ \A i \in 2 .. n : raw[i - 1] >= raw[i]
    /\ question = [about |-> "fit", bins |-> bins,
                   outcomes |-> [i \in 1 .. n |-> [raw |-> raw[i], correct |-> right[i]]]]

-----------------------------------------------------------------------------
Init == AskPredicate \/ AskProcedure \/ AskCompleteness
        \/ AskLetter \/ AskExtraction \/ AskConfig \/ AskScore
        \/ AskForm \/ AskCopy \/ AskDesk \/ AskLatency
        \/ AskLetterOut \/ AskDeadline \/ AskFit

Next == UNCHANGED question

Spec == Init /\ [][Next]_question
=============================================================================
