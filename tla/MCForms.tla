------------------------------- MODULE MCForms ------------------------------
(* A persona with a split name, an address, a company and two lists, and     *)
(* what a visitor may have made of it; working copies of a few characters.   *)
EXTENDS Forms, TLC

Box(id, path, value, kind, group, order, control, options) ==
  [id |-> id, path |-> path, value |-> value, kind |-> kind, group |-> group,
   order |-> order, control |-> control, options |-> options]
HomeStreet == <<"antragsteller", "anschrift", "strasse">>
HomeTown == <<"antragsteller", "anschrift", "ort">>

Surname == Box("nachname", Applicant, <<2>>, "NAME", "name", 2, "text", << >>)
Persona(given, kindOfApplication, company) ==
  [fields |-> << Surname,
                 Box("vorname", Applicant, <<5>>, "NAME", "name", given, "text", << >>),
                 Box("strasse", HomeStreet, <<7>>, "ADDR", "anschrift", 0, "text", << >>),
                 Box("ort", HomeTown, <<8>>, "ADDR", "anschrift", 0, "text", << >>),
                 Box("auftraggeber_name", Auftraggeber, company, "ORG", "", 0, "text", << >>),
                 Box("antragsart", Antragsart, kindOfApplication, "", "", 0, "select", << >>),
                 Box("taetigkeit", Taetigkeit, <<4>>, "", "", 0, "select", <<<<4>>, <<6>>>>),
                 Box("beginn", Beginn, Empty, "", "", 0, "date", << >>) >>,
   attachments |-> {"anlage-vertrag"}, hint |-> "none"]

Party == << Box("ansprechpartner_nachname", Applicant, <<9>>, "NAME", "ansprechpartner", 2, "text", << >>),
            Box("firmenname", Auftraggeber, Empty, "ORG", "", 0, "text", << >>),
            Box("taetigkeit_beginn", Beginn, Empty, "", "", 0, "date", << >>),
            Box("antragsart", Antragsart, Empty, "", "", 0, "hidden", << >>),
            Box("taetigkeit_bezeichnung", Taetigkeit, Empty, "", "", 0, "hidden", << >>) >>

Home == <<"antragsteller", "anschrift">>
Identity(path, kind, subtree) == [path |-> path, kind |-> kind, subtree |-> subtree]
Policy == << Identity(Applicant, "NAME", FALSE), Identity(Home, "ADDR", TRUE),
             Identity(Auftraggeber, "ORG", FALSE) >>

(* The paths in the order of the rendered lines, and two words that are      *)
(* placeholders.                                                             *)
Alphabet == << Antragsart, Beginn, Taetigkeit, Home, HomeTown, HomeStreet, Applicant, Auftraggeber >>
Foreign == 90 :> "NAME" @@ 91 :> "IBAN"
Edits(boxes) == [boxes -> {Empty, <<1>>, <<1, 3>>}]

(* A ticked document brings text of its own, with its own placeholders.      *)
OfTheLetter(kind) == [kind |-> kind, of |-> <<"letter">>, typed |-> FALSE]
Letters == << OfTheLetter("NAME"), OfTheLetter("ADDR") >>
Form(persona, values, procedure, procedures, found) ==
  [about |-> "form", persona |-> persona, values |-> values, procedure |-> procedure,
   party |-> Party, procedures |-> procedures, policy |-> Policy, alphabet |-> Alphabet,
   foreign |-> Foreign, found |-> found,
   prose |-> IF "anlage-vertrag" \in DOMAIN values THEN Letters ELSE << >>]

AskForm ==
  \/ \E names \in SUBSET {"nachname", "vorname"}, given \in {1, 2, 3},
        others \in {{}, {"strasse", "auftraggeber_name"}, {"ort", "beginn"}},
        kind \in {<<4>>, <<5>>}, more \in {{}, {"taetigkeit", "anlage-vertrag"}},
        procedure \in {Statusfeststellung, "altersrente"},
        procedures \in {<< >>, <<[p \in {Antragsart} |-> <<<<4>>, <<6>>>>],
                                 [p \in {Antragsart} |-> <<<<5>>>>]>>} :
       \E edits \in Edits(names \cup others) :
         question = Form(Persona(given, kind, <<3, 2>>), edits @@ [b \in more |-> <<6>>],
                         procedure, procedures, {})
  \/ \E boxes \in SUBSET {"nachname", "strasse", "auftraggeber_name", "taetigkeit"},
        given \in {Empty, <<1>>}, more \in {{}, {"anlage-vertrag"}},
        found \in SUBSET {Taetigkeit, HomeStreet} :
       \E typed \in [boxes -> {<<90>>, <<91>>, <<1, 90>>, <<1, 91>>}] :
         question = Form(Persona(1, <<4>>, <<3, 2>>),
                         typed @@ "vorname" :> given @@ [b \in more |-> <<6>>],
                         Statusfeststellung, << >>, found)

MaxCopy == 5
AskCopy ==
  \E n \in 0 .. MaxCopy, shape \in {"structured", "text"} :
    \E text \in [1 .. n -> {Letter, Space, Punct, Newline} \cup Placeholders] :
      question = [about |-> "copy", text |-> text, shape |-> shape]
=============================================================================
