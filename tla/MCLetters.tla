----------------------------- MODULE MCLetters ------------------------------
(* Records whose values overlap, nest or imitate a placeholder; letters of   *)
(* both kinds; and every run of holidays about a weekend.                    *)
EXTENDS Letters, TLC

Flat(text) == [form |-> "text", of |-> text]
Nest(text) == [form |-> "nested", of |-> text]
Names == { Flat(<<"x", " ", " ", "y">>), Flat(<<" ">>), Flat(<<"x", Opener>>),
           Flat(<<"n1">>) }
Addresses ==
  { [form |-> "address", of |-> ("strasse" :> Flat(<<"x", " ", "y">>) @@ "hausnummer" :> h
                                  @@ "plz" :> Flat(<<"1", "0", "1">>) @@ k)] :
      h \in {Flat(<<"1">>), Flat(<<"1", " ", "y">>), Flat(<< >>), Nest(<<"1">>)},
      k \in {"ort" :> Flat(<<"x">>), "zimmer" :> Flat(<<"0">>), "zimmer" :> Nest(<<"0">>)} }
    \cup { [form |-> "list", of |-> l] :
             l \in { <<Flat(<<"x">>), Flat(<<"x", " ", "x">>)>>,
                     <<Flat(<<"x", "y">>), Nest(<<"y">>)>>, << >> } }
Entries(token, kind, path, values) ==
  { [token |-> token, kind |-> kind, path |-> path, value |-> v] : v \in values }
Records == { <<a, b>> : a \in Entries("1", "NAME", "name", Names),
                        b \in Entries("2", "ADDR", "address", Addresses) }
             \cup { <<a>> : a \in Entries("2", "NAME", NoPath, Names) }
FactTexts == { <<"x">>, <<"n1", " ", "n1">>, <<"n2">>, <<"x", Opener>>, <<"a3">> }
MCDrafting == [addressee |-> [name |-> "name", anschrift |-> "address"],
               head |-> <<"anschrift", "name">>, declared |-> <<"job", "end">>, window |-> 14,
               amtsermittlung |-> {[procedure |-> "rente", requirements |-> {"vsnr"}]},
               dispatch |-> [email |-> "postal", fit_connect |-> "qualified_electronic"]]
AskLetterOut ==
  \E record \in Records, kind \in {"nachforderung", "prepared_decision"},
     gaps \in {<< >>, <<"vsnr">>, <<"vsnr", "job">>, <<"job", "end">>},
     procedure \in {"rente", "none"}, requested \in BOOLEAN,
     job \in FactTexts, more \in BOOLEAN, channel \in {"email", "fit_connect"} :
    /\ kind = "prepared_decision" => gaps = << >> /\ channel = "email"
    /\ kind = "nachforderung" => gaps # << >> /\ job = <<"x">> /\ more
    /\ question =
         [about |-> "letter out", record |-> record, kind |-> kind, gaps |-> gaps,
          procedure |-> procedure, requested |-> requested, channel |-> channel,
          drafting |-> MCDrafting,
          facts |-> "job" :> job @@ (IF more THEN "other" :> <<"y">> ELSE "end" :> <<"y">>)]

AskDeadline ==
  \E posted \in 0 .. 6, window \in {1, 2, 7, 14}, holidays \in SUBSET (4 .. 9),
     far \in {{}, 14 .. 22, {18, 21, 25}} :
    question = [about |-> "deadline", posted |-> posted, window |-> window,
                holidays |-> holidays \cup far]
=============================================================================
