---------------------------- MODULE MCContracts -----------------------------
(* Configurations: one that loads, and every mixture of edits of the files   *)
(* that a check across files compares.                                       *)
EXTENDS Contracts

FullName == <<"person", "full">>
Address == <<"person", "address">>
Town == <<"person", "address", "town">>
Reason == <<"reason">>
Ask(f, op, v) == [node |-> "is", field |-> f, op |-> op, value |-> v]

Node(u, tells) == [unit |-> u, parent |-> IF u = "office" THEN "none" ELSE "office",
                   tells |-> tells]
Taxonomies == { <<Node("office", TRUE), Node("ref1", TRUE), Node("ref2", TRUE)>>,
                <<Node("office", TRUE), Node("ref1", TRUE)>>,
                <<Node("office", TRUE), Node("ref1", FALSE), Node("ref1", TRUE)>> }
Rule(u, tree) == [id |-> u, unit |-> u, fixtures |-> {"f"}, predicate |-> tree]
Routings(tree) ==
  { [rules |-> <<Rule("ref1", tree)>>, fixtures |-> [f |-> {"ref1"}]],
    [rules |-> <<Rule("ref1", tree), Rule("ref2", NoPredicate)>>, fixtures |-> [f |-> {}]] }

MCUnitOrder == <<"office", "ref1", "ref2">>

Requirement(id, cross) == [id |-> id, checks |-> {"pattern"}, cross |-> cross]
Mapping(path) == << [path |-> Reason, field |-> "reason"], [path |-> path, field |-> "name"] >>
Procedure(path, other) ==
  [flagsOf |-> "rente", listOf |-> "rente", texts |-> <<"name">>,
   requirements |-> << Requirement("reason", << >>),
     Requirement("name", <<[kind |-> "not_before", field |-> other, years |-> 0]>>) >>,
   fieldMap |-> Mapping(path), derivation |-> NoPredicate, clearCut |-> NoPredicate]

Seal(path, subtree, witness) == [path |-> path, subtree |-> subtree, witness |-> witness]
Policies == { <<Seal(FullName, FALSE, w), Seal(Address, s, v)>> :
                w \in BOOLEAN, s \in BOOLEAN, v \in BOOLEAN }
             \cup { <<Seal(FullName, FALSE, TRUE), Seal(Town, FALSE, TRUE),
                      Seal(Address, TRUE, FALSE)>> }

Bin(upper, confidence) == [upper |-> upper, confidence |-> confidence]
Calibrations == { Absent } \cup
  { [model |-> m, bins |-> bins] : m \in {"e5", "other"},
      bins \in { <<Bin(1, 1), Bin(4, 4)>>, <<Bin(0, 3), Bin(2, 1), Bin(4, 4)>>,
                 <<Bin(-1, 0), Bin(1, 2), Bin(4, 3)>>, <<Bin(1, 1), Bin(3, 4)>>,
                 <<Bin(4, 2)>> } }
Classifiers == { Absent } \cup
  { [enabled |-> e, model |-> "e5", min |-> m, exclude |-> x, calibration |-> c] :
      e \in BOOLEAN, m \in {0, 2, 3}, x \in {{}, {"office"}, {"ref1"}, {"gone"}},
      c \in Calibrations }

Queues(u, budget) == [clearing |-> "office", reha |-> {u}, widerspruch |-> {},
                      budget |-> budget]
Budget == [t \in Tier |-> 24]
DraftText(kind) == [id |-> kind, kind |-> kind, names |-> {"gaps"},
                    filters |-> {"wrap"}]
Drafting(kinds, channels, addressee, entry) ==
  [templates |-> kinds, channels |-> channels, addressee |-> addressee,
   warning |-> {"requirements", "66"}, names |-> {}, amtsermittlung |-> {entry}]
AllKinds == <<DraftText("nachforderung"), DraftText("prepared_decision")>>
Reply(c) == [channel |-> c, dispatch |-> "postal"]
AllChannels == <<Reply("fit_connect"), Reply("email"), Reply("scan")>>
Entered == [procedure |-> "rente", requirements |-> {"name"}]
Notice(t, says) == [id |-> t, trigger |-> t, says |-> says]
Notices(templates, channels) ==
  [templates |-> templates, channels |-> channels, names |-> {"rente"}]
GoodNotices == Notices(<<Notice("received", {}), Notice("routed", {})>>,
                       <<"fit_connect", "email", "scan">>)

Condition(f, op, v) == [field |-> f, op |-> op, value |-> v]
Row1(field) == [tier |-> 1, when |-> {Condition("completeness.verdict", "eq", Text("complete")),
                                      Condition(field, "ge", Number(1))}]
Row2 == [tier |-> 2, when |-> {Condition("completeness.verdict", "ne", Text("absurd"))}]
Downgrade(f, op, v) == [when |-> {Condition(f, op, v)}]
Downgrades == { Downgrade("score", op, Number(1)) : op \in {"gt", "ge", "lt", "eq"} }
                \cup { Downgrade("flagged", op, Flag(b)) : op \in {"eq", "ne"}, b \in BOOLEAN }
                \cup { [when |-> {Condition("score", "ge", Number(2)),
                                 Condition("flagged", "eq", Flag(TRUE))}],
                       Downgrade("routing.confidence", "ge", Number(1)) }
Tables == { [rows |-> rows, downgrades |-> downgrades] :
              rows \in {<<Row1("routing.confidence"), Row2>>, <<Row2>>, << >>,
                        <<Row1("score")>>, <<Row1("routing.confidence")>>},
              downgrades \in {<< >>} \cup {<<d>> : d \in Downgrades}
                             \cup {<<d, e>> : d, e \in Downgrades} }
GoodTable == [rows |-> <<Row1("routing.confidence"), Row2>>,
              downgrades |-> <<Downgrade("score", "gt", Number(1))>>]

Good ==
  [taxonomy |-> <<Node("office", TRUE), Node("ref1", TRUE), Node("ref2", TRUE)>>,
   routing |-> [rules |-> <<Rule("ref1", NoPredicate)>>, fixtures |-> [f |-> {"ref1"}]],
   procedures |-> [rente |-> Procedure(FullName, "reason")],
   policy |-> <<Seal(FullName, FALSE, TRUE), Seal(Address, TRUE, FALSE)>>,
   extraction |-> [match |-> [typed |-> [mode |-> "exact", min |-> 4],
                              ocr |-> [mode |-> "fuzzy", min |-> 3]],
                   live |-> [enabled |-> FALSE, endpoint |-> FALSE],
                   slots |-> {"fields", "text"}],
   classifier |-> Absent, notifications |-> GoodNotices,
   drafting |-> Drafting(AllKinds, AllChannels, {FullName, Address}, Entered),
   scoring |-> [leading |-> [rente |-> "reason"], threshold |-> "score", features |-> Feature,
                indizien |-> <<"x">>, saltFits |-> TRUE],
   table |-> GoodTable, thresholds |-> {"tier"}, dispatch |-> [holidays |-> <<1, 2>>],
   queues |-> Queues("ref1", Budget)]

Asked4(config, payload, matched, alike) ==
  question = [about |-> "config", config |-> config, payload |-> payload,
              matched |-> matched, alike |-> alike]
Plain == [l \in {FullName, Reason, Town} |-> Text("ja")]
Alike == [office |-> 3, ref1 |-> 1, ref2 |-> 1]

(* A requirement may be listed twice: nothing forbids it. *)
Twice(procedure) ==
  [procedure EXCEPT !.requirements = Append(@, Requirement("reason", << >>))]

(* Units: who names them.  *)
AskUnits ==
  \E procedure \in {Good.procedures.rente, Twice(Good.procedures.rente)},
     taxonomy \in Taxonomies, routing \in Routings(NoPredicate),
     queues \in {Absent} \cup {Queues(u, b) : u \in {"ref2", "gone"},
                                 b \in {Budget, [Budget EXCEPT !["3"] = 0], ("1" :> 24)}} :
    Asked4([Good EXCEPT !.procedures.rente = procedure, !.taxonomy = taxonomy,
                        !.routing = routing, !.queues = queues],
           Plain, FALSE, Alike)

(* A submission may write a line where a sub-object was declared, or null.   *)
Sent == UNION { [D -> {Text("ja")}] : D \in SUBSET {FullName, Reason, Town} }
          \cup {(Address :> Text("ja")), (Address :> None @@ FullName :> Text("ja")),
                (FullName :> None @@ Town :> Text("ja"))}

(* Identity: who seals, maps, prints and compares it. *)
AskIdentity ==
  \E policy \in Policies, path \in {FullName, Address, Town},
     addressee \in SUBSET {FullName, Address, Town, Reason},
     tree \in {NoPredicate, Ask(FullName, "ne", None), Ask(Town, "eq", Text("ja")),
               Ask(<<"text", "normalized">>, "contains", Text("identity")),
               Ask(<<"text", "raw">>, "contains", Text("ja")),
               Ask(Reason, "matches", Text("["))},
     other \in {"reason", "gone"}, sent \in Sent :
    Asked4([Good EXCEPT !.policy = policy,
              !.procedures = [rente |-> Procedure(path, other)],
              !.routing.rules = <<Rule("ref1", tree)>>,
              !.drafting.addressee = addressee],
           sent, FALSE, Alike)

(* Letters and notices: templates and channels. *)
AskChannels ==
  \E templates \in {AllKinds, <<DraftText("nachforderung")>>,
                    <<DraftText("nachforderung"), [DraftText("nachforderung") EXCEPT !.id = "b"],
                      DraftText("prepared_decision")>>},
     channels \in {AllChannels, <<Reply("email"), Reply("scan")>>,
                   <<Reply("email"), Reply("scan"), Reply("email"), Reply("fit_connect")>>},
     entry \in {Entered, [procedure |-> "gone", requirements |-> {}],
                [procedure |-> "rente", requirements |-> {"gone"}]},
     notices \in {Absent, GoodNotices,
                  Notices(<<Notice("routed", {"demand"})>>, <<"fit_connect", "email", "scan">>),
                  Notices(<<Notice("received", {})>>, <<"email">>)},
     scoring \in {Absent, Good.scoring, [Good.scoring EXCEPT !.leading = [rente |-> "gone"]],
                  [Good.scoring EXCEPT !.threshold = "tier"]} :
    Asked4([Good EXCEPT !.drafting = Drafting(templates, channels, {FullName}, entry),
                        !.notifications = notices, !.scoring = scoring],
           Plain, FALSE, Alike)

AskClassifier ==
  \E classifier \in Classifiers, matched \in BOOLEAN, alike \in [{"office", "ref1", "ref2"} -> {-1, 0, 1, 2, 4}] :
    /\ \A u \in {"ref1", "ref2"} : alike[u] = alike["office"] \/ alike[u] > 0
    /\ Asked4([Good EXCEPT !.classifier = classifier], Plain, matched, alike)

AskTable ==
  \E table \in Tables, confidence \in {0, 1}, verdict \in {"complete", "gaps"} :
    question = [about |-> "table", table |-> table, scores |-> 0 .. 3,
                facts |-> ("routing.confidence" :> Number(confidence)
                           @@ "completeness.verdict" :> Text(verdict))]

AskConfig == AskTable \/ AskUnits \/ AskIdentity \/ AskChannels \/ AskClassifier
=============================================================================
