------------------------------ MODULE Contracts -----------------------------
(***************************************************************************)
(* What the loader demands of an agency's configuration                    *)
(* (engine/config_loader.py, engine/redact/policy.py, schemas/config.py,   *)
(* engine/score/config.py) and what the engine then takes for granted      *)
(* about it: the lookups on the way of an item, the fields it may resolve, *)
(* and the fallback classifier with its calibration                        *)
(* (engine/evidence/classify.py).                                          *)
(*                                                                         *)
(* A configuration is a record with one part per file.  An optional file   *)
(* that is not there is Absent.  Scores and confidences are counted in     *)
(* quarters, from -4 to 4.                                                 *)
(***************************************************************************)
EXTENDS Evidence

CONSTANT UnitOrder   \* the unit ids in their order, a sequence

Absent == [absent |-> TRUE]
Flag(b) == [kind |-> "flag", is |-> b]
Number(n) == [kind |-> "number", is |-> n]
Distinct(s) == \A i, j \in DOMAIN s : s[i] = s[j] => i = j
Listed(s) == {s[i] : i \in DOMAIN s}
Of(s, key) == [i \in DOMAIN s |-> s[i][key]]

ASSUME UnitOrderAssumption == UnitOrder \in Seq(Listed(UnitOrder))

Channel == {"fit_connect", "email", "scan"}
SourceType == {"typed", "ocr"}
Tier == {"1", "2", "3"}
Trigger == {"received", "routed"}
DraftKind == {"nachforderung", "prepared_decision"}
DispatchShape == {"postal", "qualified_electronic", "print_stub"}
DraftContext == {"gaps", "facts", "rechtsfolgenhinweis"}
Feature == {"fields", "dates"}

-----------------------------------------------------------------------------
(* One file by itself.                                                       *)
TaxonomyResolves(nodes) ==
  /\ Distinct(Of(nodes, "unit"))
  /\ \A i \in DOMAIN nodes : nodes[i].parent \in Listed(Of(nodes, "unit")) \cup {"none"}

RulesHaveFixtures(routing) ==
  /\ Distinct(Of(routing.rules, "id"))
  /\ \A rule \in Listed(routing.rules) : rule.fixtures \subseteq DOMAIN routing.fixtures
  /\ \A f \in DOMAIN routing.fixtures :
       routing.fixtures[f] \subseteq Listed(Of(routing.rules, "id"))

CrossKind == {"not_before", "not_after", "min_years_after", "max_years_after",
              "birthdate_in_vsnr"}
CrossFieldsKnown(requirement, known) ==
  \A entry \in Listed(requirement.cross) : entry.kind \in CrossKind /\ entry.field \in known

ProcedureIsConsistent(id, procedure) ==
  LET known == Listed(Of(procedure.requirements, "id"))
  IN  /\ procedure.flagsOf = id /\ procedure.listOf = id
      /\ \A r \in Listed(procedure.requirements) :
           r.checks \subseteq {CheckOrder[i] : i \in DOMAIN CheckOrder}
             /\ CrossFieldsKnown(r, known)
      /\ Distinct(procedure.texts) /\ Listed(procedure.texts) \subseteq known

(* IdentityField: a sealed sub-object has no witness; IdentityFieldsPolicy:  *)
(* no path twice, none below another.                                        *)
PolicyIsDisjoint(policy) ==
  /\ \A f \in Listed(policy) : ~ (f.subtree /\ f.witness)
  /\ Distinct(Of(policy, "path"))
  /\ \A f, g \in Listed(policy) : ~ Below(f.path, g.path)

MatchingIsDefined(extraction) ==
  /\ DOMAIN extraction.match = SourceType
  /\ \A s \in SourceType : extraction.match[s].mode = "exact" => extraction.match[s].min = 4
  /\ extraction.live.enabled => extraction.live.endpoint
  /\ {"fields", "text"} \subseteq extraction.slots

CalibrationIsMonotone(bins, top) ==
  /\ \A i, j \in DOMAIN bins : i < j => /\ bins[i].upper < bins[j].upper
                                        /\ bins[i].confidence <= bins[j].confidence
  /\ bins[Len(bins)].upper = top

(* ClassifierConfig.  Mutant: any calibration will do.                       *)
EnabledIsCalibratedSomehow(settings) ==
  settings.enabled => settings.calibration # Absent

EnabledIsCalibrated(settings) ==
  settings.enabled => /\ settings.calibration # Absent
                      /\ settings.calibration.model = settings.model

(* DraftTemplate: a known kind, known slots, known filters. *)
TemplateRenders(t) ==
  t.kind \in DraftKind /\ t.names \subseteq DraftContext /\ t.filters \subseteq {"wrap"}

(* DraftChannel *)
ChannelIsAnswerable(c) == c.channel \in Channel /\ c.dispatch \in DispatchShape

(* A template may not read like a demand: no trigger word, no typed date.    *)
Informational(template) == template.says \cap {"demand", "deadline"} = {}

NotificationsAreComplete(n) ==
  /\ Distinct(Of(n.templates, "id")) /\ Distinct(Of(n.templates, "trigger"))
  /\ \A t \in Listed(n.templates) : t.trigger \in Trigger /\ Informational(t)
  /\ Distinct(n.channels) /\ Listed(n.channels) = Channel

(* Mutant: a channel nobody mapped is let through.                           *)
DraftingSkipsChannels(d) ==
  /\ Distinct(Of(d.templates, "id")) /\ Distinct(Of(d.templates, "kind"))
  /\ Listed(Of(d.templates, "kind")) = DraftKind
  /\ Distinct(Of(d.channels, "channel"))
  /\ \A c \in Listed(d.channels) : ChannelIsAnswerable(c)

DraftingIsComplete(d) ==
  /\ Distinct(Of(d.templates, "id")) /\ Distinct(Of(d.templates, "kind"))
  /\ Listed(Of(d.templates, "kind")) = DraftKind
  /\ \A t \in Listed(d.templates) : TemplateRenders(t)
  /\ Distinct(Of(d.channels, "channel"))
  /\ Listed(Of(d.channels, "channel")) = Channel
  /\ \A c \in Listed(d.channels) : ChannelIsAnswerable(c)

(* RechtsfolgenhinweisBlock: the warning names the Angaben and its norm.     *)
WarningIsSpecific(d) == {"requirements", "66"} \subseteq d.warning

BudgetsCoverEveryTier(queues) ==
  DOMAIN queues.budget = Tier /\ \A t \in Tier : queues.budget[t] >= 1

FeaturesAreWorded(scoring) ==
  scoring.features = Feature /\ Distinct(scoring.indizien) /\ scoring.saltFits

HolidaysAreUnique(dispatch) == Distinct(dispatch.holidays)

(* parse_predicate: known operators, and a pattern that compiles.            *)
Operator == {"contains", "matches", "eq", "ne", "gt", "ge", "lt", "le", "in"}
PatternCompiles(value) == value.kind = "text" /\ value.is # "["
Parses(tree) ==
  \A c \in Comparisons(tree) :
    c.op \in Operator /\ (c.op = "matches" => PatternCompiles(c.value))

(* DecisionTable: tiers 1 and 2 are qualified for without the anomaly        *)
(* evidence, and a downgrade reads nothing else, with an operator that grows *)
(* with it.                                                                  *)
QualifyingField == {"routing.confidence", "completeness.verdict"}
QualifyingCondition(c) == c.field \in QualifyingField

MonotoneOps == [score |-> {"gt", "ge"}, flagged |-> {"eq"}]
(* Mutant: any operator will do.                                             *)
DowngradeOfAnomaly(c) == c.field \in DOMAIN MonotoneOps

DowngradeCondition(c) ==
  /\ c.field \in DOMAIN MonotoneOps /\ c.op \in MonotoneOps[c.field]
  /\ c.field = "flagged" => c.value = Flag(TRUE)

TableIsOneWay(table) ==
  /\ table.rows # << >>
  /\ \A row \in Listed(table.rows) :
       row.when # {} /\ \A c \in row.when : QualifyingCondition(c)
  /\ \A rule \in Listed(table.downgrades) :
       rule.when # {} /\ \A c \in rule.when : DowngradeCondition(c)

-----------------------------------------------------------------------------
(* One file against another.                                                 *)
Units(config) == Listed(Of(config.taxonomy, "unit"))

UnitsExist(config) ==
  \A rule \in Listed(config.routing.rules) : rule.unit \in Units(config)

ClassifierUnitsExist(config) ==
  config.classifier # Absent => config.classifier.exclude \subseteq Units(config)

QueueUnitsExist(config) ==
  config.queues # Absent =>
    {config.queues.clearing} \cup config.queues.reha \cup config.queues.widerspruch
      \subseteq Units(config)

NamesAreUsed(config) ==
  /\ config.notifications # Absent =>
       config.notifications.names \subseteq DOMAIN config.procedures
  /\ config.drafting # Absent => config.drafting.names \subseteq DOMAIN config.procedures

AmtsermittlungIsDeclared(config) ==
  config.drafting # Absent =>
    \A entry \in config.drafting.amtsermittlung :
      /\ entry.procedure \in DOMAIN config.procedures
      /\ entry.requirements \subseteq
           Listed(Of(config.procedures[entry.procedure].requirements, "id"))

(* IdentityFieldsPolicy.covering, as the parts of the engine that seal see it. *)
Sealing(policy) ==
  [paths |-> {f.path : f \in {g \in Listed(policy) : ~ g.subtree}},
   subtrees |-> {f.path : f \in {g \in Listed(policy) : g.subtree}}]
WitnessPaths(policy) == {f.path : f \in {g \in Listed(policy) : g.witness}}

AddresseeIsSealed(config) ==
  config.drafting # Absent =>
    \A path \in config.drafting.addressee : Covered(path, Sealing(config.policy))

ScoringNamesExist(config) ==
  config.scoring # Absent =>
    /\ \A p \in DOMAIN config.scoring.leading :
         /\ p \in DOMAIN config.procedures
         /\ config.scoring.leading[p] \in Listed(Of(config.procedures[p].fieldMap, "field"))
    /\ config.scoring.threshold \notin config.thresholds

(* check_witnessless_seals.  Mutant: only the exact path is looked up.       *)
SealedAreWitnessedExactly(config) ==
  \A p \in DOMAIN config.procedures :
    \A path \in Listed(Of(config.procedures[p].fieldMap, "path")) :
      path \in Listed(Of(config.policy, "path")) => path \in WitnessPaths(config.policy)

SealedAreWitnessed(config) ==
  \A p \in DOMAIN config.procedures :
    \A path \in Listed(Of(config.procedures[p].fieldMap, "path")) :
      Covered(path, Sealing(config.policy)) => path \in WitnessPaths(config.policy)

(* _check_identity_paths_are_presence_only, over every predicate there is.   *)
PredicateSources(config) ==
  {r.predicate : r \in Listed(config.routing.rules)}
    \cup UNION {{config.procedures[p].derivation, config.procedures[p].clearCut} :
                 p \in DOMAIN config.procedures}
PredicatesAreBlind(config) ==
  \A tree \in PredicateSources(config) : LintAccepts(tree, Sealing(config.policy))

(* _check_text_rules: a text field is one of those there are; only the text  *)
(* operators and the test for presence apply; no literal is identity data.   *)
TextField == {<<"text", "normalized">>}
TextRulesAreSane(config) ==
  \A tree \in PredicateSources(config) : \A c \in Comparisons(tree) :
    c.field[1] = "text" =>
      /\ c.field \in TextField
      /\ PresenceTest(c) \/ (c.op \in {"contains", "matches"} /\ c.value # Text("identity"))

-----------------------------------------------------------------------------
(* load_config: every file validates, then every check across files.         *)
Accepts(config) ==
  /\ TaxonomyResolves(config.taxonomy)
  /\ RulesHaveFixtures(config.routing)
  /\ config.procedures # << >>
  /\ \A p \in DOMAIN config.procedures : ProcedureIsConsistent(p, config.procedures[p])
  /\ PolicyIsDisjoint(config.policy)
  /\ MatchingIsDefined(config.extraction)
  /\ config.classifier # Absent =>
       /\ EnabledIsCalibrated(config.classifier)
       /\ config.classifier.calibration # Absent =>
            CalibrationIsMonotone(config.classifier.calibration.bins, 4)
  /\ config.notifications # Absent => NotificationsAreComplete(config.notifications)
  /\ config.drafting # Absent =>
       DraftingIsComplete(config.drafting) /\ WarningIsSpecific(config.drafting)
  /\ config.scoring # Absent => FeaturesAreWorded(config.scoring)
  /\ config.dispatch # Absent => HolidaysAreUnique(config.dispatch)
  /\ config.queues # Absent => BudgetsCoverEveryTier(config.queues)
  /\ UnitsExist(config) /\ ClassifierUnitsExist(config) /\ QueueUnitsExist(config)
  /\ TableIsOneWay(config.table)
  /\ \A tree \in PredicateSources(config) : Parses(tree)
  /\ SealedAreWitnessed(config) /\ PredicatesAreBlind(config) /\ TextRulesAreSane(config)
  /\ NamesAreUsed(config) /\ AmtsermittlungIsDeclared(config)
  /\ AddresseeIsSealed(config) /\ ScoringNamesExist(config)

-----------------------------------------------------------------------------
(* The table at work, enforcing: the first row that holds, else tier 3; a    *)
(* downgrade that fires makes it 3; a field nobody resolved holds nowhere.   *)
RowHolds(row, facts) ==
  \A c \in row.when : c.field \in DOMAIN facts /\ Compare(c.op, facts[c.field], c.value)
DowngradeFires(rule, anomaly) ==
  \A c \in rule.when : Compare(c.op, Known(c.field, anomaly), c.value)

TierUnder(table, facts, anomaly) ==
  LET holding == {i \in DOMAIN table.rows : RowHolds(table.rows[i], facts)}
      fired == \E rule \in Listed(table.downgrades) : DowngradeFires(rule, anomaly)
  IN  IF holding = {} \/ (anomaly # << >> /\ fired) THEN 3
      ELSE table.rows[CHOOSE i \in holding : \A j \in holding : i <= j].tier

-----------------------------------------------------------------------------
(* The fallback classifier.  How alike an item and a unit's text are is the  *)
(* embedding model's to say; equal scores go by the order of the unit ids.   *)
Place(unit) == CHOOSE i \in DOMAIN UnitOrder : UnitOrder[i] = unit

(* unit_texts: what may be suggested at all. *)
Suggestible(config) ==
  {n.unit : n \in {m \in Listed(config.taxonomy) :
                     m.tells /\ m.unit \notin config.classifier.exclude}}

Apply(bins, raw) ==
  LET above == {i \in DOMAIN bins : raw <= bins[i].upper}
  IN  IF above = {} THEN bins[Len(bins)].confidence
      ELSE bins[CHOOSE i \in above : \A j \in above : i <= j].confidence

NoSuggestion == [unit |-> "none", confidence |-> 0, calibrated |-> FALSE]
Suggest(config, alike) ==
  LET units == Suggestible(config)
      best == CHOOSE u \in units :
                \A v \in units : \/ alike[u] > alike[v]
                                 \/ alike[u] = alike[v] /\ Place(u) <= Place(v)
      fit == config.classifier.calibration
      confidence == IF fit = Absent THEN 0 ELSE Apply(fit.bins, alike[best])
  IN  IF units = {} \/ (fit # Absent /\ confidence < config.classifier.min)
      THEN NoSuggestion
      ELSE [unit |-> best, confidence |-> confidence, calibrated |-> fit # Absent]

(* _classify_fallback and _admitted_sources: asked when no rule matched,     *)
(* heard when the agency enabled it.                                         *)
Heard(config, matched, alike) ==
  IF matched \/ config.classifier = Absent THEN NoSuggestion
  ELSE IF config.classifier.enabled THEN Suggest(config, alike) ELSE NoSuggestion

-----------------------------------------------------------------------------
(* Every lookup on the way of an item has an answer, and where two would     *)
(* differ only one, on every channel, for every unit a rule names, in every  *)
(* tier: no item gets stuck in a configuration that loaded                   *)
(* (config_loader.py, "could not be answered at all").                       *)
EveryItemCanBeAnswered ==
  Asked("config") /\ Accepts(question.config) =>
    LET c == question.config
        one(s, key, v) == Cardinality({i \in DOMAIN s : s[i][key] = v}) = 1
    IN  /\ \A r \in Listed(c.routing.rules) : one(c.taxonomy, "unit", r.unit)
        /\ c.queues # Absent =>
             \A t \in Tier : t \in DOMAIN c.queues.budget /\ c.queues.budget[t] > 0
        /\ c.notifications # Absent =>
             \A ch \in Channel : ch \in Listed(c.notifications.channels)
        /\ c.drafting # Absent =>
             /\ \A ch \in Channel : one(c.drafting.channels, "channel", ch)
             /\ \A k \in DraftKind : one(c.drafting.templates, "kind", k)
        /\ \A p \in DOMAIN c.procedures : \A i \in DOMAIN c.procedures[p].requirements :
             \A e \in Listed(c.procedures[p].requirements[i].cross) :
               e.field \in Listed(Of(c.procedures[p].requirements, "id"))

(* What sealing takes from a field of the form, the engine can still reach:  *)
(* a mapped field through the witness, an addressee line through the vault   *)
(* entry of its path (policy.py, check_witnessless_seals).  Lines that name  *)
(* a leaf below a sealed sub-object are left out: they load and stay empty.  *)
SealedValuesAreReachable ==
  Asked("config") /\ Accepts(question.config) =>
    LET c == question.config
        sent == question.payload
        kept == SealPayload(sent, Sealing(c.policy))
        below(path) == \E root \in Sealing(c.policy).subtrees : Below(path, root)
    IN  /\ \A p \in DOMAIN c.procedures :
             \A path \in Listed(Of(c.procedures[p].fieldMap, "path")) :
               path \in DOMAIN sent =>
                 /\ path \in DOMAIN kept
                 /\ kept[path] # sent[path] => path \in WitnessPaths(c.policy)
        /\ c.drafting # Absent =>
             \A path \in c.drafting.addressee :
               path \in DOMAIN sent /\ Usable(sent[path]) /\ ~ below(path) =>
                 kept[path] = Placeholder

(* What the decision hears of the classifier is a confidence, fitted on the  *)
(* model in use and at least the minimum, about an item no rule matched and  *)
(* a unit the agency did not exclude, and an item that resembles its unit    *)
(* more is suggested to it no less surely (config_loader.py, "a raw          *)
(* similarity is not a confidence", "a map that inverts would make a better  *)
(* match mean less").                                                        *)
OnlyACalibratedScoreRoutes ==
  Asked("config") /\ Accepts(question.config) =>
    LET c == question.config
        heard == Heard(c, question.matched, question.alike)
        nearer(raw) == Heard(c, question.matched,
                             [question.alike EXCEPT ![heard.unit] = raw])
    IN  heard # NoSuggestion =>
          /\ heard.calibrated /\ heard.confidence >= c.classifier.min
          /\ c.classifier.calibration.model = c.classifier.model
          /\ ~ question.matched
          /\ heard.unit \in Units(c) \ c.classifier.exclude
          /\ \A raw \in question.alike[heard.unit] .. 4 :
               /\ nearer(raw).unit = heard.unit
               /\ nearer(raw).confidence >= heard.confidence

(* More anomaly never improves a tier, and none is never worse than some,    *)
(* under every table that loads (schemas/config.py, "monotone in the anomaly *)
(* direction").                                                              *)
AnomalyOnlyDowngrades ==
  Asked("table") /\ TableIsOneWay(question.table) =>
    LET anomaly(score, flagged) == [score |-> Number(score), flagged |-> Flag(flagged)]
        tier(a) == TierUnder(question.table, question.facts, a)
    IN  \A score \in question.scores : \A flagged \in BOOLEAN :
          /\ tier(<< >>) <= tier(anomaly(score, flagged))
          /\ \A more \in {s \in question.scores : score <= s} :
               tier(anomaly(score, flagged)) <= tier(anomaly(more, TRUE))

(* A configuration that loads leaves no lookup of a later item open, neither *)
(* in the files nor behind a seal (config_loader.py, load_config).           *)
WhatLoadsCanAnswer == EveryItemCanBeAnswered /\ SealedValuesAreReachable
=============================================================================
