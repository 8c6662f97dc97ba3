-------------------------------- MODULE Desk --------------------------------
(***************************************************************************)
(* What the review pages and the reports read out of the journals: the     *)
(* fold of one case (engine/journal/projection.py, engine/review/state.py),*)
(* the queues and their clocks (engine/review/queues.py), the counts       *)
(* (engine/review/metrics.py, api/review.py), the correction pool           *)
(* (engine/journal/corrections.py) and the notification latencies          *)
(* (engine/notify/latency.py).                                             *)
(*                                                                         *)
(* A question is the journals of some cases, each a sequence of events in  *)
(* the order of their numbers, and a moment; times are hours.              *)
(***************************************************************************)
EXTENDS Question, Lists, Integers, Sequences, FiniteSets, SequencesExt

NoUnit == "none"
NoTier == 0
Never == -1
AktenzeichenKind == "AKTZ"
Tiers == 1 .. 3

-----------------------------------------------------------------------------
(* The boundary's count (redact/boundary.py): of the spans sealed out of     *)
(* the letter, how many each of its parts held.                              *)
TextSealedCounts(parts, spans) ==
  [part \in parts |-> CountIf(spans, LAMBDA s : s.part = part)]

(* derive_case_state: the newest of most facts, all of the corrections.      *)
Nothing == [received |-> Never, last |-> Never, sealed |-> [p \in {} |-> 0],
            flagged |-> FALSE, tier |-> NoTier, sampled |-> FALSE, unit |-> NoUnit,
            overrides |-> << >>, confirmed |-> Never, edited |-> FALSE]

ApplyEvent(case, event) ==
  LET seen == [case EXCEPT !.last = event.at]
  IN  CASE event.type = "RECEIVED" -> [seen EXCEPT !.received = event.at]
        [] event.type = "REDACTED" -> [seen EXCEPT !.sealed = TextSealedCounts(event.parts, event.spans)]
        [] event.type = "ANOMALY_SCORED" -> [seen EXCEPT !.flagged = event.flagged]
        [] event.type = "TIER_DECIDED" ->
             [seen EXCEPT !.tier = event.tier, !.sampled = event.sampled]
        [] event.type = "ROUTED" -> [seen EXCEPT !.unit = event.unit]
        [] event.type = "OVERRIDDEN" -> [seen EXCEPT !.overrides = Append(@, event)]
        [] event.type = "CONFIRMED" ->
             [seen EXCEPT !.confirmed = event.at, !.edited = event.edited]
        [] OTHER -> seen

DeriveCaseState(log) == FoldLeft(ApplyEvent, Nothing, log)

(* review_state: the machine's word, then the corrections in their order.    *)
Corrected(state, override) ==
  CASE override.field = "unit" -> [state EXCEPT !.unit = override.to]
    [] override.field = "tier" -> [state EXCEPT !.tier = override.to]
    [] override.field = "escalation" ->
         [state EXCEPT !.tier = override.to, !.escalated = TRUE]

ReviewStateOf(id, log) ==
  LET case == DeriveCaseState(log)
      machine == [id |-> id, case |-> case, tier |-> case.tier, unit |-> case.unit,
                  escalated |-> FALSE]
  IN  FoldLeft(Corrected, machine, case.overrides)

Open(state) == state.case.confirmed = Never
AgeHours(state, now) ==
  IF state.case.received = Never THEN Never ELSE now - state.case.received

BuildIndex(journal) ==
  LET ids == Ascending(DOMAIN journal)
  IN  [i \in DOMAIN ids |-> ReviewStateOf(ids[i], journal[ids[i]])]
OpenStates(index) == Those(index, {s \in Range(index) : Open(s)})

-----------------------------------------------------------------------------
(* queues.py.  A clock shows, it moves nothing.                              *)
BudgetHours(config, tier) == IF tier = NoTier THEN Never ELSE config.budget[tier]
OverBudget(state, now, config) ==
  LET budget == BudgetHours(config, state.tier)
  IN  budget # Never /\ AgeHours(state, now) > budget

HasAktz(state) ==
  AktenzeichenKind \in DOMAIN state.case.sealed /\ state.case.sealed[AktenzeichenKind] > 0

(* The flags of a row: its tone, or what it says.                            *)
Flags(state, now, config) ==
  LET late(hours) == IF AgeHours(state, now) > hours THEN "attention" ELSE "neutral"
      flag(id, says) == {[flag |-> id, says |-> says]}
  IN  (IF state.case.sampled THEN flag("sampled", "neutral") ELSE {})
      \cup (IF state.case.flagged THEN flag("anomaly", "attention") ELSE {})
      \cup (IF state.escalated THEN flag("escalated", "attention") ELSE {})
      \cup (IF state.unit \in config.widerspruch
            THEN flag("widerspruch", IF HasAktz(state) THEN "sealed" ELSE "none seen")
            ELSE {})
      \cup (IF state.unit \in config.reha
            THEN flag("reha_frist", IF AgeHours(state, now) = Never THEN "unknown"
                                    ELSE late(config.rehaHours))
            ELSE {})
      \cup (IF state.unit = NoUnit THEN flag("clearing_sla", late(config.clearingHours))
            ELSE {})
      \cup (IF OverBudget(state, now, config) THEN flag("over_budget", "attention") ELSE {})

QueueRow(state, now, config) ==
  [id |-> state.id, tier |-> state.tier, age |-> AgeHours(state, now),
   over |-> OverBudget(state, now, config), flags |-> Flags(state, now, config)]

(* The rows of a queue, the oldest first; without a time of receipt an item  *)
(* counts as new.                                                            *)
OldestFirst(rows) ==
  LET age(row) == Max({row.age, 0})
      before(row) == {r \in rows : \/ age(r) > age(row)
                                   \/ age(r) = age(row) /\ r.id < row.id}
  IN  ByPlace(rows, [row \in rows |-> before(row)])

(* Mutant: a queue holds what the machine routed there.                      *)
QueueOfTheMachine(index, unit, now, config) ==
  OldestFirst({QueueRow(s, now, config) : s \in {o \in Range(OpenStates(index)) : o.case.unit = unit}})

(* build_queue: the open items of a unit.                                    *)
BuildQueue(index, unit, now, config) ==
  OldestFirst({QueueRow(s, now, config) : s \in {o \in Range(OpenStates(index)) : o.unit = unit}})

UnitsWithWork(index) ==
  {OpenStates(index)[i].unit : i \in DOMAIN OpenStates(index)} \ {NoUnit}

(* build_overview: each unit with work, and the clearing queue always.       *)
OverviewQueues(index, now, config) ==
  [unit \in UnitsWithWork(index) \cup {NoUnit} |-> BuildQueue(index, unit, now, config)]

(* build_queue_view: what the overview's link to a queue opens.              *)
ClearingQueue == "clearing"
LinkTo(unit) == IF unit = NoUnit THEN ClearingQueue ELSE unit
QueueView(index, id, now, config) ==
  BuildQueue(index, IF id = ClearingQueue THEN NoUnit ELSE id, now, config)

(* Oldest and over_budget_count of a queue.                                  *)
Summary(rows) ==
  LET ages == {rows[i].age : i \in DOMAIN rows} \ {Never}
  IN  [count |-> Len(rows), oldest |-> IF ages = {} THEN Never ELSE Max(ages),
       over |-> CountIf(rows, LAMBDA r : r.over)]

-----------------------------------------------------------------------------
(* metrics.py.                                                               *)
QueueCensus(index) ==
  LET open == OpenStates(index)
  IN  [open |-> Len(open), confirmed |-> CountIf(index, LAMBDA s : ~ Open(s)),
       byUnit |-> [u \in {open[i].unit : i \in DOMAIN open} |->
                     CountIf(open, LAMBDA s : s.unit = u)],
       byTier |-> [t \in {open[i].tier : i \in DOMAIN open} |->
                     CountIf(open, LAMBDA s : s.tier = t)],
       sampled |-> CountIf(open, LAMBDA s : s.case.sampled)]

(* _accumulate: what each unit did, by the unit the case ended up with.      *)
UnitReviews(index) ==
  [unit \in {index[i].unit : i \in DOMAIN index} \ {NoUnit} |->
     LET own(s) == s.unit = unit
         done(s) == own(s) /\ ~ Open(s)
     IN  [confirmed |-> CountIf(index, done),
          withoutEdit |-> CountIf(index, LAMBDA s : done(s) /\ ~ s.case.edited),
          overridden |-> CountIf(index, LAMBDA s : own(s) /\ s.case.overrides # << >>),
          escalated |-> CountIf(index, LAMBDA s : own(s) /\ s.escalated),
          rerouted |-> CountIf(index, LAMBDA s : own(s) /\ s.unit # s.case.unit),
          sampled |-> CountIf(index, LAMBDA s : done(s) /\ s.case.sampled)]]

(* Mutant: the backlog counts what was confirmed long ago.                   *)
BacklogOfAll(index, now, config) ==
  LET tiers == {index[i].tier : i \in DOMAIN index} \ {NoTier}
  IN  [tier \in tiers |->
         LET own == {s \in Range(index) : s.tier = tier}
             oldest == Max({Max({AgeHours(s, now), 0}) : s \in own})
         IN  [open |-> Cardinality(own), oldest |-> oldest,
              over |-> oldest > BudgetHours(config, tier)]]

(* _backlog: per tier, an item without a time of receipt counting as new.    *)
Backlog(index, now, config) ==
  LET open == OpenStates(index)
  IN  [tier \in {open[i].tier : i \in DOMAIN open} \ {NoTier} |->
         LET own == {s \in Range(open) : s.tier = tier}
             oldest == Max({Max({AgeHours(s, now), 0}) : s \in own})
         IN  [open |-> Cardinality(own), oldest |-> oldest,
              over |-> oldest > BudgetHours(config, tier)]]

-----------------------------------------------------------------------------
(* corrections.py: each correction beside the machine's newest word, the     *)
(* pool in the order of the cases and, within one, of the times.             *)
Correction(id, log, i) ==
  LET case == DeriveCaseState(log)
  IN  [id |-> id, field |-> log[i].field, to |-> log[i].to,
       at |-> log[i].at, tier |-> case.tier, unit |-> case.unit]

BuildPool(journal) ==
  LET made == UNION {{[id |-> id, at |-> journal[id][i].at, place |-> i] :
                        i \in {j \in DOMAIN journal[id] : journal[id][j].type = "OVERRIDDEN"}} :
                     id \in DOMAIN journal}
      before(a) == {b \in made : \/ b.id < a.id
                                 \/ b.id = a.id /\ b.at < a.at
                                 \/ b.id = a.id /\ b.at = a.at /\ b.place < a.place}
      order == ByPlace(made, [a \in made |-> before(a)])
      pool == [k \in DOMAIN order |->
                 Correction(order[k].id, journal[order[k].id], order[k].place)]
  IN  [corrections |-> pool,
       byField |-> [f \in {pool[i].field : i \in DOMAIN pool} |->
                      CountIf(pool, LAMBDA c : c.field = f)]]

-----------------------------------------------------------------------------
(* latency.py: a percentile of sorted samples is the one at its nearest rank.*)
(* Mutant: the rank is rounded down.                                         *)
PercentileRoundedDown(ordered, percent) ==
  LET rank == (percent * Len(ordered)) \div 100
  IN  ordered[Max({1, Min({Len(ordered), rank})})]

Percentile(ordered, percent) ==
  LET rank == (percent * Len(ordered) + 99) \div 100
  IN  ordered[Max({1, Min({Len(ordered), rank})})]

(* case_latencies: each dispatch against the event that owed it.             *)
CaseLatencies(log) ==
  LET told == Those(log, {e \in Range(log) :
                e.type = "NOTIFIED" /\ \E i \in DOMAIN log : log[i].id = e.source})
      owed(e) == CHOOSE i \in DOMAIN log : log[i].id = e.source
  IN  [i \in DOMAIN told |-> [trigger |-> log[owed(told[i])].type,
                              took |-> told[i].at - log[owed(told[i])].at]]

Distribution(values) ==
  LET ordered == InOrder(values)
  IN  [count |-> Len(values), min |-> ordered[1], median |-> Percentile(ordered, 50),
       p95 |-> Percentile(ordered, 95), max |-> ordered[Len(ordered)]]

-----------------------------------------------------------------------------
(* The sum of a function to numbers, by a tally.                             *)
SumOver(f) == Cardinality(UNION {{x} \X (1 .. f[x]) : x \in DOMAIN f})

(* No case falls through: an open one stands in exactly one of the queues    *)
(* the overview leads to, the clearing queue included, whatever corrections     *)
(* and new decisions moved it; a confirmed one in none; and the counts of    *)
(* the overview, the census and the unit metrics are of the same cases.      *)
NoCaseFallsThrough ==
  Asked("desk") =>
    LET index == BuildIndex(question.journal)
        queues == OverviewQueues(index, question.now, question.config)
        census == QueueCensus(index)
        units == UnitReviews(index)
        homeless == CountIf(index, LAMBDA s : ~ Open(s) /\ s.unit = NoUnit)
        pool == BuildPool(question.journal)
        opened == [u \in DOMAIN queues |->
                     QueueView(index, LinkTo(u), question.now, question.config)]
        places(s) == {p \in (DOMAIN queues) \X (1 .. Len(index)) :
                        /\ p[2] \in DOMAIN opened[p[1]]
                        /\ opened[p[1]][p[2]].id = s.id}
    IN  /\ \A i \in DOMAIN index :
             Cardinality(places(index[i])) = IF Open(index[i]) THEN 1 ELSE 0
        /\ SumOver([u \in DOMAIN queues |-> Summary(queues[u]).count]) = census.open
        /\ SumOver(census.byUnit) = census.open /\ SumOver(census.byTier) = census.open
        /\ SumOver([u \in DOMAIN units |-> units[u].confirmed]) + homeless = census.confirmed
        /\ SumOver([u \in DOMAIN units |-> units[u].overridden]) =
             Cardinality({i \in DOMAIN index :
               index[i].unit # NoUnit /\ \E c \in DOMAIN pool.corrections :
                                            pool.corrections[c].id = index[i].id})
        /\ SumOver(pool.byField) = Len(pool.corrections)

(* The two clocks agree: a tier's backlog is over its budget exactly when an *)
(* open case of that tier shows the flag in its queue, and the oldest of a   *)
(* queue stands first in it.                                                 *)
LatenessAgrees ==
  Asked("desk") =>
    LET index == BuildIndex(question.journal)
        queues == OverviewQueues(index, question.now, question.config)
        backlog == Backlog(index, question.now, question.config)
        shown(tier) == \E u \in DOMAIN queues : \E i \in DOMAIN queues[u] :
                         /\ queues[u][i].tier = tier
                         /\ \E f \in queues[u][i].flags : f.flag = "over_budget"
    IN  /\ \A tier \in Tiers :
             shown(tier) <=> tier \in DOMAIN backlog /\ backlog[tier].over
        /\ \A u \in DOMAIN queues :
             queues[u] # << >> => Max({0, queues[u][1].age}) = Max({0, Summary(queues[u]).oldest})

(* At least the stated share of the samples is no slower than a percentile,  *)
(* and no faster sample would do (latency.py, "nearest-rank").               *)
APercentileIsReached ==
  Asked("latency") =>
    LET took == CaseLatencies(question.log)
        values == [i \in DOMAIN took |-> took[i].took]
        all == Distribution(values)
        within(v) == 100 * CountIf(values, LAMBDA w : w <= v)
        reached(percent, v) ==
          /\ within(v) >= percent * Len(values)
          /\ \A i \in DOMAIN values : values[i] < v => within(values[i]) < percent * Len(values)
    IN  values # << >> => reached(50, all.median) /\ reached(95, all.p95)

(* A row of the objections' queue says whether a file number was sealed for  *)
(* the case (queues.py, _has_aktz: the counts record "what the boundary did  *)
(* BY KIND").                                                                *)
TheFileNumberIsShown ==
  Asked("desk") =>
    \A id \in DOMAIN question.journal :
      LET log == question.journal[id]
          state == ReviewStateOf(id, log)
          sealed == \E i \in DOMAIN log : log[i].type = "REDACTED"
                      /\ \E j \in DOMAIN log[i].spans : log[i].spans[j].kind = AktenzeichenKind
      IN  sealed => \A f \in Flags(state, question.now, question.config) :
                      f.flag = "widerspruch" => f.says = "sealed"

(* The three reports about time (queues.py, metrics.py, latency.py) say what *)
(* the journals say.                                                         *)
TheClocksAgree == LatenessAgrees /\ APercentileIsReached
=============================================================================
