# EingangsLotse: a TLA+ model of the case journal and what reads and writes it

EingangsLotse takes submissions to a pension insurer, seals the identity in
them, decides deterministically which unit and which depth of review (tier 1, 2
or 3) an item gets, tells the applicant, prepares letters, and waits for a
caseworker.  Everything it knows about a case is an append-only journal; the
outbox, the draft store, the vault, the dispatch directory and the demo's store
in memory are the only other state.  The model follows that shape.  What writes
is a state machine, one module per component, the journal between them.  What
keeps no state is a function, and its module states what its answers have in
common.

## 1. The system

| part | state | operations | who runs it |
|---|---|---|---|
| case journal (`engine/journal/store.py`) | one list of events per case, a JSONL file or a dict | `emit` = number, check, append; `read` | everyone |
| pipeline (`engine/pipeline.py`) | none of its own | seal, RECEIVED, REDACTED, EXTRACTED, EVIDENCE_ASSEMBLED, [ANOMALY_SCORED], TIER_DECIDED, [ROUTED] | a request thread per POST /ingest; the demo form on the event loop |
| vault, redaction (`engine/redact/`, `engine/ingest/`) | sealed records | seal, sweep, seal again or refuse, fetch | the pipeline, the letters |
| text layer, extraction (`engine/textlayer/`, `engine/extract/`) | none | normalize, map, replay or ask a model, verify | the pipeline |
| predicates, procedure, completeness (`engine/evidence/`, `engine/predicate.py`) | none | evaluate, derive, check | the pipeline |
| routing, classifier (`engine/evidence/`) | none | arbitrate, fall back on a calibrated similarity | the pipeline |
| shadow scorer (`engine/score/`) | none | features, score, reasons | the pipeline |
| decision plane (`engine/decide/`) | none | `decide`: table, clear cut, one-way valve, audit draw | the pipeline |
| notification worker (`engine/notify/`) | the outbox, one file per case | fold what is owed, deliver, journal NOTIFIED | the request thread after the pipeline; `engine.notify.replay` |
| drafting worker (`engine/draft/`) | the draft store, one file per case | fold what is owed, render, save, journal DRAFTED | the request thread after the notifications; `engine.draft.replay` |
| review (`engine/review/`, `engine/dispatch/`) | the dispatch directory | confirm, override, escalate | coroutines of one event loop |
| two-party demo loop (`engine/demo/`, `api/demo.py`) | entries and links in memory, with an age and a capacity | apply, ask the counterparty, answer, show, expire | forms on the event loop, pages on the thread pool |
| queues, metrics, latencies, correction pool (`engine/review/`, `engine/notify/latency.py`, `engine/journal/corrections.py`) | none | folds over the journals | anyone |
| configuration (`engine/config_loader.py`) | read once | load or refuse | start-up |
| calibration (`eval/calibration.py`) | none | fit the classifier's map | offline |

A POST runs on a thread of the server's pool, a caseworker's form on its event
loop, and the replay command lines are processes of their own.  They meet in the
files of a case, and nothing locks a case: the journal refuses an event whose
number is taken, and the stores look an id up before they append.  The demo's
store is one object in memory that the event loop and the pool share without a
lock.  What is hard about this program is therefore

* the interleavings of these actors, at every point between a read and the
  append that relies on it;
* a crash between the two writes every worker makes (store, then journal), and
  the run that repairs it;
* a submission posted again, which runs the whole pipeline again on the same
  case and journals a second decision, that everything folded over the journal
  then has to make sense of;
* decisions that must only ever gain oversight, through four mechanisms that can
  each move the tier;
* rules that work on a copy in which identities are placeholders, and must answer
  what they would have answered about what was sent;
* the same thing computed twice, in two modules, that has to come out the same:
  a joined name, a waiting time, a place in a queue.

What must hold of each part: the journal shares no number more widely than the
race allows; the notification worker sends what is owed once and records nothing
it did not send; the drafting worker stores no letter a decision does not owe
and journals none it did not store; the decision plane never loosens; a
confirmed case is closed, a confirmation says truly what was sent and what the
human decided; nothing expired is shown and an answer stays the answer to its
own request; a value that is extracted stands in the text, a verdict of
completeness is true of what was typed, a configuration that loads leaves no item
without an answer.  PROJECT.json lists the hazards line by line.

## 2. The modules

State machines:

| module | models | state | actions |
|---|---|---|---|
| `Journal` | `engine/journal/store.py` for one case | `log`, `torn` (a truncated last line), `minted`, `emitting` (who is inside `emit`) | `Mint`, `Accept`, `Refuse`, `Write`, `Crash` |
| `Notify` | `engine/notify/` over an instance of `Journal` | + `outbox`, `job` per worker | `Ingest`, `StartRun`, `CheckOutbox`, `Deliver`, `Record`, the steps of the emit, `Crash` |
| `Draft` | `engine/draft/` with the part of the pipeline it depends on | `journal`, `store`, `job` | `Post`, `Assemble`, `Decide`, `FoldInline`, `StartReplay`, `Block`, `CheckStore`, `Save`, `Record`, `Crash` |
| `Review` | `engine/review/actions.py`, `state.py`, `write_stub`; extends `Draft`, whose workers run on between its steps | + `reviewer` (the handler the event loop is in), `stubs` | `StartOverride`, `StartEscalate`, `EmitOverride`, `StartConfirm`, `PrepareStored`, `RefuseBlock`, `Redraft`, `JournalRedraft`, `Handover`, `EmitConfirmed`, `RefuseUnnamed`, failures |
| `Intake` | `engine/redact/` and `engine/ingest/envelope.py`, with what the checker and the letters do with placeholders | `posted`, `vault`, `journal` (RECEIVED and TIER_DECIDED), `letters`, `job`, `refused` | `Submit`, `Redact`, `SealVault`, `EmitReceived`, `Decide`, `Draft`, `Replay`, `Crash` |
| `Decision` | routing, classifier fallback, scorer, `decide`, `_journal_decision` | `past` (the decisions of a case with what they were made of) and the run in progress | `Assemble`, `Scored`, `NotScored`, `Decide`, `JournalDecision`, `JournalRaises`, `Resubmit` |
| `Demo` | `engine/demo/store.py` and the handlers that use it | `entries`, `links`, `cases`, `asked`, `act` (each thread's place in its handler and in the sweep it is in) | `StartScan`, `Scan`, `Delete`, `EndSweep`, one action per store call and per handler step, `Tick`, `Restart` |
| `Dispatch` | what a save-first worker promises | `owed`, `sent`, `recorded` | `Owe`, `Send`, `Record` |

`Notify` composes with `Journal` by INSTANCE, so its emits are numbered, refused
and lost as the store does it.  `Draft` and `Review` take whole appends, which
`Journal`'s runs justify up to one point they keep: an append may be refused
while another actor is active (`EmitOrRaise` in `Draft`, `ReviewerRaises` and
`WorkerRaises` in `Review`).
An event's id is its place in the journal there.  `Dispatch` is implemented by
one notification worker and by one drafting worker, with mappings stated in
`Notify` and `Draft`.

Functions.  Each of these modules extends `Question`, whose one variable is what
the engine is asked; a question is put once and never changed, so that a run is
the set of all questions and an invariant speaks of every answer.

| module | models | a question is |
|---|---|---|
| `TextLayer` | `engine/textlayer/` | a letter, character by character kind |
| `Extraction` | `engine/extract/`, the text parts of an envelope | a submission, a fixture, a posture, and what a live model answers at each attempt |
| `Evidence` | `engine/predicate.py`, `engine/evidence/context.py`, `derive.py`, `completeness.py`, `nachforderung.py`, the lint on identity paths | a predicate and a payload; procedures and a context; requirements and a record |
| `Contracts` | `engine/config_loader.py`, `redact/policy.py`, `score/config.py`, the decision table's contract of `schemas/config.py`, `evidence/classify.py` | a configuration and an item, or a decision table |
| `Calibrate` | `eval/calibration.py` | scored outcomes |
| `Score` | `engine/score/`, `_score` and what it journals | an item and a reference population |
| `Forms` | `engine/demo/personas.py`, `gegenpartei.py`, `store.py` (what is shown), `api/demo.py`, the sealing of a payload in `redact/seal.py` and `boundary.py` | a posted form; a working copy to be painted |
| `Desk` | `engine/journal/projection.py`, `corrections.py`, `review/state.py`, `queues.py`, `metrics.py`, `notify/latency.py`, the queue pages | the journals of some cases and a moment |
| `Letters` | `engine/draft/letters.py`, `rehydrate.py`, `bekanntgabe.py`, the facts of a dispatch | a letter with its sealed values; a dispatch date and a calendar |

`Calibrate` extends `Contracts`, because what it fits is what the loader has to
accept, and `Contracts` extends `Evidence`, whose predicates it lints.  `Score`,
`Extraction`, `Forms`, `Desk`, `Letters` and `TextLayer` extend `Lists`: it filters a list by a
fold and puts a set or a list in order by counting what comes before each element,
which keeps the order of equals as Python's `sorted` does.

Abstractions.  In the machines a message is its id; a letter is the decision it
answers, its kind, what the check had found missing, whether it states facts, and
whether it carries the par. 66 block.  Texts, addresses, versions and times are
left out there; a time that matters (the confirmation's waiting time) is the
index of the event it is taken from.  The forms a caseworker submits are those
the page offers; refusals that come before any effect leave the state alone and
are not steps.  In the functions a text is a short sequence over the characters
the code tells apart, a date is a year and a day out of three of which one is the
29th of February, and a number is counted in the unit the module's head names.

## 3. The runs

| run | instance | what it shows |
|---|---|---|
| `journal_writers` | 3 writers (symmetric), 5 events, crashes and truncated lines | however the writers interleave, no number is shared by more events than there are writers |
| `notify_workers` | 2 workers, 2 posts, 1 crash, 12 events | a NOTIFIED event has its message in the outbox, and racing workers leave at most one copy each |
| `notify_solo` | 1 worker, 3 posts, 2 crashes | alone on a case the worker implements `Dispatch`, so that it sends each message once, and records in the end whatever is owed |
| `decision` | 3 rules of 2 units, 2 of them tied; 3 kinds of evidence, 2 guesses, 3 scores or none; 9 policies; 2 runs on one case | the valve is one-way across two decisions of a case, log-only changes nothing, an item goes to the winning rule's unit, tier 1 and 2 need a clear rule |
| `draft_solo` | 1 worker, 2 posts, 2 crashes | `Dispatch` implemented: one letter and one event per decision; everything a replay can render is recorded |
| `review` | 2 workers, 1 post, 1 crash, 2 forms | with request threads and the replay running between any two steps of the handlers: a confirmed case is closed, no DRAFTED event without its letter, letters with the block are extra letters, on requests only and once |
| `review_posts` | 1 worker, 2 posts, 2 forms | a second run of the pipeline between and inside the handlers: the human's tier is what a confirmation states, the letter it names can be opened, and every letter fits the decision it answers |
| `review_opt_in` | 1 worker, 2 forms | violation: the block is sent on a form that did not ask for it |
| `intake` | 2 requests, 2 posts, 1 crash, 15 submissions | whatever tokens are drawn and whichever placeholders a round seals again or cuts: what goes on is clean, can be put back piece by piece in two steps, validates as it was sent, is in the vault before the journal names it, and no letter names a person of the other post |
| `demo` | event loop and one page thread, 3 cases, TTL 2, capacity 2, restarts | sweeps that fall into each other, an expiry between two calls of one handler, an eviction: what is shown is not expired, a correlation is true of what was asked, an answer is never replaced |
| `rules` | 369,797 questions (below) | what the functions' answers have in common |
| `desk_file_number` | 1 case | violation: a sealed file number that the queue denies |

The questions of `rules`, and the property about them:

| questions | property |
|---|---|
| every comparison, pairs and nestings of the telling ones, over a sealed and an open field, 49 payloads | `PredicatesFailClosed`: a missing field satisfies nothing; a predicate the loader accepts answers about the working copy as about what was sent |
| two procedures with four kinds of predicate, a context and any part of it, every hint | `AWordNeverSwitches`: more content may leave the procedure open, and never turns one into another |
| the shipped rules on an insurance number, a birth date and a start date, in every form a field can have, with every witness | `TheVerdictIsSound`: complete means the rules hold of what was typed, leap day included, and no gap quotes a sealed value |
| every letter of up to five characters | `AQuoteIsInTheLetter`: the original span of any piece of the normalized text, normalized by itself, is that piece |
| mail and scan, attachments typed, scanned and unreadable, fixtures, postures, model answers that are late, garbled, wrong or about other fields | `AValueStandsAtItsSpan`, `LossIsCounted` |
| one configuration that loads, and mixtures of the edits each cross-file check compares | `WhatLoadsCanAnswer`: no lookup of a later item is open, neither in the files nor behind a seal; `OnlyACalibratedScoreRoutes` |
| decision tables with up to two downgrades in every direction | `AnomalyOnlyDowngrades`: a table the schema accepts never gives a more unusual item less oversight |
| up to five outcomes with ties and scores that coincide once written, 1 to 5 bins | `AFitIsIsotonic`: the fit is the isotonic regression of the groups, errs on its own sample exactly when they did not rise by themselves, and loads |
| five reference populations down to none, three forests, sealed and unsealed places | `NoNumberOverAToken`, `AFlagIsExplained`, `FartherOutIsNoLessUnusual` |
| forms with two boxes for one path, blanks, unknown list entries, placeholders typed by the visitor alone or within a text, leaves the sweep finds something in; texts of up to five characters | `TheHearingReadsTheSubmission`, `ThePagesShowWhatIs` |
| journals of two cases in every order of decision, correction, second decision and confirmation | `NoCaseFallsThrough`, `TheClocksAgree` |
| requests and prepared decisions with addresses, values that bring placeholders along, gaps of every policy; a week of dispatch dates, windows up to two weeks, every set of holidays in six days | `ALetterSaysWhatItMust`, `TheWindowIsWhole` |

**Bounds.** `MaxPosts`/`MaxTriggers`, `MaxCrashes`, `MaxReviews`, `MaxEvents`,
`MaxRuns`, `MaxCases` and `MaxTime` bound how often the environment acts; every
one of them is in a guard of the action it bounds and in nothing else.  Two
posts are the smallest case in which folds meet two decisions; two workers the
smallest race, three writers the smallest in which a number can be shared by more
than a pair; two crashes allow a crash of the repairing run; two forms allow a
correction before a confirmation, two confirmations, or one after a failed one.
`review` has two workers and one post, `review_posts` the other way round, since
the product of the two is out of reach; what needs both is proved (section 4).
`review_posts` has only gaps with a
sentence, since the reissue with the warning does not ask whether there is one (6.8).  `intake`
has one place of every kind the boundary treats differently, two pieces of
prose (a seam needs a neighbour) and fifteen submissions that put each shape where
it matters.  `demo` has one page thread besides the event loop, which is what an
interrupted sweep needs (the proofs have any number); three cases are an application, its answer and one more
to evict them; `Patience < TTL` says that a handler does not take half an hour.
`MaxLetter`, `MaxCopy` and `MaxOutcomes` bound the texts and samples of `rules`:
five characters hold a hyphenation with a blank on either side, five outcomes
three bins of which the last pulls both others down.  A predicate has up to three
layers below the first (`Nodes` of `Evidence`); the shipped ones have two.

**Deadlock** is not checked in the machines: every case rests when the bounds are
used up, as the program does when no request comes.

**Fairness.** `FairSpec` of `Notify` and `Draft` is weak fairness on the steps
of a call that has begun and on starting the replay while something is owed.
The first is a thread that is scheduled; the second is the operator's timer:
the module comments of `engine/notify/replay.py` and `engine/draft/replay.py`
present the replay as the repair of a crashed run, and its promise holds only
if it is started.  Posts, crashes and forms are never fair.

**Mutants.** Each property of each passing run has a plausible bug of the code
written beside the definition it changes (comment "Mutant:"), and a property that
is a conjunction has one for each of its parts that could break alone.  They are
in no next-state relation.

## 4. The proofs

`tlapm` checks them for every value of the constants.

* `JournalProofs`.  `TypeCorrect`.  `LoneWriterNumbering` and
  `LoneWriterNeverRefused` assume one writer; the inductive invariant says that
  every stored event carries the number of its place and that a minted number is
  the next place as long as its writer is inside the emit.  It is needed
  because the counter is read in one step and used in another.
  `SharedSequencesAreBounded` has any finite number of writers.  Its invariant
  counts: the places that carry a number and the writers that were checked for it
  and may still write under it are together no more than the writers (`OneEach`
  of `ListFacts`).  It is inductive because a writer is checked for a number only
  while no place carries it, and no number runs ahead of the file.
* `NotifyProofs`.  `RecordedImpliesDelivered` and `DeliveredImpliesOwed` for any
  number of workers.  The inductive invariant adds what each worker carries
  between its steps: an item that is to be delivered is about an event of the
  log, and one that is to be recorded is in the outbox.  The outbox only grows,
  so neither is disturbed by another worker.  `RacesCostOneCopyEach` counts
  twice: copies of a message with the workers about to append one, and records of
  a dispatch with the workers that still have its event among what they fold.
  Both need that ids of events are never shared (`FreshIds`) and that a worker
  turns to an event once (`TurnedToOnce`).  It assumes finitely many workers and
  `Settled`: the operator leaves each trigger its template, without which 6.3
  adds a copy per configuration.  `LoneWorkerDispatches` is the refinement of
  `Dispatch`, initial states and every step, for a worker that is alone: between
  its look into the outbox and its append nobody else sends.
* `ReviewProofs`, the drafting worker.  `TypeCorrect`, `RecordedImpliesSaved`,
  `LettersFit` for any number of workers and posts.  The inductive invariant says
  of every call what
  it has in hand: its list of owed drafts names decisions of the case that owe
  them (the list may be older than the journal, and the journal only grows under
  it), its letter fits its decision, and a letter that is to be recorded is
  stored.  Every lemma about a step shows only what is new in it; `HoldsOn` and
  `OneWorker` carry the rest over.  The fold takes the newest evidence of the
  case, whose existence is `LeastNumber`, from the library's theorem that the
  order of the naturals is well-founded.  The invariant is `DraftInv(E)`, over any
  events `E` that hold the workers' own (`EventSet`), so that the second part can
  use it.  `LoneWorkerDispatches` is the refinement of `Dispatch` here: a decision
  owes one kind of letter, so a letter whose id is not stored is the first about
  its decision (`FirstAboutIt`).
* `ReviewProofs`, the caseworker.  `RecordedImpliesSavedReviewed`,
  `ConfirmationsAreTrue`, `ConfirmedStaysClosed`, `OneBlockPerDecision` and, for
  gaps that all have their sentence (6.8), `LettersFitReviewed`, for any number of
  workers, posts, forms and crashes.  The
  invariant is `DraftInv(Event)`, which the lemmas of the first part carry through
  the workers' steps, and what the handler at work has in hand: the part of the
  journal it
  read is a prefix of the journal, the case was open in it, and no other form is
  at work, so nothing appended since confirms or corrects; the
  tier it will confirm is a human's and the letter it will name is stored and
  handed over.  It is needed because the handler's checks are made on its first
  read and its event is appended many steps later.  For the block the invariant
  adds that a letter with it stands behind a letter without it about the same
  decision, that there is one of it and one event, and that the handler which is
  about to journal one knows of none: only the event loop writes them, one form at
  a time.
* `IntakeProofs`.  Every property of the run `intake`, `BoundaryHolds` the first
  of them, for any policy, any set of
  submissions, any number of requests, posts and crashes.  The inductive
  invariant says of every request beyond the boundary that its copy and its
  entries are `Accepted` for its post: outside the prose each place holds what was
  sent or a token whose entries are all of that value, everywhere the entries,
  put back twice, give what was sent, every declared value is sealed, and the
  last sweep found nothing.  Two lemmas about a round of sealing (`RoundSeals`,
  `RoundGoesBack`) serve both rounds: a round draws tokens that were not issued
  and do not stand in the submission, so that its entries lead back to the copy
  it began with and leave every older way back as it was.  A placeholder the
  second round takes whole is therefore two steps from what was sent, and one it
  cuts is residue, on which the item is refused.
  The rest of the invariant: no two requests work on the same post, a record in
  the vault is of its own post and complete (`Kept`), and a case with a RECEIVED
  has a newest one (`GreatestPlace`).

  It also proves `AQuoteIsInTheLetter` for every letter, of any length
  (`QuotesAreInTheLetter`; `TextQuestions` asks only that a letter is a list of
  characters of the six kinds).  The pass puts out a chunk at each character, an
  empty one where it goes over it, and what it puts out there depends on the
  characters around.  The heart is `ChunksOfAPassage`: a passage that begins and
  ends where chunks are put out puts out, by itself, what it puts out within its
  letter, but for blanks at its two ends, since whether a blank or a hyphen is
  kept is decided by what stands next to it.  So normalized it is the stretch of
  the normalized letter, stripped (`PassagesNormalize`).  On the way back the
  segments come emission by emission (`SegmentsComeStepByStep`), keep in order
  (`SegmentsFollow`) and cover every chunk (`SegmentsCover`), merged or not, so
  both ends of a span lead to where its first and last chunks came from
  (`StartsLead`).
* `DemoProofs`.  Every property of the run `demo`, for any number of page threads,
  any capacity, any number of submissions and restarts.  The inductive invariant
  says what a sweep owes: it will still delete what it has found and still look at
  what it has not reached, and nothing else in its dictionary is expired, since an
  entry written under it is as young as the handler that wrote it
  (`NotYetExpired`, the one place where `Patience < TTL` is used).  It is needed
  because a sweep is many steps and every thread runs its own.  A link answered
  late is the exception: `Attach` may put it back after its time, so the
  invariant says it of open requests only.  For the correlation the invariant
  says that every link on the books or in a handler's hands is `True` of the
  journal and of what was asked, and that nothing is asked of a case twice; for
  the answer, that the loop's statement is of a request without one.

  `AnyPage` is a form or a copy that is asked about and stays.
  `HearingsReadTheSubmission` rests on what a posted form is: the data of a form
  is, at each path that says something, what the boxes of the path say together,
  in the order of their places (`TheDataOfAForm`, by the steps of the code's loop
  over the paths), and the letter's own join is the same when no two boxes claim
  one place (`JoinsAgree`).  Grouped into rows, every box of a statement is shown
  and nothing else (`EveryBoxIsShown`), a page sent as it is shown sends what it
  shows (`SentAsItIsShown`), and so the reply says the four texts the link carries
  (`TheReplyCarries`).  Asked of the form is that boxes hold texts, that no box
  stands below the path of another (`PathsAreApart`), and that the counterparty's
  form has a box of its own for each of the four (`PartyForm`), as the shipped
  ones do.  `RefusedFormsPostTheSame`, a part of `ThePagesShowWhatIs`, follows from
  the same lemmas for a form whose boxes have names of their own and whose lists
  all have an answer (`EachBoxAnswersOnce`): a list left without one shows its
  first choice and would send it.  `ColouringLosesNothing`, another part, is for any
  copy.  A text cut at some places has those between its pieces and nowhere else
  (`CutsLeaveNoPlace`); the stretches up to each place, painted one by one, are
  the whole (`PaintedPieceByPiece`), first for the placeholders of a line, then
  for the lines of a text.
* `ListFacts`.  Facts the others cite: an appended list, a least number and a
  last place, and counting by pairs (`OneEach`: those that have come and those
  that may still come are no more than the actors).  For the lists of the
  functions: what holds after every step is had from the least place where it
  would fail (`EveryPlace`); a `FoldLeft` is a function on places (`FoldExists`,
  `FoldSteps`), and so is a filter (`ThoseSteps`) and lists put one after the other
  (`FlatteningSteps`); what is filtered is from the list and as much as the places
  it was kept at (`AreKept`); and in a total order each element has a place of its
  own, and as many places as elements leave none empty (`EachHasItsPlace`).
* `DecisionProofs`.  `Valve`, `LogOnly`, `OneCause` and `RulesRoute` for every rule set, every
  decision table, every downgrade list, every score.  The invariant is that each
  past decision is `Sound`: it is the verdict of the evidence and the policy it
  is stored with.  The rest is about one verdict (a downgrade never lowers the
  number of the tier) and about two (`PreTier` depends on the routing evidence
  alone).  `RulesRoute` adds that what is in hand was gathered by arbitration
  (`GatheredInv`): among the hits one rule wins (`WinnerExists`, `WinnerIsOne`),
  and its word is heard first since a similarity is never surer than a contested
  rule.  It assumes `RowsTrustRulesOnly`, that every row of tier 1 or 2 asks for a
  rule and for more confidence than a tie has, as the shipped table does; the
  agency may write another, and `RoutingIsTheAgencys` would then be false.
* `RulesProofs`.  Fifteen of the properties of the run `rules`, for any question:
  `AnyQuestion` is a question that is put and stays, and `Questions` says what
  it is made of, part by part, all of it what parsing and typing guarantee: a
  window is a number of days, scores and budgets are numbers, a similarity is one
  (in quarters, -4 to 4), a requirement's rules name requirements and kinds that
  exist, bins have bounds and confidences in order, a predicate has at most four
  layers.  Every question of the run satisfies it.
  The arguments: `NextWorkingDay` is the least of the working days in its reach
  and grows with the day it starts from; the features of an item are those of any
  item that reads the same, and a token is read as one or not at all; what each
  check passes is what the verdict claims, the leap day by remainders of 4 and
  400; a condition on anomaly that holds of a score holds of a higher one
  (`ConditionGrows`), and a downgrade only adds; among the units one is nearest,
  the first of the order on a tie (`NearestExists`, `NearestIsOne`), and stays so
  when it comes nearer, where the bins tell it no less surely (`SurerWhenNearer`).
  `Holds` is a recursive function over the nodes of a predicate.  That such a
  function exists is shown by filling it layer by layer (`HoldsIsDefined`), and
  that it grows with the context by the same layers (`HoldsGrows`), which is why
  the depth is bounded.
  `AValueStandsAtItsSpan` and `LossIsCounted` are about lists, which the code
  filters, and texts, which it folds.  Both are `FoldLeft`s in `Extraction`
  (`ThoseAreKept`, `FoldedTextSteps`).  The blanks around a text leave no trace in
  what is folded,
  so that trimming a value first changes nothing (`TrimmingIsSilent`).  A record
  from a text is then one
  of the proposals, and its value in the window was checked by one of the two
  locks; the losses are counted by pairing each missed field with its place in the
  map.  `MapsEachFieldOnce` is needed for the count only and is a theorem's
  hypothesis of its own: the three shipped procedures map no field twice, the
  loader does not refuse one that does, and its count would then be wrong.  Texts
  are over the characters the model tells apart (`Written`).
  `AFlagIsExplained` and `FartherOutIsNoLessUnusual` are about sorted lists.
  Places (`EachHasItsPlace`) give the reasons in order, each
  once, and the median, with half of the population on either side
  (`MedianHalves`).  The two tails therefore fall away from the median
  (`TailsFall`), so that farther out the deviation and the rank of the combined
  score only rise (`ScoresGrow`).  Asked of the question is that the item has
  numbers where numbers are read, that the reference is a list of rows of
  numbers, and that a flag may have a reason (`max_reasons`, at least 1 in the
  contract of the config).
  `NoCaseFallsThrough` and `TheClocksAgree` are about journals.  The folds of a
  case and of its corrections keep their types (`ApplyingIsTyped`,
  `CorrectingIsTyped`), and a case has been corrected exactly when its journal has
  an OVERRIDDEN (`JournalsAreFolded`); the index has every case once
  (`TheIndexIs`), a queue the open cases of its unit, once each and the oldest
  first (`AUnitsQueueIs`), and the pool every correction (`ThePoolIs`).  So the
  places of a case are one pair or none (`EachStandsInOneQueue`), and each sum of
  the report is the size of what its parts divide (`FibresAddUp`).  An open case
  is over its budget where its age, or 0 without a time of receipt, is
  (`OverAtItsAge`); the backlog takes the greatest of these ages
  (`GreatestOfSome`), which is over exactly when one is.  The k-th of a sorted
  list has k at or below it and fewer below it, and the nearest rank is the least
  k that makes the stated share (`NearestRank`).
  Asked of the question is that journals are lists of events of the modelled
  kinds, any other type being read as one that tells nothing, with times in hours
  from some beginning; that every tier has a budget; and that no unit is called
  like the clearing queue (`__clearing__`, queues.py:45): the loader does not
  refuse one, and its items would stand behind a link that opens another queue.
  `ALetterSaysWhatItMust` counts characters, since a value may overlap another,
  hold it, or look like a placeholder.  A text of pieces has a character as often
  as its pieces together (`JoinedAlike`), in whatever order they stand
  (`JoinedInAnyOrder`).  The round trip takes the parts of a value out of the
  display until nothing is left, each part with all of its characters (`UsedUp`),
  so a display that passes carries the value and nothing else
  (`RoundTripsKeepAll`).  The first placeholder of a token is looked up, the later
  ones show the same entry (`EachShowsItsEntry`), and so the rendered text is the
  written one with each value in its place (`ValuesAreCarried`).
  A warning is a sentence at the end, about what the text asks for before it; that
  it is about nothing called determinable needs an invariant of texts: behind
  each softened name stands its note, and nowhere else (`NotedTexts`).  Joining
  and re-hydration keep it (`ShownIsNoted`), so that the last sentence of the
  wording decides (`WarningStands`, `WordingWarns`), also of the letter
  (`RenderedWarns`).
  Asked of the question (`LetterQuestions`) is that a record's tokens differ and
  that each entry has its placeholder; that what applicants and templates
  contribute is made of characters, placeholder syntax among them, and not of the
  three words of the model that stand for a name, its note and the warning; and
  that requirements and facts have names.

The assumptions are those the modules declare.  `IntakeAssumption` has places of
the four kinds disjoint and different from "own" (the modelling of a path as one
place), and mapped sealed paths witnessed, which `check_witnessless_seals`
enforces when the policy is loaded.  `UnitOrderAssumption` of `Contracts` has the
units in an order, by which `scores` breaks ties.

Proved and not in a run: the type invariants of `Journal`, `Notify`, `Draft` and
`Intake`, `DeliveredIsOwed`, and `OneCauseOfReview`, which the theorems settle for
every instance.

The proofs changed the model in eleven places.  A scalar at a path declared as a
sub-object is sealed like any other value, which `SealPayload` had not done.
`Holds` and `Comparisons` were RECURSIVE operators, which cost the prover its SMT
backend in every module above them.  The order of the units was written out and
is a constant.  And `EveryItemCanBeAnswered` had every requirement found exactly
once, which the loader does not see to (6.29).  The filters and the folding of
`Extraction` were `SelectSeq` and a sorted set of places and are folds.  The sorts
of `Score` were `SortSeq` and are the operators of `Lists`, as are now the filters,
queues, backlog and pool of `Desk`.  So are the joins, the choices and the echo of
`Forms`, whose copies are cut at their placeholders (`CutAt`) and were walked
through character by character; and the filters, the round trip and the joins of
`Letters`.  Re-hydration there looked every placeholder up, where the code looks a
token up once and compares the kind of its first placeholder only (6.30).  The
pass and the segments of `TextLayer` were RECURSIVE operators; the pass is now
stated character by character and the segments are a fold.

Only model-checked:

* liveness: `EveryOwedIsRecorded` of `Notify` and of `Draft`
  rests on fairness, which is beyond the prover;
* `TypedIsBesideItsToken`, the third part of `ThePagesShowWhatIs`: the page pairs
  a value with a token by kind and place in the rendered lines, and that the n-th
  value of a kind is sealed as the n-th token of that kind is a matter of how the
  shipped personas and the policy are written and of how paths are sorted; as a
  hypothesis it would be the property itself;
* `AFitIsIsotonic`: the pooling of blocks is an induction over the outcomes.

## 5. What is not modelled

PROJECT.json has every component with its status.  Left out for good:

* the regular expressions of the recognizers, the statistical detector and the
  recall measurement: what they find is a shape of a value in `Intake`;
* the embedding model, the isolation forest, the string similarity: external
  functions in `Contracts`, `Score` and `Extraction`;
* HTML pages, their texts in two languages, German wording of letters, notices
  and rationales: rendering without state;
* the evaluation harness but for the calibration fit, the corpus generators, the
  shipped data of the demo's personas, deployment.

`Intake` abstracts a submission to a few places and the shape of what stands at
each; a piece of prose is what one hit covers or leaves, and an identity is
always found, while a seam, an imitation and a placeholder are found or not, in
either round (the statistical recognizer tags placeholders,
`engine/redact/verify.py:150-155`); a placeholder that was cut and is cut again
stays cut; a token drawn for one post never occurs in another (57 bits);
a vault handle is the number of its post, so that `DuplicateVaultRecordError`
does not arise; a letter's text is the set of values it states.  What a letter
says is in `Letters`, which is asked about single letters and knows no races.
Appends of `Draft` and `Review` are whole.  A caseworker's names and notes are
not kept.  In `Decision` the scorer is any function of the item to a score, and
the audit draw any function of the case and the salt; `Score` is the function.
`Forms` seals the structured part as the boundary does, sub-objects and auto-seal
included, and takes its tokens in the order of the rendered lines; the paths a
sweep finds something in are any set, the tokens of the prose are given and stand
after it, a malformed placeholder is not typed (it is refused, and no page
shows it), and the cut of a part at `MAX_CHARS` is left out.  The properties of
`Forms` about joined boxes hold for boxes of one path with different places,
which the shipped personas have.

## 6. What the code does and its documents do not say

Two disagreements have a run (section 3, PROJECT.json "findings").  These were
met on the way and have none, so that each is stated here with its lines.

1. *Numbers are shared.* `engine/journal/store.py:3-10` calls the sequence
   gap-free and monotonic; the check at 153 compares the event's number with the length of
   the file as it is then, and two writers that both pass it before either
   appends store the same number.  `SharedSequenceBounded` says how far this goes.
2. *A second POST notifies again.* Notification ids name the event they are
   about, and a second run of the pipeline journals new events
   (`api/app.py:298-302`); one person is told twice that the same submission
   arrived.
3. *A renamed template sends again.* The id contains the template
   (`engine/notify/outbox.py:68`): a run that crashed between the delivery and
   the event, repaired after the configuration changed, delivers a second
   message, where 10-12 presents the id as what makes a replay harmless.
4. *A prepared decision is not repaired.* `_render`
   (`engine/draft/projection.py:296`) blocks it without facts, and a replay has
   none.  When the request died after the save, the letter is stored and can be
   sent, and no run journals it, against 24-25.
5. *A correction can state a move that did not happen.* `override_case` reads
   the effective tier and appends in two steps (`engine/review/actions.py:227`);
   a decision of the pipeline in between makes the journaled "from" old, and the
   "no change" refusal of 270-272 can be passed by.
6. *The waiting time restarts.* `decided_at` is the time of the case's last
   event (`engine/review/state.py:98`), so each correction restarts the time
   that `actions.py:503` reports as counted from the decision.
7. *A letter with the block is sent without an event.* When the handler ends
   between saving and journaling it (`actions.py:449`), the next confirmation
   sends it, and no DRAFTED event names it, against 28-29.
8. *The reissued letter is not the prepared one.* Its text is built from the
   newest gaps of the case, without the check for gaps that have no sentence,
   under the base letter's list of requirements (`actions.py:427-433`), where
   419 speaks of the same letter.
9. *A corrected item's label.* The correction pool takes the newest machine
   tier of the case (`engine/journal/corrections.py:115`), not the one the
   caseworker saw.
10. *The error rail ends before the journal.* `_journal_decision`
   (`engine/pipeline.py:583`) evaluates the downgrades and the audit draw again,
   outside the handler of `decide`.  With a salt longer than 64 bytes, which the
   loader refuses and a configuration built by hand can have, `decide` returns
   its tier-3 record and the same error then leaves `run_pipeline`: nothing is
   journaled, where `engine/decide/interpreter.py:150-152` says it "surfaces
   through `decide`'s error rail as a tier-3 record".  The action `JournalRaises`.
11. *A refused confirmation leaves its handover file.* `_prepare_dispatch`
   writes it (`engine/review/actions.py:351`) before CONFIRMED is built and
   appended.  A form without a unit is refused only then (the action
   `RefuseUnnamed` of `Review`), the append itself may be refused or the process
   may end, and the file stays; `docs/adr/ADR-003-drafting-after-decision.md:16`
   says "Nothing with procedural consequence leaves the system unconfirmed".
12. *A letter can state another post's values.* The facts are those of the
   request that drafts, the fold is over the whole case (`api/app.py:310-318`).
   A request whose own item is incomplete, and which reads the journal after
   the decision on a second, complete post, writes the prepared decision of that
   one with its own open values.  In `Intake` this is the set `states` of a
   letter, and TLC finds it with two posts; values of the person cannot be mixed
   this way (`IdentityIsOfOneRecord`), since a placeholder of one post is not in
   the record of the other and blocks the letter.
13. *A truncated line takes the case with it.* After a crash in the middle of a
   write, `read` raises on the last line (`engine/journal/store.py:163`), and the
   case can be neither read nor appended to; 142-143 says a crash "can truncate at
   most the last line and never corrupt earlier history".  The earlier lines are
   intact, but the store no longer returns them.  `torn` in `Journal`.
14. *A lost race delivers twice.* `deliver` looks for the id in the entries it
   read and appends afterwards (`engine/notify/outbox.py:120`), and the worker's
   other guard is its copy of the journal.  Two workers on one case both send,
   against 13-15; `CopiesBounded` says how often at most.
15. *A rate that counts twice.* `override_rate` divides by confirmations plus
   corrections, "every item this unit has taken a decision about"
   (`engine/review/metrics.py:83-94`): a case that is corrected and then confirmed
   is in it twice, and a unit without five confirmations, which "report no rate"
   (34-37), can have one.
16. *A unit of that name.* A unit called `__clearing__` has no queue of its own
   (`engine/review/queues.py:45`), and the loader accepts it.
17. *A letter may be refused, or pass, by chance.* `round_trip_ok`
   (`engine/draft/rehydrate.py:246-276`) refuses a faithful display in which two
   parts of an address overlap, which it says, and accepts one in which a part
   stands around another.
18. *A long holiday.* More than seven days off in a row make
   `next_working_day` raise (`engine/draft/bekanntgabe.py:96-112`) while a
   confirmation is stamped; the loader bounds the holidays by nothing.
19. *A line of an addressee stays empty.* A path below a sealed sub-object passes
   `_check_drafting_addressee`, and `addressee_slots`
   (`engine/draft/letters.py:387-402`) looks the exact path up in the record.
   `WhatLoadsCanAnswer` leaves such lines out.
20. *The demo under load.* A sweep that meets another's deletion raises
   `KeyError` or `RuntimeError` out of a page (`engine/demo/store.py:398-409`),
   where 323-335 has a link or none; a raise in `put` leaves a link without its
   answer after the statement was journaled (`api/app.py:941`);
   `record_statement` puts a link back that expired during the ingest
   (`engine/demo/store.py:373-381`), and its None is not looked at; at capacity a
   case goes while its link lives.  All of them are behaviours of `Demo`.
21. *The demo's small print.* `_joined` (`engine/demo/gegenpartei.py:459`) breaks
   ties by the value where `build_form_submission` breaks them by position;
   `vocabulary` (`api/demo.py:353`) takes the first procedure that lists a field;
   a structured value with a line break can put a placeholder into a key.
22. *The 29th of February.* `_vsnr_birthdate`
   (`engine/evidence/completeness.py:544-557`) reads the year as 19YY: who was
   born on 29.02.2000 has a number whose digits are no date, and the item gets a
   gap that no answer closes.
23. *A presence test that is never true.* A comparison with an unknown field is
   false (`engine/predicate.py:84-86`), so `eq null` holds of nothing, and the
   loader's message (`engine/config_loader.py:1649-1651`) offers it.  An ordering
   holds of no payload field, since a context holds texts.
24. *A value recognition sealed is quoted.* The gaps hide the values of fields the
   policy names (`engine/evidence/completeness.py:100-102`); a value that only
   the recognizers sealed, in a field the policy does not name, stands in the
   gap's text.
25. *Configurations that load.* `field_map` may name a field twice, of which the
   last path is kept; a requirement without a mapped path can never be met; a
   cross-field rule may name a document; two procedures with one id are one;
   `reveal` of the redaction policy is never read (`engine/redact/policy.py:47-57`).
26. *A calibration for another model.* The map names the model it was fitted on,
   and `suggest` does not compare it with the embedder it is given
   (`engine/evidence/classify.py:337-363`).  `eval/calibration.py:276-291` says
   "keeping the last" and "The FIRST is kept" of the same loop.
27. *A live model's failures.* A body that ends early raises `IncompleteRead`,
   which is neither an `OSError` nor a `ValueError` and leaves `propose`
   (`engine/extract/llm.py:211-217`), where the module's head says "Every failure
   is 'no proposals'".
28. *A share of "nan".* A share of the turnover written so parses
   (`engine/score/features.py:329-333`), and `min(1.0, nan)` (475) makes it the
   largest one.  A degraded score is journaled
   with the exception's message (`engine/score/scorer.py:127-132`), where the
   pipeline says it names the failure and never a value.
29. *A requirement twice.* `engine/config_loader.py:193-195` collects the ids of
   the requirements in a set and does not compare its size, so a list that names
   an id twice loads, and the item has two gaps of one name; the ids of rules, units,
   texts and templates are compared.  The questions of `rules` hold such a list.
30. *A second name for a token.* `rehydrate` (`engine/draft/rehydrate.py:165-166`)
   goes on past a token it has resolved before it compares the kind, so a later
   placeholder of that token is rendered whatever kind it states, where the
   module's head (17-19) calls a kind that disagrees a hard error.  The value is
   the entry's own; `NamesFirst` in `Letters` is where the model has it.
31. *An original that is a placeholder.* `seal_text` scans prose with its
   placeholders unmasked (`engine/redact/text.py:91-113`).  A hit of the second
   round over a whole placeholder of the first is replaced by a new one, which
   the last sweep masks: the item is accepted, and the vault has the old
   placeholder as the new one's original, where `engine/redact/vault.py:65-67` has
   "the value AS RECEIVED" and "the vault stores the truth".  The value itself is
   in the entry of the old placeholder, so that `SealIsReversible` puts back
   twice.  The witness and `rehydrate` look a token up once; a placeholder that
   comes out of the vault is refused there (`_assert_no_placeholder_survives`).
   Letters and requirements name tokens of the payload, which no second round
   touches.  A hit that cuts a placeholder inside leaves one within another,
   which the last sweep finds: that item is refused.
32. *Somebody else's token.* `_pairings` (`api/demo.py:1265-1269`) leaves a row
   open "rather than pointing at somebody else's token".  A well-formed
   placeholder typed into a box is not sealed (`engine/redact/seal.py:259-260`)
   and not residue (`recognizers.py:506-517`), so the working copy keeps it: one
   of kind NAME in another box whose line sorts first is shown beside the typed
   name, and a name box that holds one of another kind is shown beside the name
   token of a document.  `TypedIsBesideItsToken` leaves out the rows a
   typed placeholder can be mistaken on, and holds of all the others.
