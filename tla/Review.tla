------------------------------- MODULE Review -------------------------------
(***************************************************************************)
(* The caseworker's actions (engine/review/actions.py) on the case whose    *)
(* letters Draft writes.  The three POST handlers are coroutines without an *)
(* await after the form is read, so the event loop runs one of them at a    *)
(* time: one reviewer.  The request threads and the replay of Draft run     *)
(* between any two of its steps.                                            *)
(***************************************************************************)
EXTENDS Draft

CONSTANT MaxReviews   \* bound on the forms the caseworkers submit

ASSUME ReviewAssumption == MaxReviews \in Nat

ESCALATION_TIER == 3

(* What names a letter in the store, in a payload and in a file name. *)
LetterId == [source : Nat, block : BOOLEAN]
IdOf(l) == [source |-> l.source, block |-> l.block]
None == [none |-> TRUE]

(* CONFIRMED: the tier shown, the event the waiting time is counted from,    *)
(* the letter sent, and whether the par. 66 box was ticked.                 *)
ConfirmedEvent == [type : {"confirmed"}, tier : 0 .. 3, since : Nat,
                   sent : LetterId \cup {None}, optin : BOOLEAN]
TierMove == [type : {"overridden"}, field : {"tier", "escalation"}, to : Tier]
UnitMove == [type : {"overridden"}, field : {"unit"}]
Event == DraftEvent \cup ConfirmedEvent \cup TierMove \cup UnitMove

VARIABLES
  reviewer,   \* the handler the event loop is inside of
  stubs,      \* the handover files in the dispatch directory
  reviews

vars == <<draftVars, reviewer, stubs, reviews>>

Form == [optin : BOOLEAN, dispatch : BOOLEAN, named : BOOLEAN]
Idle == [step |-> "idle"]

ReviewInit == Init /\ reviewer = Idle /\ stubs = {} /\ reviews = 0

-----------------------------------------------------------------------------
Confirmed(events) == At(events, "confirmed") # {}

(* derive_case_state: the newest decision; 0 while there is none. *)
MachineTier(events) ==
  IF At(events, "decided") = {} THEN 0 ELSE events[Newest(At(events, "decided"))].tier

TierMoves(events) == {i \in At(events, "overridden") : events[i].field # "unit"}

(* Mutant: whoever spoke last, machine or human, sets the tier. *)
EffectiveTierLast(events) ==
  LET said == TierMoves(events) \cup At(events, "decided")
  IN IF said = {} THEN 0
     ELSE LET e == events[Newest(said)]
          IN IF e.type = "decided" THEN e.tier ELSE e.to

(* review_state: the corrections are replayed over what the machine says,    *)
(* wherever in the journal its newest decision is.                          *)
EffectiveTier(events) ==
  IF TierMoves(events) = {} THEN MachineTier(events)
  ELSE events[Newest(TierMoves(events))].to

(* decided_at: the time of the case's last event, or its receipt. *)
ClockStart(events) ==
  IF At(events, "decided") # {} THEN Len(events)
  ELSE IF At(events, "received") # {} THEN Newest(At(events, "received")) ELSE 0

Prefix(n) == SubSeq(journal, 1, n)

Submit ==
  /\ reviewer = Idle /\ journal # << >> /\ reviews < MaxReviews
  /\ reviews' = reviews + 1

(* override_case up to its emit; the page offers units and tiers. *)
StartOverride ==
  /\ Submit /\ ~ Confirmed(journal)
  /\ \/ \E to \in Tier \ {EffectiveTier(journal)} :
          reviewer' = [step |-> "override",
                       event |-> [type |-> "overridden", field |-> "tier", to |-> to]]
     \/ reviewer' = [step |-> "override",
                     event |-> [type |-> "overridden", field |-> "unit"]]
  /\ UNCHANGED <<draftVars, stubs>>

(* Mutant: an escalation skips what override_case refuses. *)
StartEscalateAlways ==
  /\ Submit /\ EffectiveTier(journal) # ESCALATION_TIER
  /\ reviewer' = [step |-> "override",
                  event |-> [type |-> "overridden", field |-> "escalation",
                             to |-> ESCALATION_TIER]]
  /\ UNCHANGED <<draftVars, stubs>>

(* escalate_case *)
StartEscalate ==
  /\ Submit /\ ~ Confirmed(journal)
  /\ EffectiveTier(journal) # ESCALATION_TIER
  /\ reviewer' = [step |-> "override",
                  event |-> [type |-> "overridden", field |-> "escalation",
                             to |-> ESCALATION_TIER]]
  /\ UNCHANGED <<draftVars, stubs>>

EmitOverride ==
  /\ reviewer.step = "override"
  /\ Emit(reviewer.event)
  /\ reviewer' = Idle
  /\ UNCHANGED <<store, job, posts, crashes, stubs, reviews>>

-----------------------------------------------------------------------------
(* confirm_case: the journal is read once, here. *)
StartConfirm ==
  /\ Submit /\ ~ Confirmed(journal)
  /\ \E f \in Form :
       reviewer' = [step |-> "prepare", seen |-> Len(journal), form |-> f,
                    letter |-> None]
  /\ UNCHANGED <<draftVars, stubs>>

Preparing(step, letter) ==
  reviewer' = [reviewer EXCEPT !.step = step, !.letter = letter]

NothingToSend == ~ reviewer.form.dispatch \/ store = << >>

Prepared == store[Len(store)]

(* Mutant: the block is offered on a prepared decision, too. *)
WantsBlockAlways == reviewer.form.optin /\ ~ Prepared.block

WantsBlock ==
  reviewer.form.optin /\ Prepared.kind = "nachforderung" /\ ~ Prepared.block

(* _redraft's look-up: what the decision behind the letter owes as seen. *)
StillOwed == {o \in OwedAll(Prefix(reviewer.seen)) : o.source = Prepared.source}

(* The newest letter of the store, or none. *)
PrepareStored ==
  /\ reviewer.step = "prepare"
  /\ \/ NothingToSend /\ Preparing("confirm", None)
     \/ ~ NothingToSend /\ ~ WantsBlock /\ Preparing("handover", Prepared)
  /\ UNCHANGED <<draftVars, stubs, reviews>>

(* ReviewActionError: the letter's case facts are no longer derivable. *)
RefuseBlock ==
  /\ reviewer.step = "prepare"
  /\ ~ NothingToSend /\ WantsBlock /\ StillOwed = {}
  /\ reviewer' = Idle
  /\ UNCHANGED <<draftVars, stubs, reviews>>

(* Mutant: the letter with the block takes the place of the one without. *)
RedraftInPlace ==
  /\ reviewer.step = "prepare"
  /\ ~ NothingToSend /\ WantsBlock
  /\ \E o \in StillOwed :
       LET letter == [Prepared EXCEPT !.gaps = o.gaps, !.block = TRUE] IN
       /\ store' = [store EXCEPT ![Len(store)] = letter]
       /\ Preparing("redraft", letter)
  /\ UNCHANGED <<journal, job, posts, crashes, stubs, reviews>>

(* Mutant: the letter with the block is saved without looking for its id. *)
RedraftBlind ==
  /\ reviewer.step = "prepare"
  /\ ~ NothingToSend /\ WantsBlock
  /\ \E o \in StillOwed :
       LET letter == [Prepared EXCEPT !.gaps = o.gaps, !.block = TRUE] IN
       /\ store' = Append(store, letter)
       /\ Preparing("redraft", letter)
  /\ UNCHANGED <<journal, job, posts, crashes, stubs, reviews>>

(* Mutant: the letter with the block is journaled but not saved. *)
RedraftUnsaved ==
  /\ reviewer.step = "prepare"
  /\ ~ NothingToSend /\ WantsBlock
  /\ \E o \in StillOwed :
       Preparing("redraft", [Prepared EXCEPT !.gaps = o.gaps, !.block = TRUE])
  /\ UNCHANGED <<draftVars, stubs, reviews>>

(* _redraft_with_rechtsfolgenhinweis up to its save: the prepared letter's   *)
(* record with a text built from what is owed as seen.                      *)
Redraft ==
  /\ reviewer.step = "prepare"
  /\ ~ NothingToSend /\ WantsBlock
  /\ \E o \in StillOwed :
       LET letter == [Prepared EXCEPT !.gaps = o.gaps, !.block = TRUE] IN
       \/ /\ Stored(letter)
          /\ Preparing("handover", letter)
          /\ UNCHANGED store
       \/ /\ ~ Stored(letter)
          /\ store' = Append(store, letter)
          /\ Preparing("redraft", letter)
  /\ UNCHANGED <<journal, job, posts, crashes, stubs, reviews>>

JournalRedraft ==
  /\ reviewer.step = "redraft"
  /\ Emit([type |-> "drafted", source |-> reviewer.letter.source,
           block |-> reviewer.letter.block])
  /\ reviewer' = [reviewer EXCEPT !.step = "handover"]
  /\ UNCHANGED <<store, job, posts, crashes, stubs, reviews>>

(* write_stub rewrites its own name. *)
Handover ==
  /\ reviewer.step = "handover"
  /\ stubs' = stubs \cup {IdOf(reviewer.letter)}
  /\ reviewer' = [reviewer EXCEPT !.step = "confirm"]
  /\ UNCHANGED <<draftVars, reviews>>

EmitConfirmed ==
  /\ reviewer.step = "confirm" /\ reviewer.form.named
  /\ Emit([type |-> "confirmed", tier |-> EffectiveTier(Prefix(reviewer.seen)),
           since |-> ClockStart(Prefix(reviewer.seen)),
           sent |-> IF reviewer.letter = None THEN None ELSE IdOf(reviewer.letter),
           optin |-> reviewer.form.optin])
  /\ reviewer' = Idle
  /\ UNCHANGED <<store, job, posts, crashes, stubs, reviews>>

(* _actor refuses a form without a unit, when the event is built. *)
RefuseUnnamed ==
  /\ reviewer.step = "confirm" /\ ~ reviewer.form.named
  /\ reviewer' = Idle
  /\ UNCHANGED <<draftVars, stubs, reviews>>

-----------------------------------------------------------------------------
(* The appends of the handler and of a worker can refuse each other. *)
ReviewerRaises ==
  /\ reviewer.step \in {"override", "redraft", "confirm"}
  /\ \E w \in Worker : job[w] # Resting
  /\ reviewer' = Idle
  /\ UNCHANGED <<draftVars, stubs, reviews>>

WorkerRaises(w) ==
  /\ job[w].step \in {"assemble", "decide", "record"} /\ reviewer # Idle
  /\ job' = [job EXCEPT ![w] = Resting]
  /\ UNCHANGED <<journal, store, posts, crashes, reviewer, stubs, reviews>>

ReviewerDies ==
  /\ reviewer # Idle /\ crashes < MaxCrashes
  /\ crashes' = crashes + 1
  /\ reviewer' = Idle
  /\ UNCHANGED <<journal, store, job, posts, stubs, reviews>>

ReviewNext ==
  \/ DraftNext /\ UNCHANGED <<reviewer, stubs, reviews>>
  \/ StartOverride \/ StartEscalate \/ EmitOverride
  \/ StartConfirm \/ PrepareStored \/ RefuseBlock \/ Redraft \/ JournalRedraft
  \/ Handover \/ EmitConfirmed \/ RefuseUnnamed
  \/ ReviewerRaises \/ ReviewerDies \/ \E w \in Worker : WorkerRaises(w)

ReviewSpec == ReviewInit /\ [][ReviewNext]_vars

-----------------------------------------------------------------------------
(* "a second confirmation would be a rewrite", "a correction after           *)
(* confirmation is a new decision": no step of any handler appends either to *)
(* a confirmed case, although the check and the append are several steps.    *)
ConfirmedIsClosed ==
  [][Confirmed(journal) =>
       \A i \in DOMAIN journal' \ DOMAIN journal :
         journal'[i].type \notin {"confirmed", "overridden"}]_vars

(* What a CONFIRMED event says is so.  Its tier is the one a caseworker set, *)
(* if any did, whatever a run of the pipeline decides between the two clicks *)
(* or while the confirmation is being written (review_state); the letter it  *)
(* names can be opened, and its handover file exists ("the CONFIRMED payload *)
(* names which draft was actually dispatched").                              *)
AConfirmationIsTrue ==
  \A i \in At(journal, "confirmed") :
    LET before == TierMoves(Prefix(i - 1))
        sent == journal[i].sent
    IN  /\ before # {} => journal[i].tier = journal[Newest(before)].to
        /\ sent # None => sent \in stubs /\ \E n \in DOMAIN store : IdOf(store[n]) = sent

(* A letter with the par. 66 block is a second letter of a decision that     *)
(* owed a request: "both stay in the store", and however often the box is    *)
(* ticked, whatever copies racing workers left, it is one letter and one     *)
(* event (_redraft_with_rechtsfolgenhinweis).                                *)
TheBlockIsALetterOfItsOwn ==
  /\ \A n \in DOMAIN store : store[n].block =>
       /\ store[n].kind = "nachforderung" /\ journal[store[n].source].tier = 2
       /\ \E m \in 1 .. n - 1 : store[m].source = store[n].source /\ ~ store[m].block
  /\ \A i \in At(journal, "decided") :
       /\ Cardinality({n \in DOMAIN store : store[n].source = i /\ store[n].block}) <= 1
       /\ Cardinality({k \in At(journal, "drafted") :
                         journal[k].source = i /\ journal[k].block}) <= 1

(* "Opting in is per case and per caseworker" (actions.py:31): a letter with *)
(* the block goes out only on a form that ticked the box.                    *)
BlockIsOptIn ==
  \A i \in At(journal, "confirmed") :
    journal[i].sent # None /\ journal[i].sent.block => journal[i].optin
=============================================================================
