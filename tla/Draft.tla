------------------------------- MODULE Draft -------------------------------
(***************************************************************************)
(* The drafting worker (engine/draft/projection.py) over the journal of one *)
(* case and the draft store (engine/draft/store.py).  A worker is a request *)
(* thread of POST /ingest, which journals a run of the pipeline and then    *)
(* drafts with the extracted facts in hand, or the replay command line,     *)
(* which has none.  Appends are whole here and an event's id is its place   *)
(* in the journal; Journal says how appends number and refuse each other.   *)
(***************************************************************************)
EXTENDS Naturals, Sequences, FiniteSets, Functions

CONSTANTS
  Worker,
  Gaps,          \* what a check may find missing, of the three below
  MaxPosts,      \* bound on the times the submission is posted
  MaxCrashes     \* bound on the crashes

(* What a completeness check found missing: nothing, requirements that all   *)
(* have a request sentence, or one of them without.                         *)
ASSUME DraftAssumption ==
  /\ Gaps \subseteq {"complete", "worded", "wordless"}
  /\ MaxPosts \in Nat /\ MaxCrashes \in Nat

Tier == 1 .. 3
Kind == {"prepared_decision", "nachforderung"}

Received == [type : {"received"}]
EvidenceAssembled == [type : {"evidence"}, gaps : Gaps]
TierDecided == [type : {"decided"}, tier : Tier]
Drafted == [type : {"drafted"}, source : Nat, block : BOOLEAN]
DraftEvent == Received \cup EvidenceAssembled \cup TierDecided \cup Drafted

(* A stored letter: block is the par. 66 Abs. 3 notice. *)
Letter == [source : Nat, kind : Kind, gaps : Gaps, facts : BOOLEAN,
           block : BOOLEAN]

OwedDraft == [source : Nat, kind : Kind, gaps : Gaps]

VARIABLES
  journal,    \* the events of the case
  store,      \* the letters of the case, oldest first
  job,        \* per worker, the call it is inside of
  posts, crashes

draftVars == <<journal, store, job, posts, crashes>>

Resting == [step |-> "rest"]
Piping == [step : {"assemble", "decide", "fold"}]
Drafting == [step : {"pick"}, facts : BOOLEAN, todo : SUBSET OwedDraft]
Writing == [step : {"save", "record"}, facts : BOOLEAN, todo : SUBSET OwedDraft,
            letter : Letter]

DraftTypeOK ==
  /\ store \in Seq(Letter)
  /\ job \in [Worker -> {Resting} \cup Piping \cup Drafting \cup Writing]
  /\ posts \in 0 .. MaxPosts /\ crashes \in 0 .. MaxCrashes

TypeOK == journal \in Seq(DraftEvent) /\ DraftTypeOK

Init ==
  /\ journal = << >> /\ store = << >>
  /\ job = [w \in Worker |-> Resting]
  /\ posts = 0 /\ crashes = 0

-----------------------------------------------------------------------------
(* The folds read a list of events that may be older than the journal is.    *)
At(events, type) == {i \in DOMAIN events : events[i].type = type}

Newest(S) == CHOOSE i \in S : \A j \in S : j <= i

(* _fold: what the newest evidence of the case says is missing. *)
FoldedGaps(events) ==
  IF At(events, "evidence") = {} THEN "complete"
  ELSE events[Newest(At(events, "evidence"))].gaps

(* drafted_source_event_ids *)
DraftedSources(events) == {events[i].source : i \in At(events, "drafted")}

(* Mutant: an item for a human reader is drafted like a decision. *)
OwesTier3(tier, gaps, kind) ==
  \/ tier \in {1, 3} /\ kind = "prepared_decision"
  \/ tier = 2 /\ gaps # "complete" /\ kind = "nachforderung"

(* draft_kind_for: which letter a tier owes. *)
Owes(tier, gaps, kind) ==
  \/ tier = 1 /\ kind = "prepared_decision"
  \/ tier = 2 /\ gaps # "complete" /\ kind = "nachforderung"

(* owed_drafts, with and without what the journal says was drafted. *)
OwedAll(events) ==
  { o \in [source : At(events, "decided"), kind : Kind, gaps : {FoldedGaps(events)}] :
      At(events, "received") # {} /\ Owes(events[o.source].tier, o.gaps, o.kind) }

Owed(events) == {o \in OwedAll(events) : o.source \notin DraftedSources(events)}

(* Mutant: a replay drafts a decision with an empty fact list. *)
BlockedWordless(o, facts) == o.gaps = "wordless"

(* _render refuses: no facts to state, or a gap without its sentence. *)
Blocked(o, facts) ==
  \/ o.kind = "prepared_decision" /\ ~ facts
  \/ o.gaps = "wordless"

(* draft_id_for: the decision and the template, and nothing else. *)
SameId(l, m) == l.source = m.source /\ l.kind = m.kind /\ l.block = m.block

Stored(l) == \E n \in DOMAIN store : SameId(store[n], l)

(* _record_for *)
LetterOf(o, facts) ==
  [source |-> o.source, kind |-> o.kind, gaps |-> o.gaps, facts |-> facts,
   block |-> FALSE]

Emit(e) == journal' = Append(journal, e)

(* emit in a call: the event is appended and the call goes on to next, or     *)
(* another actor has taken its number and the refusal raises out of the call. *)
EmitOrRaise(w, e, next) ==
  \/ Emit(e) /\ job' = [job EXCEPT ![w] = next]
  \/ /\ \E v \in Worker \ {w} : job[v] # Resting
     /\ journal' = journal
     /\ job' = [job EXCEPT ![w] = Resting]

(* The next item of the list, or the end of the call. *)
Continue(facts, todo) ==
  IF todo = {} THEN Resting ELSE [step |-> "pick", facts |-> facts, todo |-> todo]

-----------------------------------------------------------------------------
(* run_pipeline, as far as a letter depends on it. *)
Post(w) ==
  /\ job[w] = Resting /\ posts < MaxPosts
  /\ posts' = posts + 1
  /\ Emit([type |-> "received"])
  /\ job' = [job EXCEPT ![w] = [step |-> "assemble"]]
  /\ UNCHANGED <<store, crashes>>

Assemble(w) ==
  /\ job[w].step = "assemble"
  /\ \E g \in Gaps :
       EmitOrRaise(w, [type |-> "evidence", gaps |-> g], [step |-> "decide"])
  /\ UNCHANGED <<store, posts, crashes>>

Decide(w) ==
  /\ job[w].step = "decide"
  /\ \E t \in Tier : EmitOrRaise(w, [type |-> "decided", tier |-> t], [step |-> "fold"])
  /\ UNCHANGED <<store, posts, crashes>>

(* draft_case of the request, over the journal as it is read now; a run that *)
(* extracted nothing has no facts either.                                    *)
FoldInline(w) ==
  /\ job[w].step = "fold"
  /\ \E facts \in BOOLEAN : job' = [job EXCEPT ![w] = Continue(facts, Owed(journal))]
  /\ UNCHANGED <<journal, store, posts, crashes>>

(* engine.draft.replay: the same fold, without the facts. *)
StartReplay(w) ==
  /\ job[w] = Resting /\ Owed(journal) # {}
  /\ job' = [job EXCEPT ![w] = Continue(FALSE, Owed(journal))]
  /\ UNCHANGED <<journal, store, posts, crashes>>

First(w, o) == o \in job[w].todo /\ \A p \in job[w].todo : o.source <= p.source

Block(w) ==
  /\ job[w].step = "pick"
  /\ \E o \in job[w].todo :
       /\ First(w, o) /\ Blocked(o, job[w].facts)
       /\ job' = [job EXCEPT ![w] = Continue(@.facts, @.todo \ {o})]
  /\ UNCHANGED <<journal, store, posts, crashes>>

(* Mutant: the two answers of `save` are mixed up. *)
CheckStoreInverted(w) ==
  /\ job[w].step = "pick"
  /\ \E o \in job[w].todo :
       LET letter == LetterOf(o, job[w].facts) IN
       /\ First(w, o) /\ ~ Blocked(o, job[w].facts)
       /\ job' = [job EXCEPT ![w] =
            [step |-> IF Stored(letter) THEN "save" ELSE "record",
             facts |-> @.facts, todo |-> @.todo \ {o}, letter |-> letter]]
  /\ UNCHANGED <<journal, store, posts, crashes>>

(* Mutant: a letter that is already stored is skipped, not journaled. *)
CheckStoreDrop(w) ==
  /\ job[w].step = "pick"
  /\ \E o \in job[w].todo :
       LET letter == LetterOf(o, job[w].facts) IN
       /\ First(w, o) /\ ~ Blocked(o, job[w].facts)
       /\ job' = [job EXCEPT ![w] =
            IF Stored(letter) THEN Continue(@.facts, @.todo \ {o})
            ELSE [step |-> "save", facts |-> @.facts, todo |-> @.todo \ {o},
                  letter |-> letter]]
  /\ UNCHANGED <<journal, store, posts, crashes>>

(* Render the letter and ask the store for its id: DraftStore.save's check. *)
CheckStore(w) ==
  /\ job[w].step = "pick"
  /\ \E o \in job[w].todo :
       LET letter == LetterOf(o, job[w].facts) IN
       /\ First(w, o) /\ ~ Blocked(o, job[w].facts)
       /\ job' = [job EXCEPT ![w] =
            [step |-> IF Stored(letter) THEN "record" ELSE "save",
             facts |-> @.facts, todo |-> @.todo \ {o}, letter |-> letter]]
  /\ UNCHANGED <<journal, store, posts, crashes>>

(* DraftStore.save's append. *)
Save(w) ==
  /\ job[w].step = "save"
  /\ store' = Append(store, job[w].letter)
  /\ job' = [job EXCEPT ![w].step = "record"]
  /\ UNCHANGED <<journal, posts, crashes>>

(* emit DRAFTED, whether the letter is new or a dead run left it. *)
Record(w) ==
  /\ job[w].step = "record"
  /\ EmitOrRaise(w, [type |-> "drafted", source |-> job[w].letter.source,
                     block |-> job[w].letter.block],
                 Continue(job[w].facts, job[w].todo))
  /\ UNCHANGED <<store, posts, crashes>>

Crash(w) ==
  /\ job[w] # Resting /\ crashes < MaxCrashes
  /\ crashes' = crashes + 1
  /\ job' = [job EXCEPT ![w] = Resting]
  /\ UNCHANGED <<journal, store, posts>>

Work(w) ==
  \/ Assemble(w) \/ Decide(w) \/ FoldInline(w) \/ StartReplay(w)
  \/ Block(w) \/ CheckStore(w) \/ Save(w) \/ Record(w)

DraftNext == \E w \in Worker : Post(w) \/ Work(w) \/ Crash(w)

Spec == Init /\ [][DraftNext]_draftVars

(* Calls run to their end, and the replay is started while a draft is owed.  *)
FairSpec == Spec /\ \A w \in Worker : WF_draftVars(Work(w))

-----------------------------------------------------------------------------
(* "A DRAFTED event for a draft nobody can open is a claim the audit trail   *)
(* cannot support" (projection.py:18): save first, journal second, whoever   *)
(* crashed or raced in between.                                              *)
DraftedWasSaved ==
  \A i \in At(journal, "drafted") :
    \E n \in DOMAIN store :
      store[n].source = journal[i].source /\ store[n].block = journal[i].block

(* Tier 3 owes nothing, tier 1 a decision that states the extracted values,  *)
(* tier 2 a request for every gap - also when the letter is written by a     *)
(* later run, over evidence a second post has replaced (draft_kind_for,      *)
(* _render: "never a partial letter").                                       *)
LetterFitsItsDecision ==
  \A n \in DOMAIN store :
    LET l == store[n] IN
    /\ l.source \in At(journal, "decided")
    /\ l.gaps # "wordless"
    /\ l.kind = "prepared_decision" => journal[l.source].tier = 1 /\ l.facts
    /\ l.kind = "nachforderung" => journal[l.source].tier = 2 /\ l.gaps = "worded"

(* "A saved draft with no event is re-derived on the next run, saved again   *)
(* and journaled" (projection.py:20): what a replay can render is recorded   *)
(* in the end.                                                               *)
EveryOwedIsRecorded == []<>(\A o \in Owed(journal) : Blocked(o, FALSE))

(* One worker on its own keeps the promise of Dispatch. *)
D == INSTANCE Dispatch WITH
       owed <- {i \in At(journal, "decided") : journal[i].tier # 3},
       sent <- [n \in DOMAIN store |-> store[n].source],
       recorded <- DraftedSources(journal)

ImplementsDispatch == D!Spec
=============================================================================
