---------------------------- MODULE ReviewProofs ----------------------------
(***************************************************************************)
(* Proofs about the drafting worker, for any number of workers, posts and  *)
(* crashes, and about the caseworker's actions between its steps, for any  *)
(* number of forms as well.  The second part uses the lemmas of the first  *)
(* over the events of Review.                                              *)
(***************************************************************************)
EXTENDS Review, ListFacts, TLAPS

-----------------------------------------------------------------------------
(* The drafting worker. *)

(* What is not there yet has no newest element; what is there has one.       *)
LEMMA NewestExists ==
  ASSUME NEW n \in Nat, NEW S, S \subseteq 1..n, S # {}
  PROVE  Newest(S) \in S
  BY GreatestPlace DEF Newest

-----------------------------------------------------------------------------
(* The invariant is stated over a journal and a store, so that what holds of *)
(* the ones before a step can be carried to the ones after it.               *)

(* An item still to be drafted is a decision of the case that owes it. *)
OwedIn(events, o) ==
  /\ o.source \in At(events, "decided")
  /\ Owes(events[o.source].tier, o.gaps, o.kind)

(* A letter with the block is written without the check for words. *)
Fits(events, l) ==
  /\ l.source \in At(events, "decided")
  /\ l.gaps = "wordless" => l.block
  /\ l.kind = "prepared_decision" => events[l.source].tier = 1 /\ l.facts
  /\ l.kind = "nachforderung" => events[l.source].tier = 2 /\ l.gaps # "complete"

SavedIn(letters, e) ==
  \E n \in DOMAIN letters : letters[n].source = e.source /\ letters[n].block = e.block

JobType == {Resting} \cup Piping \cup Drafting \cup Writing

(* What a call has in hand.  A run that decides has journaled its evidence;  *)
(* a list of owed items may be old, but the journal only grows under it; a   *)
(* letter is checked for its words before it is written, and stored before   *)
(* it is recorded.                                                           *)
JobOK(events, letters, v) ==
  /\ v.step = "decide" => At(events, "evidence") # {}
  /\ v.step \in {"pick", "save", "record"} => \A o \in v.todo : OwedIn(events, o)
  /\ v.step \in {"save", "record"} => Fits(events, v.letter) /\ ~ v.letter.block
  /\ v.step = "record" => SavedIn(letters, v.letter)

EvidenceFirst(events) == At(events, "decided") # {} => At(events, "evidence") # {}
EveryRecordSaved(events, letters) ==
  \A i \in At(events, "drafted") : SavedIn(letters, events[i])
EveryLetterFits(events, letters) == \A n \in DOMAIN letters : Fits(events, letters[n])

(* The invariant over the events E that the journal may hold: those of Draft, *)
(* and perhaps others that no call here writes.                             *)
EventSet(E) ==
  /\ DraftEvent \subseteq E
  /\ \A e \in E : e.type \in {"received", "evidence", "decided", "drafted"} => e \in DraftEvent

DraftInv(E) ==
  /\ journal \in Seq(E) /\ DraftTypeOK
  /\ \A w \in Worker : JobOK(journal, store, job[w])
  /\ EvidenceFirst(journal)
  /\ EveryRecordSaved(journal, store)
  /\ EveryLetterFits(journal, store)

LEMMA InitInv ==
  ASSUME NEW E, Init
  PROVE  DraftInv(E)
<1>1. journal \in Seq(E) /\ store \in Seq(Letter)
  BY DEF Init
<1>2. DraftTypeOK
  BY <1>1, DraftAssumption DEF Init, DraftTypeOK
<1>3. \A w \in Worker : JobOK(journal, store, job[w])
  BY DEF Init, JobOK, Resting
<1>4. DOMAIN journal = {} /\ DOMAIN store = {}
  BY DEF Init
<1>5. EvidenceFirst(journal) /\ EveryRecordSaved(journal, store)
      /\ EveryLetterFits(journal, store)
  BY <1>4 DEF EvidenceFirst, EveryRecordSaved, EveryLetterFits, At
<1>6. QED
  BY <1>1, <1>2, <1>3, <1>5 DEF DraftInv

-----------------------------------------------------------------------------
(* No step takes anything from the journal or the store. *)
Extends(s, t) == \A i \in DOMAIN s : i \in DOMAIN t /\ t[i] = s[i]

LEMMA AtGrows ==
  ASSUME NEW s, NEW t, Extends(s, t), NEW type
  PROVE  At(s, type) \subseteq At(t, type)
  BY DEF Extends, At

LEMMA FitsOn ==
  ASSUME NEW s, NEW t, Extends(s, t)
  PROVE  /\ \A o : OwedIn(s, o) => OwedIn(t, o)
         /\ \A l : Fits(s, l) => Fits(t, l)
<1>1. \A i \in At(s, "decided") : i \in At(t, "decided") /\ t[i] = s[i]
  BY AtGrows DEF Extends, At
<1>2. ASSUME NEW o, OwedIn(s, o) PROVE OwedIn(t, o)
  BY <1>1, <1>2 DEF OwedIn, Owes
<1>3. ASSUME NEW l, Fits(s, l) PROVE Fits(t, l)
  BY <1>1, <1>3 DEF Fits
<1>4. QED
  BY <1>2, <1>3

LEMMA HoldsOn ==
  ASSUME NEW s, NEW t, Extends(s, t), NEW p, NEW q, Extends(p, q), NEW v, JobOK(s, p, v)
  PROVE  JobOK(t, q, v)
<1>1. At(s, "evidence") # {} => At(t, "evidence") # {}
  BY AtGrows
<1>2. \A e : SavedIn(p, e) => SavedIn(q, e)
  BY DEF Extends, SavedIn
<1>3. QED
  BY <1>1, <1>2, FitsOn DEF JobOK

(* A step that extends the journal and the store and gives one worker a new  *)
(* job: what is left to show is about that job and what was appended.        *)
LEMMA OneWorker ==
  ASSUME NEW E, EventSet(E), DraftInv(E), Extends(journal, journal'), Extends(store, store'),
         NEW w \in Worker, NEW v \in JobType, JobOK(journal', store', v),
         job' = [job EXCEPT ![w] = v]
  PROVE  /\ job' \in [Worker -> JobType]
         /\ \A u \in Worker : JobOK(journal', store', job'[u])
<1>1. job \in [Worker -> JobType]
  BY DEF DraftInv, DraftTypeOK, JobType
<1>2. \A u \in Worker : job'[u] = IF u = w THEN v ELSE job[u]
  BY <1>1
<1>3. \A u \in Worker : JobOK(journal', store', job[u])
  BY HoldsOn DEF DraftInv
<1>4. QED
  BY <1>1, <1>2, <1>3

LEMMA Appending ==
  ASSUME NEW S, NEW s \in Seq(S), NEW e \in S
  PROVE  /\ Append(s, e) \in Seq(S) /\ Extends(s, Append(s, e))
         /\ \A i \in DOMAIN Append(s, e) :
              (i \in DOMAIN s /\ Append(s, e)[i] = s[i]) \/ Append(s, e)[i] = e
<1>1. DOMAIN s = 1..Len(s) /\ DOMAIN Append(s, e) = 1..(Len(s) + 1)
  BY AppendedElements
<1>2. QED
  BY <1>1, AppendedElements DEF Extends

(* A step that leaves the store alone and appends e to the journal, or       *)
(* nothing.                                                                  *)
LEMMA JournalAppends ==
  ASSUME NEW E, EventSet(E), DraftInv(E), NEW e \in E, journal' = Append(journal, e), store' = store,
         e.type = "decided" => At(journal, "evidence") # {},
         e.type = "drafted" => SavedIn(store, e)
  PROVE  /\ journal' \in Seq(E)
         /\ Extends(journal, journal') /\ Extends(store, store')
         /\ EvidenceFirst(journal') /\ EveryRecordSaved(journal', store')
         /\ EveryLetterFits(journal', store')
<1>1. journal \in Seq(E) /\ e \in E
  BY DEF DraftInv
<1>2. /\ journal' \in Seq(E) /\ Extends(journal, journal')
      /\ \A i \in DOMAIN journal' :
           (i \in DOMAIN journal /\ journal'[i] = journal[i]) \/ journal'[i] = e
  BY <1>1, Appending
<1>3. Extends(store, store')
  BY DEF Extends
<1>4. EvidenceFirst(journal')
  <2>1. ASSUME At(journal', "decided") # {} PROVE At(journal, "evidence") # {}
    BY <1>2, <2>1 DEF At, DraftInv, EvidenceFirst
  <2>2. QED
    BY <1>2, <2>1, AtGrows DEF EvidenceFirst
<1>5. EveryRecordSaved(journal', store')
  BY <1>2 DEF At, DraftInv, EveryRecordSaved
<1>6. EveryLetterFits(journal', store')
  BY <1>2, FitsOn DEF DraftInv, EveryLetterFits
<1>7. QED
  BY <1>2, <1>3, <1>4, <1>5, <1>6

LEMMA NothingWritten ==
  ASSUME NEW E, EventSet(E), DraftInv(E), journal' = journal, store' = store
  PROVE  /\ journal' \in Seq(E)
         /\ Extends(journal, journal') /\ Extends(store, store')
         /\ EvidenceFirst(journal') /\ EveryRecordSaved(journal', store')
         /\ EveryLetterFits(journal', store')
  BY DEF DraftInv, Extends

LEMMA SameStore ==
  ASSUME NEW E, EventSet(E), DraftInv(E), store' = store
  PROVE  store' \in Seq(Letter)
  BY DEF DraftInv, DraftTypeOK

(* The parts of the invariant that come after a step. *)
LEMMA Together ==
  ASSUME NEW E, journal' \in Seq(E), store' \in Seq(Letter),
         posts' \in 0 .. MaxPosts, crashes' \in 0 .. MaxCrashes,
         job' \in [Worker -> JobType],
         \A u \in Worker : JobOK(journal', store', job'[u]),
         EvidenceFirst(journal'), EveryRecordSaved(journal', store'),
         EveryLetterFits(journal', store')
  PROVE  DraftInv(E)'
<1>1. DraftTypeOK'
  BY DEF DraftTypeOK, JobType
<1>2. QED
  BY <1>1 DEF DraftInv

(* The fold names decisions of the case, and finds the evidence they were    *)
(* made of.                                                                  *)
LEMMA OwedTyped ==
  ASSUME NEW E, EventSet(E), DraftInv(E)
  PROVE  Owed(journal) \subseteq OwedDraft /\ \A o \in Owed(journal) : OwedIn(journal, o)
<1>1. journal \in Seq(E) /\ DOMAIN journal = 1..Len(journal) /\ Len(journal) \in Nat
  BY DEF DraftInv
<1> SUFFICES ASSUME NEW o \in Owed(journal) PROVE o \in OwedDraft /\ OwedIn(journal, o)
  OBVIOUS
<1>2. o \in [source : At(journal, "decided"), kind : Kind, gaps : {FoldedGaps(journal)}]
      /\ Owes(journal[o.source].tier, o.gaps, o.kind)
  BY DEF Owed, OwedAll
<1>3. OwedIn(journal, o)
  BY <1>2 DEF OwedIn
<1>4. At(journal, "evidence") # {} /\ At(journal, "evidence") \subseteq 1..Len(journal)
  BY <1>1, <1>2 DEF DraftInv, EvidenceFirst, At
<1>5. Newest(At(journal, "evidence")) \in At(journal, "evidence")
  BY <1>1, <1>4, NewestExists
<1>6. FoldedGaps(journal) \in Gaps
  <2>1. FoldedGaps(journal) = journal[Newest(At(journal, "evidence"))].gaps
    BY <1>4 DEF FoldedGaps
  <2>2. ASSUME NEW i \in At(journal, "evidence") PROVE journal[i].gaps \in Gaps
    <3>1. journal[i] \in DraftEvent /\ journal[i].type = "evidence"
      BY <1>1 DEF At, EventSet
    <3>2. QED
      BY <3>1 DEF DraftEvent, Received, EvidenceAssembled, TierDecided, Drafted
  <2>3. QED
    BY <1>5, <2>1, <2>2
<1>7. o.source \in Nat
  BY <1>1, <1>2 DEF At
<1>8. QED
  BY <1>2, <1>3, <1>6, <1>7 DEF OwedDraft

LEMMA ContinueOK ==
  ASSUME NEW s, NEW p, NEW facts \in BOOLEAN, NEW todo \in SUBSET OwedDraft,
         \A o \in todo : OwedIn(s, o)
  PROVE  Continue(facts, todo) \in JobType /\ JobOK(s, p, Continue(facts, todo))
<1>1. CASE todo = {}
  BY <1>1 DEF Continue, JobType, JobOK, Resting
<1>2. CASE todo # {}
  BY <1>2 DEF Continue, JobType, JobOK, Drafting
<1>3. QED
  BY <1>1, <1>2

LEMMA RestingOK ==
  ASSUME NEW s, NEW p
  PROVE  Resting \in JobType /\ JobOK(s, p, Resting)
  BY DEF JobType, JobOK, Resting

(* What the type of a job says of a call that drafts. *)
LEMMA Carrying ==
  ASSUME NEW E, EventSet(E), DraftInv(E), NEW w \in Worker
  PROVE  /\ JobOK(journal, store, job[w]) /\ job[w] \in JobType
         /\ job[w].step = "pick" => job[w] \in Drafting
         /\ job[w].step \in {"save", "record"} => job[w] \in Writing
  BY DEF DraftInv, DraftTypeOK, JobType, Resting, Piping, Drafting, Writing

LEMMA SameCounters ==
  ASSUME NEW E, EventSet(E), DraftInv(E), posts' = posts, crashes' = crashes
  PROVE  posts' \in 0 .. MaxPosts /\ crashes' \in 0 .. MaxCrashes
  BY DEF DraftInv, DraftTypeOK

(* A worker's own move, with nothing written. *)
LEMMA MoveOn ==
  ASSUME NEW E, EventSet(E), DraftInv(E), journal' = journal, store' = store,
         posts' \in 0 .. MaxPosts, crashes' \in 0 .. MaxCrashes,
         NEW w \in Worker, NEW v \in JobType, JobOK(journal, store, v),
         job' = [job EXCEPT ![w] = v]
  PROVE  DraftInv(E)'
<1>1. JobOK(journal', store', v)
  OBVIOUS
<1>2. QED
  BY <1>1, NothingWritten, SameStore, OneWorker, Together

(* An event that is refused leaves the case as it is. *)
LEMMA Refused ==
  ASSUME NEW E, EventSet(E), DraftInv(E), NEW w \in Worker,
         UNCHANGED <<journal, store, posts, crashes>>, job' = [job EXCEPT ![w] = Resting]
  PROVE  DraftInv(E)'
  BY RestingOK, SameCounters, MoveOn

-----------------------------------------------------------------------------
(* Each action of a worker, in turn. *)
LEMMA PostStep ==
  ASSUME NEW E, EventSet(E), DraftInv(E), NEW w \in Worker, Post(w)
  PROVE  DraftInv(E)'
<1> DEFINE e == [type |-> "received"]
           v == [step |-> "assemble"]
<1>1. e \in E /\ e.type # "decided" /\ e.type # "drafted"
  BY DEF EventSet, DraftEvent, Received
<1>2. /\ journal' = Append(journal, e) /\ store' = store /\ crashes' = crashes
      /\ posts' = posts + 1 /\ posts < MaxPosts
      /\ job' = [job EXCEPT ![w] = v]
  BY DEF Post, Emit
<1>3. v \in JobType /\ JobOK(journal', store', v)
  BY DEF JobType, Piping, JobOK
<1>4. posts' \in 0 .. MaxPosts /\ crashes' \in 0 .. MaxCrashes
  BY <1>2, DraftAssumption DEF DraftInv, DraftTypeOK
<1> HIDE DEF e, v
<1>5. QED
  BY <1>1, <1>2, <1>3, <1>4, JournalAppends, SameStore, OneWorker, Together

LEMMA AssembleStep ==
  ASSUME NEW E, EventSet(E), DraftInv(E), NEW w \in Worker, Assemble(w)
  PROVE  DraftInv(E)'
<1> DEFINE v == [step |-> "decide"]
<1>1. store' = store /\ posts' = posts /\ crashes' = crashes
  BY DEF Assemble
<1> SUFFICES ASSUME NEW g \in Gaps,
                    journal' = Append(journal, [type |-> "evidence", gaps |-> g]),
                    job' = [job EXCEPT ![w] = v]
             PROVE  DraftInv(E)'
  BY <1>1, Refused DEF Assemble, EmitOrRaise, Emit
<1> DEFINE e == [type |-> "evidence", gaps |-> g]
<1>3. e \in E /\ e.type = "evidence" /\ journal' = Append(journal, e)
  BY DEF EventSet, DraftEvent, EvidenceAssembled
<1>4. At(journal', "evidence") # {}
  <2>1. journal \in Seq(E)
    BY DEF DraftInv
  <2>2. Len(journal) + 1 \in DOMAIN journal' /\ journal'[Len(journal) + 1] = e
    BY <1>3, <2>1, AppendedElements
  <2>3. QED
    BY <1>3, <2>2 DEF At
<1>5. v \in JobType /\ JobOK(journal', store', v)
  BY <1>4 DEF JobType, Piping, JobOK
<1> HIDE DEF e, v
<1>6. QED
  BY <1>1, <1>3, <1>5, JournalAppends, SameStore, SameCounters, OneWorker, Together

LEMMA DecideStep ==
  ASSUME NEW E, EventSet(E), DraftInv(E), NEW w \in Worker, Decide(w)
  PROVE  DraftInv(E)'
<1> DEFINE v == [step |-> "fold"]
<1>1. /\ store' = store /\ posts' = posts /\ crashes' = crashes
      /\ job[w].step = "decide"
  BY DEF Decide
<1> SUFFICES ASSUME NEW t \in Tier,
                    journal' = Append(journal, [type |-> "decided", tier |-> t]),
                    job' = [job EXCEPT ![w] = v]
             PROVE  DraftInv(E)'
  BY <1>1, Refused DEF Decide, EmitOrRaise, Emit
<1> DEFINE e == [type |-> "decided", tier |-> t]
<1>3. e \in E /\ e.type # "drafted" /\ journal' = Append(journal, e)
  BY DEF EventSet, DraftEvent, TierDecided
<1>4. At(journal, "evidence") # {}
  BY <1>1, Carrying DEF JobOK
<1>5. v \in JobType /\ JobOK(journal', store', v)
  BY DEF JobType, Piping, JobOK
<1> HIDE DEF e, v
<1>6. QED
  BY <1>1, <1>3, <1>4, <1>5, JournalAppends, SameStore, SameCounters, OneWorker, Together

LEMMA FoldStep ==
  ASSUME NEW E, EventSet(E), DraftInv(E), NEW w \in Worker, FoldInline(w) \/ StartReplay(w)
  PROVE  DraftInv(E)'
<1>1. PICK facts \in BOOLEAN : job' = [job EXCEPT ![w] = Continue(facts, Owed(journal))]
  BY DEF FoldInline, StartReplay
<1>2. journal' = journal /\ store' = store /\ posts' = posts /\ crashes' = crashes
  BY DEF FoldInline, StartReplay
<1>3. QED
  BY <1>1, <1>2, OwedTyped, ContinueOK, SameCounters, MoveOn

LEMMA BlockStep ==
  ASSUME NEW E, EventSet(E), DraftInv(E), NEW w \in Worker, Block(w)
  PROVE  DraftInv(E)'
<1>1. PICK o \in job[w].todo :
        job' = [job EXCEPT ![w] = Continue(job[w].facts, job[w].todo \ {o})]
  BY DEF Block
<1>2. /\ journal' = journal /\ store' = store /\ posts' = posts /\ crashes' = crashes
      /\ job[w].step = "pick"
  BY DEF Block
<1>3. /\ job[w].facts \in BOOLEAN /\ job[w].todo \ {o} \in SUBSET OwedDraft
      /\ \A p \in job[w].todo : OwedIn(journal, p)
  BY <1>2, Carrying DEF Drafting, JobOK
<1>4. QED
  BY <1>1, <1>2, <1>3, ContinueOK, SameCounters, MoveOn

LEMMA CheckStoreStep ==
  ASSUME NEW E, EventSet(E), DraftInv(E), NEW w \in Worker, CheckStore(w)
  PROVE  DraftInv(E)'
<1> DEFINE facts == job[w].facts
           letter(o) == LetterOf(o, facts)
           v(o) == [step |-> IF Stored(letter(o)) THEN "record" ELSE "save",
                    facts |-> facts, todo |-> job[w].todo \ {o}, letter |-> letter(o)]
<1>1. PICK o \in job[w].todo :
        ~ Blocked(o, facts) /\ job' = [job EXCEPT ![w] = v(o)]
  BY DEF CheckStore
<1>2. /\ journal' = journal /\ store' = store /\ posts' = posts /\ crashes' = crashes
      /\ job[w].step = "pick"
  BY DEF CheckStore
<1>3. /\ facts \in BOOLEAN /\ job[w].todo \subseteq OwedDraft
      /\ \A p \in job[w].todo : OwedIn(journal, p)
  BY <1>2, Carrying DEF Drafting, JobOK
<1>4. letter(o) \in Letter
  BY <1>3 DEF LetterOf, Letter, OwedDraft
<1>5. Fits(journal, letter(o)) /\ ~ letter(o).block
  <2>1. o \in OwedDraft /\ OwedIn(journal, o)
    BY <1>3
  <2>2. o.gaps \in {"complete", "worded", "wordless"} /\ o.gaps # "wordless"
    BY <1>1, <2>1, DraftAssumption DEF Blocked, OwedDraft
  <2>3. QED
    BY <1>1, <2>1, <2>2 DEF Fits, OwedIn, Owes, Blocked, LetterOf
<1>6. Stored(letter(o)) => SavedIn(store, letter(o))
  BY DEF Stored, SameId, SavedIn
<1>7. v(o) \in Writing
  BY <1>3, <1>4 DEF Writing
<1>8. JobOK(journal, store, v(o))
  BY <1>3, <1>5, <1>6 DEF JobOK
<1> HIDE DEF v
<1>9. QED
  BY <1>1, <1>2, <1>7, <1>8, SameCounters, MoveOn DEF JobType

LEMMA SaveStep ==
  ASSUME NEW E, EventSet(E), DraftInv(E), NEW w \in Worker, Save(w)
  PROVE  DraftInv(E)'
<1> DEFINE l == job[w].letter
           v == [job[w] EXCEPT !.step = "record"]
<1>1. /\ store' = Append(store, l) /\ job[w].step = "save"
      /\ journal' = journal /\ posts' = posts /\ crashes' = crashes
      /\ job' = [job EXCEPT ![w] = v]
  BY DEF Save
<1>2. job[w] \in Writing /\ JobOK(journal, store, job[w])
  BY <1>1, Carrying
<1>3. /\ l \in Letter /\ Fits(journal, l) /\ ~ l.block
      /\ \A o \in job[w].todo : OwedIn(journal, o)
  BY <1>1, <1>2 DEF Writing, JobOK
<1>4. store \in Seq(Letter)
  BY DEF DraftInv, DraftTypeOK
<1>5. /\ store' \in Seq(Letter) /\ Extends(store, store')
      /\ \A n \in DOMAIN store' :
           (n \in DOMAIN store /\ store'[n] = store[n]) \/ store'[n] = l
  BY <1>1, <1>3, <1>4, Appending
<1>6. SavedIn(store', l)
  <2>1. Len(store) + 1 \in DOMAIN store' /\ store'[Len(store) + 1] = l
    BY <1>1, <1>3, <1>4, AppendedElements
  <2>2. QED
    BY <2>1 DEF SavedIn
<1>7. /\ v \in Writing /\ v.step = "record" /\ v.letter = l /\ v.todo = job[w].todo
  BY <1>2 DEF Writing
<1>8. v \in JobType /\ JobOK(journal', store', v)
  BY <1>1, <1>3, <1>6, <1>7 DEF JobType, JobOK
<1>9. Extends(journal, journal') /\ journal' \in Seq(E) /\ EvidenceFirst(journal')
  BY <1>1 DEF Extends, DraftInv
<1>10. EveryRecordSaved(journal', store')
  <2>1. \A r : SavedIn(store, r) => SavedIn(store', r)
    BY <1>5 DEF SavedIn, Extends
  <2>2. EveryRecordSaved(journal, store)
    BY DEF DraftInv
  <2>3. QED
    BY <1>1, <2>1, <2>2 DEF EveryRecordSaved
<1>11. EveryLetterFits(journal', store')
  BY <1>1, <1>3, <1>5 DEF EveryLetterFits, DraftInv
<1> HIDE DEF v
<1>12. QED
  BY <1>1, <1>5, <1>8, <1>9, <1>10, <1>11, SameCounters, OneWorker, Together

LEMMA RecordStep ==
  ASSUME NEW E, EventSet(E), DraftInv(E), NEW w \in Worker, Record(w)
  PROVE  DraftInv(E)'
<1> DEFINE l == job[w].letter
           e == [type |-> "drafted", source |-> l.source, block |-> l.block]
           v == Continue(job[w].facts, job[w].todo)
<1>0. /\ store' = store /\ posts' = posts /\ crashes' = crashes
      /\ job[w].step = "record"
  BY DEF Record
<1> SUFFICES ASSUME journal' = Append(journal, e), job' = [job EXCEPT ![w] = v]
             PROVE  DraftInv(E)'
  BY <1>0, Refused DEF Record, EmitOrRaise, Emit
<1>1. /\ journal' = Append(journal, e) /\ store' = store
      /\ posts' = posts /\ crashes' = crashes /\ job[w].step = "record"
      /\ job' = [job EXCEPT ![w] = v]
  BY <1>0
<1>2. job[w] \in Writing /\ JobOK(journal, store, job[w])
  BY <1>1, Carrying
<1>3. /\ l \in Letter /\ job[w].facts \in BOOLEAN /\ job[w].todo \in SUBSET OwedDraft
      /\ SavedIn(store, l) /\ \A o \in job[w].todo : OwedIn(journal, o)
  BY <1>1, <1>2 DEF Writing, JobOK
<1>4. e \in E /\ e.type # "decided"
  BY <1>3 DEF EventSet, DraftEvent, Drafted, Letter
<1>5. SavedIn(store, e)
  BY <1>3 DEF SavedIn
<1> HIDE DEF e
<1>6. /\ journal' \in Seq(E)
      /\ Extends(journal, journal') /\ Extends(store, store')
      /\ EvidenceFirst(journal') /\ EveryRecordSaved(journal', store')
      /\ EveryLetterFits(journal', store')
  BY <1>1, <1>4, <1>5, JournalAppends
<1>7. \A o \in job[w].todo : OwedIn(journal', o)
  BY <1>3, <1>6, FitsOn
<1>8. v \in JobType /\ JobOK(journal', store', v)
  BY <1>3, <1>7, ContinueOK
<1> HIDE DEF v
<1>9. QED
  BY <1>1, <1>6, <1>8, SameStore, SameCounters, OneWorker, Together

LEMMA CrashStep ==
  ASSUME NEW E, EventSet(E), DraftInv(E), NEW w \in Worker, Crash(w)
  PROVE  DraftInv(E)'
<1>1. journal' = journal /\ store' = store /\ job' = [job EXCEPT ![w] = Resting]
  BY DEF Crash
<1>2. posts' \in 0 .. MaxPosts /\ crashes' \in 0 .. MaxCrashes
  BY DraftAssumption DEF Crash, DraftInv, DraftTypeOK
<1>3. QED
  BY <1>1, <1>2, RestingOK, MoveOn

(* Whatever a worker does, in whatever module it runs. *)
LEMMA WorkerStep ==
  ASSUME NEW E, EventSet(E), DraftInv(E), DraftNext
  PROVE  DraftInv(E)'
<1>1. ASSUME NEW w \in Worker, Post(w) \/ Work(w) \/ Crash(w) PROVE DraftInv(E)'
  BY <1>1, PostStep, AssembleStep, DecideStep, FoldStep, BlockStep, CheckStoreStep,
     SaveStep, RecordStep, CrashStep DEF Work
<1>2. QED
  BY <1>1 DEF DraftNext

-----------------------------------------------------------------------------
(* The worker's own specification, in which nobody adds the block. *)
NoBlock(letters) == \A n \in DOMAIN letters : ~ letters[n].block

PlainInv == DraftInv(DraftEvent) /\ NoBlock(store)

LEMMA InitPlain == Init => PlainInv
<1> SUFFICES ASSUME Init PROVE PlainInv
  OBVIOUS
<1>1. DraftInv(DraftEvent)
  BY InitInv
<1>2. NoBlock(store)
  BY DEF Init, NoBlock
<1>3. QED
  BY <1>1, <1>2 DEF PlainInv

LEMMA NoBlockStep ==
  ASSUME DraftInv(DraftEvent), NoBlock(store), DraftNext
  PROVE  NoBlock(store')
<1>1. PICK w \in Worker : Post(w) \/ Work(w) \/ Crash(w)
  BY DEF DraftNext
<1>2. store' = store \/ (job[w].step = "save" /\ store' = Append(store, job[w].letter))
  BY <1>1 DEF Work, Post, Assemble, Decide, FoldInline, StartReplay, Block, CheckStore,
     Save, Record, Crash
<1>3. CASE store' = store
  BY <1>3
<1>4. CASE job[w].step = "save" /\ store' = Append(store, job[w].letter)
  <2>1. EventSet(DraftEvent)
    BY DEF EventSet
  <2>2. ~ job[w].letter.block /\ job[w].letter \in Letter
    BY <1>4, <2>1, Carrying DEF JobOK, Writing
  <2>3. store \in Seq(Letter)
    BY DEF DraftInv, DraftTypeOK
  <2>4. QED
    BY <1>4, <2>2, <2>3, Appending DEF NoBlock
<1>5. QED
  BY <1>2, <1>3, <1>4

LEMMA NextStep == PlainInv /\ [DraftNext]_draftVars => PlainInv'
<1> SUFFICES ASSUME PlainInv, [DraftNext]_draftVars PROVE PlainInv'
  OBVIOUS
<1>1. EventSet(DraftEvent)
  BY DEF EventSet
<1>2. CASE UNCHANGED draftVars
  BY <1>2 DEF draftVars, PlainInv, DraftInv, DraftTypeOK
<1>3. CASE DraftNext
  BY <1>1, <1>3, WorkerStep, NoBlockStep DEF PlainInv
<1>4. QED
  BY <1>2, <1>3

(* The journal, the store and every call keep their types. *)
THEOREM TypeCorrect == Spec => []TypeOK
<1>1. PlainInv => TypeOK
  BY DEF PlainInv, DraftInv, TypeOK
<1>2. QED
  BY <1>1, InitPlain, NextStep, PTL DEF Spec

LEMMA SavedOfInv ==
  ASSUME NEW E, DraftInv(E)
  PROVE  DraftedWasSaved
  BY DEF DraftInv, EveryRecordSaved, SavedIn, DraftedWasSaved

(* A letter whose words were checked says what its decision asks for. *)
LEMMA FittingOfInv ==
  ASSUME NEW E, DraftInv(E), NoBlock(store) \/ "wordless" \notin Gaps
  PROVE  LetterFitsItsDecision
<1>1. \A n \in DOMAIN store : Fits(journal, store[n]) /\ store[n] \in Letter
  BY DEF DraftInv, DraftTypeOK, EveryLetterFits
<1>2. \A n \in DOMAIN store :
        store[n].gaps \in {"complete", "worded", "wordless"} /\ store[n].gaps # "wordless"
  BY <1>1, DraftAssumption DEF Fits, NoBlock, Letter
<1>3. QED
  BY <1>1, <1>2 DEF Fits, LetterFitsItsDecision

(* Whatever raced, crashed or was replayed: a DRAFTED event names a letter   *)
(* that can be opened (draft/projection.py:18).                              *)
THEOREM RecordedImpliesSaved == Spec => []DraftedWasSaved
<1>1. PlainInv => DraftedWasSaved
  BY SavedOfInv DEF PlainInv
<1>2. QED
  BY <1>1, InitPlain, NextStep, PTL DEF Spec

(* Every stored letter is one its decision owes, and says what such a letter *)
(* must say, over any number of posts and old copies of the journal.         *)
THEOREM LettersFit == Spec => []LetterFitsItsDecision
<1>1. PlainInv => LetterFitsItsDecision
  BY FittingOfInv DEF PlainInv
<1>2. QED
  BY <1>1, InitPlain, NextStep, PTL DEF Spec
-----------------------------------------------------------------------------
(* A worker on its own.  A decision owes one kind of letter, so a letter     *)
(* whose id is not in the store is the first about its decision; and nobody  *)
(* stores another before it is saved.                                       *)
SavedAbout(source) == \E n \in DOMAIN store : store[n].source = source

LoneInv ==
  /\ PlainInv
  /\ \A w \in Worker : job[w].step = "save" => ~ SavedAbout(job[w].letter.source)

LEMMA FirstAboutIt ==
  ASSUME PlainInv, NEW l \in Letter, Fits(journal, l), ~ l.block, ~ Stored(l)
  PROVE  ~ SavedAbout(l.source)
<1> SUFFICES ASSUME NEW n \in DOMAIN store, store[n].source = l.source PROVE FALSE
  BY DEF SavedAbout
<1>1. store[n] \in Letter /\ Fits(journal, store[n]) /\ ~ store[n].block
  BY DEF PlainInv, DraftInv, DraftTypeOK, EveryLetterFits, NoBlock
<1>2. store[n].kind = l.kind
  <2>1. store[n].kind \in Kind /\ l.kind \in Kind
    BY <1>1 DEF Letter
  <2>2. QED
    BY <1>1, <2>1 DEF Fits, Kind
<1>3. store[n].block = l.block
  BY <1>1 DEF Letter
<1>4. QED
  BY <1>2, <1>3 DEF Stored, SameId

LEMMA LoneStep ==
  ASSUME \A v, w \in Worker : v = w
  PROVE  LoneInv /\ [DraftNext]_draftVars => LoneInv'
<1> SUFFICES ASSUME LoneInv, [DraftNext]_draftVars PROVE LoneInv'
  OBVIOUS
<1>0. PlainInv /\ PlainInv' /\ EventSet(DraftEvent)
  BY NextStep DEF LoneInv, EventSet
<1>1. ASSUME NEW w \in Worker, NEW v, v.step # "save", job' = [job EXCEPT ![w] = v]
      PROVE  LoneInv'
  <2>1. job'[w].step # "save"
    BY <1>0, <1>1 DEF PlainInv, DraftInv, DraftTypeOK
  <2>2. QED
    BY <1>0, <2>1 DEF LoneInv
<1>2. ASSUME NEW w \in Worker, CheckStore(w) PROVE LoneInv'
  <2> DEFINE letter(o) == LetterOf(o, job[w].facts)
  <2>1. PICK o \in job[w].todo :
          job' = [job EXCEPT ![w] =
            [step |-> IF Stored(letter(o)) THEN "record" ELSE "save",
             facts |-> job[w].facts, todo |-> job[w].todo \ {o}, letter |-> letter(o)]]
    BY <1>2 DEF CheckStore
  <2>2. store' = store /\ journal' = journal
    BY <1>2 DEF CheckStore
  <2>3. /\ job'[w].step = (IF Stored(letter(o)) THEN "record" ELSE "save")
        /\ job'[w].letter = letter(o)
    BY <1>0, <2>1 DEF PlainInv, DraftInv, DraftTypeOK
  <2>4. CASE Stored(letter(o))
    <3>1. job'[w].step # "save"
      BY <2>3, <2>4
    <3>2. QED
      BY <1>0, <3>1 DEF LoneInv
  <2>5. CASE ~ Stored(letter(o))
    <3>1. job'[w].step = "save"
      BY <2>3, <2>5
    <3>2. DraftInv(DraftEvent)'
      BY <1>0 DEF PlainInv
    <3>3. /\ job'[w] \in Writing
          /\ JobOK(journal', store', job'[w])
      BY <3>1, <3>2 DEF DraftInv, DraftTypeOK, Resting, Piping, Drafting
    <3>4. letter(o) \in Letter /\ Fits(journal, letter(o)) /\ ~ letter(o).block
      BY <2>2, <2>3, <3>1, <3>3 DEF Writing, JobOK
    <3> HIDE DEF letter
    <3>5. ~ SavedAbout(letter(o).source)
      BY <1>0, <2>5, <3>4, FirstAboutIt
    <3>6. QED
      BY <1>0, <2>2, <2>3, <3>5 DEF LoneInv, SavedAbout
  <2>6. QED
    BY <2>4, <2>5
<1>3. ASSUME NEW w \in Worker, Save(w) PROVE LoneInv'
  <2>1. /\ job' = [job EXCEPT ![w] = [job[w] EXCEPT !.step = "record"]]
        /\ job[w].step = "save"
    BY <1>3 DEF Save
  <2>2. job[w] \in Writing
    BY <1>0, <2>1, Carrying DEF PlainInv
  <2>3. [job[w] EXCEPT !.step = "record"].step # "save"
    BY <2>2 DEF Writing
  <2>4. QED
    BY <1>1, <2>1, <2>3
<1>4. \A facts, todo : Continue(facts, todo).step # "save"
  BY DEF Continue, Resting
<1>5. ASSUME NEW w \in Worker, FoldInline(w) \/ StartReplay(w) \/ Block(w) PROVE LoneInv'
  <2>1. \E facts, todo : job' = [job EXCEPT ![w] = Continue(facts, todo)]
    BY <1>5 DEF FoldInline, StartReplay, Block
  <2>2. QED
    BY <1>1, <1>4, <2>1
<1>6. ASSUME NEW w \in Worker, Post(w) \/ Assemble(w) \/ Decide(w) \/ Crash(w) PROVE LoneInv'
  <2>1. \E v : v.step # "save" /\ job' = [job EXCEPT ![w] = v]
    BY <1>6 DEF Post, Assemble, Decide, Crash, EmitOrRaise, Resting
  <2>2. QED
    BY <1>1, <2>1
<1>7. ASSUME NEW w \in Worker, Record(w) PROVE LoneInv'
  <2>1. \/ job' = [job EXCEPT ![w] = Continue(job[w].facts, job[w].todo)]
        \/ job' = [job EXCEPT ![w] = Resting]
    BY <1>7 DEF Record, EmitOrRaise
  <2>2. Resting.step # "save"
    BY DEF Resting
  <2>3. QED
    BY <1>1, <1>4, <2>1, <2>2
<1>8. CASE UNCHANGED draftVars
  BY <1>0, <1>8 DEF draftVars, LoneInv, SavedAbout
<1>9. QED
  BY <1>2, <1>3, <1>5, <1>6, <1>7, <1>8 DEF DraftNext, Work

LEMMA LoneInit == Init => LoneInv
BY InitPlain DEF Init, LoneInv, Resting

LEMMA SaveSends ==
  ASSUME LoneInv, NEW w \in Worker, Save(w)
  PROVE  D!Send
<1> DEFINE l == job[w].letter
           sent == [n \in DOMAIN store |-> store[n].source]
<1>1. journal' = journal /\ store' = Append(store, l) /\ job[w].step = "save"
  BY DEF Save
<1>2. EventSet(DraftEvent) /\ DraftInv(DraftEvent)
  BY DEF EventSet, LoneInv, PlainInv
<1>3. l \in Letter /\ Fits(journal, l) /\ ~ SavedAbout(l.source)
  BY <1>1, <1>2, Carrying DEF JobOK, Writing, LoneInv
<1>4. store \in Seq(Letter) /\ DOMAIN store = 1..Len(store) /\ Len(store) \in Nat
  BY <1>2 DEF DraftInv, DraftTypeOK
<1>5. l.source \in {i \in At(journal, "decided") : journal[i].tier # 3}
  BY <1>3 DEF Fits, Letter, Kind
<1>6. l.source \notin Range(sent)
  BY <1>3 DEF SavedAbout, Range
<1>7. [n \in DOMAIN store' |-> store'[n].source] = Append(sent, l.source)
  <2>1. /\ store' \in Seq(Letter) /\ Len(store') = Len(store) + 1
        /\ \A n \in 1..Len(store) : store'[n] = store[n]
        /\ store'[Len(store) + 1] = l
    BY <1>1, <1>3, <1>4, AppendedElements
  <2>2. DOMAIN store' = 1..Len(store) + 1
    BY <2>1
  <2>3. \A n \in DOMAIN store : store[n].source \in Nat
    <3>1. \A n \in DOMAIN store : store[n] \in Letter
      BY <1>4
    <3>2. QED
      BY <3>1 DEF Letter
  <2>4. sent \in Seq(Nat) /\ Len(sent) = Len(store) /\ l.source \in Nat
    BY <1>3, <1>4, <2>3 DEF Letter
  <2>5. \A n \in 1..Len(store) : sent[n] = store[n].source
    BY <1>4
  <2> HIDE DEF l, sent
  <2>6. /\ Append(sent, l.source) \in Seq(Nat)
        /\ Len(Append(sent, l.source)) = Len(store) + 1
        /\ \A n \in 1..Len(store) : Append(sent, l.source)[n] = store[n].source
        /\ Append(sent, l.source)[Len(store) + 1] = l.source
    BY <2>4, <2>5, AppendedElements
  <2>7. \A n \in 1..Len(store) + 1 : Append(sent, l.source)[n] = store'[n].source
    BY <1>4, <2>1, <2>6
  <2>8. QED
    BY <2>2, <2>6, <2>7
<1>8. QED
  BY <1>1, <1>5, <1>6, <1>7 DEF D!Send, D!Range, Range

(* An event of the journal is a debt, a record or neither. *)
LEMMA AppendedIsSeen ==
  ASSUME LoneInv, NEW e \in DraftEvent, journal' = Append(journal, e)
  PROVE  /\ Len(journal) + 1 \notin DOMAIN journal
         /\ \A type : At(journal', type) =
              At(journal, type) \cup (IF e.type = type THEN {Len(journal) + 1} ELSE {})
         /\ \A i \in DOMAIN journal : journal'[i] = journal[i]
         /\ journal'[Len(journal) + 1] = e
<1>1. journal \in Seq(DraftEvent)
  BY DEF LoneInv, PlainInv, DraftInv
<1>2. /\ journal' \in Seq(DraftEvent) /\ Len(journal') = Len(journal) + 1
      /\ \A i \in 1..Len(journal) : journal'[i] = journal[i]
      /\ journal'[Len(journal) + 1] = e
  BY <1>1, AppendedElements
<1>3. DOMAIN journal = 1..Len(journal) /\ DOMAIN journal' = 1..Len(journal) + 1
      /\ Len(journal) \in Nat
  BY <1>1, <1>2
<1>4. DOMAIN journal' = DOMAIN journal \cup {Len(journal) + 1}
  BY <1>3
<1>5. Len(journal) + 1 \notin DOMAIN journal
  BY <1>3
<1>6. \A i \in DOMAIN journal : journal'[i] = journal[i]
  BY <1>2, <1>3
<1>7. QED
  BY <1>2, <1>4, <1>5, <1>6 DEF At

LEMMA OtherEventStutters ==
  ASSUME LoneInv, NEW e \in DraftEvent, journal' = Append(journal, e), store' = store,
         e.type \notin {"decided", "drafted"}
  PROVE  UNCHANGED D!vars
<1>1. e.type # "decided" /\ e.type # "drafted"
  OBVIOUS
<1> DEFINE more(type) == IF e.type = type THEN {Len(journal) + 1} ELSE {}
<1>2. /\ \A type : At(journal', type) = At(journal, type) \cup more(type)
      /\ \A i \in DOMAIN journal : journal'[i] = journal[i]
  BY AppendedIsSeen
<1>3. more("decided") = {} /\ more("drafted") = {}
  BY <1>1
<1> HIDE DEF more
<1>4. /\ At(journal', "decided") = At(journal, "decided")
      /\ At(journal', "drafted") = At(journal, "drafted")
      /\ \A i \in DOMAIN journal : journal'[i] = journal[i]
  BY <1>2, <1>3
<1>5. /\ \A i \in At(journal, "decided") : journal'[i] = journal[i]
      /\ \A i \in At(journal, "drafted") : journal'[i] = journal[i]
  BY <1>4 DEF At
<1>6. DraftedSources(journal') = DraftedSources(journal)
  BY <1>4, <1>5 DEF DraftedSources
<1>7. QED
  BY <1>4, <1>5, <1>6 DEF D!vars

LEMMA DecisionOwes ==
  ASSUME LoneInv, NEW e \in DraftEvent, journal' = Append(journal, e), store' = store,
         e.type = "decided"
  PROVE  D!Owe \/ UNCHANGED D!vars
<1> DEFINE owed(j) == {i \in At(j, "decided") : j[i].tier # 3}
           place == Len(journal) + 1
<1>1. /\ place \notin DOMAIN journal /\ journal'[place] = e
      /\ At(journal', "decided") = At(journal, "decided") \cup {place}
      /\ At(journal', "drafted") = At(journal, "drafted")
      /\ \A i \in DOMAIN journal : journal'[i] = journal[i]
  BY AppendedIsSeen
<1> HIDE DEF place
<1>2. DraftedSources(journal') = DraftedSources(journal)
  BY <1>1 DEF DraftedSources, At
<1>3. \A i \in At(journal, "decided") : journal'[i] = journal[i] /\ i # place
  BY <1>1 DEF At
<1>4. CASE e.tier # 3
  <2>1. owed(journal') = owed(journal) \cup {place} /\ place \notin owed(journal)
    BY ZenonT(40), <1>1, <1>3, <1>4
  <2>2. QED
    BY <1>2, <2>1 DEF D!Owe
<1>5. CASE e.tier = 3
  <2>1. owed(journal') = owed(journal)
    BY <1>1, <1>3, <1>5
  <2>2. QED
    BY <1>2, <2>1 DEF D!vars
<1>6. QED
  BY <1>4, <1>5

LEMMA RecordRecords ==
  ASSUME LoneInv, NEW e \in DraftEvent, journal' = Append(journal, e), store' = store,
         e.type = "drafted", SavedIn(store, e)
  PROVE  D!Record \/ UNCHANGED D!vars
<1> DEFINE owed(j) == {i \in At(j, "decided") : j[i].tier # 3}
           sent == [n \in DOMAIN store |-> store[n].source]
           place == Len(journal) + 1
<1>1. /\ place \notin DOMAIN journal /\ journal'[place] = e
      /\ At(journal', "decided") = At(journal, "decided")
      /\ At(journal', "drafted") = At(journal, "drafted") \cup {place}
      /\ \A i \in DOMAIN journal : journal'[i] = journal[i]
  BY AppendedIsSeen
<1> HIDE DEF place
<1>2. owed(journal') = owed(journal)
  BY <1>1 DEF At
<1>3. DraftedSources(journal') = DraftedSources(journal) \cup {e.source}
  <2>1. \A i \in At(journal, "drafted") : journal'[i] = journal[i]
    BY <1>1 DEF At
  <2>2. DraftedSources(journal')
          = {journal'[i].source : i \in At(journal, "drafted")} \cup {journal'[place].source}
    BY <1>1 DEF DraftedSources
  <2>3. {journal'[i].source : i \in At(journal, "drafted")} = DraftedSources(journal)
    BY <2>1 DEF DraftedSources
  <2>4. QED
    BY <1>1, <2>2, <2>3
<1>4. e.source \in Range(sent)
  BY DEF SavedIn, Range
<1>5. CASE e.source \in DraftedSources(journal)
  BY <1>2, <1>3, <1>5 DEF D!vars
<1>6. CASE e.source \notin DraftedSources(journal)
  BY <1>2, <1>3, <1>4, <1>6 DEF D!Record, D!Range, Range
<1>7. QED
  BY <1>5, <1>6

(* A drafting worker on its own keeps the promise of a transactional         *)
(* dispatch: one letter per decision, only for a decision that owes one, and *)
(* journaled only when it can be opened, whatever dies in between.           *)
THEOREM LoneWorkerDispatches ==
  ASSUME \A v, w \in Worker : v = w
  PROVE  Spec => ImplementsDispatch
<1>1. Init => D!Init
  <2> SUFFICES ASSUME Init PROVE D!Init
    OBVIOUS
  <2>1. DOMAIN journal = {} /\ DOMAIN store = {}
    BY DEF Init
  <2>2. [n \in DOMAIN store |-> store[n].source] = << >>
    BY <2>1
  <2>3. QED
    BY <2>1, <2>2 DEF D!Init, At, DraftedSources
<1>2. LoneInv /\ [DraftNext]_draftVars => [D!Next]_D!vars
  <2> SUFFICES ASSUME LoneInv, [DraftNext]_draftVars PROVE [D!Next]_D!vars
    OBVIOUS
  <2>1. ASSUME UNCHANGED <<journal, store>> PROVE [D!Next]_D!vars
    BY <2>1 DEF D!vars
  <2>2. ASSUME NEW w \in Worker, Post(w) PROVE [D!Next]_D!vars
    <3> DEFINE e == [type |-> "received"]
    <3>1. e \in DraftEvent /\ e.type = "received" /\ journal' = Append(journal, e) /\ store' = store
      BY <2>2 DEF Post, Emit, DraftEvent, Received
    <3> HIDE DEF e
    <3>2. QED
      BY <3>1, OtherEventStutters
  <2>3. ASSUME NEW w \in Worker, Assemble(w) PROVE [D!Next]_D!vars
    <3>1. \/ UNCHANGED <<journal, store>>
          \/ \E e \in DraftEvent : e.type = "evidence" /\ journal' = Append(journal, e) /\ store' = store
      BY <2>3 DEF Assemble, EmitOrRaise, Emit, DraftEvent, EvidenceAssembled
    <3>2. QED
      BY <2>1, <3>1, OtherEventStutters
  <2>4. ASSUME NEW w \in Worker, Decide(w) PROVE [D!Next]_D!vars
    <3>1. \/ UNCHANGED <<journal, store>>
          \/ \E e \in DraftEvent : e.type = "decided" /\ journal' = Append(journal, e) /\ store' = store
      BY <2>4 DEF Decide, EmitOrRaise, Emit, DraftEvent, TierDecided
    <3>2. QED
      BY <2>1, <3>1, DecisionOwes DEF D!Next
  <2>5. ASSUME NEW w \in Worker, Record(w) PROVE [D!Next]_D!vars
    <3> DEFINE l == job[w].letter
               e == [type |-> "drafted", source |-> l.source, block |-> l.block]
    <3>1. store' = store /\ job[w].step = "record" /\ (journal' = journal \/ journal' = Append(journal, e))
      BY <2>5 DEF Record, EmitOrRaise, Emit
    <3>2. EventSet(DraftEvent) /\ DraftInv(DraftEvent)
      BY DEF EventSet, LoneInv, PlainInv
    <3>3. l \in Letter /\ SavedIn(store, l)
      BY <3>1, <3>2, Carrying DEF JobOK, Writing
    <3>4. e \in DraftEvent /\ e.type = "drafted" /\ SavedIn(store, e)
      BY <3>3 DEF DraftEvent, Drafted, Letter, SavedIn
    <3> HIDE DEF e
    <3>5. QED
      BY <2>1, <3>1, <3>4, RecordRecords DEF D!Next
  <2>6. ASSUME NEW w \in Worker, Save(w) PROVE [D!Next]_D!vars
    BY <2>6, SaveSends DEF D!Next
  <2>7. ASSUME NEW w \in Worker,
               FoldInline(w) \/ StartReplay(w) \/ Block(w) \/ CheckStore(w) \/ Crash(w)
        PROVE  UNCHANGED <<journal, store>>
    BY <2>7 DEF FoldInline, StartReplay, Block, CheckStore, Crash
  <2>8. CASE UNCHANGED draftVars
    BY <2>1, <2>8 DEF draftVars
  <2>9. QED
    BY <2>1, <2>2, <2>3, <2>4, <2>5, <2>6, <2>7, <2>8 DEF DraftNext, Work
<1>3. QED
  BY <1>1, <1>2, LoneInit, LoneStep, PTL DEF Spec, ImplementsDispatch, D!Spec

-----------------------------------------------------------------------------
(* The caseworker's actions. *)

LEMMA ReviewEvents == EventSet(Event)
<1>1. ASSUME NEW e \in Event, e.type \in {"received", "evidence", "decided", "drafted"}
      PROVE  e \in DraftEvent
  BY <1>1 DEF Event, ConfirmedEvent, TierMove, UnitMove
<1>2. QED
  BY <1>1 DEF EventSet, Event

(* What a handler read when it began. *)
LEMMA PrefixOf ==
  ASSUME NEW S, NEW s \in Seq(S), NEW n \in 0 .. Len(s)
  PROVE  /\ SubSeq(s, 1, n) \in Seq(S) /\ Len(SubSeq(s, 1, n)) = n
         /\ DOMAIN SubSeq(s, 1, n) = 1 .. n
         /\ \A i \in 1 .. n : SubSeq(s, 1, n)[i] = s[i]
  OBVIOUS

LEMMA PrefixMoves ==
  ASSUME NEW S, NEW s \in Seq(S), NEW n \in 0 .. Len(s)
  PROVE  TierMoves(SubSeq(s, 1, n)) = {i \in TierMoves(s) : i <= n}
<1>1. DOMAIN s = 1 .. Len(s) /\ Len(s) \in Nat
  OBVIOUS
<1>2. QED
  BY <1>1, PrefixOf DEF TierMoves, At

-----------------------------------------------------------------------------
(* The invariant.  While a handler is at work nobody confirms and nobody     *)
(* corrects, so that what it read of the corrections stays what they are;    *)
(* the letter it has in hand is stored, and in the end has its file.         *)
Reading == {"prepare", "handover", "redraft", "confirm"}

Handling == [step : Reading, seen : Nat, form : Form, letter : Letter \cup {None}]
ReviewerType ==
  {Idle} \cup [step : {"override"}, event : TierMove \cup UnitMove] \cup Handling

InStore(letters, id) == \E n \in DOMAIN letters : IdOf(letters[n]) = id

ReviewerOK(events, letters, files, r) ==
  /\ r # Idle => ~ Confirmed(events)
  /\ r.step \in Reading =>
       r.seen <= Len(events) /\ \A i \in TierMoves(events) : i <= r.seen
  /\ r.step \in {"handover", "redraft"} =>
       r.letter \in Letter /\ InStore(letters, IdOf(r.letter))
  /\ r.step = "confirm" /\ r.letter # None =>
       InStore(letters, IdOf(r.letter)) /\ IdOf(r.letter) \in files

MovesBefore(events, i) == {j \in TierMoves(events) : j < i}

Truthful(events, letters, files) ==
  \A i \in At(events, "confirmed") :
    /\ MovesBefore(events, i) # {} =>
         events[i].tier = events[Newest(MovesBefore(events, i))].to
    /\ events[i].sent # None =>
         events[i].sent \in files /\ InStore(letters, events[i].sent)

ReviewInv ==
  /\ DraftInv(Event)
  /\ reviewer \in ReviewerType
  /\ ReviewerOK(journal, store, stubs, reviewer)
  /\ Truthful(journal, store, stubs)

LEMMA InitReview == ReviewInit => ReviewInv
<1> SUFFICES ASSUME ReviewInit PROVE ReviewInv
  OBVIOUS
<1>1. DraftInv(Event)
  BY InitInv DEF ReviewInit
<1>2. reviewer = Idle /\ journal = << >>
  BY DEF ReviewInit, Init
<1>3. ReviewerOK(journal, store, stubs, reviewer)
  BY <1>2 DEF ReviewerOK, Idle, Reading
<1>4. Truthful(journal, store, stubs)
  BY <1>2 DEF Truthful, At
<1>5. QED
  BY <1>1, <1>2, <1>3, <1>4 DEF ReviewInv, ReviewerType

-----------------------------------------------------------------------------
(* A step that says nothing of confirmations and corrections. *)
Quiet(s, t) ==
  /\ Extends(s, t)
  /\ \A i \in DOMAIN t : i \in DOMAIN s \/ t[i].type \notin {"confirmed", "overridden"}

LEMMA QuietMoves ==
  ASSUME NEW s, NEW t, Quiet(s, t)
  PROVE  /\ At(t, "confirmed") = At(s, "confirmed") /\ TierMoves(t) = TierMoves(s)
         /\ \A i \in At(s, "confirmed") \cup TierMoves(s) : t[i] = s[i]
  BY DEF Quiet, Extends, At, TierMoves

LEMMA QuietOK ==
  ASSUME NEW s, NEW t, Quiet(s, t), Len(s) <= Len(t), Len(s) \in Nat, Len(t) \in Nat,
         NEW p, NEW q, Extends(p, q), NEW f, NEW g, f \subseteq g,
         NEW r \in ReviewerType, ReviewerOK(s, p, f, r)
  PROVE  ReviewerOK(t, q, g, r)
<1>1. Confirmed(t) <=> Confirmed(s)
  BY QuietMoves DEF Confirmed
<1>2. \A id : InStore(p, id) => InStore(q, id)
  BY DEF InStore, Extends
<1>3. r.step \in Reading =>
        r.seen <= Len(t) /\ \A i \in TierMoves(t) : i <= r.seen
  <2>1. r.step \in Reading => r.seen \in Nat
    BY DEF ReviewerType, Idle, Handling, Reading
  <2>2. QED
    BY <2>1, QuietMoves DEF ReviewerOK
<1>4. QED
  BY <1>1, <1>2, <1>3 DEF ReviewerOK

LEMMA QuietTruth ==
  ASSUME NEW s, NEW t, Quiet(s, t), NEW n \in Nat, DOMAIN s = 1 .. n,
         NEW p, NEW q, Extends(p, q), NEW f, NEW g, f \subseteq g,
         Truthful(s, p, f)
  PROVE  Truthful(t, q, g)
<1>1. \A id : InStore(p, id) => InStore(q, id)
  BY DEF InStore, Extends
<1> SUFFICES ASSUME NEW i \in At(t, "confirmed")
             PROVE  /\ MovesBefore(t, i) # {} =>
                         t[i].tier = t[Newest(MovesBefore(t, i))].to
                    /\ t[i].sent # None => t[i].sent \in g /\ InStore(q, t[i].sent)
  BY DEF Truthful
<1>2. i \in At(s, "confirmed") /\ t[i] = s[i] /\ MovesBefore(t, i) = MovesBefore(s, i)
  BY QuietMoves DEF MovesBefore
<1>3. MovesBefore(s, i) # {} =>
        t[Newest(MovesBefore(s, i))] = s[Newest(MovesBefore(s, i))]
  <2>1. MovesBefore(s, i) \subseteq 1 .. n /\ MovesBefore(s, i) \subseteq TierMoves(s)
    BY DEF MovesBefore, TierMoves, At
  <2>2. QED
    BY <2>1, NewestExists, QuietMoves
<1>4. QED
  BY <1>1, <1>2, <1>3 DEF Truthful

(* Nothing but the handler moves. *)
LEMMA HandlerMoves ==
  ASSUME ReviewInv, UNCHANGED draftVars, NEW r \in ReviewerType, reviewer' = r,
         stubs \subseteq stubs', ReviewerOK(journal, store, stubs', r)
  PROVE  ReviewInv'
<1>1. journal' = journal /\ store' = store /\ DraftInv(Event)'
  BY DEF draftVars, ReviewInv, DraftInv, DraftTypeOK
<1>2. Truthful(journal', store', stubs')
  BY <1>1 DEF ReviewInv, Truthful
<1>3. QED
  BY <1>1, <1>2 DEF ReviewInv

LEMMA HandlerLeaves ==
  ASSUME ReviewInv, UNCHANGED <<journal, store, job, posts, stubs>>,
         crashes' \in 0 .. MaxCrashes, reviewer' = Idle
  PROVE  ReviewInv'
<1>1. DraftInv(Event)'
  BY DEF ReviewInv, DraftInv, DraftTypeOK
<1>2. ReviewerOK(journal', store', stubs', reviewer') /\ reviewer' \in ReviewerType
  BY DEF ReviewerOK, Idle, Reading, ReviewerType
<1>3. Truthful(journal', store', stubs')
  BY DEF ReviewInv, Truthful
<1>4. QED
  BY <1>1, <1>2, <1>3 DEF ReviewInv

(* What the other actors have in hand stays good when the handler appends to *)
(* the journal,                                                             *)
LEMMA HandlerEmits ==
  ASSUME ReviewInv, NEW e \in Event, journal' = Append(journal, e),
         UNCHANGED <<store, job, posts, crashes>>,
         e.type # "decided", e.type = "drafted" => SavedIn(store, e)
  PROVE  /\ DraftInv(Event)'
         /\ Extends(journal, journal') /\ Extends(store, store')
         /\ \A i \in DOMAIN journal' :
              (i \in DOMAIN journal /\ journal'[i] = journal[i]) \/ journal'[i] = e
<1>1. EventSet(Event) /\ DraftInv(Event) /\ journal \in Seq(Event)
  BY ReviewEvents DEF ReviewInv, DraftInv
<1>2. /\ journal' \in Seq(Event) /\ Extends(journal, journal') /\ Extends(store, store')
      /\ EvidenceFirst(journal') /\ EveryRecordSaved(journal', store')
      /\ EveryLetterFits(journal', store')
  BY <1>1, JournalAppends
<1>3. \A u \in Worker : JobOK(journal', store', job'[u])
  BY <1>1, <1>2, HoldsOn DEF DraftInv
<1>4. DraftTypeOK'
  BY <1>1 DEF DraftInv, DraftTypeOK
<1>5. QED
  BY <1>1, <1>2, <1>3, <1>4, Appending DEF DraftInv

(* or to the store. *)
LEMMA HandlerSaves ==
  ASSUME ReviewInv, NEW l \in Letter, Fits(journal, l), store' = Append(store, l),
         UNCHANGED <<journal, job, posts, crashes>>
  PROVE  DraftInv(Event)' /\ Extends(store, store')
         /\ \E n \in DOMAIN store' : store'[n] = l
<1>1. DraftInv(Event) /\ store \in Seq(Letter) /\ Extends(journal, journal')
  BY DEF ReviewInv, DraftInv, DraftTypeOK, Extends
<1>2. /\ store' \in Seq(Letter) /\ Extends(store, store')
      /\ \A n \in DOMAIN store' :
           (n \in DOMAIN store /\ store'[n] = store[n]) \/ store'[n] = l
  BY <1>1, Appending
<1>3. Len(store) + 1 \in DOMAIN store' /\ store'[Len(store) + 1] = l
  BY <1>1, AppendedElements
<1>4. \A u \in Worker : JobOK(journal', store', job'[u])
  BY <1>1, <1>2, HoldsOn DEF DraftInv
<1>5. EveryRecordSaved(journal', store')
  <2>1. \A r : SavedIn(store, r) => SavedIn(store', r)
    BY <1>2 DEF SavedIn, Extends
  <2>2. EveryRecordSaved(journal, store)
    BY <1>1 DEF DraftInv
  <2>3. QED
    BY <2>1, <2>2 DEF EveryRecordSaved
<1>6. EveryLetterFits(journal', store')
  BY <1>1, <1>2 DEF DraftInv, EveryLetterFits
<1>7. DraftTypeOK' /\ journal' \in Seq(Event) /\ EvidenceFirst(journal')
  BY <1>1, <1>2 DEF DraftInv, DraftTypeOK
<1>8. QED
  BY <1>2, <1>3, <1>4, <1>5, <1>6, <1>7 DEF DraftInv

(* What the type of the handler says at each of its steps. *)
LEMMA AtStep ==
  ASSUME ReviewInv
  PROVE  /\ ReviewerOK(journal, store, stubs, reviewer)
         /\ reviewer.step \in Reading => reviewer \in Handling
         /\ reviewer.step = "override" => reviewer.event \in TierMove \cup UnitMove
         /\ reviewer.step # "idle" => ~ Confirmed(journal)
<1>1. ReviewerOK(journal, store, stubs, reviewer) /\ reviewer \in ReviewerType
  BY DEF ReviewInv
<1>2. reviewer.step \in Reading => reviewer \in Handling
  BY <1>1 DEF ReviewerType, Idle, Reading
<1>3. reviewer.step = "override" => reviewer.event \in TierMove \cup UnitMove
  BY <1>1 DEF ReviewerType, Idle, Handling, Reading
<1>4. reviewer.step # "idle" => ~ Confirmed(journal)
  BY <1>1 DEF ReviewerOK, Idle
<1>5. QED
  BY <1>1, <1>2, <1>3, <1>4

-----------------------------------------------------------------------------
(* A worker's step, whoever is in the middle of a handler. *)
LEMMA WorkerWrites ==
  ASSUME DraftInv(Event), DraftNext
  PROVE  /\ \/ journal' = journal
            \/ \E e \in DraftEvent : /\ journal' = Append(journal, e)
                                     /\ e.type = "drafted" => ~ e.block
         /\ store' = store \/ \E l \in Letter : store' = Append(store, l) /\ ~ l.block
<1>1. PICK w \in Worker : Post(w) \/ Work(w) \/ Crash(w)
  BY DEF DraftNext
<1>2. job[w].step \in {"save", "record"} => job[w].letter \in Letter /\ ~ job[w].letter.block
  BY ReviewEvents, Carrying DEF Writing, JobOK
<1>3. CASE Post(w)
  BY <1>3 DEF Post, Emit, DraftEvent, Received
<1>4. CASE Assemble(w)
  BY <1>4 DEF Assemble, EmitOrRaise, Emit, DraftEvent, EvidenceAssembled
<1>5. CASE Decide(w)
  BY <1>5 DEF Decide, EmitOrRaise, Emit, DraftEvent, TierDecided
<1>6. CASE Save(w)
  BY <1>2, <1>6 DEF Save
<1>7. CASE Record(w)
  <2> DEFINE e == [type |-> "drafted", source |-> job[w].letter.source,
                   block |-> job[w].letter.block]
  <2>1. e \in DraftEvent /\ ~ e.block
    BY <1>2, <1>7 DEF Record, DraftEvent, Drafted, Letter
  <2>2. (journal' = journal \/ journal' = Append(journal, e)) /\ store' = store
    BY <1>7 DEF Record, EmitOrRaise, Emit
  <2> HIDE DEF e
  <2>3. QED
    BY <2>1, <2>2
<1>8. CASE FoldInline(w) \/ StartReplay(w) \/ Block(w) \/ CheckStore(w)
             \/ Crash(w)
  BY <1>8 DEF FoldInline, StartReplay, Block, CheckStore, Crash
<1>9. QED
  BY <1>1, <1>3, <1>4, <1>5, <1>6, <1>7, <1>8 DEF Work

LEMMA DraftTypes ==
  ASSUME NEW e \in DraftEvent
  PROVE  e \in Event /\ e.type \notin {"confirmed", "overridden"}
  BY DEF Event, DraftEvent, Received, EvidenceAssembled, TierDecided, Drafted

LEMMA WorkerQuiet ==
  ASSUME DraftInv(Event), DraftNext
  PROVE  Quiet(journal, journal') /\ Extends(store, store')
<1>1. journal \in Seq(Event) /\ store \in Seq(Letter)
  BY DEF DraftInv, DraftTypeOK
<1>2. ASSUME journal' = journal PROVE Quiet(journal, journal')
  BY <1>2 DEF Quiet, Extends
<1>3. ASSUME NEW e \in DraftEvent, journal' = Append(journal, e)
      PROVE  Quiet(journal, journal')
  <2>1. /\ Extends(journal, journal')
        /\ \A i \in DOMAIN journal' :
             (i \in DOMAIN journal /\ journal'[i] = journal[i]) \/ journal'[i] = e
    BY <1>1, <1>3, DraftTypes, Appending
  <2>2. QED
    BY <2>1, DraftTypes DEF Quiet
<1>4. Extends(store, store')
  <2>1. ASSUME store' = store PROVE Extends(store, store')
    BY <2>1 DEF Extends
  <2>2. ASSUME NEW l \in Letter, store' = Append(store, l) PROVE Extends(store, store')
    BY <1>1, <2>2, Appending
  <2>3. QED
    BY <2>1, <2>2, WorkerWrites
<1>5. QED
  BY <1>2, <1>3, <1>4, WorkerWrites

(* Whatever adds nothing about confirmations and corrections leaves the      *)
(* handler and the confirmations right.                                     *)
LEMMA QuietStep ==
  ASSUME ReviewInv, DraftInv(Event)', Quiet(journal, journal'), Extends(store, store'),
         stubs' = stubs, NEW r \in ReviewerType, reviewer' = r,
         ReviewerOK(journal, store', stubs, r)
  PROVE  ReviewInv'
<1>1. journal \in Seq(Event) /\ journal' \in Seq(Event)
  BY DEF ReviewInv, DraftInv
<1>2. Len(journal) \in Nat /\ Len(journal') \in Nat /\ DOMAIN journal = 1 .. Len(journal)
      /\ DOMAIN journal' = 1 .. Len(journal')
  BY <1>1
<1>3. Len(journal) <= Len(journal')
  <2>1. CASE Len(journal) = 0
    BY <1>2, <2>1
  <2>2. CASE Len(journal) # 0
    BY <1>2, <2>2 DEF Quiet, Extends
  <2>3. QED
    BY <2>1, <2>2
<1>4. Extends(store', store')
  BY DEF Extends
<1>5. ReviewerOK(journal', store', stubs', reviewer')
  BY <1>2, <1>3, <1>4, QuietOK
<1>6. Truthful(journal', store', stubs')
  BY <1>2, QuietTruth DEF ReviewInv
<1>7. QED
  BY <1>5, <1>6 DEF ReviewInv

LEMMA MoreLetters ==
  ASSUME ReviewInv, Extends(store, store')
  PROVE  ReviewerOK(journal, store', stubs, reviewer)
<1>1. \A id : InStore(store, id) => InStore(store', id)
  BY DEF InStore, Extends
<1>2. QED
  BY <1>1 DEF ReviewInv, ReviewerOK

LEMMA WorkersStep ==
  ASSUME ReviewInv, DraftNext, UNCHANGED <<reviewer, stubs>>
  PROVE  ReviewInv'
<1>1. DraftInv(Event) /\ reviewer \in ReviewerType
  BY DEF ReviewInv
<1>2. DraftInv(Event)'
  BY <1>1, ReviewEvents, WorkerStep
<1>3. QED
  BY <1>1, <1>2, WorkerQuiet, MoreLetters, QuietStep

LEMMA WorkerRaisesStep ==
  ASSUME ReviewInv, NEW w \in Worker, WorkerRaises(w)
  PROVE  ReviewInv'
<1>1. /\ journal' = journal /\ store' = store /\ posts' = posts /\ crashes' = crashes
      /\ job' = [job EXCEPT ![w] = Resting] /\ reviewer' = reviewer /\ stubs' = stubs
  BY DEF WorkerRaises
<1>2. DraftInv(Event) /\ EventSet(Event) /\ reviewer \in ReviewerType
  BY ReviewEvents DEF ReviewInv
<1>3. DraftInv(Event)'
  BY <1>1, <1>2, SameCounters, RestingOK, MoveOn
<1>4. Quiet(journal, journal') /\ Extends(store, store')
  BY <1>1 DEF Quiet, Extends
<1>5. QED
  BY <1>1, <1>2, <1>3, <1>4, MoreLetters, QuietStep

-----------------------------------------------------------------------------
(* The steps of the handlers, in turn. *)
LEMMA StartCorrectionStep ==
  ASSUME ReviewInv, StartOverride \/ StartEscalate
  PROVE  ReviewInv'
<1>1. PICK e \in TierMove \cup UnitMove :
        reviewer' = [step |-> "override", event |-> e]
  BY DEF StartOverride, StartEscalate, TierMove, UnitMove, Tier, ESCALATION_TIER
<1>2. UNCHANGED draftVars /\ stubs' = stubs /\ ~ Confirmed(journal)
  BY DEF StartOverride, StartEscalate
<1> DEFINE r == [step |-> "override", event |-> e]
<1>3. r \in ReviewerType /\ ReviewerOK(journal, store, stubs', r)
  BY <1>2 DEF ReviewerType, ReviewerOK, Reading
<1> HIDE DEF r
<1>4. QED
  BY <1>1, <1>2, <1>3, HandlerMoves DEF r

LEMMA EmitOverrideStep ==
  ASSUME ReviewInv, EmitOverride
  PROVE  ReviewInv'
<1> DEFINE e == reviewer.event
<1>1. /\ reviewer.step = "override" /\ journal' = Append(journal, e)
      /\ reviewer' = Idle /\ UNCHANGED <<store, job, posts, crashes, stubs>>
  BY DEF EmitOverride, Emit
<1>2. e \in Event /\ e.type = "overridden" /\ ~ Confirmed(journal)
  BY <1>1, AtStep DEF Event, TierMove, UnitMove
<1> HIDE DEF e
<1>3. /\ DraftInv(Event)'
      /\ \A i \in DOMAIN journal' :
           (i \in DOMAIN journal /\ journal'[i] = journal[i]) \/ journal'[i] = e
  BY <1>1, <1>2, HandlerEmits
<1>4. At(journal', "confirmed") = {}
  BY <1>2, <1>3 DEF At, Confirmed
<1>5. QED
  BY <1>1, <1>3, <1>4 DEF ReviewInv, ReviewerType, ReviewerOK, Truthful, Idle, Reading

LEMMA StartConfirmStep ==
  ASSUME ReviewInv, StartConfirm
  PROVE  ReviewInv'
<1>1. PICK f \in Form :
        reviewer' = [step |-> "prepare", seen |-> Len(journal), form |-> f, letter |-> None]
  BY DEF StartConfirm
<1>2. UNCHANGED draftVars /\ stubs' = stubs /\ ~ Confirmed(journal)
  BY DEF StartConfirm
<1> DEFINE r == [step |-> "prepare", seen |-> Len(journal), form |-> f, letter |-> None]
<1>3. journal \in Seq(Event)
  BY DEF ReviewInv, DraftInv
<1>4. Len(journal) \in Nat /\ \A i \in TierMoves(journal) : i <= Len(journal)
  BY <1>3 DEF TierMoves, At
<1>5. r \in ReviewerType
  BY <1>4 DEF ReviewerType, Handling, Reading
<1>6. ReviewerOK(journal, store, stubs', r)
  BY <1>2, <1>4 DEF ReviewerOK
<1> HIDE DEF r
<1>7. QED
  BY <1>1, <1>2, <1>5, <1>6, HandlerMoves DEF r

LEMMA PreparingOK ==
  ASSUME ReviewInv, reviewer.step \in Reading, NEW step \in Reading,
         NEW letter \in Letter \cup {None}, Preparing(step, letter)
  PROVE  /\ reviewer' = [step |-> step, seen |-> reviewer.seen, form |-> reviewer.form,
                         letter |-> letter]
         /\ reviewer' \in Handling
  BY AtStep DEF Preparing, Handling

LEMMA LastLetter ==
  ASSUME ReviewInv, store # << >>
  PROVE  Prepared \in Letter /\ InStore(store, IdOf(Prepared)) /\ Fits(journal, Prepared)
<1>1. store \in Seq(Letter) /\ EveryLetterFits(journal, store)
  BY DEF ReviewInv, DraftInv, DraftTypeOK
<1>2. Len(store) \in DOMAIN store /\ Prepared = store[Len(store)]
  BY <1>1 DEF Prepared
<1>3. QED
  BY <1>1, <1>2 DEF InStore, EveryLetterFits

LEMMA PrepareStoredStep ==
  ASSUME ReviewInv, PrepareStored
  PROVE  ReviewInv'
<1>1. reviewer.step = "prepare" /\ UNCHANGED draftVars /\ stubs' = stubs
  BY DEF PrepareStored
<1>2. PICK step \in {"confirm", "handover"}, letter \in Letter \cup {None} :
        /\ Preparing(step, letter)
        /\ step = "confirm" => letter = None
        /\ step = "handover" => letter \in Letter /\ InStore(store, IdOf(letter))
  <2>1. CASE NothingToSend /\ Preparing("confirm", None)
    BY <2>1
  <2>2. CASE ~ NothingToSend /\ Preparing("handover", Prepared)
    BY <2>2, LastLetter DEF NothingToSend
  <2>3. QED
    BY <2>1, <2>2 DEF PrepareStored
<1> DEFINE r == [step |-> step, seen |-> reviewer.seen, form |-> reviewer.form,
                 letter |-> letter]
<1>3. reviewer' = r /\ r \in ReviewerType
  BY <1>1, <1>2, PreparingOK DEF ReviewerType, Reading
<1>4. ReviewerOK(journal, store, stubs', r)
  BY <1>1, <1>2, AtStep DEF ReviewerOK, Reading, Idle
<1> HIDE DEF r
<1>5. QED
  BY <1>1, <1>3, <1>4, HandlerMoves

(* What a decision owed when the handler read the journal is a request that   *)
(* the decision of the letter in hand still owes.                            *)
LEMMA StillOwedFits ==
  ASSUME ReviewInv, reviewer.step = "prepare", store # << >>, WantsBlock,
         NEW o \in StillOwed
  PROVE  LET letter == [Prepared EXCEPT !.gaps = o.gaps, !.block = TRUE]
         IN  letter \in Letter /\ Fits(journal, letter)
<1> DEFINE seen == Prefix(reviewer.seen)
<1>1. /\ Prepared \in Letter /\ Fits(journal, Prepared)
      /\ Prepared.kind = "nachforderung"
  BY LastLetter DEF WantsBlock
<1>2. journal \in Seq(Event) /\ reviewer.seen \in 0 .. Len(journal)
  <2>1. journal \in Seq(Event)
    BY DEF ReviewInv, DraftInv
  <2>2. reviewer.seen \in Nat /\ reviewer.seen <= Len(journal)
    BY AtStep DEF Reading, Handling, ReviewerOK
  <2>3. QED
    BY <2>1, <2>2
<1>3. /\ DOMAIN seen = 1 .. reviewer.seen
      /\ \A i \in 1 .. reviewer.seen : seen[i] = journal[i] /\ seen[i] \in Event
  BY <1>2, PrefixOf DEF Prefix
<1>4. /\ o.source = Prepared.source /\ o.source \in At(seen, "decided")
      /\ o.gaps = FoldedGaps(seen) /\ Owes(seen[o.source].tier, o.gaps, o.kind)
  <2>1. o \in OwedAll(seen) /\ o.source = Prepared.source
    BY DEF StillOwed
  <2> HIDE DEF seen
  <2>2. QED
    BY <2>1 DEF OwedAll
<1> HIDE DEF seen
<1>5. seen[o.source].tier = 2 /\ o.gaps # "complete"
  <2>1. seen[o.source] = journal[Prepared.source]
    BY <1>3, <1>4 DEF At
  <2>2. QED
    BY <1>1, <1>4, <2>1 DEF Fits, Owes
<1>6. o.gaps \in Gaps
  <2>1. At(seen, "evidence") # {} /\ o.gaps = seen[Newest(At(seen, "evidence"))].gaps
    BY <1>4, <1>5 DEF FoldedGaps
  <2>2. Newest(At(seen, "evidence")) \in At(seen, "evidence")
    <3>1. At(seen, "evidence") \subseteq 1 .. reviewer.seen /\ reviewer.seen \in Nat
      BY <1>2, <1>3 DEF At
    <3>2. QED
      BY <2>1, <3>1, NewestExists
  <2>3. ASSUME NEW i \in At(seen, "evidence") PROVE seen[i].gaps \in Gaps
    <3>1. seen[i] \in Event /\ seen[i].type = "evidence"
      BY <1>3 DEF At
    <3>2. seen[i] \in DraftEvent
      BY <3>1, ReviewEvents DEF EventSet
    <3>3. QED
      BY <3>1, <3>2 DEF DraftEvent, Received, EvidenceAssembled, TierDecided, Drafted
  <2>4. QED
    BY <2>1, <2>2, <2>3
<1>7. QED
  BY <1>1, <1>5, <1>6 DEF Letter, Fits

LEMMA RedraftStep ==
  ASSUME ReviewInv, Redraft
  PROVE  ReviewInv'
<1>1. /\ reviewer.step = "prepare" /\ store # << >> /\ WantsBlock
      /\ UNCHANGED <<journal, job, posts, crashes, stubs>>
  BY DEF Redraft, NothingToSend
<1>2. PICK l \in Letter :
        /\ Fits(journal, l)
        /\ \/ Stored(l) /\ Preparing("handover", l) /\ store' = store
           \/ Preparing("redraft", l) /\ store' = Append(store, l)
  <2>1. PICK o \in StillOwed :
          LET letter == [Prepared EXCEPT !.gaps = o.gaps, !.block = TRUE]
          IN  \/ Stored(letter) /\ Preparing("handover", letter) /\ store' = store
              \/ Preparing("redraft", letter) /\ store' = Append(store, letter)
    BY DEF Redraft
  <2>2. QED
    BY <1>1, <2>1, StillOwedFits
<1>3. /\ Extends(store, store') /\ InStore(store', IdOf(l)) /\ DraftInv(Event)'
  <2>1. CASE Stored(l) /\ store' = store
    <3>1. InStore(store, IdOf(l))
      BY <2>1 DEF Stored, SameId, InStore, IdOf
    <3>2. QED
      BY <1>1, <2>1, <3>1 DEF Extends, ReviewInv, DraftInv, DraftTypeOK
  <2>2. CASE store' = Append(store, l)
    <3>1. DraftInv(Event)' /\ Extends(store, store') /\ \E n \in DOMAIN store' : store'[n] = l
      BY <1>1, <1>2, <2>2, HandlerSaves
    <3>2. QED
      BY <3>1 DEF InStore
  <2>3. QED
    BY <1>2, <2>1, <2>2
<1>4. PICK step \in {"handover", "redraft"} : Preparing(step, l)
  BY <1>2
<1> DEFINE r == [step |-> step, seen |-> reviewer.seen, form |-> reviewer.form,
                 letter |-> l]
<1>5. reviewer' = r /\ r \in ReviewerType
  BY <1>1, <1>4, PreparingOK DEF ReviewerType, Reading
<1>6. ReviewerOK(journal, store', stubs, r)
  BY <1>1, <1>3, AtStep DEF ReviewerOK, Reading, Idle
<1> HIDE DEF r
<1>7. Quiet(journal, journal')
  BY <1>1 DEF Quiet, Extends
<1>8. QED
  BY <1>1, <1>3, <1>5, <1>6, <1>7, QuietStep

LEMMA JournalRedraftStep ==
  ASSUME ReviewInv, JournalRedraft
  PROVE  ReviewInv'
<1> DEFINE l == reviewer.letter
           e == [type |-> "drafted", source |-> l.source, block |-> l.block]
           r == [reviewer EXCEPT !.step = "handover"]
<1>1. /\ reviewer.step = "redraft" /\ journal' = Append(journal, e) /\ reviewer' = r
      /\ UNCHANGED <<store, job, posts, crashes, stubs>>
  BY DEF JournalRedraft, Emit
<1>2. /\ reviewer \in Handling /\ ReviewerOK(journal, store, stubs, reviewer)
      /\ l \in Letter /\ ~ Confirmed(journal)
  BY <1>1, AtStep DEF Reading, ReviewerOK
<1>3. InStore(store, IdOf(l))
  BY <1>1, <1>2 DEF ReviewerOK
<1>4. SavedIn(store, e)
  BY <1>3 DEF SavedIn, InStore, IdOf
<1>5. e \in Event /\ e.type = "drafted"
  BY <1>2 DEF Event, DraftEvent, Drafted, Letter
<1> HIDE DEF e
<1>6. /\ DraftInv(Event)' /\ Extends(journal, journal') /\ Extends(store, store')
      /\ \A i \in DOMAIN journal' :
           (i \in DOMAIN journal /\ journal'[i] = journal[i]) \/ journal'[i] = e
  BY <1>1, <1>4, <1>5, HandlerEmits
<1>7. Quiet(journal, journal')
  BY <1>5, <1>6 DEF Quiet
<1>8. /\ r \in Handling /\ r.step = "handover" /\ r.letter = l /\ r.seen = reviewer.seen
  BY <1>2 DEF Handling, Reading
<1>9. r \in ReviewerType /\ ReviewerOK(journal, store', stubs, r)
  BY <1>1, <1>2, <1>3, <1>8 DEF ReviewerType, ReviewerOK, Reading
<1> HIDE DEF r
<1>10. QED
  BY <1>1, <1>6, <1>7, <1>9, QuietStep

LEMMA HandoverStep ==
  ASSUME ReviewInv, Handover
  PROVE  ReviewInv'
<1> DEFINE r == [reviewer EXCEPT !.step = "confirm"]
<1>1. /\ reviewer.step = "handover" /\ stubs' = stubs \cup {IdOf(reviewer.letter)}
      /\ reviewer' = r /\ UNCHANGED draftVars
  BY DEF Handover
<1>2. /\ reviewer \in Handling /\ ReviewerOK(journal, store, stubs, reviewer)
      /\ ~ Confirmed(journal)
  BY <1>1, AtStep DEF Reading
<1>3. /\ r \in Handling /\ r.step = "confirm" /\ r.letter = reviewer.letter
      /\ r.seen = reviewer.seen
  BY <1>2 DEF Handling, Reading
<1>4. r \in ReviewerType /\ ReviewerOK(journal, store, stubs', r)
  BY <1>1, <1>2, <1>3 DEF ReviewerType, ReviewerOK, Reading
<1> HIDE DEF r
<1>5. QED
  BY <1>1, <1>4, HandlerMoves

LEMMA LeavingStep ==
  ASSUME ReviewInv, RefuseBlock \/ RefuseUnnamed \/ ReviewerRaises \/ ReviewerDies
  PROVE  ReviewInv'
<1>1. crashes \in 0 .. MaxCrashes
  BY DEF ReviewInv, DraftInv, DraftTypeOK
<1>2. crashes' \in 0 .. MaxCrashes
  BY <1>1, DraftAssumption DEF RefuseBlock, RefuseUnnamed, ReviewerRaises, ReviewerDies,
     draftVars
<1>3. UNCHANGED <<journal, store, job, posts, stubs>> /\ reviewer' = Idle
  BY DEF RefuseBlock, RefuseUnnamed, ReviewerRaises, ReviewerDies, draftVars
<1>4. QED
  BY <1>2, <1>3, HandlerLeaves

(* The confirmation, with what was read when the handler began: nothing has  *)
(* been corrected since.                                                     *)
LEMMA EffectiveTyped ==
  ASSUME NEW s \in Seq(Event)
  PROVE  EffectiveTier(s) \in 0 .. 3 /\ ClockStart(s) \in Nat
<1>1. /\ DOMAIN s = 1 .. Len(s) /\ Len(s) \in Nat
      /\ \A i \in DOMAIN s : s[i] \in Event
  OBVIOUS
<1>2. ASSUME NEW type, At(s, type) # {}
      PROVE  Newest(At(s, type)) \in At(s, type) /\ Newest(At(s, type)) \in Nat
  <2>1. At(s, type) \subseteq 1 .. Len(s)
    BY <1>1 DEF At
  <2>2. QED
    BY <1>1, <1>2, <2>1, NewestExists
<1>3. \A i \in At(s, "decided") : s[i].tier \in 0 .. 3
  <2>1. ASSUME NEW i \in At(s, "decided") PROVE s[i] \in TierDecided
    <3>1. s[i] \in DraftEvent /\ s[i].type = "decided"
      BY <1>1, ReviewEvents DEF EventSet, At
    <3>2. QED
      BY <3>1 DEF DraftEvent, Received, EvidenceAssembled, TierDecided, Drafted
  <2>2. QED
    BY <2>1 DEF TierDecided, Tier
<1>4. \A i \in TierMoves(s) : s[i].to \in 0 .. 3
  <2>1. ASSUME NEW i \in TierMoves(s) PROVE s[i] \in TierMove
    <3>1. s[i] \in Event /\ s[i].type = "overridden" /\ s[i].field # "unit"
      BY <1>1 DEF TierMoves, At
    <3>2. s[i] \notin DraftEvent
      BY <3>1, DraftTypes
    <3>3. QED
      BY <3>1, <3>2 DEF Event, ConfirmedEvent, TierMove, UnitMove
  <2>2. QED
    BY <2>1 DEF TierMove, Tier
<1>5. TierMoves(s) # {} => Newest(TierMoves(s)) \in TierMoves(s)
  <2>1. TierMoves(s) \subseteq 1 .. Len(s)
    BY <1>1 DEF TierMoves, At
  <2>2. QED
    BY <1>1, <2>1, NewestExists
<1>6. MachineTier(s) \in 0 .. 3
  BY <1>2, <1>3 DEF MachineTier
<1>7. EffectiveTier(s) \in 0 .. 3
  BY <1>4, <1>5, <1>6 DEF EffectiveTier
<1>8. ClockStart(s) \in Nat
  BY <1>1, <1>2 DEF ClockStart
<1>9. QED
  BY <1>7, <1>8

LEMMA EmitConfirmedStep ==
  ASSUME ReviewInv, EmitConfirmed
  PROVE  ReviewInv'
<1> DEFINE seen == Prefix(reviewer.seen)
           l == reviewer.letter
           e == [type |-> "confirmed", tier |-> EffectiveTier(seen),
                 since |-> ClockStart(seen),
                 sent |-> IF l = None THEN None ELSE IdOf(l),
                 optin |-> reviewer.form.optin]
           n == Len(journal)
<1>1. /\ reviewer.step = "confirm" /\ journal' = Append(journal, e) /\ reviewer' = Idle
      /\ UNCHANGED <<store, job, posts, crashes, stubs>>
  BY DEF EmitConfirmed, Emit
<1>2. /\ reviewer \in Handling /\ ReviewerOK(journal, store, stubs, reviewer)
      /\ ~ Confirmed(journal)
  BY <1>1, AtStep DEF Reading
<1>3. /\ journal \in Seq(Event) /\ n \in Nat /\ DOMAIN journal = 1 .. n
      /\ reviewer.seen \in 0 .. n
  <2>1. journal \in Seq(Event)
    BY DEF ReviewInv, DraftInv
  <2>2. reviewer.seen \in Nat /\ reviewer.seen <= n
    BY <1>1, <1>2 DEF Handling, ReviewerOK, Reading
  <2>3. QED
    BY <2>1, <2>2
<1>4. /\ seen \in Seq(Event) /\ \A i \in 1 .. reviewer.seen : seen[i] = journal[i]
  BY <1>3, PrefixOf DEF Prefix
<1>5. TierMoves(seen) = TierMoves(journal)
  <2>1. TierMoves(seen) = {i \in TierMoves(journal) : i <= reviewer.seen}
    BY <1>3, PrefixMoves DEF Prefix
  <2>2. \A i \in TierMoves(journal) : i <= reviewer.seen
    BY <1>1, <1>2 DEF ReviewerOK, Reading
  <2>3. QED
    BY <2>1, <2>2
<1>6. EffectiveTier(seen) \in 0 .. 3 /\ ClockStart(seen) \in Nat
  BY <1>4, EffectiveTyped
<1> HIDE DEF seen
<1>7. /\ e \in Event /\ e.type = "confirmed" /\ e.tier = EffectiveTier(seen)
      /\ e.sent = IF l = None THEN None ELSE IdOf(l)
  <2>1. l = None \/ IdOf(l) \in LetterId
    BY <1>2 DEF Handling, Letter, IdOf, LetterId
  <2>2. reviewer.form.optin \in BOOLEAN
    BY <1>2 DEF Handling, Form
  <2>3. QED
    BY <1>6, <2>1, <2>2 DEF Event, ConfirmedEvent
<1> HIDE DEF e
<1>8. /\ DraftInv(Event)' /\ Extends(journal, journal')
      /\ \A i \in DOMAIN journal' :
           (i \in DOMAIN journal /\ journal'[i] = journal[i]) \/ journal'[i] = e
  BY <1>1, <1>7, HandlerEmits
<1>9. ASSUME NEW i \in At(journal', "confirmed")
      PROVE  i = n + 1 /\ journal'[i] = e
  <2>1. i \notin DOMAIN journal /\ journal'[i] = e
    BY <1>2, <1>8 DEF At, Confirmed, Extends
  <2>2. DOMAIN journal' = 1 .. n + 1
    BY <1>1, <1>3, <1>7
  <2>3. QED
    BY <1>3, <2>1, <2>2 DEF At
<1>10. MovesBefore(journal', n + 1) = TierMoves(journal)
  <2>1. ASSUME NEW j \in MovesBefore(journal', n + 1) PROVE j \in TierMoves(journal)
    BY <1>3, <1>7, <1>8 DEF MovesBefore, TierMoves, At
  <2>2. ASSUME NEW j \in TierMoves(journal) PROVE j \in MovesBefore(journal', n + 1)
    BY <1>3, <1>8 DEF MovesBefore, TierMoves, At, Extends
  <2>3. QED
    BY <2>1, <2>2
<1>11. TierMoves(journal) # {} => e.tier = journal'[Newest(TierMoves(journal))].to
  <2>1. TierMoves(journal) \subseteq 1 .. n
    BY <1>3 DEF TierMoves, At
  <2>2. TierMoves(journal) # {} => Newest(TierMoves(journal)) \in TierMoves(journal)
    BY <1>3, <2>1, NewestExists
  <2>3. \A j \in TierMoves(journal) : j \in 1 .. reviewer.seen /\ journal'[j] = seen[j]
    <3>1. \A j \in TierMoves(journal) : j \in 1 .. reviewer.seen
      BY <1>1, <1>2, <1>3, <2>1 DEF ReviewerOK, Reading
    <3>2. QED
      BY <1>3, <1>4, <1>8, <2>1, <3>1 DEF Extends
  <2>4. QED
    BY <1>5, <1>7, <2>2, <2>3 DEF EffectiveTier
<1>12. e.sent # None => e.sent \in stubs /\ InStore(store, e.sent)
  BY <1>1, <1>2, <1>7 DEF ReviewerOK
<1>13. Truthful(journal', store', stubs')
  BY <1>1, <1>9, <1>10, <1>11, <1>12 DEF Truthful
<1>14. QED
  BY <1>1, <1>8, <1>13 DEF ReviewInv, ReviewerType, ReviewerOK, Idle, Reading

-----------------------------------------------------------------------------
LEMMA ReviewStep == ReviewInv /\ [ReviewNext]_vars => ReviewInv'
<1> SUFFICES ASSUME ReviewInv, [ReviewNext]_vars PROVE ReviewInv'
  OBVIOUS
<1>1. CASE UNCHANGED vars
  BY <1>1 DEF vars, draftVars, ReviewInv, DraftInv, DraftTypeOK
<1>2. CASE DraftNext /\ UNCHANGED <<reviewer, stubs, reviews>>
  BY <1>2, WorkersStep
<1>3. ASSUME NEW w \in Worker, WorkerRaises(w) PROVE ReviewInv'
  BY <1>3, WorkerRaisesStep
<1>4. QED
  BY <1>1, <1>2, <1>3, StartCorrectionStep, EmitOverrideStep, StartConfirmStep,
     PrepareStoredStep, RedraftStep, JournalRedraftStep, HandoverStep,
     EmitConfirmedStep, LeavingStep DEF ReviewNext

(* No DRAFTED event without its letter, with the caseworker's letters among   *)
(* them and any number of calls racing (draft/projection.py:18).             *)
THEOREM RecordedImpliesSavedReviewed == ReviewSpec => []DraftedWasSaved
<1>1. ReviewInv => DraftedWasSaved
  BY SavedOfInv DEF ReviewInv
<1>2. QED
  BY <1>1, InitReview, ReviewStep, PTL DEF ReviewSpec

(* Every letter fits its decision, the reissued one included, where every gap *)
(* has its sentence: the reissue does not ask (README, 6.8).                 *)
THEOREM LettersFitReviewed ==
  ASSUME "wordless" \notin Gaps
  PROVE  ReviewSpec => []LetterFitsItsDecision
<1>1. ReviewInv => LetterFitsItsDecision
  BY FittingOfInv DEF ReviewInv
<1>2. QED
  BY <1>1, InitReview, ReviewStep, PTL DEF ReviewSpec

(* A confirmation states the tier a human set and a letter that exists,      *)
(* whatever was appended between the handler's read and its append.          *)
THEOREM ConfirmationsAreTrue == ReviewSpec => []AConfirmationIsTrue
<1>1. ASSUME ReviewInv PROVE AConfirmationIsTrue
  <2>1. journal \in Seq(Event) /\ Truthful(journal, store, stubs)
    BY <1>1 DEF ReviewInv, DraftInv
  <2> SUFFICES ASSUME NEW i \in At(journal, "confirmed")
               PROVE  LET before == TierMoves(Prefix(i - 1))
                          sent == journal[i].sent
                      IN  /\ before # {} => journal[i].tier = journal[Newest(before)].to
                          /\ sent # None =>
                               sent \in stubs /\ \E n \in DOMAIN store : IdOf(store[n]) = sent
    BY DEF AConfirmationIsTrue
  <2>2. i - 1 \in 0 .. Len(journal) /\ i \in Nat
    BY <2>1 DEF At
  <2>3. TierMoves(Prefix(i - 1)) = {j \in TierMoves(journal) : j <= i - 1}
    BY <2>1, <2>2, PrefixMoves DEF Prefix
  <2>4. \A j \in TierMoves(journal) : j \in Nat
    BY <2>1 DEF TierMoves, At
  <2>5. TierMoves(Prefix(i - 1)) = MovesBefore(journal, i)
    <3>1. \A j \in TierMoves(journal) : j <= i - 1 <=> j < i
      BY <2>2, <2>4
    <3>2. QED
      BY <2>3, <3>1 DEF MovesBefore
  <2>6. QED
    BY <2>1, <2>5 DEF Truthful, InStore
<1>2. QED
  BY <1>1, InitReview, ReviewStep, PTL DEF ReviewSpec

(* A confirmed case is closed, although the handlers check and append in      *)
(* several steps (review/actions.py).                                        *)
LEMMA Closing ==
  ASSUME ReviewInv, ReviewNext, Confirmed(journal), NEW i \in DOMAIN journal' \ DOMAIN journal
  PROVE  journal'[i].type \notin {"confirmed", "overridden"}
<1>1. reviewer.step \notin {"override", "redraft", "confirm"}
  BY AtStep
<1>2. CASE journal' = journal
  BY <1>2
<1>3. CASE DraftNext
  BY <1>3, WorkerQuiet DEF Quiet, ReviewInv
<1>4. journal' = journal \/ DraftNext
  BY <1>1 DEF ReviewNext, StartOverride, StartEscalate, EmitOverride, StartConfirm,
     PrepareStored, RefuseBlock, Redraft, JournalRedraft, Handover, EmitConfirmed,
     RefuseUnnamed, ReviewerRaises, ReviewerDies, WorkerRaises, draftVars
<1>5. QED
  BY <1>2, <1>3, <1>4

THEOREM ConfirmedStaysClosed == ReviewSpec => ConfirmedIsClosed
<1>1. ReviewInv /\ [ReviewNext]_vars =>
        [Confirmed(journal) =>
           \A i \in DOMAIN journal' \ DOMAIN journal :
             journal'[i].type \notin {"confirmed", "overridden"}]_vars
  BY Closing
<1>2. QED
  BY <1>1, InitReview, ReviewStep, PTL DEF ReviewSpec, ConfirmedIsClosed
-----------------------------------------------------------------------------
(* The letters with the par. 66 block.  Only the reissue writes one, after a *)
(* look for its id, and only the reissue of a letter that it has just stored *)
(* journals one: no worker has a letter with the block in hand.              *)
BlockIsSecond(letters) ==
  \A n \in DOMAIN letters : letters[n].block =>
    /\ letters[n].kind = "nachforderung"
    /\ \E m \in 1 .. n - 1 : letters[m].source = letters[n].source /\ ~ letters[m].block

OneBlockLetter(letters) ==
  \A n, m \in DOMAIN letters :
    letters[n].block /\ letters[m].block /\ letters[n].source = letters[m].source => n = m

OneBlockEvent(events) ==
  \A i, k \in At(events, "drafted") :
    events[i].block /\ events[k].block /\ events[i].source = events[k].source => i = k

Unjournaled(events, source) ==
  \A i \in At(events, "drafted") : events[i].block => events[i].source # source

BlockInv ==
  /\ ReviewInv
  /\ BlockIsSecond(store) /\ OneBlockLetter(store) /\ OneBlockEvent(journal)
  /\ reviewer.step = "redraft" => Unjournaled(journal, reviewer.letter.source)

(* A letter that is put behind the others leaves what is said of those.      *)
LEMMA LetterBehind ==
  ASSUME NEW p \in Seq(Letter), NEW l \in Letter, NEW q, q = Append(p, l),
         BlockIsSecond(p), OneBlockLetter(p),
         l.block => /\ l.kind = "nachforderung"
                    /\ \E m \in DOMAIN p : p[m].source = l.source /\ ~ p[m].block
                    /\ \A m \in DOMAIN p : p[m].block => p[m].source # l.source
  PROVE  BlockIsSecond(q) /\ OneBlockLetter(q)
<1>1. /\ DOMAIN p = 1 .. Len(p) /\ DOMAIN q = 1 .. Len(p) + 1 /\ Len(p) \in Nat
      /\ \A n \in 1 .. Len(p) : q[n] = p[n]
      /\ q[Len(p) + 1] = l
  BY AppendedElements
<1>2. ASSUME NEW n \in DOMAIN q, q[n].block
      PROVE  /\ q[n].kind = "nachforderung"
             /\ \E m \in 1 .. n - 1 : q[m].source = q[n].source /\ ~ q[m].block
  <2>1. CASE n = Len(p) + 1
    <3>1. q[n] = l /\ l.block /\ 1 .. n - 1 = DOMAIN p
      BY <1>1, <1>2, <2>1
    <3>2. PICK m \in DOMAIN p : p[m].source = l.source /\ ~ p[m].block
      BY <3>1
    <3>3. q[m] = p[m]
      BY <1>1
    <3>4. QED
      BY <3>1, <3>2, <3>3
  <2>2. CASE n \in DOMAIN p
    <3>1. q[n] = p[n] /\ \A m \in 1 .. n - 1 : q[m] = p[m]
      BY <1>1, <2>2
    <3>2. QED
      BY <1>2, <2>2, <3>1 DEF BlockIsSecond
  <2>3. QED
    BY <1>1, <2>1, <2>2
<1>3. OneBlockLetter(q)
  <2>1. \A n \in DOMAIN q : (n \in DOMAIN p /\ q[n] = p[n]) \/ (n = Len(p) + 1 /\ q[n] = l)
    BY <1>1
  <2>2. QED
    BY <2>1 DEF OneBlockLetter
<1>4. QED
  BY <1>2, <1>3 DEF BlockIsSecond

LEMMA EventBehind ==
  ASSUME NEW s \in Seq(Event), NEW e \in Event, NEW t, t = Append(s, e),
         OneBlockEvent(s),
         e.type = "drafted" /\ e.block => Unjournaled(s, e.source)
  PROVE  /\ OneBlockEvent(t)
         /\ \A source : Unjournaled(s, source)
              /\ (e.type = "drafted" /\ e.block => e.source # source)
              => Unjournaled(t, source)
<1>1. \A i \in At(t, "drafted") :
        \/ i \in At(s, "drafted") /\ t[i] = s[i]
        \/ i = Len(s) + 1 /\ t[i] = e /\ e.type = "drafted"
  <2>1. /\ DOMAIN s = 1 .. Len(s) /\ DOMAIN t = 1 .. Len(s) + 1 /\ Len(s) \in Nat
        /\ \A n \in 1 .. Len(s) : t[n] = s[n]
        /\ t[Len(s) + 1] = e
    BY AppendedElements
  <2>2. \A i \in DOMAIN t : i \in DOMAIN s \/ i = Len(s) + 1
    BY <2>1
  <2>3. QED
    BY <2>1, <2>2 DEF At
<1>2. ASSUME NEW i \in At(t, "drafted"), NEW k \in At(t, "drafted"),
             t[i].block, t[k].block, t[i].source = t[k].source
      PROVE  i = k
  <2>1. CASE t[i] = e /\ e.type = "drafted"
    <3>1. Unjournaled(s, e.source)
      BY <1>2, <2>1
    <3>2. ~ (k \in At(s, "drafted") /\ t[k] = s[k])
      BY <1>2, <2>1, <3>1 DEF Unjournaled
    <3>3. CASE i \in At(s, "drafted") /\ t[i] = s[i]
      BY <1>2, <3>1, <3>3, <2>1 DEF Unjournaled
    <3>4. QED
      BY <1>1, <3>2, <3>3
  <2>2. CASE t[k] = e /\ e.type = "drafted"
    <3>1. Unjournaled(s, e.source)
      BY <1>2, <2>2
    <3>2. ~ (i \in At(s, "drafted") /\ t[i] = s[i])
      BY <1>2, <2>2, <3>1 DEF Unjournaled
    <3>3. CASE k \in At(s, "drafted") /\ t[k] = s[k]
      BY <1>2, <3>1, <3>3, <2>2 DEF Unjournaled
    <3>4. QED
      BY <1>1, <3>2, <3>3
  <2>3. CASE (i \in At(s, "drafted") /\ t[i] = s[i]) /\ (k \in At(s, "drafted") /\ t[k] = s[k])
    BY <1>2, <2>3 DEF OneBlockEvent
  <2>4. QED
    BY <1>1, <2>1, <2>2, <2>3
<1>3. QED
  BY <1>1, <1>2 DEF OneBlockEvent, Unjournaled

(* Every step but the two of the reissue. *)
LEMMA NoBlockWritten ==
  ASSUME BlockInv, ReviewInv',
         \/ journal' = journal
         \/ \E e \in Event : journal' = Append(journal, e) /\ (e.type = "drafted" => ~ e.block),
         store' = store \/ \E l \in Letter : store' = Append(store, l) /\ ~ l.block,
         reviewer'.step = "redraft" => reviewer' = reviewer
  PROVE  BlockInv'
<1>1. journal \in Seq(Event) /\ store \in Seq(Letter)
  BY DEF BlockInv, ReviewInv, DraftInv, DraftTypeOK
<1>2. BlockIsSecond(store') /\ OneBlockLetter(store')
  BY <1>1, LetterBehind DEF BlockInv
<1>3. /\ OneBlockEvent(journal')
      /\ \A source : Unjournaled(journal, source) => Unjournaled(journal', source)
  <2>1. CASE journal' = journal
    BY <2>1 DEF BlockInv
  <2>2. ASSUME NEW e \in Event, journal' = Append(journal, e), e.type = "drafted" => ~ e.block
        PROVE  /\ OneBlockEvent(journal')
               /\ \A source : Unjournaled(journal, source) => Unjournaled(journal', source)
    BY <1>1, <2>2, EventBehind DEF BlockInv
  <2>3. QED
    BY <2>1, <2>2
<1>4. QED
  BY <1>2, <1>3 DEF BlockInv

LEMMA RedraftIsSecond ==
  ASSUME BlockInv, ReviewInv', Redraft
  PROVE  BlockInv'
<1>1. /\ reviewer.step = "prepare" /\ store # << >> /\ WantsBlock /\ journal' = journal
  BY DEF Redraft, NothingToSend
<1>2. store \in Seq(Letter) /\ journal \in Seq(Event) /\ ReviewInv
  BY DEF BlockInv, ReviewInv, DraftInv, DraftTypeOK
<1>3. PICK o \in StillOwed :
        LET letter == [Prepared EXCEPT !.gaps = o.gaps, !.block = TRUE] IN
        \/ Stored(letter) /\ Preparing("handover", letter) /\ store' = store
        \/ ~ Stored(letter) /\ store' = Append(store, letter) /\ Preparing("redraft", letter)
  BY DEF Redraft
<1> DEFINE l == [Prepared EXCEPT !.gaps = o.gaps, !.block = TRUE]
<1>4. l \in Letter /\ Prepared \in Letter
  BY <1>1, <1>2, StillOwedFits, LastLetter
<1>5. /\ l.source = Prepared.source /\ l.kind = "nachforderung" /\ l.block
      /\ ~ Prepared.block
  BY <1>1, <1>4 DEF Letter, WantsBlock
<1>6. CASE Stored(l) /\ Preparing("handover", l) /\ store' = store
  <2>1. reviewer'.step = "handover"
    BY <1>1, <1>2, <1>4, <1>6, PreparingOK DEF Reading
  <2>2. QED
    BY <1>1, <1>6, <2>1, NoBlockWritten
<1>7. CASE ~ Stored(l) /\ store' = Append(store, l) /\ Preparing("redraft", l)
  <2>1. Len(store) \in DOMAIN store /\ store[Len(store)] = Prepared
    BY <1>1, <1>2 DEF Prepared
  <2>2. \A m \in DOMAIN store : store[m].block => store[m].source # l.source
    <3>1. ASSUME NEW m \in DOMAIN store, store[m].block, store[m].source = l.source
          PROVE  Stored(l)
      <4>1. store[m].kind = "nachforderung"
        BY <3>1 DEF BlockInv, BlockIsSecond
      <4>2. store[m] \in Letter
        BY <1>2
      <4>3. store[m].block = l.block
        BY <1>5, <3>1, <4>2 DEF Letter
      <4>4. QED
        BY <1>5, <3>1, <4>1, <4>3 DEF Stored, SameId
    <3>2. QED
      BY <1>7, <3>1
  <2>3. reviewer'.letter = l
    BY <1>1, <1>2, <1>4, <1>7, PreparingOK DEF Reading
  <2> HIDE DEF l
  <2>4. BlockIsSecond(store') /\ OneBlockLetter(store')
    BY <1>2, <1>4, <1>5, <1>7, <2>1, <2>2, LetterBehind DEF BlockInv
  <2>5. Unjournaled(journal, l.source)
    <3>1. ASSUME NEW i \in At(journal, "drafted"), journal[i].block
          PROVE  journal[i].source # l.source
      <4>1. SavedIn(store, journal[i])
        BY DEF BlockInv, ReviewInv, DraftInv, EveryRecordSaved
      <4>2. PICK n \in DOMAIN store :
              store[n].source = journal[i].source /\ store[n].block = journal[i].block
        BY <4>1 DEF SavedIn
      <4>3. QED
        BY <2>2, <3>1, <4>2
    <3>2. QED
      BY <3>1 DEF Unjournaled
  <2>6. QED
    BY <1>1, <2>3, <2>4, <2>5 DEF BlockInv
<1>8. QED
  BY <1>3, <1>6, <1>7

LEMMA JournaledOnce ==
  ASSUME BlockInv, ReviewInv', JournalRedraft
  PROVE  BlockInv'
<1> DEFINE e == [type |-> "drafted", source |-> reviewer.letter.source,
                 block |-> reviewer.letter.block]
<1>1. /\ reviewer.step = "redraft" /\ journal' = Append(journal, e) /\ store' = store
      /\ reviewer' = [reviewer EXCEPT !.step = "handover"]
  BY DEF JournalRedraft, Emit
<1>2. reviewer \in Handling /\ reviewer.letter \in Letter
  BY <1>1, AtStep DEF BlockInv, Reading, ReviewerOK
<1>3. e \in Event
  BY <1>2 DEF Event, DraftEvent, Drafted, Letter
<1>4. Unjournaled(journal, e.source)
  BY <1>1 DEF BlockInv
<1>5. reviewer'.step = "handover"
  BY <1>1, <1>2 DEF Handling
<1>6. journal \in Seq(Event)
  BY DEF BlockInv, ReviewInv, DraftInv
<1> HIDE DEF e
<1>7. OneBlockEvent(journal')
  BY <1>1, <1>3, <1>4, <1>6, EventBehind DEF BlockInv
<1>8. QED
  BY <1>1, <1>5, <1>7 DEF BlockInv

LEMMA BlockStepReviewed == BlockInv /\ [ReviewNext]_vars => BlockInv'
<1> SUFFICES ASSUME BlockInv, [ReviewNext]_vars PROVE BlockInv'
  OBVIOUS
<1>0. ReviewInv /\ ReviewInv'
  BY ReviewStep DEF BlockInv
<1>1. CASE DraftNext /\ UNCHANGED <<reviewer, stubs, reviews>>
  BY <1>0, <1>1, WorkerWrites, DraftTypes, NoBlockWritten DEF ReviewInv
<1>2. CASE EmitOverride
  <2>1. reviewer.event \in Event /\ reviewer.event.type = "overridden"
    BY <1>0, <1>2, AtStep DEF EmitOverride, Event, TierMove, UnitMove
  <2>2. QED
    BY <1>0, <1>2, <2>1, NoBlockWritten DEF EmitOverride, Emit, Idle
<1>3. CASE EmitConfirmed
  <2>1. PICK e \in Event : e.type = "confirmed" /\ journal' = Append(journal, e)
    <3> DEFINE seen == Prefix(reviewer.seen)
               l == reviewer.letter
               e == [type |-> "confirmed", tier |-> EffectiveTier(seen),
                     since |-> ClockStart(seen),
                     sent |-> IF l = None THEN None ELSE IdOf(l),
                     optin |-> reviewer.form.optin]
    <3>1. reviewer \in Handling /\ reviewer.seen <= Len(journal) /\ journal \in Seq(Event)
      BY <1>0, <1>3, AtStep DEF EmitConfirmed, Reading, ReviewerOK, ReviewInv, DraftInv
    <3>2. reviewer.seen \in 0 .. Len(journal)
      BY <3>1 DEF Handling
    <3>3. seen \in Seq(Event)
      BY <3>1, <3>2, PrefixOf DEF Prefix
    <3>4. EffectiveTier(seen) \in 0 .. 3 /\ ClockStart(seen) \in Nat
      BY <3>3, EffectiveTyped
    <3>5. l = None \/ IdOf(l) \in LetterId
      BY <3>1 DEF Handling, Letter, IdOf, LetterId
    <3>6. reviewer.form.optin \in BOOLEAN
      BY <3>1 DEF Handling, Form
    <3> HIDE DEF seen
    <3>7. e \in Event /\ e.type = "confirmed"
      BY <3>4, <3>5, <3>6 DEF Event, ConfirmedEvent
    <3>8. journal' = Append(journal, e)
      BY <1>3 DEF EmitConfirmed, Emit, seen
    <3> HIDE DEF e
    <3>9. QED
      BY <3>7, <3>8
  <2>2. store' = store /\ reviewer'.step # "redraft"
    BY <1>3 DEF EmitConfirmed, Idle
  <2>3. QED
    BY <1>0, <2>1, <2>2, NoBlockWritten
<1>4. CASE \/ StartOverride \/ StartEscalate \/ StartConfirm \/ RefuseBlock \/ Handover
           \/ RefuseUnnamed \/ ReviewerRaises \/ ReviewerDies
           \/ (\E w \in Worker : WorkerRaises(w)) \/ UNCHANGED vars
  <2>1. journal' = journal /\ store' = store
    BY <1>4 DEF StartOverride, StartEscalate, StartConfirm, RefuseBlock, Handover,
       RefuseUnnamed, ReviewerRaises, ReviewerDies, WorkerRaises, vars, draftVars
  <2>2. reviewer'.step = "redraft" => reviewer' = reviewer
    <3>1. CASE Handover
      <4>1. reviewer \in Handling
        BY <1>0, <3>1, AtStep DEF Handover, Reading
      <4>2. QED
        BY <3>1, <4>1 DEF Handover, Handling
    <3>2. CASE ~ Handover
      BY <1>4, <3>2 DEF StartOverride, StartEscalate, StartConfirm, RefuseBlock,
         RefuseUnnamed, ReviewerRaises, ReviewerDies, WorkerRaises, vars, Idle
    <3>3. QED
      BY <3>1, <3>2
  <2>3. QED
    BY <1>0, <2>1, <2>2, NoBlockWritten
<1>5. CASE PrepareStored
  <2>1. journal' = journal /\ store' = store
    BY <1>5 DEF PrepareStored, draftVars
  <2>2. /\ reviewer \in Handling
        /\ \E step \in {"confirm", "handover"} : \E letter : Preparing(step, letter)
    BY <1>0, <1>5, AtStep DEF PrepareStored, Reading
  <2>3. reviewer'.step # "redraft"
    BY <2>2 DEF Preparing, Handling
  <2>4. QED
    BY <1>0, <2>1, <2>3, NoBlockWritten
<1>6. QED
  BY <1>0, <1>1, <1>2, <1>3, <1>4, <1>5, RedraftIsSecond, JournaledOnce DEF ReviewNext

(* However often the box is ticked, whatever copies racing workers left in    *)
(* the store and whoever dies between the save and the event: the letter with *)
(* the block is a second letter of a decision that owed a request, and there  *)
(* is one of it and one event for it.                                         *)
THEOREM OneBlockPerDecision == ReviewSpec => []TheBlockIsALetterOfItsOwn
<1>1. ReviewInit => BlockInv
  <2> SUFFICES ASSUME ReviewInit PROVE BlockInv
    OBVIOUS
  <2>1. DOMAIN store = {} /\ DOMAIN journal = {} /\ reviewer.step # "redraft"
    BY DEF ReviewInit, Init, Idle
  <2>2. QED
    BY <2>1, InitReview DEF BlockInv, BlockIsSecond, OneBlockLetter, OneBlockEvent, At
<1>2. ASSUME BlockInv PROVE TheBlockIsALetterOfItsOwn
  <2>1. ASSUME NEW n \in DOMAIN store, store[n].block
        PROVE  /\ store[n].kind = "nachforderung" /\ journal[store[n].source].tier = 2
               /\ \E m \in 1 .. n - 1 : store[m].source = store[n].source /\ ~ store[m].block
    <3>1. Fits(journal, store[n])
      BY <1>2 DEF BlockInv, ReviewInv, DraftInv, EveryLetterFits
    <3>2. QED
      BY <1>2, <2>1, <3>1 DEF BlockInv, BlockIsSecond, Fits
  <2>2. ASSUME NEW i \in At(journal, "decided")
        PROVE  Cardinality({n \in DOMAIN store : store[n].source = i /\ store[n].block}) <= 1
    <3> DEFINE S == {n \in DOMAIN store : store[n].source = i /\ store[n].block}
    <3>1. \A n, m \in S : n = m
      BY <1>2 DEF BlockInv, OneBlockLetter
    <3> HIDE DEF S
    <3>2. Cardinality(S) <= 1
      BY <3>1, NoTwo
    <3>3. QED
      BY <3>2 DEF S
  <2>3. ASSUME NEW i \in At(journal, "decided")
        PROVE  Cardinality({k \in At(journal, "drafted") :
                              journal[k].source = i /\ journal[k].block}) <= 1
    <3> DEFINE S == {k \in At(journal, "drafted") : journal[k].source = i /\ journal[k].block}
    <3>1. \A n, m \in S : n = m
      BY <1>2 DEF BlockInv, OneBlockEvent
    <3> HIDE DEF S
    <3>2. Cardinality(S) <= 1
      BY <3>1, NoTwo
    <3>3. QED
      BY <3>2 DEF S
  <2>4. QED
    BY <2>1, <2>2, <2>3 DEF TheBlockIsALetterOfItsOwn
<1>3. QED
  BY <1>1, <1>2, BlockStepReviewed, PTL DEF ReviewSpec
=============================================================================
