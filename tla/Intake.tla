------------------------------- MODULE Intake -------------------------------
(***************************************************************************)
(* The privacy boundary of one case: a submission is sealed, swept, sealed  *)
(* once more or refused (engine/redact/boundary.py); its sealed values go   *)
(* into the vault and then its RECEIVED into the journal                    *)
(* (engine/ingest/envelope.py); the checker reads sealed values through the *)
(* request's witness; a letter gets them back from the vault                *)
(* (engine/draft/rehydrate.py).  The same submission id may be posted again *)
(* with other content, while the first request is still at work.            *)
(***************************************************************************)
EXTENDS Naturals, Sequences, Functions

CONSTANTS
  Request,      \* request threads and the replay
  Declared,     \* payload paths the identity policy seals
  Witnessed,    \* those of them whose value the checker may resolve
  Open,         \* payload paths it does not name
  Odd,          \* leaves whose path does not lead back to them (a dotted key)
  Prose,        \* pieces of the text part, in reading order of no matter
  Required,     \* the payload paths a procedure maps
  Submission,   \* what is posted
  MaxPosts,     \* bound on the posts of the case
  MaxCrashes    \* bound on requests that die, or lose a race for an append

Place == Declared \cup Open \cup Odd \cup Prose

(* What stands at a place: nothing; a value no recognizer knows; one the     *)
(* sweeps know; one they know only beside a placeholder; text that imitates  *)
(* a placeholder; a well-formed placeholder nobody minted.                   *)
Shape == {"absent", "plain", "identity", "seam", "imitation", "foreign"}

ASSUME IntakeAssumption ==
  /\ Open \cap Declared = {} /\ Odd \cap (Declared \cup Open) = {}
  /\ Prose \cap (Declared \cup Open \cup Odd) = {} /\ "own" \notin Place
  /\ Witnessed \subseteq Declared /\ Required \subseteq Declared \cup Open
  /\ Required \cap Declared \subseteq Witnessed    \* check_witnessless_seals
  /\ Submission \subseteq [Place -> Shape]
  /\ MaxPosts \in Nat /\ MaxCrashes \in Nat

Post == 1 .. MaxPosts

(* Token n, p, r was minted for place p of post n in round r of its sealing; *)
(* n, "own" came with post n.  No draw meets a token of another post: 57     *)
(* bits.                                                                     *)
Token == [post : Post, for : Place \cup {"own"}, round : 1 .. 2]
Value == [at : Place, by : Post, shape : Shape]

(* What is left of a placeholder when a hit covers a part of it: the hit's   *)
(* own token inside the old brackets.                                        *)
Torn == [torn : Token]

Copy == [Place -> Value \cup Token \cup Torn]

(* The original of an entry is the text as it stood when it was sealed, which *)
(* in the second round may be a placeholder of the first.                    *)
Entry == [token : Token, value : Value \cup Token \cup Torn, at : Place]

VARIABLES
  posted,      \* the submissions of the case as received
  vault,       \* the sealed records, per post
  journal,     \* the RECEIVED and TIER_DECIDED events of the case
  letters,     \* the draft store
  job,         \* per request, the call it is inside of
  refused,     \* posts answered with RedactionRefusedError
  crashes

vars == <<posted, vault, journal, letters, job, refused, crashes>>

Received == [type : {"received"}, post : Post]
TierDecided == [type : {"decided"}, post : Post, tier : 1 .. 3]
Letter == [answers : Nat, record : Post, states : SUBSET Value]

Resting == [step |-> "rest"]
Redacting == [step : {"redact"}, post : Post]
Carrying == [step : {"vault", "receive", "decide", "draft"}, post : Post,
             copy : Copy, entries : SUBSET Entry, witness : SUBSET Entry]

TypeOK ==
  /\ posted \in Seq(Submission) /\ Len(posted) <= MaxPosts
  /\ \A n \in DOMAIN vault : n \in Post /\ vault[n] \subseteq Entry
  /\ journal \in Seq(Received \cup TierDecided)
  /\ letters \subseteq Letter
  /\ job \in [Request -> {Resting} \cup Redacting \cup Carrying]
  /\ refused \subseteq Post /\ crashes \in 0 .. MaxCrashes

Init ==
  /\ posted = << >> /\ vault = << >> /\ journal = << >>
  /\ letters = {} /\ refused = {} /\ crashes = 0
  /\ job = [w \in Request |-> Resting]

-----------------------------------------------------------------------------
IsToken(item) == "for" \in DOMAIN item
IsTorn(item) == "torn" \in DOMAIN item
IsValue(item) == "shape" \in DOMAIN item
OwnToken(n) == [post |-> n, for |-> "own", round |-> 1]

(* The payload and the text of post n, as received. *)
AsReceived(n) ==
  [p \in Place |-> IF posted[n][p] = "foreign" THEN OwnToken(n)
                   ELSE [at |-> p, by |-> n, shape |-> posted[n][p]]]

(* seal_payload: every declared value but an absent one and a placeholder.   *)
SealedPlaces(copy) ==
  {p \in Declared : IsValue(copy[p]) /\ copy[p].shape # "absent"}

(* A seam shows in prose that has a placeholder in it. *)
IsSeam(copy, p) ==
  /\ p \in Prose /\ IsValue(copy[p]) /\ copy[p].shape = "seam"
  /\ \E q \in Prose : IsToken(copy[q])

(* seal_text scans the prose as it is, placeholders unmasked: every identity *)
(* is found, and so may be a seam, an imitation or a placeholder, whose      *)
(* letters the statistical recognizer takes for a name.                      *)
Known(copy) == {p \in Prose : IsValue(copy[p]) /\ copy[p].shape = "identity"}

Maybe(copy) ==
  {p \in Prose : \/ ~ IsValue(copy[p]) \/ IsSeam(copy, p)
                 \/ IsValue(copy[p]) /\ copy[p].shape = "imitation"}

(* A hit takes a piece as a whole (of a placeholder all, its start, or just  *)
(* what is in its brackets: what is left imitates none), or cuts it inside,  *)
(* which leaves [[PII|K|[[...]]...]].                                        *)
Scans(copy) ==
  UNION {{[whole |-> Known(copy) \cup M, part |-> B] :
            B \in SUBSET {p \in Prose \ M : IsToken(copy[p])}} : M \in SUBSET Maybe(copy)}

Hit(scan) == scan.whole \cup scan.part

(* Mutant: only what was minted before is re-drawn. *)
UsableIfNew(t, n, issued) == t \notin issued

(* PlaceholderRegistry._usable: not issued, not in the submission. *)
Usable(t, n, issued) == t \notin issued \cup Range(AsReceived(n))

(* mint, once per place of S: whatever the source draws, and one draw may    *)
(* meet a token that was issued or that the submission brought (two would be *)
(* equal).                                                                   *)
Draws(n, S, round, issued) ==
  {d \in {[p \in S |-> IF p \in lucky THEN t ELSE [post |-> n, for |-> p, round |-> round]] :
            lucky \in {{}} \cup {{p} : p \in S}, t \in {OwnToken(n)} \cup issued} :
     \A p \in S : Usable(d[p], n, issued)}

(* The text a round leaves: part are the placeholders it cut. *)
Substituted(copy, draw, part) ==
  [p \in Place |-> IF p \in part THEN [torn |-> draw[p]]
                   ELSE IF p \in DOMAIN draw THEN draw[p] ELSE copy[p]]

(* Mutant: no entry for text that is a placeholder already. *)
SealedAfresh(copy, draw) ==
  {[token |-> draw[p], value |-> copy[p], at |-> p] :
     p \in {q \in DOMAIN draw : IsValue(copy[q])}}

Sealed(copy, draw) ==
  {[token |-> draw[p], value |-> copy[p], at |-> p] : p \in DOMAIN draw}

(* _sweep: what the recognizers find, in the text with its placeholders      *)
(* masked, and whatever imitates a placeholder, as one that was cut does.    *)
Residue(copy) ==
  {p \in Place :
     \/ IsTorn(copy[p]) \/ IsSeam(copy, p)
     \/ IsValue(copy[p]) /\ copy[p].shape \in {"identity", "imitation"}}

(* _auto_seal takes the leaves whose path it can follow. *)
AutoSealed(copy) == Residue(copy) \cap Open

(* _reseal_texts: a part that has residue is scanned once more.              *)
Rescans(copy) ==
  IF Residue(copy) \cap Prose = {} THEN {[whole |-> {}, part |-> {}]} ELSE Scans(copy)

(* Mutant: a leaf the sweep sealed does not get into the witness. *)
WitnessOfPolicy(entries) == {e \in entries : e.at \in Witnessed \cup Prose}

(* What a request knows about its placeholders while it lasts. *)
WitnessOf(entries) == {e \in entries : e.at \notin Declared \ Witnessed}

Rest(w) == job' = [job EXCEPT ![w] = Resting]

-----------------------------------------------------------------------------
Submit(w) ==
  /\ job[w] = Resting /\ Len(posted) < MaxPosts
  /\ \E s \in Submission : posted' = Append(posted, s)
  /\ job' = [job EXCEPT ![w] = [step |-> "redact", post |-> Len(posted) + 1]]
  /\ UNCHANGED <<vault, journal, letters, refused, crashes>>

Accept(w, copy, entries) ==
  /\ job' = [job EXCEPT ![w] = [step |-> "vault", post |-> @.post, copy |-> copy,
                                entries |-> entries, witness |-> WitnessOf(entries)]]
  /\ UNCHANGED refused

(* Mutant: what the first sweep found counts as handled. *)
ConcludeTrusting(w, copy, entries) == Accept(w, copy, entries)

(* The last sweep: go on, or RedactionRefusedError. *)
Conclude(w, copy, entries) ==
  \/ Residue(copy) = {} /\ Accept(w, copy, entries)
  \/ /\ Residue(copy) # {}
     /\ refused' = refused \cup {job[w].post}
     /\ Rest(w)

(* redact_payload: one round of sealing, and a second for what the sweep     *)
(* found.                                                                    *)
Redact(w) ==
  /\ job[w].step = "redact"
  /\ LET n == job[w].post
         raw == AsReceived(n)
     IN \E first \in Scans(raw) :
        \E d \in Draws(n, SealedPlaces(raw) \cup Hit(first), 1, {}) :
        LET once == Substituted(raw, d, first.part) IN
        \/ Residue(once) = {} /\ Conclude(w, once, Sealed(raw, d))
        \/ /\ Residue(once) # {}
           /\ \E again \in Rescans(once) :
              \E e \in Draws(n, AutoSealed(once) \cup Hit(again), 2, Range(d)) :
                Conclude(w, Substituted(once, e, again.part),
                         Sealed(raw, d) \cup Sealed(once, e))
  /\ UNCHANGED <<posted, vault, journal, letters, crashes>>

(* Mutant: the record goes into a store of the request's own. *)
SealVaultDiscarded(w) ==
  /\ job[w].step = "vault"
  /\ job' = [job EXCEPT ![w].step = "receive"]
  /\ UNCHANGED <<posted, vault, journal, letters, refused, crashes>>

(* store.seal(outcome.record), under a handle nobody else draws. *)
SealVault(w) ==
  /\ job[w].step = "vault"
  /\ vault' = [n \in DOMAIN vault \cup {job[w].post} |->
                 IF n = job[w].post THEN job[w].entries ELSE vault[n]]
  /\ job' = [job EXCEPT ![w].step = "receive"]
  /\ UNCHANGED <<posted, journal, letters, refused, crashes>>

EmitReceived(w) ==
  /\ job[w].step = "receive"
  /\ journal' = Append(journal, [type |-> "received", post |-> job[w].post])
  /\ job' = [job EXCEPT ![w].step = "decide"]
  /\ UNCHANGED <<posted, vault, letters, refused, crashes>>

-----------------------------------------------------------------------------
(* _resolve: what a validator sees of an item; nothing if it sees nothing.   *)
Resolved(item, witness) ==
  IF IsToken(item) THEN {e.value : e \in {f \in witness : f.token = item}}
  ELSE {v \in {item} : v.shape # "absent"}

(* evaluate_completeness: every required value is there.                     *)
Complete(copy, witness) == \A p \in Required : Resolved(copy[p], witness) # {}

(* The rest of run_pipeline: tier 1 takes a complete item; a value that is   *)
(* there may still fail its pattern or its rule.                             *)
Decide(w) ==
  /\ job[w].step = "decide"
  /\ \E t \in 1 .. 3 :
       /\ t = 1 => Complete(job[w].copy, job[w].witness)
       /\ journal' = Append(journal, [type |-> "decided", post |-> job[w].post, tier |-> t])
  /\ job' = [job EXCEPT ![w].step = "draft"]
  /\ UNCHANGED <<posted, vault, letters, refused, crashes>>

At(type) == {i \in DOMAIN journal : journal[i].type = type}

(* The record a letter of the case is written from: the newest RECEIVED's.   *)
CaseRecord ==
  journal[CHOOSE i \in At("received") : \A j \in At("received") : j <= i].post

(* facts_from: the mapped leaves that have a value. *)
FactsOf(copy) ==
  {copy[p] : p \in {q \in Required : IsToken(copy[q]) \/ copy[q].shape # "absent"}}

(* addressee_slots *)
Addressee(n) == {e.token : e \in {f \in vault[n] : f.at \in Declared}}

(* Mutant: a token may resolve in any record of the case. *)
EntriesForAny(t, n) == {e \in UNION Range(vault) : e.token = t}

EntriesFor(t, n) == {e \in vault[n] : e.token = t}

(* rehydrate: every token of the text has its entry, and nothing that is or  *)
(* looks like a placeholder is left.                                         *)
Restored(items, n) ==
  {v \in items : ~ IsToken(v)}
  \cup UNION {{e.value : e \in EntriesFor(t, n)} : t \in {i \in items : IsToken(i)}}

Rehydrates(items, n) ==
  /\ \A t \in items : IsToken(t) => EntriesFor(t, n) # {}
  /\ \A v \in Restored(items, n) : IsValue(v) /\ v.shape # "imitation"

(* draft_case over the journal as it is now: one letter for each decision    *)
(* that has none, as far as it can be written.                               *)
TextOf(i, facts) ==
  Addressee(CaseRecord) \cup (IF journal[i].tier = 1 THEN facts ELSE {})

Writable(facts) ==
  {i \in At("decided") :
     /\ journal[i].tier # 3 /\ \A l \in letters : l.answers # i
     /\ journal[i].tier = 1 => facts # {}
     /\ Rehydrates(TextOf(i, facts), CaseRecord)}

DraftCase(facts) ==
  letters' = letters \cup
    {[answers |-> i, record |-> CaseRecord,
      states |-> Restored(TextOf(i, facts), CaseRecord)] : i \in Writable(facts)}

Draft(w) ==
  /\ job[w].step = "draft"
  /\ DraftCase(FactsOf(job[w].copy))
  /\ Rest(w)
  /\ UNCHANGED <<posted, vault, journal, refused, crashes>>

(* engine.draft.replay has no facts. *)
Replay(w) ==
  /\ job[w] = Resting /\ At("received") # {} /\ Writable({}) # {}
  /\ DraftCase({})
  /\ UNCHANGED <<posted, vault, journal, job, refused, crashes>>

(* The request dies, or another one takes the number of its event. *)
Crash(w) ==
  /\ job[w] # Resting /\ crashes < MaxCrashes
  /\ crashes' = crashes + 1
  /\ Rest(w)
  /\ UNCHANGED <<posted, vault, journal, letters, refused>>

Next ==
  \E w \in Request :
    \/ Submit(w) \/ Redact(w) \/ SealVault(w) \/ EmitReceived(w) \/ Decide(w)
    \/ Draft(w) \/ Replay(w) \/ Crash(w)

Spec == Init /\ [][Next]_vars

-----------------------------------------------------------------------------
Carries(w) == job[w].step \in {"vault", "receive", "decide", "draft"}

(* "Never forward content the boundary could not verify" (boundary.py:21):   *)
(* a request that goes on carries nothing a sweep would find, although the   *)
(* second round changes the very text the first one verified.                *)
WorkingCopyIsClean == \A w \in Request : Carries(w) => Residue(job[w].copy) = {}

(* What an item of a working copy was before it was sealed. *)
TokenOf(item) == IF IsTorn(item) THEN item.torn ELSE item

Before(item, entries) ==
  LET back == {e.value : e \in {f \in entries : f.token = TokenOf(item)}}
  IN IF back = {} THEN {item} ELSE back

(* The vault stores the truth (SealedEntry): putting each token's entry back *)
(* into the working copy, and once more into what that gives, yields the     *)
(* submission as received, piece by piece, whatever tokens were drawn,       *)
(* whatever placeholders the submission brought (PlaceholderRegistry         *)
(* .reserved), and also where the second round sealed what the first had     *)
(* put there.  Putting back once is not enough: README, section 6.           *)
SealIsReversible ==
  \A w \in Request : Carries(w) =>
    LET entries == job[w].entries IN
    \A p \in Place :
      UNION {Before(item, entries) : item \in Before(job[w].copy[p], entries)}
        = {AsReceived(job[w].post)[p]}

(* "Presence is preserved" and "the witness hands over exactly what the      *)
(* mapper would have produced" (seal.py:24): a mapped path validates as the  *)
(* value that was sent, sealed by the policy, by the sweep, or not at all;   *)
(* only a placeholder of the submission's own resolves to nothing.           *)
ValidatesWhatWasSent ==
  \A w \in Request : Carries(w) =>
    \A p \in Required :
      LET raw == AsReceived(job[w].post)[p]
      IN Resolved(job[w].copy[p], job[w].witness)
           = IF IsToken(raw) THEN {} ELSE {v \in {raw} : v.shape # "absent"}

(* What the boundary promises of the copy it lets through: clean, the same   *)
(* submission when the entries are put back, and the same answers for the    *)
(* completeness check ("seal identity at ingest, verify what passes",        *)
(* engine/redact/__init__.py).                                               *)
TheCopyStandsForTheSubmission ==
  WorkingCopyIsClean /\ SealIsReversible /\ ValidatesWhatWasSent

(* "A refused item leaves no half-ingested case" (ingest_submission), and a  *)
(* received one can be written to: its record is in the vault before its     *)
(* RECEIVED is in the journal, whoever dies in between.                      *)
ReceivedIsSealed ==
  /\ \A i \in At("received") :
       LET n == journal[i].post IN
       /\ n \in DOMAIN vault
       /\ \A p \in Declared : posted[n][p] \notin {"absent", "foreign"} =>
            \E e \in vault[n] : e.value = AsReceived(n)[p]
  /\ refused \cap DOMAIN vault = {}

(* A token cannot resolve to another submission's data (rehydrate): what a   *)
(* letter says of a person is of the submission its record belongs to, also  *)
(* when a second post arrives between a request's facts and its letter.      *)
IdentityIsOfOneRecord ==
  \A l \in letters : \A v \in l.states :
    v.at \in Declared \/ v.shape = "identity" => v.by = l.record
=============================================================================
