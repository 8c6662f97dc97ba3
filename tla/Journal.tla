------------------------------ MODULE Journal ------------------------------
(***************************************************************************)
(* The append-only journal of ONE case (engine/journal/store.py) as its    *)
(* concurrent writers use it: request threads of the API and the replay    *)
(* command lines.  `emit` is three separate steps - number the event, check *)
(* it against the stored list, write the line - and nothing in the store   *)
(* holds a lock across them.                                                *)
(***************************************************************************)
EXTENDS Naturals, Sequences, FiniteSets, Functions

CONSTANTS
  Writer,     \* threads and processes that emit into this case
  Payload,    \* what an event says, as far as a component tells it apart
  MayTear,    \* TRUE for the JSONL store: a crash may truncate the last line
  MaxEvents   \* bound on the events ever built

ASSUME JournalAssumption == MayTear \in BOOLEAN /\ MaxEvents \in Nat

VARIABLES
  log,        \* the stored events, in the order their lines were written
  torn,       \* the file ends in a truncated line
  minted,     \* how many events were ever built: event ids are fresh uuid4s
  emitting    \* per writer, the `emit` it is inside of

vars == <<log, torn, minted, emitting>>

Event == [id : Nat, sequence : Nat, payload : Payload]

Idle == [phase |-> "idle"]
InEmit == [phase : {"numbered", "checked"}, event : Event]

TypeOK ==
  /\ log \in Seq(Event)
  /\ torn \in BOOLEAN
  /\ minted \in Nat
  /\ emitting \in [Writer -> {Idle} \cup InEmit]

Init ==
  /\ log = <<>>
  /\ torn = FALSE
  /\ minted = 0
  /\ emitting = [w \in Writer |-> Idle]

(* `read`: while the file ends in a truncated line, that line fails          *)
(* validation and the whole call raises.                                    *)
Readable == ~torn

Ids == {e.id : e \in Range(log)}

(* `_check_appendable`: the next sequence number and an unknown event id.   *)
Appendable(e) == e.sequence = Len(log) /\ e.id \notin Ids

(* emit: next_sequence, then make_event with a fresh id. *)
Mint(w, p) ==
  /\ emitting[w] = Idle
  /\ Readable
  /\ minted < MaxEvents
  /\ minted' = minted + 1
  /\ emitting' = [emitting EXCEPT ![w] =
       [phase |-> "numbered",
        event |-> [id |-> minted + 1, sequence |-> Len(log), payload |-> p]]]
  /\ UNCHANGED <<log, torn>>

(* append, first half: read the file again and check the event against it. *)
Accept(w) ==
  /\ emitting[w].phase = "numbered"
  /\ Readable
  /\ Appendable(emitting[w].event)
  /\ emitting' = [emitting EXCEPT ![w].phase = "checked"]
  /\ UNCHANGED <<log, torn, minted>>

(* SequenceConflictError or DuplicateEventError, or a file that cannot be   *)
(* read any more: the exception leaves emit and the event is gone.          *)
Refuse(w) ==
  /\ emitting[w].phase = "numbered"
  /\ ~Readable \/ ~Appendable(emitting[w].event)
  /\ emitting' = [emitting EXCEPT ![w] = Idle]
  /\ UNCHANGED <<log, torn, minted>>

(* Mutant: the writer repeats a write it has already done. *)
WriteAgain(w) ==
  /\ emitting[w].phase = "checked"
  /\ log' = IF Readable /\ Len(log) < MaxEvents + 1
              THEN Append(log, emitting[w].event) ELSE log
  /\ UNCHANGED <<emitting, torn, minted>>

(* append, second half: one line at the end of the file.  Behind a          *)
(* truncated line the text is glued to it and never becomes an event.       *)
Write(w) ==
  /\ emitting[w].phase = "checked"
  /\ log' = IF Readable THEN Append(log, emitting[w].event) ELSE log
  /\ emitting' = [emitting EXCEPT ![w] = Idle]
  /\ UNCHANGED <<torn, minted>>

(* The writer dies inside emit, before its line is complete. *)
Crash(w) ==
  /\ emitting[w] # Idle
  /\ emitting' = [emitting EXCEPT ![w] = Idle]
  /\ \/ torn' = torn
     \/ MayTear /\ emitting[w].phase = "checked" /\ torn' = TRUE
  /\ UNCHANGED <<log, minted>>

Emit(w) == (\E p \in Payload : Mint(w, p)) \/ Accept(w) \/ Refuse(w) \/ Write(w)

Next == \E w \in Writer : Emit(w) \/ Crash(w)

Spec == Init /\ [][Next]_vars

----------------------------------------------------------------------------
(* The damage a lost race can do is bounded: events that share one sequence *)
(* number were all checked at the same length, so there are at most as many *)
(* as there are writers.                                                    *)
SharedSequenceBounded ==
  \A s \in 0..Len(log) :
    Cardinality({i \in 1..Len(log) : log[i].sequence = s}) <= Cardinality(Writer)

(* "A monotonic sequence starting at 0" (store.py:6): the number of an      *)
(* event is its position.                                                   *)
SequenceIsPosition == \A i \in 1..Len(log) : log[i].sequence = i - 1

(* A writer that is alone is never refused: SequenceConflictError speaks    *)
(* only of other writers (store.py:8).                                      *)
NeverRefusedAlone ==
  \A w \in Writer : emitting[w].phase = "numbered" => Appendable(emitting[w].event)
=============================================================================
