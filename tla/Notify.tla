------------------------------- MODULE Notify -------------------------------
(***************************************************************************)
(* The notification worker (engine/notify/projection.py) over the journal  *)
(* of one case and the applicant's outbox (engine/notify/outbox.py).  The   *)
(* workers are the request threads of POST /ingest, which journal RECEIVED  *)
(* and ROUTED and then run the fold inline, and the replay command line;    *)
(* each may die at any point, and nothing serialises them.                  *)
(***************************************************************************)
EXTENDS Naturals, Sequences, FiniteSets, Functions

CONSTANTS
  Worker,
  Template,      \* template ids of the notification config
  NoTemplate,    \* a trigger no template is configured for
  Configs,       \* the configs in force: trigger -> template or NoTemplate
  MaxTriggers,   \* bound on the trigger events journaled for the case
  MaxCrashes,    \* bound on the crashes of a worker
  MaxEvents      \* bound on the events ever built (Journal)

(* TRIGGER_EVENT_TYPES, plus the events that owe nothing. *)
Trigger == {"received", "routed"}

ASSUME NotifyAssumption ==
  /\ NoTemplate \notin Template
  /\ Configs \subseteq [Trigger -> Template \cup {NoTemplate}]
  /\ MaxTriggers \in Nat /\ MaxCrashes \in Nat /\ MaxEvents \in Nat

TriggerEvent == [type : Trigger]
NotifiedEvent == [type : {"notified"}, source : Nat]
Payload == TriggerEvent \cup NotifiedEvent

VARIABLES
  log, torn, minted, emitting,   \* the case's journal: see Journal
  outbox,                  \* delivered entries, oldest first
  job,                     \* per worker, the run it is inside of
  crashes

journal == <<log, torn, minted, emitting>>
vars == <<log, torn, minted, emitting, outbox, job, crashes>>

(* Lines are written whole here; Journal says what a truncated one does.    *)
J == INSTANCE Journal WITH Writer <- Worker, MayTear <- FALSE

(* notification_id_for: a function of these two and of nothing else. *)
Item == [source : Nat, template : Template]

(* What a worker is doing: `todo` is what its fold said the case owes and    *)
(* it has not turned to yet, `item` the message it is dispatching.          *)
Resting == [step |-> "rest"]
Ingesting == [step |-> "ingest"]
Picking == [step : {"pick"}, config : Configs, todo : SUBSET J!Event]
Dispatching == [step : {"deliver", "record"}, config : Configs,
                todo : SUBSET J!Event, item : Item]

TypeOK ==
  /\ J!TypeOK
  /\ outbox \in Seq(Item)
  /\ job \in [Worker -> {Resting, Ingesting} \cup Picking \cup Dispatching]
  /\ crashes \in Nat

Init ==
  /\ J!Init
  /\ outbox = <<>>
  /\ job = [w \in Worker |-> Resting]
  /\ crashes = 0

(* notified_source_event_ids *)
NotifiedSources == {e.payload.source : e \in {f \in Range(log) : f.payload.type = "notified"}}

Owing(c) == {e \in Range(log) : e.payload.type \in Trigger /\ c[e.payload.type] # NoTemplate}

(* owed_notifications: the events that owe a message and are not recorded. *)
Owed(c) == {e \in Owing(c) : e.id \notin NotifiedSources}

ItemOf(c, e) == [source |-> e.id, template |-> c[e.payload.type]]

(* The list a worker folded is in the journal's order. *)
Earliest(e, S) == \A f \in S : e.sequence <= f.sequence

(* The pipeline of an ingest: emit one of the trigger events. *)
Ingest(w, t) ==
  /\ job[w] = Resting
  /\ Cardinality({i \in 1..Len(log) : log[i].payload.type \in Trigger})
       + Cardinality({v \in Worker : job[v].step = "ingest"}) < MaxTriggers
  /\ J!Mint(w, [type |-> t])
  /\ job' = [job EXCEPT ![w] = Ingesting]
  /\ UNCHANGED <<outbox, crashes>>

(* notify_case, first half: fold the events that were read, and return at   *)
(* once when nothing is owed.                                               *)
StartRun(w, c) ==
  /\ job[w] = Resting
  /\ Owed(c) # {}
  /\ job' = [job EXCEPT ![w] = [step |-> "pick", config |-> c, todo |-> Owed(c)]]
  /\ UNCHANGED <<journal, outbox, crashes>>

(* Mutant: the store appends without looking for the id. *)
CheckOutboxBlind(w) ==
  /\ job[w].step = "pick"
  /\ \E e \in job[w].todo :
       /\ Earliest(e, job[w].todo)
       /\ job' = [job EXCEPT ![w] =
            [step |-> "deliver", config |-> job[w].config,
             todo |-> job[w].todo \ {e}, item |-> ItemOf(job[w].config, e)]]
  /\ UNCHANGED <<journal, outbox, crashes>>

(* Mutant: the two answers of `deliver` are mixed up. *)
CheckOutboxInverted(w) ==
  /\ job[w].step = "pick"
  /\ \E e \in job[w].todo :
       LET item == ItemOf(job[w].config, e) IN
       /\ Earliest(e, job[w].todo)
       /\ job' = [job EXCEPT ![w] =
            [step |-> IF item \in Range(outbox) THEN "deliver" ELSE "record",
             config |-> job[w].config, todo |-> job[w].todo \ {e}, item |-> item]]
  /\ UNCHANGED <<journal, outbox, crashes>>

(* Mutant: a message that is already in the outbox is dropped, not recorded. *)
CheckOutboxDrop(w) ==
  /\ job[w].step = "pick"
  /\ \E e \in job[w].todo :
       LET item == ItemOf(job[w].config, e)
           rest == job[w].todo \ {e}
       IN
       /\ Earliest(e, job[w].todo)
       /\ job' = [job EXCEPT ![w] =
            IF item \notin Range(outbox)
              THEN [step |-> "deliver", config |-> job[w].config, todo |-> rest, item |-> item]
              ELSE IF rest = {} THEN Resting
              ELSE [step |-> "pick", config |-> job[w].config, todo |-> rest]]
  /\ UNCHANGED <<journal, outbox, crashes>>

(* Outbox.deliver, first half: is the next message's id already there?      *)
(* Either way the dispatch is journaled afterwards.                         *)
CheckOutbox(w) ==
  /\ job[w].step = "pick"
  /\ \E e \in job[w].todo :
       LET item == ItemOf(job[w].config, e) IN
       /\ Earliest(e, job[w].todo)
       /\ job' = [job EXCEPT ![w] =
            [step |-> IF item \in Range(outbox) THEN "record" ELSE "deliver",
             config |-> job[w].config, todo |-> job[w].todo \ {e}, item |-> item]]
  /\ UNCHANGED <<journal, outbox, crashes>>

(* Outbox.deliver, second half: append the entry. *)
Deliver(w) ==
  /\ job[w].step = "deliver"
  /\ outbox' = Append(outbox, job[w].item)
  /\ job' = [job EXCEPT ![w].step = "record"]
  /\ UNCHANGED <<journal, crashes>>

(* emit of the NOTIFIED event that names its source event. *)
Record(w) ==
  /\ job[w].step = "record"
  /\ J!Mint(w, [type |-> "notified", source |-> job[w].item.source])
  /\ UNCHANGED <<outbox, job, crashes>>

(* append's check, then its write; a worker that has written its NOTIFIED   *)
(* turns to the next item it owes.                                          *)
AcceptEvent(w) ==
  /\ J!Accept(w)
  /\ UNCHANGED <<outbox, job, crashes>>

NextJob(j) ==
  IF j.step = "record" /\ j.todo # {}
    THEN [step |-> "pick", config |-> j.config, todo |-> j.todo]
    ELSE Resting

WriteEvent(w) ==
  /\ J!Write(w)
  /\ job' = [job EXCEPT ![w] = NextJob(@)]
  /\ UNCHANGED <<outbox, crashes>>

(* SequenceConflictError leaves notify_case, and the rest of its items with *)
(* it.                                                                      *)
RefuseEvent(w) ==
  /\ J!Refuse(w)
  /\ job' = [job EXCEPT ![w] = Resting]
  /\ UNCHANGED <<outbox, crashes>>

(* The process of a worker dies; both stores are files and survive. *)
Crash(w) ==
  /\ job[w] # Resting
  /\ crashes < MaxCrashes
  /\ crashes' = crashes + 1
  /\ job' = [job EXCEPT ![w] = Resting]
  /\ emitting' = [emitting EXCEPT ![w] = J!Idle]
  /\ UNCHANGED <<log, torn, minted, outbox>>

Work(w) ==
  \/ \E c \in Configs : StartRun(w, c)
  \/ CheckOutbox(w)
  \/ Deliver(w)
  \/ Record(w)
  \/ AcceptEvent(w)
  \/ WriteEvent(w)
  \/ RefuseEvent(w)

Next ==
  \E w \in Worker :
    \/ \E t \in Trigger : Ingest(w, t)
    \/ Work(w)
    \/ Crash(w)

Spec == Init /\ [][Next]_vars

(* Every call runs to its end, and a run is started again as long as        *)
(* something is owed: the API folds after every ingest and an operator can  *)
(* start the replay whenever the journal is behind.                         *)
FairSpec == Spec /\ \A w \in Worker : WF_vars(Work(w))
----------------------------------------------------------------------------
(* "A NOTIFIED event claiming a dispatch that never happened ... the journal *)
(* may not contain that claim" (outbox.py:21): every NOTIFIED has its entry  *)
(* in the outbox, whoever crashed in between.                                *)
RecordedWasDelivered ==
  \A s \in NotifiedSources : \E n \in 1..Len(outbox) : outbox[n].source = s

(* A message is only ever about an event the case has, and about each event  *)
(* the text configured for its type - also when the worker's copy of the     *)
(* journal is old (projection.py:112).                                       *)
DeliveredIsOwed ==
  \A n \in 1..Len(outbox) :
    \E c \in Configs : \E e \in Owing(c) :
      outbox[n] = ItemOf(c, e)

(* A race between workers that read the same journal costs at most one copy  *)
(* per worker: the outbox closes as soon as one of them has appended.        *)
CopiesBounded ==
  /\ \A s \in J!Ids :
       Cardinality({n \in 1..Len(outbox) : outbox[n].source = s}) <= Cardinality(Worker)
  /\ \A s \in J!Ids :
       Cardinality({i \in 1..Len(log) : /\ log[i].payload.type = "notified"
                                        /\ log[i].payload.source = s}) <= Cardinality(Worker)

(* What a message is owed for is recorded in the end, through crashes and    *)
(* lost races: the next run repairs what a dead one left (outbox.py:17).     *)
EveryOwedIsRecorded == \A c \in Configs : []<>(Owed(c) = {})

(* A worker on its own implements the abstract dispatch. *)
SentSources == [n \in 1..Len(outbox) |-> outbox[n].source]
OwedSources == {e.id : e \in UNION {Owing(c) : c \in Configs}}

D == INSTANCE Dispatch WITH owed <- OwedSources, sent <- SentSources, recorded <- NotifiedSources

ImplementsDispatch == D!Spec
=============================================================================
