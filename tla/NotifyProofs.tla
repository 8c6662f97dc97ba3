---------------------------- MODULE NotifyProofs ----------------------------
(***************************************************************************)
(* Proofs about the notification worker, for any number of workers,         *)
(* templates, triggers and crashes.                                         *)
(***************************************************************************)
EXTENDS Notify, ListFacts, TLAPS

(* A message about source event s is in the outbox. *)
Sent(s) == \E n \in 1..Len(outbox) : outbox[n].source = s

(* Deliver first, journal second: whoever is about to record a dispatch, or  *)
(* is inside the emit that records it, has its entry in the outbox.          *)
RecordingIsSent ==
  \A w \in Worker : job[w].step = "record" => Sent(job[w].item.source)

EmitFollowsJob ==
  \A w \in Worker : emitting[w] # J!Idle =>
    \/ job[w] = Ingesting /\ emitting[w].event.payload \in TriggerEvent
    \/ /\ job[w].step = "record"
       /\ emitting[w].event.payload = [type |-> "notified", source |-> job[w].item.source]

RecordedIsSent ==
  \A i \in 1..Len(log) : log[i].payload.type = "notified" => Sent(log[i].payload.source)

(* What a worker still has to do, and the message it is about, stem from     *)
(* events the case has: the journal only grows under an old copy of it.      *)
WorkIsOwed ==
  \A w \in Worker :
    /\ job[w].step \in {"pick", "deliver", "record"} => job[w].todo \subseteq Owing(job[w].config)
    /\ job[w].step \in {"deliver", "record"} =>
         \E e \in Owing(job[w].config) : job[w].item = ItemOf(job[w].config, e)

DeliverFirstInv == TypeOK /\ RecordingIsSent /\ EmitFollowsJob /\ RecordedIsSent
                   /\ WorkIsOwed /\ DeliveredIsOwed

LEMMA InitInv == Init => DeliverFirstInv
<1> SUFFICES ASSUME Init PROVE DeliverFirstInv
  OBVIOUS
<1>1. log \in Seq(J!Event) /\ outbox \in Seq(Item)
  BY DEF Init, J!Init
<1>2. emitting \in [Worker -> {J!Idle} \cup J!InEmit]
  BY DEF Init, J!Init
<1>3. job \in [Worker -> {Resting, Ingesting} \cup Picking \cup Dispatching]
  BY DEF Init
<1>4. J!TypeOK
  BY <1>1, <1>2 DEF Init, J!Init, J!TypeOK
<1>5. TypeOK
  BY <1>1, <1>3, <1>4 DEF Init, TypeOK
<1>6. QED
  BY <1>5 DEF Init, J!Init, DeliverFirstInv, RecordingIsSent, EmitFollowsJob,
              RecordedIsSent, WorkIsOwed, DeliveredIsOwed, Resting, J!Idle

(* A fold only names events whose type has a template. *)
LEMMA ItemTyped ==
  ASSUME TypeOK, NEW c \in Configs, NEW e \in Owing(c)
  PROVE  e \in J!Event /\ ItemOf(c, e) \in Item
<1>1. e \in J!Event /\ e.payload.type \in Trigger /\ c[e.payload.type] # NoTemplate
  BY DEF Owing, Range, TypeOK, J!TypeOK
<1>2. c \in [Trigger -> Template \cup {NoTemplate}]
  BY NotifyAssumption
<1>3. QED
  BY <1>1, <1>2 DEF ItemOf, Item, J!Event

(* Steps that write neither the journal nor the outbox keep what was said of *)
(* the messages already delivered.                                           *)
LEMMA SameStores ==
  ASSUME DeliveredIsOwed, UNCHANGED <<log, outbox>>
  PROVE  DeliveredIsOwed' /\ \A c : Owing(c)' = Owing(c)
  BY DEF DeliveredIsOwed, Owing

(* Each action of a worker, in turn. *)
LEMMA IngestStep ==
  ASSUME DeliverFirstInv, NEW w \in Worker, NEW t \in Trigger, Ingest(w, t)
  PROVE  DeliverFirstInv'
<1> USE DEF DeliverFirstInv
<1> DEFINE p == [type |-> t]
<1>1. p \in Payload /\ p \in TriggerEvent
  BY DEF Payload, TriggerEvent
<1>2. J!Mint(w, p) /\ job[w] = Resting /\ job' = [job EXCEPT ![w] = Ingesting]
      /\ outbox' = outbox /\ crashes' = crashes
  BY DEF Ingest
<1>3. /\ log' = log /\ torn' = torn /\ minted' = minted + 1
      /\ emitting' = [emitting EXCEPT ![w] =
            [phase |-> "numbered",
             event |-> [id |-> minted + 1, sequence |-> Len(log), payload |-> p]]]
  BY <1>2 DEF J!Mint
<1>4. TypeOK'
  BY <1>1, <1>2, <1>3 DEF TypeOK, J!TypeOK, J!InEmit, J!Event
<1>5. RecordingIsSent' /\ RecordedIsSent'
  BY <1>2, <1>3 DEF TypeOK, RecordingIsSent, RecordedIsSent, Sent, Resting, Ingesting
<1>6. EmitFollowsJob'
  BY <1>1, <1>2, <1>3 DEF TypeOK, J!TypeOK, EmitFollowsJob
<1>7. WorkIsOwed' /\ DeliveredIsOwed'
  BY <1>2, <1>3, SameStores DEF TypeOK, WorkIsOwed, Ingesting
<1>8. QED
  BY <1>4, <1>5, <1>6, <1>7

LEMMA StartRunStep ==
  ASSUME DeliverFirstInv, NEW w \in Worker, NEW c \in Configs, StartRun(w, c)
  PROVE  DeliverFirstInv'
<1> USE DEF DeliverFirstInv
<1>1. /\ UNCHANGED <<log, torn, minted, emitting, outbox, crashes>>
      /\ job[w] = Resting
      /\ job' = [job EXCEPT ![w] = [step |-> "pick", config |-> c, todo |-> Owed(c)]]
  BY DEF StartRun, journal
<1>2. Owed(c) \subseteq J!Event
  BY DEF Owed, Owing, Range, TypeOK, J!TypeOK
<1>3. TypeOK'
  BY <1>1, <1>2 DEF TypeOK, J!TypeOK, Picking
<1>4. RecordingIsSent' /\ RecordedIsSent'
  BY <1>1 DEF TypeOK, RecordingIsSent, RecordedIsSent, Sent
<1>5. EmitFollowsJob'
  <2>1. job[w] # Ingesting /\ job[w].step # "record"
    BY <1>1 DEF Resting, Ingesting
  <2>2. emitting[w] = J!Idle
    BY <2>1 DEF EmitFollowsJob
  <2>3. QED
    BY <1>1, <2>2 DEF TypeOK, J!TypeOK, EmitFollowsJob
<1>6. WorkIsOwed' /\ DeliveredIsOwed'
  BY <1>1, SameStores DEF TypeOK, WorkIsOwed, Owed
<1>7. QED
  BY <1>3, <1>4, <1>5, <1>6

LEMMA CheckOutboxStep ==
  ASSUME DeliverFirstInv, NEW w \in Worker, CheckOutbox(w)
  PROVE  DeliverFirstInv'
<1> USE DEF DeliverFirstInv
<1>1. PICK e \in job[w].todo :
        job' = [job EXCEPT ![w] =
          [step |-> IF ItemOf(job[w].config, e) \in Range(outbox) THEN "record" ELSE "deliver",
           config |-> job[w].config, todo |-> job[w].todo \ {e},
           item |-> ItemOf(job[w].config, e)]]
  BY DEF CheckOutbox
<1>2. UNCHANGED <<log, torn, minted, emitting, outbox, crashes>> /\ job[w].step = "pick"
  BY DEF CheckOutbox, journal
<1> DEFINE item == ItemOf(job[w].config, e)
<1>3. job[w] \in Picking
  BY <1>2 DEF TypeOK, Resting, Ingesting, Dispatching
<1>4. item \in Item /\ e \in Owing(job[w].config)
  BY <1>2, <1>3, ItemTyped DEF Picking, WorkIsOwed
<1>5. TypeOK'
  BY <1>1, <1>2, <1>3, <1>4 DEF TypeOK, J!TypeOK, Picking, Dispatching
<1>6. RecordingIsSent'
  <2>1. item \in Range(outbox) => Sent(item.source)
    BY DEF Range, Sent, TypeOK
  <2>2. QED
    BY <1>1, <1>2, <2>1 DEF TypeOK, RecordingIsSent, Sent
<1>7. RecordedIsSent'
  BY <1>2 DEF RecordedIsSent, Sent
<1>8. EmitFollowsJob'
  <2>1. job[w] # Ingesting /\ job[w].step # "record"
    BY <1>2 DEF Ingesting
  <2>2. emitting[w] = J!Idle
    BY <2>1 DEF EmitFollowsJob
  <2>3. QED
    BY <1>1, <1>2, <2>2 DEF TypeOK, J!TypeOK, EmitFollowsJob
<1>9. WorkIsOwed' /\ DeliveredIsOwed'
  BY <1>1, <1>2, <1>4, SameStores DEF TypeOK, WorkIsOwed
<1>10. QED
  BY <1>5, <1>6, <1>7, <1>8, <1>9

LEMMA DeliverStep ==
  ASSUME DeliverFirstInv, NEW w \in Worker, Deliver(w)
  PROVE  DeliverFirstInv'
<1> USE DEF DeliverFirstInv
<1>1. /\ UNCHANGED <<log, torn, minted, emitting, crashes>>
      /\ job[w].step = "deliver"
      /\ outbox' = Append(outbox, job[w].item)
      /\ job' = [job EXCEPT ![w].step = "record"]
  BY DEF Deliver, journal
<1>2. job[w] \in Dispatching
  BY <1>1 DEF TypeOK, Resting, Ingesting, Picking
<1>3. job[w].item \in Item /\ outbox \in Seq(Item)
  BY <1>2 DEF Dispatching, TypeOK
<1>4. /\ outbox' \in Seq(Item)
      /\ Len(outbox') = Len(outbox) + 1 /\ Len(outbox) \in Nat
      /\ \A i \in 1..Len(outbox) : outbox'[i] = outbox[i]
      /\ outbox'[Len(outbox) + 1] = job[w].item
  BY <1>1, <1>3, AppendedElements
<1>5. TypeOK'
  BY <1>1, <1>2, <1>4 DEF TypeOK, J!TypeOK, Dispatching
<1>6. \A s : Sent(s) => Sent(s)'
  BY <1>4 DEF Sent
<1>7. Sent(job[w].item.source)'
  BY <1>1, <1>2, <1>4 DEF Sent, TypeOK, Dispatching
<1>8. RecordingIsSent'
  BY <1>1, <1>2, <1>6, <1>7 DEF TypeOK, RecordingIsSent, Dispatching
<1>9. RecordedIsSent'
  BY <1>1, <1>6 DEF RecordedIsSent
<1>10. EmitFollowsJob'
  BY <1>1 DEF TypeOK, J!TypeOK, EmitFollowsJob, Ingesting
<1>11. WorkIsOwed'
  BY <1>1, <1>2 DEF TypeOK, WorkIsOwed, Owing, Dispatching
<1>12. DeliveredIsOwed'
  <2>1. \E c \in Configs : \E o \in Owing(c) : job[w].item = ItemOf(c, o)
    BY <1>1, <1>2 DEF WorkIsOwed, Dispatching
  <2>2. \A c : Owing(c)' = Owing(c)
    BY <1>1 DEF Owing
  <2>3. \A n \in 1..Len(outbox') : n \in 1..Len(outbox) \/ n = Len(outbox) + 1
    BY <1>4
  <2>4. ASSUME NEW n \in 1..Len(outbox')
        PROVE  \E c \in Configs : \E o \in Owing(c) : outbox'[n] = ItemOf(c, o)
    <3>1. CASE n = Len(outbox) + 1
      BY <1>4, <2>1, <3>1
    <3>2. CASE n \in 1..Len(outbox)
      BY <1>4, <3>2 DEF DeliveredIsOwed
    <3> QED
      BY <2>3, <3>1, <3>2
  <2>5. QED
    BY <1>3, <1>4, <2>2, <2>4 DEF DeliveredIsOwed, ItemOf
<1>13. QED
  BY <1>5, <1>8, <1>9, <1>10, <1>11, <1>12

LEMMA RecordStep ==
  ASSUME DeliverFirstInv, NEW w \in Worker, Record(w)
  PROVE  DeliverFirstInv'
<1> USE DEF DeliverFirstInv
<1> DEFINE p == [type |-> "notified", source |-> job[w].item.source]
<1>1. /\ J!Mint(w, p) /\ job[w].step = "record"
      /\ UNCHANGED <<outbox, job, crashes>>
  BY DEF Record
<1>2. /\ log' = log /\ torn' = torn /\ minted' = minted + 1
      /\ emitting' = [emitting EXCEPT ![w] =
            [phase |-> "numbered",
             event |-> [id |-> minted + 1, sequence |-> Len(log), payload |-> p]]]
  BY <1>1 DEF J!Mint
<1>3. job[w] \in Dispatching
  BY <1>1 DEF TypeOK, Resting, Ingesting, Picking
<1>4. p \in Payload
  BY <1>3 DEF Dispatching, Item, Payload, NotifiedEvent
<1>5. TypeOK'
  BY <1>1, <1>2, <1>4 DEF TypeOK, J!TypeOK, J!InEmit, J!Event
<1>6. RecordingIsSent' /\ RecordedIsSent'
  BY <1>1, <1>2 DEF RecordingIsSent, RecordedIsSent, Sent
<1>7. EmitFollowsJob'
  BY <1>1, <1>2 DEF TypeOK, J!TypeOK, EmitFollowsJob
<1>8. WorkIsOwed' /\ DeliveredIsOwed'
  BY <1>1, <1>2, SameStores DEF WorkIsOwed
<1>9. QED
  BY <1>5, <1>6, <1>7, <1>8

LEMMA AcceptStep ==
  ASSUME DeliverFirstInv, NEW w \in Worker, AcceptEvent(w)
  PROVE  DeliverFirstInv'
<1> USE DEF DeliverFirstInv
<1>1. /\ UNCHANGED <<log, torn, minted, outbox, job, crashes>>
      /\ emitting[w].phase = "numbered"
      /\ emitting' = [emitting EXCEPT ![w].phase = "checked"]
  BY DEF AcceptEvent, J!Accept
<1>2. emitting[w] \in J!InEmit /\ emitting[w] # J!Idle
  BY <1>1 DEF TypeOK, J!TypeOK, J!Idle
<1>3. TypeOK'
  BY <1>1, <1>2 DEF TypeOK, J!TypeOK, J!InEmit
<1>4. RecordingIsSent' /\ RecordedIsSent'
  BY <1>1 DEF RecordingIsSent, RecordedIsSent, Sent
<1>5. \A v \in Worker : emitting'[v] # J!Idle =>
        emitting[v] # J!Idle /\ emitting'[v].event = emitting[v].event
  BY <1>1, <1>2 DEF TypeOK, J!TypeOK, J!InEmit
<1>6. EmitFollowsJob'
  BY <1>1, <1>5 DEF EmitFollowsJob
<1>7. WorkIsOwed' /\ DeliveredIsOwed'
  BY <1>1, SameStores DEF WorkIsOwed
<1>8. QED
  BY <1>3, <1>4, <1>6, <1>7

LEMMA RefuseStep ==
  ASSUME DeliverFirstInv, NEW w \in Worker, RefuseEvent(w)
  PROVE  DeliverFirstInv'
<1> USE DEF DeliverFirstInv
<1>1. /\ UNCHANGED <<log, torn, minted, outbox, crashes>>
      /\ emitting' = [emitting EXCEPT ![w] = J!Idle]
      /\ job' = [job EXCEPT ![w] = Resting]
  BY DEF RefuseEvent, J!Refuse
<1>2. WorkIsOwed' /\ DeliveredIsOwed'
  BY <1>1, SameStores DEF TypeOK, WorkIsOwed, Resting
<1>3. QED
  BY <1>1, <1>2 DEF TypeOK, J!TypeOK, RecordingIsSent, EmitFollowsJob,
                    RecordedIsSent, Sent, Resting

LEMMA CrashStep ==
  ASSUME DeliverFirstInv, NEW w \in Worker, Crash(w)
  PROVE  DeliverFirstInv'
<1> USE DEF DeliverFirstInv
<1>1. /\ UNCHANGED <<log, torn, minted, outbox>> /\ crashes' = crashes + 1
      /\ emitting' = [emitting EXCEPT ![w] = J!Idle]
      /\ job' = [job EXCEPT ![w] = Resting]
  BY DEF Crash
<1>2. WorkIsOwed' /\ DeliveredIsOwed'
  BY <1>1, SameStores DEF TypeOK, WorkIsOwed, Resting
<1>3. QED
  BY <1>1, <1>2 DEF TypeOK, J!TypeOK, RecordingIsSent, EmitFollowsJob,
                    RecordedIsSent, Sent, Resting

LEMMA WriteStep ==
  ASSUME DeliverFirstInv, NEW w \in Worker, WriteEvent(w)
  PROVE  DeliverFirstInv'
<1> USE DEF DeliverFirstInv
<1> DEFINE e == emitting[w].event
<1>1. /\ emitting[w].phase = "checked"
      /\ log' = IF J!Readable THEN Append(log, e) ELSE log
      /\ emitting' = [emitting EXCEPT ![w] = J!Idle]
      /\ UNCHANGED <<torn, minted, outbox, crashes>>
      /\ job' = [job EXCEPT ![w] = NextJob(job[w])]
  BY DEF WriteEvent, J!Write
<1>2. e \in J!Event /\ emitting[w] # J!Idle
  BY <1>1 DEF TypeOK, J!TypeOK, J!InEmit, J!Idle
<1>3. log \in Seq(J!Event) /\ Append(log, e) \in Seq(J!Event)
      /\ Len(Append(log, e)) = Len(log) + 1 /\ Len(log) \in Nat
      /\ \A i \in 1..Len(log) : Append(log, e)[i] = log[i]
      /\ Append(log, e)[Len(log) + 1] = e
  BY <1>2, AppendedElements DEF TypeOK, J!TypeOK
<1>4. NextJob(job[w]) \in {Resting} \cup Picking
  BY DEF NextJob, TypeOK, Dispatching, Picking, Resting, Ingesting
<1>5. TypeOK'
  BY <1>1, <1>3, <1>4 DEF TypeOK, J!TypeOK
<1>6. RecordingIsSent'
  BY <1>1, <1>4 DEF TypeOK, RecordingIsSent, Sent, Resting, Picking
<1>7. e.payload.type = "notified" => Sent(e.payload.source)
  <2>1. CASE e.payload \in TriggerEvent
    BY <2>1 DEF TriggerEvent, Trigger
  <2>2. CASE /\ job[w].step = "record"
             /\ e.payload = [type |-> "notified", source |-> job[w].item.source]
    BY <2>2 DEF RecordingIsSent
  <2>3. QED
    BY <1>2, <2>1, <2>2 DEF EmitFollowsJob
<1>8. RecordedIsSent'
  BY <1>1, <1>3, <1>7 DEF RecordedIsSent, Sent
<1>9. EmitFollowsJob'
  BY <1>1 DEF TypeOK, J!TypeOK, EmitFollowsJob
<1>10. \A c : Owing(c) \subseteq Owing(c)'
  BY <1>1, <1>3 DEF Owing, Range
<1>11. WorkIsOwed'
  BY <1>1, <1>4, <1>10 DEF TypeOK, WorkIsOwed, Resting, Picking, NextJob
<1>12. DeliveredIsOwed'
  BY <1>1, <1>10 DEF DeliveredIsOwed
<1>13. QED
  BY <1>5, <1>6, <1>8, <1>9, <1>11, <1>12

LEMMA DeliverFirstStep == DeliverFirstInv /\ [Next]_vars => DeliverFirstInv'
<1> SUFFICES ASSUME DeliverFirstInv, [Next]_vars PROVE DeliverFirstInv'
  OBVIOUS
<1>1. CASE UNCHANGED vars
  BY <1>1 DEF vars, DeliverFirstInv, TypeOK, J!TypeOK, RecordingIsSent,
              EmitFollowsJob, RecordedIsSent, Sent, WorkIsOwed, DeliveredIsOwed, Owing
<1>2. CASE Next
  BY <1>2, IngestStep, StartRunStep, CheckOutboxStep, DeliverStep, RecordStep,
     AcceptStep, WriteStep, RefuseStep, CrashStep DEF Next, Work
<1>3. QED
  BY <1>1, <1>2

LEMMA DeliverFirstInvariant == Spec => []DeliverFirstInv
  BY InitInv, DeliverFirstStep, PTL DEF Spec

(* No NOTIFIED event claims a dispatch that never happened: its entry is in  *)
(* the outbox, for any number of workers, crashes and lost races.            *)
THEOREM RecordedImpliesDelivered == Spec => []RecordedWasDelivered
<1>1. DeliverFirstInv => RecordedWasDelivered
  BY DEF DeliverFirstInv, RecordedIsSent, RecordedWasDelivered, NotifiedSources,
         Range, Sent, TypeOK, J!TypeOK
<1>2. QED
  BY <1>1, DeliverFirstInvariant, PTL

(* The worker never writes to an applicant about an event the case does not  *)
(* have, however old the copy of the journal it folded.                      *)
THEOREM DeliveredImpliesOwed == Spec => []DeliveredIsOwed
<1>1. DeliverFirstInv => DeliveredIsOwed
  BY DEF DeliverFirstInv
<1>2. QED
  BY <1>1, DeliverFirstInvariant, PTL
----------------------------------------------------------------------------
(* The ids of the journal are uuid4s: every event built has one of its own,  *)
(* and so has the event a worker is about to write.                         *)
FreshIds ==
  /\ \A i \in 1..Len(log) : log[i].id <= minted
  /\ \A i, j \in 1..Len(log) : log[i].id = log[j].id => i = j
  /\ \A w \in Worker : emitting[w] # J!Idle =>
       /\ emitting[w].event.id <= minted
       /\ \A i \in 1..Len(log) : log[i].id # emitting[w].event.id
  /\ \A v, w \in Worker :
       emitting[v] # J!Idle /\ emitting[w] # J!Idle
         /\ emitting[v].event.id = emitting[w].event.id => v = w

(* What a worker leaves to the journal when it neither builds nor writes an  *)
(* event.                                                                   *)
Quiet ==
  /\ log' = log /\ minted' = minted
  /\ \A w \in Worker : emitting'[w] # J!Idle =>
       emitting[w] # J!Idle /\ emitting'[w].event = emitting[w].event

LEMMA QuietSteps ==
  ASSUME DeliverFirstInv, [Next]_vars
  PROVE  \/ Quiet
         \/ \E w \in Worker, p \in Payload : J!Mint(w, p)
         \/ \E w \in Worker : J!Write(w)
<1>1. ASSUME NEW w \in Worker, NEW t \in Trigger, Ingest(w, t)
      PROVE  \E p \in Payload : J!Mint(w, p)
  BY <1>1 DEF Ingest, Payload, TriggerEvent
<1>2. ASSUME NEW w \in Worker, Record(w) PROVE \E p \in Payload : J!Mint(w, p)
  <2>1. job[w] \in Dispatching
    BY <1>2 DEF Record, DeliverFirstInv, TypeOK, Resting, Ingesting, Picking
  <2>2. QED
    BY <1>2, <2>1 DEF Record, Dispatching, Item, Payload, NotifiedEvent
<1>3. ASSUME NEW w \in Worker, AcceptEvent(w) PROVE Quiet
  BY <1>3 DEF AcceptEvent, J!Accept, Quiet, DeliverFirstInv, TypeOK, J!TypeOK,
              J!InEmit, J!Idle
<1>4. ASSUME NEW w \in Worker, RefuseEvent(w) \/ Crash(w) PROVE Quiet
  <2>1. /\ log' = log /\ minted' = minted
        /\ emitting' = [emitting EXCEPT ![w] = J!Idle]
    BY <1>4 DEF RefuseEvent, J!Refuse, Crash
  <2>2. QED
    BY <2>1 DEF Quiet, DeliverFirstInv, TypeOK, J!TypeOK
<1>5. ASSUME NEW w \in Worker, (\E c \in Configs : StartRun(w, c)) \/ CheckOutbox(w) \/ Deliver(w)
      PROVE  Quiet
  BY <1>5 DEF StartRun, CheckOutbox, Deliver, journal, Quiet
<1>6. CASE UNCHANGED vars
  BY <1>6 DEF vars, Quiet
<1>7. QED
  BY <1>1, <1>2, <1>3, <1>4, <1>5, <1>6 DEF Next, Work, WriteEvent

LEMMA LogIds ==
  ASSUME TypeOK
  PROVE  /\ \A i \in 1..Len(log) : log[i] \in J!Event /\ log[i].id \in Nat
         /\ \A w \in Worker : emitting[w] # J!Idle =>
              emitting[w].event \in J!Event /\ emitting[w].event.id \in Nat
         /\ minted \in Nat /\ Len(log) \in Nat
<1>1. log \in Seq(J!Event) /\ minted \in Nat
  BY DEF TypeOK, J!TypeOK
<1>2. \A i \in 1..Len(log) : log[i] \in J!Event
  BY <1>1
<1>3. \A w \in Worker : emitting[w] # J!Idle => emitting[w].event \in J!Event
  BY DEF TypeOK, J!TypeOK, J!InEmit
<1>4. QED
  BY <1>1, <1>2, <1>3 DEF J!Event

LEMMA FreshMint ==
  ASSUME DeliverFirstInv, FreshIds, NEW w \in Worker, NEW p \in Payload, J!Mint(w, p)
  PROVE  FreshIds'
<1>1. /\ log' = log /\ minted' = minted + 1
      /\ emitting'[w].event.id = minted + 1
      /\ \A v \in Worker : v # w => emitting'[v] = emitting[v]
  BY DEF J!Mint, DeliverFirstInv, TypeOK, J!TypeOK
<1>2. /\ \A i \in 1..Len(log) : log[i].id \in Nat /\ log[i].id <= minted
      /\ \A v \in Worker : emitting[v] # J!Idle =>
           emitting[v].event.id \in Nat /\ emitting[v].event.id <= minted
      /\ minted \in Nat
  BY LogIds DEF DeliverFirstInv, FreshIds
<1>3. /\ \A i \in 1..Len(log') : log'[i].id <= minted'
      /\ \A i, j \in 1..Len(log') : log'[i].id = log'[j].id => i = j
  BY <1>1, <1>2 DEF FreshIds
<1>4. ASSUME NEW v \in Worker, emitting'[v] # J!Idle
      PROVE  /\ emitting'[v].event.id <= minted'
             /\ \A i \in 1..Len(log') : log'[i].id # emitting'[v].event.id
  <2>1. CASE v = w
    BY <1>1, <1>2, <2>1
  <2>2. CASE v # w
    BY <1>1, <1>2, <1>4, <2>2 DEF FreshIds
  <2>3. QED
    BY <2>1, <2>2
<1>5. ASSUME NEW u \in Worker, NEW v \in Worker, emitting'[u] # J!Idle, emitting'[v] # J!Idle,
             emitting'[u].event.id = emitting'[v].event.id
      PROVE  u = v
  <2>1. CASE u # w /\ v # w
    BY <1>1, <1>5, <2>1 DEF FreshIds
  <2>2. CASE u = w /\ v # w
    BY <1>1, <1>2, <1>5, <2>2
  <2>3. CASE u # w /\ v = w
    BY <1>1, <1>2, <1>5, <2>3
  <2>4. QED
    BY <2>1, <2>2, <2>3
<1>6. QED
  BY <1>3, <1>4, <1>5 DEF FreshIds

LEMMA FreshWrite ==
  ASSUME DeliverFirstInv, FreshIds, NEW w \in Worker, J!Write(w)
  PROVE  FreshIds'
<1> DEFINE e == emitting[w].event
<1>1. /\ emitting[w] # J!Idle /\ minted' = minted
      /\ log' = IF J!Readable THEN Append(log, e) ELSE log
      /\ emitting'[w] = J!Idle
      /\ \A v \in Worker : v # w => emitting'[v] = emitting[v]
  BY DEF J!Write, J!Idle, DeliverFirstInv, TypeOK, J!TypeOK
<1>2. e \in J!Event /\ log \in Seq(J!Event)
  BY <1>1 DEF DeliverFirstInv, TypeOK, J!TypeOK, J!InEmit
<1>3. CASE ~J!Readable
  BY <1>1, <1>3 DEF FreshIds
<1>4. CASE J!Readable
  <2>1. /\ Len(log') = Len(log) + 1 /\ Len(log) \in Nat
        /\ \A i \in 1..Len(log) : log'[i] = log[i]
        /\ log'[Len(log) + 1] = e
    BY <1>1, <1>2, <1>4, AppendedElements
  <2>2. e.id <= minted /\ \A i \in 1..Len(log) : log[i].id # e.id
    BY <1>1 DEF FreshIds
  <2>3. \A i \in 1..Len(log') : i \in 1..Len(log) \/ i = Len(log) + 1
    BY <2>1
  <2>4. \A i \in 1..Len(log') : log'[i].id <= minted'
    BY <1>1, <2>1, <2>2, <2>3 DEF FreshIds
  <2>5. \A i, j \in 1..Len(log') : log'[i].id = log'[j].id => i = j
    BY <2>1, <2>2, <2>3 DEF FreshIds
  <2>6. ASSUME NEW v \in Worker, emitting'[v] # J!Idle
        PROVE  /\ emitting'[v].event.id <= minted'
               /\ \A i \in 1..Len(log') : log'[i].id # emitting'[v].event.id
    <3>1. v # w /\ emitting'[v] = emitting[v] /\ emitting[v] # J!Idle
      BY <1>1, <2>6
    <3>2. e.id # emitting[v].event.id
      BY <1>1, <3>1 DEF FreshIds
    <3>3. /\ emitting[v].event.id <= minted
          /\ \A i \in 1..Len(log) : log[i].id # emitting[v].event.id
      BY <3>1 DEF FreshIds
    <3>4. QED
      BY <1>1, <2>1, <2>3, <3>1, <3>2, <3>3
  <2>7. \A u, v \in Worker :
          emitting'[u] # J!Idle /\ emitting'[v] # J!Idle
            /\ emitting'[u].event.id = emitting'[v].event.id => u = v
    BY <1>1 DEF FreshIds
  <2>8. QED
    BY <2>4, <2>5, <2>6, <2>7 DEF FreshIds
<1>5. QED
  BY <1>3, <1>4

LEMMA FreshStep == DeliverFirstInv /\ FreshIds /\ [Next]_vars => FreshIds'
<1> SUFFICES ASSUME DeliverFirstInv, FreshIds, [Next]_vars PROVE FreshIds'
  OBVIOUS
<1>1. Quiet => FreshIds'
  <2> SUFFICES ASSUME Quiet PROVE FreshIds'
    OBVIOUS
  <2>1. /\ log' = log /\ minted' = minted
        /\ \A w \in Worker : emitting'[w] # J!Idle =>
             emitting[w] # J!Idle /\ emitting'[w].event.id = emitting[w].event.id
    BY DEF Quiet
  <2>2. QED
    BY <2>1 DEF FreshIds
<1>2. QED
  BY <1>1, QuietSteps, FreshMint, FreshWrite

LEMMA FreshInit == Init => FreshIds
BY DEF Init, J!Init, FreshIds

(* An id names one event.                                                   *)
LEMMA OneEventPerId ==
  ASSUME TypeOK, FreshIds, NEW e \in Range(log), NEW f \in Range(log), e.id = f.id
  PROVE  e = f
<1>1. log \in Seq(J!Event)
  BY DEF TypeOK, J!TypeOK
<1>2. PICK i \in 1..Len(log) : e = log[i]
  BY <1>1 DEF Range
<1>3. PICK j \in 1..Len(log) : f = log[j]
  BY <1>1 DEF Range
<1>4. QED
  BY <1>2, <1>3 DEF FreshIds
----------------------------------------------------------------------------
(* The configs in force name one template per trigger: an operator may add   *)
(* or drop a template, not put another in its place.  Without this a message *)
(* has two identities, and a worker with the newer config sends it again.    *)
Settled ==
  \A c, d \in Configs, t \in Trigger : NoTemplate \notin {c[t], d[t]} => c[t] = d[t]

(* An event whose message a worker does not find in the outbox has no copy   *)
(* there at all.                                                            *)
LEMMA NoCopyYet ==
  ASSUME Settled, DeliverFirstInv, FreshIds, NEW d \in Configs, NEW e \in Owing(d),
         ItemOf(d, e) \notin Range(outbox)
  PROVE  ~Sent(e.id)
<1> SUFFICES ASSUME NEW n \in 1..Len(outbox), outbox[n].source = e.id PROVE FALSE
  BY DEF Sent
<1>1. PICK c \in Configs : \E o \in Owing(c) : outbox[n] = ItemOf(c, o)
  BY DEF DeliverFirstInv, DeliveredIsOwed
<1>2. PICK o \in Owing(c) : outbox[n] = ItemOf(c, o)
  BY <1>1
<1>3. o.id = e.id /\ o \in Range(log) /\ e \in Range(log)
  BY <1>2 DEF ItemOf, Owing
<1>4. o = e
  BY <1>3, OneEventPerId DEF DeliverFirstInv
<1>5. /\ e.payload.type \in Trigger
      /\ c[e.payload.type] # NoTemplate /\ d[e.payload.type] # NoTemplate
  BY <1>4 DEF Owing
<1>6. c[e.payload.type] = d[e.payload.type]
  BY <1>5 DEF Settled
<1>7. outbox[n] = ItemOf(d, e)
  BY <1>2, <1>4, <1>6 DEF ItemOf
<1>8. outbox[n] \in Range(outbox)
  BY DEF Range, DeliverFirstInv, TypeOK
<1>9. QED
  BY <1>7, <1>8

(* A worker that has a message in hand has no second one about its event.    *)
Busy(w) == job[w].step \in {"pick", "deliver", "record"}
Sending(w) == job[w].step \in {"deliver", "record"}
TurnedToOnce == \A w \in Worker : Sending(w) => \A e \in job[w].todo : e.id # job[w].item.source

(* The copies of a message and the workers about to append another; the      *)
(* records of its dispatch and the workers that may still journal one.       *)
Copies(s) == {n \in 1..Len(outbox) : outbox[n].source = s}
Appending(s) == {w \in Worker : job[w].step = "deliver" /\ job[w].item.source = s}
Records(s) ==
  {i \in 1..Len(log) : log[i].payload.type = "notified" /\ log[i].payload.source = s}
Holding(s) ==
  {w \in Worker : \/ Busy(w) /\ \E e \in job[w].todo : e.id = s
                  \/ Sending(w) /\ job[w].item.source = s}

(* A worker sets out to append only while there is no copy, and folds an     *)
(* event as owed only while there is no record.                             *)
CopiesInv ==
  /\ DeliverFirstInv /\ FreshIds /\ TurnedToOnce
  /\ \A s \in Nat : OneEach(Copies(s), Appending(s), Worker)
  /\ \A s \in Nat : OneEach(Records(s), Holding(s), Worker)

(* A step that writes neither store and takes on nothing that is already     *)
(* there.                                                                   *)
LEMMA CopiesKept ==
  ASSUME CopiesInv, DeliverFirstInv', FreshIds', TurnedToOnce',
         UNCHANGED <<log, outbox>>,
         \A s \in Nat : Appending(s)' \subseteq Appending(s) \/ Copies(s) = {},
         \A s \in Nat : Holding(s)' \subseteq Holding(s) \/ Records(s) = {}
  PROVE  CopiesInv'
<1>1. \A s \in Nat : Copies(s)' = Copies(s) /\ Records(s)' = Records(s)
  BY DEF Copies, Records
<1>2. ASSUME NEW s \in Nat PROVE OneEach(Copies(s), Appending(s)', Worker)
  <2>1. OneEach(Copies(s), Appending(s), Worker)
    BY DEF CopiesInv
  <2>2. IsFiniteSet(Worker) /\ Appending(s)' \subseteq Worker
    BY <2>1 DEF OneEach, Appending
  <2>3. CASE Appending(s)' \subseteq Appending(s)
    BY <2>1, <2>3, FewerMay
  <2>4. CASE Copies(s) = {}
    BY <2>2, <2>4, NoneHasCome
  <2>5. QED
    BY <2>3, <2>4
<1>3. ASSUME NEW s \in Nat PROVE OneEach(Records(s), Holding(s)', Worker)
  <2>1. OneEach(Records(s), Holding(s), Worker)
    BY DEF CopiesInv
  <2>2. IsFiniteSet(Worker) /\ Holding(s)' \subseteq Worker
    BY <2>1 DEF OneEach, Holding
  <2>3. CASE Holding(s)' \subseteq Holding(s)
    BY <2>1, <2>3, FewerMay
  <2>4. CASE Records(s) = {}
    BY <2>2, <2>4, NoneHasCome
  <2>5. QED
    BY <2>3, <2>4
<1>4. /\ (\A s \in Nat : OneEach(Copies(s), Appending(s), Worker))'
      /\ (\A s \in Nat : OneEach(Records(s), Holding(s), Worker))'
  BY <1>1, <1>2, <1>3
<1>5. QED
  BY <1>4 DEF CopiesInv

(* A worker that goes back to rest, or into an ingest, gives up what it had. *)
LEMMA GivesUp ==
  ASSUME CopiesInv, DeliverFirstInv', FreshIds', UNCHANGED <<log, outbox>>,
         NEW w \in Worker, NEW r, r.step \notin {"pick", "deliver", "record"},
         job' = [job EXCEPT ![w] = r]
  PROVE  CopiesInv'
<1>1. job'[w] = r /\ \A v \in Worker : v # w => job'[v] = job[v]
  BY DEF CopiesInv, DeliverFirstInv, TypeOK
<1>2. /\ TurnedToOnce'
      /\ \A s \in Nat : Appending(s)' \subseteq Appending(s)
      /\ \A s \in Nat : Holding(s)' \subseteq Holding(s)
  BY <1>1 DEF CopiesInv, TurnedToOnce, Appending, Holding, Busy, Sending
<1>3. QED
  BY <1>2, CopiesKept

LEMMA SameJobs ==
  ASSUME CopiesInv, DeliverFirstInv', FreshIds', UNCHANGED <<log, outbox, job>>
  PROVE  CopiesInv'
<1>1. /\ TurnedToOnce'
      /\ \A s \in Nat : Appending(s)' \subseteq Appending(s)
      /\ \A s \in Nat : Holding(s)' \subseteq Holding(s)
  BY DEF CopiesInv, TurnedToOnce, Appending, Holding, Busy, Sending
<1>2. QED
  BY <1>1, CopiesKept

LEMMA CopiesStartRun ==
  ASSUME CopiesInv, DeliverFirstInv', FreshIds', NEW w \in Worker, NEW c \in Configs,
         StartRun(w, c)
  PROVE  CopiesInv'
<1>1. /\ UNCHANGED <<log, outbox>>
      /\ job'[w] = [step |-> "pick", config |-> c, todo |-> Owed(c)]
      /\ \A v \in Worker : v # w => job'[v] = job[v]
  BY DEF StartRun, journal, CopiesInv, DeliverFirstInv, TypeOK
<1>2. /\ TurnedToOnce'
      /\ \A s \in Nat : Appending(s)' \subseteq Appending(s)
  BY <1>1 DEF CopiesInv, TurnedToOnce, Appending, Sending
<1>3. ASSUME NEW s \in Nat PROVE Holding(s)' \subseteq Holding(s) \/ Records(s) = {}
  <2>1. CASE \E e \in Owed(c) : e.id = s
    <3>1. s \notin NotifiedSources
      BY <2>1 DEF Owed
    <3>2. ASSUME NEW i \in 1..Len(log), log[i].payload.type = "notified"
          PROVE  log[i].payload.source # s
      <4>1. log[i] \in Range(log)
        BY DEF Range, CopiesInv, DeliverFirstInv, TypeOK, J!TypeOK
      <4>2. QED
        BY <3>1, <3>2, <4>1 DEF NotifiedSources
    <3>3. QED
      BY <3>2 DEF Records
  <2>2. CASE ~ \E e \in Owed(c) : e.id = s
    BY <1>1, <2>2 DEF Holding, Busy, Sending
  <2>3. QED
    BY <2>1, <2>2
<1>4. QED
  BY <1>1, <1>2, <1>3, CopiesKept

LEMMA CopiesCheckOutbox ==
  ASSUME Settled, CopiesInv, DeliverFirstInv', FreshIds', NEW w \in Worker, CheckOutbox(w)
  PROVE  CopiesInv'
<1>1. PICK e \in job[w].todo :
        job' = [job EXCEPT ![w] =
          [step |-> IF ItemOf(job[w].config, e) \in Range(outbox) THEN "record" ELSE "deliver",
           config |-> job[w].config, todo |-> job[w].todo \ {e},
           item |-> ItemOf(job[w].config, e)]]
  BY DEF CheckOutbox
<1> DEFINE d == job[w].config
           item == ItemOf(d, e)
<1>2. UNCHANGED <<log, outbox>> /\ job[w].step = "pick"
  BY DEF CheckOutbox, journal
<1>3. /\ job'[w].step = (IF item \in Range(outbox) THEN "record" ELSE "deliver")
      /\ job'[w].todo = job[w].todo \ {e} /\ job'[w].item = item
      /\ \A v \in Worker : v # w => job'[v] = job[v]
  BY <1>1 DEF CopiesInv, DeliverFirstInv, TypeOK
<1>4. job[w] \in Picking
  BY <1>2 DEF CopiesInv, DeliverFirstInv, TypeOK, Resting, Ingesting, Dispatching
<1>5. d \in Configs /\ job[w].todo \subseteq Owing(d) /\ e \in Owing(d) /\ item.source = e.id
  BY <1>2, <1>4 DEF Picking, CopiesInv, DeliverFirstInv, WorkIsOwed, ItemOf
<1>6. \A f \in job[w].todo \ {e} : f.id # item.source
  BY <1>5, OneEventPerId DEF CopiesInv, DeliverFirstInv, Owing
<1>7. TurnedToOnce'
  BY <1>3, <1>6 DEF CopiesInv, TurnedToOnce, Sending
<1>8. \A s \in Nat : Holding(s)' \subseteq Holding(s)
  BY <1>2, <1>3, <1>5 DEF Holding, Busy, Sending
<1>9. ASSUME NEW s \in Nat PROVE Appending(s)' \subseteq Appending(s) \/ Copies(s) = {}
  <2>1. CASE item \in Range(outbox)
    BY <1>3, <2>1 DEF Appending
  <2>2. CASE item \notin Range(outbox) /\ s # e.id
    BY <1>3, <1>5, <2>2 DEF Appending
  <2>3. CASE item \notin Range(outbox) /\ s = e.id
    <3>1. ~Sent(e.id)
      BY <1>5, <2>3, NoCopyYet DEF CopiesInv
    <3>2. QED
      BY <2>3, <3>1 DEF Sent, Copies
  <2>4. QED
    BY <2>1, <2>2, <2>3
<1>10. QED
  BY <1>2, <1>7, <1>8, <1>9, CopiesKept
LEMMA CopiesDeliver ==
  ASSUME CopiesInv, DeliverFirstInv', FreshIds', NEW w \in Worker, Deliver(w)
  PROVE  CopiesInv'
<1> DEFINE src == job[w].item.source
<1>1. /\ log' = log /\ job[w].step = "deliver"
      /\ outbox' = Append(outbox, job[w].item)
      /\ job' = [job EXCEPT ![w].step = "record"]
  BY DEF Deliver, journal
<1>2. job[w] \in Dispatching
  BY <1>1 DEF CopiesInv, DeliverFirstInv, TypeOK, Resting, Ingesting, Picking
<1>3. /\ job'[w].step = "record" /\ job'[w].todo = job[w].todo
      /\ job'[w].item = job[w].item
      /\ \A v \in Worker : v # w => job'[v] = job[v]
  BY <1>1, <1>2 DEF CopiesInv, DeliverFirstInv, TypeOK, Dispatching
<1>4. job[w].item \in Item /\ outbox \in Seq(Item)
  BY <1>2 DEF Dispatching, CopiesInv, DeliverFirstInv, TypeOK
<1>5. /\ Len(outbox') = Len(outbox) + 1 /\ Len(outbox) \in Nat
      /\ \A i \in 1..Len(outbox) : outbox'[i] = outbox[i]
      /\ outbox'[Len(outbox) + 1] = job[w].item
  BY <1>1, <1>4, AppendedElements
<1>6. TurnedToOnce'
  BY <1>1, <1>3 DEF CopiesInv, TurnedToOnce, Sending
<1>7. ASSUME NEW s \in Nat PROVE OneEach(Records(s)', Holding(s)', Worker)
  <2>1. Records(s)' = Records(s)
    BY <1>1 DEF Records
  <2>2. Holding(s)' \subseteq Holding(s)
    BY <1>1, <1>3 DEF Holding, Busy, Sending
  <2>3. OneEach(Records(s), Holding(s), Worker)
    BY DEF CopiesInv
  <2>4. QED
    BY <2>1, <2>2, <2>3, FewerMay
<1>8. ASSUME NEW s \in Nat PROVE OneEach(Copies(s)', Appending(s)', Worker)
  <2>1. OneEach(Copies(s), Appending(s), Worker)
    BY DEF CopiesInv
  <2>2. Appending(s)' \subseteq Appending(s) \ {w}
    BY <1>3 DEF Appending
  <2>3. CASE src = s
    <3>1. w \in Appending(s)
      BY <1>1, <2>3 DEF Appending
    <3>2. Copies(s)' = Copies(s) \cup {Len(outbox) + 1}
      BY <1>5, <2>3 DEF Copies
    <3>3. OneEach(Copies(s) \cup {Len(outbox) + 1}, Appending(s)', Worker)
      BY <2>1, <2>2, <3>1, OneMoreHasCome
    <3>4. QED
      BY <3>2, <3>3
  <2>4. CASE src # s
    <3>1. Copies(s)' = Copies(s)
      BY <1>5, <2>4 DEF Copies
    <3>2. QED
      BY <2>1, <2>2, <3>1, FewerMay
  <2>5. QED
    BY <2>3, <2>4
<1>9. /\ (\A s \in Nat : OneEach(Copies(s), Appending(s), Worker))'
      /\ (\A s \in Nat : OneEach(Records(s), Holding(s), Worker))'
  BY <1>7, <1>8
<1>10. QED
  BY <1>6, <1>9 DEF CopiesInv

(* What a worker writes: a trigger it ingests, or the record of the message  *)
(* it holds.                                                                *)
LEMMA WhatIsWritten ==
  ASSUME DeliverFirstInv, NEW w \in Worker, WriteEvent(w)
  PROVE  /\ emitting[w].event \in J!Event
         /\ \/ job[w] = Ingesting /\ emitting[w].event.payload \in TriggerEvent
            \/ /\ job[w].step = "record" /\ job[w] \in Dispatching
               /\ emitting[w].event.payload
                    = [type |-> "notified", source |-> job[w].item.source]
<1>1. emitting[w] # J!Idle
  BY DEF WriteEvent, J!Write, J!Idle
<1>2. emitting[w].event \in J!Event
  BY <1>1 DEF DeliverFirstInv, TypeOK, J!TypeOK, J!InEmit
<1>3. job[w].step = "record" => job[w] \in Dispatching
  BY DEF DeliverFirstInv, TypeOK, Resting, Ingesting, Picking
<1>4. QED
  BY <1>1, <1>2, <1>3 DEF DeliverFirstInv, EmitFollowsJob

LEMMA CopiesWrite ==
  ASSUME CopiesInv, DeliverFirstInv', FreshIds', NEW w \in Worker, WriteEvent(w)
  PROVE  CopiesInv'
<1> DEFINE e == emitting[w].event
<1>1. /\ log' = IF J!Readable THEN Append(log, e) ELSE log
      /\ outbox' = outbox
      /\ job'[w] = NextJob(job[w])
      /\ \A v \in Worker : v # w => job'[v] = job[v]
  BY DEF WriteEvent, J!Write, CopiesInv, DeliverFirstInv, TypeOK
<1>2. /\ e \in J!Event
      /\ \/ job[w] = Ingesting /\ e.payload \in TriggerEvent
         \/ /\ job[w].step = "record" /\ job[w] \in Dispatching
            /\ e.payload = [type |-> "notified", source |-> job[w].item.source]
  BY WhatIsWritten DEF CopiesInv
<1>3. /\ job'[w].step \in {"rest", "pick"}
      /\ job'[w].step = "pick" => job[w].step = "record" /\ job'[w].todo = job[w].todo
  BY <1>1 DEF NextJob, Resting
<1>4. TurnedToOnce' /\ \A s \in Nat : Appending(s)' \subseteq Appending(s)
  BY <1>1, <1>3 DEF CopiesInv, TurnedToOnce, Appending, Sending
<1>5. \A s \in Nat : Holding(s)' \subseteq Holding(s)
  BY <1>1, <1>3 DEF Holding, Busy, Sending
<1>6. CASE ~J!Readable
  BY <1>1, <1>4, <1>5, <1>6, CopiesKept
<1>7. CASE J!Readable
  <2>1. log \in Seq(J!Event) /\ log' = Append(log, e)
    BY <1>1, <1>7 DEF CopiesInv, DeliverFirstInv, TypeOK, J!TypeOK
  <2>2. /\ Len(log') = Len(log) + 1 /\ Len(log) \in Nat
        /\ \A i \in 1..Len(log) : log'[i] = log[i]
        /\ log'[Len(log) + 1] = e
    BY <1>2, <2>1, AppendedElements
  <2>3. ASSUME NEW s \in Nat PROVE OneEach(Copies(s)', Appending(s)', Worker)
    <3>1. Copies(s)' = Copies(s)
      BY <1>1 DEF Copies
    <3>2. OneEach(Copies(s), Appending(s), Worker)
      BY DEF CopiesInv
    <3>3. QED
      BY <1>4, <3>1, <3>2, FewerMay
  <2>4. ASSUME NEW s \in Nat PROVE OneEach(Records(s)', Holding(s)', Worker)
    <3>1. OneEach(Records(s), Holding(s), Worker)
      BY DEF CopiesInv
    <3>2. CASE job[w].step = "record" /\ job[w].item.source = s
      <4>1. w \in Holding(s)
        BY <3>2 DEF Holding, Sending
      <4>2. \A f \in job[w].todo : f.id # s
        BY <3>2 DEF CopiesInv, TurnedToOnce, Sending
      <4>3. w \notin Holding(s)'
        BY <1>3, <4>2 DEF Holding, Busy, Sending
      <4>4. Holding(s)' \subseteq Holding(s) \ {w}
        BY <1>5, <4>3
      <4>5. e.payload.type = "notified" /\ e.payload.source = s
        BY <1>2, <3>2 DEF Ingesting
      <4>6. Records(s)' = Records(s) \cup {Len(log) + 1}
        BY <2>2, <4>5 DEF Records
      <4>7. OneEach(Records(s) \cup {Len(log) + 1}, Holding(s)', Worker)
        BY <3>1, <4>1, <4>4, OneMoreHasCome
      <4>8. QED
        BY <4>6, <4>7
    <3>3. CASE ~(job[w].step = "record" /\ job[w].item.source = s)
      <4>1. ~(e.payload.type = "notified" /\ e.payload.source = s)
        BY <1>2, <3>3 DEF TriggerEvent, Trigger
      <4>2. Records(s)' = Records(s)
        BY <2>2, <4>1 DEF Records
      <4>3. QED
        BY <1>5, <3>1, <4>2, FewerMay
    <3>4. QED
      BY <3>2, <3>3
  <2>5. /\ (\A s \in Nat : OneEach(Copies(s), Appending(s), Worker))'
        /\ (\A s \in Nat : OneEach(Records(s), Holding(s), Worker))'
    BY <2>3, <2>4
  <2>6. QED
    BY <1>4, <2>5 DEF CopiesInv
<1>8. QED
  BY <1>6, <1>7

LEMMA CopiesStep ==
  ASSUME Settled
  PROVE  CopiesInv /\ [Next]_vars => CopiesInv'
<1> SUFFICES ASSUME CopiesInv, [Next]_vars PROVE CopiesInv'
  OBVIOUS
<1>0. DeliverFirstInv' /\ FreshIds'
  BY DeliverFirstStep, FreshStep DEF CopiesInv
<1>1. ASSUME NEW w \in Worker, NEW t \in Trigger, Ingest(w, t) PROVE CopiesInv'
  <2>1. UNCHANGED <<log, outbox>> /\ job' = [job EXCEPT ![w] = Ingesting]
    BY <1>1 DEF Ingest, J!Mint
  <2>2. Ingesting.step \notin {"pick", "deliver", "record"}
    BY DEF Ingesting
  <2>3. QED
    BY <1>0, <2>1, <2>2, GivesUp
<1>2. ASSUME NEW w \in Worker, RefuseEvent(w) \/ Crash(w) PROVE CopiesInv'
  <2>1. UNCHANGED <<log, outbox>> /\ job' = [job EXCEPT ![w] = Resting]
    BY <1>2 DEF RefuseEvent, J!Refuse, Crash
  <2>2. Resting.step \notin {"pick", "deliver", "record"}
    BY DEF Resting
  <2>3. QED
    BY <1>0, <2>1, <2>2, GivesUp
<1>3. ASSUME NEW w \in Worker, Record(w) \/ AcceptEvent(w) PROVE CopiesInv'
  <2>1. UNCHANGED <<log, outbox, job>>
    BY <1>3 DEF Record, J!Mint, AcceptEvent, J!Accept
  <2>2. QED
    BY <1>0, <2>1, SameJobs
<1>4. CASE UNCHANGED vars
  <2>1. UNCHANGED <<log, outbox, job>>
    BY <1>4 DEF vars
  <2>2. QED
    BY <1>0, <2>1, SameJobs
<1>5. QED
  BY <1>0, <1>1, <1>2, <1>3, <1>4, CopiesStartRun, CopiesCheckOutbox, CopiesDeliver,
     CopiesWrite DEF Next, Work

LEMMA CopiesInit ==
  ASSUME IsFiniteSet(Worker)
  PROVE  Init => CopiesInv
<1> SUFFICES ASSUME Init PROVE CopiesInv
  OBVIOUS
<1>1. Len(log) = 0 /\ Len(outbox) = 0 /\ \A w \in Worker : job[w].step = "rest"
  BY DEF Init, J!Init, Resting
<1>2. TurnedToOnce
  BY <1>1 DEF TurnedToOnce, Sending
<1>3. ASSUME NEW s \in Nat
      PROVE  OneEach(Copies(s), Appending(s), Worker) /\ OneEach(Records(s), Holding(s), Worker)
  <2>1. Copies(s) = {} /\ Records(s) = {}
    BY <1>1 DEF Copies, Records
  <2>2. Appending(s) \subseteq Worker /\ Holding(s) \subseteq Worker
    BY DEF Appending, Holding
  <2>3. QED
    BY <2>1, <2>2, NoneHasCome
<1>4. QED
  BY <1>2, <1>3, InitInv, FreshInit DEF CopiesInv

(* While the operator leaves each trigger its template, a race of any number *)
(* of workers, with any crashes, costs at most one copy of a message and one *)
(* record of its dispatch per worker.                                       *)
THEOREM RacesCostOneCopyEach ==
  ASSUME IsFiniteSet(Worker), Settled
  PROVE  Spec => []CopiesBounded
<1>1. CopiesInv => CopiesBounded
  <2> SUFFICES ASSUME CopiesInv, NEW s \in J!Ids
               PROVE  /\ Cardinality(Copies(s)) <= Cardinality(Worker)
                      /\ Cardinality(Records(s)) <= Cardinality(Worker)
    BY DEF CopiesBounded, Copies, Records
  <2>1. s \in Nat
    <3>1. TypeOK
      BY DEF CopiesInv, DeliverFirstInv
    <3>2. log \in Seq(J!Event)
      BY <3>1 DEF TypeOK, J!TypeOK
    <3>3. PICK i \in 1..Len(log) : s = log[i].id
      BY <3>2 DEF J!Ids, J!Range
    <3>4. QED
      BY <3>1, <3>3, LogIds
  <2>2. OneEach(Copies(s), Appending(s), Worker) /\ OneEach(Records(s), Holding(s), Worker)
    BY <2>1 DEF CopiesInv
  <2>3. QED
    BY <2>2, NoMoreThanTheActors
<1>2. QED
  BY <1>1, CopiesInit, CopiesStep, PTL DEF Spec
----------------------------------------------------------------------------
(* A worker that is alone, between the look for an entry and the append of   *)
(* it, finds the outbox as it left it.                                      *)
LoneInv ==
  /\ DeliverFirstInv /\ FreshIds
  /\ \A w \in Worker : job[w].step = "deliver" => ~Sent(job[w].item.source)

LEMMA LoneStep ==
  ASSUME Settled, \A v, w \in Worker : v = w
  PROVE  LoneInv /\ [Next]_vars => LoneInv'
<1> SUFFICES ASSUME LoneInv, [Next]_vars PROVE LoneInv'
  OBVIOUS
<1>0. DeliverFirstInv' /\ FreshIds'
  BY DeliverFirstStep, FreshStep DEF LoneInv
<1>1. ASSUME NEW w \in Worker, job'[w].step # "deliver" PROVE LoneInv'
  <2>1. \A v \in Worker : job'[v].step # "deliver"
    BY <1>1
  <2>2. QED
    BY <1>0, <2>1 DEF LoneInv
<1>2. ASSUME UNCHANGED <<outbox, job>> PROVE LoneInv'
  BY <1>0, <1>2 DEF LoneInv, Sent
<1>3. ASSUME NEW w \in Worker, CheckOutbox(w) PROVE LoneInv'
  <2>1. PICK e \in job[w].todo :
          job' = [job EXCEPT ![w] =
            [step |-> IF ItemOf(job[w].config, e) \in Range(outbox) THEN "record" ELSE "deliver",
             config |-> job[w].config, todo |-> job[w].todo \ {e},
             item |-> ItemOf(job[w].config, e)]]
    BY <1>3 DEF CheckOutbox
  <2> DEFINE d == job[w].config
             item == ItemOf(d, e)
  <2>2. outbox' = outbox /\ job[w].step = "pick"
    BY <1>3 DEF CheckOutbox
  <2>3. /\ job'[w].step = (IF item \in Range(outbox) THEN "record" ELSE "deliver")
        /\ job'[w].item = item
    BY <2>1 DEF LoneInv, DeliverFirstInv, TypeOK
  <2>4. job[w] \in Picking
    BY <2>2 DEF LoneInv, DeliverFirstInv, TypeOK, Resting, Ingesting, Dispatching
  <2>5. d \in Configs /\ e \in Owing(d) /\ item.source = e.id
    BY <2>2, <2>4 DEF Picking, LoneInv, DeliverFirstInv, WorkIsOwed, ItemOf
  <2>6. CASE item \in Range(outbox)
    BY <1>1, <2>3, <2>6
  <2>7. CASE item \notin Range(outbox)
    <3>1. ~Sent(e.id)
      BY <2>5, <2>7, NoCopyYet DEF LoneInv
    <3>2. \A v \in Worker : job'[v].item.source = e.id
      BY <2>3, <2>5
    <3>3. QED
      BY <1>0, <2>2, <3>1, <3>2 DEF LoneInv, Sent
  <2>8. QED
    BY <2>6, <2>7
<1>4. ASSUME NEW w \in Worker, NEW r, r.step # "deliver", job' = [job EXCEPT ![w] = r]
      PROVE  LoneInv'
  <2>1. job'[w] = r
    BY <1>4 DEF LoneInv, DeliverFirstInv, TypeOK
  <2>2. QED
    BY <1>1, <1>4, <2>1
<1>5. ASSUME NEW w \in Worker, Deliver(w) PROVE LoneInv'
  <2>1. job[w] \in Dispatching
    BY <1>5 DEF Deliver, LoneInv, DeliverFirstInv, TypeOK, Resting, Ingesting, Picking
  <2>2. job'[w].step = "record"
    BY <1>5, <2>1 DEF Deliver, Dispatching, LoneInv, DeliverFirstInv, TypeOK
  <2>3. QED
    BY <1>1, <2>2
<1>6. ASSUME NEW w \in Worker, NEW t \in Trigger, Ingest(w, t) PROVE LoneInv'
  BY <1>4, <1>6 DEF Ingest, Ingesting
<1>7. ASSUME NEW w \in Worker, NEW c \in Configs, StartRun(w, c) PROVE LoneInv'
  BY <1>4, <1>7 DEF StartRun
<1>8. ASSUME NEW w \in Worker, RefuseEvent(w) \/ Crash(w) PROVE LoneInv'
  BY <1>4, <1>8 DEF RefuseEvent, Crash, Resting
<1>9. ASSUME NEW w \in Worker, WriteEvent(w) PROVE LoneInv'
  <2>1. job' = [job EXCEPT ![w] = NextJob(job[w])]
    BY <1>9 DEF WriteEvent
  <2>2. NextJob(job[w]).step # "deliver"
    BY DEF NextJob, Resting
  <2>3. QED
    BY <1>4, <2>1, <2>2
<1>10. ASSUME NEW w \in Worker, Record(w) \/ AcceptEvent(w) PROVE LoneInv'
  BY <1>2, <1>10 DEF Record, AcceptEvent
<1>11. CASE UNCHANGED vars
  BY <1>2, <1>11 DEF vars
<1>12. QED
  BY <1>3, <1>5, <1>6, <1>7, <1>8, <1>9, <1>10, <1>11 DEF Next, Work

LEMMA LoneInit == Init => LoneInv
BY InitInv, FreshInit DEF Init, LoneInv, Resting

(* Steps that write neither store are stutters of the abstract dispatch.     *)
LEMMA DispatchStutters ==
  ASSUME UNCHANGED <<log, outbox>>
  PROVE  UNCHANGED D!vars
<1>1. OwedSources' = OwedSources
  BY DEF OwedSources, Owing
<1>2. SentSources' = SentSources /\ NotifiedSources' = NotifiedSources
  BY DEF SentSources, NotifiedSources
<1>3. QED
  BY <1>1, <1>2 DEF D!vars

(* Appending an entry is the abstract Send.                                  *)
LEMMA DeliverSends ==
  ASSUME LoneInv, NEW w \in Worker, Deliver(w)
  PROVE  D!Send
<1> DEFINE s == job[w].item.source
<1>1. log' = log /\ job[w].step = "deliver" /\ outbox' = Append(outbox, job[w].item)
  BY DEF Deliver, journal
<1>2. job[w] \in Dispatching
  BY <1>1 DEF LoneInv, DeliverFirstInv, TypeOK, Resting, Ingesting, Picking
<1>3. job[w].item \in Item /\ outbox \in Seq(Item) /\ job[w].config \in Configs
  BY <1>2 DEF Dispatching, LoneInv, DeliverFirstInv, TypeOK
<1>4. OwedSources' = OwedSources /\ NotifiedSources' = NotifiedSources
  BY <1>1 DEF OwedSources, Owing, NotifiedSources
<1>5. s \in OwedSources
  <2>1. PICK e \in Owing(job[w].config) : job[w].item = ItemOf(job[w].config, e)
    BY <1>1 DEF LoneInv, DeliverFirstInv, WorkIsOwed
  <2>2. s = e.id
    BY <2>1 DEF ItemOf
  <2>3. QED
    BY <1>3, <2>1, <2>2 DEF OwedSources
<1>6. s \notin Range(SentSources)
  <2>1. ~Sent(s)
    BY <1>1 DEF LoneInv
  <2>2. DOMAIN SentSources = 1..Len(outbox) /\ \A n \in 1..Len(outbox) : SentSources[n] = outbox[n].source
    BY DEF SentSources
  <2>3. QED
    BY <2>1, <2>2 DEF Sent, Range
<1>7. SentSources' = Append(SentSources, s)
  <2>1. /\ Len(outbox') = Len(outbox) + 1 /\ Len(outbox) \in Nat
        /\ \A i \in 1..Len(outbox) : outbox'[i] = outbox[i]
        /\ outbox'[Len(outbox) + 1] = job[w].item
    BY <1>1, <1>3, AppendedElements
  <2>2. SentSources' = [n \in 1..Len(outbox) + 1 |-> outbox'[n].source]
    BY <2>1 DEF SentSources
  <2>3. ASSUME NEW n \in 1..Len(outbox) PROVE outbox[n].source \in Nat
    <3>1. outbox[n] \in Item
      BY <1>3
    <3>2. QED
      BY <3>1 DEF Item
  <2>4. SentSources \in Seq(Nat) /\ Len(SentSources) = Len(outbox)
    BY <2>1, <2>3 DEF SentSources
  <2>5. s \in Nat
    BY <1>3 DEF Item
  <2>6. /\ Append(SentSources, s) \in Seq(Nat)
        /\ Len(Append(SentSources, s)) = Len(outbox) + 1
        /\ \A i \in 1..Len(outbox) : Append(SentSources, s)[i] = outbox[i].source
        /\ Append(SentSources, s)[Len(outbox) + 1] = s
    <3>1. \A i \in 1..Len(outbox) : SentSources[i] = outbox[i].source
      BY DEF SentSources
    <3> HIDE DEF s
    <3>2. QED
      BY <2>4, <2>5, <3>1, AppendedElements
  <2>7. \A i \in 1..Len(outbox) + 1 : Append(SentSources, s)[i] = outbox'[i].source
    BY <2>1, <2>6
  <2>8. QED
    BY <2>2, <2>6, <2>7
<1>8. QED
  BY <1>4, <1>5, <1>6, <1>7 DEF D!Send, D!Range, Range

(* The write of a trigger owes a message, the write of a NOTIFIED records a  *)
(* dispatch, unless nothing is configured for the one and the other repeats  *)
(* a record.                                                                *)
LEMMA WriteOwesOrRecords ==
  ASSUME LoneInv, NEW w \in Worker, WriteEvent(w)
  PROVE  D!Owe \/ D!Record \/ UNCHANGED D!vars
<1> DEFINE e == emitting[w].event
<1>1. log' = (IF J!Readable THEN Append(log, e) ELSE log) /\ outbox' = outbox
  BY DEF WriteEvent, J!Write
<1>2. SentSources' = SentSources
  BY <1>1 DEF SentSources
<1>3. CASE ~J!Readable
  BY <1>1, <1>3, DispatchStutters
<1>4. CASE J!Readable
  <2>1. e \in J!Event /\ log \in Seq(J!Event)
    BY WhatIsWritten DEF LoneInv, DeliverFirstInv, TypeOK, J!TypeOK
  <2>2. Range(log') = Range(log) \cup {e}
    <3>1. /\ Len(log') = Len(log) + 1 /\ Len(log) \in Nat /\ log' \in Seq(J!Event)
          /\ \A i \in 1..Len(log) : log'[i] = log[i]
          /\ log'[Len(log) + 1] = e
      BY <1>1, <1>4, <2>1, AppendedElements
    <3>2. DOMAIN log = 1..Len(log) /\ DOMAIN log' = 1..Len(log) + 1
      BY <2>1, <3>1
    <3>3. \A i \in DOMAIN log' : i \in DOMAIN log \/ i = Len(log) + 1
      BY <3>1, <3>2
    <3>4. QED
      BY <3>1, <3>2, <3>3 DEF Range
  <2>3. CASE e.payload \in TriggerEvent
    <3>1. e.payload.type \in Trigger /\ e.payload.type # "notified"
      BY <2>3 DEF TriggerEvent, Trigger
    <3>2. NotifiedSources' = NotifiedSources
      BY <2>2, <3>1 DEF NotifiedSources
    <3>3. \A c : Owing(c)' = Owing(c) \cup (IF c[e.payload.type] # NoTemplate THEN {e} ELSE {})
      BY <2>2, <3>1 DEF Owing
    <3>4. CASE \E c \in Configs : c[e.payload.type] # NoTemplate
      <4>1. OwedSources' = OwedSources \cup {e.id}
        BY <3>3, <3>4 DEF OwedSources
      <4>2. e.id \notin OwedSources
        <5>1. \A i \in 1..Len(log) : log[i].id # e.id
          BY DEF WriteEvent, J!Write, J!Idle, LoneInv, FreshIds
        <5>2. \A f \in Range(log) : f.id # e.id
          BY <2>1, <5>1 DEF Range
        <5>3. QED
          BY <5>2 DEF OwedSources, Owing
      <4>3. QED
        BY <1>2, <3>2, <4>1, <4>2 DEF D!Owe
    <3>5. CASE \A c \in Configs : c[e.payload.type] = NoTemplate
      <4>1. OwedSources' = OwedSources
        BY <3>3, <3>5 DEF OwedSources
      <4>2. QED
        BY <1>2, <3>2, <4>1 DEF D!vars
    <3>6. QED
      BY <3>4, <3>5
  <2>4. CASE /\ job[w].step = "record"
             /\ e.payload = [type |-> "notified", source |-> job[w].item.source]
    <3> DEFINE s == job[w].item.source
    <3>1. e.payload.type = "notified" /\ e.payload.source = s /\ e.payload.type \notin Trigger
      BY <2>4 DEF Trigger
    <3>2. NotifiedSources' = NotifiedSources \cup {s}
      BY <2>2, <3>1 DEF NotifiedSources
    <3>3. \A c : Owing(c)' = Owing(c)
      BY <2>2, <3>1 DEF Owing
    <3>4. OwedSources' = OwedSources
      BY <3>3 DEF OwedSources
    <3>5. s \in Range(SentSources)
      <4>1. Sent(s)
        BY <2>4 DEF LoneInv, DeliverFirstInv, RecordingIsSent
      <4>2. QED
        BY <4>1 DEF Sent, SentSources, Range
    <3>6. CASE s \in NotifiedSources
      BY <1>2, <3>2, <3>4, <3>6 DEF D!vars
    <3>7. CASE s \notin NotifiedSources
      BY <1>2, <3>2, <3>4, <3>5, <3>7 DEF D!Record, D!Range, Range
    <3>8. QED
      BY <3>6, <3>7
  <2>5. QED
    BY <2>3, <2>4, WhatIsWritten DEF LoneInv
<1>5. QED
  BY <1>3, <1>4

(* A worker on its own - one API process, or the replay while nothing is     *)
(* ingested - keeps the promise of a transactional dispatch: a message is    *)
(* sent at most once, only when it is owed, and recorded only once it was    *)
(* sent, whatever dies in between.                                          *)
THEOREM LoneWorkerDispatches ==
  ASSUME Settled, \A v, w \in Worker : v = w
  PROVE  Spec => ImplementsDispatch
<1>1. Init => D!Init
  <2> SUFFICES ASSUME Init PROVE D!Init
    OBVIOUS
  <2>1. log = <<>> /\ outbox = <<>>
    BY DEF Init, J!Init
  <2>2. Range(log) = {}
    BY <2>1 DEF Range
  <2>3. OwedSources = {} /\ NotifiedSources = {}
    BY <2>2 DEF OwedSources, Owing, NotifiedSources
  <2>4. SentSources = <<>>
    BY <2>1 DEF SentSources
  <2>5. QED
    BY <2>3, <2>4 DEF D!Init
<1>2. LoneInv /\ [Next]_vars => [D!Next]_D!vars
  <2> SUFFICES ASSUME LoneInv, [Next]_vars PROVE [D!Next]_D!vars
    OBVIOUS
  <2>1. ASSUME NEW w \in Worker, Deliver(w) PROVE [D!Next]_D!vars
    BY <2>1, DeliverSends DEF D!Next
  <2>2. ASSUME NEW w \in Worker, WriteEvent(w) PROVE [D!Next]_D!vars
    BY <2>2, WriteOwesOrRecords DEF D!Next
  <2>3. ASSUME UNCHANGED <<log, outbox>> PROVE [D!Next]_D!vars
    BY <2>3, DispatchStutters
  <2>4. ASSUME NEW w \in Worker,
               \/ \E t \in Trigger : Ingest(w, t)
               \/ \E c \in Configs : StartRun(w, c)
               \/ CheckOutbox(w) \/ Record(w) \/ AcceptEvent(w) \/ RefuseEvent(w) \/ Crash(w)
        PROVE  UNCHANGED <<log, outbox>>
    BY <2>4 DEF Ingest, J!Mint, StartRun, CheckOutbox, journal, Record, AcceptEvent,
                J!Accept, RefuseEvent, J!Refuse, Crash
  <2>5. CASE UNCHANGED vars
    BY <2>3, <2>5 DEF vars
  <2>6. QED
    BY <2>1, <2>2, <2>3, <2>4, <2>5 DEF Next, Work
<1>3. QED
  BY <1>1, <1>2, LoneInit, LoneStep, PTL DEF Spec, ImplementsDispatch, D!Spec
=============================================================================
