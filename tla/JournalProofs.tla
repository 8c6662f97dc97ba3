--------------------------- MODULE JournalProofs ---------------------------
(***************************************************************************)
(* Proofs about the journal store, for any number of writers and events.   *)
(***************************************************************************)
EXTENDS Journal, ListFacts, TLAPS

LEMMA InitTyped == Init => TypeOK
<1> SUFFICES ASSUME Init PROVE TypeOK
  OBVIOUS
<1>1. log \in Seq(Event)
  BY DEF Init
<1>2. emitting \in [Writer -> {Idle} \cup InEmit]
  BY DEF Init
<1>3. QED
  BY <1>1, <1>2 DEF Init, TypeOK

(* No step of a writer takes the store out of its type. *)
LEMMA TypeStep == TypeOK /\ [Next]_vars => TypeOK'
<1> SUFFICES ASSUME TypeOK, [Next]_vars PROVE TypeOK'
  OBVIOUS
<1> USE DEF TypeOK, Idle, InEmit, Event
<1>1. ASSUME NEW w \in Writer, NEW p \in Payload, Mint(w, p) PROVE TypeOK'
  BY <1>1 DEF Mint
<1>2. ASSUME NEW w \in Writer, Accept(w) PROVE TypeOK'
  BY <1>2 DEF Accept
<1>3. ASSUME NEW w \in Writer, Refuse(w) PROVE TypeOK'
  BY <1>3 DEF Refuse
<1>4. ASSUME NEW w \in Writer, Write(w) PROVE TypeOK'
  <2>1. emitting[w].event \in Event
    BY <1>4 DEF Write
  <2>2. log' \in Seq(Event)
    BY <1>4, <2>1, AppendedElements DEF Write
  <2>3. QED
    BY <1>4, <2>2 DEF Write
<1>5. ASSUME NEW w \in Writer, Crash(w) PROVE TypeOK'
  BY <1>5 DEF Crash
<1>6. CASE UNCHANGED vars
  BY <1>6 DEF vars
<1>7. QED
  BY <1>1, <1>2, <1>3, <1>4, <1>5, <1>6 DEF Next, Emit

(* The state of the store has its type, whatever its writers do: in         *)
(* particular a writer is in at most one emit, with a complete event.       *)
THEOREM TypeCorrect == Spec => []TypeOK
<1>1. Init => TypeOK
  BY InitTyped
<1>2. QED
  BY <1>1, TypeStep, PTL DEF Spec

(* What makes the single-writer store an ordered log: the stored ids were   *)
(* all minted, and the event a lone writer holds is still the next one.     *)
LoneWriterInv ==
  /\ TypeOK
  /\ SequenceIsPosition
  /\ \A i \in 1..Len(log) : log[i].id <= minted
  /\ \A w \in Writer : emitting[w] # Idle =>
       /\ emitting[w].event.sequence = Len(log)
       /\ emitting[w].event.id <= minted
       /\ \A i \in 1..Len(log) : log[i].id < emitting[w].event.id

LEMMA LoneWriterStep ==
  ASSUME \A v, w \in Writer : v = w
  PROVE  LoneWriterInv /\ [Next]_vars => LoneWriterInv'
<1> SUFFICES ASSUME LoneWriterInv, [Next]_vars PROVE LoneWriterInv'
  OBVIOUS
<1> USE DEF LoneWriterInv, SequenceIsPosition
<1>0. TypeOK /\ TypeOK'
  BY TypeStep
<1>1. ASSUME NEW w \in Writer, NEW p \in Payload, Mint(w, p) PROVE LoneWriterInv'
  <2>1. emitting'[w].event.sequence = Len(log) /\ emitting'[w].event.id = minted + 1
    BY <1>0, <1>1 DEF Mint, TypeOK
  <2>2. log' = log /\ minted' = minted + 1 /\ minted \in Nat
    BY <1>0, <1>1 DEF Mint, TypeOK
  <2>3. \A i \in 1..Len(log) : log[i].id \in Nat /\ log[i].id <= minted
    <3>1. \A i \in 1..Len(log) : log[i] \in Event
      BY <1>0 DEF TypeOK
    <3>2. QED
      BY <3>1 DEF Event
  <2>4. SequenceIsPosition' /\ \A i \in 1..Len(log') : log'[i].id <= minted'
    <3>1. SequenceIsPosition'
      BY <2>2
    <3>2. \A i \in 1..Len(log') : log'[i].id <= minted'
      BY <2>2, <2>3
    <3>3. QED
      BY <3>1, <3>2
  <2>5. ASSUME NEW v \in Writer
        PROVE  /\ emitting'[v].event.sequence = Len(log')
               /\ emitting'[v].event.id <= minted'
               /\ \A i \in 1..Len(log') : log'[i].id < emitting'[v].event.id
    <3>1. v = w
      OBVIOUS
    <3>2. minted + 1 \in Nat /\ \A i \in 1..Len(log) : log[i].id < minted + 1
      BY <2>2, <2>3
    <3>3. QED
      BY <2>1, <2>2, <3>1, <3>2
  <2>6. QED
    BY <1>0, <2>4, <2>5
<1>2. ASSUME NEW w \in Writer, Accept(w) PROVE LoneWriterInv'
  BY <1>0, <1>2 DEF Accept, TypeOK, Idle, InEmit, Event
<1>3. ASSUME NEW w \in Writer, Refuse(w) PROVE LoneWriterInv'
  BY <1>0, <1>3 DEF Refuse, TypeOK, Idle, InEmit, Event
<1>4. ASSUME NEW w \in Writer, Write(w) PROVE LoneWriterInv'
  <2> DEFINE e == emitting[w].event
  <2>1. e \in Event /\ emitting[w] # Idle /\ log \in Seq(Event)
    BY <1>0, <1>4 DEF Write, TypeOK, Idle, InEmit
  <2>2. emitting' = [emitting EXCEPT ![w] = Idle] /\ minted' = minted
    BY <1>4 DEF Write
  <2>3. CASE ~Readable
    BY <1>0, <1>4, <2>2, <2>3 DEF Write, TypeOK
  <2>4. CASE Readable
    <3>1. log' = Append(log, e)
      BY <1>4, <2>4 DEF Write
    <3>2. /\ Len(log') = Len(log) + 1
          /\ \A i \in 1..Len(log) : log'[i] = log[i]
          /\ log'[Len(log) + 1] = e
      BY <2>1, <3>1, AppendedElements
    <3>3. SequenceIsPosition' /\ \A i \in 1..Len(log') : log'[i].id <= minted'
      <4>1. Len(log) \in Nat
        BY <2>1
      <4>2. SequenceIsPosition'
        BY <2>1, <3>2, <4>1
      <4>3. \A i \in 1..Len(log') : log'[i].id <= minted'
        BY <2>1, <2>2, <3>2, <4>1
      <4>4. QED
        BY <4>2, <4>3
    <3>4. \A v \in Writer : emitting'[v] = Idle
      BY <1>0, <2>2 DEF TypeOK
    <3>5. QED
      BY <1>0, <3>3, <3>4
  <2>5. QED
    BY <2>3, <2>4
<1>5. ASSUME NEW w \in Writer, Crash(w) PROVE LoneWriterInv'
  BY <1>0, <1>5 DEF Crash, TypeOK, Idle, InEmit, Event
<1>6. CASE UNCHANGED vars
  BY <1>0, <1>6 DEF vars
<1>7. QED
  BY <1>1, <1>2, <1>3, <1>4, <1>5, <1>6 DEF Next, Emit

LEMMA LoneWriterInvariant ==
  ASSUME \A v, w \in Writer : v = w
  PROVE  Spec => []LoneWriterInv
<1>1. Init => LoneWriterInv
  BY InitTyped DEF Init, LoneWriterInv, SequenceIsPosition
<1>2. LoneWriterInv /\ [Next]_vars => LoneWriterInv'
  BY LoneWriterStep
<1>3. QED
  BY <1>1, <1>2, PTL DEF Spec

(* The journal of a case that one writer at a time works on is numbered     *)
(* without a gap or a repetition, crashes and truncated lines included.     *)
THEOREM LoneWriterNumbering ==
  ASSUME \A v, w \in Writer : v = w
  PROVE  Spec => []SequenceIsPosition
<1>1. LoneWriterInv => SequenceIsPosition
  BY DEF LoneWriterInv
<1>2. Spec => []LoneWriterInv
  BY LoneWriterInvariant
<1>3. QED
  BY <1>1, <1>2, PTL

(* SequenceConflictError and DuplicateEventError cannot reach a writer that *)
(* is alone on the case.                                                    *)
THEOREM LoneWriterNeverRefused ==
  ASSUME \A v, w \in Writer : v = w
  PROVE  Spec => []NeverRefusedAlone
<1>1. LoneWriterInv => NeverRefusedAlone
  <2> SUFFICES ASSUME LoneWriterInv, NEW w \in Writer, emitting[w].phase = "numbered"
               PROVE  Appendable(emitting[w].event)
    BY DEF NeverRefusedAlone
  <2>1. emitting[w] # Idle
    BY DEF Idle
  <2>2. /\ emitting[w].event.sequence = Len(log)
        /\ \A i \in 1..Len(log) : log[i].id < emitting[w].event.id
    BY <2>1 DEF LoneWriterInv
  <2>3. log \in Seq(Event) /\ emitting[w] \in InEmit
    BY <2>1 DEF LoneWriterInv, TypeOK
  <2>4. emitting[w].event.id \in Nat
    BY <2>3 DEF InEmit, Event
  <2>5. ASSUME NEW e \in Range(log) PROVE e.id # emitting[w].event.id
    <3>1. PICK i \in 1..Len(log) : e = log[i]
      BY <2>3 DEF Range
    <3>2. e.id < emitting[w].event.id
      BY <2>2, <3>1
    <3>3. e \in Event
      BY <2>3, <3>1
    <3>4. e.id \in Nat
      BY <3>3 DEF Event
    <3> QED
      BY <2>4, <3>2, <3>4
  <2> QED
    BY <2>2, <2>5 DEF Appendable, Ids
<1>2. Spec => []LoneWriterInv
  BY LoneWriterInvariant
<1>3. QED
  BY <1>1, <1>2, PTL
----------------------------------------------------------------------------
(* The writers race.  The places that carry one number, and the writers     *)
(* whose event was checked for it and may still be written under it.        *)
Filed(s) == {i \in 1..Len(log) : log[i].sequence = s}
Cleared(s) ==
  {w \in Writer : emitting[w].phase = "checked" /\ emitting[w].event.sequence = s}

(* No number runs ahead of the log, so a writer is cleared for a number     *)
(* only while no place carries it yet; from then on each writer that is     *)
(* cleared for it files at most one event under it.                         *)
RaceInv ==
  /\ TypeOK
  /\ \A i \in 1..Len(log) : log[i].sequence < Len(log)
  /\ \A w \in Writer : emitting[w] # Idle => emitting[w].event.sequence <= Len(log)
  /\ \A s \in Nat : OneEach(Filed(s), Cleared(s), Writer)

(* A step that only changes what a writer is emitting clears no writer, but  *)
(* for a number no place carries.                                           *)
LEMMA RaceOfOthers ==
  ASSUME RaceInv, TypeOK', log' = log,
         \A w \in Writer : emitting'[w] # Idle => emitting'[w].event.sequence <= Len(log),
         \A s \in Nat : Cleared(s)' \subseteq Cleared(s) \/ Filed(s) = {}
  PROVE  RaceInv'
<1>1. \A s \in Nat : Filed(s)' = Filed(s)
  BY DEF Filed
<1>2. ASSUME NEW s \in Nat PROVE OneEach(Filed(s), Cleared(s)', Writer)
  <2>1. OneEach(Filed(s), Cleared(s), Writer)
    BY DEF RaceInv
  <2>2. CASE Cleared(s)' \subseteq Cleared(s)
    BY <2>1, <2>2, FewerMay
  <2>3. CASE Filed(s) = {}
    <3>1. Cleared(s)' \subseteq Writer
      BY DEF Cleared
    <3>2. IsFiniteSet(Writer)
      BY <2>1 DEF OneEach
    <3>3. QED
      BY <2>3, <3>1, <3>2, NoneHasCome
  <2>4. QED
    BY <2>2, <2>3
<1>3. \A s \in Nat : OneEach(Filed(s)', Cleared(s)', Writer)
  BY <1>1, <1>2
<1>4. (\A s \in Nat : OneEach(Filed(s), Cleared(s), Writer))'
  BY <1>3
<1>5. QED
  BY <1>4 DEF RaceInv

(* A line that is written is one more place under the number its writer was *)
(* cleared for, and that writer is cleared for nothing any more.            *)
LEMMA RaceWrite ==
  ASSUME RaceInv, TypeOK', NEW w \in Writer, Write(w), Readable
  PROVE  RaceInv'
<1> DEFINE e == emitting[w].event
<1>1. e \in Event /\ emitting[w] # Idle /\ log \in Seq(Event) /\ e.sequence \in Nat
  BY DEF RaceInv, Write, TypeOK, Idle, InEmit, Event
<1>2. emitting' = [emitting EXCEPT ![w] = Idle] /\ log' = Append(log, e)
  BY DEF Write
<1>3. /\ Len(log') = Len(log) + 1
      /\ \A i \in 1..Len(log) : log'[i] = log[i]
      /\ log'[Len(log) + 1] = e
  BY <1>1, <1>2, AppendedElements
<1>4. Len(log) \in Nat
  BY <1>1
<1>5. emitting'[w] = Idle /\ \A v \in Writer : v # w => emitting'[v] = emitting[v]
  BY <1>2 DEF RaceInv, TypeOK
<1>6. e.sequence <= Len(log)
  BY <1>1 DEF RaceInv
<1>7. \A i \in 1..Len(log) : log[i].sequence \in Nat
  <2>1. \A i \in 1..Len(log) : log[i] \in Event
    BY <1>1
  <2>2. QED
    BY <2>1 DEF Event
<1>8. \A i \in 1..Len(log') : log'[i].sequence < Len(log')
  BY <1>1, <1>3, <1>4, <1>6, <1>7 DEF RaceInv
<1>9. ASSUME NEW v \in Writer, emitting'[v] # Idle
      PROVE  emitting'[v].event.sequence <= Len(log')
  <2>1. v # w /\ emitting'[v] = emitting[v] /\ emitting[v] # Idle
    BY <1>5, <1>9
  <2>2. emitting[v].event.sequence <= Len(log)
    BY <2>1 DEF RaceInv
  <2>3. emitting[v] \in InEmit
    BY <2>1 DEF RaceInv, TypeOK
  <2>4. emitting[v].event.sequence \in Nat
    BY <2>3 DEF InEmit, Event
  <2>5. QED
    BY <1>3, <1>4, <2>1, <2>2, <2>4
<1>10. ASSUME NEW s \in Nat PROVE OneEach(Filed(s)', Cleared(s)', Writer)
  <2>1. OneEach(Filed(s), Cleared(s), Writer)
    BY DEF RaceInv
  <2>2. Cleared(s)' \subseteq Cleared(s) \ {w}
    BY <1>5 DEF Cleared, Idle
  <2>3. CASE e.sequence = s
    <3>1. w \in Cleared(s)
      BY <2>3 DEF Cleared, Write
    <3>2. Filed(s)' = Filed(s) \cup {Len(log) + 1}
      BY <1>3, <1>4, <2>3 DEF Filed
    <3>3. OneEach(Filed(s) \cup {Len(log) + 1}, Cleared(s)', Writer)
      BY <2>1, <2>2, <3>1, OneMoreHasCome
    <3>4. QED
      BY <3>2, <3>3
  <2>4. CASE e.sequence # s
    <3>1. Filed(s)' = Filed(s)
      BY <1>3, <1>4, <2>4 DEF Filed
    <3>2. QED
      BY <2>1, <2>2, <3>1, FewerMay
  <2>5. QED
    BY <2>3, <2>4
<1>11. (\A s \in Nat : OneEach(Filed(s), Cleared(s), Writer))'
  BY <1>10
<1>12. QED
  BY <1>8, <1>9, <1>11 DEF RaceInv

LEMMA RaceStep == RaceInv /\ [Next]_vars => RaceInv'
<1> SUFFICES ASSUME RaceInv, [Next]_vars PROVE RaceInv'
  OBVIOUS
<1>0. TypeOK /\ TypeOK'
  BY TypeStep DEF RaceInv
<1>1. ASSUME NEW w \in Writer, NEW p \in Payload, Mint(w, p) PROVE RaceInv'
  <2>1. /\ emitting'[w].phase = "numbered" /\ emitting'[w].event.sequence = Len(log)
        /\ \A v \in Writer : v # w => emitting'[v] = emitting[v]
    BY <1>0, <1>1 DEF Mint, TypeOK
  <2>2. log' = log /\ Len(log) \in Nat
    BY <1>0, <1>1 DEF Mint, TypeOK
  <2>3. \A s \in Nat : Cleared(s)' \subseteq Cleared(s)
    BY <2>1 DEF Cleared
  <2>4. \A v \in Writer : emitting'[v] # Idle => emitting'[v].event.sequence <= Len(log)
    BY <2>1, <2>2 DEF RaceInv
  <2>5. QED
    BY <1>0, <2>2, <2>3, <2>4, RaceOfOthers
<1>2. ASSUME NEW w \in Writer, Accept(w) PROVE RaceInv'
  <2>1. /\ emitting[w] # Idle /\ emitting'[w] # Idle
        /\ emitting'[w].event = emitting[w].event
        /\ \A v \in Writer : v # w => emitting'[v] = emitting[v]
    BY <1>0, <1>2 DEF Accept, TypeOK, Idle, InEmit
  <2>2. log' = log /\ emitting[w].event.sequence = Len(log)
    BY <1>2 DEF Accept, Appendable
  <2>3. ASSUME NEW s \in Nat
        PROVE  Cleared(s)' \subseteq Cleared(s) \/ Filed(s) = {}
    <3>1. CASE s = Len(log)
      <4>1. \A i \in 1..Len(log) : log[i].sequence # s
        <5>1. ASSUME NEW i \in 1..Len(log) PROVE log[i].sequence # s
          <6>1. log[i].sequence < Len(log)
            BY DEF RaceInv
          <6>2. Len(log) \in Nat
            BY <1>0 DEF TypeOK
          <6>3. QED
            BY <3>1, <6>1, <6>2
        <5>2. QED
          BY <5>1
      <4>2. QED
        BY <4>1 DEF Filed
    <3>2. CASE s # Len(log)
      BY <2>1, <2>2, <3>2 DEF Cleared
    <3>3. QED
      BY <3>1, <3>2
  <2>4. \A v \in Writer : emitting'[v] # Idle => emitting'[v].event.sequence <= Len(log)
    BY <2>1 DEF RaceInv
  <2>5. QED
    BY <1>0, <2>2, <2>3, <2>4, RaceOfOthers
<1>3. ASSUME NEW w \in Writer, Refuse(w) \/ Crash(w) PROVE RaceInv'
  <2>1. /\ log' = log /\ emitting'[w] = Idle
        /\ \A v \in Writer : v # w => emitting'[v] = emitting[v]
    BY <1>0, <1>3 DEF Refuse, Crash, TypeOK
  <2>2. \A s \in Nat : Cleared(s)' \subseteq Cleared(s)
    BY <2>1 DEF Cleared, Idle
  <2>3. \A v \in Writer : emitting'[v] # Idle => emitting'[v].event.sequence <= Len(log)
    BY <2>1 DEF RaceInv
  <2>4. QED
    BY <1>0, <2>1, <2>2, <2>3, RaceOfOthers
<1>4. ASSUME NEW w \in Writer, Write(w) PROVE RaceInv'
  <2>1. CASE Readable
    BY <1>0, <1>4, <2>1, RaceWrite
  <2>2. CASE ~Readable
    <3>1. /\ log' = log /\ emitting'[w] = Idle
          /\ \A v \in Writer : v # w => emitting'[v] = emitting[v]
      BY <1>0, <1>4, <2>2 DEF Write, TypeOK
    <3>2. \A s \in Nat : Cleared(s)' \subseteq Cleared(s)
      BY <3>1 DEF Cleared, Idle
    <3>3. \A v \in Writer : emitting'[v] # Idle => emitting'[v].event.sequence <= Len(log)
      BY <3>1 DEF RaceInv
    <3>4. QED
      BY <1>0, <3>1, <3>2, <3>3, RaceOfOthers
  <2>3. QED
    BY <2>1, <2>2
<1>5. CASE UNCHANGED vars
  <2>1. log' = log /\ \A v \in Writer : emitting'[v] = emitting[v]
    BY <1>5 DEF vars
  <2>2. \A s \in Nat : Cleared(s)' \subseteq Cleared(s)
    BY <2>1 DEF Cleared
  <2>3. \A v \in Writer : emitting'[v] # Idle => emitting'[v].event.sequence <= Len(log)
    BY <2>1 DEF RaceInv
  <2>4. QED
    BY <1>0, <2>1, <2>2, <2>3, RaceOfOthers
<1>6. QED
  BY <1>1, <1>2, <1>3, <1>4, <1>5 DEF Next, Emit

(* However the writers interleave, tear the file or die, no sequence number *)
(* is on more events than there are writers: a race lost between numbering  *)
(* and writing costs each of them one duplicate and no more.                *)
THEOREM SharedSequencesAreBounded ==
  ASSUME IsFiniteSet(Writer)
  PROVE  Spec => []SharedSequenceBounded
<1>1. Init => RaceInv
  <2> SUFFICES ASSUME Init PROVE RaceInv
    OBVIOUS
  <2>1. Len(log) = 0 /\ \A w \in Writer : emitting[w] = Idle
    BY DEF Init
  <2>2. \A s \in Nat : Filed(s) = {} /\ Cleared(s) \subseteq Writer
    BY <2>1 DEF Filed, Cleared
  <2>3. \A s \in Nat : OneEach(Filed(s), Cleared(s), Writer)
    BY <2>2, NoneHasCome
  <2>4. QED
    BY <2>1, <2>3, InitTyped DEF RaceInv
<1>2. RaceInv => SharedSequenceBounded
  <2> SUFFICES ASSUME RaceInv, NEW s \in 0..Len(log)
               PROVE  Cardinality(Filed(s)) <= Cardinality(Writer)
    BY DEF SharedSequenceBounded, Filed
  <2>1. s \in Nat
    BY DEF RaceInv, TypeOK
  <2>2. OneEach(Filed(s), Cleared(s), Writer)
    BY <2>1 DEF RaceInv
  <2>3. QED
    BY <2>2, NoMoreThanTheActors
<1>3. QED
  BY <1>1, <1>2, RaceStep, PTL DEF Spec
=============================================================================
