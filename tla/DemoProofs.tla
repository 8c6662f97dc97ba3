----------------------------- MODULE DemoProofs -----------------------------
(***************************************************************************)
(* Proofs about the demo: its store (Demo), for any number of page threads, *)
(* any capacity, any time to live and any number of submissions, and its    *)
(* forms and the colouring of a working copy (Forms), for any form, any     *)
(* answers and any copy.                                                    *)
(***************************************************************************)
EXTENDS Demo, Forms, ListFacts, TLAPS

Left == [pipeline |-> {<<"get", "link_for_case">>, <<"link_for_case">>, << >>},
         review |-> {<<"link_for_case">>, << >>},
         party |-> {<<"link_by_token">>, << >>},
         intake |-> {<<"ingest", "put", "request_statement">>, <<"put", "request_statement">>,
                     <<"request_statement">>, << >>},
         statement |-> {<<"link_by_token", "ingest", "put", "record_statement", "attach">>,
                        <<"ingest", "put", "record_statement", "attach">>,
                        <<"put", "record_statement", "attach">>,
                        <<"record_statement", "attach">>, <<"attach">>, << >>}]
ViewerPage == {"pipeline", "review", "party"}
Page == ViewerPage \cup {"intake", "statement"}

HandlerType ==
  [page : Page, arg : Nat, moment : 0 .. MaxTime, calls : UNION {Left[p] : p \in Page},
   dict : {"entries", "links"}, phase : {"start", "scan", "drop", "swept"},
   keys : Seq(Nat), at : Nat \ {0}, todo : Seq(Nat), case : Nat,
   held : Entry \cup {None}, link : Link \cup {None}]

-----------------------------------------------------------------------------
(* The invariant.  A dictionary holds a key once.  A sweep owes the deletion  *)
(* of what it has found and a look at what it has not reached; nothing else  *)
(* in the dictionary is expired, since what is added under it is younger     *)
(* than a handler can take.                                                  *)
Once(d) == \A i, j \in DOMAIN d : d[i].id = d[j].id => i = j

Owes(h, id) ==
  \/ h.phase = "scan" /\ \E k \in DOMAIN h.keys : h.at <= k /\ h.keys[k] = id
  \/ h.phase \in {"scan", "drop"} /\ \E k \in DOMAIN h.todo : h.todo[k] = id

EntriesSwept(h, E) ==
  /\ h.dict = "entries" /\ h.phase # "start" =>
       \A i \in DOMAIN E : Expired(E[i], h.moment) => Owes(h, E[i].id)
  /\ h.dict = "links" => \A i \in DOMAIN E : ~ Expired(E[i], h.moment)
LinksSwept(h, L) ==
  h.dict = "links" /\ h.phase # "start" =>
    \A i \in DOMAIN L : L[i].statement = 0 /\ Expired(L[i], h.moment) => Owes(h, L[i].id)

Shown(h) ==
  /\ h.held # None => h.moment < h.held.at + TTL
  /\ h.link # None /\ h.link.statement = 0 => h.moment < h.link.at + TTL

(* A link says what was asked, and what answered it. *)
True(C, A, l) ==
  /\ l \in Link /\ l.id \in DOMAIN A /\ l.case \in DOMAIN C
  /\ C[l.case] = [kind |-> "intake", hears |-> TRUE]
  /\ l.case = A[l.id].case /\ l.at = A[l.id].at
  /\ l.statement # 0 =>
       l.statement \in DOMAIN C /\ C[l.statement] = [kind |-> "statement", of |-> l.id]

HandlerOK(t, E, L, C, A, h) ==
  /\ h \in HandlerType /\ h.calls \in Left[h.page]
  /\ h.moment <= t /\ t <= h.moment + Patience
  /\ h.phase = "swept" => h.dict = "links"
  /\ EntriesSwept(h, E) /\ LinksSwept(h, L) /\ Shown(h)
  /\ h.link # None => True(C, A, h.link)

(* The handlers of the event loop: an application asks once, for its own     *)
(* case; a statement is of the request it was sent to, which has no answer   *)
(* until it has.                                                             *)
IntakeOK(h, E, C, A) ==
  /\ h.calls = <<"put", "request_statement">> => \A i \in DOMAIN E : E[i].id # h.case
  /\ h.calls \in {<<"put", "request_statement">>, <<"request_statement">>} =>
       /\ h.case \in DOMAIN C /\ C[h.case] \in [kind : {"intake"}, hears : BOOLEAN]
       /\ Len(A) < Len(C) /\ \A i \in DOMAIN A : A[i].case # h.case
  /\ h.calls = <<"request_statement">> /\ (h.dict = "links" \/ h.phase # "start") =>
       C[h.case].hears

StatementOK(h, E, L, C, A) ==
  /\ h.arg \in DOMAIN A
  /\ h.calls = <<"put", "record_statement", "attach">> => \A i \in DOMAIN E : E[i].id # h.case
  /\ h.calls \in {<<"put", "record_statement", "attach">>, <<"record_statement", "attach">>,
                  <<"attach">>} =>
       h.case \in DOMAIN C /\ C[h.case] = [kind |-> "statement", of |-> h.arg]
  /\ h.calls \in {<<"ingest", "put", "record_statement", "attach">>,
                  <<"put", "record_statement", "attach">>, <<"record_statement", "attach">>,
                  <<"attach">>} =>
       \A i \in DOMAIN L : L[i].id = h.arg => L[i].statement = 0
  /\ h.link # None => h.link.id = h.arg
  /\ h.calls = <<"attach">> => h.link # None

LoopOK(h, E, L, C, A) ==
  /\ h.page = "intake" => IntakeOK(h, E, C, A)
  /\ h.page = "statement" => StatementOK(h, E, L, C, A)

(* What is on the books, whoever is at work. *)
Books(E, L, C, A) ==
  /\ E \in Seq(Entry) /\ L \in Seq(Link) /\ C \in Seq(Case) /\ A \in Seq(Link)
  /\ Once(E) /\ Once(L)
  /\ Len(C) <= MaxCases /\ Len(A) <= Len(C)
  /\ \A i \in DOMAIN E : E[i].id <= Len(C)
  /\ \A i \in DOMAIN L : True(C, A, L[i])
  /\ \A i \in DOMAIN A : A[i].case <= Len(C)
  /\ \A i, j \in DOMAIN A : A[i].case = A[j].case => i = j

ActorOK(t, E, L, C, A, a, h) ==
  h.page # "idle" =>
    /\ HandlerOK(t, E, L, C, A, h)
    /\ a \in Viewer => h.page \in ViewerPage
    /\ a = Loop => LoopOK(h, E, L, C, A)

DemoInv ==
  /\ now \in 0 .. MaxTime
  /\ Books(entries, links, cases, asked)
  /\ act \in [Actor -> HandlerType \cup {Idle}]
  /\ \A a \in Actor : ActorOK(now, entries, links, cases, asked, a, act[a])

-----------------------------------------------------------------------------
(* Lists. *)
LEMMA SecondPart ==
  ASSUME NEW S, NEW p \in Seq(S), NEW q \in Seq(S),
         NEW i \in 1 .. Len(p) + Len(q), i > Len(p)
  PROVE  (p \o q)[i] = q[i - Len(p)]
OBVIOUS

LEMMA WithoutOne ==
  ASSUME NEW S, NEW d \in Seq(S), NEW n \in DOMAIN d
  PROVE  /\ Without(d, n) \in Seq(S)
         /\ Len(Without(d, n)) = Len(d) - 1
         /\ DOMAIN Without(d, n) = 1 .. Len(d) - 1
         /\ \A i \in 1 .. Len(d) - 1 : Without(d, n)[i] = d[IF i < n THEN i ELSE i + 1]
<1> DEFINE p == SubSeq(d, 1, n - 1)
           q == SubSeq(d, n + 1, Len(d))
<1>1. n \in 1 .. Len(d) /\ Len(d) \in Nat /\ \A i \in 1 .. Len(d) : d[i] \in S
  OBVIOUS
<1>2. p \in Seq(S) /\ Len(p) = n - 1 /\ \A i \in 1 .. n - 1 : p[i] = d[i]
  BY <1>1
<1>3. q \in Seq(S) /\ Len(q) = Len(d) - n /\ \A i \in 1 .. Len(d) - n : q[i] = d[n + i]
  BY <1>1
<1> HIDE DEF p, q
<1>4. p \o q \in Seq(S) /\ Len(p \o q) = Len(d) - 1
  BY <1>1, <1>2, <1>3
<1>5. \A i \in 1 .. Len(d) - 1 : (p \o q)[i] = d[IF i < n THEN i ELSE i + 1]
  <2> SUFFICES ASSUME NEW i \in 1 .. Len(d) - 1
               PROVE  (p \o q)[i] = d[IF i < n THEN i ELSE i + 1]
    OBVIOUS
  <2>1. CASE i < n
    BY <2>1, <1>1, <1>2, <1>3
  <2>2. CASE ~ (i < n)
    <3>1. i \in 1 .. Len(p) + Len(q) /\ i > Len(p)
      BY <2>2, <1>1, <1>2, <1>3
    <3>2. i - (n - 1) \in 1 .. Len(d) - n /\ n + (i - (n - 1)) = i + 1
      BY <2>2, <1>1
    <3>3. (p \o q)[i] = q[i - Len(p)]
      BY <3>1, <1>2, <1>3, SecondPart
    <3>4. QED
      BY <3>2, <3>3, <2>2, <1>2, <1>3
  <2>3. QED
    BY <2>1, <2>2
<1>6. DOMAIN (p \o q) = 1 .. Len(d) - 1
  BY <1>4
<1>7. Without(d, n) = p \o q
  BY DEF Without, p, q
<1>8. QED
  BY <1>4, <1>5, <1>6, <1>7

(* The newest of a list: what is left comes from the list, in its order. *)
LEMMA NewestOf ==
  ASSUME NEW S, NEW d \in Seq(S)
  PROVE  /\ Bounded(d) \in Seq(S)
         /\ \E m \in Nat : /\ Len(Bounded(d)) + m = Len(d)
                           /\ \A i \in DOMAIN Bounded(d) :
                                i + m \in DOMAIN d /\ Bounded(d)[i] = d[i + m]
<1> DEFINE k == IF Len(d) > Capacity THEN Len(d) - Capacity + 1 ELSE 1
<1>1. k \in 1 .. Len(d) + 1 /\ Len(d) \in Nat
  BY DemoAssumption
<1> HIDE DEF k
<1>2. /\ SubSeq(d, k, Len(d)) \in Seq(S)
      /\ Len(SubSeq(d, k, Len(d))) = Len(d) - k + 1
      /\ \A i \in 1 .. Len(d) - k + 1 : SubSeq(d, k, Len(d))[i] = d[i + (k - 1)]
  BY <1>1
<1>3. k - 1 \in Nat /\ \A i \in 1 .. Len(d) - k + 1 : i + (k - 1) \in DOMAIN d
  BY <1>1
<1>4. DOMAIN SubSeq(d, k, Len(d)) = 1 .. Len(d) - k + 1
  BY <1>2
<1>5. Len(SubSeq(d, k, Len(d))) + (k - 1) = Len(d)
  BY <1>1, <1>2
<1>6. Bounded(d) = SubSeq(d, k, Len(d))
  BY DEF Bounded, k
<1>7. QED
  BY <1>2, <1>3, <1>4, <1>5, <1>6

(* d holds nothing but entries of b. *)
Within(d, b) == \A i \in DOMAIN d : \E j \in DOMAIN b : d[i] = b[j]

LEMMA DropWithin ==
  ASSUME NEW S, NEW d \in Seq(S), Once(d), NEW id, NEW n \in DOMAIN d, d[n].id = id
  PROVE  /\ Drop(d, id) \in Seq(S) /\ Once(Drop(d, id)) /\ Within(Drop(d, id), d)
         /\ \A i \in DOMAIN Drop(d, id) : Drop(d, id)[i].id # id
<1> DEFINE c == CHOOSE i \in DOMAIN d : d[i].id = id
<1>1. c \in DOMAIN d /\ d[c].id = id
  OBVIOUS
<1> HIDE DEF c
<1>2. Drop(d, id) = Without(d, c)
  BY DEF Drop, c
<1> DEFINE r == Without(d, c)
<1>3. /\ r \in Seq(S) /\ DOMAIN r = 1 .. Len(d) - 1
      /\ \A i \in 1 .. Len(d) - 1 : r[i] = d[IF i < c THEN i ELSE i + 1]
  BY <1>1, WithoutOne
<1> HIDE DEF r
<1>4. \A i \in 1 .. Len(d) - 1 :
        /\ (IF i < c THEN i ELSE i + 1) \in DOMAIN d
        /\ (IF i < c THEN i ELSE i + 1) # c
  BY <1>1
<1>5. \A i, j \in 1 .. Len(d) - 1 :
        (IF i < c THEN i ELSE i + 1) = (IF j < c THEN j ELSE j + 1) => i = j
  BY <1>1
<1>6. Once(r)
  <2> SUFFICES ASSUME NEW i \in DOMAIN r, NEW j \in DOMAIN r, r[i].id = r[j].id
               PROVE  i = j
    BY DEF Once
  <2>1. (IF i < c THEN i ELSE i + 1) = (IF j < c THEN j ELSE j + 1)
    BY SMTT(40), <1>3, <1>4 DEF Once
  <2>2. QED
    BY <2>1, <1>3, <1>5
<1>7. Within(r, d) /\ \A i \in DOMAIN r : r[i].id # id
  BY SMTT(40), <1>1, <1>3, <1>4 DEF Within, Once
<1>8. QED
  BY <1>2, <1>3, <1>6, <1>7 DEF r

(* One more at the end of a dictionary, within its capacity. *)
LEMMA AppendedOnce ==
  ASSUME NEW S, NEW d \in Seq(S), Once(d), NEW e \in S, \A i \in DOMAIN d : d[i].id # e.id
  PROVE  /\ Append(d, e) \in Seq(S) /\ Once(Append(d, e))
         /\ \A i \in DOMAIN Append(d, e) :
              Append(d, e)[i] = e \/ \E j \in DOMAIN d : Append(d, e)[i] = d[j]
<1>1. DOMAIN Append(d, e) = 1 .. Len(d) + 1 /\ DOMAIN d = 1 .. Len(d) /\ Len(d) \in Nat
  BY AppendedElements
<1>2. QED
  BY <1>1, AppendedElements DEF Once

LEMMA BoundedOnce ==
  ASSUME NEW S, NEW d \in Seq(S), Once(d)
  PROVE  Bounded(d) \in Seq(S) /\ Once(Bounded(d)) /\ Within(Bounded(d), d)
<1>1. Bounded(d) \in Seq(S)
  BY NewestOf
<1>2. PICK m \in Nat : \A i \in DOMAIN Bounded(d) :
                         i + m \in DOMAIN d /\ Bounded(d)[i] = d[i + m]
  BY NewestOf
<1>3. DOMAIN Bounded(d) \subseteq Nat
  BY <1>1
<1> HIDE DEF Bounded
<1>4. Within(Bounded(d), d)
  BY <1>2 DEF Within
<1>5. \A i, j \in DOMAIN Bounded(d) : i + m = j + m => i = j
  BY <1>3
<1>6. Once(Bounded(d))
  BY <1>2, <1>5 DEF Once
<1>7. QED
  BY <1>1, <1>4, <1>6

LEMMA Found ==
  ASSUME NEW d, NEW id, Find(d, id) # None
  PROVE  \E i \in DOMAIN d : d[i] = Find(d, id) /\ d[i].id = id
BY DEF Find

LEMMA NoneIsNothing == None \notin Entry /\ None \notin Link
BY DEF None, Entry, Link

-----------------------------------------------------------------------------
(* What one actor does leaves the others as they were. *)
Longer(s, t) == \A i \in DOMAIN s : i \in DOMAIN t /\ t[i] = s[i]

(* What is new in the dictionaries is younger than a handler of moment m. *)
Young(E, F, L, M, m) ==
  /\ \A i \in DOMAIN F : ~ Expired(F[i], m) \/ \E j \in DOMAIN E : F[i] = E[j]
  /\ \A i \in DOMAIN M : \/ ~ Expired(M[i], m) \/ M[i].statement # 0
                         \/ \E j \in DOMAIN L : M[i] = L[j]

LEMMA TrueStays ==
  ASSUME NEW C, NEW D, NEW A, NEW B, Longer(C, D), Longer(A, B), NEW l, True(C, A, l)
  PROVE  True(D, B, l)
BY DEF True, Longer

LEMMA SweptStays ==
  ASSUME NEW E, NEW F, NEW L, NEW M, NEW h, Young(E, F, L, M, h.moment),
         EntriesSwept(h, E), LinksSwept(h, L)
  PROVE  EntriesSwept(h, F) /\ LinksSwept(h, M)
<1>1. EntriesSwept(h, F)
  BY DEF Young, EntriesSwept
<1>2. LinksSwept(h, M)
  BY DEF Young, LinksSwept
<1>3. QED
  BY <1>1, <1>2

LEMMA HandlerStays ==
  ASSUME NEW t, NEW E, NEW F, NEW L, NEW M, NEW C, NEW D, NEW A, NEW B, NEW h,
         HandlerOK(t, E, L, C, A, h), Longer(C, D), Longer(A, B),
         Young(E, F, L, M, h.moment)
  PROVE  HandlerOK(t, F, M, D, B, h)
BY TrueStays, SweptStays DEF HandlerOK

LEMMA LoopStays ==
  ASSUME NEW E, NEW F, NEW L, NEW M, NEW C, NEW A, NEW h,
         LoopOK(h, E, L, C, A), Within(F, E), Within(M, L)
  PROVE  LoopOK(h, F, M, C, A)
<1>1. ASSUME IntakeOK(h, E, C, A) PROVE IntakeOK(h, F, C, A)
  BY <1>1 DEF IntakeOK, Within
<1>2. ASSUME StatementOK(h, E, L, C, A) PROVE StatementOK(h, F, M, C, A)
  BY <1>2 DEF StatementOK, Within
<1>3. QED
  BY <1>1, <1>2 DEF LoopOK

LEMMA Moves ==
  ASSUME DemoInv, NEW a \in Actor, NEW h \in HandlerType \cup {Idle},
         act' = [act EXCEPT ![a] = h], now' = now,
         Books(entries', links', cases', asked'),
         ActorOK(now, entries', links', cases', asked', a, h),
         Longer(cases, cases'), Longer(asked, asked'),
         \A b \in Actor \ {a} : Busy(b) =>
           Young(entries, entries', links, links', act[b].moment),
         a # Loop => /\ cases' = cases /\ asked' = asked
                     /\ Within(entries', entries) /\ Within(links', links)
  PROVE  DemoInv'
<1>1. act' \in [Actor -> HandlerType \cup {Idle}] /\ act'[a] = h
  BY DEF DemoInv
<1>2. ASSUME NEW b \in Actor
      PROVE  ActorOK(now, entries', links', cases', asked', b, act'[b])
  <2>1. CASE b = a
    BY <2>1, <1>1
  <2>2. CASE b # a
    <3>1. act'[b] = act[b]
      BY <2>2 DEF DemoInv
    <3>2. ActorOK(now, entries, links, cases, asked, b, act[b])
      BY DEF DemoInv
    <3> SUFFICES ASSUME Busy(b)
                 PROVE  /\ HandlerOK(now, entries', links', cases', asked', act[b])
                        /\ b = Loop => LoopOK(act[b], entries', links', cases', asked')
      BY <3>1, <3>2 DEF ActorOK, Busy
    <3>3. HandlerOK(now, entries', links', cases', asked', act[b])
      <4>1. HandlerOK(now, entries, links, cases, asked, act[b])
        BY <3>2 DEF ActorOK, Busy
      <4>2. Young(entries, entries', links, links', act[b].moment)
        BY <2>2
      <4>3. QED
        BY <4>1, <4>2, HandlerStays
    <3>4. ASSUME b = Loop PROVE LoopOK(act[b], entries', links', cases', asked')
      <4>1. LoopOK(act[b], entries, links, cases, asked)
        BY <3>2, <3>4 DEF ActorOK, Busy
      <4>2. QED
        BY <4>1, <2>2, <3>4, LoopStays
    <3>5. QED
      BY <3>3, <3>4
  <2>3. QED
    BY <2>1, <2>2
<1>3. now' \in 0 .. MaxTime
  BY DEF DemoInv
<1>4. QED
  BY <1>1, <1>2, <1>3 DEF DemoInv

LEMMA Alone ==
  ASSUME DemoInv, NEW a \in Actor, NEW h \in HandlerType \cup {Idle},
         act' = [act EXCEPT ![a] = h], UNCHANGED <<now, entries, links, cases, asked>>,
         ActorOK(now, entries, links, cases, asked, a, h)
  PROVE  DemoInv'
<1>1. /\ now' = now /\ entries' = entries /\ links' = links
      /\ cases' = cases /\ asked' = asked
  OBVIOUS
<1>2. Books(entries', links', cases', asked')
  BY <1>1 DEF DemoInv
<1>3. ActorOK(now, entries', links', cases', asked', a, h)
  BY <1>1
<1>4. Longer(cases, cases') /\ Longer(asked, asked')
  BY <1>1 DEF Longer
<1>5. \A m : Young(entries, entries', links, links', m)
  BY <1>1 DEF Young
<1>6. Within(entries', entries) /\ Within(links', links)
  BY <1>1 DEF Within
<1> HIDE DEF DemoInv, ActorOK, Books
<1>7. QED
  BY <1>1, <1>2, <1>3, <1>4, <1>5, <1>6, Moves

LEMMA Leaves ==
  ASSUME DemoInv, NEW a \in Actor, Leave(a), UNCHANGED <<now, entries, links, cases, asked>>
  PROVE  DemoInv'
<1>1. ActorOK(now, entries, links, cases, asked, a, Idle)
  BY DEF ActorOK, Idle
<1>2. act' = [act EXCEPT ![a] = Idle]
  BY DEF Leave
<1>3. QED
  BY <1>1, <1>2, Alone

LEMMA AtWork ==
  ASSUME DemoInv, NEW a \in Actor, Busy(a)
  PROVE  /\ act[a] \in HandlerType
         /\ HandlerOK(now, entries, links, cases, asked, act[a])
         /\ a \in Viewer => act[a].page \in ViewerPage
         /\ a = Loop => LoopOK(act[a], entries, links, cases, asked)
BY DEF DemoInv, ActorOK, Busy, HandlerOK

-----------------------------------------------------------------------------
(* The sweep.  It moves on in what the handler keeps for it alone. *)
Moved(h, k) ==
  /\ k \in HandlerType
  /\ k.page = h.page /\ k.arg = h.arg /\ k.moment = h.moment /\ k.calls = h.calls
  /\ k.case = h.case /\ k.held = h.held /\ k.link = h.link

LEMMA SweepMoves ==
  ASSUME DemoInv, NEW a \in Actor, Busy(a), NEW k, Moved(act[a], k),
         act' = [act EXCEPT ![a] = k], UNCHANGED <<now, entries, links, cases, asked>>,
         k.phase = "swept" => k.dict = "links",
         EntriesSwept(k, entries), LinksSwept(k, links),
         act[a].page = "intake" /\ act[a].calls = <<"request_statement">>
           /\ (k.dict = "links" \/ k.phase # "start") => cases[act[a].case].hears
  PROVE  DemoInv'
<1> DEFINE h == act[a]
<1>1. /\ HandlerOK(now, entries, links, cases, asked, h)
      /\ a \in Viewer => h.page \in ViewerPage
      /\ a = Loop => LoopOK(h, entries, links, cases, asked)
  BY AtWork
<1> HIDE DEF h
<1>2. Moved(h, k)
  BY DEF h
<1>3. HandlerOK(now, entries, links, cases, asked, k)
  BY <1>1, <1>2 DEF HandlerOK, Moved, Shown
<1>4. ASSUME a = Loop PROVE LoopOK(k, entries, links, cases, asked)
  <2>1. LoopOK(h, entries, links, cases, asked)
    BY <1>1, <1>4
  <2>2. h.page = "intake" => IntakeOK(k, entries, cases, asked)
    BY <2>1, <1>2 DEF LoopOK, IntakeOK, Moved, h
  <2>3. h.page = "statement" => StatementOK(k, entries, links, cases, asked)
    BY <2>1, <1>2 DEF LoopOK, StatementOK, Moved
  <2>4. QED
    BY <2>2, <2>3, <1>2 DEF LoopOK, Moved
<1>5. ActorOK(now, entries, links, cases, asked, a, k)
  BY <1>1, <1>2, <1>3, <1>4 DEF ActorOK, Moved
<1>6. k \in HandlerType
  BY <1>2 DEF Moved
<1>7. QED
  BY <1>5, <1>6, Alone

LEMMA KeysOf ==
  ASSUME NEW S, NEW d \in Seq(S), \A e \in S : e.id \in Nat
  PROVE  Keys(d) \in Seq(Nat) /\ DOMAIN Keys(d) = DOMAIN d /\ \A i \in DOMAIN d : Keys(d)[i] = d[i].id
<1>1. DOMAIN d = 1 .. Len(d) /\ Len(d) \in Nat /\ \A i \in DOMAIN d : d[i] \in S
  OBVIOUS
<1>2. QED
  BY <1>1 DEF Keys

LEMMA KeysOfBoth ==
  ASSUME DemoInv
  PROVE  /\ Keys(entries) \in Seq(Nat) /\ DOMAIN Keys(entries) = DOMAIN entries
         /\ \A i \in DOMAIN entries : Keys(entries)[i] = entries[i].id
         /\ Keys(links) \in Seq(Nat) /\ DOMAIN Keys(links) = DOMAIN links
         /\ \A i \in DOMAIN links : Keys(links)[i] = links[i].id
<1>1. (\A e \in Entry : e.id \in Nat) /\ \A l \in Link : l.id \in Nat
  BY DEF Entry, Link
<1>2. entries \in Seq(Entry) /\ links \in Seq(Link)
  BY DEF DemoInv, Books
<1>3. QED
  BY <1>1, <1>2, KeysOf

LEMMA StartScanStep ==
  ASSUME DemoInv, NEW a \in Actor, StartScan(a)
  PROVE  DemoInv'
<1> DEFINE h == act[a]
           k == [h EXCEPT !.phase = "scan", !.keys = Keys(Of(h.dict)), !.at = 1, !.todo = << >>]
<1>1. /\ Busy(a) /\ h.calls # << >> /\ h.phase = "start" /\ ~ Skipped(h)
      /\ act' = [act EXCEPT ![a] = k] /\ UNCHANGED <<now, entries, links, cases, asked>>
  BY DEF StartScan, Continue
<1>2. h \in HandlerType /\ HandlerOK(now, entries, links, cases, asked, h)
      /\ (a = Loop => LoopOK(h, entries, links, cases, asked))
      /\ (a \in Viewer => h.page \in ViewerPage)
  BY <1>1, AtWork
<1> HIDE DEF h
<1>3. Keys(Of(h.dict)) \in Seq(Nat)
  BY KeysOfBoth DEF Of
<1>4. /\ k \in HandlerType /\ k.phase = "scan" /\ k.dict = h.dict
      /\ k.keys = Keys(Of(h.dict)) /\ k.at = 1
  <2> DEFINE keys == Keys(Of(h.dict))
  <2>1. << >> \in Seq(Nat) /\ 1 \in Nat \ {0} /\ keys \in Seq(Nat) /\ h \in HandlerType
    BY <1>2, <1>3
  <2> HIDE DEF keys
  <2>2. [h EXCEPT !.phase = "scan", !.keys = keys, !.at = 1, !.todo = << >>] \in HandlerType
    BY <2>1 DEF HandlerType
  <2>3. QED
    BY <2>1, <2>2 DEF keys, HandlerType
<1>5. Moved(h, k)
  BY <1>2, <1>4 DEF Moved, HandlerType
<1> HIDE DEF k
<1>6. EntriesSwept(k, entries)
  <2>1. ASSUME h.dict = "entries", NEW i \in DOMAIN entries PROVE Owes(k, entries[i].id)
    <3>1. i \in DOMAIN k.keys /\ k.keys[i] = entries[i].id /\ k.at <= i
      <4>1. entries \in Seq(Entry)
        BY DEF DemoInv, Books
      <4>2. QED
        BY <2>1, <1>4, <4>1, KeysOfBoth DEF Of
    <3>2. QED
      BY <3>1, <1>4 DEF Owes
  <2>2. ASSUME h.dict = "links", NEW i \in DOMAIN entries
        PROVE  ~ Expired(entries[i], k.moment)
    BY <2>2, <1>2, <1>5 DEF HandlerOK, EntriesSwept, Moved
  <2>3. QED
    BY <2>1, <2>2, <1>4 DEF EntriesSwept
<1>7. LinksSwept(k, links)
  <2>1. ASSUME h.dict = "links", NEW i \in DOMAIN links PROVE Owes(k, links[i].id)
    <3>1. i \in DOMAIN k.keys /\ k.keys[i] = links[i].id /\ k.at <= i
      <4>1. links \in Seq(Link)
        BY DEF DemoInv, Books
      <4>2. QED
        BY <2>1, <1>4, <4>1, KeysOfBoth DEF Of
    <3>2. QED
      BY <3>1, <1>4 DEF Owes
  <2>2. QED
    BY <2>1, <1>4 DEF LinksSwept
<1>8. h.page = "intake" /\ h.calls = <<"request_statement">> => cases[h.case].hears
  <2> SUFFICES ASSUME h.page = "intake", h.calls = <<"request_statement">>
               PROVE  cases[h.case].hears
    OBVIOUS
  <2>1. a = Loop
    BY <1>2 DEF ViewerPage, Actor
  <2>2. cases[h.case] \in [kind : {"intake"}, hears : BOOLEAN]
    BY <2>1, <1>2 DEF LoopOK, IntakeOK
  <2>3. Head(h.calls) = "request_statement"
    OBVIOUS
  <2>4. QED
    BY <2>2, <2>3, <1>1 DEF Skipped
<1>9. k.phase = "swept" => k.dict = "links"
  BY <1>4
<1>10. QED
  BY <1>1, <1>5, <1>6, <1>7, <1>8, <1>9, SweepMoves DEF h

(* Who is in a sweep before the request has earned it. *)
LEMMA HearsInSweep ==
  ASSUME DemoInv, NEW a \in Actor, Busy(a), act[a].phase # "start",
         act[a].page = "intake", act[a].calls = <<"request_statement">>
  PROVE  cases[act[a].case].hears
<1>1. a = Loop
  BY AtWork DEF ViewerPage, Actor
<1>2. IntakeOK(act[a], entries, cases, asked)
  BY <1>1, AtWork DEF LoopOK
<1>3. QED
  BY <1>2 DEF IntakeOK

(* The item it looks at is expired and found, or not. *)
LEMMA LooksOn ==
  ASSUME NEW h \in HandlerType, h.phase = "scan", NEW d, Once(d), Keys(d) = h.keys,
         NEW k \in HandlerType, k.phase = "scan", k.keys = h.keys, k.at = h.at + 1,
         k.todo = IF Expired(d[h.at], h.moment) THEN Append(h.todo, h.keys[h.at]) ELSE h.todo,
         h.at \in DOMAIN h.keys,
         NEW i \in DOMAIN d, Expired(d[i], h.moment), Owes(h, d[i].id)
  PROVE  Owes(k, d[i].id)
<1>1. h.at \in Nat /\ h.todo \in Seq(Nat) /\ h.keys \in Seq(Nat)
  BY DEF HandlerType
<1>2. DOMAIN h.keys = DOMAIN d /\ \A j \in DOMAIN d : h.keys[j] = d[j].id
  BY DEF Keys
<1>3. CASE \E n \in DOMAIN h.todo : h.todo[n] = d[i].id
  <2>1. PICK n \in DOMAIN h.todo : h.todo[n] = d[i].id
    BY <1>3
  <2>2. h.keys[h.at] \in Nat
    BY <1>1
  <2>3. n \in DOMAIN k.todo /\ k.todo[n] = h.todo[n]
    BY SMTT(40), <1>1, <2>1, <2>2
  <2>4. QED
    BY <2>1, <2>3 DEF Owes
<1>4. CASE \E n \in DOMAIN h.keys : h.at <= n /\ h.keys[n] = d[i].id
  <2>1. PICK n \in DOMAIN h.keys : h.at <= n /\ h.keys[n] = d[i].id
    BY <1>4
  <2>2. n = i
    BY <2>1, <1>2 DEF Once
  <2>3. CASE n = h.at
    <3>1. k.todo = Append(h.todo, h.keys[h.at]) /\ h.keys[h.at] = d[i].id /\ h.keys[h.at] \in Nat
      BY SMTT(40), <2>1, <2>2, <2>3, <1>1
    <3>2. Len(h.todo) + 1 \in DOMAIN k.todo /\ k.todo[Len(h.todo) + 1] = d[i].id
      BY SMTT(40), <3>1, <1>1
    <3>3. QED
      BY <3>2 DEF Owes
  <2>4. CASE n # h.at
    <3>1. n \in Nat
      BY <1>1
    <3>2. k.at <= n
      BY <3>1, <2>1, <2>4, <1>1
    <3>3. QED
      BY <3>2, <2>1 DEF Owes
  <2>5. QED
    BY <2>3, <2>4
<1>5. QED
  BY <1>3, <1>4 DEF Owes

LEMMA ScanStep ==
  ASSUME DemoInv, NEW a \in Actor, Scan(a)
  PROVE  DemoInv'
<1> DEFINE h == act[a]
           d == Of(h.dict)
           todo == IF Expired(d[h.at], h.moment) THEN Append(h.todo, h.keys[h.at]) ELSE h.todo
           dropping == [h EXCEPT !.phase = "drop"]
           k == [h EXCEPT !.at = h.at + 1, !.todo = todo]
<1>1. /\ Busy(a) /\ h.phase = "scan" /\ UNCHANGED <<now, entries, links, cases, asked>>
      /\ IF h.at > Len(h.keys) THEN Continue(a, dropping)
         ELSE IF Keys(d) # h.keys THEN Leave(a) ELSE Continue(a, k)
  BY DEF Scan
<1>2. h \in HandlerType /\ HandlerOK(now, entries, links, cases, asked, h)
  BY <1>1, AtWork
<1>3. h.page = "intake" /\ h.calls = <<"request_statement">> => cases[h.case].hears
  BY <1>1, HearsInSweep
<1>4. /\ h.at \in Nat \ {0} /\ h.keys \in Seq(Nat) /\ h.todo \in Seq(Nat)
      /\ h.dict \in {"entries", "links"}
  BY <1>2 DEF HandlerType
<1>5. CASE h.at > Len(h.keys)
  <2>1. dropping \in HandlerType /\ dropping.phase = "drop" /\ dropping.dict = h.dict
        /\ dropping.todo = h.todo /\ Moved(h, dropping)
    BY <1>2 DEF HandlerType, Moved
  <2>2. act' = [act EXCEPT ![a] = dropping]
    BY <1>1, <1>5 DEF Continue
  <2> HIDE DEF h, dropping
  <2>3. \A id : Owes(h, id) => Owes(dropping, id)
    BY <2>1, <1>1, <1>4, <1>5 DEF Owes
  <2>4. EntriesSwept(dropping, entries) /\ LinksSwept(dropping, links)
    BY <2>1, <2>3, <1>1, <1>2 DEF HandlerOK, EntriesSwept, LinksSwept, Moved
  <2>5. QED
    BY <1>1, <2>1, <2>2, <2>4, <1>3, SweepMoves DEF h
<1>6. CASE h.at <= Len(h.keys) /\ Keys(d) # h.keys
  BY <1>1, <1>4, <1>6, Leaves
<1>7. h.at <= Len(h.keys) => h.at \in DOMAIN h.keys
  BY <1>4
<1>8. CASE h.at \in DOMAIN h.keys /\ Keys(d) = h.keys
  <2>1. todo \in Seq(Nat)
    BY <1>4, <1>8
  <2> HIDE DEF todo
  <2>2. k \in HandlerType /\ k.phase = "scan" /\ k.dict = h.dict /\ k.keys = h.keys
        /\ k.at = h.at + 1 /\ k.todo = todo
    <3>1. h \in HandlerType /\ h.at + 1 \in Nat \ {0} /\ h.phase = "scan"
      BY <1>1, <1>2, <1>4
    <3> HIDE DEF h
    <3>2. k \in HandlerType
      BY <2>1, <3>1 DEF HandlerType
    <3>3. QED
      BY <3>1, <3>2 DEF HandlerType
  <2>3. Moved(h, k)
    BY <2>2, <1>2 DEF Moved, HandlerType
  <2>4. act' = [act EXCEPT ![a] = k]
    BY <1>1, <1>4, <1>8 DEF Continue, todo
  <2> HIDE DEF h, k
  <2>5. Once(entries) /\ Once(links)
    BY DEF DemoInv, Books
  <2>6. ASSUME h.dict = "entries", NEW i \in DOMAIN entries, Expired(entries[i], k.moment)
        PROVE  Owes(k, entries[i].id)
    <3>1. Owes(h, entries[i].id) /\ k.moment = h.moment
      BY <2>3, <2>6, <1>1, <1>2 DEF HandlerOK, EntriesSwept, Moved
    <3>2. d = entries
      BY <2>6 DEF Of
    <3> HIDE DEF d
    <3>3. k.todo = IF Expired(entries[h.at], h.moment) THEN Append(h.todo, h.keys[h.at])
                   ELSE h.todo
      BY <2>2, <3>2 DEF todo
    <3>4. QED
      BY <3>1, <3>2, <3>3, <2>2, <2>5, <2>6, <1>1, <1>2, <1>8, LooksOn
  <2>7. ASSUME h.dict = "links", NEW i \in DOMAIN links, links[i].statement = 0,
               Expired(links[i], k.moment)
        PROVE  Owes(k, links[i].id)
    <3>1. Owes(h, links[i].id) /\ k.moment = h.moment
      BY <2>3, <2>7, <1>1, <1>2 DEF HandlerOK, LinksSwept, Moved
    <3>2. d = links
      BY <2>7 DEF Of
    <3> HIDE DEF d
    <3>3. k.todo = IF Expired(links[h.at], h.moment) THEN Append(h.todo, h.keys[h.at])
                   ELSE h.todo
      BY <2>2, <3>2 DEF todo
    <3>4. QED
      BY <3>1, <3>2, <3>3, <2>2, <2>5, <2>7, <1>1, <1>2, <1>8, LooksOn
  <2>8. EntriesSwept(k, entries)
    BY <2>2, <2>3, <2>6, <1>2 DEF EntriesSwept, HandlerOK, Moved
  <2>9. LinksSwept(k, links)
    BY <2>2, <2>7 DEF LinksSwept
  <2>10. QED
    BY <1>1, <1>3, <2>2, <2>3, <2>4, <2>8, <2>9, SweepMoves DEF h
<1>9. QED
  BY <1>4, <1>5, <1>6, <1>7, <1>8

(* A dictionary that only loses. *)
LEMMA BooksLose ==
  ASSUME NEW E, NEW F, NEW L, NEW M, NEW C, NEW A, Books(E, L, C, A),
         F \in Seq(Entry), M \in Seq(Link), Once(F), Once(M), Within(F, E), Within(M, L)
  PROVE  Books(F, M, C, A)
BY DEF Books, Within

LEMMA YoungLose ==
  ASSUME NEW E, NEW F, NEW L, NEW M, NEW m, Within(F, E), Within(M, L)
  PROVE  Young(E, F, L, M, m)
BY DEF Young, Within

LEMMA WithinSelf == \A d : Within(d, d) /\ Longer(d, d)
BY DEF Within, Longer

(* The deletion was owed, and is no more. *)
LEMMA OwesLess ==
  ASSUME NEW h \in HandlerType, h.phase = "drop", h.todo # << >>,
         NEW k \in HandlerType, k.phase = "drop", k.todo = Tail(h.todo),
         NEW id, Owes(h, id), id # Head(h.todo)
  PROVE  Owes(k, id)
<1>1. h.todo \in Seq(Nat)
  BY DEF HandlerType
<1>2. PICK n \in DOMAIN h.todo : h.todo[n] = id
  BY DEF Owes
<1>3. n \in 2 .. Len(h.todo)
  BY <1>1, <1>2
<1>4. n - 1 \in DOMAIN k.todo /\ k.todo[n - 1] = h.todo[n]
  BY <1>1, <1>3
<1>5. QED
  BY <1>2, <1>4 DEF Owes

LEMMA DeleteStep ==
  ASSUME DemoInv, NEW a \in Actor, Delete(a)
  PROVE  DemoInv'
<1> DEFINE h == act[a]
           id == Head(h.todo)
           k == [h EXCEPT !.todo = Tail(h.todo)]
<1>1. /\ Busy(a) /\ h.phase = "drop" /\ h.todo # << >> /\ UNCHANGED <<now, cases, asked>>
      /\ IF Find(Of(h.dict), id) = None THEN Leave(a) /\ UNCHANGED <<entries, links>>
         ELSE Put(h.dict, Drop(Of(h.dict), id)) /\ Continue(a, k)
  BY DEF Delete
<1>2. /\ h \in HandlerType /\ HandlerOK(now, entries, links, cases, asked, h)
      /\ (a \in Viewer => h.page \in ViewerPage)
      /\ (a = Loop => LoopOK(h, entries, links, cases, asked))
  BY <1>1, AtWork
<1>3. h.todo \in Seq(Nat) /\ h.dict \in {"entries", "links"}
  BY <1>2 DEF HandlerType
<1>4. CASE Find(Of(h.dict), id) = None
  BY <1>1, <1>4, Leaves
<1>5. CASE Find(Of(h.dict), id) # None
  <2>1. act' = [act EXCEPT ![a] = k] /\ Put(h.dict, Drop(Of(h.dict), id))
    BY <1>1, <1>5 DEF Continue
  <2>2. k \in HandlerType /\ k.todo = Tail(h.todo) /\ k.phase = "drop" /\ k.dict = h.dict
    <3>1. Tail(h.todo) \in Seq(Nat)
      BY <1>1, <1>3
    <3>2. h \in HandlerType /\ h.phase = "drop"
      BY <1>1, <1>2
    <3> HIDE DEF h
    <3>3. k \in HandlerType
      BY <3>1, <3>2 DEF HandlerType
    <3>4. QED
      BY <3>2, <3>3 DEF HandlerType
  <2>3. Moved(h, k)
    BY <2>2, <1>2 DEF Moved, HandlerType
  <2>4. /\ Books(entries, links, cases, asked) /\ entries \in Seq(Entry) /\ links \in Seq(Link)
        /\ Once(entries) /\ Once(links)
    BY DEF DemoInv, Books
  <2> HIDE DEF h, k, id
  <2>5. /\ entries' \in Seq(Entry) /\ Once(entries') /\ Within(entries', entries)
        /\ links' \in Seq(Link) /\ Once(links') /\ Within(links', links)
        /\ h.dict = "entries" => \A i \in DOMAIN entries' : entries'[i].id # id
        /\ h.dict = "links" => \A i \in DOMAIN links' : links'[i].id # id
    <3>1. CASE h.dict = "entries"
      <4>1. Of(h.dict) = entries /\ entries' = Drop(entries, id) /\ links' = links
        BY <3>1, <2>1 DEF Of, Put
      <4>2. PICK n \in DOMAIN entries : entries[n].id = id
        BY <4>1, <1>5, Found
      <4>3. /\ Drop(entries, id) \in Seq(Entry) /\ Once(Drop(entries, id))
            /\ Within(Drop(entries, id), entries)
            /\ \A i \in DOMAIN Drop(entries, id) : Drop(entries, id)[i].id # id
        BY <4>2, <2>4, DropWithin
      <4>4. QED
        BY <4>1, <4>3, <3>1, <2>4, WithinSelf
    <3>2. CASE h.dict = "links"
      <4>1. Of(h.dict) = links /\ links' = Drop(links, id) /\ entries' = entries
        BY <3>2, <2>1 DEF Of, Put
      <4>2. PICK n \in DOMAIN links : links[n].id = id
        BY <4>1, <1>5, Found
      <4>3. /\ Drop(links, id) \in Seq(Link) /\ Once(Drop(links, id))
            /\ Within(Drop(links, id), links)
            /\ \A i \in DOMAIN Drop(links, id) : Drop(links, id)[i].id # id
        BY <4>2, <2>4, DropWithin
      <4>4. QED
        BY <4>1, <4>3, <3>2, <2>4, WithinSelf
    <3>3. QED
      BY <3>1, <3>2, <1>3
  <2>6. cases' = cases /\ asked' = asked /\ now' = now
    BY <1>1
  <2>7. Books(entries', links', cases', asked')
    BY <2>4, <2>5, <2>6, BooksLose
  <2>8. /\ \A m : Young(entries, entries', links, links', m)
        /\ Longer(cases, cases') /\ Longer(asked, asked')
    BY <2>5, <2>6, YoungLose, WithinSelf
  <2>9. \A x : Owes(h, x) /\ x # id => Owes(k, x)
    BY <1>1, <1>2, <2>2, OwesLess DEF id
  <2>10. /\ EntriesSwept(h, entries') /\ LinksSwept(h, links')
    BY <2>8, <1>2, SweptStays DEF HandlerOK
  <2>11. EntriesSwept(k, entries')
    BY <2>2, <2>3, <2>5, <2>9, <2>10, <1>1 DEF EntriesSwept, Moved
  <2>12. LinksSwept(k, links')
    BY <2>2, <2>3, <2>5, <2>9, <2>10, <1>1 DEF LinksSwept, Moved
  <2>13. HandlerOK(now, entries', links', cases', asked', k)
    <3>1. HandlerOK(now, entries', links', cases', asked', h)
      BY <1>2, <2>8, HandlerStays
    <3>2. QED
      BY <3>1, <2>2, <2>3, <2>11, <2>12 DEF HandlerOK, Moved, Shown
  <2>14. ASSUME a = Loop PROVE LoopOK(k, entries', links', cases', asked')
    <3>1. LoopOK(h, entries', links', cases', asked')
      BY <2>5, <2>6, <2>14, <1>2, LoopStays
    <3>2. h.page = "intake" => IntakeOK(k, entries', cases', asked')
      BY <3>1, <2>2, <2>3, <1>1 DEF LoopOK, IntakeOK, Moved
    <3>3. h.page = "statement" => StatementOK(k, entries', links', cases', asked')
      BY <3>1, <2>3 DEF LoopOK, StatementOK, Moved
    <3>4. QED
      BY <3>2, <3>3, <2>3 DEF LoopOK, Moved
  <2>15. ActorOK(now, entries', links', cases', asked', a, k)
    BY <2>3, <2>13, <2>14, <1>2 DEF ActorOK, Moved
  <2> HIDE DEF DemoInv, Books, ActorOK
  <2>16. QED
    BY <2>1, <2>2, <2>5, <2>6, <2>7, <2>8, <2>15, Moves
<1>6. QED
  BY <1>4, <1>5

LEMMA EndSweepStep ==
  ASSUME DemoInv, NEW a \in Actor, EndSweep(a)
  PROVE  DemoInv'
<1> DEFINE h == act[a]
           turning == [h EXCEPT !.dict = "links", !.phase = "start"]
           done == [h EXCEPT !.phase = "swept"]
           k == IF h.dict = "entries" THEN turning ELSE done
<1>1. /\ Busy(a) /\ h.phase = "drop" /\ h.todo = << >>
      /\ act' = [act EXCEPT ![a] = k] /\ UNCHANGED <<now, entries, links, cases, asked>>
  BY DEF EndSweep, Continue
<1>2. h \in HandlerType /\ HandlerOK(now, entries, links, cases, asked, h)
  BY <1>1, AtWork
<1>3. h.page = "intake" /\ h.calls = <<"request_statement">> => cases[h.case].hears
  BY <1>1, HearsInSweep
<1> HIDE DEF h
<1>4. turning \in HandlerType /\ done \in HandlerType
  BY <1>2 DEF HandlerType
<1>5. /\ k \in HandlerType /\ k.dict = "links"
      /\ k.phase = IF h.dict = "entries" THEN "start" ELSE "swept"
  BY ZenonT(40), <1>2, <1>4 DEF HandlerType
<1>6. Moved(h, k)
  BY ZenonT(40), <1>2, <1>4 DEF Moved, HandlerType
<1> HIDE DEF k
<1>7. \A id : ~ Owes(h, id)
  BY <1>1 DEF Owes
<1>8. EntriesSwept(k, entries)
  BY <1>1, <1>2, <1>5, <1>6, <1>7 DEF HandlerOK, EntriesSwept, Moved, HandlerType
<1>9. LinksSwept(k, links)
  BY <1>1, <1>2, <1>5, <1>6, <1>7 DEF HandlerOK, LinksSwept, Moved, HandlerType
<1>10. QED
  BY <1>1, <1>3, <1>5, <1>6, <1>8, <1>9, SweepMoves DEF h

-----------------------------------------------------------------------------
(* The calls a handler has left. *)
LEMMA Tails ==
  /\ \A a : Tail(<<a>>) = << >>
  /\ \A a, b : Tail(<<a, b>>) = <<b>>
  /\ \A a, b, c : Tail(<<a, b, c>>) = <<b, c>>
  /\ \A a, b, c, d : Tail(<<a, b, c, d>>) = <<b, c, d>>
  /\ \A a, b, c, d, e : Tail(<<a, b, c, d, e>>) = <<b, c, d, e>>
<1>1. \A a : Tail(<<a>>) = << >>
  OBVIOUS
<1>2. \A a, b : Tail(<<a, b>>) = <<b>>
  OBVIOUS
<1>3. \A a, b, c : Tail(<<a, b, c>>) = <<b, c>>
  OBVIOUS
<1>4. \A a, b, c, d : Tail(<<a, b, c, d>>) = <<b, c, d>>
  OBVIOUS
<1>5. \A a, b, c, d, e : Tail(<<a, b, c, d, e>>) = <<b, c, d, e>>
  OBVIOUS
<1>6. QED
  BY <1>1, <1>2, <1>3, <1>4, <1>5

LEMMA NextCalls ==
  ASSUME NEW page \in Page, NEW calls \in Left[page], calls # << >>
  PROVE  Tail(calls) \in Left[page]
<1>1. CASE page = "pipeline"
  <2>1. CASE calls = <<"get", "link_for_case">>
    BY <2>1, <1>1, Tails DEF Left
  <2>2. CASE calls = <<"link_for_case">>
    BY <2>2, <1>1, Tails DEF Left
  <2>3. QED
    BY <1>1, <2>1, <2>2 DEF Left
<1>2. CASE page = "review"
  <2>1. CASE calls = <<"link_for_case">>
    BY <2>1, <1>2, Tails DEF Left
  <2>2. QED
    BY <1>2, <2>1 DEF Left
<1>3. CASE page = "party"
  <2>1. CASE calls = <<"link_by_token">>
    BY <2>1, <1>3, Tails DEF Left
  <2>2. QED
    BY <1>3, <2>1 DEF Left
<1>4. CASE page = "intake"
  <2>1. CASE calls = <<"ingest", "put", "request_statement">>
    BY <2>1, <1>4, Tails DEF Left
  <2>2. CASE calls = <<"put", "request_statement">>
    BY <2>2, <1>4, Tails DEF Left
  <2>3. CASE calls = <<"request_statement">>
    BY <2>3, <1>4, Tails DEF Left
  <2>4. QED
    BY <1>4, <2>1, <2>2, <2>3 DEF Left
<1>5. CASE page = "statement"
  <2>1. CASE calls = <<"link_by_token", "ingest", "put", "record_statement", "attach">>
    BY <2>1, <1>5, Tails DEF Left
  <2>2. CASE calls = <<"ingest", "put", "record_statement", "attach">>
    BY <2>2, <1>5, Tails DEF Left
  <2>3. CASE calls = <<"put", "record_statement", "attach">>
    BY <2>3, <1>5, Tails DEF Left
  <2>4. CASE calls = <<"record_statement", "attach">>
    BY <2>4, <1>5, Tails DEF Left
  <2>5. CASE calls = <<"attach">>
    BY <2>5, <1>5, Tails DEF Left
  <2>6. QED
    BY <1>5, <2>1, <2>2, <2>3, <2>4, <2>5 DEF Left
<1>6. QED
  BY <1>1, <1>2, <1>3, <1>4, <1>5 DEF Page, ViewerPage

LEMMA WhichCall ==
  ASSUME NEW page \in Page, NEW calls \in Left[page], calls # << >>
  PROVE  /\ Head(calls) = "get" => page = "pipeline"
         /\ Head(calls) = "link_for_case" => page \in {"pipeline", "review"}
         /\ Head(calls) = "link_by_token" => page \in {"party", "statement"}
         /\ Head(calls) \in {"ingest", "put"} => page \in {"intake", "statement"}
         /\ Head(calls) = "request_statement" => page = "intake"
         /\ Head(calls) \in {"record_statement", "attach"} => page = "statement"
<1>1. CASE page \in ViewerPage
  BY <1>1 DEF ViewerPage, Left
<1>2. CASE page = "intake"
  BY <1>2 DEF Left
<1>3. CASE page = "statement"
  BY <1>3 DEF Left
<1>4. QED
  BY <1>1, <1>2, <1>3 DEF Page

LEMMA IntakeCalls ==
  ASSUME NEW calls \in Left["intake"], calls # << >>
  PROVE  /\ Head(calls) = "ingest" => Tail(calls) = <<"put", "request_statement">>
         /\ Head(calls) = "put" => /\ calls = <<"put", "request_statement">>
                                   /\ Tail(calls) = <<"request_statement">>
         /\ Head(calls) = "request_statement" =>
              calls = <<"request_statement">> /\ Tail(calls) = << >>
<1>1. CASE calls = <<"ingest", "put", "request_statement">>
  BY <1>1, Tails DEF Left
<1>2. CASE calls = <<"put", "request_statement">>
  BY <1>2, Tails DEF Left
<1>3. CASE calls = <<"request_statement">>
  BY <1>3, Tails DEF Left
<1>4. QED
  BY <1>1, <1>2, <1>3 DEF Left

LEMMA StatementCalls ==
  ASSUME NEW calls \in Left["statement"], calls # << >>
  PROVE  /\ Head(calls) = "link_by_token" =>
              Tail(calls) = <<"ingest", "put", "record_statement", "attach">>
         /\ Head(calls) = "ingest" =>
              /\ calls = <<"ingest", "put", "record_statement", "attach">>
              /\ Tail(calls) = <<"put", "record_statement", "attach">>
         /\ Head(calls) = "put" =>
              /\ calls = <<"put", "record_statement", "attach">>
              /\ Tail(calls) = <<"record_statement", "attach">>
         /\ Head(calls) = "record_statement" =>
              calls = <<"record_statement", "attach">> /\ Tail(calls) = <<"attach">>
         /\ Head(calls) = "attach" => calls = <<"attach">> /\ Tail(calls) = << >>
<1>1. CASE calls = <<"link_by_token", "ingest", "put", "record_statement", "attach">>
  BY <1>1, Tails DEF Left
<1>2. CASE calls = <<"ingest", "put", "record_statement", "attach">>
  BY <1>2, Tails DEF Left
<1>3. CASE calls = <<"put", "record_statement", "attach">>
  BY <1>3, Tails DEF Left
<1>4. CASE calls = <<"record_statement", "attach">>
  BY <1>4, Tails DEF Left
<1>5. CASE calls = <<"attach">>
  BY <1>5, Tails DEF Left
<1>6. QED
  BY <1>1, <1>2, <1>3, <1>4, <1>5 DEF Left

(* A call has returned: the next one will sweep anew. *)
LEMMA ReturnedFields ==
  ASSUME NEW g \in HandlerType, g.calls # << >>, g.calls \in Left[g.page]
  PROVE  /\ Returned(g) \in HandlerType
         /\ Returned(g).calls = Tail(g.calls) /\ Returned(g).calls \in Left[g.page]
         /\ Returned(g).dict = "entries" /\ Returned(g).phase = "start"
         /\ Returned(g).page = g.page /\ Returned(g).arg = g.arg
         /\ Returned(g).moment = g.moment /\ Returned(g).case = g.case
         /\ Returned(g).held = g.held /\ Returned(g).link = g.link
<1>1. /\ g.page \in Page /\ << >> \in Seq(Nat) /\ 1 \in Nat \ {0}
      /\ Tail(g.calls) \in Left[g.page] /\ Tail(g.calls) \in UNION {Left[p] : p \in Page}
  BY NextCalls DEF HandlerType
<1> DEFINE rest == Tail(g.calls)
<1> HIDE DEF rest
<1>2. /\ [g EXCEPT !.calls = rest, !.dict = "entries", !.phase = "start", !.keys = << >>,
                   !.at = 1] \in HandlerType
  BY <1>1 DEF HandlerType, rest
<1>3. Returned(g) = [g EXCEPT !.calls = rest, !.dict = "entries", !.phase = "start",
                              !.keys = << >>, !.at = 1]
  BY DEF Returned, rest
<1>4. QED
  BY <1>1, <1>2, <1>3 DEF HandlerType, rest

LEMMA ReturnedOK ==
  ASSUME DemoInv, NEW a \in Actor, Busy(a), act[a].calls # << >>,
         NEW g \in HandlerType, NEW E, NEW L, NEW C, NEW A,
         g.page = act[a].page, g.moment = act[a].moment, g.calls = act[a].calls,
         Shown(g), g.link # None => True(C, A, g.link)
  PROVE  HandlerOK(now, E, L, C, A, Returned(g))
<1>1. HandlerOK(now, entries, links, cases, asked, act[a])
  BY AtWork
<1>2. g.calls \in Left[g.page] /\ g.moment <= now /\ now <= g.moment + Patience
  BY <1>1 DEF HandlerOK
<1>3. /\ Returned(g) \in HandlerType /\ Returned(g).calls \in Left[Returned(g).page]
      /\ Returned(g).dict = "entries" /\ Returned(g).phase = "start"
      /\ Returned(g).moment = g.moment
      /\ Returned(g).held = g.held /\ Returned(g).link = g.link
  BY <1>2, ReturnedFields
<1> HIDE DEF Returned
<1>4. EntriesSwept(Returned(g), E) /\ LinksSwept(Returned(g), L) /\ Shown(Returned(g))
  BY <1>3 DEF EntriesSwept, LinksSwept, Shown
<1>5. QED
  BY <1>2, <1>3, <1>4 DEF HandlerOK

(* What a swept dictionary gives out is not expired. *)
LEMMA SweptLinks ==
  ASSUME DemoInv, NEW a \in Actor, Busy(a), act[a].phase = "swept", NEW i \in DOMAIN links
  PROVE  /\ links[i] \in Link /\ True(cases, asked, links[i])
         /\ links[i].statement = 0 => act[a].moment < links[i].at + TTL
<1>1. links \in Seq(Link) /\ True(cases, asked, links[i])
  BY DEF DemoInv, Books
<1>2. links[i] \in Link
  BY <1>1
<1>3. ASSUME links[i].statement = 0 PROVE ~ Expired(links[i], act[a].moment)
  BY <1>3, AtWork DEF HandlerOK, LinksSwept, Owes
<1>4. act[a].moment \in Nat /\ links[i].at \in Nat /\ TTL \in Nat
  BY <1>2, AtWork, DemoAssumption DEF HandlerType, Link
<1>5. QED
  BY <1>1, <1>2, <1>3, <1>4 DEF Expired

LEMMA SweptEntries ==
  ASSUME DemoInv, NEW a \in Actor, Busy(a), act[a].phase = "swept", NEW i \in DOMAIN entries
  PROVE  entries[i] \in Entry /\ act[a].moment < entries[i].at + TTL
<1>1. entries \in Seq(Entry)
  BY DEF DemoInv, Books
<1>2. entries[i] \in Entry
  BY <1>1
<1>3. ~ Expired(entries[i], act[a].moment)
  BY AtWork DEF HandlerOK, EntriesSwept
<1>4. act[a].moment \in Nat /\ entries[i].at \in Nat /\ TTL \in Nat
  BY <1>2, AtWork, DemoAssumption DEF HandlerType, Entry
<1>5. QED
  BY <1>2, <1>3, <1>4 DEF Expired

(* A page of the counterparty or of the agency moves on with what it found. *)
LEMMA ViewMoves ==
  ASSUME DemoInv, NEW a \in Actor, Busy(a), act[a].calls # << >>,
         act[a].page \in ViewerPage, NEW g \in HandlerType,
         g.page = act[a].page, g.moment = act[a].moment, g.calls = act[a].calls,
         Shown(g), g.link # None => True(cases, asked, g.link),
         Continue(a, Returned(g)), UNCHANGED <<now, entries, links, cases, asked>>
  PROVE  DemoInv'
<1>1. HandlerOK(now, entries, links, cases, asked, Returned(g))
  BY ReturnedOK
<1>2. Returned(g) \in HandlerType /\ Returned(g).page = g.page
  BY ReturnedFields, AtWork DEF HandlerOK
<1>3. ActorOK(now, entries, links, cases, asked, a, Returned(g))
  BY <1>1, <1>2 DEF ActorOK, LoopOK, ViewerPage
<1>4. act' = [act EXCEPT ![a] = Returned(g)]
  BY DEF Continue
<1> HIDE DEF Returned, DemoInv, ActorOK
<1>5. QED
  BY <1>2, <1>3, <1>4, Alone

LEMMA GetStep ==
  ASSUME DemoInv, NEW a \in Actor, Get(a)
  PROVE  DemoInv'
<1> DEFINE h == act[a]
           found == Find(entries, h.arg)
           g == [h EXCEPT !.held = found]
<1>1. /\ Busy(a) /\ h.calls # << >> /\ Head(h.calls) = "get" /\ h.phase = "swept"
      /\ Continue(a, Returned(g)) /\ UNCHANGED <<now, entries, links, cases, asked>>
  BY DEF Get, AtCall, StoreCall
<1>2. h \in HandlerType /\ HandlerOK(now, entries, links, cases, asked, h)
  BY <1>1, AtWork
<1>3. h.page \in ViewerPage
  BY <1>1, <1>2, WhichCall DEF HandlerOK, HandlerType, ViewerPage
<1>4. found # None => found \in Entry /\ h.moment < found.at + TTL
  BY <1>1, Found, SweptEntries
<1> HIDE DEF found
<1>5. g \in HandlerType /\ g.page = h.page /\ g.moment = h.moment /\ g.calls = h.calls
      /\ g.held = found /\ g.link = h.link
  BY <1>2, <1>4 DEF HandlerType
<1>6. Shown(g) /\ (g.link # None => True(cases, asked, g.link))
  BY <1>2, <1>4, <1>5 DEF Shown, HandlerOK
<1> HIDE DEF g
<1>7. QED
  BY <1>1, <1>3, <1>5, <1>6, ViewMoves

LEMMA LinkForCaseStep ==
  ASSUME DemoInv, NEW a \in Actor, LinkForCase(a)
  PROVE  DemoInv'
<1> DEFINE h == act[a]
           among == LinksOf(h.arg)
           found == IF among = {} THEN None
                    ELSE links[CHOOSE i \in among : \A j \in among : j <= i]
           g == [h EXCEPT !.link = found]
<1>1. /\ Busy(a) /\ h.calls # << >> /\ Head(h.calls) = "link_for_case" /\ h.phase = "swept"
      /\ Continue(a, Returned(g)) /\ UNCHANGED <<now, entries, links, cases, asked>>
  BY DEF LinkForCase, AtCall, StoreCall
<1>2. h \in HandlerType /\ HandlerOK(now, entries, links, cases, asked, h)
  BY <1>1, AtWork
<1>3. h.page \in ViewerPage
  BY <1>1, <1>2, WhichCall DEF HandlerOK, HandlerType, ViewerPage
<1>4. found # None => \E i \in DOMAIN links : found = links[i]
  <2> SUFFICES ASSUME among # {} PROVE \E i \in DOMAIN links : found = links[i]
    OBVIOUS
  <2>1. among \subseteq DOMAIN links
    BY DEF LinksOf
  <2>2. DOMAIN links = 1 .. Len(links) /\ Len(links) \in Nat
    BY DEF DemoInv, Books
  <2> HIDE DEF among
  <2>3. \E i \in among : \A j \in among : j <= i
    BY <2>1, <2>2, GreatestPlace
  <2>4. QED
    BY <2>1, <2>3
<1> HIDE DEF found
<1>5. found # None => /\ found \in Link /\ True(cases, asked, found)
                      /\ found.statement = 0 => h.moment < found.at + TTL
  BY <1>1, <1>4, SweptLinks
<1>6. g \in HandlerType /\ g.page = h.page /\ g.moment = h.moment /\ g.calls = h.calls
      /\ g.held = h.held /\ g.link = found
  BY <1>2, <1>5 DEF HandlerType
<1>7. Shown(g) /\ (g.link # None => True(cases, asked, g.link))
  BY <1>2, <1>5, <1>6 DEF Shown, HandlerOK
<1> HIDE DEF g
<1>8. QED
  BY <1>1, <1>3, <1>6, <1>7, ViewMoves

LEMMA FoundLink ==
  ASSUME DemoInv, NEW a \in Actor, Busy(a), act[a].phase = "swept", NEW id,
         Find(links, id) # None
  PROVE  /\ Find(links, id) \in Link /\ True(cases, asked, Find(links, id))
         /\ Find(links, id).id = id
         /\ Find(links, id).statement = 0 => act[a].moment < Find(links, id).at + TTL
         /\ \A i \in DOMAIN links : links[i].id = id => links[i] = Find(links, id)
<1>1. PICK n \in DOMAIN links : links[n] = Find(links, id) /\ links[n].id = id
  BY Found
<1>2. Once(links)
  BY DEF DemoInv, Books
<1>3. QED
  BY <1>1, <1>2, SweptLinks DEF Once

(* Only the event loop takes forms. *)
LEMMA FormsAreOfTheLoop ==
  ASSUME DemoInv, NEW a \in Actor, Busy(a), act[a].page \in {"intake", "statement"}
  PROVE  /\ a = Loop
         /\ act[a].page = "intake" => IntakeOK(act[a], entries, cases, asked)
         /\ act[a].page = "statement" => StatementOK(act[a], entries, links, cases, asked)
<1>1. a = Loop
  BY AtWork DEF ViewerPage, Actor
<1>2. QED
  BY <1>1, AtWork DEF LoopOK

(* The loop goes on with a statement and the link it has found. *)
LEMMA StatementMoves ==
  ASSUME DemoInv, NEW a \in Actor, Busy(a), act[a].calls # << >>, act[a].page = "statement",
         NEW g \in HandlerType,
         g.page = act[a].page, g.moment = act[a].moment, g.calls = act[a].calls,
         Shown(g), g.link # None => True(cases, asked, g.link),
         StatementOK(Returned(g), entries, links, cases, asked),
         Continue(a, Returned(g)), UNCHANGED <<now, entries, links, cases, asked>>
  PROVE  DemoInv'
<1>1. HandlerOK(now, entries, links, cases, asked, Returned(g))
  BY ReturnedOK
<1>2. Returned(g) \in HandlerType /\ Returned(g).page = "statement"
  BY ReturnedFields, AtWork DEF HandlerOK
<1>3. a = Loop /\ Loop \notin Viewer
  BY FormsAreOfTheLoop, DemoAssumption
<1>4. ActorOK(now, entries, links, cases, asked, a, Returned(g))
  BY <1>1, <1>2, <1>3 DEF ActorOK, LoopOK
<1>5. act' = [act EXCEPT ![a] = Returned(g)]
  BY DEF Continue
<1> HIDE DEF Returned, DemoInv, ActorOK
<1>6. QED
  BY <1>2, <1>4, <1>5, Alone

LEMMA LinkByTokenStep ==
  ASSUME DemoInv, NEW a \in Actor, LinkByToken(a)
  PROVE  DemoInv'
<1> DEFINE h == act[a]
           link == Find(links, h.arg)
           g == [h EXCEPT !.link = link]
<1>1. /\ Busy(a) /\ h.calls # << >> /\ Head(h.calls) = "link_by_token" /\ h.phase = "swept"
      /\ UNCHANGED <<now, entries, links, cases, asked>>
      /\ IF h.page = "statement" /\ Closed(link) THEN Leave(a) ELSE Continue(a, Returned(g))
  BY DEF LinkByToken, AtCall, StoreCall
<1>2. h \in HandlerType /\ HandlerOK(now, entries, links, cases, asked, h)
  BY <1>1, AtWork
<1>3. h.page \in {"party", "statement"}
  BY <1>1, <1>2, WhichCall DEF HandlerOK, HandlerType
<1>4. link # None => /\ link \in Link /\ True(cases, asked, link) /\ link.id = h.arg
                     /\ link.statement = 0 => h.moment < link.at + TTL
                     /\ \A i \in DOMAIN links : links[i].id = h.arg => links[i] = link
  BY <1>1, FoundLink
<1>5. CASE h.page = "statement" /\ Closed(link)
  BY <1>1, <1>5, Leaves
<1>6. CASE ~ (h.page = "statement" /\ Closed(link))
  <2>1. Continue(a, Returned(g))
    BY <1>1, <1>6
  <2>2. h.page = "statement" => link # None /\ link.statement = 0
    BY <1>6 DEF Closed
  <2> HIDE DEF link
  <2>3. g \in HandlerType /\ g.page = h.page /\ g.moment = h.moment /\ g.calls = h.calls
        /\ g.held = h.held /\ g.link = link /\ g.arg = h.arg /\ g.case = h.case
    BY <1>2, <1>4 DEF HandlerType
  <2>4. Shown(g) /\ (g.link # None => True(cases, asked, g.link))
    BY <1>2, <1>4, <2>3 DEF Shown, HandlerOK
  <2> HIDE DEF g
  <2>5. CASE h.page = "party"
    BY <1>1, <2>1, <2>3, <2>4, <2>5, ViewMoves DEF ViewerPage
  <2>6. CASE h.page = "statement"
    <3>1. StatementOK(h, entries, links, cases, asked)
      BY <1>1, <2>6, FormsAreOfTheLoop
    <3>2. /\ Returned(g).calls = <<"ingest", "put", "record_statement", "attach">>
          /\ Returned(g).arg = h.arg /\ Returned(g).link = link
      <4>1. h.calls \in Left["statement"]
        BY <1>2, <2>6 DEF HandlerOK
      <4>2. Tail(h.calls) = <<"ingest", "put", "record_statement", "attach">>
        BY <4>1, <1>1, StatementCalls
      <4>3. g.calls # << >> /\ g.calls \in Left[g.page]
        BY <4>1, <1>1, <2>3, <2>6
      <4>4. /\ Returned(g).calls = Tail(g.calls)
            /\ Returned(g).arg = g.arg /\ Returned(g).link = g.link
        BY <4>3, <2>3, ReturnedFields
      <4>5. QED
        BY <4>2, <4>4, <2>3
    <3> HIDE DEF Returned
    <3>3. StatementOK(Returned(g), entries, links, cases, asked)
      BY <3>1, <3>2, <2>2, <2>6, <1>4 DEF StatementOK
    <3> HIDE DEF h
    <3>4. QED
      BY <3>3, <1>1, <2>1, <2>3, <2>4, <2>6, StatementMoves DEF h
  <2>7. QED
    BY <1>3, <2>5, <2>6
<1>7. QED
  BY <1>5, <1>6

LEMMA RecordStatementStep ==
  ASSUME DemoInv, NEW a \in Actor, RecordStatement(a)
  PROVE  DemoInv'
<1> DEFINE h == act[a]
           link == Find(links, h.arg)
           g == [h EXCEPT !.link = link]
<1>1. /\ Busy(a) /\ h.calls # << >> /\ Head(h.calls) = "record_statement" /\ h.phase = "swept"
      /\ UNCHANGED <<now, entries, links, cases, asked>>
      /\ IF link = None THEN Leave(a) ELSE Continue(a, Returned(g))
  BY DEF RecordStatement, AtCall, StoreCall
<1>2. h \in HandlerType /\ HandlerOK(now, entries, links, cases, asked, h)
  BY <1>1, AtWork
<1>3. h.page = "statement"
  BY <1>1, <1>2, WhichCall DEF HandlerOK, HandlerType
<1>4. CASE link = None
  BY <1>1, <1>4, Leaves
<1>5. CASE link # None
  <2>1. /\ link \in Link /\ True(cases, asked, link) /\ link.id = h.arg
        /\ link.statement = 0 => h.moment < link.at + TTL
    BY <1>1, <1>5, FoundLink
  <2>2. Continue(a, Returned(g))
    BY <1>1, <1>5
  <2> HIDE DEF link
  <2>3. g \in HandlerType /\ g.page = h.page /\ g.moment = h.moment /\ g.calls = h.calls
        /\ g.held = h.held /\ g.link = link /\ g.arg = h.arg /\ g.case = h.case
    BY <1>2, <2>1 DEF HandlerType
  <2>4. Shown(g) /\ True(cases, asked, g.link)
    BY <1>2, <2>1, <2>3 DEF Shown, HandlerOK
  <2> HIDE DEF g
  <2>5. StatementOK(h, entries, links, cases, asked)
    BY <1>1, <1>3, FormsAreOfTheLoop
  <2>6. h.calls \in Left["statement"]
    BY <1>2, <1>3 DEF HandlerOK
  <2>7. h.calls = <<"record_statement", "attach">> /\ Tail(h.calls) = <<"attach">>
    BY <2>6, <1>1, StatementCalls
  <2>8. /\ Returned(g).calls = <<"attach">> /\ Returned(g).case = h.case
        /\ Returned(g).arg = h.arg /\ Returned(g).link = link
    <3>1. g.calls # << >> /\ g.calls \in Left[g.page]
      BY <2>3, <2>6, <1>1, <1>3
    <3>2. /\ Returned(g).calls = Tail(g.calls) /\ Returned(g).case = g.case
          /\ Returned(g).arg = g.arg /\ Returned(g).link = g.link
      BY <3>1, <2>3, ReturnedFields
    <3>3. QED
      BY <3>2, <2>3, <2>7
  <2> HIDE DEF Returned
  <2>9. StatementOK(Returned(g), entries, links, cases, asked)
    BY <2>1, <2>5, <2>7, <2>8, <1>5 DEF StatementOK
  <2> HIDE DEF h
  <2>10. QED
    BY <2>2, <2>3, <2>4, <2>9, <1>1, <1>3, StatementMoves DEF h
<1>6. QED
  BY <1>4, <1>5

(* Whatever arrives starts a handler with nothing in hand. *)
LEMMA Arrives ==
  ASSUME DemoInv, NEW a \in Actor, NEW page \in Page, NEW arg \in Nat,
         page \in ViewerPage \/ a = Loop,
         page = "statement" => arg \in DOMAIN asked,
         Continue(a, Handler(page, arg)), UNCHANGED <<now, entries, links, cases, asked>>
  PROVE  DemoInv'
<1> DEFINE k == Handler(page, arg)
<1>1. Calls(page) \in Left[page]
  BY DEF Calls, Left, Page, ViewerPage
<1>2. now \in 0 .. MaxTime /\ << >> \in Seq(Nat) /\ 1 \in Nat \ {0}
  BY DEF DemoInv
<1>3. k \in HandlerType
  BY <1>1, <1>2 DEF Handler, HandlerType
<1>4. /\ k.page = page /\ k.arg = arg /\ k.moment = now /\ k.calls = Calls(page)
      /\ k.dict = "entries" /\ k.phase = "start" /\ k.held = None /\ k.link = None
  BY DEF Handler
<1> HIDE DEF k
<1>5. HandlerOK(now, entries, links, cases, asked, k)
  BY <1>1, <1>2, <1>3, <1>4, DemoAssumption DEF HandlerOK, EntriesSwept, LinksSwept, Shown
<1>6. page = "intake" => IntakeOK(k, entries, cases, asked)
  <2>1. page = "intake" => k.calls = <<"ingest", "put", "request_statement">>
    BY <1>4 DEF Calls
  <2>2. QED
    BY <2>1 DEF IntakeOK
<1>7. page = "statement" => StatementOK(k, entries, links, cases, asked)
  <2>1. page = "statement" =>
          k.calls = <<"link_by_token", "ingest", "put", "record_statement", "attach">>
    BY <1>4 DEF Calls
  <2>2. QED
    BY <2>1, <1>4 DEF StatementOK
<1>8. ActorOK(now, entries, links, cases, asked, a, k)
  BY <1>4, <1>5, <1>6, <1>7, DemoAssumption DEF ActorOK, LoopOK
<1>9. act' = [act EXCEPT ![a] = k]
  BY DEF Continue, k
<1> HIDE DEF DemoInv, ActorOK
<1>10. QED
  BY <1>3, <1>8, <1>9, Alone

-----------------------------------------------------------------------------
(* The calls that write.  What a handler writes is younger than any other    *)
(* handler can have been at work.                                           *)
LEMMA NotYetExpired ==
  ASSUME DemoInv, NEW a \in Actor, Busy(a), NEW b \in Actor, Busy(b), NEW e,
         e.at = act[a].moment
  PROVE  ~ Expired(e, act[b].moment)
<1>1. /\ act[a].moment \in Nat /\ act[b].moment \in Nat /\ now \in Nat
      /\ now <= act[a].moment + Patience /\ act[b].moment <= now
  BY AtWork DEF HandlerOK, HandlerType, DemoInv
<1>2. QED
  BY <1>1, DemoAssumption DEF Expired

LEMMA LoopMoves ==
  ASSUME DemoInv, NEW a \in Actor, Busy(a), NEW k \in HandlerType,
         act[a].page \in {"intake", "statement"}, k.page = act[a].page,
         Continue(a, k), now' = now, Books(entries', links', cases', asked'),
         Longer(cases, cases'), Longer(asked, asked'),
         \A b \in Actor \ {a} : Busy(b) =>
           Young(entries, entries', links, links', act[b].moment),
         HandlerOK(now, entries', links', cases', asked', k),
         k.page = "intake" => IntakeOK(k, entries', cases', asked'),
         k.page = "statement" => StatementOK(k, entries', links', cases', asked')
  PROVE  DemoInv'
<1>1. a = Loop /\ Loop \notin Viewer
  BY FormsAreOfTheLoop, DemoAssumption
<1>2. ActorOK(now, entries', links', cases', asked', a, k)
  BY <1>1 DEF ActorOK, LoopOK
<1>3. act' = [act EXCEPT ![a] = k]
  BY DEF Continue
<1> HIDE DEF DemoInv, ActorOK, Books
<1>4. QED
  BY <1>1, <1>2, <1>3, Moves

LEMMA IngestStep ==
  ASSUME DemoInv, NEW a \in Actor, Ingest(a)
  PROVE  DemoInv'
<1> DEFINE h == act[a]
           id == Len(cases) + 1
           k == [Returned(h) EXCEPT !.case = id]
<1>1. PICK hears \in BOOLEAN :
        cases' = Append(cases, IF h.page = "intake" THEN [kind |-> "intake", hears |-> hears]
                               ELSE [kind |-> "statement", of |-> h.arg])
  BY DEF Ingest
<1> DEFINE c == IF h.page = "intake" THEN [kind |-> "intake", hears |-> hears]
                ELSE [kind |-> "statement", of |-> h.arg]
<1>2. /\ Busy(a) /\ h.calls # << >> /\ Head(h.calls) = "ingest" /\ Len(cases) < MaxCases
      /\ Continue(a, k) /\ UNCHANGED <<now, entries, links, asked>>
  BY DEF Ingest, AtCall
<1>3. h \in HandlerType /\ HandlerOK(now, entries, links, cases, asked, h)
  BY <1>2, AtWork
<1>4. h.page \in {"intake", "statement"} /\ h.calls \in Left[h.page]
  BY <1>2, <1>3, WhichCall DEF HandlerOK, HandlerType
<1>5. h.page = "statement" => StatementOK(h, entries, links, cases, asked)
  BY <1>2, <1>4, FormsAreOfTheLoop
<1>6. /\ Books(entries, links, cases, asked) /\ cases \in Seq(Case) /\ Len(cases) \in Nat
      /\ asked \in Seq(Link) /\ Len(asked) <= Len(cases) /\ links \in Seq(Link)
      /\ entries \in Seq(Entry)
  BY DEF DemoInv, Books
<1>61. /\ \A i \in DOMAIN entries : entries[i].id \in Nat /\ entries[i].id <= Len(cases)
       /\ \A i \in DOMAIN asked : asked[i].case \in Nat /\ asked[i].case <= Len(cases)
  <2>1. (\A e \in Entry : e.id \in Nat) /\ \A l \in Link : l.case \in Nat
    BY DEF Entry, Link
  <2>2. (\A i \in DOMAIN entries : entries[i] \in Entry) /\ \A i \in DOMAIN asked : asked[i] \in Link
    BY <1>6
  <2>3. QED
    BY <2>1, <2>2, <1>6 DEF Books
<1>7. c \in Case
  <2>1. h.page = "statement" => h.arg \in 1 .. MaxCases
    BY <1>2, <1>5, <1>6, DemoAssumption DEF StatementOK
  <2>2. QED
    BY <2>1, <1>4 DEF Case
<1> HIDE DEF c
<1>8. /\ cases' \in Seq(Case) /\ Len(cases') = id /\ cases'[id] = c /\ id \in DOMAIN cases'
      /\ Longer(cases, cases') /\ Longer(asked, asked')
  <2>1. cases' = Append(cases, c)
    BY <1>1 DEF c
  <2>2. /\ Append(cases, c) \in Seq(Case) /\ Len(Append(cases, c)) = Len(cases) + 1
        /\ \A i \in 1 .. Len(cases) : Append(cases, c)[i] = cases[i]
        /\ Append(cases, c)[Len(cases) + 1] = c
    BY <1>6, <1>7, AppendedElements
  <2>3. DOMAIN Append(cases, c) = 1 .. Len(cases) + 1 /\ DOMAIN cases = 1 .. Len(cases)
    BY <2>2, <1>6
  <2>4. QED
    BY <2>1, <2>2, <2>3, <1>2, <1>6 DEF Longer
<1>9. Books(entries', links', cases', asked')
  <2>1. \A i \in DOMAIN links : True(cases', asked', links[i])
    BY <1>6, <1>8, TrueStays DEF Books
  <2>2. Len(cases') <= MaxCases /\ Len(asked') <= Len(cases') /\ Len(cases) <= Len(cases')
    BY <1>2, <1>6, <1>8, DemoAssumption
  <2>3. /\ \A i \in DOMAIN entries : entries[i].id <= Len(cases')
        /\ \A i \in DOMAIN asked : asked[i].case <= Len(cases')
    BY <1>6, <1>61, <1>8
  <2>4. QED
    BY <2>1, <2>2, <2>3, <1>2, <1>6, <1>8 DEF Books
<1>10. \A m : Young(entries, entries', links, links', m)
  BY <1>2 DEF Young
<1>11. /\ Returned(h) \in HandlerType /\ Returned(h).calls = Tail(h.calls)
       /\ Returned(h).page = h.page /\ Returned(h).arg = h.arg /\ Returned(h).link = h.link
  BY <1>2, <1>3, <1>4, ReturnedFields
<1>12. HandlerOK(now, entries', links', cases', asked', Returned(h))
  <2>1. Shown(h) /\ (h.link # None => True(cases', asked', h.link))
    BY <1>3, <1>8, TrueStays DEF HandlerOK
  <2> HIDE DEF Returned
  <2>2. QED
    BY <2>1, <1>2, <1>3, ReturnedOK
<1> HIDE DEF h, Returned
<1>13. /\ k \in HandlerType /\ k.page = h.page /\ k.arg = h.arg /\ k.link = h.link
       /\ k.case = id /\ k.calls = Tail(h.calls)
       /\ k.moment = Returned(h).moment /\ k.dict = Returned(h).dict
       /\ k.phase = Returned(h).phase /\ k.held = Returned(h).held
  <2> DEFINE r == Returned(h)
  <2>1. r \in HandlerType /\ id \in Nat
    BY <1>6, <1>11
  <2> HIDE DEF r, id
  <2>2. [r EXCEPT !.case = id] \in HandlerType
    BY <2>1 DEF HandlerType
  <2>3. k = [r EXCEPT !.case = id]
    BY DEF r
  <2> HIDE DEF k
  <2>4. /\ k.page = r.page /\ k.arg = r.arg /\ k.link = r.link /\ k.case = id
        /\ k.calls = r.calls /\ k.moment = r.moment /\ k.dict = r.dict
        /\ k.phase = r.phase /\ k.held = r.held
    BY <2>1, <2>3 DEF HandlerType
  <2>5. QED
    BY <2>2, <2>3, <2>4, <1>11 DEF r
<1> HIDE DEF k
<1>14. HandlerOK(now, entries', links', cases', asked', k)
  <2>1. Returned(h).phase = "start" /\ Returned(h).dict = "entries"
    BY <1>2, <1>3, <1>4, ReturnedFields
  <2>2. EntriesSwept(k, entries') /\ LinksSwept(k, links')
    BY <2>1, <1>13 DEF EntriesSwept, LinksSwept
  <2>3. QED
    BY <2>1, <2>2, <1>11, <1>12, <1>13 DEF HandlerOK, Shown
<1>15. k.page = "intake" => IntakeOK(k, entries', cases', asked')
  <2> SUFFICES ASSUME h.page = "intake" PROVE IntakeOK(k, entries', cases', asked')
    BY <1>13
  <2>1. k.calls = <<"put", "request_statement">>
    BY <1>2, <1>4, <1>13, IntakeCalls DEF h
  <2>2. c \in [kind : {"intake"}, hears : BOOLEAN]
    BY DEF c
  <2>3. \A i \in DOMAIN entries : entries[i].id # id
    BY <1>6, <1>61
  <2>4. \A i \in DOMAIN asked : asked[i].case # id
    BY <1>6, <1>61
  <2>5. Len(asked) \in Nat /\ Len(asked) < id
    BY <1>6
  <2>6. k.calls # <<"request_statement">>
    BY <2>1
  <2>7. QED
    BY <2>1, <2>2, <2>3, <2>4, <2>5, <2>6, <1>2, <1>8, <1>13 DEF IntakeOK
<1>16. k.page = "statement" => StatementOK(k, entries', links', cases', asked')
  <2> SUFFICES ASSUME h.page = "statement"
               PROVE  StatementOK(k, entries', links', cases', asked')
    BY <1>13
  <2>1. /\ k.calls = <<"put", "record_statement", "attach">>
        /\ h.calls = <<"ingest", "put", "record_statement", "attach">>
    BY <1>2, <1>4, <1>13, StatementCalls DEF h
  <2>2. c = [kind |-> "statement", of |-> h.arg]
    BY DEF c
  <2>3. \A i \in DOMAIN entries : entries[i].id # id
    BY <1>6, <1>61
  <2>4. /\ h.arg \in DOMAIN asked
        /\ \A i \in DOMAIN links : links[i].id = h.arg => links[i].statement = 0
        /\ h.link # None => h.link.id = h.arg
    BY <2>1, <1>5 DEF StatementOK
  <2>5. k.calls # <<"attach">>
    BY <2>1
  <2>6. QED
    BY <2>1, <2>2, <2>3, <2>4, <2>5, <1>2, <1>8, <1>13 DEF StatementOK
<1> HIDE DEF DemoInv, Books
<1>17. Busy(a) /\ Continue(a, k) /\ now' = now /\ k.page = act[a].page
       /\ act[a].page \in {"intake", "statement"}
  BY <1>2, <1>4, <1>13 DEF h, k
<1>18. QED
  BY <1>8, <1>9, <1>10, <1>13, <1>14, <1>15, <1>16, <1>17, LoopMoves

LEMMA PutEntryStep ==
  ASSUME DemoInv, NEW a \in Actor, PutEntry(a)
  PROVE  DemoInv'
<1> DEFINE h == act[a]
           k == Returned(h)
           e == [id |-> h.case, at |-> h.moment]
           longer == Append(entries, e)
<1>1. /\ Busy(a) /\ h.calls # << >> /\ Head(h.calls) = "put" /\ Continue(a, k)
      /\ entries' = Bounded(longer) /\ UNCHANGED <<now, links, cases, asked>>
  BY DEF PutEntry, AtCall
<1>2. h \in HandlerType /\ HandlerOK(now, entries, links, cases, asked, h)
  BY <1>1, AtWork
<1>3. h.page \in {"intake", "statement"} /\ h.calls \in Left[h.page]
  BY <1>1, <1>2, WhichCall DEF HandlerOK, HandlerType
<1>4. /\ h.page = "intake" => IntakeOK(h, entries, cases, asked)
      /\ h.page = "statement" => StatementOK(h, entries, links, cases, asked)
  BY <1>1, <1>3, FormsAreOfTheLoop
<1>5. /\ Books(entries, links, cases, asked) /\ cases \in Seq(Case) /\ Len(cases) <= MaxCases
      /\ entries \in Seq(Entry) /\ Once(entries)
  BY DEF DemoInv, Books
<1>6. h.case \in DOMAIN cases /\ \A i \in DOMAIN entries : entries[i].id # h.case
  <2>1. CASE h.page = "intake"
    <3>1. h.calls = <<"put", "request_statement">>
      BY <2>1, <1>1, <1>3, IntakeCalls
    <3>2. QED
      BY <2>1, <3>1, <1>4 DEF IntakeOK
  <2>2. CASE h.page = "statement"
    <3>1. h.calls = <<"put", "record_statement", "attach">>
      BY <2>2, <1>1, <1>3, StatementCalls
    <3>2. QED
      BY <2>2, <3>1, <1>4 DEF StatementOK
  <2>3. QED
    BY <2>1, <2>2, <1>3
<1>7. e \in Entry
  <2>1. h.case \in 1 .. MaxCases /\ h.moment \in 0 .. MaxTime
    BY <1>2, <1>5, <1>6, DemoAssumption DEF HandlerType
  <2>2. QED
    BY <2>1 DEF Entry
<1>8. /\ longer \in Seq(Entry) /\ Once(longer)
      /\ \A i \in DOMAIN longer : longer[i] = e \/ \E j \in DOMAIN entries : longer[i] = entries[j]
  BY <1>5, <1>6, <1>7, AppendedOnce
<1> HIDE DEF longer
<1>9. entries' \in Seq(Entry) /\ Once(entries') /\ Within(entries', longer)
  BY <1>1, <1>8, BoundedOnce
<1>10. \A i \in DOMAIN entries' : entries'[i] = e \/ \E j \in DOMAIN entries : entries'[i] = entries[j]
  BY <1>8, <1>9 DEF Within
<1>11. Books(entries', links', cases', asked')
  <2>1. \A i \in DOMAIN entries' : entries'[i].id <= Len(cases)
    <3>1. e.id <= Len(cases)
      BY <1>5, <1>6
    <3>2. \A j \in DOMAIN entries : entries[j].id <= Len(cases)
      BY <1>5 DEF Books
    <3>3. QED
      BY <3>1, <3>2, <1>10
  <2>2. QED
    BY <2>1, <1>1, <1>5, <1>9 DEF Books
<1>12. \A b \in Actor \ {a} : Busy(b) => Young(entries, entries', links, links', act[b].moment)
  <2> SUFFICES ASSUME NEW b \in Actor, Busy(b)
               PROVE  Young(entries, entries', links, links', act[b].moment)
    OBVIOUS
  <2>1. ~ Expired(e, act[b].moment)
    BY <1>1, NotYetExpired
  <2>2. QED
    BY <2>1, <1>1, <1>10 DEF Young
<1>13. Longer(cases, cases') /\ Longer(asked, asked')
  BY <1>1, WithinSelf
<1>14. /\ k \in HandlerType /\ k.calls = Tail(h.calls) /\ k.page = h.page /\ k.arg = h.arg
       /\ k.link = h.link /\ k.case = h.case /\ k.dict = "entries" /\ k.phase = "start"
  BY <1>1, <1>2, <1>3, ReturnedFields
<1>15. HandlerOK(now, entries', links', cases', asked', k)
  <2>1. Shown(h) /\ (h.link # None => True(cases', asked', h.link))
    BY <1>1, <1>2 DEF HandlerOK
  <2>2. QED
    BY <2>1, <1>1, <1>2, ReturnedOK
<1> HIDE DEF k
<1>16. k.page = "intake" => IntakeOK(k, entries', cases', asked')
  <2> SUFFICES ASSUME h.page = "intake" PROVE IntakeOK(k, entries', cases', asked')
    BY <1>14
  <2>1. h.calls = <<"put", "request_statement">> /\ k.calls = <<"request_statement">>
    BY <1>1, <1>3, <1>14, IntakeCalls
  <2>2. IntakeOK(h, entries, cases, asked)
    BY <1>4
  <2>3. QED
    BY <2>1, <2>2, <1>1, <1>14 DEF IntakeOK
<1>17. k.page = "statement" => StatementOK(k, entries', links', cases', asked')
  <2> SUFFICES ASSUME h.page = "statement"
               PROVE  StatementOK(k, entries', links', cases', asked')
    BY <1>14
  <2>1. /\ h.calls = <<"put", "record_statement", "attach">>
        /\ k.calls = <<"record_statement", "attach">>
    BY <1>1, <1>3, <1>14, StatementCalls
  <2>2. StatementOK(h, entries, links, cases, asked)
    BY <1>4
  <2>3. QED
    BY <2>1, <2>2, <1>1, <1>14 DEF StatementOK
<1> HIDE DEF DemoInv, Books
<1>18. /\ Continue(a, k) /\ now' = now /\ k.page = act[a].page
       /\ act[a].page \in {"intake", "statement"}
  BY <1>1, <1>3, <1>14 DEF h, k
<1>19. QED
  BY <1>1, <1>11, <1>12, <1>13, <1>14, <1>15, <1>16, <1>17, <1>18, LoopMoves

LEMMA RequestStatementStep ==
  ASSUME DemoInv, NEW a \in Actor, RequestStatement(a)
  PROVE  DemoInv'
<1> DEFINE h == act[a]
           k == Returned(h)
           l == [id |-> Len(asked) + 1, case |-> h.case, at |-> h.moment, statement |-> 0]
           longer == Append(links, l)
<1>1. /\ Busy(a) /\ h.calls # << >> /\ Head(h.calls) = "request_statement" /\ h.phase = "swept"
      /\ Continue(a, k) /\ asked' = Append(asked, l) /\ links' = Bounded(longer)
      /\ UNCHANGED <<now, entries, cases>>
  BY DEF RequestStatement, AtCall, StoreCall
<1>2. h \in HandlerType /\ HandlerOK(now, entries, links, cases, asked, h)
  BY <1>1, AtWork
<1>3. h.page = "intake" /\ h.calls \in Left["intake"]
  BY <1>1, <1>2, WhichCall DEF HandlerOK, HandlerType
<1>4. h.calls = <<"request_statement">> /\ Tail(h.calls) = << >>
  BY <1>1, <1>3, IntakeCalls
<1>5. /\ h.case \in DOMAIN cases /\ cases[h.case] = [kind |-> "intake", hears |-> TRUE]
      /\ Len(asked) < Len(cases) /\ \A i \in DOMAIN asked : asked[i].case # h.case
  <2>1. IntakeOK(h, entries, cases, asked)
    BY <1>1, <1>3, FormsAreOfTheLoop
  <2>2. cases[h.case] \in [kind : {"intake"}, hears : BOOLEAN] /\ cases[h.case].hears
    BY <2>1, <1>1, <1>4 DEF IntakeOK
  <2>3. QED
    BY <2>1, <2>2, <1>4 DEF IntakeOK
<1>6. /\ Books(entries, links, cases, asked) /\ cases \in Seq(Case) /\ Len(cases) <= MaxCases
      /\ entries \in Seq(Entry) /\ links \in Seq(Link) /\ Once(links) /\ asked \in Seq(Link)
      /\ \A i \in DOMAIN links : True(cases, asked, links[i])
  BY DEF DemoInv, Books
<1>7. l \in Link /\ l.id = Len(asked) + 1 /\ l.case = h.case /\ l.at = h.moment /\ l.statement = 0
  <2>1. Len(asked) + 1 \in 1 .. MaxCases /\ h.case \in 1 .. MaxCases
    BY <1>5, <1>6, DemoAssumption
  <2>2. h.moment \in 0 .. MaxTime /\ 0 \in 0 .. MaxCases
    BY <1>2, DemoAssumption DEF HandlerType
  <2>3. QED
    BY <2>1, <2>2 DEF Link
<1> HIDE DEF l
<1>8. /\ asked' \in Seq(Link) /\ Len(asked') = Len(asked) + 1 /\ asked'[Len(asked) + 1] = l
      /\ DOMAIN asked' = 1 .. Len(asked) + 1 /\ DOMAIN asked = 1 .. Len(asked)
      /\ \A i \in 1 .. Len(asked) : asked'[i] = asked[i]
  BY <1>1, <1>6, <1>7, AppendedElements
<1>9. Longer(cases, cases') /\ Longer(asked, asked')
  <2>1. Len(asked) \in Nat
    BY <1>6
  <2>2. QED
    BY <2>1, <1>1, <1>8 DEF Longer
<1>10. /\ longer \in Seq(Link) /\ Once(longer)
       /\ \A i \in DOMAIN longer : longer[i] = l \/ \E j \in DOMAIN links : longer[i] = links[j]
  <2>1. \A i \in DOMAIN links : links[i].id # l.id
    <3>1. \A i \in DOMAIN links : links[i].id \in 1 .. Len(asked)
      BY <1>6, <1>8 DEF True
    <3>2. Len(asked) \in Nat /\ l.id = Len(asked) + 1
      BY <1>6, <1>7
    <3>3. QED
      BY <3>1, <3>2
  <2>2. QED
    BY <2>1, <1>6, <1>7, AppendedOnce
<1> HIDE DEF longer
<1>11. links' \in Seq(Link) /\ Once(links') /\ Within(links', longer)
  BY <1>1, <1>10, BoundedOnce
<1>12. \A i \in DOMAIN links' : links'[i] = l \/ \E j \in DOMAIN links : links'[i] = links[j]
  BY <1>10, <1>11 DEF Within
<1>13. True(cases', asked', l)
  <2>1. Len(asked) + 1 \in DOMAIN asked'
    BY <1>6, <1>8
  <2>2. QED
    BY <2>1, <1>1, <1>5, <1>7, <1>8 DEF True
<1>14. Books(entries', links', cases', asked')
  <2>1. \A i \in DOMAIN links' : True(cases', asked', links'[i])
    BY <1>6, <1>9, <1>12, <1>13, TrueStays
  <2>2. \A i \in DOMAIN asked' : asked'[i].case <= Len(cases)
    <3>1. l.case <= Len(cases)
      BY <1>5, <1>6, <1>7
    <3>2. \A i \in DOMAIN asked : asked[i].case <= Len(cases)
      BY <1>6 DEF Books
    <3>3. QED
      BY <3>1, <3>2, <1>6, <1>8
  <2>3. \A i, j \in DOMAIN asked' : asked'[i].case = asked'[j].case => i = j
    <3>1. \A i, j \in DOMAIN asked : asked[i].case = asked[j].case => i = j
      BY <1>6 DEF Books
    <3>2. \A i \in DOMAIN asked' : i = Len(asked) + 1 \/ i \in DOMAIN asked
      BY <1>6, <1>8
    <3>3. \A i \in DOMAIN asked : asked'[i].case # l.case
      BY <1>5, <1>7, <1>8
    <3>4. QED
      BY <3>1, <3>2, <3>3, <1>8
  <2>4. Len(asked') <= Len(cases)
    BY <1>5, <1>6, <1>8
  <2>5. Once(entries) /\ \A i \in DOMAIN entries : entries[i].id <= Len(cases)
    BY <1>6 DEF Books
  <2>6. QED
    BY <2>1, <2>2, <2>3, <2>4, <2>5, <1>1, <1>6, <1>8, <1>11 DEF Books
<1>15. \A b \in Actor \ {a} : Busy(b) => Young(entries, entries', links, links', act[b].moment)
  <2> SUFFICES ASSUME NEW b \in Actor, Busy(b)
               PROVE  Young(entries, entries', links, links', act[b].moment)
    OBVIOUS
  <2>1. ~ Expired(l, act[b].moment)
    BY <1>1, <1>7, NotYetExpired
  <2>2. QED
    BY <2>1, <1>1, <1>12 DEF Young
<1>16. /\ k \in HandlerType /\ k.calls = << >> /\ k.page = "intake"
  BY <1>1, <1>2, <1>3, <1>4, ReturnedFields
<1>17. HandlerOK(now, entries', links', cases', asked', k)
  <2>1. Shown(h) /\ (h.link # None => True(cases', asked', h.link))
    BY <1>2, <1>9, TrueStays DEF HandlerOK
  <2>2. QED
    BY <2>1, <1>1, <1>2, ReturnedOK
<1> HIDE DEF k
<1>18. IntakeOK(k, entries', cases', asked')
  BY <1>16 DEF IntakeOK
<1> HIDE DEF DemoInv, Books
<1>19. /\ Continue(a, k) /\ now' = now /\ k.page = act[a].page /\ k.page # "statement"
       /\ act[a].page \in {"intake", "statement"}
  BY <1>1, <1>3, <1>16 DEF h, k
<1>20. QED
  BY <1>1, <1>9, <1>14, <1>15, <1>16, <1>17, <1>18, <1>19, LoopMoves

(* The answer is put where its link is, or back in its place. *)
LEMMA AttachedList ==
  ASSUME NEW d \in Seq(Link), Once(d), NEW x \in Link, NEW r,
         r = IF Find(d, x.id) = None THEN Append(d, x)
             ELSE [i \in DOMAIN d |-> IF d[i].id = x.id THEN x ELSE d[i]]
  PROVE  /\ r \in Seq(Link) /\ Once(r)
         /\ \A i \in DOMAIN r : r[i] = x \/ \E j \in DOMAIN d : r[i] = d[j]
<1>1. CASE Find(d, x.id) = None
  <2>1. \A i \in DOMAIN d : d[i].id # x.id
    <3> SUFFICES ASSUME \E i \in DOMAIN d : d[i].id = x.id PROVE FALSE
      OBVIOUS
    <3>1. Find(d, x.id) \in Link
      <4>1. Find(d, x.id) = d[CHOOSE i \in DOMAIN d : d[i].id = x.id]
        BY DEF Find
      <4>2. (CHOOSE i \in DOMAIN d : d[i].id = x.id) \in DOMAIN d
        OBVIOUS
      <4>3. QED
        BY <4>1, <4>2
    <3>2. QED
      BY <3>1, <1>1, NoneIsNothing
  <2>2. r = Append(d, x)
    BY <1>1
  <2>3. QED
    BY <2>1, <2>2, AppendedOnce
<1>2. CASE Find(d, x.id) # None
  <2>1. r = [i \in DOMAIN d |-> IF d[i].id = x.id THEN x ELSE d[i]]
    BY <1>2
  <2>2. DOMAIN r = DOMAIN d /\ \A i \in DOMAIN d : r[i] = IF d[i].id = x.id THEN x ELSE d[i]
    BY <2>1
  <2>3. DOMAIN d = 1 .. Len(d) /\ Len(d) \in Nat /\ \A i \in DOMAIN d : d[i] \in Link
    OBVIOUS
  <2>4. \A i \in DOMAIN d : r[i] \in Link /\ r[i].id = d[i].id
    BY <2>2, <2>3
  <2>5. r \in Seq(Link)
    <3>1. r = [i \in 1 .. Len(d) |-> IF d[i].id = x.id THEN x ELSE d[i]]
      BY <2>1, <2>3
    <3>2. \A i \in 1 .. Len(d) : (IF d[i].id = x.id THEN x ELSE d[i]) \in Link
      BY <2>3
    <3> DEFINE new(i) == IF d[i].id = x.id THEN x ELSE d[i]
    <3>3. \A i \in 1 .. Len(d) : new(i) \in Link
      BY <3>2
    <3>4. r = [i \in 1 .. Len(d) |-> new(i)]
      BY <3>1
    <3> HIDE DEF new
    <3>5. Len(d) \in Nat
      OBVIOUS
    <3>6. [i \in 1 .. Len(d) |-> new(i)] \in Seq(Link)
      BY <3>3, <3>5
    <3>7. QED
      BY SMTT(40), <3>4, <3>6
  <2>6. Once(r)
    BY <2>2, <2>4 DEF Once
  <2>7. QED
    BY <2>2, <2>5, <2>6
<1>3. QED
  BY <1>1, <1>2

LEMMA AttachStep ==
  ASSUME DemoInv, NEW a \in Actor, Attach(a)
  PROVE  DemoInv'
<1> DEFINE h == act[a]
           k == Returned(h)
           x == Answered(h)
<1>1. /\ Busy(a) /\ h.calls # << >> /\ Head(h.calls) = "attach"
      /\ Continue(a, k) /\ UNCHANGED <<now, entries, cases, asked>>
      /\ links' = IF Find(links, h.arg) = None THEN Append(links, x)
                  ELSE [i \in DOMAIN links |-> IF links[i].id = h.arg THEN x ELSE links[i]]
  BY DEF Attach, AtCall
<1>2. h \in HandlerType /\ HandlerOK(now, entries, links, cases, asked, h)
  BY <1>1, AtWork
<1>3. h.page = "statement" /\ h.calls \in Left["statement"]
  BY <1>1, <1>2, WhichCall DEF HandlerOK, HandlerType
<1>4. h.calls = <<"attach">> /\ Tail(h.calls) = << >>
  BY <1>1, <1>3, StatementCalls
<1>5. /\ h.arg \in DOMAIN asked /\ h.case \in DOMAIN cases
      /\ cases[h.case] = [kind |-> "statement", of |-> h.arg]
      /\ h.link # None /\ h.link.id = h.arg
  <2>1. StatementOK(h, entries, links, cases, asked)
    BY <1>1, <1>3, FormsAreOfTheLoop
  <2>2. QED
    BY <2>1, <1>4 DEF StatementOK
<1>6. /\ Books(entries, links, cases, asked) /\ cases \in Seq(Case) /\ Len(cases) <= MaxCases
      /\ links \in Seq(Link) /\ Once(links)
      /\ \A i \in DOMAIN links : True(cases, asked, links[i])
  BY DEF DemoInv, Books
<1>7. h.link \in Link /\ True(cases, asked, h.link)
  BY <1>2, <1>5 DEF HandlerOK, True
<1>8. h.case \in 1 .. MaxCases
  BY <1>5, <1>6, DemoAssumption
<1>9. /\ x \in Link /\ x.id = h.arg /\ x.case = h.link.case /\ x.at = h.link.at
      /\ x.statement = h.case /\ x.statement # 0
  <2> DEFINE y == h.link
             c == h.case
  <2>1. y \in Link /\ c \in 1 .. MaxCases /\ y.id = h.arg
    BY <1>5, <1>7, <1>8
  <2>2. x = [y EXCEPT !.statement = c]
    BY DEF Answered
  <2> HIDE DEF x, y, c
  <2>3. c \in 0 .. MaxCases /\ c # 0
    BY <2>1, DemoAssumption
  <2>4. /\ x \in Link /\ x.id = h.arg /\ x.case = y.case /\ x.at = y.at /\ x.statement = c
    BY <2>1, <2>2, <2>3 DEF Link
  <2>5. QED
    BY <2>3, <2>4 DEF y, c
<1> HIDE DEF x
<1>10. True(cases, asked, x)
  BY <1>5, <1>7, <1>9 DEF True
<1>11. /\ links' \in Seq(Link) /\ Once(links')
       /\ \A i \in DOMAIN links' : links'[i] = x \/ \E j \in DOMAIN links : links'[i] = links[j]
  <2> DEFINE r == IF Find(links, x.id) = None THEN Append(links, x)
                  ELSE [i \in DOMAIN links |-> IF links[i].id = x.id THEN x ELSE links[i]]
  <2>1. links' = r
    BY <1>1, <1>9
  <2>2. /\ r \in Seq(Link) /\ Once(r)
        /\ \A i \in DOMAIN r : r[i] = x \/ \E j \in DOMAIN links : r[i] = links[j]
    <3>1. \A q : q = r => q \in Seq(Link) /\ Once(q)
                         /\ \A i \in DOMAIN q : q[i] = x \/ \E j \in DOMAIN links : q[i] = links[j]
      BY <1>6, <1>9, AttachedList
    <3> HIDE DEF r
    <3>2. QED
      BY <3>1
  <2> HIDE DEF r
  <2>3. QED
    BY <2>1, <2>2
<1>12. Books(entries', links', cases', asked')
  <2>1. \A i \in DOMAIN links' : True(cases, asked, links'[i])
    BY <1>6, <1>10, <1>11
  <2>2. QED
    BY <2>1, <1>1, <1>6, <1>11 DEF Books
<1>13. \A m : Young(entries, entries', links, links', m)
  BY <1>1, <1>9, <1>11 DEF Young
<1>14. Longer(cases, cases') /\ Longer(asked, asked')
  BY <1>1, WithinSelf
<1>15. /\ k \in HandlerType /\ k.calls = << >> /\ k.page = "statement" /\ k.arg = h.arg
       /\ k.link = h.link
  BY <1>1, <1>2, <1>3, <1>4, ReturnedFields
<1>16. HandlerOK(now, entries', links', cases', asked', k)
  <2>1. Shown(h) /\ (h.link # None => True(cases', asked', h.link))
    BY <1>1, <1>2 DEF HandlerOK
  <2>2. QED
    BY <2>1, <1>1, <1>2, ReturnedOK
<1> HIDE DEF k
<1>17. StatementOK(k, entries', links', cases', asked')
  BY <1>1, <1>5, <1>15 DEF StatementOK
<1> HIDE DEF DemoInv, Books
<1>18. /\ Continue(a, k) /\ now' = now /\ k.page = act[a].page /\ k.page # "intake"
       /\ act[a].page \in {"intake", "statement"}
  BY <1>1, <1>3, <1>15 DEF h, k
<1>19. QED
  BY <1>1, <1>12, <1>13, <1>14, <1>15, <1>16, <1>17, <1>18, LoopMoves

-----------------------------------------------------------------------------
(* The rest: what ends a handler, what begins one, the clock and a restart. *)
LEMMA EndingStep ==
  ASSUME DemoInv, NEW a \in Actor,
         LookupRaises(a) \/ IngestRefused(a) \/ NothingToRequest(a) \/ Respond(a)
  PROVE  DemoInv'
<1>1. Leave(a) /\ UNCHANGED <<now, entries, links, cases, asked>>
  BY DEF LookupRaises, IngestRefused, NothingToRequest, Respond
<1>2. QED
  BY <1>1, Leaves

LEMMA ArrivalStep ==
  ASSUME DemoInv,
         (\E v \in Viewer : Browse(v)) \/ Submit \/ \E token \in DOMAIN asked : Answer(token)
  PROVE  DemoInv'
<1>1. DOMAIN cases \subseteq Nat /\ DOMAIN asked \subseteq Nat
  <2>1. cases \in Seq(Case) /\ asked \in Seq(Link)
    BY DEF DemoInv, Books
  <2>2. QED
    BY <2>1
<1>2. ASSUME NEW v \in Viewer, Browse(v) PROVE DemoInv'
  <2>1. UNCHANGED <<now, entries, links, cases, asked>> /\ v \in Actor
    BY <1>2 DEF Browse, Actor
  <2>2. PICK page \in ViewerPage, arg \in Nat : Continue(v, Handler(page, arg))
    BY <1>1, <1>2 DEF Browse, ViewerPage
  <2>3. page \in Page /\ page # "statement"
    BY DEF Page, ViewerPage
  <2>4. QED
    BY <2>1, <2>2, <2>3, Arrives
<1>3. ASSUME Submit PROVE DemoInv'
  <2>1. /\ Continue(Loop, Handler("intake", 0)) /\ Loop \in Actor /\ 0 \in Nat
        /\ UNCHANGED <<now, entries, links, cases, asked>> /\ "intake" \in Page
    BY <1>3 DEF Submit, Actor, Page
  <2>2. QED
    BY <2>1, Arrives
<1>4. ASSUME NEW token \in DOMAIN asked, Answer(token) PROVE DemoInv'
  <2>1. /\ Continue(Loop, Handler("statement", token)) /\ Loop \in Actor /\ token \in Nat
        /\ UNCHANGED <<now, entries, links, cases, asked>> /\ "statement" \in Page
    BY <1>1, <1>4 DEF Answer, Actor, Page
  <2>2. QED
    BY <2>1, Arrives
<1>5. QED
  BY <1>2, <1>3, <1>4

LEMMA TickStep ==
  ASSUME DemoInv, Tick
  PROVE  DemoInv'
<1>1. /\ now \in Nat /\ now' = now + 1 /\ now' \in 0 .. MaxTime
      /\ entries' = entries /\ links' = links /\ cases' = cases /\ asked' = asked /\ act' = act
  BY DemoAssumption DEF DemoInv, Tick
<1>2. ASSUME NEW a \in Actor
      PROVE  ActorOK(now', entries, links, cases, asked, a, act[a])
  <2> SUFFICES ASSUME Busy(a)
               PROVE  ActorOK(now', entries, links, cases, asked, a, act[a])
    BY DEF ActorOK, Busy
  <2>1. /\ HandlerOK(now, entries, links, cases, asked, act[a])
        /\ a \in Viewer => act[a].page \in ViewerPage
        /\ a = Loop => LoopOK(act[a], entries, links, cases, asked)
    BY AtWork
  <2>2. act[a].moment <= now' /\ now' <= act[a].moment + Patience
    <3>1. now < act[a].moment + Patience
      BY DEF Tick
    <3>2. act[a].moment \in Nat /\ act[a].moment <= now
      BY <2>1 DEF HandlerOK, HandlerType
    <3>3. QED
      BY <3>1, <3>2, <1>1, DemoAssumption
  <2>3. HandlerOK(now', entries, links, cases, asked, act[a])
    BY <2>1, <2>2 DEF HandlerOK
  <2>4. QED
    BY <2>1, <2>3 DEF ActorOK
<1>3. Books(entries, links, cases, asked) /\ act \in [Actor -> HandlerType \cup {Idle}]
  BY DEF DemoInv
<1> HIDE DEF ActorOK, Books
<1>4. QED
  BY <1>1, <1>2, <1>3 DEF DemoInv

LEMMA RestartStep ==
  ASSUME DemoInv, Restart
  PROVE  DemoInv'
<1>1. /\ entries' = << >> /\ links' = << >> /\ cases' = cases /\ asked' = asked /\ now' = now
      /\ act' = [a \in Actor |-> Idle]
  BY DEF Restart
<1>2. Books(<< >>, << >>, cases, asked)
  BY DEF DemoInv, Books, Once
<1>3. act' \in [Actor -> HandlerType \cup {Idle}]
  BY <1>1
<1>4. \A a \in Actor : ActorOK(now', entries', links', cases', asked', a, act'[a])
  BY <1>1 DEF ActorOK, Idle
<1>5. QED
  BY <1>1, <1>2, <1>3, <1>4 DEF DemoInv

LEMMA InitInv == Init => DemoInv
<1> SUFFICES ASSUME Init PROVE DemoInv
  OBVIOUS
<1>1. now \in 0 .. MaxTime /\ act \in [Actor -> HandlerType \cup {Idle}]
  BY DemoAssumption DEF Init
<1>2. Books(entries, links, cases, asked)
  BY DemoAssumption DEF Init, Books, Once
<1>3. \A a \in Actor : ActorOK(now, entries, links, cases, asked, a, act[a])
  BY DEF Init, ActorOK, Idle
<1>4. QED
  BY <1>1, <1>2, <1>3 DEF DemoInv

LEMMA NextStep == DemoInv /\ [Next]_vars => DemoInv'
<1> SUFFICES ASSUME DemoInv, [Next]_vars PROVE DemoInv'
  OBVIOUS
<1>1. ASSUME NEW a \in Actor, Step(a) PROVE DemoInv'
  BY <1>1, StartScanStep, ScanStep, DeleteStep, EndSweepStep, GetStep, LinkByTokenStep,
     LinkForCaseStep, IngestStep, PutEntryStep, RequestStatementStep, RecordStatementStep,
     AttachStep, EndingStep DEF Step
<1>2. CASE (\E v \in Viewer : Browse(v)) \/ Submit \/ \E token \in DOMAIN asked : Answer(token)
  BY <1>2, ArrivalStep
<1>3. CASE Tick
  BY <1>3, TickStep
<1>4. CASE Restart
  BY <1>4, RestartStep
<1>5. CASE UNCHANGED vars
  BY <1>5 DEF vars, DemoInv
<1>6. QED
  BY <1>1, <1>2, <1>3, <1>4, <1>5 DEF Next

(* The invariant holds in every state the demo can be in. *)
THEOREM Invariance == Spec => []DemoInv
BY InitInv, NextStep, PTL DEF Spec

-----------------------------------------------------------------------------
(* Expiry and absence are one, for any number of page threads whose sweeps   *)
(* fall into each other, as long as a handler takes less than the TTL.       *)
THEOREM NothingExpired == Spec => []NothingExpiredIsShown
<1>1. DemoInv => NothingExpiredIsShown
  <2> SUFFICES ASSUME DemoInv PROVE NothingExpiredIsShown
    OBVIOUS
  <2>1. \A a \in Actor : Busy(a) => Shown(act[a])
    BY AtWork DEF HandlerOK
  <2>2. QED
    BY <2>1 DEF NothingExpiredIsShown, Shown
<1>2. QED
  BY <1>1, Invariance, PTL

LEMMA TwoTrueLinks ==
  ASSUME DemoInv, NEW k, NEW l, True(cases, asked, k), True(cases, asked, l)
  PROVE  {k.case, k.statement} \cap {l.case, l.statement} \subseteq {0} \/ k.id = l.id
<1> SUFFICES ASSUME NEW x \in {k.case, k.statement} \cap {l.case, l.statement}, x # 0
             PROVE  k.id = l.id
  OBVIOUS
<1>1. CASE x = k.case /\ x = l.case
  <2>1. \A i, j \in DOMAIN asked : asked[i].case = asked[j].case => i = j
    BY DEF DemoInv, Books
  <2>2. /\ k.id \in DOMAIN asked /\ l.id \in DOMAIN asked
        /\ k.case = asked[k.id].case /\ l.case = asked[l.id].case
    BY DEF True
  <2>3. QED
    BY <2>1, <2>2, <1>1
<1>2. CASE x = k.statement /\ x = l.statement
  <2>1. [kind |-> "statement", of |-> k.id] = [kind |-> "statement", of |-> l.id]
    BY <1>2 DEF True
  <2>2. QED
    BY <2>1
<1>3. CASE x = k.case /\ x = l.statement
  <2>1. [kind |-> "intake", hears |-> TRUE] = [kind |-> "statement", of |-> l.id]
    BY <1>3 DEF True
  <2>2. [kind |-> "intake", hears |-> TRUE].kind # [kind |-> "statement", of |-> l.id].kind
    OBVIOUS
  <2>3. QED
    BY <2>1, <2>2
<1>4. CASE x = k.statement /\ x = l.case
  <2>1. [kind |-> "intake", hears |-> TRUE] = [kind |-> "statement", of |-> k.id]
    BY <1>4 DEF True
  <2>2. [kind |-> "intake", hears |-> TRUE].kind # [kind |-> "statement", of |-> k.id].kind
    OBVIOUS
  <2>3. QED
    BY <2>1, <2>2
<1>5. QED
  BY <1>1, <1>2, <1>3, <1>4

(* What a correlation says was asked and answered, and a case is on one      *)
(* correlation at most, for as many submissions as there are.                *)
THEOREM CorrelationHolds == Spec => []CorrelationIsTrue
<1>1. DemoInv => CorrelationIsTrue
  <2> SUFFICES ASSUME DemoInv PROVE CorrelationIsTrue
    OBVIOUS
  <2>1. Range(cases) \subseteq Case
    <3>1. cases \in Seq(Case)
      BY DEF DemoInv, Books
    <3>2. QED
      BY <3>1 DEF Range
  <2>2. \A k \in Range(links) : True(cases, asked, k)
    BY DEF DemoInv, Books, Range
  <2>3. \A l \in OnPages : True(cases, asked, l)
    BY AtWork DEF OnPages, HandlerOK
  <2>4. ASSUME NEW l \in Range(links) \cup OnPages
        PROVE  /\ True(cases, asked, l)
               /\ \A k \in Range(links) :
                    {k.case, k.statement} \cap {l.case, l.statement} \subseteq {0} \/ k.id = l.id
    BY <2>2, <2>3, TwoTrueLinks
  <2> HIDE DEF DemoInv
  <2>5. QED
    BY <2>1, <2>4 DEF CorrelationIsTrue, True
<1>2. QED
  BY <1>1, Invariance, PTL

(* A link after a step is one from before it, or its request had no answer. *)
LEMMA LinksCome ==
  ASSUME DemoInv, [Next]_vars, NEW j \in DOMAIN links'
  PROVE  \/ \E i \in DOMAIN links : links'[j] = links[i]
         \/ \A i \in DOMAIN links : links[i].id = links'[j].id => links[i].statement = 0
<1>1. ASSUME links' = links \/ links' = << >>
      PROVE  \E i \in DOMAIN links : links'[j] = links[i]
  BY <1>1
<1>2. ASSUME NEW a \in Actor, Delete(a)
      PROVE  \E i \in DOMAIN links : links'[j] = links[i]
  <2> DEFINE id == Head(act[a].todo)
  <2>1. CASE links' = links
    BY <2>1
  <2>2. CASE links' # links
    <3>1. links' = Drop(links, id) /\ Find(links, id) # None
      BY <1>2, <2>2 DEF Delete, Put, Of
    <3>2. PICK n \in DOMAIN links : links[n].id = id
      BY <3>1, Found
    <3>3. links \in Seq(Link) /\ Once(links)
      BY DEF DemoInv, Books
    <3> HIDE DEF id
    <3>4. Within(Drop(links, id), links)
      BY <3>2, <3>3, DropWithin
    <3>5. QED
      BY <3>1, <3>4 DEF Within
  <2>3. QED
    BY <2>1, <2>2
<1>3. ASSUME NEW a \in Actor, RequestStatement(a)
      PROVE  \/ \E i \in DOMAIN links : links'[j] = links[i]
             \/ \A i \in DOMAIN links : links[i].id # links'[j].id
  <2> DEFINE l == [id |-> Len(asked) + 1, case |-> act[a].case, at |-> act[a].moment,
                   statement |-> 0]
  <2>1. links \in Seq(Link) /\ \A i \in DOMAIN links : links[i].id \in 1 .. Len(asked)
    <3>1. /\ links \in Seq(Link) /\ asked \in Seq(Link)
          /\ \A i \in DOMAIN links : True(cases, asked, links[i])
      BY DEF DemoInv, Books
    <3>2. DOMAIN asked = 1 .. Len(asked)
      BY <3>1
    <3>3. QED
      BY <3>1, <3>2 DEF True
  <2>2. l.id = Len(asked) + 1 /\ Len(asked) \in Nat
    BY DEF DemoInv, Books
  <2>3. links' = Bounded(Append(links, l))
    BY <1>3 DEF RequestStatement
  <2> HIDE DEF l
  <2>4. links \in Seq(Link \cup {l}) /\ l \in Link \cup {l}
    BY <2>1
  <2>5. \A i \in DOMAIN links : links[i].id # l.id
    BY <2>1, <2>2
  <2> DEFINE longer == Append(links, l)
  <2>6. /\ longer \in Seq(Link \cup {l}) /\ Once(longer)
        /\ \A i \in DOMAIN longer : longer[i] = l \/ \E n \in DOMAIN links : longer[i] = links[n]
    <3>1. Once(links)
      BY DEF DemoInv, Books
    <3>2. QED
      BY <3>1, <2>4, <2>5, AppendedOnce
  <2> HIDE DEF longer
  <2>7. Within(Bounded(longer), longer)
    BY <2>6, BoundedOnce
  <2>8. links'[j] = l \/ \E i \in DOMAIN links : links'[j] = links[i]
    BY <2>3, <2>6, <2>7 DEF Within, longer
  <2>9. QED
    BY <2>5, <2>8
<1>4. ASSUME NEW a \in Actor, Attach(a)
      PROVE  \/ \E i \in DOMAIN links : links'[j] = links[i]
             \/ \A i \in DOMAIN links : links[i].id = links'[j].id => links[i].statement = 0
  <2> DEFINE h == act[a]
             x == Answered(h)
  <2>1. /\ Busy(a) /\ h.calls # << >> /\ Head(h.calls) = "attach"
        /\ links' = IF Find(links, h.arg) = None THEN Append(links, x)
                    ELSE [i \in DOMAIN links |-> IF links[i].id = h.arg THEN x ELSE links[i]]
    BY <1>4 DEF Attach, AtCall
  <2>2. h \in HandlerType /\ h.page = "statement" /\ h.calls \in Left["statement"]
    BY SMTT(40), <2>1, AtWork, WhichCall DEF HandlerOK, HandlerType
  <2>3. h.calls = <<"attach">>
    BY <2>1, <2>2, StatementCalls
  <2>4. /\ \A i \in DOMAIN links : links[i].id = h.arg => links[i].statement = 0
        /\ h.link # None /\ h.link.id = h.arg
    <3>1. StatementOK(h, entries, links, cases, asked)
      BY <2>1, <2>2, FormsAreOfTheLoop
    <3>2. QED
      BY <3>1, <2>3 DEF StatementOK
  <2>5. x.id = h.arg
    <3>1. h.link \in Link
      BY <2>2, <2>4 DEF HandlerType
    <3>2. QED
      BY <3>1, <2>4 DEF Answered, Link
  <2> HIDE DEF x
  <2>6. links'[j] = x \/ \E i \in DOMAIN links : links'[j] = links[i]
    <3>1. links \in Seq(Link)
      BY DEF DemoInv, Books
    <3>2. CASE Find(links, h.arg) = None
      BY <3>1, <3>2, <2>1
    <3>3. CASE Find(links, h.arg) # None
      BY <3>3, <2>1
    <3>4. QED
      BY <3>2, <3>3
  <2>7. QED
    BY <2>4, <2>5, <2>6
<1>5. ASSUME NEW a \in Actor, Step(a)
      PROVE  \/ links' = links \/ Delete(a) \/ RequestStatement(a) \/ Attach(a)
  BY <1>5 DEF Step, StartScan, Scan, EndSweep, Get, LinkByToken, LinkForCase, LookupRaises,
              IngestRefused, Ingest, PutEntry, NothingToRequest, RecordStatement, Respond
<1>6. \/ links' = links \/ links' = << >>
      \/ \E a \in Actor : Delete(a) \/ RequestStatement(a) \/ Attach(a)
  BY <1>5 DEF Next, Browse, Submit, Answer, Tick, Restart, vars
<1>7. QED
  BY <1>1, <1>2, <1>3, <1>4, <1>6

(* One request has at most one answer: a form sent twice or from two pages    *)
(* never replaces the statement a link names.                               *)
THEOREM OneAnswer == Spec => AnsweredOnce
<1>1. DemoInv /\ [Next]_vars =>
        [\A i \in DOMAIN links, j \in DOMAIN links' :
           links[i].id = links'[j].id /\ links[i].statement # 0
             => links'[j].statement = links[i].statement]_vars
  <2> SUFFICES ASSUME DemoInv, [Next]_vars, NEW i \in DOMAIN links, NEW j \in DOMAIN links',
                      links[i].id = links'[j].id, links[i].statement # 0
               PROVE  links'[j].statement = links[i].statement
    OBVIOUS
  <2>1. Once(links)
    BY DEF DemoInv, Books
  <2>2. QED
    BY <2>1, LinksCome DEF Once
<1>2. QED
  BY <1>1, Invariance, PTL DEF Spec, AnsweredOnce

-----------------------------------------------------------------------------
(* The forms. *)
(* A list of one list is that list.                                         *)
-----------------------------------------------------------------------------
(* The demo's forms.                                                         *)
Words == Seq(Int)
Boxes == [id : STRING, path : Seq(STRING), value : Words, kind : STRING, group : STRING,
          order : Int, control : STRING, options : Seq(Words)]
Typed(values) == \A id \in DOMAIN values : values[id] \in Words

(* A form as it is shipped: no box stands below another one's path.          *)
PathsAreApart(fields) ==
  \A i, j \in DOMAIN fields : IsPrefix(fields[i].path, fields[j].path) =>
                                fields[i].path = fields[j].path

(* Every box of a form holds a text.                                        *)
LEMMA BoxesHoldWords ==
  ASSUME NEW fields \in Seq(Boxes), NEW values, Typed(values)
  PROVE  /\ DOMAIN fields = 1..Len(fields) /\ Len(fields) \in Nat
         /\ \A i \in DOMAIN fields : /\ InBox(fields[i], values) \in Words
                                     /\ fields[i].order \in Int
<1>1. DOMAIN fields = 1..Len(fields) /\ Len(fields) \in Nat /\ \A i \in DOMAIN fields : fields[i] \in Boxes
  OBVIOUS
<1>2. \A i \in DOMAIN fields : fields[i].value \in Words /\ fields[i].order \in Int
  BY <1>1 DEF Boxes
<1>3. QED
  BY <1>1, <1>2 DEF InBox, Typed

(* Texts of boxes, put together, are a text (personas.py, join).            *)
LEMMA WordsAreSaid ==
  ASSUME NEW persona, NEW values, persona.fields \in Seq(Boxes), Typed(values),
         NEW m \in Nat, NEW boxes, DOMAIN boxes = 1..m,
         \A k \in 1..m : boxes[k] \in DOMAIN persona.fields
  PROVE  WordsOf(persona, values, boxes) \in Words
<1> DEFINE lists == [k \in 1..m |-> InBox(persona.fields[boxes[k]], values)]
<1>1. \A k \in 1..m : InBox(persona.fields[boxes[k]], values) \in Words
  BY BoxesHoldWords
<1> HIDE DEF Words
<1>2. lists \in Seq(Words)
  BY <1>1
<1>3. WordsOf(persona, values, boxes) = FlattenSeq(lists)
  BY DEF WordsOf
<1> HIDE DEF lists
<1>4. FlattenSeq(lists) \in Seq(Int)
  BY <1>2, FlattenedIsAList DEF Words
<1>5. QED
  BY <1>3, <1>4 DEF Words

(* The boxes of a path stand in one order, each once.                       *)
LEMMA JoinOrderIsOne ==
  ASSUME NEW persona, persona.fields \in Seq(Boxes), NEW boxes \in SUBSET DOMAIN persona.fields
  PROVE  LET at == InJoinOrder(persona, boxes)
             m == Cardinality(boxes)
         IN  /\ m \in Nat /\ DOMAIN at = 1..m
             /\ \A k \in 1..m : at[k] \in boxes
<1> DEFINE order(i) == persona.fields[i].order
           before == [i \in boxes |->
             {j \in boxes : order(j) < order(i) \/ (order(j) = order(i) /\ j < i)}]
           n == Len(persona.fields)
<1>1. n \in Nat /\ DOMAIN persona.fields = 1..n /\ \A i \in boxes : i \in Int /\ order(i) \in Int
  <2>1. \A i \in DOMAIN persona.fields : persona.fields[i] \in Boxes /\ i \in Int
    OBVIOUS
  <2>2. QED
    BY <2>1 DEF Boxes
<1> HIDE DEF order
<1>2. IsFiniteSet(boxes)
  <2>1. IsFiniteSet(1..n)
    BY <1>1, FS_Interval
  <2>2. boxes \subseteq 1..n
    BY <1>1
  <2>3. QED
    BY <2>1, <2>2, FS_Subset
<1>3. before \in [boxes -> SUBSET boxes]
  OBVIOUS
<1>4. \A e, f \in boxes : e \in before[f] <=> order(e) < order(f) \/ (order(e) = order(f) /\ e < f)
  OBVIOUS
<1> HIDE DEF before
<1>5. \A e \in boxes : e \notin before[e]
  BY <1>1, <1>4
<1>6. \A e, f \in boxes : e = f \/ e \in before[f] \/ f \in before[e]
  BY <1>1, <1>4
<1>7. \A e, f, g \in boxes : e \in before[f] /\ f \in before[g] => e \in before[g]
  BY <1>1, <1>4
<1>8. Ordering(boxes, before)
  BY <1>3, <1>5, <1>6, <1>7 DEF Ordering
<1>9. InJoinOrder(persona, boxes) = ByPlace(boxes, before)
  BY DEF InJoinOrder, before, order
<1>10. QED
  BY <1>2, <1>8, <1>9, EachHasItsPlace

(* A path says a text, and nothing when no box has it.                      *)
LEMMA JoinedAreWords ==
  ASSUME NEW persona, NEW values, persona.fields \in Seq(Boxes), Typed(values), NEW path
  PROVE  /\ JoinedAt(persona, values, path) \in Words
         /\ FieldsAt(persona, path) = {} => JoinedAt(persona, values, path) = Empty
<1> DEFINE boxes == FieldsAt(persona, path)
           at == InJoinOrder(persona, boxes)
           m == Cardinality(boxes)
<1>1. boxes \in SUBSET DOMAIN persona.fields
  BY DEF FieldsAt
<1>2. m \in Nat /\ DOMAIN at = 1..m /\ \A k \in 1..m : at[k] \in DOMAIN persona.fields
  <2> HIDE DEF boxes
  <2>1. m \in Nat /\ DOMAIN at = 1..m /\ \A k \in 1..m : at[k] \in boxes
    BY <1>1, JoinOrderIsOne
  <2>2. QED
    BY <1>1, <2>1
<1>3. JoinedAt(persona, values, path) = WordsOf(persona, values, at)
  BY DEF JoinedAt
<1>4. ASSUME boxes = {} PROVE JoinedAt(persona, values, path) = Empty
  <2>1. m = 0
    BY <1>4, FS_EmptySet
  <2>2. [k \in DOMAIN at |-> InBox(persona.fields[at[k]], values)] = << >>
    BY <1>2, <2>1
  <2>3. FlattenSeq(<< >>) = << >>
    BY DEF FlattenSeq
  <2>4. QED
    BY <1>3, <2>2, <2>3 DEF WordsOf, Empty
<1> HIDE DEF at, m
<1>5. WordsOf(persona, values, at) \in Words
  BY <1>2, WordsAreSaid
<1>6. QED
  BY <1>3, <1>4, <1>5

(* With one place for every box, the second join is the first one.           *)
LEMMA JoinsAgree ==
  ASSUME NEW persona, NEW values, persona.fields \in Seq(Boxes), Typed(values),
         PlacesAreDistinct(persona), NEW path
  PROVE  JoinedText(persona, values, path) = JoinedAt(persona, values, path)
<1> DEFINE boxes == FieldsAt(persona, path)
           order(i) == persona.fields[i].order
           text(i) == InBox(persona.fields[i], values)
           sooner(j, i) == Precedes(text(j), text(i)) \/ (text(j) = text(i) /\ j < i)
           before == [i \in boxes |->
             {j \in boxes : order(j) < order(i) \/ (order(j) = order(i) /\ j < i)}]
           before2 == [i \in boxes |->
             {j \in boxes : order(j) < order(i) \/ (order(j) = order(i) /\ sooner(j, i))}]
<1>1. \A i \in boxes : i \in DOMAIN persona.fields /\ persona.fields[i].path = path
  BY DEF FieldsAt
<1>2. \A i \in boxes : i \in Int /\ text(i) \in Words
  <2>1. /\ DOMAIN persona.fields = 1..Len(persona.fields)
        /\ \A i \in DOMAIN persona.fields : InBox(persona.fields[i], values) \in Words
    BY BoxesHoldWords
  <2> HIDE DEF boxes, Words
  <2>2. \A i \in DOMAIN persona.fields : i \in Int
    BY <2>1
  <2>3. QED
    BY <1>1, <2>1, <2>2
<1>3. \A i, j \in boxes : order(i) = order(j) => i = j
  BY <1>1 DEF PlacesAreDistinct
<1>4. \A t \in Words : ~ Precedes(t, t)
  <2> SUFFICES ASSUME NEW t \in Words, Precedes(t, t) PROVE FALSE
    OBVIOUS
  <2>1. PICK n \in 0 .. Min({Len(t), Len(t)}) :
          \/ n = Len(t) /\ n < Len(t)
          \/ n < Len(t) /\ n < Len(t) /\ t[n + 1] < t[n + 1]
    BY DEF Precedes
  <2>2. t \in Seq(Int) /\ Len(t) \in Nat
    BY DEF Words
  <2>3. Min({Len(t), Len(t)}) \in {Len(t), Len(t)}
    BY <2>2, MinOfTwo
  <2>4. n \in Nat /\ ~ (n = Len(t) /\ n < Len(t))
    BY <2>2, <2>3
  <2>5. n < Len(t) /\ t[n + 1] < t[n + 1]
    BY <2>1, <2>4
  <2>6. t[n + 1] \in Int
    BY <2>2, <2>4, <2>5
  <2>7. QED
    BY <2>5, <2>6
<1>5. JoinedText(persona, values, path) = WordsOf(persona, values, ByPlace(boxes, before2))
  BY DEF JoinedText
<1>6. JoinedAt(persona, values, path) = WordsOf(persona, values, ByPlace(boxes, before))
  BY DEF JoinedAt, InJoinOrder
<1> HIDE DEF boxes, order, text
<1>7. ASSUME NEW i \in boxes, NEW j \in boxes, order(j) = order(i)
      PROVE  ~ sooner(j, i) /\ ~ (j < i)
  <2>1. i = j
    BY <1>3, <1>7
  <2>2. QED
    BY <1>2, <1>4, <2>1
<1> HIDE DEF sooner
<1>8. before = before2
  BY <1>7
<1>9. QED
  BY <1>5, <1>6, <1>8

(* The data of a submission are the joined boxes, path by path, as far as    *)
(* they say something.                                                       *)
(* The paths a form fills.                                                  *)
PathsOf(persona) == {persona.fields[i].path : i \in DOMAIN persona.fields}

(* Each path is filled once, where the first box of it stands.              *)
LEMMA EachPathHasAFirstBox ==
  ASSUME NEW persona, persona.fields \in Seq(Boxes)
  PROVE  LET first == {i \in DOMAIN persona.fields :
                         \A j \in 1 .. i - 1 : persona.fields[j].path # persona.fields[i].path}
         IN  \A p \in PathsOf(persona) : \E i \in first : persona.fields[i].path = p
<1> SUFFICES ASSUME NEW p \in PathsOf(persona)
             PROVE  \E i \in DOMAIN persona.fields :
                      /\ persona.fields[i].path = p
                      /\ \A j \in 1 .. i - 1 : persona.fields[j].path # persona.fields[i].path
  OBVIOUS
<1> DEFINE T == {i \in DOMAIN persona.fields : persona.fields[i].path = p}
           n == Len(persona.fields)
<1>1. DOMAIN persona.fields = 1..n /\ n \in Nat
  OBVIOUS
<1>2. T \subseteq Nat /\ T # {}
  BY <1>1 DEF PathsOf
<1>3. PICK i \in T : \A k \in T : i <= k
  <2> HIDE DEF T
  <2>1. QED
    BY <1>2, LeastNumber
<1>4. i \in 1..n
  BY <1>1
<1>5. ASSUME NEW j \in 1 .. i - 1 PROVE persona.fields[j].path # p
  <2>1. j \in 1..n /\ j < i
    BY <1>1, <1>4
  <2>2. j \notin T
    BY <1>1, <1>3, <1>4, <2>1
  <2>3. QED
    BY <1>1, <2>1, <2>2
<1>6. QED
  BY <1>3, <1>5

(* The data of a form, path by path.                                        *)
AssignedSteps(persona, values, list) ==
  {r \in [0..Len(list) -> UNION {[D -> Words] : D \in SUBSET PathsOf(persona)}] :
     /\ r[0] = [p \in {} |-> Empty]
     /\ \A k \in 1..Len(list) :
          LET path == persona.fields[list[k]].path
              text == JoinedAt(persona, values, path)
          IN  r[k] = IF text = Empty THEN r[k-1] ELSE Assign(r[k-1], path, text)}

(* Filling a form goes through such steps.                                  *)
LEMMA AssigningSteps ==
  ASSUME NEW persona, NEW values, persona.fields \in Seq(Boxes), Typed(values)
  PROVE  LET first == {i \in DOMAIN persona.fields :
                         \A j \in 1 .. i - 1 : persona.fields[j].path # persona.fields[i].path}
             list == Those([i \in DOMAIN persona.fields |-> i], first)
         IN  \E r \in AssignedSteps(persona, values, list) : FormData(persona, values) = r[Len(list)]
<1> DEFINE first == {i \in DOMAIN persona.fields :
                       \A j \in 1 .. i - 1 : persona.fields[j].path # persona.fields[i].path}
           list == Those([i \in DOMAIN persona.fields |-> i], first)
           n == Len(list)
           A == UNION {[D -> Words] : D \in SUBSET PathsOf(persona)}
           next(data, i) ==
             LET path == persona.fields[i].path
                 text == JoinedAt(persona, values, path)
             IN  IF text = Empty THEN data ELSE Assign(data, path, text)
           g == [k \in 1..n |-> [a \in A |-> next(a, list[k])]]
           base == [p \in {} |-> Empty]
           Folds(h) == h = [s \in SUBSET DOMAIN list |->
                              IF s = {} THEN base ELSE next(h[s \ {Max(s)}], list[Max(s)])]
           it == CHOOSE h : Folds(h)
           r == [k \in 0..n |-> it[1..k]]
<1>1. n \in Nat /\ DOMAIN list = 1..n /\ \A k \in 1..n : list[k] \in DOMAIN persona.fields
  <2> DEFINE places == [i \in DOMAIN persona.fields |-> i]
  <2>1. places \in Seq(DOMAIN persona.fields)
    OBVIOUS
  <2> HIDE DEF places, first
  <2>2. Those(places, first) \in Seq(DOMAIN persona.fields)
    BY <2>1, ThoseAreKept DEF AreKept
  <2>3. QED
    BY SMTT(40), <2>2 DEF places
<1>2. FormData(persona, values) = it[DOMAIN list]
  BY Zenon DEF FormData, FoldLeft, MapThenFoldSet
<1>3. base \in A /\ \A k \in 1..n : \A a \in A : next(a, list[k]) \in A
  <2>1. base \in [{} -> Words] /\ {} \in SUBSET PathsOf(persona)
    OBVIOUS
  <2>2. base \in A
    BY ZenonT(40), <2>1
  <2> SUFFICES ASSUME NEW k \in 1..n, NEW a \in A PROVE next(a, list[k]) \in A
    BY ZenonT(40), <2>2
  <2> DEFINE path == persona.fields[list[k]].path
             text == JoinedAt(persona, values, path)
             kept == {p \in DOMAIN a : ~ IsPrefix(p, path) /\ ~ IsPrefix(path, p)}
  <2>3. path \in PathsOf(persona) /\ text \in Words
    BY <1>1, JoinedAreWords DEF PathsOf
  <2>4. PICK D \in SUBSET PathsOf(persona) : a \in [D -> Words]
    OBVIOUS
  <2> HIDE DEF text, path
  <2>5. kept \cup {path} \in SUBSET PathsOf(persona)
    BY <2>3, <2>4
  <2>6. Assign(a, path, text) \in [kept \cup {path} -> Words]
    BY <2>3, <2>4 DEF Assign
  <2>7. Assign(a, path, text) \in A
    BY <2>5, <2>6
  <2>8. QED
    BY <2>7 DEF text, path
<1> HIDE DEF A, n, next, list, base
<1>4. g \in [1..n -> [A -> A]]
  BY <1>3
<1>5. \A k \in 1..n : \A a \in A : g[k][a] = next(a, list[k])
  OBVIOUS
<1> HIDE DEF g
<1>6. \E h : Folds(h)
  <2>1. PICK h : h \in FoldOf(n, A, base, g)
    BY <1>1, <1>3, <1>4, FoldExists
  <2>2. /\ h = [s \in SUBSET (1..n) |-> h[s]]
        /\ h[{}] = base
        /\ \A s \in SUBSET (1..n) : s # {} =>
             /\ Max(s) \in 1..n /\ h[s \ {Max(s)}] \in A
             /\ h[s] = g[Max(s)][h[s \ {Max(s)}]]
    BY <1>1, <2>1, FoldOfStep
  <2>3. \A s \in SUBSET (1..n) :
          h[s] = IF s = {} THEN base ELSE next(h[s \ {Max(s)}], list[Max(s)])
    BY <1>5, <2>2
  <2>4. Folds(h)
    BY <1>1, <2>2, <2>3
  <2>5. QED
    BY <2>4
<1>7. Folds(it)
  BY <1>6, Zenon
<1> HIDE DEF it
<1>8. it[{}] = base
  BY <1>7
<1>9. ASSUME NEW k \in 1..n, it[1..(k-1)] \in A PROVE it[1..k] = g[k][it[1..(k-1)]]
  <2>1. 1..k \in SUBSET DOMAIN list /\ 1..k # {} /\ Max(1..k) = k /\ (1..k) \ {k} = 1..(k-1)
    BY <1>1, FirstPlaces
  <2>2. it[1..k] = next(it[(1..k) \ {Max(1..k)}], list[Max(1..k)])
    BY <1>7, <2>1
  <2>3. QED
    BY <1>5, <1>9, <2>1, <2>2
<1>10. r \in StepsOf(n, A, base, g)
  <2> HIDE DEF Folds
  <2>1. QED
    BY <1>1, <1>3, <1>4, <1>8, <1>9, FoldSteps
<1>11a. FormData(persona, values) = r[n]
  BY <1>1, <1>2
<1> HIDE DEF r
<1>11. r \in [0..n -> A] /\ r[0] = base /\ \A k \in 1..n : r[k-1] \in A /\ r[k] = g[k][r[k-1]]
  BY <1>1, <1>10 DEF StepsOf
<1>12. \A k \in 1..n : r[k] = next(r[k-1], list[k])
  BY <1>5, <1>11
<1>13. r \in AssignedSteps(persona, values, list)
  BY <1>11, <1>12 DEF next, base, n, A, AssignedSteps
<1>14. QED
  BY <1>11a, <1>13 DEF n, list

(* The data of a form: each path that says something, with what its boxes   *)
(* say together (personas.py, build_form_submission).                       *)
LEMMA TheDataOfAForm ==
  ASSUME NEW persona, NEW values, persona.fields \in Seq(Boxes), Typed(values),
         PathsAreApart(persona.fields)
  PROVE  LET said == {p \in PathsOf(persona) : JoinedAt(persona, values, p) # Empty}
         IN  FormData(persona, values) = [p \in said |-> JoinedAt(persona, values, p)]
<1> DEFINE fields == persona.fields
           first == {i \in DOMAIN fields : \A j \in 1 .. i - 1 : fields[j].path # fields[i].path}
           places == [i \in DOMAIN fields |-> i]
           list == Those(places, first)
           n == Len(list)
           J(p) == JoinedAt(persona, values, p)
           at(k) == fields[list[k]].path
           D(k) == {p \in PathsOf(persona) : J(p) # Empty /\ \E j \in 1..k : at(j) = p}
           Data(k) == [p \in D(k) |-> J(p)]
<1>1. /\ n \in Nat /\ \A k \in 1..n : list[k] \in DOMAIN fields
      /\ \A i \in first : \E k \in 1..n : list[k] = i
  <2>1. places \in Seq(DOMAIN fields) /\ \A i \in DOMAIN fields : i \in 1..Len(places) /\ places[i] = i
    OBVIOUS
  <2>2. first \subseteq DOMAIN fields
    OBVIOUS
  <2> HIDE DEF places, first
  <2>3. AreKept(Those(places, first), DOMAIN fields, places, first)
    BY <2>1, ThoseAreKept
  <2>4. list \in Seq(DOMAIN fields)
    BY <2>3 DEF AreKept
  <2>5. \A i \in 1..Len(places) : places[i] \in first => \E k \in 1..n : list[k] = places[i]
    BY <2>3 DEF AreKept
  <2> HIDE DEF list
  <2>6. n \in Nat /\ \A k \in 1..n : list[k] \in DOMAIN fields
    BY <2>4
  <2>7. \A i \in first : \E k \in 1..n : list[k] = i
    BY <2>1, <2>2, <2>5
  <2>8. QED
    BY <2>6, <2>7
<1>2. \A p \in PathsOf(persona) : \E i \in first : fields[i].path = p
  BY Zenon, EachPathHasAFirstBox
<1>3. PICK r \in AssignedSteps(persona, values, list) : FormData(persona, values) = r[n]
  BY AssigningSteps
<1>4. r[0] = [p \in {} |-> Empty]
  BY ZenonT(40), <1>3 DEF AssignedSteps
<1>5. \A k \in 1..n : r[k] = IF J(at(k)) = Empty THEN r[k-1] ELSE Assign(r[k-1], at(k), J(at(k)))
  BY <1>3 DEF AssignedSteps
<1> HIDE DEF list, first, J
<1>6. \A k \in 1..n : at(k) \in PathsOf(persona)
  BY <1>1 DEF PathsOf
<1>7. \A p, q \in PathsOf(persona) : p # q => ~ IsPrefix(p, q)
  BY DEF PathsOf, PathsAreApart
<1> DEFINE T == {k \in 0..n : r[k] = Data(k)}
<1>8. 0 \in T
  <2>1. D(0) = {}
    OBVIOUS
  <2>2. Data(0) = [p \in {} |-> Empty]
    BY <2>1
  <2> HIDE DEF Data
  <2>3. r[0] = Data(0) /\ 0 \in 0..n
    BY <1>1, <1>4, <2>2
  <2>4. QED
    BY <2>3
<1>9. ASSUME NEW k \in 1..n, k - 1 \in T PROVE k \in T
  <2>1. r[k-1] = Data(k-1) /\ k \in 0..n
    BY <1>1, <1>9
  <2>2. \A p : p \in D(k) <=> p \in D(k-1) \/ (p = at(k) /\ J(p) # Empty)
    <3>1. \A j : j \in 1..k <=> j \in 1..(k-1) \/ j = k
      BY <1>1
    <3> HIDE DEF at
    <3>2. QED
      BY <1>6, <3>1
  <2>3. CASE J(at(k)) = Empty
    <3>1. D(k) = D(k-1)
      <4> HIDE DEF D
      <4>1. \A p : p \in D(k) <=> p \in D(k-1)
        BY <2>2, <2>3
      <4>2. QED
        BY <4>1
    <3>2. r[k] = Data(k)
      BY <1>5, <2>1, <2>3, <3>1
    <3>3. QED
      BY <2>1, <3>2
  <2>4. CASE J(at(k)) # Empty
    <3> DEFINE before == Data(k-1)
               kept == {p \in DOMAIN before : ~ IsPrefix(p, at(k)) /\ ~ IsPrefix(at(k), p)}
    <3>1. r[k] = Assign(before, at(k), J(at(k)))
      BY <1>5, <2>1, <2>4
    <3>2. DOMAIN before = D(k-1) /\ \A p \in D(k-1) : before[p] = J(p) /\ p \in PathsOf(persona)
      OBVIOUS
    <3> HIDE DEF before, at
    <3>3. \A p : p \in kept \cup {at(k)} <=> p \in D(k)
      <4> HIDE DEF D
      <4>1. \A p : p \in kept <=> p \in D(k-1) /\ ~ IsPrefix(p, at(k)) /\ ~ IsPrefix(at(k), p)
        BY <3>2
      <4>2. \A p \in D(k-1) : p # at(k) => p \in kept
        BY <1>6, <1>7, <3>2, <4>1
      <4> HIDE DEF kept
      <4>3. QED
        BY <2>2, <2>4, <4>1, <4>2
    <3>4. Assign(before, at(k), J(at(k)))
            = [p \in kept \cup {at(k)} |-> IF p = at(k) THEN J(at(k)) ELSE before[p]]
      BY DEF Assign
    <3>5. \A p \in kept : before[p] = J(p)
      BY <3>2
    <3> HIDE DEF kept
    <3>6. kept \cup {at(k)} = D(k)
      <4> HIDE DEF D
      <4>1. QED
        BY <3>3
    <3>7. [p \in kept \cup {at(k)} |-> IF p = at(k) THEN J(at(k)) ELSE before[p]]
            = [p \in D(k) |-> J(p)]
      <4> HIDE DEF D
      <4>1. \A p \in D(k) : (IF p = at(k) THEN J(at(k)) ELSE before[p]) = J(p)
        BY <3>5, <3>6
      <4>2. QED
        BY <3>6, <4>1
    <3>8. r[k] = Data(k)
      BY <3>1, <3>4, <3>7
    <3>9. QED
      BY <2>1, <3>8
  <2>5. QED
    BY <2>3, <2>4
<1>10. r[n] = Data(n)
  <2> HIDE DEF T
  <2>1. \A k \in 0..n : k \in T
    BY <1>1, <1>8, <1>9, EveryPlace
  <2>2. n \in T
    BY <1>1, <2>1
  <2>3. QED
    BY <2>2 DEF T
<1>11. \A p \in PathsOf(persona) : \E j \in 1..n : at(j) = p
  BY <1>1, <1>2
<1>12. D(n) = {p \in PathsOf(persona) : J(p) # Empty}
  <2> HIDE DEF at
  <2>1. \A p : p \in D(n) <=> p \in PathsOf(persona) /\ J(p) # Empty
    BY <1>11
  <2> HIDE DEF D
  <2>2. QED
    BY <2>1
<1>13. Data(n) = [p \in {q \in PathsOf(persona) : J(q) # Empty} |-> J(p)]
  <2> HIDE DEF D
  <2>1. QED
    BY <1>12
<1> HIDE DEF D, Data
<1>14. QED
  BY <1>3, <1>10, <1>13 DEF J

(* The same, path by path: what is absent says nothing.                     *)
LEMMA TheDataIsJoined ==
  ASSUME NEW persona, NEW values, persona.fields \in Seq(Boxes), Typed(values),
         PathsAreApart(persona.fields), NEW path
  PROVE  LET data == FormData(persona, values)
         IN  (IF path \in DOMAIN data THEN data[path] ELSE Empty) = JoinedAt(persona, values, path)
<1> DEFINE J(p) == JoinedAt(persona, values, p)
           said == {p \in PathsOf(persona) : J(p) # Empty}
           data == FormData(persona, values)
<1>1. data = [p \in said |-> J(p)]
  BY TheDataOfAForm
<1>2. path \notin PathsOf(persona) => J(path) = Empty
  <2>1. path \notin PathsOf(persona) => FieldsAt(persona, path) = {}
    BY DEF PathsOf, FieldsAt
  <2>2. QED
    BY <2>1, JoinedAreWords
<1> HIDE DEF data, J
<1>3. QED
  BY <1>1, <1>2 DEF data, J

(* A page shows every box of the form once.                                  *)
OnThePage(rows) == UNION {Range(rows[k]) : k \in DOMAIN rows}

(* One more box in the last row.                                            *)
BesideTheLast(rows, v) == [rows EXCEPT ![Len(rows)] = Append(@, v)]

(* A box is shown in a row of its own or beside the last one, and nothing   *)
(* else is lost or added.                                                   *)
LEMMA ShownGrows ==
  ASSUME NEW V, NEW rows \in Seq(Seq(V)), NEW v \in V
  PROVE  /\ Append(rows, <<v>>) \in Seq(Seq(V)) /\ Len(Append(rows, <<v>>)) > 0
         /\ OnThePage(Append(rows, <<v>>)) = OnThePage(rows) \cup {v}
         /\ BesideTheLast(rows, v) \in Seq(Seq(V))
         /\ Len(rows) > 0 =>
              /\ Len(BesideTheLast(rows, v)) > 0
              /\ OnThePage(BesideTheLast(rows, v)) = OnThePage(rows) \cup {v}
<1> DEFINE n == Len(rows)
           more == Append(rows, <<v>>)
           last == Append(rows[n], v)
           longer == [rows EXCEPT ![n] = last]
<1>1. n \in Nat /\ DOMAIN rows = 1..n /\ \A k \in 1..n : rows[k] \in Seq(V)
  OBVIOUS
<1>2. \A x, rs : x \in OnThePage(rs) <=> \E k \in DOMAIN rs : \E j \in DOMAIN rs[k] : rs[k][j] = x
  BY DEF OnThePage, Range
<1>3. /\ more \in Seq(Seq(V)) /\ DOMAIN more = 1..(n+1) /\ Len(more) = n + 1
      /\ \A k \in 1..n : more[k] = rows[k]
      /\ more[n+1] = <<v>>
  <2>1. <<v>> \in Seq(V)
    OBVIOUS
  <2> DEFINE A == Seq(V)
  <2> HIDE DEF A
  <2>2. rows \in Seq(A) /\ <<v>> \in A
    BY <2>1 DEF A
  <2>3. QED
    BY <2>2, AppendedElements DEF A
<1>4. DOMAIN <<v>> = {1} /\ <<v>>[1] = v
  OBVIOUS
<1>5. \A k \in DOMAIN more : k \in DOMAIN rows \/ k = n + 1
  BY <1>1, <1>3
<1> HIDE DEF more
<1>6. OnThePage(more) = OnThePage(rows) \cup {v}
  <2>1. ASSUME NEW x \in OnThePage(more) PROVE x \in OnThePage(rows) \/ x = v
    <3>1. PICK k \in DOMAIN more : \E j \in DOMAIN more[k] : more[k][j] = x
      BY <1>2, <2>1
    <3>2. CASE k \in 1..n
      BY ZenonT(40), <1>1, <1>2, <1>3, <3>1, <3>2
    <3>3. CASE k = n + 1
      BY <1>3, <1>4, <3>1, <3>3
    <3>4. QED
      BY <1>1, <1>5, <3>2, <3>3
  <2>2. ASSUME NEW x \in OnThePage(rows) PROVE x \in OnThePage(more)
    <3>1. PICK k \in DOMAIN rows : \E j \in DOMAIN rows[k] : rows[k][j] = x
      BY <1>2, <2>2
    <3>2. k \in DOMAIN more /\ more[k] = rows[k]
      BY <1>1, <1>3
    <3>3. QED
      BY <1>2, <3>1, <3>2
  <2>3. v \in OnThePage(more)
    <3>1. n + 1 \in DOMAIN more /\ 1 \in DOMAIN more[n+1] /\ more[n+1][1] = v
      BY <1>1, <1>3, <1>4
    <3>2. QED
      BY <1>2, <3>1
  <2>4. QED
    BY <2>1, <2>2, <2>3
<1>7. longer \in Seq(Seq(V)) /\ DOMAIN longer = 1..n /\ Len(longer) = n
  <2>1. longer \in [1..n -> Seq(V)]
    <3>1. n \in 1..n => last \in Seq(V)
      BY <1>1
    <3>2. DOMAIN longer = 1..n /\ \A k \in 1..n : longer[k] = IF k = n THEN last ELSE rows[k]
      BY SMTT(40), <1>1
    <3> HIDE DEF longer, last
    <3>3. \A k \in 1..n : longer[k] \in Seq(V)
      BY <1>1, <3>1, <3>2
    <3>4. longer = [k \in 1..n |-> longer[k]]
      BY <3>2 DEF longer
    <3>5. QED
      BY <3>3, <3>4
  <2> DEFINE A == Seq(V)
  <2> HIDE DEF A, longer
  <2>2. longer \in Seq(A) /\ DOMAIN longer = 1..n /\ Len(longer) = n
    BY SMTT(40), <1>1, <2>1 DEF A
  <2>3. QED
    BY <2>2 DEF A
<1>8. ASSUME n > 0 PROVE OnThePage(longer) = OnThePage(rows) \cup {v}
  <2>1. n \in 1..n
    BY <1>1, <1>8
  <2>2. longer[n] = last /\ \A k \in 1..n : k # n => longer[k] = rows[k]
    BY <1>1, <2>1
  <2>3. /\ DOMAIN last = 1..(Len(rows[n]) + 1) /\ last[Len(rows[n]) + 1] = v
        /\ DOMAIN rows[n] = 1..Len(rows[n]) /\ Len(rows[n]) \in Nat
        /\ \A j \in 1..Len(rows[n]) : last[j] = rows[n][j]
    <3>1. rows[n] \in Seq(V)
      BY <1>1, <2>1
    <3>2. QED
      BY <3>1, AppendedElements
  <2> HIDE DEF last, longer
  <2>4. ASSUME NEW x \in OnThePage(longer) PROVE x \in OnThePage(rows) \/ x = v
    <3>1. PICK k \in DOMAIN longer : \E j \in DOMAIN longer[k] : longer[k][j] = x
      BY SMTT(40), <1>2, <2>4
    <3>2. CASE k # n
      BY ZenonT(40), <1>1, <1>2, <1>7, <2>2, <3>1, <3>2
    <3>3. CASE k = n
      <4>1. PICK j \in DOMAIN last : last[j] = x
        BY <2>2, <3>1, <3>3
      <4>2. CASE j \in 1..Len(rows[n])
        <5>1. j \in DOMAIN rows[n] /\ rows[n][j] = x
          BY <2>3, <4>1, <4>2
        <5>2. QED
          BY <1>1, <1>2, <2>1, <5>1
      <4>3. CASE j = Len(rows[n]) + 1
        BY <2>3, <4>1, <4>3
      <4>4. QED
        BY <2>3, <4>2, <4>3
    <3>4. QED
      BY <3>2, <3>3
  <2>5. ASSUME NEW x \in OnThePage(rows) PROVE x \in OnThePage(longer)
    <3>1. PICK k \in DOMAIN rows : \E j \in DOMAIN rows[k] : rows[k][j] = x
      BY <1>2, <2>5
    <3>2. PICK j \in DOMAIN rows[k] : rows[k][j] = x
      BY <3>1
    <3>3. k \in DOMAIN longer /\ j \in DOMAIN longer[k] /\ longer[k][j] = x
      <4>1. CASE k # n
        BY ZenonT(40), <1>1, <1>7, <2>2, <3>2, <4>1
      <4>2. CASE k = n
        <5>1. n \in DOMAIN longer /\ longer[n] = last
          BY <1>7, <2>1, <2>2
        <5>2. j \in DOMAIN last /\ last[j] = rows[n][j]
          BY <2>3, <3>2, <4>2
        <5>3. QED
          BY <3>2, <4>2, <5>1, <5>2
      <4>3. QED
        BY <4>1, <4>2
    <3>4. QED
      BY <1>2, <3>3
  <2>6. v \in OnThePage(longer)
    <3>1. n \in DOMAIN longer /\ longer[n] = last
      BY <1>7, <2>1, <2>2
    <3>2. Len(rows[n]) + 1 \in DOMAIN last /\ last[Len(rows[n]) + 1] = v
      BY <2>3
    <3>3. QED
      BY <1>2, <3>1, <3>2
  <2>7. QED
    BY <2>4, <2>5, <2>6
<1>9. longer = BesideTheLast(rows, v)
  BY DEF BesideTheLast
<1> HIDE DEF longer, last
<1>10. Len(more) > 0 /\ (n > 0 => Len(longer) > 0)
  BY <1>1, <1>3, <1>7
<1>11. more = Append(rows, <<v>>)
  BY DEF more
<1>12. QED
  BY <1>3, <1>6, <1>7, <1>8, <1>9, <1>10, <1>11

(* The boxes as a page shows them.                                          *)
View(persona, values, procedures, i) ==
  FieldView(persona.fields[i], InBox(persona.fields[i], values), procedures)

Views(persona, values, procedures) ==
  {View(persona, values, procedures, i) : i \in DOMAIN persona.fields}

(* Grouped into rows, every box is shown and nothing else (personas.py,     *)
(* grouped rows).                                                           *)
LEMMA EveryBoxIsShown ==
  ASSUME NEW persona, NEW values, NEW procedures, persona.fields \in Seq(Boxes)
  PROVE  LET rows == GroupedRows(persona.fields, values, procedures)
         IN  OnThePage(rows) = Views(persona, values, procedures)
<1> DEFINE fields == persona.fields
           list == [i \in DOMAIN fields |-> i]
           n == Len(fields)
           view(i) == FieldView(fields[i], InBox(fields[i], values), procedures)
           V == {view(i) : i \in 1..n}
           A == Seq(Seq(V))
           next(rows, i) ==
             IF i > 1 /\ fields[i].group # "" /\ fields[i].group = fields[i - 1].group
             THEN BesideTheLast(rows, view(i))
             ELSE Append(rows, <<view(i)>>)
           g == [k \in 1..n |-> [a \in A |-> next(a, list[k])]]
           base == << >>
           Folds(h) == h = [s \in SUBSET DOMAIN list |->
                              IF s = {} THEN base ELSE next(h[s \ {Max(s)}], list[Max(s)])]
           it == CHOOSE h : Folds(h)
           r == [k \in 0..n |-> it[1..k]]
<1>1. n \in Nat /\ DOMAIN list = 1..n /\ DOMAIN fields = 1..n /\ \A k \in 1..n : list[k] = k
  OBVIOUS
<1>2. GroupedRows(fields, values, procedures) = it[DOMAIN list]
  BY Zenon DEF GroupedRows, FoldLeft, MapThenFoldSet, BesideTheLast
<1>3. \A k \in 1..n : \A a \in A : next(a, k) \in A
  <2> SUFFICES ASSUME NEW k \in 1..n, NEW a \in A PROVE next(a, k) \in A
    OBVIOUS
  <2>1. view(k) \in V
    OBVIOUS
  <2> HIDE DEF V, view
  <2>2. Append(a, <<view(k)>>) \in A /\ BesideTheLast(a, view(k)) \in A
    BY <2>1, ShownGrows
  <2>3. QED
    BY <2>2
<1>4. base \in A
  OBVIOUS
<1>5. ASSUME NEW k \in 1..n, NEW a \in A, k > 1 => Len(a) > 0
      PROVE  Len(next(a, k)) > 0 /\ OnThePage(next(a, k)) = OnThePage(a) \cup {view(k)}
  <2>1. view(k) \in V
    OBVIOUS
  <2> HIDE DEF V, view
  <2> DEFINE more == Append(a, <<view(k)>>)
             longer == BesideTheLast(a, view(k))
  <2>2. /\ Len(more) > 0 /\ OnThePage(more) = OnThePage(a) \cup {view(k)}
        /\ Len(a) > 0 => Len(longer) > 0 /\ OnThePage(longer) = OnThePage(a) \cup {view(k)}
    BY <2>1, ShownGrows
  <2>3. next(a, k) = more \/ (k > 1 /\ next(a, k) = longer)
    OBVIOUS
  <2> HIDE DEF more, longer, next
  <2>4. QED
    BY <1>5, <2>2, <2>3
<1>6. \A k \in 1..n : \A a \in A : next(a, list[k]) \in A /\ next(a, list[k]) = next(a, k)
  <2> HIDE DEF A, next, n, list
  <2>1. QED
    BY <1>1, <1>3
<1> HIDE DEF A, n, next, list, base, V, view, fields
<1>7. g \in [1..n -> [A -> A]]
  BY <1>6
<1>8. \A k \in 1..n : \A a \in A : g[k][a] = next(a, list[k])
  OBVIOUS
<1> HIDE DEF g
<1>9. \E h : Folds(h)
  <2>1. PICK h : h \in FoldOf(n, A, base, g)
    BY <1>1, <1>4, <1>7, FoldExists
  <2>2. /\ h = [s \in SUBSET (1..n) |-> h[s]]
        /\ h[{}] = base
        /\ \A s \in SUBSET (1..n) : s # {} =>
             /\ Max(s) \in 1..n /\ h[s \ {Max(s)}] \in A
             /\ h[s] = g[Max(s)][h[s \ {Max(s)}]]
    <3>1. n \in Nat
      BY <1>1
    <3> HIDE DEF FoldOf
    <3>2. QED
      BY ZenonT(40), <3>1, <2>1, FoldOfStep
  <2>3. \A s \in SUBSET (1..n) :
          h[s] = IF s = {} THEN base ELSE next(h[s \ {Max(s)}], list[Max(s)])
    BY <1>8, <2>2
  <2>4. Folds(h)
    BY <1>1, <2>2, <2>3
  <2>5. QED
    BY <2>4
<1>10. Folds(it)
  BY <1>9, Zenon
<1> HIDE DEF it
<1>11. it[{}] = base
  BY <1>10
<1>12. ASSUME NEW k \in 1..n, it[1..(k-1)] \in A PROVE it[1..k] = g[k][it[1..(k-1)]]
  <2>1. 1..k \in SUBSET DOMAIN list /\ 1..k # {} /\ Max(1..k) = k /\ (1..k) \ {k} = 1..(k-1)
    BY <1>1, FirstPlaces
  <2>2. it[1..k] = next(it[(1..k) \ {Max(1..k)}], list[Max(1..k)])
    BY <1>10, <2>1
  <2>3. QED
    BY <1>8, <1>12, <2>1, <2>2
<1>13. r \in StepsOf(n, A, base, g)
  <2> HIDE DEF Folds
  <2>1. QED
    BY <1>1, <1>4, <1>7, <1>11, <1>12, FoldSteps
<1>14. GroupedRows(fields, values, procedures) = r[n]
  BY <1>1, <1>2
<1> HIDE DEF r
<1>15. r \in [0..n -> A] /\ r[0] = base /\ \A k \in 1..n : r[k-1] \in A /\ r[k] = g[k][r[k-1]]
  BY <1>1, <1>13 DEF StepsOf
<1>16. \A k \in 1..n : r[k] = next(r[k-1], k)
  BY <1>6, <1>8, <1>15
<1> DEFINE Inv(k) == /\ k > 0 => Len(r[k]) > 0
                     /\ OnThePage(r[k]) = {view(i) : i \in 1..k}
           T == {k \in 0..n : Inv(k)}
<1>17. 0 \in T
  <2>1. OnThePage(base) = {}
    BY DEF OnThePage, base
  <2>2. {view(i) : i \in 1..0} = {}
    OBVIOUS
  <2>3. Inv(0) /\ 0 \in 0..n
    BY <1>1, <1>15, <2>1, <2>2
  <2> HIDE DEF Inv
  <2>4. QED
    BY <2>3
<1>18. ASSUME NEW k \in 1..n, k - 1 \in T PROVE k \in T
  <2>1. k \in 0..n /\ k > 0 /\ (k > 1 => k - 1 > 0)
    BY <1>1
  <2>2. /\ k > 1 => Len(r[k-1]) > 0
        /\ OnThePage(r[k-1]) = {view(i) : i \in 1..(k-1)}
    BY <1>18, <2>1
  <2>3. Len(r[k]) > 0 /\ OnThePage(r[k]) = OnThePage(r[k-1]) \cup {view(k)}
    <3>1. r[k-1] \in A
      BY <1>15
    <3> DEFINE a == r[k-1]
    <3> HIDE DEF a
    <3>2. a \in A /\ (k > 1 => Len(a) > 0) /\ r[k] = next(a, k)
      BY <1>16, <2>2, <3>1 DEF a
    <3>3. QED
      BY <1>5, <3>2 DEF a
  <2>4. \A i : i \in 1..k <=> i \in 1..(k-1) \/ i = k
    BY <1>1
  <2>5. {view(i) : i \in 1..(k-1)} \cup {view(k)} = {view(i) : i \in 1..k}
    BY <2>4
  <2>6. Inv(k)
    BY <2>2, <2>3, <2>5
  <2> HIDE DEF Inv
  <2>7. QED
    BY <2>1, <2>6
<1>19. Inv(n)
  <2> HIDE DEF T
  <2>1. \A k \in 0..n : k \in T
    BY <1>1, <1>17, <1>18, EveryPlace
  <2>2. n \in T
    BY <1>1, <2>1
  <2> HIDE DEF Inv
  <2>3. QED
    BY <2>2 DEF T
<1>20. QED
  BY <1>1, <1>14, <1>19 DEF Views, View, view, fields

(* Choosing from a list of one.                                             *)
LEMMA AsideOfOne ==
  ASSUME NEW S, NEW e \in S, NEW these
  PROVE  Those(<<e>>, these) = IF e \in these THEN <<e>> ELSE << >>
<1> DEFINE list == <<e>>
<1>1. list \in Seq(S) /\ Len(list) = 1 /\ list[1] = e
  OBVIOUS
<1> HIDE DEF list
<1>2. PICK r : r \in KeepingSteps(S, list, these)
  BY <1>1, ThoseSteps
<1>3. /\ r[0] = << >>
      /\ \A k \in 1..1 : r[k] = IF list[k] \in these THEN Append(r[k-1], list[k]) ELSE r[k-1]
      /\ Those(list, these) = r[1]
  BY <1>1, <1>2 DEF KeepingSteps
<1>4. 1 \in 1..1 /\ 1 - 1 = 0
  OBVIOUS
<1>5. r[1] = IF e \in these THEN Append(<< >>, e) ELSE << >>
  BY <1>1, <1>3, <1>4
<1>6. Append(<< >>, e) = <<e>>
  OBVIOUS
<1>7. QED
  BY <1>3, <1>5, <1>6 DEF list

(* A box with its path to itself says at it what stands in it.               *)
AloneAt(fields, i) == \A j \in DOMAIN fields : fields[j].path = fields[i].path => j = i

(* A path of one box says what stands in it.                                *)
LEMMA OneBoxSaysIt ==
  ASSUME NEW persona, NEW values, persona.fields \in Seq(Boxes), Typed(values),
         NEW i \in DOMAIN persona.fields, AloneAt(persona.fields, i),
         NEW path, persona.fields[i].path = path
  PROVE  JoinedAt(persona, values, path) = InBox(persona.fields[i], values)
<1> DEFINE boxes == FieldsAt(persona, path)
           at == InJoinOrder(persona, boxes)
           text == InBox(persona.fields[i], values)
<1>1. boxes = {i}
  BY DEF FieldsAt, AloneAt
<1>2. boxes \in SUBSET DOMAIN persona.fields /\ Cardinality(boxes) = 1
  <2>1. Cardinality({i}) = 1
    BY FS_Singleton
  <2> HIDE DEF boxes
  <2>2. QED
    BY <1>1, <2>1
<1>3. DOMAIN at = 1..1 /\ \A k \in 1..1 : at[k] \in boxes
  <2> HIDE DEF boxes
  <2>1. QED
    BY <1>2, JoinOrderIsOne
<1>4. JoinedAt(persona, values, path) = WordsOf(persona, values, at)
  BY DEF JoinedAt
<1> HIDE DEF at
<1>5. [k \in DOMAIN at |-> InBox(persona.fields[at[k]], values)] = <<text>>
  <2>1. at[1] = i
    BY <1>1, <1>3
  <2> HIDE DEF text
  <2> DEFINE told(k) == InBox(persona.fields[at[k]], values)
  <2>2. told(1) = text
    BY <2>1 DEF text
  <2> HIDE DEF told
  <2>3. [k \in 1..1 |-> told(k)] = <<told(1)>>
    OBVIOUS
  <2>4. [k \in DOMAIN at |-> told(k)] = <<text>>
    BY <1>3, <2>2, <2>3
  <2>5. QED
    BY <2>4 DEF told
<1>6. text \in Seq(Int)
  BY BoxesHoldWords DEF Words
<1>7. QED
  BY <1>4, <1>5, <1>6, OneAlone DEF WordsOf

(* The lists a procedure offers.                                             *)
Offered(procedures) ==
  /\ procedures \in Seq(Range(procedures))
  /\ \A i \in DOMAIN procedures : \A p \in DOMAIN procedures[i] : procedures[i][p] \in Seq(Words)

(* A vocabulary is a list of texts.                                         *)
LEMMA ListsAreOffered ==
  ASSUME NEW procedures, Offered(procedures), NEW path
  PROVE  Vocabulary(procedures, path) \in Seq(Words)
<1> DEFINE saying == {i \in DOMAIN procedures : path \in DOMAIN procedures[i] /\ procedures[i][path] # << >>}
<1>1. CASE saying = {}
  <2>1. Vocabulary(procedures, path) = << >>
    BY <1>1 DEF Vocabulary
  <2>2. QED
    BY <2>1
<1>2. CASE saying # {}
  <2>1. Vocabulary(procedures, path) = procedures[Min(saying)][path]
    BY <1>2 DEF Vocabulary
  <2>2. saying \subseteq Nat
    BY DEF Offered
  <2> HIDE DEF saying
  <2>3. Min(saying) \in saying
    BY <1>2, <2>2, MinIsLeast
  <2>4. QED
    BY <2>1, <2>3 DEF saying, Offered
<1>3. QED
  BY <1>1, <1>2

(* What the page shows of a box: its name, what stands in it, and a list only *)
(* for a box that is one.                                                    *)
LEMMA ABoxIsShownAsItIs ==
  ASSUME NEW field \in Boxes, NEW value \in Words, NEW procedures, Offered(procedures)
  PROVE  LET v == FieldView(field, value, procedures)
         IN  /\ v.id = field.id /\ v.value = value
             /\ field.control # "select" => v.control # "select"
             /\ v.control = "select" => v.choices[1] \in Words
             /\ v.control = "select" /\ value # Empty => value \in Range(v.choices)
<1> DEFINE known == IF field.control # "select" THEN << >>
                    ELSE IF field.options # << >> THEN field.options
                    ELSE Vocabulary(procedures, field.path)
           choices == IF known # << >> /\ value # Empty /\ value \notin Range(known)
                      THEN <<value>> \o known ELSE known
           v == [id |-> field.id, value |-> value, choices |-> choices,
                 control |-> IF field.control = "select" /\ choices = << >> THEN "text"
                             ELSE field.control]
<1>1. FieldView(field, value, procedures) = v
  BY Zenon DEF FieldView
<1>c. choices = IF known # << >> /\ value # Empty /\ value \notin Range(known)
                THEN <<value>> \o known ELSE known
  OBVIOUS
<1>2. known \in Seq(Words)
  <2>1. field.options \in Seq(Words)
    BY DEF Boxes
  <2>2. Vocabulary(procedures, field.path) \in Seq(Words)
    BY ListsAreOffered
  <2> HIDE DEF Words
  <2>3. << >> \in Seq(Words)
    OBVIOUS
  <2>4. QED
    BY <2>1, <2>2, <2>3
<1> HIDE DEF known
<1>3. choices \in Seq(Words)
  <2> HIDE DEF Words
  <2>1. <<value>> \o known \in Seq(Words)
    BY <1>2
  <2>2. QED
    BY <1>2, <2>1
<1> HIDE DEF choices
<1>4. choices # << >> => choices[1] \in Words
  <2> HIDE DEF Words
  <2>1. QED
    BY <1>3
<1>s. choices # << >> /\ value # Empty => value \in Range(choices)
  <2> HIDE DEF Words
  <2> DEFINE longer == <<value>> \o known
  <2>1. longer \in Seq(Words) /\ 1 \in DOMAIN longer /\ longer[1] = value
    BY <1>2
  <2> HIDE DEF longer
  <2>2. value \in Range(longer)
    BY <2>1 DEF Range
  <2>3. QED
    BY <1>c, <2>2 DEF longer
<1>5. v.id = field.id /\ v.value = value /\ v.choices = choices
      /\ v.control = IF field.control = "select" /\ choices = << >> THEN "text" ELSE field.control
  OBVIOUS
<1> HIDE DEF v, Words
<1>6. QED
  BY <1>1, <1>4, <1>5, <1>s

(* A form that is sent as it is shown: every box sends what stands in it, but *)
(* for a list in which nothing is chosen; every ticked document is ticked.   *)
NamesAreApart(form) ==
  /\ \A i, j \in DOMAIN form.fields : form.fields[i].id = form.fields[j].id => i = j
  /\ \A i \in DOMAIN form.fields : form.fields[i].id \notin form.attachments

(* A page sent as it is shown sends every text that it shows.               *)
LEMMA SentAsItIsShown ==
  ASSUME NEW form, NEW values, NEW procedures, form.fields \in Seq(Boxes),
         Typed(values), Offered(procedures), NamesAreApart(form)
  PROVE  LET sent == PostedUnchanged(IntakeView(form, values, procedures))
             text(i) == InBox(form.fields[i], values)
         IN  /\ Typed(sent)
             /\ \A i \in DOMAIN form.fields :
                  /\ form.fields[i].id \in DOMAIN sent
                  /\ form.fields[i].control # "select" \/ text(i) # Empty
                       => sent[form.fields[i].id] = text(i)
             /\ \A a \in form.attachments :
                  /\ a \in DOMAIN sent <=> a \in SelectedAttachments(form, values)
                  /\ a \in DOMAIN sent => sent[a] # Empty
<1> DEFINE fields == form.fields
           opened == IntakeView(form, values, procedures)
           sent == PostedUnchanged(opened)
           rows == GroupedRows(fields, values, procedures)
           ticked == SelectedAttachments(form, values)
           shown == OnThePage(opened.rows)
           view(i) == View(form, values, procedures, i)
           text(i) == InBox(fields[i], values)
           sends(v) == IF v.control = "select" /\ v.value \notin Range(v.choices)
                       THEN v.choices[1] ELSE v.value
           them == {v.id : v \in shown}
           sentBy(id) == sends(CHOOSE v \in shown : v.id = id)
<1>1. opened.rows = rows /\ opened.ticked = ticked
  <2> DEFINE page == [rows |-> rows, ticked |-> ticked]
  <2>1. opened = page
    BY Zenon DEF IntakeView
  <2> HIDE DEF rows, ticked
  <2>2. page.rows = rows /\ page.ticked = ticked
    OBVIOUS
  <2> HIDE DEF page, opened
  <2>3. QED
    BY <2>1, <2>2
<1>2. sent = [id \in them \cup ticked |-> IF id \in ticked THEN <<1>> ELSE sentBy(id)]
  <2>1. sent = [id \in them \cup opened.ticked |-> IF id \in opened.ticked THEN <<1>> ELSE sentBy(id)]
    BY ZenonT(40) DEF PostedUnchanged, OnThePage
  <2> HIDE DEF sent, sentBy, them, ticked
  <2>2. QED
    BY <1>1, <2>1
<1>3. shown = {view(i) : i \in DOMAIN fields}
  <2>1. OnThePage(rows) = Views(form, values, procedures)
    BY EveryBoxIsShown
  <2>2. shown = OnThePage(rows)
    BY Zenon, <1>1
  <2> HIDE DEF shown, rows
  <2>3. QED
    BY <2>1, <2>2 DEF Views
<1>4. ASSUME NEW i \in DOMAIN fields
      PROVE  LET v == view(i)
             IN  /\ v.id = fields[i].id /\ v.value = text(i) /\ text(i) \in Words
                 /\ fields[i].control # "select" => v.control # "select"
                 /\ v.control = "select" => v.choices[1] \in Words
                 /\ v.control = "select" /\ text(i) # Empty => text(i) \in Range(v.choices)
  <2>1. fields[i] \in Boxes
    OBVIOUS
  <2>2. text(i) \in Words
    BY BoxesHoldWords
  <2>3. view(i) = FieldView(fields[i], text(i), procedures)
    BY DEF View
  <2> HIDE DEF view, fields, text
  <2>4. QED
    BY <2>1, <2>2, <2>3, ABoxIsShownAsItIs
<1> HIDE DEF opened, rows, shown, view, text
<1>5. ASSUME NEW i \in DOMAIN fields
      PROVE  fields[i].id \in them /\ sentBy(fields[i].id) = sends(view(i))
  <2>1. view(i) \in shown /\ view(i).id = fields[i].id
    BY <1>3, <1>4
  <2>2. \A v \in shown : v.id = fields[i].id => v = view(i)
    BY <1>3, <1>4 DEF NamesAreApart
  <2> DEFINE id == fields[i].id
             one == CHOOSE v \in shown : v.id = id
  <2>3. one = view(i)
    BY <2>1, <2>2
  <2> HIDE DEF one, sends
  <2>4. id \in them
    BY <2>1
  <2>5. sentBy(id) = sends(one)
    BY DEF one
  <2>6. QED
    BY <2>3, <2>4, <2>5
<1>6. \A id \in them : \E i \in DOMAIN fields : id = fields[i].id
  BY <1>3, <1>4
<1>7. ASSUME NEW i \in DOMAIN fields
      PROVE  /\ sends(view(i)) \in Words
             /\ fields[i].control # "select" \/ text(i) # Empty => sends(view(i)) = text(i)
  BY <1>4
<1>8. ticked \subseteq form.attachments
  BY DEF SelectedAttachments
<1> HIDE DEF sends, sentBy, them, sent, ticked
<1>9. \A i \in DOMAIN fields : fields[i].id \notin ticked
  BY <1>8 DEF NamesAreApart
<1>10. ASSUME NEW i \in DOMAIN fields
       PROVE  fields[i].id \in DOMAIN sent /\ sent[fields[i].id] = sends(view(i))
  BY <1>2, <1>5, <1>9
<1>11. \A a \in ticked : a \in DOMAIN sent /\ sent[a] = <<1>>
  BY <1>2
<1>12. \A id \in DOMAIN sent : id \in ticked \/ id \in them
  BY <1>2
<1>13. <<1>> \in Words /\ <<1>> # Empty
  BY DEF Words, Empty
<1>14. Typed(sent)
  <2> HIDE DEF Words
  <2>1. QED
    BY <1>6, <1>7, <1>10, <1>11, <1>12, <1>13 DEF Typed
<1>15. ASSUME NEW a \in form.attachments
       PROVE  (a \in DOMAIN sent <=> a \in ticked) /\ (a \in DOMAIN sent => sent[a] # Empty)
  <2>1. a \notin them
    BY <1>6 DEF NamesAreApart
  <2>2. QED
    BY <1>11, <1>12, <1>13, <2>1
<1>16. QED
  BY <1>7, <1>10, <1>14, <1>15 DEF sent, opened, text, ticked

(* The counterparty's form: the boxes that are carried into are there, each   *)
(* alone at its path, and none of them is a list (gegenpartei.py).           *)
CarriedInto(own, id, path) ==
  \E i \in DOMAIN own :
    own[i].id = id /\ own[i].path = path /\ own[i].control # "select" /\ AloneAt(own, i)

(* A form of the counterparty: the four texts of an application have a box  *)
(* each, with a path of its own (gegenpartei.py).                           *)
PartyForm(own) ==
  /\ own \in Seq(Boxes) /\ PathsAreApart(own)
  /\ \A i, j \in DOMAIN own : own[i].id = own[j].id => i = j
  /\ CarriedInto(own, "firmenname", Auftraggeber)
  /\ CarriedInto(own, "taetigkeit_bezeichnung", Taetigkeit)
  /\ CarriedInto(own, "taetigkeit_beginn", Beginn)
  /\ CarriedInto(own, "antragsart", Antragsart)

(* What a link of a hearing carries.                                        *)
Links == [auftraggeber : Words, applicant : Words, taetigkeit : Words, beginn : Words,
          antragsart : Words]

(* A form that has these boxes, whatever stands in them.                     *)
HasTheBoxes(form, own) ==
  /\ form.fields \in Seq(Boxes) /\ form.attachments = {}
  /\ DOMAIN form.fields = DOMAIN own
  /\ \A i \in DOMAIN own : /\ form.fields[i].id = own[i].id
                           /\ form.fields[i].path = own[i].path
                           /\ form.fields[i].control = own[i].control

(* The four boxes of a statement hold what the link carries.                *)
LEMMA FourAreCarried ==
  ASSUME NEW link \in Links, NEW own, PartyForm(own)
  PROVE  LET form == StatementForm(link, own)
         IN  /\ HasTheBoxes(form, own)
             /\ \A i \in DOMAIN own :
                  LET box == form.fields[i]
                  IN  /\ own[i].id = "firmenname" => box.value = link.auftraggeber
                      /\ own[i].id = "taetigkeit_beginn" => box.value = link.beginn
                      /\ own[i].id = "antragsart" => box.value = link.antragsart
                      /\ own[i].id = "taetigkeit_bezeichnung" => box.value = link.taetigkeit
<1> DEFINE carried == [firmenname |-> link.auftraggeber, taetigkeit_beginn |-> link.beginn,
                       antragsart |-> link.antragsart,
                       taetigkeit_bezeichnung |-> link.taetigkeit]
           box(i) == IF own[i].id \in DOMAIN carried
                     THEN [own[i] EXCEPT !.value = carried[own[i].id]] ELSE own[i]
           fields == [i \in DOMAIN own |-> box(i)]
           form == [fields |-> fields, attachments |-> {}, hint |-> Statusfeststellung]
<1>1. StatementForm(link, own) = form
  BY Zenon DEF StatementForm
<1>2. form.fields = fields /\ form.attachments = {}
  OBVIOUS
<1>3. /\ \A id \in DOMAIN carried : carried[id] \in Words
      /\ "firmenname" \in DOMAIN carried /\ carried["firmenname"] = link.auftraggeber
      /\ "taetigkeit_beginn" \in DOMAIN carried /\ carried["taetigkeit_beginn"] = link.beginn
      /\ "antragsart" \in DOMAIN carried /\ carried["antragsart"] = link.antragsart
      /\ "taetigkeit_bezeichnung" \in DOMAIN carried
      /\ carried["taetigkeit_bezeichnung"] = link.taetigkeit
  <2>1. /\ link.auftraggeber \in Words /\ link.beginn \in Words
        /\ link.antragsart \in Words /\ link.taetigkeit \in Words
    <3> HIDE DEF Words
    <3>1. QED
      BY DEF Links
  <2> HIDE DEF Words
  <2>2. QED
    BY <2>1
<1>4. \A i \in DOMAIN own : own[i] \in Boxes
  BY DEF PartyForm
<1> HIDE DEF carried, form
<1>5. ASSUME NEW i \in DOMAIN own
      PROVE  /\ box(i) \in Boxes
             /\ box(i).id = own[i].id /\ box(i).path = own[i].path
             /\ box(i).control = own[i].control
             /\ own[i].id \in DOMAIN carried => box(i).value = carried[own[i].id]
  <2> DEFINE b == own[i]
             text == carried[b.id]
             filled == [b EXCEPT !.value = text]
  <2>1. b \in Boxes
    BY <1>4
  <2>2. b.id \in DOMAIN carried => text \in Words
    BY <1>3
  <2>3. box(i) = IF b.id \in DOMAIN carried THEN filled ELSE b
    OBVIOUS
  <2> HIDE DEF b, text, Words, box
  <2>4. ASSUME text \in Words
        PROVE  /\ filled \in Boxes /\ filled.value = text
               /\ filled.id = b.id /\ filled.path = b.path /\ filled.control = b.control
    BY <2>1, <2>4 DEF Boxes
  <2> HIDE DEF filled
  <2>5. /\ box(i) \in Boxes /\ box(i).id = b.id /\ box(i).path = b.path
        /\ box(i).control = b.control /\ (b.id \in DOMAIN carried => box(i).value = text)
    BY <2>1, <2>2, <2>3, <2>4
  <2>6. QED
    BY <2>5 DEF b, text
<1>6. fields \in Seq(Boxes)
  <2>1. DOMAIN own = 1..Len(own) /\ Len(own) \in Nat
    BY DEF PartyForm
  <2> HIDE DEF box, Boxes
  <2>2. QED
    BY <1>5, <2>1
<1>7. \A i \in DOMAIN own : fields[i] = box(i)
  OBVIOUS
<1>8. DOMAIN fields = DOMAIN own
  OBVIOUS
<1> HIDE DEF fields, box
<1>9. QED
  BY <1>1, <1>2, <1>3, <1>5, <1>6, <1>7, <1>8 DEF HasTheBoxes

(* What the form carries is what the reply says at its path.                 *)
LEMMA TheReplyCarries ==
  ASSUME NEW form, NEW own, NEW procedures, PartyForm(own), Offered(procedures),
         HasTheBoxes(form, own), NEW id, NEW path, CarriedInto(own, id, path)
  PROVE  LET sent == PostedUnchanged(IntakeView(form, << >>, procedures))
             reply == BuildStatementSubmission(form, sent, Empty)
         IN  /\ id \in DOMAIN sent /\ sent[id] \in Words
             /\ At(reply, path) = sent[id]
             /\ \E i \in DOMAIN own : own[i].id = id /\ sent[id] = form.fields[i].value
<1> DEFINE fields == form.fields
           sent == PostedUnchanged(IntakeView(form, << >>, procedures))
           reply == BuildStatementSubmission(form, sent, Empty)
<1>1. PICK i \in DOMAIN own :
        own[i].id = id /\ own[i].path = path /\ own[i].control # "select" /\ AloneAt(own, i)
  BY DEF CarriedInto
<1>2. i \in DOMAIN fields /\ fields[i].id = id /\ fields[i].path = path /\ fields[i].control # "select"
  BY <1>1 DEF HasTheBoxes
<1>h. fields \in Seq(Boxes) /\ form.attachments = {}
  BY DEF HasTheBoxes
<1>3. AloneAt(fields, i) /\ PathsAreApart(fields)
  <2>1. AloneAt(fields, i)
    BY <1>1 DEF AloneAt, HasTheBoxes
  <2>2. PathsAreApart(fields)
    BY DEF PathsAreApart, PartyForm, HasTheBoxes
  <2>3. QED
    BY <2>1, <2>2
<1>4. \A j, k \in DOMAIN fields : fields[j].id = fields[k].id => j = k
  BY DEF PartyForm, HasTheBoxes
<1>5. Typed(sent) /\ id \in DOMAIN sent /\ sent[id] = fields[i].value
  <2> HIDE DEF sent
  <2>1. /\ Typed(sent)
        /\ \A j \in DOMAIN fields :
             /\ fields[j].id \in DOMAIN sent
             /\ fields[j].control # "select" => sent[fields[j].id] = InBox(fields[j], << >>)
    BY <1>h, <1>4, SentAsItIsShown DEF sent, NamesAreApart, Typed
  <2>2. InBox(fields[i], << >>) = fields[i].value
    BY DEF InBox
  <2>3. QED
    BY <1>2, <2>1, <2>2
<1> HIDE DEF sent
<1>6. JoinedAt(form, sent, path) = InBox(fields[i], sent)
  BY <1>2, <1>3, <1>5, <1>h, OneBoxSaysIt
<1>7. InBox(fields[i], sent) = sent[id]
  BY <1>2, <1>5 DEF InBox
<1>8. At(reply, path) = JoinedAt(form, sent, path)
  <2> DEFINE built == BuildFormSubmission(form, sent)
             data == FormData(form, sent)
  <2>1. reply.data = built.data
    <3>1. reply = [built EXCEPT !.body = Empty]
      BY Zenon DEF BuildStatementSubmission
    <3> HIDE DEF built, reply
    <3>2. QED
      BY <3>1
  <2>2. built.data = data
    BY DEF BuildFormSubmission
  <2>3. (IF path \in DOMAIN data THEN data[path] ELSE Empty) = JoinedAt(form, sent, path)
    <3> HIDE DEF data
    <3>1. QED
      BY <1>3, <1>5, <1>h, TheDataIsJoined DEF data
  <2> HIDE DEF data, built, reply
  <2>4. QED
    BY <2>1, <2>2, <2>3 DEF At
<1>9. sent[id] \in Words
  BY <1>5 DEF Typed
<1> HIDE DEF reply
<1>10. QED
  BY <1>1, <1>5, <1>6, <1>7, <1>8, <1>9 DEF sent, reply, fields

(* A hearing of a form.                                                      *)
FormQuestions ==
  Asked("form") =>
    /\ question.persona.fields \in Seq(Boxes) /\ PathsAreApart(question.persona.fields)
    /\ Typed(question.values) /\ Offered(question.procedures) /\ PartyForm(question.party)

(* What the hearing joins is what the submission says.                      *)
LEMMA JoinedIsSaid ==
  ASSUME NEW persona, NEW values, persona.fields \in Seq(Boxes), Typed(values),
         PathsAreApart(persona.fields), PlacesAreDistinct(persona), NEW path
  PROVE  /\ At(BuildFormSubmission(persona, values), path) = JoinedText(persona, values, path)
         /\ JoinedText(persona, values, path) \in Words
<1> DEFINE data == FormData(persona, values)
           built == BuildFormSubmission(persona, values)
<1>1. built.data = data
  BY DEF BuildFormSubmission
<1> HIDE DEF data, built
<1>2. (IF path \in DOMAIN data THEN data[path] ELSE Empty) = JoinedAt(persona, values, path)
  BY TheDataIsJoined DEF data
<1>3. At(built, path) = JoinedAt(persona, values, path)
  BY <1>1, <1>2 DEF At
<1>4. QED
  BY <1>3, JoinsAgree, JoinedAreWords DEF built

(* The hearing reads the submission.                                        *)
LEMMA HearingsRead == FormQuestions => TheHearingReadsTheSubmission
<1> SUFFICES ASSUME FormQuestions, Asked("form"), PlacesAreDistinct(question.persona)
             PROVE  TheHearingReadsTheSubmission
  BY Zenon DEF TheHearingReadsTheSubmission
<1> DEFINE persona == question.persona
           values == question.values
           own == question.party
           procedures == question.procedures
           link == StatementRequest(persona, values, question.procedure)
           statement == StatementForm(link, own)
           posted == PostedUnchanged(IntakeView(statement, << >>, procedures))
           reply == BuildStatementSubmission(statement, posted, Empty)
           said(path) == At(Submitted, path)
           text(path) == JoinedText(persona, values, path)
           answers == StatementAnswers(<<"taetigkeit_beginn">>, posted)
<1>1. /\ persona.fields \in Seq(Boxes) /\ PathsAreApart(persona.fields)
      /\ Typed(values) /\ Offered(procedures) /\ PartyForm(own)
  BY DEF FormQuestions
<1>2. \A path : said(path) = text(path) /\ text(path) \in Words
  BY <1>1, JoinedIsSaid DEF Submitted
<1> SUFFICES ASSUME link # NoLink
             PROVE  /\ RequestLetter(link)["auftraggeber"]
                         = IF said(Auftraggeber) = Empty THEN Unstated ELSE said(Auftraggeber)
                    /\ RequestLetter(link)["applicant"]
                         = IF said(Applicant) = Empty THEN Unstated ELSE said(Applicant)
                    /\ RequestLetter(link)["taetigkeit"]
                         = IF said(Taetigkeit) = Empty THEN Unstated ELSE said(Taetigkeit)
                    /\ RequestLetter(link)["beginn"]
                         = IF said(Beginn) = Empty THEN Unstated ELSE said(Beginn)
                    /\ RequestLetter(link)["antragsart"]
                         = IF said(Antragsart) = Empty THEN Unstated ELSE said(Antragsart)
                    /\ At(reply, Auftraggeber) = said(Auftraggeber)
                    /\ At(reply, Taetigkeit) = said(Taetigkeit)
                    /\ At(reply, Beginn) = said(Beginn)
                    /\ At(reply, Antragsart) = said(Antragsart)
                    /\ answers = IF At(reply, Beginn) = Empty THEN << >>
                                 ELSE <<[field |-> "taetigkeit_beginn", value |-> At(reply, Beginn)]>>
  BY ZenonT(40) DEF TheHearingReadsTheSubmission
<1> HIDE DEF said, text
<1>3. link = [auftraggeber |-> text(Auftraggeber), applicant |-> text(Applicant),
              taetigkeit |-> text(Taetigkeit), beginn |-> text(Beginn),
              antragsart |-> text(Antragsart)]
  BY ZenonT(40) DEF StatementRequest, text
<1> HIDE DEF link
<1>4. /\ link.auftraggeber = said(Auftraggeber) /\ link.applicant = said(Applicant)
      /\ link.taetigkeit = said(Taetigkeit) /\ link.beginn = said(Beginn)
      /\ link.antragsart = said(Antragsart)
      /\ DOMAIN link = {"auftraggeber", "applicant", "taetigkeit", "beginn", "antragsart"}
  BY <1>2, <1>3
<1>5. link \in Links
  <2> HIDE DEF Words
  <2>1. QED
    BY <1>2, <1>3 DEF Links
<1>6. \A slot \in DOMAIN link :
        RequestLetter(link)[slot] = IF link[slot] = Empty THEN Unstated ELSE link[slot]
  BY DEF RequestLetter
<1> HIDE DEF statement, persona, values, own, procedures
<1>7. /\ HasTheBoxes(statement, own)
      /\ \A i \in DOMAIN own :
           LET box == statement.fields[i]
           IN  /\ own[i].id = "firmenname" => box.value = link.auftraggeber
               /\ own[i].id = "taetigkeit_beginn" => box.value = link.beginn
               /\ own[i].id = "antragsart" => box.value = link.antragsart
               /\ own[i].id = "taetigkeit_bezeichnung" => box.value = link.taetigkeit
  BY <1>1, <1>5, FourAreCarried DEF statement
<1>8. \A id, path : CarriedInto(own, id, path) =>
        /\ id \in DOMAIN posted /\ posted[id] \in Words /\ At(reply, path) = posted[id]
        /\ \E i \in DOMAIN own : own[i].id = id /\ posted[id] = statement.fields[i].value
  BY <1>1, <1>7, TheReplyCarries
<1> HIDE DEF reply, posted
<1>9. /\ CarriedInto(own, "firmenname", Auftraggeber)
      /\ CarriedInto(own, "taetigkeit_bezeichnung", Taetigkeit)
      /\ CarriedInto(own, "taetigkeit_beginn", Beginn)
      /\ CarriedInto(own, "antragsart", Antragsart)
  BY <1>1 DEF PartyForm
<1>10. At(reply, Auftraggeber) = said(Auftraggeber)
  BY <1>4, <1>7, <1>8, <1>9
<1>11. At(reply, Taetigkeit) = said(Taetigkeit)
  BY <1>4, <1>7, <1>8, <1>9
<1>12. At(reply, Beginn) = said(Beginn)
  BY <1>4, <1>7, <1>8, <1>9
<1>13. At(reply, Antragsart) = said(Antragsart)
  BY <1>4, <1>7, <1>8, <1>9
<1>14. answers = IF At(reply, Beginn) = Empty THEN << >>
                 ELSE <<[field |-> "taetigkeit_beginn", value |-> At(reply, Beginn)]>>
  <2> DEFINE id == "taetigkeit_beginn"
             value(q) == IF q \in DOMAIN posted THEN posted[q] ELSE Empty
             ids == <<id>>
             these == {q \in Range(ids) : value(q) # Empty}
             answered == Those(ids, these)
  <2>1. answers = [i \in DOMAIN answered |-> [field |-> answered[i], value |-> value(answered[i])]]
    BY Zenon DEF StatementAnswers
  <2>2. value(id) = At(reply, Beginn)
    BY <1>8, <1>9
  <2>3. id \in these <=> value(id) # Empty
    BY DEF Range
  <2>4. answered = IF id \in these THEN ids ELSE << >>
    <3> HIDE DEF these, id
    <3>1. id \in {id}
      OBVIOUS
    <3>2. QED
      BY <3>1, AsideOfOne
  <2> HIDE DEF answered, these, value, answers
  <2>5. CASE id \in these
    <3>1. answered = ids /\ DOMAIN ids = {1} /\ ids[1] = id
      BY <2>4, <2>5
    <3>2. answers = [i \in {1} |-> [field |-> id, value |-> value(id)]]
      BY <2>1, <3>1
    <3> DEFINE answer == [field |-> id, value |-> value(id)]
    <3> HIDE DEF answer
    <3>3. [i \in {1} |-> answer] = <<answer>>
      OBVIOUS
    <3>4. QED
      BY <2>2, <2>3, <2>5, <3>2, <3>3 DEF answer
  <2>6. CASE id \notin these
    <3>1. answered = << >> /\ DOMAIN answered = {}
      BY <2>4, <2>6
    <3>2. answers = << >>
      BY <2>1, <3>1
    <3>3. QED
      BY <2>2, <2>3, <2>6, <3>2
  <2>7. QED
    BY <2>5, <2>6
<1>15. QED
  BY <1>4, <1>6, <1>10, <1>11, <1>12, <1>13, <1>14

(* The same in every box is the same submission.                             *)
LEMMA SameBoxesSameData ==
  ASSUME NEW persona, NEW values, NEW again, persona.fields \in Seq(Boxes),
         Typed(values), Typed(again), PathsAreApart(persona.fields),
         \A i \in DOMAIN persona.fields :
           InBox(persona.fields[i], again) = InBox(persona.fields[i], values)
  PROVE  FormData(persona, again) = FormData(persona, values)
<1> DEFINE J(p) == JoinedAt(persona, values, p)
           K(p) == JoinedAt(persona, again, p)
<1>1. ASSUME NEW p PROVE K(p) = J(p)
  <2> DEFINE boxes == FieldsAt(persona, p)
             at == InJoinOrder(persona, boxes)
             m == Cardinality(boxes)
  <2>1. boxes \in SUBSET DOMAIN persona.fields
    BY DEF FieldsAt
  <2> HIDE DEF boxes
  <2>2. DOMAIN at = 1..m /\ \A k \in 1..m : at[k] \in boxes
    BY <2>1, JoinOrderIsOne
  <2> HIDE DEF at, m
  <2> DEFINE said(k) == InBox(persona.fields[at[k]], values)
             told(k) == InBox(persona.fields[at[k]], again)
  <2>3. \A k \in DOMAIN at : told(k) = said(k)
    BY <2>1, <2>2
  <2> HIDE DEF said, told
  <2>4. [k \in DOMAIN at |-> told(k)] = [k \in DOMAIN at |-> said(k)]
    BY <2>3
  <2>5. WordsOf(persona, again, at) = WordsOf(persona, values, at)
    BY <2>4 DEF WordsOf, said, told
  <2>6. QED
    BY <2>5 DEF JoinedAt, at, boxes
<1>2. FormData(persona, values) = [p \in {q \in PathsOf(persona) : J(q) # Empty} |-> J(p)]
  BY TheDataOfAForm
<1>3. FormData(persona, again) = [p \in {q \in PathsOf(persona) : K(q) # Empty} |-> K(p)]
  BY TheDataOfAForm
<1> HIDE DEF J, K
<1>4. {q \in PathsOf(persona) : K(q) # Empty} = {q \in PathsOf(persona) : J(q) # Empty}
  BY <1>1
<1>5. QED
  BY <1>1, <1>2, <1>3, <1>4

(* Every list of the form has an entry chosen.                               *)
EveryListSays(persona, values) ==
  \A i \in DOMAIN persona.fields :
    persona.fields[i].control = "select" => InBox(persona.fields[i], values) # Empty

(* A refused form, shown again and sent untouched, is the same submission.  *)
LEMMA FormsPostTheSame ==
  ASSUME FormQuestions, Asked("form"), NamesAreApart(question.persona),
         EveryListSays(question.persona, question.values)
  PROVE  ARefusedFormPostsTheSame
<1> DEFINE persona == question.persona
           values == question.values
           again == PostedUnchanged(IntakeView(persona, values, question.procedures))
<1>1. persona.fields \in Seq(Boxes) /\ PathsAreApart(persona.fields) /\ Typed(values)
      /\ Offered(question.procedures)
  BY DEF FormQuestions
<1> HIDE DEF persona, values
<1>2. /\ Typed(again)
      /\ \A i \in DOMAIN persona.fields :
           /\ persona.fields[i].id \in DOMAIN again
           /\ again[persona.fields[i].id] = InBox(persona.fields[i], values)
      /\ \A a \in persona.attachments :
           /\ a \in DOMAIN again <=> a \in SelectedAttachments(persona, values)
           /\ a \in DOMAIN again => again[a] # Empty
  BY <1>1, SentAsItIsShown DEF EveryListSays, persona, values
<1> HIDE DEF again
<1>3. \A i \in DOMAIN persona.fields :
        InBox(persona.fields[i], again) = InBox(persona.fields[i], values)
  BY <1>2 DEF InBox
<1>4. FormData(persona, again) = FormData(persona, values)
  BY <1>1, <1>2, <1>3, SameBoxesSameData
<1>5. SelectedAttachments(persona, again) = SelectedAttachments(persona, values)
  BY <1>2 DEF SelectedAttachments
<1>6. BuildFormSubmission(persona, again) = BuildFormSubmission(persona, values)
  BY <1>4, <1>5 DEF BuildFormSubmission
<1>7. QED
  BY <1>6 DEF ARefusedFormPostsTheSame, Submitted, persona, values, again

(* A form whose boxes have names of their own and whose lists have an answer. *)
EachBoxAnswersOnce ==
  Asked("form") => /\ NamesAreApart(question.persona)
                   /\ EveryListSays(question.persona, question.values)

-----------------------------------------------------------------------------
(* Colouring.  A list of segments paints a text.                             *)
Roles == {"", "key", "punct", "value"}
(* Segments of a text of these characters, their texts, a segment with no   *)
(* placeholder that is not one, and segments that are the text in pieces.   *)
Segs(C) == [text : Seq(C), token : BOOLEAN, role : Roles]
TextsIn(segs) == [i \in DOMAIN segs |-> segs[i].text]
Clean(seg) ==
  \A j \in DOMAIN seg.text : seg.text[j] \in Placeholders => seg.token \/ seg.role = "key"

Paints(C, segs, text) ==
  /\ segs \in Seq(Segs(C)) /\ text \in Seq(C)
  /\ FlattenSeq(TextsIn(segs)) = text
  /\ \A i \in DOMAIN segs : Clean(segs[i])

(* The texts of segments are texts.                                         *)
LEMMA TextsAreTexts ==
  ASSUME NEW C, NEW segs \in Seq(Segs(C))
  PROVE  /\ TextsIn(segs) \in Seq(Seq(C)) /\ Len(TextsIn(segs)) = Len(segs)
         /\ \A i \in 1..Len(segs) : TextsIn(segs)[i] = segs[i].text
<1> DEFINE S == Segs(C)
           n == Len(segs)
<1>1. n \in Nat /\ DOMAIN segs = 1..n /\ \A i \in 1..n : segs[i] \in S
  OBVIOUS
<1>2. \A i \in 1..n : segs[i].text \in Seq(C)
  BY <1>1 DEF Segs
<1> DEFINE A == Seq(C)
           texts == TextsIn(segs)
<1>3. DOMAIN texts = 1..n /\ (\A i \in 1..n : texts[i] = segs[i].text) /\ texts = [i \in 1..n |-> segs[i].text]
  BY <1>1 DEF TextsIn
<1> HIDE DEF texts, A, n
<1>4. texts \in [1..n -> A]
  BY <1>2, <1>3 DEF A
<1>5. texts \in Seq(A) /\ Len(texts) = n
  BY <1>1, <1>4
<1>6. QED
  BY <1>3, <1>5 DEF texts, A, n

(* What paints two texts paints them one after the other.                   *)
LEMMA PaintedTogether ==
  ASSUME NEW C, NEW s, NEW t, NEW u, NEW v, Paints(C, s, t), Paints(C, u, v)
  PROVE  Paints(C, s \o u, t \o v)
<1> DEFINE S == Segs(C)
           both == s \o u
           m == Len(s)
           n == Len(u)
<1>1. s \in Seq(S) /\ u \in Seq(S) /\ t \in Seq(C) /\ v \in Seq(C)
  BY DEF Paints
<1> HIDE DEF S
<1>2. /\ both \in Seq(S) /\ Len(both) = m + n /\ m \in Nat /\ n \in Nat
      /\ DOMAIN both = 1..(m + n) /\ DOMAIN s = 1..m /\ DOMAIN u = 1..n
      /\ \A k \in 1..m : both[k] = s[k]
      /\ \A k \in 1..n : both[m+k] = u[k]
  BY <1>1
<1> HIDE DEF both, m, n
<1>3. /\ TextsIn(s) \in Seq(Seq(C)) /\ Len(TextsIn(s)) = m /\ \A i \in 1..m : TextsIn(s)[i] = s[i].text
      /\ TextsIn(u) \in Seq(Seq(C)) /\ Len(TextsIn(u)) = n /\ \A i \in 1..n : TextsIn(u)[i] = u[i].text
      /\ TextsIn(both) \in Seq(Seq(C)) /\ Len(TextsIn(both)) = m + n
      /\ \A i \in 1..(m+n) : TextsIn(both)[i] = both[i].text
  BY <1>1, <1>2, TextsAreTexts DEF S, m, n
<1>e. /\ \A i \in 1..m : TextsIn(s)[i] = s[i].text
      /\ \A i \in 1..n : TextsIn(u)[i] = u[i].text
      /\ \A i \in 1..(m+n) : TextsIn(both)[i] = both[i].text
  BY <1>3
<1>f. /\ \A k \in 1..m : k \in 1..(m+n) /\ both[k] = s[k]
      /\ \A k \in 1..n : m + k \in 1..(m+n) /\ both[m+k] = u[k]
  BY <1>2
<1>4. TextsIn(both) = TextsIn(s) \o TextsIn(u)
  <2> DEFINE A == Seq(C)
             a == TextsIn(s)
             b == TextsIn(u)
             c == TextsIn(both)
  <2>1. a \in Seq(A) /\ b \in Seq(A) /\ c \in Seq(A) /\ Len(a) = m /\ Len(b) = n /\ Len(c) = m + n
    BY <1>3
  <2>2. \A k \in 1..m : c[k] = a[k]
    BY <1>e, <1>f
  <2>3. \A k \in 1..n : c[m+k] = b[k]
    BY <1>e, <1>f
  <2>n. m \in Nat /\ n \in Nat
    BY <1>2
  <2> HIDE DEF A, a, b, c
  <2>4. \A k \in 1..(m+n) : c[k] = (a \o b)[k]
    <3> SUFFICES ASSUME NEW k \in 1..(m+n) PROVE c[k] = (a \o b)[k]
      OBVIOUS
    <3>1. CASE k \in 1..m
      BY <2>n, <2>1, <2>2, <3>1
    <3>2. CASE k \notin 1..m
      <4>1. k - m \in 1..n /\ m + (k - m) = k
        BY <2>n, <3>2
      <4>2. c[k] = b[k - m]
        BY <2>3, <4>1
      <4>3. (a \o b)[k] = b[k - m]
        BY SMTT(40), <2>n, <2>1, <3>2, <4>1
      <4>4. QED
        BY <4>2, <4>3
    <3>3. QED
      BY <3>1, <3>2
  <2>5. a \o b \in Seq(A) /\ Len(a \o b) = m + n
    BY <2>1
  <2>6. c = a \o b
    <3> DEFINE d == a \o b
    <3>1. d \in Seq(A) /\ Len(d) = m + n /\ \A k \in 1..(m+n) : c[k] = d[k]
      BY <2>4, <2>5
    <3> HIDE DEF d
    <3>2. c = d
      BY SMTT(40), <2>n, <2>1, <3>1
    <3>3. QED
      BY <3>2 DEF d
  <2>7. QED
    BY <2>6 DEF a, b, c
<1>5. FlattenSeq(TextsIn(both)) = t \o v
  <2>1. FlattenSeq(TextsIn(s)) = t /\ FlattenSeq(TextsIn(u)) = v
    BY DEF Paints
  <2>2. FlattenSeq(TextsIn(s) \o TextsIn(u)) = FlattenSeq(TextsIn(s)) \o FlattenSeq(TextsIn(u))
    BY <1>3, FlattenedTogether
  <2>3. QED
    BY <1>4, <2>1, <2>2
<1>6. \A i \in DOMAIN both : Clean(both[i])
  <2> SUFFICES ASSUME NEW i \in 1..(m+n) PROVE Clean(both[i])
    BY <1>2
  <2>1. (\A k \in 1..m : Clean(s[k])) /\ (\A k \in 1..n : Clean(u[k]))
    BY <1>2 DEF Paints
  <2>2. CASE i \in 1..m
    BY <1>2, <2>1, <2>2
  <2>3. CASE i \notin 1..m
    <3>1. i - m \in 1..n /\ m + (i - m) = i
      BY <1>2, <2>3
    <3>2. both[i] = u[i - m]
      BY <1>2, <3>1
    <3>3. QED
      BY <2>1, <3>1, <3>2
  <2>4. QED
    BY <2>2, <2>3
<1>7. t \o v \in Seq(C)
  BY <1>1
<1>8. QED
  BY <1>2, <1>5, <1>6, <1>7 DEF Paints, both, S

(* No segment paints the empty text.                                        *)
LEMMA NothingPaintsNothing ==
  ASSUME NEW C
  PROVE  Paints(C, << >>, << >>)
<1>1. TextsIn(<< >>) = << >>
  BY DEF TextsIn
<1>2. FlattenSeq(<< >>) = << >>
  BY DEF FlattenSeq
<1>3. << >> \in Seq(Segs(C)) /\ << >> \in Seq(C) /\ DOMAIN << >> = {}
  <2> HIDE DEF Segs
  <2>1. QED
    OBVIOUS
<1>4. QED
  BY <1>1, <1>2, <1>3 DEF Paints

(* A segment paints its text.                                               *)
LEMMA OnePaintsItself ==
  ASSUME NEW C, NEW seg \in Segs(C), Clean(seg)
  PROVE  Paints(C, <<seg>>, seg.text)
<1> DEFINE S == Segs(C)
           one == <<seg>>
<1>1. seg.text \in Seq(C)
  BY DEF Segs
<1>2. one \in Seq(S) /\ DOMAIN one = {1} /\ one[1] = seg
  <2> HIDE DEF S
  <2>1. seg \in S
    BY DEF S
  <2>2. QED
    BY <2>1
<1> HIDE DEF one
<1>3. TextsIn(one) = <<seg.text>>
  <2> DEFINE text == seg.text
  <2>1. TextsIn(one) = [i \in {1} |-> text]
    BY <1>2 DEF TextsIn
  <2> HIDE DEF text
  <2>2. [i \in {1} |-> text] = <<text>>
    OBVIOUS
  <2>3. QED
    BY <2>1, <2>2 DEF text
<1>4. FlattenSeq(TextsIn(one)) = seg.text
  BY <1>1, <1>3, OneAlone
<1>5. \A i \in DOMAIN one : Clean(one[i])
  BY <1>2
<1>6. QED
  BY <1>1, <1>2, <1>4, <1>5 DEF Paints, one

(* Where the k-th piece of a cut text begins behind, and where it ends.      *)
Behind(P, k) == IF k = 1 THEN 0 ELSE Ascending(P)[k - 1]
CutEnd(text, P, k) == IF k = Cardinality(P) + 1 THEN Len(text) ELSE Ascending(P)[k] - 1

(* A text cut at places: the pieces hold none of them, and between two      *)
(* pieces there is one.                                                     *)
LEMMA CutsLeaveNoPlace ==
  ASSUME NEW C, NEW text \in Seq(C), NEW P, P \subseteq 1..Len(text)
  PROVE  LET pieces == CutAt(text, P)
             at == Ascending(P)
             m == Cardinality(P)
         IN  /\ m \in Nat /\ DOMAIN pieces = 1..(m + 1) /\ Len(pieces) = m + 1
             /\ \A k \in 1..(m + 1) :
                  /\ pieces[k] = SubSeq(text, Behind(P, k) + 1, CutEnd(text, P, k))
                  /\ Behind(P, k) \in Nat /\ CutEnd(text, P, k) \in Nat
                  /\ Behind(P, k) <= CutEnd(text, P, k) /\ CutEnd(text, P, k) <= Len(text)
                  /\ \A i \in (Behind(P, k) + 1)..CutEnd(text, P, k) : i \notin P
                  /\ k > 1 => Behind(P, k) = at[k - 1] /\ at[k - 1] \in P
                              /\ CutEnd(text, P, k - 1) = at[k - 1] - 1
                  /\ k # m + 1 => CutEnd(text, P, k) + 1 = at[k] /\ at[k] \in P
                                  /\ Behind(P, k + 1) = at[k]
             /\ CutEnd(text, P, m + 1) = Len(text) /\ Behind(P, 1) = 0
<1> DEFINE n == Len(text)
           at == Ascending(P)
           m == Cardinality(P)
           pieces == CutAt(text, P)
           b(k) == IF k = 1 THEN 0 ELSE at[k - 1]
           e(k) == IF k = m + 1 THEN n ELSE at[k] - 1
           piece(k) == SubSeq(text, b(k) + 1, e(k))
<1>1. n \in Nat
  OBVIOUS
<1>2. /\ m \in Nat /\ DOMAIN at = 1..m
      /\ \A k \in 1..m : at[k] \in P /\ at[k] \in 1..n
      /\ \A p \in P : \E k \in 1..m : at[k] = p
      /\ \A j, k \in 1..m : j < k => at[j] < at[k]
  BY <1>1, PlacesAscend
<1>3. pieces = [k \in 1..(m + 1) |-> SubSeq(text, IF k = 1 THEN 1 ELSE at[k - 1] + 1, e(k))]
  BY Zenon DEF CutAt
<1> HIDE DEF pieces, at, m, n
<1>4. DOMAIN pieces = 1..(m + 1) /\ Len(pieces) = m + 1
  BY <1>2, <1>3
<1>5. ASSUME NEW k \in 1..(m + 1) PROVE pieces[k] = piece(k)
  <2>1. (IF k = 1 THEN 1 ELSE at[k - 1] + 1) = b(k) + 1
    OBVIOUS
  <2> HIDE DEF b, e
  <2>2. QED
    BY <1>3, <2>1
<1>6. ASSUME NEW k \in 1..(m + 1)
      PROVE  /\ b(k) \in Nat /\ e(k) \in Nat /\ b(k) <= e(k) /\ e(k) <= n
             /\ k > 1 => b(k) = at[k - 1] /\ at[k - 1] \in P /\ e(k - 1) = at[k - 1] - 1
             /\ k # m + 1 => e(k) + 1 = at[k] /\ at[k] \in P /\ b(k + 1) = at[k]
  <2>1. k > 1 => k - 1 \in 1..m /\ k - 1 # m + 1 /\ k # 1
    BY <1>2
  <2>2. k # m + 1 => k \in 1..m /\ k + 1 # 1 /\ (k + 1) - 1 = k
    BY <1>2
  <2>3. k > 1 => at[k - 1] \in P /\ at[k - 1] \in 1..n
    BY <1>2, <2>1
  <2>4. k # m + 1 => at[k] \in P /\ at[k] \in 1..n
    BY <1>2, <2>2
  <2>5. k > 1 /\ k # m + 1 => at[k - 1] < at[k]
    BY <1>2, <2>1, <2>2
  <2>6. b(k) \in Nat /\ e(k) \in Nat /\ b(k) <= e(k) /\ e(k) <= n
    BY <1>1, <2>3, <2>4, <2>5
  <2>7. k > 1 => b(k) = at[k - 1] /\ e(k - 1) = at[k - 1] - 1
    BY <2>1
  <2>8. k # m + 1 => e(k) + 1 = at[k] /\ b(k + 1) = at[k]
    BY <2>2, <2>4
  <2>9. QED
    BY <2>3, <2>4, <2>6, <2>7, <2>8
<1>7. ASSUME NEW k \in 1..(m + 1), NEW i \in (b(k) + 1)..e(k), i \in P PROVE FALSE
  <2>1. PICK j \in 1..m : at[j] = i
    BY <1>2, <1>7
  <2>2. b(k) \in Nat /\ e(k) \in Nat /\ b(k) < i /\ i <= e(k)
    BY <1>6
  <2>3. j >= k
    <3>1. CASE k = 1
      BY <1>2, <3>1
    <3>2. CASE k # 1
      <4>1. k - 1 \in 1..m /\ at[k - 1] < at[j] /\ at[k - 1] \in Int /\ at[j] \in Int
        BY <1>2, <2>1, <2>2, <3>2
      <4>2. ~ (j < k - 1) /\ j # k - 1
        BY <1>2, <4>1
      <4>3. QED
        BY <1>2, <4>1, <4>2
    <3>3. QED
      BY <3>1, <3>2
  <2>4. CASE k = m + 1
    BY <1>2, <2>3, <2>4
  <2>5. CASE k # m + 1
    <3>1. k \in 1..m /\ at[j] < at[k] /\ at[k] \in Int /\ at[j] \in Int
      BY <1>2, <2>1, <2>2, <2>5
    <3>2. ~ (k < j) /\ j # k
      BY <1>2, <3>1
    <3>3. QED
      BY <1>2, <2>3, <3>2
  <2>6. QED
    BY <2>4, <2>5
<1>8. e(m + 1) = n /\ b(1) = 0
  OBVIOUS
<1>9. \A k : b(k) = Behind(P, k) /\ e(k) = CutEnd(text, P, k)
  BY Zenon DEF Behind, CutEnd, at, m, n
<1> HIDE DEF b, e
<1>10. QED
  BY <1>2, <1>4, <1>5, <1>6, <1>7, <1>8, <1>9 DEF pieces, at, m, n

(* A stretch of one place is the character there.                           *)
LEMMA OneCharacter ==
  ASSUME NEW C, NEW text \in Seq(C), NEW i \in 1..Len(text)
  PROVE  SubSeq(text, i, i) = <<text[i]>> /\ text[i] \in C
<1> DEFINE s == SubSeq(text, i, i)
           c == text[i]
<1>1. s \in Seq(C) /\ Len(s) = 1 /\ s[1] = c
  BY SMTT(40)
<1>2. c \in C
  OBVIOUS
<1> HIDE DEF s, c
<1>3. s = <<c>>
  BY <1>1, <1>2
<1>4. QED
  BY <1>2, <1>3 DEF s, c

(* Lists of segments painting the stretches of a text paint the text.        *)
LEMMA PaintedPieceByPiece ==
  ASSUME NEW C, NEW lists, NEW n \in Nat, NEW told,
         DOMAIN lists = 1..n, lists = [k \in 1..n |-> lists[k]],
         told[0] = << >>,
         \A k \in 1..n : \E piece : Paints(C, lists[k], piece) /\ told[k] = told[k-1] \o piece
  PROVE  Paints(C, FlattenSeq(lists), told[n])
<1> DEFINE S == Segs(C)
           A == Seq(S)
<1>1. \A k \in 1..n : lists[k] \in A
  BY DEF Paints
<1>2. lists \in Seq(A) /\ Len(lists) = n
  <2> HIDE DEF A
  <2>1. lists \in [1..n -> A]
    BY <1>1
  <2>2. QED
    BY Zenon, <2>1, FunctionsAreLists
<1>3. PICK r : r \in JoiningSteps(S, lists)
  <2> HIDE DEF S
  <2>1. lists \in Seq(Seq(S))
    BY <1>2
  <2>2. QED
    BY <2>1, FlatteningSteps
<1>4. /\ r[0] = << >> /\ (\A k \in 1..n : r[k] = r[k-1] \o lists[k])
      /\ FlattenSeq(lists) = r[n]
  BY <1>2, <1>3 DEF JoiningSteps
<1> DEFINE T == {k \in 0..n : Paints(C, r[k], told[k])}
<1>5. 0 \in T
  BY <1>4, NothingPaintsNothing
<1>6. ASSUME NEW k \in 1..n, k - 1 \in T PROVE k \in T
  <2>1. PICK piece : Paints(C, lists[k], piece) /\ told[k] = told[k-1] \o piece
    OBVIOUS
  <2>2. Paints(C, r[k-1], told[k-1]) /\ r[k] = r[k-1] \o lists[k]
    BY <1>4, <1>6
  <2>3. Paints(C, r[k-1] \o lists[k], told[k-1] \o piece)
    BY <2>1, <2>2, PaintedTogether
  <2>4. Paints(C, r[k], told[k])
    BY Zenon, <2>1, <2>2, <2>3
  <2>5. k \in 0..n
    OBVIOUS
  <2>6. QED
    BY <2>4, <2>5
<1>7. n \in T
  <2> HIDE DEF T
  <2>1. \A k \in 0..n : k \in T
    BY <1>5, <1>6, EveryPlace
  <2>2. QED
    BY <2>1
<1>8. QED
  BY <1>4, <1>7

(* The runs between the placeholders and the placeholders themselves paint a*)
(* text (demo.py, _plain_runs).                                             *)
LEMMA PlainRunsPaint ==
  ASSUME NEW C, NEW text \in Seq(C), NEW role \in Roles
  PROVE  Paints(C, PlainRuns(text, role), text)
<1> DEFINE P == TokensIn(text)
           n == Len(text)
           m == Cardinality(P)
           at == Ascending(P)
           runs == CutAt(text, P)
           b(k) == Behind(P, k)
           e(k) == CutEnd(text, P, k)
           run(k) == IF runs[k] = << >> THEN << >> ELSE <<Segment(runs[k], role)>>
           end(k) == IF k = m + 1 THEN << >> ELSE <<TokenAt(text, k)>>
           lists == [k \in 1..(m+1) |-> run(k) \o end(k)]
           upTo(k) == IF k = 0 THEN 0 ELSE IF k = m + 1 THEN n ELSE at[k]
           told == [k \in 0..(m+1) |-> SubSeq(text, 1, upTo(k))]
<1>1. P \subseteq 1..n /\ n \in Nat /\ \A i \in 1..n : text[i] \in C /\ (text[i] \in Placeholders <=> i \in P)
  BY DEF TokensIn
<1>2. /\ m \in Nat /\ DOMAIN runs = 1..(m + 1) /\ Len(runs) = m + 1
      /\ e(m + 1) = n /\ b(1) = 0
  BY <1>1, CutsLeaveNoPlace
<1>3. ASSUME NEW k \in 1..(m + 1)
      PROVE  /\ runs[k] = SubSeq(text, b(k) + 1, e(k))
             /\ b(k) \in Nat /\ e(k) \in Nat /\ b(k) <= e(k) /\ e(k) <= n
             /\ \A i \in (b(k) + 1)..e(k) : i \notin P
             /\ k > 1 => b(k) = at[k - 1]
             /\ k # m + 1 => e(k) + 1 = at[k] /\ at[k] \in P
  BY SMTT(40), <1>1, CutsLeaveNoPlace
<1>4. PlainRuns(text, role) = FlattenSeq(lists)
  <2>1. lists = [k \in DOMAIN runs |->
                  (IF runs[k] = << >> THEN << >> ELSE <<Segment(runs[k], role)>>)
                    \o (IF k = Len(runs) THEN << >> ELSE <<TokenAt(text, k)>>)]
    BY ZenonT(40), <1>2
  <2> HIDE DEF lists
  <2>2. QED
    BY <2>1 DEF PlainRuns
<1> HIDE DEF P, n, m, at, runs, b, e
<1>5. ASSUME NEW k \in 1..(m + 1) PROVE Paints(C, run(k), runs[k])
  <2> DEFINE t == runs[k]
             seg == Segment(t, role)
             lo == b(k)
             hi == e(k)
  <2>1. t = SubSeq(text, lo + 1, hi) /\ lo \in Nat /\ hi \in Nat /\ lo <= hi /\ hi <= n
        /\ \A i \in (lo + 1)..hi : i \notin P
    BY <1>3
  <2> HIDE DEF t, lo, hi
  <2>2. t \in Seq(C) /\ DOMAIN t = 1..(hi - lo) /\ \A i \in 1..(hi - lo) : t[i] = text[lo + i]
    BY SMTT(40), <1>1, <2>1 DEF n
  <2>3. \A j \in DOMAIN t : t[j] \notin Placeholders
    <3> SUFFICES ASSUME NEW j \in 1..(hi - lo) PROVE t[j] \notin Placeholders
      BY <2>2
    <3>1. lo + j \in (lo + 1)..hi /\ lo + j \in 1..n
      BY <1>1, <2>1
    <3>2. text[lo + j] \notin Placeholders
      BY <1>1, <2>1, <3>1
    <3>3. QED
      BY <2>2, <3>2
  <2>4. seg \in Segs(C) /\ seg.text = t
    BY <2>2 DEF Segment, Segs
  <2> HIDE DEF seg
  <2>5. Clean(seg)
    BY <2>3, <2>4 DEF Clean
  <2>6. Paints(C, <<seg>>, t)
    BY <2>4, <2>5, OnePaintsItself
  <2>7. run(k) = IF t = << >> THEN << >> ELSE <<seg>>
    BY DEF t, seg
  <2> HIDE DEF run
  <2>8. Paints(C, run(k), t)
    BY <2>6, <2>7, NothingPaintsNothing
  <2>9. QED
    BY <2>8 DEF t
<1>6. ASSUME NEW k \in 1..(m + 1), k # m + 1 PROVE Paints(C, end(k), <<text[at[k]]>>)
  <2> DEFINE seg == TokenAt(text, k)
             c == text[at[k]]
  <2>1. c \in C
    BY <1>1, <1>3, <1>6
  <2>2. seg = [text |-> <<c>>, token |-> TRUE, role |-> ""]
    BY DEF TokenAt, at, P
  <2> HIDE DEF seg, c
  <2>3. seg \in Segs(C) /\ seg.text = <<c>> /\ seg.token = TRUE
    <3> DEFINE one == <<c>>
    <3>1. one \in Seq(C)
      BY <2>1
    <3> HIDE DEF one
    <3>2. seg = [text |-> one, token |-> TRUE, role |-> ""]
      BY Zenon, <2>2 DEF one
    <3>3. seg.text = one /\ seg.token = TRUE
      BY Zenon, <3>2
    <3>4. seg \in Segs(C)
      <4> DEFINE A == Seq(C)
      <4>1. one \in A
        BY <3>1
      <4> HIDE DEF A
      <4>2. \A x \in A, flag \in BOOLEAN, s \in Roles :
              [text |-> x, token |-> flag, role |-> s] \in [text : A, token : BOOLEAN, role : Roles]
        OBVIOUS
      <4>3. TRUE \in BOOLEAN
        BY Zenon
      <4>e. "" \in Roles
        BY DEF Roles
      <4>4. [text |-> one, token |-> TRUE, role |-> ""] \in [text : A, token : BOOLEAN, role : Roles]
        BY Zenon, <4>1, <4>2, <4>3, <4>e
      <4>5. QED
        BY Zenon, <3>2, <4>4 DEF Segs, A
    <3>5. QED
      BY Zenon, <3>3, <3>4 DEF one
  <2>4. Clean(seg)
    BY Zenon, <2>3 DEF Clean
  <2>5. Paints(C, <<seg>>, <<c>>)
    BY <2>3, <2>4, OnePaintsItself
  <2>6. QED
    BY <1>6, <2>5 DEF seg, c
<1>7. told[0] = << >>
  <2>1. 0 \in 0..(m + 1)
    BY <1>2
  <2>2. SubSeq(text, 1, 0) = << >>
    BY SMTT(40)
  <2>3. QED
    BY <2>1, <2>2
<1>8. ASSUME NEW k \in 1..(m + 1)
      PROVE  \E piece : Paints(C, lists[k], piece) /\ told[k] = told[k-1] \o piece
  <2>1. lists[k] = run(k) \o end(k) /\ told[k] = SubSeq(text, 1, upTo(k)) /\ told[k-1] = SubSeq(text, 1, upTo(k-1))
    <3>1. k \in 0..(m+1) /\ k - 1 \in 0..(m+1)
      BY <1>2
    <3> HIDE DEF run, end, upTo
    <3>2. QED
      BY <3>1
  <2>2. upTo(k-1) = b(k)
    <3>1. CASE k = 1
      BY <1>2, <3>1
    <3>2. CASE k # 1
      <4>1. k - 1 # 0 /\ k - 1 # m + 1 /\ k > 1
        BY <1>2, <3>2
      <4>2. QED
        BY <1>3, <4>1
    <3>3. QED
      BY <3>1, <3>2
  <2>3. told[k-1] \o runs[k] = SubSeq(text, 1, e(k))
    <3> DEFINE lo == b(k)
               hi == e(k)
    <3>1. lo \in Nat /\ hi \in Nat /\ lo <= hi /\ hi <= Len(text) /\ runs[k] = SubSeq(text, lo + 1, hi)
      BY <1>3 DEF n
    <3>2. told[k-1] = SubSeq(text, 1, lo)
      BY <2>1, <2>2
    <3> HIDE DEF lo, hi, told
    <3>3. SubSeq(text, 0 + 1, lo) \o SubSeq(text, lo + 1, hi) = SubSeq(text, 0 + 1, hi)
      BY <3>1, StretchesJoin
    <3>4. 0 + 1 = 1
      OBVIOUS
    <3>5. QED
      BY <3>1, <3>2, <3>3, <3>4 DEF hi
  <2>4. CASE k = m + 1
    <3>1. lists[k] = run(k)
      <4>1. run(k) \in Seq(Segs(C))
        BY <1>5 DEF Paints
      <4> HIDE DEF run
      <4>2. run(k) \o << >> = run(k)
        BY <4>1
      <4>3. QED
        BY <2>1, <2>4, <4>2
    <3>2. told[k] = SubSeq(text, 1, e(k))
      <4>1. upTo(k) = n /\ e(k) = n
        BY <1>2, <2>4
      <4> HIDE DEF upTo, told
      <4>2. QED
        BY <2>1, <4>1
    <3> HIDE DEF run, told, lists
    <3>3. QED
      BY <1>5, <2>3, <3>1, <3>2
  <2>5. CASE k # m + 1
    <3> DEFINE c == <<text[at[k]]>>
               t == told[k-1]
               u == runs[k]
    <3>1. Paints(C, run(k), u) /\ Paints(C, end(k), c)
      BY <1>5, <1>6, <2>5
    <3> HIDE DEF run, end, told, lists
    <3>2. Paints(C, run(k) \o end(k), u \o c)
      BY <3>1, PaintedTogether
    <3>3. t \in Seq(C) /\ u \in Seq(C) /\ c \in Seq(C)
      <4>1. t \in Seq(C)
        <5>1. b(k) \in Nat /\ b(k) <= Len(text)
          BY <1>3 DEF n
        <5>2. SubSeq(text, 1, b(k)) \in Seq(C)
          BY SMTT(40), <5>1
        <5>3. QED
          BY <2>1, <2>2, <5>2 DEF t
      <4>2. QED
        BY <3>1, <4>1 DEF Paints
    <3>4. (t \o u) \o c = t \o (u \o c)
      <4> HIDE DEF t, u, c
      <4>1. QED
        BY SMTT(40), <3>3
    <3>5. SubSeq(text, 1, e(k)) \o c = SubSeq(text, 1, at[k])
      <4> DEFINE hi == e(k)
                 i == at[k]
      <4>1. hi \in Nat /\ i = hi + 1 /\ i \in 1..Len(text)
        BY <1>1, <1>3, <2>5 DEF n
      <4> HIDE DEF hi, i
      <4>2. SubSeq(text, 0 + 1, hi) \o SubSeq(text, hi + 1, i) = SubSeq(text, 0 + 1, i)
        BY <4>1, StretchesJoin
      <4>3. SubSeq(text, i, i) = <<text[i]>>
        BY <4>1, OneCharacter
      <4>4. 0 + 1 = 1
        OBVIOUS
      <4>5. QED
        BY <4>1, <4>2, <4>3, <4>4 DEF hi, i
    <3>6. upTo(k) = at[k]
      BY <1>2, <2>5
    <3>7. told[k] = t \o (u \o c)
      BY <2>1, <2>3, <3>4, <3>5, <3>6 DEF t, u
    <3>8. QED
      BY <2>1, <3>2, <3>7 DEF t
  <2>6. QED
    BY <2>4, <2>5
<1>9. DOMAIN lists = 1..(m+1) /\ lists = [k \in 1..(m+1) |-> lists[k]] /\ m + 1 \in Nat
  <2> HIDE DEF run, end
  <2>1. QED
    BY <1>2
<1>10. told[m+1] = text
  <2>1. told[m+1] = SubSeq(text, 1, n)
    <3>1. m + 1 \in 0..(m+1) /\ upTo(m+1) = n
      BY <1>2
    <3> HIDE DEF upTo
    <3>2. QED
      BY <3>1
  <2>2. SubSeq(text, 1, n) = text
    BY SMTT(40) DEF n
  <2>3. QED
    BY <2>1, <2>2
<1> HIDE DEF lists, told
<1>11. Paints(C, FlattenSeq(lists), told[m+1])
  <2> DEFINE c == m + 1
  <2>1. /\ c \in Nat /\ DOMAIN lists = 1..c /\ lists = [k \in 1..c |-> lists[k]]
        /\ told[0] = << >>
        /\ \A k \in 1..c : \E piece : Paints(C, lists[k], piece) /\ told[k] = told[k-1] \o piece
    BY <1>7, <1>8, <1>9
  <2> HIDE DEF c
  <2>2. Paints(C, FlattenSeq(lists), told[c])
    BY <2>1, PaintedPieceByPiece
  <2>3. QED
    BY <2>2 DEF c
<1>12. QED
  BY <1>4, <1>10, <1>11

(* A segment is well formed, and paints its text, when no placeholder stands *)
(* in it outside a key.                                                      *)
LEMMA ASegmentPaints ==
  ASSUME NEW C, NEW text \in Seq(C), NEW role \in Roles,
         role = "key" \/ \A j \in DOMAIN text : text[j] \notin Placeholders
  PROVE  Paints(C, <<Segment(text, role)>>, text)
<1> DEFINE seg == Segment(text, role)
<1>1. seg \in Segs(C) /\ seg.text = text /\ seg.role = role
  BY DEF Segment, Segs
<1> HIDE DEF seg
<1>2. Clean(seg)
  BY <1>1 DEF Clean
<1>3. Paints(C, <<seg>>, text)
  BY <1>1, <1>2, OnePaintsItself
<1>4. QED
  BY <1>3 DEF seg

(* So does a character with a role.                                         *)
LEMMA ARolePaints ==
  ASSUME NEW C, NEW c \in C, NEW role \in Roles, c \notin Placeholders
  PROVE  Paints(C, <<Segment(<<c>>, role)>>, <<c>>)
<1> DEFINE t == <<c>>
<1>1. t \in Seq(C) /\ \A j \in DOMAIN t : t[j] \notin Placeholders
  OBVIOUS
<1> HIDE DEF t
<1>2. Paints(C, <<Segment(t, role)>>, t)
  BY <1>1, ASegmentPaints
<1>3. QED
  BY <1>2 DEF t

(* One and one are a pair.                                                  *)
LEMMA TwoAreAPair ==
  ASSUME NEW S, NEW x \in S, NEW y \in S
  PROVE  <<x>> \o <<y>> = <<x, y>>
<1> DEFINE a == <<x>>
           b == <<y>>
<1>1. a \in Seq(S) /\ b \in Seq(S) /\ Len(a) = 1 /\ Len(b) = 1 /\ a[1] = x /\ b[1] = y
  OBVIOUS
<1> HIDE DEF a, b
<1> DEFINE c == a \o b
<1>2. c \in Seq(S) /\ Len(c) = 2 /\ c[1] = x /\ c[2] = y
  <2>a. a \in Seq(S) /\ b \in Seq(S)
    BY <1>1
  <2>1. /\ c \in Seq(S) /\ Len(c) = Len(a) + Len(b)
        /\ \A k \in 1..Len(a) : c[k] = a[k]
        /\ \A k \in 1..Len(b) : c[Len(a) + k] = b[k]
    BY <2>a
  <2> HIDE DEF c
  <2>2. QED
    BY <1>1, <2>1
<1> DEFINE d == <<x, y>>
<1>d. d \in Seq(S) /\ Len(d) = 2 /\ d[1] = x /\ d[2] = y
  OBVIOUS
<1> HIDE DEF c, d
<1>f. DOMAIN c = 1..2 /\ DOMAIN d = 1..2 /\ \A i \in 1..2 : c[i] = d[i]
  BY <1>2, <1>d
<1>g. c = [i \in 1..2 |-> c[i]] /\ d = [i \in 1..2 |-> d[i]]
  BY <1>2, <1>d
<1>3. c = <<x, y>>
  BY <1>f, <1>g DEF d
<1>4. QED
  BY <1>3 DEF a, b, c

(* A line is painted, with or without a key (demo.py, segments).            *)
LEMMA LineSegmentsPaint ==
  ASSUME NEW C, NEW line \in Seq(C)
  PROVE  Paints(C, LineSegments(line), line)
<1> DEFINE seps == {i \in DOMAIN line : line[i] = Punct}
           at == Min(seps)
           n == Len(line)
           keyed == /\ seps # {} /\ at > 1
                    /\ \A i \in 1 .. at - 1 : line[i] # Space
           key == SubSeq(line, 1, at - 1)
           rest == SubSeq(line, at + 1, Len(line))
<1>r. "" \in Roles /\ "key" \in Roles /\ "punct" \in Roles /\ "value" \in Roles
  BY DEF Roles
<1>1. CASE ~ keyed
  <2>1. LineSegments(line) = PlainRuns(line, "")
    BY Zenon, <1>1 DEF LineSegments
  <2>2. QED
    BY <1>r, <2>1, PlainRunsPaint
<1>2. CASE keyed
  <2>1. LineSegments(line) = <<Segment(key, "key"), Segment(<<Punct>>, "punct")>> \o PlainRuns(rest, "value")
    BY Zenon, <1>2 DEF LineSegments
  <2>2. at \in 1..n /\ line[at] = Punct /\ n \in Nat /\ at > 1
    <3>1. seps \subseteq 1..n /\ seps # {} /\ n \in Nat
      BY <1>2
    <3>2. at \in seps
      <4>1. seps \subseteq Nat
        BY <3>1
      <4> HIDE DEF seps
      <4>2. QED
        BY <3>1, <4>1, MinIsLeast
    <3>3. QED
      BY <1>2, <3>1, <3>2
  <2> HIDE DEF keyed, at, n
  <2>3. key \in Seq(C) /\ rest \in Seq(C)
    BY SMTT(40), <2>2 DEF n
  <2>4. line = (key \o <<Punct>>) \o rest
    <3> DEFINE a == at - 1
    <3>n. n = Len(line)
      BY DEF n
    <3>1. a \in Nat /\ a + 1 = at /\ at \in Nat /\ a <= at /\ at <= n /\ 0 + 1 = 1
          /\ 0 \in Nat /\ n \in Nat /\ 0 <= a /\ 0 <= at
      BY <2>2
    <3> HIDE DEF a
    <3>2. SubSeq(line, 0 + 1, a) \o SubSeq(line, a + 1, at) = SubSeq(line, 0 + 1, at)
      BY <3>1, <3>n, StretchesJoin
    <3>m. n <= Len(line)
      BY <3>1, <3>n
    <3>3. SubSeq(line, 0 + 1, at) \o SubSeq(line, at + 1, n) = SubSeq(line, 0 + 1, n)
      BY <3>1, <3>m, StretchesJoin
    <3>4. SubSeq(line, at, at) = <<Punct>>
      BY <2>2, OneCharacter DEF n
    <3>5. SubSeq(line, 1, n) = line
      BY SMTT(40), <3>1, <3>n
    <3>6. key = SubSeq(line, 1, a)
      BY DEF a
    <3> HIDE DEF key
    <3>7. rest = SubSeq(line, at + 1, n)
      BY <3>n
    <3> HIDE DEF rest
    <3>8. QED
      BY <3>1, <3>2, <3>3, <3>4, <3>5, <3>6, <3>7
  <2>5. Punct \in C /\ Punct \notin Placeholders
    <3>1. Punct \in C
      BY <2>2 DEF n
    <3>2. QED
      BY <3>1 DEF Punct, Placeholders
  <2> HIDE DEF key, rest
  <2>6. /\ Paints(C, <<Segment(key, "key")>>, key)
        /\ Paints(C, <<Segment(<<Punct>>, "punct")>>, <<Punct>>)
        /\ Paints(C, PlainRuns(rest, "value"), rest)
    BY <1>r, <2>3, <2>5, ASegmentPaints, ARolePaints, PlainRunsPaint
  <2> DEFINE k == Segment(key, "key")
             p == Segment(<<Punct>>, "punct")
             v == PlainRuns(rest, "value")
  <2> HIDE DEF k, p, v
  <2>7. Paints(C, <<k>> \o <<p>>, key \o <<Punct>>)
    BY <2>6, PaintedTogether DEF k, p
  <2>8. Paints(C, (<<k>> \o <<p>>) \o v, (key \o <<Punct>>) \o rest)
    BY <2>6, <2>7, PaintedTogether DEF v
  <2>9. <<k>> \o <<p>> = <<k, p>>
    BY TwoAreAPair, k \in {k, p}, p \in {k, p}
  <2>10. LineSegments(line) = <<k, p>> \o v
    BY Zenon, <2>1 DEF k, p, v
  <2>11. QED
    BY Zenon, <2>4, <2>8, <2>9, <2>10
<1>3. QED
  BY <1>1, <1>2

(* A text is painted line by line (demo.py, segments).                      *)
LEMMA SegmentsPaint ==
  ASSUME NEW C, NEW text \in Seq(C), NEW shape
  PROVE  Paints(C, SegmentsOf(text, shape), text)
<1> DEFINE P == {i \in DOMAIN text : text[i] = Newline}
           n == Len(text)
           m == Cardinality(P)
           at == Ascending(P)
           lines == CutAt(text, P)
           b(k) == Behind(P, k)
           e(k) == CutEnd(text, P, k)
           lead(k) == IF k = 1 THEN << >> ELSE <<Segment(<<Newline>>, "")>>
           lists == [k \in 1..(m+1) |-> lead(k) \o LineSegments(lines[k])]
           told == [k \in 0..(m+1) |-> IF k = 0 THEN << >> ELSE SubSeq(text, 1, e(k))]
<1>0. "" \in Roles
  BY DEF Roles
<1>a. CASE shape # "structured"
  <2>1. SegmentsOf(text, shape) = PlainRuns(text, "")
    BY <1>a DEF SegmentsOf
  <2>2. QED
    BY <1>0, <2>1, PlainRunsPaint
<1>b. CASE shape = "structured"
  <2>1. P \subseteq 1..n /\ n \in Nat /\ n = Len(text) /\ \A i \in P : text[i] = Newline
    OBVIOUS
  <2> HIDE DEF P
  <2>2. /\ m \in Nat /\ DOMAIN lines = 1..(m + 1) /\ e(m + 1) = n /\ b(1) = 0
    BY ZenonT(40), <2>1, CutsLeaveNoPlace
  <2>3. ASSUME NEW k \in 1..(m + 1)
        PROVE  /\ lines[k] = SubSeq(text, b(k) + 1, e(k))
               /\ b(k) \in Nat /\ e(k) \in Nat /\ b(k) <= e(k) /\ e(k) <= n
               /\ k > 1 => b(k) \in P /\ e(k - 1) = b(k) - 1
    <3>1. P \subseteq 1..Len(text)
      BY <2>1
    <3>2. /\ CutAt(text, P)[k] = SubSeq(text, Behind(P, k) + 1, CutEnd(text, P, k))
          /\ Behind(P, k) \in Nat /\ CutEnd(text, P, k) \in Nat
          /\ Behind(P, k) <= CutEnd(text, P, k) /\ CutEnd(text, P, k) <= Len(text)
          /\ \A i \in (Behind(P, k) + 1)..CutEnd(text, P, k) : i \notin P
          /\ k > 1 => Behind(P, k) = Ascending(P)[k - 1] /\ Ascending(P)[k - 1] \in P
                      /\ CutEnd(text, P, k - 1) = Ascending(P)[k - 1] - 1
          /\ k # Cardinality(P) + 1 =>
                CutEnd(text, P, k) + 1 = Ascending(P)[k] /\ Ascending(P)[k] \in P
                /\ Behind(P, k + 1) = Ascending(P)[k]
      BY Zenon, <3>1, CutsLeaveNoPlace
    <3> HIDE DEF n
    <3>3. QED
      BY Zenon, <2>1, <3>2
  <2>4. SegmentsOf(text, shape) = FlattenSeq(lists)
    <3>1. SegmentsOf(text, shape)
            = FlattenSeq([k \in DOMAIN lines |->
                (IF k = 1 THEN << >> ELSE <<Segment(<<Newline>>, "")>>) \o LineSegments(lines[k])])
      BY Zenon, <1>b DEF SegmentsOf, P
    <3> HIDE DEF lines
    <3>2. QED
      BY Zenon, <2>2, <3>1
  <2>5. told[0] = << >>
    <3>1. 0 \in 0..(m + 1)
      BY <2>2
    <3>2. QED
      BY <3>1
  <2> HIDE DEF P, n, m, at, lines, b, e
  <2>t. \A j \in 0..(m+1) : j # 0 => told[j] = SubSeq(text, 1, e(j))
    BY Zenon
  <2>6. ASSUME NEW k \in 1..(m + 1)
        PROVE  \E piece : Paints(C, lists[k], piece) /\ told[k] = told[k-1] \o piece
    <3> DEFINE lo == b(k)
               hi == e(k)
               u == lines[k]
    <3>1. lists[k] = lead(k) \o LineSegments(u)
      OBVIOUS
    <3>2. lo \in Nat /\ hi \in Nat /\ lo <= hi /\ hi <= Len(text) /\ u = SubSeq(text, lo + 1, hi)
          /\ k \in 0..(m+1) /\ k - 1 \in 0..(m+1) /\ k # 0 /\ 0 + 1 = 1
      BY SMTT(40), <2>1, <2>2, <2>3 DEF n
    <3>3. told[k] = SubSeq(text, 1, hi)
      BY Zenon, <2>t, <3>2
    <3> HIDE DEF u, lists
    <3>4. u \in Seq(C)
      BY <3>2, StretchesJoin
    <3>5. Paints(C, LineSegments(u), u)
      BY <3>4, LineSegmentsPaint
    <3>6. CASE k = 1
      <4>1. lo = 0 /\ k - 1 = 0
        BY <2>2, <3>6
      <4>2. told[k] = u
        BY <3>2, <3>3, <4>1
      <4>3. Paints(C, << >> \o LineSegments(u), << >> \o u)
        BY <3>5, NothingPaintsNothing, PaintedTogether
      <4>4. lists[k] = << >> \o LineSegments(u)
        BY Zenon, <3>1, <3>6
      <4>5. told[k] = told[k-1] \o (<< >> \o u)
        <5>1. << >> \o (<< >> \o u) = u
          BY <3>4
        <5>2. told[k-1] = << >>
          BY Zenon, <2>5, <4>1
        <5> HIDE DEF told
        <5>3. QED
          BY Zenon, <4>2, <5>1, <5>2
      <4>6. QED
        BY Zenon, <4>3, <4>4, <4>5
    <3>7. CASE k # 1
      <4> DEFINE nl == <<Newline>>
                 t == told[k-1]
                 p == lo - 1
      <4>1. lo \in P /\ e(k - 1) = p /\ k - 1 # 0
        BY <2>3, <3>7
      <4>2. lo \in 1..Len(text) /\ text[lo] = Newline /\ p \in Nat /\ p + 1 = lo
        <5>1. lo \in P
          BY <4>1
        <5> HIDE DEF lo
        <5>2. lo \in 1..Len(text) /\ text[lo] = Newline
          BY <2>1, <5>1
        <5>3. QED
          BY <5>2
      <4>3. t = SubSeq(text, 0 + 1, p)
        <5>1. t = SubSeq(text, 1, e(k - 1))
          BY <2>t, <3>2, <4>1
        <5> HIDE DEF t, p
        <5>2. QED
          BY Zenon, <3>2, <4>1, <5>1
      <4> HIDE DEF lo, hi, told, p, t
      <4>4. SubSeq(text, lo, lo) = nl /\ Newline \in C
        BY <4>2, OneCharacter
      <4>5. t \o nl = SubSeq(text, 0 + 1, lo) /\ t \in Seq(C)
        <5>1. 0 \in Nat /\ 0 <= p /\ p <= lo /\ lo <= Len(text)
          BY <3>2, <4>2
        <5>2. SubSeq(text, 0 + 1, p) \o SubSeq(text, p + 1, lo) = SubSeq(text, 0 + 1, lo)
              /\ SubSeq(text, 0 + 1, p) \in Seq(C)
          BY <3>2, <4>2, <5>1, StretchesJoin
        <5>3. QED
          BY <4>2, <4>3, <4>4, <5>2
      <4>6. (t \o nl) \o u = SubSeq(text, 0 + 1, hi)
        <5>1. 0 \in Nat /\ 0 <= lo
          BY <3>2
        <5>2. SubSeq(text, 0 + 1, lo) \o SubSeq(text, lo + 1, hi) = SubSeq(text, 0 + 1, hi)
          BY <3>2, <5>1, StretchesJoin
        <5>3. QED
          BY <3>2, <4>5, <5>2
      <4>7. nl \in Seq(C)
        BY <4>4
      <4>8. Newline \notin Placeholders
        BY DEF Newline, Placeholders
      <4>9. Paints(C, <<Segment(nl, "")>>, nl)
        BY <1>0, <4>4, <4>8, ARolePaints
      <4>10. Paints(C, <<Segment(nl, "")>> \o LineSegments(u), nl \o u)
        BY <3>5, <4>9, PaintedTogether
      <4>11. lists[k] = <<Segment(nl, "")>> \o LineSegments(u)
        BY Zenon, <3>1, <3>7
      <4>12. (t \o nl) \o u = t \o (nl \o u)
        <5> HIDE DEF nl
        <5>1. t \in Seq(C) /\ nl \in Seq(C) /\ u \in Seq(C)
          BY <3>4, <4>5, <4>7
        <5>2. QED
          BY SMTT(40), <5>1
      <4>13. told[k] = told[k-1] \o (nl \o u)
        BY Zenon, <3>2, <3>3, <4>6, <4>12 DEF t
      <4>14. QED
        BY Zenon, <4>10, <4>11, <4>13
    <3>8. QED
      BY <3>6, <3>7
  <2>7. told[m+1] = text
    <3>1. told[m+1] = SubSeq(text, 1, n)
      <4>1. m + 1 \in 0..(m+1) /\ m + 1 # 0
        BY <2>2
      <4>2. told[m+1] = SubSeq(text, 1, e(m+1))
        BY <4>1
      <4>3. QED
        BY <2>2, <4>2
    <3>2. SubSeq(text, 1, n) = text
      BY SMTT(40) DEF n
    <3>3. QED
      BY <3>1, <3>2
  <2> DEFINE c == m + 1
  <2>8. c \in Nat /\ DOMAIN lists = 1..c /\ lists = [k \in 1..c |-> lists[k]]
    <3> HIDE DEF lead
    <3>1. QED
      BY <2>2
  <2> HIDE DEF lists, told
  <2>9. \A k \in 1..c : \E piece : Paints(C, lists[k], piece) /\ told[k] = told[k-1] \o piece
    BY <2>6
  <2> HIDE DEF c
  <2>10. Paints(C, FlattenSeq(lists), told[c])
    BY <2>5, <2>8, <2>9, PaintedPieceByPiece
  <2>11. QED
    BY <2>4, <2>7, <2>10 DEF c
<1>c. QED
  BY <1>a, <1>b

(* A copy to colour is a list of characters.                                *)
CopyQuestions == Asked("copy") => question.text \in Seq(Range(question.text))

(* A coloured copy is the copy.                                             *)
LEMMA CopiesAreTheCopy == CopyQuestions => AColouredCopyIsTheCopy
<1> SUFFICES ASSUME CopyQuestions, Asked("copy")
             PROVE  LET painted == SegmentsOf(question.text, question.shape)
                    IN  /\ FlattenSeq([i \in DOMAIN painted |-> painted[i].text]) = question.text
                        /\ \A i \in DOMAIN painted : \A j \in DOMAIN painted[i].text :
                             painted[i].text[j] \in Placeholders =>
                               painted[i].token \/ painted[i].role = "key"
  BY Zenon DEF AColouredCopyIsTheCopy
<1> DEFINE painted == SegmentsOf(question.text, question.shape)
<1>1. Paints(Range(question.text), painted, question.text)
  BY SegmentsPaint DEF CopyQuestions
<1> HIDE DEF painted
<1>2. QED
  BY Zenon, <1>1 DEF Paints, TextsIn, Clean, painted

-----------------------------------------------------------------------------
(* The forms and the copies, asked any number of questions.                  *)
PageQuestions == FormQuestions /\ CopyQuestions

AnyPage == PageQuestions /\ [][UNCHANGED question]_question

LEMMA PageQuestionsStay == AnyPage => []PageQuestions
<1>1. PageQuestions /\ [UNCHANGED question]_question => PageQuestions'
  <2> SUFFICES ASSUME PageQuestions, [UNCHANGED question]_question PROVE PageQuestions'
    OBVIOUS
  <2>1. question' = question
    OBVIOUS
  <2>2. QED
    BY <2>1 DEF PageQuestions, FormQuestions, CopyQuestions, Asked
<1>2. QED
  BY <1>1, PTL DEF AnyPage

(* For any form, answers and statement of the counterparty: what the letter of *)
(* the hearing names is what the submission says, and a statement sent as it  *)
(* was prefilled contradicts the application in none of the four values it   *)
(* carries (demo/gegenpartei.py).                                            *)
THEOREM HearingsReadTheSubmission == AnyPage => []TheHearingReadsTheSubmission
<1>1. PageQuestions => TheHearingReadsTheSubmission
  BY HearingsRead DEF PageQuestions
<1>2. QED
  BY <1>1, PageQuestionsStay, PTL

(* For any form whose boxes have names of their own and whose lists all have *)
(* an answer: shown again after a refusal and sent again untouched, it is the *)
(* same submission (demo/personas.py, api/app.py).                           *)
THEOREM RefusedFormsPostTheSame ==
  AnyPage /\ []EachBoxAnswersOnce => []ARefusedFormPostsTheSame
<1>1. PageQuestions /\ EachBoxAnswersOnce => ARefusedFormPostsTheSame
  BY FormsPostTheSame DEF PageQuestions, EachBoxAnswersOnce, ARefusedFormPostsTheSame
<1>2. QED
  BY <1>1, PageQuestionsStay, PTL

(* For any working copy: coloured, it has the same characters in the same    *)
(* order, and a placeholder outside a key is alone in its segment (demo.py). *)
THEOREM ColouringLosesNothing == AnyPage => []AColouredCopyIsTheCopy
<1>1. PageQuestions => AColouredCopyIsTheCopy
  BY CopiesAreTheCopy DEF PageQuestions
<1>2. QED
  BY <1>1, PageQuestionsStay, PTL
=============================================================================
