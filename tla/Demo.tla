-------------------------------- MODULE Demo --------------------------------
(***************************************************************************)
(* The two-party loop of the demo instance: the store in RAM               *)
(* (engine/demo/store.py) and the handlers that use it (api/app.py).  The   *)
(* two POST handlers are coroutines without an await after the form is      *)
(* read, so the event loop is inside one of them at a time; the GET         *)
(* handlers are plain functions and run in the thread pool beside it.  The  *)
(* store has no lock: each of its calls begins with a sweep that walks a    *)
(* dictionary and then deletes from it, key by key.                         *)
(***************************************************************************)
EXTENDS Naturals, Sequences, Functions

CONSTANTS
  Loop,       \* the event loop
  Viewer,     \* threads that answer a GET
  TTL,        \* how long an entry and a link are held
  TokenSet,   \* whether the deployment has configured an ingest token
  Capacity,   \* how many of each are held
  Patience,   \* how long a handler can take
  MaxTime,    \* bound on the clock
  MaxCases    \* bound on the submissions that become a case

ASSUME DemoAssumption ==
  /\ Loop \notin Viewer /\ TokenSet \in BOOLEAN
  /\ TTL \in Nat \ {0} /\ Capacity \in Nat \ {0}
  /\ Patience \in Nat /\ Patience < TTL   \* a request does not take half an hour
  /\ MaxTime \in Nat /\ MaxCases \in Nat

Actor == Viewer \cup {Loop}

VARIABLES
  now,
  entries,   \* the submissions held, oldest first
  links,     \* the requests held, oldest first
  cases,     \* the cases the demo has journaled, in order
  asked,     \* every request ever recorded; its index is its token
  act        \* the handler each actor is inside of

vars == <<now, entries, links, cases, asked, act>>

None == [none |-> TRUE]
Entry == [id : 1 .. MaxCases, at : 0 .. MaxTime]
Link == [id : 1 .. MaxCases, case : 1 .. MaxCases, at : 0 .. MaxTime,
         statement : 0 .. MaxCases]
Case == [kind : {"intake"}, hears : BOOLEAN] \cup [kind : {"statement"}, of : 1 .. MaxCases]

(* Mutant: a statement asks for one as an application does. *)
CallsBoth(page) ==
  CASE page = "pipeline"  -> <<"get", "link_for_case">>
    [] page = "review"    -> <<"link_for_case">>
    [] page = "party"     -> <<"link_by_token">>
    [] page = "intake"    -> <<"ingest", "put", "request_statement">>
    [] page = "statement" -> <<"link_by_token", "ingest", "put", "request_statement",
                               "record_statement", "attach">>

(* The calls of a handler, in order.  A page of the counterparty and the     *)
(* cross-link of the review page make one call each.                        *)
Calls(page) ==
  CASE page = "pipeline"  -> <<"get", "link_for_case">>
    [] page = "review"    -> <<"link_for_case">>
    [] page = "party"     -> <<"link_by_token">>
    [] page = "intake"    -> <<"ingest", "put", "request_statement">>
    [] page = "statement" -> <<"link_by_token", "ingest", "put", "record_statement", "attach">>

StoreCall == {"get", "link_for_case", "link_by_token", "put", "request_statement",
              "record_statement"}

Idle == [page |-> "idle"]

(* A handler: what it was asked for, the clock it read, the calls left, the *)
(* sweep the current call is in, and what the store gave it.                *)
Handler(page, arg) ==
  [page |-> page, arg |-> arg, moment |-> now, calls |-> Calls(page), dict |-> "entries",
   phase |-> "start", keys |-> <<>>, at |-> 1, todo |-> <<>>,
   case |-> 0, held |-> None, link |-> None]

Keys(d) == [i \in DOMAIN d |-> d[i].id]
Find(d, id) == IF \E i \in DOMAIN d : d[i].id = id
               THEN d[CHOOSE i \in DOMAIN d : d[i].id = id] ELSE None
Without(d, n) == SubSeq(d, 1, n - 1) \o SubSeq(d, n + 1, Len(d))
Drop(d, id) == Without(d, CHOOSE i \in DOMAIN d : d[i].id = id)

(* Mutant: what is exactly as old as the TTL is still held. *)
ExpiredLate(e, moment) == e.at + TTL < moment

Expired(e, moment) == e.at + TTL <= moment

(* popitem(last=False) while there are too many. *)
Bounded(d) == SubSeq(d, IF Len(d) > Capacity THEN Len(d) - Capacity + 1 ELSE 1, Len(d))

Init ==
  /\ now = 0 /\ entries = <<>> /\ links = <<>> /\ cases = <<>> /\ asked = <<>>
  /\ act = [a \in Actor |-> Idle]

-----------------------------------------------------------------------------
(* The sweep. *)

Of(dict) == IF dict = "entries" THEN entries ELSE links
Put(dict, d) == IF dict = "entries" THEN entries' = d /\ UNCHANGED links
                                    ELSE links' = d /\ UNCHANGED entries

(* The response is sent: a page, a redirect or the error page of a raise. *)
Leave(a) == act' = [act EXCEPT ![a] = Idle]
Continue(a, h) == act' = [act EXCEPT ![a] = h]

Busy(a) == act[a].page # "idle"
AtCall(a, name) == /\ Busy(a) /\ act[a].calls # <<>> /\ Head(act[a].calls) = name
                   /\ act[a].phase = IF name \in StoreCall THEN "swept" ELSE "start"

(* statement_request: a case without a second party earns none. *)
Skipped(h) == /\ Head(h.calls) = "request_statement"
              /\ cases[h.case].kind = "intake" /\ ~cases[h.case].hears

(* The list comprehension over the items starts. *)
StartScan(a) ==
  /\ Busy(a) /\ act[a].calls # <<>> /\ Head(act[a].calls) \in StoreCall
  /\ act[a].phase = "start" /\ ~Skipped(act[a])
  /\ Continue(a, [act[a] EXCEPT !.phase = "scan", !.keys = Keys(Of(act[a].dict)),
                                !.at = 1, !.todo = <<>>])
  /\ UNCHANGED <<now, entries, links, cases, asked>>

(* One item of it: RuntimeError when the dictionary has lost or gained a key *)
(* since the walk began.                                                    *)
Scan(a) ==
  LET h == act[a]
      d == Of(h.dict)
  IN
  /\ Busy(a) /\ h.phase = "scan"
  /\ IF h.at > Len(h.keys) THEN Continue(a, [h EXCEPT !.phase = "drop"])
     ELSE IF Keys(d) # h.keys THEN Leave(a)
     ELSE Continue(a, [h EXCEPT !.at = @ + 1,
            !.todo = IF Expired(d[h.at], h.moment) THEN Append(@, h.keys[h.at]) ELSE @])
  /\ UNCHANGED <<now, entries, links, cases, asked>>

(* One deletion: KeyError when another thread has made it already. *)
Delete(a) ==
  LET h == act[a] IN
  /\ Busy(a) /\ h.phase = "drop" /\ h.todo # <<>>
  /\ IF Find(Of(h.dict), Head(h.todo)) = None
     THEN Leave(a) /\ UNCHANGED <<entries, links>>
     ELSE /\ Put(h.dict, Drop(Of(h.dict), Head(h.todo)))
          /\ Continue(a, [h EXCEPT !.todo = Tail(@)])
  /\ UNCHANGED <<now, cases, asked>>

(* The entries are swept first, then the links; then the call does its work. *)
EndSweep(a) ==
  LET h == act[a] IN
  /\ Busy(a) /\ h.phase = "drop" /\ h.todo = <<>>
  /\ Continue(a, IF h.dict = "entries"
                 THEN [h EXCEPT !.dict = "links", !.phase = "start"]
                 ELSE [h EXCEPT !.phase = "swept"])
  /\ UNCHANGED <<now, entries, links, cases, asked>>

(* The handler h after its current call. *)
Returned(h) == [h EXCEPT !.calls = Tail(@), !.dict = "entries", !.phase = "start",
                         !.keys = <<>>, !.at = 1]

-----------------------------------------------------------------------------
(* What a call does after its sweep. *)

Get(a) ==
  /\ AtCall(a, "get")
  /\ Continue(a, Returned([act[a] EXCEPT !.held = Find(entries, act[a].arg)]))
  /\ UNCHANGED <<now, entries, links, cases, asked>>

(* Mutant: only a request that is gone takes no statement. *)
ClosedWhenGone(link) == link = None

(* Expired, never asked, or answered: there is nothing to submit. *)
Closed(link) == link = None \/ link.statement # 0

LinkByToken(a) ==
  LET h == act[a]
      link == Find(links, h.arg)
  IN
  /\ AtCall(a, "link_by_token")
  /\ IF h.page = "statement" /\ Closed(link)
     THEN Leave(a)        \* 303 to the page that says which of the two it is
     ELSE Continue(a, Returned([h EXCEPT !.link = link]))
  /\ UNCHANGED <<now, entries, links, cases, asked>>

(* The newest link this case is on either end of. *)
LinksOf(id) == {i \in DOMAIN links : id \in {links[i].case, links[i].statement}}

LinkForCase(a) ==
  LET found == LinksOf(act[a].arg) IN
  /\ AtCall(a, "link_for_case")
  /\ Continue(a, Returned([act[a] EXCEPT !.link =
       IF found = {} THEN None
       ELSE links[CHOOSE i \in found : \A j \in found : j <= i]]))
  /\ UNCHANGED <<now, entries, links, cases, asked>>

(* Its walk over the links meets a deletion of another thread. *)
LookupRaises(a) ==
  /\ AtCall(a, "link_for_case") /\ links # <<>>
  /\ \E b \in Actor \ {a} :
       Busy(b) /\ act[b].dict = "links" /\ act[b].phase = "drop" /\ act[b].todo # <<>>
  /\ Leave(a)
  /\ UNCHANGED <<now, entries, links, cases, asked>>

(* run_ingest: refused by the boundary, or one more case in the journal. *)
IngestRefused(a) ==
  /\ AtCall(a, "ingest") /\ Leave(a)
  /\ UNCHANGED <<now, entries, links, cases, asked>>

Ingest(a) ==
  LET h == act[a] IN
  /\ AtCall(a, "ingest") /\ Len(cases) < MaxCases
  /\ \E hears \in BOOLEAN :   \* a Statusfeststellung that names an Auftraggeber
       cases' = Append(cases, IF h.page = "intake" THEN [kind |-> "intake", hears |-> hears]
                                                   ELSE [kind |-> "statement", of |-> h.arg])
  /\ Continue(a, [Returned(h) EXCEPT !.case = Len(cases) + 1])
  /\ UNCHANGED <<now, entries, links, asked>>

PutEntry(a) ==
  /\ AtCall(a, "put")
  /\ entries' = Bounded(Append(entries, [id |-> act[a].case, at |-> act[a].moment]))
  /\ Continue(a, Returned(act[a]))
  /\ UNCHANGED <<now, links, cases, asked>>

RequestStatement(a) ==
  LET h == act[a]
      link == [id |-> Len(asked) + 1, case |-> h.case, at |-> h.moment, statement |-> 0]
  IN
  /\ AtCall(a, "request_statement")
  /\ asked' = Append(asked, link)
  /\ links' = Bounded(Append(links, link))
  /\ Continue(a, Returned(h))
  /\ UNCHANGED <<now, entries, cases>>

(* A case without one: the handler ends with the entry. *)
NothingToRequest(a) ==
  /\ Busy(a) /\ act[a].calls # <<>> /\ act[a].phase = "start"
  /\ Skipped(act[a]) /\ Leave(a)
  /\ UNCHANGED <<now, entries, links, cases, asked>>

(* record_statement finds the link again, or the answer is not linked. *)
RecordStatement(a) ==
  LET link == Find(links, act[a].arg) IN
  /\ AtCall(a, "record_statement")
  /\ IF link = None THEN Leave(a) ELSE Continue(a, Returned([act[a] EXCEPT !.link = link]))
  /\ UNCHANGED <<now, entries, links, cases, asked>>

(* Mutant: an answer renews the link. *)
AnsweredAnew(h) == [h.link EXCEPT !.statement = h.case, !.at = h.moment]

(* replace(link, ...): the link keeps its clock. *)
Answered(h) == [h.link EXCEPT !.statement = h.case]

(* self._links[token] = answered: in its place, or at the end when a thread  *)
(* has removed it since.                                                    *)
Attach(a) ==
  LET h == act[a] IN
  /\ AtCall(a, "attach")
  /\ links' = IF Find(links, h.arg) = None THEN Append(links, Answered(h))
              ELSE [i \in DOMAIN links |-> IF links[i].id = h.arg THEN Answered(h) ELSE links[i]]
  /\ Continue(a, Returned(h))
  /\ UNCHANGED <<now, entries, cases, asked>>

-----------------------------------------------------------------------------
(* What arrives. *)

Browse(v) ==
  /\ ~Busy(v)
  /\ \/ \E page \in {"pipeline", "review"}, id \in DOMAIN cases : Continue(v, Handler(page, id))
     \/ \E token \in DOMAIN asked : Continue(v, Handler("party", token))
  /\ UNCHANGED <<now, entries, links, cases, asked>>

(* The page is rendered, or the browser is sent to the page of the case. *)
Respond(a) ==
  /\ Busy(a) /\ act[a].calls = <<>> /\ Leave(a)
  /\ UNCHANGED <<now, entries, links, cases, asked>>

(* check_ingest: the handlers present the deployment's own token, so they are *)
(* refused exactly when there is none.                                      *)
Admitted == TokenSet

Submit ==
  /\ ~Busy(Loop) /\ Admitted /\ Len(cases) < MaxCases
  /\ Continue(Loop, Handler("intake", 0))
  /\ UNCHANGED <<now, entries, links, cases, asked>>

Answer(token) ==
  /\ ~Busy(Loop) /\ Admitted /\ Len(cases) < MaxCases
  /\ Continue(Loop, Handler("statement", token))
  /\ UNCHANGED <<now, entries, links, cases, asked>>

Tick ==
  /\ now < MaxTime /\ now' = now + 1
  /\ \A a \in Actor : Busy(a) => now < act[a].moment + Patience
  /\ UNCHANGED <<entries, links, cases, asked, act>>

(* A new process with the state directories kept (EINGANGSLOTSE_SKIP_SEED):   *)
(* the journal survives, the store does not.                                *)
Restart ==
  /\ cases # <<>> /\ entries' = <<>> /\ links' = <<>>
  /\ act' = [a \in Actor |-> Idle]
  /\ UNCHANGED <<now, cases, asked>>

Step(a) ==
  \/ StartScan(a) \/ Scan(a) \/ Delete(a) \/ EndSweep(a)
  \/ Get(a) \/ LinkByToken(a) \/ LinkForCase(a) \/ LookupRaises(a)
  \/ IngestRefused(a) \/ Ingest(a) \/ PutEntry(a)
  \/ RequestStatement(a) \/ NothingToRequest(a) \/ RecordStatement(a) \/ Attach(a) \/ Respond(a)

Next ==
  \/ \E a \in Actor : Step(a)
  \/ \E v \in Viewer : Browse(v)
  \/ Submit \/ \E token \in DOMAIN asked : Answer(token)
  \/ Tick \/ Restart

Spec == Init /\ [][Next]_vars

-----------------------------------------------------------------------------
OnPages == UNION {{act[a].link} \ {None} : a \in {b \in Actor : Busy(b)}}

(* Expiry and absence are one: no page shows a submission, and none shows or *)
(* takes an answer to a request, that was as old as the TTL at the moment    *)
(* the handler read the clock, however the sweeps of the other threads fall *)
(* into its own (engine/demo/store.py DemoStore.get, link_by_token).  A link *)
(* that has its answer can be put back by Attach after its time.            *)
NothingExpiredIsShown ==
  \A a \in Actor : Busy(a) =>
    /\ act[a].held # None => act[a].moment < act[a].held.at + TTL
    /\ act[a].link # None /\ act[a].link.statement = 0
         => act[a].moment < act[a].link.at + TTL

(* A correlation says what was asked: it names the case and the clock of its *)
(* request, made for an application with a second party, for as long as it   *)
(* is held, so an answer extends nothing, and the statement it names was     *)
(* submitted for this request and no other.  A case is on one link at most,  *)
(* so that link_for_case, the one finder for both ends, does not answer by   *)
(* which of two links is the newer.                                          *)
CorrelationIsTrue ==
  /\ Range(cases) \subseteq Case
  /\ \A l \in Range(links) \cup OnPages :
       /\ l \in Link /\ cases[l.case] = [kind |-> "intake", hears |-> TRUE]
       /\ l.case = asked[l.id].case /\ l.at = asked[l.id].at
       /\ l.statement # 0 => cases[l.statement] = [kind |-> "statement", of |-> l.id]
       /\ \A k \in Range(links) :
            {k.case, k.statement} \cap {l.case, l.statement} \subseteq {0} \/ k.id = l.id

(* "One request, at most one answer": a link that names a statement never    *)
(* comes to name another.                                                   *)
AnsweredOnce ==
  [][\A i \in DOMAIN links, j \in DOMAIN links' :
       links[i].id = links'[j].id /\ links[i].statement # 0
         => links'[j].statement = links[i].statement]_vars
=============================================================================
