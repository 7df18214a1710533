---------------------------- MODULE HorizonClient ----------------------------
(***************************************************************************)
(* HorizonClient: what a pipeline run loads from Horizon for one pair.     *)
(* First the trades, page by page from the newest down to the cutoff; then *)
(* the creation operation of each account in them, the order book events   *)
(* of the pair and each account's path payments, one request each.  The    *)
(* asynchronous pipeline has several requests in flight (gather), under a  *)
(* semaphore; the synchronous one a single request.  Each request is       *)
(* retried (ingestion/http_client.py).                                     *)
(*                                                                         *)
(* Horizon keeps answering or failing as it likes, and trades go on while  *)
(* the pages are read.  A trade is its place in time.                      *)
(***************************************************************************)
EXTENDS Integers, FiniteSets, Sequences

CONSTANTS
    Accounts,        \* the accounts that trade
    Parties,         \* the accounts of each trade, by its place in time
    Before,          \* trades up to this one are older than the cutoff
    Initial,         \* trades there are when the load starts
    PageLimit,       \* PAGE_LIMIT
    MaxRetries,      \* max_retries
    MaxConcurrency   \* max_concurrency

ASSUME HorizonAssumption ==
    /\ IsFiniteSet(Accounts)
    /\ Parties \in Seq(SUBSET Accounts)
    /\ Before \in Nat
    /\ Initial \in Nat
    /\ Before <= Initial
    /\ Initial <= Len(Parties)
    /\ PageLimit \in Nat \ {0}
    /\ MaxRetries \in Nat
    /\ MaxConcurrency \in Nat \ {0}

\* What is requested: pages of trades, and one request each for the rest.
Request == {<<"trades">>, <<"events">>} \cup ({"metadata", "payments"} \X Accounts)
\* The stages of a pair; "raised": an exception left the pipeline.
Stage == {"idle", "trades", "details", "payments", "done", "raised"}

VARIABLES
    mode,      \* "sync": run, get_with_retry; "async": async_run, AsyncHorizonClient
    stage,     \* what the pipeline waits for
    wanted,    \* requests of the stage that have not returned
    pc,        \* where each request is
    tries,     \* attempts each request has made
    permits,   \* what is left of the semaphore
    refused,   \* history: Horizon answered a request with an error that is not retried
    cursor,    \* the next page holds trades older than this one
    records,   \* the trades loaded
    newest,    \* Horizon: the latest trade
    first      \* history: the latest trade when the first page was read

load == <<mode, stage, wanted>>
requests == <<pc, tries, permits, refused>>
paging == <<cursor, records, first>>
vars == <<load, requests, paging, newest>>

\* A request that has not been sent, waits for the semaphore, is in flight,
\* sleeps before it is tried again, has returned or raised, or was given up
\* with the event loop.
Control == {"new", "wait", "flight", "sleep", "returned", "raised", "cancelled"}

Init ==
    /\ mode \in {"sync", "async"}
    /\ stage = "idle"
    /\ wanted = {}
    /\ pc = [r \in Request |-> "new"]
    /\ tries = [r \in Request |-> 0]
    /\ permits = MaxConcurrency
    /\ refused = {}
    /\ cursor = Len(Parties) + 1
    /\ records = <<>>
    /\ newest = Initial
    /\ first = 0

-----------------------------------------------------------------------------
Trading ==
    /\ newest < Len(Parties)
    /\ newest' = newest + 1
    /\ UNCHANGED <<load, requests, paging>>

\* The pipeline comes to the pair.
Start ==
    /\ stage = "idle"
    /\ stage' = "trades"
    /\ wanted' = {<<"trades">>}
    /\ UNCHANGED <<mode, requests, paging, newest>>

Running == stage \in {"trades", "details", "payments"}

\* The request is made: gather makes all of its tasks at once, the synchronous
\* loader one after another, the metadata before the events.
Call(r) ==
    /\ Running
    /\ r \in wanted
    /\ pc[r] = "new"
    /\ mode = "sync" =>
          /\ \A q \in Request : pc[q] \notin {"wait", "flight", "sleep"}
          /\ r = <<"events">> => wanted = {r}
    /\ pc' = [pc EXCEPT ![r] = "wait"]
    /\ UNCHANGED <<load, tries, permits, refused, paging, newest>>

\* Mutation: each call has a semaphore of its own.
AcquiredAlone == permits' = permits
\* async with self._semaphore; the synchronous client, with one request at a
\* time, needs none.
Acquired == permits > 0 /\ permits' = permits - 1

\* The attempt is made.  A closed client sends nothing.
Send(r) ==
    /\ Running
    /\ pc[r] = "wait"
    /\ Acquired
    /\ pc' = [pc EXCEPT ![r] = "flight"]
    /\ tries' = [tries EXCEPT ![r] = @ + 1]
    /\ UNCHANGED <<load, refused, paging, newest>>

\* Mutation: the permit is kept.
Kept == permits' = permits
\* The permit is given back, however the round trip ended.
Released == permits' = permits + 1

\* for attempt in range(max_retries + 1)
LastTry(r) == tries[r] = MaxRetries + 1

\* A transport error (a timeout of 30 seconds among them) or a retryable status:
\* the request sleeps and is tried again, or raises after its last attempt.
TryFails(r) ==
    /\ pc[r] = "flight"
    /\ Released
    /\ IF LastTry(r)
          THEN pc' = [pc EXCEPT ![r] = "raised"]
          ELSE pc' = [pc EXCEPT ![r] = "sleep"]
    /\ UNCHANGED <<load, tries, refused, paging, newest>>

\* The sleep ends.
Retry(r) ==
    /\ pc[r] = "sleep"
    /\ pc' = [pc EXCEPT ![r] = "wait"]
    /\ UNCHANGED <<load, tries, permits, refused, paging, newest>>

\* raise_for_status of any other error, or a body that is no JSON.
Refuse(r) ==
    /\ pc[r] = "flight"
    /\ Released
    /\ pc' = [pc EXCEPT ![r] = "raised"]
    /\ refused' = refused \cup {r}
    /\ UNCHANGED <<load, tries, paging, newest>>

-----------------------------------------------------------------------------
\* Mutation: the next page is asked for by how many trades have been read.
AskedByOffset == newest - Len(records)
\* The trade the requested page begins with: the newest one for the first
\* request, then the one the next link leads to, whatever was added since.
Asked == IF cursor > newest THEN newest ELSE cursor - 1

\* Horizon: the page that begins with this trade, the newest first.
Page == LET n == IF Asked < PageLimit THEN Asked ELSE PageLimit
        IN  [k \in 1..n |-> Asked + 1 - k]

\* The page up to its first trade that is older than the cutoff:
\* if close_time < cutoff: return
Recent(page) ==
    LET older == {i \in DOMAIN page : page[i] <= Before}
    IN  IF older = {} THEN page
        ELSE SubSeq(page, 1, (CHOOSE i \in older : \A j \in older : i <= j) - 1)

\* The accounts of the loaded trades.
Involved(trades) == UNION {Parties[trades[i]] : i \in DOMAIN trades}

\* A page is there.  It is the last one if it is empty or reaches beyond the
\* cutoff; otherwise its next link is requested.
PageArrives ==
    LET kept == Recent(Page)
        last == Page = <<>> \/ Len(kept) < Len(Page)
        r == <<"trades">>
    IN  /\ pc[r] = "flight"
        /\ Released
        /\ first' = IF cursor > Len(Parties) THEN newest ELSE first
        /\ records' = records \o kept
        /\ cursor' = IF Page = <<>> THEN cursor ELSE Page[Len(Page)]
        /\ tries' = [tries EXCEPT ![r] = 0]
        /\ pc' = [pc EXCEPT ![r] = IF last THEN "returned" ELSE "new"]
        /\ wanted' = IF last THEN {} ELSE wanted
        /\ UNCHANGED <<mode, stage, refused, newest>>

\* Any other answer.
Answer(r) ==
    /\ r # <<"trades">>
    /\ pc[r] = "flight"
    /\ Released
    /\ pc' = [pc EXCEPT ![r] = "returned"]
    /\ wanted' = wanted \ {r}
    /\ UNCHANGED <<mode, stage, tries, refused, paging, newest>>

\* Mutation: the next stage does not wait for the events.
JoinedButEvents == wanted \subseteq {<<"events">>}
\* await gather(...), or the loops of the synchronous loaders, are through.
Joined == wanted = {}

\* The pipeline goes on to the next stage; a pair without trades is skipped.
Proceed ==
    /\ Joined
    /\ \/ /\ stage = "trades" /\ records = <<>>
          /\ stage' = "done"
          /\ UNCHANGED wanted
       \/ /\ stage = "trades" /\ records # <<>>
          /\ stage' = "details"
          /\ wanted' = {<<"events">>} \cup ({"metadata"} \X Involved(records))
       \/ /\ stage = "details"
          /\ stage' = "payments"
          /\ wanted' = {"payments"} \X Involved(records)
       \/ /\ stage = "payments"
          /\ stage' = "done"
          /\ UNCHANGED wanted
    /\ UNCHANGED <<mode, requests, paging, newest>>

\* gather raises its first exception, the client is closed.
Raise ==
    /\ Running
    /\ \E r \in wanted : pc[r] = "raised"
    /\ stage' = "raised"
    /\ UNCHANGED <<mode, wanted, requests, paging, newest>>

\* asyncio.run cancels the tasks that are left.
Cancel(r) ==
    /\ stage = "raised"
    /\ pc[r] \in {"wait", "flight", "sleep"}
    /\ pc' = [pc EXCEPT ![r] = "cancelled"]
    /\ permits' = IF pc[r] = "flight" THEN permits + 1 ELSE permits
    /\ UNCHANGED <<load, tries, refused, paging, newest>>

Step(r) ==
    Call(r) \/ Send(r) \/ TryFails(r) \/ Retry(r) \/ Refuse(r) \/ Answer(r) \/ Cancel(r)

Next == Trading \/ Start \/ PageArrives \/ Proceed \/ Raise \/ \E r \in Request : Step(r)

Spec == Init /\ [][Next]_vars

\* Every request in flight ends in some way (timeout=30.0), sleeps end, the
\* event loop runs what can run.
Fairness ==
    /\ WF_vars(PageArrives \/ Proceed \/ Raise)
    /\ \A r \in Request : WF_vars(Step(r))

FairSpec == Spec /\ Fairness

-----------------------------------------------------------------------------
InFlight == {r \in Request : pc[r] = "flight"}

\* The type invariant of a load and of Horizon's trades.
TypeOK ==
    /\ mode \in {"sync", "async"}
    /\ stage \in Stage
    /\ wanted \subseteq Request
    /\ pc \in [Request -> Control]
    /\ tries \in [Request -> 0..(MaxRetries + 1)]
    /\ permits \in Nat
    /\ refused \subseteq Request
    /\ cursor \in 1..(Len(Parties) + 1)
    /\ records \in Seq(1..Len(Parties))
    /\ newest \in Initial..Len(Parties)
    /\ first \in 0..newest

\* No more than max_concurrency requests are in flight at once, one for the
\* synchronous pipeline, also after some have timed out, were refused or sleep.
InFlightBounded ==
    /\ Cardinality(InFlight) <= MaxConcurrency
    /\ mode = "sync" => Cardinality(InFlight) <= 1

\* The trades a run scores are those that there were when its first page was
\* read, back to the cutoff, each once and in order, however many trades were
\* added while it read and however often a page was tried again.
PagesComplete ==
    stage \in {"details", "payments", "done"} =>
        records = [k \in 1..(first - Before) |-> first + 1 - k]

\* A run gives up only for a request that has had all its attempts, or that
\* Horizon refused; and it goes on only with every answer it asked for.
FailedWasTried ==
    /\ \A r \in Request :
          pc[r] = "raised" => r \in refused \/ tries[r] = MaxRetries + 1
    /\ stage = "raised" => \E r \in Request : pc[r] = "raised"
    /\ stage = "done" => \A r \in Request : pc[r] \in {"new", "returned"}
    /\ stage = "done" /\ records # <<>> =>
          \A a \in Involved(records) :
             pc[<<"metadata", a>>] = "returned" /\ pc[<<"payments", a>>] = "returned"

\* Every load ends, with all its data or with an exception: no permit is lost
\* to a failed attempt, nobody waits for ever.
LoadsEnd == Running ~> ~Running
=============================================================================
