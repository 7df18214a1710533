-------------------------- MODULE WebhookDelivery --------------------------
(***************************************************************************)
(* The webhook delivery subsystem: the SQLite table                        *)
(* webhook_delivery_queue, the subscriber registry it refers to, and the   *)
(* worker processes (`cli.py webhook-worker`) that poll the table and POST *)
(* each due row to its subscriber.                                         *)
(*                                                                         *)
(* A worker process is one asyncio event loop.  Between two awaits its     *)
(* tasks run without interleaving each other; other processes do           *)
(* interleave with them, at every database statement that matters here.    *)
(* The awaits are the round's semaphore and the POST.                      *)
(*                                                                         *)
(* Times are ticks; `now' advances only while some pending row is not yet  *)
(* due, since nothing in the code depends on later moments.                *)
(***************************************************************************)
EXTENDS Integers, FiniteSets

CONSTANTS
    Workers,        \* webhook-worker processes sharing the database file
    Rows,           \* ids of the queue rows that may be inserted
    Subscribers,    \* subscriber ids of the registry
    Owner,          \* [Rows -> Subscribers]: the row's subscriber_id column
    MaxAttempts,    \* MAX_ATTEMPTS of webhook_queue.py
    BaseDelay,      \* BASE_DELAY, in ticks
    MaxDelay,       \* MAX_DELAY, in ticks
    MaxConcurrent,  \* MAX_CONCURRENT of webhook_worker.py
    BatchLimit,     \* the `limit' of get_due_deliveries
    MaxCrashes,     \* bound: worker crashes in one behaviour
    MaxFaults,      \* bound: database errors raised inside a delivery task
    MaxTime         \* bound: last value of the clock

ASSUME ParameterAssumption ==
    /\ Owner \in [Rows -> Subscribers]
    /\ MaxAttempts \in Nat \ {0}
    /\ BaseDelay \in Nat \ {0}
    /\ MaxDelay \in Nat \ {0}
    /\ MaxConcurrent \in Nat \ {0}
    /\ BatchLimit \in Nat \ {0}
    /\ MaxCrashes \in Nat
    /\ MaxFaults \in Nat
    /\ MaxTime \in Nat

\* delay = min(2**attempt * BASE_DELAY, MAX_DELAY)
Backoff(attempt) ==
    LET delay == 2^attempt * BaseDelay
    IN  IF delay <= MaxDelay THEN delay ELSE MaxDelay

\* What the proofs need of exponentiation, which the provers do not interpret.
ASSUME BackoffAssumption ==
    \A attempt \in 1..MaxAttempts : Backoff(attempt) \in Nat \ {0}

VARIABLES
    subscriber,   \* [Subscribers -> SubscriberState]: the registry table
    status,       \* [Rows -> RowStatus]: the status column, "absent" before INSERT
    attempts,     \* [Rows -> Nat]: the attempt_count column
    nextAttempt,  \* [Rows -> Nat]: the next_attempt_at column
    now,          \* the clock
    loop,         \* [Workers -> LoopState]: where run_delivery_worker is
    round,        \* [Workers -> Rounds]: the round the loop awaits in gather
    tasks,        \* [Workers -> SUBSET Task]: live _deliver_one tasks
    crashes,      \* worker crashes so far
    faults,       \* database errors so far
    posts,        \* history: POSTs begun for the row
    received,     \* history: the rows some POST of which was answered 2xx
    failures      \* history: mark_failed calls completed for the row

table == <<status, attempts, nextAttempt>>
worker == <<loop, round, tasks>>
budget == <<crashes, faults>>
history == <<posts, received, failures>>
vars == <<subscriber, table, now, worker, budget, history>>

SubscriberState == {"absent", "active", "inactive"}
RowStatus == {"absent", "pending", "delivered", "dead"}
LoopState == {"sleeping", "gathering", "down"}

\* A round is told apart only from the other rounds of its worker that still
\* have a live task; a round is abandoned with live tasks only by a fault.
Rounds == 0..MaxFaults

\* "waiting"  : created by gather, not yet through the round's semaphore
\* "posting"  : suspended in client.post, the subscriber has not answered
\* "accepted" : the subscriber has taken the POST and answered 2xx
\* "marking"  : inside mark_failed, between its SELECT (which read `seen')
\*              and its UPDATE
TaskState == {"waiting", "posting", "accepted", "marking"}
Task == [row : Rows, round : Rounds, at : TaskState, seen : Nat]

Settled(r) == status[r] \in {"delivered", "dead"}

\* Mutation: the due query only selects rows never tried.
DueFirstTryOnly ==
    {r \in Rows : status[r] = "pending" /\ nextAttempt[r] <= now /\ attempts[r] = 0}
Due == {r \in Rows : status[r] = "pending" /\ nextAttempt[r] <= now}

\* Tasks between the semaphore's acquire and release.
Admitted(t) == t.at # "waiting"
Admissions(w, n) == {t \in tasks[w] : t.round = n /\ Admitted(t)}

\* mark_failed runs without an await: while one task of a process is inside
\* it, no other code of that process runs.
LoopFree(w) == \A t \in tasks[w] : t.at # "marking"

-----------------------------------------------------------------------------
Init ==
    /\ subscriber = [s \in Subscribers |-> "absent"]
    /\ status = [r \in Rows |-> "absent"]
    /\ attempts = [r \in Rows |-> 0]
    /\ nextAttempt = [r \in Rows |-> 0]
    /\ now = 0
    /\ loop = [w \in Workers |-> "sleeping"]
    /\ round = [w \in Workers |-> 0]
    /\ tasks = [w \in Workers |-> {}]
    /\ crashes = 0
    /\ faults = 0
    /\ posts = [r \in Rows |-> 0]
    /\ received = {}
    /\ failures = [r \in Rows |-> 0]

-----------------------------------------------------------------------------
(* The registry: POST /webhooks and DELETE /webhooks/{id}.                 *)

Register(s) ==
    /\ subscriber[s] = "absent"
    /\ subscriber' = [subscriber EXCEPT ![s] = "active"]
    /\ UNCHANGED <<table, now, worker, budget, history>>

Deactivate(s) ==
    /\ subscriber[s] = "active"
    /\ subscriber' = [subscriber EXCEPT ![s] = "inactive"]
    /\ UNCHANGED <<table, now, worker, budget, history>>

\* next_attempt_at of a fresh row.
FirstAttempt == now

\* enqueue does not look at the registry: its caller matched the subscriber
\* some time before, and the subscriber may have been deactivated since.
Enqueue(r) ==
    /\ status[r] = "absent"
    /\ subscriber[Owner[r]] # "absent"
    /\ status' = [status EXCEPT ![r] = "pending"]
    /\ attempts' = [attempts EXCEPT ![r] = 0]
    /\ nextAttempt' = [nextAttempt EXCEPT ![r] = FirstAttempt]
    /\ UNCHANGED <<subscriber, now, worker, budget, history>>

-----------------------------------------------------------------------------
(* One round of run_delivery_worker.                                       *)

\* SELECT ... WHERE pending AND next_attempt_at <= now
\*        ORDER BY next_attempt_at LIMIT ?     (ties in any order)
IsDueBatch(batch) ==
    /\ batch \subseteq Due
    /\ IsFiniteSet(batch) /\ Cardinality(batch) <= BatchLimit
    /\ Cardinality(batch) < BatchLimit => batch = Due
    /\ \A r \in batch, q \in Due \ batch : nextAttempt[r] <= nextAttempt[q]

\* The least round number none of the worker's live tasks carries.
IsFreshRound(w, n) ==
    /\ \A t \in tasks[w] : t.round # n
    /\ \A m \in 0..(n - 1) : \E t \in tasks[w] : t.round = m

\* The sleep has ended: fetch the due rows and, if there are any, create one
\* task per row under a new semaphore.  With none due the loop sleeps again.
Poll(w) ==
    /\ loop[w] = "sleeping"
    /\ LoopFree(w)
    /\ \E batch \in SUBSET Rows, n \in Rounds :
          /\ IsDueBatch(batch)
          /\ batch # {}
          /\ IsFreshRound(w, n)
          /\ tasks' = [tasks EXCEPT ![w] = @ \cup
                [row : batch, round : {n}, at : {"waiting"}, seen : {0}]]
          /\ round' = [round EXCEPT ![w] = n]
          /\ loop' = [loop EXCEPT ![w] = "gathering"]
    /\ UNCHANGED <<subscriber, table, now, budget, history>>

\* gather returns once every task of the round has returned.
EndRound(w) ==
    /\ loop[w] = "gathering"
    /\ \A t \in tasks[w] : t.round # round[w]
    /\ loop' = [loop EXCEPT ![w] = "sleeping"]
    /\ UNCHANGED <<subscriber, table, now, round, tasks, budget, history>>

-----------------------------------------------------------------------------
(* One task: _deliver_one and the _deliver it awaits.                      *)

Gone(w, t) == tasks' = [tasks EXCEPT ![w] = @ \ {t}]
Becomes(w, t, u) == tasks' = [tasks EXCEPT ![w] = (@ \ {t}) \cup {u}]

\* Mutation: a semaphore with one permit too many.
HasExtraPermit(w, t) == Cardinality(Admissions(w, t.round)) <= MaxConcurrent
\* A permit of the round's semaphore is free.
HasPermit(w, t) == Cardinality(Admissions(w, t.round)) < MaxConcurrent

\* A waiting task may pass the semaphore.
Permitted(w, t) == LoopFree(w) /\ t.at = "waiting" /\ HasPermit(w, t)

\* get_subscriber returned an active subscriber: the POST begins.
BeginPost(w, t) ==
    /\ Permitted(w, t)
    /\ subscriber[Owner[t.row]] = "active"
    /\ Becomes(w, t, [t EXCEPT !.at = "posting"])
    /\ posts' = [posts EXCEPT ![t.row] = @ + 1]
    /\ UNCHANGED <<subscriber, table, now, loop, round, budget,
                   received, failures>>

\* No active subscriber: the task returns and leaves the row as it is.
SkipInactive(w, t) ==
    /\ Permitted(w, t)
    /\ subscriber[Owner[t.row]] # "active"
    /\ Gone(w, t)
    /\ UNCHANGED <<subscriber, table, now, loop, round, budget, history>>

\* The subscriber takes the POST and answers 2xx.  The answer is on its way;
\* it may still be lost or arrive after the request's timeout.
Accept(w, t) ==
    /\ t.at = "posting"
    /\ Becomes(w, t, [t EXCEPT !.at = "accepted"])
    /\ received' = received \cup {t.row}
    /\ UNCHANGED <<subscriber, table, now, loop, round, budget,
                   posts, failures>>

\* Mutation: the answer is not checked (no raise_for_status, no await).
AcknowledgedUnchecked(t) == t.at \in {"posting", "accepted"}
\* The POST has a 2xx answer.
Acknowledged(t) == t.at = "accepted"

\* raise_for_status passed: UPDATE ... SET status = 'delivered' WHERE id = ?
MarkDelivered(w, t) ==
    /\ LoopFree(w)
    /\ Acknowledged(t)
    /\ status' = [status EXCEPT ![t.row] = "delivered"]
    /\ Gone(w, t)
    /\ UNCHANGED <<subscriber, attempts, nextAttempt, now, loop, round,
                   budget, history>>

\* An exception in _deliver's try block: an error status, a connection error,
\* a timeout (before or after the subscriber took the POST), or mark_delivered
\* itself raising.  mark_failed SELECTs attempt_count.
ReadAttempts(w, t) ==
    /\ LoopFree(w)
    /\ t.at \in {"posting", "accepted"}
    /\ Becomes(w, t, [t EXCEPT !.at = "marking", !.seen = attempts[t.row]])
    /\ UNCHANGED <<subscriber, table, now, loop, round, budget, history>>

\* Mutation: the attempt is not counted.
AttemptUncounted(t) == t.seen
\* attempt = row[0] + 1
AttemptNumber(t) == t.seen + 1

\* Mutations: one attempt too many, one too few.
GivesUpLate(attempt) == attempt > MaxAttempts
GivesUpEarly(attempt) == attempt >= MaxAttempts - 1
\* attempt >= max_attempts
GivesUp(attempt) == attempt >= MaxAttempts

\* mark_failed's UPDATE, by id alone: whatever the status has become.
MarkFailed(w, t) ==
    /\ t.at = "marking"
    /\ LET attempt == AttemptNumber(t) IN
          /\ attempts' = [attempts EXCEPT ![t.row] = attempt]
          /\ IF GivesUp(attempt)
             THEN /\ status' = [status EXCEPT ![t.row] = "dead"]
                  /\ UNCHANGED nextAttempt
             ELSE /\ status' = [status EXCEPT ![t.row] = "pending"]
                  /\ nextAttempt' =
                        [nextAttempt EXCEPT ![t.row] = now + Backoff(attempt)]
    /\ failures' = [failures EXCEPT ![t.row] = @ + 1]
    /\ Gone(w, t)
    /\ UNCHANGED <<subscriber, now, loop, round, budget, posts, received>>

\* A database error escapes the task (get_subscriber, or mark_failed in the
\* except block).  gather re-raises the first exception of its round and the
\* loop goes to sleep; the round's other tasks keep running.
Raise(w, t) ==
    /\ faults < MaxFaults
    /\ Permitted(w, t) \/ t.at = "marking"
    /\ faults' = faults + 1
    /\ Gone(w, t)
    /\ loop' = IF loop[w] = "gathering" /\ t.round = round[w]
               THEN [loop EXCEPT ![w] = "sleeping"]
               ELSE loop
    /\ UNCHANGED <<subscriber, table, now, round, crashes, history>>

-----------------------------------------------------------------------------
(* The environment of the workers.                                         *)

Crash(w) ==
    /\ crashes < MaxCrashes
    /\ loop[w] # "down"
    /\ crashes' = crashes + 1
    /\ loop' = [loop EXCEPT ![w] = "down"]
    /\ tasks' = [tasks EXCEPT ![w] = {}]
    /\ UNCHANGED <<subscriber, table, now, round, faults, history>>

Restart(w) ==
    /\ loop[w] = "down"
    /\ loop' = [loop EXCEPT ![w] = "sleeping"]
    /\ UNCHANGED <<subscriber, table, now, round, tasks, budget, history>>

Tick ==
    /\ now < MaxTime
    /\ \E r \in Rows : status[r] = "pending" /\ nextAttempt[r] > now
    /\ now' = now + 1
    /\ UNCHANGED <<subscriber, table, worker, budget, history>>

-----------------------------------------------------------------------------
Step(w, t) ==
    \/ BeginPost(w, t)
    \/ SkipInactive(w, t)
    \/ Accept(w, t)
    \/ MarkDelivered(w, t)
    \/ ReadAttempts(w, t)
    \/ MarkFailed(w, t)
    \/ Raise(w, t)

Next ==
    \/ \E s \in Subscribers : Register(s) \/ Deactivate(s)
    \/ \E r \in Rows : Enqueue(r)
    \/ \E w \in Workers :
          \/ Poll(w) \/ EndRound(w) \/ Crash(w) \/ Restart(w)
          \/ \E t \in tasks[w] : Step(w, t)
    \/ Tick

Spec == Init /\ [][Next]_vars

(***************************************************************************)
(* Fairness.  The event loop runs every ready task and the sleeping loop   *)
(* again; a POST returns within REQUEST_TIMEOUT, whatever the subscriber   *)
(* does; time passes; a crashed worker is restarted by its supervisor      *)
(* (README, "Running the Delivery Worker").  Nothing is assumed of         *)
(* subscribers, of enqueuing, of registrations, crashes or faults.         *)
(***************************************************************************)
TaskRuns(w) ==
    \E t \in tasks[w] :
        \/ BeginPost(w, t) \/ SkipInactive(w, t)
        \/ MarkDelivered(w, t) \/ ReadAttempts(w, t) \/ MarkFailed(w, t)

Fairness ==
    /\ \A w \in Workers :
          /\ WF_vars(Poll(w))
          /\ WF_vars(EndRound(w))
          /\ WF_vars(TaskRuns(w))
          /\ WF_vars(Restart(w))
    /\ WF_vars(Tick)

FairSpec == Spec /\ Fairness

-----------------------------------------------------------------------------
\* The type invariant of the table, the registry, the loops and their tasks.
TypeOK ==
    /\ subscriber \in [Subscribers -> SubscriberState]
    /\ status \in [Rows -> RowStatus]
    /\ attempts \in [Rows -> Nat]
    /\ nextAttempt \in [Rows -> Nat]
    /\ now \in Nat
    /\ loop \in [Workers -> LoopState]
    /\ round \in [Workers -> Rounds]
    /\ tasks \in [Workers -> SUBSET Task]
    /\ crashes \in 0..MaxCrashes
    /\ faults \in 0..MaxFaults
    /\ posts \in [Rows -> Nat]
    /\ received \subseteq Rows
    /\ failures \in [Rows -> Nat]

\* Whatever workers, crashes and database errors do: a row is 'delivered' only
\* if its subscriber really answered a POST of it with 2xx
\* (webhook_worker.py, mark_delivered after raise_for_status).
DeliveredWasReceived ==
    \A r \in Rows : status[r] = "delivered" => r \in received

\* Whatever workers, crashes and database errors do: no row is dead-lettered
\* before MAX_ATTEMPTS failures were recorded for it, although two workers may
\* overwrite each other's attempt_count (webhook_queue.py, mark_failed).
DeadWasTried ==
    \A r \in Rows : status[r] = "dead" => failures[r] >= MaxAttempts

\* What remains of the README's "at most 10 deliveries run in parallel" when
\* a database error abandons a round, which keeps its own semaphore.
ParallelBounded ==
    \A w \in Workers :
        Cardinality({t \in tasks[w] : Admitted(t)}) <= MaxConcurrent * (1 + faults)

\* One worker process, and no database error so far.
Undisturbed == faults = 0 /\ \A v, w \in Workers : v = w

\* With one worker, the rows a round fetched are still what the query returned
\* when their tasks get to run: pending, due, and held by no second task
\* (get_due_deliveries is read before the awaits, mark_* run after them).
RoundOwnsItsRows ==
    Undisturbed =>
        \A w \in Workers : \A t \in tasks[w] :
            /\ status[t.row] = "pending" /\ nextAttempt[t.row] <= now
            /\ \A u \in tasks[w] : u.row = t.row => u = t

\* With one worker, 'delivered' and 'dead' are final although mark_delivered
\* and mark_failed update by id without looking at the status.
SettledIsFinal ==
    [][Undisturbed' => \A r \in Rows : Settled(r) => status'[r] = status[r]]_vars

\* With one worker, a row is POSTed at most MAX_ATTEMPTS times, plus once for
\* each crash that hit between the POST and its mark_*.
PostsBounded ==
    Undisturbed => \A r \in Rows : posts[r] <= MaxAttempts + crashes

\* Pending rows of deactivated subscribers: every round that fetches one leaves
\* it first in the order of next_attempt_at.
Abandoned ==
    {r \in Rows : status[r] = "pending" /\ subscriber[Owner[r]] # "active"}

\* An enqueued alert of a subscriber that stays active ends up delivered or
\* dead-lettered, unless abandoned rows fill the whole batch.
AlertsSettle ==
    \A r \in Rows :
        status[r] = "pending" ~>
            \/ Settled(r)
            \/ r \in Abandoned
            \/ Cardinality(Abandoned) >= BatchLimit

\* README, Delivery Guarantees: unacknowledged items "are retried", "after 8
\* consecutive failures the item moves to dead status", "slow subscribers do
\* not block others": an alert of a subscriber that stays active ends up
\* delivered or dead-lettered.
AlertsOfActiveSettle ==
    \A r \in Rows : status[r] = "pending" ~> (Settled(r) \/ r \in Abandoned)

\* The promise of AlertQueue, kept by one worker without database errors.
Queue == INSTANCE AlertQueue WITH
    Alerts <- Rows, tries <- failures
QueueSpec == Queue!Spec
=============================================================================
