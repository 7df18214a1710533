---------------------------- MODULE StreamWorker ----------------------------
(***************************************************************************)
(* StreamWorker (detection/streaming.py): the real-time scorer, fed by an  *)
(* InMemoryStreamSource.                                                   *)
(*                                                                         *)
(* Threads that call publish and close share a queue with the thread that  *)
(* is in run; stop comes from another one.  queue.Queue is atomic, the     *)
(* source's own flag is read and written outside it.  What a score is made *)
(* of is left out: a score is the trade that caused it and whether it is   *)
(* at or above the alert threshold; computing it may raise.                *)
(***************************************************************************)
EXTENDS Integers, FiniteSets, Sequences, Functions

CONSTANTS
    Trades,
    Wallets,
    NoWallet,       \* a pool's side of a trade has no account
    Base, Counter,  \* the two accounts of each trade
    Pairs, Pair,    \* the asset pair of each trade
    Subscribers,
    Matching,       \* get_matching_subscribers: who wants the alerts of a wallet
    BufferSize,     \* buffer_size
    Closers,        \* threads that call close
    Sentinel,       \* InMemoryStreamSource._SENTINEL
    Limits,         \* values of max_trades
    NoLimit,        \* max_trades=None
    MaxCalls,       \* bound: calls of run
    MaxInterrupts,  \* bound: KeyboardInterrupts
    MaxFaults       \* bound: database errors while scores are saved

ASSUME StreamAssumption ==
    /\ IsFiniteSet(Trades)
    /\ Base \in [Trades -> Wallets \cup {NoWallet}]
    /\ Counter \in [Trades -> Wallets \cup {NoWallet}]
    /\ NoWallet \notin Wallets
    /\ Pair \in [Trades -> Pairs]
    /\ Matching \in [Wallets -> SUBSET Subscribers]
    /\ BufferSize \in Nat \ {0}
    /\ Sentinel \notin Trades
    /\ Limits \subseteq Nat
    /\ NoLimit \notin Nat
    /\ MaxCalls \in Nat
    /\ MaxInterrupts \in Nat
    /\ MaxFaults \in Nat

VARIABLES
    queue,       \* InMemoryStreamSource._queue
    closed,      \* InMemoryStreamSource._closed
    closing,     \* where each thread is in close
    fate,        \* what has become of each trade
    late,        \* history: trades put in the queue after closed was set
    stop,        \* StreamWorker._stop_event
    loop,        \* where run is
    limit,       \* max_trades of the call of run
    processed,   \* trades this call has counted
    trade,       \* the trade in hand, or Sentinel
    rest,        \* its accounts still to be scored
    alerts,      \* scores at or above the threshold it has produced
    buffers,     \* _buffers, by account and pair
    latest,      \* latest_scores; a score is a sequence, empty for none yet
    saved,       \* how many rows of risk_scores each trade has for each wallet
    queued,      \* rows of webhook_delivery_queue
    ended,       \* history: a run has returned on the sentinel
    unsaved,     \* history: trades whose scores could not be saved
    calls, interrupts, faults   \* counters of the bounds

source == <<queue, closed, closing, late>>
position == <<limit, processed, trade, rest, alerts>>
memory == <<buffers, latest>>
database == <<saved, queued>>
counters == <<calls, interrupts, faults>>
vars == <<source, fate, stop, loop, position, memory, database, ended, unsaved, counters>>

Key == Wallets \X Pairs
Score == [trade : Trades, alert : BOOLEAN]
Fate == {"new", "checked", "queued", "rejected",
         "taken", "handled", "raised", "dropped", "interrupted"}
Control == {"out", "get", "score", "save", "enqueue", "count"}
InHand == loop \in {"score", "save", "enqueue", "count"}

-----------------------------------------------------------------------------
Init ==
    /\ queue = <<>>
    /\ closed = FALSE
    /\ closing = [c \in Closers |-> "no"]
    /\ fate = [t \in Trades |-> "new"]
    /\ late = {}
    /\ stop = FALSE
    /\ loop = "out"
    /\ limit = NoLimit
    /\ processed = 0
    /\ trade = Sentinel
    /\ rest = <<>>
    /\ alerts = <<>>
    /\ buffers = [k \in Key |-> <<>>]
    /\ latest = [k \in Key |-> <<>>]
    /\ saved = [a \in Trades \X Wallets |-> 0]
    /\ queued = {}
    /\ ended = FALSE
    /\ unsaved = {}
    /\ calls = 0
    /\ interrupts = 0
    /\ faults = 0

Becomes(t, f) == fate' = [fate EXCEPT ![t] = f]

worker == <<stop, loop, position, memory, database, ended, unsaved, counters>>

\* publish: the flag is read ...
CheckOpen(t) ==
    /\ fate[t] = "new"
    /\ Becomes(t, IF closed THEN "rejected" ELSE "checked")
    /\ UNCHANGED <<source, worker>>

\* ... and then the trade is put in the queue.
Put(t) ==
    /\ fate[t] = "checked"
    /\ queue' = Append(queue, t)
    /\ late' = IF closed THEN late \cup {t} ELSE late
    /\ Becomes(t, "queued")
    /\ UNCHANGED <<closed, closing, worker>>

\* close: the flag is read, ...
CheckClosed(c) ==
    /\ closing[c] = "no"
    /\ closing' = [closing EXCEPT ![c] = IF closed THEN "done" ELSE "checked"]
    /\ UNCHANGED <<queue, closed, late, fate, worker>>

\* Mutation: the flag is not written.
ClosedNotMarked == UNCHANGED closed
ClosedMarked == closed' = TRUE

\* ... written, ...
MarkClosed(c) ==
    /\ closing[c] = "checked"
    /\ ClosedMarked
    /\ closing' = [closing EXCEPT ![c] = "marked"]
    /\ UNCHANGED <<queue, late, fate, worker>>

\* Mutation: only a consumer with an empty queue is told.
WithSentinelIfEmpty(q) == IF q = <<>> THEN <<Sentinel>> ELSE q
WithSentinel(q) == Append(q, Sentinel)

\* ... and the sentinel is put in the queue.
PutSentinel(c) ==
    /\ closing[c] = "marked"
    /\ queue' = WithSentinel(queue)
    /\ closing' = [closing EXCEPT ![c] = "done"]
    /\ UNCHANGED <<closed, late, fate, worker>>

-----------------------------------------------------------------------------
Side(w) == IF w = NoWallet THEN <<>> ELSE <<w>>
\* _involved_accounts: base first, and no pool.
Involved(t) == Side(Base[t]) \o Side(Counter[t])

\* run(max_trades) is called.
Run(n) ==
    /\ loop = "out"
    /\ calls < MaxCalls
    /\ calls' = calls + 1
    /\ loop' = "get"
    /\ limit' = n
    /\ processed' = 0
    /\ UNCHANGED <<source, fate, stop, trade, rest, alerts, memory, database,
                   ended, unsaved, interrupts, faults>>

Taken == queue' = Tail(queue) /\ UNCHANGED <<closed, closing, late>>

\* The source's iteration ends, and run returns.
TakeSentinel ==
    /\ loop = "get"
    /\ queue # <<>> /\ Head(queue) = Sentinel
    /\ Taken
    /\ loop' = "out"
    /\ ended' = TRUE
    /\ UNCHANGED <<fate, stop, position, memory, database, unsaved, counters>>

\* Mutation: continue for break.
AfterStopGoesOn == "get"
AfterStop == "out"

\* The stop event is only looked at when a trade has been taken: the loop
\* breaks, and the trade is gone.
TakeStopped ==
    /\ loop = "get" /\ stop
    /\ queue # <<>> /\ Head(queue) # Sentinel
    /\ Taken
    /\ loop' = AfterStop
    /\ Becomes(Head(queue), "dropped")
    /\ UNCHANGED <<stop, position, memory, database, ended, unsaved, counters>>

TakeTrade ==
    /\ loop = "get" /\ ~stop
    /\ queue # <<>> /\ Head(queue) # Sentinel
    /\ Taken
    /\ loop' = "score"
    /\ trade' = Head(queue)
    /\ rest' = Involved(Head(queue))
    /\ Becomes(Head(queue), "taken")
    /\ UNCHANGED <<stop, limit, processed, alerts, memory, database, ended, unsaved, counters>>

\* deque(maxlen=buffer_size).append: the oldest trade goes.
Appended(buffer, t) ==
    IF Len(buffer) < BufferSize THEN Append(buffer, t) ELSE Append(Tail(buffer), t)

Scoring == <<Head(rest), Pair[trade]>>
Buffered == buffers' = [buffers EXCEPT ![Scoring] = Appended(@, trade)]

\* Mutation: only the score of the last account is looked at.
AlertsReplaced(list, a) == <<a>>
AlertsWith(list, a) == Append(list, a)

\* process_trade, for one account: the trade is buffered, the account scored.
ScoreAccount(alert) ==
    /\ loop = "score" /\ rest # <<>>
    /\ Buffered
    /\ latest' = [latest EXCEPT ![Scoring] = <<[trade |-> trade, alert |-> alert]>>]
    /\ alerts' = IF alert THEN AlertsWith(alerts, <<trade, Head(rest)>>) ELSE alerts
    /\ rest' = Tail(rest)
    /\ UNCHANGED <<source, fate, stop, loop, limit, processed, trade, database,
                   ended, unsaved, counters>>

\* Mutation: the list of alerts belongs to the worker and is not emptied.
AlertsKept == alerts
\* The list is local to process_trade.
NoAlerts == <<>>
Forgotten == rest' = <<>> /\ alerts' = NoAlerts

\* Scoring raises: the trade stays in the buffer; the alerts of an account
\* scored before, and the accounts still to be scored, are forgotten.
ScoreRaises ==
    /\ loop = "score" /\ rest # <<>>
    /\ Buffered
    /\ loop' = "count"
    /\ Becomes(trade, "raised")
    /\ Forgotten
    /\ UNCHANGED <<source, stop, limit, processed, trade, latest, database, ended, unsaved, counters>>

\* Every account is scored.
Scored ==
    /\ loop = "score" /\ rest = <<>>
    /\ loop' = IF alerts = <<>> THEN "count" ELSE "save"
    /\ UNCHANGED <<source, fate, stop, position, memory, database, ended, unsaved, counters>>

Occurrences(list, a) == Cardinality({i \in DOMAIN list : list[i] = a})

\* _persist: the alerts are inserted in one transaction.
Save ==
    /\ loop = "save"
    /\ saved' = [a \in Trades \X Wallets |-> saved[a] + Occurrences(alerts, a)]
    /\ loop' = "enqueue"
    /\ UNCHANGED <<source, fate, stop, position, memory, queued, ended, unsaved, counters>>

\* The exception is logged, and the alerts are enqueued all the same.
SaveFails ==
    /\ loop = "save"
    /\ faults < MaxFaults
    /\ faults' = faults + 1
    /\ unsaved' = unsaved \cup {trade}
    /\ loop' = "enqueue"
    /\ UNCHANGED <<source, fate, stop, position, memory, database, ended, calls, interrupts>>

\* json.dumps raises TypeError on the payload: score.model_dump() keeps the
\* score's timestamp a datetime.
Serialisable == FALSE

\* _enqueue: a row for each alert and matching subscriber, up to the first
\* exception, which is logged.
Enqueue ==
    /\ loop = "enqueue"
    /\ queued' = queued \cup
         {d \in Range(alerts) \X Subscribers : d[2] \in Matching[d[1][2]] /\ Serialisable}
    /\ loop' = "count"
    /\ UNCHANGED <<source, fate, stop, position, memory, saved, ended, unsaved, counters>>

LimitReached(n) == limit # NoLimit /\ n >= limit

\* A trade counts as processed whether or not it raised.
Count ==
    /\ loop = "count"
    /\ processed' = processed + 1
    /\ loop' = IF LimitReached(processed') THEN "out" ELSE "get"
    /\ Becomes(trade, IF fate[trade] = "raised" THEN "raised" ELSE "handled")
    /\ trade' = Sentinel
    /\ Forgotten
    /\ UNCHANGED <<source, stop, limit, memory, database, ended, unsaved, counters>>

-----------------------------------------------------------------------------
\* stop, from another thread.
Stop ==
    /\ ~stop
    /\ stop' = TRUE
    /\ UNCHANGED <<source, fate, loop, position, memory, database, ended, unsaved, counters>>

\* A KeyboardInterrupt, which no except clause of the worker catches, leaves
\* run wherever it is; the stream command then calls stop.
Interrupt ==
    /\ loop # "out"
    /\ interrupts < MaxInterrupts
    /\ interrupts' = interrupts + 1
    /\ loop' = "out"
    /\ stop' = TRUE
    /\ fate' = IF InHand /\ fate[trade] = "taken"
                 THEN [fate EXCEPT ![trade] = "interrupted"] ELSE fate
    /\ trade' = Sentinel
    /\ rest' = <<>>
    /\ alerts' = <<>>
    /\ UNCHANGED <<source, limit, processed, memory, database, ended, unsaved, calls, faults>>

Worker ==
    \/ TakeSentinel \/ TakeStopped \/ TakeTrade
    \/ (\E alert \in BOOLEAN : ScoreAccount(alert)) \/ ScoreRaises \/ Scored
    \/ Save \/ SaveFails \/ Enqueue \/ Count

Next ==
    \/ \E t \in Trades : CheckOpen(t) \/ Put(t)
    \/ \E c \in Closers : CheckClosed(c) \/ MarkClosed(c) \/ PutSentinel(c)
    \/ \E n \in Limits \cup {NoLimit} : Run(n)
    \/ Worker \/ Stop \/ Interrupt

Spec == Init /\ [][Next]_vars

\* Threads run: a close that has begun ends, and run waits only for the queue.
FairSpec ==
    /\ Spec
    /\ \A c \in Closers : WF_vars(MarkClosed(c) \/ PutSentinel(c))
    /\ WF_vars(Worker)

-----------------------------------------------------------------------------
\* The type invariant of the source, of the loop and of what the worker keeps.
TypeOK ==
    /\ queue \in Seq(Trades \cup {Sentinel})
    /\ closed \in BOOLEAN
    /\ closing \in [Closers -> {"no", "checked", "marked", "done"}]
    /\ fate \in [Trades -> Fate]
    /\ late \subseteq Trades
    /\ stop \in BOOLEAN
    /\ loop \in Control
    /\ limit \in Limits \cup {NoLimit}
    /\ processed \in Nat
    /\ trade \in Trades \cup {Sentinel}
    /\ InHand => trade # Sentinel
    /\ rest \in Seq(Wallets)
    /\ alerts \in Seq(Trades \X Wallets)
    /\ buffers \in [Key -> Seq(Trades)]
    /\ \A k \in Key : Len(buffers[k]) <= BufferSize
    /\ latest \in [Key -> Seq(Score)]
    /\ saved \in [Trades \X Wallets -> Nat]
    /\ queued \subseteq (Trades \X Wallets) \X Subscribers
    /\ ended \in BOOLEAN
    /\ unsaved \subseteq Trades
    /\ calls \in 0..MaxCalls
    /\ interrupts \in 0..MaxInterrupts
    /\ faults \in 0..MaxFaults

\* "Iteration ends after close once the backlog is drained": a run that ends on
\* the sentinel leaves no trade in the queue but those whose publish read the
\* flag before close wrote it and put the trade afterwards.
DrainedAtEnd == ended => \A t \in Trades : fate[t] = "queued" => t \in late

\* A call of run loses one trade at most, and only when it is stopped or
\* interrupted: what it takes from the queue it otherwise processes.
OneLostPerRun ==
    LET lost == {t \in Trades : fate[t] \in {"dropped", "interrupted"}}
    IN  /\ Cardinality(lost) <= calls
        /\ lost # {} => stop
        /\ \A t \in Trades : fate[t] = "taken" => InHand /\ t = trade

\* A trade leaves at most one row of risk_scores for each of its two sides,
\* however often run is called, stopped or interrupted.
AlertsSavedOnce ==
    \A t \in Trades, w \in Wallets : saved[<<t, w>>] <= Occurrences(Involved(t), w)

\* A latest score at or above the threshold is a row of risk_scores, unless the
\* insertion failed, the other account of its trade could not be scored, or
\* the run was interrupted.
LatestAlertIsSaved ==
    \A w \in Wallets, p \in Pairs : latest[<<w, p>>] # <<>> =>
        LET score == latest[<<w, p>>][1] IN
        \/ ~score.alert
        \/ saved[<<score.trade, w>>] > 0
        \/ score.trade \in unsaved
        \/ fate[score.trade] \in {"taken", "raised", "interrupted"}

\* A call of run on a closed source returns, the first time the source ends.
ClosedRunEnds == (closed /\ ~ended /\ loop # "out") ~> (loop = "out")
=============================================================================
