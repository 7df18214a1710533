-------------------------- MODULE SorobanPublisher --------------------------
(***************************************************************************)
(* SorobanPublisher (detection/soroban_publisher.py): batches of scores    *)
(* submitted to the on-chain registry, with the circuit failures, the       *)
(* one-retry rules and the on_chain_submissions audit table; together with *)
(* what the code relies on of the Soroban network: an account's            *)
(* transactions execute in sequence-number order, each number once, and a  *)
(* transaction that was sent may execute long after the publisher stopped  *)
(* polling for it.                                                         *)
(*                                                                         *)
(* The publisher is one thread of control.  Errors are told apart the way  *)
(* _execute_with_retries does, by what their text contains.                *)
(***************************************************************************)
EXTENDS Integers, FiniteSets, Sequences

CONSTANTS
    Scores,         \* RiskScore objects handed to submit_batch, each once
    Threshold,      \* circuit_breaker_threshold
    Window,         \* circuit_breaker_window, in ticks
    Reset,          \* circuit_reset_seconds, in ticks
    Errors,         \* the kinds of errors the network answers with
    MaxTime,        \* bound: last value of the clock
    MaxFaults,      \* bound: failing audit writes and killed runs
    NoScore         \* a model value: no submission in progress

\* What _execute_with_retries tells apart in an error's text.
ErrorKind == {"auth", "bad_seq", "insufficient_fee", "timeout", "other"}

ASSUME PublisherAssumption ==
    /\ Errors \subseteq ErrorKind
    /\ Threshold \in Nat \ {0}
    /\ Window \in Nat \ {0}
    /\ Reset \in Nat
    /\ MaxTime \in Nat
    /\ MaxFaults \in Nat
    /\ NoScore \notin Scores

VARIABLES
    now,          \* the clock
    failures,     \* _failure_timestamps, each with the score that failed
    pc,           \* where submit_batch / submit_score is
    dryRun,       \* the batch's dry_run argument
    remaining,    \* scores of the batch not yet taken by its loop
    current,      \* the score being submitted
    attempt,      \* which submission of it: 1, then 2 for a retry
    error,        \* what the last _submit_once returned
    sequence,     \* number of the transaction being built or polled, or 0
    pool,         \* sent transactions that may still execute
    ledger,       \* executed transactions of the account, by sequence number
    audit,        \* [Scores -> Seq(AuditStatus)]: rows of on_chain_submissions
    faults,       \* audit writes that raised, and runs killed, so far
    taken,        \* history: scores whose submit_score was called
    sends,        \* history: transactions sent for the score
    unresolved    \* history: <<score, error>> of polls that ended without an answer

batch == <<dryRun, remaining>>
submission == <<current, attempt, error, sequence>>
network == <<pool, ledger>>
record == <<audit, faults>>
history == <<taken, sends, unresolved>>
vars == <<now, failures, pc, batch, submission, network, record, history>>

AuditStatus == {"submitted", "failed", "skipped"}
\* "idle": no call in progress;  "next": at the head of submit_batch's loop;
\* "load", "send", "poll": the parts of _submit_once;  "error": it returned one
Control == {"idle", "next", "load", "send", "poll", "error"}
Submitting == {"load", "send", "poll", "error"}
Transaction == [score : Scores, seq : Nat \ {0}]
Executed == [score : Scores, ok : BOOLEAN]

InWindow(t) == {f \in failures : f.at > t - Window}

-----------------------------------------------------------------------------
Init ==
    /\ now = 0
    /\ failures = {}
    /\ pc = "idle"
    /\ dryRun = FALSE
    /\ remaining = {}
    /\ current = NoScore
    /\ attempt = 1
    /\ error = "none"
    /\ sequence = 0
    /\ pool = {}
    /\ ledger = <<>>
    /\ audit = [s \in Scores |-> <<>>]
    /\ faults = 0
    /\ taken = {}
    /\ sends = [s \in Scores |-> 0]
    /\ unresolved = {}

\* Scores a batch may be made of: each is submitted once.
Fresh == Scores \ taken

-----------------------------------------------------------------------------
(* submit_batch and the circuit breaker.                                   *)

\* _submit_on_chain builds a publisher for each run of the pipeline.
NewPublisher ==
    /\ pc = "idle"
    /\ failures # {}
    /\ failures' = {}
    /\ UNCHANGED <<now, pc, batch, submission, network, record, history>>

StartBatch ==
    /\ pc = "idle"
    /\ \E scores \in SUBSET Fresh, dry \in BOOLEAN :
          /\ scores # {}
          /\ remaining' = scores
          /\ dryRun' = dry
    /\ pc' = "next"
    /\ UNCHANGED <<now, failures, submission, network, record, history>>

EndBatch ==
    /\ pc = "next"
    /\ remaining = {}
    /\ pc' = "idle"
    /\ dryRun' = FALSE
    /\ UNCHANGED <<now, failures, remaining, submission, network, record, history>>

\* save_submission for score s.
Saved(s, outcome) == audit' = [audit EXCEPT ![s] = Append(@, outcome)]
\* save_submission raises (SQLite locked, disk full): no row.
SaveRaises ==
    /\ faults < MaxFaults
    /\ faults' = faults + 1
    /\ UNCHANGED audit

\* Mutation: the threshold is reached one failure late.
TrippedLate == Cardinality(InWindow(now)) > Threshold
\* len(self._failure_timestamps) >= self._circuit_breaker_threshold, after the prune
Tripped == Cardinality(InWindow(now)) >= Threshold

\* now - self._failure_timestamps[0] >= self._circuit_reset_seconds: the list
\* is in time order, so its first entry is the oldest one.
CooledDown == \E f \in InWindow(now) : now - f.at >= Reset

\* The loop calls submit_score for s.
Taken(s) == taken' = taken \cup {s} /\ UNCHANGED <<sends, unresolved>>

\* The circuit is open: the score is logged as skipped and the batch ends.  If
\* that write raises, its exception replaces SorobanCircuitOpenError and the
\* loop goes on with the next score.
RefuseOpen(s) ==
    /\ pc = "next"
    /\ s \in remaining
    /\ Tripped /\ ~CooledDown
    /\ failures' = InWindow(now)
    /\ \/ /\ Saved(s, "skipped")
          /\ remaining' = {}
          /\ dryRun' = FALSE
          /\ pc' = "idle"
          /\ UNCHANGED faults
       \/ /\ SaveRaises
          /\ remaining' = remaining \ {s}
          /\ UNCHANGED <<dryRun, pc>>
    /\ Taken(s)
    /\ UNCHANGED <<now, submission, network>>

\* The circuit lets the score through, clearing the failures if it cooled down.
PassCircuit ==
    /\ Tripped => CooledDown
    /\ failures' = IF Tripped THEN {} ELSE InWindow(now)

SkipDryRun(s) ==
    /\ pc = "next"
    /\ s \in remaining
    /\ PassCircuit
    /\ dryRun
    /\ \/ Saved(s, "skipped") /\ UNCHANGED faults
       \/ SaveRaises
    /\ remaining' = remaining \ {s}
    /\ Taken(s)
    /\ UNCHANGED <<now, pc, dryRun, submission, network>>

BeginSubmission(s) ==
    /\ pc = "next"
    /\ s \in remaining
    /\ PassCircuit
    /\ ~dryRun
    /\ remaining' = remaining \ {s}
    /\ current' = s
    /\ pc' = "load"
    /\ Taken(s)
    /\ UNCHANGED <<now, dryRun, attempt, error, sequence, network, record>>

-----------------------------------------------------------------------------
(* _submit_once.                                                           *)

\* It returns (None, error).
Fails(kind) ==
    /\ error' = kind
    /\ sequence' = 0
    /\ pc' = "error"
\* What it sent may still execute.
Unresolved(kind) == unresolved' = unresolved \cup {<<current, kind>>}

\* load_account: the transaction takes the account's next sequence number.
Load ==
    /\ pc = "load"
    /\ sequence' = Len(ledger) + 1
    /\ pc' = "send"
    /\ UNCHANGED <<now, failures, batch, current, attempt, error, network,
                   record, history>>

\* simulate and send: the network takes the transaction, unless its sequence
\* number was used in the meantime.  A transaction equal to one in the pool is
\* the same transaction.
Send ==
    /\ pc = "send"
    /\ sequence > Len(ledger)
    /\ pool' = pool \cup {[score |-> current, seq |-> sequence]}
    /\ sends' = [sends EXCEPT ![current] = @ + 1]
    /\ pc' = "poll"
    /\ UNCHANGED <<now, failures, batch, submission, ledger, record, taken, unresolved>>

\* Building, simulating or sending reports an error or raises: nothing is sent.
SendFails(kind) ==
    /\ pc \in {"load", "send"}
    /\ Fails(kind)
    /\ UNCHANGED <<now, failures, batch, current, attempt, network, record, history>>

\* send_transaction raises after the request left: the network may have it.
SendUncertain(kind) ==
    /\ pc = "send"
    /\ kind \in {"timeout", "other"}
    /\ sequence > Len(ledger)
    /\ pool' = pool \cup {[score |-> current, seq |-> sequence]}
    /\ sends' = [sends EXCEPT ![current] = @ + 1]
    /\ Fails(kind) /\ Unresolved(kind)
    /\ UNCHANGED <<now, failures, batch, current, attempt, ledger, record, taken>>

\* Mutation: a status other than FAILED is taken for success.
PolledNotFailed ==
    \/ sequence > Len(ledger)
    \/ ledger[sequence] = [score |-> current, ok |-> TRUE]
\* get_transaction(tx_hash) says SUCCESS.
PolledSuccess ==
    /\ sequence <= Len(ledger)
    /\ ledger[sequence] = [score |-> current, ok |-> TRUE]

\* Mutation: a transaction that has not executed yet is taken for a failed one.
PolledNotSuccess == ~PolledSuccess
\* get_transaction(tx_hash) says FAILED.
PolledFailure ==
    /\ sequence <= Len(ledger)
    /\ ledger[sequence] = [score |-> current, ok |-> FALSE]

\* Polling ends without SUCCESS: 30 polls passed ("timeout"), get_transaction
\* raised, or the transaction executed and FAILED with any result.
PollFails(kind) ==
    /\ pc = "poll"
    /\ \/ kind \in {"timeout", "other"} /\ Unresolved(kind)
       \/ PolledFailure /\ UNCHANGED unresolved
    /\ Fails(kind)
    /\ UNCHANGED <<now, failures, batch, current, attempt, network, record,
                   taken, sends>>

\* submit_score is over for this score.
Over ==
    /\ current' = NoScore
    /\ attempt' = 1
    /\ error' = "none"
    /\ sequence' = 0
    /\ pc' = "next"

\* Mutation: failures are not logged.
ClosedUnlogged(outcome) ==
    /\ IF outcome = "failed" THEN UNCHANGED audit ELSE Saved(current, outcome)
    /\ UNCHANGED faults
    /\ Over
\* submit_score saves the row and is over; submit_batch catches what it raises.
\* A failure to save the row loses the row, no more.
Closed(outcome) ==
    /\ \/ Saved(current, outcome) /\ UNCHANGED faults
       \/ SaveRaises
    /\ Over

\* The hash is returned and logged.  If that write raises, the except clause
\* logs the score as failed, which may raise in turn.
PollSucceeds ==
    /\ pc = "poll"
    /\ PolledSuccess
    /\ \/ Closed("submitted")
       \/ faults < MaxFaults /\ faults' = faults + 1 /\ Saved(current, "failed") /\ Over
    /\ UNCHANGED <<now, failures, batch, network, history>>

-----------------------------------------------------------------------------
(* _execute_with_retries.                                                  *)

Retryable == {"bad_seq", "insufficient_fee", "timeout"}

\* Mutation: an error nobody understood is retried too.
RetriesAny == attempt = 1
\* A first submission is followed by a second one for these errors: a new loop
\* iteration, or for the fee the call with fee_multiplier=1.5, whose failure
\* ends the loop like the second iteration's does.
MayRetry == error \in Retryable /\ attempt = 1

\* Mutation: the retry is not counted.
RetryUncounted ==
    /\ pc = "error"
    /\ MayRetry
    /\ error' = "none"
    /\ pc' = "load"
    /\ UNCHANGED <<now, failures, batch, current, attempt, sequence, network, record, history>>
\* continue: the loop's next iteration.
Retry ==
    /\ pc = "error"
    /\ MayRetry
    /\ attempt' = attempt + 1
    /\ error' = "none"
    /\ pc' = "load"
    /\ UNCHANGED <<now, failures, batch, current, sequence, network, record, history>>

\* _record_failure, and submit_score logs the score as failed.
GiveUp ==
    /\ pc = "error"
    /\ ~MayRetry
    /\ failures' = failures \cup {[score |-> current, at |-> now]}
    /\ Closed("failed")
    /\ UNCHANGED <<now, batch, network, history>>

-----------------------------------------------------------------------------
(* The environment: the network, the process and the clock.                *)

\* One of the transactions with the account's next number executes, with or
\* without success; the others, whose number is used now, never will.  One
\* that the network forgets is one that never executes.
Execute(tx) ==
    /\ tx.seq = Len(ledger) + 1
    /\ \E ok \in BOOLEAN : ledger' = Append(ledger, [score |-> tx.score, ok |-> ok])
    /\ pool' = {t \in pool : t.seq > tx.seq}
    /\ UNCHANGED <<now, failures, pc, batch, submission, record, history>>

\* The run is killed; the next one has a new publisher.
Kill ==
    /\ pc # "idle"
    /\ faults < MaxFaults
    /\ faults' = faults + 1
    /\ pc' = "idle"
    /\ failures' = {}
    /\ dryRun' = FALSE
    /\ remaining' = {}
    /\ current' = NoScore
    /\ attempt' = 1
    /\ error' = "none"
    /\ sequence' = 0
    /\ UNCHANGED <<now, network, audit, history>>

Tick ==
    /\ now < MaxTime
    /\ now' = now + 1
    /\ UNCHANGED <<failures, pc, batch, submission, network, record, history>>

-----------------------------------------------------------------------------
Publisher ==
    \/ EndBatch
    \/ \E s \in remaining : RefuseOpen(s) \/ SkipDryRun(s) \/ BeginSubmission(s)
    \/ Load \/ Send
    \/ \E kind \in Errors :
          SendFails(kind) \/ SendUncertain(kind) \/ PollFails(kind)
    \/ PollSucceeds
    \/ Retry \/ GiveUp

Next ==
    \/ NewPublisher \/ StartBatch
    \/ Publisher
    \/ \E tx \in pool : Execute(tx)
    \/ Kill
    \/ Tick

Spec == Init /\ [][Next]_vars

(***************************************************************************)
(* Fairness.  The publisher's thread runs: every RPC call returns or       *)
(* raises and polling ends after 30 rounds.  Nothing is assumed of the     *)
(* network or of the clock.                                                *)
(***************************************************************************)
FairSpec == Spec /\ WF_vars(Publisher)

-----------------------------------------------------------------------------
Landed(s) == {n \in DOMAIN ledger : ledger[n] = [score |-> s, ok |-> TRUE]}

\* The type invariant of publisher, audit table and network.
TypeOK ==
    /\ now \in 0..MaxTime
    /\ failures \subseteq [score : Scores, at : 0..MaxTime]
    /\ pc \in Control
    /\ dryRun \in BOOLEAN
    /\ remaining \subseteq Scores
    /\ current \in Scores \cup {NoScore}
    /\ pc \in Submitting => current \in Scores
    /\ attempt \in 1..2
    /\ error \in ErrorKind \cup {"none"}
    /\ sequence \in Nat
    /\ pc \in {"send", "poll"} => sequence > 0
    /\ pool \subseteq Transaction
    /\ ledger \in Seq(Executed)
    /\ audit \in [Scores -> Seq(AuditStatus)]
    /\ faults \in 0..MaxFaults
    /\ taken \subseteq Scores
    /\ sends \in [Scores -> Nat]
    /\ unresolved \subseteq Scores \X ErrorKind

\* The circuit breaker's purpose, "prevent submission storms": the contract is
\* called only while fewer than Threshold failures lie in the window, so no
\* window ever holds more than Threshold of them (_check_circuit at the start
\* of a submission, _record_failure at its end, the clock moving in between).
BreakerBounds ==
    /\ Cardinality(InWindow(now)) <= Threshold
    /\ pc \in Submitting => Cardinality(InWindow(now)) < Threshold

\* An audit row 'submitted' is about a score whose transaction really executed
\* with success, whatever else of the account executed late or failed.
SubmittedLanded ==
    \A s \in Scores : \A i \in DOMAIN audit[s] :
        audit[s][i] = "submitted" => Landed(s) # {}

\* The retries of _execute_with_retries write a score to the contract twice
\* only after a timeout; a retry for tx_bad_seq or for the fee never does.
TwiceOnlyAfterTimeout ==
    \A s \in Scores : Cardinality(Landed(s)) > 1 =>
        <<s, "timeout">> \in unresolved

\* README, Audit log: "every submission attempt is written to the
\* on_chain_submissions table": exactly one row for every score whose
\* submit_score was called and is over, be it submitted, failed at any step
\* (also before anything was sent), or skipped by a dry run or by an open
\* circuit, if no audit write raised and the run was not killed; never two.
AuditedOnce ==
    \A s \in Scores :
        /\ Len(audit[s]) <= 1
        /\ s \in taken \ {current} /\ faults = 0 => Len(audit[s]) = 1

\* What executed is known: a score on the ledger whose submission is over has
\* its row 'submitted', unless a poll ended without an answer (or a fault lost
\* the row).  In those cases the row says 'failed' of a score that is on chain.
LandedIsReported ==
    \A s \in Scores :
        Landed(s) # {} /\ s # current /\ faults = 0 =>
            \/ audit[s] = <<"submitted">>
            \/ \E kind \in {"timeout", "other"} : <<s, kind>> \in unresolved

\* submit_batch returns, whatever the network answers.
BatchEnds == pc # "idle" ~> pc = "idle"
=============================================================================
