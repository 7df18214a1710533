----------------------------- MODULE ScoringRun -----------------------------
(***************************************************************************)
(* The scoring pipeline (run_pipeline.py) and the tables it writes         *)
(* (detection/storage.py, detection/drift_monitor.py).                     *)
(*                                                                         *)
(* Each run is a process of its own; runs share the database file and may  *)
(* overlap.  A run's steps are its loads and its transactions.  Rows carry *)
(* the moment the code gives them, taken from a clock that never shows the *)
(* same moment twice.  What Horizon answers, which accounts form rings and *)
(* how high a score is are inputs.                                         *)
(***************************************************************************)
EXTENDS Integers, FiniteSets, Sequences

CONSTANTS
    Runs,
    NoRun,          \* whose explanation a row without one has
    Accounts,
    AssetPairs,     \* asset_pairs, in order
    Modes,          \* what each run may be: "sync" for run, "multi" for
                    \* run(multi_pair=True), "async" for async_run
    NoSubmit,       \* runs started with no_submit=True
    Risky,          \* <<run, account>>: its scores reach risk_score_threshold
    PoolTrades,     \* <<run, pair>>: its trades include pool trades
    PathPayments,   \* <<run, pair>>: its accounts have path payments
    Circular,       \* <<run, pair>>: some of these are circular
    Earlier,        \* rows of feature_distribution_snapshots of earlier runs
    SnapshotCap,    \* MAX_SNAPSHOT_ROWS
    SnapshotKeep,   \* MIN_SNAPSHOT_ROWS_AFTER_PRUNE
    MaxFailures     \* bound: exceptions and crashes

Pairs == {AssetPairs[i] : i \in DOMAIN AssetPairs}
Mode == {"sync", "multi", "async"}
Raw == {"pool", "payment", "route"}
\* The rows of the largest batch that record_scored_features is given.
Batch == Cardinality(Accounts) * Len(AssetPairs)

ASSUME RunAssumption ==
    /\ IsFiniteSet(Runs) /\ NoRun \notin Runs
    /\ IsFiniteSet(Accounts)
    /\ AssetPairs \in Seq(Pairs) /\ AssetPairs # <<>>
    /\ \A i, j \in DOMAIN AssetPairs : AssetPairs[i] = AssetPairs[j] => i = j
    /\ Modes \in [Runs -> SUBSET Mode]
    /\ Circular \subseteq PathPayments
    /\ IsFiniteSet(Earlier)
    /\ \A row \in Earlier :
         /\ row.at \in Int /\ row.at <= 0
         /\ Cardinality({x \in Earlier : x.at = row.at}) <= Batch
    /\ SnapshotCap \in Nat /\ Cardinality(Earlier) <= SnapshotCap
    /\ SnapshotKeep \in 1..SnapshotCap
    /\ MaxFailures \in Nat

VARIABLES
    now,           \* the clock
    pc,            \* where each run is
    mode,          \* what was called
    next,          \* position in asset_pairs
    trades,        \* who traded each pair, as far as it is loaded
    loaded,        \* when that was loaded, 0 for not yet
    computed,      \* scores, with their features
    found,         \* all_rings: a ring is named by its pair
    correlated,    \* correlated_pairs
    moment,        \* ts of the save in progress
    todo,          \* feature vectors still to be explained
    scores,        \* table risk_scores
    vectors,       \* table feature_vectors
    rings,         \* table wash_rings
    correlations,  \* table pair_correlations
    raw,           \* which rows are in liquidity_pool_trades, path_payments, circular_path_routes
    snapshots,     \* table feature_distribution_snapshots
    submitted,     \* scores given to SorobanPublisher.submit_batch
    overlap,       \* history: sets of two runs that ran at the same time
    failures       \* counter of the bound

locals == <<mode, next, trades, loaded, computed, found, correlated, moment, todo>>
reports == <<rings, correlations, raw>>
tables == <<scores, vectors, reports, snapshots, submitted>>
vars == <<now, pc, locals, tables, overlap, failures>>

Loading == {"idle", "preload", "correlate", "correlations", "load", "pools", "payments",
            "routes", "score"}
Saving == {"record", "prune", "scores", "found", "rings", "scored", "vectors", "shap",
           "enqueue", "submit", "done", "dead"}
Running(r) == pc[r] \notin {"idle", "done", "dead"}
Row == [run : Runs, wallet : Accounts, pair : Pairs, at : Nat]
Vector == [run : Runs, wallet : Accounts, pair : Pairs, at : Nat, shap : Runs \cup {NoRun}]
Report(items) == [run : Runs, item : items, at : Nat]
\* What find_correlated_pairs may list.
Couples == {c \in SUBSET Pairs : Cardinality(c) = 2}

-----------------------------------------------------------------------------
Init ==
    /\ now = 1
    /\ pc = [r \in Runs |-> "idle"]
    /\ mode = [r \in Runs |-> "sync"]
    /\ next = [r \in Runs |-> 1]
    /\ trades = [r \in Runs |-> [p \in Pairs |-> {}]]
    /\ loaded = [r \in Runs |-> [p \in Pairs |-> 0]]
    /\ computed = [r \in Runs |-> {}]
    /\ found = [r \in Runs |-> {}]
    /\ correlated = [r \in Runs |-> {}]
    /\ moment = [r \in Runs |-> 0]
    /\ todo = [r \in Runs |-> {}]
    /\ scores = {}
    /\ vectors = {}
    /\ rings = {}
    /\ correlations = {}
    /\ raw = {}
    /\ snapshots = Earlier
    /\ submitted = {}
    /\ overlap = {}
    /\ failures = 0

Goes(r, from, to) == pc[r] = from /\ pc' = [pc EXCEPT ![r] = to]
ClockMoves == now' = now + 1
Unchanged == UNCHANGED <<overlap, failures>>

\* run or async_run is called; load_models succeeds.
Start(r, m) ==
    /\ Goes(r, "idle", IF m = "multi" THEN "preload" ELSE "load")
    /\ mode' = [mode EXCEPT ![r] = m]
    /\ overlap' = overlap \cup {{r, s} : s \in {s \in Runs : Running(s)}}
    /\ UNCHANGED <<now, next, trades, loaded, computed, found, correlated, moment, todo,
                   tables, failures>>

\* multi_pair: the trades of all pairs are loaded, and pairs that both have
\* trades may be correlated.
Preload(r, traded, couples) ==
    /\ Goes(r, "preload", IF couples = {} THEN "load" ELSE "correlate")
    /\ \A c \in couples : \A p \in c : traded[p] # {}
    /\ trades' = [trades EXCEPT ![r] = traded]
    /\ loaded' = [loaded EXCEPT ![r] = [p \in Pairs |-> now]]
    /\ correlated' = [correlated EXCEPT ![r] = couples]
    /\ ClockMoves
    /\ UNCHANGED <<mode, next, computed, found, moment, todo, tables>> /\ Unchanged

\* Mutation: the moment is cut to seconds, and two saves may fall into one.
StampInSeconds(r, item) == moment[r] \div 4
\* ts, taken once for all the rows of a save.
Stamp(r, item) == moment[r]

\* The save of a list that is not empty begins by taking ts; the insertion
\* comes later, when the schema is checked and the database is free.
TakeMoment(r, from, to) ==
    /\ Goes(r, from, to)
    /\ moment' = [moment EXCEPT ![r] = now]
    /\ ClockMoves
    /\ UNCHANGED <<mode, next, trades, loaded, computed, found, correlated, todo, tables>>
    /\ Unchanged

ReportRows(r, items) == {[run |-> r, item |-> i, at |-> Stamp(r, i)] : i \in items}

SaveCorrelations(r) ==
    /\ Goes(r, "correlations", "load")
    /\ correlations' = correlations \cup ReportRows(r, correlated[r])
    /\ UNCHANGED <<now, locals, scores, vectors, rings, raw, snapshots, submitted>> /\ Unchanged

Pair(r) == AssetPairs[next[r]]

\* Where a run goes on, given the position it has reached and what it has
\* scored; with nothing scored, nothing is recorded.
AfterPair(position, list) ==
    IF position <= Len(AssetPairs) THEN "load" ELSE IF list = {} THEN "scores" ELSE "record"

\* Which raw rows of the pair there are to save.
AfterPayments(r) == IF <<r, Pair(r)>> \in Circular THEN "routes" ELSE "score"
AfterPools(r) == IF <<r, Pair(r)>> \in PathPayments THEN "payments" ELSE "score"
AfterLoad(r) == IF <<r, Pair(r)>> \in PoolTrades THEN "pools" ELSE AfterPools(r)

\* The trades of the pair in hand are known; trades.empty: on to the next pair.
UseTrades(r, accounts) ==
    IF accounts = {}
    THEN /\ next' = [next EXCEPT ![r] = @ + 1]
         /\ Goes(r, "load", AfterPair(next[r] + 1, computed[r]))
    ELSE /\ UNCHANGED next
         /\ Goes(r, "load", AfterLoad(r))

\* load_historical_trades, for the pair in hand.
LoadTrades(r, accounts) ==
    /\ mode[r] # "multi"
    /\ UseTrades(r, accounts)
    /\ trades' = [trades EXCEPT ![r][Pair(r)] = accounts]
    /\ loaded' = [loaded EXCEPT ![r][Pair(r)] = now]
    /\ ClockMoves
    /\ UNCHANGED <<mode, computed, found, correlated, moment, todo, tables>> /\ Unchanged

UsePreloaded(r) ==
    /\ mode[r] = "multi"
    /\ pc[r] = "load"
    /\ UseTrades(r, trades[r][Pair(r)])
    /\ UNCHANGED <<now, mode, trades, loaded, computed, found, correlated, moment, todo, tables>>
    /\ Unchanged

\* save_liquidity_pool_trades, save_path_payments and save_circular_routes:
\* nothing for an empty list, otherwise one transaction.
SaveRaw(r, kind, from, to) ==
    /\ Goes(r, from, to)
    /\ raw' = raw \cup {<<kind, r, Pair(r)>>}
    /\ UNCHANGED <<now, locals, scores, vectors, rings, correlations, snapshots, submitted>>
    /\ Unchanged

SavePools(r) == pc[r] = "pools" /\ SaveRaw(r, "pool", "pools", AfterPools(r))
SavePayments(r) == pc[r] = "payments" /\ SaveRaw(r, "payment", "payments", AfterPayments(r))
SaveRoutes(r) == SaveRaw(r, "route", "routes", "score")

\* The pair's rings are found, which async_run does not look for, and its
\* accounts are scored.
ScorePair(r, ring) ==
    /\ pc[r] = "score"
    /\ computed' = [computed EXCEPT ![r] = @ \cup
         {[run |-> r, wallet |-> w, pair |-> Pair(r), at |-> now] : w \in trades[r][Pair(r)]}]
    /\ Goes(r, "score", AfterPair(next[r] + 1, computed'[r]))
    /\ ring => mode[r] # "async"
    /\ found' = IF ring THEN [found EXCEPT ![r] = @ \cup {Pair(r)}] ELSE found
    /\ next' = [next EXCEPT ![r] = @ + 1]
    /\ ClockMoves
    /\ UNCHANGED <<mode, trades, loaded, correlated, moment, todo, tables>> /\ Unchanged

-----------------------------------------------------------------------------
Snapshot(x, at) == [run |-> x.run, wallet |-> x.wallet, pair |-> x.pair, at |-> at]

\* record_scored_features: the vectors are inserted (a row here stands for
\* the rows of a vector's features; the moment they carry only decides which
\* of them a pruning deletes) ...
Record(r) ==
    /\ Goes(r, "record", "prune")
    /\ snapshots' = snapshots \cup {Snapshot(x, now) : x \in computed[r]}
    /\ ClockMoves
    /\ UNCHANGED <<locals, scores, vectors, reports, submitted>> /\ Unchanged

\* DELETE ... WHERE recorded_at NOT IN (the newest rows): whole moments stay.
Kept == {x \in snapshots : Cardinality({y \in snapshots : y.at > x.at}) < SnapshotKeep}

\* Mutation: no pruning before twice the cap.
OverTwiceCap == Cardinality(snapshots) > 2 * SnapshotCap
OverCap == Cardinality(snapshots) > SnapshotCap

\* ... and the table is pruned if it has grown too large.
Prune(r) ==
    /\ Goes(r, "prune", "scores")
    /\ snapshots' = IF OverCap THEN Kept ELSE snapshots
    /\ UNCHANGED <<now, locals, scores, vectors, reports, submitted>> /\ Unchanged

\* run goes on after an exception in either.
RecordFails(r) ==
    /\ failures < MaxFailures
    /\ failures' = failures + 1
    /\ Goes(r, "record", "scores") \/ Goes(r, "prune", "scores")
    /\ UNCHANGED <<now, locals, tables, overlap>>

\* Mutation: the list starts afresh for each pair.
LastPairOnly(r) == {x \in computed[r] : x.pair = AssetPairs[Len(AssetPairs)]}
Inserted(r) == computed[r]

\* What is left to save; save_wash_rings does nothing without rings, so that
\* the table keeps the last ones, and async_run saves no more than the scores.
AfterRings(r) == IF computed[r] = {} THEN "enqueue" ELSE "scored"
AfterScores(r) ==
    IF mode[r] = "async" THEN "enqueue" ELSE IF found[r] # {} THEN "found" ELSE AfterRings(r)

\* save_scores: one transaction.
SaveScores(r) ==
    /\ Goes(r, "scores", AfterScores(r))
    /\ scores' = scores \cup Inserted(r)
    /\ UNCHANGED <<now, locals, vectors, reports, snapshots, submitted>> /\ Unchanged

SaveRings(r) ==
    /\ Goes(r, "rings", AfterRings(r))
    /\ rings' = rings \cup ReportRows(r, found[r])
    /\ UNCHANGED <<now, locals, scores, vectors, correlations, raw, snapshots, submitted>>
    /\ Unchanged

SaveVectors(r) ==
    /\ Goes(r, "vectors", "shap")
    /\ vectors' = vectors \cup
         {[run |-> r, wallet |-> x.wallet, pair |-> x.pair, at |-> moment[r], shap |-> NoRun] :
            x \in computed[r]}
    /\ todo' = [todo EXCEPT ![r] = computed[r]]
    /\ UNCHANGED <<now, mode, next, trades, loaded, computed, found, correlated, moment,
                   scores, reports, snapshots, submitted>>
    /\ Unchanged

\* The rows of a table for a wallet and pair.
Of(table, w, p) == {x \in table : x.wallet = w /\ x.pair = p}
\* Mutation: ORDER BY timestamp.
Oldest(rows) == {x \in rows : \A y \in rows : x.at <= y.at}
\* ORDER BY timestamp DESC LIMIT 1, and the rows with MAX(timestamp).
Newest(rows) == {x \in rows : \A y \in rows : y.at <= x.at}

AfterShap(r, rest) == IF rest = {} THEN "enqueue" ELSE "shap"
Handled(r, x) ==
    /\ x \in todo[r]
    /\ todo' = [todo EXCEPT ![r] = @ \ {x}]
    /\ Goes(r, "shap", AfterShap(r, todo'[r]))

\* Mutation: UPDATE without LIMIT 1.
AllVectors(x) == Of(vectors, x.wallet, x.pair)
NewestVector(x) == Newest(Of(vectors, x.wallet, x.pair))

\* save_shap_values: the explanation goes to the newest vector of the wallet
\* and pair, whichever run it belongs to.
Explain(r, x) ==
    LET target == NewestVector(x) IN
    /\ Handled(r, x)
    /\ vectors' = (vectors \ target) \cup {[v EXCEPT !.shap = r] : v \in target}
    /\ UNCHANGED <<now, mode, next, trades, loaded, computed, found, correlated, moment,
                   scores, reports, snapshots, submitted>>
    /\ Unchanged

\* explain_score or the save raises; with no xgboost model every one of them
\* is left out.
ExplainFails(r, x) ==
    /\ Handled(r, x)
    /\ UNCHANGED <<now, mode, next, trades, loaded, computed, found, correlated, moment, tables>>
    /\ Unchanged

\* _enqueue_webhook_alerts: the payload cannot be serialised (see StreamWorker,
\* Serialisable), the exception is logged, and nothing is queued.
Enqueue(r) ==
    /\ Goes(r, "enqueue", "submit")
    /\ UNCHANGED <<now, locals, tables>> /\ Unchanged

\* async_run does not pass no_submit on.
Submits(r) == r \notin NoSubmit \/ mode[r] = "async"

\* _submit_on_chain, with the contract configured: the scores at or above the
\* threshold.
Submit(r) ==
    /\ Goes(r, "submit", "done")
    /\ submitted' = IF Submits(r)
                      THEN submitted \cup {x \in computed[r] : <<r, x.wallet>> \in Risky}
                      ELSE submitted
    /\ UNCHANGED <<now, locals, scores, vectors, reports, snapshots>> /\ Unchanged

\* An exception that run does not catch (Horizon's answer, the models, one of
\* the saves outside a try), or the end of the process.
Abort(r) ==
    /\ Running(r)
    /\ failures < MaxFailures
    /\ failures' = failures + 1
    /\ pc' = [pc EXCEPT ![r] = "dead"]
    /\ UNCHANGED <<now, locals, tables, overlap>>

Stamps(r) ==
    \/ TakeMoment(r, "correlate", "correlations")
    \/ TakeMoment(r, "found", "rings")
    \/ TakeMoment(r, "scored", "vectors")

Step(r) ==
    \/ \E m \in Modes[r] : Start(r, m)
    \/ \E traded \in [Pairs -> SUBSET Accounts], couples \in SUBSET Couples :
         Preload(r, traded, couples)
    \/ SaveCorrelations(r)
    \/ \E accounts \in SUBSET Accounts : LoadTrades(r, accounts)
    \/ UsePreloaded(r)
    \/ SavePools(r) \/ SavePayments(r) \/ SaveRoutes(r)
    \/ \E ring \in BOOLEAN : ScorePair(r, ring)
    \/ Record(r) \/ Prune(r) \/ RecordFails(r)
    \/ SaveScores(r) \/ SaveRings(r) \/ SaveVectors(r)
    \/ \E x \in todo[r] : Explain(r, x) \/ ExplainFails(r, x)
    \/ Enqueue(r) \/ Submit(r)
    \/ Stamps(r)
    \/ Abort(r)

Next == \E r \in Runs : Step(r)

Spec == Init /\ [][Next]_vars

-----------------------------------------------------------------------------
\* The type invariant of the runs' locals and of the tables.
TypeOK ==
    /\ now \in Nat
    /\ pc \in [Runs -> Loading \cup Saving]
    /\ mode \in [Runs -> Mode]
    /\ next \in [Runs -> 1..Len(AssetPairs) + 1]
    /\ trades \in [Runs -> [Pairs -> SUBSET Accounts]]
    /\ loaded \in [Runs -> [Pairs -> Nat]]
    /\ computed \in [Runs -> SUBSET Row]
    /\ found \in [Runs -> SUBSET Pairs]
    /\ correlated \in [Runs -> SUBSET {c \in SUBSET Pairs : Cardinality(c) = 2}]
    /\ moment \in [Runs -> Nat]
    /\ todo \in [Runs -> SUBSET Row]
    /\ scores \subseteq Row
    /\ vectors \subseteq Vector
    /\ rings \subseteq Report(Pairs)
    /\ correlations \subseteq Report({c \in SUBSET Pairs : Cardinality(c) = 2})
    /\ raw \subseteq Raw \X Runs \X Pairs
    /\ snapshots \subseteq Earlier \cup Row
    /\ submitted \subseteq Row
    /\ overlap \subseteq SUBSET Runs
    /\ failures \in 0..MaxFailures

\* A reader of risk_scores sees the scores of a run all together, and only
\* when the last pair is done: a run that fails on its way leaves none.
ScoresAllOrNone ==
    \A r \in Runs : LET saved == {x \in scores : x.run = r} IN
        saved # {} => saved = computed[r] /\ next[r] > Len(AssetPairs)

\* Whatever is given to the contract can be read in risk_scores, however the
\* run ends afterwards.
SubmittedIsSaved == submitted \subseteq scores

\* The pool trades, payments and routes of a pair are stored before any score
\* that was computed from them.
RawBeforeScores ==
    \A x \in scores :
        /\ <<x.run, x.pair>> \in PoolTrades => <<"pool", x.run, x.pair>> \in raw
        /\ <<x.run, x.pair>> \in PathPayments => <<"payment", x.run, x.pair>> \in raw
        /\ <<x.run, x.pair>> \in Circular => <<"route", x.run, x.pair>> \in raw

\* Run r read Horizon after run s did, if the two did not run at the same time.
Fresher(r, s) ==
    \/ {r, s} \in overlap
    \/ \A p, q \in Pairs :
         loaded[s][p] # 0 /\ loaded[r][q] # 0 => loaded[s][p] < loaded[r][q]

\* get_latest_scores: of two runs that did not overlap, the later one's score
\* of a wallet and pair is shown.
LatestScoreIsFreshest ==
    \A w \in Accounts, p \in Pairs :
        \A x \in Newest(Of(scores, w, p)), y \in Of(scores, w, p) :
            x.run # y.run => Fresher(x.run, y.run)

\* get_wash_rings and get_pair_correlations show what one run found, all of it,
\* and no run that found something read Horizon later, unless it overlapped.
ShowsOneRun(table, items) ==
    \A x \in Newest(table) :
        /\ {[run |-> x.run, item |-> i, at |-> x.at] : i \in items[x.run]} = Newest(table)
        /\ \A y \in table : y.run # x.run => Fresher(x.run, y.run)

ReportsOfOneRun == ShowsOneRun(rings, found) /\ ShowsOneRun(correlations, correlated)

\* get_shap_values: an explanation is that of the vector it is stored with,
\* unless the run that computed it overlapped the vector's.
ExplanationIsOwn ==
    \A v \in vectors : v.shap \notin {NoRun, v.run} => {v.shap, v.run} \in overlap

\* The hard cap of the snapshot table: it may be exceeded by part of a batch,
\* by the batches whose pruning is still to come, and by those whose pruning
\* failed.
SnapshotsBounded ==
    LET kept == SnapshotKeep + Batch - 1
        pruning == Cardinality({r \in Runs : pc[r] = "prune"})
    IN  Cardinality(snapshots) <=
          (IF kept < SnapshotCap THEN SnapshotCap ELSE kept)
            + Batch * (pruning + failures)
=============================================================================
