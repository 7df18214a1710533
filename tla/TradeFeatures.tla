--------------------------- MODULE TradeFeatures ---------------------------
(***************************************************************************)
(* The features of a wallet that are counts, shares and rates of trades    *)
(* (detection/feature_engineering.py, amm_engine.py,                       *)
(* path_payment_engine.py, cross_pair_engine.py), and the pool trades that *)
(* the pipeline's runs store and the API computes a pool's risk from.      *)
(*                                                                         *)
(* A feature is a fraction <<numerator, denominator>>.                     *)
(***************************************************************************)
EXTENDS TradeGraph, Functions

CONSTANTS
    Payable,      \* the path payments Horizon may report
    Placed,       \* the order book events Horizon may report
    Correlated,   \* sets of two pairs that find_correlated_pairs may return
    Sources,      \* accounts that funded others
    NoSource,     \* funding_source of an account without one, None
    Window,       \* the hour of a pool round trip, the ten minutes of a burst
    Baseline,     \* baseline_window, in buckets of one moment
    MaxTrades,    \* max_trades of a round trip
    OffHours,     \* the moments in off_hours
    MaxRecords,   \* bound: trades, path payments, events
    MaxRuns       \* bound: pipeline runs

Payment == [source : Accounts, destination : Accounts, same_asset : BOOLEAN,
            sent : Nat, received : Nat]
OrderBookEvent == [id : Nat, account : Accounts, cancelled : BOOLEAN]

ASSUME FeatureAssumption ==
    /\ Payable \subseteq Payment
    /\ Placed \subseteq OrderBookEvent
    /\ \A c \in Correlated : c \subseteq Pairs /\ Cardinality(c) = 2
    /\ Window \in Nat /\ Baseline \in Nat /\ MaxTrades \in Nat
    /\ MaxRecords \in Nat /\ MaxRuns \in Nat

VARIABLES
    payments,   \* path payments of the wallets
    events,     \* order book events of the wallets
    stored,     \* liquidity_pool_trades: how many rows each trade has
    runs        \* pipeline runs so far

vars == <<trades, payments, events, stored, runs>>

Init ==
    /\ trades = {}
    /\ payments = {}
    /\ events = {}
    /\ stored = [t \in {t \in Offered : IsPool(t)} |-> 0]
    /\ runs = 0

\* Trades, payments and events are looked at apart: no feature reads two of them.
Few(added, others) == Cardinality(added) < MaxRecords /\ others = {}

Trades(t) ==
    /\ Few(trades, payments \cup events)
    /\ Arrives(t)
    /\ UNCHANGED <<payments, events, stored, runs>>

Pays(p) ==
    /\ Few(payments, trades \cup events)
    /\ p \in Payable \ payments
    /\ payments' = payments \cup {p}
    /\ UNCHANGED <<trades, events, stored, runs>>

Places(e) ==
    /\ Few(events, trades \cup payments)
    /\ e \in Placed \ events
    /\ events' = events \cup {e}
    /\ UNCHANGED <<trades, payments, stored, runs>>

\* A run of the pipeline inserts the pool trades of a pair that it has loaded,
\* whether or not an earlier run has (save_liquidity_pool_trades).
Run(pair) ==
    LET pool == {t \in trades : IsPool(t) /\ t.pair = pair} IN
    /\ runs < MaxRuns
    /\ pool # {}
    /\ runs' = runs + 1
    /\ stored' = [t \in DOMAIN stored |-> IF t \in pool THEN stored[t] + 1 ELSE stored[t]]
    /\ UNCHANGED <<trades, payments, events>>

Next ==
    \/ \E t \in Offered : Trades(t)
    \/ \E p \in Payable : Pays(p)
    \/ \E e \in Placed : Places(e)
    \/ \E pair \in Pairs : Run(pair)

Spec == Init /\ [][Next]_vars

-----------------------------------------------------------------------------
Volume(table) == SumFunction([t \in table |-> t.amount])
Ratio(num, den) == IF den > 0 THEN <<num, den>> ELSE <<0, 1>>
Of(table, pair) == {t \in table : t.pair = pair}

\* _account_trades and _counterparties
AccountTrades(table, a) == {t \in table : a \in {t.base, t.counter}}
Counterparty(t, a) == IF t.base = a THEN t.counter ELSE t.base
\* Mutation: a pool is a counterparty too.
CounterpartiesAndPools(table, a) == {Counterparty(t, a) : t \in AccountTrades(table, a)}
Counterparties(table, a) ==
    {Counterparty(t, a) : t \in AccountTrades(table, a)} \ {NoAccount}

\* counterparty_concentration_ratio: groupby drops the pools' trades from the
\* parts and from the total.
counterparty_concentration_ratio(table, a) ==
    LET own == AccountTrades(table, a)
        share(c) == Volume({t \in own : Counterparty(t, a) = c})
        all == Counterparties(table, a)
    IN  IF all = {} THEN <<0, 1>>
        ELSE Ratio(CHOOSE v \in {share(c) : c \in all} : \A c \in all : share(c) <= v,
                   Volume({t \in own : Counterparty(t, a) # NoAccount}))

network_centrality(table, a) ==
    LET everyone == (UNION {{t.base, t.counter} : t \in table}) \ {NoAccount} IN
    IF Cardinality(everyone) <= 1 THEN <<0, 1>>
    ELSE <<Cardinality(Counterparties(table, a)), Cardinality(everyone) - 1>>

self_matching_rate(table) ==
    Ratio(Cardinality({t \in table : t.base = t.counter}), Cardinality(table))

\* Trades of the same calendar minute have the same moment here.
intra_minute_clustering_coefficient(table) ==
    Ratio(Cardinality({t \in table : \E u \in table \ {t} : u.at = t.at}), Cardinality(table))

off_hours_activity_ratio(table) ==
    Ratio(Cardinality({t \in table : t.at \in OffHours}), Cardinality(table))

order_cancellation_rate(own) ==
    Ratio(Cardinality({e \in own : e.cancelled}), Cardinality(own))

\* A pool has no metadata.  The mean is over the wallet's trades, so that a
\* counterparty counts once for each of them.
funding_source_similarity_score(table, a, funding) ==
    LET own == AccountTrades(table, a)
        same == {t \in own : /\ Counterparty(t, a) # NoAccount
                             /\ funding[Counterparty(t, a)] = funding[a]}
    IN  IF funding[a] = NoSource THEN <<0, 1>> ELSE Ratio(Cardinality(same), Cardinality(own))

Square(n) == n * n
\* resample: a bucket for every moment from the first trade to the last one, the
\* empty ones too.  One is a spike when it exceeds the mean by more than two
\* standard deviations (of the sample): n * (n - 1) variances are `spread`.
volume_spike_frequency(table, asOf) ==
    LET recent == {t \in table : t.at > asOf - Baseline /\ t.at <= asOf}
        buckets == {m \in 0..asOf : \E t, u \in recent : t.at <= m /\ m <= u.at}
        volume == [m \in buckets |-> Volume({t \in recent : t.at = m})]
        n == Cardinality(buckets)
        total == SumFunction(volume)
        spread == n * SumFunction([m \in buckets |-> Square(volume[m])]) - Square(total)
        spikes == {m \in buckets : /\ n * volume[m] > total
                                   /\ (n - 1) * Square(n * volume[m] - total) > 4 * n * spread}
    IN  IF n < 2 \/ spread = 0 THEN <<0, 1>> ELSE <<Cardinality(spikes), n>>

\* sort_values("ledger_close_time"): trades of one moment come in any order.
Sorted(table) ==
    {rank \in [table -> 1..Cardinality(table)] :
        \A i, j \in table : i # j => rank[i] # rank[j] /\ (i.at < j.at => rank[i] < rank[j])}

\* The asset the account gives up is taken for the base asset when it is the base.
Gave(t, a) == IF t.base = a THEN "base" ELSE "counter"
\* The trades that one of the next max_trades reverses.
Reversed(own, a, rank) ==
    {i \in own : \E j \in own :
        rank[j] > rank[i] /\ rank[j] <= rank[i] + MaxTrades /\ Gave(j, a) # Gave(i, a)}
round_trip_trade_frequency(table, a, rank) ==
    LET own == AccountTrades(table, a) IN
    IF Cardinality(own) < 2 THEN <<0, 1>>
    ELSE <<Cardinality(Reversed(own, a, rank)), Cardinality(own)>>

PoolTrades(table, a) == {t \in table : IsPool(t) /\ t.base = a}

\* The trades a later one of the table returns within the window.
RoundTrips(table, rank) ==
    {i \in table : \E j \in table :
        /\ rank[j] > rank[i] /\ j.at <= i.at + Window
        /\ j.pair = i.pair /\ j.base_is_seller # i.base_is_seller}

\* pool_round_trip_ratio of amm_engine, for the pool of the pair
pool_round_trip_ratio(table, a, rank) ==
    LET own == PoolTrades(table, a) IN
    IF Cardinality(own) < 2 THEN <<0, 1>>
    ELSE <<Cardinality(RoundTrips(own, rank)), Cardinality(own)>>

pool_trade_ratio(table, a) ==
    Ratio(Volume(PoolTrades(table, a)), Volume(AccountTrades(table, a)))

\* pool_risk_from_trade_rows: what it finds for one row among the later ones.
Matched(rows, row, rank) ==
    LET later == {r \in rows : rank[r] > rank[row]} IN
    {r \in {r \in later : r.at <= row.at + Window} :
        r.pair = row.pair /\ r.base_is_seller # row.base_is_seller}

\* Mutation: the rows are not grouped by account.
MatchedOfAll(pool, a, rank) == {row \in pool : row.base = a /\ Matched(pool, row, rank) # {}}
\* groupby("base_account"): the rows of an account that have a match.
MatchedOfOne(pool, a, rank) ==
    LET rows == {row \in pool : row.base = a} IN {row \in rows : Matched(rows, row, rank) # {}}

Stored(pair) == {t \in DOMAIN stored : t.pair = pair /\ stored[t] > 0}
Copies(table) == SumFunctionOnSet(stored, table)

\* pool_risk_from_trade_rows, on the stored rows of a pool; the copies of a
\* trade follow one another.
PoolRisk(pair, rank) ==
    Ratio(Copies(UNION {MatchedOfOne(Stored(pair), a, rank) : a \in Accounts}),
          Copies(Stored(pair)))

-----------------------------------------------------------------------------
\* detect_atomic_circular_routes and path_payment_features
IsSelfPayment(p) == p.source = p.destination
CycleVolume(p) == Least(p.sent, p.received)
CircularRoutes(own) == {p \in own : IsSelfPayment(p) \/ p.same_asset}

atomic_self_payment_ratio(own) ==
    Ratio(Cardinality({p \in CircularRoutes(own) : IsSelfPayment(p)}), Cardinality(own))
path_cycle_volume_ratio(own) ==
    LET cycles == {p \in CircularRoutes(own) : ~IsSelfPayment(p)} IN
    Ratio(SumFunction([p \in cycles |-> CycleVolume(p)]), SumFunction([p \in own |-> p.sent]))

-----------------------------------------------------------------------------
(* cross_pair_engine.find_cross_pair_wallets and cross_pair_features.      *)

\* Mutation: only trades that follow are close.
CloseAfter(t, u) == u.at - t.at \in 0..Window
Close(t, u) == t.at - u.at \in -Window..Window

\* The wallet trades in both pairs within the window.
TradesTogether(couple, a) ==
    \E t, u \in AccountTrades(trades, a) : {t.pair, u.pair} = couple /\ Close(t, u)

cross_pair_wallets(correlated, a) == UNION {c \in correlated : TradesTogether(c, a)}

\* burst_trades: the break leaves the loop over the wallet's trades, so a pair
\* counts at most once for each other pair.
BurstTrades(active, a) ==
    Cardinality({c \in active \X active :
        /\ c[1] # c[2]
        /\ \E t \in AccountTrades(Of(trades, c[1]), a), u \in Of(trades, c[2]) : Close(t, u)})

ActiveTrades(active) == {t \in trades : t.pair \in active}
cross_pair_burst_overlap_ratio(active, a) ==
    Ratio(BurstTrades(active, a), Cardinality(AccountTrades(ActiveTrades(active), a)))
cross_pair_volume_concentration(active, a) ==
    Ratio(Volume(AccountTrades(ActiveTrades(active), a)), Volume(ActiveTrades(active)))

-----------------------------------------------------------------------------
IsFraction(f) == f[2] > 0 /\ f[1] \in 0..f[2]
Below1(f) == IsFraction(f) /\ f[1] < f[2]

\* What feature_engineering.py and amm_engine.py call a "fraction of" in a
\* docstring or beside a feature's name lies between 0 and 1 for every wallet,
\* with pool trades and self-trades among the trades, and whenever the pipeline
\* runs.  Round trips never reach 1: a wallet's last trade has nothing after it.
\* The centrality is a fraction too, unless the wallet traded with itself.
FractionsInRange ==
    /\ \A p \in Pairs : LET table == Of(trades, p) IN
        /\ IsFraction(self_matching_rate(table))
        /\ IsFraction(intra_minute_clustering_coefficient(table))
        /\ IsFraction(off_hours_activity_ratio(table))
        /\ \A now \in {t.at : t \in table} : IsFraction(volume_spike_frequency(table, now))
        /\ \A a \in Accounts :
             /\ IsFraction(counterparty_concentration_ratio(table, a))
             /\ \A rank \in Sorted(AccountTrades(table, a)) :
                  Below1(round_trip_trade_frequency(table, a, rank))
             /\ \A rank \in Sorted(PoolTrades(table, a)) :
                  Below1(pool_round_trip_ratio(table, a, rank))
             /\ IsFraction(pool_trade_ratio(table, a))
             /\ \A funding \in [Accounts -> Sources \cup {NoSource}] :
                  IsFraction(funding_source_similarity_score(table, a, funding))
             /\ a \notin Counterparties(table, a) => IsFraction(network_centrality(table, a))
    /\ \A a \in Accounts : LET own == {p \in payments : p.source = a} IN
        /\ IsFraction(atomic_self_payment_ratio(own))
        /\ IsFraction(path_cycle_volume_ratio(own))
    /\ \A a \in Accounts : IsFraction(order_cancellation_rate({e \in events : e.account = a}))

\* find_cross_pair_wallets and cross_pair_features look for bursts each in its
\* own way and agree: a wallet listed for a couple of pairs has a burst in each
\* of the two, in no more trades than it made, and volume in both.
CrossPairAgrees ==
    \A correlated \in SUBSET Correlated, a \in Accounts :
        LET active == cross_pair_wallets(correlated, a) IN
        active # {} =>
            /\ BurstTrades(active, a) >= Cardinality(active)
            /\ IsFraction(cross_pair_volume_concentration(active, a))
            /\ Cardinality(active) = 2 => IsFraction(cross_pair_burst_overlap_ratio(active, a))

\* The API computes a pool's round-trip ratio from the stored rows, with a
\* loop of its own: it is the mean of the wallets' features, weighted by their
\* trades, as long as all trades are stored equally often (a run that stores
\* some of them again gives these more weight) and both sort trades of one
\* moment alike.  Copies of a trade may lie on both sides of another one of the
\* same moment.
Even(table) == \E k \in 1..MaxRuns :
    /\ \A t \in table : stored[t] = k
    /\ k > 1 => \A t, u \in table : t.base = u.base /\ t.at = u.at => t = u
PoolRiskAgrees ==
    \A p \in Pairs :
        Stored(p) # {} /\ Even(Stored(p)) => \A rank \in Sorted(Stored(p)) :
            LET trips == [a \in Accounts |-> pool_round_trip_ratio(Stored(p), a, rank)[1]]
                risk == PoolRisk(p, rank)
            IN  risk[1] * Cardinality(Stored(p)) = risk[2] * SumFunction(trips)
=============================================================================
