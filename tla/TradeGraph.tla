----------------------------- MODULE TradeGraph -----------------------------
(***************************************************************************)
(* The trades of one market as the detectors see them, and the wash rings  *)
(* detection/graph_engine.py finds in them.                                *)
(*                                                                         *)
(* Trades arrive one at a time; every run of the pipeline and every trade  *)
(* of the stream computes from those there are.  The partition into        *)
(* communities is networkx's: whatever set of wallets it may form is one   *)
(* here.                                                                   *)
(***************************************************************************)
EXTENDS RiskScore, FiniteSets

CONSTANTS
    Accounts,
    NoAccount,        \* counter_account of a pool trade, None
    Pairs,            \* asset pairs
    Offered,          \* the trades Horizon may report
    MinRingSize,      \* min_ring_size
    MaxCycleLength    \* max_cycle_length

Trade == [pair : Pairs, base : Accounts, counter : Accounts \cup {NoAccount},
          base_is_seller : BOOLEAN, amount : Nat, at : Nat]

ASSUME GraphAssumption ==
    /\ NoAccount \notin Accounts
    /\ IsFiniteSet(Accounts)
    /\ Offered \subseteq Trade
    /\ MinRingSize \in Nat /\ MaxCycleLength \in Nat

VARIABLE trades

Arrives(t) ==
    /\ t \in Offered \ trades
    /\ trades' = trades \cup {t}

-----------------------------------------------------------------------------
(* build_trade_graph.                                                      *)

IsPool(t) == t.counter = NoAccount
Seller(t) == IF t.base_is_seller THEN t.base ELSE t.counter
Buyer(t) == IF t.base_is_seller THEN t.counter ELSE t.base

\* Mutation: a self-trade is an edge.
BetweenAny(t) == ~IsPool(t)
\* Pool trades and self-trades are skipped.
BetweenWallets(t) == ~IsPool(t) /\ Seller(t) # Buyer(t)

\* The edges of the graph of a pair, among some of its wallets.
Edges(table, pair, members) ==
    {<<Seller(t), Buyer(t)>> : t \in {t \in table : BetweenWallets(t) /\ t.pair = pair}}
        \cap (members \X members)

\* _reciprocal_edge_ratio's numerator.
Mutual(edges) == {e \in edges : <<e[2], e[1]>> \in edges}

\* nx.simple_cycles: a cycle is the function that takes each of its wallets to
\* the next one, and no smaller set of them is closed under it.
IsCycle(next, edges) ==
    /\ \A v \in DOMAIN next : <<v, next[v]>> \in edges
    /\ \A part \in SUBSET DOMAIN next :
         part # {} /\ (\A v \in part : next[v] \in part) => part = DOMAIN next

\* find_trade_cycles; the cap on their number is out of reach of its callers'
\* scores, which stop counting at five.
Cycles(edges, members) ==
    UNION {{next \in [c -> c] : IsCycle(next, edges)} :
             c \in {c \in SUBSET members : Cardinality(c) \in 2..MaxCycleLength}}

CycleSaturation == 5
PossibleEdges(n) == n * (n - 1)

\* _score_ring: reciprocity weighs 40, the cycles 35 and the density 25.  (The
\* floats of the code round as the exact sum does in communities of up to four
\* wallets.)
RingScore(table, pair, members) ==
    LET edges == Edges(table, pair, members)
        n == Cardinality(edges)
        whole == n * PossibleEdges(Cardinality(members))
        raw == 40 * Cardinality(Mutual(edges)) * PossibleEdges(Cardinality(members))
                 + 7 * Least(Cardinality(Cycles(edges, members)), CycleSaturation) * whole
                 + 25 * n * n
    IN  IF n = 0 THEN 0 ELSE Least(100, Rounded(raw, whole))

Wallets(table, pair) ==
    UNION {{t.base, t.counter} : t \in {t \in table : BetweenWallets(t) /\ t.pair = pair}}

\* What detect_communities may return.
Communities(table, pair) ==
    {c \in SUBSET Wallets(table, pair) : Cardinality(c) >= MinRingSize}

-----------------------------------------------------------------------------
\* The wallets can be ranked so that the base asset only ever goes up.
OneWay(table, pair, members) ==
    \E rank \in [members -> 1..Cardinality(members)] :
        \A t \in table :
            t.pair = pair /\ ~IsPool(t) /\ {t.base, t.counter} \subseteq members
              => t.base = t.counter \/ rank[Seller(t)] < rank[Buyer(t)]

\* graph_engine.py, module docstring: the score tells circular trading from
\* genuine flow.  A community in which the asset only ever goes one way scores
\* at most 12, however many trades it makes; one of at most four wallets with
\* a cycle scores more, if cycles of its size are searched for.
CyclesTellRings ==
    \A p \in Pairs : \A c \in Communities(trades, p) :
        IF OneWay(trades, p, c)
        THEN RingScore(trades, p, c) <= 12
        ELSE Cardinality(c) <= Least(4, MaxCycleLength) => RingScore(trades, p, c) > 12
=============================================================================
