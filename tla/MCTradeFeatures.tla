-------------------------- MODULE MCTradeFeatures --------------------------
(* Three wallets that trade with each other and themselves in two pairs, one *)
(* of which has a pool.                                                      *)
EXTENDS TradeFeatures, TLC

CONSTANTS p, q

Between(pair, at, side) ==
    {[pair |-> pair, base |-> b, counter |-> c, base_is_seller |-> side, amount |-> at, at |-> at] :
       b \in Accounts, c \in Accounts}
Swaps(at, sides, amount) ==
    {[pair |-> p, base |-> b, counter |-> NoAccount, base_is_seller |-> side, amount |-> amount,
      at |-> at] : b \in Accounts, side \in sides}

\* A pool trade at moment 7 is beyond the window of the others, and large enough
\* to be a spike after empty buckets.
MCOffered ==
    Between(p, 1, TRUE) \cup {t \in Between(q, 3, FALSE) : t.base # t.counter}
      \cup Swaps(1, {TRUE}, 1) \cup Swaps(2, BOOLEAN, 1) \cup Swaps(7, {FALSE}, 12)
MCPlaced == [id : 1..2, account : Accounts, cancelled : BOOLEAN]
MCPayable ==
    {[source |-> b, destination |-> c, same_asset |-> same, sent |-> 2,
      received |-> IF same THEN 3 ELSE 1] : b \in Accounts, c \in Accounts, same \in BOOLEAN}
MCCorrelated == {{p, q}}

Interchangeable == Permutations(Accounts)
=============================================================================
