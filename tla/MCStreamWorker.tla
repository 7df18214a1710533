--------------------------- MODULE MCStreamWorker ---------------------------
(* An order-book trade, a wallet's trade with itself and a pool trade.      *)
EXTENDS StreamWorker, TLC

CONSTANTS a, b, xlm_usdc, alice, order, wash, pool

MCTrades == {order, wash, pool}
MCBase == (order :> a) @@ (wash :> b) @@ (pool :> NoWallet)
MCCounter == (order :> b) @@ (wash :> b) @@ (pool :> a)
MCPair == [t \in MCTrades |-> xlm_usdc]
MCMatching == [w \in {a, b} |-> {alice}]
=============================================================================
