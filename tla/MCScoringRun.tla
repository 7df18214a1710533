---------------------------- MODULE MCScoringRun ----------------------------
(* Two runs over one pair, in combinations of modes, that find raw data of *)
(* every kind between them, with a row of each of two earlier runs; or two *)
(* runs with multi_pair=True over two pairs, both of which may find rings  *)
(* and correlations.                                                       *)
EXTENDS ScoringRun, TLC

CONSTANTS first, second, wallet, xlm_usdc, xlm_eurc

OnePair == <<xlm_usdc>>
TwoPairs == <<xlm_usdc, xlm_eurc>>
AnyMode == (first :> {"sync", "multi"}) @@ (second :> {"sync", "async"})
MultiPair == (first :> {"multi"}) @@ (second :> {"multi"})
MCRisky == {<<first, wallet>>, <<second, wallet>>}
MCPools == {<<first, xlm_usdc>>, <<second, xlm_eurc>>}
MCPayments == {<<first, xlm_usdc>>, <<first, xlm_eurc>>, <<second, xlm_usdc>>}
MCCircular == {<<first, xlm_eurc>>, <<second, xlm_usdc>>}
MCEarlier == {[run |-> NoRun, wallet |-> wallet, pair |-> xlm_usdc, at |-> t] : t \in {-1, 0}}

\* For two runs over two pairs: they are interchangeable.
Either == Permutations({first, second})

\* In these phases a run writes no table that ScoresAllOrNone, SubmittedIsSaved
\* and ReportsOfOneRun read, and takes no moment that they compare: a run in
\* one of them goes on before the other does anything, and its explanations
\* succeed.  Its failures are left where they are.
Quiet == {"load", "score", "record", "prune", "shap", "enqueue"}
QuietGoesOn ==
    \A r \in Runs :
        /\ pc[r] \in Quiet => <<pc[r], next[r], todo[r]>>' # <<pc[r], next[r], todo[r]>>
        /\ todo'[r] # todo[r] => vectors' # vectors
=============================================================================
