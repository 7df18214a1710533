------------------------- MODULE MCWebhookDelivery -------------------------
\* Instances of WebhookDelivery for TLC.
EXTENDS WebhookDelivery, TLC

CONSTANTS r1, r2, r3, s1, s2

\* The first two rows are for one subscriber, the third for another one.
OwnerOfThree == (r1 :> s1) @@ (r2 :> s1) @@ (r3 :> s2)
OwnerOfTwo == (r1 :> s1) @@ (r2 :> s1)

\* Workers, and rows of the same subscriber, are interchangeable (safety only).
Interchangeable == Permutations(Workers) \cup Permutations(Rows)
=============================================================================
