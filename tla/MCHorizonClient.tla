--------------------------- MODULE MCHorizonClient ---------------------------
\* An instance of HorizonClient for TLC: five trades, one of them a pool trade
\* with a single account, and one older than the cutoff.
EXTENDS HorizonClient, TLC

CONSTANTS a, b

MCParties == <<{a, b}, {a}, {a, b}, {b}, {a}>>
=============================================================================
