----------------------------- MODULE MCScoreReads -----------------------------
\* An instance of ScoreReads for TLC.  Keys are interchangeable (safety only).
EXTENDS ScoreReads, TLC

Interchangeable == Permutations(Keys)
=============================================================================
