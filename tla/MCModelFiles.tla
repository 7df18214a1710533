----------------------------- MODULE MCModelFiles -----------------------------
\* An instance of ModelFiles for TLC: an ensemble of two models.
EXTENDS ModelFiles, TLC

CONSTANTS random_forest, xgboost

TwoModels == <<random_forest, xgboost>>

\* Writers, and versions, are interchangeable (safety only).
Interchangeable == Permutations(Writers) \cup Permutations(Versions)
=============================================================================
