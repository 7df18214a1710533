------------------------- MODULE MCSorobanPublisher -------------------------
\* An instance of SorobanPublisher for TLC: every kind of error.
EXTENDS SorobanPublisher

AllErrors == {"auth", "bad_seq", "insufficient_fee", "timeout", "other"}
=============================================================================
