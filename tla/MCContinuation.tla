--------------------------- MODULE MCContinuation ---------------------------
EXTENDS ContinuationWatchdog

CONSTANTS w1, w2, w3

\* A developer and a reviewer; the Task is followed from its review through
\* the revision the review may ask for.
Chain == <<w1, w2>>
Course == <<2, 1, 2>>
=============================================================================
