----------------------------- MODULE MCKeyTools -----------------------------
\* KeyTools for TLC: seeds and messages are interchangeable.
EXTENDS KeyTools, TLC

Interchangeable == Permutations(SEEDS) \cup Permutations(MESSAGES)
=============================================================================
