--------------------------- MODULE MCBooguAdapter ---------------------------
EXTENDS BooguAdapter, TLC

Interchangeable == Permutations(Cameras) \cup Permutations(Windows)
=============================================================================
