------------------------------- MODULE MCHost -------------------------------
EXTENDS Host, TLC

\* Panes and clients are interchangeable; only runs without liveness use this.
Symmetry == Permutations(Panes) \cup Permutations(Clients)
=============================================================================
