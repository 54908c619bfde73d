--------------------------- MODULE MCPatternStore ---------------------------
EXTENDS StoreRefinement

CONSTANTS c1, c2, A, B
OneClient == {c1}
TwoClients == {c1, c2}
TwoNames == {A, B}
=============================================================================
