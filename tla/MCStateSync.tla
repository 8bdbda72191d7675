------------------------------ MODULE MCStateSync ------------------------------
EXTENDS StateSync, TLC
CONSTANTS a, b, c, d
MCVals == {a, b, c, d}
MCRefused == {d}
MCNone == {}
Alike == Permutations({b, c})
=============================================================================
