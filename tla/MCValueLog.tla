------------------------------ MODULE MCValueLog ------------------------------
EXTENDS ValueLog, TLC

CONSTANTS k1, k2, v1, v2, none
MCKeys == {k1, k2}
MCValues == {v1, v2}

\* Keys and values are only compared for equality: a renaming of either
\* maps behaviours to behaviours.  Used by the safety run only.
MCSymmetry == Permutations(MCKeys) \cup Permutations(MCValues)
====
