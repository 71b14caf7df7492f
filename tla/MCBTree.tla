------------------------------ MODULE MCBTree ------------------------------
EXTENDS BTreeMap, TLC

Sym == Permutations(Values)
=============================================================================
