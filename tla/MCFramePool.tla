----------------------------- MODULE MCFramePool -----------------------------
EXTENDS CoremapLoops, TLC
CONSTANTS e1, e2, e3, t1, t2
MCEntries == {e1, e2, e3}
MCThreads == {t1, t2}
Sym == Permutations(MCEntries) \cup Permutations(MCThreads)
=============================================================================
