--------------------------- MODULE MCMediaImport ---------------------------
EXTENDS MediaImport, TLC

CONSTANTS t1, t2, u1, u2, e1, r1, r2, w1, w2

\* The chassis entries over one namespace are alike, and so are the commands.
Alike == Permutations(Watcher) \cup Permutations(Power)
=============================================================================
