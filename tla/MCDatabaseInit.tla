---------------------------- MODULE MCDatabaseInit ----------------------------
(* Small instances of DatabaseInit for TLC.                                 *)
EXTENDS DatabaseInit, TLC

CONSTANTS p1, p2, t1, t2, m1, c1, c2, noCode

OneProcess == {p1}
TwoProcesses == {p1, p2}
MCThreads == {t1, t2}
MCMessages == {m1}
MCCodes == {c1, c2}
InitSymmetry == Permutations({p1, p2}) \cup Permutations({t1, t2}) \cup Permutations({c1, c2})
=============================================================================
