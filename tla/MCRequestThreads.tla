--------------------------- MODULE MCRequestThreads ---------------------------
(* Small instances of RequestThreads for TLC.                              *)
EXTENDS RequestThreads, TLC

CONSTANTS noRoom, noTable, gone, keep, noPlan, t1, t2

MCCapacities == {2}
MCParties == {2}
MCTimes == {0, 2}
MCSeedCapacities == <<2>>
MCPlannedTables == {1}
MCThreads == {t1, t2}
ThreadSymmetry == Permutations(MCThreads)
=============================================================================
