------------------------------ MODULE MCReviews ------------------------------
(* Small instances of Reviews for TLC.                                      *)
EXTENDS Reviews, TLC

CONSTANTS i1, i2, r1

MCImporters == {i1, i2}
MCSymmetry == Permutations(MCImporters)
MCReaders == {r1}
MCTimes == {1, 2}
MCEntries == <<[rating |-> 2, reply |-> FALSE], [rating |-> 1, reply |-> TRUE]>>
=============================================================================
