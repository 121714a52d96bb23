---------------------------- MODULE MCSolveCheck ----------------------------
EXTENDS SolveCheck

MCTables == {<<3, 1, 2>>, <<9, 4>>}
MCCharsets == {0..3, {1, 2}}
=============================================================================
