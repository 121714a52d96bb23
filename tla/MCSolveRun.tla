----------------------------- MODULE MCSolveRun -----------------------------
EXTENDS SolveRun, TLC

CONSTANTS rsa, vm, right, wrong        \* directories and flags

MCExpected == (rsa :> right) @@ (vm :> NoFlag)
=============================================================================
