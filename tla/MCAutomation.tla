---------------------------- MODULE MCAutomation ----------------------------
EXTENDS Automation, TLC
CONSTANTS w1, w2
WorkerSymmetry == Permutations(Workers)
=============================================================================
