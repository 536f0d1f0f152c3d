--------------------------- MODULE MCSchedulerAPI ---------------------------
EXTENDS SchedulerAPI, TLC

ClientSymmetry == Permutations(Threads)

=============================================================================
