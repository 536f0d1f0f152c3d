------------------------------- MODULE MCAgent ------------------------------
EXTENDS Agent, TLC

SpeedtestSymmetry == Permutations(Threads)

=============================================================================
