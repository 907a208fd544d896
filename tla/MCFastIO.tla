-------------------------------- MODULE MCFastIO -------------------------------
EXTENDS FastIO, TLC

Symmetry == Permutations(IOs)

================================================================================
