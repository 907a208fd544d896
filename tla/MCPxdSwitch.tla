------------------------------ MODULE MCPxdSwitch ------------------------------
EXTENDS PxdSwitch, TLC

Symmetry == Permutations(IOs)

================================================================================
