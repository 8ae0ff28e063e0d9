--------------------------- MODULE MCBlockProcessor ---------------------------
\* BlockProcessor on a small chain, for TLC.
EXTENDS BlockProcessor, TLC

CONSTANTS i1, i2

InstanceSymmetry == Permutations(Instances)
===============================================================================
