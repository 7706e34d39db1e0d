------------------------------ MODULE MCRecalc ------------------------------
EXTENDS Recalc

\* Two required blocks and an optional one stand for the ten of the code.
SampleBlocks == <<52, 320, 5122>>

=============================================================================
