----------------------------- MODULE MCErrRegs ------------------------------
EXTENDS ErrRegs

\* Two lanes of four, the first and the last, and the lane after the last:
\* without its check that one would reach the registers of the next module.
MCProbeLanes == {0, 3, 4}

MCProbeIds == {0, 511, 512}

\* First, second, last and next bits of the fields of 1, 2, 8, 16 and 32 bits.
MCProbeBits == {0, 1, 7, 8, 31}
=============================================================================
