----------------------------- MODULE MCSegments -----------------------------
EXTENDS Segments

\* Text 0..7; data 12..15, up to 25; the stack 40..43, down to 28; kernel data
\* 48..55, up to 63; devices 64..67.  8..11 are nothing.
MCAddresses == {0, 6, 10, 12, 16, 20, 26, 28, 33, 36, 40, 52, 64}
MCWords     == {<<1, 2, 3, 4>>}
MCSbrkSizes == {-1, 0, 1, 6, 127}

\* The last operation matters to what is possible next only if it ended the program.
MCView == <<m, pc, stores, Running>>
=============================================================================
