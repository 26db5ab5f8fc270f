----------------------------- MODULE MCEncoding -----------------------------
EXTENDS Encoding

MCRegNos     == {{}, {0}, 0 .. 4}      \* {0}: a bit lost by the moves
MCImmediates == {{}, {0}, {5}, {15}}   \* {5}: cop2 reaches bit 21
MCTargets    == {{}, {0}, 0 .. 25}
MCCodes      == {{0}, {1}}
MCCCs        == {{}, {0}, 0 .. 2}
\* No instruction; add $0,$0,$0; every bit; an operation of release 2.
MCDataWords  == {0 .. 31, {5}, {26, 27, 30}}
=============================================================================
