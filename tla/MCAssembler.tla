----------------------------- MODULE MCAssembler -----------------------------
(* Values for TLC.  Addresses start low, in the order of the segments.        *)
EXTENDS Assembler, TLC

CONSTANTS here, there

TwoNames   == {here, there}
Renamed    == Permutations(TwoNames)
ZeroOrNot  == {0, 6}
OneWord    == {4}
ByteOrWord == {0, 2}
==============================================================================
