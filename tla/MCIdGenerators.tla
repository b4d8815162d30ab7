--------------------------- MODULE MCIdGenerators ---------------------------
(* Fields of one bit each, so that sequences overflow and workers run out.  *)
EXTENDS IdGenerators

MCBit == 2
=============================================================================
