--------------------------- MODULE MCPleSequences ---------------------------
(* PleSequences for TLC.  Request ids are interchangeable.                  *)
EXTENDS PleSequences, TLC

IdSymmetry == Permutations(Ids)
=============================================================================
