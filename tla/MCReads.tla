------------------------------- MODULE MCReads -------------------------------
(* BadgeGather and UringRing for TLC, one after the other in one run: they    *)
(* share no state.  Gathers: two shards of five rows, in pages of two and a   *)
(* half rows and badges of two.                                               *)
EXTENDS BadgeGather, UringRing

FullFiles == {ShardBytes}
\* Cut within the third row, whole, and filled up to the last badge.
FileLengths == {ShardBytes - 5, ShardBytes, ShardBytes + 2}
\* Rows at both ends of the shards, and the first key behind the table.
SomeKeys == {0, 2, 4, 5, 6, 9, 10}
TokenRows == {<<5, 6>>, <<0, 5>>, <<4, 9>>, <<6, 2>>, <<9, 0>>}

VARIABLE part \* which of the two this behaviour is about

\* The other one waits in one of its initial states.
ReadsInit ==
  /\ part \in {"gather", "ring"} /\ GatherInit /\ RingInit
  /\ part = "gather" => kinds = {"pages"}
  /\ part = "ring" => keys = <<>> /\ method = "naive" /\ \A s \in ShardIds : len[s] = ShardBytes

ReadsNext ==
  /\ \/ part = "gather" /\ GatherNext /\ UNCHANGED ringVars
     \/ part = "ring" /\ RingNext /\ UNCHANGED allVars
  /\ UNCHANGED part

\* In a behaviour about a gather the ring is idle, and its fairness asks nothing.
ReadsSpec == ReadsInit /\ [][ReadsNext]_<<part, allVars, ringVars>> /\ RingFairness

ReadsTypeOK == GatherTypeOK /\ RingTypeOK
==============================================================================
