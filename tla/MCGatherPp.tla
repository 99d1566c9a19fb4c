----------------------------- MODULE MCGatherPp ------------------------------
(* GatherPp for TLC: two shards of four rows, in pages of two and a half.    *)
EXTENDS GatherPp

FullFiles == {ShardBytes}
\* Every row of the table, and the first key behind it.
AllKeys == 0..(Shards * RowsPerShard)
=============================================================================
