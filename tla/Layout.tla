-------------------------------- MODULE Layout -------------------------------
(***************************************************************************)
(* A sharded table of fixed-width rows (crates/engramdb-core/src/          *)
(* layout.rs) and positional reads of its shard files (backend.rs).        *)
(*                                                                         *)
(* A byte is its place: the byte at offset o of the file of shard s is     *)
(* <<s, o>>, and a byte of a fresh buffer is Zero.  A file may be shorter  *)
(* than its rows.                                                          *)
(***************************************************************************)
EXTENDS Integers, Sequences, SequencesExt

CONSTANTS Shards, RowsPerShard,
          Width,     \* columns of a row
          ElemBytes, \* bytes of a column
          Page       \* bytes of a page, and the least size of a badge

ASSUME LayoutAssumption ==
  /\ Shards \in Nat \ {0} /\ RowsPerShard \in Nat \ {0}
  /\ Width \in Nat \ {0} /\ ElemBytes \in Nat \ {0} /\ Page \in Nat \ {0}

RowBytes == Width * ElemBytes

\* aligned_badge_rows(row_bytes, 4096)
BadgeRows == IF Page \div RowBytes >= 1 THEN Page \div RowBytes ELSE 1
BadgeBytes == BadgeRows * RowBytes

ShardIds == 0..(Shards - 1)
ShardBytes == RowsPerShard * RowBytes

\* locate
ShardOf(k) == k \div RowsPerShard
LocalRow(k) == k % RowsPerShard
BadgeOf(k) == LocalRow(k) \div BadgeRows
RowInBadge(k) == LocalRow(k) % BadgeRows

Zero == <<>>
Zeros(n) == [x \in 0..(n - 1) |-> Zero]

\* A read of n bytes at off into buf, from the file of shard s with len bytes:
\* what lies behind the end of the file stays as it was.
Filled(buf, s, len, off, n) ==
  [x \in DOMAIN buf |-> IF x < n /\ off + x < len THEN <<s, off + x>> ELSE buf[x]]

\* read_exact_at fails at the end of the file, with the buffer filled up to it.
Whole(len, off, n) == n = 0 \/ off + n <= len

\* n bytes of a buffer from src on.
Slice(buf, src, n) == [x \in 1..n |-> buf[src + x - 1]]

\* The row of key k, whole, as it is in its file.
RowOf(k) == [x \in 1..RowBytes |-> <<ShardOf(k), LocalRow(k) * RowBytes + x - 1>>]
=============================================================================
