------------------------------ MODULE SlotIndex ------------------------------
(***************************************************************************)
(* The disk slot index: which slot of a view holds the record of a gram.   *)
(* A directory of sorted buckets, or one data file with a table of         *)
(* offsets, is written by the CLI (crates/engramdb/src/slot_index.rs) or   *)
(* by Python (python/engramdb/disk_slot_index.py), often over the files of *)
(* an index that was there before, while a Python process looks grams up   *)
(* through a bounded cache of buckets.  A build may stop between any two   *)
(* writes and within each.                                                 *)
(*                                                                         *)
(* A gram (a tuple of rowids) is a number that orders like its key bytes,  *)
(* and a record is <<gram, slot>>; one that a file ends within is marked   *)
(* as cut.  <<h, Missing>> has the bytes of no gram, and comes after those *)
(* of h: that is how a key cut short compares.                             *)
(***************************************************************************)
EXTENDS Sorting, SequencesExt

CONSTANTS KeyFiles,     \* what keys files hold: [grams |-> ..., whole |-> ...],
                        \* not whole when rowids are left over after the last gram
          Hashes,       \* of "fnv1a-64" and "blake2b"
          BucketCounts, \* numbers of buckets an index is built with
          Cuts,         \* the powers of 256 that a slot may be cut at
          CacheBuckets, \* buckets a reader keeps
          MaxBuilds     \* bound: builds begun

ASSUME SlotIndexAssumption ==
  /\ \A f \in KeyFiles : f.grams \in Seq(Nat) /\ f.whole \in BOOLEAN
  /\ Hashes \subseteq {"fnv1a-64", "blake2b"}
  /\ Cuts \subseteq Nat \ {0}
  /\ BucketCounts \subseteq Nat \ {0} /\ CacheBuckets \in Nat \ {0} /\ MaxBuilds \in Nat

VARIABLES
  buckets, \* buckets[b]: the records in buckets/<b>.bin, for those that exist
  data,    \* data.bin (not there: empty)
  offsets, \* offsets.bin, in records (not there, or refused: empty)
  meta,    \* index.json
  build,   \* the build in progress, or the last one
  indexReader,  \* a DiskSlotIndex of Python
  found,   \* the answer of its last lookup
  indexVerdict, \* what slot-index verify said last
  \* History variables.
  given,   \* every <<gram, slot>> some build was given
  builds   \* builds begun

indexVars == <<buckets, data, offsets, meta, build, indexReader, found, indexVerdict, given, builds>>

Missing == -1

BucketIds == UNION {0..(n - 1) : n \in BucketCounts}
Records(f) == {<<f.grams[i], i - 1>> : i \in 1..Len(f.grams)}

Idle == [pc |-> "idle", file |-> [grams |-> <<>>, whole |-> TRUE], format |-> "v2",
         hash |-> "fnv1a-64", nb |-> 1, next |-> 0, buf |-> <<>>, complete |-> FALSE]

\* Of a reader: fresh, opened on a finished build; steady, opened while no build
\* ran; neither once a build has begun.
Closed == [open |-> FALSE, format |-> "v2", hash |-> "fnv1a-64", nb |-> 1, offsets |-> <<>>,
           cache |-> <<>>, ahead |-> <<>>, fresh |-> FALSE, steady |-> FALSE]
NotAsked == [gram |-> Missing, slot |-> Missing]
IndexNotVerified == [file |-> Idle.file, ok |-> FALSE, asked |-> FALSE]

IndexInit ==
  /\ buckets = <<>> /\ data = <<>> /\ offsets = <<>> /\ meta = [state |-> "none"]
  /\ build = Idle /\ indexReader = Closed /\ found = NotAsked /\ indexVerdict = IndexNotVerified
  /\ given = {} /\ builds = 0

-----------------------------------------------------------------------------
(* Building.                                                               *)

\* The hashes of a gram: any two functions that differ.
BucketOf(hash, g, nb) == (IF hash = "fnv1a-64" THEN g ELSE g \div 2) % nb

\* MUTANT of Less: the records of a bucket are left in the order of their slots.
LessBySlot(r, q) == r[2] < q[2]

\* Records are sorted whole: by key, then by slot.
Less(r, q) == r[1] < q[1] \/ (r[1] = q[1] /\ r[2] < q[2])

\* MUTANT of BucketRecords: slots are counted from one.
BucketRecordsFromOne(f, hash, nb, b) ==
  SortedBy({<<r[1], r[2] + 1>> : r \in {q \in Records(f) : BucketOf(hash, q[1], nb) = b}}, Less)

\* The sorted records of bucket b: a gram's slot is its place in the keys file.
BucketRecords(f, hash, nb, b) ==
  SortedBy({r \in Records(f) : BucketOf(hash, r[1], nb) = b}, Less)

\* The passes over the keys file write below .tmp only, and refuse one that ends
\* within a gram.
BeginIndex(f, format, hash, nb) ==
  /\ build.pc = "idle" /\ builds < MaxBuilds
  /\ format = "v1" <=> (hash = "blake2b" /\ format # "v3")
  /\ builds' = builds + 1
  /\ IF f.whole
     THEN /\ build' = [Idle EXCEPT !.file = f, !.format = format, !.hash = hash, !.nb = nb,
                                   !.pc = IF format = "v3" THEN "data" ELSE "bucket"]
          /\ given' = given \cup Records(f)
          /\ indexReader' = [indexReader EXCEPT !.fresh = FALSE, !.steady = FALSE]
          /\ found' = NotAsked /\ indexVerdict' = IndexNotVerified
     ELSE UNCHANGED <<build, given, indexReader, found, indexVerdict>>
  /\ UNCHANGED <<buckets, data, offsets, meta>>

Grams == UNION {ToSet(f.grams) : f \in KeyFiles}

\* A record cut within its key, where other grams may come first, or within the
\* bytes of its slot, lowest first.
CutRecords(r) ==
  {<<h, Missing, "cut">> : h \in {h \in Grams \cup {Missing} :
                              h < r[1] \/ (h = r[1] /\ r[2] = Missing)}}
    \cup (IF r[2] = Missing THEN {} ELSE {<<r[1], r[2] % c, "cut">> : c \in Cuts})

\* What there may be of recs while they are written, or when the writer stops.
Parts(recs) ==
  {SubSeq(recs, 1, n) : n \in 0..Len(recs)}
    \cup UNION {{Append(SubSeq(recs, 1, n - 1), r) : r \in CutRecords(recs[n])} : n \in 1..Len(recs)}

PutBucket(b, recs) ==
  buckets' = [x \in DOMAIN buckets \cup {b} |-> IF x = b THEN recs ELSE buckets[x]]

BuildAt(pc) == build.pc = pc
BuildGoto(pc) == build' = [build EXCEPT !.pc = pc]
BuildQuiet == UNCHANGED <<indexReader, found, indexVerdict, given, builds>>

CreateData ==
  /\ BuildAt("data") /\ data' = <<>> /\ BuildGoto("bucket")
  /\ UNCHANGED <<buckets, offsets, meta>> /\ BuildQuiet

Current == BucketRecords(build.file, build.hash, build.nb, build.next)

\* An empty bucket writes nothing: a file that is there already stays.
SkipBucket ==
  /\ BuildAt("bucket") /\ build.next < build.nb /\ Current = <<>>
  /\ build' = [build EXCEPT !.next = @ + 1]
  /\ UNCHANGED <<buckets, data, offsets, meta>> /\ BuildQuiet

CreateBucket ==
  /\ BuildAt("bucket") /\ build.next < build.nb /\ Current # <<>> /\ build.format # "v3"
  /\ PutBucket(build.next, <<>>)
  /\ BuildGoto("fill")
  /\ UNCHANGED <<data, offsets, meta>> /\ BuildQuiet

FillBucket ==
  /\ BuildAt("fill")
  /\ PutBucket(build.next, Current)
  /\ build' = [build EXCEPT !.pc = "bucket", !.next = @ + 1]
  /\ UNCHANGED <<data, offsets, meta>> /\ BuildQuiet

\* v3: buckets go through the buffer of one file.
AppendBucket ==
  /\ BuildAt("bucket") /\ build.next < build.nb /\ Current # <<>> /\ build.format = "v3"
  /\ build' = [build EXCEPT !.next = @ + 1, !.buf = @ \o Current]
  /\ UNCHANGED <<buckets, data, offsets, meta>> /\ BuildQuiet

\* The buffer is written when it is full, and at the end.
Spill ==
  /\ build.pc # "idle" /\ build.buf # <<>>
  /\ data' = data \o build.buf
  /\ build' = [build EXCEPT !.buf = <<>>]
  /\ UNCHANGED <<buckets, offsets, meta>> /\ BuildQuiet

BucketsDone ==
  /\ BuildAt("bucket") /\ build.next = build.nb /\ build.buf = <<>>
  /\ BuildGoto(IF build.format = "v3" THEN "offsets" ELSE "meta")
  /\ UNCHANGED <<buckets, data, offsets, meta>> /\ BuildQuiet

\* Where each bucket starts in data.bin, and the end.
OffsetTable ==
  [n \in 1..(build.nb + 1) |->
     Cardinality({r \in Records(build.file) : BucketOf(build.hash, r[1], build.nb) < n - 1})]

CreateOffsets ==
  /\ BuildAt("offsets") /\ offsets' = <<>> /\ BuildGoto("table")
  /\ UNCHANGED <<buckets, data, meta>> /\ BuildQuiet

WriteOffsets ==
  /\ BuildAt("table") /\ offsets' = OffsetTable /\ BuildGoto("meta")
  /\ UNCHANGED <<buckets, data, meta>> /\ BuildQuiet

CreateMeta ==
  /\ BuildAt("meta") /\ meta' = [state |-> "torn"] /\ BuildGoto("finish")
  /\ UNCHANGED <<buckets, data, offsets>> /\ BuildQuiet

\* MUTANT of Count: grams that occur twice are counted once.
CountDistinct == Cardinality(ToSet(build.file.grams))

Count == Len(build.file.grams)

Finish ==
  /\ BuildAt("finish")
  /\ meta' = [state |-> "ok", format |-> build.format, hash |-> build.hash,
              nb |-> build.nb, count |-> Count]
  /\ build' = [build EXCEPT !.pc = "idle", !.complete = TRUE]
  /\ UNCHANGED <<buckets, data, offsets>> /\ BuildQuiet

\* What a file may hold at the moment it is read: a part of what a build writes.
BucketNow(b) ==
  IF BuildAt("fill") /\ b = build.next THEN Parts(Current)
  ELSE {IF b \in DOMAIN buckets THEN buckets[b] ELSE <<>>}
DataNow == {data \o part : part \in Parts(build.buf)}
OffsetsNow ==
  IF BuildAt("table") THEN {SubSeq(OffsetTable, 1, n) : n \in 0..(build.nb + 1)} ELSE {offsets}

\* The build dies, or an error ends it and what it can still write of the buffer
\* is written.  The file it was writing ends anywhere; one of offsets that ends
\* within an offset is refused like one that ends before it.
StopIndex ==
  /\ build.pc # "idle"
  /\ IF BuildAt("fill") THEN \E recs \in BucketNow(build.next) : PutBucket(build.next, recs)
     ELSE UNCHANGED buckets
  /\ data' \in DataNow /\ offsets' \in OffsetsNow
  /\ build' = [build EXCEPT !.pc = "idle", !.buf = <<>>]
  /\ UNCHANGED meta /\ BuildQuiet

-----------------------------------------------------------------------------
(* Looking up.                                                             *)

\* What both constructors demand of the files.
Openable(offs) ==
  /\ meta.state = "ok"
  /\ meta.format = "v3" => Len(offs) = meta.nb + 1

Open ==
  /\ \E offs \in OffsetsNow :
       /\ Openable(offs)
       /\ indexReader' = [open |-> TRUE, format |-> meta.format, hash |-> meta.hash, nb |-> meta.nb,
                     offsets |-> IF meta.format = "v3" THEN offs ELSE <<>>,
                     cache |-> <<>>, ahead |-> <<>>,
                     fresh |-> build.complete, steady |-> build.pc = "idle"]
  /\ found' = NotAsked
  /\ UNCHANGED <<buckets, data, offsets, meta, build, indexVerdict, given, builds>>

\* A record of which the first bytes are o's and the others n's.  Bytes of two
\* keys may be those of any gram, or of none.
HighBytes(n, c) == IF n[2] = Missing THEN 0 ELSE n[2] - (n[2] % c)
Joined(o, n) ==
  IF o = n THEN {o}
  ELSE {<<h, Missing>> : h \in Grams \cup {Missing}} \cup {<<g, n[2]>> : g \in Grams}
       \cup (IF o[2] = Missing THEN {} ELSE {<<o[1], (o[2] % c) + HighBytes(n, c)>> : c \in Cuts})

\* What a buffered file may give: bytes it read ahead when data.bin was old, and
\* those after them from data.bin as it is now.
Mixes(old, new) ==
  {SubSeq(old, 1, n) \o SubSeq(new, n + 1, Len(new)) : n \in 0..Len(old)}
    \cup UNION {{SubSeq(old, 1, n - 1) \o <<r>> \o SubSeq(new, n + 1, Len(new)) :
                  r \in IF n <= Len(new) THEN Joined(old[n], new[n]) ELSE CutRecords(old[n])} :
                n \in 1..Len(old)}

\* Bucket b in a data.bin, where a read ends at the end of the file.
Slice(recs, offs, b) ==
  SubSeq(recs, offs[b + 1] + 1, IF offs[b + 2] < Len(recs) THEN offs[b + 2] ELSE Len(recs))

\* bisect_left: the records before the first one that is not below gram g, by
\* halving the range <<lo, hi>> of places it may be at.
Below(recs, g) ==
  LET find[range \in (0..Len(recs)) \X (0..Len(recs))] ==
        LET lo == range[1]
            hi == range[2]
            mid == (lo + hi) \div 2 IN
        IF lo >= hi THEN lo
        ELSE IF recs[mid + 1][1] < g THEN find[<<mid + 1, hi>>] ELSE find[<<lo, mid>>]
  IN  find[<<0, Len(recs)>>]

Same(rec, g) == rec[1] = g /\ rec[2] # Missing

\* The slots of the records from there on that have gram g.
SlotRun(recs, g) ==
  LET first == Below(recs, g) + 1 IN
  [n \in {n \in first..Len(recs) : \A m \in first..n : Same(recs[m], g)} |-> recs[n][2]]

\* The slot a lookup gives: that of the first such record.
Answer(recs, g) ==
  IF DOMAIN SlotRun(recs, g) = {} THEN Missing ELSE SlotRun(recs, g)[Below(recs, g) + 1]

Cached(b) == \E n \in 1..Len(indexReader.cache) : indexReader.cache[n][1] = b
FromCache(b) == CHOOSE e \in ToSet(indexReader.cache) : e[1] = b

\* The bucket that was used least recently goes.
Evicted(cache) == IF Len(cache) > CacheBuckets THEN Tail(cache) ELSE cache

\* What the reader takes from the cache, or from disk: <<records, read ahead>>.
\* The cut last record of a file is a record to it, and an empty bucket of
\* data.bin is not read.
Loaded(b) ==
  LET offs  == indexReader.offsets
      ahead == indexReader.ahead IN
  IF Cached(b) THEN {<<FromCache(b)[2], ahead>>}
  ELSE IF indexReader.format # "v3" THEN {<<recs, ahead>> : recs \in BucketNow(b)}
  ELSE IF offs[b + 1] = offs[b + 2] THEN {<<<<>>, ahead>>}
  ELSE UNION {{<<Slice(mix, offs, b), next>> :
                 mix \in Mixes(ahead, file), next \in IF ahead = <<>> THEN {file} ELSE {ahead, file}} :
              file \in DataNow}

\* The cache then: a bucket without a file is not cached.
Kept(b, recs) ==
  LET cache == indexReader.cache IN
  IF Cached(b) THEN Append(RemoveFirst(cache, FromCache(b)), FromCache(b))
  ELSE IF indexReader.format # "v3" /\ b \notin DOMAIN buckets THEN cache
  ELSE Evicted(Append(cache, <<b, recs>>))

ReaderBucket(g) == BucketOf(indexReader.hash, g, indexReader.nb)

Lookup(g) ==
  /\ indexReader.open
  /\ \E load \in Loaded(ReaderBucket(g)) :
       /\ indexReader' = [indexReader EXCEPT !.ahead = load[2],
                                            !.cache = Kept(ReaderBucket(g), load[1])]
       /\ found' = [gram |-> g, slot |-> Answer(load[1], g)]
  /\ UNCHANGED <<buckets, data, offsets, meta, build, indexVerdict, given, builds>>

CloseIndex ==
  /\ indexReader.open /\ indexReader' = Closed /\ found' = NotAsked
  /\ UNCHANGED <<buckets, data, offsets, meta, build, indexVerdict, given, builds>>

-----------------------------------------------------------------------------
(* slot-index verify, with a reader of its own that knows one hash only.   *)

RustOpenable == Openable(offsets) /\ meta.format \in {"v2", "v3"}

\* Of a file, its whole records.
WholeRecs(recs) == IF recs # <<>> /\ Len(Last(recs)) = 3 THEN Front(recs) ELSE recs

\* read_exact fails where data.bin is too short.
Readable(b) ==
  meta.format = "v3" => offsets[b + 2] <= Len(WholeRecs(data)) \/ offsets[b + 1] = offsets[b + 2]

\* What there is of a bucket: its part of data.bin, or a file of its own.
OnDisk(b) ==
  IF meta.format = "v3" THEN Slice(WholeRecs(data), offsets, b)
  ELSE IF b \in DOMAIN buckets THEN WholeRecs(buckets[b]) ELSE <<>>

ContainsSlot(g, s) ==
  LET b == BucketOf("fnv1a-64", g, meta.nb) IN
  Readable(b) /\ \E t \in Range(SlotRun(OnDisk(b), g)) : t = s

Verified(f) ==
  /\ RustOpenable
  /\ \A r \in Records(f) : ContainsSlot(r[1], r[2])
  /\ f.whole /\ Len(f.grams) = meta.count

VerifyIndex(f) ==
  /\ build.pc = "idle"
  /\ indexVerdict' = [file |-> f, ok |-> Verified(f), asked |-> TRUE]
  /\ UNCHANGED <<buckets, data, offsets, meta, build, indexReader, found, given, builds>>

-----------------------------------------------------------------------------
IndexNext ==
  \/ \E f \in KeyFiles, format \in {"v1", "v2", "v3"}, hash \in Hashes, nb \in BucketCounts :
       BeginIndex(f, format, hash, nb)
  \/ CreateData \/ SkipBucket \/ CreateBucket \/ FillBucket \/ AppendBucket \/ Spill
  \/ BucketsDone \/ CreateOffsets \/ WriteOffsets \/ CreateMeta \/ Finish
  \/ StopIndex \/ Open \/ (\E g \in Grams : Lookup(g)) \/ CloseIndex
  \/ \E f \in KeyFiles : VerifyIndex(f)

IndexSpec == IndexInit /\ [][IndexNext]_indexVars
-----------------------------------------------------------------------------
(* Properties.                                                             *)

Pieces == (Nat \cup {Missing}) \X (Nat \cup {Missing})
            \cup (Nat \cup {Missing}) \X (Nat \cup {Missing}) \X {"cut"}

IndexTypeOK ==
  /\ DOMAIN buckets \subseteq BucketIds
  /\ \A b \in DOMAIN buckets : buckets[b] \in Seq(Pieces)
  /\ data \in Seq(Pieces)
  /\ build.next \in 0..build.nb /\ build.complete \in BOOLEAN
  /\ indexReader.open \in BOOLEAN /\ found.slot \in Nat \cup {Missing}
  /\ indexVerdict.ok \in BOOLEAN /\ builds \in 0..MaxBuilds

\* A lookup through a reader opened on an index whose build has finished, and
\* that no build has touched since, gives a slot of that gram ("exact lookups",
\* disk_slot_index.py 18): whatever indexes, finished or not, of whatever
\* format and number of buckets, were in the directory before.  slot-index verify,
\* which looks every key up in its own way, accepts such an index (slot_index.rs
\* 418), except where it does not know the hash.
LookupExact ==
  /\ indexReader.fresh /\ found.gram \in ToSet(build.file.grams) =>
       <<found.gram, found.slot>> \in Records(build.file)
  /\ /\ indexVerdict.asked /\ indexVerdict.file = build.file
     /\ build.complete /\ build.hash = "fnv1a-64"
     => indexVerdict.ok

\* Whatever builds, stopped at or within any write, have left in the directory, a
\* reader opened while none runs, and until the next begins, gives for a gram only
\* a slot that a build was given for it, or the low bytes of one, where a write
\* ended within the slot (disk_slot_index.py 281 decodes what there is).  A reader
\* that a build overtakes is not covered: what its file read ahead may be joined
\* with what the build writes, within a record too (disk_slot_index.py 84).
NeverInvented ==
  indexReader.steady /\ found.slot # Missing =>
    \E r \in given : /\ r[1] = found.gram
                     /\ found.slot = r[2] \/ \E c \in Cuts : found.slot = r[2] % c
=============================================================================
