---------------------------- MODULE ReadsProofs -----------------------------
(***************************************************************************)
(* Theorems about BadgeGather, GatherPp, StreamingPlanner and UringRing,   *)
(* for any layout, files, keys, threads, depth and buffers.                *)
(*                                                                         *)
(* A gather that succeeds gives the row of every key, and one that fails   *)
(* gives no bytes of another row: its invariant says, for each of its      *)
(* paths, what its buffers hold and where the rows of its result come      *)
(* from.  The planner sends nothing twice within its window.  A call       *)
(* through the ring that succeeds has filled its buffers, and as long as   *)
(* none has failed it leaves nothing in the ring.                          *)
(***************************************************************************)
EXTENDS MCReads, SeqLemmas

-----------------------------------------------------------------------------
(* Rows, pages and badges.                                                 *)

LEMMA SizesAre ==
  /\ RowBytes \in Nat \ {0} /\ RowsPerShard \in Nat \ {0} /\ Page \in Nat \ {0}
  /\ BadgeRows \in Nat \ {0} /\ BadgeBytes \in Nat \ {0} /\ ShardBytes \in Nat
  /\ Width \in Nat \ {0} /\ Width <= RowBytes
<1>1. RowBytes \in Nat \ {0} /\ Width <= RowBytes
  BY LayoutAssumption DEF RowBytes
<1>2. BadgeRows \in Nat \ {0}
  BY <1>1, LayoutAssumption DEF BadgeRows
<1>3. BadgeBytes \in Nat \ {0}
  BY <1>1, <1>2 DEF BadgeBytes
<1>4. ShardBytes \in Nat
  BY <1>1, LayoutAssumption, DivMul DEF ShardBytes
<1> QED BY <1>1, <1>2, <1>3, <1>4, LayoutAssumption

\* Where a row is in its file, and its page.
LEMMA RowPlace ==
  ASSUME NEW k \in Nat
  PROVE  /\ ShardOf(k) \in Nat /\ LocalRow(k) \in 0..(RowsPerShard - 1)
         /\ ByteOff(k) \in Nat /\ ByteOff(k) = LocalRow(k) * RowBytes
         /\ ByteOff(k) + RowBytes <= ShardBytes
         /\ PageId(k) \in Nat /\ PageId(k) <= ByteOff(k) /\ ByteOff(k) - PageId(k) < Page
<1>1. ShardOf(k) \in Nat /\ LocalRow(k) \in 0..(RowsPerShard - 1)
  BY SizesAre, DivMod DEF ShardOf, LocalRow
<1>2. ByteOff(k) \in Nat /\ ByteOff(k) = LocalRow(k) * RowBytes
  BY <1>1, SizesAre, DivMul DEF ByteOff
<1>3. ByteOff(k) + RowBytes <= ShardBytes
  BY <1>1, <1>2, SizesAre, BlockBelow DEF ShardBytes
<1>4. ByteOff(k) % Page \in 0..(Page - 1) /\ ByteOff(k) % Page <= ByteOff(k)
  BY <1>2, SizesAre
<1> QED BY <1>1, <1>2, <1>3, <1>4, SizesAre DEF PageId

-----------------------------------------------------------------------------
\* The pairs of a shard.
PairsOf(s) == {<<keys[i], i>> : i \in {j \in 1..Len(keys) : ShardOf(keys[j]) = s}}

LEMMA PairsAre ==
  ASSUME keys \in Seq(Nat), NEW s
  PROVE  Pairs(s) \in Seq(Nat \X Nat) /\ ToSet(Pairs(s)) = PairsOf(s)
<1> DEFINE all == [i \in 1..Len(keys) |-> <<keys[i], i>>]
<1>1. Len(keys) \in Nat /\ \A i \in 1..Len(keys) : keys[i] \in Nat
  BY LenProperties
<1>2. all \in [1..Len(keys) -> Nat \X Nat]
  BY <1>1
<1>3. all \in Seq(Nat \X Nat) /\ Len(all) = Len(keys) /\ \A i \in 1..Len(keys) : all[i] = <<keys[i], i>>
  BY <1>1, <1>2, FunIsSeq
<1> HIDE DEF all
<1>4. PairsOf(s) \in SUBSET ToSet(all)
  <2> SUFFICES ASSUME NEW i \in 1..Len(keys) PROVE <<keys[i], i>> \in ToSet(all)
    BY DEF PairsOf
  <2>1. all[i] \in ToSet(all)
    BY <1>3, SetOfSeq
  <2> QED BY <1>3, <2>1
<1>5. IsFiniteSet(PairsOf(s))
  BY <1>3, <1>4, FiniteElements, FS_Subset
<1>6. PairsOf(s) \in SUBSET (Nat \X Nat)
  BY <1>1 DEF PairsOf
<1> DEFINE S == PairsOf(s)
<1> HIDE DEF S
<1>7. S \in SUBSET (Int \X Int) /\ IsFiniteSet(S)
  BY <1>5, <1>6 DEF S
<1>8. PICK l : /\ SortedAs(l, Lexicographic(S), S)
               /\ l \in [1..Cardinality(S) -> S]
               /\ \A n \in 1..Cardinality(S), x \in S :
                    Cardinality({y \in S : y[1] < x[1] \/ (y[1] = x[1] /\ y[2] < x[2])}) = n - 1
                      <=> x = l[n]
  BY <1>7, PairsRanked
<1>9. SortedBy(S, Before) = l
  <2> DEFINE t == [n \in 1..Cardinality(S) |->
                     CHOOSE x \in S :
                       Cardinality({y \in S : y[1] < x[1] \/ (y[1] = x[1] /\ y[2] < x[2])}) = n - 1]
  <2>1. SortedBy(S, Before) = t
    BY DEF SortedBy, Before
  <2>2. ASSUME NEW n \in 1..Cardinality(S) PROVE t[n] = l[n]
    <3>1. l[n] \in S
      BY <1>8
    <3> QED BY <1>8, <3>1
  <2>3. t = l
    BY <1>8, <2>2
  <2> QED BY <2>1, <2>3
<1>10. Pairs(s) = l
  BY <1>9 DEF Pairs, S, PairsOf
<1>11. l \in Seq(S) /\ ToSet(l) = S
  BY <1>8 DEF SortedAs
<1>12. l \in Seq(Nat \X Nat)
  BY <1>6, <1>11 DEF S
<1> QED BY <1>10, <1>11, <1>12 DEF S

LEMMA TasksAre ==
  ASSUME keys \in Seq(Nat)
  PROVE  Tasks \in Seq(Nat) /\ ToSet(Tasks) = {ShardOf(keys[i]) : i \in 1..Len(keys)}
<1> DEFINE all == [i \in 1..Len(keys) |-> ShardOf(keys[i])]
           S == {ShardOf(keys[i]) : i \in 1..Len(keys)}
<1>1. Len(keys) \in Nat /\ \A i \in 1..Len(keys) : ShardOf(keys[i]) \in Nat
  BY LenProperties, RowPlace
<1>2. all \in [1..Len(keys) -> Nat]
  BY <1>1
<1>3. all \in Seq(Nat) /\ Len(all) = Len(keys) /\ \A i \in 1..Len(keys) : all[i] = ShardOf(keys[i])
  BY <1>1, <1>2, FunIsSeq
<1> HIDE DEF all
<1>4. S = ToSet(all)
  <2>1. ToSet(all) = {all[i] : i \in 1..Len(all)}
    BY <1>3, SetOfSeq
  <2> QED BY <1>3, <2>1
<1>5. IsFiniteSet(S) /\ S \in SUBSET Nat
  BY <1>1, <1>3, <1>4, FiniteElements
<1>6. PICK l : l = SortedBy(S, <) /\ SortedAs(l, Ascending(S), S)
  BY <1>5, NatsSorted
<1>8. Tasks = l
  BY <1>6 DEF Tasks
<1> HIDE DEF S
<1>7. l \in Seq(Nat) /\ ToSet(l) = S
  <2>1. l \in Seq(S) /\ ToSet(l) = S
    BY <1>6 DEF SortedAs
  <2>2. l \in Seq(Nat)
    BY <1>5, <2>1, SeqWidens
  <2> QED BY <2>1, <2>2
<1> QED BY <1>7, <1>8 DEF S

-----------------------------------------------------------------------------
(* gather_pp: what its threads hold.                                       *)

Full == \A s \in ShardIds : len[s] = ShardBytes

\* b is a byte of shard s, or was never written.
Own(b, s) == b \in Bytes /\ (b # Zero => b[1] = s)

PageSize == Page + 2 * RowBytes

Job ==
  [todo : Seq(Nat \X Nat), state : {"run", "done", "panicked"}, shard : Int, lastPage : Int,
   page : [0..(PageSize - 1) -> Bytes], idxs : Seq(Nat), rows : Seq(Bytes)]

Result == [idxs : Seq(Nat), rows : Seq(Bytes)]

\* No read has failed, of files that are what they should be.
Good == clean /\ Full

\* A job takes keys of the call, each with its index.
TodoInv(job, ks) ==
  \A p \in 1..Len(job.todo) :
    job.todo[p][2] \in 1..Len(ks) /\ job.todo[p][1] = ks[job.todo[p][2]]

\* Its page buffer is of its shard, and holds its last page as far as the file goes.
PageInv(job, good) ==
  /\ \A x \in 0..(PageSize - 1) : Own(job.page[x], job.shard)
  /\ good /\ job.shard # None =>
       \A x \in 0..(Page + RowBytes - 1) :
         job.lastPage + x < ShardBytes => job.page[x] = <<job.shard, job.lastPage + x>>

\* b is the x-th byte of the row of key k, or at least of its shard.
RowByte(k, b, x, good) ==
  Own(b, ShardOf(k)) /\ (good => b = <<ShardOf(k), ByteOff(k) + x - 1>>)

\* What is collected are the rows of the keys noted, one after the other.
RowsInv(idxs, rows, ks, good) ==
  /\ Len(rows) = Len(idxs) * RowBytes
  /\ \A g \in 0..(Len(idxs) - 1) : idxs[g + 1] \in 1..Len(ks)
  /\ \A g \in 0..(Len(idxs) - 1), x \in 1..RowBytes :
       RowByte(ks[idxs[g + 1]], rows[g * RowBytes + x], x, good)

JobInv(job, ks, good) ==
  TodoInv(job, ks) /\ PageInv(job, good) /\ RowsInv(job.idxs, job.rows, ks, good)

\* No index is lost: a job has it before or behind it, or it is in a result.
InJob(job, i) ==
  job.state # "done" /\ (i \in ToSet(job.idxs) \/ \E p \in 1..Len(job.todo) : job.todo[p][2] = i)

Cover ==
  outcome = "gathering" => \A i \in 1..Len(keys) :
    \/ \E j \in 1..Len(jobs) : InJob(jobs[j], i)
    \/ \E r \in 1..Len(results) : i \in ToSet(results[r].idxs)

CallTypes ==
  /\ len \in [ShardIds -> Nat] /\ keys \in Seq(Nat) /\ threads \in Nat /\ clean \in BOOLEAN

PpTypes == CallTypes /\ jobs \in Seq(Job) /\ results \in Seq(Result)

Blank == [i \in 1..Len(keys) |-> [x \in 1..Width |-> Zero]]

PpInv ==
  /\ PpTypes
  /\ \A j \in 1..Len(jobs) : JobInv(jobs[j], keys, Good)
  /\ \A j \in 1..Len(jobs) : jobs[j].state = "panicked" => ~InTable
  /\ \A r \in 1..Len(results) : RowsInv(results[r].idxs, results[r].rows, keys, Good)
  /\ Cover
  /\ outcome = "called" => jobs = <<>> /\ results = <<>>
  /\ outcome \in {"called", "gathering"} => out = Blank
  /\ outcome \in {"called", "gathering", "ok", "panic"}
  /\ outcome \in {"ok", "panic"} => \A j \in 1..Len(jobs) : jobs[j].state # "run"
  /\ OwnShardOnly /\ RowsExact

-----------------------------------------------------------------------------
LEMMA ByteIs ==
  /\ Zero \in Bytes /\ \A s : Own(Zero, s)
  /\ \A s \in ShardIds, o \in Nat : <<s, o>> \in Bytes /\ Own(<<s, o>>, s)
BY DEF Bytes, Own

\* A buffer of n bytes of shard s.
BufferOf(bytes, n, s) == bytes \in [0..(n - 1) -> Bytes] /\ \A x \in 0..(n - 1) : Own(bytes[x], s)

\* The bytes that a read of m of them at off has put into a buffer.
HoldsAt(bytes, n, s, l, off, m) ==
  \A x \in 0..(n - 1) : x < m /\ off + x < l => bytes[x] = <<s, off + x>>

\* r is the part of a buffer from src on.
IsSlice(r, bytes, n, src, m) ==
  /\ r \in Seq(Bytes) /\ Len(r) = m
  /\ \A x \in 1..m : src + x - 1 \in 0..(n - 1) /\ r[x] = bytes[src + x - 1]

\* A read of shard s into a buffer of that shard leaves one.
LEMMA FilledIs ==
  ASSUME NEW n \in Nat, NEW bytes, NEW s \in ShardIds, BufferOf(bytes, n, s),
         NEW l \in Nat, NEW off \in Nat, NEW m \in Nat
  PROVE  /\ BufferOf(Filled(bytes, s, l, off, m), n, s)
         /\ HoldsAt(Filled(bytes, s, l, off, m), n, s, l, off, m)
<1> DEFINE f == Filled(bytes, s, l, off, m)
<1>0. bytes \in [0..(n - 1) -> Bytes] /\ \A x \in 0..(n - 1) : Own(bytes[x], s)
  BY DEF BufferOf
<1>1. DOMAIN f = 0..(n - 1)
  BY <1>0 DEF Filled
<1>2. ASSUME NEW x \in 0..(n - 1)
      PROVE  f[x] = IF x < m /\ off + x < l THEN <<s, off + x>> ELSE bytes[x]
  BY <1>0 DEF Filled
<1>3. f = [x \in 0..(n - 1) |-> f[x]]
  BY <1>0 DEF Filled
<1> HIDE DEF f
<1>4. \A x \in 0..(n - 1) : off + x \in Nat
  OBVIOUS
<1>5. \A x \in 0..(n - 1) : f[x] \in Bytes /\ Own(f[x], s)
  BY <1>0, <1>2, <1>4, ByteIs
<1>6. f \in [0..(n - 1) -> Bytes]
  BY <1>3, <1>5
<1> QED BY <1>2, <1>5, <1>6 DEF f, BufferOf, HoldsAt

LEMMA ZerosIs == ASSUME NEW n \in Nat, NEW s PROVE BufferOf(Zeros(n), n, s)
BY ByteIs DEF Zeros, BufferOf

LEMMA SliceIs ==
  ASSUME NEW n \in Nat, NEW bytes, NEW s, BufferOf(bytes, n, s),
         NEW src \in Nat, NEW m \in Nat, src + m <= n
  PROVE  /\ IsSlice(Slice(bytes, src, m), bytes, n, src, m)
         /\ \A x \in 1..m : Own(Slice(bytes, src, m)[x], s)
<1>0. bytes \in [0..(n - 1) -> Bytes] /\ \A x \in 0..(n - 1) : Own(bytes[x], s)
  BY DEF BufferOf
<1>1. \A x \in 1..m : src + x - 1 \in 0..(n - 1)
  OBVIOUS
<1>2. Slice(bytes, src, m) \in [1..m -> Bytes] /\ \A x \in 1..m : Slice(bytes, src, m)[x] = bytes[src + x - 1]
  BY <1>0, <1>1 DEF Slice
<1>3. Slice(bytes, src, m) \in Seq(Bytes) /\ Len(Slice(bytes, src, m)) = m
  BY <1>2, FunIsSeq
<1> QED BY <1>0, <1>1, <1>2, <1>3 DEF IsSlice

\* The page a key is taken from.
LEMMA PageTaken ==
  ASSUME CallTypes, NEW job \in Job, PageInv(job, Good), NEW k \in Nat, ShardOf(k) \in ShardIds,
         NEW ok \in BOOLEAN
  PROVE  /\ BufferOf(PageFor(job, k, ok), PageSize, ShardOf(k))
         /\ Good /\ (NeedsPage(job, k) => ok) =>
              HoldsAt(PageFor(job, k, ok), PageSize, ShardOf(k), ShardBytes, PageId(k), Page + RowBytes)
<1> DEFINE s == ShardOf(k)
           bytes == Buffer(job, s)
           n == PageSize
           m == Page + RowBytes
           p == PageId(k)
           l == len[s]
           f == Filled(bytes, s, l, p, m)
<1>1. n \in Nat /\ m \in Nat /\ m <= n /\ p \in Nat /\ l \in Nat
  BY SizesAre, RowPlace DEF PageSize, CallTypes
<1>2. BufferOf(bytes, n, s)
  <2>1. CASE job.shard = s
    BY <2>1 DEF Buffer, Job, PageInv, BufferOf
  <2>2. CASE job.shard # s
    <3>1. bytes = Zeros(PageSize)
      BY <2>2 DEF Buffer, PageSize
    <3> QED BY <1>1, <3>1, ZerosIs
  <2> QED BY <2>1, <2>2
<1>3. s \in ShardIds /\ s # None
  BY LayoutAssumption DEF ShardIds, None
<1>4. PageFor(job, k, ok) = IF NeedsPage(job, k) /\ ok THEN f ELSE bytes
  BY DEF PageFor
<1>5. NeedsPage(job, k) <=> job.shard # s \/ job.lastPage # p
  BY DEF NeedsPage
<1>6. job.shard = s => bytes = job.page
  BY DEF Buffer
<1>10. Good /\ job.shard # None =>
         \A x \in 0..(m - 1) : job.lastPage + x < ShardBytes => job.page[x] = <<job.shard, job.lastPage + x>>
  BY SizesAre DEF PageInv
<1> HIDE DEF s, bytes, n, m, p, l
<1>7. BufferOf(f, n, s) /\ HoldsAt(f, n, s, l, p, m)
  BY <1>1, <1>2, <1>3, FilledIs
<1> HIDE DEF f
<1>8. ASSUME Good, NeedsPage(job, k) => ok
      PROVE  HoldsAt(PageFor(job, k, ok), n, s, ShardBytes, p, m)
  <2>1. l = ShardBytes
    BY <1>3, <1>8 DEF Good, Full, l
  <2>2. CASE NeedsPage(job, k)
    BY <1>4, <1>7, <1>8, <2>1, <2>2
  <2>3. CASE ~NeedsPage(job, k)
    <3>1. job.shard = s /\ job.lastPage = p /\ PageFor(job, k, ok) = job.page
      BY <1>4, <1>5, <1>6, <2>3
    <3>2. \A x \in 0..(m - 1) : p + x < ShardBytes => job.page[x] = <<s, p + x>>
      BY <1>3, <1>8, <1>10, <3>1
    <3>3. \A x \in 0..(n - 1) : x < m => x \in 0..(m - 1)
      BY <1>1
    <3> QED BY <3>1, <3>2, <3>3 DEF HoldsAt
  <2> QED BY <2>2, <2>3
<1>9. BufferOf(PageFor(job, k, ok), n, s)
  BY <1>2, <1>4, <1>7
<1> QED BY <1>8, <1>9 DEF s, n, m, p

\* The row of a key, when its page and, if need be, the row itself were read.
LEMMA RowTaken ==
  ASSUME CallTypes, NEW job \in Job, PageInv(job, Good), NEW k \in Nat, ShardOf(k) \in ShardIds,
         NEW pageOk \in BOOLEAN, NEW rowOk \in BOOLEAN
  PROVE  /\ RowFor(job, k, pageOk, rowOk) \in Seq(Bytes)
         /\ Len(RowFor(job, k, pageOk, rowOk)) = RowBytes
         /\ \A x \in 1..RowBytes : Own(RowFor(job, k, pageOk, rowOk)[x], ShardOf(k))
         /\ Good /\ (NeedsPage(job, k) => pageOk) /\ (Straddles(k) => rowOk) =>
              \A x \in 1..RowBytes :
                RowFor(job, k, pageOk, rowOk)[x] = <<ShardOf(k), ByteOff(k) + x - 1>>
<1> DEFINE s == ShardOf(k)
           pg == PageFor(job, k, pageOk)
           src == ByteOff(k) - PageId(k)
           o == ByteOff(k)
           p == PageId(k)
           w == RowBytes
           l == len[s]
           r == RowFor(job, k, pageOk, rowOk)
<1>1. /\ w \in Nat \ {0} /\ Page \in Nat /\ ShardBytes \in Nat
      /\ o \in Nat /\ o + w <= ShardBytes
      /\ p \in Nat /\ p <= o /\ o - p < Page
      /\ PageSize = Page + 2 * w /\ PageSize \in Nat
      /\ s \in ShardIds /\ l \in Nat
  BY SizesAre, RowPlace DEF PageSize, CallTypes
<1>2. CASE ~Straddles(k)
  <2>1. src \in Nat /\ src + w <= Page
    BY <1>1, <1>2 DEF Straddles
  <2>2. r = Slice(pg, src, w)
    BY <1>2 DEF RowFor
  <2>3. BufferOf(pg, PageSize, s)
    BY PageTaken
  <2>4. Good /\ (NeedsPage(job, k) => pageOk) =>
          HoldsAt(pg, PageSize, s, ShardBytes, p, Page + w)
    BY PageTaken
  <2>9. p + src = o
    BY <1>1
  <2> HIDE DEF pg, s, src, r, o, p, w, l
  <2>5. IsSlice(r, pg, PageSize, src, w) /\ \A x \in 1..w : Own(r[x], s)
    <3>1. src + w <= PageSize /\ w \in Nat
      BY <1>1, <2>1
    <3> QED BY <1>1, <2>1, <2>2, <2>3, <3>1, SliceIs
  <2>7. ASSUME Good, NeedsPage(job, k) => pageOk, NEW x \in 1..w
        PROVE  r[x] = <<s, o + x - 1>>
    <3>1. /\ src + x - 1 < Page + w /\ p + (src + x - 1) < ShardBytes
          /\ p + (src + x - 1) = o + x - 1
      BY <1>1, <2>1, <2>9
    <3>2. src + x - 1 \in 0..(PageSize - 1) /\ r[x] = pg[src + x - 1]
      BY <2>5 DEF IsSlice
    <3>3. pg[src + x - 1] = <<s, p + (src + x - 1)>>
      BY <2>4, <2>7, <3>1, <3>2 DEF HoldsAt
    <3> QED BY <3>1, <3>2, <3>3
  <2> QED BY <2>5, <2>7 DEF r, s, w, o, IsSlice
<1>3. CASE Straddles(k)
  <2> DEFINE z == Zeros(w)
             f == Filled(z, s, l, o, w)
             bytes == IF rowOk THEN f ELSE z
  <2>1. r = Slice(bytes, 0, w)
    BY <1>3 DEF RowFor
  <2>2. BufferOf(z, w, s)
    BY <1>1, ZerosIs
  <2>10. Good => l = ShardBytes
    BY DEF Good, Full
  <2> HIDE DEF z, s, r, l, o, w
  <2>4. BufferOf(f, w, s) /\ HoldsAt(f, w, s, l, o, w)
    <3>1. w \in Nat
      BY <1>1
    <3> QED BY <1>1, <2>2, <3>1, FilledIs
  <2>5. BufferOf(bytes, w, s)
    BY <2>2, <2>4
  <2>11. rowOk => bytes = f
    OBVIOUS
  <2> HIDE DEF f, bytes
  <2>6. IsSlice(r, bytes, w, 0, w) /\ \A x \in 1..w : Own(r[x], s)
    <3>1. w \in Nat /\ 0 \in Nat /\ 0 + w <= w
      BY <1>1
    <3> QED BY <2>1, <2>5, <3>1, SliceIs
  <2>7. ASSUME Good, rowOk, NEW x \in 1..w
        PROVE  r[x] = <<s, o + x - 1>>
    <3>1. l = ShardBytes /\ bytes = f
      BY <2>7, <2>10, <2>11
    <3>2. 0 + x - 1 < w /\ o + (0 + x - 1) < ShardBytes /\ o + (0 + x - 1) = o + x - 1
      BY <1>1
    <3>3. 0 + x - 1 \in 0..(w - 1) /\ r[x] = bytes[0 + x - 1]
      BY <2>6 DEF IsSlice
    <3>4. f[0 + x - 1] = <<s, o + (0 + x - 1)>>
      BY <2>4, <3>1, <3>2, <3>3 DEF HoldsAt
    <3> QED BY <3>1, <3>2, <3>3, <3>4
  <2> QED BY <1>3, <2>6, <2>7 DEF r, s, w, o, IsSlice
<1> QED BY <1>2, <1>3

-----------------------------------------------------------------------------
(* gather_pp: reads.                                                       *)

LEMMA CeilIs ==
  ASSUME NEW n \in Nat \ {0}, NEW c \in Nat \ {0}
  PROVE  DivCeil(n, c) \in Nat \ {0} /\ n <= DivCeil(n, c) * c
<1> DEFINE p == n + c - 1
<1>1. p \in Nat /\ p >= c
  OBVIOUS
<1>2. DivCeil(n, c) = p \div c
  BY DEF DivCeil
<1> HIDE DEF p
<1>3. p = (p \div c) * c + (p % c) /\ p % c \in 0..(c - 1) /\ p \div c \in Nat
  BY <1>1, DivMod
<1>4. p \div c # 0
  <2> SUFFICES ASSUME p \div c = 0 PROVE FALSE
    OBVIOUS
  <2>1. (p \div c) * c = 0
    OBVIOUS
  <2> QED BY <1>1, <1>3, <2>1
<1>5. PICK q \in Nat, z \in Nat : q = p \div c /\ z = q * c
  BY <1>3, DivMul
<1>6. n <= z
  BY <1>3, <1>5 DEF p
<1> QED BY <1>2, <1>3, <1>4, <1>5, <1>6

\* The block of c places that place t is in.
LEMMA BlockOf ==
  ASSUME NEW n \in Nat \ {0}, NEW c \in Nat \ {0}, NEW t \in 1..n
  PROVE  \E j \in 1..DivCeil(n, c) : (j - 1) * c < t /\ t <= j * c
<1> DEFINE g == (t - 1) \div c
<1>1. t - 1 \in Nat /\ t - 1 < n
  OBVIOUS
<1>2. t - 1 = g * c + ((t - 1) % c) /\ (t - 1) % c \in 0..(c - 1) /\ g \in Nat
  BY <1>1, DivMod
<1>3. g * c \in Nat /\ (g + 1) * c = g * c + c
  BY <1>2, DivMul
<1>4. PICK m \in Nat \ {0} : m = DivCeil(n, c) /\ n <= m * c
  BY CeilIs
<1> HIDE DEF g
<1>5. g * c < m * c
  <2>1. m * c \in Nat
    BY DivMul
  <2>2. PICK z \in Nat : z = g * c
    BY <1>3
  <2> QED BY <1>1, <1>2, <1>4, <2>1, <2>2
<1>6. g < m
  BY <1>2, <1>5, BlockBelow
<1>7. g + 1 \in 1..m /\ (g + 1) - 1 = g
  BY <1>2, <1>6
<1>8. g * c < t /\ t <= (g + 1) * c
  <2>1. PICK z \in Nat : z = g * c
    BY <1>3
  <2> QED BY <1>2, <1>3, <2>1
<1> QED BY <1>4, <1>7, <1>8

LEMMA ChunkIs ==
  ASSUME CallTypes, keys # <<>>
  PROVE  /\ Tasks \in Seq(Nat) /\ Len(Tasks) \in Nat \ {0} /\ Chunk \in Nat \ {0}
         /\ ToSet(Tasks) = {ShardOf(keys[i]) : i \in 1..Len(keys)}
<1>1. /\ Tasks \in Seq(Nat) /\ ToSet(Tasks) = {ShardOf(keys[i]) : i \in 1..Len(keys)}
      /\ Len(Tasks) \in Nat
  BY TasksAre, LenProperties DEF CallTypes
<1>2. Len(keys) \in Nat /\ Len(keys) # 0
  BY NonEmpty, LenProperties DEF CallTypes
<1>3. ShardOf(keys[1]) \in ToSet(Tasks)
  BY <1>1, <1>2
<1>4. Tasks # <<>>
  BY <1>3 DEF ToSet
<1>5. Len(Tasks) # 0
  BY <1>1, <1>4, NonEmpty
<1> DEFINE most == IF threads < 1 THEN 1 ELSE threads
           m == IF most < Len(Tasks) THEN most ELSE Len(Tasks)
<1>6. m \in Nat \ {0}
  BY <1>1, <1>5 DEF CallTypes
<1>7. Chunk = DivCeil(Len(Tasks), m)
  BY DEF Chunk
<1> HIDE DEF m
<1> QED BY <1>1, <1>5, <1>6, <1>7, CeilIs

LEMMA TasksOfJob ==
  ASSUME CallTypes, keys # <<>>, NEW j \in Nat \ {0}
  PROVE  /\ JobTasks(j) \in Seq(Nat)
         /\ \A t \in 1..Len(Tasks) : (j - 1) * Chunk < t /\ t <= j * Chunk => Tasks[t] \in ToSet(JobTasks(j))
<1>1. PICK T \in Seq(Nat), C \in Nat \ {0} : T = Tasks /\ C = Chunk /\ Len(T) \in Nat
  BY ChunkIs
<1>2. PICK a \in Nat, b \in Nat : a = (j - 1) * C /\ b = j * C
  BY DivMul
<1> DEFINE n == IF b < Len(T) THEN b ELSE Len(T)
           q == SubSeq(T, a + 1, n)
<1>3. JobTasks(j) = q
  BY <1>1, <1>2 DEF JobTasks
<1>4. n \in Nat /\ n <= Len(T) /\ n <= b
  BY <1>1
<1>7. \A t \in 1..Len(T) : t <= b => t <= n
  BY <1>1
<1> HIDE DEF n
<1>5. \A i \in (a + 1)..n : i \in 1..Len(T) /\ T[i] \in Nat
  BY <1>1, <1>4, ElementOfSeq
<1>6. /\ q \in Seq(Nat)
      /\ Len(q) = IF a + 1 <= n THEN n - (a + 1) + 1 ELSE 0
      /\ \A i \in 1..(n - (a + 1) + 1) : q[i] = T[a + 1 + i - 1]
  <2>1. a + 1 \in Int /\ n \in Int /\ \A i \in (a + 1)..n : T[i] \in Nat
    BY <1>4, <1>5
  <2> QED BY <2>1, SubSeqProperties
<1> HIDE DEF q
<1>8. ASSUME NEW t \in 1..Len(T), a < t, t <= b PROVE T[t] \in ToSet(q)
  <2>1. t - a \in 1..Len(q) /\ q[t - a] = T[t]
    BY <1>1, <1>4, <1>6, <1>7, <1>8
  <2> QED BY <1>6, <2>1, SetOfSeq
<1> QED BY <1>1, <1>2, <1>3, <1>6, <1>8

LEMMA NewJobIs ==
  ASSUME CallTypes, keys # <<>>, NEW j \in Nat \ {0}
  PROVE  /\ NewJob(j) \in Job /\ NewJob(j).state = "run"
         /\ JobInv(NewJob(j), keys, Good)
         /\ \A i \in 1..Len(keys) :
              ShardOf(keys[i]) \in ToSet(JobTasks(j)) => InJob(NewJob(j), i)
<1> DEFINE J == JobTasks(j)
           L == [n \in 1..Len(J) |-> Pairs(J[n])]
           todo == FlattenSeq(L)
           job == NewJob(j)
<1>1. J \in Seq(Nat) /\ Len(J) \in Nat
  BY TasksOfJob, LenProperties
<1>2. job = [todo |-> todo, state |-> "run", shard |-> None, lastPage |-> None,
             page |-> Zeros(Page + 2 * RowBytes), idxs |-> <<>>, rows |-> <<>>]
  BY DEF NewJob
<1> HIDE DEF J, job
<1>3. \A s : Pairs(s) \in Seq(Nat \X Nat) /\ ToSet(Pairs(s)) = PairsOf(s)
  BY PairsAre DEF CallTypes
<1>4. L \in Seq(Seq(Nat \X Nat)) /\ Len(L) = Len(J) /\ \A n \in 1..Len(J) : L[n] = Pairs(J[n])
  <2>1. L \in [1..Len(J) -> Seq(Nat \X Nat)]
    BY <1>3
  <2> QED BY <1>1, <2>1, FunIsSeq
<1> HIDE DEF L
<1>5. todo \in Seq(Nat \X Nat) /\ ToSet(todo) = UNION {ToSet(L[n]) : n \in 1..Len(L)}
  BY <1>4, FlattenElements
<1> HIDE DEF todo
<1>6. ToSet(todo) = {todo[p] : p \in 1..Len(todo)}
  BY <1>5, SetOfSeq
<1>7. ASSUME NEW p \in 1..Len(todo)
      PROVE  todo[p][2] \in 1..Len(keys) /\ todo[p][1] = keys[todo[p][2]]
  <2>1. todo[p] \in ToSet(todo)
    BY <1>6
  <2>2. PICK n \in 1..Len(L) : todo[p] \in ToSet(L[n])
    BY <1>5, <2>1
  <2>3. todo[p] \in PairsOf(J[n])
    BY <1>3, <1>4, <2>2
  <2>4. PICK i \in 1..Len(keys) : todo[p] = <<keys[i], i>>
    BY <2>3 DEF PairsOf
  <2> QED BY <2>4
<1>8. ASSUME NEW i \in 1..Len(keys), ShardOf(keys[i]) \in ToSet(J)
      PROVE  \E p \in 1..Len(todo) : todo[p][2] = i
  <2>1. PICK n \in 1..Len(J) : J[n] = ShardOf(keys[i])
    BY <1>1, <1>8, SetOfSeq
  <2>2. <<keys[i], i>> \in PairsOf(J[n])
    BY <2>1 DEF PairsOf
  <2>3. <<keys[i], i>> \in ToSet(todo)
    BY <1>3, <1>4, <1>5, <2>1, <2>2
  <2>4. PICK p \in 1..Len(todo) : todo[p] = <<keys[i], i>>
    BY <1>6, <2>3
  <2> QED BY <2>4
<1>9. BufferOf(Zeros(Page + 2 * RowBytes), PageSize, None)
  <2>1. PageSize \in Nat
    BY SizesAre DEF PageSize
  <2> QED BY <2>1, ZerosIs DEF PageSize
<1>10. <<>> \in Seq(Nat) /\ <<>> \in Seq(Bytes) /\ Len(<<>>) = 0
  BY EmptySeq
<1>11. None \in Int
  BY DEF None
<1>12. job \in Job
  BY <1>2, <1>5, <1>9, <1>10, <1>11 DEF Job, BufferOf
<1>13. TodoInv(job, keys)
  BY <1>2, <1>7 DEF TodoInv
<1>14. PageInv(job, Good)
  BY <1>2, <1>9 DEF PageInv, BufferOf
<1>15. RowsInv(job.idxs, job.rows, keys, Good)
  <2>1. 0 * RowBytes = 0 /\ 0..(0 - 1) = {}
    BY SizesAre
  <2>2. job.idxs = <<>> /\ job.rows = <<>>
    BY <1>2
  <2> QED BY <1>10, <2>1, <2>2 DEF RowsInv
<1>16. \A i \in 1..Len(keys) : ShardOf(keys[i]) \in ToSet(J) => InJob(job, i)
  BY <1>2, <1>8 DEF InJob
<1> QED BY <1>2, <1>12, <1>13, <1>14, <1>15, <1>16 DEF JobInv, J, job

LEMMA PpStart == ASSUME PpInv, Start PROVE PpInv'
<1>1. /\ outcome = "called" /\ UNCHANGED <<len, keys, threads, results, out, clean>>
      /\ jobs = <<>> /\ results = <<>> /\ PpTypes /\ out = Blank
  BY DEF Start, PpInv
<1>2. Good' = Good /\ Blank' = Blank /\ CallTypes' /\ CallTypes
  BY <1>1 DEF Good, Full, Blank, PpTypes, CallTypes
<1>3. Len(<<>>) = 0 /\ 1..0 = {} /\ <<>> \in Seq(Job) /\ <<>> \in Seq(Result)
  BY EmptySeq
<1>4. CASE keys = <<>>
  <2>1. outcome' = "panic" /\ jobs' = jobs
    BY <1>4 DEF Start
  <2> QED BY <1>1, <1>2, <1>3, <2>1 DEF PpInv, PpTypes, OwnShardOnly, RowsExact, Cover
<1>5. CASE keys # <<>>
  <2> DEFINE n == DivCeil(Len(Tasks), Chunk)
  <2>1. n \in Nat \ {0} /\ Len(Tasks) \in Nat \ {0} /\ Chunk \in Nat \ {0}
    BY <1>2, <1>5, ChunkIs, CeilIs
  <2>2. outcome' = "gathering" /\ jobs' = [j \in 1..n |-> NewJob(j)]
    BY <1>5 DEF Start
  <2> HIDE DEF n
  <2>3. \A j \in 1..n : j \in Nat \ {0}
    BY <2>1
  <2>4. \A j \in 1..n : /\ NewJob(j) \in Job /\ NewJob(j).state = "run"
                        /\ JobInv(NewJob(j), keys, Good)
    BY <1>2, <1>5, <2>3, NewJobIs
  <2>5. jobs' \in Seq(Job) /\ Len(jobs') = n /\ \A j \in 1..n : jobs'[j] = NewJob(j)
    <3>1. jobs' \in [1..n -> Job]
      BY <2>2, <2>4
    <3> QED BY <2>1, <2>2, <3>1, FunIsSeq
  <2>6. \A j \in 1..Len(jobs') : JobInv(jobs'[j], keys', Good') /\ jobs'[j].state # "panicked"
    BY <1>1, <1>2, <2>4, <2>5
  <2>7. Cover'
    <3>1. ASSUME NEW i \in 1..Len(keys) PROVE \E j \in 1..n : InJob(NewJob(j), i)
      <4>1. ShardOf(keys[i]) \in ToSet(Tasks)
        BY <1>2, <1>5, ChunkIs
      <4>2. PICK t \in 1..Len(Tasks) : Tasks[t] = ShardOf(keys[i])
        BY <1>2, <1>5, <4>1, ChunkIs, SetOfSeq, SMTT(30)
      <4>3. PICK j \in 1..n : (j - 1) * Chunk < t /\ t <= j * Chunk
        BY <2>1, BlockOf DEF n
      <4>4. Tasks[t] \in ToSet(JobTasks(j))
        BY <1>2, <1>5, <2>3, <4>3, TasksOfJob
      <4> QED BY <1>2, <1>5, <2>3, <4>2, <4>4, NewJobIs
    <3>2. \A i \in 1..Len(keys) : \E j \in 1..Len(jobs') : InJob(jobs'[j], i)
      BY <2>5, <3>1
    <3> QED BY <1>1, <3>2 DEF Cover
  <2>8. OwnShardOnly' /\ RowsExact'
    BY <2>2 DEF OwnShardOnly, RowsExact
  <2>9. PpTypes'
    BY <1>1, <1>2, <1>3, <2>5 DEF PpTypes
  <2>10. \A r \in 1..Len(results') : FALSE
    BY <1>1, <1>3
  <2> QED BY <1>1, <1>2, <2>2, <2>6, <2>7, <2>8, <2>9, <2>10 DEF PpInv
<1> QED BY <1>4, <1>5

\* c is the k blocks of a and then b.
BlockMore(c, a, b, k, w) ==
  /\ Len(c) = (k + 1) * w
  /\ \A x \in 1..w : c[k * w + x] = b[x]
  /\ \A g \in 0..(k - 1), x \in 1..w : c[g * w + x] = a[g * w + x]

LEMMA BlockMoreIs ==
  ASSUME NEW S, NEW a \in Seq(S), NEW b \in Seq(S), NEW k \in Nat, NEW w \in Nat \ {0},
         Len(a) = k * w, Len(b) = w
  PROVE  BlockMore(a \o b, a, b, k, w)
<1>1. Len(a \o b) = (k + 1) * w
  BY BlockAppend
<1>2. \A x \in 1..w : (a \o b)[k * w + x] = b[x]
  BY BlockAppend, SMTT(30)
<1>3. \A g \in 0..(k - 1), x \in 1..w : (a \o b)[g * w + x] = a[g * w + x]
  BY BlockAppend, SMTT(30)
<1> QED BY <1>1, <1>2, <1>3 DEF BlockMore

\* What Fetch makes of a job.
Fetched(job, page, row) ==
  [job EXCEPT !.todo = Tail(@), !.shard = ShardOf(job.todo[1][1]),
              !.lastPage = PageId(job.todo[1][1]), !.page = page,
              !.idxs = Append(@, job.todo[1][2]), !.rows = @ \o row]

LEMMA FetchedJob ==
  ASSUME NEW ks \in Seq(Nat), NEW good \in BOOLEAN, NEW job \in Job, JobInv(job, ks, good),
         job.todo # <<>>, NEW page, NEW row \in Seq(Bytes), Len(row) = RowBytes,
         ShardOf(job.todo[1][1]) \in ShardIds,
         BufferOf(page, PageSize, ShardOf(job.todo[1][1])),
         good => HoldsAt(page, PageSize, ShardOf(job.todo[1][1]), ShardBytes,
                         PageId(job.todo[1][1]), Page + RowBytes),
         \A x \in 1..RowBytes : RowByte(job.todo[1][1], row[x], x, good)
  PROVE  /\ Fetched(job, page, row) \in Job /\ JobInv(Fetched(job, page, row), ks, good)
         /\ Fetched(job, page, row).state = job.state
         /\ \A i : InJob(job, i) => InJob(Fetched(job, page, row), i)
<1> DEFINE k == job.todo[1][1]
           i0 == job.todo[1][2]
           nj == Fetched(job, page, row)
<1>1. /\ job.todo \in Seq(Nat \X Nat) /\ job.idxs \in Seq(Nat) /\ job.rows \in Seq(Bytes)
      /\ job.page \in [0..(PageSize - 1) -> Bytes]
      /\ TodoInv(job, ks) /\ PageInv(job, good) /\ RowsInv(job.idxs, job.rows, ks, good)
  BY DEF Job, JobInv
<1>2. /\ Tail(job.todo) \in Seq(Nat \X Nat) /\ Len(Tail(job.todo)) = Len(job.todo) - 1
      /\ Len(job.todo) \in Nat /\ Len(job.todo) # 0
      /\ \A p \in 1..(Len(job.todo) - 1) : Tail(job.todo)[p] = job.todo[p + 1]
  BY <1>1, NonEmpty, HeadTailProperties, LenProperties
<1>3. /\ k \in Nat /\ i0 \in Nat /\ i0 \in 1..Len(ks) /\ k = ks[i0]
  <2>1. 1 \in 1..Len(job.todo) /\ job.todo[1] \in Nat \X Nat
    BY <1>1, <1>2, ElementOfSeq
  <2> QED BY <1>1, <2>1 DEF TodoInv
<1>0. /\ BufferOf(page, PageSize, ShardOf(k))
      /\ good => HoldsAt(page, PageSize, ShardOf(k), ShardBytes, PageId(k), Page + RowBytes)
      /\ \A x \in 1..RowBytes : RowByte(k, row[x], x, good)
  OBVIOUS
<1>16. /\ nj = [job EXCEPT !.todo = Tail(@), !.shard = ShardOf(k), !.lastPage = PageId(k),
                         !.page = page, !.idxs = Append(@, i0), !.rows = @ \o row]
       /\ \A p \in 1..Len(job.todo) : p = 1 => job.todo[p][2] = i0
  BY DEF Fetched
<1> HIDE DEF k, i0, nj
<1>4. ShardOf(k) \in Int /\ PageId(k) \in Int
  <2>1. ShardOf(k) \in Nat /\ PageId(k) \in Nat
    BY <1>3, RowPlace
  <2> QED BY <2>1
<1>5. /\ Append(job.idxs, i0) \in Seq(Nat) /\ Len(Append(job.idxs, i0)) = Len(job.idxs) + 1
      /\ Len(job.idxs) \in Nat /\ Append(job.idxs, i0)[Len(job.idxs) + 1] = i0
      /\ \A n \in 1..Len(job.idxs) : Append(job.idxs, i0)[n] = job.idxs[n]
  <2>1. job.idxs \in Seq(Nat) /\ i0 \in Nat
    BY <1>1, <1>3
  <2>2. Len(job.idxs) \in Nat
    BY <2>1, LenProperties
  <2> QED BY <2>1, <2>2, AppendProperties
<1>6. job.rows \o row \in Seq(Bytes)
  BY <1>1, ConcatProperties
<1>7. /\ nj.todo = Tail(job.todo) /\ nj.state = job.state /\ nj.shard = ShardOf(k)
      /\ nj.lastPage = PageId(k) /\ nj.page = page /\ nj.idxs = Append(job.idxs, i0)
      /\ nj.rows = job.rows \o row
  BY <1>16 DEF Job
<1>8. nj \in Job
  <2>1. page \in [0..(PageSize - 1) -> Bytes]
    BY DEF BufferOf
  <2> QED BY <1>2, <1>4, <1>5, <1>6, <1>16, <2>1 DEF Job
<1>9. TodoInv(nj, ks)
  <2> SUFFICES ASSUME NEW p \in 1..Len(nj.todo)
               PROVE  nj.todo[p][2] \in 1..Len(ks) /\ nj.todo[p][1] = ks[nj.todo[p][2]]
    BY DEF TodoInv
  <2>1. p + 1 \in 1..Len(job.todo) /\ nj.todo[p] = job.todo[p + 1]
    <3>1. p \in 1..(Len(job.todo) - 1)
      BY <1>2, <1>7
    <3>2. nj.todo[p] = job.todo[p + 1]
      BY <1>2, <1>7, <3>1
    <3> QED BY <1>2, <3>1, <3>2
  <2> QED BY <1>1, <2>1 DEF TodoInv
<1>10. PageInv(nj, good)
  <2>1. \A x \in 0..(PageSize - 1) : Own(nj.page[x], nj.shard)
    BY <1>0, <1>7 DEF BufferOf
  <2>2. ASSUME good, NEW x \in 0..(Page + RowBytes - 1), PageId(k) + x < ShardBytes
        PROVE  page[x] = <<ShardOf(k), PageId(k) + x>>
    <3>1. x \in 0..(PageSize - 1) /\ x < Page + RowBytes
      BY SizesAre DEF PageSize
    <3> QED BY <1>0, <2>2, <3>1 DEF HoldsAt
  <2> QED BY <1>7, <2>1, <2>2 DEF PageInv
<1>11. RowsInv(nj.idxs, nj.rows, ks, good)
  <2> DEFINE m == Len(job.idxs)
             rows == job.rows \o row
             idxs == Append(job.idxs, i0)
  <2>1. m \in Nat /\ Len(job.rows) = m * RowBytes /\ RowBytes \in Nat \ {0}
    BY <1>1, <1>5, SizesAre DEF RowsInv
  <2>2. /\ \A g \in 0..(m - 1) : job.idxs[g + 1] \in 1..Len(ks)
        /\ \A g \in 0..(m - 1), x \in 1..RowBytes :
             RowByte(ks[job.idxs[g + 1]], job.rows[g * RowBytes + x], x, good)
    BY <1>1 DEF RowsInv
  <2>3. Len(idxs) = m + 1 /\ idxs[m + 1] = i0 /\ \A n \in 1..m : idxs[n] = job.idxs[n]
    BY <1>5
  <2> HIDE DEF m, idxs, rows
  <2>4. /\ Len(rows) = (m + 1) * RowBytes
        /\ \A x \in 1..RowBytes : rows[m * RowBytes + x] = row[x]
        /\ \A g \in 0..(m - 1), x \in 1..RowBytes : rows[g * RowBytes + x] = job.rows[g * RowBytes + x]
    <3>1. job.rows \in Seq(Bytes) /\ row \in Seq(Bytes) /\ Len(row) = RowBytes
      BY <1>1
    <3>2. PICK w \in Nat \ {0} : w = RowBytes
      BY <2>1
    <3>3. /\ Len(rows) = (m + 1) * w
          /\ \A x \in 1..w : rows[m * w + x] = row[x]
          /\ \A g \in 0..(m - 1), x \in 1..w : rows[g * w + x] = job.rows[g * w + x]
      <4>1. m \in Nat /\ Len(job.rows) = m * w /\ Len(row) = w
        BY <2>1, <3>1, <3>2
      <4>2. BlockMore(job.rows \o row, job.rows, row, m, w)
        BY <3>1, <4>1, BlockMoreIs
      <4>3. BlockMore(rows, job.rows, row, m, w)
        BY <4>2 DEF rows
      <4> QED BY <4>3 DEF BlockMore
    <3> QED BY <3>2, <3>3
  <2>5. ASSUME NEW g \in 0..m
        PROVE  /\ idxs[g + 1] \in 1..Len(ks)
               /\ \A x \in 1..RowBytes : RowByte(ks[idxs[g + 1]], rows[g * RowBytes + x], x, good)
    <3>1. CASE g = m
      BY <1>0, <1>3, <2>3, <2>4, <3>1
    <3>2. CASE g # m
      <4>1. g \in 0..(m - 1) /\ g + 1 \in 1..m
        BY <2>1, <3>2
      <4> QED BY <2>2, <2>3, <2>4, <4>1
    <3> QED BY <3>1, <3>2
  <2>6. 0..(Len(idxs) - 1) = 0..m
    BY <2>1, <2>3
  <2>7. nj.idxs = idxs /\ nj.rows = rows
    BY <1>7 DEF idxs, rows
  <2> QED BY <2>3, <2>4, <2>5, <2>6, <2>7 DEF RowsInv
<1>12. ASSUME NEW i, InJob(job, i) PROVE InJob(nj, i)
  <2>1. job.state # "done"
    BY <1>12 DEF InJob
  <2>2. CASE i \in ToSet(job.idxs)
    <3>1. PICK n \in 1..Len(job.idxs) : job.idxs[n] = i
      <4>1. ToSet(job.idxs) = {job.idxs[n] : n \in 1..Len(job.idxs)}
        BY <1>1, SetOfSeq
      <4> QED BY <2>2, <4>1
    <3>2. n \in 1..Len(nj.idxs) /\ nj.idxs[n] = i /\ nj.idxs \in Seq(Nat)
      BY <1>5, <1>7, <3>1
    <3>3. i \in ToSet(nj.idxs)
      BY <3>2, SetOfSeq
    <3> QED BY <1>7, <2>1, <3>3 DEF InJob
  <2>3. CASE \E p \in 1..Len(job.todo) : job.todo[p][2] = i
    <3>1. PICK p \in 1..Len(job.todo) : job.todo[p][2] = i
      BY <2>3
    <3>2. CASE p = 1
      <4>1. Len(nj.idxs) \in 1..Len(nj.idxs) /\ nj.idxs[Len(nj.idxs)] = i /\ nj.idxs \in Seq(Nat)
        BY <1>5, <1>7, <1>16, <3>1, <3>2
      <4>2. i \in ToSet(nj.idxs)
        BY <4>1, SetOfSeq
      <4> QED BY <1>7, <2>1, <4>2 DEF InJob
    <3>3. CASE p # 1
      <4>1. p - 1 \in 1..(Len(job.todo) - 1) /\ (p - 1) + 1 = p
        BY <1>2, <3>3
      <4>3. p - 1 \in 1..Len(nj.todo) /\ nj.todo[p - 1] = job.todo[p]
        BY <1>2, <1>7, <4>1
      <4> QED BY <1>7, <2>1, <3>1, <4>3 DEF InJob
    <3> QED BY <3>2, <3>3
  <2> QED BY <1>12, <2>2, <2>3 DEF InJob
<1> QED BY <1>7, <1>8, <1>9, <1>10, <1>11, <1>12 DEF JobInv, nj

\* A step of one job, the others and the results as they were.
LEMMA JobStep ==
  ASSUME PpInv, NEW j \in 1..Len(jobs), NEW nj \in Job, JobInv(nj, keys, Good'),
         nj.state = "panicked" => ~InTable,
         \A i \in 1..Len(keys) : InJob(jobs[j], i) => InJob(nj, i),
         jobs' = [jobs EXCEPT ![j] = nj], clean' \in BOOLEAN, clean' => clean,
         outcome = "gathering", UNCHANGED <<len, keys, threads, results, out, outcome>>
  PROVE  PpInv'
<1>1. Good' => Good /\ Good \in BOOLEAN /\ Good' \in BOOLEAN
  BY DEF Good, Full, PpInv, PpTypes, CallTypes
<1>2. /\ jobs \in Seq(Job) /\ Len(jobs) \in Nat
  BY LenProperties DEF PpInv, PpTypes
<1>3. /\ jobs' \in Seq(Job) /\ Len(jobs') = Len(jobs)
      /\ \A x \in 1..Len(jobs) : jobs'[x] = IF x = j THEN nj ELSE jobs[x]
  BY <1>2, ExceptSeq
<1>4. \A x \in 1..Len(jobs') : JobInv(jobs'[x], keys', Good')
  <2> SUFFICES ASSUME NEW x \in 1..Len(jobs), x # j PROVE JobInv(jobs[x], keys, Good')
    BY <1>3
  <2>1. JobInv(jobs[x], keys, Good)
    BY DEF PpInv
  <2> QED BY <1>1, <2>1 DEF JobInv, PageInv, RowsInv, RowByte
<1>5. \A r \in 1..Len(results') : RowsInv(results'[r].idxs, results'[r].rows, keys', Good')
  <2> SUFFICES ASSUME NEW r \in 1..Len(results)
               PROVE  RowsInv(results[r].idxs, results[r].rows, keys, Good')
    OBVIOUS
  <2>1. RowsInv(results[r].idxs, results[r].rows, keys, Good)
    BY DEF PpInv
  <2> QED BY <1>1, <2>1 DEF RowsInv, RowByte
<1>6. InTable' = InTable
  BY DEF InTable
<1>7. \A x \in 1..Len(jobs') : jobs'[x].state = "panicked" => ~InTable'
  BY <1>3, <1>6 DEF PpInv
<1>8. Cover'
  <2> SUFFICES ASSUME outcome = "gathering", NEW i \in 1..Len(keys),
                      ~ \E r \in 1..Len(results) : i \in ToSet(results[r].idxs)
               PROVE  \E x \in 1..Len(jobs') : InJob(jobs'[x], i)
    BY DEF Cover
  <2>1. PICK x \in 1..Len(jobs) : InJob(jobs[x], i)
    BY DEF PpInv, Cover
  <2> QED BY <1>3, <2>1
<1>9. CallTypes' /\ PpTypes'
  BY <1>3 DEF PpInv, PpTypes, CallTypes
<1>10. OwnShardOnly' /\ RowsExact'
  BY DEF OwnShardOnly, RowsExact
<1>11. Blank' = Blank
  BY DEF Blank
<1> QED BY <1>4, <1>5, <1>7, <1>8, <1>9, <1>10, <1>11 DEF PpInv

-----------------------------------------------------------------------------
(* gather_pp: what it collects.                                            *)

LEMMA JobAt ==
  ASSUME PpInv, NEW j \in 1..Len(jobs)
  PROVE  /\ jobs[j] \in Job /\ JobInv(jobs[j], keys, Good) /\ jobs \in Seq(Job)
         /\ (jobs[j].todo # <<>> =>
               jobs[j].todo[1][1] \in Nat /\ \E i \in 1..Len(keys) : jobs[j].todo[1][1] = keys[i])
<1>1. jobs \in Seq(Job) /\ keys \in Seq(Nat) /\ JobInv(jobs[j], keys, Good)
  BY DEF PpInv, PpTypes, CallTypes
<1>2. jobs[j] \in Job
  BY <1>1, ElementOfSeq
<1>3. ASSUME jobs[j].todo # <<>>
      PROVE  jobs[j].todo[1][1] \in Nat /\ \E i \in 1..Len(keys) : jobs[j].todo[1][1] = keys[i]
  <2>1. PICK todo \in Seq(Nat \X Nat) : todo = jobs[j].todo
    BY <1>2 DEF Job
  <2>2. 1 \in 1..Len(todo)
    BY <1>3, <2>1, NonEmpty, LenProperties
  <2>3. todo[1] \in Nat \X Nat
    BY <2>2, ElementOfSeq
  <2>4. todo[1][2] \in 1..Len(keys) /\ todo[1][1] = keys[todo[1][2]]
    BY <1>1, <2>1, <2>2 DEF JobInv, TodoInv
  <2> QED BY <2>1, <2>3, <2>4
<1> QED BY <1>1, <1>2, <1>3

LEMMA PpFetch ==
  ASSUME PpInv, outcome # "called", NEW j \in 1..Len(jobs),
         NEW pageOk \in BOOLEAN, NEW rowOk \in BOOLEAN, Fetch(j, pageOk, rowOk)
  PROVE  PpInv'
<1> DEFINE job == jobs[j]
           k == job.todo[1][1]
           page == PageFor(job, k, pageOk)
           row == RowFor(job, k, pageOk, rowOk)
           nj == Fetched(job, page, row)
<1>1. /\ job.state = "run" /\ job.todo # <<>> /\ ShardOf(k) \in ShardIds
      /\ clean' = (clean /\ (NeedsPage(job, k) => pageOk) /\ (Straddles(k) => rowOk))
      /\ UNCHANGED <<len, keys, threads, results, out, outcome>>
  BY DEF Fetch
<1>2. jobs' = [jobs EXCEPT ![j] = nj]
  BY DEF Fetch, Fetched
<1>3. job \in Job /\ JobInv(job, keys, Good) /\ k \in Nat
  BY <1>1, JobAt
<1>4. CallTypes /\ clean \in BOOLEAN /\ keys \in Seq(Nat)
  BY DEF PpInv, PpTypes, CallTypes
<1>5. /\ clean' \in BOOLEAN /\ Good' \in BOOLEAN
      /\ Good' => Good /\ (NeedsPage(job, k) => pageOk) /\ (Straddles(k) => rowOk)
      /\ clean' => clean
  BY <1>1, <1>4 DEF Good, Full
<1>6. JobInv(job, keys, Good')
  BY <1>3, <1>5 DEF JobInv, PageInv, RowsInv, RowByte
<1>7. PageInv(job, Good)
  BY <1>3 DEF JobInv
<1>11. BufferOf(page, PageSize, ShardOf(k))
  BY <1>1, <1>3, <1>4, <1>7, PageTaken
<1>12. Good' => HoldsAt(page, PageSize, ShardOf(k), ShardBytes, PageId(k), Page + RowBytes)
  BY <1>1, <1>3, <1>4, <1>5, <1>7, PageTaken
<1>8. row \in Seq(Bytes) /\ Len(row) = RowBytes
  BY <1>1, <1>3, <1>4, <1>7, RowTaken
<1>13. \A x \in 1..RowBytes : Own(row[x], ShardOf(k))
  BY <1>1, <1>3, <1>4, <1>7, RowTaken
<1>14. Good' => \A x \in 1..RowBytes : row[x] = <<ShardOf(k), ByteOff(k) + x - 1>>
  <2> SUFFICES ASSUME Good' PROVE \A x \in 1..RowBytes : row[x] = <<ShardOf(k), ByteOff(k) + x - 1>>
    OBVIOUS
  <2>1. Good /\ (NeedsPage(job, k) => pageOk) /\ (Straddles(k) => rowOk)
    BY <1>5
  <2>2. job \in Job /\ k \in Nat /\ ShardOf(k) \in ShardIds /\ PageInv(job, Good) /\ CallTypes
    BY <1>1, <1>3, <1>4, <1>7
  <2> HIDE DEF job, k
  <2> QED BY <2>1, <2>2, RowTaken DEF row
<1>15. \A x \in 1..RowBytes : RowByte(k, row[x], x, Good')
  BY <1>13, <1>14 DEF RowByte
<1>16. outcome = "gathering"
  BY <1>1 DEF PpInv
<1> HIDE DEF page, row
<1>9. /\ nj \in Job /\ JobInv(nj, keys, Good') /\ nj.state = job.state
      /\ \A i : InJob(job, i) => InJob(nj, i)
  BY <1>1, <1>3, <1>4, <1>5, <1>6, <1>8, <1>11, <1>12, <1>15, FetchedJob, SMTT(30)
<1> HIDE DEF job, nj
<1> QED BY <1>1, <1>2, <1>5, <1>9, <1>16, JobStep DEF job

LEMMA PpNowhere ==
  ASSUME PpInv, outcome # "called", NEW j \in 1..Len(jobs), FetchNowhere(j)
  PROVE  PpInv'
<1> DEFINE job == jobs[j]
           nj == [job EXCEPT !.state = "panicked"]
<1>1. /\ job.state = "run" /\ job.todo # <<>> /\ ShardOf(job.todo[1][1]) \notin ShardIds
      /\ jobs' = [jobs EXCEPT ![j] = nj] /\ UNCHANGED <<len, keys, threads, results, out, outcome, clean>>
  BY DEF FetchNowhere
<1>2. job \in Job /\ JobInv(job, keys, Good)
  BY JobAt
<1>3. ~InTable
  BY <1>1, JobAt DEF InTable
<1>4. clean \in BOOLEAN /\ Good' = Good
  BY <1>1 DEF PpInv, PpTypes, CallTypes, Good, Full
<1>5. /\ nj.todo = job.todo /\ nj.shard = job.shard /\ nj.lastPage = job.lastPage
      /\ nj.page = job.page /\ nj.idxs = job.idxs /\ nj.rows = job.rows /\ nj.state = "panicked"
      /\ nj \in Job
  BY <1>2 DEF Job
<1>6. JobInv(nj, keys, Good')
  BY <1>2, <1>4, <1>5 DEF JobInv, TodoInv, PageInv
<1>7. \A i \in 1..Len(keys) : InJob(job, i) => InJob(nj, i)
  BY <1>5 DEF InJob
<1>8. outcome = "gathering"
  BY <1>1 DEF PpInv
<1> HIDE DEF nj
<1> QED BY <1>1, <1>3, <1>4, <1>5, <1>6, <1>7, <1>8, JobStep

LEMMA PpPush ==
  ASSUME PpInv, outcome # "called", NEW j \in 1..Len(jobs), Push(j)
  PROVE  PpInv'
<1> DEFINE job == jobs[j]
           nj == [job EXCEPT !.state = "done"]
           r0 == [idxs |-> job.idxs, rows |-> job.rows]
<1>1. /\ job.state = "run" /\ job.todo = <<>> /\ results' = Append(results, r0)
      /\ jobs' = [jobs EXCEPT ![j] = nj] /\ UNCHANGED <<len, keys, threads, out, outcome, clean>>
  BY DEF Push
<1>2. job \in Job /\ JobInv(job, keys, Good) /\ jobs \in Seq(Job) /\ Len(jobs) \in Nat
  BY JobAt, LenProperties
<1>4. /\ clean \in BOOLEAN /\ Good' = Good /\ results \in Seq(Result) /\ CallTypes' /\ InTable' = InTable
      /\ Blank' = Blank
  BY <1>1 DEF PpInv, PpTypes, CallTypes, Good, Full, InTable, Blank
<1>5. /\ nj.todo = job.todo /\ nj.shard = job.shard /\ nj.lastPage = job.lastPage
      /\ nj.page = job.page /\ nj.idxs = job.idxs /\ nj.rows = job.rows /\ nj.state = "done"
      /\ nj \in Job /\ job.idxs \in Seq(Nat) /\ job.rows \in Seq(Bytes)
  BY <1>2 DEF Job
<1>6. JobInv(nj, keys, Good') /\ RowsInv(job.idxs, job.rows, keys, Good)
  BY <1>2, <1>4, <1>5 DEF JobInv, TodoInv, PageInv
<1>7. r0 \in Result /\ r0.idxs = job.idxs /\ r0.rows = job.rows
  BY <1>5 DEF Result
<1>17. outcome = "gathering"
  BY <1>1 DEF PpInv
<1>10. \A p \in 1..Len(job.todo) : FALSE
  <2>1. Len(<<>>) = 0
    OBVIOUS
  <2> QED BY <1>1, <2>1
<1> HIDE DEF nj, job, r0
<1>8. /\ jobs' \in Seq(Job) /\ Len(jobs') = Len(jobs)
      /\ \A x \in 1..Len(jobs) : jobs'[x] = IF x = j THEN nj ELSE jobs[x]
  BY <1>1, <1>2, <1>5, ExceptSeq
<1>9. /\ results' \in Seq(Result) /\ Len(results') = Len(results) + 1 /\ Len(results) \in Nat
      /\ results'[Len(results) + 1] = r0
      /\ \A r \in 1..Len(results) : results'[r] = results[r]
  BY <1>1, <1>4, <1>7, AppendProperties, LenProperties
<1>11. \A x \in 1..Len(jobs') : JobInv(jobs'[x], keys', Good')
  <2>1. \A x \in 1..Len(jobs) : JobInv(jobs[x], keys, Good)
    BY DEF PpInv
  <2> QED BY <1>1, <1>4, <1>6, <1>8, <2>1
<1>12. \A x \in 1..Len(jobs') : jobs'[x].state = "panicked" => ~InTable'
  BY <1>4, <1>5, <1>8 DEF PpInv
<1>13. \A r \in 1..Len(results') : RowsInv(results'[r].idxs, results'[r].rows, keys', Good')
  <2> SUFFICES ASSUME NEW r \in 1..Len(results')
               PROVE  RowsInv(results'[r].idxs, results'[r].rows, keys, Good)
    BY <1>1, <1>4
  <2>1. CASE r = Len(results) + 1
    BY <1>6, <1>7, <1>9, <2>1
  <2>2. CASE r # Len(results) + 1
    <3>1. r \in 1..Len(results)
      BY <1>9, <2>2
    <3>2. RowsInv(results[r].idxs, results[r].rows, keys, Good)
      BY <3>1 DEF PpInv
    <3> QED BY <1>9, <3>1, <3>2
  <2> QED BY <2>1, <2>2
<1>14. Cover'
  <2> SUFFICES ASSUME outcome = "gathering", NEW i \in 1..Len(keys)
               PROVE  \/ \E x \in 1..Len(jobs') : InJob(jobs'[x], i)
                      \/ \E r \in 1..Len(results') : i \in ToSet(results'[r].idxs)
    BY <1>1 DEF Cover
  <2>1. \/ \E x \in 1..Len(jobs) : InJob(jobs[x], i)
        \/ \E r \in 1..Len(results) : i \in ToSet(results[r].idxs)
    BY DEF PpInv, Cover
  <2>2. CASE \E r \in 1..Len(results) : i \in ToSet(results[r].idxs)
    <3>1. PICK r \in 1..Len(results) : i \in ToSet(results[r].idxs)
      BY <2>2
    <3>2. r \in 1..Len(results') /\ results'[r] = results[r]
      BY <1>9
    <3> QED BY <3>1, <3>2
  <2>3. CASE \E x \in 1..Len(jobs) : InJob(jobs[x], i)
    <3>1. PICK x \in 1..Len(jobs) : InJob(jobs[x], i)
      BY <2>3
    <3>2. CASE x = j
      <4>1. i \in ToSet(job.idxs)
        BY <1>10, <3>1, <3>2 DEF InJob, job
      <4>2. Len(results) + 1 \in 1..Len(results') /\ i \in ToSet(results'[Len(results) + 1].idxs)
        BY <1>7, <1>9, <4>1
      <4> QED BY <4>2
    <3>3. CASE x # j
      BY <1>8, <3>1, <3>3
    <3> QED BY <3>2, <3>3
  <2> QED BY <2>1, <2>2, <2>3
<1>15. PpTypes'
  BY <1>4, <1>8, <1>9 DEF PpTypes
<1>16. OwnShardOnly' /\ RowsExact'
  BY <1>1, <1>17 DEF OwnShardOnly, RowsExact
<1> QED BY <1>1, <1>4, <1>11, <1>12, <1>13, <1>14, <1>15, <1>16, <1>17 DEF PpInv

-----------------------------------------------------------------------------
\* The first Width bytes of a row.
LEMMA RowPrefix ==
  ASSUME NEW k \in Nat
  PROVE  SubSeq(RowOf(k), 1, Width) = [x \in 1..Width |-> <<ShardOf(k), ByteOff(k) + x - 1>>]
<1> DEFINE r == RowOf(k)
           q == SubSeq(r, 1, Width)
<1>1. ShardOf(k) \in Nat /\ ByteOff(k) \in Nat /\ ByteOff(k) = LocalRow(k) * RowBytes
  BY RowPlace
<1>2. Width \in Nat \ {0} /\ RowBytes \in Nat \ {0} /\ Width <= RowBytes
  BY SizesAre
<1>3. r = [x \in 1..RowBytes |-> <<ShardOf(k), ByteOff(k) + x - 1>>]
  BY <1>1 DEF RowOf
<1> HIDE DEF r
<1>4. r \in Seq(Nat \X Int) /\ Len(r) = RowBytes
  <2>1. r \in [1..RowBytes -> Nat \X Int]
    BY <1>1, <1>2, <1>3
  <2> QED BY <1>2, <2>1, FunIsSeq
<1>5. 0 + Width = Width /\ 0 + 1 = 1 /\ 0 + Width <= Len(r) /\ 0 \in Nat
  BY <1>2, <1>4
<1>6. /\ q \in Seq(Nat \X Int) /\ Len(q) = Width
      /\ \A i \in 1..Width : 0 + i \in 1..Len(r) /\ q[i] = r[0 + i]
  <2>1. /\ SubSeq(r, 0 + 1, 0 + Width) \in Seq(Nat \X Int) /\ Len(SubSeq(r, 0 + 1, 0 + Width)) = Width
        /\ \A i \in 1..Width : 0 + i \in 1..Len(r) /\ SubSeq(r, 0 + 1, 0 + Width)[i] = r[0 + i]
    BY <1>2, <1>4, <1>5, SliceOf
  <2> QED BY <1>5, <2>1
<1> HIDE DEF q
<1>7. ASSUME NEW x \in 1..Width PROVE q[x] = <<ShardOf(k), ByteOff(k) + x - 1>>
  <2>1. x \in 1..RowBytes /\ 0 + x = x
    BY <1>2
  <2> QED BY <1>3, <1>6, <2>1
<1>8. q = [x \in 1..Width |-> q[x]]
  BY <1>2, <1>6
<1> QED BY <1>7, <1>8 DEF q, r

\* The n-th row of a result is cut to the caller's width.  It is the row of its key
\* when a column is one byte or the row is the first, and otherwise made of bytes of
\* rows the job took.
LEMMA CutIs ==
  ASSUME NEW ks \in Seq(Nat), NEW good, NEW r \in Result,
         RowsInv(r.idxs, r.rows, ks, good), NEW n \in 1..Len(r.idxs)
  PROVE  /\ Cut(r, n) \in Seq(Bytes) /\ Len(Cut(r, n)) = Width
         /\ ElemBytes = 1 \/ n = 1 =>
              \A x \in 1..Width : RowByte(ks[r.idxs[n]], Cut(r, n)[x], x, good)
         /\ \A x \in 1..Width : \E m \in 1..Len(r.idxs) :
              Own(Cut(r, n)[x], ShardOf(ks[r.idxs[m]]))
<1>1. RowBytes \in Nat /\ Width \in Nat \ {0} /\ Width <= RowBytes
  BY SizesAre
<1>2. PICK rows \in Seq(Bytes), idxs \in Seq(Nat) : rows = r.rows /\ idxs = r.idxs
  BY DEF Result
<1>3. /\ Len(rows) = Len(idxs) * RowBytes /\ Len(idxs) \in Nat
      /\ \A g \in 0..(Len(idxs) - 1), x \in 1..RowBytes :
           RowByte(ks[idxs[g + 1]], rows[g * RowBytes + x], x, good)
  BY <1>2, LenProperties DEF RowsInv
<1>4. n - 1 \in 0..(Len(idxs) - 1) /\ n - 1 \in Nat /\ (n - 1) + 1 = n
  BY <1>2, <1>3
<1>5. PICK a \in Nat : a = (n - 1) * Width
  BY <1>1, <1>4, DivMul
<1>6. n * Width = a + Width /\ a + Width <= Len(rows)
  <2>1. ((n - 1) + 1) * Width = (n - 1) * Width + Width
    BY <1>1, <1>4, DivMul
  <2>2. (n - 1) * Width + Width <= Len(idxs) * Width
    <3>1. PICK g \in Nat, l \in Nat : g = n - 1 /\ l = Len(idxs) /\ g < l
      <4>1. n \in 1..Len(idxs) /\ Len(idxs) \in Nat
        BY <1>2, <1>3
      <4>2. n - 1 \in Nat /\ n - 1 < Len(idxs)
        BY <4>1
      <4> QED BY <4>1, <4>2
    <3>2. g * Width + Width <= l * Width
      BY <1>1, <3>1, BlockBelow
    <3> QED BY <3>1, <3>2
  <2>3. Len(idxs) * Width <= Len(idxs) * RowBytes /\ Len(idxs) * Width \in Nat
        /\ Len(idxs) * RowBytes \in Nat
    <3>1. \A l, v, w \in Nat : v <= w => l * v <= l * w /\ l * v \in Nat /\ l * w \in Nat
      OBVIOUS
    <3> QED BY <1>1, <1>3, <3>1
  <2> QED BY <1>1, <1>3, <1>4, <1>5, <2>1, <2>2, <2>3
<1>7. Cut(r, n) = SubSeq(rows, a + 1, a + Width)
  BY <1>2, <1>5, <1>6 DEF Cut
<1>8. /\ Cut(r, n) \in Seq(Bytes) /\ Len(Cut(r, n)) = Width
      /\ \A x \in 1..Width : Cut(r, n)[x] = rows[a + x]
  BY <1>1, <1>6, <1>7, SliceOf, SMTT(60)
<1>9. ASSUME ElemBytes = 1 \/ n = 1
      PROVE  \A x \in 1..Width : RowByte(ks[idxs[n]], rows[a + x], x, good)
  <2>1. a = (n - 1) * RowBytes
    <3>1. CASE ElemBytes = 1
      <4>1. RowBytes = Width
        BY <1>1, <3>1, SizesAre DEF RowBytes
      <4> QED BY <1>5, <4>1
    <3>2. CASE n = 1
      <4>1. \A v \in Nat : (1 - 1) * v = 0
        OBVIOUS
      <4> QED BY <1>1, <1>5, <3>2, <4>1
    <3> QED BY <1>9, <3>1, <3>2
  <2>2. \A x \in 1..Width : x \in 1..RowBytes
    BY <1>1
  <2>3. \A x \in 1..RowBytes :
          RowByte(ks[idxs[(n - 1) + 1]], rows[(n - 1) * RowBytes + x], x, good)
    BY <1>3, <1>4
  <2> QED BY <1>4, <2>1, <2>2, <2>3
<1>10. ASSUME NEW x \in 1..Width
       PROVE  \E m \in 1..Len(idxs) : Own(rows[a + x], ShardOf(ks[idxs[m]]))
  <2>1. a + x \in 1..(Len(idxs) * RowBytes)
    <3>1. PICK l \in Nat : l = Len(rows)
      BY LenProperties
    <3>2. a + Width <= l /\ a \in Nat /\ Width \in Nat
      BY <1>1, <1>5, <1>6, <3>1
    <3>3. x \in 1..Width
      OBVIOUS
    <3>4. a + x \in 1..l
      BY <3>2, <3>3
    <3> QED BY <1>3, <3>1, <3>4
  <2>2. RowBytes \in Nat \ {0}
    BY SizesAre
  <2>3. PICK g \in 0..(Len(idxs) - 1) : \E y \in 1..RowBytes : a + x = g * RowBytes + y
    <3>1. \E g \in 0..(Len(idxs) - 1), y \in 1..RowBytes : a + x = g * RowBytes + y
      BY <1>3, <2>1, <2>2, BlockPlace
    <3> QED BY <3>1
  <2>4. PICK y \in 1..RowBytes : a + x = g * RowBytes + y
    BY <2>3
  <2>5. RowByte(ks[idxs[g + 1]], rows[a + x], y, good)
    BY <1>3, <2>4
  <2>6. g + 1 \in 1..Len(idxs)
    BY <1>3
  <2> QED BY <2>5, <2>6 DEF RowByte
<1> QED BY <1>2, <1>8, <1>9, <1>10

\* Where the caller's row comes from.
LEMMA AssembledIs ==
  ASSUME PpInv, NEW i \in DOMAIN out
  PROVE  /\ (~ \E r \in 1..Len(results) : i \in ToSet(results[r].idxs)) => Assembled[i] = out[i]
         /\ (\E r \in 1..Len(results) : i \in ToSet(results[r].idxs)) =>
              \E r \in 1..Len(results) : \E n \in 1..Len(results[r].idxs) :
                results[r].idxs[n] = i /\ Assembled[i] = Cut(results[r], n)
<1>1. (~ \E r \in 1..Len(results) : i \in ToSet(results[r].idxs)) => Assembled[i] = out[i]
  BY DEF Assembled
<1>2. ASSUME \E r \in 1..Len(results) : i \in ToSet(results[r].idxs)
      PROVE  \E r \in 1..Len(results) : \E n \in 1..Len(results[r].idxs) :
               results[r].idxs[n] = i /\ Assembled[i] = Cut(results[r], n)
  <2> DEFINE r == CHOOSE q \in 1..Len(results) : i \in ToSet(results[q].idxs)
             n == CHOOSE m \in 1..Len(results[r].idxs) : results[r].idxs[m] = i
  <2>1. r \in 1..Len(results) /\ i \in ToSet(results[r].idxs)
    BY <1>2
  <2>2. Assembled[i] = Cut(results[r], n)
    BY <1>2 DEF Assembled
  <2> HIDE DEF r
  <2>3. results[r].idxs \in Seq(Nat)
    <3>1. results[r] \in Result
      BY <2>1, ElementOfSeq DEF PpInv, PpTypes
    <3> QED BY <3>1 DEF Result
  <2>4. \E m \in 1..Len(results[r].idxs) : results[r].idxs[m] = i
    <3>1. ToSet(results[r].idxs) = {results[r].idxs[m] : m \in 1..Len(results[r].idxs)}
      BY <2>3, SetOfSeq
    <3> QED BY <2>1, <3>1
  <2>5. n \in 1..Len(results[r].idxs) /\ results[r].idxs[n] = i
    BY <2>4
  <2> HIDE DEF n
  <2> QED BY <2>1, <2>2, <2>5
<1> QED BY <1>1, <1>2

LEMMA PpReturn ==
  ASSUME PpInv, NEW raised \in BOOLEAN, Return(raised)
  PROVE  PpInv'
<1>1. /\ outcome = "gathering" /\ \A j \in 1..Len(jobs) : jobs[j].state # "run"
      /\ UNCHANGED <<len, keys, threads, jobs, results, clean>> /\ out = Blank
  BY DEF Return, PpInv
<1>2. /\ PpTypes' /\ Good' = Good /\ InTable' = InTable /\ keys \in Seq(Nat)
      /\ (Full' <=> Full) /\ Width \in Nat
  BY <1>1, SizesAre DEF PpInv, PpTypes, CallTypes, Good, Full, InTable
<1>3. outcome' \in {"ok", "panic"}
  BY DEF Return
<1>7. (\A i : TakenFirst(i)' <=> TakenFirst(i)) /\ (\A i : TakenAlone(i)' <=> TakenAlone(i))
  BY <1>1 DEF TakenFirst, TakenAlone
<1>4. OwnShardOnly' /\ RowsExact'
  <2>1. CASE raised
    <3>1. outcome' = "panic"
      BY <2>1 DEF Return
    <3> QED BY <3>1 DEF OwnShardOnly, RowsExact
  <2>2. CASE ~raised
    <3>1. out' = Assembled /\ DOMAIN out = 1..Len(keys)
      BY <1>1, <2>2 DEF Return, Blank
    <3>2. ASSUME NEW i \in 1..Len(keys), NEW r \in 1..Len(results),
                 NEW n \in 1..Len(results[r].idxs), results[r].idxs[n] = i
          PROVE  /\ Cut(results[r], n) \in Seq(Bytes) /\ Len(Cut(results[r], n)) = Width
                 /\ ElemBytes = 1 \/ TakenFirst(i) =>
                      \A x \in 1..Width : RowByte(keys[i], Cut(results[r], n)[x], x, Good)
                 /\ ElemBytes = 1 \/ TakenAlone(i) =>
                      \A x \in 1..Width : Own(Cut(results[r], n)[x], ShardOf(keys[i]))
      <4>1. results[r] \in Result
        BY ElementOfSeq DEF PpInv, PpTypes
      <4>2. RowsInv(results[r].idxs, results[r].rows, keys, Good)
        BY DEF PpInv
      <4>3. /\ Cut(results[r], n) \in Seq(Bytes) /\ Len(Cut(results[r], n)) = Width
            /\ ElemBytes = 1 \/ n = 1 =>
                 \A x \in 1..Width : RowByte(keys[i], Cut(results[r], n)[x], x, Good)
            /\ \A x \in 1..Width : \E m \in 1..Len(results[r].idxs) :
                 Own(Cut(results[r], n)[x], ShardOf(keys[results[r].idxs[m]]))
        BY <1>2, <3>2, <4>1, <4>2, CutIs
      <4>4. TakenFirst(i) => n = 1
        BY <3>2 DEF TakenFirst
      <4>5. ASSUME TakenAlone(i), NEW x \in 1..Width
            PROVE  Own(Cut(results[r], n)[x], ShardOf(keys[i]))
        <5>1. results[r].idxs \in Seq(Nat)
          BY <4>1 DEF Result
        <5>2. i \in ToSet(results[r].idxs)
          BY <3>2, <5>1, SetOfSeq
        <5>3. \A m \in 1..Len(results[r].idxs) : ShardOf(keys[results[r].idxs[m]]) = ShardOf(keys[i])
          BY <4>5, <5>2 DEF TakenAlone
        <5>4. PICK m \in 1..Len(results[r].idxs) :
                Own(Cut(results[r], n)[x], ShardOf(keys[results[r].idxs[m]]))
          BY <4>3
        <5> QED BY <5>3, <5>4
      <4>6. ASSUME ElemBytes = 1, NEW x \in 1..Width
            PROVE  Own(Cut(results[r], n)[x], ShardOf(keys[i]))
        BY <4>3, <4>6 DEF RowByte
      <4> QED BY <4>3, <4>4, <4>5, <4>6
    <3>3. OwnShardOnly'
      <4> SUFFICES ASSUME NEW i \in 1..Len(keys), NEW x \in 1..Width, Assembled[i][x] # Zero,
                          ElemBytes = 1 \/ TakenAlone(i)
                   PROVE  Assembled[i][x][1] = ShardOf(keys[i])
        BY <1>1, <1>7, <3>1 DEF OwnShardOnly
      <4>1. out[i][x] = Zero
        BY <1>1 DEF Blank
      <4>2. PICK r \in 1..Len(results) : \E n \in 1..Len(results[r].idxs) :
              results[r].idxs[n] = i /\ Assembled[i] = Cut(results[r], n)
        BY <3>1, <4>1, AssembledIs
      <4>3. Own(Assembled[i][x], ShardOf(keys[i]))
        <5>1. PICK n \in 1..Len(results[r].idxs) :
                results[r].idxs[n] = i /\ Assembled[i] = Cut(results[r], n)
          BY <4>2
        <5> QED BY <3>2, <5>1
      <4> QED BY <4>3 DEF Own
    <3>4. RowsExact'
      <4> SUFFICES ASSUME InTable, clean, Full, NEW i \in 1..Len(keys),
                          ElemBytes = 1 \/ TakenFirst(i)
                   PROVE  Assembled[i] = SubSeq(RowOf(keys[i]), 1, Width)
        BY <1>1, <1>2, <1>7, <3>1 DEF RowsExact, Full
      <4>1. \E r \in 1..Len(results) : i \in ToSet(results[r].idxs)
        <5>1. ASSUME NEW j \in 1..Len(jobs), InJob(jobs[j], i) PROVE FALSE
          <6>1. jobs[j] \in Job
            BY JobAt
          <6>2. jobs[j].state = "panicked"
            BY <1>1, <5>1, <6>1 DEF InJob, Job
          <6> QED BY <6>2 DEF PpInv
        <5> QED BY <1>1, <5>1 DEF PpInv, Cover
      <4>2. PICK r \in 1..Len(results) : \E n \in 1..Len(results[r].idxs) :
              results[r].idxs[n] = i /\ Assembled[i] = Cut(results[r], n)
        BY <3>1, <4>1, AssembledIs
      <4>8. PICK n \in 1..Len(results[r].idxs) :
              results[r].idxs[n] = i /\ Assembled[i] = Cut(results[r], n)
        BY <4>2
      <4>3. PICK c \in Seq(Bytes) : c = Assembled[i]
        BY <3>2, <4>8
      <4>4. Len(c) = Width /\ \A x \in 1..Width : RowByte(keys[i], c[x], x, Good)
        BY <3>2, <4>3, <4>8
      <4>5. \A x \in 1..Width : c[x] = <<ShardOf(keys[i]), ByteOff(keys[i]) + x - 1>>
        BY <4>4 DEF RowByte, Good
      <4>6. c = [x \in 1..Width |-> c[x]]
        BY <4>4
      <4>7. keys[i] \in Nat
        BY <1>2, ElementOfSeq
      <4> QED BY <4>3, <4>5, <4>6, <4>7, RowPrefix
    <3> QED BY <3>3, <3>4
  <2> QED BY <2>1, <2>2
<1>5. /\ \A j \in 1..Len(jobs') : JobInv(jobs'[j], keys', Good')
      /\ \A j \in 1..Len(jobs') : jobs'[j].state = "panicked" => ~InTable'
      /\ \A r \in 1..Len(results') : RowsInv(results'[r].idxs, results'[r].rows, keys', Good')
  BY <1>1, <1>2 DEF PpInv
<1>6. Cover'
  BY <1>3 DEF Cover
<1>8. \A j \in 1..Len(jobs') : jobs'[j].state # "run"
  BY <1>1
<1> QED BY <1>2, <1>3, <1>4, <1>5, <1>6, <1>8 DEF PpInv

-----------------------------------------------------------------------------
(* Badges.                                                                 *)

\* A badge and its rows.
LEMMA BadgePlace ==
  ASSUME NEW k \in Nat
  PROVE  /\ BadgeOf(k) \in Nat /\ RowInBadge(k) \in 0..(BadgeRows - 1)
         /\ BadgeOf(k) * BadgeBytes \in Nat /\ RowInBadge(k) * RowBytes \in Nat
         /\ BadgeOf(k) * BadgeBytes + RowInBadge(k) * RowBytes = ByteOff(k)
         /\ RowInBadge(k) * RowBytes + RowBytes <= BadgeBytes
         /\ BadgeOf(k) < DivCeil(RowsPerShard, BadgeRows)
<1> DEFINE l == LocalRow(k)
           b == BadgeOf(k)
           r == RowInBadge(k)
<1>1. l \in Nat /\ l <= RowsPerShard - 1 /\ ByteOff(k) = l * RowBytes
  BY RowPlace
<1>2. b = l \div BadgeRows /\ r = l % BadgeRows
  BY DEF BadgeOf, RowInBadge
<1>3. /\ BadgeRows \in Nat \ {0} /\ RowBytes \in Nat \ {0} /\ BadgeBytes = BadgeRows * RowBytes
      /\ BadgeBytes \in Nat \ {0} /\ RowsPerShard \in Nat \ {0}
  BY SizesAre DEF BadgeBytes
<1> HIDE DEF l, b, r
<1>4. l = b * BadgeRows + r /\ r \in 0..(BadgeRows - 1) /\ b \in Nat
  BY <1>1, <1>2, <1>3, DivMod
<1>5. PICK B \in Nat \ {0}, w \in Nat \ {0} : B = BadgeRows /\ w = RowBytes /\ BadgeBytes = B * w
  BY <1>3
<1>6. r \in Nat /\ r < B
  BY <1>4, <1>5
<1>7. b * (B * w) + r * w = (b * B + r) * w
  BY <1>4, <1>5, <1>6
<1>8. r * w \in Nat /\ r * w + w <= B * w
  BY <1>5, <1>6, DivMul, BlockBelow
<1>9. b * (B * w) \in Nat
  <2>1. B * w \in Nat
    BY DivMul
  <2> QED BY <1>4, <2>1
<1>10. b < DivCeil(RowsPerShard, BadgeRows)
  <2>1. PICK m \in Nat \ {0} : m = DivCeil(RowsPerShard, BadgeRows) /\ RowsPerShard <= m * B
    BY <1>3, <1>5, CeilIs
  <2>2. b * B \in Nat /\ m * B \in Nat
    BY <1>4, <1>5, DivMul
  <2>3. b * B < m * B
    <3>1. PICK x \in Nat, y \in Nat : x = b * B /\ y = m * B
      BY <2>2
    <3> QED BY <1>1, <1>3, <1>4, <1>5, <1>6, <2>1, <3>1
  <2> QED BY <1>4, <1>5, <2>1, <2>3, BlockBelow
<1> QED BY <1>1, <1>4, <1>5, <1>7, <1>8, <1>9, <1>10 DEF l, b, r

\* A byte of a buffer that was read at off is right or was never written.
PartAt(bytes, n, s, off) == \A x \in 0..(n - 1) : bytes[x] = Zero \/ bytes[x] = <<s, off + x>>

Row(k) == SubSeq(RowOf(k), 1, Width)

LEMMA RowBytesAre ==
  ASSUME NEW k \in Nat, NEW x \in 1..Width
  PROVE  Row(k)[x] = <<ShardOf(k), ByteOff(k) + x - 1>> /\ RowOf(k)[x] = <<ShardOf(k), ByteOff(k) + x - 1>>
<1>1. Row(k)[x] = <<ShardOf(k), ByteOff(k) + x - 1>>
  BY RowPrefix DEF Row
<1>2. x \in 1..RowBytes
  BY SizesAre
<1> QED BY <1>1, <1>2, RowPlace DEF RowOf

\* The row a badge's buffer gives a key.
LEMMA RowAtIs ==
  ASSUME NEW k \in Nat, NEW bytes,
         PartAt(bytes, BadgeBytes, ShardOf(k), BadgeOf(k) * BadgeBytes)
  PROVE  /\ RowAt(bytes, k) = [x \in 1..Width |-> RowAt(bytes, k)[x]]
         /\ \A x \in 1..Width : RowAt(bytes, k)[x] \in {Zero, RowOf(k)[x]}
         /\ \A l \in Nat : HoldsAt(bytes, BadgeBytes, ShardOf(k), l, BadgeOf(k) * BadgeBytes, BadgeBytes)
                             /\ ByteOff(k) + Width <= l => RowAt(bytes, k) = Row(k)
<1> DEFINE r == RowAt(bytes, k)
           s == ShardOf(k)
           off == BadgeOf(k) * BadgeBytes
           src == RowInBadge(k) * RowBytes
           o == ByteOff(k)
<1>1. r = [x \in 1..Width |-> bytes[src + x - 1]]
  BY DEF RowAt, Slice
<1>2. /\ off \in Nat /\ src \in Nat /\ o \in Nat /\ off + src = o /\ src + RowBytes <= BadgeBytes
      /\ Width \in Nat \ {0} /\ Width <= RowBytes /\ RowBytes \in Nat /\ BadgeBytes \in Nat
  BY BadgePlace, RowPlace, SizesAre
<1>3. \A x \in 1..Width : RowOf(k)[x] = <<s, o + x - 1>>
  BY RowBytesAre
<1>8. Row(k) = [x \in 1..Width |-> <<s, o + x - 1>>]
  BY RowPrefix DEF Row
<1> HIDE DEF r, s, off, src, o
<1>4. ASSUME NEW x \in 1..Width
      PROVE  /\ src + x - 1 \in 0..(BadgeBytes - 1) /\ off + (src + x - 1) = o + x - 1
             /\ r[x] = bytes[src + x - 1] /\ src + x - 1 < BadgeBytes
  BY <1>1, <1>2
<1>5. \A x \in 1..Width : r[x] \in {Zero, RowOf(k)[x]}
  <2> SUFFICES ASSUME NEW x \in 1..Width PROVE r[x] = Zero \/ r[x] = <<s, o + x - 1>>
    BY <1>3
  <2>1. bytes[src + x - 1] = Zero \/ bytes[src + x - 1] = <<s, off + (src + x - 1)>>
    BY <1>4 DEF PartAt, s, off
  <2> QED BY <1>4, <2>1
<1>6. r = [x \in 1..Width |-> r[x]]
  BY <1>1
<1>7. ASSUME NEW l \in Nat, HoldsAt(bytes, BadgeBytes, s, l, off, BadgeBytes), o + Width <= l
      PROVE  r = Row(k)
  <2>1. ASSUME NEW x \in 1..Width PROVE r[x] = <<s, o + x - 1>>
    <3>1. off + (src + x - 1) < l
      BY <1>2, <1>4, <1>7
    <3>2. bytes[src + x - 1] = <<s, off + (src + x - 1)>>
      BY <1>4, <1>7, <3>1 DEF HoldsAt
    <3> QED BY <1>4, <3>2
  <2> QED BY <1>6, <1>8, <2>1
<1> QED BY <1>5, <1>6, <1>7 DEF r, s, off, o

\* A badge that was read whole.
LEMMA BadgeFilled ==
  ASSUME NEW n \in Nat, NEW bytes, DOMAIN bytes = 0..(n - 1), NEW s, NEW l \in Nat, NEW off \in Nat
  PROVE  /\ DOMAIN Filled(bytes, s, l, off, n) = 0..(n - 1)
         /\ HoldsAt(Filled(bytes, s, l, off, n), n, s, l, off, n)
         /\ PartAt(bytes, n, s, off) => PartAt(Filled(bytes, s, l, off, n), n, s, off)
         /\ Whole(l, off, n) => PartAt(Filled(bytes, s, l, off, n), n, s, off)
<1> DEFINE f == Filled(bytes, s, l, off, n)
<1>1. DOMAIN f = 0..(n - 1)
  BY DEF Filled
<1>2. ASSUME NEW x \in 0..(n - 1)
      PROVE  f[x] = IF x < n /\ off + x < l THEN <<s, off + x>> ELSE bytes[x]
  BY DEF Filled
<1> HIDE DEF f
<1>3. HoldsAt(f, n, s, l, off, n)
  BY <1>2 DEF HoldsAt
<1>4. PartAt(bytes, n, s, off) => PartAt(f, n, s, off)
  BY <1>2 DEF PartAt
<1>5. Whole(l, off, n) => PartAt(f, n, s, off)
  <2> SUFFICES ASSUME Whole(l, off, n), NEW x \in 0..(n - 1) PROVE f[x] = <<s, off + x>>
    BY DEF PartAt
  <2>1. x < n /\ off + x < l
    BY DEF Whole
  <2> QED BY <1>2, <2>1
<1> QED BY <1>1, <1>3, <1>4, <1>5 DEF f

-----------------------------------------------------------------------------
(* naive, parallel and gather of ShardedStore.                             *)

Walkers == {"naive", "parallel", "sharded"}

Walk ==
  [at : Nat, to : Nat, last : {<<>>} \cup (Nat \X Nat), current : Int,
   buf : [0..(BadgeBytes - 1) -> Bytes], state : {"run", "err", "panicked"}]

\* The keys of walk j.
FirstOf(j) == IF Threaded THEN (j - 1) * KeysOfWalk + 1 ELSE 1
LastOf(j) ==
  IF Threaded THEN (IF j * KeysOfWalk < Len(keys) THEN j * KeysOfWalk ELSE Len(keys)) ELSE Len(keys)

\* The buffer of a walk holds, whole, the badge it noted: that of a key of the call.
HeldInv(w, ks, ln) ==
  /\ w.last = <<>> => w.current = NoBadge
  /\ w.state = "run" /\ w.last # <<>> =>
       \E i \in 1..Len(ks) :
         LET k == ks[i]
             s == ShardOf(k)
             off == BadgeOf(k) * BadgeBytes IN
         /\ s \in ShardIds /\ w.last = BadgeKey(k) /\ w.current = s * Half + BadgeOf(k)
         /\ Whole(ln[s], off, BadgeBytes)
         /\ PartAt(w.buf, BadgeBytes, s, off)
         /\ HoldsAt(w.buf, BadgeBytes, s, ln[s], off, BadgeBytes)

\* gather of ShardedStore is right for the keys of one shard.
Sound == method = "sharded" => InTable /\ OneShard

\* Why a walk may end early.
Reason(w, dirty, in) ==
  /\ w.state = "err" => dirty
  /\ w.state = "panicked" => ~in

\* A read failed, or a file ends within a badge.
Dirty == ~(clean /\ WholeBadges)

WalksInv ==
  /\ CallTypes /\ DOMAIN out = 1..Len(keys)
  /\ walks \in Seq(Walk)
  /\ walks # <<>> => Len(walks) = IF Threaded THEN DivCeil(Len(keys), KeysOfWalk) ELSE 1
  /\ \A j \in 1..Len(walks) :
       /\ walks[j].to = LastOf(j) /\ walks[j].at >= FirstOf(j)
       /\ HeldInv(walks[j], keys, len) /\ Reason(walks[j], Dirty, InTable)
  /\ Sound => \A i \in 1..Len(keys) : out[i] = Blank[i] \/ out[i] = Row(keys[i])
  /\ Sound => \A j \in 1..Len(walks), i \in 1..Len(keys) :
       FirstOf(j) <= i /\ i < walks[j].at => out[i] = Row(keys[i])
  /\ outcome \in {"called", "gathering", "ok", "err", "panic"}
  /\ outcome = "called" => walks = <<>>
  /\ outcome = "ok" =>
       /\ walks # <<>> /\ \A j \in 1..Len(walks) : Ended(walks[j]) /\ walks[j].state # "panicked"
       /\ ~Threaded => walks[1].state # "err"

-----------------------------------------------------------------------------
\* A key that the walk's test finds in its buffer is there.
LEMMA HeldRow ==
  ASSUME CallTypes, method \in Walkers, NEW w \in Walk, HeldInv(w, keys, len), w.state = "run", Sound,
         NEW n \in 1..Len(keys), Held(w, keys[n])
  PROVE  RowAt(w.buf, keys[n]) = Row(keys[n])
<1> DEFINE k == keys[n]
<1>1. k \in Nat /\ ShardOf(k) \in Nat /\ BadgeOf(k) \in Nat
  BY ElementOfSeq, RowPlace, BadgePlace DEF CallTypes
<1>9. ASSUME NEW i \in 1..Len(keys) PROVE keys[i] \in Nat /\ ShardOf(keys[i]) \in Nat /\ BadgeOf(keys[i]) \in Nat
  BY ElementOfSeq, RowPlace, BadgePlace DEF CallTypes
<1>2. \E i \in 1..Len(keys) :
        LET m == keys[i]
            s == ShardOf(m)
            off == BadgeOf(m) * BadgeBytes IN
        /\ s \in ShardIds /\ BadgeKey(k) = BadgeKey(m)
        /\ Whole(len[s], off, BadgeBytes)
        /\ PartAt(w.buf, BadgeBytes, s, off)
        /\ HoldsAt(w.buf, BadgeBytes, s, len[s], off, BadgeBytes)
  <2>1. CASE method # "sharded"
    <3>1. w.last = BadgeKey(k)
      BY <2>1 DEF Held
    <3>2. w.last # <<>>
      BY <3>1 DEF BadgeKey
    <3> QED BY <3>1, <3>2 DEF HeldInv
  <2>2. CASE method = "sharded"
    <3>1. ShardOf(k) = w.current /\ BadgeOf(k) = w.current \div Half
      BY <2>2 DEF Held, BadgeKey
    <3>2. ShardOf(k) \in ShardIds /\ \A i \in 1..Len(keys) : ShardOf(keys[i]) = ShardOf(k)
      BY <2>2 DEF Sound, InTable, OneShard
    <3>3. w.last # <<>>
      <4>1. ShardOf(k) < Half /\ Half = 1000 /\ NoBadge = 999999
        BY <3>2, <1>1, HalfAssumption, LayoutAssumption DEF ShardIds, Half, NoBadge
      <4> QED BY <3>1, <4>1, <1>1 DEF HeldInv
    <3>4. PICK i \in 1..Len(keys) :
            LET m == keys[i]
                s == ShardOf(m)
                off == BadgeOf(m) * BadgeBytes IN
            /\ s \in ShardIds /\ w.last = BadgeKey(m) /\ w.current = s * Half + BadgeOf(m)
            /\ Whole(len[s], off, BadgeBytes)
            /\ PartAt(w.buf, BadgeBytes, s, off)
            /\ HoldsAt(w.buf, BadgeBytes, s, len[s], off, BadgeBytes)
      BY <3>3 DEF HeldInv
    <3>5. PICK s \in Nat, b \in Nat, c \in Nat :
            s = ShardOf(keys[i]) /\ b = BadgeOf(keys[i]) /\ c = BadgeOf(k)
      BY <1>1, <1>9
    <3>6. s = s * 1000 + b /\ c = (s * 1000 + b) \div 1000
      BY <3>1, <3>2, <3>4, <3>5 DEF Half
    <3>7. b = c
      BY <3>6
    <3>8. BadgeKey(k) = BadgeKey(keys[i])
      BY <3>2, <3>5, <3>7 DEF BadgeKey
    <3> QED BY <3>4, <3>8
  <2> QED BY <2>1, <2>2
<1>3. PICK i \in 1..Len(keys) :
        LET m == keys[i]
            s == ShardOf(m)
            off == BadgeOf(m) * BadgeBytes IN
        /\ s \in ShardIds /\ BadgeKey(k) = BadgeKey(m)
        /\ Whole(len[s], off, BadgeBytes)
        /\ PartAt(w.buf, BadgeBytes, s, off)
        /\ HoldsAt(w.buf, BadgeBytes, s, len[s], off, BadgeBytes)
  BY <1>2
<1>4. ShardOf(keys[i]) = ShardOf(k) /\ BadgeOf(keys[i]) = BadgeOf(k)
  BY <1>3 DEF BadgeKey
<1> DEFINE s == ShardOf(k)
           off == BadgeOf(k) * BadgeBytes
           l == len[s]
<1>5. /\ s \in ShardIds /\ Whole(l, off, BadgeBytes) /\ PartAt(w.buf, BadgeBytes, s, off)
      /\ HoldsAt(w.buf, BadgeBytes, s, l, off, BadgeBytes)
  BY <1>3, <1>4
<1>6. l \in Nat
  BY <1>5 DEF CallTypes
<1>7. ByteOff(k) + Width <= l
  <2>1. off + BadgeBytes <= l
    BY <1>5, SizesAre DEF Whole
  <2>2. ByteOff(k) + RowBytes <= off + BadgeBytes
    <3>1. /\ off \in Nat /\ RowInBadge(k) * RowBytes \in Nat
          /\ off + RowInBadge(k) * RowBytes = ByteOff(k)
          /\ RowInBadge(k) * RowBytes + RowBytes <= BadgeBytes
      BY <1>1, BadgePlace
    <3>2. PICK x \in Nat, y \in Nat : x = off /\ y = RowInBadge(k) * RowBytes
      BY <3>1
    <3> QED BY <3>1, <3>2, SizesAre
  <2>3. off \in Nat /\ ByteOff(k) \in Nat
    BY <1>1, BadgePlace, RowPlace
  <2> HIDE DEF off, l
  <2> QED BY <1>6, <2>1, <2>2, <2>3, SizesAre
<1> HIDE DEF k, l
<1> QED BY <1>1, <1>5, <1>6, <1>7, RowAtIs DEF k

\* A badge that is read whole gives its row, and the walk holds it.
LEMMA ReadRow ==
  ASSUME CallTypes, NEW n \in 1..Len(keys), HasFile(keys[n]),
         NEW bytes \in [0..(BadgeBytes - 1) -> Bytes], ReadsBadge(BadgeKey(keys[n]), TRUE)
  PROVE  LET k == keys[n]
             s == ShardOf(k)
             off == BadgeOf(k) * BadgeBytes
             f == BadgeRead(bytes, BadgeKey(k), TRUE) IN
         /\ f \in [0..(BadgeBytes - 1) -> Bytes]
         /\ Whole(len[s], off, BadgeBytes)
         /\ PartAt(f, BadgeBytes, s, off)
         /\ HoldsAt(f, BadgeBytes, s, len[s], off, BadgeBytes)
         /\ RowAt(f, k) = Row(k)
<1> DEFINE k == keys[n]
           s == ShardOf(k)
           off == BadgeOf(k) * BadgeBytes
           l == len[s]
           f == BadgeRead(bytes, BadgeKey(k), TRUE)
<1>1. /\ k \in Nat /\ s \in ShardIds /\ l \in Nat /\ off \in Nat /\ BadgeBytes \in Nat \ {0}
      /\ DOMAIN bytes = 0..(BadgeBytes - 1)
  BY ElementOfSeq, BadgePlace, SizesAre DEF CallTypes, HasFile
<1>2. f = Filled(bytes, s, l, off, BadgeBytes) /\ Whole(l, off, BadgeBytes)
  BY DEF BadgeRead, ReadsBadge, BadgeKey
<1>3. /\ off + RowInBadge(k) * RowBytes = ByteOff(k) /\ RowInBadge(k) * RowBytes \in Nat
      /\ RowInBadge(k) * RowBytes + RowBytes <= BadgeBytes /\ ByteOff(k) \in Nat
  BY <1>1, BadgePlace, RowPlace
<1> HIDE DEF f, off, l, s, k
<1>4. /\ DOMAIN f = 0..(BadgeBytes - 1) /\ PartAt(f, BadgeBytes, s, off)
      /\ HoldsAt(f, BadgeBytes, s, l, off, BadgeBytes)
  BY <1>1, <1>2, BadgeFilled
<1>5. f \in [0..(BadgeBytes - 1) -> Bytes]
  <2>1. \A x \in 0..(BadgeBytes - 1) : off + x \in Nat
    BY <1>1
  <2>2. \A x \in 0..(BadgeBytes - 1) : f[x] \in Bytes
    BY <1>1, <1>4, <2>1, ByteIs DEF PartAt
  <2>3. f = [x \in 0..(BadgeBytes - 1) |-> f[x]]
    BY <1>1, <1>2 DEF Filled
  <2> QED BY <2>2, <2>3
<1>6. ByteOff(k) + Width <= l
  <2>1. off + BadgeBytes <= l
    BY <1>1, <1>2 DEF Whole
  <2>2. PICK y \in Nat : y = RowInBadge(k) * RowBytes
    BY <1>3
  <2> QED BY <1>1, <1>3, <2>1, <2>2, SizesAre, SMTT(30)
<1>7. RowAt(f, k) = Row(k)
  BY <1>1, <1>4, <1>6, RowAtIs DEF s, off
<1> QED BY <1>2, <1>4, <1>5, <1>7 DEF f, off, l, s, k

\* The keys of a walk begin with a key of the call, or behind the last one.
LEMMA ShareIs ==
  ASSUME CallTypes
  PROVE  /\ \A j \in Nat \ {0} : FirstOf(j) \in Nat \ {0} /\ LastOf(j) \in Nat /\ LastOf(j) <= Len(keys)
         /\ Threaded => KeysOfWalk \in Nat \ {0} /\ DivCeil(Len(keys), KeysOfWalk) \in Nat \ {0}
                        /\ Len(keys) \in Nat \ {0}
<1>1. Len(keys) \in Nat /\ SerialKeys \in Nat /\ threads \in Nat
  BY LenProperties, BadgeAssumption DEF CallTypes
<1>2. ASSUME Threaded
      PROVE  KeysOfWalk \in Nat \ {0} /\ DivCeil(Len(keys), KeysOfWalk) \in Nat \ {0} /\ Len(keys) \in Nat \ {0}
  <2>1. Len(keys) \in Nat \ {0} /\ threads \in Nat \ {0}
    BY <1>1, <1>2 DEF Threaded
  <2>2. KeysOfWalk \in Nat \ {0}
    BY <2>1, CeilIs DEF KeysOfWalk
  <2> QED BY <2>1, <2>2, CeilIs
<1>3. ASSUME NEW j \in Nat \ {0}
      PROVE  FirstOf(j) \in Nat \ {0} /\ LastOf(j) \in Nat /\ LastOf(j) <= Len(keys)
  <2>1. CASE Threaded
    <3>1. PICK c \in Nat \ {0} : c = KeysOfWalk
      BY <1>2, <2>1
    <3>2. (j - 1) * c \in Nat /\ j * c \in Nat
      BY DivMul
    <3> QED BY <1>1, <2>1, <3>1, <3>2 DEF FirstOf, LastOf
  <2>2. CASE ~Threaded
    BY <1>1, <2>2 DEF FirstOf, LastOf
  <2> QED BY <2>1, <2>2
<1> QED BY <1>2, <1>3

LEMMA WalksStart == ASSUME WalksInv, method \in Walkers, StartWalks PROVE WalksInv'
<1>1. /\ outcome = "called" /\ outcome' = "gathering" /\ CallTypes /\ walks = <<>>
      /\ UNCHANGED <<len, callVars, out, clean, method>>
  BY DEF StartWalks, WalksInv
<1>2. /\ CallTypes' /\ Blank' = Blank /\ Threaded' = Threaded /\ KeysOfWalk' = KeysOfWalk
      /\ (Sound' <=> Sound) /\ (WholeBadges' <=> WholeBadges) /\ (InTable' <=> InTable)
      /\ \A j : FirstOf(j)' = FirstOf(j) /\ LastOf(j)' = LastOf(j)
  BY <1>1 DEF CallTypes, callVars, Blank, Threaded, KeysOfWalk, Sound, InTable, OneShard, WholeBadges,
              FirstOf, LastOf
<1> DEFINE n == IF Threaded THEN DivCeil(Len(keys), KeysOfWalk) ELSE 1
<1>3. n \in Nat \ {0}
  BY <1>1, ShareIs
<1>4. /\ walks' \in [1..n -> {NewWalk(FirstOf(j), LastOf(j)) : j \in 1..n}]
      /\ \A j \in 1..n : walks'[j] = NewWalk(FirstOf(j), LastOf(j))
  <2>1. CASE Threaded
    BY <2>1 DEF StartWalks, FirstOf, LastOf
  <2>2. CASE ~Threaded
    BY <2>2 DEF StartWalks, FirstOf, LastOf
  <2> QED BY <2>1, <2>2
<1> HIDE DEF n
<1>5. ASSUME NEW j \in 1..n
      PROVE  NewWalk(FirstOf(j), LastOf(j)) \in Walk
  <2>1. j \in Nat \ {0}
    BY <1>3
  <2>2. FirstOf(j) \in Nat /\ LastOf(j) \in Nat
    BY <1>1, <2>1, ShareIs
  <2>3. Zeros(BadgeBytes) \in [0..(BadgeBytes - 1) -> Bytes]
    BY SizesAre, ZerosIs DEF BufferOf
  <2>4. NoBadge \in Int
    BY DEF NoBadge, Half
  <2> QED BY <2>2, <2>3, <2>4 DEF NewWalk, Walk
<1>6. walks' \in Seq(Walk) /\ Len(walks') = n
  <2>1. walks' \in [1..n -> Walk]
    BY <1>4, <1>5
  <2> QED BY <1>3, <2>1, FunIsSeq
<1>7. ASSUME NEW j \in 1..n
      PROVE  /\ walks'[j].to = LastOf(j) /\ walks'[j].at = FirstOf(j) /\ walks'[j].at >= FirstOf(j)
             /\ HeldInv(walks'[j], keys, len) /\ Reason(walks'[j], Dirty', InTable')
  <2>1. /\ walks'[j].to = LastOf(j) /\ walks'[j].at = FirstOf(j) /\ walks'[j].last = <<>>
        /\ walks'[j].current = NoBadge /\ walks'[j].state = "run"
    BY <1>4 DEF NewWalk
  <2>2. FirstOf(j) \in Nat
    BY <1>1, <1>3, ShareIs
  <2>3. HeldInv(walks'[j], keys, len)
    BY <2>1 DEF HeldInv
  <2>4. Reason(walks'[j], Dirty', InTable')
    BY <2>1 DEF Reason
  <2> QED BY <2>1, <2>2, <2>3, <2>4
<1>8. ASSUME NEW j \in 1..n, NEW i \in 1..Len(keys), FirstOf(j) <= i, i < walks'[j].at PROVE FALSE
  <2>1. FirstOf(j) \in Nat /\ i \in Nat
    BY <1>1, <1>3, ShareIs, LenProperties DEF CallTypes
  <2> QED BY <1>7, <1>8, <2>1
<1>9. keys' = keys /\ out' = out /\ len' = len
  BY <1>1 DEF callVars
<1>10. Len(walks') = IF Threaded' THEN DivCeil(Len(keys'), KeysOfWalk') ELSE 1
  BY <1>2, <1>6, <1>9 DEF n
<1>11. /\ DOMAIN out = 1..Len(keys)
       /\ Sound => \A i \in 1..Len(keys) : out[i] = Blank[i] \/ out[i] = Row(keys[i])
  BY DEF WalksInv
<1>12. walks' # <<>>
  BY <1>3, <1>6, NonEmpty
<1>13. \A j \in 1..n : /\ walks'[j].to = LastOf(j)' /\ walks'[j].at >= FirstOf(j)'
                        /\ HeldInv(walks'[j], keys', len') /\ Reason(walks'[j], Dirty', InTable')
  BY <1>2, <1>7, <1>9
<1>14. Sound' => \A j \in 1..n, i \in 1..Len(keys) :
         FirstOf(j)' <= i /\ i < walks'[j].at => out'[i] = Row(keys[i])
  BY <1>2, <1>8
<1>15. \A k : Row(k)' = Row(k)
  BY DEF Row
<1> QED BY <1>1, <1>2, <1>6, <1>9, <1>10, <1>11, <1>12, <1>13, <1>14, <1>15 DEF WalksInv

\* A step of one walk, which may write the row it is at.
LEMMA WalkStep ==
  ASSUME WalksInv, NEW j \in 1..Len(walks), NEW w \in Walk,
         walks[j].state = "run", walks[j].at <= walks[j].to,
         w.to = walks[j].to, w.at \in {walks[j].at, walks[j].at + 1},
         HeldInv(w, keys, len), Reason(w, Dirty', InTable),
         walks' = [walks EXCEPT ![j] = w],
         \/ out' = out /\ w.at = walks[j].at
         \/ /\ \E row : out' = [out EXCEPT ![walks[j].at] = row]
            /\ Sound => out'[walks[j].at] = Row(keys[walks[j].at]),
         UNCHANGED <<len, callVars, outcome, method>>, clean' \in BOOLEAN, clean' => clean
  PROVE  WalksInv'
<1>1. /\ CallTypes /\ DOMAIN out = 1..Len(keys) /\ walks \in Seq(Walk) /\ Len(walks) \in Nat
      /\ Len(keys) \in Nat
  BY LenProperties DEF WalksInv, CallTypes
<1>2. /\ CallTypes' /\ Blank' = Blank /\ Threaded' = Threaded /\ KeysOfWalk' = KeysOfWalk
      /\ (Sound' <=> Sound) /\ (WholeBadges' <=> WholeBadges) /\ InTable' = InTable
      /\ keys' = keys /\ len' = len
      /\ \A x : FirstOf(x)' = FirstOf(x) /\ LastOf(x)' = LastOf(x)
  BY <1>1 DEF CallTypes, callVars, Blank, Threaded, KeysOfWalk, Sound, InTable, OneShard, WholeBadges,
              FirstOf, LastOf
<1>3. /\ walks' \in Seq(Walk) /\ Len(walks') = Len(walks)
      /\ \A x \in 1..Len(walks) : walks'[x] = IF x = j THEN w ELSE walks[x]
  BY <1>1, ExceptSeq
<1>4. walks # <<>> /\ walks' # <<>>
  <2>1. Len(walks) # 0
    BY <1>1
  <2> QED BY <1>1, <1>3, <2>1, NonEmpty
<1>5. /\ \A x \in 1..Len(walks) : /\ walks[x] \in Walk /\ walks[x].to = LastOf(x) /\ walks[x].at >= FirstOf(x)
                                  /\ HeldInv(walks[x], keys, len) /\ Reason(walks[x], Dirty, InTable)
  BY <1>1, ElementOfSeq DEF WalksInv
<1>6. \A x \in 1..Len(walks) : FirstOf(x) \in Nat \ {0} /\ LastOf(x) \in Nat /\ LastOf(x) <= Len(keys)
  BY <1>1, ShareIs
<1>7. walks[j].at \in 1..Len(keys) /\ walks[j].at \in Nat /\ w.at \in Nat
  <2>1. walks[j].at \in Nat /\ walks[j].to \in Nat
    BY <1>5 DEF Walk
  <2> QED BY <1>1, <1>5, <1>6, <2>1
<1> DEFINE m == walks[j].at
<1>8. /\ DOMAIN out' = 1..Len(keys)
      /\ \A i \in 1..Len(keys) : i # m => out'[i] = out[i]
      /\ Sound => (out'[m] = out[m] /\ w.at = m) \/ out'[m] = Row(keys[m])
  BY <1>1, <1>7
<1>9. ASSUME NEW x \in 1..Len(walks)
      PROVE  /\ walks'[x].to = LastOf(x) /\ walks'[x].at >= FirstOf(x)
             /\ HeldInv(walks'[x], keys, len) /\ Reason(walks'[x], Dirty', InTable)
  <2>1. CASE x = j
    <3>1. FirstOf(j) \in Nat /\ walks[j].at >= FirstOf(j)
      BY <1>5, <1>6
    <3>2. walks'[x] = w
      BY <1>3, <2>1
    <3>3. w.to = LastOf(x)
      BY <1>5, <2>1
    <3>4. w.at >= FirstOf(x)
      BY <1>7, <2>1, <3>1
    <3> QED BY <3>2, <3>3, <3>4
  <2>2. CASE x # j
    <3>1. walks'[x] = walks[x]
      BY <1>3, <2>2
    <3>2. Reason(walks[x], Dirty, InTable) => Reason(walks[x], Dirty', InTable)
      BY <1>2 DEF Reason, Dirty
    <3> QED BY <1>5, <3>1, <3>2
  <2> QED BY <2>1, <2>2
<1>10. ASSUME Sound, NEW i \in 1..Len(keys) PROVE out'[i] = Blank[i] \/ out'[i] = Row(keys[i])
  <2>1. out[i] = Blank[i] \/ out[i] = Row(keys[i])
    BY <1>10 DEF WalksInv
  <2> QED BY <1>8, <1>10, <2>1
<1>11. ASSUME Sound, NEW x \in 1..Len(walks), NEW i \in 1..Len(keys), FirstOf(x) <= i, i < walks'[x].at
       PROVE  out'[i] = Row(keys[i])
  <2>1. FirstOf(x) <= i /\ i < walks[x].at => out[i] = Row(keys[i])
    BY <1>11 DEF WalksInv
  <2>2. CASE i = m
    <3>1. CASE out'[m] = Row(keys[m])
      BY <2>2, <3>1
    <3>2. CASE out'[m] = out[m] /\ w.at = m
      <4>1. walks'[x].at = walks[x].at
        BY <1>3, <3>2
      <4> QED BY <1>11, <2>1, <2>2, <3>2, <4>1
    <3> QED BY <1>8, <1>11, <3>1, <3>2
  <2>3. CASE i # m
    <3>1. i < walks[x].at
      <4>1. CASE x = j
        <5>1. i \in Nat /\ m \in Nat /\ i < w.at /\ w.at \in {m, m + 1}
          BY <1>1, <1>3, <1>7, <1>11, <4>1
        <5> HIDE DEF m
        <5>2. i < m
          BY <2>3, <5>1
        <5> QED BY <4>1, <5>2 DEF m
      <4>2. CASE x # j
        BY <1>3, <1>11, <4>2
      <4> QED BY <4>1, <4>2
    <3> QED BY <1>8, <1>11, <2>1, <2>3, <3>1
  <2> QED BY <2>2, <2>3
<1>12. outcome' = outcome /\ outcome \in {"called", "gathering", "ok", "err", "panic"}
       /\ outcome # "called" /\ outcome # "ok"
  <2>1. outcome # "called"
    BY <1>4 DEF WalksInv
  <2>2. ~Ended(walks[j])
    <3>1. walks[j].at \in Nat /\ walks[j].to \in Nat
      BY <1>5 DEF Walk
    <3> QED BY <3>1 DEF Ended
  <2>3. outcome # "ok"
    BY <2>2 DEF WalksInv
  <2> QED BY <2>1, <2>3 DEF WalksInv
<1>13. Len(walks') = IF Threaded' THEN DivCeil(Len(keys'), KeysOfWalk') ELSE 1
  BY <1>2, <1>3, <1>4 DEF WalksInv
<1> HIDE DEF m
<1>14. \A x \in 1..Len(walks) : /\ walks'[x].to = LastOf(x)' /\ walks'[x].at >= FirstOf(x)'
                                 /\ HeldInv(walks'[x], keys', len') /\ Reason(walks'[x], Dirty', InTable')
  BY <1>2, <1>9
<1>15. Sound' => \A x \in 1..Len(walks), i \in 1..Len(keys) :
         FirstOf(x)' <= i /\ i < walks'[x].at => out'[i] = Row(keys[i])
  BY <1>2, <1>11
<1>16. Sound' => \A i \in 1..Len(keys) : out'[i] = Blank'[i] \/ out'[i] = Row(keys[i])
  BY <1>2, <1>10
<1>17. \A k : Row(k)' = Row(k)
  BY DEF Row
<1> QED BY <1>2, <1>3, <1>4, <1>8, <1>12, <1>13, <1>14, <1>15, <1>16, <1>17 DEF WalksInv

\* The key a running walk is at.
LEMMA WalkAt ==
  ASSUME WalksInv, NEW j \in 1..Len(walks), walks[j].state = "run", walks[j].at <= walks[j].to
  PROVE  /\ CallTypes /\ walks \in Seq(Walk) /\ walks[j] \in Walk /\ HeldInv(walks[j], keys, len)
         /\ Reason(walks[j], Dirty, InTable) /\ walks[j].at \in 1..Len(keys)
         /\ keys[walks[j].at] \in Nat
<1>1. CallTypes /\ walks \in Seq(Walk) /\ Len(walks) \in Nat
  BY LenProperties DEF WalksInv
<1>2. walks[j] \in Walk
  BY <1>1, ElementOfSeq
<1>3. /\ walks[j].to = LastOf(j) /\ walks[j].at >= FirstOf(j)
      /\ HeldInv(walks[j], keys, len) /\ Reason(walks[j], Dirty, InTable)
  BY DEF WalksInv
<1>4. FirstOf(j) \in Nat \ {0} /\ LastOf(j) <= Len(keys) /\ LastOf(j) \in Nat
  BY <1>1, ShareIs
<1>5. walks[j].at \in Nat /\ Len(keys) \in Nat
  BY <1>1, <1>2, LenProperties DEF Walk, CallTypes
<1>6. walks[j].at \in 1..Len(keys)
  BY <1>3, <1>4, <1>5
<1> QED BY <1>1, <1>2, <1>3, <1>6, ElementOfSeq DEF CallTypes

LEMMA WalkMoved ==
  ASSUME NEW w \in Walk
  PROVE  LET v == [w EXCEPT !.at = @ + 1] IN
         /\ v \in Walk /\ v.to = w.to /\ v.at = w.at + 1 /\ v.state = w.state /\ v.last = w.last
         /\ v.current = w.current /\ v.buf = w.buf
<1> DEFINE v == [w EXCEPT !.at = @ + 1]
<1>1. /\ v.to = w.to /\ v.at = w.at + 1 /\ v.state = w.state /\ v.last = w.last
      /\ v.current = w.current /\ v.buf = w.buf
  BY DEF Walk
<1>2. w.at + 1 \in Nat
  BY DEF Walk
<1>3. v \in Walk
  BY <1>2 DEF Walk
<1> QED BY <1>1, <1>3

\* A walk once a badge is read.
Took(w, k, f) == [Remembered(w, k) EXCEPT !.buf = f, !.at = @ + 1]

LEMMA WalkTook ==
  ASSUME NEW w \in Walk, NEW k \in Nat, NEW f \in [0..(BadgeBytes - 1) -> Bytes]
  PROVE  LET v == Took(w, k, f) IN
         /\ v \in Walk /\ v.to = w.to /\ v.at = w.at + 1 /\ v.state = w.state /\ v.last = BadgeKey(k)
         /\ v.current = ShardOf(k) * Half + BadgeOf(k) /\ v.buf = f
<1> DEFINE r == Remembered(w, k)
           u == [r EXCEPT !.buf = f]
           v == [r EXCEPT !.buf = f, !.at = @ + 1]
<1>1. ShardOf(k) \in Nat /\ BadgeOf(k) \in Nat /\ ShardOf(k) * Half + BadgeOf(k) \in Int
  <2>1. ShardOf(k) \in Nat /\ BadgeOf(k) \in Nat
    BY RowPlace, BadgePlace
  <2> QED BY <2>1 DEF Half
<1>2. BadgeKey(k) \in Nat \X Nat
  BY <1>1 DEF BadgeKey
<1>3. /\ r \in Walk /\ r.last = BadgeKey(k) /\ r.current = ShardOf(k) * Half + BadgeOf(k)
      /\ r.at = w.at /\ r.to = w.to /\ r.state = w.state
  BY <1>1, <1>2 DEF Remembered, Walk
<1> HIDE DEF r
<1>4. u \in Walk /\ u.last = r.last /\ u.current = r.current /\ u.at = r.at /\ u.to = r.to /\ u.state = r.state
      /\ u.buf = f
  BY <1>3 DEF Walk
<1>5. v = [u EXCEPT !.at = @ + 1]
  BY <1>3 DEF Walk
<1> HIDE DEF u
<1> QED BY <1>3, <1>4, <1>5, WalkMoved DEF r, Took

LEMMA WalksHit ==
  ASSUME WalksInv, method \in Walkers, NEW j \in 1..Len(walks), WalkHit(j)
  PROVE  WalksInv'
<1> DEFINE w == walks[j]
           v == [w EXCEPT !.at = @ + 1]
<1>1. /\ w.state = "run" /\ w.at <= w.to /\ Held(w, keys[w.at])
      /\ out' = [out EXCEPT ![w.at] = RowAt(w.buf, keys[w.at])]
      /\ walks' = [walks EXCEPT ![j] = v]
      /\ UNCHANGED <<len, callVars, outcome, clean, method>>
  BY DEF WalkHit
<1>2. /\ CallTypes /\ walks \in Seq(Walk) /\ w \in Walk /\ HeldInv(w, keys, len)
      /\ Reason(w, Dirty, InTable) /\ w.at \in 1..Len(keys) /\ keys[w.at] \in Nat
  BY <1>1, WalkAt
<1>3. /\ v \in Walk /\ v.to = w.to /\ v.at = w.at + 1 /\ v.state = w.state /\ v.last = w.last
      /\ v.current = w.current /\ v.buf = w.buf
  BY <1>2, WalkMoved
<1>4. HeldInv(v, keys, len)
  BY <1>2, <1>3 DEF HeldInv
<1>5. Reason(v, Dirty', InTable)
  BY <1>1, <1>3 DEF Reason
<1>6. Sound => RowAt(w.buf, keys[w.at]) = Row(keys[w.at])
  BY <1>1, <1>2, HeldRow
<1>7. DOMAIN out = 1..Len(keys)
  BY DEF WalksInv
<1>8. Sound => out'[w.at] = Row(keys[w.at])
  BY <1>1, <1>2, <1>6, <1>7
<1>9. clean' \in BOOLEAN /\ (clean' => clean)
  BY <1>1, <1>2 DEF CallTypes
<1>10. \E row : out' = [out EXCEPT ![w.at] = row]
  BY <1>1
<1> HIDE DEF v
<1> QED BY <1>1, <1>2, <1>3, <1>4, <1>5, <1>8, <1>9, <1>10, WalkStep

\* A badge of the table that cannot be read whole ends behind its file.
LEMMA Short ==
  ASSUME CallTypes, NEW k \in Nat, HasFile(k), NEW ok \in BOOLEAN, ~ReadsBadge(BadgeKey(k), ok)
  PROVE  ~(ok /\ WholeBadges)
<1>1. SUFFICES ASSUME ok, WholeBadges PROVE FALSE
  OBVIOUS
<1>2. ~Whole(len[ShardOf(k)], BadgeOf(k) * BadgeBytes, BadgeBytes)
  BY <1>1 DEF ReadsBadge, BadgeKey
<1>3. len[ShardOf(k)] >= DivCeil(RowsPerShard, BadgeRows) * BadgeBytes /\ len[ShardOf(k)] \in Nat
  BY <1>1 DEF WholeBadges, HasFile, CallTypes
<1>4. /\ BadgeOf(k) \in Nat /\ BadgeOf(k) < DivCeil(RowsPerShard, BadgeRows)
      /\ BadgeBytes \in Nat \ {0}
  BY BadgePlace, SizesAre
<1>5. DivCeil(RowsPerShard, BadgeRows) \in Nat
  BY SizesAre, CeilIs
<1>6. PICK b \in Nat, n \in Nat, w \in Nat \ {0} :
        b = BadgeOf(k) /\ n = DivCeil(RowsPerShard, BadgeRows) /\ w = BadgeBytes
  BY <1>4, <1>5
<1>7. b * w + w <= n * w
  BY <1>4, <1>6, BlockBelow
<1>8. b * w \in Nat /\ n * w \in Nat
  BY <1>6, DivMul
<1>9. PICK x \in Nat, y \in Nat, l \in Nat : x = b * w /\ y = n * w /\ l = len[ShardOf(k)]
  BY <1>3, <1>8
<1>10. ~(x + w <= l) /\ l >= y /\ x + w <= y
  BY <1>2, <1>3, <1>6, <1>7, <1>9 DEF Whole
<1> QED BY <1>6, <1>10

LEMMA WalksRead ==
  ASSUME WalksInv, method \in Walkers, NEW j \in 1..Len(walks), NEW ok \in BOOLEAN, WalkRead(j, ok)
  PROVE  WalksInv'
<1> DEFINE w == walks[j]
           k == keys[w.at]
           b == BadgeKey(k)
           f == BadgeRead(w.buf, b, ok)
<1>1. /\ w.state = "run" /\ w.at <= w.to /\ HasFile(k) /\ clean' = (clean /\ ok)
      /\ UNCHANGED <<len, callVars, outcome, method>>
  BY DEF WalkRead
<1>2. /\ CallTypes /\ walks \in Seq(Walk) /\ w \in Walk /\ HeldInv(w, keys, len)
      /\ w.at \in 1..Len(keys) /\ k \in Nat
  BY <1>1, WalkAt
<1>3. clean' \in BOOLEAN /\ (clean' => clean)
  BY <1>1, <1>2 DEF CallTypes
<1>4. DOMAIN out = 1..Len(keys)
  BY DEF WalksInv
<1>5. w.buf \in [0..(BadgeBytes - 1) -> Bytes] /\ w.at \in Nat
  BY <1>2 DEF Walk
<1>6. CASE ReadsBadge(b, ok)
  <2> DEFINE v == Took(w, k, f)
  <2>1. /\ out' = [out EXCEPT ![w.at] = RowAt(f, k)]
        /\ walks' = [walks EXCEPT ![j] = v]
    BY <1>6 DEF WalkRead, Took
  <2>2. ok = TRUE
    BY <1>6 DEF ReadsBadge
  <2>3. /\ f \in [0..(BadgeBytes - 1) -> Bytes]
        /\ Whole(len[ShardOf(k)], BadgeOf(k) * BadgeBytes, BadgeBytes)
        /\ PartAt(f, BadgeBytes, ShardOf(k), BadgeOf(k) * BadgeBytes)
        /\ HoldsAt(f, BadgeBytes, ShardOf(k), len[ShardOf(k)], BadgeOf(k) * BadgeBytes, BadgeBytes)
        /\ RowAt(f, k) = Row(k)
    BY <1>1, <1>2, <1>5, <1>6, <2>2, ReadRow
  <2>4. /\ v \in Walk /\ v.to = w.to /\ v.at = w.at + 1 /\ v.state = w.state /\ v.last = BadgeKey(k)
        /\ v.current = ShardOf(k) * Half + BadgeOf(k) /\ v.buf = f
    <3> HIDE DEF w, k, f
    <3> QED BY <1>2, <2>3, WalkTook
  <2> HIDE DEF v, f
  <2>7. HeldInv(v, keys, len)
    <3>1. v.last # <<>>
      BY <2>4 DEF BadgeKey
    <3> QED BY <1>1, <1>2, <2>3, <2>4, <3>1 DEF HeldInv, HasFile
  <2>8. Reason(v, Dirty', InTable)
    BY <1>1, <2>4 DEF Reason
  <2>9. out'[w.at] = Row(k) /\ \E row : out' = [out EXCEPT ![w.at] = row]
    BY <1>2, <1>4, <2>1, <2>3
  <2> QED BY <1>1, <1>2, <1>3, <2>1, <2>4, <2>7, <2>8, <2>9, WalkStep
<1>7. CASE ~ReadsBadge(b, ok)
  <2> DEFINE v == [w EXCEPT !.buf = f, !.state = "err"]
  <2>1. out' = out /\ walks' = [walks EXCEPT ![j].buf = f, ![j].state = "err"]
    BY <1>7 DEF WalkRead
  <2>2. walks' = [walks EXCEPT ![j] = v]
    <3>1. DOMAIN walks = 1..Len(walks)
      BY <1>2, LenProperties
    <3> QED BY <2>1, <3>1
  <2>3. f \in [0..(BadgeBytes - 1) -> Bytes]
    <3>1. CASE ~ok
      BY <1>5, <3>1 DEF BadgeRead
    <3>2. CASE ok
      <4>1. /\ b[1] \in ShardIds /\ len[b[1]] \in Nat /\ b[2] * BadgeBytes \in Nat
        BY <1>1, <1>2, BadgePlace DEF BadgeKey, HasFile, CallTypes
      <4> DEFINE s == b[1]
                 l == len[b[1]]
                 o == b[2] * BadgeBytes
      <4>2. f = [x \in 0..(BadgeBytes - 1) |-> IF x < BadgeBytes /\ o + x < l THEN <<s, o + x>> ELSE w.buf[x]]
        BY <1>5, <3>2 DEF BadgeRead, Filled
      <4> HIDE DEF f, s, l, o
      <4>3. ASSUME NEW x \in 0..(BadgeBytes - 1) PROVE f[x] \in Bytes
        <5>1. o + x \in Nat /\ s \in ShardIds
          BY <4>1, SizesAre, SMTT(30) DEF o, s
        <5>2. <<s, o + x>> \in Bytes
          BY <5>1, ByteIs
        <5> QED BY <1>5, <4>2, <5>2
      <4> QED BY <4>2, <4>3
    <3> QED BY <3>1, <3>2
  <2>4. v \in Walk /\ v.to = w.to /\ v.at = w.at /\ v.state = "err" /\ v.last = w.last /\ v.current = w.current
    BY <1>2, <2>3 DEF Walk
  <2>5. HeldInv(v, keys, len)
    BY <1>2, <2>4 DEF HeldInv
  <2>6. Reason(v, Dirty', InTable)
    <3>1. ~(ok /\ WholeBadges)
      BY <1>1, <1>2, <1>7, Short
    <3>2. WholeBadges' = WholeBadges
      BY <1>1 DEF WholeBadges
    <3> QED BY <1>1, <2>4, <3>1, <3>2 DEF Reason, Dirty
  <2> HIDE DEF v
  <2> QED BY <1>1, <1>2, <1>3, <2>1, <2>2, <2>4, <2>5, <2>6, WalkStep
<1> QED BY <1>6, <1>7

LEMMA WalksNowhere ==
  ASSUME WalksInv, method \in Walkers, NEW j \in 1..Len(walks), WalkNowhere(j)
  PROVE  WalksInv'
<1> DEFINE w == walks[j]
           v == [w EXCEPT !.state = "panicked"]
<1>1. /\ w.state = "run" /\ w.at <= w.to /\ ~HasFile(keys[w.at]) /\ out' = out
      /\ walks' = [walks EXCEPT ![j].state = "panicked"]
      /\ UNCHANGED <<len, callVars, outcome, clean, method>>
  BY DEF WalkNowhere
<1>2. /\ CallTypes /\ walks \in Seq(Walk) /\ w \in Walk /\ HeldInv(w, keys, len)
      /\ w.at \in 1..Len(keys) /\ keys[w.at] \in Nat
  BY <1>1, WalkAt
<1>3. walks' = [walks EXCEPT ![j] = v]
  BY <1>1
<1>4. v \in Walk /\ v.to = w.to /\ v.at = w.at /\ v.state = "panicked" /\ v.last = w.last /\ v.current = w.current
  BY <1>2 DEF Walk
<1>5. HeldInv(v, keys, len)
  BY <1>2, <1>4 DEF HeldInv
<1>6. Reason(v, Dirty', InTable)
  <2>1. ~InTable
    BY <1>1, <1>2 DEF InTable, HasFile
  <2> QED BY <1>4, <2>1 DEF Reason
<1>7. clean' \in BOOLEAN /\ (clean' => clean)
  BY <1>1, <1>2 DEF CallTypes
<1> HIDE DEF v
<1> QED BY <1>1, <1>2, <1>3, <1>4, <1>5, <1>6, <1>7, WalkStep

LEMMA WalksEnd == ASSUME WalksInv, EndWalks PROVE WalksInv'
<1>1. /\ walks # <<>> /\ \A j \in 1..Len(walks) : Ended(walks[j])
      /\ outcome' = IF \E j \in 1..Len(walks) : walks[j].state = "panicked" THEN "panic"
                    ELSE IF ~Threaded /\ walks[1].state = "err" THEN "err" ELSE "ok"
      /\ UNCHANGED <<len, callVars, out, clean, walks, method>>
  BY DEF EndWalks, badgeVars
<1>2. /\ CallTypes' = CallTypes /\ Blank' = Blank /\ Threaded' = Threaded /\ KeysOfWalk' = KeysOfWalk
      /\ Sound' = Sound /\ Dirty' = Dirty /\ InTable' = InTable /\ keys' = keys
      /\ \A j : FirstOf(j)' = FirstOf(j) /\ LastOf(j)' = LastOf(j)
  BY <1>1 DEF CallTypes, callVars, Blank, Threaded, KeysOfWalk, Sound, InTable, OneShard, WholeBadges,
              Dirty, FirstOf, LastOf
<1>3. \A k : Row(k)' = Row(k)
  BY DEF Row
<1>4. \A w : Ended(w)' = Ended(w)
  BY DEF Ended
<1>5. outcome' \in {"called", "gathering", "ok", "err", "panic"} /\ outcome' # "called"
  BY <1>1
<1>6. outcome' = "ok" => /\ \A j \in 1..Len(walks) : walks[j].state # "panicked"
                         /\ ~Threaded => walks[1].state # "err"
  BY <1>1
<1> QED BY <1>1, <1>2, <1>3, <1>4, <1>5, <1>6 DEF WalksInv

\* The walks cover the keys.
LEMMA Shared ==
  ASSUME WalksInv, walks # <<>>, NEW i \in 1..Len(keys)
  PROVE  \E j \in 1..Len(walks) : FirstOf(j) <= i /\ i <= LastOf(j)
<1>1. CallTypes /\ Len(keys) \in Nat
  BY LenProperties DEF WalksInv, CallTypes
<1>2. CASE Threaded
  <2>1. /\ KeysOfWalk \in Nat \ {0} /\ DivCeil(Len(keys), KeysOfWalk) \in Nat \ {0}
        /\ Len(walks) = DivCeil(Len(keys), KeysOfWalk)
    BY <1>1, <1>2, ShareIs DEF WalksInv
  <2>2. PICK c \in Nat \ {0}, n \in Nat \ {0} :
          c = KeysOfWalk /\ n = Len(walks) /\ Len(keys) <= n * c /\ Len(keys) \in Nat \ {0}
    BY <1>1, <1>2, <2>1, CeilIs, ShareIs
  <2>3. i \in 1..(n * c)
    <3>1. PICK y \in Nat : y = n * c
      BY <2>2, DivMul
    <3> QED BY <2>2, <3>1
  <2>4. PICK g \in 0..(n - 1) : \E x \in 1..c : i = g * c + x
    <3>1. n \in Nat /\ c \in Nat \ {0}
      BY <2>2
    <3>2. \E g \in 0..(n - 1), x \in 1..c : i = g * c + x
      BY <2>3, <3>1, BlockPlace
    <3> QED BY <3>2
  <2>5. PICK x \in 1..c : i = g * c + x
    BY <2>4
  <2>6. (g + 1) \in 1..n /\ g \in Nat /\ g * c \in Nat /\ (g + 1) * c = g * c + c /\ g + 1 - 1 = g
    BY <2>2, <2>4, DivMul
  <2>7. FirstOf(g + 1) = g * c + 1
    BY <1>2, <2>2, <2>6 DEF FirstOf
  <2>8. LastOf(g + 1) = IF g * c + c < Len(keys) THEN g * c + c ELSE Len(keys)
    BY <1>2, <2>2, <2>6 DEF LastOf
  <2>9. PICK z \in Nat : z = g * c
    BY <2>6
  <2>10. FirstOf(g + 1) <= i /\ i <= LastOf(g + 1)
    BY <1>1, <2>2, <2>5, <2>7, <2>8, <2>9
  <2> QED BY <2>2, <2>6, <2>10
<1>3. CASE ~Threaded
  <2>1. Len(walks) = 1
    BY <1>3 DEF WalksInv
  <2> QED BY <1>1, <1>3, <2>1 DEF FirstOf, LastOf
<1> QED BY <1>2, <1>3

\* What the walks return.
LEMMA WalksAnswer ==
  ASSUME WalksInv, method \in Walkers
  PROVE  /\ BadgeRowsExact
         /\ \A i \in 1..Len(keys), x \in 1..Width :
              ~Mixes(keys[i]) => out[i][x] \in {Zero, RowOf(keys[i])[x]}
<1>1. /\ CallTypes /\ DOMAIN out = 1..Len(keys) /\ Len(keys) \in Nat
      /\ \A i \in 1..Len(keys) : keys[i] \in Nat /\ ShardOf(keys[i]) \in Nat
  BY LenProperties, ElementOfSeq, RowPlace DEF WalksInv, CallTypes
<1>2. ASSUME Answered, ~Excused PROVE Exact
  <2>1. InTable /\ outcome = "ok"
    BY <1>2 DEF Answered
  <2>2. Sound
    <3>1. ASSUME method = "sharded" PROVE OneShard
      BY <1>2, <2>1, <3>1 DEF Excused, Mixes, OneShard
    <3> QED BY <2>1, <3>1 DEF Sound
  <2>3. ASSUME NEW i \in 1..Len(keys) PROVE out[i] = Row(keys[i])
    <3>1. /\ walks # <<>> /\ \A j \in 1..Len(walks) : Ended(walks[j]) /\ walks[j].state # "panicked"
          /\ ~Threaded => walks[1].state # "err" /\ walks \in Seq(Walk)
      BY <2>1 DEF WalksInv
    <3>2. PICK j \in 1..Len(walks) : FirstOf(j) <= i /\ i <= LastOf(j)
      BY <3>1, Shared
    <3>3. walks[j].state # "err"
      <4>1. CASE Threaded
        <5>1. method = "parallel"
          BY <4>1 DEF Threaded
        <5>2. ~Dirty
          BY <1>2, <4>1, <5>1 DEF Excused, Dirty
        <5> QED BY <5>2 DEF WalksInv, Reason
      <4>2. CASE ~Threaded
        <5>1. Len(walks) = 1
          BY <3>1, <4>2 DEF WalksInv
        <5> QED BY <3>1, <4>2, <5>1
      <4> QED BY <4>1, <4>2
    <3>4. walks[j] \in Walk
      BY ElementOfSeq DEF WalksInv
    <3>5. walks[j].at > walks[j].to /\ walks[j].to = LastOf(j)
      BY <3>1, <3>3, <3>4 DEF Ended, Walk, WalksInv
    <3>6. walks[j].at \in Nat /\ walks[j].to \in Nat
      BY <3>4 DEF Walk
    <3>7. i < walks[j].at
      BY <1>1, <3>2, <3>5, <3>6
    <3> QED BY <2>2, <3>2, <3>7 DEF WalksInv
  <2> QED BY <2>3 DEF Exact, Row
<1>3. ASSUME NEW i \in 1..Len(keys), NEW x \in 1..Width, ~Mixes(keys[i])
      PROVE  out[i][x] \in {Zero, RowOf(keys[i])[x]}
  <2>1. out[i] = Blank[i] \/ out[i] = Row(keys[i])
    BY <1>3 DEF WalksInv, Sound, Mixes
  <2>2. Blank[i][x] = Zero
    BY DEF Blank
  <2>3. Row(keys[i])[x] = RowOf(keys[i])[x]
    BY <1>1, RowBytesAre
  <2> QED BY <2>1, <2>2, <2>3
<1> QED BY <1>2, <1>3 DEF BadgeRowsExact

-----------------------------------------------------------------------------
(* gather_planned and gather_plan.                                         *)

\* A row of key k that is right, byte for byte, where it was written.
PartRow(r, k) == \A x \in 1..Width : r[x] \in {Zero, RowOf(k)[x]}

\* A row whose badge is still to be read, or which is there if nothing failed.
Due(b, gs, r, k, good) == b \in gs \/ (good => r = Row(k))

GroupTypes ==
  /\ CallTypes /\ DOMAIN out = 1..Len(keys)
  /\ outcome \in {"called", "gathering", "ok", "err", "panic"}
  /\ outcome = "ok" => groups = {}

PlannedInv ==
  /\ GroupTypes
  /\ \A i \in 1..Len(keys) : PartRow(out[i], keys[i])
  /\ outcome \in {"gathering", "ok"} => \A i \in 1..Len(keys) :
       Due(BadgeKey(keys[i]), groups, out[i], keys[i], clean /\ WholeFiles)

\* A key that gather_plan has looked up is planned, or its row was read on its own.
Looked(k, p, gs, r) ==
  \/ InPlan(p, BadgeKey(k)) /\ (BadgeKey(k) \in gs \/ r = Row(k))
  \/ ~InPlan(p, BadgeKey(k)) /\ (ShardOf(k) = 0 => r = Row(k))

\* The rows of the keys gather_plan finds the right bytes for.
ServedRows == \A i \in 1..Len(keys) : PlanServes(keys[i]) => PartRow(out[i], keys[i])

PlanInv ==
  /\ GroupTypes
  /\ at \in Nat
  /\ outcome = "called" => at = 1
  /\ outcome = "ok" => at > Len(keys)
  /\ outcome \in {"gathering", "ok"} =>
       \A i \in 1..Len(keys) : i < at => Looked(keys[i], plan, groups, out[i])
  /\ outcome = "called" => out = Blank
  /\ ServedRows

-----------------------------------------------------------------------------
\* A row from the buffer its badge was read into.
LEMMA GroupRow ==
  ASSUME CallTypes, NEW n \in 1..Len(keys), HasFile(keys[n]), NEW ok \in BOOLEAN
  PROVE  LET k == keys[n]
             r == RowAt(BadgeRead(Zeros(BadgeBytes), BadgeKey(k), ok), k) IN
         /\ PartRow(r, k)
         /\ ok /\ WholeFiles => r = Row(k)
         /\ ReadsBadge(BadgeKey(k), ok) => r = Row(k)
<1> DEFINE k == keys[n]
           s == ShardOf(k)
           off == BadgeOf(k) * BadgeBytes
           l == len[s]
           z == Zeros(BadgeBytes)
           f == BadgeRead(z, BadgeKey(k), ok)
<1>1. /\ k \in Nat /\ s \in ShardIds /\ l \in Nat /\ off \in Nat /\ BadgeBytes \in Nat \ {0}
      /\ BadgeBytes \in Nat
  BY ElementOfSeq, BadgePlace, SizesAre DEF CallTypes, HasFile
<1>2. /\ DOMAIN z = 0..(BadgeBytes - 1) /\ z \in [0..(BadgeBytes - 1) -> Bytes]
      /\ PartAt(z, BadgeBytes, s, off)
  <2>1. \A x \in 0..(BadgeBytes - 1) : z[x] = Zero
    BY DEF Zeros
  <2>2. z \in [0..(BadgeBytes - 1) -> Bytes]
    BY <1>1, ZerosIs DEF BufferOf
  <2> HIDE DEF z
  <2> QED BY <2>1, <2>2 DEF PartAt
<1> HIDE DEF z
<1>3. f = IF ok THEN Filled(z, s, l, off, BadgeBytes) ELSE z
  BY DEF BadgeRead, BadgeKey
<1>4. ReadsBadge(BadgeKey(k), ok) => ok = TRUE
  BY DEF ReadsBadge
<1>5. ASSUME ReadsBadge(BadgeKey(k), ok) PROVE RowAt(f, k) = Row(k)
  <2>1. ok = TRUE /\ ReadsBadge(BadgeKey(k), TRUE)
    BY <1>4, <1>5
  <2>2. RowAt(BadgeRead(z, BadgeKey(k), TRUE), k) = Row(k)
    BY <1>2, <2>1, ReadRow
  <2> QED BY <2>1, <2>2
<1>6. PartAt(f, BadgeBytes, s, off) /\ (ok => HoldsAt(f, BadgeBytes, s, l, off, BadgeBytes))
  <2>1. /\ PartAt(Filled(z, s, l, off, BadgeBytes), BadgeBytes, s, off)
        /\ HoldsAt(Filled(z, s, l, off, BadgeBytes), BadgeBytes, s, l, off, BadgeBytes)
    <3> HIDE DEF s, l, off
    <3> QED BY <1>1, <1>2, BadgeFilled
  <2> HIDE DEF f, s, l, off
  <2> QED BY <1>2, <1>3, <2>1
<1>7. ASSUME ok, WholeFiles PROVE ByteOff(k) + Width <= l
  <2>1. l >= ShardBytes
    BY <1>1, <1>7 DEF WholeFiles
  <2>2. ByteOff(k) + RowBytes <= ShardBytes /\ ByteOff(k) \in Nat
    BY <1>1, RowPlace
  <2> HIDE DEF l
  <2> QED BY <1>1, <2>1, <2>2, SizesAre
<1>8. PartRow(RowAt(f, k), k)
  <2> HIDE DEF f, k
  <2> QED BY <1>1, <1>6, RowAtIs DEF PartRow, s, off
<1>9. ASSUME ok, WholeFiles PROVE RowAt(f, k) = Row(k)
  <2>1. ByteOff(k) + Width <= l
    BY <1>7, <1>9
  <2> HIDE DEF f, k, l
  <2> QED BY <1>1, <1>6, <1>9, <2>1, RowAtIs DEF s, off
<1> QED BY <1>5, <1>8, <1>9 DEF f, k, z

\* What GroupRead does to the rows.
LEMMA GroupRows ==
  ASSUME GroupTypes, NEW b \in groups, NEW ok \in BOOLEAN, GroupRead(b, ok)
  PROVE  /\ outcome = "gathering" /\ ~PlanLookup /\ groups' = groups \ {b}
         /\ outcome' \in {"gathering", "err", "panic"} /\ (clean' => clean) /\ GroupTypes'
         /\ UNCHANGED <<len, callVars, method, walks, at, plan>>
         /\ \A i \in 1..Len(keys) : out'[i] = out[i] \/
              /\ BadgeKey(keys[i]) = b /\ PartRow(out'[i], keys[i])
              /\ clean' /\ WholeFiles => out'[i] = Row(keys[i])
              /\ method = "plan" => out'[i] = Row(keys[i])
         /\ outcome' = "gathering" => \A i \in 1..Len(keys) : BadgeKey(keys[i]) = b =>
              /\ clean' /\ WholeFiles => out'[i] = Row(keys[i])
              /\ method = "plan" => out'[i] = Row(keys[i])
<1> DEFINE new(i) == RowAt(BadgeRead(Zeros(BadgeBytes), b, ok), keys[i])
<1>1. /\ outcome = "gathering" /\ ~PlanLookup /\ groups' = groups \ {b}
      /\ UNCHANGED <<len, callVars, method, walks, at, plan>>
      /\ CallTypes /\ DOMAIN out = 1..Len(keys)
  BY DEF GroupRead, GroupTypes
<1>2. ASSUME NEW i \in 1..Len(keys), BadgeKey(keys[i]) = b, b[1] \in ShardIds
      PROVE  /\ PartRow(new(i), keys[i])
             /\ ok /\ WholeFiles => new(i) = Row(keys[i])
             /\ ReadsBadge(b, ok) => new(i) = Row(keys[i])
  <2>1. HasFile(keys[i])
    BY <1>2 DEF HasFile, BadgeKey
  <2> QED BY <1>1, <1>2, <2>1, GroupRow
<1>3. \/ outcome' \in {"err", "panic"} /\ out' = out /\ clean' = (clean /\ ok)
      \/ outcome' \in {"err", "panic"} /\ out' = out /\ clean' = clean
      \/ /\ outcome' = "gathering" /\ b[1] \in ShardIds /\ clean' = (clean /\ ok)
         /\ method = "plan" => ReadsBadge(b, ok)
         /\ DOMAIN out' = 1..Len(keys)
         /\ \A i \in 1..Len(keys) :
              out'[i] = IF BadgeKey(keys[i]) = b THEN new(i) ELSE out[i]
  <2> HIDE DEF new
  <2>1. \A i \in 1..Len(keys) : i \in IndexesOf(b) <=> BadgeKey(keys[i]) = b
    BY DEF IndexesOf
  <2>2. CASE b[1] \notin ShardIds
    BY <2>2 DEF GroupRead
  <2>3. CASE b[1] \in ShardIds /\ method = "plan" /\ ~ReadsBadge(b, ok)
    BY <2>3 DEF GroupRead
  <2>4. CASE b[1] \in ShardIds /\ ~(method = "plan" /\ ~ReadsBadge(b, ok))
    <3>1. /\ outcome' = outcome /\ clean' = (clean /\ ok)
          /\ out' = [i \in DOMAIN out |-> IF i \in IndexesOf(b) THEN new(i) ELSE out[i]]
      BY <2>4 DEF GroupRead, new
    <3> QED BY <1>1, <2>1, <2>4, <3>1
  <2> QED BY <2>2, <2>3, <2>4
<1> HIDE DEF new
<1>4. DOMAIN out' = 1..Len(keys) /\ keys' = keys /\ clean' \in BOOLEAN /\ (clean' => clean)
  BY <1>1, <1>3 DEF callVars, CallTypes
<1>5. GroupTypes'
  BY <1>1, <1>3, <1>4 DEF GroupTypes, CallTypes, callVars
<1>6. ASSUME NEW i \in 1..Len(keys)
      PROVE  /\ out'[i] = out[i] \/
                  /\ BadgeKey(keys[i]) = b /\ PartRow(out'[i], keys[i])
                  /\ clean' /\ WholeFiles => out'[i] = Row(keys[i])
                  /\ method = "plan" => out'[i] = Row(keys[i])
             /\ outcome' = "gathering" /\ BadgeKey(keys[i]) = b =>
                  /\ clean' /\ WholeFiles => out'[i] = Row(keys[i])
                  /\ method = "plan" => out'[i] = Row(keys[i])
  <2>1. CASE outcome' \in {"err", "panic"}
    BY <1>1, <1>3, <2>1
  <2>2. CASE outcome' = "gathering"
    <3>1. /\ b[1] \in ShardIds /\ clean' = (clean /\ ok) /\ (method = "plan" => ReadsBadge(b, ok))
          /\ out'[i] = IF BadgeKey(keys[i]) = b THEN new(i) ELSE out[i]
      BY <1>3, <2>2
    <3> QED BY <1>2, <3>1
  <2> QED BY <1>3, <2>1, <2>2
<1> QED BY <1>1, <1>3, <1>4, <1>5, <1>6

\* A row right in part is one that is blank, or right.
LEMMA PartRows ==
  ASSUME NEW k \in Nat
  PROVE  /\ PartRow([x \in 1..Width |-> Zero], k) /\ PartRow(Row(k), k)
<1>1. \A x \in 1..Width : Row(k)[x] = RowOf(k)[x]
  BY RowBytesAre
<1> QED BY <1>1 DEF PartRow

\* The badges of the keys.
LEMMA BadgesOf ==
  ASSUME keys \in Seq(Nat)
  PROVE  ToSet(BadgeKeys(keys)) = {BadgeKey(keys[i]) : i \in 1..Len(keys)}
<1>1. DOMAIN keys = 1..Len(keys) /\ DOMAIN BadgeKeys(keys) = 1..Len(keys)
  BY LenProperties DEF BadgeKeys
<1>2. \A i \in 1..Len(keys) : BadgeKeys(keys)[i] = BadgeKey(keys[i])
  BY <1>1 DEF BadgeKeys
<1> QED BY <1>1, <1>2 DEF ToSet

LEMMA PlannedStart ==
  ASSUME PlannedInv, groups = {}, StartPlanned
  PROVE  PlannedInv'
<1>1. /\ outcome' = "gathering" /\ groups' = ToSet(BadgeKeys(keys))
      /\ UNCHANGED <<len, callVars, out, clean>> /\ CallTypes /\ DOMAIN out = 1..Len(keys)
  BY DEF StartPlanned, PlannedInv, GroupTypes
<1>2. GroupTypes' /\ keys' = keys
  BY <1>1 DEF GroupTypes, CallTypes, callVars
<1>3. \A i \in 1..Len(keys) : BadgeKey(keys[i]) \in groups'
  BY <1>1, BadgesOf DEF CallTypes
<1>4. \A b, r, k, g : Due(b, groups', r, k, g) <=> (b \in groups' \/ (g => r = Row(k)))
  BY DEF Due
<1>5. \A i \in 1..Len(keys) :
        Due(BadgeKey(keys[i]), groups', out'[i], keys[i], clean' /\ WholeFiles')
  BY <1>3, <1>4
<1>6. \A i \in 1..Len(keys) : PartRow(out'[i], keys[i])
  BY <1>1 DEF PlannedInv
<1> QED BY <1>2, <1>5, <1>6 DEF PlannedInv

LEMMA PlannedRead ==
  ASSUME PlannedInv, NEW b \in groups, NEW ok \in BOOLEAN, GroupRead(b, ok)
  PROVE  PlannedInv'
<1>1. GroupTypes
  BY DEF PlannedInv
<1>2. /\ outcome = "gathering" /\ groups' = groups \ {b}
      /\ outcome' \in {"gathering", "err", "panic"} /\ (clean' => clean) /\ GroupTypes'
      /\ UNCHANGED <<len, callVars>>
      /\ \A i \in 1..Len(keys) : out'[i] = out[i] \/
           /\ BadgeKey(keys[i]) = b /\ PartRow(out'[i], keys[i])
           /\ clean' /\ WholeFiles => out'[i] = Row(keys[i])
      /\ outcome' = "gathering" => \A i \in 1..Len(keys) : BadgeKey(keys[i]) = b =>
           (clean' /\ WholeFiles => out'[i] = Row(keys[i]))
  BY <1>1, GroupRows
<1>3. keys' = keys /\ WholeFiles' = WholeFiles
  BY <1>2 DEF callVars, WholeFiles
<1>4. \A i \in 1..Len(keys) : PartRow(out'[i], keys[i])
  BY <1>2 DEF PlannedInv
<1>5. ASSUME outcome' \in {"gathering", "ok"}, NEW i \in 1..Len(keys)
      PROVE  Due(BadgeKey(keys[i]), groups', out'[i], keys[i], clean' /\ WholeFiles)
  <2>1. Due(BadgeKey(keys[i]), groups, out[i], keys[i], clean /\ WholeFiles)
    BY <1>2 DEF PlannedInv
  <2>2. BadgeKey(keys[i]) = b => (clean' /\ WholeFiles => out'[i] = Row(keys[i]))
    BY <1>2, <1>5
  <2>3. BadgeKey(keys[i]) # b => out'[i] = out[i]
    BY <1>2
  <2> QED BY <1>2, <2>1, <2>2, <2>3 DEF Due
<1> QED BY <1>2, <1>3, <1>4, <1>5 DEF PlannedInv

LEMMA GroupsEnd ==
  ASSUME EndGroups, CallTypes
  PROVE  /\ (PlannedInv => PlannedInv') /\ (PlanInv /\ method = "plan" => PlanInv')
         /\ UNCHANGED <<groups, walks, method>>
<1>1. /\ outcome = "gathering" /\ outcome' = "ok" /\ groups = {} /\ ~PlanLookup
      /\ UNCHANGED <<len, callVars, out, clean, groups, walks, method, at, plan>>
  BY DEF EndGroups, badgeVars
<1>2. keys' = keys /\ WholeFiles' = WholeFiles /\ out' = out /\ clean' = clean /\ groups' = groups
      /\ at' = at /\ plan' = plan
  BY <1>1 DEF callVars, WholeFiles
<1>3. GroupTypes => GroupTypes'
  BY <1>1, <1>2 DEF GroupTypes, CallTypes, callVars
<1>4. PlannedInv => PlannedInv'
  BY <1>1, <1>2, <1>3 DEF PlannedInv
<1>5. ASSUME PlanInv, method = "plan" PROVE PlanInv'
  <2>1. at > Len(keys)
    <3>1. at \in Nat /\ Len(keys) \in Nat
      BY <1>5, LenProperties DEF PlanInv, CallTypes
    <3> QED BY <1>1, <1>5, <3>1 DEF PlanLookup
  <2>2. ServedRows'
    BY <1>2, <1>5 DEF PlanInv, ServedRows, PlanServes
  <2> QED BY <1>1, <1>2, <1>3, <1>5, <2>1, <2>2 DEF PlanInv
<1> QED BY <1>1, <1>4, <1>5

\* What gather_planned returns.
LEMMA PlannedAnswer ==
  ASSUME PlannedInv, method = "planned"
  PROVE  /\ BadgeRowsExact
         /\ \A i \in 1..Len(keys), x \in 1..Width : out[i][x] \in {Zero, RowOf(keys[i])[x]}
<1>1. ASSUME Answered, ~Excused PROVE Exact
  <2>1. outcome = "ok" /\ clean /\ WholeFiles /\ groups = {}
    BY <1>1 DEF Answered, Excused, PlannedInv, GroupTypes
  <2>2. \A i \in 1..Len(keys) : out[i] = Row(keys[i])
    BY <2>1 DEF PlannedInv, Due
  <2> QED BY <2>2 DEF Exact, Row
<1>2. \A i \in 1..Len(keys), x \in 1..Width : out[i][x] \in {Zero, RowOf(keys[i])[x]}
  BY DEF PlannedInv, PartRow
<1> QED BY <1>1, <1>2 DEF BadgeRowsExact

-----------------------------------------------------------------------------
LEMMA PlanStream ==
  ASSUME PlanInv, groups = {}, NEW rows \in RowsOfToken, NEW fresh \in BOOLEAN, Stream(rows, fresh)
  PROVE  PlanInv' /\ UNCHANGED <<groups, walks, method>>
<1>1. /\ outcome = "called" /\ keys' = rows /\ out' = [i \in 1..Len(rows) |-> [x \in 1..Width |-> Zero]]
      /\ UNCHANGED <<len, threads, outcome, clean, walks, at, groups, method>>
  BY DEF Stream
<1>2. rows \in Seq(Nat)
  <2>1. rows \in Seq(Keys) /\ Keys \subseteq Nat
    BY BadgeAssumption, GatherAssumption
  <2> QED BY <2>1, SeqWidens
<1>3. GroupTypes'
  BY <1>1, <1>2 DEF PlanInv, GroupTypes, CallTypes
<1>4. at = 1 /\ at' = 1
  BY <1>1 DEF PlanInv
<1>5. ASSUME NEW i \in 1..Len(rows), i < 1 PROVE FALSE
  BY <1>5
<1>6. out' = Blank' /\ ServedRows'
  BY <1>1 DEF Blank, PartRow, ServedRows
<1> QED BY <1>1, <1>3, <1>4, <1>5, <1>6 DEF PlanInv

LEMMA PlanStart ==
  ASSUME PlanInv, StartPlan
  PROVE  PlanInv' /\ UNCHANGED <<groups, walks, method>>
<1>1. /\ outcome = "called" /\ outcome' = "gathering"
      /\ UNCHANGED <<len, callVars, out, clean, walks, at, groups, method>>
  BY DEF StartPlan
<1>2. GroupTypes'
  BY <1>1 DEF PlanInv, GroupTypes, CallTypes, callVars
<1>3. at = 1 /\ at' = 1
  BY <1>1 DEF PlanInv
<1>4. ASSUME NEW i \in 1..Len(keys'), i < 1 PROVE FALSE
  BY <1>4
<1>5. ServedRows'
  <2>1. out' = Blank /\ keys' = keys
    BY <1>1 DEF PlanInv, callVars
  <2>2. \A i \in 1..Len(keys) : PartRow(Blank[i], keys[i])
    BY DEF Blank, PartRow
  <2> QED BY <2>1, <2>2 DEF ServedRows
<1> QED BY <1>1, <1>2, <1>3, <1>4, <1>5 DEF PlanInv

LEMMA PlanPlanned ==
  ASSUME PlanInv, PlannedKey
  PROVE  PlanInv' /\ UNCHANGED <<walks, method>>
<1>1. /\ outcome = "gathering" /\ at <= Len(keys) /\ InPlan(plan, BadgeKey(keys[at]))
      /\ groups' = groups \cup {BadgeKey(keys[at])} /\ at' = at + 1
      /\ UNCHANGED <<len, callVars, out, outcome, clean, walks, plan, method>>
  BY DEF PlannedKey, PlanLookup
<1>2. GroupTypes' /\ at \in Nat /\ keys' = keys
  BY <1>1 DEF PlanInv, GroupTypes, CallTypes, callVars
<1>3. ASSUME NEW i \in 1..Len(keys), i < at'
      PROVE  Looked(keys[i], plan, groups', out[i])
  <2>1. CASE i = at
    BY <1>1, <2>1 DEF Looked
  <2>2. CASE i # at
    <3>1. i < at
      BY <1>1, <1>2, <1>3, <2>2
    <3>2. Looked(keys[i], plan, groups, out[i])
      BY <1>1, <3>1 DEF PlanInv
    <3> QED BY <1>1, <3>2 DEF Looked
  <2> QED BY <2>1, <2>2
<1>4. at' \in Nat
  BY <1>1, <1>2
<1>5. ServedRows'
  BY <1>1, <1>2 DEF PlanInv, PlanServes, ServedRows
<1> QED BY <1>1, <1>2, <1>3, <1>4, <1>5 DEF PlanInv

\* A row of the first shard, read at k * rb.
LEMMA OwnRow ==
  ASSUME NEW k \in Nat, ShardOf(k) = 0, RowBytes = Width, NEW l \in Nat, Whole(l, k * RowBytes, RowBytes)
  PROVE  Slice(Filled(Zeros(RowBytes), ShardOf(k), l, k * RowBytes, RowBytes), 0, RowBytes) = Row(k)
<1>1. LocalRow(k) = k
  <2>1. k = (k \div RowsPerShard) * RowsPerShard + (k % RowsPerShard) /\ k % RowsPerShard \in Nat
    BY SizesAre, DivMod
  <2>2. k \div RowsPerShard = 0
    BY DEF ShardOf
  <2>3. PICK m \in Nat : m = k % RowsPerShard
    BY <2>1
  <2>4. k = 0 * RowsPerShard + m
    BY <2>1, <2>2, <2>3
  <2> QED BY <2>3, <2>4, SizesAre DEF LocalRow
<1>2. ByteOff(k) = k * RowBytes /\ k * RowBytes \in Nat
  BY <1>1, RowPlace
<1> DEFINE o == k * RowBytes
           f == Filled(Zeros(RowBytes), ShardOf(k), l, o, RowBytes)
<1>3. Row(k) = [x \in 1..Width |-> <<ShardOf(k), o + x - 1>>]
  BY <1>2, RowPrefix DEF Row
<1>4. RowBytes \in Nat \ {0} /\ DOMAIN Zeros(RowBytes) = 0..(RowBytes - 1)
  BY SizesAre DEF Zeros
<1>5. f = [x \in 0..(RowBytes - 1) |-> IF x < RowBytes /\ o + x < l THEN <<ShardOf(k), o + x>>
                                        ELSE Zeros(RowBytes)[x]]
  BY <1>4 DEF Filled
<1>6. o + RowBytes <= l /\ o \in Nat
  BY <1>2, <1>4 DEF Whole
<1> HIDE DEF f, o
<1>7. ASSUME NEW x \in 1..Width PROVE f[0 + x - 1] = <<ShardOf(k), o + x - 1>>
  <2>1. 0 + x - 1 \in 0..(RowBytes - 1) /\ 0 + x - 1 < RowBytes /\ o + (0 + x - 1) = o + x - 1
        /\ o + (0 + x - 1) < l
    BY <1>4, <1>6
  <2> QED BY <1>5, <2>1
<1>8. Slice(f, 0, RowBytes) = [x \in 1..Width |-> f[0 + x - 1]]
  BY DEF Slice
<1> QED BY <1>3, <1>7, <1>8 DEF f, o

LEMMA PlanUnplanned ==
  ASSUME PlanInv, NEW ok \in BOOLEAN, UnplannedKey(ok)
  PROVE  PlanInv' /\ UNCHANGED <<groups, walks, method>>
<1> DEFINE k == keys[at]
           off == k * RowBytes
           r == Slice(Filled(Zeros(RowBytes), ShardOf(k), len[ShardOf(k)], off, RowBytes), 0, RowBytes)
<1>1. /\ outcome = "gathering" /\ at <= Len(keys) /\ ~InPlan(plan, BadgeKey(k))
      /\ clean' = (clean /\ ok)
      /\ UNCHANGED <<len, callVars, groups, walks, plan, method>>
  BY DEF UnplannedKey, PlanLookup
<1>2. \/ outcome' \in {"err", "panic"} /\ out' = out /\ at' = at
      \/ /\ outcome' = outcome /\ HasFile(k) /\ Whole(len[ShardOf(k)], off, RowBytes) /\ RowBytes = Width
         /\ out' = [out EXCEPT ![at] = r] /\ at' = at + 1
  BY DEF UnplannedKey
<1>3. CallTypes /\ DOMAIN out = 1..Len(keys) /\ at \in Nat /\ Len(keys) \in Nat
  BY LenProperties DEF PlanInv, GroupTypes, CallTypes
<1>4. DOMAIN out' = 1..Len(keys) /\ keys' = keys /\ at' \in Nat /\ plan' = plan /\ groups' = groups
  BY <1>1, <1>2, <1>3 DEF callVars
<1>5. GroupTypes'
  <2>1. outcome' \in {"called", "gathering", "ok", "err", "panic"} /\ outcome' # "ok"
    BY <1>1, <1>2
  <2>2. CallTypes'
    BY <1>1, <1>3 DEF CallTypes, callVars
  <2> QED BY <1>4, <2>1, <2>2 DEF GroupTypes
<1>6. outcome' \notin {"called", "ok"}
  BY <1>1, <1>2
<1>7. ASSUME NEW i \in 1..Len(keys), i < at'
      PROVE  Looked(keys[i], plan, groups, out'[i])
  <2>1. CASE at' = at /\ out' = out
    BY <1>1, <1>7, <2>1 DEF PlanInv
  <2>2. CASE /\ HasFile(k) /\ Whole(len[ShardOf(k)], off, RowBytes) /\ RowBytes = Width
             /\ out' = [out EXCEPT ![at] = r] /\ at' = at + 1
    <3>1. CASE i = at
      <4>1. out'[i] = r /\ at \in 1..Len(keys)
        BY <1>3, <2>2, <3>1
      <4>2. k \in Nat /\ len[ShardOf(k)] \in Nat
        BY <1>3, <2>2, <4>1, ElementOfSeq DEF HasFile, CallTypes
      <4>3. ShardOf(k) = 0 => r = Row(k)
        <5> HIDE DEF k
        <5> QED BY <2>2, <4>2, OwnRow
      <4> HIDE DEF r
      <4> QED BY <1>1, <3>1, <4>1, <4>3 DEF Looked
    <3>2. CASE i # at
      <4>1. i < at
        BY <1>3, <1>7, <2>2, <3>2
      <4>2. out'[i] = out[i]
        BY <1>3, <2>2, <3>2
      <4> QED BY <1>1, <4>1, <4>2 DEF PlanInv
    <3> QED BY <3>1, <3>2
  <2> HIDE DEF r, k, off
  <2> QED BY <1>2, <2>1, <2>2
<1>8. ASSUME NEW i \in 1..Len(keys), PlanServes(keys[i]) PROVE PartRow(out'[i], keys[i])
  <2>1. PartRow(out[i], keys[i])
    BY <1>8 DEF PlanInv, ServedRows
  <2>2. CASE out'[i] = out[i]
    BY <2>1, <2>2
  <2>3. CASE out'[i] # out[i]
    <3>1. i = at /\ at' = at + 1
      <4> HIDE DEF r
      <4> QED BY <1>2, <1>3, <2>3
    <3>2. Looked(k, plan, groups, out'[i]) /\ ShardOf(k) = 0
      BY <1>1, <1>3, <1>7, <1>8, <3>1 DEF PlanServes
    <3>3. out'[i] = Row(k)
      BY <1>1, <3>2 DEF Looked
    <3>4. k \in Nat
      BY <1>3, <3>1, ElementOfSeq DEF CallTypes
    <3> QED BY <3>1, <3>3, <3>4, PartRows
  <2> QED BY <2>2, <2>3
<1>9. ServedRows'
  BY <1>1, <1>4, <1>8 DEF PlanServes, ServedRows
<1> QED BY <1>1, <1>4, <1>5, <1>6, <1>7, <1>9 DEF PlanInv

LEMMA PlanRead ==
  ASSUME PlanInv, method = "plan", NEW b \in groups, NEW ok \in BOOLEAN, GroupRead(b, ok)
  PROVE  PlanInv'
<1>1. GroupTypes
  BY DEF PlanInv
<1>2. /\ outcome = "gathering" /\ groups' = groups \ {b}
      /\ outcome' \in {"gathering", "err", "panic"} /\ GroupTypes'
      /\ UNCHANGED <<len, callVars, at, plan>>
      /\ \A i \in 1..Len(keys) : out'[i] = out[i] \/
           (BadgeKey(keys[i]) = b /\ out'[i] = Row(keys[i]))
      /\ outcome' = "gathering" => \A i \in 1..Len(keys) : BadgeKey(keys[i]) = b =>
           out'[i] = Row(keys[i])
  BY <1>1, GroupRows
<1>3. keys' = keys /\ at' = at /\ plan' = plan /\ at \in Nat
  BY <1>2 DEF callVars, PlanInv
<1>4. ASSUME outcome' = "gathering", NEW i \in 1..Len(keys), i < at
      PROVE  Looked(keys[i], plan, groups', out'[i])
  <2>1. Looked(keys[i], plan, groups, out[i])
    BY <1>2, <1>4 DEF PlanInv
  <2>2. CASE BadgeKey(keys[i]) = b
    BY <1>2, <1>4, <2>1, <2>2 DEF Looked
  <2>3. CASE BadgeKey(keys[i]) # b
    BY <1>2, <2>1, <2>3 DEF Looked
  <2> QED BY <2>2, <2>3
<1>5. ASSUME NEW i \in 1..Len(keys), PlanServes(keys[i]) PROVE PartRow(out'[i], keys[i])
  <2>1. PartRow(out[i], keys[i])
    BY <1>5 DEF PlanInv, ServedRows
  <2>2. keys[i] \in Nat
    BY <1>1, ElementOfSeq DEF GroupTypes, CallTypes
  <2> QED BY <1>2, <2>1, <2>2, PartRows
<1>6. ServedRows'
  BY <1>3, <1>5 DEF PlanServes, ServedRows
<1> QED BY <1>2, <1>3, <1>4, <1>6 DEF PlanInv

\* What gather_plan returns.
LEMMA PlanAnswer ==
  ASSUME PlanInv, method = "plan"
  PROVE  /\ BadgeRowsExact
         /\ \A i \in 1..Len(keys), x \in 1..Width :
              ~Mixes(keys[i]) => out[i][x] \in {Zero, RowOf(keys[i])[x]}
<1>4. \A i \in 1..Len(keys), x \in 1..Width :
        ~Mixes(keys[i]) => out[i][x] \in {Zero, RowOf(keys[i])[x]}
  BY DEF PlanInv, PartRow, Mixes, ServedRows
<1>1. SUFFICES ASSUME Answered, ~Excused PROVE Exact
  BY <1>4 DEF BadgeRowsExact
<1>2. outcome = "ok" /\ groups = {} /\ at > Len(keys) /\ at \in Nat /\ Len(keys) \in Nat
  BY <1>1, LenProperties DEF Answered, PlanInv, GroupTypes, CallTypes
<1>3. ASSUME NEW i \in 1..Len(keys) PROVE out[i] = Row(keys[i])
  <2>1. Looked(keys[i], plan, groups, out[i])
    BY <1>2 DEF PlanInv
  <2>2. PlanServes(keys[i])
    BY <1>1 DEF Excused, Mixes
  <2> QED BY <1>2, <2>1, <2>2 DEF Looked, PlanServes
<1> QED BY <1>3 DEF Exact, Row

-----------------------------------------------------------------------------
(* All gathers.                                                            *)

\* The invariant of a call: that of its path, and nothing of the other paths.
GatherInv ==
  /\ method \in {"pp", "naive", "parallel", "planned", "plan", "sharded"}
  /\ method \notin Walkers => walks = <<>>
  /\ method \notin {"planned", "plan"} \/ outcome = "called" => groups = {}
  /\ method = "pp" => PpInv
  /\ method \in Walkers => WalksInv
  /\ method = "planned" => PlannedInv
  /\ method = "plan" => PlanInv

-----------------------------------------------------------------------------
LEMMA CallStarts ==
  ASSUME GatherInit
  PROVE  CallTypes /\ DOMAIN out = 1..Len(keys) /\ out = Blank /\ Len(keys) \in Nat
<1>1. PICK n \in 0..MaxKeys : keys \in [1..n -> Keys]
  BY DEF GatherInit, Init
<1>2. n \in Nat /\ keys \in [1..n -> Nat]
  <2>1. MaxKeys \in Nat /\ Keys \subseteq Nat
    BY GatherAssumption
  <2>2. n \in Nat
    BY <2>1
  <2>3. \A i \in 1..n : keys[i] \in Nat
    BY <1>1, <2>1
  <2> QED BY <1>1, <2>2, <2>3
<1>3. keys \in Seq(Nat) /\ Len(keys) \in Nat
  BY <1>2, FunIsSeq
<1>4. len \in [ShardIds -> Nat] /\ threads \in Nat
  BY GatherAssumption DEF GatherInit, Init
<1> QED BY <1>3, <1>4 DEF CallTypes, GatherInit, Init, Blank

LEMMA GatherStarts == ASSUME GatherInit PROVE GatherInv
<1>1. /\ method \in {"pp", "naive", "parallel", "planned", "plan", "sharded"}
      /\ walks = <<>> /\ at = 1 /\ groups = {} /\ outcome = "called" /\ clean = TRUE
      /\ jobs = <<>> /\ results = <<>>
  BY BadgeAssumption DEF GatherInit, Init
<1>2. CallTypes /\ DOMAIN out = 1..Len(keys) /\ out = Blank /\ Len(keys) \in Nat
  BY CallStarts
<1>3. /\ Len(<<>>) = 0 /\ 1..0 = {} /\ <<>> \in Seq(Walk) /\ <<>> \in Seq(Job) /\ <<>> \in Seq(Result)
  OBVIOUS
<1>4. PpInv
  <2>1. PpTypes
    BY <1>1, <1>2, <1>3 DEF PpTypes
  <2>2. 1..Len(jobs) = {} /\ 1..Len(results) = {}
    BY <1>1, <1>3
  <2>3. OwnShardOnly /\ RowsExact /\ Cover
    BY <1>1 DEF OwnShardOnly, RowsExact, Cover
  <2> QED BY <1>1, <1>2, <2>1, <2>2, <2>3 DEF PpInv
<1>5. WalksInv
  <2>1. 1..Len(walks) = {}
    BY <1>1, <1>3
  <2>2. \A i \in 1..Len(keys) : out[i] = Blank[i]
    BY <1>2
  <2> QED BY <1>1, <1>2, <1>3, <2>1, <2>2 DEF WalksInv
<1>6. GroupTypes
  BY <1>1, <1>2 DEF GroupTypes
<1>7. PlannedInv
  <2>1. \A i \in 1..Len(keys) : PartRow(out[i], keys[i])
    BY <1>2 DEF Blank, PartRow
  <2> QED BY <1>1, <1>6, <2>1 DEF PlannedInv
<1>8. PlanInv
  <2>1. ServedRows
    BY <1>2 DEF Blank, PartRow, ServedRows
  <2> QED BY <1>1, <1>2, <1>6, <2>1 DEF PlanInv
<1> QED BY <1>1, <1>4, <1>5, <1>7, <1>8 DEF GatherInv

LEMMA PpKeeps ==
  ASSUME GatherInv, method = "pp", Next, UNCHANGED badgeVars
  PROVE  GatherInv'
<1>1. /\ UNCHANGED <<method, walks, groups>> /\ walks = <<>> /\ groups = {} /\ method' = "pp"
  BY DEF GatherInv, badgeVars, Walkers
<1>2. PpInv'
  <2>1. PpInv
    BY DEF GatherInv
  <2>2. CASE Start
    <3>1. outcome = "called"
      BY <2>2 DEF Start
    <3>2. keys' = keys /\ (keys = <<>> => outcome' = "panic")
      BY <2>2 DEF Start
    <3> QED BY <2>1, <2>2, <3>2, PpStart
  <2>3. ASSUME NEW j \in 1..Len(jobs) PROVE outcome # "called"
    <3>1. jobs # <<>>
      <4>1. Len(<<>>) = 0 /\ 1..0 = {}
        OBVIOUS
      <4> QED BY <4>1
    <3> QED BY <2>1, <3>1 DEF PpInv
  <2>4. CASE \E j \in 1..Len(jobs) : \E pageOk, rowOk \in BOOLEAN : Fetch(j, pageOk, rowOk)
    <3>1. PICK j \in 1..Len(jobs) : \E pageOk, rowOk \in BOOLEAN : Fetch(j, pageOk, rowOk)
      BY <2>4
    <3>2. PICK pageOk \in BOOLEAN, rowOk \in BOOLEAN : Fetch(j, pageOk, rowOk)
      BY <3>1
    <3>3. PpInv'
      BY <2>1, <2>3, <3>2, PpFetch
    <3>4. UNCHANGED <<keys, outcome>>
      BY <3>2 DEF Fetch
    <3> QED BY <2>1, <3>3, <3>4
  <2>5. CASE \E j \in 1..Len(jobs) : FetchNowhere(j)
    <3>1. PICK j \in 1..Len(jobs) : FetchNowhere(j)
      BY <2>5
    <3>2. UNCHANGED <<keys, outcome>>
      BY <3>1 DEF FetchNowhere
    <3> QED BY <2>1, <2>3, <3>1, <3>2, PpNowhere
  <2>6. CASE \E j \in 1..Len(jobs) : Push(j)
    <3>1. PICK j \in 1..Len(jobs) : Push(j)
      BY <2>6
    <3>2. UNCHANGED <<keys, outcome>>
      BY <3>1 DEF Push
    <3> QED BY <2>1, <2>3, <3>1, <3>2, PpPush
  <2>7. CASE \E raised \in BOOLEAN : Return(raised)
    <3>1. PICK raised \in BOOLEAN : Return(raised)
      BY <2>7
    <3>2. PpInv'
      BY <2>1, <3>1, PpReturn
    <3>3. keys' = keys /\ outcome = "gathering"
      BY <3>1 DEF Return
    <3> QED BY <2>1, <3>2, <3>3
  <2> QED BY <2>2, <2>4, <2>5, <2>6, <2>7 DEF Next
<1> QED BY <1>1, <1>2 DEF GatherInv, Walkers

\* A step of a path leaves the method, and what is not of the path.
LEMMA OtherPaths ==
  ASSUME GatherInv, method' = method, method # "pp",
         method \notin Walkers => walks' = walks,
         method \in Walkers => groups' = groups /\ WalksInv',
         outcome' = "called" => groups' = groups /\ outcome = "called",
         method = "planned" => PlannedInv', method = "plan" => PlanInv'
  PROVE  GatherInv'
BY DEF GatherInv, Walkers

LEMMA GatherStep == ASSUME GatherInv, [GatherNext]_allVars PROVE GatherInv'
<1>1. CASE method = "pp" /\ Next /\ UNCHANGED badgeVars
  BY <1>1, PpKeeps
<1>2. CASE StartWalks
  <2>1. method \in Walkers /\ method' = method /\ groups' = groups /\ outcome' = "gathering"
    BY <1>2 DEF StartWalks, Walkers
  <2>2. WalksInv'
    BY <1>2, <2>1, WalksStart DEF GatherInv
  <2> QED BY <2>1, <2>2, OtherPaths DEF Walkers
<1>3. ASSUME NEW j \in 1..Len(walks) PROVE method \in Walkers /\ WalksInv /\ outcome # "called"
  <2>1. walks # <<>>
    <3>1. Len(<<>>) = 0 /\ 1..0 = {}
      OBVIOUS
    <3> QED BY <3>1
  <2> QED BY <2>1 DEF GatherInv, WalksInv
<1>4. CASE \E j \in 1..Len(walks) : WalkHit(j)
  <2>1. PICK j \in 1..Len(walks) : WalkHit(j)
    BY <1>4
  <2>2. method' = method /\ groups' = groups /\ outcome' = outcome
    BY <2>1 DEF WalkHit
  <2>3. WalksInv'
    BY <1>3, <2>1, WalksHit
  <2> QED BY <1>3, <2>1, <2>2, <2>3, OtherPaths DEF Walkers
<1>5. CASE \E j \in 1..Len(walks) : WalkNowhere(j)
  <2>1. PICK j \in 1..Len(walks) : WalkNowhere(j)
    BY <1>5
  <2>2. method' = method /\ groups' = groups /\ outcome' = outcome
    BY <2>1 DEF WalkNowhere
  <2>3. WalksInv'
    BY <1>3, <2>1, WalksNowhere
  <2> QED BY <1>3, <2>1, <2>2, <2>3, OtherPaths DEF Walkers
<1>6. CASE \E j \in 1..Len(walks) : \E ok \in BOOLEAN : WalkRead(j, ok)
  <2>1. PICK j \in 1..Len(walks) : \E ok \in BOOLEAN : WalkRead(j, ok)
    BY <1>6
  <2>2. PICK ok \in BOOLEAN : WalkRead(j, ok)
    BY <2>1
  <2>3. method' = method /\ groups' = groups /\ outcome' = outcome
    BY <2>2 DEF WalkRead
  <2>4. WalksInv'
    BY <1>3, <2>2, WalksRead
  <2> QED BY <1>3, <2>1, <2>3, <2>4, OtherPaths DEF Walkers
<1>7. CASE EndWalks
  <2>1. walks # <<>> /\ method' = method /\ groups' = groups /\ outcome' # "called"
    BY <1>7 DEF EndWalks, badgeVars
  <2>2. method \in Walkers /\ WalksInv
    BY <2>1 DEF GatherInv
  <2>3. WalksInv'
    BY <1>7, <2>2, WalksEnd
  <2> QED BY <2>1, <2>2, <2>3, OtherPaths DEF Walkers
<1>8. CASE StartPlanned
  <2>1. /\ method = "planned" /\ method' = method /\ walks' = walks /\ outcome = "called"
        /\ outcome' = "gathering"
    BY <1>8 DEF StartPlanned
  <2>2. PlannedInv'
    BY <1>8, <2>1, PlannedStart DEF GatherInv
  <2> QED BY <2>1, <2>2, OtherPaths DEF Walkers
<1>9. CASE \E rows \in RowsOfToken, fresh \in BOOLEAN : Stream(rows, fresh)
  <2>1. PICK rows \in RowsOfToken, fresh \in BOOLEAN : Stream(rows, fresh)
    BY <1>9
  <2>2. method = "plan" /\ outcome = "called" /\ outcome' = outcome
    BY <2>1 DEF Stream
  <2>3. groups = {} /\ PlanInv
    BY <2>2 DEF GatherInv
  <2>4. PlanInv' /\ UNCHANGED <<groups, walks, method>>
    BY <2>1, <2>3, PlanStream
  <2> QED BY <2>2, <2>4, OtherPaths DEF Walkers
<1>10. CASE StartPlan
  <2>1. method = "plan" /\ outcome' = "gathering"
    BY <1>10 DEF StartPlan
  <2>2. PlanInv' /\ UNCHANGED <<groups, walks, method>>
    BY <1>10, <2>1, PlanStart DEF GatherInv
  <2> QED BY <2>1, <2>2, OtherPaths DEF Walkers
<1>11. CASE PlannedKey
  <2>1. method = "plan" /\ outcome' = outcome /\ outcome = "gathering"
    BY <1>11 DEF PlannedKey, PlanLookup
  <2>2. PlanInv' /\ UNCHANGED <<walks, method>>
    BY <1>11, <2>1, PlanPlanned DEF GatherInv
  <2> QED BY <2>1, <2>2, OtherPaths DEF Walkers
<1>12. CASE \E ok \in BOOLEAN : UnplannedKey(ok)
  <2>1. PICK ok \in BOOLEAN : UnplannedKey(ok)
    BY <1>12
  <2>2. method = "plan" /\ outcome = "gathering" /\ outcome' # "called"
    BY <2>1 DEF UnplannedKey, PlanLookup
  <2>3. PlanInv' /\ UNCHANGED <<groups, walks, method>>
    BY <2>1, <2>2, PlanUnplanned DEF GatherInv
  <2> QED BY <2>2, <2>3, OtherPaths DEF Walkers
<1>13. CASE \E b \in groups, ok \in BOOLEAN : GroupRead(b, ok)
  <2>1. PICK b \in groups, ok \in BOOLEAN : GroupRead(b, ok)
    BY <1>13
  <2>2. method \in {"planned", "plan"}
    BY <2>1 DEF GatherInv
  <2>3. method' = method /\ walks' = walks /\ outcome' # "called"
    BY <2>1 DEF GroupRead
  <2>4. method = "planned" => PlannedInv'
    BY <2>1, PlannedRead DEF GatherInv
  <2>5. method = "plan" => PlanInv'
    BY <2>1, PlanRead DEF GatherInv
  <2> QED BY <2>2, <2>3, <2>4, <2>5, OtherPaths DEF Walkers
<1>14. CASE EndGroups
  <2>1. method \in {"planned", "plan"} /\ outcome' = "ok"
    BY <1>14 DEF EndGroups
  <2>2. CallTypes
    BY <2>1 DEF GatherInv, PlannedInv, PlanInv, GroupTypes
  <2>3. /\ method = "planned" => PlannedInv'
        /\ method = "plan" => PlanInv'
        /\ UNCHANGED <<groups, walks, method>>
    BY <1>14, <2>2, GroupsEnd DEF GatherInv
  <2> QED BY <2>1, <2>3, OtherPaths DEF Walkers
<1>15. CASE UNCHANGED allVars
  <2>1. /\ UNCHANGED <<len, keys, threads, jobs, results, out, outcome, clean>>
        /\ UNCHANGED <<method, walks, at, groups, plan, tokens>>
    BY <1>15 DEF allVars, vars, badgeVars
  <2>2. CallTypes' = CallTypes /\ Blank' = Blank /\ Good' = Good /\ InTable' = InTable
    BY <2>1 DEF CallTypes, Blank, Good, Full, InTable
  <2>3. PpInv => PpInv'
    BY <2>1, <2>2 DEF PpInv, PpTypes, Cover, OwnShardOnly, RowsExact, TakenFirst, TakenAlone
  <2>4. WalksInv => WalksInv'
    <3>1. Threaded' = Threaded /\ KeysOfWalk' = KeysOfWalk /\ Dirty' = Dirty /\ Sound' = Sound
      BY <2>1, <2>2 DEF Threaded, KeysOfWalk, Dirty, WholeBadges, Sound, OneShard
    <3>2. \A j : FirstOf(j)' = FirstOf(j) /\ LastOf(j)' = LastOf(j)
      BY <2>1, <3>1 DEF FirstOf, LastOf
    <3>3. \A k : Row(k)' = Row(k)
      BY DEF Row
    <3>4. \A w : Ended(w)' = Ended(w)
      BY DEF Ended
    <3> QED BY <2>1, <2>2, <3>1, <3>2, <3>3, <3>4 DEF WalksInv
  <2>5. GroupTypes' = GroupTypes /\ WholeFiles' = WholeFiles
    BY <2>1, <2>2 DEF GroupTypes, WholeFiles
  <2>6. (PlannedInv => PlannedInv') /\ (PlanInv => PlanInv')
    BY <2>1, <2>2, <2>5 DEF PlannedInv, PlanInv, PlanServes, ServedRows
  <2> QED BY <2>1, <2>3, <2>4, <2>6 DEF GatherInv
<1> QED BY <1>1, <1>2, <1>4, <1>5, <1>6, <1>7, <1>8, <1>9, <1>10, <1>11, <1>12, <1>13, <1>14, <1>15
        DEF GatherNext

LEMMA GatherAlways == GatherSpec => []GatherInv
<1>1. GatherInit => GatherInv
  BY GatherStarts
<1>2. GatherInv /\ [GatherNext]_allVars => GatherInv'
  BY GatherStep
<1> QED BY <1>1, <1>2, PTL DEF GatherSpec

\* A call that succeeds, with no error dropped and for keys its path serves,
\* returns the row of every key (batch.rs 123-163, 250-317, store.rs 29-48).
THEOREM RightRows == GatherSpec => []BadgeRowsExact
<1>1. GatherInv => BadgeRowsExact
  <2> SUFFICES ASSUME GatherInv PROVE BadgeRowsExact
    OBVIOUS
  <2>1. CASE method \in Walkers
    BY <2>1, WalksAnswer DEF GatherInv
  <2>2. CASE method = "planned"
    BY <2>2, PlannedAnswer DEF GatherInv
  <2>3. CASE method = "plan"
    BY <2>3, PlanAnswer DEF GatherInv
  <2>4. CASE method = "pp"
    BY <2>4 DEF BadgeRowsExact, Excused
  <2> QED BY <2>1, <2>2, <2>3, <2>4 DEF GatherInv, Walkers
<1> QED BY <1>1, GatherAlways, PTL

\* Whatever fails, a badge-wise path returns for a key bytes of its row or bytes
\* never written, unless it is a key plan or sharded mix up with others (batch.rs
\* 120-163, 250-317, store.rs 29-48), and gather_pp returns bytes of no other shard,
\* for columns of more than one byte in jobs that take keys of one shard.
THEOREM NoForeignRows == GatherSpec => []NeverForeign
<1>1. GatherInv => NeverForeign
  <2> SUFFICES ASSUME GatherInv PROVE NeverForeign
    OBVIOUS
  <2>1. method = "pp" => OwnShardOnly
    BY DEF GatherInv, PpInv
  <2> DEFINE Kept == \A i \in 1..Len(keys), x \in 1..Width :
                       ~Mixes(keys[i]) => out[i][x] \in {Zero, RowOf(keys[i])[x]}
  <2>2. method \in Walkers => Kept
    BY WalksAnswer DEF GatherInv
  <2>3. method = "planned" => Kept
    BY PlannedAnswer DEF GatherInv
  <2>4. method = "plan" => Kept
    BY PlanAnswer DEF GatherInv
  <2> HIDE DEF Kept
  <2>5. method # "pp" => Kept
    BY <2>2, <2>3, <2>4 DEF GatherInv, Walkers
  <2> QED BY <2>1, <2>5 DEF NeverForeign, Kept
<1> QED BY <1>1, GatherAlways, PTL

\* gather_pp returns the rows of its keys when every read succeeds on whole files
\* (batch.rs 165-248): every row if a column is one byte, and the first row of each
\* job whatever it is.
THEOREM RightPpRows == GatherSpec => []PpRowsExact
<1>1. GatherInv => PpRowsExact
  BY DEF GatherInv, PpInv, PpRowsExact
<1> QED BY <1>1, GatherAlways, PTL

-----------------------------------------------------------------------------
(* StreamingPlanner.                                                       *)

Badge == Nat \X Nat

\* q is the end of s.
EndOf(q, s) == Len(q) <= Len(s) /\ \A i \in 1..Len(q) : q[i] = s[Len(s) - Len(q) + i]

\* The window is the end of what was sent, and full once a badge has left it.
PlannerInv ==
  /\ sent \in Seq(Badge) /\ queue \in Seq(Badge)
  /\ NoRepeats(queue) /\ window = ToSet(queue) /\ EndOf(queue, sent)
  /\ Len(queue) <= WindowBadges
  /\ Len(queue) < Len(sent) => Len(queue) = WindowBadges
  /\ SentOnceInWindow

\* The new badges of a token repeat neither the window nor each other.
LEMMA NewBadgesAre ==
  ASSUME NEW rows \in Seq(Nat)
  PROVE  /\ NewBadges(rows) \in Seq(Badge) /\ NoRepeats(NewBadges(rows))
         /\ ToSet(NewBadges(rows)) \cap window = {}
<1> DEFINE badges == BadgeKeys(rows)
           first == {i \in DOMAIN badges :
                       badges[i] \notin window /\ \A j \in 1..(i - 1) : badges[j] # badges[i]}
           places == SortedBy(first, <)
           new == [n \in DOMAIN places |-> badges[places[n]]]
<1>1. NewBadges(rows) = new
  BY DEF NewBadges
<1>2. Len(rows) \in Nat /\ DOMAIN rows = 1..Len(rows)
  BY LenProperties
<1>3. DOMAIN badges = 1..Len(rows) /\ \A i \in 1..Len(rows) : badges[i] \in Badge
  <2>1. \A i \in 1..Len(rows) : badges[i] = BadgeKey(rows[i])
    BY <1>2 DEF BadgeKeys
  <2>2. \A k \in Nat : BadgeKey(k) \in Badge
    BY RowPlace, BadgePlace DEF BadgeKey, Badge
  <2>3. \A i \in 1..Len(rows) : rows[i] \in Nat
    BY ElementOfSeq
  <2> QED BY <1>2, <2>1, <2>2, <2>3 DEF BadgeKeys
<1> HIDE DEF badges
<1>4. first \in SUBSET (1..Len(rows)) /\ first \in SUBSET Nat /\ IsFiniteSet(first)
  <2>1. first \in SUBSET (1..Len(rows)) /\ first \in SUBSET Nat
    BY <1>3
  <2>2. IsFiniteSet(1..Len(rows))
    BY <1>2, FS_Interval
  <2> QED BY <2>1, <2>2, FS_Subset
<1>5. \A i, j \in first : i # j => badges[i] # badges[j] /\ badges[i] \notin window
  <2> SUFFICES ASSUME NEW i \in first, NEW j \in first, i # j
               PROVE  badges[i] # badges[j] /\ badges[i] \notin window
    OBVIOUS
  <2>1. i \in Nat /\ j \in Nat /\ i >= 1 /\ j >= 1
    BY <1>3, <1>4
  <2>2. i < j => i \in 1..(j - 1)
    BY <2>1
  <2>3. j < i => j \in 1..(i - 1)
    BY <2>1
  <2>4. i < j \/ j < i
    BY <2>1
  <2> QED BY <2>2, <2>3, <2>4
<1>6. \A i \in first : badges[i] \notin window
  OBVIOUS
<1> HIDE DEF first
<1>7. PICK s : s = SortedBy(first, <) /\ SortedAs(s, Ascending(first), first)
  BY <1>4, NatsSorted
<1>8. /\ places = s /\ s \in Seq(first) /\ Len(s) \in Nat /\ DOMAIN s = 1..Len(s)
      /\ \A i, j \in 1..Len(s) : i < j <=> <<s[i], s[j]>> \in Ascending(first)
      /\ \A i \in 1..Len(s) : s[i] \in first
  <2>1. s \in Seq(first)
    BY <1>7 DEF SortedAs
  <2> QED BY <1>7, <2>1, LenProperties, ElementOfSeq DEF SortedAs
<1> HIDE DEF places
<1>9. new \in [1..Len(s) -> Badge] /\ \A n \in 1..Len(s) : new[n] = badges[s[n]]
  BY <1>3, <1>4, <1>8
<1>10. new \in Seq(Badge) /\ Len(new) = Len(s)
  BY <1>8, <1>9, FunIsSeq
<1> HIDE DEF new
<1>11. ASSUME NEW i \in 1..Len(s), NEW j \in 1..Len(s), i # j PROVE new[i] # new[j]
  <2>1. s[i] # s[j]
    <3>1. i < j \/ j < i
      BY <1>8, <1>11
    <3>2. \A x, y \in first : <<x, y>> \in Ascending(first) => x # y
      BY <1>4 DEF Ascending
    <3> QED BY <1>8, <3>1, <3>2
  <2> QED BY <1>5, <1>8, <1>9, <2>1
<1>12. ToSet(new) \cap window = {}
  <2>1. ToSet(new) = {new[n] : n \in 1..Len(s)}
    BY <1>10, SetOfSeq
  <2> QED BY <1>6, <1>8, <1>9, <2>1
<1> QED BY <1>1, <1>10, <1>11, <1>12 DEF NoRepeats

\* What advance leaves, when the queue is trimmed by n.
LEMMA Trimmed ==
  ASSUME NEW all \in Seq(Badge), NoRepeats(all), NEW n \in 0..Len(all)
  PROVE  LET q == SubSeq(all, n + 1, Len(all)) IN
         /\ q \in Seq(Badge) /\ Len(q) = Len(all) - n /\ NoRepeats(q)
         /\ \A i \in 1..Len(q) : q[i] = all[n + i]
         /\ ToSet(q) = ToSet(all) \ ToSet(Oldest(all, n))
<1> DEFINE q == SubSeq(all, n + 1, Len(all))
           o == Oldest(all, n)
           m == Len(all) - n
<1>1. Len(all) \in Nat /\ n \in Nat /\ m \in Nat /\ n + m = Len(all) /\ 0 + n = n /\ 0 + 1 = 1 /\ 0 \in Nat
      /\ n <= Len(all)
  BY LenProperties
<1> HIDE DEF m
<1>2. /\ q \in Seq(Badge) /\ Len(q) = m
      /\ \A i \in 1..m : n + i \in 1..Len(all) /\ q[i] = all[n + i]
  <2>1. n + m <= Len(all)
    BY <1>1
  <2>2. /\ SubSeq(all, n + 1, n + m) \in Seq(Badge) /\ Len(SubSeq(all, n + 1, n + m)) = m
        /\ \A i \in 1..m : n + i \in 1..Len(all) /\ SubSeq(all, n + 1, n + m)[i] = all[n + i]
    BY <1>1, <2>1, SliceOf
  <2> QED BY <1>1, <2>2
<1>3. /\ o \in Seq(Badge) /\ Len(o) = n
      /\ \A i \in 1..n : i \in 1..Len(all) /\ o[i] = all[i]
  <2>1. 0 + n <= Len(all)
    BY <1>1
  <2>2. /\ SubSeq(all, 0 + 1, 0 + n) \in Seq(Badge) /\ Len(SubSeq(all, 0 + 1, 0 + n)) = n
        /\ \A i \in 1..n : 0 + i \in 1..Len(all) /\ SubSeq(all, 0 + 1, 0 + n)[i] = all[0 + i]
    BY <1>1, <2>1, SliceOf
  <2>3. \A i \in 1..n : 0 + i = i
    BY <1>1
  <2> QED BY <1>1, <2>2, <2>3 DEF Oldest
<1> HIDE DEF q, o
<1>4. NoRepeats(q)
  <2> SUFFICES ASSUME NEW i \in 1..m, NEW j \in 1..m, i # j PROVE q[i] # q[j]
    BY <1>2 DEF NoRepeats
  <2>1. n + i # n + j
    BY <1>1
  <2> QED BY <1>2, <2>1 DEF NoRepeats
<1>5. /\ ToSet(q) = {q[i] : i \in 1..m} /\ ToSet(o) = {o[i] : i \in 1..n}
      /\ ToSet(all) = {all[i] : i \in 1..Len(all)}
  BY <1>2, <1>3, SetOfSeq
<1>6. ToSet(q) \subseteq ToSet(all) \ ToSet(o)
  <2> SUFFICES ASSUME NEW i \in 1..m PROVE q[i] \in ToSet(all) /\ \A j \in 1..n : q[i] # o[j]
    BY <1>5
  <2>1. \A j \in 1..n : n + i # j
    BY <1>1
  <2>2. n + i \in 1..Len(all) /\ q[i] = all[n + i]
    BY <1>2
  <2>3. ASSUME NEW j \in 1..n PROVE q[i] # o[j]
    BY <1>3, <2>1, <2>2 DEF NoRepeats
  <2> QED BY <1>5, <2>2, <2>3
<1>7. ToSet(all) \ ToSet(o) \subseteq ToSet(q)
  <2> SUFFICES ASSUME NEW i \in 1..Len(all), all[i] \notin ToSet(o) PROVE all[i] \in ToSet(q)
    BY <1>5
  <2>1. ~(i <= n)
    <3>1. i <= n => i \in 1..n
      BY <1>1
    <3> QED BY <1>3, <1>5, <3>1
  <2>2. i - n \in 1..m /\ n + (i - n) = i
    BY <1>1, <2>1
  <2> QED BY <1>2, <1>5, <2>2
<1> QED BY <1>2, <1>4, <1>6, <1>7 DEF q, o, m

\* Two sequences that repeat nothing, and have nothing in common, one after the other.
LEMMA NoRepeatsJoin ==
  ASSUME NEW q \in Seq(Badge), NEW r \in Seq(Badge), NoRepeats(q), NoRepeats(r),
         ToSet(r) \cap ToSet(q) = {}
  PROVE  NoRepeats(q \o r)
<1> DEFINE a == q \o r
<1>1. /\ Len(q) \in Nat /\ Len(r) \in Nat /\ Len(a) = Len(q) + Len(r)
      /\ \A i \in 1..(Len(q) + Len(r)) : a[i] = IF i <= Len(q) THEN q[i] ELSE r[i - Len(q)]
  BY ConcatProperties, LenProperties
<1>2. /\ \A i \in 1..Len(q) : q[i] \in ToSet(q)
      /\ \A i \in 1..Len(r) : r[i] \in ToSet(r)
  BY SetOfSeq
<1> HIDE DEF a
<1>3. ASSUME NEW i \in 1..Len(a), NEW j \in 1..Len(a), i < j PROVE a[i] # a[j]
  <2>1. CASE j <= Len(q)
    <3>1. i \in 1..Len(q) /\ j \in 1..Len(q) /\ a[i] = q[i] /\ a[j] = q[j]
      BY <1>1, <1>3, <2>1
    <3> QED BY <1>3, <3>1 DEF NoRepeats
  <2>2. CASE i > Len(q)
    <3>1. /\ i - Len(q) \in 1..Len(r) /\ j - Len(q) \in 1..Len(r) /\ i - Len(q) # j - Len(q)
          /\ a[i] = r[i - Len(q)] /\ a[j] = r[j - Len(q)]
      BY <1>1, <1>3, <2>2
    <3> QED BY <3>1 DEF NoRepeats
  <2>3. CASE i <= Len(q) /\ j > Len(q)
    <3>1. i \in 1..Len(q) /\ j - Len(q) \in 1..Len(r) /\ a[i] = q[i] /\ a[j] = r[j - Len(q)]
      BY <1>1, <1>3, <2>3
    <3> QED BY <1>2, <3>1
  <2> QED BY <1>1, <2>1, <2>2, <2>3
<1>4. \A i, j \in 1..Len(a) : i # j => i < j \/ j < i
  BY <1>1
<1> QED BY <1>3, <1>4 DEF NoRepeats, a

LEMMA PlannerStep ==
  ASSUME PlannerInv, NEW rows \in Seq(Nat), Advance(rows)
  PROVE  PlannerInv'
<1> DEFINE new == NewBadges(rows)
           all == queue \o new
           n == Surplus(Cardinality(window \cup ToSet(new)))
<1>1. /\ queue' = SubSeq(all, n + 1, Len(all)) /\ sent' = sent \o new
      /\ window' = (window \cup ToSet(new)) \ ToSet(Oldest(all, n))
  BY DEF Advance
<1>2. new \in Seq(Badge) /\ NoRepeats(new) /\ ToSet(new) \cap window = {}
  BY NewBadgesAre
<1> HIDE DEF new
<1>3. /\ sent \in Seq(Badge) /\ queue \in Seq(Badge)
      /\ NoRepeats(queue) /\ window = ToSet(queue) /\ EndOf(queue, sent)
      /\ Len(queue) <= WindowBadges /\ WindowBadges \in Nat
      /\ Len(queue) < Len(sent) => Len(queue) = WindowBadges
      /\ Len(queue) \in Nat /\ Len(sent) \in Nat /\ Len(new) \in Nat
  BY <1>2, WindowAssumption, LenProperties DEF PlannerInv
<1>4. /\ all \in Seq(Badge) /\ NoRepeats(all) /\ ToSet(all) = window \cup ToSet(new)
      /\ Len(all) = Len(queue) + Len(new) /\ Len(all) \in Nat
      /\ \A i \in 1..Len(all) : all[i] = IF i <= Len(queue) THEN queue[i] ELSE new[i - Len(queue)]
  <2>1. all \in Seq(Badge) /\ ToSet(all) = window \cup ToSet(new)
    BY <1>2, <1>3, ConcatSet
  <2>2. NoRepeats(all)
    BY <1>2, <1>3, NoRepeatsJoin
  <2>3. /\ Len(all) = Len(queue) + Len(new)
        /\ \A i \in 1..(Len(queue) + Len(new)) :
             all[i] = IF i <= Len(queue) THEN queue[i] ELSE new[i - Len(queue)]
    BY <1>2, <1>3, ConcatProperties
  <2> QED BY <1>3, <2>1, <2>2, <2>3
<1>5. /\ sent' \in Seq(Badge) /\ Len(sent') = Len(sent) + Len(new)
      /\ \A i \in 1..(Len(sent) + Len(new)) :
           sent'[i] = IF i <= Len(sent) THEN sent[i] ELSE new[i - Len(sent)]
  BY <1>1, <1>2, <1>3, ConcatProperties
<1> HIDE DEF all
<1>6. n = IF Len(all) > WindowBadges THEN Len(all) - WindowBadges ELSE 0
  <2>1. Cardinality(ToSet(all)) = Len(all)
    BY <1>4, DistinctCard
  <2> QED BY <1>4, <2>1 DEF Surplus
<1> HIDE DEF n
<1>7. n \in 0..Len(all) /\ n \in Nat
  BY <1>3, <1>4, <1>6
<1>8. /\ queue' \in Seq(Badge) /\ Len(queue') = Len(all) - n /\ NoRepeats(queue')
      /\ \A i \in 1..Len(queue') : queue'[i] = all[n + i]
      /\ window' = ToSet(queue')
  BY <1>1, <1>4, <1>7, Trimmed
<1>9. /\ Len(queue') <= WindowBadges
      /\ Len(queue') < Len(sent') => Len(queue') = WindowBadges
      /\ Len(queue') \in Nat /\ Len(queue') <= Len(sent')
      /\ Len(queue) <= Len(sent)
  <2>1. Len(queue) <= Len(sent)
    BY <1>3 DEF EndOf
  <2>2. PICK a \in Nat, q \in Nat, w \in Nat, d \in Nat, t \in Nat, c \in Nat :
          /\ a = Len(all) /\ q = Len(queue) /\ w = WindowBadges /\ d = Len(new) /\ t = Len(sent)
          /\ c = n
    BY <1>3, <1>4, <1>7
  <2>3. /\ Len(queue') = a - c /\ Len(sent') = t + d /\ a = q + d /\ c = IF a > w THEN a - w ELSE 0
        /\ q <= t /\ q <= w /\ (q < t => q = w)
    BY <1>3, <1>4, <1>5, <1>6, <1>8, <2>1, <2>2
  <2>4. a - c <= w /\ (a - c < t + d => a - c = w) /\ a - c \in Nat /\ a - c <= t + d
    <3>1. a = q + d /\ (c = IF a > w THEN a - w ELSE 0) /\ q <= t /\ q <= w /\ (q < t => q = w)
      BY <2>3
    <3>2. CASE a > w
      BY <3>1, <3>2
    <3>3. CASE ~(a > w)
      BY <3>1, <3>3
    <3> QED BY <3>2, <3>3
  <2> QED BY <2>1, <2>2, <2>3, <2>4
<1>10. ASSUME NEW i \in 1..Len(all) PROVE all[i] = sent'[Len(sent) - Len(queue) + i]
  <2>1. CASE i <= Len(queue)
    <3>1. i \in 1..Len(queue) /\ all[i] = queue[i]
      BY <1>3, <1>4, <2>1
    <3>2. queue[i] = sent[Len(sent) - Len(queue) + i]
      BY <1>3, <3>1 DEF EndOf
    <3>3. Len(sent) - Len(queue) + i \in 1..(Len(sent) + Len(new)) /\ Len(sent) - Len(queue) + i <= Len(sent)
      BY <1>3, <1>9, <3>1
    <3> QED BY <1>5, <3>1, <3>2, <3>3
  <2>2. CASE i > Len(queue)
    <3>1. all[i] = new[i - Len(queue)]
      BY <1>3, <1>4, <2>2
    <3>2. /\ Len(sent) - Len(queue) + i \in 1..(Len(sent) + Len(new))
          /\ ~(Len(sent) - Len(queue) + i <= Len(sent))
          /\ (Len(sent) - Len(queue) + i) - Len(sent) = i - Len(queue)
      BY <1>3, <1>4, <1>9, <2>2
    <3>3. sent'[Len(sent) - Len(queue) + i] = new[(Len(sent) - Len(queue) + i) - Len(sent)]
      BY <1>5, <3>2
    <3> QED BY <3>1, <3>2, <3>3
  <2> QED BY <1>3, <1>4, <2>1, <2>2
<1>11. EndOf(queue', sent')
  <2> SUFFICES ASSUME NEW i \in 1..Len(queue')
               PROVE  queue'[i] = sent'[Len(sent') - Len(queue') + i]
    BY <1>9 DEF EndOf
  <2>1. n + i \in 1..Len(all) /\ Len(sent) - Len(queue) + (n + i) = Len(sent') - Len(queue') + i
    <3>1. PICK a \in Nat, q \in Nat, d \in Nat, t \in Nat, c \in Nat, l \in Nat :
            /\ a = Len(all) /\ q = Len(queue) /\ d = Len(new) /\ t = Len(sent) /\ c = n /\ l = Len(queue')
      BY <1>3, <1>4, <1>7, <1>9
    <3>2. a = q + d
      BY <1>4, <3>1
    <3>3. Len(sent') = t + d
      BY <1>5, <3>1
    <3>4. l = a - c
      BY <1>8, <3>1
    <3>5. i \in 1..l
      BY <3>1
    <3>6. c + i \in 1..a /\ t - q + (c + i) = (t + d) - l + i
      BY <3>2, <3>4, <3>5
    <3> QED BY <3>1, <3>3, <3>6
  <2> QED BY <1>8, <1>10, <2>1
<1>12. ASSUME NEW m \in 1..Len(sent'), NEW k \in 1..Len(sent'), m < k, sent'[m] = sent'[k]
       PROVE  Cardinality({sent'[i] : i \in (m + 1)..(k - 1)}) >= WindowBadges
  <2>1. CASE k <= Len(sent)
    <3>1. m \in 1..Len(sent) /\ k \in 1..Len(sent) /\ \A i \in (m + 1)..(k - 1) : i \in 1..(Len(sent) + Len(new)) /\ i <= Len(sent)
      BY <1>3, <1>5, <1>12, <2>1
    <3>2. sent[m] = sent[k] /\ \A i \in (m + 1)..(k - 1) : sent'[i] = sent[i]
      BY <1>3, <1>5, <1>12, <3>1
    <3>3. Cardinality({sent[i] : i \in (m + 1)..(k - 1)}) >= WindowBadges
      BY <1>12, <3>1, <3>2 DEF PlannerInv, SentOnceInWindow
    <3>4. {sent'[i] : i \in (m + 1)..(k - 1)} = {sent[i] : i \in (m + 1)..(k - 1)}
      BY <3>2
    <3> QED BY <3>3, <3>4
  <2>2. CASE k > Len(sent)
    <3>1. k - Len(sent) \in 1..Len(new) /\ sent'[k] = new[k - Len(sent)]
      <4>1. PICK t \in Nat, d \in Nat : t = Len(sent) /\ d = Len(new)
        BY <1>3
      <4>2. Len(sent') = t + d /\ \A i \in 1..(t + d) : sent'[i] = IF i <= t THEN sent[i] ELSE new[i - t]
        BY <1>5, <4>1
      <4>3. k \in 1..(t + d) /\ k > t
        BY <2>2, <4>1, <4>2
      <4> QED BY <4>1, <4>2, <4>3
    <3>2. sent'[k] \in ToSet(new) /\ sent'[k] \notin ToSet(queue)
      BY <1>2, <1>3, <3>1, SetOfSeq
    <3>3. m <= Len(sent)
      <4>1. ASSUME m > Len(sent) PROVE FALSE
        <5>1. m - Len(sent) \in 1..Len(new) /\ sent'[m] = new[m - Len(sent)] /\ m - Len(sent) # k - Len(sent)
          BY <1>3, <1>5, <1>12, <4>1
        <5> QED BY <1>2, <1>12, <3>1, <5>1 DEF NoRepeats
      <4> QED BY <1>3, <1>5, <4>1
    <3>4. m <= Len(sent) - Len(queue)
      <4>1. ASSUME m > Len(sent) - Len(queue) PROVE FALSE
        <5>1. /\ m - (Len(sent) - Len(queue)) \in 1..Len(queue)
              /\ Len(sent) - Len(queue) + (m - (Len(sent) - Len(queue))) = m
          BY <1>3, <1>9, <3>3, <4>1
        <5>2. queue[m - (Len(sent) - Len(queue))] = sent[m]
          BY <1>3, <5>1 DEF EndOf
        <5>3. sent'[m] = sent[m]
          BY <1>3, <1>5, <3>3
        <5>4. sent'[m] \in ToSet(queue)
          BY <1>3, <5>1, <5>2, <5>3, SetOfSeq
        <5> QED BY <1>12, <3>2, <5>4
      <4> QED BY <1>3, <4>1
    <3>5. Len(queue) = WindowBadges
      BY <1>3, <1>9, <3>4
    <3> DEFINE T == {sent'[i] : i \in (m + 1)..(k - 1)}
    <3>6. ToSet(queue) \subseteq T
      <4>1. ASSUME NEW i \in 1..Len(queue) PROVE queue[i] \in T
        <5>1. Len(sent) - Len(queue) + i \in (m + 1)..(k - 1) /\ i \in 1..Len(all) /\ i <= Len(queue)
          BY <1>3, <1>4, <1>9, <2>2, <3>4
        <5>2. queue[i] = all[i] /\ all[i] = sent'[Len(sent) - Len(queue) + i]
          BY <1>4, <1>10, <5>1
        <5> QED BY <5>1, <5>2
      <4> HIDE DEF T
      <4>2. ToSet(queue) = {queue[i] : i \in 1..Len(queue)}
        BY <1>3, SetOfSeq
      <4> QED BY <4>1, <4>2
    <3>7. T \subseteq ToSet(sent')
      <4>1. \A i \in (m + 1)..(k - 1) : i \in 1..Len(sent')
        BY <1>3, <1>5
      <4>2. \A i \in 1..Len(sent') : sent'[i] \in ToSet(sent')
        BY <1>5, SetOfSeq
      <4> QED BY <4>1, <4>2
    <3>8. IsFiniteSet(T) /\ Cardinality(T) \in Nat
      <4>1. IsFiniteSet(ToSet(sent'))
        BY <1>5, FiniteElements
      <4> HIDE DEF T
      <4> QED BY <3>7, <4>1, FS_Subset, FS_CardinalityType
    <3>9. Cardinality(ToSet(queue)) = Len(queue)
      BY <1>3, DistinctCard
    <3>10. Cardinality(ToSet(queue)) <= Cardinality(T)
      BY <3>6, <3>8, FS_Subset
    <3> HIDE DEF T
    <3>11. Cardinality(T) >= WindowBadges
      BY <1>3, <3>5, <3>8, <3>9, <3>10
    <3> QED BY <3>11 DEF T
  <2> QED BY <1>3, <1>5, <2>1, <2>2
<1> QED BY <1>5, <1>8, <1>9, <1>11, <1>12 DEF PlannerInv, SentOnceInWindow

LEMMA PlannerAlways == GatherSpec => []PlannerInv
<1>1. ASSUME GatherInit PROVE PlannerInv
  <2>1. queue = <<>> /\ window = {} /\ sent = <<>>
    BY <1>1 DEF GatherInit, PlannerInit
  <2>2. <<>> \in Seq(Badge) /\ Len(<<>>) = 0 /\ 1..0 = {}
    OBVIOUS
  <2>3. ToSet(<<>>) = {}
    BY DEF ToSet
  <2> QED BY <2>1, <2>2, <2>3, WindowAssumption DEF PlannerInv, NoRepeats, EndOf, SentOnceInWindow
<1>2. ASSUME PlannerInv, [GatherNext]_allVars PROVE PlannerInv'
  <2>1. CASE \E rows \in RowsOfToken, fresh \in BOOLEAN : Stream(rows, fresh)
    <3>1. PICK rows \in RowsOfToken, fresh \in BOOLEAN : Stream(rows, fresh)
      BY <2>1
    <3>2. Advance(rows)
      BY <3>1 DEF Stream
    <3>3. rows \in Seq(Nat)
      <4>1. rows \in Seq(Keys) /\ Keys \subseteq Nat
        BY BadgeAssumption, GatherAssumption
      <4> QED BY <4>1, SeqWidens
    <3> QED BY <1>2, <3>2, <3>3, PlannerStep
  <2>2. CASE UNCHANGED <<queue, window, sent>>
    BY <1>2, <2>2 DEF PlannerInv, SentOnceInWindow
  <2>3. UNCHANGED <<queue, window, sent>> \/ \E rows \in RowsOfToken, fresh \in BOOLEAN : Stream(rows, fresh)
    BY <1>2 DEF GatherNext, allVars, badgeVars, plannerVars, StartWalks, WalkHit, WalkRead, WalkNowhere,
       EndWalks, StartPlanned, StartPlan, PlannedKey, UnplannedKey, GroupRead, EndGroups
  <2> QED BY <2>1, <2>2, <2>3
<1> QED BY <1>1, <1>2, PTL DEF GatherSpec

\* What the planner sends is right from call to call: no badge twice within the
\* window (planner.rs 32-53).
THEOREM SentOnce == GatherSpec => []SentOnceInWindow
<1>1. PlannerInv => SentOnceInWindow
  BY DEF PlannerInv
<1> QED BY <1>1, PlannerAlways, PTL

-----------------------------------------------------------------------------
(* The io_uring ring.                                                      *)

Reads       == [call : Nat, slot : Nat, data : Int, from : Int, n : Int]
Completions == [data : Int, res : Int]

RingTypes ==
  /\ kind \in {"many", "at", "exact", "pages"} /\ kinds \in Rings
  /\ pc \in {"idle", "push", "submit", "wait", "reap"}
  /\ failed \in BOOLEAN
  /\ sq \in Seq(Reads) /\ flight \subseteq Reads /\ IsFiniteSet(flight)
  /\ cq \in Seq(Completions)
  /\ id \in Nat /\ start \in Nat /\ left \in Nat /\ done \in Int
  /\ buf \in Seq(SUBSET Int)

\* The parts of a call that the count of its completions depends on.
ChunkInv ==
  pc # "idle" =>
    /\ start < Len(buf)
    /\ kind \in {"at", "exact"} => Len(buf) = 1
    /\ pc = "reap" /\ kind \in {"at", "exact"} => left = 1

\* What is in the ring.
InRing == Cardinality(flight) + Len(cq)

\* Until a call fails the ring holds what the running call still awaits.
CountInv ==
  ~failed =>
    /\ pc # "submit" => sq = <<>>
    /\ pc \in {"idle", "push", "submit"} => flight = {} /\ cq = <<>>
    /\ pc = "submit" => /\ Len(sq) = RingChunk
                        /\ \A i, j \in 1..Len(sq) : i # j => sq[i] # sq[j]
    /\ pc = "wait" => InRing = RingChunk
    /\ pc = "reap" => InRing = left

RingInv == RingTypes /\ ChunkInv /\ CountInv

\* A chunk is not empty, and fits into the queue.
LEMMA ChunkSize ==
  ASSUME RingTypes, start < Len(buf)
  PROVE  RingChunk \in 1..Depth
BY RingAssumption DEF RingTypes, RingChunk

LEMMA RingStart == RingInit => RingInv
<1> SUFFICES ASSUME RingInit PROVE RingInv
  OBVIOUS
<1>1. RingTypes
  <2>1. kind \in {"many", "at", "exact", "pages"}
    BY DEF RingInit, Rings
  <2>2. IsFiniteSet(flight) /\ flight \subseteq Reads
    BY FS_EmptySet DEF RingInit
  <2>3. sq \in Seq(Reads) /\ cq \in Seq(Completions) /\ buf \in Seq(SUBSET Int)
    BY EmptySeq DEF RingInit
  <2>4. kinds \in Rings /\ pc = "idle" /\ failed \in BOOLEAN
    BY DEF RingInit
  <2>5. id \in Nat /\ start \in Nat /\ left \in Nat /\ done \in Int
    BY DEF RingInit
  <2> QED BY <2>1, <2>2, <2>3, <2>4, <2>5 DEF RingTypes
<1>2. ChunkInv /\ CountInv
  BY DEF RingInit, ChunkInv, CountInv
<1> QED BY <1>1, <1>2 DEF RingInv

\* A call that ends with an error asks nothing of the ring.
LEMMA FailureKeeps ==
  ASSUME RingTypes', pc' = "idle", failed'
  PROVE  RingInv'
BY DEF RingInv, ChunkInv, CountInv

-----------------------------------------------------------------------------
LEMMA BeginKeeps ==
  ASSUME RingInv, NEW k \in kinds, NEW n \in 0..MaxReads, Begin(k, n)
  PROVE  RingInv'
<1>1. RingTypes /\ CountInv /\ pc = "idle"
  BY DEF RingInv, Begin
<1>2. n \in Nat
  BY RingAssumption
<1>3. buf' = [i \in 1..n |-> {}] /\ buf' \in Seq(SUBSET Int) /\ Len(buf') = n
  BY <1>2 DEF Begin
<1>4. kind' \in {"many", "at", "exact", "pages"} /\ (kind' \in {"at", "exact"} => n = 1)
  BY <1>1 DEF Begin, RingTypes, Rings
<1>5. UNCHANGED <<kinds, sq, flight, cq>> /\ start' = 0 /\ left' = 0 /\ done' = 0 /\ id' = id + 1
  BY DEF Begin, ring
<1>6. CASE n = 0
  <2>1. pc' = "idle" /\ failed' = failed
    BY <1>1, <1>6 DEF Begin, RingReturn, RingTypes
  <2>2. RingTypes'
    BY <1>1, <1>3, <1>4, <1>5, <2>1 DEF RingTypes
  <2>3. ChunkInv' /\ CountInv'
    BY <1>1, <1>5, <2>1 DEF ChunkInv, CountInv
  <2> QED BY <2>2, <2>3 DEF RingInv
<1>7. CASE n # 0
  <2>1. pc' = "push" /\ failed' = failed
    BY <1>7 DEF Begin
  <2>2. RingTypes'
    BY <1>1, <1>3, <1>4, <1>5, <2>1 DEF RingTypes
  <2>3. ChunkInv'
    BY <1>2, <1>3, <1>4, <1>5, <1>7, <2>1 DEF ChunkInv
  <2>4. CountInv'
    BY <1>1, <1>5, <2>1 DEF CountInv
  <2> QED BY <2>2, <2>3, <2>4 DEF RingInv
<1> QED BY <1>6, <1>7

\* The reads of the chunk differ in their buffers.
LEMMA PushKeeps == ASSUME RingInv, RingPush PROVE RingInv'
<1> DEFINE room == Depth - Len(sq)
           upto == IF RingChunk < room THEN RingChunk ELSE room
<1>1. RingTypes /\ ChunkInv /\ CountInv /\ pc = "push" /\ start < Len(buf)
  BY DEF RingInv, RingPush, ChunkInv
<1>2. RingChunk \in 1..Depth
  BY <1>1, ChunkSize
<1>3. UNCHANGED <<kinds, flight, cq, id, kind, start, left, done, buf>>
  BY DEF RingPush, call
<1>4. sq' = sq \o SubSeq(Sqes, 1, upto)
  BY DEF RingPush
<1>5. Len(sq) \in Nat /\ room \in Int /\ upto \in Int /\ upto <= RingChunk
  BY <1>1, <1>2, RingAssumption DEF RingTypes
<1>6. /\ \A i \in 1..RingChunk : Sqes[i] \in Reads /\ Sqes[i].slot = start + i
  BY <1>1, <1>2, RingAssumption DEF Sqes, Reads, Rest, RingTypes
<1> HIDE DEF upto
<1>7. /\ SubSeq(Sqes, 1, upto) \in Seq(Reads)
      /\ Len(SubSeq(Sqes, 1, upto)) = IF 1 <= upto THEN upto ELSE 0
      /\ \A i \in 1..upto : SubSeq(Sqes, 1, upto)[i] = Sqes[i]
  <2>1. \A i \in 1..upto : Sqes[i] \in Reads
    BY <1>2, <1>5, <1>6
  <2>2. /\ SubSeq(Sqes, 1, upto) \in Seq(Reads)
        /\ Len(SubSeq(Sqes, 1, upto)) = IF 1 <= upto THEN upto - 1 + 1 ELSE 0
        /\ \A i \in 1..(upto - 1 + 1) : SubSeq(Sqes, 1, upto)[i] = Sqes[1 + i - 1]
    BY <1>5, <2>1, SubSeqProperties
  <2> QED BY <1>5, <2>2
<1>8. sq' \in Seq(Reads)
  BY <1>1, <1>4, <1>7, ConcatProperties DEF RingTypes
<1>9. CASE RingChunk <= room
  <2>1. pc' = "submit" /\ failed' = failed
    BY <1>9 DEF RingPush
  <2>2. RingTypes'
    BY <1>1, <1>3, <1>8, <2>1 DEF RingTypes
  <2>3. ChunkInv'
    BY <1>1, <1>3, <2>1 DEF ChunkInv
  <2>4. CountInv'
    <3> SUFFICES ASSUME ~failed PROVE CountInv'
      BY <2>1 DEF CountInv
    <3>1. sq = <<>> /\ flight = {} /\ cq = <<>>
      BY <1>1 DEF CountInv
    <3>2. upto = RingChunk
      BY <1>2, <1>5, <1>9 DEF upto
    <3>3. sq' = SubSeq(Sqes, 1, upto)
      BY <1>4, <1>7, <3>1, ConcatEmptySeq
    <3>4. Len(sq') = RingChunk /\ \A i \in 1..Len(sq') : sq'[i].slot = start + i
      BY <1>2, <1>6, <1>7, <3>2, <3>3
    <3>5. \A i, j \in 1..Len(sq') : i # j => sq'[i] # sq'[j]
      <4> SUFFICES ASSUME NEW i \in 1..Len(sq'), NEW j \in 1..Len(sq'), i # j
                   PROVE  sq'[i] # sq'[j]
        OBVIOUS
      <4>1. sq'[i].slot = start + i /\ sq'[j].slot = start + j /\ start \in Nat
        BY <1>1, <3>4 DEF RingTypes
      <4>2. i \in Int /\ j \in Int
        BY <1>2, <3>4
      <4>3. sq'[i].slot # sq'[j].slot
        BY <4>1, <4>2
      <4> QED BY <4>3
    <3>6. RingChunk' = RingChunk
      BY <1>3 DEF RingChunk
    <3> QED BY <1>3, <2>1, <3>1, <3>4, <3>5, <3>6 DEF CountInv
  <2> QED BY <2>2, <2>3, <2>4 DEF RingInv
<1>10. CASE ~(RingChunk <= room)
  <2>1. pc' = "idle" /\ failed'
    BY <1>10 DEF RingPush, RingReturn
  <2>2. failed' \in BOOLEAN
    BY <1>1, <1>10 DEF RingPush, RingReturn, RingTypes
  <2>3. RingTypes'
    BY <1>1, <1>3, <1>8, <2>1, <2>2 DEF RingTypes
  <2> QED BY <2>1, <2>3, FailureKeeps
<1> QED BY <1>9, <1>10

LEMMA SubmitKeeps == ASSUME RingInv, NEW ok \in BOOLEAN, Submit(ok) PROVE RingInv'
<1>1. RingTypes /\ ChunkInv /\ CountInv /\ pc = "submit"
  BY DEF RingInv, Submit
<1>2. UNCHANGED <<kinds, cq, id, kind, start, left, done, buf>>
  BY DEF Submit, call
<1>3. CASE ok
  <2>1. flight' = flight \cup ToSet(sq) /\ sq' = <<>> /\ pc' = "wait" /\ failed' = failed
    BY <1>3 DEF Submit
  <2>2. ToSet(sq) \subseteq Reads /\ IsFiniteSet(ToSet(sq))
    <3>1. sq \in [1..Len(sq) -> Reads] /\ Len(sq) \in Nat /\ DOMAIN sq = 1..Len(sq)
      BY <1>1, LenProperties DEF RingTypes
    <3>2. sq \in Surjection(1..Len(sq), ToSet(sq))
      BY <3>1 DEF Surjection, ToSet
    <3>3. IsFiniteSet(1..Len(sq))
      BY <3>1, FS_Interval
    <3>4. IsFiniteSet(ToSet(sq))
      BY <3>2, <3>3, FS_Surjection
    <3> QED BY <3>1, <3>4 DEF ToSet
  <2>3. IsFiniteSet(flight')
    BY <1>1, <2>1, <2>2, FS_Union DEF RingTypes
  <2>4. RingTypes'
    BY <1>1, <1>2, <2>1, <2>2, <2>3 DEF RingTypes
  <2>5. ChunkInv'
    BY <1>1, <1>2, <2>1 DEF ChunkInv
  <2>6. CountInv'
    <3> SUFFICES ASSUME ~failed PROVE CountInv'
      BY <2>1 DEF CountInv
    <3>1. flight = {} /\ cq = <<>> /\ Len(sq) = RingChunk
          /\ \A i, j \in 1..Len(sq) : i # j => sq[i] # sq[j]
      BY <1>1 DEF CountInv
    <3>2. Cardinality(ToSet(sq)) = Len(sq) /\ Len(sq) \in Nat
      BY <1>1, <3>1, DistinctCard DEF RingTypes, NoRepeats
    <3>3. flight' = ToSet(sq) /\ Len(cq') = 0
      BY <1>2, <2>1, <3>1
    <3>4. InRing' = RingChunk
      BY <3>1, <3>2, <3>3 DEF InRing
    <3>5. RingChunk' = RingChunk
      BY <1>2 DEF RingChunk
    <3> QED BY <2>1, <3>4, <3>5 DEF CountInv
  <2> QED BY <2>4, <2>5, <2>6 DEF RingInv
<1>4. CASE ~ok
  <2>1. pc' = "idle" /\ failed' /\ failed' \in BOOLEAN /\ UNCHANGED <<sq, flight>>
    BY <1>1, <1>4 DEF Submit, RingReturn, RingTypes
  <2>2. RingTypes'
    BY <1>1, <1>2, <2>1 DEF RingTypes
  <2> QED BY <2>1, <2>2, FailureKeeps
<1> QED BY <1>3, <1>4

\* A read turns into a completion.
LEMMA KernelKeeps == ASSUME RingInv, Kernel PROVE RingInv'
<1>1. RingTypes /\ ChunkInv /\ CountInv
  BY DEF RingInv
<1>2. PICK x \in flight : \E res \in {-1} \cup 0..x.n : Complete(x, res)
  BY DEF Kernel
<1>3. PICK res \in {-1} \cup 0..x.n : Complete(x, res)
  BY <1>2
<1>4. x \in Reads /\ res \in Int /\ [data |-> x.data, res |-> res] \in Completions
  BY <1>1 DEF RingTypes, Reads, Completions
<1>5. /\ UNCHANGED <<kinds, sq, id, kind, pc, start, left, done, failed>>
      /\ flight' = flight \ {x} /\ cq' = Append(cq, [data |-> x.data, res |-> res])
  BY <1>3 DEF Complete
<1>6. buf' \in Seq(SUBSET Int) /\ Len(buf') = Len(buf)
  <2>1. buf \in Seq(SUBSET Int)
    BY <1>1 DEF RingTypes
  <2>2. CASE buf' = buf
    BY <2>1, <2>2
  <2>3. CASE buf' = [buf EXCEPT ![x.slot] = @ \cup x.from..(x.from + res - 1)]
    <3> DEFINE new == buf[x.slot] \cup x.from..(x.from + res - 1)
    <3>1. CASE x.slot \in 1..Len(buf)
      <4>1. new \in SUBSET Int
        BY <1>4, <2>1, <3>1 DEF Reads
      <4>2. buf' = [buf EXCEPT ![x.slot] = new]
        BY <2>3
      <4> HIDE DEF new
      <4> QED BY <2>1, <3>1, <4>1, <4>2, ExceptSeq
    <3>2. CASE x.slot \notin 1..Len(buf)
      <4>1. DOMAIN buf = 1..Len(buf) /\ buf = [i \in DOMAIN buf |-> buf[i]]
        BY <2>1, LenProperties
      <4>2. buf' = buf
        BY <2>3, <3>2, <4>1
      <4> QED BY <2>1, <4>2
    <3> QED BY <3>1, <3>2
  <2> QED BY <1>3, <2>2, <2>3 DEF Complete
<1>7. IsFiniteSet(flight') /\ Cardinality(flight') = Cardinality(flight) - 1
      /\ Cardinality(flight) \in Nat
  BY <1>1, <1>2, <1>5, FS_RemoveElement, FS_CardinalityType DEF RingTypes
<1>8. cq' \in Seq(Completions) /\ Len(cq') = Len(cq) + 1 /\ Len(cq) \in Nat
  BY <1>1, <1>4, <1>5, AppendProperties, LenProperties DEF RingTypes
<1>9. RingTypes'
  BY <1>1, <1>5, <1>6, <1>7, <1>8 DEF RingTypes
<1>10. ChunkInv'
  BY <1>1, <1>5, <1>6 DEF ChunkInv
<1>11. InRing' = InRing /\ RingChunk' = RingChunk
  BY <1>5, <1>6, <1>7, <1>8 DEF InRing, RingChunk
<1>12. CountInv'
  BY <1>1, <1>2, <1>5, <1>11 DEF CountInv
<1> QED BY <1>9, <1>10, <1>12 DEF RingInv

\* The wait ends, with the completions or without.
LEMMA WaitKeeps == ASSUME RingInv, Woken \/ Interrupted PROVE RingInv'
<1>1. RingTypes /\ ChunkInv /\ CountInv /\ pc = "wait" /\ start < Len(buf)
  BY DEF RingInv, Woken, Interrupted, ChunkInv
<1>2. /\ UNCHANGED <<kinds, sq, flight, cq, id, kind, start, done, buf, failed>>
      /\ pc' = "reap" /\ left' = RingChunk
  BY DEF Woken, Interrupted, Reap, ring
<1>3. RingChunk \in 1..Depth
  BY <1>1, ChunkSize
<1>4. RingTypes'
  BY <1>1, <1>2, <1>3, RingAssumption DEF RingTypes
<1>5. ChunkInv'
  <2>1. kind \in {"at", "exact"} => RingChunk = 1
    <3> SUFFICES ASSUME kind \in {"at", "exact"} PROVE RingChunk = 1
      OBVIOUS
    <3>1. Len(buf) = 1 /\ start < 1 /\ start \in Nat
      BY <1>1 DEF ChunkInv, RingTypes
    <3>2. start = 0
      BY <3>1
    <3> QED BY <3>1, <3>2, RingAssumption DEF RingChunk
  <2> QED BY <1>1, <1>2, <2>1 DEF ChunkInv
<1>6. CountInv'
  BY <1>1, <1>2 DEF CountInv, InRing
<1> QED BY <1>4, <1>5, <1>6 DEF RingInv

-----------------------------------------------------------------------------
(* Completions are taken one at a time.                                    *)

\* A step that takes a completion and goes on within its chunk, to the next chunk,
\* to the rest of the read, or returns.
LEMMA TakenKeeps ==
  ASSUME RingInv, pc = "reap", cq # <<>>, Taken, failed' \in BOOLEAN,
         buf' = buf, start' \in Nat, done' \in Int, left' \in Nat,
         pc' \in {"idle", "push", "reap"},
         ~failed' => ~failed,
         pc' = "push" => start' < Len(buf),
         pc' = "reap" => kind = "many" \/ kind = "pages",
         pc' = "reap" => start' = start /\ left' = left - 1,
         pc' # "reap" /\ ~failed' => left <= 1
  PROVE  RingInv'
<1>1. RingTypes /\ ChunkInv /\ CountInv
  BY DEF RingInv
<1>2. cq' = Tail(cq) /\ UNCHANGED <<kinds, sq, flight, id, kind>>
  BY DEF Taken
<1>3. cq' \in Seq(Completions) /\ Len(cq') = Len(cq) - 1 /\ Len(cq) \in Nat \ {0}
  BY <1>1, <1>2, HeadTailProperties, EmptySeq DEF RingTypes
<1>4. Cardinality(flight) \in Nat
  BY <1>1, FS_CardinalityType DEF RingTypes
<1>5. RingTypes'
  BY <1>1, <1>2, <1>3 DEF RingTypes
<1>6. ChunkInv'
  BY <1>1, <1>2 DEF ChunkInv
<1>7. CountInv'
  <2> SUFFICES ASSUME ~failed' PROVE CountInv'
    BY DEF CountInv
  <2>1. sq = <<>> /\ Cardinality(flight) + Len(cq) = left /\ left \in Nat
    BY <1>1 DEF CountInv, InRing, RingTypes
  <2>2. CASE pc' = "reap"
    <3>1. InRing' = left'
      BY <1>2, <1>3, <1>4, <2>1, <2>2 DEF InRing
    <3> QED BY <1>2, <2>1, <2>2, <3>1 DEF CountInv
  <2>3. CASE pc' # "reap"
    <3>1. left <= 1
      BY <2>3
    <3>2. Cardinality(flight) = 0 /\ Len(cq') = 0
      BY <1>3, <1>4, <2>1, <3>1
    <3>3. flight' = {} /\ cq' = <<>>
      BY <1>1, <1>2, <1>3, <3>2, FS_EmptySet, EmptySeq DEF RingTypes
    <3> QED BY <1>2, <2>1, <2>3, <3>3 DEF CountInv
  <2> QED BY <2>2, <2>3
<1> QED BY <1>5, <1>6, <1>7 DEF RingInv

\* An error or a panic.
LEMMA RefuseKeeps ==
  ASSUME RingInv, pc = "reap", cq # <<>>, NEW result \in {"err", "panic"}, Refuse(result)
  PROVE  RingInv'
<1>1. RingTypes
  BY DEF RingInv
<1>2. Taken /\ failed' /\ failed' \in BOOLEAN /\ pc' = "idle" /\ UNCHANGED <<start, left, done, buf>>
  BY <1>1 DEF Refuse, RingReturn, RingTypes
<1>3. cq' \in Seq(Completions)
  BY <1>1, <1>2, HeadTailProperties DEF RingTypes, Taken
<1>4. RingTypes'
  BY <1>1, <1>2, <1>3 DEF RingTypes, Taken
<1> QED BY <1>2, <1>4, FailureKeeps

\* The next completion, the next chunk, or the end.
LEMMA NextChunkKeeps ==
  ASSUME RingInv, pc = "reap", cq # <<>>, kind \in {"many", "pages"}, Taken, NextChunk, buf' = buf
  PROVE  RingInv'
<1>1. RingTypes /\ ChunkInv /\ start < Len(buf) /\ start \in Nat /\ left \in Nat /\ failed \in BOOLEAN
  BY DEF RingInv, ChunkInv, RingTypes
<1>2. done' \in Int
  BY <1>1 DEF NextChunk, RingTypes
<1>3. CASE More
  <2>1. left' = left - 1 /\ left > 1 /\ UNCHANGED <<pc, start, failed>>
    BY <1>3 DEF NextChunk, More
  <2>2. left' \in Nat /\ start' \in Nat /\ pc' = "reap" /\ failed' \in BOOLEAN
    BY <1>1, <2>1
  <2> QED BY <1>2, <2>1, <2>2, TakenKeeps
<1>4. CASE ~More
  <2>1. left' = 0 /\ start' = start + RingChunk /\ left <= 1
    BY <1>1, <1>4 DEF NextChunk, More
  <2>2. start' \in Nat
    BY <1>1, <2>1, ChunkSize
  <2>3. CASE start' < Len(buf)
    <3>1. pc' = "push" /\ failed' = failed
      BY <1>4, <2>3 DEF NextChunk
    <3> QED BY <1>1, <1>2, <2>1, <2>2, <2>3, <3>1, TakenKeeps
  <2>4. CASE ~(start' < Len(buf))
    <3>1. pc' = "idle" /\ failed' = failed
      BY <1>1, <1>4, <2>4 DEF NextChunk, RingReturn
    <3> QED BY <1>1, <1>2, <2>1, <2>2, <3>1, TakenKeeps
  <2> QED BY <2>3, <2>4
<1> QED BY <1>3, <1>4

LEMMA ReapKeeps ==
  ASSUME RingInv, NoCompletion \/ ReapMany \/ ReapPage \/ ReapAt \/ ReapExact
  PROVE  RingInv'
<1>1. RingTypes /\ ChunkInv /\ pc = "reap" /\ failed \in BOOLEAN
  BY DEF RingInv, RingTypes, NoCompletion, ReapMany, ReapPage, ReapAt, ReapExact
<1>2. start \in Nat /\ left \in Nat /\ done \in Int /\ start < Len(buf)
  BY <1>1 DEF RingTypes, ChunkInv
<1>3. CASE NoCompletion
  <2>1. pc' = "idle" /\ failed' /\ failed' \in BOOLEAN
    BY <1>1, <1>3 DEF NoCompletion, RingReturn
  <2>2. RingTypes'
    BY <1>1, <1>3, <2>1 DEF RingTypes, NoCompletion, ring, call
  <2> QED BY <2>1, <2>2, FailureKeeps
<1>4. CASE ReapMany
  <2>1. cq # <<>> /\ kind = "many"
    BY <1>4 DEF ReapMany
  <2>2. Refuse("err") \/ (Taken /\ NextChunk /\ buf' = buf)
    BY <1>4 DEF ReapMany
  <2> QED BY <1>1, <2>1, <2>2, RefuseKeeps, NextChunkKeeps
<1>5. CASE ReapPage
  <2>1. cq # <<>> /\ kind = "pages"
    BY <1>5 DEF ReapPage
  <2>2. Refuse("err") \/ Refuse("panic") \/ (Taken /\ NextChunk /\ buf' = buf)
    BY <1>5 DEF ReapPage
  <2> QED BY <1>1, <2>1, <2>2, RefuseKeeps, NextChunkKeeps
<1>6. CASE ReapAt
  <2>1. cq # <<>> /\ kind = "at" /\ left = 1
    BY <1>1, <1>6 DEF ReapAt, ChunkInv
  <2>2. CASE Refuse("err")
    BY <1>1, <2>1, <2>2, RefuseKeeps
  <2>3. CASE Taken /\ RingReturn("ok") /\ UNCHANGED <<start, left, done, buf>>
    <3>1. pc' = "idle" /\ failed' = failed
      BY <1>1, <2>3 DEF RingReturn
    <3> QED BY <1>1, <1>2, <2>1, <2>3, <3>1, TakenKeeps
  <2> QED BY <1>6, <2>2, <2>3 DEF ReapAt
<1>7. CASE ReapExact
  <2>1. cq # <<>> /\ kind = "exact" /\ left = 1
    BY <1>1, <1>7 DEF ReapExact, ChunkInv
  <2>2. CASE Refuse("err")
    BY <1>1, <2>1, <2>2, RefuseKeeps
  <2>3. CASE /\ Taken /\ done' = done + Head(cq).res /\ UNCHANGED <<start, left, buf>>
             /\ \/ pc' = "push" /\ failed' = failed
                \/ RingReturn("ok")
    <3>1. pc' \in {"push", "idle"} /\ failed' = failed
      BY <1>1, <2>3 DEF RingReturn
    <3>2. Head(cq) \in Completions
      BY <1>1, <2>1, HeadTailProperties DEF RingTypes
    <3>3. done' \in Int
      BY <1>2, <2>3, <3>2 DEF Completions
    <3> QED BY <1>1, <1>2, <2>1, <2>3, <3>1, <3>3, TakenKeeps
  <2> QED BY <1>7, <2>2, <2>3 DEF ReapExact
<1> QED BY <1>3, <1>4, <1>5, <1>6, <1>7

LEMMA RingStep == RingInv /\ [RingNext]_ringVars => RingInv'
<1> SUFFICES ASSUME RingInv, [RingNext]_ringVars PROVE RingInv'
  OBVIOUS
<1>1. CASE \E k \in kinds, n \in 0..MaxReads : Begin(k, n)
  BY <1>1, BeginKeeps
<1>2. CASE RingPush
  BY <1>2, PushKeeps
<1>3. CASE \E ok \in BOOLEAN : Submit(ok)
  BY <1>3, SubmitKeeps
<1>4. CASE Woken \/ Interrupted
  BY <1>4, WaitKeeps
<1>5. CASE NoCompletion \/ ReapMany \/ ReapPage \/ ReapAt \/ ReapExact
  BY <1>5, ReapKeeps
<1>6. CASE Kernel
  BY <1>6, KernelKeeps
<1>7. CASE UNCHANGED ringVars
  BY <1>7 DEF RingInv, RingTypes, ChunkInv, CountInv, InRing, RingChunk, ringVars, ring, call
<1> QED BY <1>1, <1>2, <1>3, <1>4, <1>5, <1>6, <1>7 DEF RingNext, Thread

\* Nothing of a call is left in the ring while no call has failed, for any depth,
\* calls and buffers (backend.rs 131-171, pyo3 lib.rs 303-359).
THEOREM RingStaysClean == RingSpec => []CleanUnlessFailed
<1>1. RingInv => CleanUnlessFailed
  BY DEF RingInv, CountInv, CleanUnlessFailed
<1> QED BY <1>1, RingStart, RingStep, PTL DEF RingSpec

-----------------------------------------------------------------------------
(* As long as no call has failed the bytes of a call are where it says,    *)
(* for any depth of the queue, any number and size of buffers and any      *)
(* order of completions.  Each buffer of a chunk has exactly one read, in  *)
(* flight or completed, until its completion has been taken.               *)


\* Buffer of the call for user data d.
Place(d) == start + d + 1

\* What the call has of a buffer before a read, after one, and when it is done
\* with it (a call for several buffers).
Untouched(i)   == buf[i] = 0..(done - 1) /\ size[i] = Units
Landed(i, res) == buf[i] = 0..(done + res - 1) /\ size[i] = Units
Ready(i) == IF kind = "pages" THEN size[i] > 0 /\ buf[i] = 0..(size[i] - 1)
                              ELSE buf[i] = WholeBuffer

Slots == 0..(RingChunk - 1)

\* Buffers of earlier chunks are ready, those of later ones untouched.
BufferInv ==
  /\ ringOutcome # "ok"
  /\ size \in Seq(Int) /\ Len(size) = Len(buf)
  /\ done \in 0..(Units - 1) /\ (kind # "exact" => done = 0)
  /\ \A i \in 1..start : Ready(i)
  /\ \A i \in (start + RingChunk + 1)..Len(buf) : Untouched(i)
  /\ pc \in {"push", "submit"} => \A d \in Slots : Untouched(Place(d))

OfChunk(x) ==
  /\ x.data \in Slots /\ Untouched(Place(x.data))
  /\ x = [call |-> id, slot |-> Place(x.data), data |-> x.data, from |-> done, n |-> Rest]

Completed(c) ==
  /\ c.data \in Slots /\ c.res \in Int /\ c.res <= Rest
  /\ c.res >= 0 => Landed(Place(c.data), c.res)

\* Where the reads of the running chunk are.
WayInv ==
  /\ \A x \in flight : OfChunk(x)
  /\ \A n \in 1..Len(cq) : Completed(cq[n])
  /\ \A m, n \in 1..Len(cq) : m # n => cq[m].data # cq[n].data
  /\ \A x \in flight : \A n \in 1..Len(cq) : x.data # cq[n].data
  /\ \A d \in Slots : \/ \E x \in flight : x.data = d
                      \/ \E n \in 1..Len(cq) : cq[n].data = d
                      \/ Ready(Place(d))

CallInv ==
  pc # "idle" =>
    /\ BufferInv
    /\ pc = "submit" => \A n \in 1..Len(sq) : sq[n] = Sqes[n]
    /\ pc \in {"wait", "reap"} => WayInv

ExactInv == ExactUnlessFailed /\ (~failed => CallInv)

-----------------------------------------------------------------------------
\* The running chunk lies within the call.
LEMMA ChunkFits ==
  ASSUME RingInv, pc # "idle"
  PROVE  /\ RingChunk \in Nat \ {0} /\ start \in Nat /\ Len(buf) \in Nat
         /\ start + RingChunk <= Len(buf)
         /\ kind \in {"at", "exact"} => start = 0 /\ RingChunk = 1 /\ Len(buf) = 1
<1>1. start \in Nat /\ Len(buf) \in Nat /\ start < Len(buf)
      /\ (kind \in {"at", "exact"} => Len(buf) = 1)
  BY LenProperties DEF RingInv, RingTypes, ChunkInv
<1>2. Depth \in Nat \ {0}
  BY RingAssumption
<1>3. RingChunk = IF Len(buf) - start < Depth THEN Len(buf) - start ELSE Depth
  BY DEF RingChunk
<1>4. RingChunk \in Nat \ {0} /\ start + RingChunk <= Len(buf)
  BY <1>1, <1>2, <1>3
<1>5. kind \in {"at", "exact"} => start = 0 /\ RingChunk = 1 /\ Len(buf) = 1
  <2> SUFFICES ASSUME Len(buf) = 1 PROVE start = 0 /\ RingChunk = 1
    BY <1>1
  <2>1. start = 0
    BY <1>1
  <2> QED BY <1>2, <1>3, <2>1
<1> QED BY <1>1, <1>4, <1>5

\* A call that fails promises nothing.
LEMMA FailureIsExcused == ASSUME failed' PROVE ExactInv'
BY DEF ExactInv, ExactUnlessFailed

LEMMA BeginExact ==
  ASSUME RingInv, ExactInv, ~failed, NEW k \in kinds, NEW n \in 0..MaxReads, Begin(k, n), RingInv'
  PROVE  ExactInv'
<1>1. n \in Nat /\ Units \in Nat \ {0}
  BY RingAssumption
<1>2. /\ buf' = [i \in 1..n |-> {}] /\ Len(buf') = n
      /\ size' = [i \in 1..n |-> Units] /\ size' \in Seq(Int) /\ Len(size') = n
      /\ start' = 0 /\ done' = 0
  BY <1>1 DEF Begin
<1>3. CASE n = 0
  <2>1. pc' = "idle"
    BY <1>3 DEF Begin, RingReturn
  <2>2. ExactUnlessFailed'
    BY <1>2, <1>3 DEF ExactUnlessFailed
  <2> QED BY <2>1, <2>2 DEF ExactInv, CallInv
<1>4. CASE n # 0
  <2>1. pc' = "push" /\ ringOutcome' = "none"
    BY <1>4 DEF Begin
  <2>2. PICK c \in Nat : c # 0 /\ c = RingChunk' /\ c <= n
    <3> DEFINE least == IF n < Depth THEN n ELSE Depth
    <3>1. least = RingChunk'
      BY <1>1, <1>2, RingAssumption DEF RingChunk
    <3>2. least \in Nat \ {0} /\ least <= n
      BY <1>1, <1>4, RingAssumption
    <3> HIDE DEF least
    <3> QED BY <3>1, <3>2
  <2>3. \A i \in 1..n : buf'[i] = {} /\ size'[i] = Units
    BY <1>2
  <2>4. {} = 0..(0 - 1)
    OBVIOUS
  <2>5. BufferInv'
    <3>1. \A i \in 1..n : Untouched(i)'
      BY <1>2, <2>3, <2>4 DEF Untouched
    <3>2. ASSUME NEW d \in 0..(c - 1) PROVE Untouched(Place(d))'
      <4>2. c <= n
        BY <2>2
      <4>3. c \in Int
        OBVIOUS
      <4>4. n \in Int
        BY <1>1
      <4>6. d \in 0..(c - 1)
        OBVIOUS
      <4>5. c \in Int /\ n \in Int /\ c <= n /\ d \in 0..(c - 1)
        BY <4>2, <4>3, <4>4, <4>6
      <4>7. start' + d + 1 = d + 1 /\ d + 1 \in 1..n
        BY <1>2, <4>5
      <4> QED BY <1>2, <2>3, <2>4, <4>7 DEF Untouched, Place
    <3>3. Slots' = 0..(c - 1)
      BY <2>2 DEF Slots
    <3>4. \A i \in (start' + c + 1)..n : i \in 1..n
      <4>1. c \in Nat /\ start' + c + 1 = c + 1
        BY <1>2, <2>2
      <4> QED BY <1>1, <4>1
    <3>5. done' \in 0..(Units - 1) /\ 1..start' = {}
      BY <1>1, <1>2
    <3> QED BY <1>2, <2>1, <2>2, <3>1, <3>2, <3>3, <3>4, <3>5 DEF BufferInv
  <2>6. ExactUnlessFailed' /\ CallInv'
    BY <2>1, <2>5 DEF ExactUnlessFailed, CallInv
  <2> QED BY <2>6 DEF ExactInv
<1> QED BY <1>3, <1>4

\* The whole chunk is pushed, as nothing was left in the queue.
LEMMA PushExact ==
  ASSUME RingInv, ExactInv, ~failed, RingPush, RingInv'
  PROVE  ExactInv'
<1>1. pc = "push" /\ BufferInv /\ sq = <<>>
  BY DEF RingPush, ExactInv, CallInv, RingInv, CountInv
<1>2. /\ RingChunk \in Nat \ {0} /\ RingChunk <= Depth /\ Depth \in Nat \ {0}
  BY <1>1, ChunkFits, RingAssumption DEF RingChunk
<1>3. UNCHANGED <<id, kind, start, left, done, buf, size>>
  BY DEF RingPush, call
<1>4. /\ sq' = <<>> \o SubSeq(Sqes, 1, RingChunk) /\ pc' = "submit"
      /\ ringOutcome' = ringOutcome /\ failed' = failed
  <2>1. Depth - Len(sq) = Depth
    BY <1>1, <1>2, EmptySeq
  <2> HIDE DEF Sqes, RingChunk
  <2> QED BY <1>1, <1>2, <2>1 DEF RingPush
<1>5. Len(sq') = RingChunk /\ \A n \in 1..RingChunk : sq'[n] = Sqes[n]
  <2>1. \A i \in 1..RingChunk : Sqes[i] \in Reads
    <3>1. id \in Nat /\ start \in Nat /\ done \in Int /\ Rest \in Int
      BY RingAssumption DEF RingInv, RingTypes, Rest
    <3> QED BY <1>2, <3>1 DEF Sqes, Reads
  <2>2. /\ SubSeq(Sqes, 1, RingChunk) \in Seq(Reads)
        /\ Len(SubSeq(Sqes, 1, RingChunk)) = IF 1 <= RingChunk THEN RingChunk - 1 + 1 ELSE 0
        /\ \A i \in 1..(RingChunk - 1 + 1) : SubSeq(Sqes, 1, RingChunk)[i] = Sqes[1 + i - 1]
    BY <1>2, <2>1, SubSeqProperties
  <2>3. sq' = SubSeq(Sqes, 1, RingChunk)
    BY <1>4, <2>2, ConcatEmptySeq
  <2> QED BY <1>2, <2>2, <2>3
<1>6. RingChunk' = RingChunk /\ Sqes' = Sqes
  BY <1>3 DEF RingChunk, Sqes, Rest
<1>7. BufferInv'
  BY <1>1, <1>3, <1>4, <1>6 DEF BufferInv, Untouched, Ready, Place, Slots
<1>8. ExactUnlessFailed' /\ CallInv'
  BY <1>1, <1>4, <1>5, <1>6, <1>7 DEF ExactUnlessFailed, CallInv, BufferInv
<1> QED BY <1>8 DEF ExactInv

LEMMA SubmitExact ==
  ASSUME RingInv, ExactInv, ~failed, NEW ok \in BOOLEAN, Submit(ok), RingInv'
  PROVE  ExactInv'
<1>1. /\ pc = "submit" /\ BufferInv /\ flight = {} /\ cq = <<>>
      /\ Len(sq) = RingChunk /\ sq \in Seq(Reads) /\ \A n \in 1..Len(sq) : sq[n] = Sqes[n]
  BY DEF Submit, ExactInv, CallInv, RingInv, CountInv, RingTypes
<1>2. RingChunk \in Nat \ {0} /\ start \in Nat
  BY <1>1, ChunkFits
<1>3. UNCHANGED <<cq, id, kind, start, left, done, buf, size>>
  BY DEF Submit, call
<1>4. CASE ~ok
  <2>1. failed'
    BY <1>4 DEF Submit, RingReturn
  <2> QED BY <2>1, FailureIsExcused
<1>5. CASE ok
  <2>1. flight' = ToSet(sq) /\ pc' = "wait" /\ UNCHANGED <<ringOutcome, failed>>
    BY <1>1, <1>5 DEF Submit
  <2>2. flight' = {Sqes[n] : n \in 1..RingChunk}
    <3>1. ToSet(sq) = {sq[n] : n \in 1..Len(sq)}
      BY <1>1, LenProperties DEF ToSet
    <3> HIDE DEF Sqes
    <3> QED BY <1>1, <2>1, <3>1
  <2>3. RingChunk' = RingChunk
    BY <1>3 DEF RingChunk
  <2>4. BufferInv'
    BY <1>1, <1>3, <2>1, <2>3 DEF BufferInv, Untouched, Ready, Place, Slots
  <2>5. /\ \A n \in 1..RingChunk : Sqes[n] =
             [call |-> id, slot |-> Place(n - 1), data |-> n - 1, from |-> done, n |-> Rest]
        /\ \A n \in 1..RingChunk : n - 1 \in Slots
        /\ \A d \in Slots : d + 1 \in 1..RingChunk /\ d + 1 - 1 = d
        /\ \A d \in Slots : Untouched(Place(d))
    BY <1>1, <1>2 DEF Sqes, Place, Slots, BufferInv
  <2>6. \A x \in flight' : OfChunk(x)
    <3> SUFFICES ASSUME NEW n \in 1..RingChunk PROVE OfChunk(Sqes[n])
      BY <2>2
    <3>1. /\ Sqes[n] = [call |-> id, slot |-> Place(n - 1), data |-> n - 1, from |-> done, n |-> Rest]
          /\ n - 1 \in Slots /\ Untouched(Place(n - 1))
      BY <2>5
    <3>2. Sqes[n].data = n - 1
      BY <3>1
    <3> QED BY <3>1, <3>2 DEF OfChunk
  <2>7. \A d \in Slots : \E x \in flight' : x.data = d
    <3> SUFFICES ASSUME NEW d \in Slots PROVE \E x \in flight' : x.data = d
      OBVIOUS
    <3>1. PICK n \in 1..RingChunk : n - 1 = d
      <4>1. d + 1 \in 1..RingChunk /\ d + 1 - 1 = d
        BY <2>5
      <4>2. d \in Int
        BY <1>2 DEF Slots
      <4> QED BY <4>1, <4>2
    <3>2. Sqes[n] \in flight'
      BY <2>2
    <3>3. Sqes[n] = [call |-> id, slot |-> Place(n - 1), data |-> n - 1, from |-> done, n |-> Rest]
      BY <2>5
    <3>4. Sqes[n].data = d
      BY <3>1, <3>3
    <3> QED BY <3>2, <3>4
  <2>8. WayInv'
    <3>1. Slots' = Slots /\ (\A x : OfChunk(x) => OfChunk(x)')
      BY <1>3, <2>3 DEF Slots, OfChunk, Untouched, Place, Rest
    <3>2. Len(cq') = 0
      BY <1>1, <1>3
    <3> QED BY <2>6, <2>7, <3>1, <3>2 DEF WayInv
  <2>9. ExactUnlessFailed' /\ CallInv'
    BY <1>1, <2>1, <2>4, <2>8 DEF ExactUnlessFailed, CallInv, BufferInv
  <2> QED BY <2>9 DEF ExactInv
<1> QED BY <1>4, <1>5

\* A completed read has filled its own buffer and no other.
LEMMA KernelExact ==
  ASSUME RingInv, ExactInv, ~failed, Kernel, RingInv'
  PROVE  ExactInv'
<1>0. PICK x \in flight : \E res \in {-1} \cup 0..x.n : Complete(x, res)
  BY DEF Kernel
<1>1. PICK res \in {-1} \cup 0..x.n : Complete(x, res)
  BY <1>0
<1>2. pc \in {"wait", "reap"} /\ BufferInv /\ WayInv
  <2>1. pc \notin {"idle", "push", "submit"} /\ pc \in {"idle", "push", "submit", "wait", "reap"}
    BY <1>1 DEF RingInv, CountInv, RingTypes
  <2> QED BY <2>1 DEF ExactInv, CallInv
<1>3. PICK p \in Nat, data \in Slots :
        /\ p = Place(data) /\ Untouched(p)
        /\ x = [call |-> id, slot |-> p, data |-> data, from |-> done, n |-> Rest]
  <2>1. OfChunk(x) /\ start \in Nat
    BY <1>1, <1>2 DEF WayInv, RingInv, RingTypes
  <2>2. Place(x.data) \in Nat
    BY <2>1, <1>2, ChunkFits DEF OfChunk, Slots, Place
  <2> QED BY <2>1, <2>2 DEF OfChunk
<1>4. /\ RingChunk \in Nat \ {0} /\ start \in Nat /\ Len(buf) \in Nat /\ start + RingChunk <= Len(buf)
      /\ p \in (start + 1)..(start + RingChunk) /\ p \in 1..Len(buf)
      /\ \A d \in Slots : d # data => Place(d) # p
  BY <1>2, <1>3, ChunkFits DEF Place, Slots
<1>5. /\ UNCHANGED <<kinds, sq, id, kind, pc, start, left, done, size, ringOutcome, failed>>
      /\ flight' = flight \ {x} /\ cq' = Append(cq, [data |-> data, res |-> res])
      /\ buf' = [buf EXCEPT ![p] = @ \cup done..(done + res - 1)]
  BY <1>1, <1>2, <1>3 DEF Complete
<1>6. done \in 0..(Units - 1) /\ Units \in Nat /\ Rest \in Nat /\ res \in Int /\ res <= Rest /\ res >= -1
  BY <1>2, <1>3, RingAssumption DEF BufferInv, Rest
<1>7. /\ DOMAIN buf = 1..Len(buf) /\ Len(buf') = Len(buf)
      /\ \A i \in 1..Len(buf) : i # p => buf'[i] = buf[i]
      /\ buf'[p] = 0..(done - 1) \cup done..(done + res - 1)
  <2>1. buf \in Seq(SUBSET Int)
    BY DEF RingInv, RingTypes
  <2>2. DOMAIN buf = 1..Len(buf) /\ DOMAIN buf' = 1..Len(buf)
    BY <1>5, <2>1, LenProperties
  <2>3. buf' \in Seq(SUBSET Int)
    BY DEF RingInv, RingTypes
  <2>4. DOMAIN buf' = 1..Len(buf') /\ Len(buf') \in Nat
    BY <2>3, LenProperties
  <2>5. Len(buf') = Len(buf)
    BY <1>4, <2>2, <2>4
  <2> QED BY <1>3, <1>4, <1>5, <2>2, <2>5 DEF Untouched
<1>8. RingChunk' = RingChunk /\ Slots' = Slots /\ Rest' = Rest
      /\ \A d \in Slots : Place(d)' = Place(d) /\ Place(d) \in 1..Len(buf)
  <2>1. RingChunk' = RingChunk
    BY <1>5, <1>7 DEF RingChunk
  <2>2. Slots' = Slots /\ Rest' = Rest
    BY <1>5, <2>1 DEF Slots, Rest
  <2>3. ASSUME NEW d \in Slots PROVE Place(d)' = Place(d) /\ Place(d) \in 1..Len(buf)
    <3>1. d \in 0..(RingChunk - 1)
      BY DEF Slots
    <3>2. Place(d) = start + d + 1 /\ Place(d)' = start + d + 1
      BY <1>5 DEF Place
    <3> QED BY <1>4, <3>1, <3>2
  <2> QED BY <2>1, <2>2, <2>3
<1>10. BufferInv'
  <2>1. /\ \A i \in 1..start : i \in 1..Len(buf) /\ i # p
        /\ \A i \in (start + RingChunk + 1)..Len(buf) : i \in 1..Len(buf) /\ i # p
    BY <1>4
  <2>2. \A i \in 1..start : Ready(i)'
    <3> SUFFICES ASSUME NEW i \in 1..start PROVE Ready(i)'
      OBVIOUS
    <3>1. Ready(i) /\ i \in 1..Len(buf) /\ i # p
      BY <1>2, <2>1 DEF BufferInv
    <3> QED BY <1>5, <1>7, <3>1 DEF Ready
  <2>3. \A i \in (start + RingChunk + 1)..Len(buf) : Untouched(i)'
    <3> SUFFICES ASSUME NEW i \in (start + RingChunk + 1)..Len(buf) PROVE Untouched(i)'
      OBVIOUS
    <3>1. Untouched(i) /\ i \in 1..Len(buf) /\ i # p
      BY <1>2, <2>1 DEF BufferInv
    <3> QED BY <1>5, <1>7, <3>1 DEF Untouched
  <2> QED BY <1>2, <1>5, <1>7, <1>8, <2>2, <2>3 DEF BufferInv
<1>11. /\ Len(cq) \in Nat /\ Len(cq') = Len(cq) + 1
       /\ \A n \in 1..Len(cq) : cq'[n] = cq[n]
       /\ cq'[Len(cq) + 1] = [data |-> data, res |-> res]
  <2>1. cq \in Seq(Completions) /\ [data |-> data, res |-> res] \in Completions
    BY <1>4, <1>6 DEF RingInv, RingTypes, Completions, Slots
  <2> QED BY <1>5, <2>1, AppendProperties, LenProperties
<1>12. res >= 0 => Landed(p, res)'
  <2> SUFFICES ASSUME res >= 0 PROVE Landed(p, res)'
    OBVIOUS
  <2>1. 0..(done - 1) \cup done..(done + res - 1) = 0..(done + res - 1)
    BY <1>6
  <2> QED BY <1>3, <1>5, <1>7, <2>1 DEF Landed, Untouched
<1>13. \A y \in flight' : y \in flight /\ y.data # data
  <2> SUFFICES ASSUME NEW y \in flight, y.data = data PROVE y = x
    BY <1>5
  <2>1. OfChunk(y)
    BY <1>2 DEF WayInv
  <2> QED BY <1>3, <2>1 DEF OfChunk
<1>14. \A n \in 1..Len(cq) : cq[n].data \in Slots /\ cq[n].data # data
  BY <1>1, <1>2, <1>3 DEF WayInv, Completed
<1>15. WayInv'
  <2>1. ASSUME NEW y \in flight' PROVE OfChunk(y)'
    <3>1. OfChunk(y) /\ y.data \in Slots /\ Place(y.data) # p
      BY <1>2, <1>4, <1>13 DEF WayInv, OfChunk
    <3>2. Untouched(Place(y.data))'
      BY <1>5, <1>7, <1>8, <3>1 DEF OfChunk, Untouched
    <3> QED BY <1>5, <1>8, <3>1, <3>2 DEF OfChunk
  <2>2. ASSUME NEW n \in 1..Len(cq') PROVE Completed(cq[n])'
    <3>1. CASE n = Len(cq) + 1
      <4>1. cq'[n].data = data /\ cq'[n].res = res /\ Place(data)' = p
        BY <1>3, <1>8, <1>11, <3>1
      <4>2. (cq[n].res >= 0 => Landed(Place(cq[n].data), cq[n].res))'
        BY <1>12, <4>1 DEF Landed
      <4> QED BY <1>6, <1>8, <4>1, <4>2 DEF Completed
    <3>2. CASE n # Len(cq) + 1
      <4>1. n \in 1..Len(cq) /\ cq'[n] = cq[n]
        BY <1>11, <3>2
      <4>2. Completed(cq[n]) /\ Place(cq[n].data) # p
        BY <1>2, <1>4, <1>14, <4>1 DEF WayInv
      <4>3. ASSUME cq[n].res >= 0
            PROVE  /\ buf'[Place(cq[n].data)] = 0..(done + cq[n].res - 1)
                   /\ size[Place(cq[n].data)] = Units
        BY <1>7, <1>8, <1>14, <4>1, <4>2, <4>3 DEF Completed, Landed
      <4>4. cq'[n].data = cq[n].data /\ cq'[n].res = cq[n].res
        BY <4>1
      <4>5. cq[n].data \in Slots /\ cq[n].res \in Int /\ cq[n].res <= Rest
        BY <4>2 DEF Completed
      <4>6. (cq[n].res >= 0 => Landed(Place(cq[n].data), cq[n].res))'
        BY <1>5, <4>1, <4>3 DEF Landed, Place
      <4> QED BY <1>8, <4>4, <4>5, <4>6 DEF Completed
    <3> QED BY <3>1, <3>2
  <2>3. \A m, n \in 1..Len(cq') : m # n => cq'[m].data # cq'[n].data
    <3> SUFFICES ASSUME NEW m \in 1..Len(cq'), NEW n \in 1..Len(cq'), m # n
                 PROVE  cq'[m].data # cq'[n].data
      OBVIOUS
    <3>1. CASE m = Len(cq) + 1
      BY <1>11, <1>14, <3>1
    <3>2. CASE n = Len(cq) + 1
      BY <1>11, <1>14, <3>2
    <3>3. CASE m \in 1..Len(cq) /\ n \in 1..Len(cq)
      BY <1>2, <1>11, <3>3 DEF WayInv
    <3> QED BY <1>11, <3>1, <3>2, <3>3
  <2>4. ASSUME NEW y \in flight', NEW n \in 1..Len(cq') PROVE y.data # cq'[n].data
    <3>1. CASE n = Len(cq) + 1
      BY <1>11, <1>13, <3>1
    <3>2. CASE n \in 1..Len(cq)
      BY <1>2, <1>11, <1>13, <3>2 DEF WayInv
    <3> QED BY <1>11, <3>1, <3>2
  <2>5. ASSUME NEW d \in Slots
        PROVE  (\E y \in flight' : y.data = d) \/ (\E n \in 1..Len(cq') : cq'[n].data = d)
               \/ Ready(Place(d))'
    <3>1. CASE d = data
      BY <1>11, <3>1
    <3>2. CASE d # data /\ \E y \in flight : y.data = d
      <4>1. PICK y \in flight : y.data = d
        BY <3>2
      <4>2. y # x
        BY <1>3, <3>2, <4>1
      <4> QED BY <1>5, <4>1, <4>2
    <3>3. CASE \E n \in 1..Len(cq) : cq[n].data = d
      <4>1. PICK n \in 1..Len(cq) : cq[n].data = d
        BY <3>3
      <4>2. n \in 1..Len(cq') /\ cq'[n].data = d
        BY <1>11, <4>1
      <4> QED BY <4>2
    <3>4. CASE d # data /\ Ready(Place(d))
      <4>1. Place(d) # p /\ Place(d) \in 1..Len(buf) /\ Place(d)' = Place(d)
        BY <1>4, <1>8, <3>4
      <4> QED BY <1>5, <1>7, <3>4, <4>1 DEF Ready
    <3> QED BY <1>2, <3>1, <3>2, <3>3, <3>4 DEF WayInv
  <2>6. Slots' = Slots
    BY <1>8
  <2> HIDE DEF OfChunk, Completed, Ready, Slots
  <2> QED BY <2>1, <2>2, <2>3, <2>4, <2>5, <2>6 DEF WayInv
<1>16. CallInv' /\ ExactUnlessFailed'
  BY <1>2, <1>5, <1>10, <1>15 DEF CallInv, BufferInv, ExactUnlessFailed
<1> QED BY <1>16 DEF ExactInv

LEMMA WaitExact ==
  ASSUME RingInv, ExactInv, ~failed, Woken \/ Interrupted, RingInv'
  PROVE  ExactInv'
<1>1. pc = "wait" /\ BufferInv /\ WayInv
  BY DEF Woken, Interrupted, ExactInv, CallInv
<1>2. /\ UNCHANGED <<sq, flight, cq, id, kind, start, done, buf, size, ringOutcome, failed>>
      /\ pc' = "reap"
  BY DEF Woken, Interrupted, Reap, ring
<1>3. RingChunk' = RingChunk
  BY <1>2 DEF RingChunk
<1>4. BufferInv'
  BY <1>1, <1>2, <1>3 DEF BufferInv, Untouched, Ready, Place, Slots
<1>5. WayInv'
  BY <1>1, <1>2, <1>3 DEF WayInv, OfChunk, Completed, Landed, Untouched, Ready, Place, Slots, Rest
<1>6. CallInv' /\ ExactUnlessFailed'
  BY <1>1, <1>2, <1>4, <1>5 DEF CallInv, BufferInv, ExactUnlessFailed
<1> QED BY <1>6 DEF ExactInv

\* A call for several buffers takes a completion, and has its buffer ready.
LEMMA NextChunkExact ==
  ASSUME RingInv, ExactInv, ~failed, RingInv', pc = "reap", cq # <<>>,
         kind \in {"many", "pages"}, Taken, NextChunk, buf' = buf,
         NEW p \in Nat, p = Place(Head(cq).data), Ready(p)',
         size' \in Seq(Int), Len(size') = Len(size),
         \A i \in 1..Len(buf) : i # p => size'[i] = size[i]
  PROVE  ExactInv'
<1>1. BufferInv /\ WayInv
  BY DEF ExactInv, CallInv
<1>2. /\ RingChunk \in Nat \ {0} /\ start \in Nat /\ Len(buf) \in Nat
      /\ start + RingChunk <= Len(buf)
  BY ChunkFits
<1>3. /\ cq \in Seq(Completions) /\ Len(cq) \in Nat \ {0} /\ cq' = Tail(cq) /\ Len(cq') = Len(cq) - 1
      /\ Head(cq) = cq[1] /\ \A n \in 1..Len(cq') : cq'[n] = cq[n + 1]
  <2>1. cq \in Seq(Completions) /\ cq' = Tail(cq)
    BY DEF RingInv, RingTypes, Taken
  <2> QED BY <2>1, HeadTailProperties, EmptySeq
<1>4. UNCHANGED <<sq, flight, id, kind, done, buf>>
  BY DEF Taken, NextChunk
<1>5. PICK data \in Slots : data = cq[1].data /\ p = Place(data)
  BY <1>1, <1>3, SMTT(30) DEF WayInv, Completed
<1>6. /\ p \in (start + 1)..(start + RingChunk) /\ p \in 1..Len(buf)
      /\ \A d \in Slots : d # data => Place(d) # p
      /\ \A d \in Slots : Place(d) \in 1..Len(buf)
  <2>1. \A d \in Slots : Place(d) = start + d + 1 /\ d \in 0..(RingChunk - 1)
    BY DEF Place, Slots
  <2>2. p = start + data + 1 /\ data \in 0..(RingChunk - 1)
    BY <1>5, <2>1
  <2>3. ASSUME NEW d \in Slots PROVE Place(d) \in 1..Len(buf) /\ (d # data => Place(d) # p)
    BY <1>2, <2>1, <2>2
  <2>4. p \in (start + 1)..(start + RingChunk) /\ p \in 1..Len(buf)
    BY <1>2, <2>2
  <2> QED BY <2>3, <2>4
<1>7. ASSUME NEW i \in 1..Len(buf), Ready(i) PROVE Ready(i)'
  BY <1>4, <1>7 DEF Ready
<1>8. \A i \in 1..start : Ready(i)'
  <2>1. \A i \in 1..start : i \in 1..Len(buf) /\ Ready(i)
    BY <1>1, <1>2 DEF BufferInv
  <2> QED BY <1>7, <2>1
<1>9. \A i \in (start + RingChunk + 1)..Len(buf) : Untouched(i)'
  <2> SUFFICES ASSUME NEW i \in (start + RingChunk + 1)..Len(buf) PROVE Untouched(i)'
    OBVIOUS
  <2>1. Untouched(i)
    BY <1>1 DEF BufferInv
  <2>2. i \in 1..Len(buf) /\ i # p
    BY <1>2, <1>6
  <2> QED BY <1>4, <2>1, <2>2 DEF Untouched
<1>10. done = 0 /\ done' = 0 /\ ringOutcome # "ok" /\ Len(size) = Len(buf)
  BY <1>1, <1>4 DEF BufferInv
<1>11. CASE More
  <2>1. UNCHANGED <<pc, start, ringOutcome, failed>> /\ pc' = "reap"
    BY <1>11 DEF NextChunk
  <2>2. RingChunk' = RingChunk /\ Slots' = Slots /\ Rest' = Rest
    BY <1>4, <2>1 DEF RingChunk, Slots, Rest
  <2>3. BufferInv'
    BY <1>1, <1>4, <1>8, <1>9, <1>10, <2>1, <2>2 DEF BufferInv
  <2>4. WayInv'
    <3>1. ASSUME NEW x \in flight' PROVE OfChunk(x)'
      <4>1. OfChunk(x) /\ x.data # data
        BY <1>1, <1>3, <1>4, <1>5 DEF WayInv
      <4>2. Untouched(Place(x.data))'
        BY <1>4, <1>6, <2>1, <4>1 DEF OfChunk, Untouched, Place
      <4> QED BY <1>4, <2>1, <2>2, <4>1, <4>2 DEF OfChunk, Place
    <3>2. ASSUME NEW n \in 1..Len(cq') PROVE Completed(cq[n])'
      <4>1. n + 1 \in 1..Len(cq) /\ n + 1 # 1 /\ 1 \in 1..Len(cq) /\ cq'[n] = cq[n + 1]
        BY <1>3
      <4>2. Completed(cq[n + 1]) /\ cq[n + 1].data # data
        BY <1>1, <1>5, <4>1 DEF WayInv
      <4>3. Place(cq[n + 1].data) # p /\ Place(cq[n + 1].data) \in 1..Len(buf)
        BY <1>6, <4>2 DEF Completed
      <4>4. ASSUME cq[n + 1].res >= 0
            PROVE  /\ buf'[Place(cq[n + 1].data)] = 0..(done + cq[n + 1].res - 1)
                   /\ size'[Place(cq[n + 1].data)] = Units
        BY <1>4, <4>2, <4>3, <4>4 DEF Completed, Landed
      <4>5. (cq[n].res >= 0 => Landed(Place(cq[n].data), cq[n].res))'
        BY <1>4, <2>1, <4>1, <4>4 DEF Landed, Place
      <4>6. cq[n + 1].data \in Slots /\ cq[n + 1].res \in Int /\ cq[n + 1].res <= Rest
        BY <4>2 DEF Completed
      <4> QED BY <2>2, <4>1, <4>5, <4>6 DEF Completed
    <3>3. \A m, n \in 1..Len(cq') : m # n => cq'[m].data # cq'[n].data
      <4> SUFFICES ASSUME NEW m \in 1..Len(cq'), NEW n \in 1..Len(cq'), m # n
                   PROVE  cq'[m].data # cq'[n].data
        OBVIOUS
      <4>1. /\ m + 1 \in 1..Len(cq) /\ n + 1 \in 1..Len(cq) /\ m + 1 # n + 1
            /\ cq'[m] = cq[m + 1] /\ cq'[n] = cq[n + 1]
        BY <1>3
      <4> QED BY <1>1, <4>1 DEF WayInv
    <3>4. \A x \in flight' : \A n \in 1..Len(cq') : x.data # cq'[n].data
      <4> SUFFICES ASSUME NEW x \in flight, NEW n \in 1..Len(cq') PROVE x.data # cq'[n].data
        BY <1>4
      <4>1. n + 1 \in 1..Len(cq) /\ cq'[n] = cq[n + 1]
        BY <1>3
      <4> QED BY <1>1, <4>1 DEF WayInv
    <3>5. ASSUME NEW d \in Slots
          PROVE  (\E x \in flight' : x.data = d) \/ (\E n \in 1..Len(cq') : cq'[n].data = d)
                 \/ Ready(Place(d))'
      <4>1. CASE d = data
        <5>1. Place(d)' = p
          BY <1>5, <2>1, <4>1 DEF Place
        <5> QED BY <5>1 DEF Ready
      <4>2. CASE \E x \in flight : x.data = d
        BY <1>4, <4>2
      <4>3. CASE d # data /\ \E n \in 1..Len(cq) : cq[n].data = d
        <5>1. PICK n \in 1..Len(cq) : cq[n].data = d
          BY <4>3
        <5>2. n - 1 \in 1..Len(cq') /\ n - 1 + 1 = n
          BY <1>3, <1>5, <4>3, <5>1
        <5>3. cq'[n - 1].data = d
          BY <1>3, <5>1, <5>2
        <5> QED BY <5>2, <5>3
      <4>4. CASE d # data /\ Ready(Place(d))
        <5>1. Place(d)' = Place(d) /\ Place(d) \in 1..Len(buf) /\ Place(d) # p
          BY <1>6, <2>1, <4>4 DEF Place
        <5> QED BY <1>4, <4>4, <5>1 DEF Ready
      <4> QED BY <1>1, <4>1, <4>2, <4>3, <4>4 DEF WayInv
    <3>6. Slots' = Slots
      BY <2>2
    <3> HIDE DEF OfChunk, Completed, Ready, Slots
    <3> QED BY <3>1, <3>2, <3>3, <3>4, <3>5, <3>6 DEF WayInv
  <2>5. CallInv' /\ ExactUnlessFailed'
    BY <1>10, <2>1, <2>3, <2>4 DEF CallInv, ExactUnlessFailed
  <2> QED BY <2>5 DEF ExactInv
<1>12. CASE ~More
  <2>1. flight = {} /\ Len(cq) = 1
    <3>1. Cardinality(flight) + Len(cq) = left /\ Cardinality(flight) \in Nat /\ left \in Nat
          /\ IsFiniteSet(flight)
      BY FS_CardinalityType DEF RingInv, CountInv, InRing, RingTypes
    <3>2. Cardinality(flight) = 0 /\ Len(cq) = 1
      BY <1>3, <1>12, <3>1 DEF More
    <3> QED BY <3>1, <3>2, FS_EmptySet
  <2>2. ASSUME NEW d \in Slots PROVE Ready(Place(d)) \/ d = data
    BY <1>1, <1>5, <2>1, <2>2 DEF WayInv
  <2>3. \A i \in 1..(start + RingChunk) : Ready(i)'
    <3> SUFFICES ASSUME NEW i \in 1..(start + RingChunk) PROVE Ready(i)'
      OBVIOUS
    <3>1. i \in 1..Len(buf) /\ i \in Int
      BY <1>2
    <3>2. CASE i = p
      BY <3>2
    <3>3. CASE i # p /\ i <= start
      BY <1>2, <1>8, <3>1, <3>3
    <3>4. CASE i # p /\ i > start
      <4>1. PICK d \in Slots : i = Place(d)
        <5>1. i - start - 1 \in Slots /\ i = start + (i - start - 1) + 1
          BY <1>2, <3>1, <3>4 DEF Slots
        <5> QED BY <5>1 DEF Place
      <4>2. Ready(i)
        BY <1>5, <2>2, <3>4, <4>1
      <4> QED BY <1>7, <3>1, <4>2
    <3> QED BY <1>2, <3>1, <3>2, <3>3, <3>4
  <2>4. start' = start + RingChunk
    BY <1>12 DEF NextChunk
  <2>5. CASE start' < Len(buf)
    <3>1. pc' = "push" /\ UNCHANGED <<ringOutcome, failed>>
      BY <1>12, <2>5 DEF NextChunk
    <3>2. PICK s0 \in Nat, all \in Nat :
            s0 = start' /\ s0 = start + RingChunk /\ all = Len(buf) /\ s0 < all
      BY <1>2, <2>4, <2>5, SMTT(30)
    <3>3. PICK c \in Nat : c # 0 /\ c = RingChunk' /\ s0 + c <= all
      <4> DEFINE least == IF all - s0 < Depth THEN all - s0 ELSE Depth
      <4>1. least = RingChunk'
        BY <1>4, <3>2 DEF RingChunk
      <4>2. least \in Nat /\ least # 0 /\ s0 + least <= all
        BY <3>2, RingAssumption
      <4> HIDE DEF least
      <4> QED BY <4>1, <4>2
    <3>4. ASSUME NEW i \in Nat, i > s0, i <= all PROVE Untouched(i)'
      <4>1. i \in (start + RingChunk + 1)..Len(buf)
        BY <1>2, <3>2, <3>4
      <4> QED BY <1>9, <4>1
    <3>5. s0 + c <= all
      BY <3>3
    <3>6. \A i \in (s0 + c + 1)..all : Untouched(i)'
      <4> SUFFICES ASSUME NEW i \in (s0 + c + 1)..all PROVE Untouched(i)'
        OBVIOUS
      <4>1. i \in Nat /\ i > s0 /\ i <= all
        BY <3>5
      <4> QED BY <3>4, <4>1
    <3>7. \A d \in 0..(c - 1) : Untouched(Place(d))'
      <4> SUFFICES ASSUME NEW d \in 0..(c - 1) PROVE Untouched(Place(d))'
        OBVIOUS
      <4>1. s0 + d + 1 \in Nat /\ s0 + d + 1 > s0 /\ s0 + d + 1 <= all
        BY <3>5
      <4>2. PICK i \in Nat : i = s0 + d + 1 /\ i > s0 /\ i <= all
        BY <4>1
      <4>3. Untouched(i)'
        BY <3>4, <4>2
      <4>4. i = start' + d + 1
        BY <3>2, <4>2
      <4> QED BY <4>3, <4>4 DEF Untouched, Place
    <3>8. Slots' = 0..(c - 1)
      BY <3>3 DEF Slots
    <3>9. start' + RingChunk' + 1 = s0 + c + 1 /\ Len(buf') = all
      BY <1>4, <3>2, <3>3
    <3>10. BufferInv'
      BY <1>1, <1>4, <1>10, <2>3, <2>4, <3>1, <3>6, <3>7, <3>8, <3>9 DEF BufferInv
    <3>11. CallInv' /\ ExactUnlessFailed'
      BY <1>10, <3>1, <3>10 DEF CallInv, ExactUnlessFailed
    <3> QED BY <3>11 DEF ExactInv
  <2>6. CASE ~(start' < Len(buf))
    <3>1. pc' = "idle"
      BY <1>12, <2>6 DEF NextChunk, RingReturn
    <3>2. start + RingChunk = Len(buf)
      BY <1>2, <2>4, <2>6
    <3>3. \A i \in 1..Len(buf) : Ready(i)'
      BY <2>3, <3>2
    <3>4. ExactUnlessFailed'
      BY <1>4, <3>3 DEF ExactUnlessFailed, Ready
    <3> QED BY <3>1, <3>4 DEF ExactInv, CallInv
  <2> QED BY <2>5, <2>6
<1> QED BY <1>11, <1>12

\* The completion that is taken belongs to the running chunk.
LEMMA HeadOfChunk ==
  ASSUME RingInv, ExactInv, ~failed, pc = "reap", cq # <<>>
  PROVE  \E data \in Slots, p \in Nat, res \in Int :
           /\ data = Head(cq).data /\ res = Head(cq).res /\ p = Place(data)
           /\ p \in 1..Len(buf) /\ res <= Rest /\ (res >= 0 => Landed(p, res))
<1>1. WayInv
  BY DEF ExactInv, CallInv
<1>2. Head(cq) = cq[1] /\ 1 \in 1..Len(cq)
  <2>1. cq \in Seq(Completions)
    BY DEF RingInv, RingTypes
  <2> QED BY <2>1, HeadTailProperties, EmptySeq, LenProperties
<1>3. PICK c : c = Head(cq) /\ Completed(c)
  BY <1>1, <1>2 DEF WayInv
<1>4. c.data \in Slots /\ c.res \in Int /\ c.res <= Rest /\ (c.res >= 0 => Landed(Place(c.data), c.res))
  BY <1>3 DEF Completed
<1>5. Place(c.data) \in Nat /\ Place(c.data) \in 1..Len(buf)
  <2>1. /\ RingChunk \in Nat \ {0} /\ start \in Nat /\ Len(buf) \in Nat
        /\ start + RingChunk <= Len(buf)
    BY ChunkFits
  <2>2. c.data \in 0..(RingChunk - 1)
    BY <1>4 DEF Slots
  <2> QED BY <2>1, <2>2 DEF Place
<1> QED BY <1>3, <1>4, <1>5

LEMMA RefuseExact ==
  ASSUME NEW result \in {"err", "panic"}, Refuse(result)
  PROVE  ExactInv'
<1>1. failed'
  BY DEF Refuse, RingReturn
<1> QED BY <1>1, FailureIsExcused

LEMMA ReapManyExact ==
  ASSUME RingInv, ExactInv, ~failed, ReapMany, RingInv'
  PROVE  ExactInv'
<1>1. pc = "reap" /\ cq # <<>> /\ kind = "many" /\ BufferInv
  BY DEF ReapMany, ExactInv, CallInv
<1>2. CASE ~ReadWhole(Head(cq))
  <2>1. Refuse("err")
    BY <1>2 DEF ReapMany
  <2> QED BY <2>1, RefuseExact
<1>3. CASE ReadWhole(Head(cq))
  <2>1. Taken /\ NextChunk /\ UNCHANGED <<buf, size>>
    BY <1>3 DEF ReapMany
  <2>2. PICK data \in Slots, p \in Nat, res \in Int :
          /\ data = Head(cq).data /\ res = Head(cq).res /\ p = Place(data)
          /\ p \in 1..Len(buf) /\ res <= Rest /\ (res >= 0 => Landed(p, res))
    BY <1>1, HeadOfChunk
  <2>3. res = Units /\ Units \in Nat
    <3>1. RingChunk \in Nat /\ data \in 0..(RingChunk - 1)
      BY <1>1, ChunkFits DEF Slots
    <3>2. data < RingChunk
      BY <3>1
    <3> QED BY <1>3, <2>2, <3>2, RingAssumption DEF ReadWhole
  <2>4. buf[p] = WholeBuffer
    <3>1. done = 0
      BY <1>1 DEF BufferInv
    <3>2. buf[p] = 0..(0 + Units - 1) /\ 0 + Units - 1 = Units - 1
      BY <2>2, <2>3, <3>1 DEF Landed
    <3> QED BY <3>2 DEF WholeBuffer
  <2>5. Ready(p)'
    BY <1>1, <2>1, <2>4 DEF Ready, Taken, WholeBuffer
  <2>6. size' \in Seq(Int) /\ size' = size
    BY <1>1, <2>1 DEF BufferInv
  <2>7. p = Place(Head(cq).data)
    BY <2>2
  <2> QED BY <1>1, <2>1, <2>5, <2>6, <2>7, NextChunkExact
<1> QED BY <1>2, <1>3

LEMMA ReapPageExact ==
  ASSUME RingInv, ExactInv, ~failed, ReapPage, RingInv'
  PROVE  ExactInv'
<1>1. pc = "reap" /\ cq # <<>> /\ kind = "pages" /\ BufferInv
  BY DEF ReapPage, ExactInv, CallInv
<1>2. CASE \E result \in {"err", "panic"} : Refuse(result)
  BY <1>2, RefuseExact
<1>3. CASE ~\E result \in {"err", "panic"} : Refuse(result)
  <2>1. PICK data \in Slots, p \in Nat, res \in Int :
          /\ data = Head(cq).data /\ res = Head(cq).res /\ p = Place(data)
          /\ p \in 1..Len(buf) /\ res <= Rest /\ (res >= 0 => Landed(p, res))
    BY <1>1, HeadOfChunk
  <2>2. p = start + Head(cq).data + 1
    BY <2>1 DEF Place
  <2>3. /\ res > 0 /\ Taken /\ NextChunk /\ buf' = buf
        /\ size' = [size EXCEPT ![p] = IF res < @ THEN res ELSE @]
    BY <1>3, <2>1, <2>2 DEF ReapPage
  <2>4. done = 0 /\ size \in Seq(Int) /\ Len(size) = Len(buf)
    BY <1>1 DEF BufferInv
  <2>5. buf[p] = 0..(res - 1) /\ size[p] = Units /\ res <= Units
    <3>1. buf[p] = 0..(0 + res - 1) /\ size[p] = Units
      BY <2>1, <2>3, <2>4 DEF Landed
    <3>2. res <= Units
      BY <2>1, <2>4, RingAssumption DEF Rest
    <3> QED BY <3>1, <3>2
  <2>6. size' = [size EXCEPT ![p] = res]
    <3>1. (IF res < size[p] THEN res ELSE size[p]) = res
      BY <2>5, RingAssumption
    <3> QED BY <2>3, <3>1
  <2>7. /\ size' \in Seq(Int) /\ Len(size') = Len(size) /\ size'[p] = res
        /\ \A i \in 1..Len(buf) : i # p => size'[i] = size[i]
    <3>1. p \in 1..Len(size)
      BY <2>1, <2>4
    <3> QED BY <2>4, <2>6, <3>1, ExceptSeq
  <2>8. kind' = "pages"
    BY <1>1, <2>3 DEF Taken
  <2>9. Ready(p)'
    BY <2>3, <2>5, <2>7, <2>8 DEF Ready
  <2>10. p = Place(Head(cq).data)
    BY <2>1
  <2> QED BY <1>1, <2>3, <2>7, <2>9, <2>10, NextChunkExact
<1> QED BY <1>2, <1>3

LEMMA ReapAtExact ==
  ASSUME RingInv, ExactInv, ~failed, ReapAt, RingInv'
  PROVE  ExactInv'
<1>1. pc = "reap" /\ cq # <<>> /\ kind = "at" /\ BufferInv
  BY DEF ReapAt, ExactInv, CallInv
<1>2. CASE Refuse("err")
  BY <1>2, RefuseExact
<1>3. CASE ~Refuse("err")
  <2>1. PICK data \in Slots, p \in Nat, res \in Int :
          /\ data = Head(cq).data /\ res = Head(cq).res /\ p = Place(data)
          /\ p \in 1..Len(buf) /\ res <= Rest /\ (res >= 0 => Landed(p, res))
    BY <1>1, HeadOfChunk
  <2>2. /\ res >= 0 /\ Taken /\ RingReturn("ok") /\ size' = [size EXCEPT ![1] = res]
        /\ UNCHANGED <<start, left, done, buf>>
    BY <1>3, <2>1 DEF ReapAt
  <2>3. Len(buf) = 1 /\ p = 1 /\ done = 0 /\ size \in Seq(Int) /\ Len(size) = 1
    <3>1. Len(buf) = 1 /\ done = 0 /\ size \in Seq(Int) /\ Len(size) = Len(buf)
      BY <1>1, ChunkFits DEF BufferInv
    <3> QED BY <2>1, <3>1
  <2>4. buf'[1] = 0..(res - 1) /\ size'[1] = res
    <3>1. buf[1] = 0..(0 + res - 1)
      BY <2>1, <2>2, <2>3 DEF Landed
    <3>2. size'[1] = res
      BY <2>2, <2>3, LenProperties
    <3> QED BY <2>2, <3>1, <3>2
  <2>5. Len(buf') = 1 /\ kind' = "at" /\ pc' = "idle"
    BY <1>1, <2>2, <2>3 DEF Taken, RingReturn
  <2>6. ExactUnlessFailed'
    <3>1. \A i \in 1..Len(buf') : buf'[i] = 0..(size'[i] - 1)
      BY <2>4, <2>5
    <3> QED BY <2>5, <3>1 DEF ExactUnlessFailed
  <2> QED BY <2>5, <2>6 DEF ExactInv, CallInv
<1> QED BY <1>2, <1>3

\* A short read goes on behind what it has.
LEMMA ReapExactly ==
  ASSUME RingInv, ExactInv, ~failed, ReapExact, RingInv'
  PROVE  ExactInv'
<1>1. pc = "reap" /\ cq # <<>> /\ kind = "exact" /\ BufferInv
  BY DEF ReapExact, ExactInv, CallInv
<1>2. CASE Refuse("err")
  BY <1>2, RefuseExact
<1>3. CASE ~Refuse("err")
  <2>1. PICK data \in Slots, p \in Nat, res \in Int :
          /\ data = Head(cq).data /\ res = Head(cq).res /\ p = Place(data)
          /\ p \in 1..Len(buf) /\ res <= Rest /\ (res >= 0 => Landed(p, res))
    BY <1>1, HeadOfChunk
  <2>2. /\ res > 0 /\ Taken /\ done' = done + res /\ UNCHANGED <<start, left, buf, size>>
        /\ IF done' < Units THEN pc' = "push" /\ UNCHANGED <<ringOutcome, failed>>
           ELSE RingReturn("ok")
    <3>1. ~(res < 0) /\ res # 0
      BY <1>3, <2>1 DEF ReapExact, EndOfFile
    <3> QED BY <1>3, <2>1, <3>1 DEF ReapExact
  <2>3. Len(buf) = 1 /\ start = 0 /\ RingChunk = 1 /\ p = 1 /\ ringOutcome # "ok"
        /\ size \in Seq(Int) /\ Len(size) = 1
    <3>1. Len(buf) = 1 /\ start = 0 /\ RingChunk = 1
          /\ ringOutcome # "ok" /\ size \in Seq(Int) /\ Len(size) = Len(buf)
      BY <1>1, ChunkFits DEF BufferInv
    <3> QED BY <2>1, <3>1
  <2>4. PICK d \in Nat : d = done + res /\ d <= Units
    <3>1. done \in 0..(Units - 1) /\ Units \in Nat
      BY <1>1, RingAssumption DEF BufferInv
    <3>2. res <= Units - done
      BY <2>1 DEF Rest
    <3>3. done + res \in Nat /\ done + res <= Units
      BY <2>2, <3>1, <3>2
    <3> QED BY <3>3
  <2>5. d = done' /\ buf[1] = 0..(d - 1) /\ size[1] = Units
    <3>1. d = done'
      BY <2>2, <2>4
    <3>2. buf[1] = 0..(done + res - 1) /\ size[1] = Units
      BY <2>1, <2>2, <2>3 DEF Landed
    <3>3. d - 1 = done + res - 1
      <4>1. done \in Int
        BY DEF RingInv, RingTypes
      <4> QED BY <2>4, <4>1
    <3> QED BY <3>1, <3>2, <3>3, Zenon
  <2>6. kind' = "exact"
    BY <1>1, <2>2 DEF Taken
  <2>7. CASE d < Units
    <3>1. pc' = "push" /\ UNCHANGED <<ringOutcome, failed>>
      BY <2>2, <2>5, <2>7
    <3>2. RingChunk' = 1
      BY <2>2, <2>3 DEF RingChunk
    <3>3. Slots' = {0} /\ start' = 0 /\ Len(buf') = 1
      BY <2>2, <2>3, <3>2 DEF Slots
    <3>4. Untouched(Place(0))'
      <4>1. start' + 0 + 1 = 1
        BY <3>3
      <4> QED BY <2>2, <2>5, <4>1 DEF Untouched, Place
    <3>5. d \in 0..(Units - 1)
      BY <2>5, <2>7, RingAssumption
    <3>6. 1..start' = {} /\ (start' + RingChunk' + 1)..Len(buf') = {}
      BY <3>2, <3>3
    <3>7. BufferInv'
      BY <2>2, <2>3, <2>5, <2>6, <3>1, <3>3, <3>4, <3>5, <3>6 DEF BufferInv
    <3>8. CallInv' /\ ExactUnlessFailed'
      BY <2>3, <3>1, <3>7 DEF CallInv, ExactUnlessFailed
    <3> QED BY <3>8 DEF ExactInv
  <2>8. CASE ~(d < Units)
    <3>1. pc' = "idle"
      BY <2>2, <2>5, <2>8 DEF RingReturn
    <3>2. d = Units
      BY <2>4, <2>8, RingAssumption
    <3>3. \A i \in 1..Len(buf') : buf'[i] = WholeBuffer
      BY <2>2, <2>3, <2>5, <3>2 DEF WholeBuffer
    <3>4. ExactUnlessFailed'
      BY <2>6, <3>3 DEF ExactUnlessFailed, WholeBuffer
    <3> QED BY <3>1, <3>4 DEF ExactInv, CallInv
  <2> QED BY <2>7, <2>8
<1> QED BY <1>2, <1>3

LEMMA ExactStep == RingInv /\ ExactInv /\ [RingNext]_ringVars => ExactInv'
<1> SUFFICES ASSUME RingInv, ExactInv, [RingNext]_ringVars PROVE ExactInv'
  OBVIOUS
<1>1. RingInv'
  BY RingStep
<1>2. CASE failed
  <2>1. RingNext => failed'
    BY <1>2 DEF RingNext, Thread, Begin, RingPush, Submit, Woken, Interrupted, NoCompletion,
      ReapMany, ReapPage, ReapAt, ReapExact, NextChunk, Refuse, RingReturn, Kernel, Complete
  <2>2. failed'
    BY <1>2, <2>1 DEF ringVars
  <2> QED BY <2>2, FailureIsExcused
<1>3. CASE ~failed
  <2>1. CASE \E k \in kinds, n \in 0..MaxReads : Begin(k, n)
    BY <1>1, <1>3, <2>1, BeginExact
  <2>2. CASE RingPush
    BY <1>1, <1>3, <2>2, PushExact
  <2>3. CASE \E ok \in BOOLEAN : Submit(ok)
    BY <1>1, <1>3, <2>3, SubmitExact
  <2>4. CASE Woken \/ Interrupted
    BY <1>1, <1>3, <2>4, WaitExact
  <2>5. CASE NoCompletion
    <3>1. failed'
      BY <2>5 DEF NoCompletion, RingReturn
    <3> QED BY <3>1, FailureIsExcused
  <2>6. CASE ReapMany
    BY <1>1, <1>3, <2>6, ReapManyExact
  <2>7. CASE ReapPage
    BY <1>1, <1>3, <2>7, ReapPageExact
  <2>8. CASE ReapAt
    BY <1>1, <1>3, <2>8, ReapAtExact
  <2>9. CASE ReapExact
    BY <1>1, <1>3, <2>9, ReapExactly
  <2>10. CASE Kernel
    BY <1>1, <1>3, <2>10, KernelExact
  <2>11. CASE UNCHANGED ringVars
    <3>1. UNCHANGED <<sq, flight, cq, id, kind, pc, start, done, buf, size, ringOutcome, failed>>
      BY <2>11 DEF ringVars, ring, call
    <3>2. RingChunk' = RingChunk /\ Slots' = Slots /\ Rest' = Rest /\ Sqes' = Sqes
      BY <3>1 DEF RingChunk, Slots, Rest, Sqes
    <3>3. BufferInv => BufferInv'
      BY <3>1, <3>2 DEF BufferInv, Untouched, Ready, Place
    <3>4. WayInv => WayInv'
      BY <3>1, <3>2 DEF WayInv, OfChunk, Completed, Landed, Untouched, Ready, Place
    <3>5. CallInv => CallInv'
      BY <3>1, <3>2, <3>3, <3>4 DEF CallInv
    <3>6. ExactUnlessFailed => ExactUnlessFailed'
      BY <3>1 DEF ExactUnlessFailed
    <3> QED BY <3>1, <3>5, <3>6 DEF ExactInv
  <2> QED BY <2>1, <2>2, <2>3, <2>4, <2>5, <2>6, <2>7, <2>8, <2>9, <2>10, <2>11 DEF RingNext, Thread
<1> QED BY <1>2, <1>3

\* As long as no call of the ring has failed, a call that succeeds has filled every
\* buffer, or exactly the part it returns, for any depth, calls and buffers
\* (backend.rs 69-71, 82-86, pyo3 lib.rs 355-356).
THEOREM ReadsExact == RingSpec => []ExactUnlessFailed
<1>1. RingInit => RingInv /\ ExactInv
  <2>1. RingInit => ExactInv
    BY DEF RingInit, ExactInv, ExactUnlessFailed, CallInv
  <2> QED BY <2>1, RingStart
<1>2. RingInv /\ ExactInv /\ [RingNext]_ringVars => (RingInv /\ ExactInv)'
  BY RingStep, ExactStep
<1>3. RingInv /\ ExactInv => ExactUnlessFailed
  BY DEF ExactInv
<1> QED BY <1>1, <1>2, <1>3, PTL DEF RingSpec

-----------------------------------------------------------------------------
(* The ring's types.                                                       *)

\* A read that stays in its buffer, and its completion.
Read       == {x \in Sqe : x.from + x.n <= Units}
Completion == [data : 0..(Depth - 1), res : -1..Units]

\* The queues hold reads of this thread's calls, within the bounds of the calls.
QueuesTyped ==
  /\ sq \in Seq(Read) /\ Len(sq) <= Depth /\ flight \subseteq Read
  /\ cq \in Seq(Completion)
BufferTyped ==
  /\ buf \in Seq(SUBSET WholeBuffer) /\ Len(buf) <= MaxReads /\ DOMAIN size = DOMAIN buf
CallTyped ==
  /\ kind \in kinds /\ ringOutcome \in {"none", "ok", "err", "panic"}
  /\ id \in 0..MaxCalls /\ left \in 0..Depth /\ done \in 0..(2 * Units)
  /\ pc # "idle" => id # 0 /\ done < Units
RingTyped == QueuesTyped /\ BufferTyped /\ CallTyped

LEMMA RingTypedStart == RingInit => RingTyped
<1> SUFFICES ASSUME RingInit PROVE RingTyped
  OBVIOUS
<1>1. QueuesTyped
  BY EmptySeq, RingAssumption DEF RingInit, QueuesTyped
<1>2. BufferTyped
  BY EmptySeq, RingAssumption DEF RingInit, BufferTyped
<1>3. CallTyped
  BY RingAssumption DEF RingInit, CallTyped
<1> QED BY <1>1, <1>2, <1>3 DEF RingTyped

LEMMA BeginTyped ==
  ASSUME RingInv, RingTyped, NEW k \in kinds, NEW n \in 0..MaxReads, Begin(k, n)
  PROVE  RingTyped'
<1>1. n \in Nat /\ n <= MaxReads
  BY RingAssumption
<1>2. UNCHANGED <<kinds, sq, flight, cq>> /\ kind' = k /\ id' = id + 1 /\ left' = 0 /\ done' = 0
  BY DEF Begin, ring
<1>3. buf' = [i \in 1..n |-> {}] /\ size' = [i \in 1..n |-> Units]
  BY DEF Begin
<1>4. QueuesTyped'
  BY <1>2 DEF RingTyped, QueuesTyped
<1>5. BufferTyped'
  <2>1. buf' \in [1..n -> SUBSET WholeBuffer]
    BY <1>3
  <2>2. buf' \in Seq(SUBSET WholeBuffer) /\ Len(buf') = n
    BY <1>1, <2>1, FunIsSeq
  <2> QED BY <1>1, <1>3, <2>2 DEF BufferTyped
<1>6. CallTyped'
  <2>1. ringOutcome' \in {"none", "ok"} /\ id < MaxCalls
    BY DEF Begin, RingReturn
  <2> QED BY <1>2, <2>1, RingAssumption DEF RingTyped, CallTyped
<1> QED BY <1>4, <1>5, <1>6 DEF RingTyped

LEMMA SqesTyped ==
  ASSUME RingInv, RingTyped, pc # "idle"
  PROVE  RingChunk \in 1..Depth /\ \A i \in 1..RingChunk : Sqes[i] \in Read
<1>1. RingChunk \in 1..Depth /\ start \in Nat /\ start < Len(buf) /\ Len(buf) \in Nat
      /\ RingChunk <= Len(buf) - start
  <2>1. RingTypes /\ start < Len(buf)
    BY DEF RingInv, ChunkInv
  <2>2. start \in Nat /\ Len(buf) \in Nat
    BY <2>1, LenProperties DEF RingTypes
  <2> QED BY <2>1, <2>2, ChunkSize, RingAssumption DEF RingChunk
<1>2. /\ id \in 1..MaxCalls /\ done \in 0..(Units - 1) /\ Len(buf) <= MaxReads
  BY RingAssumption DEF RingTyped, CallTyped, BufferTyped
<1>3. ASSUME NEW i \in 1..RingChunk PROVE Sqes[i] \in Read
  <2>1. Sqes[i] = [call |-> id, slot |-> start + i, data |-> i - 1, from |-> done, n |-> Units - done]
    BY DEF Sqes, Rest
  <2>2. start + i \in 1..MaxReads /\ i - 1 \in 0..(Depth - 1)
    BY <1>1, <1>2, RingAssumption
  <2>3. done \in WholeBuffer /\ Units - done \in 1..Units /\ done + (Units - done) <= Units
    BY <1>2, RingAssumption DEF WholeBuffer
  <2> QED BY <1>2, <2>1, <2>2, <2>3 DEF Read, Sqe
<1> QED BY <1>1, <1>3

LEMMA PushTyped == ASSUME RingInv, RingTyped, RingPush PROVE RingTyped'
<1> DEFINE room == Depth - Len(sq)
           upto == IF RingChunk < room THEN RingChunk ELSE room
<1>1. /\ pc = "push" /\ UNCHANGED <<kinds, flight, cq, id, kind, start, left, done, buf, size>>
      /\ sq' = sq \o SubSeq(Sqes, 1, upto)
  BY DEF RingPush, call
<1>2. RingChunk \in 1..Depth /\ \A i \in 1..RingChunk : Sqes[i] \in Read
  BY <1>1, SqesTyped
<1>3. sq \in Seq(Read) /\ Len(sq) \in Nat /\ Len(sq) <= Depth
  BY LenProperties DEF RingTyped, QueuesTyped
<1>4. upto \in Nat /\ upto <= room /\ upto <= RingChunk
  BY <1>2, <1>3, RingAssumption
<1> HIDE DEF upto
<1>5. SubSeq(Sqes, 1, upto) \in Seq(Read) /\ Len(SubSeq(Sqes, 1, upto)) = upto
  <2>1. \A i \in 1..upto : Sqes[i] \in Read
    BY <1>2, <1>4
  <2>2. /\ SubSeq(Sqes, 1, upto) \in Seq(Read)
        /\ Len(SubSeq(Sqes, 1, upto)) = IF 1 <= upto THEN upto - 1 + 1 ELSE 0
    BY <1>4, <2>1, SubSeqProperties
  <2> QED BY <1>4, <2>2
<1>6. sq' \in Seq(Read) /\ Len(sq') <= Depth
  <2>1. sq' \in Seq(Read) /\ Len(sq') = Len(sq) + upto
    BY <1>1, <1>3, <1>5, ConcatProperties
  <2> QED BY <1>3, <1>4, <2>1, RingAssumption
<1>7. pc' \in {"submit", "idle"} /\ ringOutcome' \in {ringOutcome, "err"}
  BY DEF RingPush, RingReturn
<1> QED BY <1>1, <1>6, <1>7 DEF RingTyped, QueuesTyped, BufferTyped, CallTyped

LEMMA SubmitTyped == ASSUME RingInv, RingTyped, NEW ok \in BOOLEAN, Submit(ok) PROVE RingTyped'
<1>1. /\ pc = "submit" /\ UNCHANGED <<kinds, cq, id, kind, start, left, done, buf, size>>
      /\ pc' \in {"wait", "idle"} /\ ringOutcome' \in {ringOutcome, "err"}
      /\ \/ flight' = flight \cup ToSet(sq) /\ sq' = <<>>
         \/ UNCHANGED <<sq, flight>>
  BY DEF Submit, RingReturn, call
<1>2. ToSet(sq) \subseteq Read /\ sq \in Seq(Read)
  BY SetOfSeq DEF RingTyped, QueuesTyped
<1>3. QueuesTyped'
  <2>1. CASE flight' = flight \cup ToSet(sq) /\ sq' = <<>>
    <3>1. sq' \in Seq(Read) /\ Len(sq') = 0
      BY <2>1, EmptySeq
    <3> QED BY <1>1, <1>2, <2>1, <3>1, RingAssumption DEF RingTyped, QueuesTyped
  <2>2. CASE UNCHANGED <<sq, flight>>
    BY <1>1, <2>2 DEF RingTyped, QueuesTyped
  <2> QED BY <1>1, <2>1, <2>2
<1> QED BY <1>1, <1>3 DEF RingTyped, BufferTyped, CallTyped

LEMMA KernelTyped == ASSUME RingInv, RingTyped, Kernel PROVE RingTyped'
<1>1. PICK x \in flight : \E res \in {-1} \cup 0..x.n : Complete(x, res)
  BY DEF Kernel
<1>2. PICK res \in {-1} \cup 0..x.n : Complete(x, res)
  BY <1>1
<1>3. /\ x.n \in 1..Units /\ x.from \in 0..(Units - 1) /\ x.from + x.n <= Units /\ x.data \in 0..(Depth - 1)
  BY RingAssumption DEF RingTyped, QueuesTyped, Read, Sqe, WholeBuffer
<1>4. res \in -1..Units /\ res <= x.n
  BY <1>3, RingAssumption
<1>5. /\ UNCHANGED <<kinds, sq, id, kind, pc, left, done, size, ringOutcome>>
      /\ flight' = flight \ {x} /\ cq' = Append(cq, [data |-> x.data, res |-> res])
  BY <1>2 DEF Complete
<1>6. QueuesTyped'
  <2>1. cq \in Seq(Completion) /\ [data |-> x.data, res |-> res] \in Completion
    BY <1>3, <1>4 DEF RingTyped, QueuesTyped, Completion
  <2>2. cq' \in Seq(Completion)
    BY <1>5, <2>1, AppendProperties
  <2> QED BY <1>5, <2>2 DEF RingTyped, QueuesTyped
<1>7. BufferTyped'
  <2>1. CASE buf' = buf
    BY <1>5, <2>1 DEF RingTyped, BufferTyped
  <2>2. CASE buf' = [buf EXCEPT ![x.slot] = @ \cup x.from..(x.from + res - 1)]
    <3>1. x.from..(x.from + res - 1) \subseteq WholeBuffer
      BY <1>3, <1>4, RingAssumption DEF WholeBuffer
    <3>2. buf \in Seq(SUBSET WholeBuffer)
      BY DEF RingTyped, BufferTyped
    <3>3. buf \in [1..Len(buf) -> SUBSET WholeBuffer] /\ Len(buf) \in Nat
      BY <3>2, LenProperties
    <3>4. buf' \in [1..Len(buf) -> SUBSET WholeBuffer]
      BY <2>2, <3>1, <3>3
    <3>5. buf' \in Seq(SUBSET WholeBuffer) /\ Len(buf') = Len(buf) /\ DOMAIN buf' = DOMAIN buf
      BY <3>3, <3>4, FunIsSeq
    <3> QED BY <1>5, <3>5 DEF RingTyped, BufferTyped
  <2> QED BY <1>2, <2>1, <2>2 DEF Complete
<1>8. CallTyped'
  BY <1>5 DEF RingTyped, CallTyped
<1> QED BY <1>6, <1>7, <1>8 DEF RingTyped

LEMMA WaitTyped == ASSUME RingInv, RingTyped, Woken \/ Interrupted PROVE RingTyped'
<1>1. /\ UNCHANGED <<kinds, sq, flight, cq, id, kind, start, done, buf, size, ringOutcome>>
      /\ pc = "wait" /\ pc' = "reap" /\ left' = RingChunk
  BY DEF Woken, Interrupted, Reap, ring
<1>2. RingChunk \in 1..Depth
  BY <1>1, SqesTyped
<1>3. left' \in 0..Depth
  BY <1>1, <1>2, RingAssumption
<1> QED BY <1>1, <1>3 DEF RingTyped, QueuesTyped, BufferTyped, CallTyped

\* A completion is taken from the ring, or there is none.
LEMMA ReapTyped ==
  ASSUME RingInv, RingTyped, NoCompletion \/ ReapMany \/ ReapPage \/ ReapAt \/ ReapExact
  PROVE  RingTyped'
<1>1. /\ pc = "reap" /\ done \in 0..(Units - 1) /\ left \in 0..Depth
      /\ kind \in kinds /\ id \in 0..MaxCalls /\ id # 0
      /\ ringOutcome \in {"none", "ok", "err", "panic"}
  BY RingAssumption DEF NoCompletion, ReapMany, ReapPage, ReapAt, ReapExact, RingTyped, CallTyped
<1>2. UNCHANGED <<kinds, sq, flight, buf, id, kind>> /\ DOMAIN size' = DOMAIN size
  BY DEF NoCompletion, ReapMany, ReapPage, ReapAt, ReapExact, Refuse, Taken, ring, call
<1>3. cq' = cq \/ (cq # <<>> /\ cq' = Tail(cq))
  BY DEF NoCompletion, ReapMany, ReapPage, ReapAt, ReapExact, Refuse, Taken, ring
<1>4. QueuesTyped'
  BY <1>2, <1>3, HeadTailProperties DEF RingTyped, QueuesTyped
<1>5. BufferTyped'
  BY <1>2 DEF RingTyped, BufferTyped
<1>6. ASSUME RingReturn("ok") \/ RingReturn("err") \/ RingReturn("panic")
      PROVE  pc' = "idle" /\ ringOutcome' \in {"none", "ok", "err", "panic"}
  BY <1>6 DEF RingReturn
<1>7. ASSUME NextChunk PROVE CallTyped'
  <2>1. done' = done /\ left' \in 0..Depth
    BY <1>1, <1>7, RingAssumption DEF NextChunk, More
  <2>2. ringOutcome' \in {"none", "ok", "err", "panic"}
    BY <1>1, <1>6, <1>7 DEF NextChunk
  <2> QED BY <1>1, <1>2, <2>1, <2>2, RingAssumption DEF CallTyped
<1>8. ASSUME UNCHANGED <<left, done>>, RingReturn("ok") \/ RingReturn("err") \/ RingReturn("panic")
      PROVE  CallTyped'
  BY <1>1, <1>2, <1>6, <1>8, RingAssumption DEF CallTyped
<1>9. ASSUME ReapExact /\ ~Refuse("err") PROVE CallTyped'
  <2>1. cq # <<>> /\ done' = done + Head(cq).res /\ left' = left /\ ~(Head(cq).res < 0)
        /\ ((pc' = "push" /\ done' < Units /\ ringOutcome' = ringOutcome) \/ RingReturn("ok"))
    BY <1>9 DEF ReapExact
  <2>2. Head(cq) \in Completion
    BY <2>1, HeadTailProperties DEF RingTyped, QueuesTyped
  <2>3. Head(cq).res \in 0..Units
    BY <2>1, <2>2, RingAssumption DEF Completion
  <2>4. done' \in 0..(2 * Units)
    BY <1>1, <2>1, <2>3, RingAssumption
  <2>5. (pc' = "push" /\ done' < Units /\ ringOutcome' = ringOutcome)
        \/ (pc' = "idle" /\ ringOutcome' \in {"none", "ok", "err", "panic"})
    BY <1>6, <2>1
  <2>6. left' \in 0..Depth /\ id' \in 0..MaxCalls /\ kind' \in kinds'
    BY <1>1, <1>2, <2>1
  <2>7. ringOutcome' \in {"none", "ok", "err", "panic"} /\ (pc' # "idle" => id' # 0 /\ done' < Units)
    BY <1>1, <1>2, <2>5
  <2> QED BY <2>4, <2>6, <2>7 DEF CallTyped
<1>10. \/ NextChunk
       \/ UNCHANGED <<left, done>> /\ (RingReturn("ok") \/ RingReturn("err") \/ RingReturn("panic"))
       \/ ReapExact /\ ~Refuse("err")
  BY DEF NoCompletion, ReapMany, ReapPage, ReapAt, ReapExact, Refuse, call
<1>11. CallTyped'
  <2>1. NextChunk => CallTyped'
    BY <1>7
  <2>2. UNCHANGED <<left, done>> /\ (RingReturn("ok") \/ RingReturn("err") \/ RingReturn("panic"))
          => CallTyped'
    BY <1>8
  <2> QED BY <1>9, <1>10, <2>1, <2>2
<1> QED BY <1>4, <1>5, <1>11 DEF RingTyped

LEMMA RingTypedStep == RingInv /\ RingTyped /\ [RingNext]_ringVars => RingTyped'
<1> SUFFICES ASSUME RingInv, RingTyped, [RingNext]_ringVars PROVE RingTyped'
  OBVIOUS
<1>1. CASE \E k \in kinds, n \in 0..MaxReads : Begin(k, n)
  BY <1>1, BeginTyped
<1>2. CASE RingPush
  BY <1>2, PushTyped
<1>3. CASE \E ok \in BOOLEAN : Submit(ok)
  BY <1>3, SubmitTyped
<1>4. CASE Woken \/ Interrupted
  BY <1>4, WaitTyped
<1>5. CASE NoCompletion \/ ReapMany \/ ReapPage \/ ReapAt \/ ReapExact
  BY <1>5, ReapTyped
<1>6. CASE Kernel
  BY <1>6, KernelTyped
<1>7. CASE UNCHANGED ringVars
  BY <1>7 DEF RingTyped, QueuesTyped, BufferTyped, CallTyped, ringVars, ring, call
<1> QED BY <1>1, <1>2, <1>3, <1>4, <1>5, <1>6, <1>7 DEF RingNext, Thread

LEMMA RingIsTyped == RingSpec => []RingTypeOK
<1>1. RingInv /\ RingTyped => RingTypeOK
  <2> SUFFICES ASSUME RingInv, RingTyped PROVE RingTypeOK
    OBVIOUS
  <2>1. Read \in SUBSET Sqe
    BY DEF Read
  <2>2. sq \in Seq(Sqe) /\ flight \subseteq Sqe
    BY <2>1, SeqWidens DEF RingTyped, QueuesTyped
  <2>3. pc # "idle" => start < Len(buf) /\ done < Units
    BY DEF RingInv, ChunkInv, RingTyped, CallTyped
  <2> QED BY <2>2, <2>3
          DEF RingTypeOK, RingInv, RingTypes, RingTyped, QueuesTyped, BufferTyped, CallTyped, Completion
<1> QED BY <1>1, RingStart, RingStep, RingTypedStart, RingTypedStep, PTL DEF RingSpec

-----------------------------------------------------------------------------
(* The types of a gather.                                                  *)

\* The caller's rows are bytes, whatever was read; the walks stay within their
\* keys; groups are badges of the keys.
RowsTyped == out \in [1..Len(keys) -> [1..Width -> Bytes]]
SharesTyped == \A j \in 1..Len(walks) : walks[j].at <= walks[j].to + 1
GroupsTyped == groups \subseteq ToSet(BadgeKeys(keys)) /\ at \in Nat \ {0}
PlanTyped ==
  /\ plan.count = Len(plan.badges)
  /\ outcome = "called" => plan.badges \in Seq(Badge)
GatherTyped == RowsTyped /\ SharesTyped /\ GroupsTyped /\ PlanTyped

\* What every path knows of the call.
LEMMA CallKnown ==
  ASSUME GatherInv
  PROVE  CallTypes /\ outcome \in {"called", "gathering", "ok", "err", "panic"}
<1>1. PpInv => CallTypes /\ outcome \in {"called", "gathering", "ok", "err", "panic"}
  BY DEF PpInv, PpTypes
<1>2. WalksInv => CallTypes /\ outcome \in {"called", "gathering", "ok", "err", "panic"}
  BY DEF WalksInv
<1>3. PlannedInv \/ PlanInv => CallTypes /\ outcome \in {"called", "gathering", "ok", "err", "panic"}
  BY DEF PlannedInv, PlanInv, GroupTypes
<1> QED BY <1>1, <1>2, <1>3 DEF GatherInv, Walkers

LEMMA ExceptAny ==
  ASSUME NEW S, NEW s \in Seq(S), NEW i \in 1..Len(s), NEW e
  PROVE  /\ Len([s EXCEPT ![i] = e]) = Len(s)
         /\ \A j \in 1..Len(s) : [s EXCEPT ![i] = e][j] = IF j = i THEN e ELSE s[j]
<1>1. s \in Seq(S \cup {e})
  BY SeqWidens
<1> QED BY <1>1, ExceptSeq

\* One row is replaced.
LEMMA RowReplaced ==
  ASSUME RowsTyped, NEW i, NEW r, i \in 1..Len(keys) => r \in [1..Width -> Bytes],
         out' = [out EXCEPT ![i] = r], keys' = keys
  PROVE  RowsTyped'
<1>1. out \in [1..Len(keys) -> [1..Width -> Bytes]]
  BY DEF RowsTyped
<1>2. out' \in [1..Len(keys) -> [1..Width -> Bytes]]
  BY <1>1
<1> QED BY <1>2 DEF RowsTyped

LEMMA BlankTyped ==
  ASSUME NEW n \in Nat
  PROVE  [i \in 1..n |-> [x \in 1..Width |-> Zero]] \in [1..n -> [1..Width -> Bytes]]
<1>1. Zero \in Bytes
  BY ByteIs
<1> QED BY <1>1

\* A badge's buffer stays one of bytes.
LEMMA BadgeReadTyped ==
  ASSUME CallTypes, NEW k \in Nat, HasFile(k), NEW ok \in BOOLEAN,
         NEW bytes \in [0..(BadgeBytes - 1) -> Bytes]
  PROVE  BadgeRead(bytes, BadgeKey(k), ok) \in [0..(BadgeBytes - 1) -> Bytes]
<1>1. CASE ~ok
  BY <1>1 DEF BadgeRead
<1>2. CASE ok
  <2> DEFINE s == ShardOf(k)
             l == len[s]
             o == BadgeOf(k) * BadgeBytes
             f == BadgeRead(bytes, BadgeKey(k), ok)
  <2>1. s \in ShardIds /\ l \in Nat /\ o \in Nat
    BY BadgePlace DEF HasFile, CallTypes
  <2>2. f = [x \in 0..(BadgeBytes - 1) |-> IF x < BadgeBytes /\ o + x < l THEN <<s, o + x>> ELSE bytes[x]]
    BY <1>2 DEF BadgeRead, Filled, BadgeKey
  <2> HIDE DEF f, s, l, o
  <2>3. ASSUME NEW x \in 0..(BadgeBytes - 1) PROVE f[x] \in Bytes
    <3>1. o + x \in Nat
      BY <2>1, SizesAre
    <3>2. <<s, o + x>> \in Bytes
      BY <2>1, <3>1, ByteIs
    <3> QED BY <2>2, <3>2
  <2>4. f \in [0..(BadgeBytes - 1) -> Bytes]
    BY <2>2, <2>3
  <2> QED BY <2>4 DEF f
<1> QED BY <1>1, <1>2

\* A row from a badge's buffer.
LEMMA RowAtTyped ==
  ASSUME NEW k \in Nat, NEW bytes \in [0..(BadgeBytes - 1) -> Bytes]
  PROVE  RowAt(bytes, k) \in [1..Width -> Bytes]
<1>1. PICK src \in Nat : src = RowInBadge(k) * RowBytes
  BY BadgePlace
<1>2. src + RowBytes <= BadgeBytes /\ Width <= RowBytes /\ Width \in Nat /\ RowBytes \in Nat /\ BadgeBytes \in Nat
  BY <1>1, BadgePlace, SizesAre
<1>3. RowAt(bytes, k) = [x \in 1..Width |-> bytes[src + x - 1]]
  BY <1>1 DEF RowAt, Slice
<1>4. \A x \in 1..Width : src + x - 1 \in 0..(BadgeBytes - 1)
  BY <1>2
<1> QED BY <1>3, <1>4

-----------------------------------------------------------------------------
LEMMA GatherTypedStart == GatherInit => GatherTyped
<1> SUFFICES ASSUME GatherInit PROVE GatherTyped
  OBVIOUS
<1>1. walks = <<>> /\ at = 1 /\ groups = {} /\ plan = [badges |-> <<>>, count |-> 0]
  BY DEF GatherInit, EmptyPlan
<1>2. RowsTyped
  <2>1. out = Blank /\ Len(keys) \in Nat
    BY CallStarts
  <2> QED BY <2>1, BlankTyped DEF RowsTyped, Blank
<1>3. Len(<<>>) = 0 /\ 1..0 = {} /\ <<>> \in Seq(Badge)
  OBVIOUS
<1>4. SharesTyped
  BY <1>1, <1>3 DEF SharesTyped
<1> QED BY <1>1, <1>2, <1>3, <1>4 DEF GatherTyped, GroupsTyped, PlanTyped

\* gather_pp changes the rows in its last step.
LEMMA PpTyped ==
  ASSUME GatherInv, GatherTyped, method = "pp", Next, UNCHANGED badgeVars
  PROVE  GatherTyped'
<1>1. /\ keys' = keys /\ UNCHANGED <<walks, groups, at, plan>>
      /\ out' = out \/ (out' = Assembled)
      /\ outcome' = "called" => outcome = "called"
  BY DEF Next, Start, Fetch, FetchNowhere, Push, Return, badgeVars
<1>2. PpInv /\ RowsTyped
  BY DEF GatherInv, GatherTyped
<1>3. RowsTyped'
  <2>1. CASE out' = out
    BY <1>1, <1>2, <2>1 DEF RowsTyped
  <2>2. CASE out' = Assembled
    <3>1. DOMAIN out = 1..Len(keys) /\ keys \in Seq(Nat)
      BY <1>2 DEF RowsTyped, PpInv, PpTypes, CallTypes
    <3>2. ASSUME NEW i \in 1..Len(keys) PROVE Assembled[i] \in [1..Width -> Bytes]
      <4>1. CASE ~ \E r \in 1..Len(results) : i \in ToSet(results[r].idxs)
        BY <1>2, <3>1, <4>1, AssembledIs DEF RowsTyped
      <4>2. CASE \E r \in 1..Len(results) : i \in ToSet(results[r].idxs)
        <5>1. PICK r \in 1..Len(results) : \E n \in 1..Len(results[r].idxs) :
                results[r].idxs[n] = i /\ Assembled[i] = Cut(results[r], n)
          BY <1>2, <3>1, <4>2, AssembledIs
        <5>2. PICK n \in 1..Len(results[r].idxs) :
                results[r].idxs[n] = i /\ Assembled[i] = Cut(results[r], n)
          BY <5>1
        <5>3. results[r] \in Result /\ RowsInv(results[r].idxs, results[r].rows, keys, Good)
          BY <1>2, ElementOfSeq DEF PpInv, PpTypes
        <5>4. Cut(results[r], n) \in Seq(Bytes) /\ Len(Cut(results[r], n)) = Width
          BY <3>1, <5>3, CutIs
        <5> QED BY <5>2, <5>4, LenProperties
      <4> QED BY <4>1, <4>2
    <3>3. Assembled = [i \in 1..Len(keys) |-> Assembled[i]]
      BY <3>1 DEF Assembled
    <3> QED BY <1>1, <2>2, <3>2, <3>3 DEF RowsTyped
  <2> QED BY <1>1, <2>1, <2>2
<1> QED BY <1>1, <1>3 DEF GatherTyped, SharesTyped, GroupsTyped, PlanTyped

\* A share of the keys is at most one key short of none.
LEMMA ShareFits ==
  ASSUME CallTypes, NEW j \in 1..(IF Threaded THEN DivCeil(Len(keys), KeysOfWalk) ELSE 1)
  PROVE  FirstOf(j) <= LastOf(j) + 1
<1>1. Len(keys) \in Nat
  BY LenProperties DEF CallTypes
<1>2. CASE Threaded
  <2>1. PICK n \in Nat \ {0}, c \in Nat \ {0}, m \in Nat \ {0} :
          n = Len(keys) /\ c = KeysOfWalk /\ m = DivCeil(n, c) /\ j \in 1..m
    BY <1>1, <1>2, ShareIs
  <2>2. (j - 1) * c <= n /\ j * c = (j - 1) * c + c /\ (j - 1) * c \in Nat
    <3> DEFINE p == n + c - 1
    <3>1. p \in Nat /\ m = p \div c
      BY <2>1 DEF DivCeil
    <3> HIDE DEF p
    <3>2. p = m * c + (p % c) /\ p % c \in 0..(c - 1)
      BY <3>1, DivMod
    <3>3. PICK g \in Nat : g = j - 1 /\ g < m
      BY <2>1
    <3>4. g * c + c <= m * c /\ g * c \in Nat /\ m * c \in Nat /\ (g + 1) * c = g * c + c
      BY <2>1, <3>3, BlockBelow, DivMul
    <3>9. p % c \in Nat
      BY <2>1, <3>2
    <3>5. PICK a \in Nat, b \in Nat, r \in Nat : a = g * c /\ b = m * c /\ r = p % c
      BY <3>4, <3>9
    <3>6. a + c <= b /\ p = b + r /\ p = n + c - 1
      BY <3>2, <3>4, <3>5 DEF p
    <3>7. a <= n
      BY <2>1, <3>6
    <3>8. g + 1 = j
      BY <2>1, <3>3
    <3> QED BY <3>3, <3>4, <3>5, <3>7, <3>8
  <2>3. PICK a \in Nat, b \in Nat : a = (j - 1) * c /\ b = j * c /\ b = a + c /\ a <= n
    BY <2>1, <2>2
  <2>4. FirstOf(j) = a + 1 /\ LastOf(j) = IF b < n THEN b ELSE n
    BY <1>2, <2>1, <2>3 DEF FirstOf, LastOf
  <2> QED BY <2>1, <2>3, <2>4
<1>3. CASE ~Threaded
  BY <1>1, <1>3 DEF FirstOf, LastOf
<1> QED BY <1>2, <1>3

\* The steps of the walks.
LEMMA WalksTyped ==
  ASSUME GatherInv, GatherInv', GatherTyped, method \in Walkers,
         \/ StartWalks \/ EndWalks
         \/ \E j \in 1..Len(walks) : \/ WalkHit(j) \/ WalkNowhere(j)
                                     \/ \E ok \in BOOLEAN : WalkRead(j, ok)
  PROVE  GatherTyped'
<1>1. UNCHANGED <<len, keys, threads, method, groups, at, plan>> /\ (outcome' = "called" => outcome = "called")
  BY DEF StartWalks, EndWalks, WalkHit, WalkNowhere, WalkRead, callVars, badgeVars
<1>2. GroupsTyped' /\ PlanTyped'
  BY <1>1 DEF GatherTyped, GroupsTyped, PlanTyped
<1>3. WalksInv /\ WalksInv' /\ CallTypes /\ RowsTyped /\ SharesTyped
  BY <1>1 DEF GatherInv, WalksInv, GatherTyped, Walkers
<1>4. CASE StartWalks
  <2>1. out' = out
    BY <1>4 DEF StartWalks
  <2>2. RowsTyped'
    BY <1>1, <1>3, <2>1 DEF RowsTyped
  <2>3. SharesTyped'
    <3>1. /\ Threaded' = Threaded /\ KeysOfWalk' = KeysOfWalk
          /\ \A j : LastOf(j)' = LastOf(j) /\ FirstOf(j)' = FirstOf(j)
      BY <1>1 DEF Threaded, KeysOfWalk, LastOf, FirstOf
    <3> SUFFICES ASSUME NEW j \in 1..Len(walks') PROVE walks'[j].at <= walks'[j].to + 1
      BY DEF SharesTyped
    <3>2. j \in 1..(IF Threaded THEN DivCeil(Len(keys), KeysOfWalk) ELSE 1)
      <4>1. walks' # <<>>
        <5>1. Len(<<>>) = 0 /\ 1..0 = {}
          OBVIOUS
        <5> QED BY <5>1
      <4>2. Len(walks') = IF Threaded THEN DivCeil(Len(keys), KeysOfWalk) ELSE 1
        BY <1>1, <1>3, <3>1, <4>1 DEF WalksInv
      <4> QED BY <4>2
    <3>3. walks'[j] = NewWalk(FirstOf(j), LastOf(j))
      <4>1. CASE Threaded
        BY <1>4, <3>2, <4>1 DEF StartWalks, FirstOf, LastOf
      <4>2. CASE ~Threaded
        BY <1>4, <3>2, <4>2 DEF StartWalks, FirstOf, LastOf
      <4> QED BY <4>1, <4>2
    <3>4. FirstOf(j) <= LastOf(j) + 1
      BY <1>3, <3>2, ShareFits
    <3> QED BY <3>3, <3>4 DEF NewWalk
  <2> QED BY <1>2, <2>2, <2>3 DEF GatherTyped
<1>5. CASE EndWalks
  BY <1>1, <1>2, <1>3, <1>5 DEF EndWalks, badgeVars, GatherTyped, RowsTyped, SharesTyped
<1>6. ASSUME NEW j \in 1..Len(walks), WalkHit(j) \/ WalkNowhere(j) \/ \E ok \in BOOLEAN : WalkRead(j, ok)
      PROVE  GatherTyped'
  <2> DEFINE w == walks[j]
             k == keys[w.at]
  <2>1. w.state = "run" /\ w.at <= w.to
    BY <1>6 DEF WalkHit, WalkNowhere, WalkRead
  <2>2. w \in Walk /\ w.at \in 1..Len(keys) /\ k \in Nat /\ walks \in Seq(Walk)
    BY <1>3, <2>1, WalkAt
  <2>3. w.at \in Nat /\ w.to \in Nat /\ w.buf \in [0..(BadgeBytes - 1) -> Bytes] /\ DOMAIN walks = 1..Len(walks)
    BY <2>2, LenProperties DEF Walk
  <2>4. CASE WalkHit(j)
    <3>1. /\ out' = [out EXCEPT ![w.at] = RowAt(w.buf, k)] /\ walks' = [walks EXCEPT ![j] = [w EXCEPT !.at = @ + 1]]
      BY <2>4 DEF WalkHit
    <3>2. RowAt(w.buf, k) \in [1..Width -> Bytes]
      <4> HIDE DEF w, k
      <4> QED BY <2>2, <2>3, RowAtTyped
    <3>3. RowsTyped'
      BY <1>1, <1>3, <3>1, <3>2, RowReplaced
    <3>4. SharesTyped'
      <4> DEFINE v == [w EXCEPT !.at = @ + 1]
      <4>1. v.at = w.at + 1 /\ v.to = w.to
        BY <2>2, WalkMoved
      <4>2. Len(walks') = Len(walks) /\ \A i \in 1..Len(walks) : walks'[i] = IF i = j THEN v ELSE walks[i]
        BY <2>2, <3>1, ExceptAny
      <4> HIDE DEF v
      <4> QED BY <1>3, <2>1, <2>3, <4>1, <4>2 DEF SharesTyped
    <3> QED BY <1>2, <3>3, <3>4 DEF GatherTyped
  <2>5. CASE WalkNowhere(j)
    <3>1. out' = out /\ walks' = [walks EXCEPT ![j] = [w EXCEPT !.state = "panicked"]]
      BY <2>3, <2>5 DEF WalkNowhere
    <3>2. SharesTyped'
      <4> DEFINE v == [w EXCEPT !.state = "panicked"]
      <4>1. v.at = w.at /\ v.to = w.to
        BY <2>2 DEF Walk
      <4>2. Len(walks') = Len(walks) /\ \A i \in 1..Len(walks) : walks'[i] = IF i = j THEN v ELSE walks[i]
        BY <2>2, <3>1, ExceptAny
      <4> HIDE DEF v
      <4> QED BY <1>3, <4>1, <4>2 DEF SharesTyped
    <3>3. RowsTyped'
      BY <1>1, <1>3, <3>1 DEF RowsTyped
    <3> QED BY <1>2, <3>2, <3>3 DEF GatherTyped
  <2>6. ASSUME NEW ok \in BOOLEAN, WalkRead(j, ok) PROVE GatherTyped'
    <3> DEFINE f == BadgeRead(w.buf, BadgeKey(k), ok)
    <3>1. HasFile(k)
      BY <2>6 DEF WalkRead
    <3>2. f \in [0..(BadgeBytes - 1) -> Bytes] /\ RowAt(f, k) \in [1..Width -> Bytes]
      <4> HIDE DEF w, k
      <4>1. f \in [0..(BadgeBytes - 1) -> Bytes]
        BY <1>3, <2>2, <2>3, <3>1, BadgeReadTyped
      <4> HIDE DEF f
      <4> QED BY <2>2, <4>1, RowAtTyped
    <3>3. CASE ReadsBadge(BadgeKey(k), ok)
      <4> DEFINE v == Took(w, k, f)
      <4>1. out' = [out EXCEPT ![w.at] = RowAt(f, k)] /\ walks' = [walks EXCEPT ![j] = v]
        BY <2>6, <3>3 DEF WalkRead, Took
      <4>2. RowsTyped'
        BY <1>1, <1>3, <3>2, <4>1, RowReplaced
      <4>3. v.at = w.at + 1 /\ v.to = w.to
        <5> HIDE DEF w, k, f
        <5> QED BY <2>2, <3>2, WalkTook
      <4>4. Len(walks') = Len(walks) /\ \A i \in 1..Len(walks) : walks'[i] = IF i = j THEN v ELSE walks[i]
        BY <2>2, <4>1, ExceptAny
      <4> HIDE DEF v
      <4>5. SharesTyped'
        BY <1>3, <2>1, <2>3, <4>3, <4>4 DEF SharesTyped
      <4> QED BY <1>2, <4>2, <4>5 DEF GatherTyped
    <3>4. CASE ~ReadsBadge(BadgeKey(k), ok)
      <4> DEFINE v == [w EXCEPT !.buf = f, !.state = "err"]
      <4>1. out' = out /\ walks' = [walks EXCEPT ![j].buf = f, ![j].state = "err"]
        BY <2>6, <3>4 DEF WalkRead
      <4>2. walks' = [walks EXCEPT ![j] = v]
        BY <2>3, <4>1
      <4>3. v.at = w.at /\ v.to = w.to
        BY <2>2 DEF Walk
      <4>4. Len(walks') = Len(walks) /\ \A i \in 1..Len(walks) : walks'[i] = IF i = j THEN v ELSE walks[i]
        BY <2>2, <4>2, ExceptAny
      <4> HIDE DEF v
      <4>5. SharesTyped'
        BY <1>3, <4>3, <4>4 DEF SharesTyped
      <4>6. RowsTyped'
        BY <1>1, <1>3, <4>1 DEF RowsTyped
      <4> QED BY <1>2, <4>5, <4>6 DEF GatherTyped
    <3> QED BY <3>3, <3>4
  <2> QED BY <1>6, <2>4, <2>5, <2>6
<1> QED BY <1>4, <1>5, <1>6

\* The plan and the keys of a token that streams by.
LEMMA StreamTyped ==
  ASSUME GatherInv, GatherTyped, NEW rows \in RowsOfToken, NEW fresh \in BOOLEAN, Stream(rows, fresh)
  PROVE  GatherTyped'
<1>1. /\ outcome = "called" /\ keys' = rows /\ UNCHANGED <<walks, at, groups, outcome>>
      /\ out' = [i \in 1..Len(rows) |-> [x \in 1..Width |-> Zero]]
      /\ plan' = Entered(IF fresh THEN EmptyPlan ELSE plan, NewBadges(rows))
  BY DEF Stream
<1>2. rows \in Seq(Nat) /\ Len(rows) \in Nat
  <2>1. rows \in Seq(Keys) /\ Keys \subseteq Nat
    BY BadgeAssumption, GatherAssumption
  <2>2. rows \in Seq(Nat)
    BY <2>1, SeqWidens
  <2> QED BY <2>2, LenProperties
<1>3. RowsTyped'
  BY <1>1, <1>2, BlankTyped DEF RowsTyped
<1>4. groups = {}
  BY <1>1 DEF GatherInv
<1>5. PlanTyped'
  <2> DEFINE old == IF fresh THEN EmptyPlan ELSE plan
  <2>1. old.badges \in Seq(Badge) /\ old.count = Len(old.badges)
    <3>1. EmptyPlan.badges = <<>> /\ EmptyPlan.count = 0 /\ <<>> \in Seq(Badge) /\ Len(<<>>) = 0
      BY DEF EmptyPlan
    <3> QED BY <1>1, <3>1 DEF GatherTyped, PlanTyped
  <2>2. NewBadges(rows) \in Seq(Badge)
    BY <1>2, NewBadgesAre
  <2>3. plan'.badges = old.badges \o NewBadges(rows) /\ plan'.count = old.count + Len(NewBadges(rows))
    BY <1>1 DEF Entered
  <2> HIDE DEF old
  <2> QED BY <2>1, <2>2, <2>3, ConcatProperties DEF PlanTyped
<1> QED BY <1>1, <1>3, <1>4, <1>5 DEF GatherTyped, SharesTyped, GroupsTyped

\* A plan that is settled counts its badges.
LEMMA StartPlanTyped == ASSUME GatherInv, GatherTyped, StartPlan PROVE GatherTyped'
<1>1. /\ UNCHANGED <<keys, out, walks, at, groups>> /\ outcome' = "gathering"
      /\ plan' = IF tokens = 0 THEN Built(keys) ELSE Settled(plan)
  BY DEF StartPlan, callVars
<1>2. plan'.count = Len(plan'.badges)
  <2>1. \A p : Settled(p).count = Len(Settled(p).badges)
    BY DEF Settled
  <2> QED BY <1>1, <2>1 DEF Built
<1> QED BY <1>1, <1>2 DEF GatherTyped, RowsTyped, SharesTyped, GroupsTyped, PlanTyped

\* A key is looked up.
LEMMA LookTyped ==
  ASSUME GatherInv, GatherTyped, PlannedKey \/ \E ok \in BOOLEAN : UnplannedKey(ok)
  PROVE  GatherTyped'
<1>1. /\ outcome = "gathering" /\ at <= Len(keys) /\ UNCHANGED <<len, keys, walks, plan>>
      /\ outcome' # "called" /\ at' \in {at, at + 1}
  BY DEF PlannedKey, UnplannedKey, PlanLookup, callVars
<1>2. CallTypes /\ at \in Nat \ {0} /\ RowsTyped /\ groups \subseteq ToSet(BadgeKeys(keys))
  BY CallKnown DEF GatherTyped, GroupsTyped
<1>3. keys \in Seq(Nat) /\ at \in 1..Len(keys) /\ keys[at] \in Nat
  <2>1. keys \in Seq(Nat) /\ Len(keys) \in Nat
    BY <1>2, LenProperties DEF CallTypes
  <2>2. at \in 1..Len(keys)
    BY <1>1, <1>2, <2>1
  <2> QED BY <2>1, <2>2, ElementOfSeq
<1>4. SharesTyped' /\ PlanTyped' /\ at' \in Nat \ {0}
  BY <1>1, <1>2 DEF GatherTyped, SharesTyped, PlanTyped
<1>5. CASE PlannedKey
  <2>1. groups' = groups \cup {BadgeKey(keys[at])} /\ out' = out
    BY <1>5 DEF PlannedKey
  <2>2. BadgeKey(keys[at]) \in ToSet(BadgeKeys(keys))
    BY <1>3, BadgesOf
  <2>3. groups' \subseteq ToSet(BadgeKeys(keys'))
    BY <1>1, <1>2, <2>1, <2>2
  <2>4. RowsTyped'
    BY <1>1, <1>2, <2>1 DEF RowsTyped
  <2> QED BY <1>4, <2>3, <2>4 DEF GatherTyped, GroupsTyped
<1>6. CASE \E ok \in BOOLEAN : UnplannedKey(ok)
  <2> DEFINE k == keys[at]
             s == ShardOf(k)
             off == k * RowBytes
             row == Slice(Filled(Zeros(RowBytes), s, len[s], off, RowBytes), 0, RowBytes)
  <2>1. groups' = groups
    BY <1>6 DEF UnplannedKey
  <2>2. out' = out \/ (HasFile(k) /\ RowBytes = Width /\ out' = [out EXCEPT ![at] = row])
    BY <1>6 DEF UnplannedKey
  <2>3. ASSUME HasFile(k), RowBytes = Width PROVE row \in [1..Width -> Bytes]
    <3>1. s \in ShardIds /\ len[s] \in Nat /\ off \in Nat /\ RowBytes \in Nat
      BY <1>2, <1>3, <2>3, SizesAre DEF HasFile, CallTypes
    <3>2. BufferOf(Zeros(RowBytes), RowBytes, s)
      BY <3>1, ZerosIs
    <3> DEFINE f == Filled(Zeros(RowBytes), s, len[s], off, RowBytes)
    <3> HIDE DEF s, off
    <3>3. BufferOf(f, RowBytes, s)
      BY <3>1, <3>2, FilledIs
    <3> HIDE DEF f
    <3>4. IsSlice(Slice(f, 0, RowBytes), f, RowBytes, 0, RowBytes)
      BY <3>1, <3>3, SliceIs
    <3>5. Slice(f, 0, RowBytes) \in Seq(Bytes) /\ Len(Slice(f, 0, RowBytes)) = Width
      BY <2>3, <3>4 DEF IsSlice
    <3>6. Slice(f, 0, RowBytes) \in [1..Width -> Bytes]
      BY <3>5, LenProperties
    <3> QED BY <3>6 DEF f
  <2> HIDE DEF k, row
  <2>4. CASE out' = out
    BY <1>1, <1>2, <1>4, <2>1, <2>4 DEF GatherTyped, RowsTyped, GroupsTyped
  <2>5. CASE HasFile(k) /\ RowBytes = Width /\ out' = [out EXCEPT ![at] = row]
    <3>1. RowsTyped'
      BY <1>1, <1>2, <2>3, <2>5, RowReplaced
    <3> QED BY <1>1, <1>2, <1>4, <2>1, <3>1 DEF GatherTyped, GroupsTyped
  <2> QED BY <2>2, <2>4, <2>5
<1> QED BY <1>5, <1>6

\* The rows of a badge.
LEMMA GroupReadTyped ==
  ASSUME GatherInv, GatherTyped, NEW b \in groups, NEW ok \in BOOLEAN, GroupRead(b, ok)
  PROVE  GatherTyped'
<1>1. /\ UNCHANGED <<len, keys, walks, at, plan>> /\ groups' = groups \ {b} /\ outcome' # "called"
  BY DEF GroupRead, callVars
<1>2. CallTypes /\ RowsTyped /\ DOMAIN out = 1..Len(keys) /\ keys \in Seq(Nat)
  BY CallKnown DEF GatherTyped, RowsTyped, CallTypes
<1>3. RowsTyped'
  <2>1. CASE out' = out
    BY <1>1, <1>2, <2>1 DEF RowsTyped
  <2>2. CASE out' # out
    <3>1. /\ b[1] \in ShardIds
          /\ out' = [i \in DOMAIN out |->
                       IF i \in IndexesOf(b)
                       THEN RowAt(BadgeRead(Zeros(BadgeBytes), b, ok), keys[i])
                       ELSE out[i]]
      BY <2>2 DEF GroupRead
    <3>2. ASSUME NEW i \in 1..Len(keys), i \in IndexesOf(b)
          PROVE  RowAt(BadgeRead(Zeros(BadgeBytes), b, ok), keys[i]) \in [1..Width -> Bytes]
      <4>1. BadgeKey(keys[i]) = b /\ keys[i] \in Nat
        BY <1>2, <3>2, ElementOfSeq DEF IndexesOf
      <4>2. HasFile(keys[i])
        BY <3>1, <4>1 DEF HasFile, BadgeKey
      <4>3. Zeros(BadgeBytes) \in [0..(BadgeBytes - 1) -> Bytes]
        BY SizesAre, ZerosIs DEF BufferOf
      <4>4. BadgeRead(Zeros(BadgeBytes), b, ok) \in [0..(BadgeBytes - 1) -> Bytes]
        BY <1>2, <4>1, <4>2, <4>3, BadgeReadTyped
      <4> QED BY <4>1, <4>4, RowAtTyped
    <3>3. \A i \in 1..Len(keys) : out'[i] \in [1..Width -> Bytes]
      BY <1>2, <3>1, <3>2 DEF RowsTyped
    <3>4. out' = [i \in 1..Len(keys) |-> out'[i]]
      BY <1>2, <3>1
    <3> QED BY <1>1, <3>3, <3>4 DEF RowsTyped
  <2> QED BY <2>1, <2>2
<1> QED BY <1>1, <1>3 DEF GatherTyped, SharesTyped, GroupsTyped, PlanTyped

LEMMA GatherTypedStep ==
  GatherInv /\ GatherInv' /\ GatherTyped /\ [GatherNext]_allVars => GatherTyped'
<1> SUFFICES ASSUME GatherInv, GatherInv', GatherTyped, [GatherNext]_allVars PROVE GatherTyped'
  OBVIOUS
<1>1. CASE method = "pp" /\ Next /\ UNCHANGED badgeVars
  BY <1>1, PpTyped
<1>2. CASE \/ StartWalks \/ EndWalks
           \/ \E j \in 1..Len(walks) : \/ WalkHit(j) \/ WalkNowhere(j)
                                       \/ \E ok \in BOOLEAN : WalkRead(j, ok)
  <2>1. method \in Walkers
    <3>1. CASE StartWalks
      BY <3>1 DEF StartWalks, Walkers
    <3>2. CASE ~StartWalks
      <4>1. walks # <<>>
        <5>1. Len(<<>>) = 0 /\ 1..0 = {}
          OBVIOUS
        <5> QED BY <1>2, <3>2, <5>1 DEF EndWalks
      <4> QED BY <4>1 DEF GatherInv
    <3> QED BY <3>1, <3>2
  <2> QED BY <1>2, <2>1, WalksTyped
<1>3. CASE StartPlanned
  <2>1. UNCHANGED <<keys, out, walks, at, plan>> /\ groups' = ToSet(BadgeKeys(keys)) /\ outcome' # "called"
    BY <1>3 DEF StartPlanned, callVars
  <2> QED BY <2>1 DEF GatherTyped, RowsTyped, SharesTyped, GroupsTyped, PlanTyped
<1>4. CASE \E rows \in RowsOfToken, fresh \in BOOLEAN : Stream(rows, fresh)
  BY <1>4, StreamTyped
<1>5. CASE StartPlan
  BY <1>5, StartPlanTyped
<1>6. CASE PlannedKey \/ \E ok \in BOOLEAN : UnplannedKey(ok)
  BY <1>6, LookTyped
<1>7. CASE \E b \in groups, ok \in BOOLEAN : GroupRead(b, ok)
  BY <1>7, GroupReadTyped
<1>8. CASE EndGroups \/ UNCHANGED allVars
  <2>1. UNCHANGED <<keys, out, walks, at, groups, plan>> /\ (outcome' = "called" => outcome = "called")
    BY <1>8 DEF EndGroups, allVars, vars, callVars, badgeVars
  <2> QED BY <2>1 DEF GatherTyped, RowsTyped, SharesTyped, GroupsTyped, PlanTyped
<1> QED BY <1>1, <1>2, <1>3, <1>4, <1>5, <1>6, <1>7, <1>8 DEF GatherNext

-----------------------------------------------------------------------------
LEMMA GatherIsTyped == GatherSpec => []GatherTypeOK
<1>1. ASSUME GatherInv, GatherTyped, PlannerInv PROVE GatherTypeOK
  <2>1. CallTypes /\ outcome \in {"called", "gathering", "ok", "err", "panic"}
    BY <1>1, CallKnown
  <2>2. /\ out \in [1..Len(keys) -> [1..Width -> Bytes]] /\ Len(keys) \in Nat
    BY <1>1, <2>1, LenProperties DEF GatherTyped, RowsTyped, CallTypes
  <2>3. Len(out) = Len(keys) /\ \A i \in DOMAIN out : out[i] \in [1..Width -> Bytes]
    BY <2>2, FunIsSeq
  <2>4. \A j \in 1..Len(walks) :
          /\ walks[j].state \in {"run", "err", "panicked"}
          /\ walks[j].at \in 1..(walks[j].to + 1) /\ walks[j].to <= Len(keys)
          /\ DOMAIN walks[j].buf = 0..(BadgeBytes - 1)
    <3> SUFFICES ASSUME NEW j \in 1..Len(walks)
                 PROVE  /\ walks[j].state \in {"run", "err", "panicked"}
                        /\ walks[j].at \in 1..(walks[j].to + 1) /\ walks[j].to <= Len(keys)
                        /\ DOMAIN walks[j].buf = 0..(BadgeBytes - 1)
      OBVIOUS
    <3>1. WalksInv
      <4>1. walks # <<>>
        <5>1. Len(<<>>) = 0 /\ 1..0 = {}
          OBVIOUS
        <5> QED BY <5>1
      <4> QED BY <1>1, <4>1 DEF GatherInv
    <3>2. /\ walks \in Seq(Walk) /\ Len(walks) \in Nat
          /\ walks[j].to = LastOf(j) /\ walks[j].at >= FirstOf(j)
      BY <3>1, LenProperties DEF WalksInv
    <3>3. walks[j] \in Walk /\ j \in Nat \ {0}
      BY <3>2, ElementOfSeq
    <3>4. FirstOf(j) \in Nat \ {0} /\ LastOf(j) \in Nat /\ LastOf(j) <= Len(keys)
      BY <2>1, <3>3, ShareIs
    <3>5. walks[j].at <= walks[j].to + 1
      BY <1>1 DEF GatherTyped, SharesTyped
    <3>6. walks[j].at \in Nat /\ walks[j].state \in {"run", "err", "panicked"}
          /\ DOMAIN walks[j].buf = 0..(BadgeBytes - 1)
      BY <3>3 DEF Walk
    <3> QED BY <3>2, <3>4, <3>5, <3>6
  <2>5. method = "pp" => TypeOK
    <3> SUFFICES ASSUME method = "pp" PROVE TypeOK
      OBVIOUS
    <3>1. PpInv
      BY <1>1 DEF GatherInv
    <3>2. outcome \in {"called", "gathering", "ok", "panic"} /\ clean \in BOOLEAN
      BY <2>1, <3>1 DEF PpInv, CallTypes
    <3>3. ASSUME NEW j \in 1..Len(jobs)
          PROVE  /\ jobs[j].state \in {"run", "done", "panicked"}
                 /\ DOMAIN jobs[j].page = 0..(Page + 2 * RowBytes - 1)
                 /\ Len(jobs[j].rows) = Len(jobs[j].idxs) * RowBytes
      <4>1. jobs[j] \in Job /\ JobInv(jobs[j], keys, Good)
        BY <3>1, JobAt DEF PpInv
      <4>2. jobs[j].state \in {"run", "done", "panicked"} /\ DOMAIN jobs[j].page = 0..(PageSize - 1)
        BY <4>1 DEF Job
      <4>3. Len(jobs[j].rows) = Len(jobs[j].idxs) * RowBytes
        BY <4>1 DEF JobInv, RowsInv
      <4>4. 0..(PageSize - 1) = 0..(Page + 2 * RowBytes - 1)
        BY SizesAre DEF PageSize
      <4> QED BY <4>2, <4>3, <4>4
    <3>4. \A r \in 1..Len(results) : Len(results[r].rows) = Len(results[r].idxs) * RowBytes
      BY <3>1 DEF PpInv, RowsInv
    <3> QED BY <2>3, <3>2, <3>3, <3>4 DEF TypeOK
  <2>6. WindowIsQueue
    <3>1. window = ToSet(queue) /\ Cardinality(ToSet(queue)) = Len(queue) /\ Len(queue) <= WindowBadges
      BY <1>1, DistinctCard DEF PlannerInv
    <3> QED BY <3>1 DEF WindowIsQueue
  <2>7. groups \subseteq ToSet(BadgeKeys(keys)) /\ plan.count = Len(plan.badges)
    BY <1>1 DEF GatherTyped, GroupsTyped, PlanTyped
  <2> QED BY <2>1, <2>3, <2>4, <2>5, <2>6, <2>7 DEF GatherTypeOK
<1>2. GatherInit => GatherTyped
  BY GatherTypedStart
<1> QED BY <1>1, <1>2, GatherTypedStep, GatherAlways, PlannerAlways, PTL DEF GatherSpec

\* A behaviour of the run is one of a gather and one of a ring.
LEMMA ReadsParts == ReadsSpec => GatherSpec /\ RingSpec
<1>1. ReadsInit => GatherInit /\ RingInit
  BY DEF ReadsInit
<1>2. [ReadsNext]_<<part, allVars, ringVars>> => [GatherNext]_allVars /\ [RingNext]_ringVars
  BY DEF ReadsNext
<1> QED BY <1>1, <1>2, PTL DEF ReadsSpec, GatherSpec, RingSpec

\* Types of a gather and of the ring, with the planner's two halves in step
\* (planner.rs 17-20), for every table, file and ring.
THEOREM ReadsTyped == ReadsSpec => []ReadsTypeOK
<1>1. GatherTypeOK /\ RingTypeOK => ReadsTypeOK
  BY DEF ReadsTypeOK
<1> QED BY <1>1, ReadsParts, GatherIsTyped, RingIsTyped, PTL
=============================================================================
