------------------------------- MODULE GatherPp ------------------------------
(***************************************************************************)
(* BadgeGather::gather_pp (crates/engramdb-io/src/batch.rs), the read path *)
(* of the CLI, the server, the C ABI, PyO3 and the view builder: keys are  *)
(* grouped by shard, the groups are dealt to jobs of the thread pool, each *)
(* job reads its shards page by page in key order, and the caller puts the *)
(* rows back in the order of the keys.                                     *)
(*                                                                         *)
(* The pool (ScopePool) appears as what it promises its caller: every job  *)
(* runs and scope_run returns after the last one.                          *)
(***************************************************************************)
EXTENDS Layout, Sorting

CONSTANTS Keys,    \* keys a caller may ask for
          MaxKeys, \* bound: keys of one call
          Threads, \* numbers of threads a caller may ask for
          Lengths  \* possible lengths of a shard file

ASSUME GatherAssumption ==
  /\ Keys \subseteq Nat /\ MaxKeys \in Nat /\ Threads \subseteq Nat
  /\ Lengths \subseteq Nat

VARIABLES
  len,     \* len[s]: bytes of the file of shard s (never changes)
  keys,    \* the keys of the call
  threads,
  jobs,    \* the jobs of the call, in the order they were made
  results, \* what finished jobs have pushed
  out,     \* out[i]: the bytes of the i-th row of the caller's buffer
  outcome, \* "called", "gathering", "ok" or "panic"
  \* History variables.
  clean    \* no read has failed

vars == <<len, keys, threads, jobs, results, out, outcome, clean>>

None == -1

Init ==
  /\ len \in [ShardIds -> Lengths]
  /\ keys \in UNION {[1..n -> Keys] : n \in 0..MaxKeys}
  /\ threads \in Threads
  /\ jobs = <<>> /\ results = <<>>
  /\ out = [i \in 1..Len(keys) |-> [x \in 1..Width |-> Zero]]
  /\ outcome = "called" /\ clean = TRUE

-----------------------------------------------------------------------------

\* The pairs (key, index) of a shard are sorted.
Before(p, q) == p[1] < q[1] \/ (p[1] = q[1] /\ p[2] < q[2])

Pairs(s) == SortedBy({<<keys[i], i>> : i \in {j \in 1..Len(keys) : ShardOf(keys[j]) = s}}, Before)

\* One task for each shard that has keys, in ascending order.
Tasks == SortedBy({ShardOf(keys[i]) : i \in 1..Len(keys)}, <)

DivCeil(a, b) == (a + b - 1) \div b

\* Tasks of one job.
Chunk ==
  LET most == IF threads < 1 THEN 1 ELSE threads
  IN  DivCeil(Len(Tasks), IF most < Len(Tasks) THEN most ELSE Len(Tasks))

\* The tasks of job j.
JobTasks(j) ==
  SubSeq(Tasks, (j - 1) * Chunk + 1, IF j * Chunk < Len(Tasks) THEN j * Chunk ELSE Len(Tasks))

NewJob(j) ==
  [todo |-> FlattenSeq([n \in 1..Len(JobTasks(j)) |-> Pairs(JobTasks(j)[n])]),
   state |-> "run", shard |-> None, lastPage |-> None,
   page |-> Zeros(Page + 2 * RowBytes), idxs |-> <<>>, rows |-> <<>>]

\* Deal the tasks to jobs.  Without keys the division by no threads panics.
Start ==
  /\ outcome = "called"
  /\ IF keys = <<>>
     THEN outcome' = "panic" /\ UNCHANGED jobs
     ELSE outcome' = "gathering" /\ jobs' = [j \in 1..DivCeil(Len(Tasks), Chunk) |-> NewJob(j)]
  /\ UNCHANGED <<len, keys, threads, results, out, clean>>

-----------------------------------------------------------------------------
\* MUTANT of ByteOff: the offset of the row in the whole table.
ByteOffGlobal(k) == k * RowBytes

\* Where a row starts in the file of its shard, and the page it starts in.
ByteOff(k) == LocalRow(k) * RowBytes
PageId(k) == ByteOff(k) - (ByteOff(k) % Page)

\* MUTANT of Buffer: one page buffer for all shards of a job.
BufferShared(job, s) == job.page

\* Each shard of a job starts with a fresh page buffer.
Buffer(job, s) == IF job.shard = s THEN job.page ELSE Zeros(Page + 2 * RowBytes)

\* Whether a row reaches into the next page.
Straddles(k) == ByteOff(k) - PageId(k) + RowBytes > Page

\* The page that key k is taken from: read unless it was the last one read.
NeedsPage(job, k) == job.shard # ShardOf(k) \/ job.lastPage # PageId(k)

PageFor(job, k, ok) ==
  LET s == ShardOf(k) IN
  IF NeedsPage(job, k) /\ ok
  THEN Filled(Buffer(job, s), s, len[s], PageId(k), Page + RowBytes)
  ELSE Buffer(job, s)

RowFor(job, k, pageOk, rowOk) ==
  LET s == ShardOf(k) IN
  IF ~Straddles(k)
  THEN Slice(PageFor(job, k, pageOk), ByteOff(k) - PageId(k), RowBytes)
  ELSE Slice(IF rowOk THEN Filled(Zeros(RowBytes), s, len[s], ByteOff(k), RowBytes)
             ELSE Zeros(RowBytes), 0, RowBytes)

\* Job j takes its next key.  A failed read is ignored: the buffer stays.
Fetch(j, pageOk, rowOk) ==
  LET job == jobs[j]
      k   == job.todo[1][1]
      i   == job.todo[1][2] IN
  /\ job.state = "run" /\ job.todo # <<>>
  /\ ShardOf(k) \in ShardIds
  /\ jobs' = [jobs EXCEPT ![j] =
                [job EXCEPT !.todo = Tail(@),
                            !.shard = ShardOf(k),
                            !.lastPage = PageId(k),
                            !.page = PageFor(job, k, pageOk),
                            !.idxs = Append(@, i),
                            !.rows = @ \o RowFor(job, k, pageOk, rowOk)]]
  /\ clean' = (clean /\ (NeedsPage(job, k) => pageOk) /\ (Straddles(k) => rowOk))
  /\ UNCHANGED <<len, keys, threads, results, out, outcome>>

\* A shard without a file: the index into files panics, the job is lost.
FetchNowhere(j) ==
  /\ jobs[j].state = "run" /\ jobs[j].todo # <<>>
  /\ ShardOf(jobs[j].todo[1][1]) \notin ShardIds
  /\ jobs' = [jobs EXCEPT ![j].state = "panicked"]
  /\ UNCHANGED <<len, keys, threads, results, out, outcome, clean>>

\* Under the lock, in whatever order the jobs finish.
Push(j) ==
  /\ jobs[j].state = "run" /\ jobs[j].todo = <<>>
  /\ jobs' = [jobs EXCEPT ![j].state = "done"]
  /\ results' = Append(results, [idxs |-> jobs[j].idxs, rows |-> jobs[j].rows])
  /\ UNCHANGED <<len, keys, threads, out, outcome, clean>>

\* MUTANT of Cut: the last byte of a row is left out.
CutShort(r, n) == SubSeq(r.rows, (n - 1) * Width + 1, n * Width - 1)

\* The n-th row of a result: width bytes of the flat rows.
Cut(r, n) == SubSeq(r.rows, (n - 1) * Width + 1, n * Width)

\* Each row goes to the index its job noted for it.
Assembled ==
  [i \in DOMAIN out |->
     IF \E r \in 1..Len(results) : i \in ToSet(results[r].idxs)
     THEN LET r == CHOOSE q \in 1..Len(results) : i \in ToSet(results[q].idxs)
          IN  Cut(results[r], CHOOSE n \in 1..Len(results[r].idxs) : results[r].idxs[n] = i)
     ELSE out[i]]

\* scope_run returns and the caller fills out, or it re-raises a panic.  raised
\* says which: the pool may lose a panic (PanicReplayed of ScopePool).
Return(raised) ==
  /\ outcome = "gathering"
  /\ \A j \in 1..Len(jobs) : jobs[j].state # "run"
  /\ raised => \E j \in 1..Len(jobs) : jobs[j].state = "panicked"
  /\ IF raised
     THEN outcome' = "panic" /\ UNCHANGED out
     ELSE outcome' = "ok" /\ out' = Assembled
  /\ UNCHANGED <<len, keys, threads, jobs, results, clean>>

Next ==
  \/ Start
  \/ \E j \in 1..Len(jobs) :
       \/ \E pageOk, rowOk \in BOOLEAN : Fetch(j, pageOk, rowOk)
       \/ FetchNowhere(j)
       \/ Push(j)
  \/ \E raised \in BOOLEAN : Return(raised)

Spec == Init /\ [][Next]_vars

-----------------------------------------------------------------------------
(* Properties.                                                             *)

Bytes == {Zero} \cup (ShardIds \X Nat)

TypeOK ==
  /\ outcome \in {"called", "gathering", "ok", "panic"} /\ clean \in BOOLEAN
  /\ \A i \in DOMAIN out : out[i] \in [1..Width -> Bytes]
  /\ \A j \in 1..Len(jobs) :
       /\ jobs[j].state \in {"run", "done", "panicked"}
       /\ DOMAIN jobs[j].page = 0..(Page + 2 * RowBytes - 1)
       /\ Len(jobs[j].rows) = Len(jobs[j].idxs) * RowBytes
  /\ \A r \in 1..Len(results) : Len(results[r].rows) = Len(results[r].idxs) * RowBytes

\* The keys of the call are rows of the table.
InTable == \A i \in 1..Len(keys) : ShardOf(keys[i]) \in ShardIds

Exact == \A i \in 1..Len(keys) : out[i] = SubSeq(RowOf(keys[i]), 1, Width)

\* The jobs that took index i took it first.
TakenFirst(i) ==
  \A r \in 1..Len(results) : \A n \in 1..Len(results[r].idxs) : results[r].idxs[n] = i => n = 1

\* The jobs that took index i took no key of another shard.
TakenAlone(i) ==
  \A r \in 1..Len(results) : i \in ToSet(results[r].idxs) =>
    \A n \in 1..Len(results[r].idxs) : ShardOf(keys[results[r].idxs[n]]) = ShardOf(keys[i])

\* A call whose reads all succeed on whole files returns for every key, repeated
\* keys too, the row of that key (batch.rs 165-166).  Rows are collected RowBytes
\* apart (221, 225) and cut out Width apart (243): with columns of more than one
\* byte that is so for the first row of each job, and false for the others.
RowsExact ==
  outcome = "ok" /\ InTable /\ clean /\ (\A s \in ShardIds : len[s] = ShardBytes) =>
    \A i \in 1..Len(keys) :
      ElemBytes = 1 \/ TakenFirst(i) => out[i] = SubSeq(RowOf(keys[i]), 1, Width)

\* What backend.rs 5 and 90 say of a read (it fills its buffer or fails): a call
\* that succeeds returns the rows it was asked for.
RowsOrError == outcome = "ok" /\ InTable => Exact

\* Whatever fails and however short the files are, no row ever holds bytes of
\* another shard (198-200: the page buffer belongs to one shard).  With columns of
\* more than one byte the cut (243) reaches into rows the job took before, so there
\* the jobs must have taken keys of one shard.
OwnShardOnly ==
  outcome = "ok" => \A i \in 1..Len(keys), x \in 1..Width :
    (ElemBytes = 1 \/ TakenAlone(i)) /\ out[i][x] # Zero => out[i][x][1] = ShardOf(keys[i])

=============================================================================
