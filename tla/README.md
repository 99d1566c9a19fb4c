# EngramDB: TLA+ models, model checking and proofs

EngramDB keeps a large embedding table (n-gram rows for a language model) on
disk and serves rows to the model while it generates text.  This directory
models the parts of it that carry state across calls, threads, processes or
crashes, checks them with TLC on small instances, and proves the properties that
matter most, for every value of the constants, with TLAPS.

`tlc -workers 2 -config Pools.cfg MCPools` runs a check (the pairs are
in PROJECT.json, "runs"); `tlapm PoolProofs.tla` checks the proofs of a
module.  PROJECT.json also says which lines of the source each definition
translates ("map"), which hazards of the code the properties are for
("hazards"), and how a bug would break each property ("mutants").

Paths below are relative to the repository's root.

## 1. The system

### 1.1 Parts, their state, and what is hard about them

| part | state | operations | hard behaviour | what makes it correct |
|---|---|---|---|---|
| Worker pool, `crates/engramdb-io/src/pool.rs` | job queue, completion count and panic list of each call, two condition variables | `scope_run`, `submit_many`, `worker_loop` | callers and workers interleave; lifetimes are erased with a transmute; wakeups may be lost or spurious; a job may panic between any two steps | no job runs after its call has returned; no batch waits while all workers sleep; a panic reaches the caller it belongs to; the call returns |
| Handle pool, `python/engramdb/pool.py`, used by `tables.py` | a LIFO queue of native handles, `_closed`, one shared `_current` | `acquire`, `release`, `with`, `close` | threads block on the queue while another one closes it; the `with` protocol goes through one attribute of the pool | a handle has one user; none is lost; `release` never blocks; a waiter is served |
| Disk-backed embedding, `python/engramdb/vllm_plugin.py` | row cache, pending futures, rows they will bring, rows kept without a cache | `prefetch`, `forward`, `close` | futures finish, fail or time out between the calls that look at them | the bookkeeping matches the futures; the cache is bounded; prefetched rows are not read twice; `close` leaves nothing running |
| N-gram histories, `python/engramdb/ple_memory.py`, `adapter.py`, `crates/engramdb-keygen` | an ordered dictionary of sequences, the last tokens of each | `feed`, `forward`, `reset_request`, `end_request`, `clear`, eviction | batches in which one request is there twice; failures in mid-batch; eviction within a batch | feeding in pieces is feeding at once; only the least recently used sequence is dropped |
| Gathers, `crates/engramdb-io/src/batch.rs`, `planner.rs`, `backend.rs`, `crates/engramdb-core/src/store.rs`, `layout.rs` | page and badge buffers per job, the prefetch plan, the planner's window | six read paths of a sharded table | buffers that are reused after a failed or short read; rows that straddle pages; offsets per shard; jobs that end in any order | the caller gets the rows it asked for, in its order, or an error |
| Disk slot index, `crates/engramdb/src/slot_index.rs`, `python/engramdb/disk_slot_index.py` | bucket files, or a data file with offsets, `index.json`, a reader's cache of buckets | build in three formats, open, lookup, verify | builds over the files of older builds, crashes between writes, readers that opened before a rebuild | a gram's slot is its slot; a slot that was never written is never returned |
| Materialised views, `crates/engramdb-io/src/view.rs`, `main.rs` (`view build`, `view verify`), `ple_memory.py` (`fetch_raw`) | view file, keys file, manifest, index | three builders, verify, parallel record reads | four files that are written one after the other without a rename; a reader of a half-built view | a record is the record of the gram it is returned for; verify accepts what a build has left |
| io_uring reads, `crates/engramdb-io/src/backend.rs`, `crates/engramdb-pyo3/src/lib.rs` | a ring per thread that lives from call to call | `read_many`, `read_at`, `read_exact_at`, `read_pages` | completions in any order, short or failed; a call that fails leaves entries in the ring | exact bytes, and a clean ring, as long as no call has failed |
| Service, `crates/engramdb/src/serve.rs`, `python/engramdb/server.py`, `service_client.py` | the byte streams of a connection, the client's socket | line-JSON and framed requests, one thread per connection; `request` with a timeout | sends cut off half-way, late answers, panics, peers that leave | answers come whole and in order; a request returns; a handler ends with its client |
| Table registry, `python/engramdb/tables.py` | two dictionaries, of stores and of pools by table | `open_store`, `open_pool`, `fetch`, `close` | handler threads share it without a lock: tests and inserts interleave, `close` iterates over a dictionary that grows | a closed pool is forgotten; one table has one pool |
| In-memory slot index, `python/engramdb/slot_index.py` | the first slot of each gram | build, lookup | built once, from the keys file found then, while the view is rebuilt | the record is the gram's, as long as no rebuild came in between |
| One-step-late reader, `scripts/serve_ple_ab.py` | the rows of the previous step, a lock, a thread per step | `fetch`, `close` | a thread that is joined under the lock it needs | `fetch` returns |
| N-gram embedding on disk, `python/engramdb/ple_adapter.py` | a context per batch row, over a disk-backed embedding | `prefetch`, `forward`, `reset_history`, `close` | prefetches of a future the contexts have not reached; batches of changing size; reads that fail after the contexts have advanced | the rows asked for are those of the whole history; a prefetch covers its forward |
| `integrations.py` | a second row cache | `forward` | eviction within a request | not modelled (section 6) |
| Hot set and counts, `tiers.rs`, `count_index.rs` | none between calls | count, choose, encode | boundaries of the input | not modelled (section 6) |
| The rest: C ABI, native bindings, target readers, bundles, engine adapters, discovery, CLI, benchmarks | none, or fixed at start-up | single passes and wrappers | – | PROJECT.json, "components", gives the reason for each |

### 1.2 How they interact

* `gather_pp` and the parallel reads of a view hand their jobs to the **worker
  pool** and wait in `scope_run`.  GatherPp and ViewStore let the jobs of a call
  run in any order and end before the call does: this is exactly the promise
  that ForkJoin states and that ScopePool is proved to keep.
* A connection of the **service** has a handler thread of its own; connections
  meet in the `Database` only.  Python's handlers open tables and share handles
  through it, Rust's open the table for each request.
* The `Database` is the **table registry**: a handler's fetch looks up, or makes,
  the table's **handle pool**, and borrows a native handle from it; `close` of
  the registry closes every pool in it.  A handle's methods are gathers.
* The **planner** turns the tokens of a stream into plans; `gather_plan` reads a
  plan's badges and then looks its keys up in them.  BadgeGather composes both.
* `DiskPleNGramEmbedding` hashes its contexts into row ids and hands them to a
  **disk-backed embedding** of its own.  PleNGram is written over
  DiskPleEmbedding, so one run checks both.
* `PleMemory.fetch` hashes a **sequence's** window into row ids and gathers them;
  `fetch_raw` asks the **slot index**, on disk or in memory, for slots and reads
  the **view**.
  `view build --slot-index` builds both, from the keys file it has just written.
* The **io_uring** ring stands below `read_exact_at` and `read_many` when a
  backend asks for it; GatherPp's reads are its results.

Stale state is the recurring theme: nearly every part reuses something (a
buffer, a ring, a cached bucket, an attribute, files of an earlier build)
whose earlier owner may not have finished with it.

## 2. The modules

A module has one action per operation, or per step of it where another actor
may come in between.  Names are the source's where TLA+ allows it.  A bound that
only keeps the state space finite is a CONSTANT commented `bound:`.  Next to a
definition stands the form a bug would give it (`MUTANT of ...`); no action of
a specification uses it, it shows that a property can fail.

### ForkJoin, ScopePool, PoolProofs: `pool.rs`

ForkJoin is what `scope_run` promises (pool.rs 174–183): a call opens with n
jobs, they run once each in any order, and the call returns when all have run.

ScopePool is how the code does it.  A caller's `cpc` follows `scope_run`:
`ScopePooled` (wrap, append under the lock), `NotifyOne` (one `notify_one` at a
time; an idle notification is lost), `AwaitDone` (the check and the wait on the
count), `DrainPanics`; or `ScopeThreads`, `ThreadRun`, `ThreadsJoined` when
there is no pool or more jobs than workers (196–205).  A worker's `wpc` follows
`worker_loop` and the wrapper: `PopJob`, `WorkerWait`, `RunJob`, `CountDone`,
`RecordPanic`.  Each of these is a region between two lock operations.
Counting and recording are two steps, as in the code (225–233).  Both condition
variables wake spuriously.  `call[c]` numbers the calls, so a job that outlives
its call is visible; it can still run its last step, on the shared counters
its `Arc`s keep alive (`ForCall`).  `ran`, `counted`, `failed` are history.

### StorePool, PoolProofs: `pool.py`, `Database.fetch`

`pc[t]` is the next step of thread t.  `acquire` is the check of `_closed`, then
the non-blocking or the blocking `get`, then the statistics; `with` adds the
store into `_current` and the separate load that returns it (111–112), and on
exit the load, the release and the reset (118–120).  `release` reads `_closed`
and puts afterwards; `close` sets the flag and drains.  Only threads in
`WithThreads` use `with`.  The counters other than `borrowed` are left out.
Some of its properties are about at most one such thread and say so; what two do
to each other is `RequestOwnsStore`.

### Registry, ServiceProofs: `tables.py`

`registry` holds the two dictionaries as sequences of entries in the order of
their insertion, `made` numbers the stores and pools.  An `Open` is the test of
`open_store` or `open_pool`; the constructor (`Make`), the assignment (`Insert`)
and the second look-up (`Find`, or the KeyError of `FindNothing`) follow as
steps of their own, because the interpreter may switch threads between them.
`close` iterates over the stores, clears them, and goes on to the pools; an
iterator finds that its dictionary has changed size (`CloseRaises`).  What a
thread does with its pool is StorePool's.

### DiskPleEmbedding, EmbeddingProofs: `vllm_plugin.py`

`futures` holds every future ever submitted with its rows and state, `pending`
what the embedding still remembers of them.  `Prefetch`, `Forward`, `Close` are
called by one thread, as in the code; the executor has one worker, which starts
and ends reads at any time (`StartRead`, `EndRead`).  A forward waits for one
future at a time (or gives up on it after the timeout), settles one at a time,
then reads what is missing, inserts, evicts and looks up in one step, because
the worker touches no state of the embedding.  `ForwardFast` is the path without
pending prefetches.

### PrefetchUpperBound: `scripts/serve_ple_ab.py`

The reader that serves a decode step with the rows of the step before.  `fetch`
is the prefill path (`Fetch`, which ends at once), the lock (`TakeLock`), the
join of the previous thread under it (`Join`) and the start of the next
(`Start`); the thread reads, takes the lock and stores (`WorkerFetch`,
`WorkerLock`, `WorkerStore`).  `close` joins without the lock.

### PleNGram, EmbeddingProofs: `ple_adapter.py`

`context` is `_context`, one history per row of the batch.  `NGramPrefetch` and
`NGramForward` compute the rows of a batch (`RowsFor`, over PleKeys) and are
the `Prefetch` and `Forward` of DiskPleEmbedding with those rows; a forward
advances the contexts first, whatever comes of the read.  `fed`, `input` and
`hinted` are history.

### PleKeys, PleSequences, PleLemmas, PleSequencesProofs: keygen, `ple_memory.py`, `adapter.py`

PleKeys is the shift of the n-gram hash: `Context(h, i)` holds the tokens that
go into the row ids of position i, with those before an end-of-sequence token
replaced by it.  The hash that follows depends on nothing else, so a row id is
its context.  PleSequences is the store of sequences: `order` is the ordered
dictionary, `hist` each sequence's last NgramSize − 1 tokens.  A `Forward` with
a batch feeds its rows one by one (`FeedRow`), each of which may fail, leaving
the earlier rows advanced.  `Attach` is the construction of an adapter, whose
`store or PleSequenceStore(...)` replaces a bounded store that is empty.
`fed`, `uses` (the sequences in the order of their last use) and `running` (the
requests that were fed and have not ended) are history.

### Layout, Sorting, GatherPp, StreamingPlanner, BadgeGather, ReadsProofs: `engramdb-io`, `engramdb-core`

Layout is the arithmetic of shards, badges and pages and the effect of a read
that is cut off by the end of a file (`Filled`).  A byte is
`<<shard, offset in its file>>`, or Zero if it was never written: a byte in the
wrong place is always visible.  GatherPp is `gather_pp`: the grouping into jobs
(`Start`), each job's reads with its reused page buffer (`Fetch`), the push of
results in any order, and the assembly.  BadgeGather adds `gather_naive`,
`gather_parallel`, `gather_planned`, `gather_plan` and `ShardedStore::gather`,
with threads as walks over parts of the keys, and StreamingPlanner as the origin
of the plans.  Any read may fail and any file may be cut off.  Sorting is the list of
a finite set in an order, by counting what comes before: where the code sorts, no two
elements are equal.

### SlotIndex, StorePProofs: `slot_index.rs`, `disk_slot_index.py`

`buckets`, `data`, `offsets`, `meta` are the files.  A build creates, fills or
skips one file per step and may stop between any two writes or within one
(`StopIndex`), with some, all or nothing of what was buffered; the next build writes
over what is left.  A file so ends anywhere, within a record too: `Parts` are all
that a sequence of records may be cut to, and a record that is cut within its key or
within its slot (`CutRecords`) is one that the Python reader decodes
(disk_slot_index.py:281) and the Rust one drops (`WholeRecs`).  A reader opens at any
time, keeps its table of offsets and a bounded cache, and looks up by a search over
whatever the files hold then, which in the middle of a write is a part of it
(`BucketNow`, `DataNow`).  Its data file is buffered (84): what it has read ahead
(`ahead`) outlives a rebuild, and a bucket may come from old bytes and then from new
ones, with the border within a record (`Mixes`, `Joined`).  `VerifyIndex` is the
CLI's check.

### ViewStore, StorePProofs: `view.rs`, `main.rs`, `fetch_raw`

`view`, `keysFile`, `manifest`, `index`.  A build command (by sampler, by list or
by stream) truncates, writes chunks, spills buffers, writes the manifest, closes
the keys file and builds the index in the code's order; a stream may be refused
after the truncation, any command may stop.  The reader fetches batches in
parallel, record by record, while commands run; it finds slots in the index on
disk or in one it has built in memory from the keys file it met (`reader.by`,
`LoadIndex`, `FirstSlots`).  A row is its rowid, because the gathers are modelled
on their own, and the index on disk has a bucket per gram, because SlotIndex is
that index in full.

### UringRing, ReadsProofs: `backend.rs`, `engramdb-pyo3`

`sq`, `flight`, `cq` are the submission queue, the reads the kernel works on and
the completions.  They live from call to call; a call pushes, submits, waits and
reaps in chunks of the queue's size.  `Submit` may fail, a wait may be
interrupted, the kernel completes in any order, in full, short, at the end of
the file or with an error.  `kinds` is what goes through one ring: the three
reads of a thread's backend, or `read_pages`, which has a ring of its own.

### Service, ServiceProofs: `serve.rs`, `server.py`, `service_client.py`

One connection.  `toServer` and `toClient` are the units that are written and not
yet used; a message is three units, a length prefix being one of them.  A reader
takes as many as the prefix says, or up to a newline (`Ends`), so units left by
a message that was cut off shift all that follows: text in a prefix's place
announces any length in `Garbage`.  `impl` and `wire` choose server and protocol.
The client is EngramDBClient; for the line protocol, which has no client in the
package, it stands for a user such as scripts/service_smoke.py.  `Kinds` says
which answers a command may get, panics among them.  What is shared through the
Database is Registry's and StorePool's; here it only shows in `Borrowing`, where a
thread may wait for a handle.

### SeqLemmas, PleLemmas: what the proofs share

SeqLemmas is about sequences: those without repetitions (the keys of a dictionary),
their elements when one is removed or two are joined, sequences of sequences
(`FlattenSeq`), the arithmetic of blocks of one width, and the elements of a finite set
in an order (`SortedBy`: the ranks of the elements are a bijection, `Ranks`).
PleLemmas adds why the last NgramSize − 1 tokens of a history are enough to keep.

### MCPools, MCReads, MCStoreP, MCService: two parts in one run

Each of these puts two specifications that share no state under one root: the
variable `part` chooses in Init which of them a behaviour is about, and the other
stays in an initial state.  So a run explores the two side by side, not their
product, and the properties of both are checked in it.  A part that waits is idle,
so no fairness condition of it is ever enabled.  MCStoreP bounds its views
twice more: `view verify` and a reader only read, so one of the two at a time shows
all either can see (`OneReads`), and the answer of a fetch is the caller's own, so
nothing need happen before its next step (`AnswerTaken`).  Of its indexes it bounds
verify and a reader likewise (`OneLooks`), and has a reader that a build overtook look
one gram up (`OvertakenOnce`): no property is about what such a reader finds.

## 3. The runs

CHECK_DEADLOCK is FALSE in all of them: callers stop after a bounded number of
calls, and stopping then is no deadlock.  That nobody hangs in mid-call is
stated where it matters, as a liveness property.  State counts are of
distinct states.

| run | states | what it shows |
|---|---|---|
| pools | 223,658 | Workers: every scope_run keeps its borrows (`BorrowSafety`), no wakeup is lost (`NoLostWakeup`), no panic surfaces in another call (`PanicIsOwn`), the pool implements ForkJoin (`ForkJoinSpec`), and every call returns (`ScopeReturns`).  Handles: as long as at most one thread uses `with`, they are exclusive (`OneBorrower`), none is lost while the pool is open (`NoLeak`), waiters are served (`WaiterServed`); none of the three holds with two (section 4). |
| scope_pool_panic | violation | `PanicReplayed`: see findings. |
| store_pool_with_shared | violation | `RequestOwnsStore`: see findings. |
| ple_ngram | 456,939 | The rows asked for are those of everything a batch row was fed (`ContextExact`), a prefetch covers its forward (`PrefetchCovers`); below, `_pending_rows` is exact at every step (`PendingRowsExact`), the cache bounded (part of `NGramTypeOK`), `close` leaves no read behind (`QuietClose`), prefetched rows are not read twice (`ReusesPrefetch`), calls return (`CallReturns`). |
| embedding_cache | violation | `CacheServes`: see findings. |
| ple_sequences | 197,491 | Feeding in pieces returns what one call on everything would (`StreamExact`); only the least recently used sequence is dropped for another (`DropsOldest`), so a running request keeps its history while fewer than `max_sequences` others are used (`RunningKept`). |
| reads | 671,660 | Six gathers: exact rows where the code promises them (`PpRowsExact`, `BadgeRowsExact`), and, whatever fails, no byte of another row from naive, parallel, planned, plan and sharded, none of another shard from `gather_pp` (`NeverForeign`).  Two kinds of keys are left out by name (`Mixes`), because the code does return bytes of other rows for them: a key outside the plan, in a shard other than the first (batch.rs:301), and the keys of a ShardedStore call over several shards (store.rs:38).  The planner's window a queue without repetitions within its bound (part of `ReadsTypeOK`) and no badge planned twice while in it (`SentOnceInWindow`).  io_uring: until a call fails, results are exact (`ExactUnlessFailed`) and nothing is left in the ring (`CleanUnlessFailed`); every call returns (`CallReturns`). |
| gather_pp_errors | violation | `RowsOrError`: see findings. |
| store_p | 2,344,413 | Index: after a finished build lookups are exact and verify accepts, whatever was in the directory before (`LookupExact`); whatever stopped builds have left, a reader that no build overtakes gets for a gram only a slot some build was given for it, or the low bytes of one where a write was cut within the slot (`NeverInvented`).  Views: a finished command leaves four consistent files that verify accepts (`BuildConsistent`), a reader of them gets exact records by either index (`FreshFetch`), a reader that meets a rebuild gets whole ones (`WholeRecords`). |
| service | 767,544 | As long as no message was torn, whole answers come in the order of the requests, and match them until a request fails (`AnswersInOrder`); however the stream is shifted, `request` returns (`RequestReturns`) and a handler ends with its client (`HandlerEnds`).  Below it, `close` of the registry forgets every pool it closes (`ClosedPoolsForgotten`). |
| one_pool | violation | `OnePoolPerTable`: see findings; the trace ends with two threads that both use the table, each through a pool of its own. |
| prefetch_upper_bound | violation | `FetchReturns`: see findings. |

### 3.1 Bounds, and why they are enough

* **pools**, workers: 2 callers, 2 workers, up to 3 jobs, 2 calls.  Three jobs exceed
  the workers, so the fallback is taken; two callers share the queue; a second
  call meets what the first has left.  Pool or no pool is part of Init.
* **pools**, handles: 3 threads on 2 handles, so one must wait; 2 operations each,
  so a handle is used again; one thread goes through `with`, as three properties
  are about that case (section 4 has the other).
* **ple_ngram**: bigrams over an end-of-sequence token and another, so 4 rows; a
  cache of 2 (so it overflows) or none; batches of one row with 1 or 2 tokens, or
  two rows with 1, so that batches grow and shrink; 3 calls (prefetch, forward,
  and one in between), with and without a timeout.
* **ple_sequences**: 3 ids over a store of 2 or 0, 2 tokens of which one ends a
  sequence, trigrams (2 tokens of history), batches of 2 rows with the same
  id allowed twice, 4 calls.  The ids are interchangeable; the symmetry set
  is sound, as no property is a liveness property.
* **reads**, gathers: 2 shards of 5 rows of 2 bytes; a page of 5 bytes holds two and a
  half rows, so rows straddle pages and the last badge is cut; keys at both ends
  of both shards and one behind the table; up to 3 keys, so they repeat and come
  in every order; 1 or 2 threads; files cut within a row, whole, or filled up to
  the badge; a window of 2 badges and up to 3 tokens, so that badges leave it.
* **store_p**, indexes: 4 keys files (a gram twice, other grams, a torn tail), 1 or 2
  buckets, two hashes, three formats, a cache of one bucket, 2 builds, and the bounds
  `OneLooks` and `OvertakenOnce` of MCStoreP.  `Cuts` are the powers of 256 that a slot
  may be cut at: 1, where none of its bytes is there, and 256, one byte, which holds
  each of these slots whole.
* **store_p**, views: 2 rows per record in slots of 2 or 3, 4 lists (a gram twice, a
  partial gram, a line that is no number), chunks of one gram, 2 commands, and the
  bounds `OneReads` and `AnswerTaken` of MCStoreP (section 2).
* **reads**, rings: a queue of 2, up to 3 buffers (two chunks) of 2 units (so a
  read can be short), 2 calls: the second meets what the first has left.
* **service**, connection: 3 requests (one that fails, one whose answer comes late, one that
  meets it), commands whose answers have all kinds; sends cut at every unit; text
  read as a length announces 0, 2 or 9 units: an empty message, a message, and
  more than will ever come.
* **service**, registry: 3 threads, 2 tables, 3 calls, so that two threads open one
  table while a third closes, or a close meets a close; what holds for any numbers
  is proved.

### 3.2 Fairness, and why the code justifies it

* ScopePool, `Fairness`: a thread that can run does, a Mutex is granted, a job
  ends.  Nothing makes a caller call, a spurious wakeup happen, or a sleeping
  worker wake without a notification.
* StorePool, `PoolFairness`: a thread that has begun to acquire or release goes on,
  and a borrower gives back (try/finally).  `LifoQueue` is not fair: a thread
  that borrows forever may overtake a waiter forever, so `WaiterServed` holds
  because each thread borrows a bounded number of times.  After `close` waiters
  are on their own; the property says so.
* DiskPleEmbedding, `FairSpec`: the executor's worker keeps reading, and the
  calling thread does not stop inside a call.  PleNGram, `NGramSpec`: the same.
* Service, `Fairness`: `recv` returns data, the end of the stream, or a timeout
  (the client always sets one), and a handler thread goes on while it has units to
  read or write, unless it waits for a pool's handle, which may take forever
  (StorePool says when it does not).  Nothing makes the client ask or close.
* UringRing, `RingFairness`: the thread runs and the kernel completes every read it has
  accepted.  Interruptions are not fair; each has a bounded effect anyway.
* PrefetchUpperBound, `Spec`: the calling thread and the reading thread keep
  running whenever they can; waiting for the lock or the join is not running.
* Registry has none: what it promises is safety.

## 4. Where the code and its documents disagree

Each of these is a run that TLC ends with a counterexample; PROJECT.json,
"findings", quotes the lines.

* `pool.rs:225–233` (scope_pool_panic): a job is counted before the payload of its
  panic is recorded, so `scope_run` can return normally although a job panicked;
  `pool.rs:180` promises the replay.  Shortest story: one job panics, its wrapper
  counts it, the caller wakes and drains an empty vector.
* `pool.py:111–112` (store_pool_with_shared): two requests in
  `with pool as store` can read through one handle, because `__enter__` returns
  what the shared attribute holds by then; `tables.py:79–80` says each request
  borrows one.  The same attribute loses a handle on the way out (118–120: one
  thread releases the other's, and the other finds None), and a thread that waits in
  `get` (85) may then wait forever.  So `OneBorrower`, `NoLeak` and `WaiterServed` are
  stated for at most one `with` thread; with two of them, one handle and two operations
  each TLC finds all three violated.
* `batch.rs:215, 224` (gather_pp_errors): `gather_pp` drops the errors of its
  reads and returns `Ok` with zeros or bytes of the page before;
  `backend.rs:5` says a read fills its buffer or fails.
* `vllm_plugin.py:261` (embedding_cache): the misses of a request are chosen before
  their insertion evicts some of its hits, so a `forward` over a cached row and new
  ones raises KeyError at line 295 (with a cache of two: rows 1 2, then 1 3);
  line 29 calls the module a drop-in embedding.
* `tables.py:61` (one_pool): `open_pool` tests and inserts without a lock, so two
  threads that open one table for the first time make a pool each, and the one that
  is replaced is never closed; line 56 says that the pool is cached.
* `serve_ple_ab.py:480` (prefetch_upper_bound): `fetch` joins the previous thread
  while holding the lock that thread needs to store its rows; both wait forever.
  Lines 442–445 say that it should never block.

Other behaviours that the models reach, where no line of the repository promises
otherwise, are kept as hazards and excluded by name in the properties:
`ShardedStore::gather` over keys of several shards compares badges wrongly
(store.rs:38; `Mixes`); a failed io_uring call leaves completions that a later
call takes for its own (backend.rs:161; `UnlessFailed`);
`gather_plan` reads a key outside its plan at its offset in the whole table, which
is wrong in every shard but the first (batch.rs:301; `Mixes`: BadgeRowsExact leaves
out calls with such keys, NeverForeign the keys), although the session log (line 1183) says the offset was corrected;
a client that timed out gets the late answer as that of its next request
(service_client.py:49); verify cannot tell a mixed index from a complete one where
both hold the keys it asks for (slot_index.rs:446); a bucket file that was cut within
a slot is read as if the slot ended there (disk_slot_index.py:255–265, 281), and a
reader that a rebuild overtakes may join old and new bytes to a slot that no build was
given (84; `NeverInvented` says what remains); with columns of more than one byte
`gather_pp` cuts all rows of a job but its first wrongly (batch.rs:221, 225, 243).

## 5. The proofs

The theorems hold for every value of the constants that satisfies the modules'
ASSUMEs (bounds are naturals, there is a caller, the sets of workers and of requests
are finite, an n-gram has at least two tokens, a slot is as wide as a record, the shards
are fewer than `Half`, which stands for the 2^32 with which `ShardedStore::gather` packs a
shard and a badge into one number, so that no shard is its mark of no badge, ...).  What
needs more says so: the theorems about handles that one thread uses `with` (below).
Of `gather_pp` over columns of more than one byte less is promised: it collects
rows `row_bytes` apart (batch.rs:221, 225) and cuts them out `width` apart
(243), so then the first row of each job is right, and only a job that has keys of one
shard returns no byte of another (`RowsExact`, `OwnShardOnly`).  That is for every
`ElemBytes`; the run has 1, and TLC with `Width = 1`, `ElemBytes = 2` agrees, and finds
both violated when they are stated for every row.  Wider columns do reach `gather_pp`:
serve.rs takes `elem_bytes` from the manifest (72) or from the request (170) and passes
the layout on (194).

Of the 30 invariants and 10 action or temporal properties that the runs check, 34
are theorems: every invariant, and the action properties.  What is left to TLC is
liveness.  The proofs have one shape: an invariant in named parts, each about
one of the hazards; a lemma per action and part; and a last step that puts them
together.  PROJECT.json, "theorems", lists the results.

### PoolProofs, the workers: any callers, workers, jobs, calls

* `TypeCorrect`: `Spec => []TypeOK`.
* `BorrowSafe`: `Spec => []BorrowSafety`.  By itself it is not inductive: that a
  job in the queue belongs to an open call depends on the call's count being
  short of n as long as one of its jobs is not counted.  `IInv` says how:
  a queued job is queued once, has not run and is in flight nowhere (`QueueInv`);
  a job in flight has not been counted and is in flight once (`FlightInv`); the
  count is the cardinality of the counted jobs, all of which have run
  (`CountInv`); in the fallback the threads are the jobs that have not run
  (`ThreadInv`); outside a call every job of it has run (`OutInv`).  `AllCounted`
  is the heart: a count of n means that every job was counted.
* `WakeupsReach`: `Spec => []NoLostWakeup`, from `WakeInv`, which adds that nobody
  owes a notification when there are no workers (the fallback is taken then):
  the last notification of a submitter always finds, or leaves, a worker awake.
* `PanicsAreOwn`: `Spec => []PanicIsOwn`, from `PanicInv`: a payload that is
  recorded, or on its way into the vector, comes from a job that failed in the call
  it is recorded for; a job that is older than its caller's call is never taken for
  one of the call (`Current`).
* `Refinement`: `Spec => ForkJoinSpec`.  `RunJob` and `ThreadRun` map to Run,
  the last step of a call to Return, all others stutter (`AbsStep`, from `IInv`).

### PoolProofs, the handles: any threads and handles

* `BorrowsExclusive`: if at most one thread uses `with` (`SingleWith`), then
  `[](OneBorrower /\ NoLeak)`.  Besides types the invariant needs that the
  queue repeats no handle (`Distinct`), that `_current` still names the handle the
  `with` thread borrowed between its two uses of it (`CurrentInv`), and that
  only a closed pool drains (`DrainClosed`).  store_pool_with_shared shows that
  the assumption is needed.
* `HandlesTyped`: under the same assumption `[]PoolTypeOK`.

### ServiceProofs, the registry: any threads, tables, calls

* `PoolsForgotten`: `RegistrySpec => []ClosedPoolsForgotten`.  The danger is an
  insertion that brings a closed pool back.  The invariant says why none does:
  pools are numbered as they are made (`Numbered`), and the one a thread is about
  to insert is neither cached nor closed nor another thread's (`Fresh`), so no
  close can have met it.

### ServiceProofs, the service: any commands, lengths, requests

* `AnswersOrdered`: `Spec => []AnswersInOrder`.  Neither end numbers its messages,
  so the invariant has to say what lies in the two streams (`ServiceInv`).  As long as
  no message was torn, the units to the server are those of consecutive requests, the
  first perhaps used in part, the last perhaps not yet written (`Requests`); those to
  the client are those of consecutive answers (`Responses`); the whole answers among
  the results are the first ones there were, and fit the requests that were sent
  (`ResultsInOrder`, `SentInOrder`).  A timeout only leaves an answer in the stream:
  from then on results and requests are out of step, but each in order.
* `ServiceTyped`: `Spec => []TypeOK`, torn messages or not, from `Bounds`: whatever a
  unit announces, a request is used up by what it is taken for (`Counts`), so answers
  do not outnumber the units that were written.

### PleSequencesProofs: any vocabulary, n-gram size, requests, limit

* `HistoriesAreWindows`: each sequence's history is the window of all that was fed
  to it, behind a cold start of end-of-sequence tokens.
* `StreamingExact`: `Spec => []StreamExact`.  It rests on two facts about the
  n-gram hash: a context depends on the last NgramSize tokens only
  (`ContextLocal`, through `SegmentReach`: a segment border within reach is seen
  in the window too), and the window of a stream followed by new tokens gives
  those the contexts they have in the stream (`WindowSuffices`).
* `OldestDropped`: `Spec => DropsOldest`, and `RunningKeepHistory`:
  `Spec => []RunningKept`, both from `UseInv`: the ordered dictionary is in the order
  of last use, and each running request that is not in it has `max_sequences` requests
  used after it.  What makes it inductive is that dropping the first key of the
  dictionary drops the one used longest ago, and that a use moves a request to the end
  of both.
* `SequencesTyped`: `Spec => []TypeOK`.

### EmbeddingProofs: any rows, cache sizes, requests, timeouts and failures

* `PendingExact`: `Spec => []PendingRowsExact`, and `ClosesQuietly`:
  `Spec => []QuietClose`, both from `PendingHolds`.  A settled future takes its own
  rows out of the pending ones and those of no other, because a future is pending
  once and the rows of a new prefetch are those of no pending one (`MissingNew`);
  and a settling forward only looks at pending futures, at each of them once
  (`LoopInv`), so nothing is taken out twice.  `RemoveOnce` is what taking a future
  out of the list does to the list.
* `ContextsExact`: `NGramSpec => []ContextExact`.  Every context is the window of all
  its batch row was fed, or still cold (`Windows`); growing the batch adds cold ones
  (`ExtendedWindows`), a forward moves on those in the batch (`AdvancedWindows`), so
  by `WindowSuffices` the rows it asks for are the last ones of one call on everything
  (`RowsForWindows`).
* `Covers`: `NGramSpec => []PrefetchCovers`, from `HintInv`: the rows of each batch
  prefetched since the last forward, in the contexts of now, are cached or under way.
  Other prefetches only add batch rows, which changes none of its rows (`SameRowsFor`).
* `PrefetchReused`: `NGramSpec => ReusesPrefetch`, from `ReuseInv`: the futures that
  the running forward found pending are either still to be waited for or settled, or
  their rows are kept, as long as there is no timeout and no cache.
* `NGramTyped`: `NGramSpec => []NGramTypeOK`, with the bound of the cache: an insertion
  never leaves more than `cache_size` rows, each once (`CacheInv`).
* `NGramPendingExact`, `NGramClosesQuietly`: the first two theorems for the composed
  specification, every step of which is one of DiskPleEmbedding's (`NGramToTable`).

### StorePProofs, the views: any lists, widths, batches, commands

* `BuildsConsistent`: `Spec => []BuildConsistent`.  `BuildInv` follows a build command
  through its steps: a file and its buffer together hold what has been gathered so far
  (`WrittenInv`, over `IsSlots`, the places of a file one by one), and when all has
  been, the view is the slots of the list (`BuiltInv`, `SlotsUnique`); the index holds
  the entries of the list for each gram that is done, whatever an earlier command left
  there (`IndexedInv`); the manifest that comes last names it (`ManifestInv`).  That
  verify accepts follows from `RecordOf`: record g of such a view is gram g.
* `FetchesFresh`: `Spec => []FreshFetch`.  A reader that was opened over a completed
  command keeps the width, the count and the table that the files still have, each
  slot it has chosen is the place of its gram, and each record it has read is the gram
  at that slot (`FreshInv`).
* `RecordsWhole`: `Spec => []WholeRecords`.  However far a command has got, the view is
  a row of whole slots with grams of some command (`FileInv`), because buffers are
  written out in slots (`MoreSlots`); so each record that a fetch has read is one
  (`GotInv`, `SlotRead`).  That holds as long as no command uses another width than
  the reader's: then a slot may straddle two of theirs.

### StorePProofs, the slot index: any keys files, buckets, formats, caches

* `SlotsGiven`: `IndexSpec => []NeverInvented`.  Every record in a bucket file, in the
  data file, in the buffer of a build and in the cache of a reader comes from a keys
  file that some build was given, or is what a write left of one: its key is cut, or its
  slot has the low bytes only (`GivenInv`).  A lookup returns only what it found in a list
  of records with its own gram (`Answer`), so neither stale files, nor a table of offsets
  that belongs to another data file, nor a build that stopped within a write can make a
  reader that was opened afterwards return anything else.  A build that overtakes the
  reader can, as the bytes it has read ahead may then be of another file; hence `steady`.
* `ExactLookups`: `IndexSpec => []LookupExact`, from `IndexInv`, in three parts.
  `LookupInv` is the above with the types.  `IndexBuildInv` follows a build from bucket
  to bucket (`Progress`): in formats 1 and 2 each bucket that is done is empty or in a
  file of its own, whatever older files lie around (`FilesDone`); in format 3 the data
  file and what is buffered behind it are the buckets one after the other (`Laid`), each
  beginning where the records of the ones before it end (`Before`), which is what the
  table of offsets then says (`TableOf`, `LaidRead`).  `ReaderInv`: a reader opened on a
  finished build has its hash, its number of buckets and its offsets, and its cache holds
  the build's buckets (`Fits`).  The search is right because a bucket is sorted: the gram
  one looks for is in the run that starts behind the records below it (`Rising`, `Split`,
  `RunOf`), and the binary search halves a range that still contains the start of the
  run (`Halved`, `Finds`).

### StorePProofs, the types of both

* `StorePTyped`: `StorePSpec => []StorePTypeOK`.  Views and keys files hold row ids of
  the lists and padding only (`RowidInv`), a number that did not parse never gets that
  far, and a build works on the buckets that it counts (`KnownInv`).  A proof of an
  earlier form of it failed, because that form let the mark of an unreadable line pass
  for a row id; the invariant that TLC checks is the stricter one now.

### ReadsProofs, the gathers: any layout, files, keys, threads

All six paths share one state, so `GatherInv` has one part for each way to walk over it.

* `RightPpRows`: `GatherSpec => []PpRowsExact`.  `PpInv`: the
  page buffer of a job holds bytes of its shard only, and, if nothing failed, those of the
  page it names and a row more as far as the file goes (`PageInv`); the rows that a job
  has collected are those of the indexes it has noted, one after the other (`RowsInv`);
  and every key of the call is before a job, behind it, or in a result (`Cover`).
  Fetching the page that a job holds already is skipped, and a row that straddles the end
  of the page is read on its own: both are cases of `RowsInv`'s step.  `Cut` is then right
  because blocks of one width do not overlap (`BlocksAre` of SeqLemmas); for wider
  columns it is right for the first block only, which begins where it should.
* `RightRows`: `GatherSpec => []BadgeRowsExact`.  A walk of naive, parallel and sharded
  holds, whole, the badge that it has noted, and that is the badge of some key of the call
  (`HeldInv`); behind its place all rows are there (`WalksInv`).  For `ShardedStore` this
  holds for keys of one shard (`OneShard`): that is where the comparison of badges is
  right.  For planned, a row is
  there, or its badge is still to be read, or something failed (`Due`, `PlannedInv`); for
  plan, a key that was looked up is in the plan, or was read on its own (`Looked`,
  `PlanInv`).
* `NoForeignRows`: `GatherSpec => []NeverForeign`.  The same invariants, whose parts
  about bytes need neither whole files nor successful reads (`Own`, `PartAt`, `PartRow`).
  Of plan it needs that a key in the plan finds its own badge and a key outside of it is
  read at an offset that is right in the first shard; of ShardedStore, that all keys are of
  one shard, where the comparison of badges is right; `Mixes` is what remains.
* `SentOnce`: `GatherSpec => []SentOnceInWindow`.  The planner keeps a queue and a set of
  badges side by side; `PlannerInv` says that they are the same badges, each once, that
  the queue is the end of what was sent (`EndOf`), and that it is full once a badge has
  left it.  The new badges of a token repeat neither the window nor each other
  (`NewBadgesAre`), so a badge that is sent twice has left the window in between.

### ReadsProofs, the types of both

* `ReadsTyped`: `ReadsSpec => []ReadsTypeOK`.  Besides the sets that each variable is in,
  a walk stays within its part of the keys (`SharesTyped`), the count of a plan is that of
  its badges (`PlanTyped`), and the ring never holds more than its depth (`QueuesTyped`,
  from the count of `RingInv`), with reads in flight and completions that name buffers of
  the chunk.

### ReadsProofs, the ring: any queue size, buffers and calls

* `RingStaysClean`: `RingSpec => []CleanUnlessFailed`.  As long as no call has
  failed, the ring holds just as many entries as the running call still has to take
  (`CountInv`), so none is left when it has taken the last one.  The step from a
  sequence to a set (`Submit`) needs that the entries of a chunk differ.
* `ReadsExact`: `RingSpec => []ExactUnlessFailed`.  Completions come in any order, so
  the invariant follows each buffer of the chunk: until it is ready it has one read
  in flight or one completion, never two, which names it and holds just the bytes it
  still lacked (`WayInv`); buffers of earlier chunks are ready and those of later ones
  untouched (`BufferInv`).  Only after a failure, which leaves completions behind, can
  one name a buffer of a later call.

### Only model-checked

* The liveness properties (`ScopeReturns`, `WaiterServed`, both `CallReturns`,
  `RequestReturns`, `HandlerEnds`): fairness and ENABLED are out of the prover's
  reach.
  They are six of the 40 properties.
* The runs that end with a counterexample (section 4): nothing is to be proved there.
* Induction over data as such: the provers cannot instantiate the library's induction
  theorems.  Where a proof needs what a recursive function computes (FlattenSeq, the binary
  search), a lemma derives it by least counterexample (`FlattenElements`, `Finds`).  A
  sort is SortedBy, by counting, because SetToSortSeq is out of reach.

## 6. What is not modelled, and the plan

Not modelled, and not planned: the values of rows and tensors, dtype conversion,
statistics, logging, parsing of manifests and configuration, benchmarks, the
stateless engine adapters and bindings, and the prototype
`addressable_memory.py` (PROJECT.json has a reason for each).  `Drop` of the
worker pool cannot happen: the only pool is static, and that the system refuses
`scope_run` a thread (`s.spawn` panics then) is left out.  In UringRing an entry that
names memory of an earlier call is told by its call number; what a write to freed
memory does is not followed further.

Of the modelled parts, these details are left out: the accept loops, the contents of
`list_tables` and `check`, the layout of a table, base64 and Arrow (Service); the
construction of an embedding from a discovered model (PleNGram); opening the
table's files (GatherPp); saving the in-memory index as .npz, and looking up
several grams at once with it (ViewStore).

How much of the repository this is: of its 44,177 lines of program, some 26,000, in
`research/` and `refs/`, are snapshots of other projects (vLLM, SGLang, Qwen), and
12,800, in `scripts/`, drive measurements and print tables; one of those scripts has
state of its own worth a model, PrefetchUpperBound.  A model of the snapshots would be
one of other systems.  The crates and the Python package, the rest, are what the
modules cover, but for the wrappers and parsers named above.

Left of the plan:

1. **HotSet** (`tiers.rs`, `count_index.rs`): recursive functions checked against
   counting by definition.
2. **C ABI** and `integrations.py`, as small modules next to the parts they repeat.
3. Proofs: no invariant is left.  That the rows of a forward with a cache are right is
   not a property yet, as `CacheServes` fails (section 4).

## 7. Hazards beyond the list

PROJECT.json lists the hazards the properties are aimed at.  These are real too;
some are covered by the same properties, some wait for the plan.

- protocol_sequence, crates/engramdb-io/src/pool.rs:247: A payload recorded late surfaces in a later call of the same caller.
- liveness, crates/engramdb-io/src/pool.rs:242: Workers blocked on a job, spurious wakeups of both condition variables: the caller waits forever for the count.
- resource_bound, crates/engramdb-io/src/pool.rs:198: More jobs than workers, or no pool at all: the fallback must keep the same contract.
- interleaving, python/engramdb/pool.py:112: Two threads inside with pool as store: the second overwrites _current between the first one's store and load.
- resource_bound, python/engramdb/pool.py:100: put on a full queue blocks the releasing thread forever.
- numeric_edge, python/engramdb/pool.py:103: The gauge is clamped at zero, which can hide a release without an acquire.
- interleaving, python/engramdb/vllm_plugin.py:164: A future finishes between the wait that timed out and the settling, or after it.
- resource_bound, python/engramdb/vllm_plugin.py:177: The cache at its limit, also when a settled prefetch is larger than the cache.
- liveness, python/engramdb/vllm_plugin.py:228: forward waits without a timeout for a future that failed or was cancelled.
- ordering, python/engramdb/vllm_plugin.py:261: A hit does not move an entry (258-262), so the entry used last may be the one evicted, although line 216 calls the cache an LRU.
- partial_failure, python/engramdb/vllm_plugin.py:208: submit raises after _pending_rows was updated (206), when a caller's own executor was shut down.
- protocol_sequence, python/engramdb/ple_adapter.py:326: Batches that grow and shrink: a batch row keeps its context while it is not in the batch, and a new one starts cold.
- other, python/engramdb/adapter.py:58: An empty store is falsy (__len__), so the bounded store a caller passes in is replaced by an unbounded one.
- partial_failure, python/engramdb/ple_memory.py:477: A fetch fails: the sequence was made (or moved to the end) but must not advance.
- partial_failure, python/engramdb/adapter.py:88: A row of a batch fails after earlier rows have advanced: a retry of the batch feeds those twice.
- numeric_edge, python/engramdb/ple_memory.py:567: The store at its limit, and a limit of 0 (popitem on an empty dict).
- protocol_sequence, python/engramdb/ple_memory.py:590: Lookups, resets and removals between feeds change which sequence is oldest.
- protocol_sequence, python/engramdb/ple_memory.py:301: A sequential view without a slot index numbers its slots from start_slot again at every fetch, so streaming feeds read the first records again.
- numeric_edge, crates/engramdb-io/src/batch.rs:243: Rows are collected row_bytes apart (221, 225) and cut out width apart (243): with more than one byte per column every row of a job but its first is wrong.
- numeric_edge, crates/engramdb-io/src/batch.rs:207: The offset must be local to the shard, in every shard but the first.
- numeric_edge, crates/engramdb-io/src/batch.rs:185: An empty key list divides by zero threads and panics; serve.rs:194 passes the client's list on unchecked.
- stale_state, crates/engramdb-io/src/planner.rs:38: A badge in the window counts as resident, yet nothing keeps its bytes: the reader of the plan must have kept them.
- numeric_edge, crates/engramdb-io/src/batch.rs:156: The last badge of a shard ends behind the file: naive and plan fail, parallel leaves rows out, planned drops the error and still has the rows.
- stale_state, python/engramdb/disk_slot_index.py:243: A reader keeps its buckets, its table of offsets and what its file has read ahead while the index below it is rebuilt.
- ordering, crates/engramdb/src/slot_index.rs:154: Grams that occur at several slots, records ordered by key and then slot bytes, and a search for the first of a run.
- numeric_edge, crates/engramdb/src/slot_index.rs:143: Empty buckets in the offset table, the last bucket, a single bucket.
- resource_bound, python/engramdb/disk_slot_index.py:267: The bucket cache at its limit, and a bucket without a file, which is not cached.
- other, crates/engramdb/src/slot_index.rs:299: The Rust reader does not look at the hash that index.json names: a single-file index that Python built with its default hash is looked up in the wrong buckets.
- stale_state, crates/engramdb/src/main.rs:787: A rebuild without --slot-index leaves the index of the older view in its directory, and a reader that is given it gets records of other grams.
- partial_failure, crates/engramdb-io/src/view.rs:276: One of the parallel reads of a batch meets the end of the file.
- numeric_edge, crates/engramdb-io/src/view.rs:163: A slot width of 0, a manifest without grans, a file shorter than its manifest says.
- other, crates/engramdb/src/main.rs:942: view verify --slot-index without --keys takes the keys of the index from the manifest but not those of the view, so it always ends with the error of verify_view.
- protocol_sequence, crates/engramdb-io/src/view.rs:417: A stream whose keys file is also its keys_out is truncated before it is read.
- stale_state, python/engramdb/slot_index.py:107: The index in memory is built once, from the keys file found then, while a rebuild may have truncated that file or may replace the view before the fetch.
- resource_bound, crates/engramdb-io/src/backend.rs:145: The queue has 256 entries: longer calls go in chunks, and reads a failed submission has left take up room.
- liveness, crates/engramdb-io/src/backend.rs:150: A call waits for more completions than it has submitted.
- stale_state, crates/engramdb-pyo3/src/lib.rs:324: A completion of an earlier call cuts a page of this one, or names a page it does not have and panics.
- liveness, python/engramdb/server.py:191: A client that leaves in the middle of a request or of an answer must not keep its handler thread.
- partial_failure, python/engramdb/server.py:194: A request cut off by a closed connection is parsed and answered as bad JSON; serve.rs gives up on the connection instead.
- numeric_edge, crates/engramdb/src/serve.rs:354: frame_len is 1u32 + payload.len() as u32: an answer of 4 GiB or more announces the wrong length, and the client loses the framing.
- partial_failure, crates/engramdb/src/serve.rs:187: rowids that are not unsigned integers are dropped silently: the answer has fewer rows than the request.
- stale_state, python/engramdb/integrations.py:69: Inserting the misses may evict a hit or an earlier miss of the same request, and the join at line 75 raises KeyError.
- resource_bound, python/engramdb/integrations.py:70: With cache_size 0 the loop never evicts, so the cache grows with every row ever read.
- numeric_edge, crates/engramdb-io/src/tiers.rs:34: Row 0 stands for a line that did not parse, so the real row 0 never becomes hot.
- numeric_edge, crates/engramdb-core/src/count_index.rs:32: The count of a row is a u32: it wraps (or panics in a debug build) at 2^32 occurrences.
- partial_failure, crates/engramdb-core/src/count_index.rs:21: A short read inside a row id is taken for the end of a damaged stream, although read may return fewer bytes than asked for.
- protocol_sequence, python/engramdb/target_reader.py:112: Unregistering the newest version makes the version registered last the latest one, which an override does not move.
