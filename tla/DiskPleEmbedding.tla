-------------------------- MODULE DiskPleEmbedding --------------------------
(***************************************************************************)
(* The disk-backed embedding of python/engramdb/vllm_plugin.py: a bounded  *)
(* row cache, prefetches on a background thread of its own, and forward,   *)
(* which waits for the prefetches (possibly with a timeout), settles them  *)
(* and reads what is still missing.                                        *)
(*                                                                         *)
(* prefetch, forward and close are called from one thread; the executor    *)
(* has one worker.  A row's bytes never change, so a row stands for them.  *)
(***************************************************************************)
EXTENDS Naturals, Sequences, FiniteSets, SequencesExt

CONSTANTS Rows,       \* row ids
          CacheSizes, \* the values of cache_size; 0 disables the cache
          MaxRows,    \* bound: rows of one request
          MaxCalls    \* bound: calls of prefetch, forward and close

ASSUME EmbeddingAssumption ==
  /\ CacheSizes \subseteq Nat
  /\ MaxRows \in Nat /\ MaxCalls \in Nat

VARIABLES
  cacheSize,   \* cache_size (never changes)
  timeouts,    \* whether prefetch_timeout is set (never changes)
  cache,       \* _cache: cached rows, oldest first
  prefetched,  \* _prefetched: rows kept for the next forward without a cache
  futures,     \* every future ever submitted: its rows and its state
  pending,     \* _pending (and _pending_missing): indices into futures
  pendingRows, \* _pending_rows
  closed,      \* _closed
  pc,          \* where the calling thread is
  flat,        \* the rows the forward was asked for
  loop,        \* the futures its current loop has still to look at
  read,        \* rows the last forward read from the store by itself
  outcome,     \* how the last call ended
  calls,
  awaited      \* history: the futures pending when the forward began

config == <<cacheSize, timeouts>>
vars == <<config, cache, prefetched, futures, pending, pendingRows, closed, pc, flat, loop, read,
          outcome, calls, awaited>>

Requests == UNION {[1..n -> Rows] : n \in 1..MaxRows}

Finished(i) == futures[i].state \in {"done", "failed"}

\* The distinct rows of a request that are not in known, in order.
Missing(rows, known) ==
  LET news == {i \in 1..Len(rows) : /\ rows[i] \notin known
                                    /\ \A j \in 1..(i - 1) : rows[j] # rows[i]}
  IN [n \in 1..Cardinality(news) |->
        rows[CHOOSE i \in news : Cardinality({j \in news : j <= i}) = n]]

\* OrderedDict.update: rows already there keep their place, new ones follow.
Updated(c, new) == c \o Missing(new, ToSet(c))

\* MUTANT of Evicted: while len(cache) > cache_size + 1.
EvictedLate(c) ==
  IF Len(c) > cacheSize + 1 THEN SubSeq(c, Len(c) - cacheSize, Len(c)) ELSE c

\* The eviction loop drops the oldest entries.
Evicted(c) == IF Len(c) > cacheSize THEN SubSeq(c, Len(c) - cacheSize + 1, Len(c)) ELSE c

Init ==
  /\ cacheSize \in CacheSizes /\ timeouts \in BOOLEAN
  /\ cache = <<>> /\ prefetched = {}
  /\ futures = <<>> /\ pending = <<>> /\ pendingRows = {}
  /\ closed = FALSE /\ pc = "idle"
  /\ flat = <<>> /\ loop = <<>> /\ read = {} /\ outcome = "none"
  /\ calls = 0 /\ awaited = {}

Call == pc = "idle" /\ calls < MaxCalls /\ calls' = calls + 1

-----------------------------------------------------------------------------
(* prefetch                                                                *)

\* A closed embedding raises; otherwise the rows that are neither cached nor
\* pending are submitted as one read.
Prefetch(rows) ==
  LET missing == Missing(rows, ToSet(cache) \union pendingRows) IN
  /\ Call
  /\ IF closed \/ missing = <<>>
     THEN UNCHANGED <<futures, pending, pendingRows>>
     ELSE /\ pendingRows' = pendingRows \union ToSet(missing)
          /\ futures' = Append(futures, [rows |-> missing, state |-> "queued"])
          /\ pending' = Append(pending, Len(futures) + 1)
  /\ UNCHANGED <<config, cache, prefetched, closed, pc, flat, loop, read, outcome, awaited>>

\* The worker takes the oldest queued future when it is free.
StartRead(i) ==
  /\ futures[i].state = "queued"
  /\ \A j \in DOMAIN futures : futures[j].state # "running"
  /\ \A j \in 1..(i - 1) : futures[j].state # "queued"
  /\ futures' = [futures EXCEPT ![i].state = "running"]
  /\ UNCHANGED <<config, cache, prefetched, pending, pendingRows, closed, pc, flat, loop, read,
                 outcome, calls, awaited>>

\* Store.fetch in the background returns the rows or raises.
EndRead(i, state) ==
  /\ futures[i].state = "running"
  /\ futures' = [futures EXCEPT ![i].state = state]
  /\ UNCHANGED <<config, cache, prefetched, pending, pendingRows, closed, pc, flat, loop, read,
                 outcome, calls, awaited>>

-----------------------------------------------------------------------------
(* forward                                                                 *)

\* Without a cache and without prefetches: read the whole request at once.
ForwardFast(rows, ok) ==
  /\ Call
  /\ cacheSize = 0 /\ pending = <<>> /\ prefetched = {}
  /\ read' = ToSet(rows)
  /\ flat' = rows
  /\ outcome' = IF ok THEN "rows" ELSE "store_error"
  /\ awaited' = {}
  /\ UNCHANGED <<config, cache, prefetched, futures, pending, pendingRows, closed, pc, loop>>

\* Otherwise wait for the pending futures first.
Forward(rows) ==
  /\ Call
  /\ ~(cacheSize = 0 /\ pending = <<>> /\ prefetched = {})
  /\ flat' = rows
  /\ loop' = pending
  /\ awaited' = ToSet(pending)
  /\ pc' = IF pending = <<>> THEN "gather" ELSE "wait"
  /\ UNCHANGED <<config, cache, prefetched, futures, pending, pendingRows, closed, read, outcome>>

\* MUTANT of WaitOne: the wait stops after the first future.
WaitFirst ==
  /\ pc = "wait"
  /\ Finished(Head(loop)) \/ timeouts
  /\ loop' = pending
  /\ pc' = "gather"
  /\ UNCHANGED <<config, cache, prefetched, futures, pending, pendingRows, closed, flat, read,
                 outcome, calls, awaited>>

\* MUTANT of WaitOne: wait until the rows have arrived.
WaitForRows ==
  /\ pc = "wait"
  /\ futures[Head(loop)].state = "done" \/ timeouts
  /\ loop' = IF Len(loop) = 1 THEN pending ELSE Tail(loop)
  /\ pc' = IF Len(loop) = 1 THEN "settle" ELSE "wait"
  /\ UNCHANGED <<config, cache, prefetched, futures, pending, pendingRows, closed, flat, read,
                 outcome, calls, awaited>>

\* fut.result: the future has finished, or the wait times out.
WaitOne ==
  /\ pc = "wait"
  /\ Finished(Head(loop)) \/ timeouts
  /\ loop' = IF Len(loop) = 1 THEN pending ELSE Tail(loop)
  /\ pc' = IF Len(loop) = 1 THEN "settle" ELSE "wait"
  /\ UNCHANGED <<config, cache, prefetched, futures, pending, pendingRows, closed, flat, read,
                 outcome, calls, awaited>>

\* MUTANT of SettleOne: only successful reads leave _pending_rows.
SettleKeepingFailed ==
  LET i == Head(loop)
      rows == futures[i].rows IN
  /\ pc = "settle"
  /\ pending' = IF Finished(i) THEN RemoveFirst(pending, i) ELSE pending
  /\ pendingRows' = IF futures[i].state = "done" THEN pendingRows \ ToSet(rows)
                                                ELSE pendingRows
  /\ cache' = IF futures[i].state = "done" /\ cacheSize > 0
              THEN Evicted(Updated(cache, rows)) ELSE cache
  /\ prefetched' = IF futures[i].state = "done" /\ cacheSize = 0
                   THEN prefetched \union ToSet(rows) ELSE prefetched
  /\ loop' = Tail(loop)
  /\ pc' = IF Len(loop) = 1 THEN "gather" ELSE "settle"
  /\ UNCHANGED <<config, futures, closed, flat, read, outcome, calls, awaited>>

\* One turn of _settle_prefetches; an unfinished future stays pending.
SettleOne ==
  LET i == Head(loop)
      rows == futures[i].rows IN
  /\ pc = "settle"
  /\ IF Finished(i)
     THEN /\ pending' = RemoveFirst(pending, i)
          /\ pendingRows' = pendingRows \ ToSet(rows)
     ELSE UNCHANGED <<pending, pendingRows>>
  /\ cache' = IF futures[i].state = "done" /\ cacheSize > 0
              THEN Evicted(Updated(cache, rows)) ELSE cache
  /\ prefetched' = IF futures[i].state = "done" /\ cacheSize = 0
                   THEN prefetched \union ToSet(rows) ELSE prefetched
  /\ loop' = Tail(loop)
  /\ pc' = IF Len(loop) = 1 THEN "gather" ELSE "settle"
  /\ UNCHANGED <<config, futures, closed, flat, read, outcome, calls, awaited>>

\* The rest of _get_missing and of forward: read what is missing, insert it,
\* evict, and look every requested row up.  ok says whether the read succeeds.
Gather(ok) ==
  LET taken   == IF cacheSize = 0 THEN prefetched ELSE {}
      missing == Missing(flat, ToSet(cache) \union taken)
      raised  == missing # <<>> /\ ~ok
      after   == IF cacheSize > 0 /\ ~raised THEN Evicted(Updated(cache, missing)) ELSE cache
      found   == IF cacheSize = 0 THEN taken \union ToSet(missing) ELSE ToSet(after) IN
  /\ pc = "gather"
  /\ prefetched' = prefetched \ taken
  /\ cache' = after
  /\ read' = ToSet(missing)
  /\ outcome' = IF raised THEN "store_error"
                ELSE IF ToSet(flat) \subseteq found THEN "rows" ELSE "KeyError"
  /\ pc' = "idle"
  /\ UNCHANGED <<config, futures, pending, pendingRows, closed, flat, loop, calls, awaited>>

-----------------------------------------------------------------------------
(* close                                                                   *)

\* Cancel the futures that have not started, and shut the executor down.
Close ==
  /\ Call
  /\ closed' = TRUE
  /\ IF closed THEN UNCHANGED <<futures, pc>>
     ELSE /\ futures' = [i \in DOMAIN futures |->
                           IF i \in ToSet(pending) /\ futures[i].state = "queued"
                           THEN [futures[i] EXCEPT !.state = "cancelled"] ELSE futures[i]]
          /\ pc' = "shutdown"
  /\ UNCHANGED <<config, cache, prefetched, pending, pendingRows, flat, loop, read, outcome, awaited>>

\* MUTANT of CloseDone: shutdown(wait=False).
CloseAtOnce ==
  /\ pc = "shutdown"
  /\ pending' = <<>> /\ pendingRows' = {} /\ prefetched' = {}
  /\ pc' = "idle"
  /\ UNCHANGED <<config, cache, futures, closed, flat, loop, read, outcome, calls, awaited>>

\* shutdown(wait=True) returns once the worker has finished; then forget all.
CloseDone ==
  /\ pc = "shutdown"
  /\ \A i \in DOMAIN futures : futures[i].state \notin {"queued", "running"}
  /\ pending' = <<>> /\ pendingRows' = {} /\ prefetched' = {}
  /\ pc' = "idle"
  /\ UNCHANGED <<config, cache, futures, closed, flat, loop, read, outcome, calls, awaited>>

-----------------------------------------------------------------------------
Worker == \E i \in DOMAIN futures :
            StartRead(i) \/ \E state \in {"done", "failed"} : EndRead(i, state)

Continue == WaitOne \/ SettleOne \/ (\E ok \in BOOLEAN : Gather(ok)) \/ CloseDone

Next == \/ \E rows \in Requests : \/ Prefetch(rows) \/ Forward(rows)
                                  \/ \E ok \in BOOLEAN : ForwardFast(rows, ok)
        \/ Close \/ Continue \/ Worker

Spec == Init /\ [][Next]_vars

\* The worker keeps reading and the calling thread does not stop in a call.
FairSpec == Spec /\ WF_vars(Worker) /\ WF_vars(Continue)

-----------------------------------------------------------------------------
(* Properties.                                                             *)

TypeOK ==
  /\ cacheSize \in CacheSizes /\ timeouts \in BOOLEAN
  /\ cache \in Seq(Rows) /\ prefetched \subseteq Rows
  /\ \A i \in DOMAIN futures : futures[i] \in
       [rows : Seq(Rows), state : {"queued", "running", "done", "failed", "cancelled"}]
  /\ pending \in Seq(DOMAIN futures) /\ pendingRows \subseteq Rows
  /\ closed \in BOOLEAN /\ pc \in {"idle", "wait", "settle", "gather", "shutdown"}
  /\ flat \in Seq(Rows) /\ loop \in Seq(DOMAIN futures) /\ read \subseteq Rows
  /\ outcome \in {"none", "rows", "store_error", "KeyError"}
  /\ calls \in 0..MaxCalls /\ awaited \subseteq DOMAIN futures

\* _pending_rows names the rows of the pending futures and no other (171, 173,
\* 206): a row left behind would never be prefetched again, and a row taken
\* out early would be read twice.  No row is read by two pending futures.
PendingRowsExact ==
  /\ pendingRows = UNION {ToSet(futures[i].rows) : i \in ToSet(pending)}
  /\ \A i, j \in ToSet(pending) : i # j =>
       ToSet(futures[i].rows) \intersect ToSet(futures[j].rows) = {}

\* The cache never outgrows cache_size and holds a row once (177, 260); the
\* no-cache buffer is only used without a cache.
CacheBounded ==
  /\ Len(cache) <= cacheSize
  /\ Cardinality(ToSet(cache)) = Len(cache)
  /\ cacheSize > 0 => prefetched = {}

\* Once close has returned, no read is queued or running any more (120-121:
\* no store I/O is abandoned mid-read).
QuietClose ==
  closed /\ pc # "shutdown" =>
    \A i \in DOMAIN futures : futures[i].state \notin {"queued", "running"}

\* Without a cache and a timeout the next forward reuses the result of every
\* prefetch that succeeded (191-192): it does not read such a row again.
ReusesPrefetch ==
  [][ pc = "gather" /\ cacheSize = 0 /\ ~timeouts => \A i \in awaited :
        futures[i].state = "done" => ToSet(futures[i].rows) \intersect read' = {} ]_vars

\* What vllm_plugin.py 29 promises of a "drop-in embedding module" whose rows are
\* "also stored in the LRU cache" (216-217): a forward whose distinct rows fit into
\* the cache finds them all there.  The hits are decided before the misses are
\* inserted and evict (245-262), so a hit may be gone when it is looked up (295).
CacheServes == outcome = "KeyError" => Cardinality(ToSet(flat)) > cacheSize

\* forward and close return, whatever fails or times out.
CallReturns == pc # "idle" ~> pc = "idle"
=============================================================================
