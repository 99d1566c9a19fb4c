---------------------------- MODULE PleSequences -----------------------------
(***************************************************************************)
(* Per-request n-gram histories: PleSequenceStore and PleSequence          *)
(* (python/engramdb/ple_memory.py), fed by PleMemoryAdapter.forward        *)
(* (adapter.py) one row of a batch after the other, or by the caller       *)
(* itself before the adapter is made; a store the adapter replaced is not  *)
(* followed.  The store keeps at most max_sequences sequences and drops    *)
(* the least recently used one.  A sequence's _steps only repeats what it  *)
(* has returned and is left out.                                           *)
(***************************************************************************)
EXTENDS PleKeys, FiniteSets, SequencesExt

CONSTANTS Ids,           \* sequence (request) ids
          Limits,        \* the values of max_sequences; at least the number of
                         \* Ids for None
          MaxBatch,      \* bound: rows of one forward
          MaxTokens,     \* bound: tokens of one forward
          MaxCalls       \* bound: calls

ASSUME SequencesAssumption ==
  /\ IsFiniteSet(Ids) /\ Limits \subseteq Nat
  /\ MaxBatch \in Nat /\ MaxTokens \in Nat

VARIABLES
  limit,    \* max_sequences of the store in use
  attached, \* a PleMemoryAdapter was made with that store
  order,    \* the keys of _seqs, least recently used first
  hist,     \* hist[id]: _history
  last,     \* last[id]: the row ids of _last
  batch,    \* the rows forward has still to feed
  outcome,  \* how the last call ended
  calls,
  \* History variables.
  fed,      \* fed[id]: what was fed to the sequence id since it was made
  running,  \* the requests that were fed and have not ended
  uses      \* every id used so far, least recently used first

vars == <<limit, attached, order, hist, last, batch, outcome, calls, fed, running, uses>>

\* A batch of forward has rows of one length; a feed on the store is one row.
\* tensor: forward is asked for tensors, not for bytes.
Rows(b, n, t) == [1..b -> [id : Ids, tokens : [1..n -> Tokens], tensor : {t}]]
AnyBatches == UNION {Rows(b, n, t) : b \in 1..MaxBatch, n \in 0..MaxTokens, t \in BOOLEAN}
Batches == {rows \in AnyBatches : Len(rows) * Len(rows[1].tokens) <= MaxTokens}
Feeds == UNION {Rows(1, n, FALSE) : n \in 0..MaxTokens}

Init ==
  /\ limit \in Limits /\ attached = FALSE
  /\ order = <<>> /\ batch = <<>> /\ outcome = "none" /\ calls = 0 /\ uses = <<>>
  /\ hist = [id \in Ids |-> Cold]
  /\ last = [id \in Ids |-> <<>>]
  /\ fed = [id \in Ids |-> <<>>] /\ running = {}

Call == batch = <<>> /\ calls < MaxCalls /\ calls' = calls + 1

\* No sequence is ever dropped under this limit (max_sequences = None).
Unlimited == Cardinality(Ids)

\* PleMemoryAdapter(memory, sequence_store=store): a store without sequences is
\* false (__len__), so "sequence_store or PleSequenceStore(...)" replaces it.
Attach ==
  /\ Call
  /\ ~attached /\ attached' = TRUE
  /\ limit' = IF order = <<>> THEN Unlimited ELSE limit
  /\ running' = IF order = <<>> THEN {} ELSE running
  /\ outcome' = "ok"
  /\ UNCHANGED <<order, hist, last, batch, fed, uses>>

-----------------------------------------------------------------------------
Known(id) == id \in ToSet(order)

\* MUTANT of Full: the store is taken for full one sequence too early.
FullEarly(id) == ~Known(id) /\ Len(order) + 1 >= limit

\* Making a sequence in a full store drops the oldest one first.
Full(id) == ~Known(id) /\ Len(order) >= limit

\* The sequences that stay when id is looked up.
Kept(id) == IF Full(id) THEN Tail(order) ELSE order

\* MUTANT of Touched: a lookup does not move the sequence.
TouchedInPlace(id) == IF Known(id) THEN order ELSE Append(Kept(id), id)

\* get_or_create: move to the end, or make at the end.
Touched(id) == Append(RemoveFirst(Kept(id), id), id)

\* forward is called with a batch, or the store with one row.
Forward(rows) ==
  /\ Call
  /\ batch' = rows
  /\ outcome' = "none"
  /\ UNCHANGED <<limit, attached, order, hist, last, fed, running, uses>>

\* An empty row yields no tensor: forward raises after feeding it.
NoTensor == batch[1].tensor /\ batch[1].tokens = <<>>

\* MUTANT of FeedRow: the history is advanced before the rows are fetched.
FeedRowEarly(ok) ==
  LET id  == batch[1].id
      tok == batch[1].tokens
      h   == IF Known(id) THEN hist[id] ELSE Cold
      f   == IF Known(id) THEN fed[id] ELSE <<>> IN
  /\ batch # <<>>
  /\ ~(Full(id) /\ order = <<>>)
  /\ order' = Touched(id)
  /\ uses' = Append(RemoveFirst(uses, id), id)
  /\ ok \/ tok # <<>>
  /\ batch' = IF ok /\ ~NoTensor THEN Tail(batch) ELSE <<>>
  /\ outcome' = IF ~ok THEN "store_error" ELSE IF NoTensor THEN "no_e_t" ELSE "ok"
  /\ hist' = [hist EXCEPT ![id] = IF tok # <<>> THEN Window(h \o tok) ELSE h]
  /\ last' = [last EXCEPT ![id] = IF ok THEN RowKeys(h, tok)
                                  ELSE IF Known(id) THEN @ ELSE <<>>]
  /\ fed' = [fed EXCEPT ![id] = IF ok THEN f \o tok ELSE f]
  /\ running' = IF ok /\ tok # <<>> THEN running \cup {id} ELSE running
  /\ UNCHANGED <<limit, attached, calls>>

\* One row of the batch: PleSequenceStore.feed.  ok says whether the fetch
\* succeeds; when it raises, the sequence exists but has not advanced, and the
\* rest of the batch is not fed.  An empty row fetches nothing.
FeedRow(ok) ==
  LET id  == batch[1].id
      tok == batch[1].tokens
      h   == IF Known(id) THEN hist[id] ELSE Cold
      f   == IF Known(id) THEN fed[id] ELSE <<>> IN
  /\ batch # <<>>
  /\ ~(Full(id) /\ order = <<>>)
  /\ order' = Touched(id)
  /\ uses' = Append(RemoveFirst(uses, id), id)
  /\ ok \/ tok # <<>>
  /\ batch' = IF ok /\ ~NoTensor THEN Tail(batch) ELSE <<>>
  /\ outcome' = IF ~ok THEN "store_error" ELSE IF NoTensor THEN "no_e_t" ELSE "ok"
  /\ hist' = [hist EXCEPT ![id] = IF ok /\ tok # <<>> THEN Window(h \o tok) ELSE h]
  /\ last' = [last EXCEPT ![id] = IF ok THEN RowKeys(h, tok)
                                  ELSE IF Known(id) THEN @ ELSE <<>>]
  /\ fed' = [fed EXCEPT ![id] = IF ok THEN f \o tok ELSE f]
  /\ running' = IF ok /\ tok # <<>> THEN running \cup {id} ELSE running
  /\ UNCHANGED <<limit, attached, calls>>

\* popitem on an empty store: max_sequences = 0 raises before anything is kept.
FeedNowhere ==
  /\ batch # <<>>
  /\ Full(batch[1].id) /\ order = <<>>
  /\ batch' = <<>>
  /\ outcome' = "KeyError"
  /\ UNCHANGED <<limit, attached, order, hist, last, calls, fed, running, uses>>

\* get, current_e_t, current_raw: a lookup counts as a use.
Lookup(id) ==
  /\ Call
  /\ IF Known(id)
     THEN order' = Touched(id) /\ uses' = Append(RemoveFirst(uses, id), id) /\ outcome' = "ok"
     ELSE outcome' = "KeyError" /\ UNCHANGED <<order, uses>>
  /\ UNCHANGED <<limit, attached, hist, last, batch, fed, running>>

\* PleSequence.reset, on the sequence get returned.
Reset(id) ==
  /\ Call
  /\ Known(id)
  /\ order' = Touched(id)
  /\ uses' = Append(RemoveFirst(uses, id), id)
  /\ hist' = [hist EXCEPT ![id] = Cold]
  /\ last' = [last EXCEPT ![id] = <<>>]
  /\ fed' = [fed EXCEPT ![id] = <<>>]
  /\ outcome' = "ok"
  /\ UNCHANGED <<limit, attached, batch, running>>

\* remove, or PleMemoryAdapter.reset(seq_id): the request has ended.
EndRequest(id) ==
  /\ Call
  /\ order' = RemoveFirst(order, id)
  /\ running' = running \ {id}
  /\ outcome' = "ok"
  /\ UNCHANGED <<limit, attached, hist, last, batch, fed, uses>>

\* clear, close, or PleMemoryAdapter.reset().
Clear ==
  /\ Call
  /\ order' = <<>>
  /\ running' = {}
  /\ outcome' = "ok"
  /\ UNCHANGED <<limit, attached, hist, last, batch, fed, uses>>

Next ==
  \/ \E rows \in IF attached THEN Batches ELSE Feeds : Forward(rows)
  \/ Attach
  \/ \E ok \in BOOLEAN : FeedRow(ok)
  \/ FeedNowhere
  \/ \E id \in Ids : Lookup(id) \/ Reset(id) \/ EndRequest(id)
  \/ Clear

Spec == Init /\ [][Next]_vars

-----------------------------------------------------------------------------
(* Properties.                                                             *)

TypeOK ==
  /\ limit \in Nat /\ attached \in BOOLEAN /\ order \in Seq(Ids) /\ uses \in Seq(Ids)
  /\ hist \in [Ids -> {h \in Seq(Tokens) : Len(h) = NgramSize - 1}]
  /\ last \in [Ids -> Seq([0..(NgramSize - 1) -> Tokens])]
  /\ batch \in Seq([id : Ids, tokens : Seq(Tokens), tensor : BOOLEAN])
  /\ outcome \in {"none", "ok", "store_error", "no_e_t", "KeyError"}
  /\ calls \in Nat
  /\ fed \in [Ids -> Seq(Tokens)]
  /\ running \subseteq Ids

\* got is what one call on the whole of stream returns for its last tokens.
TailOfOneCall(got, stream) ==
  \A k \in 1..Len(got) : got[k] = Context(stream, Len(stream) - Len(got) + k)

\* Streaming is exact (ple_memory.py 476-486, keygen lib.rs 110-114): however
\* the tokens of a sequence are split over feeds, whatever lookups, failures,
\* evictions and resets of other sequences happen in between, a feed returns
\* the row ids one call on all its tokens would have returned.
StreamExact ==
  \A id \in Ids : Known(id) => TailOfOneCall(last[id], Cold \o fed[id])

\* Where id stands in uses.
UsedAt(id) == CHOOSE i \in 1..Len(uses) : uses[i] = id

\* The requests that were used after id was.
UsedSince(id) == {uses[i] : i \in (UsedAt(id) + 1)..Len(uses)}

\* A request that is running keeps its sequence, and with it its whole history,
\* as long as fewer than max_sequences other requests were used (fed or looked up)
\* since it was: batches that leave out a request for a while, fail half-way or end
\* other requests do not cost it its history (ple_memory.py 564-575).
RunningKept ==
  \A id \in running : Cardinality(UsedSince(id)) < limit => Known(id)

\* Only the least recently used sequence is ever dropped by another one (565,
\* 568, 590): lookups count as uses.
DropsOldest ==
  [][ \A id \in ToSet(order) \ ToSet(order') :
        batch # <<>> => \A other \in ToSet(order) : UsedAt(id) <= UsedAt(other) ]_vars
=============================================================================
