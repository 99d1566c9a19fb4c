------------------------------ MODULE PleNGram ------------------------------
(***************************************************************************)
(* DiskPleNGramEmbedding of python/engramdb/ple_adapter.py: one n-gram     *)
(* context per row of the batch, over a DiskPleEmbedding (`table`) that is *)
(* asked for the row ids of the contexts.                                  *)
(*                                                                         *)
(* The row ids of a position are a hash of its context (PleKeys), so the   *)
(* table's rows are contexts here.                                         *)
(***************************************************************************)
EXTENDS DiskPleEmbedding, PleKeys

CONSTANT Inputs  \* bound: the batches, sequences of token sequences of one length

ASSUME NGramAssumption ==
  /\ Rows = [0..(NgramSize - 1) -> Tokens]
  /\ \A input \in Inputs : input # <<>> /\ input \in Seq(Seq(Tokens))

VARIABLES
  context,  \* _context: the last tokens of each batch row
  fed,      \* history: all tokens each batch row was fed since reset_history
  input,    \* history: the batch of the last forward since reset_history
  hinted    \* history: the batches prefetched since forward, reset_history or close

ngramVars == <<context, fed, input, hinted>>
allVars == <<vars, ngramVars>>

\* The contexts a batch of n rows meets: new rows start cold (309, 326).
Extended(c, n) == [b \in 1..Max({n, Len(c)}) |-> IF b \in DOMAIN c THEN c[b] ELSE Cold]

\* flat_rows: the rows of all positions of all batch rows.
RowsFor(c, batch) == FlattenSeq([b \in 1..Len(batch) |-> RowKeys(c[b], batch[b])])

\* MUTANT of Advanced: batch rows that are not in this batch are dropped.
AdvancedFirst(c, batch) == [b \in DOMAIN batch |-> Window(c[b] \o batch[b])]

\* (history + seq)[-(ngram_size - 1):] for the rows of the batch.
Advanced(c, batch) ==
  [b \in DOMAIN c |-> IF b \in DOMAIN batch THEN Window(c[b] \o batch[b]) ELSE c[b]]

NGramInit ==
  /\ Init
  /\ context = <<>> /\ fed = <<>> /\ input = <<>> /\ hinted = {}

-----------------------------------------------------------------------------
\* MUTANT of NGramPrefetch: the contexts advance with the prefetch.
NGramPrefetchConsuming(batch) ==
  LET known == Extended(context, Len(batch)) IN
  /\ Prefetch(RowsFor(known, batch))
  /\ context' = Advanced(known, batch)
  /\ hinted' = IF closed THEN hinted ELSE hinted \union {batch}
  /\ UNCHANGED <<fed, input>>

\* prefetch: new batch rows get their contexts, but none advances.
NGramPrefetch(batch) ==
  LET known == Extended(context, Len(batch)) IN
  /\ Prefetch(RowsFor(known, batch))
  /\ context' = known
  /\ hinted' = IF closed THEN hinted ELSE hinted \union {batch}
  /\ UNCHANGED <<fed, input>>

\* forward: all contexts advance before the table is asked, whatever comes of
\* it (ok: whether a read that bypasses the cache succeeds).
NGramForward(batch, ok) ==
  LET known == Extended(context, Len(batch))
      rows  == RowsFor(known, batch) IN
  /\ Forward(rows) \/ ForwardFast(rows, ok)
  /\ context' = Advanced(known, batch)
  /\ fed' = [b \in 1..Len(known) |-> (IF b \in DOMAIN fed THEN fed[b] ELSE <<>>)
                                     \o (IF b \in DOMAIN batch THEN batch[b] ELSE <<>>)]
  /\ input' = batch /\ hinted' = {}

\* reset_history
ResetHistory ==
  /\ Call
  /\ context' = <<>>
  /\ fed' = <<>> /\ input' = <<>> /\ hinted' = {}
  /\ UNCHANGED <<config, cache, prefetched, futures, pending, pendingRows, closed, pc, flat,
                 loop, read, outcome, awaited>>

\* close only closes the table.
NGramClose == Close /\ hinted' = {} /\ UNCHANGED <<context, fed, input>>

Table == (Continue \/ Worker) /\ UNCHANGED ngramVars

NGramNext ==
  \/ \E batch \in Inputs : \/ NGramPrefetch(batch)
                           \/ \E ok \in BOOLEAN : NGramForward(batch, ok)
  \/ ResetHistory \/ NGramClose \/ Table

\* The fairness of DiskPleEmbedding; nothing makes the model call.
NGramSpec ==
  /\ NGramInit /\ [][NGramNext]_allVars
  /\ WF_allVars(Worker /\ UNCHANGED ngramVars)
  /\ WF_allVars(Continue /\ UNCHANGED ngramVars)

-----------------------------------------------------------------------------
(* Properties, next to those of DiskPleEmbedding.                          *)

\* Types; the cache never outgrows cache_size and holds a row once
\* (vllm_plugin.py 177, 260), the no-cache buffer is only used without a cache,
\* and a context has the length the hash needs.
NGramTypeOK ==
  /\ TypeOK /\ CacheBounded
  /\ context \in Seq([1..(NgramSize - 1) -> Tokens])
  /\ fed \in Seq(Seq(Tokens)) /\ Len(fed) <= Len(context)
  /\ input \in Inputs \union {<<>>} /\ hinted \subseteq Inputs

\* forward asks the table for the rows that one call on everything a batch row
\* was fed would end with (ple_adapter.py 200-204: sequential decode steps see
\* the correct previous context), through batches of changing size, prefetches
\* and resets between them.  What a failed forward was given counts as fed.
ContextExact ==
  input # <<>> =>
    flat = FlattenSeq([b \in 1..Len(input) |->
             LET all == RowKeys(Cold, fed[b]) IN
             SubSeq(all, Len(all) - Len(input[b]) + 1, Len(all))])

\* prefetch computes the rows of forward (301-303): a forward of a batch that was
\* prefetched finds every row cached or under way, when no other forward or
\* reset came between, also behind a read that timed out or failed before.
PrefetchCovers ==
  [][ \A batch \in hinted : \A ok \in BOOLEAN : NGramForward(batch, ok) =>
        ToSet(flat') \subseteq ToSet(cache) \union pendingRows ]_allVars
=============================================================================
