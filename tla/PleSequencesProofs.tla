------------------------- MODULE PleSequencesProofs --------------------------
(***************************************************************************)
(* Streaming is exact for every vocabulary, n-gram size, number of         *)
(* requests and limit, and a running request keeps its history while fewer *)
(* than the limit are used after it: the store's order is the order of use.*)
(***************************************************************************)
EXTENDS PleSequences, PleLemmas

-----------------------------------------------------------------------------
\* The rows of a batch.
RowRecords == [id : Ids, tokens : Seq(Tokens), tensor : BOOLEAN]

\* The types the invariant needs.
HistTypes ==
  /\ hist \in [Ids -> Seq(Tokens)]
  /\ fed \in [Ids -> Seq(Tokens)]
  /\ last \in [Ids -> Seq([0..(NgramSize - 1) -> Tokens])]
  /\ batch \in Seq(RowRecords)

\* A history is always the window of everything fed since it was cold, and the
\* last row ids are those of one call.  Unlike StreamExact it also says so of
\* what Init and the removals left behind for unknown ids.
HistExact ==
  \A id \in Ids :
    /\ hist[id] = Window(Cold \o fed[id])
    /\ TailOfOneCall(last[id], Cold \o fed[id])

HistInv == HistTypes /\ HistExact

\* Before the first feed every history is cold, and so is its window.
LEMMA InitHist == Init => HistInv
<1> SUFFICES ASSUME Init PROVE HistInv
  OBVIOUS
<1>1. HistTypes
  BY ColdFacts DEF Init, HistTypes
<1>2. ASSUME NEW id \in Ids
      PROVE  hist[id] = Window(Cold \o fed[id]) /\ TailOfOneCall(last[id], Cold \o fed[id])
  BY ColdFacts DEF Init, TailOfOneCall
<1> QED BY <1>1, <1>2 DEF HistInv, HistExact

\* A batch, or a row fed by the caller, is a sequence of rows.
LEMMA RowsAreSeqs == Batches \cup Feeds \subseteq Seq(RowRecords)
<1>1. ASSUME NEW n \in Nat, NEW b \in Nat, NEW t \in BOOLEAN
      PROVE  Rows(b, n, t) \subseteq Seq(RowRecords)
  <2>1. [1..n -> Tokens] \subseteq Seq(Tokens)
    BY FunIsSeq
  <2>2. [id : Ids, tokens : [1..n -> Tokens], tensor : {t}] \subseteq RowRecords
    BY <2>1 DEF RowRecords
  <2>3. Rows(b, n, t) \subseteq [1..b -> RowRecords]
    BY <2>2 DEF Rows
  <2> QED BY <2>3, FunIsSeq
<1>2. 1..MaxBatch \subseteq Nat /\ 0..MaxTokens \subseteq Nat
  BY SequencesAssumption
<1>3. ASSUME NEW r \in Batches PROVE r \in Seq(RowRecords)
  <2>1. PICK b \in 1..MaxBatch, n \in 0..MaxTokens, t \in BOOLEAN : r \in Rows(b, n, t)
    BY <1>3 DEF Batches, AnyBatches
  <2> QED BY <1>1, <1>2, <2>1
<1>4. ASSUME NEW r \in Feeds PROVE r \in Seq(RowRecords)
  <2>1. PICK n \in 0..MaxTokens : r \in Rows(1, n, FALSE)
    BY <1>4 DEF Feeds
  <2>2. Rows(1, n, FALSE) \subseteq Seq(RowRecords)
    BY <1>1, <1>2
  <2> QED BY <2>1, <2>2
<1> QED BY <1>3, <1>4

\* Feeding tok after f: the new window and the new row ids are those of the
\* whole stream.
LEMMA FeedExact ==
  ASSUME NEW f \in Seq(Tokens), NEW tok \in Seq(Tokens),
         NEW h, h = Window(Cold \o f)
  PROVE  /\ h \in Seq(Tokens)
         /\ f \o tok \in Seq(Tokens)
         /\ Window(h \o tok) \in Seq(Tokens)
         /\ Window(h \o tok) = Window(Cold \o (f \o tok))
         /\ tok = <<>> => h = Window(Cold \o (f \o tok))
         /\ TailOfOneCall(RowKeys(h, tok), Cold \o (f \o tok))
<1>1. /\ h \in Seq(Tokens) /\ f \o tok \in Seq(Tokens)
      /\ Window(h \o tok) \in Seq(Tokens)
      /\ Window(h \o tok) = Window(Cold \o (f \o tok))
      /\ tok = <<>> => h = Window(Cold \o (f \o tok))
  BY WindowFed
<1> DEFINE q == Cold \o (f \o tok)
<1>2. RowKeys(h, tok) = [k \in 1..Len(tok) |-> Context(q, Len(q) - Len(tok) + k)]
  BY WindowFed
<1>3. TailOfOneCall(RowKeys(h, tok), q)
  <2>1. Len(RowKeys(h, tok)) = Len(tok)
    BY <1>1, RowKeysType
  <2> HIDE DEF q
  <2>2. \A k \in 1..Len(tok) : RowKeys(h, tok)[k] = Context(q, Len(q) - Len(tok) + k)
    BY <1>2
  <2> QED BY <2>1, <2>2 DEF TailOfOneCall
<1> QED BY <1>1, <1>3

\* A step that leaves the histories alone.
LEMMA SameHist ==
  ASSUME HistInv, UNCHANGED <<hist, last, fed>>, batch' \in Seq(RowRecords)
  PROVE  HistInv'
<1>1. HistTypes'
  BY DEF HistInv, HistTypes
<1>2. HistExact'
  BY DEF HistInv, HistExact, TailOfOneCall
<1> QED BY <1>1, <1>2 DEF HistInv

\* Feeding one row: a new or evicted-and-made-again sequence starts cold, a
\* failed fetch leaves it there, a successful one moves its window on.
LEMMA FeedRowHist ==
  ASSUME HistInv, NEW ok \in BOOLEAN, FeedRow(ok)
  PROVE  HistInv'
<1> DEFINE id  == batch[1].id
           tok == batch[1].tokens
           h   == IF Known(id) THEN hist[id] ELSE Cold
           f   == IF Known(id) THEN fed[id] ELSE <<>>
           l   == IF Known(id) THEN last[id] ELSE <<>>
<1>1. batch # <<>> /\ batch \in Seq(RowRecords)
  BY DEF FeedRow, HistInv, HistTypes
<1>2. id \in Ids /\ tok \in Seq(Tokens) /\ Tail(batch) \in Seq(RowRecords)
  <2>1. 1 \in 1..Len(batch)
    BY <1>1
  <2>2. batch[1] \in RowRecords
    BY <1>1, <2>1, ElementOfSeq
  <2> QED BY <1>1, <2>2, HeadTailProperties DEF RowRecords
<1>3. batch' \in Seq(RowRecords)
  <2>1. batch' = Tail(batch) \/ batch' = <<>>
    BY DEF FeedRow
  <2>2. <<>> \in Seq(RowRecords)
    BY EmptySeq
  <2> QED BY <1>2, <2>1, <2>2, Zenon
<1>4. /\ hist' = [hist EXCEPT ![id] = IF ok /\ tok # <<>> THEN Window(h \o tok) ELSE h]
      /\ last' = [last EXCEPT ![id] = IF ok THEN RowKeys(h, tok) ELSE l]
      /\ fed' = [fed EXCEPT ![id] = IF ok THEN f \o tok ELSE f]
  BY DEF FeedRow
<1>5. hist \in [Ids -> Seq(Tokens)] /\ fed \in [Ids -> Seq(Tokens)]
      /\ last \in [Ids -> Seq([0..(NgramSize - 1) -> Tokens])]
  BY DEF HistInv, HistTypes
<1>6. /\ f \in Seq(Tokens)
      /\ l \in Seq([0..(NgramSize - 1) -> Tokens])
      /\ h = Window(Cold \o f)
      /\ TailOfOneCall(l, Cold \o f)
  <2>1. CASE Known(id)
    BY <1>2, <1>5, <2>1 DEF HistInv, HistExact
  <2>2. CASE ~Known(id)
    BY <2>2, ColdFacts DEF TailOfOneCall
  <2> QED BY <2>1, <2>2
<1> HIDE DEF id, tok, h, f, l
<1>7. /\ h \in Seq(Tokens) /\ f \o tok \in Seq(Tokens)
      /\ Window(h \o tok) \in Seq(Tokens)
      /\ Window(h \o tok) = Window(Cold \o (f \o tok))
      /\ tok = <<>> => h = Window(Cold \o (f \o tok))
      /\ TailOfOneCall(RowKeys(h, tok), Cold \o (f \o tok))
  BY <1>2, <1>6, FeedExact
<1>8. RowKeys(h, tok) \in Seq([0..(NgramSize - 1) -> Tokens])
  BY <1>2, <1>7, RowKeysType
<1>9. HistTypes'
  BY <1>2, <1>3, <1>4, <1>5, <1>6, <1>7, <1>8 DEF HistTypes
<1>10. ASSUME NEW i \in Ids
       PROVE  hist'[i] = Window(Cold \o fed'[i]) /\ TailOfOneCall(last'[i], Cold \o fed'[i])
  <2>1. CASE i = id
    <3>1. hist'[i] = IF ok /\ tok # <<>> THEN Window(h \o tok) ELSE h
      BY <1>2, <1>4, <1>5, <2>1
    <3>2. last'[i] = IF ok THEN RowKeys(h, tok) ELSE l
      BY <1>2, <1>4, <1>5, <2>1
    <3>3. fed'[i] = IF ok THEN f \o tok ELSE f
      BY <1>2, <1>4, <1>5, <2>1
    <3> QED BY <1>6, <1>7, <3>1, <3>2, <3>3
  <2>2. CASE i # id
    <3>1. hist'[i] = hist[i] /\ last'[i] = last[i] /\ fed'[i] = fed[i]
      BY <1>4, <1>5, <2>2
    <3> QED BY <3>1 DEF HistInv, HistExact
  <2> QED BY <2>1, <2>2
<1>11. HistExact'
  BY <1>10 DEF HistExact, TailOfOneCall
<1> QED BY <1>9, <1>11 DEF HistInv

\* A reset makes the history, and what was fed since, cold again.
LEMMA ResetHist ==
  ASSUME HistInv, NEW id \in Ids, Reset(id)
  PROVE  HistInv'
<1>1. /\ hist' = [hist EXCEPT ![id] = Cold] /\ last' = [last EXCEPT ![id] = <<>>]
      /\ fed' = [fed EXCEPT ![id] = <<>>] /\ batch' = batch
  BY DEF Reset
<1>2. HistTypes
  BY DEF HistInv
<1>3. HistTypes'
  BY <1>1, <1>2, ColdFacts DEF HistTypes
<1>4. ASSUME NEW i \in Ids
      PROVE  hist'[i] = Window(Cold \o fed'[i]) /\ TailOfOneCall(last'[i], Cold \o fed'[i])
  <2>1. CASE i = id
    <3>1. hist'[i] = Cold /\ last'[i] = <<>> /\ fed'[i] = <<>>
      BY <1>1, <1>2, <2>1 DEF HistTypes
    <3> QED BY <3>1, ColdFacts DEF TailOfOneCall
  <2>2. CASE i # id
    <3>1. hist'[i] = hist[i] /\ last'[i] = last[i] /\ fed'[i] = fed[i]
      BY <1>1, <1>2, <2>2 DEF HistTypes
    <3> QED BY <3>1 DEF HistInv, HistExact
  <2> QED BY <2>1, <2>2
<1>5. HistExact'
  BY <1>4 DEF HistExact, TailOfOneCall
<1> QED BY <1>3, <1>5 DEF HistInv

\* Only FeedRow and Reset touch histories; the removals leave them behind, cold
\* again once the id comes back.
LEMMA NextHist == HistInv /\ [Next]_vars => HistInv'
<1> SUFFICES ASSUME HistInv, [Next]_vars PROVE HistInv'
  OBVIOUS
<1>0. batch \in Seq(RowRecords) /\ <<>> \in Seq(RowRecords)
  BY DEF HistInv, HistTypes
<1>1. ASSUME NEW rows \in Batches \cup Feeds, Forward(rows) PROVE HistInv'
  BY <1>1, RowsAreSeqs, SameHist DEF Forward
<1>2. CASE Attach
  BY <1>0, <1>2, SameHist DEF Attach
<1>3. ASSUME NEW ok \in BOOLEAN, FeedRow(ok) PROVE HistInv'
  BY <1>3, FeedRowHist
<1>4. CASE FeedNowhere
  BY <1>0, <1>4, SameHist DEF FeedNowhere
<1>5. ASSUME NEW id \in Ids, Lookup(id) PROVE HistInv'
  BY <1>0, <1>5, SameHist DEF Lookup
<1>6. ASSUME NEW id \in Ids, Reset(id) PROVE HistInv'
  BY <1>6, ResetHist
<1>7. ASSUME NEW id \in Ids, EndRequest(id) PROVE HistInv'
  BY <1>0, <1>7, SameHist DEF EndRequest
<1>8. CASE Clear
  BY <1>0, <1>8, SameHist DEF Clear
<1>9. CASE UNCHANGED vars
  BY <1>0, <1>9, SameHist DEF vars
<1>10. Next => HistInv'
  BY <1>1, <1>2, <1>3, <1>4, <1>5, <1>6, <1>7, <1>8 DEF Next
<1> QED BY <1>9, <1>10

\* Whatever the vocabulary, the n-gram size, the number of requests and the
\* limit, a feed returns what one call on all the sequence's tokens would have
\* (PleSequence.feed keeping only the last ngram_size - 1 of them).
THEOREM StreamingExact == Spec => []StreamExact
<1>1. HistInv => StreamExact
  BY DEF HistInv, HistExact, StreamExact
<1> QED BY <1>1, InitHist, NextHist, PTL DEF Spec

\* A history is exactly the last ngram_size - 1 tokens of what was fed
\* (ple_memory.py 486), so nothing older is needed.
THEOREM HistoriesAreWindows ==
  Spec => [](\A id \in Ids : hist[id] = Window(Cold \o fed[id]))
<1>1. HistInv => \A id \in Ids : hist[id] = Window(Cold \o fed[id])
  BY DEF HistInv, HistExact
<1> QED BY <1>1, InitHist, NextHist, PTL DEF Spec

-----------------------------------------------------------------------------
(* The order of use.                                                       *)

\* x comes before y in s.
Before(s, x, y) == \E a, b \in 1..Len(s) : a < b /\ s[a] = x /\ s[b] = y

\* e moves to the end of s.
MovedLast(s, e) == Append(RemoveFirst(s, e), e)

LEMMA NoFirst ==
  ASSUME NEW S, NEW s \in Seq(S), NEW e, e \notin ToSet(s)
  PROVE  RemoveFirst(s, e) = s
BY SetOfSeq DEF RemoveFirst

\* Taking a key out: k is where it was, or the place after the end.
LEMMA Removed ==
  ASSUME NEW S, NEW s \in Seq(S), NoRepeats(s), NEW e
  PROVE  /\ RemoveFirst(s, e) \in Seq(S) /\ NoRepeats(RemoveFirst(s, e))
         /\ ToSet(RemoveFirst(s, e)) = ToSet(s) \ {e}
         /\ \E k \in 1..(Len(s) + 1) :
              /\ k <= Len(s) => s[k] = e /\ Len(RemoveFirst(s, e)) = Len(s) - 1
              /\ k = Len(s) + 1 => Len(RemoveFirst(s, e)) = Len(s)
              /\ \A i \in 1..Len(RemoveFirst(s, e)) :
                   RemoveFirst(s, e)[i] = IF i < k THEN s[i] ELSE s[i + 1]
<1>1. Len(s) \in Nat
  BY LenProperties
<1> DEFINE r == RemoveFirst(s, e)
<1>2. CASE e \in ToSet(s)
  <2>1. r \in Seq(S) /\ ToSet(r) = ToSet(s) \ {e} /\ NoRepeats(r)
    BY <1>2, RemoveOnce
  <2>2. PICK k \in 1..Len(s) :
          /\ s[k] = e /\ Len(r) = Len(s) - 1
          /\ \A i \in 1..(Len(s) - 1) : r[i] = IF i < k THEN s[i] ELSE s[i + 1]
    BY <1>2, RemovedAt
  <2> HIDE DEF r
  <2>3. k \in 1..(Len(s) + 1) /\ k <= Len(s) /\ k # Len(s) + 1
    BY <1>1
  <2> QED BY <2>1, <2>2, <2>3 DEF r
<1>3. CASE e \notin ToSet(s)
  <2>1. r = s /\ ToSet(s) = ToSet(s) \ {e}
    BY <1>3, NoFirst
  <2>2. Len(s) + 1 \in 1..(Len(s) + 1) /\ ~ (Len(s) + 1 <= Len(s))
        /\ \A i \in 1..Len(s) : i < Len(s) + 1
    BY <1>1
  <2> QED BY <2>1, <2>2
<1> QED BY <1>2, <1>3

\* Taking a key out keeps the others in their order.
LEMMA RemovedBefore ==
  ASSUME NEW S, NEW s \in Seq(S), NoRepeats(s), NEW e, NEW x, NEW y
  PROVE  Before(RemoveFirst(s, e), x, y) <=> x # e /\ y # e /\ Before(s, x, y)
<1> DEFINE r == RemoveFirst(s, e)
<1>1. Len(s) \in Nat /\ r \in Seq(S) /\ ToSet(r) = ToSet(s) \ {e}
  BY Removed, LenProperties
<1>2. PICK k \in 1..(Len(s) + 1) :
        /\ k <= Len(s) => s[k] = e /\ Len(r) = Len(s) - 1
        /\ k = Len(s) + 1 => Len(r) = Len(s)
        /\ \A i \in 1..Len(r) : r[i] = IF i < k THEN s[i] ELSE s[i + 1]
  BY Removed
<1> HIDE DEF r
<1>3. Len(r) = IF k <= Len(s) THEN Len(s) - 1 ELSE Len(s)
  BY <1>1, <1>2
<1>4. ASSUME Before(r, x, y) PROVE x # e /\ y # e /\ Before(s, x, y)
  <2>1. PICK a \in 1..Len(r), b \in 1..Len(r) : a < b /\ r[a] = x /\ r[b] = y
    BY <1>4 DEF Before
  <2>2. x \in ToSet(r) /\ y \in ToSet(r)
    BY <1>1, <2>1, SetOfSeq
  <2> DEFINE at(i) == IF i < k THEN i ELSE i + 1
  <2>3. at(a) \in 1..Len(s) /\ at(b) \in 1..Len(s) /\ at(a) < at(b)
    BY <1>1, <1>3, <2>1
  <2>4. s[at(a)] = x /\ s[at(b)] = y
    BY <1>2, <2>1
  <2> HIDE DEF at
  <2> QED BY <1>1, <2>2, <2>3, <2>4 DEF Before
<1>5. ASSUME x # e, y # e, Before(s, x, y) PROVE Before(r, x, y)
  <2>1. PICK a \in 1..Len(s), b \in 1..Len(s) : a < b /\ s[a] = x /\ s[b] = y
    BY <1>5 DEF Before
  <2>2. a # k /\ b # k
    BY <1>1, <1>2, <1>5, <2>1
  <2> DEFINE to(i) == IF i < k THEN i ELSE i - 1
  <2>3. to(a) \in 1..Len(r) /\ to(b) \in 1..Len(r) /\ to(a) < to(b)
    BY <1>1, <1>3, <2>1, <2>2
  <2>4. ASSUME NEW i \in 1..Len(s), i # k PROVE r[to(i)] = s[i]
    <3>1. to(i) \in 1..Len(r)
      BY <1>1, <1>3, <2>4
    <3>2. CASE i < k
      BY <1>2, <3>1, <3>2
    <3>3. CASE i > k
      <4>1. ~ (i - 1 < k) /\ i - 1 + 1 = i /\ to(i) = i - 1
        BY <3>3
      <4> HIDE DEF to
      <4> QED BY <1>2, <3>1, <4>1
    <3> QED BY <2>4, <3>2, <3>3
  <2>5. r[to(a)] = x /\ r[to(b)] = y
    BY <2>1, <2>2, <2>4
  <2> HIDE DEF to
  <2> QED BY <2>3, <2>5 DEF Before
<1> QED BY <1>4, <1>5 DEF r

\* Moving a key to the end puts it after all others and keeps those in order.
LEMMA Moved ==
  ASSUME NEW S, NEW s \in Seq(S), NoRepeats(s), NEW e \in S
  PROVE  /\ MovedLast(s, e) \in Seq(S) /\ NoRepeats(MovedLast(s, e))
         /\ ToSet(MovedLast(s, e)) = ToSet(s) \cup {e}
         /\ \A x, y \in S : Before(MovedLast(s, e), x, y) <=>
              x # e /\ IF y = e THEN x \in ToSet(s) ELSE Before(s, x, y)
<1> DEFINE r == RemoveFirst(s, e)
           t == Append(r, e)
<1>1. r \in Seq(S) /\ NoRepeats(r) /\ ToSet(r) = ToSet(s) \ {e} /\ Len(r) \in Nat
  BY Removed, LenProperties
<1>2. \A x, y : Before(r, x, y) <=> x # e /\ y # e /\ Before(s, x, y)
  BY RemovedBefore
<1> HIDE DEF r
<1>3. /\ t \in Seq(S) /\ Len(t) = Len(r) + 1 /\ t[Len(r) + 1] = e
      /\ \A i \in 1..Len(r) : t[i] = r[i]
  BY <1>1, AppendProperties
<1> HIDE DEF t
<1>4. ToSet(r) = {r[i] : i \in 1..Len(r)} /\ ToSet(t) = {t[i] : i \in 1..Len(t)}
  BY <1>1, <1>3, SetOfSeq
<1>5. \A i : i \in 1..Len(t) <=> i \in 1..Len(r) \/ i = Len(r) + 1
  BY <1>1, <1>3
<1>6. ToSet(t) = ToSet(s) \cup {e}
  <2>1. ToSet(t) = ToSet(r) \cup {e}
    BY <1>3, <1>4, <1>5
  <2> QED BY <1>1, <2>1
<1>7. NoRepeats(t)
  <2> SUFFICES ASSUME NEW i \in 1..Len(t), NEW j \in 1..Len(t), i # j PROVE t[i] # t[j]
    BY DEF NoRepeats
  <2>1. \A n \in 1..Len(r) : t[n] # e
    BY <1>1, <1>3, <1>4
  <2>2. CASE i \in 1..Len(r) /\ j \in 1..Len(r)
    BY <1>1, <1>3, <2>2 DEF NoRepeats
  <2>3. CASE i = Len(r) + 1 \/ j = Len(r) + 1
    BY <1>3, <1>5, <2>1, <2>3
  <2> QED BY <1>5, <2>2, <2>3
<1>8. ASSUME NEW x \in S, NEW y \in S
      PROVE  Before(t, x, y) <=> x # e /\ IF y = e THEN x \in ToSet(s) ELSE Before(s, x, y)
  <2>1. Before(t, x, y) <=> Before(r, x, y) \/ (x \in ToSet(r) /\ y = e)
    <3>1. ASSUME Before(t, x, y) PROVE Before(r, x, y) \/ (x \in ToSet(r) /\ y = e)
      <4>1. PICK a \in 1..Len(t), b \in 1..Len(t) : a < b /\ t[a] = x /\ t[b] = y
        BY <3>1 DEF Before
      <4>2. a \in 1..Len(r) /\ t[a] = r[a]
        BY <1>1, <1>3, <4>1
      <4>3. CASE b \in 1..Len(r)
        BY <1>3, <4>1, <4>2, <4>3 DEF Before
      <4>4. CASE b = Len(r) + 1
        BY <1>3, <1>4, <4>1, <4>2, <4>4
      <4> QED BY <1>5, <4>3, <4>4
    <3>2. ASSUME Before(r, x, y) PROVE Before(t, x, y)
      <4>1. PICK a \in 1..Len(r), b \in 1..Len(r) : a < b /\ r[a] = x /\ r[b] = y
        BY <3>2 DEF Before
      <4> QED BY <1>3, <1>5, <4>1 DEF Before
    <3>3. ASSUME x \in ToSet(r), y = e PROVE Before(t, x, y)
      <4>1. PICK a \in 1..Len(r) : r[a] = x
        BY <1>4, <3>3
      <4>2. a < Len(r) + 1 /\ a \in 1..Len(t) /\ Len(r) + 1 \in 1..Len(t)
        BY <1>1, <1>3, <4>1
      <4> QED BY <1>3, <3>3, <4>1, <4>2 DEF Before
    <3> QED BY <3>1, <3>2, <3>3
  <2>2. Before(r, x, y) <=> x # e /\ y # e /\ Before(s, x, y)
    BY <1>2
  <2>3. x \in ToSet(r) <=> x \in ToSet(s) /\ x # e
    BY <1>1
  <2> QED BY <2>1, <2>2, <2>3
<1> QED BY <1>3, <1>6, <1>7, <1>8 DEF MovedLast, t, r

\* Dropping the first key.
LEMMA Dropped ==
  ASSUME NEW S, NEW s \in Seq(S), NoRepeats(s), s # <<>>
  PROVE  /\ Tail(s) \in Seq(S) /\ NoRepeats(Tail(s))
         /\ Head(s) \in ToSet(s) /\ ToSet(Tail(s)) = ToSet(s) \ {Head(s)}
         /\ \A x, y : Before(Tail(s), x, y) => Before(s, x, y)
         /\ \A y \in ToSet(Tail(s)) : Before(s, Head(s), y)
<1> DEFINE t == Tail(s)
<1>1. /\ Len(s) \in Nat /\ Len(s) >= 1 /\ t \in Seq(S) /\ Len(t) = Len(s) - 1
      /\ Head(s) = s[1] /\ \A i \in 1..Len(t) : t[i] = s[i + 1]
  BY HeadTailProperties, LenProperties, NonEmpty
<1> HIDE DEF t
<1>2. ToSet(s) = {s[i] : i \in 1..Len(s)} /\ ToSet(t) = {t[i] : i \in 1..Len(t)}
  BY <1>1, SetOfSeq
<1>3. \A i \in 1..Len(t) : i + 1 \in 1..Len(s) /\ i + 1 # 1
  BY <1>1
<1>4. NoRepeats(t)
  <2> SUFFICES ASSUME NEW i \in 1..Len(t), NEW j \in 1..Len(t), i # j PROVE t[i] # t[j]
    BY DEF NoRepeats
  <2>1. i + 1 # j + 1
    OBVIOUS
  <2> QED BY <1>1, <1>3, <2>1 DEF NoRepeats
<1>5. 1 \in 1..Len(s) /\ Head(s) \in ToSet(s)
  BY <1>1, <1>2
<1>6. ToSet(t) = ToSet(s) \ {Head(s)}
  <2>1. ASSUME NEW i \in 1..Len(t) PROVE t[i] \in ToSet(s) /\ t[i] # Head(s)
    BY <1>1, <1>2, <1>3, <1>5 DEF NoRepeats
  <2>2. ASSUME NEW i \in 1..Len(s), s[i] # Head(s) PROVE s[i] \in ToSet(t)
    <3>1. i - 1 \in 1..Len(t) /\ i - 1 + 1 = i
      BY <1>1, <2>2
    <3>2. t[i - 1] = s[i]
      BY <1>1, <3>1
    <3> QED BY <1>2, <3>1, <3>2
  <2> QED BY <1>2, <2>1, <2>2
<1>7. ASSUME NEW x, NEW y, Before(t, x, y) PROVE Before(s, x, y)
  <2>1. PICK a \in 1..Len(t), b \in 1..Len(t) : a < b /\ t[a] = x /\ t[b] = y
    BY <1>7 DEF Before
  <2>2. a + 1 < b + 1 /\ s[a + 1] = x /\ s[b + 1] = y
    BY <1>1, <2>1
  <2> QED BY <1>3, <2>2 DEF Before
<1>8. ASSUME NEW y \in ToSet(t) PROVE Before(s, Head(s), y)
  <2>1. PICK b \in 1..Len(t) : t[b] = y
    BY <1>2
  <2>2. 1 < b + 1 /\ s[1] = Head(s) /\ s[b + 1] = y
    BY <1>1, <2>1
  <2> QED BY <1>3, <1>5, <2>2 DEF Before
<1> QED BY <1>1, <1>4, <1>5, <1>6, <1>7, <1>8 DEF t

\* The requests that were used after x was.
After(u, x) == {y \in Ids : Before(u, x, y)}

\* The store o keeps its sequences in the order u of use, and a running request
\* after which fewer than l were used has its sequence.
UsesOf(o, u, r, l) ==
  /\ l \in Nat
  /\ o \in Seq(Ids) /\ NoRepeats(o)
  /\ u \in Seq(Ids) /\ NoRepeats(u)
  /\ ToSet(o) \subseteq ToSet(u)
  /\ r \subseteq ToSet(u)
  /\ \A x, y \in Ids : Before(o, x, y) => Before(u, x, y)
  /\ \A x \in r : Cardinality(After(u, x)) < l => x \in ToSet(o)

UseInv == UsesOf(order, uses, running, limit)

\* Nothing comes after itself in a sequence without repetitions.
LEMMA NotAfterItself ==
  ASSUME NEW S, NEW s \in Seq(S), NoRepeats(s), NEW x
  PROVE  ~ Before(s, x, x)
BY LenProperties DEF Before, NoRepeats

LEMMA AfterFinite ==
  ASSUME NEW u, NEW x
  PROVE  IsFiniteSet(After(u, x)) /\ Cardinality(After(u, x)) \in Nat
<1>1. IsFiniteSet(After(u, x))
  BY SequencesAssumption, FS_Subset DEF After
<1> QED BY <1>1, FS_CardinalityType

\* A use of id: it moves to the end of both orders, and a full store drops its
\* first sequence, after which at least Len(o) others were used by now.
LEMMA UseKeeps ==
  ASSUME NEW o, NEW u, NEW r, NEW l, UsesOf(o, u, r, l),
         NEW id \in Ids, NEW o2, NEW r2 \in SUBSET (r \cup {id}),
         \/ o2 = o
         \/ o2 = Tail(o) /\ o # <<>> /\ id \notin ToSet(o) /\ Len(o) >= l
  PROVE  UsesOf(MovedLast(o2, id), MovedLast(u, id), r2, l)
<1> DEFINE m == MovedLast(o2, id)
           v == MovedLast(u, id)
<1>1. /\ l \in Nat
      /\ o \in Seq(Ids) /\ NoRepeats(o)
      /\ u \in Seq(Ids) /\ NoRepeats(u)
      /\ ToSet(o) \subseteq ToSet(u) /\ r \subseteq ToSet(u) /\ ToSet(u) \subseteq Ids
      /\ \A x, y \in Ids : Before(o, x, y) => Before(u, x, y)
      /\ \A x \in r : Cardinality(After(u, x)) < l => x \in ToSet(o)
  BY SetOfSeq DEF UsesOf
<1>2. /\ o2 \in Seq(Ids) /\ NoRepeats(o2) /\ ToSet(o2) \subseteq ToSet(o)
      /\ \A x, y : Before(o2, x, y) => Before(o, x, y)
  <2>1. CASE o2 = o
    BY <1>1, <2>1
  <2>2. CASE o2 = Tail(o) /\ o # <<>>
    <3>1. /\ Tail(o) \in Seq(Ids) /\ NoRepeats(Tail(o))
          /\ ToSet(Tail(o)) = ToSet(o) \ {Head(o)}
          /\ \A x, y : Before(Tail(o), x, y) => Before(o, x, y)
      BY <1>1, <2>2, Dropped
    <3> QED BY <2>2, <3>1
  <2> QED BY <2>1, <2>2
<1>3. /\ m \in Seq(Ids) /\ NoRepeats(m) /\ ToSet(m) = ToSet(o2) \cup {id}
      /\ \A x, y \in Ids : Before(m, x, y) <=>
           x # id /\ IF y = id THEN x \in ToSet(o2) ELSE Before(o2, x, y)
  BY <1>2, Moved
<1>4. /\ v \in Seq(Ids) /\ NoRepeats(v) /\ ToSet(v) = ToSet(u) \cup {id}
      /\ \A x, y \in Ids : Before(v, x, y) <=>
           x # id /\ IF y = id THEN x \in ToSet(u) ELSE Before(u, x, y)
  BY <1>1, Moved
<1> HIDE DEF m, v
<1>5. ToSet(m) \subseteq ToSet(v) /\ r2 \subseteq ToSet(v)
  BY <1>1, <1>2, <1>3, <1>4
<1>6. \A x, y \in Ids : Before(m, x, y) => Before(v, x, y)
  BY <1>1, <1>2, <1>3, <1>4
<1>7. ASSUME NEW x \in r2, Cardinality(After(v, x)) < l PROVE x \in ToSet(m)
  <2>1. CASE x = id
    BY <1>3, <2>1
  <2>2. CASE x # id
    <3>1. x \in r /\ x \in Ids /\ x \in ToSet(u)
      BY <1>1, <2>2
    <3>2. After(u, x) \subseteq After(v, x)
      BY <1>4, <2>2, <3>1 DEF After
    <3>3. id \in After(v, x)
      BY <1>4, <2>2, <3>1 DEF After
    <3>4. Cardinality(After(u, x)) <= Cardinality(After(v, x))
      BY <3>2, AfterFinite, FS_Subset
    <3>5. Cardinality(After(u, x)) < l
      BY <1>1, <1>7, <3>4, AfterFinite
    <3>6. x \in ToSet(o)
      BY <1>1, <3>1, <3>5
    <3>7. CASE o2 = o
      BY <1>3, <3>6, <3>7
    <3>8. CASE o2 = Tail(o) /\ o # <<>> /\ id \notin ToSet(o) /\ Len(o) >= l
      <4>1. ToSet(o2) = ToSet(o) \ {Head(o)} /\ Head(o) \in ToSet(o)
            /\ \A y \in ToSet(o2) : Before(o, Head(o), y)
        BY <1>1, <3>8, Dropped
      <4>2. CASE x = Head(o)
        <5>1. ToSet(o2) \cup {id} \subseteq After(v, x)
          <6>1. ASSUME NEW y \in ToSet(o2) PROVE y \in After(v, x)
            <7>1. y \in Ids /\ y # id /\ Before(u, x, y)
              BY <1>1, <1>2, <3>1, <3>8, <4>1, <4>2
            <7> QED BY <1>4, <2>2, <3>1, <7>1 DEF After
          <6> QED BY <3>3, <6>1
        <5>2. IsFiniteSet(ToSet(o)) /\ Cardinality(ToSet(o)) = Len(o)
          BY <1>1, DistinctCard
        <5>3. IsFiniteSet(ToSet(o2)) /\ Cardinality(ToSet(o2)) = Len(o) - 1
          <6>1. /\ IsFiniteSet(ToSet(o) \ {Head(o)})
                /\ Cardinality(ToSet(o) \ {Head(o)}) =
                     IF Head(o) \in ToSet(o) THEN Cardinality(ToSet(o)) - 1
                                            ELSE Cardinality(ToSet(o))
            BY <5>2, FS_RemoveElement
          <6> QED BY <4>1, <5>2, <6>1
        <5>4. Cardinality(ToSet(o2) \cup {id}) = Len(o) - 1 + 1
          BY <3>8, <4>1, <5>3, FS_AddElement
        <5>5. Len(o) - 1 + 1 <= Cardinality(After(v, x))
          BY <5>1, <5>4, AfterFinite, FS_Subset
        <5>6. Len(o) \in Nat /\ Cardinality(After(v, x)) \in Nat
          BY <1>1, LenProperties, AfterFinite
        <5> QED BY <1>1, <1>7, <3>8, <5>5, <5>6
      <4>3. CASE x # Head(o)
        BY <1>3, <3>6, <4>1, <4>3
      <4> QED BY <4>2, <4>3
    <3> QED BY <3>7, <3>8
  <2> QED BY <2>1, <2>2
<1> QED BY <1>1, <1>3, <1>4, <1>5, <1>6, <1>7 DEF UsesOf, m, v

\* The end of a request: its sequence and its claim to one go together.
LEMMA EndKeeps ==
  ASSUME NEW o, NEW u, NEW r, NEW l, UsesOf(o, u, r, l), NEW id
  PROVE  UsesOf(RemoveFirst(o, id), u, r \ {id}, l)
<1> DEFINE m == RemoveFirst(o, id)
<1>1. /\ l \in Nat
      /\ o \in Seq(Ids) /\ NoRepeats(o)
      /\ u \in Seq(Ids) /\ NoRepeats(u)
      /\ ToSet(o) \subseteq ToSet(u) /\ r \subseteq ToSet(u)
      /\ \A x, y \in Ids : Before(o, x, y) => Before(u, x, y)
      /\ \A x \in r : Cardinality(After(u, x)) < l => x \in ToSet(o)
  BY DEF UsesOf
<1>2. /\ m \in Seq(Ids) /\ NoRepeats(m) /\ ToSet(m) = ToSet(o) \ {id}
  BY <1>1, Removed
<1>3. \A x, y : Before(m, x, y) => Before(o, x, y)
  BY <1>1, RemovedBefore
<1> HIDE DEF m
<1> QED BY <1>1, <1>2, <1>3 DEF UsesOf, m

\* An empty store: nothing is kept, and no request is running.
LEMMA EmptyKeeps ==
  ASSUME NEW u \in Seq(Ids), NoRepeats(u), NEW l \in Nat
  PROVE  UsesOf(<<>>, u, {}, l)
<1>1. <<>> \in Seq(Ids) /\ Len(<<>>) = 0 /\ ToSet(<<>>) = {}
  <2>1. <<>> \in Seq(Ids) /\ Len(<<>>) = 0
    BY EmptySeq
  <2>2. ToSet(<<>>) = {<<>>[i] : i \in 1..Len(<<>>)}
    BY <2>1, SetOfSeq
  <2>3. 1..Len(<<>>) = {}
    BY <2>1
  <2> QED BY <2>1, <2>2, <2>3
<1>2. NoRepeats(<<>>) /\ \A x, y : ~ Before(<<>>, x, y)
  BY <1>1 DEF NoRepeats, Before
<1> QED BY <1>1, <1>2 DEF UsesOf

LEMMA InitUse == Init => UseInv
<1> SUFFICES ASSUME Init PROVE UseInv
  OBVIOUS
<1>1. order = <<>> /\ uses = <<>> /\ running = {} /\ limit \in Nat
  BY SequencesAssumption DEF Init
<1>2. uses \in Seq(Ids) /\ NoRepeats(uses)
  BY <1>1, EmptySeq DEF NoRepeats
<1> QED BY <1>1, <1>2, EmptyKeeps DEF UseInv

\* Lookups and feeds of a sequence.
LEMMA TouchUse ==
  ASSUME UseInv, NEW id \in Ids, ~ (Full(id) /\ order = <<>>),
         order' = Touched(id), uses' = Append(RemoveFirst(uses, id), id),
         limit' = limit, running' \in SUBSET (running \cup {id})
  PROVE  UseInv'
<1>1. order' = MovedLast(Kept(id), id) /\ uses' = MovedLast(uses, id)
  BY DEF Touched, MovedLast
<1>2. \/ Kept(id) = order
      \/ /\ Kept(id) = Tail(order) /\ order # <<>>
         /\ id \notin ToSet(order) /\ Len(order) >= limit
  BY DEF Kept, Full, Known
<1>3. UsesOf(MovedLast(Kept(id), id), MovedLast(uses, id), running', limit)
  BY <1>2, UseKeeps DEF UseInv
<1> QED BY <1>1, <1>3 DEF UseInv

LEMMA NextUse == HistInv /\ UseInv /\ [Next]_vars => UseInv'
<1> SUFFICES ASSUME HistInv, UseInv, [Next]_vars PROVE UseInv'
  OBVIOUS
<1>0. /\ limit \in Nat /\ uses \in Seq(Ids) /\ NoRepeats(uses)
      /\ batch \in Seq(RowRecords)
  BY DEF UseInv, UsesOf, HistInv, HistTypes
<1>1. ASSUME UNCHANGED <<order, uses, running, limit>> PROVE UseInv'
  BY <1>1 DEF UseInv, UsesOf, NoRepeats, Before, After, ToSet
<1>2. ASSUME NEW rows, Forward(rows) PROVE UseInv'
  BY <1>1, <1>2 DEF Forward
<1>3. CASE Attach
  <2>1. CASE order = <<>>
    <3>1. order' = <<>> /\ uses' = uses /\ running' = {} /\ limit' \in Nat
      BY <1>3, <2>1, SequencesAssumption, FS_CardinalityType DEF Attach, Unlimited
    <3> QED BY <1>0, <3>1, EmptyKeeps DEF UseInv
  <2>2. CASE order # <<>>
    BY <1>1, <1>3, <2>2 DEF Attach
  <2> QED BY <2>1, <2>2
<1>4. ASSUME NEW ok \in BOOLEAN, FeedRow(ok) PROVE UseInv'
  <2>1. batch[1].id \in Ids
    <3>1. batch # <<>> /\ Len(batch) \in Nat
      BY <1>0, <1>4, LenProperties DEF FeedRow
    <3>2. 1 \in 1..Len(batch)
      BY <1>0, <3>1, NonEmpty
    <3>3. batch[1] \in RowRecords
      BY <1>0, <3>2, ElementOfSeq
    <3> QED BY <3>3 DEF RowRecords
  <2> QED BY <1>4, <2>1, TouchUse DEF FeedRow
<1>5. CASE FeedNowhere
  BY <1>1, <1>5 DEF FeedNowhere
<1>6. ASSUME NEW id \in Ids, Lookup(id) PROVE UseInv'
  <2>1. CASE Known(id)
    BY <1>6, <2>1, TouchUse DEF Lookup, Full
  <2>2. CASE ~Known(id)
    BY <1>1, <1>6, <2>2 DEF Lookup
  <2> QED BY <2>1, <2>2
<1>7. ASSUME NEW id \in Ids, Reset(id) PROVE UseInv'
  BY <1>7, TouchUse DEF Reset, Full
<1>8. ASSUME NEW id \in Ids, EndRequest(id) PROVE UseInv'
  <2>1. UsesOf(RemoveFirst(order, id), uses, running \ {id}, limit)
    BY EndKeeps DEF UseInv
  <2> QED BY <1>8, <2>1 DEF EndRequest, UseInv
<1>9. CASE Clear
  BY <1>0, <1>9, EmptyKeeps DEF Clear, UseInv
<1>10. CASE UNCHANGED vars
  BY <1>1, <1>10 DEF vars
<1>11. Next => UseInv'
  BY <1>2, <1>3, <1>4, <1>5, <1>6, <1>7, <1>8, <1>9 DEF Next
<1> QED BY <1>10, <1>11

-----------------------------------------------------------------------------
(* What the order of use gives.                                            *)

\* Where an id stands in uses.
LEMMA UsedPlace ==
  ASSUME UseInv, NEW x \in ToSet(uses)
  PROVE  /\ UsedAt(x) \in 1..Len(uses) /\ uses[UsedAt(x)] = x
         /\ \A i \in 1..Len(uses) : uses[i] = x => i = UsedAt(x)
<1>1. uses \in Seq(Ids) /\ NoRepeats(uses)
  BY DEF UseInv, UsesOf
<1>2. \E i \in 1..Len(uses) : uses[i] = x
  BY <1>1, SetOfSeq
<1>3. UsedAt(x) \in 1..Len(uses) /\ uses[UsedAt(x)] = x
  BY <1>2 DEF UsedAt
<1> QED BY <1>1, <1>3 DEF NoRepeats

LEMMA UsedSinceIsAfter ==
  ASSUME UseInv, NEW x \in ToSet(uses)
  PROVE  UsedSince(x) = After(uses, x)
<1>1. uses \in Seq(Ids) /\ Len(uses) \in Nat /\ \A i \in 1..Len(uses) : uses[i] \in Ids
  BY LenProperties, ElementOfSeq DEF UseInv, UsesOf
<1>2. /\ UsedAt(x) \in 1..Len(uses) /\ uses[UsedAt(x)] = x
      /\ \A i \in 1..Len(uses) : uses[i] = x => i = UsedAt(x)
  BY UsedPlace
<1>3. ASSUME NEW i \in (UsedAt(x) + 1)..Len(uses)
      PROVE  uses[i] \in Ids /\ Before(uses, x, uses[i])
  <2>1. i \in 1..Len(uses) /\ UsedAt(x) < i
    BY <1>1, <1>2
  <2> QED BY <1>1, <1>2, <2>1 DEF Before
<1>4. ASSUME NEW y, Before(uses, x, y)
      PROVE  \E i \in (UsedAt(x) + 1)..Len(uses) : uses[i] = y
  <2>1. PICK a \in 1..Len(uses), b \in 1..Len(uses) : a < b /\ uses[a] = x /\ uses[b] = y
    BY <1>4 DEF Before
  <2>2. a = UsedAt(x)
    BY <1>2, <2>1
  <2>3. b \in (UsedAt(x) + 1)..Len(uses)
    BY <1>1, <2>1, <2>2
  <2> QED BY <2>1, <2>3
<1> QED BY <1>3, <1>4 DEF UsedSince, After

LEMMA KeptFromUse == UseInv => RunningKept
<1> SUFFICES ASSUME UseInv, NEW id \in running, Cardinality(UsedSince(id)) < limit
             PROVE  id \in ToSet(order)
  BY DEF RunningKept, Known
<1>1. id \in ToSet(uses) /\ (Cardinality(After(uses, id)) < limit => id \in ToSet(order))
  BY DEF UseInv, UsesOf
<1> QED BY <1>1, UsedSinceIsAfter

\* Whatever the number of requests and the limit, a running request keeps its
\* sequence while fewer than max_sequences others are fed or looked up after it
\* (_evict_if_needed and move_to_end, ple_memory.py 564-575).
THEOREM RunningKeepHistory == Spec => []RunningKept
<1>1. Init => HistInv /\ UseInv
  BY InitHist, InitUse
<1>2. HistInv /\ UseInv /\ [Next]_vars => (HistInv /\ UseInv)'
  BY NextHist, NextUse
<1> QED BY <1>1, <1>2, KeptFromUse, PTL DEF Spec

\* The sequence another one's feed drops is the first of the store.
LEMMA FeedDropsHead ==
  ASSUME UseInv, NEW ok, FeedRow(ok), NEW x \in ToSet(order) \ ToSet(order')
  PROVE  x = Head(order) /\ order # <<>>
<1> DEFINE id == batch[1].id
<1>1. order \in Seq(Ids) /\ NoRepeats(order) /\ order' = MovedLast(Kept(id), id)
  BY DEF UseInv, UsesOf, FeedRow, Touched, MovedLast
<1> HIDE DEF id
<1>2. ASSUME NEW o \in Seq(Ids), NoRepeats(o), Kept(id) = o, x \in ToSet(o)
      PROVE  FALSE
  <2>1. /\ RemoveFirst(o, id) \in Seq(Ids)
        /\ ToSet(RemoveFirst(o, id)) = ToSet(o) \ {id}
    BY <1>2, Removed
  <2> DEFINE r == RemoveFirst(o, id)
  <2>2. order' = Append(r, id)
    BY <1>1, <1>2 DEF MovedLast
  <2>3. Len(r) \in Nat /\ r \in Seq(Ids \cup {id})
    BY <2>1, LenProperties
  <2> HIDE DEF r
  <2>4. /\ Append(r, id) \in Seq(Ids \cup {id})
        /\ Len(Append(r, id)) = Len(r) + 1
        /\ \A i \in 1..Len(r) : Append(r, id)[i] = r[i]
        /\ Append(r, id)[Len(r) + 1] = id
    BY <2>3, AppendProperties
  <2>5. x \in ToSet(r) \cup {id}
    BY <1>2, <2>1 DEF r
  <2>6. \E i \in 1..(Len(r) + 1) : Append(r, id)[i] = x
    <3>1. CASE x = id
      <4>1. Len(r) + 1 \in 1..(Len(r) + 1)
        BY <2>3
      <4> QED BY <2>4, <3>1, <4>1
    <3>2. CASE x \in ToSet(r)
      <4>1. PICK i \in 1..Len(r) : r[i] = x
        BY <2>3, <3>2, SetOfSeq
      <4>2. i \in 1..(Len(r) + 1)
        BY <2>3
      <4> QED BY <2>4, <4>1, <4>2
    <3> QED BY <2>5, <3>1, <3>2
  <2>7. x \in ToSet(Append(r, id))
    <3>1. \A i \in 1..Len(Append(r, id)) : Append(r, id)[i] \in ToSet(Append(r, id))
      BY <2>4, SetOfSeq
    <3> QED BY <2>4, <2>6, <3>1
  <2> QED BY <2>2, <2>7
<1>3. Kept(id) # order
  BY <1>1, <1>2
<1>4. Kept(id) = Tail(order) /\ order # <<>>
  BY <1>3 DEF Kept, FeedRow, id
<1>5. /\ Tail(order) \in Seq(Ids) /\ NoRepeats(Tail(order))
      /\ ToSet(Tail(order)) = ToSet(order) \ {Head(order)}
  BY <1>1, <1>4, Dropped
<1>6. x \notin ToSet(Tail(order))
  BY <1>2, <1>4, <1>5
<1> QED BY <1>4, <1>5, <1>6

LEMMA DropStep ==
  ASSUME UseInv, [Next]_vars, batch # <<>>,
         NEW x \in ToSet(order) \ ToSet(order'), NEW y \in ToSet(order)
  PROVE  UsedAt(x) <= UsedAt(y)
<1>1. PICK ok \in BOOLEAN : FeedRow(ok)
  <2>1. order' # order
    OBVIOUS
  <2> QED BY <2>1 DEF Next, vars, Forward, Attach, FeedNowhere, Lookup, Reset, EndRequest,
                      Clear, Call
<1>2. x = Head(order) /\ order # <<>>
  BY <1>1, FeedDropsHead
<1>3. /\ order \in Seq(Ids) /\ NoRepeats(order)
      /\ x \in ToSet(uses) /\ y \in ToSet(uses) /\ x \in Ids /\ y \in Ids
      /\ Before(order, x, y) => Before(uses, x, y)
  <2>1. /\ order \in Seq(Ids) /\ NoRepeats(order)
        /\ ToSet(order) \subseteq ToSet(uses)
        /\ \A a, b \in Ids : Before(order, a, b) => Before(uses, a, b)
    BY DEF UseInv, UsesOf
  <2>2. x \in Ids /\ y \in Ids
    BY <2>1, SetOfSeq
  <2> QED BY <2>1, <2>2
<1>4. /\ ToSet(Tail(order)) = ToSet(order) \ {Head(order)}
      /\ \A z \in ToSet(Tail(order)) : Before(order, Head(order), z)
  BY <1>2, <1>3, Dropped
<1>5. /\ UsedAt(x) \in 1..Len(uses) /\ UsedAt(y) \in 1..Len(uses)
      /\ \A i \in 1..Len(uses) : uses[i] = x => i = UsedAt(x)
      /\ \A i \in 1..Len(uses) : uses[i] = y => i = UsedAt(y)
  BY <1>3, UsedPlace
<1>6. CASE y = x
  BY <1>5, <1>6
<1>7. CASE y # x
  <2>1. Before(uses, x, y)
    BY <1>2, <1>3, <1>4, <1>7
  <2>2. PICK a \in 1..Len(uses), b \in 1..Len(uses) : a < b /\ uses[a] = x /\ uses[b] = y
    BY <2>1 DEF Before
  <2>3. a = UsedAt(x) /\ b = UsedAt(y)
    BY <1>5, <2>2
  <2> QED BY <2>2, <2>3
<1> QED BY <1>6, <1>7

\* Only the least recently used sequence is ever dropped by another one, whatever
\* the number of requests and the limit (popitem(last=False), 568).
THEOREM OldestDropped == Spec => DropsOldest
<1>1. Init => HistInv /\ UseInv
  BY InitHist, InitUse
<1>2. HistInv /\ UseInv /\ [Next]_vars => (HistInv /\ UseInv)'
  BY NextHist, NextUse
<1>3. UseInv /\ [Next]_vars =>
        [\A id \in ToSet(order) \ ToSet(order') :
           batch # <<>> => \A other \in ToSet(order) : UsedAt(id) <= UsedAt(other)]_vars
  BY DropStep
<1> QED BY <1>1, <1>2, <1>3, PTL DEF Spec, DropsOldest

-----------------------------------------------------------------------------
(* Types.                                                                  *)

CallTypes ==
  /\ attached \in BOOLEAN
  /\ outcome \in {"none", "ok", "store_error", "no_e_t", "KeyError"}
  /\ calls \in Nat

LEMMA NextCall == CallTypes /\ [Next]_vars => CallTypes'
<1> SUFFICES ASSUME CallTypes, [Next]_vars PROVE CallTypes'
  OBVIOUS
<1>1. calls' = calls \/ calls' = calls + 1
  BY DEF Next, vars, Forward, Attach, FeedRow, FeedNowhere, Lookup, Reset, EndRequest,
         Clear, Call
<1>2. attached' = attached \/ attached' = TRUE
  BY DEF Next, vars, Forward, Attach, FeedRow, FeedNowhere, Lookup, Reset, EndRequest,
         Clear, Call
<1>3. outcome' \in {outcome, "none", "ok", "store_error", "no_e_t", "KeyError"}
  BY DEF Next, vars, Forward, Attach, FeedRow, FeedNowhere, Lookup, Reset, EndRequest,
         Clear, Call
<1>4. calls' \in Nat
  BY <1>1 DEF CallTypes
<1>5. attached' \in BOOLEAN
  BY <1>2, Zenon DEF CallTypes
<1>6. outcome' \in {"none", "ok", "store_error", "no_e_t", "KeyError"}
  BY <1>3 DEF CallTypes
<1> QED BY <1>4, <1>5, <1>6 DEF CallTypes

\* Every variable keeps its type; a history is never shorter or longer than
\* ngram_size - 1 tokens.
THEOREM SequencesTyped == Spec => []TypeOK
<1>1. Init => HistInv /\ UseInv /\ CallTypes
  <2>1. Init => calls \in Nat /\ outcome \in {"none", "ok", "store_error", "no_e_t", "KeyError"}
    BY DEF Init
  <2>2. Init => attached \in BOOLEAN
    BY Zenon DEF Init
  <2> QED BY <2>1, <2>2, InitHist, InitUse DEF CallTypes
<1>2. HistInv /\ UseInv /\ CallTypes /\ [Next]_vars => (HistInv /\ UseInv /\ CallTypes)'
  BY NextHist, NextUse, NextCall
<1>3. HistInv /\ UseInv /\ CallTypes => TypeOK
  <2> SUFFICES ASSUME HistInv, UseInv, CallTypes PROVE TypeOK
    OBVIOUS
  <2>1. HistTypes /\ HistExact
    BY DEF HistInv
  <2>2. ASSUME NEW id \in Ids
        PROVE  hist[id] \in {h \in Seq(Tokens) : Len(h) = NgramSize - 1}
    <3>1. Cold \in Seq(Tokens) /\ Len(Cold) = NgramSize - 1 /\ fed[id] \in Seq(Tokens)
          /\ Len(fed[id]) \in Nat /\ NgramSize \in Nat
      BY <2>1, ColdFacts, KeysAssumption, LenProperties DEF HistTypes
    <3>2. Cold \o fed[id] \in Seq(Tokens) /\ Len(Cold \o fed[id]) = Len(Cold) + Len(fed[id])
      BY <3>1, ConcatProperties
    <3>3. Len(Cold \o fed[id]) >= NgramSize - 1
      BY <3>1, <3>2
    <3> QED BY <2>1, <3>2, <3>3, WindowIsSuffix DEF HistExact
  <2>3. hist \in [Ids -> {h \in Seq(Tokens) : Len(h) = NgramSize - 1}]
    BY <2>1, <2>2 DEF HistTypes
  <2>4. running \subseteq Ids
    BY SetOfSeq DEF UseInv, UsesOf
  <2> QED BY <2>1, <2>3, <2>4 DEF TypeOK, HistTypes, UseInv, UsesOf, CallTypes, RowRecords
<1> QED BY <1>1, <1>2, <1>3, PTL DEF Spec
=============================================================================
