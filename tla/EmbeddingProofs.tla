--------------------------- MODULE EmbeddingProofs ---------------------------
(***************************************************************************)
(* DiskPleEmbedding and the n-gram embedding over it, for any rows, cache  *)
(* sizes, batches and calls: what _pending_rows names, what close leaves   *)
(* behind, the bound of the cache, the rows forward asks for, and what a   *)
(* prefetch saves it.                                                      *)
(***************************************************************************)
EXTENDS PleNGram, PleLemmas

States  == {"queued", "running", "done", "failed", "cancelled"}
Futures == [rows : Seq(Rows), state : States]

PendingTypes ==
  /\ futures \in Seq(Futures)
  /\ pending \in Seq(Nat) /\ loop \in Seq(Nat)
  /\ pendingRows \subseteq Rows
  /\ closed \in BOOLEAN /\ pc \in {"idle", "wait", "settle", "gather", "shutdown"}

\* A future is pending once; a settling forward looks at pending futures only, at
\* each of them once.
LoopInv ==
  /\ NoRepeats(pending) /\ ToSet(pending) \subseteq DOMAIN futures
  /\ pc = "wait" => loop # <<>> /\ pending # <<>>
  /\ pc = "settle" => loop # <<>> /\ NoRepeats(loop) /\ ToSet(loop) \subseteq ToSet(pending)

PendingInv == PendingTypes /\ LoopInv /\ PendingRowsExact /\ QuietClose

-----------------------------------------------------------------------------
(* Sequences.                                                              *)

\* Missing lists the rows of the request that are not known, each once.
LEMMA MissingNew ==
  ASSUME NEW rows \in Seq(Rows), NEW known
  PROVE  /\ Missing(rows, known) \in Seq(Rows)
         /\ ToSet(Missing(rows, known)) = ToSet(rows) \ known
         /\ ToSet(Missing(rows, known)) \subseteq Rows \ known
         /\ NoRepeats(Missing(rows, known))
<1> DEFINE news == {i \in 1..Len(rows) : /\ rows[i] \notin known
                                         /\ \A j \in 1..(i - 1) : rows[j] # rows[i]}
           upto(i) == {j \in news : j <= i}
           card == Cardinality(news)
           rank == [i \in news |-> Cardinality(upto(i))]
<1>1. Len(rows) \in Nat /\ \A i \in 1..Len(rows) : rows[i] \in Rows
  BY LenProperties
<1>2. news \subseteq 1..Len(rows) /\ \A i \in news : rows[i] \in Rows \ known
  BY <1>1
<1>0. /\ \A i, k \in news : i # k => rows[i] # rows[k]
      /\ \A r \in ToSet(rows) \ known : \E i \in news : rows[i] = r
  <2>1. ASSUME NEW i \in news, NEW k \in news, i < k PROVE rows[i] # rows[k]
    <3>1. i \in 1..(k - 1)
      BY <1>1, <1>2, <2>1
    <3> QED BY <3>1
  <2>2. ASSUME NEW i \in news, NEW k \in news, i # k PROVE rows[i] # rows[k]
    <3>1. i \in Int /\ k \in Int
      BY <1>1, <1>2
    <3>2. i < k \/ k < i
      BY <2>2, <3>1
    <3> QED BY <2>1, <3>2
  <2>3. ASSUME NEW r \in ToSet(rows) \ known PROVE \E i \in news : rows[i] = r
    <3> DEFINE at == {i \in 1..Len(rows) : rows[i] = r}
    <3>1. at # {}
      BY SetOfSeq
    <3>2. at \in SUBSET Nat
      BY <1>1
    <3>3. PICK i \in at : \A j \in at : i <= j
      BY <3>1, <3>2, LeastNat
    <3>4. i \in 1..Len(rows) /\ rows[i] = r
      BY <3>3
    <3>5. ASSUME NEW j \in 1..(i - 1) PROVE rows[j] # rows[i]
      <4>1. j \in 1..Len(rows) /\ ~ (i <= j)
        BY <1>1, <3>4
      <4> QED BY <3>3, <3>4, <4>1
    <3> QED BY <3>4, <3>5
  <2> QED BY <2>2, <2>3
<1>3. IsFiniteSet(news) /\ card \in Nat
  <2>1. Len(rows) \in Int /\ 1 \in Int
    BY <1>1
  <2>2. IsFiniteSet(1..Len(rows))
    BY <2>1, FS_Interval
  <2>3. IsFiniteSet(news)
    BY <1>2, <2>2, FS_Subset
  <2> HIDE DEF news
  <2> QED BY <2>3, FS_CardinalityType
<1>4. Missing(rows, known) = [n \in 1..card |-> rows[CHOOSE i \in news : Cardinality(upto(i)) = n]]
  BY DEF Missing
<1>5. \A i \in news : i \in Int
  BY <1>1
<1> HIDE DEF news
<1>6. ASSUME NEW i \in news
      PROVE  IsFiniteSet(upto(i)) /\ Cardinality(upto(i)) \in 1..card
  <2>1. upto(i) \in SUBSET news /\ i \in upto(i)
    BY <1>5
  <2>2. IsFiniteSet(upto(i)) /\ Cardinality(upto(i)) <= card
    BY <1>3, <2>1, FS_Subset
  <2>3. Cardinality(upto(i)) \in Nat /\ Cardinality(upto(i)) # 0
    <3> HIDE DEF upto
    <3> QED BY <2>1, <2>2, FS_EmptySet, FS_CardinalityType
  <2> HIDE DEF upto, card
  <2> QED BY <1>3, <2>2, <2>3
<1>7. ASSUME NEW i \in news, NEW k \in news, Cardinality(upto(i)) = Cardinality(upto(k))
      PROVE  i = k
  <2>1. ASSUME NEW a \in news, NEW b \in news, a < b, Cardinality(upto(a)) = Cardinality(upto(b))
        PROVE  FALSE
    <3>1. upto(a) \in SUBSET upto(b)
      BY <1>5, <2>1
    <3>2. b \in upto(b) /\ b \notin upto(a)
      BY <1>5, <2>1
    <3>3. IsFiniteSet(upto(b))
      BY <1>6
    <3> HIDE DEF upto
    <3>4. upto(b) = upto(a)
      BY <2>1, <3>1, <3>3, FS_Subset
    <3> QED BY <3>2, <3>4
  <2>2. i \in Int /\ k \in Int
    BY <1>5
  <2> HIDE DEF upto
  <2> QED BY <1>7, <2>1, <2>2
<1>8. rank \in Injection(news, 1..card)
  <2> HIDE DEF upto, card
  <2> QED BY <1>6, <1>7 DEF Injection, IsInjective
<1>9. rank \in Surjection(news, 1..card)
  <2>1. card \in Int /\ 1 \in Int /\ 0 \in Int
    BY <1>3
  <2>2. /\ IsFiniteSet(1..card)
        /\ Cardinality(1..card) = IF 1 > card THEN 0 ELSE card - 1 + 1
    BY <2>1, FS_Interval
  <2>3. Cardinality(1..card) = Cardinality(news)
    BY <1>3, <2>2
  <2> HIDE DEF rank
  <2> QED BY <1>8, <2>2, <2>3, FS_Injection
<1>10. ASSUME NEW n \in 1..card
       PROVE  rows[CHOOSE i \in news : Cardinality(upto(i)) = n] \in Rows \ known
  <2>1. \E i \in news : Cardinality(upto(i)) = n
    BY <1>9 DEF Surjection
  <2> HIDE DEF upto, card
  <2>2. (CHOOSE i \in news : Cardinality(upto(i)) = n) \in news
    BY <2>1
  <2> QED BY <1>2, <2>2
<1> HIDE DEF upto, card
<1>11. Missing(rows, known) \in [1..card -> Rows \ known]
  BY <1>4, <1>10
<1>12. Missing(rows, known) \in Seq(Rows \ known)
  BY <1>3, <1>11
<1>13. Missing(rows, known) \in Seq(Rows)
  BY <1>12, SeqMonotonic
<1> DEFINE of(n) == CHOOSE i \in news : Cardinality(upto(i)) = n
           mis == Missing(rows, known)
<1>14. ASSUME NEW n \in 1..card PROVE of(n) \in news /\ Cardinality(upto(of(n))) = n
  <2>1. \E i \in news : Cardinality(upto(i)) = n
    BY <1>9 DEF Surjection
  <2> QED BY <2>1
<1>15. Len(mis) = card /\ \A n \in 1..card : mis[n] = rows[of(n)]
  BY <1>3, <1>4
<1> HIDE DEF of, mis
<1>16. NoRepeats(mis)
  <2> SUFFICES ASSUME NEW m \in 1..card, NEW n \in 1..card, m # n PROVE mis[m] # mis[n]
    BY <1>15 DEF NoRepeats
  <2>1. of(m) # of(n)
    BY <1>14
  <2> QED BY <1>0, <1>14, <1>15, <2>1
<1>17. ToSet(mis) = ToSet(rows) \ known
  <2>1. ToSet(mis) = {mis[n] : n \in 1..card} /\ ToSet(mis) \subseteq Rows \ known
    BY <1>12, <1>15, SetOfSeq DEF mis
  <2>2. ASSUME NEW n \in 1..card PROVE mis[n] \in ToSet(rows)
    <3>1. of(n) \in 1..Len(rows)
      BY <1>2, <1>14
    <3> QED BY <1>15, <3>1, SetOfSeq
  <2>3. ASSUME NEW r \in ToSet(rows) \ known PROVE r \in ToSet(mis)
    <3>1. PICK i \in news : rows[i] = r
      BY <1>0
    <3>2. Cardinality(upto(i)) \in 1..card
      BY <1>6
    <3>3. of(Cardinality(upto(i))) = i
      BY <1>7, <1>14, <3>2
    <3> QED BY <1>15, <2>1, <3>1, <3>2, <3>3
  <2> QED BY <2>1, <2>2, <2>3
<1> QED BY <1>12, <1>13, <1>16, <1>17, SetOfSeq DEF mis

-----------------------------------------------------------------------------
LEMMA PendingStart == Init => PendingInv
<1> SUFFICES ASSUME Init PROVE PendingInv
  OBVIOUS
<1>1. PendingTypes
  BY EmptySeq DEF Init, PendingTypes
<1>2. ToSet(pending) = {}
  BY DEF Init, ToSet
<1>3. LoopInv /\ PendingRowsExact
  BY <1>2 DEF Init, LoopInv, NoRepeats, PendingRowsExact
<1>4. QuietClose
  BY DEF Init, QuietClose
<1> QED BY <1>1, <1>3, <1>4 DEF PendingInv

\* Steps that only change the states of futures, or nothing of them.
LEMMA SameRows ==
  ASSUME PendingRowsExact, UNCHANGED <<pending, pendingRows>>,
         \A i \in ToSet(pending) : futures'[i].rows = futures[i].rows
  PROVE  PendingRowsExact'
BY DEF PendingRowsExact

\* The rows of a new prefetch are those of no other.
LEMMA PrefetchKeeps ==
  ASSUME PendingInv, NEW rows \in Seq(Rows), Prefetch(rows)
  PROVE  PendingInv'
<1> DEFINE missing == Missing(rows, ToSet(cache) \union pendingRows)
           new == Len(futures) + 1
<1>1. PendingTypes /\ LoopInv /\ PendingRowsExact /\ QuietClose /\ pc = "idle"
  BY DEF PendingInv, Prefetch, Call
<1>2. UNCHANGED <<closed, pc, loop>>
  BY DEF Prefetch
<1>3. CASE closed \/ missing = <<>>
  <2>1. UNCHANGED <<futures, pending, pendingRows>>
    BY <1>3 DEF Prefetch
  <2> QED BY <1>1, <1>2, <2>1
          DEF PendingInv, PendingTypes, LoopInv, NoRepeats, PendingRowsExact, QuietClose
<1>4. CASE ~(closed \/ missing = <<>>)
  <2>1. /\ pendingRows' = pendingRows \union ToSet(missing)
        /\ futures' = Append(futures, [rows |-> missing, state |-> "queued"])
        /\ pending' = Append(pending, new)
    BY <1>4 DEF Prefetch
  <2>2. missing \in Seq(Rows) /\ ToSet(missing) \subseteq Rows \ pendingRows
    BY MissingNew
  <2> HIDE DEF missing
  <2>3. [rows |-> missing, state |-> "queued"] \in Futures
    BY <2>2 DEF Futures, States
  <2>4. /\ futures' \in Seq(Futures) /\ Len(futures) \in Nat /\ Len(futures') = new
        /\ \A i \in 1..Len(futures) : futures'[i] = futures[i]
        /\ futures'[new].rows = missing
        /\ DOMAIN futures = 1..Len(futures) /\ DOMAIN futures' = 1..new
    BY <1>1, <2>1, <2>3, AppendProperties, LenProperties DEF PendingTypes
  <2>5. /\ pending' \in Seq(Nat) /\ Len(pending) \in Nat /\ Len(pending') = Len(pending) + 1
        /\ \A i \in 1..Len(pending) : pending'[i] = pending[i]
        /\ pending'[Len(pending) + 1] = new
    BY <1>1, <2>1, <2>4, AppendProperties, LenProperties DEF PendingTypes
  <2>6. ToSet(pending') = ToSet(pending) \union {new}
    <3>1. ToSet(pending') = {pending'[i] : i \in 1..Len(pending')}
          /\ ToSet(pending) = {pending[i] : i \in 1..Len(pending)}
      BY <1>1, <2>5, SetOfSeq DEF PendingTypes
    <3> HIDE DEF new
    <3> QED BY <2>5, <3>1
  <2>7. new \notin ToSet(pending) /\ \A i \in ToSet(pending) : futures'[i] = futures[i]
    BY <1>1, <2>4 DEF LoopInv
  <2>8. PendingTypes'
    BY <1>1, <1>2, <2>1, <2>2, <2>4, <2>5 DEF PendingTypes
  <2>9. NoRepeats(pending')
    <3>1. \A i \in 1..Len(pending) : pending[i] \in ToSet(pending)
      BY <1>1, SetOfSeq DEF PendingTypes
    <3> SUFFICES ASSUME NEW i \in 1..Len(pending'), NEW j \in 1..Len(pending'), i # j
                 PROVE  pending'[i] # pending'[j]
      BY DEF NoRepeats
    <3> HIDE DEF new
    <3>2. CASE i = Len(pending) + 1
      BY <2>5, <2>7, <3>1, <3>2
    <3>3. CASE j = Len(pending) + 1
      BY <2>5, <2>7, <3>1, <3>3
    <3>4. CASE i # Len(pending) + 1 /\ j # Len(pending) + 1
      BY <1>1, <2>5, <3>4 DEF LoopInv, NoRepeats
    <3> QED BY <3>2, <3>3, <3>4
  <2>10. LoopInv'
    BY <1>1, <1>2, <2>4, <2>6, <2>9 DEF LoopInv
  <2>11. PendingRowsExact'
    <3> HIDE DEF new
    <3>1. \A i \in ToSet(pending) : ToSet(futures'[i].rows) = ToSet(futures[i].rows)
                                    /\ ToSet(futures[i].rows) \subseteq pendingRows
      BY <1>1, <2>7 DEF PendingRowsExact
    <3>2. ToSet(futures'[new].rows) = ToSet(missing)
      BY <2>4
    <3>3. pendingRows' = UNION {ToSet(futures'[i].rows) : i \in ToSet(pending')}
      <4>1. pendingRows = UNION {ToSet(futures[i].rows) : i \in ToSet(pending)}
        BY <1>1 DEF PendingRowsExact
      <4> DEFINE old == UNION {ToSet(futures[i].rows) : i \in ToSet(pending)}
                 all == UNION {ToSet(futures'[i].rows) : i \in ToSet(pending')}
      <4>2. all = old \union ToSet(futures'[new].rows)
        <5>1. \A i \in ToSet(pending) : i \in ToSet(pending') /\ ToSet(futures'[i].rows) = ToSet(futures[i].rows)
          BY <2>6, <3>1
        <5>2. \A i \in ToSet(pending') : i \in ToSet(pending) \/ i = new
          BY <2>6
        <5>3. new \in ToSet(pending')
          BY <2>6
        <5>4. ASSUME NEW x \in all PROVE x \in old \union ToSet(futures'[new].rows)
          <6>1. PICK i \in ToSet(pending') : x \in ToSet(futures'[i].rows)
            OBVIOUS
          <6> QED BY <5>1, <5>2, <6>1
        <5>5. ASSUME NEW x \in old PROVE x \in all
          <6>1. PICK i \in ToSet(pending) : x \in ToSet(futures[i].rows)
            OBVIOUS
          <6> QED BY <5>1, <6>1
        <5>6. ToSet(futures'[new].rows) \subseteq all
          BY <5>3
        <5> HIDE DEF all, old
        <5> QED BY <5>4, <5>5, <5>6
      <4> QED BY <2>1, <3>2, <4>1, <4>2
    <3>4. ASSUME NEW i \in ToSet(pending'), NEW j \in ToSet(pending'), i # j
          PROVE  ToSet(futures'[i].rows) \intersect ToSet(futures'[j].rows) = {}
      <4>1. CASE i \in ToSet(pending) /\ j \in ToSet(pending)
        BY <1>1, <3>1, <3>4, <4>1 DEF PendingRowsExact
      <4>2. CASE i = new /\ j \in ToSet(pending)
        BY <2>2, <3>1, <3>2, <4>2
      <4>3. CASE j = new /\ i \in ToSet(pending)
        BY <2>2, <3>1, <3>2, <4>3
      <4> QED BY <2>6, <3>4, <4>1, <4>2, <4>3
    <3> QED BY <3>3, <3>4 DEF PendingRowsExact
  <2>12. QuietClose'
    BY <1>2, <1>4 DEF QuietClose
  <2> QED BY <2>8, <2>10, <2>11, <2>12 DEF PendingInv
<1> QED BY <1>3, <1>4

\* The steps of a forward that settle nothing.
LEMMA ForwardKeeps ==
  ASSUME PendingInv,
         \/ \E rows : Forward(rows) \/ \E ok \in BOOLEAN : ForwardFast(rows, ok)
         \/ WaitOne
         \/ \E ok \in BOOLEAN : Gather(ok)
  PROVE  PendingInv'
<1>1. PendingTypes /\ LoopInv /\ PendingRowsExact /\ QuietClose
  BY DEF PendingInv
<1>2. UNCHANGED <<futures, pending, pendingRows, closed>> /\ pc # "shutdown" /\ pc' # "shutdown"
  BY DEF Forward, ForwardFast, WaitOne, Gather, Call
<1>3. PendingRowsExact' /\ QuietClose'
  BY <1>1, <1>2 DEF PendingRowsExact, QuietClose
<1>4. CASE (\E rows : \E ok \in BOOLEAN : ForwardFast(rows, ok))
           \/ \E ok \in BOOLEAN : Gather(ok)
  <2>1. pc' = "idle" /\ loop' = loop
    BY <1>4 DEF ForwardFast, Gather, Call
  <2> QED BY <1>1, <1>2, <1>3, <2>1 DEF PendingInv, PendingTypes, LoopInv
<1>5. CASE \E rows : Forward(rows)
  <2>1. loop' = pending /\ pc' = IF pending = <<>> THEN "gather" ELSE "wait"
    BY <1>5 DEF Forward
  <2> QED BY <1>1, <1>2, <1>3, <2>1 DEF PendingInv, PendingTypes, LoopInv
<1>6. CASE WaitOne
  <2>1. /\ pc = "wait" /\ loop # <<>> /\ pending # <<>>
        /\ loop' = IF Len(loop) = 1 THEN pending ELSE Tail(loop)
        /\ pc' = IF Len(loop) = 1 THEN "settle" ELSE "wait"
    BY <1>1, <1>6 DEF WaitOne, LoopInv
  <2>2. CASE Len(loop) = 1
    BY <1>1, <1>2, <1>3, <2>1, <2>2 DEF PendingInv, PendingTypes, LoopInv
  <2>3. CASE Len(loop) # 1
    <3>1. Tail(loop) \in Seq(Nat) /\ Len(Tail(loop)) = Len(loop) - 1 /\ Len(loop) \in Nat \ {0}
      BY <1>1, <2>1, HeadTailProperties, EmptySeq DEF PendingTypes
    <3>2. Tail(loop) # <<>>
      <4>1. Len(Tail(loop)) # 0
        BY <2>3, <3>1
      <4> QED BY <3>1, <4>1, NonEmpty
    <3>3. loop' = Tail(loop) /\ pc' = "wait"
      BY <2>1, <2>3
    <3> QED BY <1>1, <1>2, <1>3, <2>1, <3>1, <3>2, <3>3 DEF PendingInv, PendingTypes, LoopInv
  <2> QED BY <2>2, <2>3
<1> QED BY <1>4, <1>5, <1>6

\* A settled future and its rows are forgotten together.
LEMMA SettleKeeps == ASSUME PendingInv, SettleOne PROVE PendingInv'
<1> DEFINE i == Head(loop)
<1>1. PendingTypes /\ LoopInv /\ PendingRowsExact /\ QuietClose /\ pc = "settle"
  BY DEF PendingInv, SettleOne
<1>2. UNCHANGED <<futures, closed>> /\ loop' = Tail(loop)
      /\ pc' = IF Len(loop) = 1 THEN "gather" ELSE "settle"
  BY DEF SettleOne
<1>3. loop # <<>> /\ loop \in Seq(Nat) /\ NoRepeats(loop) /\ ToSet(loop) \subseteq ToSet(pending)
  BY <1>1 DEF LoopInv, PendingTypes
<1>4. /\ loop' \in Seq(Nat) /\ Len(loop') = Len(loop) - 1 /\ Len(loop) \in Nat \ {0}
      /\ i = loop[1] /\ \A n \in 1..Len(loop') : loop'[n] = loop[n + 1]
  BY <1>2, <1>3, HeadTailProperties, EmptySeq
<1>5. i \in ToSet(pending)
  BY <1>3, <1>4, SetOfSeq
<1>6. NoRepeats(loop') /\ ToSet(loop') \subseteq ToSet(pending) \ {i}
  <2>1. ToSet(loop') = {loop'[n] : n \in 1..Len(loop')} /\ ToSet(loop) = {loop[n] : n \in 1..Len(loop)}
    BY <1>3, <1>4, SetOfSeq
  <2>2. \A n \in 1..Len(loop') : n + 1 \in 1..Len(loop) /\ n + 1 # 1
    BY <1>4
  <2>3. ASSUME NEW n \in 1..Len(loop') PROVE loop'[n] \in ToSet(pending) \ {i}
    <3>1. loop'[n] = loop[n + 1] /\ n + 1 \in 1..Len(loop) /\ n + 1 # 1 /\ 1 \in 1..Len(loop)
      BY <1>4, <2>2
    <3>2. loop[n + 1] \in ToSet(pending)
      BY <1>3, <2>1, <3>1
    <3>3. loop[n + 1] # loop[1]
      BY <1>3, <3>1 DEF NoRepeats
    <3> QED BY <1>4, <3>1, <3>2, <3>3
  <2>4. NoRepeats(loop')
    <3> SUFFICES ASSUME NEW m \in 1..Len(loop'), NEW n \in 1..Len(loop'), m # n
                 PROVE  loop'[m] # loop'[n]
      BY DEF NoRepeats
    <3>1. m + 1 \in 1..Len(loop) /\ n + 1 \in 1..Len(loop) /\ m + 1 # n + 1
      BY <1>4
    <3> QED BY <1>3, <1>4, <3>1, ZenonT(30) DEF NoRepeats
  <2> QED BY <2>1, <2>3, <2>4
<1>7. pc' = "settle" => loop' # <<>>
  <2>1. ASSUME pc' = "settle" PROVE Len(loop') # 0
    BY <1>2, <1>4, <2>1
  <2> QED BY <1>4, <2>1, NonEmpty
<1>8. pc' \in {"gather", "settle"} /\ QuietClose'
  BY <1>1, <1>2 DEF QuietClose
<1> HIDE DEF i
<1>9. CASE Finished(i)
  <2>1. pending' = RemoveFirst(pending, i) /\ pendingRows' = pendingRows \ ToSet(futures[i].rows)
    BY <1>9 DEF SettleOne, i
  <2>2. pending' \in Seq(Nat) /\ ToSet(pending') = ToSet(pending) \ {i} /\ NoRepeats(pending')
    BY <1>1, <1>5, <2>1, RemoveOnce DEF PendingTypes, LoopInv
  <2>3. PendingTypes'
    BY <1>1, <1>2, <1>4, <1>8, <2>1, <2>2 DEF PendingTypes
  <2>4. LoopInv'
    BY <1>1, <1>2, <1>6, <1>7, <1>8, <2>2 DEF LoopInv
  <2>5. PendingRowsExact'
    <3>1. /\ pendingRows = UNION {ToSet(futures[j].rows) : j \in ToSet(pending)}
          /\ \A j \in ToSet(pending) : j # i =>
               ToSet(futures[i].rows) \intersect ToSet(futures[j].rows) = {}
      BY <1>1, <1>5 DEF PendingRowsExact
    <3>2. pendingRows' = UNION {ToSet(futures[j].rows) : j \in ToSet(pending')}
      BY <2>1, <2>2, <3>1
    <3> QED BY <1>1, <1>2, <2>2, <3>2 DEF PendingRowsExact
  <2> QED BY <1>8, <2>3, <2>4, <2>5 DEF PendingInv
<1>10. CASE ~Finished(i)
  <2>1. UNCHANGED <<pending, pendingRows>>
    BY <1>10 DEF SettleOne, i
  <2>2. PendingTypes'
    BY <1>1, <1>2, <1>4, <1>8, <2>1 DEF PendingTypes
  <2>3. LoopInv'
    BY <1>1, <1>2, <1>6, <1>7, <1>8, <2>1 DEF LoopInv
  <2>4. PendingRowsExact'
    BY <1>1, <1>2, <2>1 DEF PendingRowsExact
  <2> QED BY <1>8, <2>2, <2>3, <2>4 DEF PendingInv
<1> QED BY <1>9, <1>10

\* close changes only the states of futures, and it is not over before they ended.
LEMMA CloseKeeps == ASSUME PendingInv, Close \/ CloseDone PROVE PendingInv'
<1>1. PendingTypes /\ LoopInv /\ PendingRowsExact /\ QuietClose
  BY DEF PendingInv
<1>2. CASE Close /\ closed
  <2>1. UNCHANGED <<futures, pending, pendingRows, closed, pc, loop>>
    BY <1>1, <1>2 DEF Close, PendingTypes
  <2> QED BY <1>1, <2>1
          DEF PendingInv, PendingTypes, LoopInv, NoRepeats, PendingRowsExact, QuietClose
<1>3. CASE Close /\ ~closed
  <2> DEFINE cancelled(i) == IF i \in ToSet(pending) /\ futures[i].state = "queued"
                             THEN [futures[i] EXCEPT !.state = "cancelled"] ELSE futures[i]
  <2>1. /\ UNCHANGED <<pending, pendingRows, loop>> /\ closed' = TRUE /\ pc' = "shutdown"
        /\ futures' = [i \in DOMAIN futures |-> cancelled(i)]
    BY <1>3 DEF Close
  <2>2. Len(futures) \in Nat /\ DOMAIN futures = 1..Len(futures)
        /\ \A i \in 1..Len(futures) : futures[i] \in Futures
    BY <1>1, LenProperties DEF PendingTypes
  <2>3. ASSUME NEW i \in 1..Len(futures)
        PROVE  cancelled(i) \in Futures /\ cancelled(i).rows = futures[i].rows
    BY <2>2 DEF Futures, States
  <2> HIDE DEF cancelled
  <2>4. futures' \in Seq(Futures) /\ DOMAIN futures' = DOMAIN futures
    <3>1. futures' \in [1..Len(futures) -> Futures]
      BY <2>1, <2>2, <2>3
    <3> QED BY <2>1, <2>2, <3>1
  <2>5. \A i \in ToSet(pending) : futures'[i].rows = futures[i].rows
    BY <1>1, <2>1, <2>2, <2>3 DEF LoopInv
  <2>6. PendingRowsExact'
    BY <1>1, <2>1, <2>5, SameRows
  <2>7. PendingTypes' /\ LoopInv' /\ QuietClose'
    BY <1>1, <2>1, <2>4 DEF PendingTypes, LoopInv, NoRepeats, QuietClose
  <2> QED BY <2>6, <2>7 DEF PendingInv
<1>4. CASE CloseDone
  <2>1. /\ UNCHANGED <<futures, closed, loop>> /\ pending' = <<>> /\ pendingRows' = {}
        /\ pc' = "idle" /\ \A i \in DOMAIN futures : futures[i].state \notin {"queued", "running"}
    BY <1>4 DEF CloseDone
  <2>2. ToSet(pending') = {}
    BY <2>1 DEF ToSet
  <2>3. PendingTypes'
    BY <1>1, <2>1, EmptySeq DEF PendingTypes
  <2>4. LoopInv' /\ PendingRowsExact' /\ QuietClose'
    BY <2>1, <2>2 DEF LoopInv, NoRepeats, PendingRowsExact, QuietClose
  <2> QED BY <2>3, <2>4 DEF PendingInv
<1> QED BY <1>2, <1>3, <1>4

\* The worker has nothing to do once close has returned.
LEMMA ReaderKeeps == ASSUME PendingInv, Worker PROVE PendingInv'
<1>1. PendingTypes /\ LoopInv /\ PendingRowsExact /\ QuietClose
  BY DEF PendingInv
<1>2. PICK i \in DOMAIN futures, st \in {"running", "done", "failed"} :
        /\ futures[i].state \in {"queued", "running"}
        /\ futures' = [futures EXCEPT ![i].state = st]
        /\ UNCHANGED <<pending, pendingRows, closed, pc, loop>>
  BY DEF Worker, StartRead, EndRead
<1>3. Len(futures) \in Nat /\ DOMAIN futures = 1..Len(futures)
      /\ \A j \in 1..Len(futures) : futures[j] \in Futures
  BY <1>1, LenProperties DEF PendingTypes
<1>4. /\ futures' \in [1..Len(futures) -> Futures]
      /\ \A j \in 1..Len(futures) : futures'[j].rows = futures[j].rows
  BY <1>2, <1>3 DEF Futures, States
<1>5. futures' \in Seq(Futures) /\ DOMAIN futures' = DOMAIN futures
  BY <1>3, <1>4
<1>6. PendingTypes' /\ LoopInv'
  BY <1>1, <1>2, <1>5 DEF PendingTypes, LoopInv, NoRepeats
<1>7. PendingRowsExact'
  <2>1. \A j \in ToSet(pending) : futures'[j].rows = futures[j].rows
    BY <1>1, <1>3, <1>4 DEF LoopInv
  <2> QED BY <1>1, <1>2, <2>1, SameRows
<1>8. QuietClose'
  BY <1>1, <1>2 DEF QuietClose
<1> QED BY <1>6, <1>7, <1>8 DEF PendingInv

\* The invariant behind the two theorems: every step of the caller and of the
\* reading thread keeps the pending list and _pending_rows in step.
THEOREM PendingHolds == Spec => []PendingInv
<1>1. PendingInv /\ [Next]_vars => PendingInv'
  <2> SUFFICES ASSUME PendingInv, [Next]_vars PROVE PendingInv'
    OBVIOUS
  <2>1. ASSUME NEW rows \in Requests, Prefetch(rows) PROVE PendingInv'
    <3>1. PICK n \in 1..MaxRows : rows \in [1..n -> Rows]
      BY DEF Requests
    <3>2. rows \in Seq(Rows)
      BY <3>1, EmbeddingAssumption
    <3> QED BY <2>1, <3>2, PrefetchKeeps
  <2>2. ASSUME NEW rows \in Requests,
               Forward(rows) \/ \E ok \in BOOLEAN : ForwardFast(rows, ok)
        PROVE  PendingInv'
    BY <2>2, ForwardKeeps
  <2>3. CASE WaitOne \/ \E ok \in BOOLEAN : Gather(ok)
    BY <2>3, ForwardKeeps
  <2>4. CASE SettleOne
    BY <2>4, SettleKeeps
  <2>5. CASE Close \/ CloseDone
    BY <2>5, CloseKeeps
  <2>6. CASE Worker
    BY <2>6, ReaderKeeps
  <2>7. CASE UNCHANGED vars
    BY <2>7 DEF vars, PendingInv, PendingTypes, LoopInv, NoRepeats, PendingRowsExact, QuietClose
  <2> QED BY <2>1, <2>2, <2>3, <2>4, <2>5, <2>6, <2>7 DEF Next, Continue
<1> QED BY <1>1, PendingStart, PTL DEF Spec

\* _pending_rows names the rows of the pending futures, and no row is read by two
\* of them (vllm_plugin.py 171, 173, 206), for any requests, timeouts and failures.
THEOREM PendingExact == Spec => []PendingRowsExact
<1>1. PendingInv => PendingRowsExact
  BY DEF PendingInv
<1> QED BY <1>1, PendingHolds, PTL

\* close returns with no read queued or running (vllm_plugin.py 120-121).
THEOREM ClosesQuietly == Spec => []QuietClose
<1>1. PendingInv => QuietClose
  BY DEF PendingInv
<1> QED BY <1>1, PendingHolds, PTL

-----------------------------------------------------------------------------
(* The cache, and the types of everything else.                            *)

\* Every cached row is there once, and no more than cache_size of them.
CacheInv ==
  /\ cacheSize \in CacheSizes /\ cacheSize \in Nat /\ timeouts \in BOOLEAN
  /\ cache \in Seq(Rows) /\ NoRepeats(cache) /\ Len(cache) <= cacheSize
  /\ prefetched \subseteq Rows /\ (cacheSize > 0 => prefetched = {})

CallInv ==
  /\ flat \in Seq(Rows) /\ loop \in Seq(DOMAIN futures) /\ read \subseteq Rows
  /\ outcome \in {"none", "rows", "store_error", "KeyError"}
  /\ calls \in 0..MaxCalls /\ awaited \subseteq DOMAIN futures

TableInv == PendingInv /\ CacheInv /\ CallInv

\* Inserting rows, each once, and evicting the oldest.
LEMMA InsertEvicts ==
  ASSUME NEW c \in Seq(Rows), NoRepeats(c), NEW rows \in Seq(Rows), cacheSize \in Nat
  PROVE  /\ Evicted(Updated(c, rows)) \in Seq(Rows)
         /\ NoRepeats(Evicted(Updated(c, rows)))
         /\ Len(Evicted(Updated(c, rows))) <= cacheSize
<1> DEFINE m == Missing(rows, ToSet(c))
           u == c \o m
           k == Len(u) - cacheSize + 1
           e == SubSeq(u, k, Len(u))
<1>1. m \in Seq(Rows) /\ NoRepeats(m) /\ ToSet(m) = ToSet(rows) \ ToSet(c)
  BY MissingNew
<1> HIDE DEF m
<1>2. /\ u \in Seq(Rows) /\ Len(u) = Len(c) + Len(m) /\ Len(c) \in Nat /\ Len(m) \in Nat
      /\ \A i \in 1..(Len(c) + Len(m)) : u[i] = IF i <= Len(c) THEN c[i] ELSE m[i - Len(c)]
  BY <1>1, ConcatProperties, LenProperties
<1> HIDE DEF u
<1>3. NoRepeats(u)
  <2> SUFFICES ASSUME NEW i \in 1..Len(u), NEW j \in 1..Len(u), i < j PROVE u[i] # u[j]
    BY <1>2 DEF NoRepeats
  <2>1. CASE j <= Len(c)
    <3>1. i \in 1..Len(c) /\ j \in 1..Len(c) /\ i # j /\ u[i] = c[i] /\ u[j] = c[j]
      BY <1>2, <2>1
    <3> QED BY <3>1 DEF NoRepeats
  <2>2. CASE i <= Len(c) /\ ~ (j <= Len(c))
    <3>1. i \in 1..Len(c) /\ j - Len(c) \in 1..Len(m) /\ u[i] = c[i] /\ u[j] = m[j - Len(c)]
      BY <1>2, <2>2
    <3>2. c[i] \in ToSet(c) /\ m[j - Len(c)] \in ToSet(m)
      BY <1>1, <3>1, SetOfSeq
    <3> QED BY <1>1, <3>1, <3>2
  <2>3. CASE ~ (i <= Len(c))
    <3>1. /\ i - Len(c) \in 1..Len(m) /\ j - Len(c) \in 1..Len(m) /\ i - Len(c) # j - Len(c)
          /\ u[i] = m[i - Len(c)] /\ u[j] = m[j - Len(c)]
      BY <1>2, <2>3
    <3> QED BY <1>1, <3>1 DEF NoRepeats
  <2> QED BY <1>2, <2>1, <2>2, <2>3
<1>4. Updated(c, rows) = u
  BY DEF Updated, u, m
<1>5. CASE Len(u) > cacheSize
  <2>1. k \in Int /\ k >= 1 /\ Len(u) \in Int /\ Len(u) - k + 1 = cacheSize
    BY <1>2, <1>5
  <2>2. \A i \in k..Len(u) : i \in 1..Len(u)
    BY <1>2, <2>1
  <2>3. \A i \in k..Len(u) : u[i] \in Rows
    BY <1>2, <2>2, ElementOfSeq
  <2> HIDE DEF k
  <2>4. /\ e \in Seq(Rows) /\ Len(e) = IF k <= Len(u) THEN Len(u) - k + 1 ELSE 0
        /\ \A i \in 1..(Len(u) - k + 1) : e[i] = u[k + i - 1]
    BY <2>1, <2>3, SubSeqProperties
  <2>5. Evicted(u) = e
    BY <1>5 DEF Evicted, e, k
  <2> HIDE DEF e
  <2>6. Len(e) = cacheSize
    BY <2>1, <2>4
  <2>7. NoRepeats(e)
    <3> SUFFICES ASSUME NEW i \in 1..Len(e), NEW j \in 1..Len(e), i # j PROVE e[i] # e[j]
      BY DEF NoRepeats
    <3>1. /\ k + i - 1 \in 1..Len(u) /\ k + j - 1 \in 1..Len(u) /\ k + i - 1 # k + j - 1
          /\ i \in 1..(Len(u) - k + 1) /\ j \in 1..(Len(u) - k + 1)
      BY <2>1, <2>6
    <3> QED BY <1>3, <2>4, <3>1 DEF NoRepeats
  <2> QED BY <1>4, <2>1, <2>4, <2>5, <2>6, <2>7
<1>6. CASE ~ (Len(u) > cacheSize)
  BY <1>2, <1>3, <1>4, <1>6 DEF Evicted
<1> QED BY <1>5, <1>6

LEMMA TableStart == Init => TableInv
<1> SUFFICES ASSUME Init PROVE TableInv
  OBVIOUS
<1>1. PendingInv
  BY PendingStart
<1>2. cacheSize \in Nat /\ cacheSize \in CacheSizes /\ timeouts \in BOOLEAN
  BY EmbeddingAssumption DEF Init
<1>3. cache = <<>> /\ <<>> \in Seq(Rows) /\ Len(<<>>) = 0
  BY EmptySeq DEF Init
<1>4. NoRepeats(cache)
  BY <1>3 DEF NoRepeats
<1>5. CacheInv
  BY <1>2, <1>3, <1>4 DEF Init, CacheInv
<1>6. CallInv
  BY EmptySeq, EmbeddingAssumption DEF Init, CallInv
<1> QED BY <1>1, <1>5, <1>6 DEF TableInv

\* futures only grows, and its indices stay.
LEMMA FuturesGrow ==
  ASSUME TableInv, futures' = futures \/ (\E f : futures' = Append(futures, f))
                   \/ DOMAIN futures' = DOMAIN futures
  PROVE  /\ DOMAIN futures \subseteq DOMAIN futures'
         /\ Seq(DOMAIN futures) \subseteq Seq(DOMAIN futures')
<1>1. futures \in Seq(Futures)
  BY DEF TableInv, PendingInv, PendingTypes
<1>2. DOMAIN futures \subseteq DOMAIN futures'
  <2>1. CASE \E f : futures' = Append(futures, f)
    <3>1. PICK f : futures' = Append(futures, f)
      BY <2>1
    <3>2. futures \in Seq(Futures \cup {f}) /\ Len(futures) \in Nat
      BY <1>1, LenProperties
    <3>3. Append(futures, f) \in Seq(Futures \cup {f}) /\ Len(Append(futures, f)) = Len(futures) + 1
      BY <3>2, AppendProperties
    <3>4. DOMAIN futures = 1..Len(futures) /\ DOMAIN futures' = 1..(Len(futures) + 1)
      BY <3>1, <3>2, <3>3, LenProperties
    <3>5. 1..Len(futures) \subseteq 1..(Len(futures) + 1)
      BY <3>2
    <3> QED BY <3>4, <3>5, Zenon
  <2>2. CASE futures' = futures \/ DOMAIN futures' = DOMAIN futures
    BY <2>2
  <2> QED BY <2>1, <2>2
<1>3. Seq(DOMAIN futures) \subseteq Seq(DOMAIN futures')
  BY <1>2, SeqMonotonic
<1> QED BY <1>2, <1>3

\* The pending futures are indices into futures.
LEMMA PendingIndices ==
  ASSUME TableInv
  PROVE  pending \in Seq(DOMAIN futures) /\ ToSet(pending) \subseteq DOMAIN futures
<1>1. pending \in Seq(Nat) /\ ToSet(pending) \subseteq DOMAIN futures
  BY DEF TableInv, PendingInv, PendingTypes, LoopInv
<1>2. Len(pending) \in Nat /\ \A i \in 1..Len(pending) : pending[i] \in DOMAIN futures
  BY <1>1, LenProperties, SetOfSeq
<1>3. pending = [i \in 1..Len(pending) |-> pending[i]]
  BY <1>1, LenProperties
<1>4. pending \in [1..Len(pending) -> DOMAIN futures]
  BY <1>2, <1>3
<1> QED BY <1>1, <1>2, <1>4, FunIsSeq

\* What every step of DiskPleEmbedding, taken with any rows, is to the invariant.
TableStep ==
  \/ \E rows \in Seq(Rows) : \/ Prefetch(rows) \/ Forward(rows)
                             \/ \E ok \in BOOLEAN : ForwardFast(rows, ok)
  \/ Close \/ Continue \/ Worker

LEMMA PendingStep == ASSUME PendingInv, TableStep PROVE PendingInv'
<1>1. ASSUME NEW rows \in Seq(Rows), Prefetch(rows) PROVE PendingInv'
  BY <1>1, PrefetchKeeps
<1>2. ASSUME NEW rows \in Seq(Rows),
             Forward(rows) \/ \E ok \in BOOLEAN : ForwardFast(rows, ok)
      PROVE  PendingInv'
  BY <1>2, ForwardKeeps
<1>3. CASE WaitOne \/ \E ok \in BOOLEAN : Gather(ok)
  BY <1>3, ForwardKeeps
<1>4. CASE SettleOne
  BY <1>4, SettleKeeps
<1>5. CASE Close \/ CloseDone
  BY <1>5, CloseKeeps
<1>6. CASE Worker
  BY <1>6, ReaderKeeps
<1> QED BY <1>1, <1>2, <1>3, <1>4, <1>5, <1>6 DEF TableStep, Continue

\* The rows of the future that is settled next.
LEMMA SettledRows ==
  ASSUME TableInv, pc = "settle"
  PROVE  /\ Head(loop) \in DOMAIN futures /\ futures[Head(loop)].rows \in Seq(Rows)
         /\ Tail(loop) \in Seq(DOMAIN futures)
<1>1. loop \in Seq(DOMAIN futures) /\ loop # <<>> /\ futures \in Seq(Futures)
  BY DEF TableInv, PendingInv, PendingTypes, LoopInv, CallInv
<1>2. Head(loop) \in DOMAIN futures /\ Tail(loop) \in Seq(DOMAIN futures)
  BY <1>1, HeadTailProperties
<1>3. futures[Head(loop)] \in Futures
  BY <1>1, <1>2, LenProperties, ElementOfSeq
<1> QED BY <1>2, <1>3 DEF Futures

LEMMA CacheStep == ASSUME TableInv, TableStep PROVE CacheInv'
<1>1. CacheInv
  BY DEF TableInv
<1>2. UNCHANGED <<cacheSize, timeouts>>
  BY DEF TableStep, Prefetch, Forward, ForwardFast, Close, Continue, WaitOne, SettleOne,
         Gather, CloseDone, Worker, StartRead, EndRead, config
<1>3. ASSUME UNCHANGED cache, prefetched' = prefetched \/ prefetched' = {} PROVE CacheInv'
  BY <1>1, <1>2, <1>3 DEF CacheInv, NoRepeats
<1>4. CASE SettleOne
  <2> DEFINE rows == futures[Head(loop)].rows
  <2>1. pc = "settle"
    BY <1>4 DEF SettleOne
  <2>2. rows \in Seq(Rows) /\ ToSet(rows) \subseteq Rows
    BY <2>1, SettledRows, SetOfSeq
  <2>3. /\ cache' = cache \/ (cacheSize > 0 /\ cache' = Evicted(Updated(cache, rows)))
        /\ \/ prefetched' = prefetched
           \/ cacheSize = 0 /\ prefetched' = prefetched \union ToSet(rows)
    BY <1>4 DEF SettleOne
  <2> HIDE DEF rows
  <2>4. /\ cache' \in Seq(Rows) /\ NoRepeats(cache)' /\ Len(cache') <= cacheSize
    <3>1. CASE cache' = cache
      BY <1>1, <3>1 DEF CacheInv, NoRepeats
    <3>2. CASE cache' = Evicted(Updated(cache, rows))
      <4>1. PICK e : e = Evicted(Updated(cache, rows))
        OBVIOUS
      <4>2. e \in Seq(Rows) /\ NoRepeats(e) /\ Len(e) <= cacheSize
        BY <1>1, <2>2, <4>1, InsertEvicts DEF CacheInv
      <4>3. cache' = e
        BY <3>2, <4>1
      <4> QED BY <4>2, <4>3 DEF NoRepeats
    <3> QED BY <2>3, <3>1, <3>2
  <2>5. prefetched' \subseteq Rows /\ (cacheSize > 0 => prefetched' = {})
    BY <1>1, <2>2, <2>3 DEF CacheInv
  <2> QED BY <1>1, <1>2, <2>4, <2>5 DEF CacheInv
<1>5. ASSUME NEW ok \in BOOLEAN, Gather(ok) PROVE CacheInv'
  <2> DEFINE taken   == IF cacheSize = 0 THEN prefetched ELSE {}
             missing == Missing(flat, ToSet(cache) \union taken)
  <2>1. missing \in Seq(Rows)
    BY MissingNew DEF TableInv, CallInv
  <2>2. /\ cache' = cache \/ cache' = Evicted(Updated(cache, missing))
        /\ prefetched' = prefetched \ taken
    BY <1>5 DEF Gather
  <2> HIDE DEF missing
  <2>3. cache' \in Seq(Rows) /\ NoRepeats(cache)' /\ Len(cache') <= cacheSize
    <3>1. CASE cache' = cache
      BY <1>1, <3>1 DEF CacheInv, NoRepeats
    <3>2. CASE cache' = Evicted(Updated(cache, missing))
      <4>1. PICK e : e = Evicted(Updated(cache, missing))
        OBVIOUS
      <4>2. e \in Seq(Rows) /\ NoRepeats(e) /\ Len(e) <= cacheSize
        BY <1>1, <2>1, <4>1, InsertEvicts DEF CacheInv
      <4>3. cache' = e
        BY <3>2, <4>1
      <4> QED BY <4>2, <4>3 DEF NoRepeats
    <3> QED BY <2>2, <3>1, <3>2
  <2> QED BY <1>1, <1>2, <2>2, <2>3 DEF CacheInv
<1>6. CASE ~ SettleOne /\ ~ \E ok \in BOOLEAN : Gather(ok)
  <2>1. UNCHANGED cache /\ (prefetched' = prefetched \/ prefetched' = {})
    BY <1>6 DEF TableStep, Prefetch, Forward, ForwardFast, Close, Continue, WaitOne,
                CloseDone, Worker, StartRead, EndRead
  <2> QED BY <1>3, <2>1
<1> QED BY <1>4, <1>5, <1>6

LEMMA CallStep == ASSUME TableInv, TableStep PROVE CallInv'
<1>1. CallInv /\ pending \in Seq(DOMAIN futures) /\ ToSet(pending) \subseteq DOMAIN futures
  BY PendingIndices DEF TableInv
<1>2. \/ futures' = futures \/ (\E f : futures' = Append(futures, f))
      \/ DOMAIN futures' = DOMAIN futures
  BY DEF TableStep, Prefetch, Forward, ForwardFast, Close, Continue, WaitOne, SettleOne,
         Gather, CloseDone, Worker, StartRead, EndRead
<1>3. /\ DOMAIN futures \subseteq DOMAIN futures'
      /\ Seq(DOMAIN futures) \subseteq Seq(DOMAIN futures')
  BY <1>2, FuturesGrow
<1>4. calls' \in 0..MaxCalls
  <2>1. calls' = calls \/ (calls < MaxCalls /\ calls' = calls + 1)
    BY DEF TableStep, Prefetch, Forward, ForwardFast, Close, Continue, WaitOne, SettleOne,
           Gather, CloseDone, Worker, StartRead, EndRead, Call
  <2> QED BY <1>1, <2>1, EmbeddingAssumption DEF CallInv
<1>5. outcome' \in {"none", "rows", "store_error", "KeyError"}
  <2>1. outcome' \in {outcome, "rows", "store_error", "KeyError"}
    BY DEF TableStep, Prefetch, Forward, ForwardFast, Close, Continue, WaitOne, SettleOne,
           Gather, CloseDone, Worker, StartRead, EndRead
  <2> QED BY <1>1, <2>1 DEF CallInv
<1>6. flat' \in Seq(Rows)
  <2>1. flat' = flat \/ \E rows \in Seq(Rows) : flat' = rows
    BY DEF TableStep, Prefetch, Forward, ForwardFast, Close, Continue, WaitOne, SettleOne,
           Gather, CloseDone, Worker, StartRead, EndRead
  <2> QED BY <1>1, <2>1 DEF CallInv
<1>7. awaited' \subseteq DOMAIN futures
  <2>1. awaited' \in {awaited, {}, ToSet(pending)}
    BY DEF TableStep, Prefetch, Forward, ForwardFast, Close, Continue, WaitOne, SettleOne,
           Gather, CloseDone, Worker, StartRead, EndRead
  <2> QED BY <1>1, <2>1 DEF CallInv
<1>8. read' \subseteq Rows
  <2>1. ASSUME NEW ok \in BOOLEAN, Gather(ok) PROVE read' \subseteq Rows
    <3>1. read' = ToSet(Missing(flat, ToSet(cache) \union (IF cacheSize = 0 THEN prefetched ELSE {})))
      BY <2>1 DEF Gather
    <3> QED BY <1>1, <3>1, MissingNew DEF CallInv
  <2>2. ASSUME NEW rows \in Seq(Rows), NEW ok \in BOOLEAN, ForwardFast(rows, ok)
        PROVE  read' \subseteq Rows
    BY <2>2, SetOfSeq DEF ForwardFast
  <2>3. \/ read' = read \/ \E ok \in BOOLEAN : Gather(ok)
        \/ \E rows \in Seq(Rows), ok \in BOOLEAN : ForwardFast(rows, ok)
    BY DEF TableStep, Prefetch, Forward, Close, Continue, WaitOne, SettleOne, CloseDone,
           Worker, StartRead, EndRead
  <2> QED BY <1>1, <2>1, <2>2, <2>3 DEF CallInv
<1>9. loop' \in Seq(DOMAIN futures)
  <2>1. CASE WaitOne
    <3>1. loop # <<>> /\ (loop' = pending \/ loop' = Tail(loop))
      BY <2>1 DEF WaitOne, TableInv, PendingInv, LoopInv
    <3> QED BY <1>1, <3>1, HeadTailProperties DEF CallInv
  <2>2. CASE SettleOne
    BY <2>2, SettledRows DEF SettleOne
  <2>3. CASE ~ WaitOne /\ ~ SettleOne
    <3>1. loop' = loop \/ loop' = pending
      BY <2>3 DEF TableStep, Prefetch, Forward, ForwardFast, Close, Continue, Gather,
                  CloseDone, Worker, StartRead, EndRead
    <3> QED BY <1>1, <3>1 DEF CallInv
  <2> QED BY <2>1, <2>2, <2>3
<1> QED BY <1>3, <1>4, <1>5, <1>6, <1>7, <1>8, <1>9 DEF CallInv

LEMMA TableKept == ASSUME TableInv, TableStep PROVE TableInv'
BY PendingStep, CacheStep, CallStep DEF TableInv

LEMMA TableSame ==
  ASSUME TableInv, UNCHANGED <<config, cache, prefetched, futures, pending, pendingRows,
                               closed, pc, flat, loop, read, outcome, awaited>>,
         calls' \in 0..MaxCalls
  PROVE  TableInv'
<1>1. PendingInv'
  BY DEF TableInv, PendingInv, PendingTypes, LoopInv, NoRepeats, PendingRowsExact, QuietClose
<1>2. CacheInv' /\ CallInv'
  BY DEF TableInv, CacheInv, CallInv, NoRepeats, config
<1> QED BY <1>1, <1>2 DEF TableInv

\* The types, and the bound of the cache, follow.
LEMMA TableTyped == TableInv => TypeOK /\ CacheBounded
<1> SUFFICES ASSUME TableInv PROVE TypeOK /\ CacheBounded
  OBVIOUS
<1>1. PendingTypes /\ CacheInv /\ CallInv /\ pending \in Seq(DOMAIN futures)
  BY PendingIndices DEF TableInv, PendingInv
<1>2. \A i \in DOMAIN futures : futures[i] \in Futures
  BY <1>1, LenProperties DEF PendingTypes
<1>3. Cardinality(ToSet(cache)) = Len(cache)
  BY <1>1, DistinctCard DEF CacheInv
<1>4. CacheBounded
  BY <1>1, <1>3 DEF CacheBounded, CacheInv
<1>5. TypeOK
  BY <1>1, <1>2 DEF TypeOK, PendingTypes, CacheInv, CallInv, Futures, States
<1> QED BY <1>4, <1>5

-----------------------------------------------------------------------------
(* The contexts of the n-gram embedding.                                   *)

\* What batch row b was fed.
FedOf(f, b) == IF b \in DOMAIN f THEN f[b] ELSE <<>>

\* Every context is the window of everything its batch row was fed.
Windows(c, f) ==
  /\ c \in Seq(Seq(Tokens)) /\ f \in Seq(Seq(Tokens)) /\ Len(f) <= Len(c)
  /\ \A b \in 1..Len(c) : c[b] = Window(Cold \o FedOf(f, b))

\* The tokens a batch row was fed, after a batch.
FedAfter(f, t, n) == [b \in 1..n |-> FedOf(f, b) \o FedOf(t, b)]

ContextInv ==
  /\ Windows(context, fed)
  /\ input \in Inputs \union {<<>>}
  /\ ContextExact

LEMMA FedOfType ==
  ASSUME NEW f \in Seq(Seq(Tokens)), NEW b
  PROVE  FedOf(f, b) \in Seq(Tokens)
<1>1. DOMAIN f = 1..Len(f) /\ \A i \in 1..Len(f) : f[i] \in Seq(Tokens)
  BY LenProperties
<1> QED BY <1>1, EmptySeq DEF FedOf

\* New batch rows start cold; the others keep their context.
LEMMA ExtendedWindows ==
  ASSUME NEW c, NEW f, Windows(c, f), NEW n \in Nat
  PROVE  /\ Windows(Extended(c, n), f)
         /\ Len(Extended(c, n)) \in Nat /\ Len(Extended(c, n)) >= n
         /\ \A b \in 1..Len(Extended(c, n)) :
              Extended(c, n)[b] = IF b \in 1..Len(c) THEN c[b] ELSE Cold
<1> DEFINE m == Max({n, Len(c)})
           k == Extended(c, n)
<1>1. /\ c \in Seq(Seq(Tokens)) /\ f \in Seq(Seq(Tokens)) /\ Len(f) <= Len(c)
      /\ Len(c) \in Nat /\ Len(f) \in Nat /\ DOMAIN c = 1..Len(c) /\ DOMAIN f = 1..Len(f)
      /\ \A b \in 1..Len(c) : c[b] \in Seq(Tokens) /\ c[b] = Window(Cold \o FedOf(f, b))
  BY LenProperties DEF Windows
<1>2. m \in Nat /\ m >= n /\ m >= Len(c)
  <2> DEFINE P(x) == x \in {n, Len(c)} /\ \A y \in {n, Len(c)} : x >= y
  <2>1. \E x \in {n, Len(c)} : \A y \in {n, Len(c)} : x >= y
    BY <1>1
  <2>2. m = CHOOSE x \in {n, Len(c)} : \A y \in {n, Len(c)} : x >= y
    BY DEF Max
  <2> HIDE DEF m
  <2>3. m \in {n, Len(c)} /\ \A y \in {n, Len(c)} : m >= y
    BY <2>1, <2>2
  <2> QED BY <1>1, <2>3
<1> HIDE DEF m
<1>3. Cold \in Seq(Tokens) /\ Window(Cold \o <<>>) = Cold
  BY ColdFacts
<1>4. k = [b \in 1..m |-> IF b \in 1..Len(c) THEN c[b] ELSE Cold]
  BY <1>1 DEF Extended, m
<1>5. k \in [1..m -> Seq(Tokens)]
  BY <1>1, <1>3, <1>4
<1>6. k \in Seq(Seq(Tokens)) /\ Len(k) = m
  BY <1>2, <1>5
<1>7. \A b \in 1..m : k[b] = IF b \in 1..Len(c) THEN c[b] ELSE Cold
  BY <1>4
<1> HIDE DEF k
<1>8. ASSUME NEW b \in 1..m PROVE k[b] = Window(Cold \o FedOf(f, b))
  <2>1. CASE b \in 1..Len(c)
    BY <1>1, <1>7, <2>1
  <2>2. CASE b \notin 1..Len(c)
    <3>1. b \notin DOMAIN f
      BY <1>1, <1>2, <2>2
    <3>2. FedOf(f, b) = <<>>
      BY <3>1 DEF FedOf
    <3> QED BY <1>3, <1>7, <2>2, <3>2
  <2> QED BY <2>1, <2>2
<1>9. Windows(k, f)
  BY <1>1, <1>2, <1>6, <1>8 DEF Windows
<1> QED BY <1>2, <1>6, <1>7, <1>9 DEF k

\* Feeding a batch moves its contexts on.
LEMMA AdvancedWindows ==
  ASSUME NEW k, NEW f, Windows(k, f), NEW t \in Seq(Seq(Tokens)), Len(t) <= Len(k)
  PROVE  Windows(Advanced(k, t), FedAfter(f, t, Len(k)))
<1> DEFINE a == Advanced(k, t)
           g == FedAfter(f, t, Len(k))
<1>1. /\ k \in Seq(Seq(Tokens)) /\ f \in Seq(Seq(Tokens)) /\ Len(f) <= Len(k)
      /\ Len(k) \in Nat /\ Len(t) \in Nat /\ DOMAIN k = 1..Len(k) /\ DOMAIN t = 1..Len(t)
      /\ \A b \in 1..Len(k) : k[b] \in Seq(Tokens) /\ k[b] = Window(Cold \o FedOf(f, b))
  BY LenProperties DEF Windows
<1>2. ASSUME NEW b \in 1..Len(k)
      PROVE  /\ g[b] \in Seq(Tokens) /\ a[b] \in Seq(Tokens)
             /\ a[b] = Window(Cold \o g[b])
  <2>1. FedOf(f, b) \in Seq(Tokens) /\ FedOf(t, b) \in Seq(Tokens)
    BY <1>1, FedOfType
  <2>2. g[b] = FedOf(f, b) \o FedOf(t, b)
    BY DEF FedAfter
  <2>3. k[b] = Window(Cold \o FedOf(f, b))
    BY <1>1
  <2>4. /\ FedOf(f, b) \o FedOf(t, b) \in Seq(Tokens)
        /\ Window(k[b] \o FedOf(t, b)) \in Seq(Tokens)
        /\ Window(k[b] \o FedOf(t, b)) = Window(Cold \o (FedOf(f, b) \o FedOf(t, b)))
    BY <2>1, <2>3, WindowFed
  <2>5. FedOf(t, b) = <<>> => k[b] = Window(Cold \o (FedOf(f, b) \o FedOf(t, b)))
    BY <2>1, <2>3, WindowFed
  <2>6. CASE b \in DOMAIN t
    <3>1. a[b] = Window(k[b] \o t[b]) /\ FedOf(t, b) = t[b]
      BY <1>1, <2>6 DEF Advanced, FedOf
    <3> QED BY <2>2, <2>4, <3>1
  <2>7. CASE b \notin DOMAIN t
    <3>1. a[b] = k[b] /\ FedOf(t, b) = <<>>
      BY <1>1, <2>7 DEF Advanced, FedOf
    <3> QED BY <1>1, <2>2, <2>4, <2>5, <3>1
  <2> QED BY <2>6, <2>7
<1>3. a \in [1..Len(k) -> Seq(Tokens)]
  <2>1. a = [b \in 1..Len(k) |-> a[b]]
    BY <1>1 DEF Advanced
  <2> HIDE DEF a
  <2> QED BY <1>2, <2>1
<1>4. g \in [1..Len(k) -> Seq(Tokens)]
  <2>1. g = [b \in 1..Len(k) |-> g[b]]
    BY DEF FedAfter
  <2> HIDE DEF g
  <2> QED BY <1>2, <2>1
<1> HIDE DEF a, g
<1>5. a \in Seq(Seq(Tokens)) /\ Len(a) = Len(k) /\ g \in Seq(Seq(Tokens)) /\ Len(g) = Len(k)
      /\ DOMAIN g = 1..Len(k)
  <2>1. a \in Seq(Seq(Tokens)) /\ Len(a) = Len(k)
    BY <1>1, <1>3, FunIsSeq
  <2>2. g \in Seq(Seq(Tokens)) /\ Len(g) = Len(k)
    BY <1>1, <1>4, FunIsSeq
  <2>3. DOMAIN g = 1..Len(k)
    BY <1>4
  <2> QED BY <2>1, <2>2, <2>3
<1>6. ASSUME NEW b \in 1..Len(a) PROVE a[b] = Window(Cold \o FedOf(g, b))
  <2>1. FedOf(g, b) = g[b]
    BY <1>5 DEF FedOf
  <2> QED BY <1>2, <1>5, <2>1
<1>7. Len(g) <= Len(a)
  BY <1>1, <1>5
<1> QED BY <1>5, <1>6, <1>7 DEF Windows, a, g

\* The rows forward asks for are those of the last tokens of one call on the whole.
LEMMA RowsForWindows ==
  ASSUME NEW k, NEW f, Windows(k, f), NEW t \in Seq(Seq(Tokens)), Len(t) <= Len(k)
  PROVE  /\ RowsFor(k, t) \in Seq(Rows)
         /\ RowsFor(k, t) =
              FlattenSeq([b \in 1..Len(t) |->
                LET all == RowKeys(Cold, FedAfter(f, t, Len(k))[b]) IN
                SubSeq(all, Len(all) - Len(t[b]) + 1, Len(all))])
<1> DEFINE g == FedAfter(f, t, Len(k))
           all(b) == RowKeys(Cold, g[b])
           got(b) == SubSeq(all(b), Len(all(b)) - Len(t[b]) + 1, Len(all(b)))
<1>1. /\ k \in Seq(Seq(Tokens)) /\ f \in Seq(Seq(Tokens))
      /\ Len(k) \in Nat /\ Len(t) \in Nat /\ DOMAIN t = 1..Len(t)
      /\ \A b \in 1..Len(k) : k[b] \in Seq(Tokens) /\ k[b] = Window(Cold \o FedOf(f, b))
      /\ \A b \in 1..Len(t) : t[b] \in Seq(Tokens) /\ b \in 1..Len(k)
  BY LenProperties DEF Windows
<1>2. ASSUME NEW b \in 1..Len(t)
      PROVE  RowKeys(k[b], t[b]) \in Seq(Rows) /\ RowKeys(k[b], t[b]) = got(b)
  <2> DEFINE u == FedOf(f, b)
             q == Cold \o (u \o t[b])
  <2>1. u \in Seq(Tokens) /\ t[b] \in Seq(Tokens) /\ k[b] = Window(Cold \o u)
        /\ k[b] \in Seq(Tokens)
    BY <1>1, FedOfType
  <2>2. g[b] = u \o t[b]
    BY <1>1 DEF FedAfter, FedOf
  <2> HIDE DEF u, g
  <2>3. RowKeys(k[b], t[b]) = [i \in 1..Len(t[b]) |-> Context(q, Len(q) - Len(t[b]) + i)]
    <3>1. PICK h, tok : h = k[b] /\ tok = t[b]
      OBVIOUS
    <3>2. tok \in Seq(Tokens) /\ h = Window(Cold \o u)
      BY <2>1, <3>1
    <3> DEFINE w == Cold \o (u \o tok)
    <3>3. RowKeys(h, tok) = [i \in 1..Len(tok) |-> Context(w, Len(w) - Len(tok) + i)]
      BY <2>1, <3>2, WindowFed
    <3>4. q = w
      BY <3>1
    <3> HIDE DEF q, w
    <3> QED BY <3>1, <3>3, <3>4
  <2>4. /\ RowKeys(k[b], t[b]) \in Seq(Rows) /\ Len(RowKeys(k[b], t[b])) = Len(t[b])
    BY <2>1, RowKeysType, NGramAssumption
  <2>5. /\ Cold \in Seq(Tokens) /\ u \o t[b] \in Seq(Tokens)
        /\ Len(u \o t[b]) = Len(u) + Len(t[b]) /\ Len(u) \in Nat /\ Len(t[b]) \in Nat
        /\ Len(Cold) \in Nat
    BY <2>1, ColdFacts, ConcatProperties, LenProperties
  <2>6. Len(q) = Len(Cold) + Len(u \o t[b])
    BY <2>5, ConcatProperties
  <2> DEFINE a == RowKeys(Cold, u \o t[b])
             lo == Len(a) - Len(t[b]) + 1
  <2>7. a \in Seq(Rows) /\ Len(a) = Len(u) + Len(t[b])
    BY <2>5, RowKeysType, NGramAssumption
  <2>8. \A i \in 1..(Len(u) + Len(t[b])) : a[i] = Context(q, Len(Cold) + i)
    BY <2>5 DEF RowKeys
  <2> HIDE DEF a, q
  <2>9. lo \in Int /\ lo >= 1 /\ Len(a) \in Int /\ Len(a) - lo + 1 = Len(t[b])
        /\ lo = Len(u) + 1 /\ \A i \in lo..Len(a) : i \in 1..Len(a)
    BY <2>5, <2>7
  <2>10. \A i \in lo..Len(a) : a[i] \in Rows
    BY <2>7, <2>9, ElementOfSeq
  <2> HIDE DEF lo
  <2>11. /\ SubSeq(a, lo, Len(a)) \in Seq(Rows)
         /\ Len(SubSeq(a, lo, Len(a))) = IF lo <= Len(a) THEN Len(a) - lo + 1 ELSE 0
         /\ \A i \in 1..(Len(a) - lo + 1) : SubSeq(a, lo, Len(a))[i] = a[lo + i - 1]
    BY <2>9, <2>10, SubSeqProperties
  <2>12. Len(SubSeq(a, lo, Len(a))) = Len(t[b])
    BY <2>5, <2>7, <2>9, <2>11
  <2>13. ASSUME NEW i \in 1..Len(t[b])
         PROVE  RowKeys(k[b], t[b])[i] = SubSeq(a, lo, Len(a))[i]
    <3>1. lo + i - 1 \in 1..(Len(u) + Len(t[b])) /\ lo + i - 1 = Len(u) + i
      BY <2>5, <2>9
    <3>2. Len(Cold) + (lo + i - 1) = Len(q) - Len(t[b]) + i
      BY <2>5, <2>6, <3>1
    <3>3. SubSeq(a, lo, Len(a))[i] = Context(q, Len(Cold) + (lo + i - 1))
      BY <2>8, <2>9, <2>11, <3>1
    <3>4. RowKeys(k[b], t[b])[i] = Context(q, Len(q) - Len(t[b]) + i)
      BY <2>3
    <3> QED BY <3>2, <3>3, <3>4
  <2>14. RowKeys(k[b], t[b]) = SubSeq(a, lo, Len(a))
    BY <2>4, <2>11, <2>12, <2>13, SeqEqual
  <2> QED BY <2>2, <2>4, <2>14 DEF a, lo
<1>3. [b \in 1..Len(t) |-> RowKeys(k[b], t[b])] = [b \in 1..Len(t) |-> got(b)]
  <2> HIDE DEF got
  <2> QED BY <1>2
<1>4. RowsFor(k, t) = FlattenSeq([b \in 1..Len(t) |-> got(b)])
  <2> HIDE DEF got
  <2> QED BY <1>3 DEF RowsFor
<1>5. RowsFor(k, t) \in Seq(Rows)
  <2> DEFINE parts == [b \in 1..Len(t) |-> RowKeys(k[b], t[b])]
  <2>1. parts \in [1..Len(t) -> Seq(Rows)]
    BY <1>2
  <2> HIDE DEF parts
  <2>2. parts \in Seq(Seq(Rows))
    BY <1>1, <2>1, FunIsSeq
  <2>3. FlattenSeq(parts) \in Seq(Rows)
    BY <2>2, FlattenElements
  <2> QED BY <2>3 DEF RowsFor, parts
<1> QED BY <1>4, <1>5

\* Every step of the table, or none.
TableNext ==
  \/ TableStep
  \/ /\ UNCHANGED <<config, cache, prefetched, futures, pending, pendingRows, closed, pc,
                    flat, loop, read, outcome, awaited>>
     /\ calls' = calls \/ (calls < MaxCalls /\ calls' = calls + 1)

LEMMA TableNextKept == ASSUME TableInv, TableNext PROVE TableInv'
<1>1. CASE TableStep
  BY <1>1, TableKept
<1>2. CASE ~ TableStep
  <2>1. calls' \in 0..MaxCalls
    BY <1>2, EmbeddingAssumption DEF TableNext, TableInv, CallInv
  <2> QED BY <1>2, <2>1, TableSame DEF TableNext
<1> QED BY <1>1, <1>2

\* The facts about a batch in the current contexts.
LEMMA BatchFacts ==
  ASSUME ContextInv, NEW batch \in Inputs
  PROVE  /\ batch \in Seq(Seq(Tokens)) /\ batch # <<>> /\ Len(batch) \in Nat
         /\ Windows(Extended(context, Len(batch)), fed)
         /\ Len(batch) <= Len(Extended(context, Len(batch)))
         /\ RowsFor(Extended(context, Len(batch)), batch) \in Seq(Rows)
<1>1. batch \in Seq(Seq(Tokens)) /\ batch # <<>> /\ Len(batch) \in Nat
  BY NGramAssumption, LenProperties
<1>2. /\ Windows(Extended(context, Len(batch)), fed)
      /\ Len(batch) <= Len(Extended(context, Len(batch)))
  BY <1>1, ExtendedWindows DEF ContextInv
<1> QED BY <1>1, <1>2, RowsForWindows

LEMMA NGramToTable ==
  ASSUME ContextInv, [NGramNext]_allVars
  PROVE  TableNext
<1>1. ASSUME NEW batch \in Inputs, NGramPrefetch(batch) PROVE TableNext
  BY <1>1, BatchFacts DEF NGramPrefetch, TableNext, TableStep
<1>2. ASSUME NEW batch \in Inputs, NEW ok \in BOOLEAN, NGramForward(batch, ok) PROVE TableNext
  BY <1>2, BatchFacts DEF NGramForward, TableNext, TableStep
<1>3. CASE ResetHistory
  BY <1>3 DEF ResetHistory, TableNext, Call
<1>4. CASE NGramClose
  BY <1>4 DEF NGramClose, TableNext, TableStep
<1>5. CASE Table
  BY <1>5 DEF Table, TableNext, TableStep
<1>6. CASE UNCHANGED allVars
  BY <1>6 DEF allVars, vars, TableNext
<1> QED BY <1>1, <1>2, <1>3, <1>4, <1>5, <1>6 DEF NGramNext

\* A forward: what it asks for is exact, and the contexts move on.
LEMMA ForwardContext ==
  ASSUME ContextInv, NEW batch \in Inputs, NEW ok, NGramForward(batch, ok)
  PROVE  ContextInv'
<1> DEFINE k == Extended(context, Len(batch))
           g == FedAfter(fed, batch, Len(k))
<1>1. /\ batch \in Seq(Seq(Tokens)) /\ Windows(k, fed) /\ Len(batch) <= Len(k)
  BY BatchFacts
<1>2. /\ context' = Advanced(k, batch) /\ input' = batch /\ flat' = RowsFor(k, batch)
  BY DEF NGramForward, Forward, ForwardFast
<1>3. fed' = g
  BY DEF NGramForward, FedAfter, FedOf
<1> HIDE DEF k, g
<1>4. Windows(Advanced(k, batch), g)
  BY <1>1, AdvancedWindows DEF g
<1>5. RowsFor(k, batch) =
        FlattenSeq([b \in 1..Len(batch) |-> LET all == RowKeys(Cold, g[b]) IN
                      SubSeq(all, Len(all) - Len(batch[b]) + 1, Len(all))])
  BY <1>1, RowsForWindows DEF g
<1>6. Windows(context', fed')
  BY <1>2, <1>3, <1>4
<1>7. ContextExact'
  BY <1>2, <1>3, <1>5 DEF ContextExact
<1> QED BY <1>2, <1>6, <1>7 DEF ContextInv, Windows, FedOf

LEMMA ContextStep ==
  ASSUME ContextInv, [NGramNext]_allVars
  PROVE  ContextInv'
<1>1. ASSUME NEW batch \in Inputs, NGramPrefetch(batch) PROVE ContextInv'
  <2> DEFINE k == Extended(context, Len(batch))
  <2>1. Windows(k, fed)
    BY BatchFacts
  <2>2. context' = k /\ UNCHANGED <<fed, input, flat>>
    BY <1>1 DEF NGramPrefetch, Prefetch
  <2> HIDE DEF k
  <2>3. Windows(context', fed')
    BY <2>1, <2>2
  <2>4. ContextExact'
    BY <2>2 DEF ContextInv, ContextExact
  <2> QED BY <2>2, <2>3, <2>4 DEF ContextInv, Windows, FedOf
<1>2. ASSUME NEW batch \in Inputs, NEW ok \in BOOLEAN, NGramForward(batch, ok) PROVE ContextInv'
  BY <1>2, ForwardContext
<1>3. CASE ResetHistory
  <2>1. context' = <<>> /\ fed' = <<>> /\ input' = <<>>
    BY <1>3 DEF ResetHistory
  <2>2. <<>> \in Seq(Seq(Tokens)) /\ Len(<<>>) = 0
    BY EmptySeq
  <2>3. Windows(<<>>, <<>>)
    BY <2>2 DEF Windows
  <2>4. Windows(context', fed')
    BY <2>1, <2>3
  <2> QED BY <2>1, <2>4 DEF ContextInv, ContextExact, Windows, FedOf
<1>4. CASE UNCHANGED <<context, fed, input, flat>>
  BY <1>4 DEF ContextInv, ContextExact, Windows, FedOf
<1>5. ASSUME NGramClose \/ Table \/ UNCHANGED allVars PROVE UNCHANGED <<context, fed, input, flat>>
  BY <1>5 DEF NGramClose, Close, Table, ngramVars, allVars, vars, Continue, WaitOne, SettleOne,
              Gather, CloseDone, Worker, StartRead, EndRead
<1> QED BY <1>1, <1>2, <1>3, <1>4, <1>5 DEF NGramNext

-----------------------------------------------------------------------------
(* Prefetches that were hinted cover the forward of the same batch.        *)

\* The rows of a prefetched batch, in the contexts of now, are cached or pending.
HintInv ==
  /\ hinted \subseteq Inputs
  /\ hinted # {} => pc = "idle"
  /\ \A batch \in hinted :
       ToSet(RowsFor(Extended(context, Len(batch)), batch)) \subseteq ToSet(cache) \union pendingRows

\* The rows depend on the contexts of the batch's own rows only, and prefetching
\* another batch changes none of them.
LEMMA SameRowsFor ==
  ASSUME NEW c, NEW f, Windows(c, f), NEW n \in Nat, NEW batch \in Seq(Seq(Tokens))
  PROVE  RowsFor(Extended(Extended(c, n), Len(batch)), batch)
           = RowsFor(Extended(c, Len(batch)), batch)
<1> DEFINE k == Extended(c, n)
           m == Len(batch)
<1>1. m \in Nat /\ Len(c) \in Nat
  BY LenProperties DEF Windows
<1>2. /\ Windows(k, f) /\ Len(k) \in Nat
      /\ \A b \in 1..Len(k) : k[b] = IF b \in 1..Len(c) THEN c[b] ELSE Cold
  BY ExtendedWindows
<1>3. Len(k) >= Len(c)
  <2>1. Len(k) = Max({n, Len(c)}) /\ Max({n, Len(c)}) >= Len(c)
    <3>1. \E x \in {n, Len(c)} : \A y \in {n, Len(c)} : x >= y
      BY <1>1
    <3> DEFINE x == Max({n, Len(c)})
    <3>2. x = CHOOSE z \in {n, Len(c)} : \A y \in {n, Len(c)} : z >= y
      BY DEF Max
    <3> HIDE DEF x
    <3>3. x \in {n, Len(c)} /\ \A y \in {n, Len(c)} : x >= y
      BY <3>1, <3>2
    <3>4. x \in Nat /\ x >= Len(c)
      BY <1>1, <3>3
    <3>5. k = [b \in 1..x |-> IF b \in DOMAIN c THEN c[b] ELSE Cold]
      BY DEF Extended, x
    <3>6. DOMAIN k = 1..x /\ DOMAIN k = 1..Len(k)
      <4>1. k \in Seq(Seq(Tokens))
        BY <1>2 DEF Windows
      <4> QED BY <3>5, <4>1, LenProperties
    <3>7. Len(k) = x
      BY <1>2, <3>4, <3>6
    <3> QED BY <3>4, <3>7 DEF x
  <2> QED BY <2>1
<1> HIDE DEF k
<1>4. /\ Len(Extended(c, m)) \in Nat /\ Len(Extended(c, m)) >= m
      /\ \A b \in 1..Len(Extended(c, m)) :
           Extended(c, m)[b] = IF b \in 1..Len(c) THEN c[b] ELSE Cold
  BY <1>1, ExtendedWindows
<1>5. /\ Len(Extended(k, m)) \in Nat /\ Len(Extended(k, m)) >= m
      /\ \A b \in 1..Len(Extended(k, m)) :
           Extended(k, m)[b] = IF b \in 1..Len(k) THEN k[b] ELSE Cold
  BY <1>1, <1>2, ExtendedWindows
<1>6. ASSUME NEW b \in 1..m PROVE Extended(k, m)[b] = Extended(c, m)[b]
  <2>1. b \in 1..Len(Extended(c, m)) /\ b \in 1..Len(Extended(k, m))
    BY <1>1, <1>4, <1>5
  <2>2. b \in 1..Len(c) => b \in 1..Len(k)
    BY <1>1, <1>2, <1>3
  <2> QED BY <1>2, <1>4, <1>5, <2>1, <2>2
<1> HIDE DEF m
<1>7. [b \in 1..m |-> RowKeys(Extended(k, m)[b], batch[b])]
        = [b \in 1..m |-> RowKeys(Extended(c, m)[b], batch[b])]
  BY <1>6
<1> QED BY <1>7 DEF RowsFor, k, m

LEMMA NGramStart == NGramInit => TableInv /\ ContextInv /\ HintInv
<1> SUFFICES ASSUME NGramInit PROVE TableInv /\ ContextInv /\ HintInv
  OBVIOUS
<1>1. TableInv
  BY TableStart DEF NGramInit
<1>2. context = <<>> /\ fed = <<>> /\ input = <<>> /\ hinted = {}
  BY DEF NGramInit
<1>3. <<>> \in Seq(Seq(Tokens)) /\ Len(<<>>) = 0
  BY EmptySeq
<1>4. Windows(<<>>, <<>>)
  BY <1>3 DEF Windows
<1>5. ContextInv
  BY <1>2, <1>4 DEF ContextInv, ContextExact
<1> QED BY <1>1, <1>2, <1>5 DEF HintInv

\* A prefetch leaves its rows cached or pending, and those of earlier hints too.
LEMMA HintPrefetch ==
  ASSUME TableInv, ContextInv, HintInv, NEW batch \in Inputs, NGramPrefetch(batch)
  PROVE  HintInv'
<1> DEFINE known == Extended(context, Len(batch))
           rows == RowsFor(known, batch)
           new == Missing(rows, ToSet(cache) \union pendingRows)
<1>1. /\ batch \in Seq(Seq(Tokens)) /\ batch # <<>> /\ Len(batch) \in Nat
      /\ rows \in Seq(Rows) /\ Windows(context, fed)
  BY BatchFacts DEF ContextInv
<1>2. ToSet(new) = ToSet(rows) \ (ToSet(cache) \union pendingRows)
  BY <1>1, MissingNew
<1>3. /\ Prefetch(rows) /\ context' = known
      /\ hinted' = (IF closed THEN hinted ELSE hinted \union {batch})
  BY DEF NGramPrefetch
<1>4. pc = "idle" /\ pc' = pc /\ cache' = cache
  BY <1>3 DEF Prefetch, Call
<1>5. pendingRows \subseteq pendingRows'
  BY <1>3 DEF Prefetch
<1>6. ~ closed => ToSet(rows) \subseteq ToSet(cache) \union pendingRows'
  <2> HIDE DEF rows
  <2>1. CASE new = <<>>
    <3>0. new \in Seq(Rows)
      BY <1>1, MissingNew
    <3> HIDE DEF new
    <3>1. Len(new) = 0
      BY <2>1, <3>0, NonEmpty
    <3>2. ToSet(new) = {}
      <4>1. ToSet(new) = {new[i] : i \in 1..Len(new)}
        BY <3>0, SetOfSeq
      <4> QED BY <3>1, <4>1
    <3> QED BY <1>2, <1>5, <3>2
  <2>2. CASE ~ closed /\ new # <<>>
    <3>1. pendingRows' = pendingRows \union ToSet(new)
      BY <1>3, <2>2 DEF Prefetch
    <3> QED BY <1>2, <3>1
  <2> QED BY <2>1, <2>2
<1>7. ASSUME NEW b \in Inputs
      PROVE  RowsFor(Extended(context, Len(b)), b) = RowsFor(Extended(known, Len(b)), b)
  <2>1. b \in Seq(Seq(Tokens))
    BY NGramAssumption
  <2> QED BY <1>1, <2>1, SameRowsFor
<1> HIDE DEF known
<1>8. ASSUME NEW b \in hinted'
      PROVE  ToSet(RowsFor(Extended(known, Len(b)), b)) \subseteq ToSet(cache) \union pendingRows'
  <2>1. CASE b \in hinted
    <3>1. b \in Inputs
      BY <2>1 DEF HintInv
    <3>2. ToSet(RowsFor(Extended(context, Len(b)), b)) \subseteq ToSet(cache) \union pendingRows
      BY <2>1 DEF HintInv
    <3> QED BY <1>5, <1>7, <3>1, <3>2
  <2>2. CASE b \notin hinted
    <3>1. b = batch /\ ~ closed
      BY <1>3, <1>8, <2>2
    <3>2. RowsFor(Extended(context, Len(b)), b) = rows
      BY <3>1 DEF known
    <3>3. RowsFor(Extended(context, Len(b)), b) = RowsFor(Extended(known, Len(b)), b)
      BY <1>7, <3>1
    <3>4. RowsFor(Extended(known, Len(b)), b) = rows
      BY <3>2, <3>3, Zenon
    <3> HIDE DEF rows
    <3> QED BY <1>6, <3>1, <3>4
  <2> QED BY <2>1, <2>2
<1>9. hinted' \subseteq Inputs
  BY <1>3 DEF HintInv
<1> QED BY <1>3, <1>4, <1>8, <1>9 DEF HintInv

LEMMA HintStep ==
  ASSUME TableInv, ContextInv, HintInv, [NGramNext]_allVars
  PROVE  HintInv'
<1>1. ASSUME NEW batch \in Inputs, NGramPrefetch(batch) PROVE HintInv'
  BY <1>1, HintPrefetch
<1>2. ASSUME NEW batch \in Inputs, NEW ok \in BOOLEAN, NGramForward(batch, ok) PROVE HintInv'
  BY <1>2 DEF NGramForward, HintInv
<1>3. CASE ResetHistory \/ NGramClose
  BY <1>3 DEF ResetHistory, NGramClose, HintInv
<1>4. ASSUME UNCHANGED <<hinted, pc, context, cache, pendingRows>> PROVE HintInv'
  BY <1>4 DEF HintInv
<1>5. CASE Table
  <2>1. CASE Worker
    <3>1. UNCHANGED <<hinted, pc, context, cache, pendingRows>>
      BY <1>5, <2>1 DEF Table, ngramVars, Worker, StartRead, EndRead
    <3> QED BY <1>4, <3>1
  <2>2. CASE Continue
    <3>1. pc # "idle"
      BY <2>2 DEF Continue, WaitOne, SettleOne, Gather, CloseDone
    <3>2. hinted' = {}
      BY <1>5, <3>1 DEF Table, ngramVars, HintInv
    <3> QED BY <3>2 DEF HintInv
  <2> QED BY <1>5, <2>1, <2>2 DEF Table
<1>6. CASE UNCHANGED allVars
  BY <1>4, <1>6 DEF allVars, vars, ngramVars
<1> QED BY <1>1, <1>2, <1>3, <1>5, <1>6 DEF NGramNext

NGramInv == TableInv /\ ContextInv /\ HintInv

\* Every step of the embedding keeps the table, the contexts and the hints in step.
THEOREM NGramHolds == NGramSpec => []NGramInv
<1>1. NGramInit => NGramInv
  BY NGramStart DEF NGramInv
<1>2. NGramInv /\ [NGramNext]_allVars => NGramInv'
  BY NGramToTable, TableNextKept, ContextStep, HintStep DEF NGramInv
<1> QED BY <1>1, <1>2, PTL DEF NGramSpec

\* The types, with the bound of the cache (vllm_plugin.py 177, 260) and the length
\* of every context (ple_adapter.py 309, 326), for any table and any batches.
THEOREM NGramTyped == NGramSpec => []NGramTypeOK
<1>1. NGramInv => NGramTypeOK
  <2> SUFFICES ASSUME NGramInv PROVE NGramTypeOK
    OBVIOUS
  <2>1. TableInv /\ ContextInv /\ HintInv
    BY DEF NGramInv
  <2>2. TypeOK /\ CacheBounded
    BY <2>1, TableTyped
  <2>3. /\ context \in Seq(Seq(Tokens)) /\ fed \in Seq(Seq(Tokens)) /\ Len(fed) <= Len(context)
        /\ \A b \in 1..Len(context) : context[b] = Window(Cold \o FedOf(fed, b))
    BY <2>1 DEF ContextInv, Windows
  <2>4. ASSUME NEW b \in 1..Len(context) PROVE context[b] \in [1..(NgramSize - 1) -> Tokens]
    <3>1. FedOf(fed, b) \in Seq(Tokens) /\ <<>> \in Seq(Tokens)
      BY <2>3, FedOfType, EmptySeq
    <3>2. /\ context[b] \in Seq(Tokens) /\ Len(context[b]) = NgramSize - 1
      BY <2>3, <3>1, WindowFed, ZenonT(30)
    <3> QED BY <3>2, LenProperties
  <2>5. context \in [1..Len(context) -> [1..(NgramSize - 1) -> Tokens]]
    <3>1. context = [b \in 1..Len(context) |-> context[b]]
      BY <2>3, LenProperties
    <3> QED BY <2>4, <3>1
  <2>6. context \in Seq([1..(NgramSize - 1) -> Tokens])
    BY <2>3, <2>5, LenProperties, FunIsSeq
  <2> QED BY <2>1, <2>2, <2>3, <2>6 DEF NGramTypeOK, ContextInv, HintInv
<1> QED BY <1>1, NGramHolds, PTL

\* forward asks the table for the rows of one call on everything each batch row was
\* fed (ple_adapter.py 200-204), for any batches, prefetches, resets and failures.
THEOREM ContextsExact == NGramSpec => []ContextExact
<1>1. NGramInv => ContextExact
  BY DEF NGramInv, ContextInv
<1> QED BY <1>1, NGramHolds, PTL

\* _pending_rows names the rows of the pending futures under the n-gram embedding
\* too (vllm_plugin.py 171, 173, 206), whose rows are hashes of contexts.
THEOREM NGramPendingExact == NGramSpec => []PendingRowsExact
<1>1. NGramInv => PendingRowsExact
  BY DEF NGramInv, TableInv, PendingInv
<1> QED BY <1>1, NGramHolds, PTL

\* close of the n-gram embedding leaves no read behind (vllm_plugin.py 120-121).
THEOREM NGramClosesQuietly == NGramSpec => []QuietClose
<1>1. NGramInv => QuietClose
  BY DEF NGramInv, TableInv, PendingInv
<1> QED BY <1>1, NGramHolds, PTL

\* A forward of a batch that was prefetched finds every row cached or under way
\* (ple_adapter.py 301-303), whatever other batches were prefetched in between.
THEOREM Covers == NGramSpec => PrefetchCovers
<1> DEFINE Step == \A batch \in hinted : \A ok \in BOOLEAN : NGramForward(batch, ok) =>
                     ToSet(flat') \subseteq ToSet(cache) \union pendingRows
<1>1. NGramInv => Step
  <2> SUFFICES ASSUME NGramInv, NEW batch \in hinted, NEW ok \in BOOLEAN, NGramForward(batch, ok)
               PROVE  ToSet(flat') \subseteq ToSet(cache) \union pendingRows
    OBVIOUS
  <2>1. flat' = RowsFor(Extended(context, Len(batch)), batch)
    BY DEF NGramForward, Forward, ForwardFast
  <2> QED BY <2>1 DEF NGramInv, HintInv
<1>2. NGramInv /\ [NGramNext]_allVars => [Step]_allVars
  BY <1>1
<1> QED BY <1>2, NGramHolds, PTL DEF NGramSpec, PrefetchCovers

-----------------------------------------------------------------------------
(* Without a cache and a timeout, no prefetched row is read again.         *)

\* A read that has not ended is that of a pending future.
OpenPending ==
  \A i \in DOMAIN futures : futures[i].state \in {"queued", "running"} => i \in ToSet(pending)

\* The future has ended, and what it brought is kept for the next forward.
Kept(i) ==
  /\ Finished(i)
  /\ futures[i].state = "done" => ToSet(futures[i].rows) \subseteq prefetched

\* How far the forward is with the futures it found pending.
Reusing ==
  /\ ToSet(pending) \subseteq awaited
  /\ pc = "wait" => /\ awaited \subseteq ToSet(pending)
                    /\ \A i \in awaited : i \in ToSet(loop) \/ Finished(i)
  /\ pc = "settle" => \A i \in awaited : Finished(i) /\ (i \in ToSet(loop) \/ Kept(i))
  /\ pc = "gather" => \A i \in awaited : Kept(i)

Untimed == pc \in {"wait", "settle", "gather"} /\ cacheSize = 0 /\ ~ timeouts

ReuseInv == OpenPending /\ (Untimed => Reusing)

\* A new prefetch is queued and pending.
LEMMA OpenPrefetch ==
  ASSUME TableInv, ReuseInv, NEW rows \in Seq(Rows), Prefetch(rows)
  PROVE  ReuseInv'
<1> DEFINE missing == Missing(rows, ToSet(cache) \union pendingRows)
           new == Len(futures) + 1
<1>1. pc = "idle" /\ pc' = pc /\ OpenPending /\ pending \in Seq(Nat) /\ futures \in Seq(Futures)
  BY DEF Prefetch, Call, ReuseInv, TableInv, PendingInv, PendingTypes
<1>2. CASE closed \/ missing = <<>>
  <2>1. UNCHANGED <<futures, pending>>
    BY <1>2 DEF Prefetch
  <2> QED BY <1>1, <2>1 DEF ReuseInv, OpenPending, Untimed
<1>3. CASE ~(closed \/ missing = <<>>)
  <2>1. /\ futures' = Append(futures, [rows |-> missing, state |-> "queued"])
        /\ pending' = Append(pending, new)
    BY <1>3 DEF Prefetch
  <2>2. missing \in Seq(Rows)
    BY MissingNew
  <2> HIDE DEF missing
  <2>3. [rows |-> missing, state |-> "queued"] \in Futures
    BY <2>2 DEF Futures, States
  <2>4. /\ Len(futures) \in Nat /\ DOMAIN futures = 1..Len(futures) /\ DOMAIN futures' = 1..new
        /\ \A i \in 1..Len(futures) : futures'[i] = futures[i]
    BY <1>1, <2>1, <2>3, AppendProperties, LenProperties
  <2>5. ToSet(pending) \subseteq ToSet(pending') /\ new \in ToSet(pending')
    <3>1. /\ pending' \in Seq(Nat) /\ Len(pending) \in Nat /\ Len(pending') = Len(pending) + 1
          /\ \A i \in 1..Len(pending) : pending'[i] = pending[i]
          /\ pending'[Len(pending) + 1] = new
      BY <1>1, <2>1, <2>4, AppendProperties, LenProperties
    <3>2. ToSet(pending) = {pending[i] : i \in 1..Len(pending)}
          /\ \A i \in 1..Len(pending') : pending'[i] \in ToSet(pending')
      BY <1>1, <3>1, SetOfSeq
    <3>3. \A i \in 1..Len(pending) : i \in 1..Len(pending')
      BY <3>1
    <3>4. Len(pending) + 1 \in 1..Len(pending')
      BY <3>1
    <3> HIDE DEF new
    <3> QED BY <3>1, <3>2, <3>3, <3>4
  <2>6. \A i \in 1..new : i \in 1..Len(futures) \/ i = new
    BY <2>4
  <2> HIDE DEF new
  <2>7. OpenPending'
    BY <1>1, <2>4, <2>5, <2>6 DEF OpenPending
  <2> QED BY <1>1, <2>7 DEF ReuseInv, Untimed
<1> QED BY <1>2, <1>3

LEMMA ReuseForward ==
  ASSUME TableInv, ReuseInv, NEW rows \in Seq(Rows), Forward(rows)
  PROVE  ReuseInv'
<1>1. /\ pending' = pending /\ futures' = futures /\ loop' = pending
      /\ awaited' = ToSet(pending) /\ pending \in Seq(Nat)
      /\ pc' = IF pending = <<>> THEN "gather" ELSE "wait"
  BY DEF Forward, TableInv, PendingInv, PendingTypes
<1>2. OpenPending'
  BY <1>1 DEF ReuseInv, OpenPending
<1>3. pending = <<>> => ToSet(pending) = {}
  BY DEF ToSet
<1>4. Reusing'
  BY <1>1, <1>3 DEF Reusing
<1> QED BY <1>2, <1>4 DEF ReuseInv

LEMMA ReuseWait == ASSUME TableInv, ReuseInv, WaitOne PROVE ReuseInv'
<1>1. /\ pc = "wait" /\ (Finished(Head(loop)) \/ timeouts)
      /\ UNCHANGED <<futures, pending, awaited, prefetched, cacheSize, timeouts>>
      /\ loop' = (IF Len(loop) = 1 THEN pending ELSE Tail(loop))
      /\ pc' = (IF Len(loop) = 1 THEN "settle" ELSE "wait")
  BY DEF WaitOne, config
<1>2. OpenPending'
  BY <1>1 DEF ReuseInv, OpenPending
<1>3. ASSUME cacheSize = 0, ~ timeouts PROVE Reusing'
  <2>1. loop \in Seq(Nat) /\ loop # <<>>
    BY <1>1 DEF TableInv, PendingInv, PendingTypes, LoopInv
  <2>2. /\ ToSet(loop) = {Head(loop)} \union ToSet(Tail(loop))
        /\ Len(loop) = 1 => ToSet(Tail(loop)) = {}
    BY <2>1, HeadOrTail
  <2>3. /\ ToSet(pending) \subseteq awaited /\ awaited \subseteq ToSet(pending)
        /\ \A i \in awaited : i \in ToSet(loop) \/ Finished(i)
    BY <1>1, <1>3 DEF ReuseInv, Reusing, Untimed
  <2>4. \A i \in awaited : i \in ToSet(Tail(loop)) \/ Finished(i)
    BY <1>1, <1>3, <2>2, <2>3
  <2>5. \A i \in awaited : Finished(i)' <=> Finished(i)
    BY <1>1 DEF Finished
  <2>6. CASE Len(loop) = 1
    <3>1. \A i \in awaited : Finished(i)
      BY <2>2, <2>4, <2>6
    <3>2. pc' = "settle" /\ loop' = pending
      BY <1>1, <2>6
    <3> QED BY <1>1, <2>3, <2>5, <3>1, <3>2 DEF Reusing
  <2>7. CASE Len(loop) # 1
    <3>1. pc' = "wait" /\ loop' = Tail(loop)
      BY <1>1, <2>7
    <3> QED BY <1>1, <2>3, <2>4, <2>5, <3>1 DEF Reusing
  <2> QED BY <2>6, <2>7
<1> QED BY <1>1, <1>2, <1>3 DEF ReuseInv, Untimed

LEMMA ReuseSettle == ASSUME TableInv, ReuseInv, SettleOne PROVE ReuseInv'
<1>0. PICK h : h = Head(loop)
  OBVIOUS
<1>1. /\ pc = "settle" /\ UNCHANGED <<futures, awaited, cacheSize, timeouts>>
      /\ pending' = (IF Finished(h) THEN RemoveFirst(pending, h) ELSE pending)
      /\ prefetched' = (IF futures[h].state = "done" /\ cacheSize = 0
                        THEN prefetched \union ToSet(futures[h].rows) ELSE prefetched)
      /\ loop' = Tail(loop) /\ pc' = (IF Len(loop) = 1 THEN "gather" ELSE "settle")
  BY <1>0 DEF SettleOne, config
<1>2. /\ loop \in Seq(Nat) /\ loop # <<>> /\ ToSet(loop) \subseteq ToSet(pending)
      /\ pending \in Seq(Nat) /\ NoRepeats(pending)
  BY <1>1 DEF TableInv, PendingInv, PendingTypes, LoopInv
<1>3. /\ h \in ToSet(loop) /\ ToSet(loop) = {h} \union ToSet(Tail(loop))
      /\ Len(loop) = 1 => ToSet(Tail(loop)) = {}
  BY <1>0, <1>2, HeadOrTail
<1>4. ToSet(pending') = IF Finished(h) THEN ToSet(pending) \ {h} ELSE ToSet(pending)
  BY <1>1, <1>2, <1>3, RemoveOnce
<1>5. OpenPending'
  BY <1>1, <1>4 DEF ReuseInv, OpenPending, Finished
<1>6. ASSUME cacheSize = 0, ~ timeouts PROVE Reusing'
  <2>1. /\ ToSet(pending) \subseteq awaited
        /\ \A i \in awaited : Finished(i) /\ (i \in ToSet(loop) \/ Kept(i))
    BY <1>1, <1>6 DEF ReuseInv, Reusing, Untimed
  <2>2. \A i \in awaited : Finished(i)' <=> Finished(i)
    BY <1>1 DEF Finished
  <2>3. prefetched \subseteq prefetched'
    BY <1>1
  <2>4. \A i \in awaited : Kept(i) => Kept(i)'
    BY <1>1, <2>2, <2>3 DEF Kept
  <2>5. h \in awaited => Kept(h)'
    BY <1>1, <1>6, <2>1, <2>2 DEF Kept
  <2>6. \A i \in awaited : i \in ToSet(Tail(loop)) \/ Kept(i)'
    BY <1>3, <2>1, <2>4, <2>5
  <2>7. ToSet(pending') \subseteq awaited'
    BY <1>1, <1>4, <2>1
  <2>8. CASE Len(loop) = 1
    BY <1>1, <1>3, <2>6, <2>7, <2>8 DEF Reusing
  <2>9. CASE Len(loop) # 1
    BY <1>1, <2>1, <2>2, <2>6, <2>7, <2>9 DEF Reusing
  <2> QED BY <2>8, <2>9
<1> QED BY <1>1, <1>5, <1>6 DEF ReuseInv, Untimed

LEMMA ReuseWorker == ASSUME TableInv, ReuseInv, Worker PROVE ReuseInv'
<1>1. PICK i \in DOMAIN futures, st \in {"running", "done", "failed"} :
        /\ futures[i].state \in {"queued", "running"}
        /\ futures' = [futures EXCEPT ![i].state = st]
        /\ UNCHANGED <<cacheSize, timeouts, pending, prefetched, pc, loop, awaited>>
  BY DEF Worker, StartRead, EndRead, config
<1>2. i \in ToSet(pending)
  BY <1>1 DEF ReuseInv, OpenPending
<1>3. DOMAIN futures' = DOMAIN futures /\ \A j \in DOMAIN futures : j # i => futures'[j] = futures[j]
  BY <1>1
<1>4. OpenPending'
  BY <1>1, <1>2, <1>3 DEF ReuseInv, OpenPending
<1>5. \A j \in DOMAIN futures : Finished(j) => j # i
  BY <1>1 DEF Finished
<1>6. \A j \in DOMAIN futures : (Finished(j) => Finished(j)') /\ (Kept(j) => Kept(j)')
  BY <1>1, <1>3, <1>5 DEF Finished, Kept
<1>7. awaited \subseteq DOMAIN futures
  BY DEF TableInv, CallInv
<1>8. Untimed' => Untimed
  BY <1>1 DEF Untimed
<1>9. Reusing => Reusing'
  BY <1>1, <1>6, <1>7 DEF Reusing
<1> QED BY <1>4, <1>8, <1>9 DEF ReuseInv

LEMMA ReuseClose == ASSUME TableInv, ReuseInv, Close PROVE ReuseInv'
<1>1. pending' = pending /\ pc' \in {"idle", "shutdown"} /\ pc = "idle"
  BY DEF Close, Call
<1>2. OpenPending'
  <2>1. CASE closed
    BY <1>1, <2>1 DEF Close, ReuseInv, OpenPending
  <2>2. CASE ~ closed
    <3>1. futures' = [i \in DOMAIN futures |->
                           IF i \in ToSet(pending) /\ futures[i].state = "queued"
                           THEN [futures[i] EXCEPT !.state = "cancelled"] ELSE futures[i]]
      BY <2>2 DEF Close
    <3>2. DOMAIN futures' = DOMAIN futures
          /\ \A i \in DOMAIN futures : i \notin ToSet(pending) => futures'[i] = futures[i]
      BY <3>1
    <3> QED BY <1>1, <3>2 DEF ReuseInv, OpenPending
  <2> QED BY <2>1, <2>2
<1> QED BY <1>1, <1>2 DEF ReuseInv, Untimed

LEMMA ReuseStep == ASSUME TableInv, ReuseInv, TableNext PROVE ReuseInv'
<1>1. ASSUME NEW rows \in Seq(Rows), Prefetch(rows) PROVE ReuseInv'
  BY <1>1, OpenPrefetch
<1>2. ASSUME NEW rows \in Seq(Rows), Forward(rows) PROVE ReuseInv'
  BY <1>2, ReuseForward
<1>3. ASSUME NEW rows \in Seq(Rows), NEW ok \in BOOLEAN, ForwardFast(rows, ok) PROVE ReuseInv'
  <2>1. UNCHANGED <<futures, pending>> /\ pc' = "idle"
    BY <1>3 DEF ForwardFast, Call
  <2> QED BY <2>1 DEF ReuseInv, OpenPending, Untimed
<1>4. ASSUME NEW ok \in BOOLEAN, Gather(ok) PROVE ReuseInv'
  <2>1. UNCHANGED <<futures, pending>> /\ pc' = "idle"
    BY <1>4 DEF Gather
  <2> QED BY <2>1 DEF ReuseInv, OpenPending, Untimed
<1>5. CASE CloseDone
  <2>1. /\ UNCHANGED futures /\ pc' = "idle"
        /\ \A i \in DOMAIN futures : futures[i].state \notin {"queued", "running"}
    BY <1>5 DEF CloseDone
  <2> QED BY <2>1 DEF ReuseInv, OpenPending, Untimed
<1>6. CASE ~ TableStep
  <2>1. UNCHANGED <<cacheSize, timeouts, prefetched, futures, pending, pc, loop, awaited>>
    BY <1>6 DEF TableNext, config
  <2> QED BY <2>1 DEF ReuseInv, OpenPending, Untimed, Reusing, Kept, Finished
<1> QED BY <1>1, <1>2, <1>3, <1>4, <1>5, <1>6, ReuseWait, ReuseSettle, ReuseWorker, ReuseClose
        DEF TableNext, TableStep, Continue

\* A forward without a cache and a timeout reads no row again that a prefetch
\* brought (vllm_plugin.py 191-192), for any batches, orders and failures of reads.
THEOREM PrefetchReused == NGramSpec => ReusesPrefetch
<1> DEFINE Step == pc = "gather" /\ cacheSize = 0 /\ ~timeouts => \A i \in awaited :
                     futures[i].state = "done" => ToSet(futures[i].rows) \intersect read' = {}
<1>1. NGramInit => ReuseInv
  BY DEF NGramInit, Init, ReuseInv, OpenPending, Untimed
<1>2. NGramInv /\ ReuseInv /\ [NGramNext]_allVars => ReuseInv'
  BY NGramToTable, ReuseStep DEF NGramInv
<1>3. NGramInv /\ ReuseInv /\ [NGramNext]_allVars => [Step]_vars
  <2> SUFFICES ASSUME NGramInv, ReuseInv, [NGramNext]_allVars, vars' # vars,
                      pc = "gather", cacheSize = 0, ~timeouts,
                      NEW i \in awaited, futures[i].state = "done"
               PROVE  ToSet(futures[i].rows) \intersect read' = {}
    OBVIOUS
  <2>1. /\ OpenPending /\ ToSet(pending) \subseteq awaited /\ \A j \in awaited : Kept(j)
    BY DEF ReuseInv, Reusing, Untimed
  <2>2. ~ Worker
    <3>1. ~ \E j \in DOMAIN futures : futures[j].state \in {"queued", "running"}
      BY <2>1 DEF OpenPending, Kept, Finished
    <3> QED BY <3>1 DEF Worker, StartRead, EndRead
  <2>3. Continue
    <3>1. pc # "idle"
      OBVIOUS
    <3>2. ~ Call
      BY <3>1 DEF Call
    <3> QED BY <2>2, <3>2 DEF NGramNext, NGramPrefetch, NGramForward, ResetHistory, NGramClose,
                              Table, Prefetch, Forward, ForwardFast, Close, allVars
  <2>4. PICK ok \in BOOLEAN : Gather(ok)
    BY <2>3 DEF Continue, WaitOne, SettleOne, CloseDone
  <2>5. read' = ToSet(Missing(flat, ToSet(cache) \union prefetched))
    BY <2>4 DEF Gather
  <2>6. flat \in Seq(Rows)
    BY DEF NGramInv, TableInv, CallInv
  <2>7. read' = ToSet(flat) \ (ToSet(cache) \union prefetched)
    BY <2>5, <2>6, MissingNew
  <2> QED BY <2>1, <2>7 DEF Kept
<1> QED BY <1>1, <1>2, <1>3, NGramHolds, PTL DEF NGramSpec, ReusesPrefetch
=============================================================================
