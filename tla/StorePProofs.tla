--------------------------- MODULE StorePProofs -----------------------------
(***************************************************************************)
(* Theorems about ViewStore, for all lists, widths, batches and numbers of *)
(* commands, and about SlotIndex, for all keys files, numbers of buckets   *)
(* and sizes of the cache.                                                 *)
(*                                                                         *)
(* A build command that succeeds leaves files that agree; over such a view *)
(* a fetch gives what it is asked for; and while all commands use one      *)
(* width it never gives a torn record, even over a view that is being      *)
(* rewritten.  The invariant follows a command through its steps: a file   *)
(* and its buffer hold what has been gathered so far, so that the loss of  *)
(* either is a command that did not complete.                              *)
(*                                                                         *)
(* A lookup through a reader of an index that was built whole gives a slot *)
(* of the gram; over what any builds left, cut within any record, a reader *)
(* gives a slot that was given for the gram, or the low bytes of one,      *)
(* until the next build overtakes it.  The invariant follows the build     *)
(* from bucket to bucket, in files of their own or one after another, and  *)
(* says what a reader holds of them.                                       *)
(***************************************************************************)
EXTENDS MCStoreP, SeqLemmas


\* Widths of a slot.
Widths == {s \in Nat : s >= Heads}

-----------------------------------------------------------------------------
(* Grams and slots.                                                        *)

\* The assumptions, in the sets that the proofs use.
LEMMA ConstantsAre ==
  /\ Heads \in Nat \ {0} /\ ChunkGrams \in Nat \ {0} /\ Slots \subseteq Widths
  /\ Heads \in Widths
  /\ \A l \in Lists : l \in Seq(Int)
  /\ \A b \in Batches : b \in Seq(Seq(Int))
<1>1. \A l \in Lists : l \in Seq(Int)
  <2> SUFFICES ASSUME NEW l \in Lists PROVE l \in Seq(Int)
    OBVIOUS
  <2>1. l \in Seq(Nat \cup {Bad}) /\ Nat \cup {Bad} \subseteq Int
    BY ViewStoreAssumption DEF Bad
  <2> QED BY <2>1
<1>2. \A b \in Batches : b \in Seq(Seq(Int))
  <2> SUFFICES ASSUME NEW b \in Batches PROVE b \in Seq(Seq(Int))
    OBVIOUS
  <2>1. Heads \in Nat
    BY ViewStoreAssumption
  <2>2. [1..Heads -> Nat] \subseteq Seq(Int)
    BY <2>1
  <2>3. b \in Seq([1..Heads -> Nat])
    BY ViewStoreAssumption
  <2> QED BY <2>2, <2>3
<1> QED BY <1>1, <1>2, ViewStoreAssumption DEF Widths

\* A list of rowids is its whole grams and a rest.
LEMMA CountIs ==
  ASSUME NEW k \in Seq(Int)
  PROVE  /\ GramCount(k) \in Nat /\ Len(k) \in Nat
         /\ Len(k) = GramCount(k) * Heads + (Len(k) % Heads) /\ GramCount(k) * Heads <= Len(k)
         /\ GramCount(k) * Heads \in Nat
<1>1. Len(k) \in Nat /\ Heads \in Nat \ {0}
  BY ConstantsAre
<1>2. Len(k) = GramCount(k) * Heads + (Len(k) % Heads) /\ Len(k) % Heads \in 0..(Heads - 1)
      /\ GramCount(k) \in Nat
  BY <1>1, DivMod DEF GramCount
<1>3. GramCount(k) * Heads \in Nat
  BY <1>1, <1>2, DivMul
<1> QED BY <1>1, <1>2, <1>3

\* A gram of a list of rowids.
LEMMA GramIs ==
  ASSUME NEW k \in Seq(Int), NEW i \in 0..(GramCount(k) - 1)
  PROVE  /\ i * Heads \in Nat /\ i * Heads + Heads <= Len(k)
         /\ GramAt(k, i) = SubSeq(k, i * Heads + 1, i * Heads + Heads)
         /\ GramAt(k, i) \in Seq(Int) /\ Len(GramAt(k, i)) = Heads
         /\ \A x \in 1..Heads : GramAt(k, i)[x] = k[i * Heads + x]
<1>1. GramCount(k) \in Nat /\ GramCount(k) * Heads <= Len(k) /\ Heads \in Nat \ {0}
      /\ Len(k) \in Nat /\ GramCount(k) * Heads \in Nat
  BY CountIs, ConstantsAre
<1>2. i \in Nat /\ i < GramCount(k)
  BY <1>1
<1>3. i * Heads + Heads <= GramCount(k) * Heads
  BY <1>1, <1>2, BlockBelow
<1>4. i * Heads \in Nat /\ (i + 1) * Heads = i * Heads + Heads
  BY <1>1, <1>2, DivMul
<1>5. PICK a : a = i * Heads
  OBVIOUS
<1>6. a \in Nat /\ a + Heads <= Len(k) /\ Heads \in Nat
  BY <1>1, <1>3, <1>4, <1>5
<1>7. GramAt(k, i) = SubSeq(k, a + 1, a + Heads)
  BY <1>4, <1>5 DEF GramAt
<1>8. /\ SubSeq(k, a + 1, a + Heads) \in Seq(Int) /\ Len(SubSeq(k, a + 1, a + Heads)) = Heads
      /\ \A x \in 1..Heads : SubSeq(k, a + 1, a + Heads)[x] = k[a + x]
  BY <1>6, SliceOf
<1>9. \A x \in 1..Heads : GramAt(k, i)[x] = k[i * Heads + x]
  BY <1>5, <1>7, <1>8, Zenon
<1> QED BY <1>4, <1>5, <1>6, <1>7, <1>8, <1>9

\* The first n records of the rowids k, in slots of width w.
IsSlots(v, k, n, w) ==
  /\ Len(v) = n * w
  /\ \A g \in 0..(n - 1), x \in 1..w :
       v[g * w + x] = IF x <= Heads THEN k[g * Heads + x] ELSE Pad

\* The slot of a gram: its rows, and padding.
LEMMA SlotIs ==
  ASSUME NEW gram \in Seq(Int), Len(gram) = Heads, NEW w \in Widths
  PROVE  /\ SlotRows(gram, w) \in Seq(Int) /\ Len(SlotRows(gram, w)) = w
         /\ \A x \in 1..w : SlotRows(gram, w)[x] = IF x <= Heads THEN gram[x] ELSE Pad
<1>1. w \in Nat /\ w >= Heads /\ Heads \in Nat /\ w - Heads \in Nat
  BY ConstantsAre DEF Widths
<1>2. PICK p : p = [x \in 1..(w - Heads) |-> Pad]
  OBVIOUS
<1>3. p \in [1..(w - Heads) -> Int]
  BY <1>2 DEF Pad
<1>4. p \in Seq(Int) /\ Len(p) = w - Heads
  BY <1>1, <1>3, FunIsSeq
<1>5. SlotRows(gram, w) = gram \o p
  BY <1>2 DEF SlotRows
<1>6. /\ gram \o p \in Seq(Int) /\ Len(gram \o p) = Len(gram) + Len(p)
      /\ \A i \in 1..(Len(gram) + Len(p)) :
           (gram \o p)[i] = IF i <= Len(gram) THEN gram[i] ELSE p[i - Len(gram)]
  BY <1>4, ConcatProperties
<1>7. Len(gram) + Len(p) = w
  BY <1>1, <1>4
<1>8. ASSUME NEW x \in 1..w PROVE SlotRows(gram, w)[x] = IF x <= Heads THEN gram[x] ELSE Pad
  <2>1. x <= Heads \/ x - Heads \in 1..(w - Heads)
    BY <1>1
  <2>2. SlotRows(gram, w)[x] = IF x <= Heads THEN gram[x] ELSE p[x - Heads]
    BY <1>5, <1>6, <1>7
  <2> QED BY <1>2, <2>1, <2>2
<1> QED BY <1>5, <1>6, <1>7, <1>8

\* The slots of a list, one after the other.
LEMMA SlotsOfIs ==
  ASSUME NEW k \in Seq(Int), NEW w \in Widths
  PROVE  SlotsOf(k, w) \in Seq(Int) /\ IsSlots(SlotsOf(k, w), k, GramCount(k), w)
<1>1. GramCount(k) \in Nat /\ w \in Nat \ {0} /\ Heads \in Nat /\ w >= Heads
  BY CountIs, ConstantsAre DEF Widths
<1>2. PICK s : s = [i \in 1..GramCount(k) |-> SlotRows(GramAt(k, i - 1), w)]
  OBVIOUS
<1>3. ASSUME NEW i \in 1..GramCount(k)
      PROVE  /\ s[i] = SlotRows(GramAt(k, i - 1), w) /\ s[i] \in Seq(Int) /\ Len(s[i]) = w
             /\ \A x \in 1..w : s[i][x] = IF x <= Heads THEN k[(i - 1) * Heads + x] ELSE Pad
  <2>1. i - 1 \in 0..(GramCount(k) - 1)
    BY <1>1
  <2>2. PICK j : j = i - 1
    OBVIOUS
  <2>3. GramAt(k, j) \in Seq(Int) /\ Len(GramAt(k, j)) = Heads
        /\ \A x \in 1..Heads : GramAt(k, j)[x] = k[j * Heads + x]
    BY <2>1, <2>2, GramIs
  <2>4. /\ SlotRows(GramAt(k, j), w) \in Seq(Int) /\ Len(SlotRows(GramAt(k, j), w)) = w
        /\ \A x \in 1..w :
             SlotRows(GramAt(k, j), w)[x] = IF x <= Heads THEN GramAt(k, j)[x] ELSE Pad
    BY <2>3, SlotIs
  <2>5. s[i] = SlotRows(GramAt(k, j), w)
    BY <1>2, <2>2
  <2>6. \A x \in 1..w : s[i][x] = IF x <= Heads THEN k[j * Heads + x] ELSE Pad
    <3> SUFFICES ASSUME NEW x \in 1..w PROVE s[i][x] = IF x <= Heads THEN k[j * Heads + x] ELSE Pad
      OBVIOUS
    <3>1. x <= Heads => x \in 1..Heads
      BY <1>1
    <3>2. SlotRows(GramAt(k, j), w)[x] = IF x <= Heads THEN GramAt(k, j)[x] ELSE Pad
      BY <2>4
    <3> QED BY <2>3, <2>5, <3>1, <3>2, Zenon
  <2> QED BY <2>2, <2>4, <2>5, <2>6
<1>4. s \in [1..GramCount(k) -> Seq(Int)]
  BY <1>2, <1>3
<1>5. s \in Seq(Seq(Int)) /\ Len(s) = GramCount(k)
  BY <1>1, <1>4, FunIsSeq
<1>6. FlattenSeq(s) \in Seq(Int) /\ BlocksAre(FlattenSeq(s), Len(s), w, s)
  <2>1. \A i \in 1..Len(s) : Len(s[i]) = w
    BY <1>3, <1>5
  <2> QED BY <1>1, <1>5, <2>1, FlattenBlocks
<1>7. SlotsOf(k, w) = FlattenSeq(s)
  BY <1>2 DEF SlotsOf
<1>8. PICK v, n : v = FlattenSeq(s) /\ n = GramCount(k)
  OBVIOUS
<1>9. Len(v) = n * w /\ \A g \in 0..(n - 1), x \in 1..w : v[g * w + x] = s[g + 1][x]
  BY <1>5, <1>6, <1>8 DEF BlocksAre
<1>10. ASSUME NEW g \in 0..(n - 1), NEW x \in 1..w
       PROVE  v[g * w + x] = IF x <= Heads THEN k[g * Heads + x] ELSE Pad
  <2>1. g + 1 \in 1..GramCount(k) /\ (g + 1) - 1 = g
    BY <1>1, <1>8
  <2>2. s[g + 1][x] = IF x <= Heads THEN k[((g + 1) - 1) * Heads + x] ELSE Pad
    BY <1>3, <2>1
  <2>3. s[g + 1][x] = IF x <= Heads THEN k[g * Heads + x] ELSE Pad
    BY <2>1, <2>2
  <2>4. v[g * w + x] = s[g + 1][x]
    BY <1>9, Zenon
  <2> QED BY <2>3, <2>4, Zenon
<1> QED BY <1>6, <1>7, <1>8, <1>9, <1>10 DEF IsSlots

\* Slots are determined by their rowids.
LEMMA SlotsUnique ==
  ASSUME NEW v \in Seq(Int), NEW u \in Seq(Int), NEW k, NEW n \in Nat, NEW w \in Widths,
         IsSlots(v, k, n, w), IsSlots(u, k, n, w)
  PROVE  v = u
<1>1. w \in Nat \ {0}
  BY ConstantsAre DEF Widths
<1>2. Len(v) = n * w /\ Len(u) = n * w
  BY DEF IsSlots
<1>3. ASSUME NEW p \in 1..Len(v) PROVE v[p] = u[p]
  <2>1. PICK g \in 0..(n - 1), x \in 1..w : p = g * w + x
    <3>1. p \in 1..(n * w)
      BY <1>2
    <3> QED BY <1>1, <3>1, BlockPlace
  <2>2. v[g * w + x] = IF x <= Heads THEN k[g * Heads + x] ELSE Pad
    BY DEF IsSlots
  <2>3. u[g * w + x] = IF x <= Heads THEN k[g * Heads + x] ELSE Pad
    BY DEF IsSlots
  <2> QED BY <2>1, <2>2, <2>3, Zenon
<1> QED BY <1>2, <1>3, SeqEqual

\* SliceOf for rowids, where the sum is an index.
LEMMA SliceInt ==
  \A k \in Seq(Int), a \in Nat, n \in Nat : a + n <= Len(k) =>
    /\ SubSeq(k, a + 1, a + n) \in Seq(Int) /\ Len(SubSeq(k, a + 1, a + n)) = n
    /\ \A i \in 1..n : SubSeq(k, a + 1, a + n)[i] = k[a + i]
BY SliceOf

\* One slot of a file of slots.
LEMMA SlotAt ==
  ASSUME NEW v \in Seq(Int), NEW k \in Seq(Int), NEW n \in Nat, NEW w \in Widths,
         IsSlots(v, k, n, w), n <= GramCount(k), NEW g \in 0..(n - 1)
  PROVE  SubSeq(v, g * w + 1, g * w + Heads) = GramAt(k, g)
<1>1. w \in Nat \ {0} /\ Heads \in Nat \ {0} /\ Heads <= w /\ GramCount(k) \in Nat
  BY ConstantsAre, CountIs DEF Widths
<1>2. g \in 0..(GramCount(k) - 1) /\ g \in Nat /\ g < n
  BY <1>1
<1>3. /\ GramAt(k, g) \in Seq(Int) /\ Len(GramAt(k, g)) = Heads
      /\ \A x \in 1..Heads : GramAt(k, g)[x] = k[g * Heads + x]
  BY <1>2, GramIs
<1>4. g * w + w <= n * w /\ g * w \in Nat /\ n * w \in Nat
  BY <1>1, <1>2, BlockBelow, DivMul
<1>5. PICK a : a = g * w
  OBVIOUS
<1>6. a \in Nat /\ a + Heads <= Len(v)
  <2>1. Len(v) = n * w
    BY DEF IsSlots
  <2>2. PICK z \in Nat : z = n * w
    BY <1>4
  <2>3. a + w <= z /\ a \in Nat
    BY <1>4, <1>5, <2>2
  <2> QED BY <1>1, <2>1, <2>2, <2>3
<1>7. /\ SubSeq(v, a + 1, a + Heads) \in Seq(Int) /\ Len(SubSeq(v, a + 1, a + Heads)) = Heads
      /\ \A i \in 1..Heads : SubSeq(v, a + 1, a + Heads)[i] = v[a + i]
  BY <1>1, <1>6, SliceInt
<1>8. ASSUME NEW x \in 1..Heads PROVE SubSeq(v, a + 1, a + Heads)[x] = GramAt(k, g)[x]
  <2>1. x \in 1..w /\ x <= Heads
    BY <1>1
  <2>2. v[g * w + x] = k[g * Heads + x]
    BY <2>1 DEF IsSlots
  <2> QED BY <1>3, <1>5, <1>7, <2>2, Zenon
<1>9. SubSeq(v, a + 1, a + Heads) = GramAt(k, g)
  BY <1>3, <1>7, <1>8, SeqEqual
<1> QED BY <1>5, <1>9

\* A record that is read from the view.
LEMMA RecordOf ==
  ASSUME NEW k \in Seq(Int), NEW w \in Widths, view = SlotsOf(k, w),
         NEW g \in 0..(GramCount(k) - 1)
  PROVE  RecordAt(w, g) = GramAt(k, g)
<1>1. PICK v \in Seq(Int) : v = view /\ IsSlots(v, k, GramCount(k), w)
  BY SlotsOfIs
<1>2. GramCount(k) \in Nat
  BY CountIs
<1>3. SubSeq(v, g * w + 1, g * w + Heads) = GramAt(k, g)
  <2>1. PICK n \in Nat : n = GramCount(k)
    BY <1>2
  <2>2. IsSlots(v, k, n, w) /\ n <= GramCount(k) /\ g \in 0..(n - 1)
    BY <1>1, <2>1
  <2> QED BY <2>2, SlotAt
<1> QED BY <1>1, <1>3 DEF RecordAt

\* Slots written after slots.
LEMMA SlotsConcat ==
  ASSUME NEW v \in Seq(Int), NEW u \in Seq(Int), NEW k, NEW c, NEW n \in Nat, NEW m \in Nat,
         NEW w \in Widths, IsSlots(v, k, n, w), IsSlots(u, c, m, w),
         \A p \in 1..(m * Heads) : c[p] = k[n * Heads + p]
  PROVE  IsSlots(v \o u, k, n + m, w)
<1>1. w \in Nat \ {0} /\ Heads \in Nat \ {0} /\ Heads <= w
  BY ConstantsAre DEF Widths
<1>2. n * w \in Nat /\ m * w \in Nat /\ (n + m) * w = n * w + m * w
  BY <1>1
<1>3. Len(v) = n * w /\ Len(u) = m * w
  BY DEF IsSlots
<1>4. PICK a \in Nat, b \in Nat : a = n * w /\ b = m * w
  BY <1>2
<1>5. /\ v \o u \in Seq(Int) /\ Len(v \o u) = a + b
      /\ \A i \in 1..(a + b) : (v \o u)[i] = IF i <= a THEN v[i] ELSE u[i - a]
  <2>1. /\ v \o u \in Seq(Int) /\ Len(v \o u) = Len(v) + Len(u)
        /\ \A i \in 1..(Len(v) + Len(u)) : (v \o u)[i] = IF i <= Len(v) THEN v[i] ELSE u[i - Len(v)]
    BY ConcatProperties
  <2>2. Len(v) = a /\ Len(u) = b
    BY <1>3, <1>4
  <2> QED BY <2>1, <2>2
<1>6. ASSUME NEW g \in 0..(n + m - 1), NEW x \in 1..w
      PROVE  (v \o u)[g * w + x] = IF x <= Heads THEN k[g * Heads + x] ELSE Pad
  <2>1. CASE g < n
    <3>1. g \in 0..(n - 1)
      BY <2>1
    <3>2. g * w + x \in 1..(n * w)
      BY <1>1, <3>1, BlockRange
    <3>3. PICK p : p = g * w + x
      OBVIOUS
    <3>4. p \in 1..a
      BY <1>4, <3>2, <3>3
    <3>5. (v \o u)[p] = v[p]
      BY <1>5, <3>4
    <3>6. v[g * w + x] = IF x <= Heads THEN k[g * Heads + x] ELSE Pad
      BY <3>1 DEF IsSlots
    <3> QED BY <3>3, <3>5, <3>6, Zenon
  <2>2. CASE ~ (g < n)
    <3>1. PICK h \in 0..(m - 1) : h = g - n
      BY <2>2
    <3>2. g = n + h /\ h \in Nat
      BY <3>1
    <3>3. h * w + x \in 1..(m * w) /\ h * w \in Nat
      BY <1>1, <3>1, BlockRange
    <3>4. g * w = n * w + h * w
      BY <1>1, <3>2
    <3>5. PICK p : p = h * w + x
      OBVIOUS
    <3>6. p \in 1..b /\ g * w + x = a + p
      BY <1>4, <3>3, <3>4, <3>5, SMTT(30)
    <3>7. (v \o u)[a + p] = u[p]
      <4>1. a + p \in 1..(a + b) /\ ~ (a + p <= a) /\ (a + p) - a = p
        BY <1>4, <3>6
      <4> QED BY <1>5, <4>1
    <3>8. u[h * w + x] = IF x <= Heads THEN c[h * Heads + x] ELSE Pad
      BY <3>1 DEF IsSlots
    <3>9. (v \o u)[g * w + x] = IF x <= Heads THEN c[h * Heads + x] ELSE Pad
      BY <3>5, <3>6, <3>7, <3>8, Zenon
    <3>10. ASSUME x <= Heads PROVE c[h * Heads + x] = k[g * Heads + x]
      <4>1. x \in 1..Heads
        BY <3>10
      <4>2. h * Heads + x \in 1..(m * Heads) /\ h * Heads \in Nat
        BY <1>1, <3>1, <4>1, BlockRange
      <4>3. g * Heads = n * Heads + h * Heads
        BY <1>1, <3>2
      <4>4. PICK q : q = h * Heads + x
        OBVIOUS
      <4>5. n * Heads + q = g * Heads + x
        <5>1. n * Heads \in Nat
          BY <1>1
        <5> QED BY <4>2, <4>3, <4>4, <5>1
      <4>6. c[q] = k[n * Heads + q]
        BY <4>2, <4>4
      <4> QED BY <4>4, <4>5, <4>6
    <3> QED BY <3>9, <3>10, Zenon
  <2> QED BY <2>1, <2>2
<1>7. Len(v \o u) = (n + m) * w
  BY <1>2, <1>4, <1>5
<1>8. PICK t : t = n + m
  OBVIOUS
<1>9. ASSUME NEW g \in 0..(t - 1), NEW x \in 1..w
      PROVE  (v \o u)[g * w + x] = IF x <= Heads THEN k[g * Heads + x] ELSE Pad
  <2>1. g \in 0..(n + m - 1)
    BY <1>8
  <2> QED BY <1>6, <2>1, Zenon
<1>10. Len(v \o u) = t * w
  BY <1>7, <1>8
<1>11. IsSlots(v \o u, k, t, w)
  BY <1>9, <1>10 DEF IsSlots
<1> QED BY <1>8, <1>11

\* The part of its list that the builder gathers next.
LEMMA ChunkIs ==
  ASSUME NEW k \in Seq(Int), k = cmd.keys, NEW at \in 0..Len(k), at = cmd.at
  PROVE  /\ Chunk \in Seq(Int)
         /\ at + Len(Chunk) <= Len(k) /\ Chunk = SubSeq(k, at + 1, at + Len(Chunk))
         /\ \A p \in 1..Len(Chunk) : Chunk[p] = k[at + p]
         /\ Chunk = <<>> <=> at = Len(k)
<1>1. PICK n \in Nat, c \in Nat \ {0} : n = Len(k) /\ c = ChunkGrams * Heads
  <2>1. ChunkGrams * Heads \in Nat \ {0}
    BY ConstantsAre
  <2> QED BY <2>1
<1>2. PICK d \in Nat : at \in Nat /\ d = n - at /\ at + d = n
  BY <1>1
<1>3. PICK r \in Seq(Int) : /\ r = Rest /\ Len(r) = d
                           /\ \A i \in 1..d : r[i] = k[at + i]
  <2>1. Rest = SubSeq(k, at + 1, at + d)
    BY <1>1, <1>2 DEF Rest
  <2>2. at + d <= Len(k) /\ at \in Nat
    BY <1>1, <1>2
  <2>3. /\ SubSeq(k, at + 1, at + d) \in Seq(Int)
        /\ Len(SubSeq(k, at + 1, at + d)) = d
        /\ \A i \in 1..d : SubSeq(k, at + 1, at + d)[i] = k[at + i]
    BY <2>2, SliceInt, ZenonT(30)
  <2> QED BY <2>1, <2>3
<1>4. PICK l \in Nat : /\ l = ChunkLen /\ l <= d /\ (l = 0 <=> n = at)
  <2>1. ChunkLen = IF d < c THEN d ELSE c
    BY <1>1, <1>3 DEF ChunkLen
  <2> QED BY <1>1, <1>2, <2>1
<1>5. Chunk = SubSeq(r, 0 + 1, 0 + l)
  BY <1>3, <1>4 DEF Chunk
<1>6. /\ Chunk \in Seq(Int) /\ Len(Chunk) = l
      /\ \A i \in 1..l : 0 + i \in 1..Len(r) /\ Chunk[i] = r[0 + i]
  <2>1. 0 + l <= Len(r)
    BY <1>3, <1>4
  <2> QED BY <1>5, <2>1, SliceOf
<1>7. ASSUME NEW p \in 1..l PROVE Chunk[p] = k[at + p]
  <2>1. p \in 1..d /\ 0 + p = p
    BY <1>2, <1>4
  <2> QED BY <1>3, <1>6, <2>1
<1>8. at + l <= Len(k)
  BY <1>1, <1>2, <1>4
<1>9. Chunk = SubSeq(k, at + 1, at + l)
  <2>1. /\ SubSeq(k, at + 1, at + l) \in Seq(Int) /\ Len(SubSeq(k, at + 1, at + l)) = l
        /\ \A i \in 1..l : SubSeq(k, at + 1, at + l)[i] = k[at + i]
    <3>1. at \in Nat /\ l \in Nat
      BY <1>2
    <3> QED BY <1>8, <3>1, SliceInt
  <2>2. \A p \in 1..Len(Chunk) : Chunk[p] = SubSeq(k, at + 1, at + l)[p]
    BY <1>6, <1>7, <2>1
  <2>3. Chunk \in Seq(Int) /\ Len(Chunk) = Len(SubSeq(k, at + 1, at + l))
    BY <1>6, <2>1
  <2> QED BY <2>1, <2>2, <2>3, SeqEqual
<1>10. Chunk = <<>> <=> at = Len(k)
  BY <1>1, <1>2, <1>4, <1>6, EmptySeq
<1> QED BY <1>6, <1>7, <1>8, <1>9, <1>10

-----------------------------------------------------------------------------
(* Steps.                                                                  *)

\* The steps of a build command, after it has begun.
Write ==
  \/ TruncateView \/ TruncateKeys \/ WriteChunk \/ SpillView \/ SpillKeys
  \/ EndOfKeys \/ FlushView \/ CreateManifest \/ WriteManifest
  \/ \E withIndex \in BOOLEAN : CloseKeys(withIndex)
  \/ (\E g \in cmd.todo : IndexGram(g)) \/ FinishIndex
  \/ \E check \in BOOLEAN : EndBuild(check)
  \/ RejectStream \/ \E flushed \in BOOLEAN : Stop(flushed)

\* The steps of a reader.
Read ==
  \/ LoadIndex
  \/ (\E by \in {"disk", "memory"} : OpenManifest(by, 0))
  \/ (\E start \in 0..1 : OpenManifest("order", start))
  \/ OpenView \/ (\E rows \in Batches : Ask(rows))
  \/ (\E j \in DOMAIN fetch.got : ReadRecord(j)) \/ Answered \/ Close

\* What is on the disk.
Files == <<view, keysFile, manifest, index, indexCount>>

\* A step is the beginning of a command, a step of one, a step of the reader, or
\* view verify.
LEMMA StepKinds ==
  ASSUME Next
  PROVE  \/ \E mode \in {"random", "keys", "stream"}, list \in Lists, n \in 0..MaxGrams,
              slot \in Slots : Begin(mode, list, n, slot)
         \/ Write \/ Read
         \/ \E withIndex \in BOOLEAN : Verify(withIndex)
BY Zenon DEF Next, Write, Read

\* A build command leaves the reader alone, and a reader the files.
LEMMA WriteLeaves ==
  ASSUME Write
  PROVE  UNCHANGED <<reader, fetch, verdict, widths, written, commands>>
BY DEF Write, TruncateView, TruncateKeys, WriteChunk, SpillView, SpillKeys, EndOfKeys, FlushView,
       CreateManifest, WriteManifest, CloseKeys, IndexGram, FinishIndex, EndBuild, RejectStream,
       Stop, Abort, Quiet

LEMMA ReadLeaves ==
  ASSUME Read
  PROVE  UNCHANGED <<Files, cmd, verdict, widths, written, commands>>
BY DEF Read, LoadIndex, OpenManifest, OpenView, Ask, ReadRecord, Answered, Close, Files

-----------------------------------------------------------------------------
(* Types.                                                                  *)

\* Entries of an index, and the states of a build command.
Entries == Seq(Int) \X Nat

Command ==
  [pc : {"idle", "keys1", "view2", "view1", "keys2", "chunk", "flush", "manifest1", "manifest2",
         "close", "index", "update1", "update2", "verify"},
   mode : {"random", "keys", "stream"}, keys : Seq(Int), slot : Widths, at : Nat,
   rows : Seq(Int), lines : Seq(Int), todo : SUBSET Seq(Int), withIndex : BOOLEAN,
   complete : BOOLEAN]

\* What the files and the build command hold; TypeOK bounds them.
BuildTypes ==
  /\ view \in Seq(Int) /\ keysFile \in Seq(Int)
  /\ manifest.state = "ok" => manifest.slot \in Widths /\ manifest.grans \in Nat
  /\ index \subseteq Entries
  /\ cmd \in Command
  /\ widths \subseteq Widths

\* The index of a list has such entries.
LEMMA EntriesOf ==
  ASSUME NEW k \in Seq(Int)
  PROVE  IndexOf(k) \subseteq Entries /\ GramsOf(k) \subseteq Seq(Int)
<1>1. ASSUME NEW i \in 0..(GramCount(k) - 1) PROVE GramAt(k, i) \in Seq(Int) /\ i \in Nat
  <2>1. GramCount(k) \in Nat
    BY CountIs
  <2> QED BY <2>1, GramIs
<1> QED BY <1>1 DEF IndexOf, GramsOf, Entries

\* A command works on grams of the list that it is given.
LEMMA TakenIs ==
  ASSUME NEW list \in Lists, NEW n \in 0..MaxGrams, NEW mode, ~ Refused(mode, list, n),
         mode \in {"random", "keys", "stream"}
  PROVE  /\ Taken(mode, list, n) \in Seq(Int) /\ list \in Seq(Int)
         /\ GramsOf(Taken(mode, list, n)) \subseteq GramsOf(list)
<1>1. list \in Seq(Int) /\ n \in Nat /\ Heads \in Nat \ {0}
  BY ConstantsAre DEF MaxGrams
<1>2. CASE mode = "stream"
  BY <1>1, <1>2 DEF Taken
<1>3. CASE mode # "stream"
  <2>1. PICK m \in Nat : m = n * Heads
    BY <1>1
  <2>2. m <= Len(list) /\ Len(list) \in Nat
    BY <1>1, <1>3, <2>1 DEF Refused
  <2>3. PICK t : t = SubSeq(list, 0 + 1, 0 + m)
    OBVIOUS
  <2>4. t = Taken(mode, list, n)
    BY <1>3, <2>1, <2>3 DEF Taken
  <2>5. t \in Seq(Int) /\ Len(t) = m /\ \A i \in 1..m : t[i] = list[i]
    <3>1. 0 \in Nat /\ 0 + m <= Len(list)
      BY <2>2
    <3>2. /\ t \in Seq(Int) /\ Len(t) = m /\ \A i \in 1..m : t[i] = list[0 + i]
      BY <1>1, <2>3, <3>1, SliceInt
    <3> QED BY <3>2
  <2>6. GramCount(t) = n
    BY <1>1, <2>1, <2>5, DivMul DEF GramCount
  <2>7. n <= GramCount(list) /\ GramCount(list) \in Nat
    <3>1. PICK q \in Nat, r \in 0..(Heads - 1) :
            Len(list) = q * Heads + r /\ q = GramCount(list)
      BY <1>1, <2>2, DivMod DEF GramCount
    <3>2. (q + 1) * Heads = q * Heads + Heads
      BY <1>1
    <3>3. n * Heads < (q + 1) * Heads
      <4>1. q * Heads \in Nat
        BY <1>1
      <4> QED BY <1>1, <2>1, <2>2, <3>1, <3>2, <4>1, SMTT(30)
    <3>4. n < q + 1
      BY <1>1, <3>3, BlockBelow
    <3> QED BY <1>1, <3>1, <3>4
  <2>8. ASSUME NEW i \in 0..(GramCount(t) - 1) PROVE GramAt(t, i) \in GramsOf(list)
    <3>1. i \in 0..(GramCount(list) - 1) /\ i \in Nat
      BY <1>1, <2>6, <2>7
    <3>2. /\ GramAt(t, i) \in Seq(Int) /\ Len(GramAt(t, i)) = Heads
          /\ \A x \in 1..Heads : GramAt(t, i)[x] = t[i * Heads + x]
      BY <2>5, GramIs
    <3>3. /\ GramAt(list, i) \in Seq(Int) /\ Len(GramAt(list, i)) = Heads
          /\ \A x \in 1..Heads : GramAt(list, i)[x] = list[i * Heads + x]
      BY <1>1, <3>1, GramIs
    <3>4. ASSUME NEW x \in 1..Heads PROVE GramAt(t, i)[x] = GramAt(list, i)[x]
      <4>1. i * Heads + x \in 1..(n * Heads)
        BY <1>1, <2>6, BlockRange
      <4>2. PICK p : p = i * Heads + x
        OBVIOUS
      <4>3. t[p] = list[p]
        BY <2>1, <2>5, <4>1, <4>2
      <4> QED BY <3>2, <3>3, <4>2, <4>3, Zenon
    <3>5. GramAt(t, i) = GramAt(list, i)
      BY <3>2, <3>3, <3>4, SeqEqual
    <3> QED BY <3>1, <3>5 DEF GramsOf
  <2>9. GramsOf(t) \subseteq GramsOf(list)
    BY <2>8 DEF GramsOf
  <2> QED BY <1>1, <2>4, <2>5, <2>9
<1> QED BY <1>2, <1>3

LEMMA BuildTypesInit == ASSUME Init PROVE BuildTypes
<1>1. <<>> \in Seq(Int) /\ {} \subseteq Seq(Int)
  OBVIOUS
<1>2. NoCommand \in Command
  BY <1>1, ConstantsAre DEF NoCommand, Command
<1> QED BY <1>1, <1>2 DEF Init, BuildTypes

LEMMA BuildTypesBegin ==
  ASSUME BuildTypes, NEW mode \in {"random", "keys", "stream"}, NEW list \in Lists,
         NEW n \in 0..MaxGrams, NEW slot \in Slots, Begin(mode, list, n, slot)
  PROVE  BuildTypes'
<1>1. UNCHANGED Files
  BY DEF Begin, Files
<1>2. CASE Refused(mode, list, n)
  BY <1>1, <1>2 DEF Begin, BuildTypes, Files
<1>3. CASE ~ Refused(mode, list, n)
  <2>1. PICK k \in Seq(Int) : k = Taken(mode, list, n)
    BY <1>3, TakenIs
  <2>2. NoCommand \in Command /\ slot \in Widths
    <3>1. <<>> \in Seq(Int) /\ {} \subseteq Seq(Int)
      OBVIOUS
    <3> QED BY <3>1, ConstantsAre DEF NoCommand, Command
  <2>3. PICK pc \in {"keys1", "view1"} : pc = IF mode = "random" THEN "keys1" ELSE "view1"
    OBVIOUS
  <2>4. cmd' = [NoCommand EXCEPT !.pc = pc, !.mode = mode, !.slot = slot, !.keys = k]
    BY <1>3, <2>1, <2>3 DEF Begin
  <2>5. cmd' \in Command
    BY <2>2, <2>4 DEF Command
  <2>6. widths' \subseteq Widths
    BY <1>3, <2>2 DEF Begin, BuildTypes
  <2> QED BY <1>1, <2>5, <2>6 DEF BuildTypes, Files
<1> QED BY <1>2, <1>3

\* A command that goes on is a command.
LEMMA CommandGoto ==
  ASSUME cmd \in Command,
         NEW pc \in {"idle", "keys1", "view2", "view1", "keys2", "chunk", "flush", "manifest1",
                     "manifest2", "close", "index", "update1", "update2", "verify"}
  PROVE  [cmd EXCEPT !.pc = pc] \in Command
BY DEF Command

\* What a manifest gives, whatever it holds.
LEMMA SlotOfIs ==
  ASSUME BuildTypes
  PROVE  SlotOf \in Widths /\ GransOf \in Nat
BY ConstantsAre DEF BuildTypes, SlotOf, GransOf

LEMMA BuildTypesWrite == ASSUME BuildTypes, Write PROVE BuildTypes'
<1>1. /\ view \in Seq(Int) /\ keysFile \in Seq(Int) /\ index \subseteq Entries /\ cmd \in Command
      /\ manifest.state = "ok" => manifest.slot \in Widths /\ manifest.grans \in Nat
      /\ widths \subseteq Widths /\ widths' = widths
  BY WriteLeaves DEF BuildTypes
<1>2. /\ cmd.keys \in Seq(Int) /\ cmd.rows \in Seq(Int) /\ cmd.lines \in Seq(Int)
      /\ cmd.slot \in Widths /\ cmd.at \in Nat /\ cmd.todo \subseteq Seq(Int)
      /\ cmd.withIndex \in BOOLEAN
  BY <1>1 DEF Command
<1>3. CASE TruncateView
  <2>1. <<>> \in Seq(Int)
    OBVIOUS
  <2>2. cmd' = [cmd EXCEPT !.pc = "keys2"] \/ cmd' = [cmd EXCEPT !.pc = "chunk"]
    BY <1>3 DEF TruncateView, Goto
  <2>3. cmd' \in Command
    BY <1>1, <2>2, CommandGoto
  <2> QED BY <1>1, <1>3, <2>1, <2>3 DEF BuildTypes, TruncateView
<1>4. CASE TruncateKeys
  <2>1. <<>> \in Seq(Int)
    OBVIOUS
  <2>2. cmd' = [cmd EXCEPT !.pc = "view2"] \/ cmd' = [cmd EXCEPT !.pc = "chunk"]
    BY <1>4 DEF TruncateKeys, Goto
  <2>3. cmd' \in Command
    BY <1>1, <2>2, CommandGoto
  <2> QED BY <1>1, <1>4, <2>1, <2>3 DEF BuildTypes, TruncateKeys
<1>5. CASE WriteChunk
  <2>1. Chunk # <<>> /\ cmd' = [cmd EXCEPT !.at = @ + Len(Chunk), !.lines = @ \o Chunk,
                                !.rows = @ \o SlotsOf(Chunk, cmd.slot)]
    BY <1>5 DEF WriteChunk
  <2>2. Chunk \in Seq(Int)
    <3>1. Rest \in Seq(Int)
      BY <1>2 DEF Rest
    <3>2. ChunkGrams * Heads \in Int
      BY ConstantsAre
    <3>3. PICK r \in Seq(Int), l \in Int : r = Rest /\ l = ChunkLen /\ l <= Len(r)
      BY <3>1, <3>2 DEF ChunkLen
    <3>4. SubSeq(r, 1, l) \in Seq(Int)
      <4>1. \A i \in 1..l : r[i] \in Int
        BY <3>3
      <4> QED BY <4>1, SubSeqProperties
    <3> QED BY <3>3, <3>4 DEF Chunk
  <2>3. PICK c \in Seq(Int) : c = Chunk
    BY <2>2
  <2>4. SlotsOf(c, cmd.slot) \in Seq(Int)
    BY <1>2, SlotsOfIs
  <2>5. PICK l, r, a : /\ l = cmd.lines \o c /\ r = cmd.rows \o SlotsOf(c, cmd.slot)
                       /\ a = cmd.at + Len(c)
    OBVIOUS
  <2>6. l \in Seq(Int) /\ r \in Seq(Int) /\ a \in Nat
    BY <1>2, <2>4, <2>5
  <2>7. cmd' = [cmd EXCEPT !.at = a, !.lines = l, !.rows = r]
    BY <2>1, <2>3, <2>5
  <2>8. cmd' \in Command
    BY <1>1, <2>6, <2>7 DEF Command
  <2> QED BY <1>1, <1>5, <2>8 DEF BuildTypes, WriteChunk
<1>6. CASE SpillView
  <2>1. view' = view \o cmd.rows /\ cmd' = [cmd EXCEPT !.rows = <<>>]
    BY <1>6 DEF SpillView
  <2>2. view' \in Seq(Int) /\ <<>> \in Seq(Int)
    BY <1>1, <1>2, <2>1
  <2>3. cmd' \in Command
    BY <1>1, <2>1, <2>2 DEF Command
  <2> QED BY <1>1, <1>6, <2>2, <2>3 DEF BuildTypes, SpillView
<1>7. CASE SpillKeys
  <2>1. keysFile' = keysFile \o cmd.lines /\ cmd' = [cmd EXCEPT !.lines = <<>>]
    BY <1>7 DEF SpillKeys
  <2>2. keysFile' \in Seq(Int) /\ <<>> \in Seq(Int)
    BY <1>1, <1>2, <2>1
  <2>3. cmd' \in Command
    BY <1>1, <2>1, <2>2 DEF Command
  <2> QED BY <1>1, <1>7, <2>2, <2>3 DEF BuildTypes, SpillKeys
<1>8. CASE EndOfKeys \/ FlushView
  <2>1. cmd' = [cmd EXCEPT !.pc = "flush"] \/ cmd' = [cmd EXCEPT !.pc = "manifest1"]
    BY <1>8 DEF EndOfKeys, FlushView, Goto
  <2>2. cmd' \in Command
    BY <1>1, <2>1, CommandGoto
  <2> QED BY <1>1, <1>8, <2>2 DEF BuildTypes, EndOfKeys, FlushView
<1>9. CASE CreateManifest
  <2>1. cmd' = [cmd EXCEPT !.pc = "manifest2"] \/ cmd' = [cmd EXCEPT !.pc = "update2"]
    BY <1>9 DEF CreateManifest, Goto
  <2>2. cmd' \in Command
    BY <1>1, <2>1, CommandGoto
  <2>3. manifest'.state = "torn"
    BY <1>9 DEF CreateManifest
  <2> QED BY <1>1, <1>9, <2>2, <2>3 DEF BuildTypes, CreateManifest
<1>10. CASE WriteManifest
  <2>1. cmd' = [cmd EXCEPT !.pc = "close"] \/ cmd' = [cmd EXCEPT !.pc = "verify"]
    BY <1>10 DEF WriteManifest, Goto
  <2>2. cmd' \in Command
    BY <1>1, <2>1, CommandGoto
  <2>3. manifest'.slot = cmd.slot /\ manifest'.grans = GramCount(cmd.keys)
    BY <1>10 DEF WriteManifest, Grans
  <2>4. manifest'.grans \in Nat
    BY <1>2, <2>3, CountIs
  <2> QED BY <1>1, <1>2, <1>10, <2>2, <2>3, <2>4 DEF BuildTypes, WriteManifest
<1>11. CASE \E withIndex \in BOOLEAN : CloseKeys(withIndex)
  <2>1. PICK withIndex \in BOOLEAN : CloseKeys(withIndex)
    BY <1>11
  <2>2. PICK f, pc, todo :
          /\ f = keysFile \o cmd.lines /\ keysFile' = f
          /\ pc = IF withIndex THEN "index" ELSE "verify"
          /\ todo = IF withIndex THEN GramsOf(f) ELSE {}
          /\ cmd' = [cmd EXCEPT !.lines = <<>>, !.withIndex = withIndex, !.pc = pc, !.todo = todo]
    BY <2>1, Zenon DEF CloseKeys
  <2>3. f \in Seq(Int) /\ <<>> \in Seq(Int)
    BY <1>1, <1>2, <2>2
  <2>4. todo \in SUBSET Seq(Int)
    BY <2>2, <2>3, EntriesOf
  <2>5. pc = "index" \/ pc = "verify"
    BY <2>2
  <2>6. cmd' \in Command
    BY <1>1, <2>2, <2>3, <2>4, <2>5 DEF Command
  <2> QED BY <1>1, <2>1, <2>2, <2>3, <2>6 DEF BuildTypes, CloseKeys
<1>12. CASE \E g \in cmd.todo : IndexGram(g)
  <2>1. PICK g \in cmd.todo : IndexGram(g)
    BY <1>12
  <2>2. /\ index' = {r \in index : r[1] # g} \cup {r \in IndexOf(keysFile) : r[1] = g}
        /\ cmd' = [cmd EXCEPT !.todo = @ \ {g}]
    BY <2>1 DEF IndexGram
  <2>3. index' \subseteq Entries
    BY <1>1, <2>2, EntriesOf
  <2>4. PICK t : t = cmd.todo \ {g}
    OBVIOUS
  <2>5. t \in SUBSET Seq(Int) /\ cmd' = [cmd EXCEPT !.todo = t]
    BY <1>2, <2>2, <2>4
  <2>6. cmd' \in Command
    BY <1>1, <2>5 DEF Command
  <2> QED BY <1>1, <2>1, <2>3, <2>6 DEF BuildTypes, IndexGram
<1>13. CASE FinishIndex
  <2>1. cmd' = [cmd EXCEPT !.pc = "update1"]
    BY <1>13 DEF FinishIndex, Goto
  <2>2. cmd' \in Command
    BY <1>1, <2>1, CommandGoto
  <2> QED BY <1>1, <1>13, <2>2 DEF BuildTypes, FinishIndex
<1>14. NoCommand \in Command
  <2>1. <<>> \in Seq(Int) /\ {} \subseteq Seq(Int)
    OBVIOUS
  <2> QED BY <2>1, ConstantsAre DEF NoCommand, Command
<1>15. CASE \E check \in BOOLEAN : EndBuild(check)
  <2>1. PICK check \in BOOLEAN : EndBuild(check)
    BY <1>15
  <2>2. PICK b \in BOOLEAN : b = (check => ViewMatches(keysFile))
    OBVIOUS
  <2>3. cmd' = [NoCommand EXCEPT !.complete = b, !.keys = cmd.keys, !.slot = cmd.slot,
                                 !.withIndex = cmd.withIndex]
    BY <2>1, <2>2, Zenon DEF EndBuild
  <2>4. cmd' \in Command
    BY <1>2, <1>14, <2>3 DEF Command
  <2> QED BY <1>1, <2>1, <2>4 DEF BuildTypes, EndBuild
<1>16. CASE RejectStream \/ \E flushed \in BOOLEAN : Stop(flushed)
  <2>1. PICK flushed \in BOOLEAN : Abort(flushed)
    BY <1>16 DEF RejectStream, Stop
  <2>2. view \o cmd.rows \in Seq(Int) /\ keysFile \o cmd.lines \in Seq(Int)
    BY <1>1, <1>2
  <2>3. view' \in Seq(Int) /\ keysFile' \in Seq(Int)
    BY <1>1, <2>1, <2>2 DEF Abort
  <2>4. cmd' \in Command
    BY <1>14, <2>1 DEF Abort
  <2> QED BY <1>1, <2>1, <2>3, <2>4 DEF BuildTypes, Abort
<1> QED BY <1>3, <1>4, <1>5, <1>6, <1>7, <1>8, <1>9, <1>10, <1>11, <1>12, <1>13, <1>15,
            <1>16 DEF Write

LEMMA BuildTypesRead ==
  ASSUME BuildTypes, UNCHANGED <<Files, cmd, widths>>
  PROVE  BuildTypes'
BY DEF BuildTypes, Files

-----------------------------------------------------------------------------
(* A build command.                                                        *)

\* The steps of a command before it gathers, and after it has.
Opening == {"keys1", "view2", "view1", "keys2"}
Built   == {"manifest1", "manifest2", "close", "index", "update1", "update2", "verify"}

\* Until both files are open nothing is gathered; those that are open are empty.
OpenedInv ==
  cmd.pc \in Opening =>
    /\ cmd.at = 0 /\ cmd.rows = <<>> /\ cmd.lines = <<>>
    /\ cmd.pc = "view2" => keysFile = <<>>
    /\ cmd.pc = "keys2" => view = <<>>

\* A file and its buffer hold what the command has gathered so far.
WrittenInv ==
  cmd.pc \in {"chunk", "flush"} =>
    /\ cmd.at <= Len(cmd.keys) /\ cmd.at % Heads = 0
    /\ IsSlots(view \o cmd.rows, cmd.keys, cmd.at \div Heads, cmd.slot)
    /\ keysFile \o cmd.lines = SubSeq(cmd.keys, 1, cmd.at)
    /\ cmd.pc = "flush" => cmd.at = Len(cmd.keys)

\* Once it has gathered all, the view is complete.
BuiltInv ==
  cmd.pc \in Built =>
    /\ Whole(cmd.keys) /\ cmd.rows = <<>>
    /\ view = SlotsOf(cmd.keys, cmd.slot)
    /\ keysFile \o cmd.lines = cmd.keys

\* The manifest of the command c, with the index named or not.
ManifestFor(c, named) ==
  [state |-> "ok", slot |-> c.slot, grans |-> GramCount(c.keys), named |-> named]

\* The builder writes a manifest that knows of no index; the second one names it.
ManifestInv ==
  /\ cmd.pc \in {"close", "index", "update1"} => manifest = ManifestFor(cmd, FALSE)
  /\ cmd.pc = "verify" => manifest = ManifestFor(cmd, cmd.withIndex)

\* The index has the entries of the keys k, but for the grams of todo.
Indexed(ix, k, todo) ==
  {r \in ix : r[1] \in GramsOf(k) \ todo} = {r \in IndexOf(k) : r[1] \notin todo}

\* The index replaces what an earlier command left, gram by gram.
IndexedInv ==
  /\ cmd.pc \in {"index", "update1", "update2", "verify"} => cmd.lines = <<>>
  /\ cmd.pc \in {"index", "update1", "update2"} => cmd.withIndex
  /\ cmd.pc = "index" => Indexed(index, cmd.keys, cmd.todo)
  /\ cmd.pc \in {"update1", "update2"} \/ (cmd.pc = "verify" /\ cmd.withIndex) =>
       indexCount = GramCount(cmd.keys) /\ Indexed(index, cmd.keys, {})

\* What a command that succeeds leaves.
DoneInv ==
  cmd.pc = "idle" =>
    /\ cmd.rows = <<>> /\ cmd.lines = <<>>
    /\ cmd.complete =>
         /\ Whole(cmd.keys) /\ keysFile = cmd.keys /\ view = SlotsOf(cmd.keys, cmd.slot)
         /\ manifest = ManifestFor(cmd, cmd.withIndex)
         /\ cmd.withIndex => indexCount = GramCount(cmd.keys) /\ Indexed(index, cmd.keys, {})

\* view verify is asked between commands, and accepts what one has completed.
VerdictInv ==
  /\ cmd.pc # "idle" => ~ cmd.complete /\ ~ verdict.asked
  /\ verdict.asked /\ cmd.complete /\ cmd.keys # <<>> /\ (verdict.withIndex => cmd.withIndex) =>
       verdict.ok

\* The invariant of a build command.
BuildInv ==
  /\ OpenedInv /\ WrittenInv /\ BuiltInv /\ ManifestInv /\ IndexedInv /\ DoneInv /\ VerdictInv

Pc == {"idle", "keys1", "view2", "view1", "keys2", "chunk", "flush", "manifest1", "manifest2",
       "close", "index", "update1", "update2", "verify"}

\* A step that only moves the command on.
LEMMA GotoIs ==
  ASSUME cmd \in Command, NEW pc \in Pc, cmd' = [cmd EXCEPT !.pc = pc]
  PROVE  /\ cmd'.pc = pc /\ cmd'.mode = cmd.mode /\ cmd'.keys = cmd.keys /\ cmd'.slot = cmd.slot
         /\ cmd'.at = cmd.at /\ cmd'.rows = cmd.rows /\ cmd'.lines = cmd.lines
         /\ cmd'.todo = cmd.todo /\ cmd'.withIndex = cmd.withIndex
         /\ cmd'.complete = cmd.complete
BY DEF Command

\* Two empty files hold nothing of a list.
LEMMA NothingWritten ==
  ASSUME NEW k \in Seq(Int), NEW w \in Widths
  PROVE  /\ 0 <= Len(k) /\ 0 % Heads = 0
         /\ IsSlots(<<>> \o <<>>, k, 0 \div Heads, w)
         /\ <<>> \o <<>> = SubSeq(k, 1, 0)
<1>1. Heads \in Nat \ {0} /\ w \in Nat
  BY ConstantsAre DEF Widths
<1>2. 0 \div Heads = 0 /\ 0 % Heads = 0 /\ 0 * w = 0 /\ 0..(0 - 1) = {}
  BY <1>1
<1>3. <<>> \in Seq(Int) /\ <<>> \o <<>> = <<>>
  OBVIOUS
<1>4. SubSeq(k, 1, 0) = <<>>
  BY SubSeqEmpty
<1>5. IsSlots(<<>>, k, 0, w)
  BY <1>2 DEF IsSlots
<1> QED BY <1>2, <1>3, <1>4, <1>5

\* A command that begins has gathered nothing.
LEMMA BuildBegin ==
  ASSUME BuildTypes, BuildInv, NEW mode \in {"random", "keys", "stream"}, NEW list \in Lists,
         NEW n \in 0..MaxGrams, NEW slot \in Slots, Begin(mode, list, n, slot)
  PROVE  BuildInv'
<1>1. UNCHANGED Files
  BY DEF Begin, Files
<1>2. CASE Refused(mode, list, n)
  <2>1. cmd' = cmd /\ verdict' = verdict
    BY <1>2 DEF Begin
  <2>2. /\ view' = view /\ keysFile' = keysFile /\ manifest' = manifest
        /\ index' = index /\ indexCount' = indexCount
    BY <1>1 DEF Files
  <2>3. OpenedInv' /\ WrittenInv' /\ BuiltInv'
    BY <2>1, <2>2 DEF BuildInv, OpenedInv, WrittenInv, BuiltInv
  <2>4. ManifestInv' /\ IndexedInv'
    BY <2>1, <2>2 DEF BuildInv, ManifestInv, IndexedInv, Indexed, ManifestFor
  <2>5. DoneInv' /\ VerdictInv'
    BY <2>1, <2>2 DEF BuildInv, DoneInv, VerdictInv, Indexed, ManifestFor
  <2> QED BY <2>3, <2>4, <2>5 DEF BuildInv
<1>3. CASE ~ Refused(mode, list, n)
  <2>1. /\ cmd'.pc \in {"keys1", "view1"} /\ cmd'.at = 0 /\ cmd'.rows = <<>> /\ cmd'.lines = <<>>
        /\ cmd'.complete = FALSE /\ verdict'.asked = FALSE
    <3>1. PICK k \in Seq(Int), pc \in {"keys1", "view1"} :
            cmd' = [NoCommand EXCEPT !.pc = pc, !.mode = mode, !.slot = slot, !.keys = k]
      BY <1>3, TakenIs DEF Begin
    <3>2. verdict' = NotVerified
      BY <1>3 DEF Begin
    <3> QED BY <3>1, <3>2 DEF NoCommand, NotVerified
  <2> QED BY <1>1, <2>1 DEF BuildInv, OpenedInv, WrittenInv, BuiltInv, ManifestInv, IndexedInv,
                            DoneInv, VerdictInv, Opening, Built
<1> QED BY <1>2, <1>3

\* The files are opened one after the other, each empty.
LEMMA BuildTruncate ==
  ASSUME BuildTypes, BuildInv, Write, TruncateView \/ TruncateKeys
  PROVE  BuildInv'
<1>1. cmd \in Command /\ cmd.keys \in Seq(Int) /\ cmd.slot \in Widths
  BY DEF BuildTypes, Command
<1>2. PICK pc \in {"keys2", "chunk", "view2"} :
        /\ cmd' = [cmd EXCEPT !.pc = pc]
        /\ \/ cmd.pc = "view1" /\ pc = "keys2" /\ view' = <<>> /\ keysFile' = keysFile
           \/ cmd.pc = "view2" /\ pc = "chunk" /\ view' = <<>> /\ keysFile' = keysFile
           \/ cmd.pc = "keys1" /\ pc = "view2" /\ keysFile' = <<>> /\ view' = view
           \/ cmd.pc = "keys2" /\ pc = "chunk" /\ keysFile' = <<>> /\ view' = view
  <2>1. CASE TruncateView
    <3>1. CASE cmd.pc = "view1"
      BY <2>1, <3>1 DEF TruncateView, Goto, At
    <3>2. CASE cmd.pc = "view2"
      BY <2>1, <3>2 DEF TruncateView, Goto, At
    <3> QED BY <2>1, <3>1, <3>2 DEF TruncateView
  <2>2. CASE TruncateKeys
    <3>1. CASE cmd.pc = "keys1"
      BY <2>2, <3>1 DEF TruncateKeys, Goto, At
    <3>2. CASE cmd.pc = "keys2"
      BY <2>2, <3>2 DEF TruncateKeys, Goto, At
    <3> QED BY <2>2, <3>1, <3>2 DEF TruncateKeys
  <2> QED BY <2>1, <2>2
<1>3. /\ cmd'.pc = pc /\ cmd'.keys = cmd.keys /\ cmd'.slot = cmd.slot
      /\ cmd'.at = cmd.at /\ cmd'.rows = cmd.rows /\ cmd'.lines = cmd.lines
      /\ cmd'.complete = cmd.complete /\ pc \in Pc
  <2>1. pc \in Pc
    BY DEF Pc
  <2> QED BY <1>1, <1>2, <2>1, GotoIs
<1>4. cmd.pc \in Opening /\ cmd.at = 0 /\ cmd.rows = <<>> /\ cmd.lines = <<>>
  BY DEF TruncateView, TruncateKeys, BuildInv, OpenedInv, Opening
<1>5. verdict' = verdict /\ ~ cmd.complete /\ ~ verdict.asked
  BY <1>4, WriteLeaves DEF BuildInv, VerdictInv, Opening
<1>6. pc = "keys2" => view' = <<>>
  BY <1>2
<1>7. pc = "view2" => keysFile' = <<>>
  BY <1>2
<1>8. pc = "chunk" => view' = <<>> /\ keysFile' = <<>>
  BY <1>2 DEF BuildInv, OpenedInv, Opening
<1>9. OpenedInv'
  BY <1>3, <1>4, <1>6, <1>7 DEF OpenedInv, Opening
<1>10. WrittenInv'
  <2>1. CASE pc = "chunk"
    BY <1>1, <1>3, <1>4, <1>8, <2>1, NothingWritten DEF WrittenInv
  <2>2. CASE pc # "chunk"
    BY <1>3, <2>2 DEF WrittenInv
  <2> QED BY <2>1, <2>2
<1>11. BuiltInv' /\ ManifestInv' /\ IndexedInv' /\ DoneInv'
  BY <1>3 DEF BuiltInv, ManifestInv, IndexedInv, DoneInv, Built
<1>12. VerdictInv'
  BY <1>3, <1>5 DEF VerdictInv
<1> QED BY <1>9, <1>10, <1>11, <1>12 DEF BuildInv

\* A file and its buffer are the same whether part of the buffer is written out.
LEMMA Spilled ==
  ASSUME NEW f \in Seq(Int), NEW b \in Seq(Int)
  PROVE  (f \o b) \o <<>> = f \o b /\ f \o <<>> = f
<1>1. f \o b \in Seq(Int)
  OBVIOUS
<1>2. (f \o b) \o <<>> = f \o b
  BY <1>1, ConcatEmptySeq
<1>3. f \o <<>> = f
  BY ConcatEmptySeq
<1> QED BY <1>2, <1>3

\* A prefix of a list of rowids.
LEMMA PrefixOf ==
  ASSUME NEW k \in Seq(Int), NEW n \in Nat, n <= Len(k)
  PROVE  /\ SubSeq(k, 1, n) \in Seq(Int) /\ Len(SubSeq(k, 1, n)) = n
         /\ \A i \in 1..n : SubSeq(k, 1, n)[i] = k[i]
<1>1. \A i \in 1..n : k[i] \in Int
  BY LenProperties
<1>2. /\ SubSeq(k, 1, n) \in Seq(Int)
      /\ Len(SubSeq(k, 1, n)) = IF 1 <= n THEN n - 1 + 1 ELSE 0
      /\ \A i \in 1..(n - 1 + 1) : SubSeq(k, 1, n)[i] = k[1 + i - 1]
  BY <1>1, SubSeqProperties
<1>3. n - 1 + 1 = n /\ \A i \in 1..n : 1 + i - 1 = i
  OBVIOUS
<1> QED BY <1>2, <1>3

\* A slice and the one after it.
LEMMA SlicesJoin ==
  ASSUME NEW k \in Seq(Int), NEW at \in Nat, NEW l \in Nat, at + l <= Len(k)
  PROVE  SubSeq(k, 1, at) \o SubSeq(k, at + 1, at + l) = SubSeq(k, 1, at + l)
<1>1. at <= Len(k) /\ at + l \in Nat
  BY LenProperties
<1>2. PICK s \in Seq(Int) : s = SubSeq(k, 1, at) /\ Len(s) = at /\ \A i \in 1..at : s[i] = k[i]
  BY <1>1, PrefixOf
<1>3. PICK t \in Seq(Int) : /\ t = SubSeq(k, at + 1, at + l) /\ Len(t) = l
                            /\ \A i \in 1..l : t[i] = k[at + i]
  BY SliceInt
<1>4. PICK u \in Seq(Int) : /\ u = SubSeq(k, 1, at + l) /\ Len(u) = at + l
                            /\ \A i \in 1..(at + l) : u[i] = k[i]
  BY <1>1, PrefixOf
<1>5. /\ s \o t \in Seq(Int) /\ Len(s \o t) = at + l
      /\ \A i \in 1..(at + l) : (s \o t)[i] = IF i <= at THEN s[i] ELSE t[i - at]
  <2>1. /\ s \o t \in Seq(Int) /\ Len(s \o t) = Len(s) + Len(t)
        /\ \A i \in 1..(Len(s) + Len(t)) : (s \o t)[i] = IF i <= Len(s) THEN s[i] ELSE t[i - Len(s)]
    BY ConcatProperties
  <2> QED BY <1>2, <1>3, <2>1
<1>6. ASSUME NEW i \in 1..(at + l) PROVE (s \o t)[i] = u[i]
  <2>1. CASE i <= at
    BY <1>2, <1>4, <1>5, <2>1
  <2>2. CASE ~ (i <= at)
    <3>1. i - at \in 1..l /\ at + (i - at) = i
      BY <2>2
    <3>2. t[i - at] = k[i]
      BY <1>3, <3>1
    <3> QED BY <1>4, <1>5, <2>2, <3>2
  <2> QED BY <2>1, <2>2
<1>7. s \o t = u
  BY <1>4, <1>5, <1>6, SeqEqual
<1> QED BY <1>2, <1>3, <1>4, <1>7

\* A chunk more is gathered: the buffers grow by the slots and the lines of its
\* grams.
LEMMA BuildChunk ==
  ASSUME BuildTypes, BuildInv, Write, WriteChunk
  PROVE  BuildInv'
<1>1. /\ cmd \in Command /\ cmd.keys \in Seq(Int) /\ cmd.slot \in Widths /\ cmd.at \in Nat
      /\ cmd.rows \in Seq(Int) /\ cmd.lines \in Seq(Int)
      /\ view \in Seq(Int) /\ keysFile \in Seq(Int)
  BY DEF BuildTypes, Command
<1>2. cmd.pc = "chunk" /\ ~ cmd.complete /\ ~ verdict.asked /\ verdict' = verdict
  BY WriteLeaves DEF WriteChunk, At, BuildInv, VerdictInv
<1>3. /\ cmd.at <= Len(cmd.keys) /\ cmd.at % Heads = 0
      /\ IsSlots(view \o cmd.rows, cmd.keys, cmd.at \div Heads, cmd.slot)
      /\ keysFile \o cmd.lines = SubSeq(cmd.keys, 1, cmd.at)
  BY <1>2 DEF BuildInv, WrittenInv
<1>4. PICK k \in Seq(Int), at \in 0..Len(cmd.keys), w \in Widths, rows \in Seq(Int),
           lines \in Seq(Int) :
        k = cmd.keys /\ at = cmd.at /\ w = cmd.slot /\ rows = cmd.rows /\ lines = cmd.lines
  <2>1. cmd.at \in 0..Len(cmd.keys)
    BY <1>1, <1>3
  <2> QED BY <1>1, <2>1
<1>5. PICK c \in Seq(Int) :
        /\ c = Chunk /\ at + Len(c) <= Len(k) /\ c = SubSeq(k, at + 1, at + Len(c))
        /\ \A p \in 1..Len(c) : c[p] = k[at + p]
  BY <1>4, ChunkIs
<1>6. Whole(c) /\ UNCHANGED <<view, keysFile>>
  BY <1>5 DEF WriteChunk
<1>7. PICK s \in Seq(Int) : s = SlotsOf(c, w) /\ IsSlots(s, c, GramCount(c), w)
  BY SlotsOfIs
<1>8. /\ cmd'.pc = "chunk" /\ cmd'.keys = k /\ cmd'.slot = w /\ cmd'.at = at + Len(c)
      /\ cmd'.rows = rows \o s /\ cmd'.lines = lines \o c /\ cmd'.complete = cmd.complete
  <2>1. cmd' = [cmd EXCEPT !.at = @ + Len(Chunk), !.lines = @ \o Chunk,
                           !.rows = @ \o SlotsOf(Chunk, cmd.slot)]
    BY DEF WriteChunk
  <2>2. PICK l, r, a : l = lines \o c /\ r = rows \o s /\ a = at + Len(c)
    OBVIOUS
  <2>3. cmd' = [cmd EXCEPT !.at = a, !.lines = l, !.rows = r]
    BY <1>4, <1>5, <1>7, <2>1, <2>2
  <2> QED BY <1>1, <1>2, <1>4, <2>2, <2>3 DEF Command
<1>9. PICK n \in Nat, m \in Nat : /\ n = at \div Heads /\ m = GramCount(c)
                                 /\ at = n * Heads /\ Len(c) = m * Heads
  <2>1. Heads \in Nat \ {0} /\ at \in Nat /\ at % Heads = 0 /\ Len(c) % Heads = 0
    BY <1>3, <1>4, <1>6, ConstantsAre DEF Whole
  <2>2. at \div Heads \in Nat /\ at = (at \div Heads) * Heads + 0
    BY <2>1, DivMod
  <2>3. at = (at \div Heads) * Heads
    BY <2>1, <2>2
  <2>4. /\ GramCount(c) \in Nat /\ Len(c) = GramCount(c) * Heads + 0
        /\ GramCount(c) * Heads \in Nat
    BY <2>1, CountIs
  <2> QED BY <2>2, <2>3, <2>4
<1>10. (at + Len(c)) \div Heads = n + m /\ (at + Len(c)) % Heads = 0
  <2>1. Heads \in Nat \ {0}
    BY ConstantsAre
  <2>2. PICK t \in Nat : t = n + m
    OBVIOUS
  <2>3. t * Heads = n * Heads + m * Heads
    BY <2>1, <2>2
  <2>4. at + Len(c) = t * Heads
    BY <1>9, <2>3
  <2>5. (t * Heads) \div Heads = t /\ (t * Heads) % Heads = 0
    BY <2>1, DivMul
  <2> QED BY <2>2, <2>4, <2>5
<1>11. IsSlots((view \o rows) \o s, k, n + m, w)
  <2>1. PICK v \in Seq(Int) : v = view \o rows
    <3>1. PICK f \in Seq(Int) : f = view
      BY <1>1
    <3>2. f \o rows \in Seq(Int)
      OBVIOUS
    <3> QED BY <3>1, <3>2
  <2>2. IsSlots(v, k, n, w) /\ IsSlots(s, c, m, w)
    BY <1>3, <1>4, <1>7, <1>9, <2>1
  <2>3. \A p \in 1..(m * Heads) : c[p] = k[n * Heads + p]
    BY <1>5, <1>9
  <2>4. IsSlots(v \o s, k, n + m, w)
    BY <2>2, <2>3, SlotsConcat
  <2> QED BY <2>1, <2>4
<1>12. view \o (rows \o s) = (view \o rows) \o s
       /\ keysFile \o (lines \o c) = (keysFile \o lines) \o c
  <2>1. PICK f \in Seq(Int), g \in Seq(Int) : f = view /\ g = keysFile
    BY <1>1
  <2>2. Regroups(f, rows, s) /\ Regroups(g, lines, c)
    BY Regroup
  <2> QED BY <2>1, <2>2 DEF Regroups
<1>13. (keysFile \o lines) \o c = SubSeq(k, 1, at + Len(c))
  <2>1. keysFile \o lines = SubSeq(k, 1, at)
    BY <1>3, <1>4
  <2>2. PICK l \in Nat : l = Len(c)
    BY LenProperties
  <2>3. at \in Nat /\ at + l <= Len(k)
    BY <1>5, <2>2
  <2>4. SubSeq(k, 1, at) \o SubSeq(k, at + 1, at + l) = SubSeq(k, 1, at + l)
    BY <2>3, SlicesJoin
  <2> QED BY <1>5, <2>1, <2>2, <2>4
<1>14. WrittenInv'
  BY <1>5, <1>6, <1>8, <1>10, <1>11, <1>12, <1>13 DEF WrittenInv
<1>15. OpenedInv' /\ BuiltInv' /\ ManifestInv' /\ IndexedInv' /\ DoneInv'
  BY <1>8 DEF OpenedInv, BuiltInv, ManifestInv, IndexedInv, DoneInv, Opening, Built
<1>16. VerdictInv'
  BY <1>2, <1>8 DEF VerdictInv
<1> QED BY <1>14, <1>15, <1>16 DEF BuildInv

\* A buffer that is written out moves what has been gathered into its file.
LEMMA BuildSpillView ==
  ASSUME BuildTypes, BuildInv, Write, SpillView
  PROVE  BuildInv'
<1>1. /\ cmd \in Command /\ cmd.rows \in Seq(Int) /\ view \in Seq(Int)
  BY DEF BuildTypes, Command
<1>2. cmd.pc \in {"chunk", "flush"} /\ ~ cmd.complete /\ ~ verdict.asked /\ verdict' = verdict
  <2>1. cmd.pc # "idle" /\ cmd.rows # <<>>
    BY DEF SpillView
  <2>2. cmd.pc \notin Opening /\ cmd.pc \notin Built
    BY <2>1 DEF BuildInv, OpenedInv, BuiltInv
  <2>3. cmd.pc \in {"chunk", "flush"}
    BY <1>1, <2>1, <2>2 DEF Command, Opening, Built
  <2> QED BY <2>1, <2>3, WriteLeaves DEF BuildInv, VerdictInv
<1>3. /\ cmd'.pc = cmd.pc /\ cmd'.keys = cmd.keys /\ cmd'.slot = cmd.slot /\ cmd'.at = cmd.at
      /\ cmd'.rows = <<>> /\ cmd'.lines = cmd.lines /\ cmd'.complete = cmd.complete
  BY <1>1 DEF SpillView, Command
<1>4. view' = view \o cmd.rows /\ keysFile' = keysFile
  BY DEF SpillView
<1>5. view' \o <<>> = view \o cmd.rows
  BY <1>1, <1>4, Spilled
<1>6. WrittenInv'
  BY <1>2, <1>3, <1>4, <1>5 DEF WrittenInv, BuildInv
<1>7. OpenedInv' /\ BuiltInv' /\ ManifestInv' /\ IndexedInv' /\ DoneInv'
  BY <1>2, <1>3 DEF OpenedInv, BuiltInv, ManifestInv, IndexedInv, DoneInv, Opening, Built
<1>8. VerdictInv'
  BY <1>2, <1>3 DEF VerdictInv
<1> QED BY <1>6, <1>7, <1>8 DEF BuildInv

LEMMA BuildSpillKeys ==
  ASSUME BuildTypes, BuildInv, Write, SpillKeys
  PROVE  BuildInv'
<1>1. /\ cmd \in Command /\ cmd.lines \in Seq(Int) /\ keysFile \in Seq(Int)
  BY DEF BuildTypes, Command
<1>2. /\ cmd.pc \in {"chunk", "flush", "manifest1", "manifest2", "close"}
      /\ ~ cmd.complete /\ ~ verdict.asked /\ verdict' = verdict
  <2>1. cmd.pc # "idle" /\ cmd.lines # <<>>
    BY DEF SpillKeys
  <2>2. cmd.pc \notin Opening /\ cmd.pc \notin {"index", "update1", "update2", "verify"}
    BY <2>1 DEF BuildInv, OpenedInv, IndexedInv
  <2>3. cmd.pc \in {"chunk", "flush", "manifest1", "manifest2", "close"}
    BY <1>1, <2>1, <2>2 DEF Command, Opening
  <2> QED BY <2>1, <2>3, WriteLeaves DEF BuildInv, VerdictInv
<1>3. /\ cmd'.pc = cmd.pc /\ cmd'.keys = cmd.keys /\ cmd'.slot = cmd.slot /\ cmd'.at = cmd.at
      /\ cmd'.rows = cmd.rows /\ cmd'.lines = <<>> /\ cmd'.complete = cmd.complete
  BY <1>1 DEF SpillKeys, Command
<1>4. keysFile' = keysFile \o cmd.lines /\ view' = view /\ manifest' = manifest
  BY DEF SpillKeys
<1>5. keysFile' \o <<>> = keysFile \o cmd.lines
  BY <1>1, <1>4, Spilled
<1>6. WrittenInv' /\ BuiltInv'
  BY <1>2, <1>3, <1>4, <1>5 DEF WrittenInv, BuiltInv, Built, BuildInv
<1>7. OpenedInv' /\ IndexedInv' /\ DoneInv'
  BY <1>2, <1>3 DEF OpenedInv, IndexedInv, DoneInv, Opening
<1>8. ManifestInv'
  BY <1>2, <1>3, <1>4 DEF ManifestInv, ManifestFor, BuildInv
<1>9. VerdictInv'
  BY <1>2, <1>3 DEF VerdictInv
<1> QED BY <1>6, <1>7, <1>8, <1>9 DEF BuildInv

\* At the end of the keys, all of the list has been gathered.
LEMMA BuildEnds ==
  ASSUME BuildTypes, BuildInv, Write, EndOfKeys
  PROVE  BuildInv'
<1>1. cmd \in Command /\ cmd.keys \in Seq(Int) /\ cmd.at \in Nat
  BY DEF BuildTypes, Command
<1>2. cmd.pc = "chunk" /\ ~ cmd.complete /\ ~ verdict.asked /\ verdict' = verdict
  BY WriteLeaves DEF EndOfKeys, At, BuildInv, VerdictInv
<1>3. /\ cmd'.pc = "flush" /\ cmd'.keys = cmd.keys /\ cmd'.slot = cmd.slot /\ cmd'.at = cmd.at
      /\ cmd'.rows = cmd.rows /\ cmd'.lines = cmd.lines /\ cmd'.complete = cmd.complete
  <2>1. "flush" \in Pc /\ cmd' = [cmd EXCEPT !.pc = "flush"]
    BY DEF Pc, EndOfKeys, Goto
  <2> QED BY <1>1, <2>1, GotoIs
<1>4. UNCHANGED <<view, keysFile>> /\ Chunk = <<>>
  BY DEF EndOfKeys
<1>5. cmd.at = Len(cmd.keys)
  <2>1. cmd.at <= Len(cmd.keys)
    BY <1>2 DEF BuildInv, WrittenInv
  <2>2. PICK k \in Seq(Int) : k = cmd.keys
    BY <1>1
  <2>3. PICK at \in 0..Len(k) : at = cmd.at
    BY <1>1, <2>1, <2>2
  <2>4. Chunk = <<>> <=> at = Len(k)
    BY <2>2, <2>3, ChunkIs
  <2> QED BY <1>4, <2>2, <2>3, <2>4
<1>6. WrittenInv'
  BY <1>2, <1>3, <1>4, <1>5 DEF WrittenInv, BuildInv
<1>7. OpenedInv' /\ BuiltInv' /\ ManifestInv' /\ IndexedInv' /\ DoneInv'
  BY <1>3 DEF OpenedInv, BuiltInv, ManifestInv, IndexedInv, DoneInv, Opening, Built
<1>8. VerdictInv'
  BY <1>2, <1>3 DEF VerdictInv
<1> QED BY <1>6, <1>7, <1>8 DEF BuildInv

\* Once the view is flushed, it is the slots of the list.
LEMMA BuildFlush ==
  ASSUME BuildTypes, BuildInv, Write, FlushView
  PROVE  BuildInv'
<1>1. /\ cmd \in Command /\ cmd.keys \in Seq(Int) /\ cmd.slot \in Widths
      /\ view \in Seq(Int) /\ keysFile \in Seq(Int)
  BY DEF BuildTypes, Command
<1>2. /\ cmd.pc = "flush" /\ cmd.rows = <<>> /\ ~ cmd.complete /\ ~ verdict.asked
      /\ verdict' = verdict
  BY WriteLeaves DEF FlushView, At, BuildInv, VerdictInv
<1>3. /\ cmd'.pc = "manifest1" /\ cmd'.keys = cmd.keys /\ cmd'.slot = cmd.slot
      /\ cmd'.rows = cmd.rows /\ cmd'.lines = cmd.lines /\ cmd'.complete = cmd.complete
  <2>1. "manifest1" \in Pc /\ cmd' = [cmd EXCEPT !.pc = "manifest1"]
    BY DEF Pc, FlushView, Goto
  <2> QED BY <1>1, <2>1, GotoIs
<1>4. UNCHANGED <<view, keysFile>>
  BY DEF FlushView
<1>5. PICK k \in Seq(Int), w \in Widths, v \in Seq(Int) : k = cmd.keys /\ w = cmd.slot /\ v = view
  BY <1>1
<1>6. /\ cmd.at = Len(k) /\ Len(k) % Heads = 0 /\ IsSlots(v \o <<>>, k, Len(k) \div Heads, w)
      /\ keysFile \o cmd.lines = SubSeq(k, 1, Len(k))
  BY <1>2, <1>5 DEF BuildInv, WrittenInv
<1>7. v = SlotsOf(k, w)
  <2>1. v \o <<>> = v
    BY ConcatNothing
  <2>2. PICK n \in Nat, u \in Seq(Int) :
          n = GramCount(k) /\ u = SlotsOf(k, w) /\ IsSlots(u, k, n, w)
    <3>1. GramCount(k) \in Nat
      BY CountIs
    <3> QED BY <3>1, SlotsOfIs
  <2>3. IsSlots(v, k, n, w)
    BY <1>6, <2>1, <2>2 DEF GramCount
  <2>4. v = u
    BY <2>2, <2>3, SlotsUnique
  <2> QED BY <2>2, <2>4
<1>8. SubSeq(k, 1, Len(k)) = k
  BY SubSeqFull
<1>9. BuiltInv'
  BY <1>2, <1>3, <1>4, <1>5, <1>6, <1>7, <1>8 DEF BuiltInv, Whole
<1>10. OpenedInv' /\ WrittenInv' /\ ManifestInv' /\ IndexedInv' /\ DoneInv'
  BY <1>3 DEF OpenedInv, WrittenInv, ManifestInv, IndexedInv, DoneInv, Opening
<1>11. VerdictInv'
  BY <1>2, <1>3 DEF VerdictInv
<1> QED BY <1>9, <1>10, <1>11 DEF BuildInv

\* A manifest is torn from its creation to its writing.
LEMMA BuildCreate ==
  ASSUME BuildTypes, BuildInv, Write, CreateManifest
  PROVE  BuildInv'
<1>1. cmd \in Command
  BY DEF BuildTypes
<1>2. PICK pc \in {"manifest2", "update2"} :
        /\ cmd' = [cmd EXCEPT !.pc = pc]
        /\ cmd.pc = (IF pc = "manifest2" THEN "manifest1" ELSE "update1")
  <2>1. CASE cmd.pc = "manifest1"
    BY <2>1 DEF CreateManifest, Goto, At
  <2>2. CASE cmd.pc = "update1"
    BY <2>2 DEF CreateManifest, Goto, At
  <2> QED BY <2>1, <2>2 DEF CreateManifest
<1>3. /\ cmd'.pc = pc /\ cmd'.keys = cmd.keys /\ cmd'.slot = cmd.slot
      /\ cmd'.rows = cmd.rows /\ cmd'.lines = cmd.lines /\ cmd'.withIndex = cmd.withIndex
      /\ cmd'.complete = cmd.complete
  <2>1. pc \in Pc
    BY DEF Pc
  <2> QED BY <1>1, <1>2, <2>1, GotoIs
<1>4. UNCHANGED <<view, keysFile, index, indexCount>>
  BY DEF CreateManifest
<1>5. ~ cmd.complete /\ ~ verdict.asked /\ verdict' = verdict
  BY <1>2, WriteLeaves DEF BuildInv, VerdictInv
<1>6. BuiltInv'
  BY <1>2, <1>3, <1>4 DEF BuiltInv, Built, BuildInv
<1>7. IndexedInv'
  BY <1>2, <1>3, <1>4 DEF IndexedInv, BuildInv
<1>8. OpenedInv' /\ WrittenInv' /\ ManifestInv' /\ DoneInv'
  BY <1>3 DEF OpenedInv, WrittenInv, ManifestInv, DoneInv, Opening
<1>9. VerdictInv'
  BY <1>3, <1>5 DEF VerdictInv
<1> QED BY <1>6, <1>7, <1>8, <1>9 DEF BuildInv

\* The manifest speaks of the width and the grams of the command.
LEMMA BuildManifest ==
  ASSUME BuildTypes, BuildInv, Write, WriteManifest
  PROVE  BuildInv'
<1>1. cmd \in Command
  BY DEF BuildTypes
<1>2. PICK pc \in {"close", "verify"}, named \in BOOLEAN :
        /\ cmd' = [cmd EXCEPT !.pc = pc]
        /\ manifest' = [state |-> "ok", slot |-> cmd.slot, grans |-> GramCount(cmd.keys),
                        named |-> named]
        /\ IF pc = "close" THEN cmd.pc = "manifest2" /\ named = FALSE
           ELSE cmd.pc = "update2" /\ named = TRUE
  <2>1. CASE cmd.pc = "manifest2"
    <3>1. At("manifest2") /\ At("update2") = FALSE
      BY <2>1 DEF At
    <3> QED BY <2>1, <3>1 DEF WriteManifest, Goto, Grans
  <2>2. CASE cmd.pc = "update2"
    <3>1. ~ At("manifest2") /\ At("update2") = TRUE
      BY <2>2 DEF At
    <3> QED BY <2>2, <3>1 DEF WriteManifest, Goto, Grans
  <2> QED BY <2>1, <2>2 DEF WriteManifest
<1>3. /\ cmd'.pc = pc /\ cmd'.keys = cmd.keys /\ cmd'.slot = cmd.slot
      /\ cmd'.rows = cmd.rows /\ cmd'.lines = cmd.lines /\ cmd'.withIndex = cmd.withIndex
      /\ cmd'.complete = cmd.complete
  <2>1. pc \in Pc
    BY DEF Pc
  <2> QED BY <1>1, <1>2, <2>1, GotoIs
<1>4. UNCHANGED <<view, keysFile, index, indexCount>>
  BY DEF WriteManifest
<1>5. ~ cmd.complete /\ ~ verdict.asked /\ verdict' = verdict
  BY <1>2, WriteLeaves DEF BuildInv, VerdictInv
<1>6. BuiltInv'
  BY <1>2, <1>3, <1>4 DEF BuiltInv, Built, BuildInv
<1>7. IndexedInv'
  BY <1>2, <1>3, <1>4 DEF IndexedInv, BuildInv
<1>8. ManifestInv'
  <2>1. manifest' = ManifestFor(cmd', named)
    BY <1>2, <1>3 DEF ManifestFor
  <2>2. CASE pc = "close"
    <3>1. named = FALSE
      BY <1>2, <2>2
    <3> QED BY <1>3, <2>1, <2>2, <3>1 DEF ManifestInv
  <2>3. CASE pc = "verify"
    <3>1. named = TRUE /\ cmd.withIndex \in BOOLEAN /\ cmd.withIndex
      BY <1>1, <1>2, <2>3 DEF BuildInv, IndexedInv, Command
    <3>2. cmd'.withIndex = named
      BY <1>3, <3>1, Zenon
    <3> QED BY <1>3, <2>1, <2>3, <3>2 DEF ManifestInv
  <2> QED BY <2>2, <2>3
<1>9. OpenedInv' /\ WrittenInv' /\ DoneInv'
  BY <1>3 DEF OpenedInv, WrittenInv, DoneInv, Opening
<1>10. VerdictInv'
  BY <1>3, <1>5 DEF VerdictInv
<1> QED BY <1>6, <1>7, <1>8, <1>9, <1>10 DEF BuildInv

\* The keys file is whole when the index is built from it.
LEMMA BuildClose ==
  ASSUME BuildTypes, BuildInv, Write, NEW withIndex \in BOOLEAN, CloseKeys(withIndex)
  PROVE  BuildInv'
<1>1. cmd \in Command /\ cmd.keys \in Seq(Int) /\ keysFile \in Seq(Int) /\ cmd.lines \in Seq(Int)
  BY DEF BuildTypes, Command
<1>2. cmd.pc = "close" /\ ~ cmd.complete /\ ~ verdict.asked /\ verdict' = verdict
  BY WriteLeaves DEF CloseKeys, At, BuildInv, VerdictInv
<1>3. /\ Whole(cmd.keys) /\ cmd.rows = <<>> /\ view = SlotsOf(cmd.keys, cmd.slot)
      /\ keysFile \o cmd.lines = cmd.keys /\ manifest = ManifestFor(cmd, FALSE)
  BY <1>2 DEF BuildInv, BuiltInv, ManifestInv, Built
<1>4. keysFile' = cmd.keys /\ UNCHANGED <<view, manifest, index>>
  BY <1>3 DEF CloseKeys
<1>5. PICK pc, todo :
        /\ pc = (IF withIndex THEN "index" ELSE "verify")
        /\ todo = (IF withIndex THEN GramsOf(cmd.keys) ELSE {})
        /\ cmd' = [cmd EXCEPT !.lines = <<>>, !.withIndex = withIndex, !.pc = pc, !.todo = todo]
  <2>1. PICK pc, todo : /\ pc = (IF withIndex THEN "index" ELSE "verify")
                        /\ todo = (IF withIndex THEN GramsOf(keysFile') ELSE {})
    OBVIOUS
  <2>2. cmd' = [cmd EXCEPT !.lines = <<>>, !.withIndex = withIndex, !.pc = pc, !.todo = todo]
    BY <2>1, Zenon DEF CloseKeys
  <2> QED BY <1>4, <2>1, <2>2
<1>6. /\ cmd'.pc = pc /\ cmd'.keys = cmd.keys /\ cmd'.slot = cmd.slot /\ cmd'.rows = cmd.rows
      /\ cmd'.lines = <<>> /\ cmd'.withIndex = withIndex /\ cmd'.complete = cmd.complete
      /\ cmd'.todo = todo
  BY <1>1, <1>5 DEF Command
<1>7. BuiltInv'
  <2>1. cmd.keys \o <<>> = cmd.keys
    BY <1>1, ConcatNothing
  <2> QED BY <1>3, <1>4, <1>6, <2>1 DEF BuiltInv
<1>8. ManifestInv'
  <2>1. manifest' = ManifestFor(cmd', FALSE)
    BY <1>3, <1>4, <1>6 DEF ManifestFor
  <2>2. CASE withIndex
    BY <1>5, <1>6, <2>1, <2>2 DEF ManifestInv
  <2>3. CASE ~ withIndex
    <3>1. withIndex = FALSE
      BY <2>3
    <3> QED BY <1>5, <1>6, <2>1, <3>1 DEF ManifestInv
  <2> QED BY <2>2, <2>3
<1>9. IndexedInv'
  <2>1. CASE withIndex
    <3>1. Indexed(index, cmd.keys, GramsOf(cmd.keys))
      BY DEF Indexed, IndexOf, GramsOf
    <3> QED BY <1>4, <1>5, <1>6, <2>1, <3>1 DEF IndexedInv
  <2>2. CASE ~ withIndex
    BY <1>5, <1>6, <2>2 DEF IndexedInv
  <2> QED BY <2>1, <2>2
<1>10. OpenedInv' /\ WrittenInv' /\ DoneInv'
  BY <1>5, <1>6 DEF OpenedInv, WrittenInv, DoneInv, Opening
<1>11. VerdictInv'
  BY <1>2, <1>5, <1>6 DEF VerdictInv
<1> QED BY <1>7, <1>8, <1>9, <1>10, <1>11 DEF BuildInv

\* A bucket is replaced: the entries of its gram are those of the keys.
LEMMA BuildIndexGram ==
  ASSUME BuildTypes, BuildInv, Write, NEW g \in cmd.todo, IndexGram(g)
  PROVE  BuildInv'
<1>1. cmd \in Command /\ cmd.keys \in Seq(Int) /\ keysFile \in Seq(Int)
  BY DEF BuildTypes, Command
<1>2. cmd.pc = "index" /\ ~ cmd.complete /\ ~ verdict.asked /\ verdict' = verdict
  BY WriteLeaves DEF IndexGram, At, BuildInv, VerdictInv
<1>3. /\ cmd.lines = <<>> /\ cmd.withIndex /\ Indexed(index, cmd.keys, cmd.todo)
      /\ keysFile \o cmd.lines = cmd.keys
  BY <1>2 DEF BuildInv, IndexedInv, BuiltInv, Built
<1>4. keysFile = cmd.keys
  BY <1>1, <1>3, Spilled
<1>5. PICK todo : todo = cmd.todo \ {g}
  OBVIOUS
<1>6. /\ index' = {r \in index : r[1] # g} \cup {r \in IndexOf(cmd.keys) : r[1] = g}
      /\ cmd' = [cmd EXCEPT !.todo = todo] /\ UNCHANGED <<view, keysFile, manifest>>
  BY <1>4, <1>5 DEF IndexGram
<1>7. /\ cmd'.pc = "index" /\ cmd'.keys = cmd.keys /\ cmd'.slot = cmd.slot /\ cmd'.rows = cmd.rows
      /\ cmd'.lines = cmd.lines /\ cmd'.withIndex = cmd.withIndex /\ cmd'.complete = cmd.complete
      /\ cmd'.todo = todo
  BY <1>1, <1>2, <1>6 DEF Command
<1>8. Indexed(index', cmd.keys, todo)
  <2>1. \A r \in IndexOf(cmd.keys) : r[1] \in GramsOf(cmd.keys)
    BY DEF IndexOf, GramsOf
  <2>2. {r \in index : r[1] \in GramsOf(cmd.keys) \ cmd.todo}
          = {r \in IndexOf(cmd.keys) : r[1] \notin cmd.todo}
    BY <1>3 DEF Indexed
  <2> QED BY <1>5, <1>6, <2>1, <2>2 DEF Indexed
<1>9. BuiltInv' /\ ManifestInv'
  BY <1>2, <1>6, <1>7 DEF BuiltInv, ManifestInv, ManifestFor, Built, BuildInv
<1>10. IndexedInv'
  BY <1>3, <1>7, <1>8 DEF IndexedInv
<1>11. OpenedInv' /\ WrittenInv' /\ DoneInv'
  BY <1>7 DEF OpenedInv, WrittenInv, DoneInv, Opening
<1>12. VerdictInv'
  BY <1>2, <1>7 DEF VerdictInv
<1> QED BY <1>9, <1>10, <1>11, <1>12 DEF BuildInv

\* Every bucket of the keys has been replaced.
LEMMA BuildFinish ==
  ASSUME BuildTypes, BuildInv, Write, FinishIndex
  PROVE  BuildInv'
<1>1. cmd \in Command /\ cmd.keys \in Seq(Int) /\ keysFile \in Seq(Int)
  BY DEF BuildTypes, Command
<1>2. cmd.pc = "index" /\ ~ cmd.complete /\ ~ verdict.asked /\ verdict' = verdict
  BY WriteLeaves DEF FinishIndex, At, BuildInv, VerdictInv
<1>3. /\ cmd.lines = <<>> /\ cmd.withIndex /\ Indexed(index, cmd.keys, {})
      /\ keysFile \o cmd.lines = cmd.keys
  BY <1>2 DEF BuildInv, IndexedInv, BuiltInv, Built, FinishIndex
<1>4. keysFile = cmd.keys
  BY <1>1, <1>3, Spilled
<1>5. indexCount' = GramCount(cmd.keys) /\ UNCHANGED <<view, keysFile, manifest, index>>
  BY <1>4 DEF FinishIndex, IndexCount
<1>6. /\ cmd'.pc = "update1" /\ cmd'.keys = cmd.keys /\ cmd'.slot = cmd.slot
      /\ cmd'.rows = cmd.rows /\ cmd'.lines = cmd.lines /\ cmd'.withIndex = cmd.withIndex
      /\ cmd'.complete = cmd.complete
  <2>1. "update1" \in Pc /\ cmd' = [cmd EXCEPT !.pc = "update1"]
    BY DEF Pc, FinishIndex, Goto
  <2> QED BY <1>1, <2>1, GotoIs
<1>7. BuiltInv' /\ ManifestInv'
  BY <1>2, <1>5, <1>6 DEF BuiltInv, ManifestInv, ManifestFor, Built, BuildInv
<1>8. IndexedInv'
  BY <1>3, <1>5, <1>6 DEF IndexedInv
<1>9. OpenedInv' /\ WrittenInv' /\ DoneInv'
  BY <1>6 DEF OpenedInv, WrittenInv, DoneInv, Opening
<1>10. VerdictInv'
  BY <1>2, <1>6 DEF VerdictInv
<1> QED BY <1>7, <1>8, <1>9, <1>10 DEF BuildInv

\* A command that ends well leaves what it was to leave.
LEMMA BuildEnd ==
  ASSUME BuildTypes, BuildInv, Write, NEW check \in BOOLEAN, EndBuild(check)
  PROVE  BuildInv'
<1>1. cmd \in Command /\ cmd.keys \in Seq(Int) /\ keysFile \in Seq(Int)
  BY DEF BuildTypes, Command
<1>2. cmd.pc = "verify" /\ ~ verdict.asked /\ verdict' = verdict
  BY WriteLeaves DEF EndBuild, At, BuildInv, VerdictInv
<1>3. /\ cmd.lines = <<>> /\ Whole(cmd.keys) /\ keysFile \o cmd.lines = cmd.keys
      /\ view = SlotsOf(cmd.keys, cmd.slot) /\ manifest = ManifestFor(cmd, cmd.withIndex)
      /\ cmd.withIndex => indexCount = GramCount(cmd.keys) /\ Indexed(index, cmd.keys, {})
  BY <1>2 DEF BuildInv, IndexedInv, BuiltInv, ManifestInv, Built
<1>4. keysFile = cmd.keys
  BY <1>1, <1>3, Spilled
<1>5. PICK b \in BOOLEAN : b = (check => ViewMatches(keysFile))
  OBVIOUS
<1>6. /\ cmd' = [NoCommand EXCEPT !.complete = b, !.keys = cmd.keys, !.slot = cmd.slot,
                                  !.withIndex = cmd.withIndex]
      /\ UNCHANGED <<view, keysFile, manifest, index, indexCount>>
  BY <1>5, Zenon DEF EndBuild
<1>7. /\ cmd'.pc = "idle" /\ cmd'.keys = cmd.keys /\ cmd'.slot = cmd.slot
      /\ cmd'.rows = <<>> /\ cmd'.lines = <<>> /\ cmd'.withIndex = cmd.withIndex
  BY <1>6 DEF NoCommand
<1>8. manifest' = ManifestFor(cmd', cmd'.withIndex)
  BY <1>3, <1>6, <1>7 DEF ManifestFor
<1>9. DoneInv'
  BY <1>3, <1>4, <1>6, <1>7, <1>8 DEF DoneInv
<1>10. OpenedInv' /\ WrittenInv' /\ BuiltInv' /\ ManifestInv' /\ IndexedInv'
  BY <1>7 DEF OpenedInv, WrittenInv, BuiltInv, ManifestInv, IndexedInv, Opening, Built
<1>11. VerdictInv'
  BY <1>2, <1>7 DEF VerdictInv
<1> QED BY <1>9, <1>10, <1>11 DEF BuildInv

\* One that ends early has completed nothing.
LEMMA BuildAbort ==
  ASSUME BuildTypes, BuildInv, Write, NEW flushed \in BOOLEAN, Abort(flushed)
  PROVE  BuildInv'
<1>1. cmd'.pc = "idle" /\ cmd'.rows = <<>> /\ cmd'.lines = <<>> /\ cmd'.complete = FALSE
  BY DEF Abort, NoCommand
<1> QED BY <1>1 DEF BuildInv, OpenedInv, WrittenInv, BuiltInv, ManifestInv, IndexedInv, DoneInv,
                    VerdictInv, Opening, Built

\* So every step of a build command keeps the invariant, and so do those of
\* others.
LEMMA BuildWrite ==
  ASSUME BuildTypes, BuildInv, Write
  PROVE  BuildInv'
<1>1. CASE \E withIndex \in BOOLEAN : CloseKeys(withIndex)
  BY <1>1, BuildClose
<1>2. CASE \E g \in cmd.todo : IndexGram(g)
  BY <1>2, BuildIndexGram
<1>3. CASE \E check \in BOOLEAN : EndBuild(check)
  BY <1>3, BuildEnd
<1>4. CASE RejectStream \/ \E flushed \in BOOLEAN : Stop(flushed)
  BY <1>4, BuildAbort DEF RejectStream, Stop
<1>5. CASE TruncateView \/ TruncateKeys
  BY <1>5, BuildTruncate
<1>6. CASE WriteChunk
  BY <1>6, BuildChunk
<1>7. CASE SpillView
  BY <1>7, BuildSpillView
<1>8. CASE SpillKeys
  BY <1>8, BuildSpillKeys
<1>9. CASE EndOfKeys
  BY <1>9, BuildEnds
<1>10. CASE FlushView
  BY <1>10, BuildFlush
<1>11. CASE CreateManifest
  BY <1>11, BuildCreate
<1>12. CASE WriteManifest
  BY <1>12, BuildManifest
<1>13. CASE FinishIndex
  BY <1>13, BuildFinish
<1> QED BY <1>1, <1>2, <1>3, <1>4, <1>5, <1>6, <1>7, <1>8, <1>9, <1>10, <1>11, <1>12, <1>13
        DEF Write

LEMMA BuildRead ==
  ASSUME BuildInv, UNCHANGED <<Files, cmd, verdict>>
  PROVE  BuildInv'
<1>1. OpenedInv' /\ WrittenInv' /\ BuiltInv'
  BY DEF BuildInv, OpenedInv, WrittenInv, BuiltInv, Opening, Built, Files
<1>2. ManifestInv' /\ IndexedInv' /\ DoneInv' /\ VerdictInv'
  BY DEF BuildInv, ManifestInv, IndexedInv, DoneInv, VerdictInv, Files
<1> QED BY <1>1, <1>2 DEF BuildInv

\* What a reader finds in a view that a command completed.
LEMMA OpenedView ==
  ASSUME BuildTypes, BuildInv, cmd.complete
  PROVE  /\ cmd.keys \in Seq(Int) /\ cmd.slot \in Widths /\ GramCount(cmd.keys) \in Nat
         /\ Whole(cmd.keys) /\ keysFile = cmd.keys /\ view = SlotsOf(cmd.keys, cmd.slot)
         /\ manifest = ManifestFor(cmd, cmd.withIndex)
         /\ cmd.withIndex => indexCount = GramCount(cmd.keys) /\ Indexed(index, cmd.keys, {})
         /\ SlotOf = cmd.slot /\ GransOf = GramCount(cmd.keys)
         /\ CountFor(cmd.slot, GramCount(cmd.keys)) = GramCount(cmd.keys)
         /\ Len(view) = GramCount(cmd.keys) * cmd.slot
         /\ \A i \in 0..(GramCount(cmd.keys) - 1) : RecordAt(cmd.slot, i) = GramAt(cmd.keys, i)
<1>1. cmd \in Command /\ cmd.keys \in Seq(Int) /\ cmd.slot \in Widths
  BY DEF BuildTypes, Command
<1>2. cmd.pc = "idle"
  BY DEF BuildInv, VerdictInv
<1>3. /\ Whole(cmd.keys) /\ keysFile = cmd.keys /\ view = SlotsOf(cmd.keys, cmd.slot)
      /\ manifest = ManifestFor(cmd, cmd.withIndex)
      /\ cmd.withIndex => indexCount = GramCount(cmd.keys) /\ Indexed(index, cmd.keys, {})
  BY <1>2 DEF BuildInv, DoneInv
<1>4. SlotOf = cmd.slot /\ GransOf = GramCount(cmd.keys)
  BY <1>3 DEF SlotOf, GransOf, ManifestFor
<1>5. PICK k \in Seq(Int), w \in Widths, n \in Nat :
        k = cmd.keys /\ w = cmd.slot /\ n = GramCount(k)
  <2>1. GramCount(cmd.keys) \in Nat
    BY <1>1, CountIs
  <2> QED BY <1>1, <2>1
<1>6. Len(view) = n * w
  BY <1>3, <1>5, SlotsOfIs DEF IsSlots
<1>7. Len(view) \div w = n
  <2>1. w \in Nat \ {0}
    BY ConstantsAre DEF Widths
  <2>2. (n * w) \div w = n
    BY <2>1, DivMul
  <2> QED BY <1>6, <2>2
<1>8. CountFor(w, n) = n
  BY <1>7 DEF CountFor
<1>9. \A i \in 0..(GramCount(k) - 1) : RecordAt(w, i) = GramAt(k, i)
  BY <1>3, <1>5, RecordOf
<1> QED BY <1>1, <1>3, <1>4, <1>5, <1>6, <1>8, <1>9

\* view verify accepts a view that was completed, and its index.
LEMMA BuildVerify ==
  ASSUME BuildTypes, BuildInv, NEW withIndex \in BOOLEAN, Verify(withIndex)
  PROVE  BuildInv'
<1>1. cmd.pc = "idle" /\ UNCHANGED <<Files, cmd>>
  BY DEF Verify, Files
<1>2. verdict'.withIndex = withIndex
      /\ verdict'.ok = (ViewMatches(keysFile) /\ (withIndex => IndexMatches(keysFile)))
  BY Zenon DEF Verify
<1>3. ASSUME cmd.complete, cmd.keys # <<>>, withIndex => cmd.withIndex
      PROVE  ViewMatches(keysFile) /\ (withIndex => IndexMatches(keysFile))
  <2>1. PICK k \in Seq(Int), n \in Nat, w \in Widths :
          /\ k = cmd.keys /\ w = cmd.slot /\ n = GramCount(k) /\ Whole(k) /\ keysFile = k
          /\ cmd.withIndex => indexCount = n /\ Indexed(index, k, {})
          /\ SlotOf = w /\ GransOf = n /\ CountFor(w, n) = n
          /\ \A i \in 0..(n - 1) : RecordAt(w, i) = GramAt(k, i)
    BY <1>3, OpenedView
  <2>2. n > 0
    <3>1. Len(k) = n * Heads + 0 /\ Heads \in Nat /\ Len(k) # 0
      BY <1>3, <2>1, CountIs, ConstantsAre, EmptySeq DEF Whole
    <3>2. n = 0 => n * Heads = 0
      BY <3>1
    <3> QED BY <3>1, <3>2
  <2>3. ViewMatches(k)
    BY <1>3, <2>1, <2>2 DEF ViewMatches
  <2>4. cmd.withIndex => IndexMatches(k)
    <3>1. \A r \in IndexOf(k) : r[1] \in GramsOf(k)
      BY DEF IndexOf, GramsOf
    <3>2. Indexed(index, k, {}) => IndexOf(k) \subseteq index
      BY <3>1 DEF Indexed
    <3> QED BY <2>1, <3>2 DEF IndexMatches
  <2> QED BY <1>3, <2>1, <2>3, <2>4
<1>4. OpenedInv' /\ WrittenInv' /\ BuiltInv' /\ ManifestInv' /\ IndexedInv' /\ DoneInv'
  BY <1>1 DEF BuildInv, OpenedInv, WrittenInv, BuiltInv, ManifestInv, IndexedInv, DoneInv, Files
<1>5. VerdictInv'
  BY <1>1, <1>2, <1>3, Zenon DEF VerdictInv
<1> QED BY <1>4, <1>5 DEF BuildInv

LEMMA BuildInit == ASSUME Init PROVE BuildInv
BY DEF Init, NoCommand, NotVerified, BuildInv, OpenedInv, WrittenInv, BuiltInv, ManifestInv,
       IndexedInv, DoneInv, VerdictInv, Opening, Built

\* The invariant gives the property.
LEMMA BuildConsistentHolds ==
  ASSUME BuildTypes, BuildInv
  PROVE  BuildConsistent
<1> SUFFICES ASSUME cmd.complete
             PROVE  /\ keysFile = cmd.keys
                    /\ view = SlotsOf(cmd.keys, cmd.slot)
                    /\ manifest = ManifestFor(cmd, cmd.withIndex)
                    /\ cmd.withIndex =>
                         {r \in index : r[1] \in GramsOf(cmd.keys)} = IndexOf(cmd.keys)
                    /\ verdict.asked /\ cmd.keys # <<>> /\ (verdict.withIndex => cmd.withIndex) =>
                         verdict.ok
  BY DEF BuildConsistent, ManifestFor
<1>1. Indexed(index, cmd.keys, {}) =>
        {r \in index : r[1] \in GramsOf(cmd.keys)} = IndexOf(cmd.keys)
  BY DEF Indexed
<1>2. verdict.asked /\ cmd.keys # <<>> /\ (verdict.withIndex => cmd.withIndex) => verdict.ok
  BY DEF BuildInv, VerdictInv
<1> QED BY <1>1, <1>2, OpenedView

-----------------------------------------------------------------------------
(* A reader.                                                               *)

\* The states of a reader and of its fetch.
Reader ==
  [state : {"closed", "indexed", "opening", "open"}, slot : Widths, grans : Nat, count : Nat,
   by : {"order", "disk", "memory"}, start : Nat, memory : SUBSET Entries, fresh : BOOLEAN]

Fetch ==
  [state : {"none", "reading", "ok", "error"}, rows : Seq(Seq(Int)), slots : Seq(Nat),
   got : Seq(Seq(Int))]

ReadTypes == reader \in Reader /\ fetch \in Fetch /\ Len(fetch.slots) = Len(fetch.got)

\* A reader that is closed.
LEMMA NothingRead ==
  NoReader \in Reader /\ NoFetch \in Fetch /\ Len(NoFetch.slots) = Len(NoFetch.got)
<1>1. <<>> \in Seq(Seq(Int)) /\ <<>> \in Seq(Nat) /\ {} \in SUBSET Entries
  OBVIOUS
<1> QED BY <1>1, ConstantsAre DEF NoReader, NoFetch, Reader, Fetch

LEMMA ReadTypesInit == ASSUME Init PROVE ReadTypes
BY NothingRead DEF Init, ReadTypes

\* A reader that is still fresh, and one that a command has begun to touch.
LEMMA FreshIs ==
  ASSUME reader \in Reader, NEW b \in BOOLEAN
  PROVE  /\ [reader EXCEPT !.fresh = b] \in Reader
         /\ [reader EXCEPT !.fresh = b].slot = reader.slot
         /\ [reader EXCEPT !.fresh = b].state = reader.state
BY DEF Reader

LEMMA ReadTypesBegin ==
  ASSUME ReadTypes, NEW mode \in {"random", "keys", "stream"}, NEW list \in Lists,
         NEW n \in 0..MaxGrams, NEW slot \in Slots, Begin(mode, list, n, slot)
  PROVE  ReadTypes'
<1>1. fetch' = fetch /\ (reader' = reader \/ reader' = [reader EXCEPT !.fresh = FALSE])
  BY DEF Begin
<1> QED BY <1>1, FreshIs DEF ReadTypes

\* What a reader finds in the keys file, and in the size of the view.
LEMMA FirstSlotsIn ==
  ASSUME NEW k \in Seq(Int)
  PROVE  FirstSlots(k) \in SUBSET Entries
BY EntriesOf DEF FirstSlots

LEMMA CountForIs ==
  ASSUME NEW w \in Widths, NEW n \in Nat, view \in Seq(Int)
  PROVE  CountFor(w, n) \in Nat
<1>1. w \in Nat \ {0} /\ Len(view) \in Nat
  BY ConstantsAre DEF Widths
<1>2. Len(view) \div w \in Nat
  BY <1>1, DivMod
<1> QED BY <1>2 DEF CountFor

\* The slots that a fetch chooses.
Table == IF reader.by = "disk" THEN index ELSE reader.memory

LEMMA SlotsChosen ==
  ASSUME BuildTypes, ReadTypes, NEW rows \in Batches, NEW slots \in SlotChoices(rows)
  PROVE  /\ rows \in Seq(Seq(Int)) /\ slots \in Seq(Nat) /\ Len(slots) = Len(rows)
         /\ IF reader.by = "order"
            THEN \A j \in 1..Len(rows) : slots[j] = reader.start + j - 1
            ELSE \A j \in 1..Len(rows) : <<rows[j], slots[j]>> \in Table
<1>1. rows \in Seq(Seq(Int)) /\ Len(rows) \in Nat
  BY ConstantsAre
<1>2. index \subseteq Entries /\ reader.memory \subseteq Entries /\ reader.start \in Nat
  BY DEF BuildTypes, ReadTypes, Reader
<1>3. CASE reader.by = "order"
  <2>1. slots = [j \in 1..Len(rows) |-> reader.start + j - 1]
    BY <1>3 DEF SlotChoices
  <2>2. slots \in [1..Len(rows) -> Nat]
    BY <1>1, <1>2, <2>1
  <2>3. slots \in Seq(Nat) /\ Len(slots) = Len(rows)
    BY <1>1, <2>2, FunIsSeq
  <2> QED BY <1>1, <1>3, <2>1, <2>3
<1>4. CASE reader.by # "order"
  <2>1. slots \in [1..Len(rows) -> {r[2] : r \in Table}]
        /\ \A j \in 1..Len(rows) : <<rows[j], slots[j]>> \in Table
    BY <1>4 DEF SlotChoices, Table
  <2>2. {r[2] : r \in Table} \subseteq Nat
    BY <1>2 DEF Table, Entries
  <2>3. slots \in [1..Len(rows) -> Nat]
    BY <2>1, <2>2
  <2>4. slots \in Seq(Nat) /\ Len(slots) = Len(rows)
    BY <1>1, <2>3, FunIsSeq
  <2> QED BY <1>1, <1>4, <2>1, <2>4
<1> QED BY <1>3, <1>4

\* A record that a fetch reads is inside the file.
LEMMA RecordIn ==
  ASSUME view \in Seq(Int), NEW w \in Widths, NEW s \in Nat, (s + 1) * w <= Len(view)
  PROVE  /\ RecordAt(w, s) \in Seq(Int) /\ Len(RecordAt(w, s)) = Heads
         /\ s * w \in Nat /\ s * w + Heads <= Len(view)
<1>1. w \in Nat \ {0} /\ Heads \in Nat /\ Heads <= w /\ Len(view) \in Nat
  BY ConstantsAre DEF Widths
<1>2. s * w \in Nat /\ (s + 1) * w = s * w + w
  BY <1>1, DivMul
<1>3. PICK a \in Nat, v \in Seq(Int) : a = s * w /\ v = view
  BY <1>2
<1>4. a + Heads <= Len(v)
  BY <1>1, <1>2, <1>3
<1>5. SubSeq(v, a + 1, a + Heads) \in Seq(Int) /\ Len(SubSeq(v, a + 1, a + Heads)) = Heads
  BY <1>1, <1>4, SliceInt
<1> QED BY <1>2, <1>3, <1>4, <1>5 DEF RecordAt

LEMMA ReadTypesRead ==
  ASSUME BuildTypes, ReadTypes, Read
  PROVE  ReadTypes'
<1>1. reader \in Reader /\ fetch \in Fetch /\ cmd \in Command /\ view \in Seq(Int)
      /\ keysFile \in Seq(Int)
      /\ Len(fetch.slots) = Len(fetch.got)
  BY DEF BuildTypes, ReadTypes
<1>2. CASE LoadIndex
  <2>1. PICK m, b : m = FirstSlots(keysFile) /\ b = cmd.complete
    OBVIOUS
  <2>2. m \in SUBSET Entries /\ b \in BOOLEAN
    BY <1>1, <2>1, FirstSlotsIn DEF Command
  <2>3. reader' = [NoReader EXCEPT !.state = "indexed", !.by = "memory", !.memory = m, !.fresh = b]
    BY <1>2, <2>1 DEF LoadIndex
  <2>4. reader' \in Reader
    BY <2>2, <2>3, NothingRead DEF Reader
  <2> QED BY <1>1, <1>2, <2>4 DEF LoadIndex, ReadTypes
<1>3. ASSUME NEW by \in {"disk", "memory", "order"}, NEW start \in 0..1, OpenManifest(by, start)
      PROVE  ReadTypes'
  <2>1. PICK w \in Widths, n \in Nat : w = SlotOf /\ n = GransOf
    BY SlotOfIs
  <2>2. PICK b \in BOOLEAN : b = (cmd.complete /\ (by = "memory" => reader.fresh))
    OBVIOUS
  <2>3. reader' = [reader EXCEPT !.state = "opening", !.slot = w, !.grans = n, !.by = by,
                                 !.start = start, !.fresh = b]
    BY <1>3, <2>1, <2>2, Zenon DEF OpenManifest
  <2>4. reader' \in Reader
    <3>1. start \in Nat
      OBVIOUS
    <3> QED BY <1>1, <2>3, <3>1 DEF Reader
  <2> QED BY <1>1, <1>3, <2>4 DEF OpenManifest, ReadTypes
<1>4. CASE OpenView
  <2>1. reader.slot \in Widths /\ reader.grans \in Nat
    BY <1>1 DEF Reader
  <2>2. PICK c \in Nat : c = CountFor(reader.slot, reader.grans)
    BY <1>1, <2>1, CountForIs
  <2>3. reader' = [reader EXCEPT !.state = "open", !.grans = 0, !.count = c]
    BY <1>4, <2>2 DEF OpenView
  <2>4. reader' \in Reader
    BY <1>1, <2>3 DEF Reader
  <2> QED BY <1>1, <1>4, <2>4 DEF OpenView, ReadTypes
<1>5. ASSUME NEW rows \in Batches, Ask(rows) PROVE ReadTypes'
  <2>1. reader' = reader
    BY <1>5 DEF Ask
  <2>2. rows \in Seq(Seq(Int)) /\ Len(rows) \in Nat
    BY ConstantsAre
  <2>3. CASE \E slots \in SlotChoices(rows) :
               fetch' = [state |-> IF InRange(slots) THEN "reading" ELSE "error", rows |-> rows,
                         slots |-> slots, got |-> [j \in 1..Len(rows) |-> <<>>]]
    <3>1. PICK slots \in SlotChoices(rows) :
            fetch' = [state |-> IF InRange(slots) THEN "reading" ELSE "error", rows |-> rows,
                      slots |-> slots, got |-> [j \in 1..Len(rows) |-> <<>>]]
      BY <2>3
    <3>2. PICK st, g : st = (IF InRange(slots) THEN "reading" ELSE "error")
                       /\ g = [j \in 1..Len(rows) |-> <<>>]
      OBVIOUS
    <3>3. st \in {"reading", "error"}
      BY <3>2
    <3>4. g \in Seq(Seq(Int)) /\ Len(g) = Len(rows)
      <4>1. g \in [1..Len(rows) -> Seq(Int)]
        BY <3>2
      <4> QED BY <2>2, <4>1, FunIsSeq
    <3>5. slots \in Seq(Nat) /\ Len(slots) = Len(rows)
      BY SlotsChosen
    <3>6. fetch' = [state |-> st, rows |-> rows, slots |-> slots, got |-> g]
      BY <3>1, <3>2, Zenon
    <3>7. fetch' \in Fetch
      BY <2>2, <3>3, <3>4, <3>5, <3>6 DEF Fetch
    <3> QED BY <1>1, <2>1, <3>4, <3>5, <3>6, <3>7 DEF ReadTypes
  <2>4. CASE fetch' = [NoFetch EXCEPT !.state = "error", !.rows = rows]
    <3>1. fetch' \in Fetch /\ Len(fetch'.slots) = Len(fetch'.got)
      BY <2>2, <2>4, NothingRead DEF Fetch
    <3> QED BY <1>1, <2>1, <3>1 DEF ReadTypes
  <2> QED BY <1>5, <2>3, <2>4 DEF Ask
<1>6. ASSUME NEW j \in DOMAIN fetch.got, ReadRecord(j) PROVE ReadTypes'
  <2>1. reader' = reader /\ reader.slot \in Widths /\ fetch.slots \in Seq(Nat)
        /\ fetch.got \in Seq(Seq(Int))
    BY <1>1, <1>6 DEF ReadRecord, Reader, Fetch
  <2>2. fetch.slots[j] \in Nat
    <3>1. PICK s \in Seq(Nat), g \in Seq(Seq(Int)) :
            s = fetch.slots /\ g = fetch.got /\ Len(s) = Len(g)
      BY <1>1, <2>1
    <3>2. s[j] \in Nat
      BY <3>1, LenProperties
    <3> QED BY <3>1, <3>2
  <2>3. CASE ~ ((fetch.slots[j] + 1) * reader.slot <= Len(view))
    <3>1. fetch' = [fetch EXCEPT !.state = "error"]
      BY <1>6, <2>3 DEF ReadRecord
    <3>2. fetch' \in Fetch /\ fetch'.slots = fetch.slots /\ fetch'.got = fetch.got
      BY <1>1, <3>1 DEF Fetch
    <3> QED BY <1>1, <2>1, <3>2 DEF ReadTypes
  <2>4. CASE (fetch.slots[j] + 1) * reader.slot <= Len(view)
    <3>1. PICK r \in Seq(Int) : r = RecordAt(reader.slot, fetch.slots[j])
      BY <1>1, <2>2, <2>1, <2>4, RecordIn
    <3>2. PICK g : g = [fetch.got EXCEPT ![j] = r]
      OBVIOUS
    <3>3. fetch' = [fetch EXCEPT !.got = g]
      <4>1. fetch' = [fetch EXCEPT !.got[j] = r]
        BY <1>6, <2>4, <3>1 DEF ReadRecord
      <4> QED BY <1>1, <3>2, <4>1 DEF Fetch
    <3>4. g \in Seq(Seq(Int)) /\ Len(g) = Len(fetch.got)
      BY <2>1, <3>2
    <3>5. fetch' \in Fetch /\ fetch'.slots = fetch.slots /\ fetch'.got = g
      BY <1>1, <3>3, <3>4 DEF Fetch
    <3> QED BY <1>1, <2>1, <3>4, <3>5 DEF ReadTypes
  <2> QED BY <2>3, <2>4
<1>7. CASE Answered
  <2>1. fetch' = [fetch EXCEPT !.state = "ok"] /\ reader' = reader
    BY <1>7 DEF Answered
  <2>2. fetch' \in Fetch /\ fetch'.slots = fetch.slots /\ fetch'.got = fetch.got
    BY <1>1, <2>1 DEF Fetch
  <2> QED BY <1>1, <2>1, <2>2 DEF ReadTypes
<1>8. CASE Close
  BY <1>8, NothingRead DEF Close, ReadTypes
<1> QED BY <1>2, <1>3, <1>4, <1>5, <1>6, <1>7, <1>8 DEF Read

-----------------------------------------------------------------------------
(* Whole records.                                                          *)

\* The slots of the file v, of width w, hold records of these grams.
GramSlots(v, w, grams) ==
  \E n \in Nat : /\ Len(v) = n * w
                 /\ \A g \in 0..(n - 1) : SubSeq(v, g * w + 1, g * w + Heads) \in grams

\* No slots, slots of more grams, the slots of a list.
LEMMA NoSlots == ASSUME NEW w \in Nat, NEW grams PROVE GramSlots(<<>>, w, grams)
<1>1. Len(<<>>) = 0 * w /\ 0..(0 - 1) = {}
  OBVIOUS
<1> QED BY <1>1 DEF GramSlots

LEMMA MoreGrams ==
  ASSUME NEW v, NEW w, NEW grams, NEW more, GramSlots(v, w, grams), grams \subseteq more
  PROVE  GramSlots(v, w, more)
BY DEF GramSlots

LEMMA SlotsOfGrams ==
  ASSUME NEW k \in Seq(Int), NEW w \in Widths
  PROVE  GramSlots(SlotsOf(k, w), w, GramsOf(k))
<1>1. PICK n \in Nat, v \in Seq(Int) : n = GramCount(k) /\ v = SlotsOf(k, w) /\ IsSlots(v, k, n, w)
  <2>1. GramCount(k) \in Nat
    BY CountIs
  <2> QED BY <2>1, SlotsOfIs
<1>2. ASSUME NEW g \in 0..(n - 1) PROVE SubSeq(v, g * w + 1, g * w + Heads) \in GramsOf(k)
  <2>1. SubSeq(v, g * w + 1, g * w + Heads) = GramAt(k, g)
    <3>1. n <= GramCount(k)
      BY <1>1
    <3> QED BY <1>1, <3>1, SlotAt
  <2>2. GramAt(k, g) \in GramsOf(k)
    BY <1>1 DEF GramsOf
  <2> QED BY <2>1, <2>2
<1>3. Len(v) = n * w
  BY <1>1 DEF IsSlots
<1>4. GramSlots(v, w, GramsOf(k))
  BY <1>2, <1>3 DEF GramSlots
<1> QED BY <1>1, <1>4

\* A slice of two files, one after the other, that does not cross from one into the other.
LEMMA SliceFirst ==
  ASSUME NEW v \in Seq(Int), NEW u \in Seq(Int), NEW a \in Nat, NEW l \in Nat, a + l <= Len(v)
  PROVE  SubSeq(v \o u, a + 1, a + l) = SubSeq(v, a + 1, a + l)
<1>1. PICK n \in Nat, m \in Nat : n = Len(v) /\ m = Len(u)
  BY LenProperties
<1>2. PICK c \in Seq(Int) : /\ c = v \o u /\ Len(c) = n + m
                           /\ \A i \in 1..(n + m) : c[i] = IF i <= n THEN v[i] ELSE u[i - n]
  <2>1. /\ v \o u \in Seq(Int) /\ Len(v \o u) = Len(v) + Len(u)
        /\ \A i \in 1..(Len(v) + Len(u)) : (v \o u)[i] = IF i <= Len(v) THEN v[i] ELSE u[i - Len(v)]
    BY ConcatProperties
  <2> QED BY <1>1, <2>1
<1>3. /\ SubSeq(c, a + 1, a + l) \in Seq(Int) /\ Len(SubSeq(c, a + 1, a + l)) = l
      /\ \A i \in 1..l : SubSeq(c, a + 1, a + l)[i] = c[a + i]
  <2>1. a + l <= Len(c)
    BY <1>1, <1>2
  <2> QED BY <2>1, SliceInt
<1>4. /\ SubSeq(v, a + 1, a + l) \in Seq(Int) /\ Len(SubSeq(v, a + 1, a + l)) = l
      /\ \A i \in 1..l : SubSeq(v, a + 1, a + l)[i] = v[a + i]
  BY SliceInt
<1>5. ASSUME NEW i \in 1..l PROVE SubSeq(c, a + 1, a + l)[i] = SubSeq(v, a + 1, a + l)[i]
  <2>1. a + i \in 1..(n + m) /\ a + i <= n
    BY <1>1
  <2>2. c[a + i] = v[a + i]
    BY <1>2, <2>1
  <2> QED BY <1>3, <1>4, <2>2
<1>6. SubSeq(c, a + 1, a + l) = SubSeq(v, a + 1, a + l)
  BY <1>3, <1>4, <1>5, SeqEqual
<1> QED BY <1>2, <1>6

\* The same for its second part.
LEMMA SliceSecond ==
  ASSUME NEW v \in Seq(Int), NEW u \in Seq(Int), NEW b \in Nat, NEW l \in Nat, b + l <= Len(u),
         NEW a \in Nat, a = Len(v) + b
  PROVE  SubSeq(v \o u, a + 1, a + l) = SubSeq(u, b + 1, b + l)
<1>1. PICK n \in Nat, m \in Nat : n = Len(v) /\ m = Len(u)
  BY LenProperties
<1>2. PICK c \in Seq(Int) : /\ c = v \o u /\ Len(c) = n + m
                           /\ \A i \in 1..(n + m) : c[i] = IF i <= n THEN v[i] ELSE u[i - n]
  <2>1. /\ v \o u \in Seq(Int) /\ Len(v \o u) = Len(v) + Len(u)
        /\ \A i \in 1..(Len(v) + Len(u)) : (v \o u)[i] = IF i <= Len(v) THEN v[i] ELSE u[i - Len(v)]
    BY ConcatProperties
  <2> QED BY <1>1, <2>1
<1>3. /\ SubSeq(c, a + 1, a + l) \in Seq(Int) /\ Len(SubSeq(c, a + 1, a + l)) = l
      /\ \A i \in 1..l : SubSeq(c, a + 1, a + l)[i] = c[a + i]
  <2>1. a + l <= Len(c)
    BY <1>1, <1>2
  <2> QED BY <2>1, SliceInt
<1>4. /\ SubSeq(u, b + 1, b + l) \in Seq(Int) /\ Len(SubSeq(u, b + 1, b + l)) = l
      /\ \A i \in 1..l : SubSeq(u, b + 1, b + l)[i] = u[b + i]
  BY SliceInt
<1>5. ASSUME NEW i \in 1..l PROVE SubSeq(c, a + 1, a + l)[i] = SubSeq(u, b + 1, b + l)[i]
  <2>1. a + i \in 1..(n + m) /\ ~ (a + i <= n) /\ (a + i) - n = b + i
    BY <1>1
  <2>2. c[a + i] = u[b + i]
    BY <1>2, <2>1
  <2> QED BY <1>3, <1>4, <2>2
<1>6. SubSeq(c, a + 1, a + l) = SubSeq(u, b + 1, b + l)
  BY <1>3, <1>4, <1>5, SeqEqual
<1> QED BY <1>2, <1>6

\* A file of slots to which slots are appended is a file of slots.
LEMMA MoreSlots ==
  ASSUME NEW v \in Seq(Int), NEW u \in Seq(Int), NEW w \in Widths, NEW grams,
         GramSlots(v, w, grams), GramSlots(u, w, grams)
  PROVE  GramSlots(v \o u, w, grams)
<1>1. w \in Nat \ {0} /\ Heads \in Nat /\ Heads <= w
  BY ConstantsAre DEF Widths
<1>2. PICK n \in Nat : /\ Len(v) = n * w
                       /\ \A g \in 0..(n - 1) : SubSeq(v, g * w + 1, g * w + Heads) \in grams
  BY DEF GramSlots
<1>3. PICK m \in Nat : /\ Len(u) = m * w
                       /\ \A g \in 0..(m - 1) : SubSeq(u, g * w + 1, g * w + Heads) \in grams
  BY DEF GramSlots
<1>4. PICK p \in Nat, q \in Nat : p = n * w /\ q = m * w
  <2>1. n * w \in Nat /\ m * w \in Nat
    BY <1>1
  <2> QED BY <2>1
<1>5. ASSUME NEW g \in 0..(n + m - 1)
      PROVE  SubSeq(v \o u, g * w + 1, g * w + Heads) \in grams
  <2>1. CASE g < n
    <3>1. g * w + w <= n * w /\ g * w \in Nat /\ g \in 0..(n - 1)
      BY <1>1, <2>1, BlockBelow
    <3>2. PICK a \in Nat : a = g * w
      BY <3>1
    <3>3. a + Heads <= Len(v)
      <4>1. a + w <= p
        BY <1>4, <3>1, <3>2
      <4>2. Len(v) = p
        BY <1>2, <1>4
      <4> QED BY <1>1, <4>1, <4>2
    <3>4. SubSeq(v \o u, a + 1, a + Heads) = SubSeq(v, a + 1, a + Heads)
      BY <1>1, <3>3, SliceFirst
    <3> QED BY <1>2, <3>1, <3>2, <3>4
  <2>2. CASE ~ (g < n)
    <3>1. PICK h \in 0..(m - 1) : g = n + h /\ h \in Nat
      <4>1. g - n \in 0..(m - 1) /\ g = n + (g - n) /\ g - n \in Nat
        BY <2>2
      <4> QED BY <4>1
    <3>2. h * w + w <= m * w /\ h * w \in Nat /\ g * w = n * w + h * w
      BY <1>1, <3>1, BlockBelow
    <3>3. PICK a \in Nat, b \in Nat : a = g * w /\ b = h * w /\ a = p + b
      <4>1. g * w = p + h * w /\ g * w \in Nat
        BY <1>4, <3>2
      <4> QED BY <3>2, <4>1
    <3>4. b + Heads <= Len(u)
      <4>1. b + w <= q
        BY <1>4, <3>2, <3>3
      <4>2. Len(u) = q
        BY <1>3, <1>4
      <4> QED BY <1>1, <4>1, <4>2
    <3>5. SubSeq(v \o u, a + 1, a + Heads) = SubSeq(u, b + 1, b + Heads)
      <4>1. a = Len(v) + b
        BY <1>2, <1>4, <3>3
      <4> QED BY <1>1, <3>4, <4>1, SliceSecond
    <3> QED BY <1>3, <3>1, <3>3, <3>5
  <2> QED BY <2>1, <2>2
<1>6. Len(v \o u) = (n + m) * w
  <2>1. Len(v \o u) = p + q
    BY <1>2, <1>3, <1>4, ConcatProperties
  <2>2. (n + m) * w = n * w + m * w
    BY <1>1
  <2> QED BY <1>4, <2>1, <2>2
<1>7. PICK t \in Nat : t = n + m
  OBVIOUS
<1>8. Len(v \o u) = t * w
  BY <1>6, <1>7
<1>9. ASSUME NEW g \in 0..(t - 1) PROVE SubSeq(v \o u, g * w + 1, g * w + Heads) \in grams
  <2>1. g \in 0..(n + m - 1)
    BY <1>7
  <2> QED BY <1>5, <2>1, Zenon
<1> QED BY <1>8, <1>9 DEF GramSlots

\* The slot that a fetch reads is one of them.
LEMMA SlotRead ==
  ASSUME NEW w \in Widths, NEW grams, GramSlots(view, w, grams), NEW s \in Nat,
         (s + 1) * w <= Len(view)
  PROVE  RecordAt(w, s) \in grams
<1>1. w \in Nat \ {0}
  BY ConstantsAre DEF Widths
<1>2. PICK n \in Nat : /\ Len(view) = n * w
                       /\ \A g \in 0..(n - 1) : SubSeq(view, g * w + 1, g * w + Heads) \in grams
  BY DEF GramSlots
<1>3. s < n
  <2>1. (s + 1) * w = s * w + w /\ s * w \in Nat /\ n * w \in Nat
    BY <1>1, DivMul
  <2>2. s * w < n * w
    BY <1>1, <1>2, <2>1
  <2> QED BY <1>1, <2>2, BlockBelow
<1>4. s \in 0..(n - 1)
  BY <1>3
<1> QED BY <1>2, <1>4 DEF RecordAt

\* The grams of an aligned chunk are grams of the list.
LEMMA ChunkGramsOf ==
  ASSUME NEW k \in Seq(Int), NEW c \in Seq(Int), NEW at \in Nat, at % Heads = 0,
         at + Len(c) <= Len(k), \A p \in 1..Len(c) : c[p] = k[at + p]
  PROVE  GramsOf(c) \subseteq GramsOf(k)
<1>1. Heads \in Nat \ {0} /\ GramCount(c) \in Nat /\ GramCount(k) \in Nat
  BY ConstantsAre, CountIs
<1>2. PICK n \in Nat : at = n * Heads
  <2>1. at \div Heads \in Nat /\ at = (at \div Heads) * Heads + 0
    BY <1>1, DivMod
  <2>2. (at \div Heads) * Heads \in Nat
    BY <1>1, <2>1
  <2>3. at = (at \div Heads) * Heads
    BY <2>1, <2>2
  <2> QED BY <2>1, <2>3
<1>3. ASSUME NEW i \in 0..(GramCount(c) - 1) PROVE GramAt(c, i) \in GramsOf(k)
  <2>1. /\ i \in Nat /\ i * Heads \in Nat /\ i * Heads + Heads <= Len(c)
        /\ GramAt(c, i) \in Seq(Int) /\ Len(GramAt(c, i)) = Heads
        /\ \A x \in 1..Heads : GramAt(c, i)[x] = c[i * Heads + x]
    BY <1>1, GramIs
  <2>2. PICK j \in Nat : j = n + i
    BY <2>1
  <2>3. j * Heads = at + i * Heads
    <3>1. j * Heads = n * Heads + i * Heads
      BY <1>1, <2>1, <2>2
    <3> QED BY <1>2, <3>1
  <2>4. j \in 0..(GramCount(k) - 1)
    <3>1. PICK a \in Nat : a = j * Heads /\ a + Heads <= Len(k)
      <4>1. at + i * Heads \in Nat /\ at + i * Heads + Heads <= Len(k)
        <5>1. PICK l \in Nat, b \in Nat : l = Len(c) /\ b = i * Heads
          BY <2>1, LenProperties
        <5>2. b + Heads <= l /\ at + l <= Len(k) /\ Len(k) \in Nat
          BY <2>1, <5>1, LenProperties
        <5>3. at + b \in Nat /\ at + b + Heads <= Len(k)
          BY <1>1, <5>2
        <5> QED BY <5>1, <5>3
      <4> QED BY <2>3, <4>1
    <3>2. Len(k) = GramCount(k) * Heads + (Len(k) % Heads) /\ Len(k) \in Nat
          /\ Len(k) % Heads \in 0..(Heads - 1) /\ GramCount(k) * Heads \in Nat
      BY <1>1, CountIs, DivMod
    <3>3. j * Heads < GramCount(k) * Heads
      BY <1>1, <3>1, <3>2, SMTT(30)
    <3>4. j < GramCount(k)
      BY <1>1, <3>3, BlockBelow
    <3> QED BY <1>1, <3>4
  <2>5. /\ GramAt(k, j) \in Seq(Int) /\ Len(GramAt(k, j)) = Heads
        /\ \A x \in 1..Heads : GramAt(k, j)[x] = k[j * Heads + x]
    BY <2>4, GramIs
  <2>6. ASSUME NEW x \in 1..Heads PROVE GramAt(c, i)[x] = GramAt(k, j)[x]
    <3>1. PICK b \in Nat : b = i * Heads
      BY <2>1
    <3>2. b + x \in 1..Len(c)
      <4>1. PICK l \in Nat : l = Len(c)
        BY LenProperties
      <4>2. b + Heads <= l
        BY <2>1, <3>1, <4>1
      <4> QED BY <1>1, <4>1, <4>2
    <3>3. c[b + x] = k[at + (b + x)]
      BY <3>2
    <3>4. at + (b + x) = j * Heads + x
      BY <1>1, <2>3, <3>1
    <3>5. GramAt(c, i)[x] = c[b + x]
      BY <2>1, <3>1
    <3>6. GramAt(k, j)[x] = k[j * Heads + x]
      BY <2>5
    <3> QED BY <3>3, <3>4, <3>5, <3>6
  <2>7. GramAt(c, i) = GramAt(k, j)
    BY <2>1, <2>5, <2>6, SeqEqual
  <2> QED BY <2>4, <2>7 DEF GramsOf
<1> QED BY <1>3 DEF GramsOf

\* While all commands use one width, the view and the buffer before it are slots of
\* that width with grams of the commands.
FileInv ==
  /\ cmd.pc # "idle" => cmd.slot \in widths /\ GramsOf(cmd.keys) \subseteq written
  /\ widths = {} => view = <<>>
  /\ \A w \in widths : widths = {w} =>
       GramSlots(view, w, written) /\ GramSlots(cmd.rows, w, written)

\* It holds of no file, and of a view that a command is about to overwrite.
LEMMA FileInit == ASSUME Init PROVE FileInv
BY DEF Init, NoCommand, FileInv

LEMMA FileBegin ==
  ASSUME BuildTypes, BuildInv, FileInv, NEW mode \in {"random", "keys", "stream"},
         NEW list \in Lists, NEW n \in 0..MaxGrams, NEW slot \in Slots, Begin(mode, list, n, slot)
  PROVE  FileInv'
<1>1. UNCHANGED view /\ cmd.pc = "idle"
  BY DEF Begin
<1>2. CASE Refused(mode, list, n)
  BY <1>1, <1>2 DEF Begin, FileInv
<1>3. CASE ~ Refused(mode, list, n)
  <2>1. PICK k \in Seq(Int), pc \in {"keys1", "view1"} :
          /\ cmd' = [NoCommand EXCEPT !.pc = pc, !.mode = mode, !.slot = slot, !.keys = k]
          /\ GramsOf(k) \subseteq GramsOf(list)
    BY <1>3, TakenIs DEF Begin
  <2>2. cmd'.slot = slot /\ cmd'.keys = k /\ cmd'.rows = <<>>
    BY <2>1 DEF NoCommand
  <2>3. widths' = widths \cup {slot} /\ written' = written \cup GramsOf(list)
    BY <1>3 DEF Begin
  <2>4. ASSUME NEW w \in widths', widths' = {w}
        PROVE  GramSlots(view, w, written') /\ GramSlots(<<>>, w, written')
    <3>1. w = slot /\ w \in Nat /\ (widths = {} \/ (widths = {w} /\ w \in widths))
      BY <2>3, <2>4, ConstantsAre DEF Widths
    <3>2. GramSlots(<<>>, w, written')
      BY <3>1, NoSlots
    <3>3. CASE widths = {}
      BY <3>2, <3>3 DEF FileInv
    <3>4. CASE widths = {w} /\ w \in widths
      <4>1. GramSlots(view, w, written)
        BY <3>4 DEF FileInv
      <4>2. written \subseteq written'
        BY <2>3
      <4> QED BY <3>2, <4>1, <4>2, MoreGrams
    <3> QED BY <3>1, <3>3, <3>4
  <2>5. \A w \in widths' : widths' = {w} =>
          GramSlots(view', w, written') /\ GramSlots(cmd'.rows, w, written')
    BY <1>1, <2>2, <2>4
  <2>6. cmd'.slot \in widths' /\ GramsOf(cmd'.keys) \subseteq written' /\ widths' # {}
    BY <2>1, <2>2, <2>3
  <2> QED BY <2>5, <2>6 DEF FileInv
<1> QED BY <1>2, <1>3

\* What a step of a build command does to the view and to its buffer.
LEMMA WriteFiles ==
  ASSUME BuildTypes, BuildInv, Write
  PROVE  /\ cmd.pc # "idle"
         /\ cmd'.pc # "idle" => cmd'.slot = cmd.slot /\ cmd'.keys = cmd.keys
         /\ view' \in {view, <<>>, view \o cmd.rows}
         /\ \/ cmd'.rows = cmd.rows \/ cmd'.rows = <<>>
            \/ \E c \in Seq(Int) : /\ cmd'.rows = cmd.rows \o SlotsOf(c, cmd.slot)
                                   /\ GramsOf(c) \subseteq GramsOf(cmd.keys)
<1>1. cmd \in Command
  BY DEF BuildTypes
<1>2. CASE WriteChunk
  <2>1. cmd.pc = "chunk" /\ view' = view
    BY <1>2 DEF WriteChunk, At
  <2>2. cmd.keys \in Seq(Int) /\ cmd.at \in 0..Len(cmd.keys) /\ cmd.at % Heads = 0
    BY <1>1, <2>1 DEF BuildInv, WrittenInv, Command
  <2>3. PICK k \in Seq(Int), at \in 0..Len(cmd.keys) : k = cmd.keys /\ at = cmd.at
    BY <2>2
  <2>4. PICK c \in Seq(Int) : /\ c = Chunk /\ at + Len(c) <= Len(k)
                             /\ \A p \in 1..Len(c) : c[p] = k[at + p]
    BY <2>3, ChunkIs
  <2>5. GramsOf(c) \subseteq GramsOf(k)
    <3>1. at \in Nat /\ at % Heads = 0
      BY <2>2, <2>3
    <3> QED BY <2>4, <3>1, ChunkGramsOf
  <2>6. PICK r : r = cmd.rows \o SlotsOf(c, cmd.slot)
    OBVIOUS
  <2>7. PICK l, a : cmd' = [cmd EXCEPT !.at = a, !.lines = l, !.rows = r]
    BY <1>2, <2>4, <2>6 DEF WriteChunk
  <2>8. cmd'.rows = r /\ cmd'.slot = cmd.slot /\ cmd'.keys = cmd.keys
    BY <1>1, <2>7 DEF Command
  <2> QED BY <2>1, <2>3, <2>5, <2>6, <2>8
<1>3. CASE SpillView
  BY <1>1, <1>3 DEF SpillView, Command
<1>4. CASE TruncateView \/ TruncateKeys \/ EndOfKeys \/ FlushView \/ CreateManifest
           \/ WriteManifest \/ FinishIndex
  <2>1. PICK pc \in Pc : cmd' = [cmd EXCEPT !.pc = pc] /\ view' \in {view, <<>>} /\ cmd.pc # "idle"
    BY <1>4 DEF TruncateView, TruncateKeys, EndOfKeys, FlushView, CreateManifest, WriteManifest,
                FinishIndex, Goto, At, Pc
  <2> QED BY <1>1, <2>1, GotoIs
<1>5. CASE SpillKeys \/ (\E g \in cmd.todo : IndexGram(g))
  BY <1>1, <1>5 DEF SpillKeys, IndexGram, At, Command
<1>6. CASE \E withIndex \in BOOLEAN : CloseKeys(withIndex)
  <2>1. PICK withIndex \in BOOLEAN : CloseKeys(withIndex)
    BY <1>6
  <2>2. PICK pc, todo : cmd' = [cmd EXCEPT !.lines = <<>>, !.withIndex = withIndex, !.pc = pc,
                                           !.todo = todo]
    BY <2>1, Zenon DEF CloseKeys
  <2> QED BY <1>1, <2>1, <2>2 DEF CloseKeys, At, Command
<1>7. CASE \E check \in BOOLEAN : EndBuild(check)
  <2>1. PICK check \in BOOLEAN : EndBuild(check)
    BY <1>7
  <2>2. PICK b \in BOOLEAN : cmd' = [NoCommand EXCEPT !.complete = b, !.keys = cmd.keys,
                                       !.slot = cmd.slot, !.withIndex = cmd.withIndex]
    BY <2>1, Zenon DEF EndBuild
  <2>3. cmd.pc = "verify" /\ view' = view
    BY <2>1 DEF EndBuild, At
  <2>4. cmd'.pc = "idle" /\ cmd'.rows = <<>>
    BY <2>2 DEF NoCommand
  <2> QED BY <2>3, <2>4
<1>8. CASE RejectStream \/ \E flushed \in BOOLEAN : Stop(flushed)
  <2>1. cmd.pc # "idle" /\ \E flushed \in BOOLEAN : Abort(flushed)
    BY <1>8 DEF RejectStream, Stop, At
  <2> QED BY <2>1 DEF Abort, NoCommand
<1> QED BY <1>2, <1>3, <1>4, <1>5, <1>6, <1>7, <1>8 DEF Write

\* A command appends slots of its own grams to the buffer, or the buffer to the view.
LEMMA FileWrite ==
  ASSUME BuildTypes, BuildInv, FileInv, Write
  PROVE  FileInv'
<1>1. /\ cmd.pc # "idle" /\ cmd.slot \in widths /\ GramsOf(cmd.keys) \subseteq written
      /\ cmd'.pc # "idle" => cmd'.slot = cmd.slot /\ cmd'.keys = cmd.keys
      /\ UNCHANGED <<widths, written>>
  BY WriteFiles, WriteLeaves DEF FileInv
<1>2. ASSUME NEW w \in widths, widths = {w}
      PROVE  GramSlots(view', w, written) /\ GramSlots(cmd'.rows, w, written)
  <2>1. GramSlots(view, w, written) /\ GramSlots(cmd.rows, w, written) /\ cmd.slot = w
    BY <1>1, <1>2 DEF FileInv
  <2>2. /\ w \in Widths /\ w \in Nat /\ view \in Seq(Int) /\ cmd.rows \in Seq(Int)
    BY DEF BuildTypes, Widths, Command
  <2>3. PICK v \in Seq(Int), r \in Seq(Int) : v = view /\ r = cmd.rows
    BY <2>2
  <2>4. GramSlots(<<>>, w, written)
    BY <2>2, NoSlots
  <2>5. GramSlots(v \o r, w, written)
    BY <2>1, <2>2, <2>3, MoreSlots
  <2>6. GramSlots(view', w, written)
    BY <2>1, <2>3, <2>4, <2>5, WriteFiles
  <2>7. CASE cmd'.rows = cmd.rows \/ cmd'.rows = <<>>
    BY <2>1, <2>4, <2>6, <2>7
  <2>8. CASE \E c \in Seq(Int) : /\ cmd'.rows = cmd.rows \o SlotsOf(c, cmd.slot)
                                 /\ GramsOf(c) \subseteq GramsOf(cmd.keys)
    <3>1. PICK c \in Seq(Int) : /\ cmd'.rows = cmd.rows \o SlotsOf(c, cmd.slot)
                                /\ GramsOf(c) \subseteq GramsOf(cmd.keys)
      BY <2>8
    <3>2. PICK s \in Seq(Int) : s = SlotsOf(c, w) /\ GramSlots(s, w, GramsOf(c))
      BY <2>2, SlotsOfIs, SlotsOfGrams
    <3>3. GramsOf(c) \subseteq written
      BY <1>1, <3>1
    <3>4. GramSlots(s, w, written)
      BY <3>2, <3>3, MoreGrams
    <3>5. GramSlots(r \o s, w, written)
      BY <2>1, <2>2, <2>3, <3>4, MoreSlots
    <3>6. cmd'.rows = r \o s
      BY <2>1, <2>3, <3>1, <3>2
    <3> QED BY <2>6, <3>5, <3>6
  <2> QED BY <2>7, <2>8, WriteFiles
<1> QED BY <1>1, <1>2 DEF FileInv

LEMMA FileRead ==
  ASSUME FileInv, UNCHANGED <<Files, cmd, widths, written>>
  PROVE  FileInv'
BY DEF FileInv, Files

-----------------------------------------------------------------------------
(* What a fetch has read.                                                  *)

\* What a fetch has read, while all commands use the reader's width.
GotInv ==
  /\ reader.state \in {"closed", "indexed", "opening"} => fetch = NoFetch
  /\ widths \subseteq {reader.slot} =>
       \A j \in DOMAIN fetch.got : fetch.got[j] = <<>> \/ fetch.got[j] \in written
  /\ fetch.state = "ok" => \A j \in DOMAIN fetch.got : fetch.got[j] # <<>>

\* No fetch has read anything.
LEMMA NoFetchIs == NoFetch.state = "none" /\ NoFetch.got = <<>> /\ DOMAIN NoFetch.got = {}
BY DEF NoFetch

LEMMA GotInit == ASSUME Init PROVE GotInv
BY NoFetchIs DEF Init, GotInv

\* A command that begins adds its width and its grams.
LEMMA GotBegin ==
  ASSUME BuildTypes, ReadTypes, GotInv, NEW mode \in {"random", "keys", "stream"},
         NEW list \in Lists, NEW n \in 0..MaxGrams, NEW slot \in Slots, Begin(mode, list, n, slot)
  PROVE  GotInv'
<1>1. CASE Refused(mode, list, n)
  BY <1>1 DEF Begin, GotInv
<1>2. CASE ~ Refused(mode, list, n)
  <2>1. reader' = [reader EXCEPT !.fresh = FALSE] /\ fetch' = fetch
        /\ widths \subseteq widths' /\ written \subseteq written'
    BY <1>2 DEF Begin
  <2>2. reader'.slot = reader.slot /\ reader'.state = reader.state
    BY <2>1, FreshIs DEF ReadTypes
  <2> QED BY <2>1, <2>2 DEF GotInv
<1> QED BY <1>1, <1>2

\* A record that is read is one slot of the view: all of a gram.
LEMMA GotRead ==
  ASSUME BuildTypes, ReadTypes, FileInv, GotInv, Read
  PROVE  GotInv'
<1>1. /\ reader \in Reader /\ fetch \in Fetch /\ Len(fetch.slots) = Len(fetch.got)
      /\ UNCHANGED <<widths, written>>
  BY ReadLeaves DEF ReadTypes
<1>2. CASE LoadIndex \/ (\E by \in {"disk", "memory"} : OpenManifest(by, 0))
           \/ (\E start \in 0..1 : OpenManifest("order", start))
  <2>1. fetch' = fetch /\ fetch = NoFetch
    BY <1>2 DEF LoadIndex, OpenManifest, GotInv
  <2> QED BY <2>1, NoFetchIs DEF GotInv
<1>3. CASE OpenView
  <2>1. fetch' = fetch /\ fetch = NoFetch
    BY <1>3 DEF OpenView, GotInv
  <2> QED BY <2>1, NoFetchIs DEF GotInv
<1>4. CASE \E rows \in Batches : Ask(rows)
  <2>1. PICK rows \in Batches : Ask(rows)
    BY <1>4
  <2>2. reader' = reader /\ reader.state = "open"
    BY <2>1 DEF Ask
  <2>3. fetch'.state # "ok" /\ \A j \in DOMAIN fetch'.got : fetch'.got[j] = <<>>
    <3>1. CASE \E slots \in SlotChoices(rows) :
                 fetch' = [state |-> IF InRange(slots) THEN "reading" ELSE "error", rows |-> rows,
                           slots |-> slots, got |-> [j \in 1..Len(rows) |-> <<>>]]
      BY <3>1
    <3>2. CASE fetch' = [NoFetch EXCEPT !.state = "error", !.rows = rows]
      <4>1. fetch'.state = "error" /\ fetch'.got = <<>>
        BY <3>2 DEF NoFetch
      <4> QED BY <4>1
    <3> QED BY <2>1, <3>1, <3>2 DEF Ask
  <2> QED BY <1>1, <2>2, <2>3 DEF GotInv
<1>5. CASE \E j \in DOMAIN fetch.got : ReadRecord(j)
  <2>1. PICK j \in DOMAIN fetch.got : ReadRecord(j)
    BY <1>5
  <2>2. reader' = reader /\ fetch.state = "reading" /\ reader.state = "open"
    <3>1. reader' = reader /\ fetch.state = "reading"
      BY <2>1 DEF ReadRecord
    <3>2. reader.state = "open"
      BY <1>1, <3>1, NoFetchIs DEF GotInv, Reader
    <3> QED BY <3>1, <3>2
  <2>3. CASE ~ ((fetch.slots[j] + 1) * reader.slot <= Len(view))
    <3>1. fetch' = [fetch EXCEPT !.state = "error"]
      BY <2>1, <2>3 DEF ReadRecord
    <3>2. fetch'.state = "error" /\ fetch'.got = fetch.got
      BY <1>1, <3>1 DEF Fetch
    <3> QED BY <1>1, <2>2, <3>2 DEF GotInv
  <2>4. CASE (fetch.slots[j] + 1) * reader.slot <= Len(view)
    <3>1. PICK s \in Nat, w \in Widths : s = fetch.slots[j] /\ w = reader.slot
      <4>1. PICK t \in Seq(Nat), g \in Seq(Seq(Int)) :
              t = fetch.slots /\ g = fetch.got /\ Len(t) = Len(g)
        BY <1>1 DEF Fetch
      <4>2. t[j] \in Nat
        BY <4>1, LenProperties
      <4> QED BY <1>1, <4>1, <4>2 DEF Reader
    <3>2. PICK r : r = RecordAt(w, s)
      OBVIOUS
    <3>3. fetch' = [fetch EXCEPT !.got[j] = r]
      BY <2>1, <2>4, <3>1, <3>2 DEF ReadRecord
    <3>4. /\ fetch'.state = fetch.state /\ fetch'.got = [fetch.got EXCEPT ![j] = r]
      BY <1>1, <3>3 DEF Fetch
    <3>5. widths \subseteq {w} => r \in written
      <4> SUFFICES ASSUME widths \subseteq {w} PROVE r \in written
        OBVIOUS
      <4>1. (s + 1) * w <= Len(view) /\ view \in Seq(Int)
        BY <2>4, <3>1 DEF BuildTypes
      <4>2. CASE widths = {}
        <5>1. Len(view) = 0
          BY <4>2, EmptySeq DEF FileInv
        <5>2. w \in Nat \ {0}
          BY ConstantsAre DEF Widths
        <5>3. (s + 1) * w = s * w + w /\ s * w \in Nat
          BY <5>2, DivMul
        <5> QED BY <4>1, <5>1, <5>2, <5>3
      <4>3. CASE widths = {w}
        <5>1. GramSlots(view, w, written)
          BY <4>3 DEF FileInv
        <5> QED BY <3>2, <4>1, <5>1, SlotRead
      <4> QED BY <4>2, <4>3
    <3> QED BY <1>1, <2>2, <3>1, <3>4, <3>5 DEF GotInv
  <2> QED BY <2>3, <2>4
<1>6. CASE Answered
  <2>1. reader' = reader /\ fetch' = [fetch EXCEPT !.state = "ok"] /\ fetch.state = "reading"
        /\ \A j \in DOMAIN fetch.got : fetch.got[j] # <<>>
    BY <1>6 DEF Answered
  <2>2. fetch'.got = fetch.got
    BY <1>1, <2>1 DEF Fetch
  <2> QED BY <1>1, <2>1, <2>2, NoFetchIs DEF GotInv
<1>7. CASE Close
  BY <1>7, NoFetchIs DEF Close, GotInv
<1> QED BY <1>2, <1>3, <1>4, <1>5, <1>6, <1>7 DEF Read

\* The invariant gives the property.
LEMMA WholeRecordsHold ==
  ASSUME GotInv
  PROVE  WholeRecords
BY DEF GotInv, WholeRecords, ToSet

-----------------------------------------------------------------------------
(* A fresh view.                                                           *)

\* A fetch over a view that a command has completed and none has touched since.
FreshInv ==
  reader.fresh =>
    /\ cmd.complete
    /\ reader.state = "indexed" \/ (reader.state \in {"opening", "open"} /\ reader.by = "memory") =>
         reader.memory = FirstSlots(cmd.keys)
    /\ reader.state \in {"opening", "open"} => reader.slot = cmd.slot
    /\ reader.state = "opening" => reader.grans = GramCount(cmd.keys)
    /\ reader.state = "open" => reader.count = GramCount(cmd.keys)
    /\ fetch.state \in {"reading", "ok"} =>
         /\ Len(fetch.slots) = Len(fetch.rows)
         /\ \A j \in 1..Len(fetch.rows) :
              /\ fetch.slots[j] \in 0..(GramCount(cmd.keys) - 1)
              /\ \/ fetch.got[j] = GramAt(cmd.keys, fetch.slots[j])
                 \/ fetch.state = "reading" /\ fetch.got[j] = <<>>
              /\ IF reader.by = "order" THEN fetch.slots[j] = reader.start + j - 1
                 ELSE <<fetch.rows[j], fetch.slots[j]>> \in Table
    /\ fetch.state = "error" =>
         IF reader.by = "order"
         THEN fetch.rows # <<>> /\ reader.start + Len(fetch.rows) > GramCount(cmd.keys)
         ELSE ~ ((reader.by = "disk" => cmd.withIndex)
                 /\ ToSet(fetch.rows) \subseteq GramsOf(cmd.keys))

LEMMA FreshInit == ASSUME Init PROVE FreshInv
BY DEF Init, NoReader, FreshInv

\* A command that begins, or is in progress, leaves no reader fresh.
LEMMA FreshBegin ==
  ASSUME ReadTypes, FreshInv, NEW mode, NEW list, NEW n, NEW slot, Begin(mode, list, n, slot)
  PROVE  FreshInv'
<1>1. CASE Refused(mode, list, n)
  BY <1>1 DEF Begin, FreshInv, Table
<1>2. CASE ~ Refused(mode, list, n)
  <2>1. reader' = [reader EXCEPT !.fresh = FALSE]
    BY <1>2 DEF Begin
  <2>2. reader'.fresh = FALSE
    BY <2>1 DEF ReadTypes, Reader
  <2> QED BY <2>2 DEF FreshInv
<1> QED BY <1>1, <1>2

LEMMA FreshWrite ==
  ASSUME BuildTypes, BuildInv, FreshInv, Write
  PROVE  FreshInv'
<1>1. cmd.pc # "idle" /\ reader' = reader
  BY WriteFiles, WriteLeaves
<1>2. ~ cmd.complete
  BY <1>1 DEF BuildInv, VerdictInv
<1> QED BY <1>1, <1>2 DEF FreshInv

\* Every gram of the list has a first place.
LEMMA FirstPlace ==
  ASSUME NEW k \in Seq(Int), NEW g \in GramsOf(k)
  PROVE  \E s \in Nat : <<g, s>> \in FirstSlots(k)
<1>1. GramCount(k) \in Nat
  BY CountIs
<1>2. PICK T : T \in SUBSET Nat /\ T = {i \in 0..(GramCount(k) - 1) : GramAt(k, i) = g}
  <2>1. PICK T : T = {i \in 0..(GramCount(k) - 1) : GramAt(k, i) = g}
    OBVIOUS
  <2>2. \A i \in T : i \in Nat
    BY <1>1, <2>1
  <2> QED BY <2>1, <2>2
<1>3. T # {}
  BY <1>2 DEF GramsOf
<1>4. \E s \in T : \A i \in T : s <= i
  BY <1>2, <1>3, LeastNat
<1>5. PICK s \in Nat : s \in T /\ \A i \in T : s <= i
  BY <1>2, <1>4
<1>6. <<g, s>> \in IndexOf(k)
  BY <1>2, <1>5 DEF IndexOf
<1>7. ASSUME NEW q \in IndexOf(k), g = q[1] PROVE s <= q[2]
  <2>1. PICK i \in 0..(GramCount(k) - 1) : q = <<GramAt(k, i), i>>
    BY DEF IndexOf
  <2>2. i \in T /\ q[2] = i
    BY <1>2, <1>7, <2>1
  <2> QED BY <1>5, <2>2
<1>8. <<g, s>> \in FirstSlots(k)
  BY <1>6, <1>7 DEF FirstSlots
<1> QED BY <1>8

\* An entry of the table of a fresh reader is the place of a gram, and every gram
\* of the list has one.
LEMMA TableIs ==
  ASSUME BuildTypes, BuildInv, FreshInv, reader.fresh, reader.state = "open",
         reader.by = "disk" \/ reader.by = "memory", reader.by = "disk" => cmd.withIndex,
         NEW g \in GramsOf(cmd.keys)
  PROVE  /\ \A s : <<g, s>> \in Table =>
              s \in 0..(GramCount(cmd.keys) - 1) /\ g = GramAt(cmd.keys, s)
         /\ \E s : <<g, s>> \in Table
<1>1. cmd.complete
  BY DEF FreshInv
<1>2. cmd.keys \in Seq(Int) /\ (cmd.withIndex => Indexed(index, cmd.keys, {}))
  BY <1>1, OpenedView
<1>3. PICK k \in Seq(Int) : k = cmd.keys
  BY <1>2
<1>4. /\ {r \in Table : r[1] \in GramsOf(k)} \subseteq IndexOf(k)
      /\ \E s : <<g, s>> \in Table
  <2>1. CASE reader.by = "disk"
    <3>1. Table = index
      BY <2>1 DEF Table
    <3>2. {r \in index : r[1] \in GramsOf(k)} = IndexOf(k)
      BY <1>2, <1>3, <2>1 DEF Indexed
    <3>3. PICK i \in 0..(GramCount(k) - 1) : g = GramAt(k, i)
      BY <1>3 DEF GramsOf
    <3>4. <<g, i>> \in IndexOf(k)
      BY <3>3 DEF IndexOf
    <3> QED BY <3>1, <3>2, <3>4
  <2>2. CASE reader.by = "memory"
    <3>1. Table = FirstSlots(k)
      BY <1>3, <2>2 DEF Table, FreshInv
    <3>2. FirstSlots(k) \subseteq IndexOf(k)
      BY DEF FirstSlots
    <3>3. g \in GramsOf(k)
      BY <1>3
    <3>4. \E s \in Nat : <<g, s>> \in FirstSlots(k)
      BY <3>3, FirstPlace
    <3> QED BY <3>1, <3>2, <3>4
  <2> QED BY <2>1, <2>2
<1>5. ASSUME NEW s, <<g, s>> \in Table PROVE s \in 0..(GramCount(k) - 1) /\ g = GramAt(k, s)
  <2>1. <<g, s>> \in IndexOf(k)
    <3>1. <<g, s>>[1] = g /\ g \in GramsOf(k)
      BY <1>3
    <3> QED BY <1>4, <1>5, <3>1
  <2> QED BY <2>1 DEF IndexOf
<1> QED BY <1>3, <1>4, <1>5

\* A fetch takes the slots of the grams it is asked for, or finds that there are
\* none.
LEMMA FreshAsk ==
  ASSUME BuildTypes, BuildInv, ReadTypes, FreshInv, NEW rows \in Batches, Ask(rows)
  PROVE  FreshInv'
<1>1. /\ reader' = reader /\ reader.state = "open" /\ cmd' = cmd /\ index' = index
      /\ rows \in Seq(Seq(Int)) /\ Len(rows) \in Nat
  BY ConstantsAre DEF Ask
<1> SUFFICES ASSUME reader.fresh PROVE FreshInv'
  BY <1>1 DEF FreshInv
<1>2. /\ cmd.complete /\ reader.count = GramCount(cmd.keys)
      /\ reader.by \in {"order", "disk", "memory"} /\ reader.start \in Nat
  BY <1>1 DEF FreshInv, ReadTypes, Reader
<1>3. PICK n \in Nat : n = GramCount(cmd.keys)
  BY <1>2, OpenedView
<1>4. ASSUME NEW j \in 1..Len(rows), reader.by # "order", reader.by = "disk" => cmd.withIndex,
             ToSet(rows) \subseteq GramsOf(cmd.keys)
      PROVE  /\ \A s : <<rows[j], s>> \in Table => s \in 0..(n - 1)
             /\ \E s : <<rows[j], s>> \in Table
  <2>1. rows[j] \in GramsOf(cmd.keys)
    BY <1>1, <1>4, SetOfSeq
  <2>2. reader.by = "disk" \/ reader.by = "memory"
    BY <1>2, <1>4
  <2> QED BY <1>1, <1>3, <1>4, <2>1, <2>2, TableIs
<1>5. CASE \E slots \in SlotChoices(rows) :
             fetch' = [state |-> IF InRange(slots) THEN "reading" ELSE "error", rows |-> rows,
                       slots |-> slots, got |-> [j \in 1..Len(rows) |-> <<>>]]
  <2>1. PICK slots \in SlotChoices(rows) :
          fetch' = [state |-> IF InRange(slots) THEN "reading" ELSE "error", rows |-> rows,
                    slots |-> slots, got |-> [j \in 1..Len(rows) |-> <<>>]]
    BY <1>5
  <2>2. /\ fetch'.rows = rows /\ fetch'.slots = slots
        /\ fetch'.got = [j \in 1..Len(rows) |-> <<>>]
        /\ fetch'.state = IF InRange(slots) THEN "reading" ELSE "error"
    BY <2>1
  <2>3. /\ slots \in Seq(Nat) /\ Len(slots) = Len(rows) /\ DOMAIN slots = 1..Len(rows)
        /\ IF reader.by = "order"
           THEN \A j \in 1..Len(rows) : slots[j] = reader.start + j - 1
           ELSE \A j \in 1..Len(rows) : <<rows[j], slots[j]>> \in Table
    <3>1. /\ slots \in Seq(Nat) /\ Len(slots) = Len(rows)
          /\ IF reader.by = "order"
             THEN \A j \in 1..Len(rows) : slots[j] = reader.start + j - 1
             ELSE \A j \in 1..Len(rows) : <<rows[j], slots[j]>> \in Table
      BY SlotsChosen
    <3> QED BY <3>1, LenProperties
  <2>4. Table' = Table
    BY <1>1 DEF Table
  <2>5. CASE InRange(slots)
    <3>1. ASSUME NEW j \in 1..Len(rows)
          PROVE  slots[j] \in 0..(n - 1) /\ fetch'.got[j] = <<>>
      <4>1. slots[j] \in Nat /\ j \in DOMAIN slots
        BY <2>3
      <4>2. slots[j] < n
        BY <1>2, <1>3, <2>5, <4>1 DEF InRange
      <4> QED BY <1>3, <2>2, <4>1, <4>2
    <3>2. fetch'.state = "reading"
      BY <2>2, <2>5
    <3> QED BY <1>1, <1>2, <1>3, <2>2, <2>3, <2>4, <3>1, <3>2 DEF FreshInv
  <2>6. CASE ~ InRange(slots)
    <3>1. PICK j \in 1..Len(rows) : ~ (slots[j] < n) /\ slots[j] \in Nat
      BY <1>2, <1>3, <2>3, <2>6, SMTT(30) DEF InRange
    <3>2. fetch'.state = "error"
      BY <2>2, <2>6
    <3>3. CASE reader.by = "order"
      <4>1. slots[j] = reader.start + j - 1
        BY <2>3, <3>3
      <4>2. rows # <<>> /\ reader.start + Len(rows) > n
        BY <1>1, <1>2, <1>3, <3>1, <4>1, EmptySeq
      <4> QED BY <1>1, <1>2, <1>3, <2>2, <3>2, <3>3, <4>2 DEF FreshInv
    <3>4. CASE reader.by # "order"
      <4>1. <<rows[j], slots[j]>> \in Table
        BY <2>3, <3>4
      <4>2. ~ ((reader.by = "disk" => cmd.withIndex) /\ ToSet(rows) \subseteq GramsOf(cmd.keys))
        BY <1>3, <1>4, <3>1, <3>4, <4>1
      <4> QED BY <1>1, <1>2, <1>3, <2>2, <3>2, <3>4, <4>2 DEF FreshInv
    <3> QED BY <3>3, <3>4
  <2> QED BY <2>5, <2>6
<1>6. CASE SlotChoices(rows) = {} /\ fetch' = [NoFetch EXCEPT !.state = "error", !.rows = rows]
  <2>1. fetch'.state = "error" /\ fetch'.rows = rows
    BY <1>6 DEF NoFetch
  <2>2. reader.by # "order"
    BY <1>6 DEF SlotChoices
  <2>3. ASSUME reader.by = "disk" => cmd.withIndex, ToSet(rows) \subseteq GramsOf(cmd.keys)
        PROVE  FALSE
    <3>1. \A j \in 1..Len(rows) : \E s : <<rows[j], s>> \in Table
      BY <1>4, <2>2, <2>3
    <3>2. PICK c : c = [j \in 1..Len(rows) |-> CHOOSE s : <<rows[j], s>> \in Table]
      OBVIOUS
    <3>3. ASSUME NEW j \in 1..Len(rows)
          PROVE  <<rows[j], c[j]>> \in Table /\ c[j] \in {r[2] : r \in Table}
      <4>1. <<rows[j], c[j]>> \in Table
        BY <3>1, <3>2
      <4>2. c[j] = <<rows[j], c[j]>>[2]
        OBVIOUS
      <4> QED BY <4>1, <4>2
    <3>4. c \in [1..Len(rows) -> {r[2] : r \in Table}]
      BY <3>2, <3>3
    <3>5. c \in SlotChoices(rows)
      BY <2>2, <3>3, <3>4 DEF SlotChoices, Table
    <3> QED BY <1>6, <3>5
  <2> QED BY <1>1, <1>2, <2>1, <2>2, <2>3 DEF FreshInv
<1> QED BY <1>5, <1>6 DEF Ask

\* The records at those slots are the grams.
LEMMA FreshRecord ==
  ASSUME BuildTypes, BuildInv, ReadTypes, GotInv, FreshInv, NEW j \in DOMAIN fetch.got,
         ReadRecord(j)
  PROVE  FreshInv'
<1>1. /\ reader \in Reader /\ fetch \in Fetch /\ Len(fetch.slots) = Len(fetch.got)
      /\ reader' = reader /\ cmd' = cmd /\ index' = index /\ fetch.state = "reading"
  BY DEF ReadTypes, ReadRecord
<1> SUFFICES ASSUME reader.fresh PROVE FreshInv'
  BY <1>1 DEF FreshInv
<1>2. reader.state = "open"
  BY <1>1, NoFetchIs DEF GotInv, Reader
<1>3. /\ cmd.complete /\ reader.slot = cmd.slot /\ Len(fetch.slots) = Len(fetch.rows)
      /\ \A i \in 1..Len(fetch.rows) : fetch.slots[i] \in 0..(GramCount(cmd.keys) - 1)
  BY <1>1, <1>2 DEF FreshInv
<1>4. j \in 1..Len(fetch.rows) /\ DOMAIN fetch.got = 1..Len(fetch.rows)
  <2>1. fetch.got \in Seq(Seq(Int))
    BY <1>1 DEF Fetch
  <2> QED BY <1>1, <1>3, <2>1, LenProperties
<1>5. PICK n \in Nat, w \in Widths, s \in 0..(GramCount(cmd.keys) - 1) :
        n = GramCount(cmd.keys) /\ w = cmd.slot /\ s = fetch.slots[j]
  BY <1>3, <1>4, OpenedView
<1>6. (fetch.slots[j] + 1) * reader.slot <= Len(view)
  <2>1. Len(view) = n * w
    BY <1>3, <1>5, OpenedView
  <2>2. w \in Nat \ {0} /\ s \in Nat /\ s < n
    BY <1>5, ConstantsAre DEF Widths
  <2>3. s * w + w <= n * w /\ (s + 1) * w = s * w + w
    BY <2>2, BlockBelow, DivMul
  <2> QED BY <1>3, <1>5, <2>1, <2>3
<1>7. PICK r : r = RecordAt(reader.slot, fetch.slots[j]) /\ r = GramAt(cmd.keys, fetch.slots[j])
  BY <1>3, <1>5, OpenedView
<1>8. fetch' = [fetch EXCEPT !.got[j] = r]
  BY <1>6, <1>7 DEF ReadRecord
<1>9. /\ fetch'.state = "reading" /\ fetch'.got = [fetch.got EXCEPT ![j] = r]
      /\ fetch'.rows = fetch.rows /\ fetch'.slots = fetch.slots
  BY <1>1, <1>8 DEF Fetch
<1>10. \A i \in 1..Len(fetch.rows) :
         fetch'.got[i] = GramAt(cmd.keys, fetch.slots[i]) \/ fetch'.got[i] = <<>>
  BY <1>1, <1>4, <1>7, <1>9 DEF FreshInv
<1>11. Table' = Table
  BY <1>1 DEF Table
<1> QED BY <1>1, <1>2, <1>3, <1>9, <1>10, <1>11 DEF FreshInv

\* A fetch is answered when it has read all of them.
LEMMA FreshAnswered ==
  ASSUME ReadTypes, FreshInv, Answered
  PROVE  FreshInv'
<1>1. /\ reader' = reader /\ cmd' = cmd /\ index' = index /\ fetch.state = "reading"
      /\ \A j \in DOMAIN fetch.got : fetch.got[j] # <<>>
      /\ fetch' = [fetch EXCEPT !.state = "ok"]
      /\ fetch.got \in Seq(Seq(Int)) /\ Len(fetch.slots) = Len(fetch.got)
  BY DEF Answered, ReadTypes, Fetch
<1>2. /\ fetch'.state = "ok" /\ fetch'.got = fetch.got
      /\ fetch'.rows = fetch.rows /\ fetch'.slots = fetch.slots
  BY <1>1 DEF ReadTypes, Fetch
<1>3. DOMAIN fetch.got = 1..Len(fetch.got)
  BY <1>1, LenProperties
<1>4. Table' = Table
  BY <1>1 DEF Table
<1> QED BY <1>1, <1>2, <1>3, <1>4 DEF FreshInv

\* A reader is opened fresh over what a completed command left.
LEMMA FreshRead ==
  ASSUME BuildTypes, BuildInv, ReadTypes, GotInv, FreshInv, Read
  PROVE  FreshInv'
<1>1. /\ reader \in Reader /\ fetch \in Fetch /\ Len(fetch.slots) = Len(fetch.got)
      /\ cmd' = cmd /\ index' = index /\ cmd \in Command
  BY ReadLeaves DEF ReadTypes, BuildTypes, Files
<1>2. CASE LoadIndex
  <2>1. PICK m, b : m = FirstSlots(keysFile) /\ b = cmd.complete
    OBVIOUS
  <2>2. reader' = [NoReader EXCEPT !.state = "indexed", !.by = "memory", !.memory = m, !.fresh = b]
        /\ fetch' = fetch /\ reader.state = "closed"
    BY <1>2, <2>1 DEF LoadIndex
  <2>3. /\ reader'.state = "indexed" /\ reader'.fresh = b /\ reader'.memory = m
        /\ fetch'.state = "none"
    BY <2>2, NoFetchIs DEF NoReader, GotInv
  <2>4. cmd.complete => m = FirstSlots(cmd.keys)
    BY <2>1, OpenedView
  <2> QED BY <1>1, <2>1, <2>3, <2>4 DEF FreshInv
<1>3. ASSUME NEW by \in {"disk", "memory", "order"}, NEW start \in 0..1, OpenManifest(by, start)
      PROVE  FreshInv'
  <2>1. PICK w \in Widths, n \in Nat : w = SlotOf /\ n = GransOf
    BY SlotOfIs
  <2>2. PICK b \in BOOLEAN : b = (cmd.complete /\ (by = "memory" => reader.fresh))
    OBVIOUS
  <2>3. reader' = [reader EXCEPT !.state = "opening", !.slot = w, !.grans = n, !.by = by,
                                 !.start = start, !.fresh = b]
    BY <1>3, <2>1, <2>2, Zenon DEF OpenManifest
  <2>4. /\ reader'.state = "opening" /\ reader'.slot = w /\ reader'.grans = n /\ reader'.by = by
        /\ reader'.fresh = b /\ reader'.memory = reader.memory
    BY <1>1, <2>3 DEF Reader
  <2>5. fetch'.state = "none" /\ (by = "memory" => reader.state = "indexed")
    BY <1>3, NoFetchIs DEF OpenManifest, GotInv
  <2>6. b => cmd.complete /\ (by = "memory" => reader.memory = FirstSlots(cmd.keys))
    BY <2>2, <2>5 DEF FreshInv
  <2>7. b => w = cmd.slot /\ n = GramCount(cmd.keys)
    BY <2>1, <2>6, OpenedView
  <2> QED BY <1>1, <2>4, <2>5, <2>6, <2>7 DEF FreshInv
<1>4. CASE OpenView
  <2>1. PICK c : c = CountFor(reader.slot, reader.grans)
    OBVIOUS
  <2>2. reader' = [reader EXCEPT !.state = "open", !.grans = 0, !.count = c]
        /\ reader.state = "opening" /\ fetch' = fetch
    BY <1>4, <2>1 DEF OpenView
  <2>3. /\ reader'.state = "open" /\ reader'.slot = reader.slot /\ reader'.by = reader.by
        /\ reader'.fresh = reader.fresh /\ reader'.memory = reader.memory /\ reader'.count = c
    BY <1>1, <2>2 DEF Reader
  <2>4. fetch'.state = "none"
    BY <2>2, NoFetchIs DEF GotInv
  <2>5. reader.fresh => cmd.complete /\ c = GramCount(cmd.keys)
    BY <2>1, <2>2, OpenedView DEF FreshInv
  <2> QED BY <1>1, <2>2, <2>3, <2>4, <2>5 DEF FreshInv
<1>5. CASE Close
  BY <1>5 DEF Close, NoReader, FreshInv
<1> QED BY <1>2, <1>3, <1>4, <1>5, FreshAsk, FreshRecord, FreshAnswered DEF Read

\* view verify, and a step that leaves all alone, disturb no reader.
LEMMA ReaderLeft ==
  ASSUME ReadTypes, GotInv, FreshInv,
         UNCHANGED <<view, index, cmd, reader, fetch, widths, written>>
  PROVE  ReadTypes' /\ GotInv' /\ FreshInv'
<1>1. Table' = Table
  BY DEF Table
<1>2. ReadTypes' /\ GotInv'
  BY DEF ReadTypes, GotInv
<1>3. FreshInv'
  BY <1>1 DEF FreshInv
<1> QED BY <1>2, <1>3

\* A fetch that has ended, over a fresh view, gives what it should.
LEMMA FreshFetchHolds ==
  ASSUME BuildTypes, BuildInv, ReadTypes, GotInv, FreshInv
  PROVE  FreshFetch
<1> SUFFICES ASSUME reader.fresh, fetch.state \in {"ok", "error"} PROVE FreshFetch
  BY DEF FreshFetch
<1>1. /\ reader \in Reader /\ fetch \in Fetch /\ Len(fetch.slots) = Len(fetch.got)
      /\ reader.start \in Nat /\ reader.by \in {"order", "disk", "memory"}
      /\ fetch.rows \in Seq(Seq(Int)) /\ fetch.slots \in Seq(Nat) /\ fetch.got \in Seq(Seq(Int))
  BY DEF ReadTypes, Reader, Fetch
<1>2. reader.state = "open"
  BY <1>1, NoFetchIs DEF GotInv, Reader
<1>3. cmd.complete
  BY DEF FreshInv
<1>4. PICK k \in Seq(Int), n \in Nat : k = cmd.keys /\ n = GramCount(k)
  BY <1>3, OpenedView
<1>5. PICK rows \in Seq(Seq(Int)), slots \in Seq(Nat), got \in Seq(Seq(Int)) :
        rows = fetch.rows /\ slots = fetch.slots /\ got = fetch.got
  BY <1>1
<1>6. CASE fetch.state = "error"
  <2>1. CASE reader.by = "order"
    <3>1. rows # <<>> /\ ~ (reader.start + Len(rows) <= n)
      BY <1>1, <1>4, <1>5, <1>6, <2>1 DEF FreshInv
    <3> QED BY <1>4, <1>5, <1>6, <2>1, <3>1 DEF FreshFetch
  <2>2. CASE reader.by # "order"
    BY <1>6, <2>2 DEF FreshInv, FreshFetch
  <2> QED BY <2>1, <2>2
<1>7. CASE fetch.state = "ok"
  <2>1. /\ Len(slots) = Len(rows) /\ Len(got) = Len(rows) /\ Len(rows) \in Nat
        /\ DOMAIN got = 1..Len(rows)
    <3>1. Len(slots) = Len(rows) /\ Len(got) = Len(rows)
      BY <1>1, <1>5, <1>7 DEF FreshInv
    <3> QED BY <3>1, LenProperties
  <2>2. ASSUME NEW j \in 1..Len(rows)
        PROVE  /\ slots[j] \in 0..(n - 1) /\ got[j] = GramAt(k, slots[j])
               /\ IF reader.by = "order" THEN slots[j] = reader.start + j - 1
                  ELSE <<rows[j], slots[j]>> \in Table
    BY <1>4, <1>5, <1>7 DEF FreshInv
  <2>3. CASE reader.by = "order"
    <3>1. rows = <<>> \/ reader.start + Len(rows) <= n
      <4> SUFFICES ASSUME rows # <<>> PROVE reader.start + Len(rows) <= n
        OBVIOUS
      <4>1. PICK m \in 1..Len(rows) : m = Len(rows)
        BY <2>1, NonEmpty
      <4>2. slots[m] < n /\ slots[m] = reader.start + m - 1
        BY <1>4, <2>2, <2>3
      <4> QED BY <1>1, <1>4, <4>1, <4>2, SMTT(30)
    <3>2. ASSUME NEW j \in DOMAIN got PROVE got[j] = GramAt(k, reader.start + j - 1)
      BY <2>1, <2>2, <2>3
    <3> QED BY <1>4, <1>5, <1>7, <2>3, <3>1, <3>2 DEF FreshFetch
  <2>4. CASE reader.by # "order"
    <3> SUFFICES ASSUME reader.by = "disk" => cmd.withIndex, ToSet(rows) \subseteq GramsOf(k)
                 PROVE  got = rows
      BY <1>4, <1>5, <1>7, <2>4 DEF FreshFetch
    <3>1. ASSUME NEW j \in 1..Len(rows) PROVE got[j] = rows[j]
      <4>1. rows[j] \in GramsOf(cmd.keys)
        BY <1>4, SetOfSeq
      <4>2. <<rows[j], slots[j]>> \in Table
        BY <2>2, <2>4
      <4>3. rows[j] = GramAt(cmd.keys, slots[j])
        BY <1>1, <1>2, <2>4, <4>1, <4>2, TableIs
      <4> QED BY <1>4, <2>2, <4>3
    <3> QED BY <2>1, <3>1, SeqEqual
  <2> QED BY <2>3, <2>4
<1> QED BY <1>6, <1>7

-----------------------------------------------------------------------------
(* The inductive invariant, and what follows from it.                      *)

\* The inductive invariant: what a command has written, what a reader has taken
\* from it, and while neither is disturbed, what must agree.
ViewInv ==
  BuildTypes /\ BuildInv /\ ReadTypes /\ FileInv /\ GotInv /\ FreshInv

\* It holds initially,
LEMMA ViewInit == ASSUME Init PROVE ViewInv
BY BuildTypesInit, BuildInit, ReadTypesInit, FileInit, GotInit, FreshInit DEF ViewInv

\* every step keeps it,
LEMMA ViewStep ==
  ASSUME ViewInv, [Next]_vars
  PROVE  ViewInv'
<1> USE DEF ViewInv
<1>1. CASE \E mode \in {"random", "keys", "stream"}, list \in Lists, n \in 0..MaxGrams,
              slot \in Slots : Begin(mode, list, n, slot)
  BY <1>1, BuildTypesBegin, BuildBegin, ReadTypesBegin, FileBegin, GotBegin, FreshBegin
<1>2. CASE Write
  <2>1. UNCHANGED <<reader, fetch, widths, written>>
    BY <1>2, WriteLeaves
  <2>2. ReadTypes' /\ GotInv'
    BY <2>1 DEF ReadTypes, GotInv
  <2> QED BY <1>2, <2>2, BuildTypesWrite, BuildWrite, FileWrite, FreshWrite
<1>3. CASE Read
  <2>1. UNCHANGED <<Files, cmd, verdict, widths, written>>
    BY <1>3, ReadLeaves
  <2>2. BuildTypes' /\ BuildInv' /\ FileInv'
    BY <2>1, BuildTypesRead, BuildRead, FileRead
  <2> QED BY <1>3, <2>2, ReadTypesRead, GotRead, FreshRead
<1>4. CASE \E withIndex \in BOOLEAN : Verify(withIndex)
  <2>1. PICK withIndex \in BOOLEAN : Verify(withIndex)
    BY <1>4
  <2>2. UNCHANGED <<Files, cmd, reader, fetch, widths, written>>
    BY <2>1 DEF Verify, Files
  <2>3. UNCHANGED <<view, index, cmd, reader, fetch, widths, written>>
    BY <2>2 DEF Files
  <2>4. BuildTypes' /\ FileInv'
    BY <2>2, BuildTypesRead, FileRead
  <2>5. ReadTypes' /\ GotInv' /\ FreshInv'
    BY <2>3, ReaderLeft
  <2>6. BuildInv'
    BY <2>1, BuildVerify
  <2> QED BY <2>4, <2>5, <2>6
<1>5. CASE UNCHANGED vars
  <2>1. UNCHANGED <<Files, cmd, verdict, widths, written>>
    BY <1>5 DEF vars, Files
  <2>2. UNCHANGED <<view, index, cmd, reader, fetch, widths, written>>
    BY <1>5 DEF vars
  <2>3. ReadTypes' /\ GotInv' /\ FreshInv'
    BY <2>2, ReaderLeft
  <2> QED BY <2>1, <2>3, BuildTypesRead, BuildRead, FileRead
<1> QED BY <1>1, <1>2, <1>3, <1>4, <1>5, StepKinds

\* and so it holds always.
LEMMA ViewAlways == Spec => []ViewInv
<1>1. Init => ViewInv
  BY ViewInit
<1>2. ViewInv /\ [Next]_vars => ViewInv'
  BY ViewStep
<1> QED BY <1>1, <1>2, PTL DEF Spec

\* A build command that succeeds leaves a view, a manifest, a keys file and an index
\* that speak of the same grams, and that view verify accepts, whatever commands
\* before it left in their place (main.rs 712-804, view.rs 777).
THEOREM BuildsConsistent == Spec => []BuildConsistent
<1>1. ViewInv => BuildConsistent
  BY BuildConsistentHolds DEF ViewInv
<1> QED BY <1>1, ViewAlways, PTL

\* Over a view that a successful command left and none has touched since, fetch_raw
\* gives the records it is asked for, or refuses what the view has not
\* (ple_memory.py 287-326).
THEOREM FetchesFresh == Spec => []FreshFetch
<1>1. ViewInv => FreshFetch
  BY FreshFetchHolds DEF ViewInv
<1> QED BY <1>1, ViewAlways, PTL

\* While the slots of a view keep their width, a fetch gives whole grams of some
\* command, even if commands truncate and rewrite the view under it.
THEOREM RecordsWhole == Spec => []WholeRecords
<1>1. ViewInv => WholeRecords
  BY WholeRecordsHold DEF ViewInv
<1> QED BY <1>1, ViewAlways, PTL

-----------------------------------------------------------------------------
(* Disk slot index: bisect_left.                                           *)

\* The range that bisect_left goes on with.
Halved(recs, g, r) ==
  LET mid == (r[1] + r[2]) \div 2 IN
  IF recs[mid + 1][1] < g THEN <<mid + 1, r[2]>> ELSE <<r[1], mid>>

Ranges(recs) == (0..Len(recs)) \X (0..Len(recs))

LEMMA HalvedIs ==
  ASSUME NEW recs, Len(recs) \in Nat, NEW g, NEW r \in Ranges(recs), r[1] < r[2]
  PROVE  LET h == Halved(recs, g, r) IN
         /\ h \in Ranges(recs) /\ h[1] <= h[2] /\ h[2] - h[1] < r[2] - r[1]
         /\ r[1] <= h[1] /\ h[2] <= r[2] /\ r[2] - r[1] \in Nat
<1>1. PICK l \in Nat : l = Len(recs)
  OBVIOUS
<1>2. PICK lo \in 0..l, hi \in 0..l : lo = r[1] /\ hi = r[2] /\ lo < hi
  BY <1>1 DEF Ranges
<1>3. PICK mid \in Int : mid = (lo + hi) \div 2 /\ lo <= mid /\ mid < hi
  <2>1. (lo + hi) \div 2 \in Int /\ lo <= (lo + hi) \div 2 /\ (lo + hi) \div 2 < hi
    BY <1>2, SMTT(30)
  <2> QED BY <2>1
<1>4. Halved(recs, g, r) = IF recs[mid + 1][1] < g THEN <<mid + 1, hi>> ELSE <<lo, mid>>
  BY <1>2, <1>3 DEF Halved
<1>5. mid + 1 \in 0..l /\ mid \in 0..l
  BY <1>1, <1>2, <1>3
<1>8. lo <= mid /\ mid < hi
  BY <1>3
<1>6. CASE recs[mid + 1][1] < g
  <2>1. Halved(recs, g, r) = <<mid + 1, hi>>
    BY <1>4, <1>6
  <2>2. hi - (mid + 1) < hi - lo /\ mid + 1 <= hi /\ lo <= mid + 1 /\ hi - lo \in Nat
    BY <1>2, <1>8
  <2> QED BY <1>1, <1>2, <1>5, <2>1, <2>2 DEF Ranges
<1>7. CASE ~(recs[mid + 1][1] < g)
  <2>1. Halved(recs, g, r) = <<lo, mid>>
    BY <1>4, <1>7
  <2>2. mid - lo < hi - lo /\ lo <= mid /\ mid <= hi /\ hi - lo \in Nat
    BY <1>2, <1>8
  <2> QED BY <1>1, <1>2, <1>5, <2>1, <2>2 DEF Ranges
<1> QED BY <1>6, <1>7

\* What the recursion computes, range by range.
Finds(recs, g, f) ==
  \A r \in Ranges(recs) : f[r] = IF r[1] >= r[2] THEN r[1] ELSE f[Halved(recs, g, r)]

LEMMA BelowIs ==
  ASSUME NEW recs, Len(recs) \in Nat, NEW g
  PROVE  \E f : Below(recs, g) = f[<<0, Len(recs)>>] /\ Finds(recs, g, f)
<1> DEFINE R == Ranges(recs)
           H(r) == Halved(recs, g, r)
           Body(f, range) ==
             LET lo == range[1]
                 hi == range[2]
                 mid == (lo + hi) \div 2 IN
             IF lo >= hi THEN lo
             ELSE IF recs[mid + 1][1] < g THEN f[<<mid + 1, hi>>] ELSE f[<<lo, mid>>]
           find == CHOOSE f : f = [range \in (0..Len(recs)) \X (0..Len(recs)) |-> Body(f, range)]
           Size(r) == r[2] - r[1]
           Good(n) == {f \in [R -> 0..Len(recs)] : \A r \in R : Size(r) <= n =>
                         f[r] = IF r[1] >= r[2] THEN r[1] ELSE f[H(r)]}
           bad == {n \in 0..Len(recs) : Good(n) = {}}
<1>1. Below(recs, g) = find[<<0, Len(recs)>>]
  BY DEF Below
<1>0. \A f, r : Body(f, r) = IF r[1] >= r[2] THEN r[1] ELSE f[H(r)]
  BY DEF Halved
<1> HIDE DEF Body
<1>2. PICK l \in Nat : l = Len(recs)
  OBVIOUS
<1>3. \A r \in R : /\ r[1] \in 0..l /\ r[2] \in 0..l /\ Size(r) \in Int /\ Size(r) <= l
                   /\ ~(r[1] >= r[2]) => H(r) \in R /\ Size(H(r)) < Size(r) /\ Size(r) \in Nat
  <2> SUFFICES ASSUME NEW r \in R
               PROVE  /\ r[1] \in 0..l /\ r[2] \in 0..l /\ Size(r) \in Int /\ Size(r) <= l
                      /\ ~(r[1] >= r[2]) => H(r) \in R /\ Size(H(r)) < Size(r) /\ Size(r) \in Nat
    OBVIOUS
  <2>1. r[1] \in 0..l /\ r[2] \in 0..l
    BY <1>2 DEF Ranges
  <2>2. ASSUME r[1] < r[2] PROVE H(r) \in R /\ Size(H(r)) < Size(r) /\ Size(r) \in Nat
    BY <1>2, <2>2, HalvedIs
  <2> QED BY <1>2, <2>1, <2>2
<1> HIDE DEF R, H, Size
<1>4. bad = {}
  <2> SUFFICES ASSUME bad # {} PROVE FALSE
    OBVIOUS
  <2>1. bad \in SUBSET Nat
    BY <1>2
  <2>2. PICK m \in bad : \A n \in bad : m <= n
    BY <2>1, LeastNat
  <2>3. m \in 0..l /\ Good(m) = {}
    BY <1>2, <2>2
  <2>4. \E f \in [R -> 0..l] : \A r \in R : Size(r) < m => f[r] = IF r[1] >= r[2] THEN r[1] ELSE f[H(r)]
    <3>1. CASE m = 0
      <4> DEFINE f == [r \in R |-> r[1]]
      <4>1. f \in [R -> 0..l]
        BY <1>3
      <4>2. ASSUME NEW r \in R, Size(r) < m PROVE f[r] = IF r[1] >= r[2] THEN r[1] ELSE f[H(r)]
        <5>1. ~(Size(r) \in Nat)
          BY <3>1, <4>2
        <5> QED BY <1>3, <5>1
      <4> QED BY <4>1, <4>2
    <3>2. CASE m # 0
      <4>1. m - 1 \in 0..l /\ ~(m <= m - 1)
        BY <2>3, <3>2
      <4>2. Good(m - 1) # {}
        BY <1>2, <2>2, <4>1
      <4>3. PICK f \in Good(m - 1) : TRUE
        BY <4>2
      <4>4. \A r \in R : Size(r) < m => Size(r) <= m - 1
        BY <1>3, <2>3
      <4> QED BY <1>2, <4>3, <4>4
    <3> QED BY <3>1, <3>2
  <2>5. PICK f \in [R -> 0..l] : \A r \in R : Size(r) < m => f[r] = IF r[1] >= r[2] THEN r[1] ELSE f[H(r)]
    BY <2>4
  <2> DEFINE e == [r \in R |-> IF Size(r) = m THEN (IF r[1] >= r[2] THEN r[1] ELSE f[H(r)]) ELSE f[r]]
  <2>6. e \in [R -> 0..l]
    BY <1>3, <2>5
  <2>7. ASSUME NEW r \in R, Size(r) <= m PROVE e[r] = IF r[1] >= r[2] THEN r[1] ELSE e[H(r)]
    <3>1. e[r] = IF r[1] >= r[2] THEN r[1] ELSE f[H(r)]
      BY <1>3, <2>3, <2>5, <2>7
    <3>2. ASSUME ~(r[1] >= r[2]) PROVE e[H(r)] = f[H(r)]
      <4>1. H(r) \in R /\ Size(H(r)) < m
        BY <1>3, <2>3, <2>7, <3>2
      <4>2. Size(H(r)) # m
        BY <1>3, <2>3, <4>1
      <4> QED BY <4>1, <4>2
    <3> HIDE DEF e
    <3> QED BY <3>1, <3>2
  <2> HIDE DEF e
  <2>8. e \in Good(m)
    BY <1>2, <2>6, <2>7
  <2> QED BY <2>3, <2>8
<1>5. PICK f \in [R -> 0..l] : \A r \in R : f[r] = IF r[1] >= r[2] THEN r[1] ELSE f[H(r)]
  <2>1. l \in 0..Len(recs)
    BY <1>2
  <2> HIDE DEF Good
  <2>2. Good(l) # {}
    BY <1>4, <2>1
  <2>3. PICK f : f \in Good(l)
    BY <2>2
  <2> QED BY <1>2, <1>3, <2>3 DEF Good
<1>6. f = [range \in (0..Len(recs)) \X (0..Len(recs)) |-> Body(f, range)]
  BY <1>0, <1>2, <1>5 DEF R, Ranges
<1>7. find = [range \in (0..Len(recs)) \X (0..Len(recs)) |-> Body(find, range)]
  BY <1>6
<1> HIDE DEF find
<1>8. \A r \in R : find[r] = IF r[1] >= r[2] THEN r[1] ELSE find[H(r)]
  BY <1>0, <1>7 DEF R, Ranges
<1>9. Finds(recs, g, find)
  BY <1>8 DEF Finds, R, H
<1> QED BY <1>1, <1>9

Record == Nat \X Nat

Rising(recs) == \A i, j \in 1..Len(recs) : i < j => recs[i][1] <= recs[j][1]

\* The first a records are below gram g, and those from the b-th on are not.
Split(recs, g, a, b) ==
  (\A i \in 1..a : recs[i][1] < g) /\ (\A i \in (b + 1)..Len(recs) : g <= recs[i][1])

\* Halving a range of sorted records keeps what is known around it.
LEMMA HalvedSplits ==
  ASSUME NEW recs \in Seq(Record), Rising(recs), NEW g \in Nat, NEW r \in Ranges(recs), r[1] < r[2],
         Split(recs, g, r[1], r[2])
  PROVE  Split(recs, g, Halved(recs, g, r)[1], Halved(recs, g, r)[2])
<1>1. PICK l \in Nat : l = Len(recs)
  BY LenProperties
<1>2. PICK lo \in 0..l, hi \in 0..l : lo = r[1] /\ hi = r[2] /\ lo < hi
  BY <1>1 DEF Ranges
<1>3. PICK mid \in Int : mid = (lo + hi) \div 2 /\ lo <= mid /\ mid < hi
  <2>1. (lo + hi) \div 2 \in Int /\ lo <= (lo + hi) \div 2 /\ (lo + hi) \div 2 < hi
    BY <1>2
  <2> QED BY <2>1
<1>4. Halved(recs, g, r) = IF recs[mid + 1][1] < g THEN <<mid + 1, hi>> ELSE <<lo, mid>>
  BY <1>2, <1>3 DEF Halved
<1>5. lo <= mid /\ mid < hi /\ mid + 1 \in 1..l /\ mid + 1 \in Nat
  BY <1>2, <1>3, SMTT(30)
<1>6. \A i \in 1..l : recs[i][1] \in Nat
  <2>1. \A i \in 1..l : recs[i] \in Record
    BY <1>1, ElementOfSeq
  <2> QED BY <2>1 DEF Record
<1>7. \A i, j \in 1..l : i < j => recs[i][1] <= recs[j][1]
  BY <1>1 DEF Rising
<1>8. (\A i \in 1..lo : recs[i][1] < g) /\ (\A i \in (hi + 1)..l : g <= recs[i][1])
  BY <1>1, <1>2 DEF Split
<1>9. CASE recs[mid + 1][1] < g
  <2>1. Halved(recs, g, r) = <<mid + 1, hi>>
    BY <1>4, <1>9
  <2>2. ASSUME NEW i \in 1..(mid + 1) PROVE recs[i][1] < g
    <3>1. i \in 1..l /\ (i < mid + 1 \/ i = mid + 1)
      BY <1>5
    <3>2. i < mid + 1 => recs[i][1] <= recs[mid + 1][1]
      BY <1>5, <1>7, <3>1
    <3> QED BY <1>5, <1>6, <1>9, <3>1, <3>2
  <2> QED BY <1>1, <1>8, <2>1, <2>2 DEF Split
<1>10. CASE ~(recs[mid + 1][1] < g)
  <2>1. Halved(recs, g, r) = <<lo, mid>>
    BY <1>4, <1>10
  <2>2. ASSUME NEW i \in (mid + 1)..l PROVE g <= recs[i][1]
    <3>1. i \in 1..l /\ (mid + 1 < i \/ i = mid + 1)
      BY <1>5
    <3>2. mid + 1 < i => recs[mid + 1][1] <= recs[i][1]
      BY <1>5, <1>7, <3>1
    <3>3. recs[mid + 1][1] \in Nat /\ recs[i][1] \in Nat
      BY <1>5, <1>6, <3>1
    <3> QED BY <1>10, <3>1, <3>2, <3>3, SMTT(30)
  <2> QED BY <1>1, <1>8, <2>1, <2>2 DEF Split
<1> QED BY <1>9, <1>10

\* bisect_left stays within the records, and finds where gram g begins if they are sorted.
LEMMA BelowFinds ==
  ASSUME NEW recs, Len(recs) \in Nat, NEW g \in Nat
  PROVE  /\ Below(recs, g) \in 0..Len(recs)
         /\ recs \in Seq(Record) /\ Rising(recs) => Split(recs, g, Below(recs, g), Below(recs, g))
<1>1. PICK l \in Nat : l = Len(recs)
  OBVIOUS
<1>2. PICK f : Below(recs, g) = f[<<0, Len(recs)>>] /\ Finds(recs, g, f)
  BY <1>1, BelowIs
<1> DEFINE P(r) == /\ f[r] \in 0..l
                   /\ recs \in Seq(Record) /\ Rising(recs) /\ Split(recs, g, r[1], r[2])
                      => Split(recs, g, f[r], f[r])
           R == {r \in Ranges(recs) : r[1] <= r[2]}
           bad == {r[2] - r[1] : r \in {q \in R : ~P(q)}}
<1>3. \A r \in R : r[1] \in 0..l /\ r[2] \in 0..l /\ r[1] <= r[2] /\ r[2] - r[1] \in Nat /\ r \in Ranges(recs)
  BY <1>1 DEF Ranges
<1>4. \A r \in R : r[1] < r[2] => /\ Halved(recs, g, r) \in R
                                  /\ Halved(recs, g, r)[2] - Halved(recs, g, r)[1] < r[2] - r[1]
                                  /\ f[r] = f[Halved(recs, g, r)]
  <2> SUFFICES ASSUME NEW r \in R, r[1] < r[2]
               PROVE  /\ Halved(recs, g, r) \in R
                      /\ Halved(recs, g, r)[2] - Halved(recs, g, r)[1] < r[2] - r[1]
                      /\ f[r] = f[Halved(recs, g, r)]
    OBVIOUS
  <2>1. f[r] = f[Halved(recs, g, r)]
    <3>1. ~(r[1] >= r[2]) /\ r \in Ranges(recs)
      BY <1>3
    <3> QED BY <1>2, <3>1 DEF Finds
  <2>2. LET h == Halved(recs, g, r) IN h \in Ranges(recs) /\ h[1] <= h[2] /\ h[2] - h[1] < r[2] - r[1]
    BY <1>1, HalvedIs
  <2> QED BY <2>1, <2>2
<1>5. \A r \in R : r[1] = r[2] => f[r] = r[1]
  BY <1>2, <1>3 DEF Finds
<1> HIDE DEF R, P
<1>6. bad = {}
  <2> SUFFICES ASSUME bad # {} PROVE FALSE
    OBVIOUS
  <2>1. bad \in SUBSET Nat
    BY <1>3
  <2>2. PICK m \in bad : \A n \in bad : m <= n
    BY <2>1, LeastNat
  <2>3. PICK r \in R : ~P(r) /\ m = r[2] - r[1]
    BY <2>2
  <2>4. CASE r[1] = r[2]
    <3>1. f[r] = r[1] /\ r[1] \in 0..l
      BY <1>3, <1>5, <2>4
    <3>2. P(r)
      BY <2>4, <3>1 DEF P
    <3> QED BY <2>3, <3>2
  <2>5. CASE r[1] # r[2]
    <3> DEFINE h == Halved(recs, g, r)
    <3>1. r[1] < r[2]
      <4>1. r[1] \in Nat /\ r[2] \in Nat /\ r[1] <= r[2]
        BY <1>3
      <4> QED BY <2>5, <4>1
    <3>2. h \in R /\ h[2] - h[1] < r[2] - r[1] /\ f[r] = f[h] /\ h[2] - h[1] \in Nat
      BY <1>3, <1>4, <3>1
    <3>3. P(h)
      <4>1. ~P(h) => h[2] - h[1] \in bad
        BY <3>2
      <4> HIDE DEF bad, h
      <4>2. m \in Nat /\ (h[2] - h[1] \in bad => m <= h[2] - h[1])
        BY <2>1, <2>2
      <4> QED BY <2>3, <3>2, <4>1, <4>2
    <3>4. recs \in Seq(Record) /\ Rising(recs) /\ Split(recs, g, r[1], r[2]) => Split(recs, g, h[1], h[2])
      BY <1>3, <3>1, HalvedSplits
    <3> HIDE DEF h
    <3>5. P(r)
      BY <3>2, <3>3, <3>4 DEF P
    <3> QED BY <2>3, <3>5
  <2> QED BY <2>4, <2>5
<1> DEFINE w == <<0, Len(recs)>>
<1>7. w \in R /\ w[1] = 0 /\ w[2] = Len(recs)
  BY <1>1 DEF R, Ranges
<1>8. P(w)
  BY <1>6, <1>7
<1>9. Split(recs, g, 0, Len(recs))
  <2>1. (1..0) = {} /\ ((Len(recs) + 1)..Len(recs)) = {}
    BY <1>1
  <2> QED BY <2>1 DEF Split
<1> QED BY <1>1, <1>2, <1>7, <1>8, <1>9 DEF P

-----------------------------------------------------------------------------
(* Disk slot index: the records of a gram.                                 *)

\* The places of the run.
RunOf(recs, g) ==
  {n \in (Below(recs, g) + 1)..Len(recs) : \A m \in (Below(recs, g) + 1)..n : Same(recs[m], g)}

LEMMA RunIs ==
  ASSUME NEW recs, NEW g
  PROVE  /\ DOMAIN SlotRun(recs, g) = RunOf(recs, g)
         /\ \A n \in RunOf(recs, g) : SlotRun(recs, g)[n] = recs[n][2]
BY DEF SlotRun, RunOf

\* A slot that is found is that of a record.
LEMMA AnswerIsRecord ==
  ASSUME NEW S, NEW recs \in Seq(S), NEW g \in Nat, Answer(recs, g) # Missing
  PROVE  \E r \in ToSet(recs) : r[1] = g /\ r[2] = Answer(recs, g) /\ r \in S
<1>0. Len(recs) \in Nat /\ Below(recs, g) \in 0..Len(recs)
  BY BelowFinds, LenProperties
<1>1. PICK l \in Nat, b \in Nat : l = Len(recs) /\ b = Below(recs, g) /\ b <= l
  BY <1>0
<1>2. PICK n : n \in RunOf(recs, g)
  BY RunIs DEF Answer
<1>3. b + 1 \in RunOf(recs, g) /\ b + 1 \in 1..l
  <2>1. n \in (b + 1)..l /\ \A m \in (b + 1)..n : Same(recs[m], g)
    BY <1>1, <1>2 DEF RunOf
  <2>2. b + 1 \in (b + 1)..n /\ \A m \in (b + 1)..(b + 1) : m \in (b + 1)..n
    BY <1>1, <2>1
  <2> QED BY <1>1, <2>1, <2>2 DEF RunOf
<1>4. Answer(recs, g) = recs[b + 1][2] /\ recs[b + 1][1] = g
  <2>1. Same(recs[b + 1], g)
    <3>1. b + 1 \in (b + 1)..(b + 1)
      BY <1>1
    <3> QED BY <1>1, <1>3, <3>1 DEF RunOf
  <2>2. Answer(recs, g) = SlotRun(recs, g)[b + 1]
    BY <1>1, <1>2, RunIs DEF Answer
  <2> QED BY <1>3, <2>1, <2>2, RunIs DEF Same
<1>5. recs[b + 1] \in S /\ recs[b + 1] \in ToSet(recs)
  BY <1>1, <1>3, ElementOfSeq, SetOfSeq
<1> QED BY <1>4, <1>5

\* Every record of a gram is in the run of the gram, if the records are sorted.
LEMMA RunHasRecords ==
  ASSUME NEW recs \in Seq(Record), Rising(recs), NEW g \in Nat, NEW s \in Nat,
         <<g, s>> \in ToSet(recs)
  PROVE  /\ s \in Range(SlotRun(recs, g))
         /\ <<g, Answer(recs, g)>> \in ToSet(recs)
<1>0. /\ Len(recs) \in Nat /\ Below(recs, g) \in 0..Len(recs)
      /\ Split(recs, g, Below(recs, g), Below(recs, g))
  BY BelowFinds, LenProperties
<1>1. PICK l \in Nat, b \in Nat : l = Len(recs) /\ b = Below(recs, g) /\ b <= l /\ Split(recs, g, b, b)
  BY <1>0
<1>2. PICK n \in 1..l : recs[n] = <<g, s>>
  BY <1>1, SetOfSeq
<1>3. \A i \in 1..l : recs[i] \in Record /\ recs[i][1] \in Nat /\ recs[i] \in ToSet(recs)
        /\ recs[i] = <<recs[i][1], recs[i][2]>> /\ recs[i][2] \in Nat
  <2>1. \A i \in 1..l : recs[i] \in Record /\ recs[i] \in ToSet(recs)
    BY <1>1, ElementOfSeq, SetOfSeq
  <2> QED BY <2>1 DEF Record
<1>4. recs[n][1] = g /\ recs[n][2] = s
  BY <1>2
<1>5. n \in (b + 1)..l
  <2>1. n \in 1..b => recs[n][1] < g
    BY <1>1 DEF Split
  <2> QED BY <1>1, <1>4, <2>1
<1>6. ASSUME NEW m \in (b + 1)..n PROVE Same(recs[m], g) /\ m \in 1..l
  <2>1. m \in 1..l /\ m \in (b + 1)..l /\ (m < n \/ m = n)
    BY <1>1, <1>5
  <2>2. g <= recs[m][1]
    BY <1>1, <2>1 DEF Split
  <2>3. recs[m][1] <= g
    <3>1. CASE m = n
      BY <1>4, <3>1
    <3>2. CASE m < n
      BY <1>1, <1>4, <2>1, <3>2 DEF Rising
    <3> QED BY <2>1, <3>1, <3>2
  <2>4. recs[m][1] = g /\ recs[m][2] # Missing
    BY <1>3, <2>1, <2>2, <2>3 DEF Missing
  <2> QED BY <2>1, <2>4 DEF Same
<1>7. n \in RunOf(recs, g)
  BY <1>1, <1>5, <1>6 DEF RunOf
<1>8. s \in Range(SlotRun(recs, g))
  BY <1>4, <1>7, RunIs DEF Range
<1>9. <<g, Answer(recs, g)>> \in ToSet(recs)
  <2>1. b + 1 \in RunOf(recs, g) /\ b + 1 \in 1..l /\ recs[b + 1][1] = g
    <3>1. b + 1 \in (b + 1)..n /\ \A m \in (b + 1)..(b + 1) : m \in (b + 1)..n
      BY <1>1, <1>5
    <3>2. b + 1 \in (b + 1)..l
      BY <1>1, <1>5
    <3>3. \A m \in (b + 1)..(b + 1) : Same(recs[m], g)
      BY <1>6, <3>1
    <3>4. Same(recs[b + 1], g) /\ b + 1 \in 1..l
      BY <1>6, <3>1
    <3> QED BY <1>1, <3>2, <3>3, <3>4 DEF RunOf, Same
  <2>2. Answer(recs, g) = recs[b + 1][2]
    BY <1>1, <2>1, RunIs DEF Answer
  <2> QED BY <1>3, <2>1, <2>2
<1> QED BY <1>8, <1>9

-----------------------------------------------------------------------------
\* The records of a keys file, and the bucket of a gram.
Grammed(f) == f.grams \in Seq(Nat) /\ f.whole \in BOOLEAN

LEMMA RecordsAre ==
  ASSUME NEW f, Grammed(f)
  PROVE  /\ Records(f) \in SUBSET Record /\ IsFiniteSet(Records(f))
         /\ \A g \in ToSet(f.grams) : \E s \in Nat : <<g, s>> \in Records(f)
<1>1. Len(f.grams) \in Nat /\ \A i \in 1..Len(f.grams) : f.grams[i] \in Nat
  BY LenProperties DEF Grammed
<1>2. Records(f) \in SUBSET Record
  BY <1>1 DEF Records, Record
<1>3. IsFiniteSet(Records(f))
  <2> DEFINE s == [i \in 1..Len(f.grams) |-> <<f.grams[i], i - 1>>]
  <2>1. s \in [1..Len(f.grams) -> Record]
    BY <1>1 DEF Record
  <2>3. ToSet(s) = Records(f)
    <3>1. DOMAIN s = 1..Len(f.grams)
      OBVIOUS
    <3> QED BY <3>1 DEF ToSet, Records
  <2> HIDE DEF s
  <2>2. s \in Seq(Record) /\ Len(s) = Len(f.grams)
    BY <1>1, <2>1, FunIsSeq
  <2> QED BY <2>2, <2>3, FiniteElements
<1>4. ASSUME NEW g \in ToSet(f.grams) PROVE \E s \in Nat : <<g, s>> \in Records(f)
  <2>1. PICK i \in 1..Len(f.grams) : f.grams[i] = g
    BY SetOfSeq DEF Grammed
  <2>2. <<g, i - 1>> \in Records(f) /\ i - 1 \in Nat
    BY <1>1, <2>1 DEF Records
  <2> QED BY <2>2
<1> QED BY <1>2, <1>3, <1>4

\* The records of bucket b.
BucketSet(f, hash, nb, b) == {r \in Records(f) : BucketOf(hash, r[1], nb) = b}

\* The records of a bucket as they are written.
LEMMA BucketRecordsAre ==
  ASSUME NEW f, Grammed(f), NEW hash, NEW nb, NEW b
  PROVE  LET s == BucketRecords(f, hash, nb, b)
             S == BucketSet(f, hash, nb, b) IN
         /\ S \in SUBSET Record /\ IsFiniteSet(S) /\ S \subseteq Records(f)
         /\ s \in Seq(Record) /\ ToSet(s) = S /\ Len(s) = Cardinality(S) /\ Len(s) \in Nat
         /\ Rising(s)
<1> DEFINE s == BucketRecords(f, hash, nb, b)
           S == BucketSet(f, hash, nb, b)
<1>1. S \in SUBSET Record /\ IsFiniteSet(S) /\ S \subseteq Records(f)
  <2>1. S \subseteq Records(f)
    BY DEF BucketSet
  <2> QED BY <2>1, RecordsAre, FS_Subset
<1>2. S \in SUBSET (Int \X Int)
  BY <1>1 DEF Record
<1>3. BucketRecords(f, hash, nb, b) =
        [n \in 1..Cardinality(S) |->
           CHOOSE x \in S : Cardinality({y \in S : y[1] < x[1] \/ (y[1] = x[1] /\ y[2] < x[2])}) = n - 1]
  BY DEF BucketRecords, SortedBy, Less, BucketSet
<1> HIDE DEF S
<1>4. PICK l : /\ SortedAs(l, Lexicographic(S), S)
               /\ l \in [1..Cardinality(S) -> S]
               /\ \A n \in 1..Cardinality(S), x \in S :
                    Cardinality({y \in S : y[1] < x[1] \/ (y[1] = x[1] /\ y[2] < x[2])}) = n - 1
                      <=> x = l[n]
  BY <1>1, <1>2, PairsRanked
<1>5. s = l
  <2> DEFINE t == [n \in 1..Cardinality(S) |->
                     CHOOSE x \in S : Cardinality({y \in S : y[1] < x[1] \/ (y[1] = x[1] /\ y[2] < x[2])}) = n - 1]
  <2>1. s = t
    BY <1>3
  <2>2. ASSUME NEW n \in 1..Cardinality(S) PROVE t[n] = l[n]
    <3>1. l[n] \in S
      BY <1>4
    <3> QED BY <1>4, <3>1
  <2>3. t = l
    BY <1>4, <2>2
  <2> QED BY <2>1, <2>3
<1> HIDE DEF s
<1>6. /\ s \in Seq(S) /\ Len(s) = Cardinality(S) /\ ToSet(s) = S
      /\ \A i, j \in 1..Len(s) : i < j <=> <<s[i], s[j]>> \in Lexicographic(S)
  BY <1>4, <1>5 DEF SortedAs
<1>7. s \in Seq(Record) /\ Len(s) \in Nat
  BY <1>1, <1>6, SeqWidens, LenProperties
<1>8. Rising(s)
  <2> SUFFICES ASSUME NEW i \in 1..Len(s), NEW j \in 1..Len(s), i < j PROVE s[i][1] <= s[j][1]
    BY DEF Rising
  <2>1. <<s[i], s[j]>> \in Lexicographic(S)
    BY <1>6
  <2>2. s[i] \in Record /\ s[j] \in Record
    BY <1>7, ElementOfSeq
  <2>3. s[i][1] < s[j][1] \/ s[i][1] = s[j][1]
    BY <2>1 DEF Lexicographic
  <2> QED BY <2>2, <2>3 DEF Record
<1> QED BY <1>1, <1>6, <1>7, <1>8 DEF s, S

-----------------------------------------------------------------------------
(* Disk slot index: what its files and its readers hold.                   *)

Formats == {"v1", "v2", "v3"}
HashNames == {"fnv1a-64", "blake2b"}
IndexFiles == KeyFiles \cup {Idle.file}

Places == {"idle", "data", "bucket", "fill", "offsets", "table", "meta", "finish"}

Building ==
  [pc : Places, file : IndexFiles,
   format : Formats, hash : HashNames, nb : Nat \ {0}, next : Nat, buf : Seq(Record),
   complete : BOOLEAN]

Entry == Nat \X Seq(Pieces)

IndexReading ==
  [open : BOOLEAN, format : Formats, hash : HashNames, nb : Nat \ {0}, offsets : Seq(Nat),
   cache : Seq(Entry), ahead : Seq(Pieces), fresh : BOOLEAN, steady : BOOLEAN]

Finding == [gram : Nat \cup {Missing}, slot : Nat \cup {Missing}]

\* Records that some build was given.
Listed(recs, gv) == recs \in Seq(Record) /\ ToSet(recs) \subseteq gv

\* Slot s is one that was given for gram g, or the low bytes of one.
IsGiven(g, s, gv) ==
  \E q \in gv : q[1] = g /\ (s = q[2] \/ \E c \in Cuts : s = q[2] % c)

\* What a file holds of such records, whole or cut.
Given(recs, gv) ==
  recs \in Seq(Pieces) /\ \A r \in ToSet(recs) : r[2] # Missing => IsGiven(r[1], r[2], gv)

IndexTypes ==
  /\ build \in Building /\ indexReader \in IndexReading /\ found \in Finding
  /\ offsets \in Seq(Nat)
  /\ meta.state = "ok" => meta.nb \in Nat \ {0} /\ meta.format \in Formats /\ meta.hash \in HashNames
  /\ indexReader.open /\ indexReader.format = "v3" => Len(indexReader.offsets) = indexReader.nb + 1
  /\ NoRepeats(indexReader.cache)

\* Where a build has written all that it put in its buffer.
Emptied == {"idle", "offsets", "table", "meta", "finish"}

\* Nothing is in a file or a buffer that no build was given, nor in the cache of a
\* reader that no build has overtaken; what it has read ahead is in data.bin.
GivenInv ==
  /\ \A b \in DOMAIN buckets : Given(buckets[b], given)
  /\ Given(data, given) /\ Listed(build.buf, given)
  /\ build.pc # "idle" => Records(build.file) \subseteq given
  /\ build.pc \in Emptied => build.buf = <<>>
  /\ indexReader.steady =>
       /\ build.pc = "idle" /\ indexReader.ahead \in {<<>>, data}
       /\ \A e \in ToSet(indexReader.cache) : Given(e[2], given)
  /\ NeverInvented

LookupInv == IndexTypes /\ GivenInv

-----------------------------------------------------------------------------
LEMMA FilesAre == ASSUME NEW f \in IndexFiles PROVE Grammed(f)
<1>1. <<>> \in Seq(Nat)
  OBVIOUS
<1>2. Idle.file = [grams |-> <<>>, whole |-> TRUE]
  BY DEF Idle
<1>3. Grammed(Idle.file)
  BY <1>1, <1>2 DEF Grammed
<1> QED BY <1>3, SlotIndexAssumption DEF IndexFiles, Grammed

LEMMA BucketIs ==
  ASSUME NEW hash, NEW g \in Nat, NEW nb \in Nat \ {0}
  PROVE  BucketOf(hash, g, nb) \in 0..(nb - 1)
<1>1. PICK x \in Nat : BucketOf(hash, g, nb) = x % nb
  <2>1. g \div 2 \in Nat
    OBVIOUS
  <2> QED BY <2>1 DEF BucketOf
<1> QED BY <1>1, DivMod

LEMMA NothingGiven == ASSUME NEW gv PROVE Given(<<>>, gv) /\ Listed(<<>>, gv)
BY DEF Given, Listed, ToSet

LEMMA GivenMore ==
  ASSUME NEW recs, NEW gv, NEW more, Given(recs, gv), gv \subseteq more
  PROVE  Given(recs, more)
BY DEF Given, IsGiven

\* Pieces of records.
LEMMA PiecesAre ==
  /\ \A r \in Pieces : r[1] \in Nat \cup {Missing} /\ r[2] \in Nat \cup {Missing}
  /\ \A x, y \in Nat \cup {Missing} : <<x, y>> \in Pieces /\ <<x, y, "cut">> \in Pieces
  /\ Record \in SUBSET Pieces
<1>1. ASSUME NEW r \in Pieces PROVE r[1] \in Nat \cup {Missing} /\ r[2] \in Nat \cup {Missing}
  <2>1. CASE r \in (Nat \cup {Missing}) \X (Nat \cup {Missing})
    BY <2>1
  <2>2. CASE r \in (Nat \cup {Missing}) \X (Nat \cup {Missing}) \X {"cut"}
    BY <2>2
  <2> QED BY <2>1, <2>2 DEF Pieces
<1>2. \A x, y \in Nat \cup {Missing} : <<x, y>> \in Pieces /\ <<x, y, "cut">> \in Pieces
  BY DEF Pieces
<1>3. Record \in SUBSET Pieces
  BY DEF Record, Pieces
<1> QED BY <1>1, <1>2, <1>3

LEMMA ListedGiven ==
  ASSUME NEW recs, NEW gv, Listed(recs, gv)
  PROVE  Given(recs, gv)
<1>1. recs \in Seq(Record) /\ recs \in Seq(Pieces)
  BY PiecesAre, SeqWidens DEF Listed
<1>2. ASSUME NEW r \in ToSet(recs) PROVE IsGiven(r[1], r[2], gv)
  BY <1>2 DEF Listed, IsGiven
<1> QED BY <1>1, <1>2 DEF Given

LEMMA ListedJoin ==
  ASSUME NEW a, NEW b, NEW gv, Listed(a, gv), Listed(b, gv)
  PROVE  Listed(a \o b, gv)
BY ConcatSet DEF Listed

LEMMA GivenJoin ==
  ASSUME NEW a, NEW b, NEW gv, Given(a, gv), Given(b, gv)
  PROVE  Given(a \o b, gv)
<1>1. a \o b \in Seq(Pieces) /\ ToSet(a \o b) = ToSet(a) \cup ToSet(b)
  BY ConcatSet DEF Given
<1> QED BY <1>1 DEF Given

\* A part of a sequence has elements of it.
LEMMA PartOf ==
  ASSUME NEW S, NEW recs \in Seq(S), NEW a \in Nat, NEW c \in Nat, c <= Len(recs)
  PROVE  SubSeq(recs, a + 1, c) \in Seq(S) /\ ToSet(SubSeq(recs, a + 1, c)) \subseteq ToSet(recs)
<1>1. Len(recs) \in Nat
  BY LenProperties
<1>2. CASE c < a + 1
  <2>1. SubSeq(recs, a + 1, c) = <<>>
    BY <1>2, SubSeqEmpty
  <2> QED BY <2>1 DEF ToSet
<1>3. CASE ~(c < a + 1)
  <2>1. PICK n \in Nat : n = c - a /\ a + n = c /\ a + n <= Len(recs)
    BY <1>3
  <2>2. /\ SubSeq(recs, a + 1, a + n) \in Seq(S) /\ Len(SubSeq(recs, a + 1, a + n)) = n
        /\ \A i \in 1..n : a + i \in 1..Len(recs) /\ SubSeq(recs, a + 1, a + n)[i] = recs[a + i]
    BY <1>1, <2>1, SliceOf, SMTT(60)
  <2> DEFINE q == SubSeq(recs, a + 1, a + n)
  <2>6. q \in Seq(S) /\ Len(q) = n
    BY <2>2
  <2>4. \A i \in 1..Len(recs) : recs[i] \in ToSet(recs)
    BY <1>1, SetOfSeq
  <2> HIDE DEF q
  <2>3. ToSet(q) = {q[i] : i \in 1..n}
    BY <2>6, SetOfSeq
  <2>5. ToSet(q) \subseteq ToSet(recs)
    BY <2>2, <2>3, <2>4 DEF q
  <2> QED BY <2>1, <2>2, <2>5 DEF q
<1> QED BY <1>2, <1>3

LEMMA GivenPart ==
  ASSUME NEW recs, NEW gv, Given(recs, gv), NEW a \in Nat, NEW c \in Nat, c <= Len(recs)
  PROVE  Given(SubSeq(recs, a + 1, c), gv)
<1>1. recs \in Seq(Pieces)
  BY DEF Given
<1>2. /\ SubSeq(recs, a + 1, c) \in Seq(Pieces)
      /\ ToSet(SubSeq(recs, a + 1, c)) \subseteq ToSet(recs)
  BY <1>1, PartOf
<1> QED BY <1>2 DEF Given

\* One more record.
LEMMA GivenPush ==
  ASSUME NEW recs, NEW gv, Given(recs, gv), NEW r \in Pieces, r[2] # Missing => IsGiven(r[1], r[2], gv)
  PROVE  Given(Append(recs, r), gv)
<1>1. recs \in Seq(Pieces) /\ <<r>> \in Seq(Pieces) /\ ToSet(<<r>>) = {r}
  BY DEF Given, ToSet
<1>2. Given(<<r>>, gv)
  BY <1>1 DEF Given
<1>3. Append(recs, r) = recs \o <<r>>
  BY <1>1
<1> QED BY <1>2, <1>3, GivenJoin

LEMMA GramsAre == \A g \in Grams : g \in Nat
<1>1. ASSUME NEW f \in KeyFiles, NEW g \in ToSet(f.grams) PROVE g \in Nat
  <2>1. f.grams \in Seq(Nat)
    BY SlotIndexAssumption
  <2> QED BY <2>1, SetOfSeq
<1> QED BY <1>1 DEF Grams

LEMMA LowBytes ==
  ASSUME NEW s \in Nat, NEW c \in Cuts
  PROVE  s % c \in Nat /\ s - (s % c) \in Nat
<1>1. c \in Nat \ {0}
  BY SlotIndexAssumption
<1>2. s % c \in 0..(c - 1) /\ s = (s \div c) * c + (s % c) /\ s \div c \in Nat
  BY <1>1, DivMod
<1>3. (s \div c) * c \in Nat
  BY <1>1, <1>2
<1>4. PICK l \in Nat : l = s % c
  BY <1>1, <1>2
<1>5. PICK h \in Nat : h = (s \div c) * c
  BY <1>3
<1>6. s = h + l
  BY <1>2, <1>4, <1>5
<1> QED BY <1>4, <1>6

\* A record that is cut.
LEMMA CutIs ==
  ASSUME NEW r \in Pieces, NEW q \in CutRecords(r)
  PROVE  /\ q \in Pieces
         /\ q[2] # Missing => q[1] = r[1] /\ r[2] # Missing /\ \E c \in Cuts : q[2] = r[2] % c
<1>0. r[1] \in Nat \cup {Missing} /\ r[2] \in Nat \cup {Missing}
  BY PiecesAre
<1>1. CASE \E h \in Grams \cup {Missing} : q = <<h, Missing, "cut">>
  <2>1. PICK h \in Grams \cup {Missing} : q = <<h, Missing, "cut">>
    BY <1>1
  <2> QED BY <2>1, GramsAre, PiecesAre
<1>2. CASE r[2] # Missing /\ \E c \in Cuts : q = <<r[1], r[2] % c, "cut">>
  <2>1. PICK c \in Cuts : q = <<r[1], r[2] % c, "cut">>
    BY <1>2
  <2>2. r[2] % c \in Nat
    BY <1>0, <1>2, LowBytes
  <2>3. q \in Pieces
    BY <1>0, <2>1, <2>2, PiecesAre
  <2> QED BY <1>2, <2>1, <2>3
<1> QED BY <1>1, <1>2 DEF CutRecords

LEMMA PartsGiven ==
  ASSUME NEW recs, NEW gv, Listed(recs, gv), NEW bit \in Parts(recs)
  PROVE  Given(bit, gv)
<1>1. recs \in Seq(Record) /\ Len(recs) \in Nat /\ Given(recs, gv)
  BY ListedGiven, LenProperties DEF Listed
<1>2. ASSUME NEW n \in 0..Len(recs) PROVE Given(SubSeq(recs, 1, n), gv)
  <2>1. n \in Nat /\ n <= Len(recs) /\ 0 \in Nat /\ 0 + 1 = 1
    BY <1>1
  <2>2. Given(SubSeq(recs, 0 + 1, n), gv)
    BY <1>1, <2>1, GivenPart
  <2> QED BY <2>1, <2>2
<1>3. ASSUME NEW n \in 1..Len(recs), NEW r \in CutRecords(recs[n])
      PROVE  Given(Append(SubSeq(recs, 1, n - 1), r), gv)
  <2>1. Given(SubSeq(recs, 1, n - 1), gv)
    <3>1. n - 1 \in 0..Len(recs)
      BY <1>1
    <3> QED BY <1>2, <3>1
  <2>2. recs[n] \in gv /\ recs[n] \in Pieces
    BY <1>1, SetOfSeq, PiecesAre DEF Listed
  <2>3. /\ r \in Pieces
        /\ r[2] # Missing => r[1] = recs[n][1] /\ \E c \in Cuts : r[2] = recs[n][2] % c
    BY <2>2, CutIs
  <2>4. r[2] # Missing => IsGiven(r[1], r[2], gv)
    BY <2>2, <2>3 DEF IsGiven
  <2> QED BY <2>1, <2>3, <2>4, GivenPush
<1> HIDE DEF Given
<1> QED BY <1>2, <1>3 DEF Parts

LEMMA CurrentGiven ==
  ASSUME IndexTypes, GivenInv, build.pc # "idle"
  PROVE  Listed(Current, given)
<1>1. Grammed(build.file)
  BY FilesAre DEF IndexTypes, Building
<1> QED BY <1>1, BucketRecordsAre DEF Current, Listed, GivenInv

-----------------------------------------------------------------------------
\* A new element is appended.
LEMMA AppendedOnce ==
  ASSUME NEW S, NEW s \in Seq(S), NoRepeats(s), NEW e \in S, e \notin ToSet(s)
  PROVE  /\ Append(s, e) \in Seq(S) /\ ToSet(Append(s, e)) = ToSet(s) \cup {e}
         /\ NoRepeats(Append(s, e))
<1> DEFINE a == Append(s, e)
<1>1. PICK l \in Nat : l = Len(s)
  BY LenProperties
<1>2. /\ a \in Seq(S) /\ Len(a) = l + 1 /\ a[l + 1] = e
      /\ \A i \in 1..l : a[i] = s[i]
  BY <1>1
<1>3. ToSet(s) = {s[i] : i \in 1..l} /\ ToSet(a) = {a[i] : i \in 1..(l + 1)}
  BY <1>1, <1>2, SetOfSeq
<1>6. \A i, j \in 1..l : i # j => s[i] # s[j]
  BY <1>1 DEF NoRepeats
<1> HIDE DEF a
<1>4. ToSet(a) = ToSet(s) \cup {e}
  <2>1. l + 1 \in 1..(l + 1) /\ \A i \in 1..(l + 1) : i \in 1..l \/ i = l + 1
    OBVIOUS
  <2>2. \A i \in 1..l : i \in 1..(l + 1)
    OBVIOUS
  <2>3. ASSUME NEW x \in ToSet(a) PROVE x \in ToSet(s) \cup {e}
    BY <1>2, <1>3, <2>1, <2>3
  <2>4. ASSUME NEW x \in ToSet(s) \cup {e} PROVE x \in ToSet(a)
    BY <1>2, <1>3, <2>1, <2>2, <2>4
  <2> QED BY <2>3, <2>4
<1>5. NoRepeats(a)
  <2> SUFFICES ASSUME NEW i \in 1..(l + 1), NEW j \in 1..(l + 1), i # j PROVE a[i] # a[j]
    BY <1>2 DEF NoRepeats
  <2>1. (i \in 1..l \/ i = l + 1) /\ (j \in 1..l \/ j = l + 1)
    OBVIOUS
  <2>2. \A n \in 1..l : s[n] # e
    BY <1>3
  <2> QED BY <1>2, <1>6, <2>1, <2>2
<1> QED BY <1>2, <1>4, <1>5 DEF a

\* The first element is dropped.
LEMMA TailOnce ==
  ASSUME NEW S, NEW s \in Seq(S), NoRepeats(s), s # <<>>
  PROVE  Tail(s) \in Seq(S) /\ ToSet(Tail(s)) \subseteq ToSet(s) /\ NoRepeats(Tail(s))
<1> DEFINE t == Tail(s)
<1>1. t \in Seq(S) /\ ToSet(t) \subseteq ToSet(s)
  BY HeadOrTail
<1>2. PICK l \in Nat : l = Len(s) /\ l # 0
  BY LenProperties, NonEmpty
<1>3. Len(t) = l - 1 /\ \A i \in 1..(l - 1) : t[i] = s[i + 1]
  BY <1>2
<1>6. \A i, j \in 1..l : i # j => s[i] # s[j]
  BY <1>2 DEF NoRepeats
<1> HIDE DEF t
<1>4. NoRepeats(t)
  <2> SUFFICES ASSUME NEW i \in 1..(l - 1), NEW j \in 1..(l - 1), i # j PROVE t[i] # t[j]
    BY <1>3 DEF NoRepeats
  <2>1. i + 1 \in 1..l /\ j + 1 \in 1..l /\ i + 1 # j + 1
    BY <1>2
  <2> QED BY <1>3, <1>6, <2>1
<1> QED BY <1>1, <1>4 DEF t

-----------------------------------------------------------------------------
\* The cache: what is used again moves to its end, what is new may push out the first.
LEMMA CacheMoves ==
  ASSUME NEW c \in Seq(Entry), NoRepeats(c), NEW e \in ToSet(c)
  PROVE  LET d == Append(RemoveFirst(c, e), e) IN
         d \in Seq(Entry) /\ ToSet(d) = ToSet(c) /\ NoRepeats(d)
<1> DEFINE r == RemoveFirst(c, e)
           d == Append(r, e)
<1>1. r \in Seq(Entry) /\ ToSet(r) = ToSet(c) \ {e} /\ NoRepeats(r) /\ e \in Entry
  BY RemoveOnce, SetOfSeq
<1> HIDE DEF r
<1>2. d \in Seq(Entry) /\ ToSet(d) = ToSet(r) \cup {e} /\ NoRepeats(d)
  BY <1>1, AppendedOnce
<1> QED BY <1>1, <1>2 DEF r

LEMMA CacheTakes ==
  ASSUME NEW c \in Seq(Entry), NoRepeats(c), NEW e \in Entry, e \notin ToSet(c)
  PROVE  LET d == Evicted(Append(c, e)) IN
         d \in Seq(Entry) /\ ToSet(d) \subseteq ToSet(c) \cup {e} /\ NoRepeats(d)
<1> DEFINE a == Append(c, e)
<1>1. a \in Seq(Entry) /\ ToSet(a) = ToSet(c) \cup {e} /\ NoRepeats(a)
  BY AppendedOnce
<1> HIDE DEF a
<1>2. CASE Len(a) > CacheBuckets
  <2>1. Len(a) # 0
    BY <1>2, SlotIndexAssumption
  <2>2. a # <<>>
    BY <1>1, <2>1, NonEmpty
  <2>3. Tail(a) \in Seq(Entry) /\ ToSet(Tail(a)) \subseteq ToSet(a) /\ NoRepeats(Tail(a))
    BY <1>1, <2>2, TailOnce
  <2> QED BY <1>1, <1>2, <2>3 DEF Evicted, a
<1>3. CASE ~(Len(a) > CacheBuckets)
  BY <1>1, <1>3 DEF Evicted, a
<1> QED BY <1>2, <1>3

\* What a step of the build keeps for the readers.
BuildStep ==
  /\ BuildQuiet /\ build.pc # "idle"
  /\ build' \in Building /\ offsets' \in Seq(Nat)
  /\ (meta'.state = "ok" => meta'.nb \in Nat \ {0} /\ meta'.format \in Formats /\ meta'.hash \in HashNames)
  /\ (build'.pc # "idle" => build'.file = build.file)
  /\ Listed(build'.buf, given) /\ Given(data', given)
  /\ (build'.pc \in Emptied => build'.buf = <<>>)
  /\ \A b \in DOMAIN buckets' : Given(buckets'[b], given)

LEMMA BuildStepKeeps == LookupInv /\ BuildStep => LookupInv'
<1> SUFFICES ASSUME LookupInv, BuildStep PROVE LookupInv'
  OBVIOUS
<1>1. IndexTypes'
  BY DEF LookupInv, IndexTypes, BuildStep, BuildQuiet
<1>2. given' = given /\ indexReader' = indexReader /\ found' = found
  BY DEF BuildStep, BuildQuiet
<1>4. ~indexReader.steady
  BY DEF LookupInv, GivenInv, BuildStep
<1> HIDE DEF Given, Listed
<1>3. GivenInv'
  BY <1>2, <1>4 DEF LookupInv, GivenInv, BuildStep, NeverInvented
<1> QED BY <1>1, <1>3 DEF LookupInv

LEMMA OffsetTableTyped ==
  ASSUME build \in Building
  PROVE  OffsetTable \in Seq(Nat) /\ Len(OffsetTable) = build.nb + 1
<1> DEFINE below(n) == {r \in Records(build.file) : BucketOf(build.hash, r[1], build.nb) < n - 1}
<1>1. IsFiniteSet(Records(build.file)) /\ build.nb + 1 \in Nat
  BY FilesAre, RecordsAre DEF Building, Places
<1>2. ASSUME NEW n PROVE Cardinality(below(n)) \in Nat
  <2>1. below(n) \subseteq Records(build.file)
    OBVIOUS
  <2> HIDE DEF below
  <2> QED BY <1>1, <2>1, FS_Subset, FS_CardinalityType
<1>3. OffsetTable = [n \in 1..(build.nb + 1) |-> Cardinality(below(n))]
  BY DEF OffsetTable
<1> HIDE DEF below
<1>4. OffsetTable \in [1..(build.nb + 1) -> Nat]
  BY <1>2, <1>3
<1> QED BY <1>1, <1>4, FunIsSeq

\* The offsets that a file may hold.
LEMMA OffsetsTyped ==
  ASSUME build \in Building, offsets \in Seq(Nat), NEW offs \in OffsetsNow
  PROVE  offs \in Seq(Nat)
<1>1. CASE BuildAt("table")
  <2>1. OffsetTable \in Seq(Nat) /\ Len(OffsetTable) = build.nb + 1 /\ build.nb \in Nat
    BY OffsetTableTyped DEF Building
  <2>2. PICK n \in 0..(build.nb + 1) : offs = SubSeq(OffsetTable, 1, n)
    BY <1>1 DEF OffsetsNow
  <2>3. n \in Nat /\ n <= Len(OffsetTable) /\ 0 \in Nat /\ 0 + 1 = 1
    BY <2>1, <2>2
  <2>4. SubSeq(OffsetTable, 0 + 1, n) \in Seq(Nat)
    BY <2>1, <2>3, PartOf
  <2> QED BY <2>2, <2>3, <2>4
<1>2. CASE ~BuildAt("table")
  BY <1>2 DEF OffsetsNow
<1> QED BY <1>1, <1>2

LEMMA PutGiven ==
  ASSUME NEW b, NEW recs, Given(recs, given), \A x \in DOMAIN buckets : Given(buckets[x], given),
         PutBucket(b, recs)
  PROVE  \A x \in DOMAIN buckets' : Given(buckets'[x], given)
BY DEF PutBucket

LEMMA Fields ==
  ASSUME build \in Building
  PROVE  /\ build.pc \in Places
         /\ build.format \in Formats /\ build.hash \in HashNames /\ build.nb \in Nat \ {0}
         /\ build.next \in Nat /\ build.buf \in Seq(Record)
         /\ build.file \in IndexFiles /\ build.complete \in BOOLEAN
BY DEF Building, Places

\* A step of the build.
Moved(b, c, pc, next, buf) == c = [b EXCEPT !.pc = pc, !.next = next, !.buf = buf]

LEMMA Advanced ==
  ASSUME NEW pc \in Places, NEW next, next \in Nat, NEW buf, buf \in Seq(Record), NEW b \in Building,
         NEW c, Moved(b, c, pc, next, buf)
  PROVE  /\ c.pc = pc /\ c.next = next /\ c.buf = buf
         /\ c.file = b.file /\ c.format = b.format /\ c.hash = b.hash /\ c.nb = b.nb
         /\ c.complete = b.complete
         /\ c \in Building
BY DEF Building, Places, Moved

\* Building.
LEMMA BuildingGives ==
  ASSUME LookupInv,
         \/ CreateData \/ SkipBucket \/ CreateBucket \/ FillBucket \/ AppendBucket \/ Spill
         \/ BucketsDone \/ CreateOffsets \/ WriteOffsets \/ CreateMeta \/ Finish
         \/ StopIndex
  PROVE  LookupInv'
<1> USE DEF BuildAt, BuildGoto
<1>0. IndexTypes /\ GivenInv
  BY DEF LookupInv
<1>1. build \in Building /\ offsets \in Seq(Nat)
  BY <1>0 DEF IndexTypes
<1>2. /\ build.format \in Formats /\ build.hash \in HashNames /\ build.nb \in Nat \ {0}
      /\ build.next \in Nat /\ build.buf \in Seq(Record)
  BY <1>1, Fields
<1>3. meta.state = "ok" => meta.nb \in Nat \ {0} /\ meta.format \in Formats /\ meta.hash \in HashNames
  BY <1>0 DEF IndexTypes
<1>4. /\ \A b \in DOMAIN buckets : Given(buckets[b], given)
      /\ Given(data, given) /\ Listed(build.buf, given)
      /\ build.pc \in Emptied => build.buf = <<>>
  BY <1>0 DEF GivenInv
<1>5. build.pc # "idle" => Listed(Current, given) /\ Given(Current, given)
  BY <1>0, CurrentGiven, ListedGiven
<1>6. /\ Given(<<>>, given) /\ Listed(<<>>, given) /\ Given(data \o build.buf, given)
      /\ <<>> \in Seq(Record) /\ <<>> \in Seq(Nat)
  BY <1>4, NothingGiven, ListedGiven, GivenJoin
<1>7. build.pc # "idle" => Listed(build.buf \o Current, given) /\ build.buf \o Current \in Seq(Record)
  BY <1>4, <1>5, ListedJoin DEF Listed
<1> HIDE DEF Given, Listed
<1>8. CASE CreateData
  <2>1. BuildStep
    BY <1>1, <1>3, <1>4, <1>6, <1>8 DEF CreateData, BuildStep, Building, Places, Emptied
  <2> QED BY <2>1, BuildStepKeeps
<1>9. CASE SkipBucket
  <2>1. build' \in Building
    BY <1>1, <1>2, <1>9 DEF SkipBucket, Building, Places
  <2>2. build'.buf = build.buf /\ build'.file = build.file /\ build'.pc = "bucket"
    BY <1>1, <1>9 DEF SkipBucket, Building, Places
  <2>3. BuildStep
    BY <1>1, <1>3, <1>4, <1>9, <2>1, <2>2 DEF SkipBucket, BuildStep, Emptied
  <2> QED BY <2>3, BuildStepKeeps
<1>10. CASE CreateBucket
  <2>1. build' \in Building /\ build'.buf = build.buf /\ build'.file = build.file /\ build'.pc = "fill"
    BY <1>1, <1>10 DEF CreateBucket, Building, Places
  <2>2. \A b \in DOMAIN buckets' : Given(buckets'[b], given)
    BY <1>4, <1>6, <1>10, PutGiven DEF CreateBucket
  <2>3. BuildStep
    BY <1>1, <1>3, <1>4, <1>10, <2>1, <2>2 DEF CreateBucket, BuildStep, Emptied
  <2> QED BY <2>3, BuildStepKeeps
<1>11. CASE FillBucket
  <2>4. build.pc # "idle" /\ Moved(build, build', "bucket", build.next + 1, build.buf)
    BY <1>1, <1>11 DEF FillBucket, Moved, Building, Places
  <2>1. /\ build' \in Building /\ build'.buf = build.buf /\ build'.file = build.file
        /\ build.pc # "idle" /\ build'.pc = "bucket"
    <3>1. "bucket" \in Places /\ build.next + 1 \in Nat
      BY <1>2 DEF Places
    <3> QED BY <1>1, <1>2, <2>4, <3>1, Advanced
  <2>2. \A b \in DOMAIN buckets' : Given(buckets'[b], given)
    BY <1>4, <1>5, <1>11, <2>1, PutGiven DEF FillBucket
  <2>3. BuildStep
    BY <1>1, <1>3, <1>4, <1>11, <2>1, <2>2 DEF FillBucket, BuildStep, Emptied
  <2> QED BY <2>3, BuildStepKeeps
<1>12. CASE AppendBucket
  <2>1. build.pc # "idle"
    BY <1>12 DEF AppendBucket
  <2>4. Moved(build, build', "bucket", build.next + 1, build.buf \o Current)
    BY <1>1, <1>12 DEF AppendBucket, Moved, Building, Places
  <2>5. build.buf \o Current \in Seq(Record) /\ build.next + 1 \in Nat
    BY <1>2, <1>7, <2>1
  <2>6. "bucket" \in Places
    BY DEF Places
  <2>2. build' \in Building /\ build'.buf = build.buf \o Current /\ build'.file = build.file /\ build'.pc = "bucket"
    <3>1. PICK buf \in Seq(Record) : buf = build.buf \o Current
      BY <2>5
    <3>2. Moved(build, build', "bucket", build.next + 1, buf)
      BY <2>4, <3>1
    <3>3. build'.buf = buf /\ build'.file = build.file /\ build' \in Building /\ build'.pc = "bucket"
      BY <1>1, <1>2, <2>5, <2>6, <3>2, Advanced
    <3> QED BY <3>1, <3>3
  <2>3. BuildStep
    BY <1>1, <1>3, <1>4, <1>7, <1>12, <2>1, <2>2 DEF AppendBucket, BuildStep, Emptied
  <2> QED BY <2>3, BuildStepKeeps
<1>13. CASE Spill
  <2>1. build' \in Building /\ build'.buf = <<>> /\ build'.file = build.file
    BY <1>1, <1>6, <1>13 DEF Spill, Building, Places
  <2>2. BuildStep
    BY <1>1, <1>3, <1>4, <1>6, <1>13, <2>1 DEF Spill, BuildStep
  <2> QED BY <2>2, BuildStepKeeps
<1>14. CASE BucketsDone
  <2>1. build' \in Building /\ build'.buf = build.buf /\ build'.file = build.file
    BY <1>1, <1>14 DEF BucketsDone, Building, Places
  <2>2. BuildStep
    BY <1>1, <1>3, <1>4, <1>14, <2>1 DEF BucketsDone, BuildStep, Emptied
  <2> QED BY <2>2, BuildStepKeeps
<1>15. CASE CreateOffsets
  <2>1. build' \in Building /\ build'.buf = build.buf /\ build'.file = build.file
    BY <1>1, <1>15 DEF CreateOffsets, Building, Places
  <2>2. BuildStep
    BY <1>1, <1>3, <1>4, <1>6, <1>15, <2>1 DEF CreateOffsets, BuildStep, Emptied
  <2> QED BY <2>2, BuildStepKeeps
<1>16. CASE WriteOffsets
  <2>1. build' \in Building /\ build'.buf = build.buf /\ build'.file = build.file
    BY <1>1, <1>16 DEF WriteOffsets, Building, Places
  <2>2. BuildStep
    BY <1>1, <1>3, <1>4, <1>16, <2>1, OffsetTableTyped DEF WriteOffsets, BuildStep, Emptied
  <2> QED BY <2>2, BuildStepKeeps
<1>17. CASE CreateMeta
  <2>1. build' \in Building /\ build'.buf = build.buf /\ build'.file = build.file
    BY <1>1, <1>17 DEF CreateMeta, Building, Places
  <2>2. BuildStep
    BY <1>1, <1>4, <1>17, <2>1 DEF CreateMeta, BuildStep, Emptied
  <2> QED BY <2>2, BuildStepKeeps
<1>18. CASE Finish
  <2>1. build' \in Building /\ build'.buf = build.buf /\ build'.file = build.file /\ build'.pc = "idle"
    BY <1>1, <1>18 DEF Finish, Building, Places
  <2>2. BuildStep
    BY <1>1, <1>2, <1>4, <1>18, <2>1 DEF Finish, BuildStep, Emptied
  <2> QED BY <2>2, BuildStepKeeps
<1>19. CASE StopIndex
  <2>1. build' \in Building /\ build'.buf = <<>> /\ build'.pc = "idle" /\ build.pc # "idle"
    BY <1>1, <1>6, <1>19 DEF StopIndex, Building, Places
  <2>2. Given(data', given)
    <3>1. PICK bit \in Parts(build.buf) : data' = data \o bit
      BY <1>19 DEF StopIndex, DataNow
    <3> QED BY <1>4, <3>1, PartsGiven, GivenJoin
  <2>3. offsets' \in Seq(Nat)
    BY <1>1, <1>19, OffsetsTyped DEF StopIndex
  <2>4. \A b \in DOMAIN buckets' : Given(buckets'[b], given)
    <3>1. CASE BuildAt("fill")
      <4>1. PICK recs \in Parts(Current) : PutBucket(build.next, recs)
        BY <1>19, <3>1 DEF StopIndex, BucketNow
      <4>2. Given(recs, given)
        BY <1>5, <2>1, <4>1, PartsGiven
      <4> QED BY <1>4, <4>1, <4>2, PutGiven
    <3>2. CASE ~BuildAt("fill")
      BY <1>4, <1>19, <3>2 DEF StopIndex
    <3> QED BY <3>1, <3>2
  <2>5. BuildStep
    BY <1>3, <1>6, <1>19, <2>1, <2>2, <2>3, <2>4 DEF StopIndex, BuildStep
  <2> QED BY <2>5, BuildStepKeeps
<1> QED BY <1>8, <1>9, <1>10, <1>11, <1>12, <1>13, <1>14, <1>15, <1>16, <1>17, <1>18, <1>19

LEMMA BeginGives ==
  ASSUME LookupInv, NEW f \in KeyFiles, NEW format \in Formats, NEW hash \in Hashes,
         NEW nb \in BucketCounts, BeginIndex(f, format, hash, nb)
  PROVE  LookupInv'
<1>1. IndexTypes /\ GivenInv
  BY DEF LookupInv
<1>2. CASE f.whole
  <2>1. f \in IndexFiles /\ hash \in HashNames /\ nb \in Nat \ {0} /\ <<>> \in Seq(Record)
    BY SlotIndexAssumption DEF IndexFiles, HashNames
  <2>9. build' = [pc |-> IF format = "v3" THEN "data" ELSE "bucket", file |-> f, format |-> format,
                  hash |-> hash, nb |-> nb, next |-> 0, buf |-> <<>>, complete |-> FALSE]
    BY <1>2 DEF BeginIndex, Idle
  <2>2. build' \in Building /\ build'.buf = <<>> /\ build'.file = f
    BY <2>1, <2>9 DEF Building, Places
  <2>3. /\ given' = given \cup Records(f) /\ found' = NotAsked
        /\ indexReader' = [indexReader EXCEPT !.fresh = FALSE, !.steady = FALSE]
    BY <1>2 DEF BeginIndex
  <2>4. /\ indexReader' \in IndexReading /\ indexReader'.cache = indexReader.cache
        /\ indexReader'.open = indexReader.open /\ indexReader'.format = indexReader.format
        /\ indexReader'.offsets = indexReader.offsets /\ indexReader'.nb = indexReader.nb
        /\ ~indexReader'.steady
    BY <1>1, <2>3 DEF IndexTypes, IndexReading
  <2>5. buckets' = buckets /\ data' = data /\ offsets' = offsets /\ meta' = meta
    BY DEF BeginIndex
  <2>10. found' \in Finding
    BY <2>3 DEF NotAsked, Finding, Missing
  <2>6. IndexTypes'
    BY <1>1, <2>2, <2>4, <2>5, <2>10 DEF IndexTypes
  <2>7. NeverInvented'
    BY <2>4 DEF NeverInvented
  <2>8. GivenInv'
    <3>1. given \subseteq given' /\ Records(f) \subseteq given'
      BY <2>3
    <3>2. /\ \A b \in DOMAIN buckets : Given(buckets[b], given')
          /\ Given(data, given') /\ Listed(<<>>, given')
      BY <1>1, <3>1, GivenMore, NothingGiven DEF GivenInv
    <3> HIDE DEF Given, Listed
    <3> QED BY <2>2, <2>4, <2>5, <2>7, <3>1, <3>2 DEF GivenInv
  <2> QED BY <2>6, <2>8 DEF LookupInv
<1>3. CASE ~f.whole
  <2>1. UNCHANGED <<buckets, data, offsets, meta, build, given, indexReader, found>>
    BY <1>3 DEF BeginIndex
  <2> QED BY <1>1, <2>1 DEF LookupInv, IndexTypes, GivenInv, NeverInvented
<1> QED BY <1>2, <1>3

-----------------------------------------------------------------------------
(* Disk slot index: looking up.                                            *)

\* A reader is opened, or is closed, or the index is verified.
LEMMA OpenGives == LookupInv /\ (Open \/ CloseIndex \/ \E f \in KeyFiles : VerifyIndex(f)) => LookupInv'
<1> SUFFICES ASSUME LookupInv, Open \/ CloseIndex \/ \E f \in KeyFiles : VerifyIndex(f) PROVE LookupInv'
  OBVIOUS
<1>0. IndexTypes /\ GivenInv
  BY DEF LookupInv
<1>1. UNCHANGED <<buckets, data, offsets, meta, build, given>>
  BY DEF Open, CloseIndex, VerifyIndex
<1>2. NotAsked \in Finding /\ NotAsked.slot = Missing
  BY DEF NotAsked, Finding, Missing
<1>3. <<>> \in Seq(Entry) /\ <<>> \in Seq(Pieces) /\ NoRepeats(<<>>) /\ ToSet(<<>>) = {} /\ <<>> \in Seq(Nat)
  BY DEF NoRepeats, ToSet
<1>4. ASSUME indexReader' \in IndexReading, indexReader'.cache = <<>>, found' = NotAsked,
             indexReader'.ahead = <<>>, indexReader'.steady => build.pc = "idle",
             indexReader'.open /\ indexReader'.format = "v3" => Len(indexReader'.offsets) = indexReader'.nb + 1
      PROVE  LookupInv'
  <2>1. IndexTypes'
    BY <1>0, <1>1, <1>2, <1>3, <1>4 DEF IndexTypes
  <2>2. NeverInvented'
    BY <1>2, <1>4 DEF NeverInvented
  <2> HIDE DEF Given, Listed
  <2>3. GivenInv'
    BY <1>0, <1>1, <1>3, <1>4, <2>2 DEF GivenInv
  <2> QED BY <2>1, <2>3 DEF LookupInv
<1>5. CASE Open
  <2>1. PICK offs \in OffsetsNow :
          /\ Openable(offs)
          /\ indexReader' = [open |-> TRUE, format |-> meta.format, hash |-> meta.hash, nb |-> meta.nb,
                             offsets |-> IF meta.format = "v3" THEN offs ELSE <<>>,
                             cache |-> <<>>, ahead |-> <<>>,
                             fresh |-> build.complete, steady |-> build.pc = "idle"]
    BY <1>5 DEF Open
  <2>2. /\ meta.nb \in Nat \ {0} /\ meta.format \in Formats /\ meta.hash \in HashNames
        /\ meta.format = "v3" => Len(offs) = meta.nb + 1
    BY <1>0, <2>1 DEF Openable, IndexTypes
  <2>3. offs \in Seq(Nat) /\ build.complete \in BOOLEAN
    BY <1>0, <2>1, Fields, OffsetsTyped DEF IndexTypes
  <2>4. indexReader' \in IndexReading
    BY <1>3, <2>1, <2>2, <2>3 DEF IndexReading
  <2>5. found' = NotAsked
    BY <1>5 DEF Open
  <2> QED BY <1>4, <2>1, <2>2, <2>4, <2>5
<1>6. CASE CloseIndex
  <2>1. Closed = [open |-> FALSE, format |-> "v2", hash |-> "fnv1a-64", nb |-> 1,
                  offsets |-> <<>>, cache |-> <<>>, ahead |-> <<>>, fresh |-> FALSE, steady |-> FALSE]
    BY DEF Closed
  <2>2. Closed \in IndexReading
    BY <1>3, <2>1 DEF IndexReading, Formats, HashNames
  <2> QED BY <1>4, <1>6, <2>1, <2>2 DEF CloseIndex
<1>7. CASE \E f \in KeyFiles : VerifyIndex(f)
  <2>1. UNCHANGED <<buckets, data, offsets, meta, build, given, indexReader, found>>
    BY <1>7 DEF VerifyIndex
  <2> QED BY <1>0, <2>1 DEF LookupInv, IndexTypes, GivenInv, NeverInvented
<1> QED BY <1>5, <1>6, <1>7

\* A slice of a file, by a table of offsets that may be that of another.
LEMMA SliceIs ==
  ASSUME NEW S, NEW recs \in Seq(S), NEW offs \in Seq(Nat), NEW b \in Nat, b + 2 <= Len(offs)
  PROVE  /\ Slice(recs, offs, b) \in Seq(S) /\ ToSet(Slice(recs, offs, b)) \subseteq ToSet(recs)
         /\ offs[b + 1] = offs[b + 2] => Slice(recs, offs, b) = <<>>
<1>1. PICK n \in Nat, l \in Nat : n = Len(offs) /\ l = Len(recs)
  BY LenProperties
<1>2. b + 1 \in 1..n /\ b + 2 \in 1..n
  BY <1>1
<1>3. offs[b + 1] \in Nat /\ offs[b + 2] \in Nat
  BY <1>1, <1>2, ElementOfSeq
<1>4. PICK x \in Nat, c \in Nat : x = offs[b + 1] /\ c = offs[b + 2]
  BY <1>3
<1>5. PICK e \in Nat : e = (IF c < l THEN c ELSE l) /\ e <= l /\ e <= c
  <2>1. CASE c < l
    BY <2>1
  <2>2. CASE ~(c < l)
    BY <2>2
  <2> QED BY <2>1, <2>2
<1>6. Slice(recs, offs, b) = SubSeq(recs, x + 1, e)
  BY <1>1, <1>4, <1>5 DEF Slice
<1>7. SubSeq(recs, x + 1, e) \in Seq(S) /\ ToSet(SubSeq(recs, x + 1, e)) \subseteq ToSet(recs)
  BY <1>1, <1>5, PartOf
<1>8. x = c => SubSeq(recs, x + 1, e) = <<>>
  <2> SUFFICES ASSUME x = c PROVE SubSeq(recs, x + 1, e) = <<>>
    OBVIOUS
  <2>1. e < x + 1 /\ x + 1 \in Int /\ e \in Int
    BY <1>5
  <2> QED BY <2>1, SubSeqEmpty
<1> QED BY <1>4, <1>6, <1>7, <1>8

\* A record of which another was the beginning.
LEMMA JoinedTyped ==
  ASSUME NEW o \in Pieces, NEW n \in Pieces, NEW r \in Joined(o, n)
  PROVE  r \in Pieces
<1>0. /\ o[1] \in Nat \cup {Missing} /\ o[2] \in Nat \cup {Missing}
      /\ n[1] \in Nat \cup {Missing} /\ n[2] \in Nat \cup {Missing}
  BY PiecesAre
<1>1. CASE r = o
  BY <1>1
<1>2. CASE \E h \in Grams \cup {Missing} : r = <<h, Missing>>
  BY <1>2, GramsAre, PiecesAre
<1>3. CASE \E g \in Grams : r = <<g, n[2]>>
  BY <1>0, <1>3, GramsAre, PiecesAre
<1>4. CASE o[2] # Missing /\ \E c \in Cuts : r = <<o[1], (o[2] % c) + HighBytes(n, c)>>
  <2>1. PICK c \in Cuts : r = <<o[1], (o[2] % c) + HighBytes(n, c)>>
    BY <1>4
  <2>2. o[2] % c \in Nat
    BY <1>0, <1>4, LowBytes
  <2>3. HighBytes(n, c) \in Nat
    <3>1. n[2] # Missing => n[2] - (n[2] % c) \in Nat
      BY <1>0, LowBytes
    <3> QED BY <3>1 DEF HighBytes
  <2>4. (o[2] % c) + HighBytes(n, c) \in Nat
    BY <2>2, <2>3
  <2> QED BY <1>0, <2>1, <2>4, PiecesAre
<1> QED BY <1>1, <1>2, <1>3, <1>4 DEF Joined

LEMMA MixIs ==
  ASSUME NEW old, NEW new, NEW mix \in Mixes(old, new)
  PROVE  \/ \E n \in 0..Len(old) : mix = SubSeq(old, 1, n) \o SubSeq(new, n + 1, Len(new))
         \/ \E n \in 1..Len(old) :
              \E r \in IF n <= Len(new) THEN Joined(old[n], new[n]) ELSE CutRecords(old[n]) :
                mix = SubSeq(old, 1, n - 1) \o <<r>> \o SubSeq(new, n + 1, Len(new))
BY DEF Mixes

LEMMA MixTyped ==
  ASSUME NEW old \in Seq(Pieces), NEW new \in Seq(Pieces), NEW mix \in Mixes(old, new)
  PROVE  mix \in Seq(Pieces)
<1>1. Len(old) \in Nat /\ Len(new) \in Nat
  BY LenProperties
<1>2. ASSUME NEW n \in Nat, n <= Len(old) PROVE SubSeq(old, 1, n) \in Seq(Pieces)
  <2>1. SubSeq(old, 0 + 1, n) \in Seq(Pieces)
    BY <1>1, <1>2, PartOf
  <2> QED BY <2>1
<1>3. ASSUME NEW n \in Nat PROVE SubSeq(new, n + 1, Len(new)) \in Seq(Pieces)
  BY <1>1, PartOf
<1>4. ASSUME NEW n \in 0..Len(old), mix = SubSeq(old, 1, n) \o SubSeq(new, n + 1, Len(new)) PROVE mix \in Seq(Pieces)
  <2>1. SubSeq(old, 1, n) \in Seq(Pieces) /\ SubSeq(new, n + 1, Len(new)) \in Seq(Pieces)
    BY <1>2, <1>3
  <2> QED BY <1>4, <2>1, ConcatProperties
<1>5. ASSUME NEW n \in 1..Len(old), NEW r \in IF n <= Len(new) THEN Joined(old[n], new[n]) ELSE CutRecords(old[n]),
             mix = SubSeq(old, 1, n - 1) \o <<r>> \o SubSeq(new, n + 1, Len(new))
      PROVE  mix \in Seq(Pieces)
  <2>1. n - 1 \in Nat /\ n - 1 <= Len(old) /\ n \in Nat
    BY <1>1
  <2>2. SubSeq(old, 1, n - 1) \in Seq(Pieces) /\ SubSeq(new, n + 1, Len(new)) \in Seq(Pieces)
    BY <1>2, <1>3, <2>1
  <2>3. old[n] \in Pieces
    BY <1>1, ElementOfSeq
  <2>4. r \in Pieces
    <3>1. CASE n <= Len(new)
      <4>1. n \in 1..Len(new)
        BY <1>1, <3>1
      <4>2. new[n] \in Pieces
        BY <4>1, ElementOfSeq
      <4> QED BY <1>5, <2>3, <3>1, <4>2, JoinedTyped
    <3>2. CASE ~(n <= Len(new))
      BY <1>5, <2>3, <3>2, CutIs
    <3> QED BY <3>1, <3>2
  <2>5. <<r>> \in Seq(Pieces)
    BY <2>4
  <2>6. SubSeq(old, 1, n - 1) \o <<r>> \in Seq(Pieces)
    BY <2>2, <2>5, ConcatProperties
  <2> QED BY <1>5, <2>2, <2>6, ConcatProperties
<1> QED BY <1>4, <1>5, MixIs

\* A file that was read ahead, and has not changed.
LEMMA Rejoined ==
  ASSUME NEW S, NEW recs \in Seq(S), NEW n \in Nat, n <= Len(recs)
  PROVE  /\ SubSeq(recs, 1, n) \o SubSeq(recs, n + 1, Len(recs)) = recs
         /\ n # 0 => SubSeq(recs, 1, n - 1) \o <<recs[n]>> = SubSeq(recs, 1, n)
<1>1. PICK l \in Nat : l = Len(recs)
  BY LenProperties
<1>2. ASSUME NEW m \in Nat, m <= l
      PROVE  /\ SubSeq(recs, 1, m) \in Seq(S) /\ Len(SubSeq(recs, 1, m)) = m
             /\ \A i \in 1..m : SubSeq(recs, 1, m)[i] = recs[i]
  <2>1. 0 \in Nat /\ 0 + m = m /\ 0 + 1 = 1 /\ 0 + m <= Len(recs) /\ \A i \in 1..m : 0 + i = i
    BY <1>1, <1>2
  <2>2. /\ SubSeq(recs, 0 + 1, 0 + m) \in Seq(S) /\ Len(SubSeq(recs, 0 + 1, 0 + m)) = m
        /\ \A i \in 1..m : SubSeq(recs, 0 + 1, 0 + m)[i] = recs[0 + i]
    BY <2>1, SliceOf, SMTT(60)
  <2> QED BY <2>1, <2>2
<1>10. l - n \in Nat /\ n + (l - n) = l
  BY <1>1
<1>3. PICK k \in Nat : n + k = l
  BY <1>10
<1>4. /\ SubSeq(recs, n + 1, l) \in Seq(S) /\ Len(SubSeq(recs, n + 1, l)) = k
      /\ \A i \in 1..k : SubSeq(recs, n + 1, l)[i] = recs[n + i]
  <2>1. n + k <= Len(recs)
    BY <1>1, <1>3
  <2>2. /\ SubSeq(recs, n + 1, n + k) \in Seq(S) /\ Len(SubSeq(recs, n + 1, n + k)) = k
        /\ \A i \in 1..k : SubSeq(recs, n + 1, n + k)[i] = recs[n + i]
    BY <2>1, SliceOf, SMTT(60)
  <2> QED BY <1>3, <2>2
<1>5. PICK p, q : p = SubSeq(recs, 1, n) /\ q = SubSeq(recs, n + 1, l)
  OBVIOUS
<1>6. /\ p \in Seq(S) /\ Len(p) = n /\ q \in Seq(S) /\ Len(q) = k
      /\ \A i \in 1..n : p[i] = recs[i]
      /\ \A i \in 1..k : q[i] = recs[n + i]
  BY <1>1, <1>2, <1>4, <1>5
<1>7. /\ p \o q \in Seq(S) /\ Len(p \o q) = n + k
      /\ \A i \in 1..(n + k) : (p \o q)[i] = IF i <= n THEN p[i] ELSE q[i - n]
  <2>1. /\ p \o q \in Seq(S) /\ Len(p \o q) = Len(p) + Len(q)
        /\ \A i \in 1..(Len(p) + Len(q)) : (p \o q)[i] = IF i <= Len(p) THEN p[i] ELSE q[i - Len(p)]
    BY <1>6, ConcatProperties
  <2> QED BY <1>6, <2>1
<1>8. p \o q = recs
  <2>1. ASSUME NEW i \in 1..(n + k) PROVE (p \o q)[i] = recs[i]
    <3>1. CASE i <= n
      BY <1>6, <1>7, <3>1
    <3>2. CASE ~(i <= n)
      <4>1. i - n \in 1..k /\ n + (i - n) = i
        BY <3>2
      <4> QED BY <1>6, <1>7, <3>2, <4>1
    <3> QED BY <3>1, <3>2
  <2> QED BY <1>1, <1>3, <1>7, <2>1, SeqEqual
<1>9. ASSUME n # 0 PROVE SubSeq(recs, 1, n - 1) \o <<recs[n]>> = SubSeq(recs, 1, n)
  <2>1. PICK m \in Nat : m = n - 1 /\ m + 1 = n /\ m <= l
    BY <1>1, <1>9
  <2>2. PICK s : s = SubSeq(recs, 1, m)
    OBVIOUS
  <2>3. s \in Seq(S) /\ Len(s) = m /\ \A i \in 1..m : s[i] = recs[i]
    BY <1>2, <2>1, <2>2
  <2>4. n \in 1..l
    BY <1>1, <1>9
  <2>5. recs[n] \in S
    BY <1>1, <2>4, ElementOfSeq
  <2>6. PICK t : t = <<recs[n]>>
    OBVIOUS
  <2>7. t \in Seq(S) /\ Len(t) = 1 /\ t[1] = recs[n]
    BY <2>5, <2>6
  <2>8. /\ s \o t \in Seq(S) /\ Len(s \o t) = n
        /\ \A i \in 1..n : (s \o t)[i] = IF i <= m THEN s[i] ELSE t[i - m]
    <3>1. /\ s \o t \in Seq(S) /\ Len(s \o t) = Len(s) + Len(t)
          /\ \A i \in 1..(Len(s) + Len(t)) : (s \o t)[i] = IF i <= Len(s) THEN s[i] ELSE t[i - Len(s)]
      <4>1. s \in Seq(S) /\ t \in Seq(S)
        BY <2>3, <2>7
      <4> QED BY <4>1, ConcatProperties
    <3> QED BY <2>1, <2>3, <2>7, <3>1
  <2>9. ASSUME NEW i \in 1..n PROVE (s \o t)[i] = p[i]
    <3>1. CASE i <= m
      <4>1. i \in 1..m
        BY <3>1
      <4> QED BY <1>6, <2>3, <2>8, <3>1, <4>1
    <3>2. CASE ~(i <= m)
      <4>1. i = n /\ i - m = 1
        BY <2>1, <3>2
      <4> QED BY <1>6, <2>7, <2>8, <3>2, <4>1
    <3> QED BY <3>1, <3>2
  <2>10. s \o t = p
    BY <1>6, <2>8, <2>9, SeqEqual
  <2> QED BY <1>5, <2>1, <2>2, <2>6, <2>10
<1> QED BY <1>1, <1>5, <1>8, <1>9

LEMMA MixSame ==
  ASSUME NEW recs \in Seq(Pieces), NEW old \in {<<>>, recs}, NEW mix \in Mixes(old, recs)
  PROVE  mix = recs
<1>1. Len(recs) \in Nat
  BY LenProperties
<1>2. CASE old = <<>>
  <2>1. Len(<<>>) = 0 /\ 0..0 = {0} /\ 1..0 = {} /\ 0 \in Nat /\ 0 <= Len(recs)
    BY <1>1
  <2>2. mix = SubSeq(<<>>, 1, 0) \o SubSeq(recs, 0 + 1, Len(recs))
    <3>1. mix \in Mixes(<<>>, recs)
      BY <1>2
    <3>2. \/ \E n \in 0..Len(<<>>) : mix = SubSeq(<<>>, 1, n) \o SubSeq(recs, n + 1, Len(recs))
          \/ \E n \in 1..Len(<<>>) : TRUE
      BY <3>1, MixIs, ZenonT(30)
    <3>3. PICK n \in 0..Len(<<>>) : mix = SubSeq(<<>>, 1, n) \o SubSeq(recs, n + 1, Len(recs))
      BY <2>1, <3>2
    <3>4. n = 0
      BY <2>1
    <3> QED BY <3>3, <3>4
  <2>3. SubSeq(<<>>, 1, 0) = SubSeq(recs, 1, 0)
    <3>1. SubSeq(<<>>, 1, 0) = <<>> /\ SubSeq(recs, 1, 0) = <<>>
      BY SubSeqEmpty
    <3> QED BY <3>1
  <2> QED BY <2>1, <2>2, <2>3, Rejoined
<1>3. CASE old = recs
  <2>1. ASSUME NEW n \in 0..Len(recs), mix = SubSeq(recs, 1, n) \o SubSeq(recs, n + 1, Len(recs)) PROVE mix = recs
    <3>1. n \in Nat /\ n <= Len(recs)
      BY <1>1
    <3> QED BY <1>1, <2>1, <3>1, Rejoined
  <2>2. ASSUME NEW n \in 1..Len(recs), NEW r \in IF n <= Len(recs) THEN Joined(recs[n], recs[n]) ELSE CutRecords(recs[n]),
               mix = SubSeq(recs, 1, n - 1) \o <<r>> \o SubSeq(recs, n + 1, Len(recs))
        PROVE  mix = recs
    <3>1. n \in Nat /\ n <= Len(recs) /\ n # 0 /\ n <= Len(recs)
      BY <1>1
    <3>2. r = recs[n]
      BY <2>2, <3>1 DEF Joined
    <3>3. SubSeq(recs, 1, n - 1) \o <<r>> = SubSeq(recs, 1, n)
      BY <3>1, <3>2, Rejoined
    <3> QED BY <1>1, <2>2, <3>1, <3>3, Rejoined
  <2>3. mix \in Mixes(recs, recs)
    BY <1>3
  <2> QED BY <2>1, <2>2, <2>3, MixIs
<1> QED BY <1>2, <1>3

\* What a file has when no build writes it.
OnFile(format, offs, b) ==
  IF format = "v3" THEN Slice(data, offs, b)
  ELSE IF b \in DOMAIN buckets THEN buckets[b] ELSE <<>>

\* What a reader finds of a bucket on disk was given, even where its table of offsets is stale.
LEMMA OnFileGiven ==
  ASSUME IndexTypes, GivenInv, indexReader.open, NEW b \in 0..(indexReader.nb - 1)
  PROVE  Given(OnFile(indexReader.format, indexReader.offsets, b), given)
<1>1. indexReader.nb \in Nat \ {0} /\ indexReader.offsets \in Seq(Nat)
  BY DEF IndexTypes, IndexReading
<1>2. CASE indexReader.format = "v3"
  <2>1. PICK n \in Nat : n = indexReader.nb /\ Len(indexReader.offsets) = n + 1
    BY <1>1, <1>2 DEF IndexTypes
  <2>2. b \in Nat /\ b + 2 <= Len(indexReader.offsets)
    <3>1. b \in 0..(n - 1)
      BY <2>1
    <3>2. b \in Nat /\ b + 2 <= n + 1
      BY <3>1
    <3> QED BY <2>1, <3>2
  <2>3. PICK q : q = Slice(data, indexReader.offsets, b)
    OBVIOUS
  <2>4. data \in Seq(Pieces)
    BY DEF GivenInv, Given
  <2>5. q \in Seq(Pieces) /\ ToSet(q) \subseteq ToSet(data)
    BY <1>1, <2>2, <2>3, <2>4, SliceIs
  <2>6. Given(q, given)
    BY <2>5 DEF GivenInv, Given
  <2> QED BY <1>2, <2>3, <2>6 DEF OnFile
<1>3. CASE indexReader.format # "v3"
  <2>1. OnFile(indexReader.format, indexReader.offsets, b) = IF b \in DOMAIN buckets THEN buckets[b] ELSE <<>>
    BY <1>3 DEF OnFile
  <2> HIDE DEF Given, Listed
  <2> QED BY <2>1, NothingGiven DEF GivenInv
<1> QED BY <1>2, <1>3

\* The records a lookup searches while no build runs.
Looked(b) ==
  IF Cached(b) THEN FromCache(b)[2] ELSE OnFile(indexReader.format, indexReader.offsets, b)

\* An entry of the cache is for its bucket.
LEMMA FromCacheIs ==
  ASSUME NEW b, Cached(b), indexReader \in IndexReading
  PROVE  FromCache(b) \in ToSet(indexReader.cache) /\ FromCache(b)[1] = b
<1>1. PICK n \in 1..Len(indexReader.cache) : indexReader.cache[n][1] = b
  BY DEF Cached
<1>2. indexReader.cache[n] \in ToSet(indexReader.cache)
  <2>1. indexReader.cache \in Seq(Entry)
    BY DEF IndexReading
  <2> QED BY <2>1, SetOfSeq
<1> QED BY <1>1, <1>2 DEF FromCache

\* What a file of a build in progress may hold has records, and pieces of them.
LEMMA FilesTyped ==
  ASSUME IndexTypes, GivenInv
  PROVE  /\ \A file \in DataNow : file \in Seq(Pieces)
         /\ \A b, recs : recs \in BucketNow(b) => recs \in Seq(Pieces)
<1>1. /\ \A b \in DOMAIN buckets : buckets[b] \in Seq(Pieces)
      /\ data \in Seq(Pieces) /\ Listed(build.buf, given) /\ <<>> \in Seq(Pieces)
  BY DEF GivenInv, Given
<1>2. ASSUME NEW file \in DataNow PROVE file \in Seq(Pieces)
  <2>1. PICK bit \in Parts(build.buf) : file = data \o bit
    BY DEF DataNow
  <2>2. bit \in Seq(Pieces)
    BY <1>1, <2>1, PartsGiven DEF Given
  <2> QED BY <1>1, <2>1, <2>2, ConcatProperties
<1>3. ASSUME NEW b, NEW recs \in BucketNow(b) PROVE recs \in Seq(Pieces)
  <2>1. CASE BuildAt("fill") /\ b = build.next
    <3>1. recs \in Parts(Current) /\ build.pc # "idle"
      BY <2>1 DEF BucketNow, BuildAt
    <3> QED BY <3>1, CurrentGiven, PartsGiven DEF Given
  <2>2. CASE ~(BuildAt("fill") /\ b = build.next)
    BY <1>1, <2>2 DEF BucketNow
  <2> QED BY <2>1, <2>2
<1> QED BY <1>2, <1>3

\* When no build writes them, they hold what they hold.
LEMMA FilesStill ==
  ASSUME IndexTypes, GivenInv, build.pc = "idle"
  PROVE  /\ \A file \in DataNow : file = data
         /\ \A b : BucketNow(b) = {IF b \in DOMAIN buckets THEN buckets[b] ELSE <<>>}
<1>1. build.buf = <<>> /\ data \in Seq(Pieces)
  BY DEF GivenInv, Given, Emptied
<1>2. ASSUME NEW bit \in Parts(<<>>) PROVE bit = <<>>
  <2>1. Len(<<>>) = 0 /\ 0..0 = {0} /\ 1..0 = {}
    OBVIOUS
  <2>2. bit = SubSeq(<<>>, 1, 0)
    BY <2>1 DEF Parts
  <2> QED BY <2>2, SubSeqEmpty
<1>3. ASSUME NEW file \in DataNow PROVE file = data
  <2>1. PICK bit \in Parts(<<>>) : file = data \o bit
    BY <1>1 DEF DataNow
  <2>2. data \o <<>> = data
    BY <1>1, ConcatNothing
  <2> QED BY <1>2, <2>1, <2>2
<1>4. ~BuildAt("fill")
  BY DEF BuildAt
<1> QED BY <1>3, <1>4 DEF BucketNow

\* What a lookup takes.
LEMMA LoadedIs ==
  ASSUME IndexTypes, GivenInv, indexReader.open, NEW b \in 0..(indexReader.nb - 1), NEW load \in Loaded(b)
  PROVE  /\ load[1] \in Seq(Pieces) /\ load[2] \in Seq(Pieces)
         /\ indexReader.steady => load[1] = Looked(b) /\ load[2] \in {<<>>, data}
<1>1. /\ indexReader.nb \in Nat \ {0} /\ indexReader.offsets \in Seq(Nat)
      /\ indexReader.ahead \in Seq(Pieces) /\ indexReader \in IndexReading /\ indexReader.cache \in Seq(Entry)
  BY DEF IndexTypes, IndexReading
<1>2. PICK offs, ahead : offs = indexReader.offsets /\ ahead = indexReader.ahead
  OBVIOUS
<1>3. /\ data \in Seq(Pieces)
      /\ indexReader.steady => build.pc = "idle" /\ ahead \in {<<>>, data}
  BY <1>2 DEF GivenInv, Given
<1>4. CASE Cached(b)
  <2>1. load = <<FromCache(b)[2], ahead>>
    BY <1>2, <1>4 DEF Loaded
  <2>2. FromCache(b) \in Entry
    BY <1>1, <1>4, FromCacheIs, SetOfSeq
  <2>3. FromCache(b)[2] \in Seq(Pieces)
    BY <2>2 DEF Entry
  <2>4. Looked(b) = FromCache(b)[2]
    BY <1>4 DEF Looked
  <2> QED BY <1>1, <1>2, <1>3, <2>1, <2>3, <2>4
<1>5. CASE ~Cached(b) /\ indexReader.format # "v3"
  <2>1. PICK recs \in BucketNow(b) : load = <<recs, ahead>>
    BY <1>2, <1>5 DEF Loaded
  <2>2. recs \in Seq(Pieces)
    BY <2>1, FilesTyped
  <2>3. indexReader.steady => recs = Looked(b)
    <3>1. Looked(b) = (IF b \in DOMAIN buckets THEN buckets[b] ELSE <<>>)
      BY <1>5 DEF Looked, OnFile
    <3> QED BY <1>3, <2>1, <3>1, FilesStill
  <2> QED BY <1>1, <1>2, <1>3, <2>1, <2>2, <2>3
<1>6. CASE ~Cached(b) /\ indexReader.format = "v3"
  <2>1. Looked(b) = Slice(data, offs, b)
    BY <1>2, <1>6 DEF Looked, OnFile
  <2>2. b \in Nat /\ b + 2 <= Len(offs) /\ offs \in Seq(Nat)
    <3>1. PICK n \in Nat : n = indexReader.nb /\ Len(offs) = n + 1
      BY <1>1, <1>2, <1>6 DEF IndexTypes
    <3> QED BY <1>1, <1>2, <3>1
  <2>3. CASE offs[b + 1] = offs[b + 2]
    <3>1. load = <<<<>>, ahead>>
      BY <1>2, <1>6, <2>3 DEF Loaded
    <3>2. Slice(data, offs, b) = <<>>
      BY <1>3, <2>2, <2>3, SliceIs
    <3> QED BY <1>1, <1>2, <1>3, <2>1, <3>1, <3>2
  <2>4. CASE offs[b + 1] # offs[b + 2]
    <3>0. PICK file \in DataNow :
            \E mix \in Mixes(ahead, file), next \in {file, ahead} : load = <<Slice(mix, offs, b), next>>
      BY <1>2, <1>6, <2>4 DEF Loaded
    <3>1. PICK mix \in Mixes(ahead, file), next \in {file, ahead} : load = <<Slice(mix, offs, b), next>>
      BY <3>0
    <3>2. file \in Seq(Pieces)
      BY FilesTyped
    <3>3. mix \in Seq(Pieces)
      BY <1>1, <1>2, <3>2, MixTyped
    <3>4. Slice(mix, offs, b) \in Seq(Pieces)
      BY <2>2, <3>3, SliceIs
    <3>5. indexReader.steady => file = data /\ mix = data
      <4> SUFFICES ASSUME indexReader.steady PROVE file = data /\ mix = data
        OBVIOUS
      <4>1. file = data
        BY <1>3, FilesStill
      <4> QED BY <1>3, <4>1, MixSame
    <3> QED BY <1>1, <1>2, <1>3, <2>1, <3>1, <3>2, <3>4, <3>5
  <2> QED BY <2>3, <2>4
<1> QED BY <1>4, <1>5, <1>6

LEMMA LookupIs ==
  ASSUME NEW g, Lookup(g), IndexTypes
  PROVE  \E load \in Loaded(ReaderBucket(g)) :
           /\ Kept(ReaderBucket(g), load[1]) \in Seq(Entry) /\ load[2] \in Seq(Pieces) => indexReader' \in IndexReading
           /\ indexReader'.cache = Kept(ReaderBucket(g), load[1]) /\ indexReader'.ahead = load[2]
           /\ indexReader'.open = indexReader.open /\ indexReader'.format = indexReader.format
           /\ indexReader'.hash = indexReader.hash /\ indexReader'.nb = indexReader.nb
           /\ indexReader'.offsets = indexReader.offsets
           /\ indexReader'.fresh = indexReader.fresh /\ indexReader'.steady = indexReader.steady
           /\ found' = [gram |-> g, slot |-> Answer(load[1], g)]
           /\ UNCHANGED <<buckets, data, offsets, meta, build, indexVerdict, given>>
           /\ indexReader.open
<1>1. PICK load \in Loaded(ReaderBucket(g)) :
        /\ indexReader' = [indexReader EXCEPT !.ahead = load[2], !.cache = Kept(ReaderBucket(g), load[1])]
        /\ found' = [gram |-> g, slot |-> Answer(load[1], g)]
  BY Zenon DEF Lookup
<1>2. UNCHANGED <<buckets, data, offsets, meta, build, indexVerdict, given>> /\ indexReader.open
  BY DEF Lookup
<1>3. PICK k, d : k = Kept(ReaderBucket(g), load[1]) /\ d = load[2]
  OBVIOUS
<1>4. /\ k \in Seq(Entry) /\ d \in Seq(Pieces) => indexReader' \in IndexReading
      /\ indexReader'.cache = k /\ indexReader'.ahead = d
      /\ indexReader'.open = indexReader.open /\ indexReader'.format = indexReader.format
      /\ indexReader'.hash = indexReader.hash /\ indexReader'.nb = indexReader.nb
      /\ indexReader'.offsets = indexReader.offsets
      /\ indexReader'.fresh = indexReader.fresh /\ indexReader'.steady = indexReader.steady
  BY <1>1, <1>3 DEF IndexTypes, IndexReading
<1>5. /\ Kept(ReaderBucket(g), load[1]) \in Seq(Entry) /\ load[2] \in Seq(Pieces) => indexReader' \in IndexReading
      /\ indexReader'.cache = Kept(ReaderBucket(g), load[1]) /\ indexReader'.ahead = load[2]
      /\ indexReader'.open = indexReader.open /\ indexReader'.format = indexReader.format
      /\ indexReader'.hash = indexReader.hash /\ indexReader'.nb = indexReader.nb
      /\ indexReader'.offsets = indexReader.offsets
      /\ indexReader'.fresh = indexReader.fresh /\ indexReader'.steady = indexReader.steady
  BY <1>3, <1>4
<1> QED BY <1>1, <1>2, <1>5

\* What a lookup adds to the cache.
LEMMA KeptIs ==
  ASSUME IndexTypes, NEW b \in Nat, NEW recs \in Seq(Pieces)
  PROVE  /\ Kept(b, recs) \in Seq(Entry) /\ NoRepeats(Kept(b, recs))
         /\ ToSet(Kept(b, recs)) \subseteq ToSet(indexReader.cache) \cup
              (IF Cached(b) \/ (indexReader.format # "v3" /\ b \notin DOMAIN buckets) THEN {}
               ELSE {<<b, recs>>})
<1>1. indexReader.cache \in Seq(Entry) /\ NoRepeats(indexReader.cache) /\ indexReader \in IndexReading
  BY DEF IndexTypes, IndexReading
<1>2. CASE Cached(b)
  <2>1. FromCache(b) \in ToSet(indexReader.cache)
    BY <1>1, <1>2, FromCacheIs
  <2> QED BY <1>1, <1>2, <2>1, CacheMoves DEF Kept
<1>3. CASE ~Cached(b)
  <2>1. CASE indexReader.format # "v3" /\ b \notin DOMAIN buckets
    BY <1>1, <1>3, <2>1 DEF Kept
  <2>2. CASE ~(indexReader.format # "v3" /\ b \notin DOMAIN buckets)
    <3>5. <<b, recs>>[1] = b
      OBVIOUS
    <3>1. PICK e : e = <<b, recs>> /\ e[1] = b
      BY <3>5
    <3>2. e \in Entry
      BY <3>1 DEF Entry
    <3>3. e \notin ToSet(indexReader.cache)
      <4>1. ToSet(indexReader.cache) = {indexReader.cache[n] : n \in 1..Len(indexReader.cache)}
        BY <1>1, SetOfSeq
      <4> QED BY <1>3, <3>1, <4>1 DEF Cached
    <3>4. Kept(b, recs) = Evicted(Append(indexReader.cache, e))
      BY <1>3, <2>2, <3>1 DEF Kept
    <3>7. /\ Evicted(Append(indexReader.cache, e)) \in Seq(Entry)
          /\ ToSet(Evicted(Append(indexReader.cache, e))) \subseteq ToSet(indexReader.cache) \cup {e}
          /\ NoRepeats(Evicted(Append(indexReader.cache, e)))
      BY <1>1, <3>2, <3>3, CacheTakes
    <3> QED BY <1>3, <2>2, <3>1, <3>4, <3>7
  <2> QED BY <2>1, <2>2
<1> QED BY <1>2, <1>3

LEMMA LookupGives ==
  ASSUME LookupInv, NEW g \in Grams, Lookup(g)
  PROVE  LookupInv'
<1>0. IndexTypes /\ GivenInv /\ g \in Nat /\ indexReader.open
  BY GramsAre DEF LookupInv, Lookup
<1>1. indexReader \in IndexReading /\ indexReader.nb \in Nat \ {0}
  BY <1>0 DEF IndexTypes, IndexReading
<1>2. PICK b \in 0..(indexReader.nb - 1) : b = ReaderBucket(g)
  BY <1>0, <1>1, BucketIs DEF ReaderBucket
<1>3. b \in Nat
  BY <1>1
<1>4. PICK load \in Loaded(b) :
        /\ Kept(b, load[1]) \in Seq(Entry) /\ load[2] \in Seq(Pieces) => indexReader' \in IndexReading
        /\ indexReader'.cache = Kept(b, load[1]) /\ indexReader'.ahead = load[2]
        /\ indexReader'.open = indexReader.open /\ indexReader'.format = indexReader.format
        /\ indexReader'.nb = indexReader.nb /\ indexReader'.offsets = indexReader.offsets
        /\ indexReader'.steady = indexReader.steady
        /\ found' = [gram |-> g, slot |-> Answer(load[1], g)]
        /\ UNCHANGED <<buckets, data, offsets, meta, build, given>>
  BY <1>0, <1>2, LookupIs
<1>5. /\ load[1] \in Seq(Pieces) /\ load[2] \in Seq(Pieces)
      /\ indexReader.steady => load[1] = Looked(b) /\ load[2] \in {<<>>, data}
  BY <1>0, LoadedIs
<1>6. PICK recs, k, d : recs = load[1] /\ k = Kept(b, load[1]) /\ d = load[2]
  OBVIOUS
<1>7. /\ k \in Seq(Entry) /\ NoRepeats(k) /\ ToSet(k) \subseteq ToSet(indexReader.cache) \cup {<<b, recs>>}
  BY <1>0, <1>3, <1>5, <1>6, KeptIs
<1>8. /\ indexReader' \in IndexReading /\ indexReader'.cache = k /\ indexReader'.ahead = d
      /\ indexReader'.open = indexReader.open /\ indexReader'.format = indexReader.format
      /\ indexReader'.nb = indexReader.nb /\ indexReader'.offsets = indexReader.offsets
      /\ indexReader'.steady = indexReader.steady
      /\ found' = [gram |-> g, slot |-> Answer(recs, g)]
      /\ UNCHANGED <<buckets, data, offsets, meta, build, given>>
  BY <1>4, <1>5, <1>6, <1>7
<1>9. indexReader.steady => Given(recs, given) /\ d \in {<<>>, data} /\ build.pc = "idle"
  <2> SUFFICES ASSUME indexReader.steady PROVE Given(recs, given) /\ d \in {<<>>, data} /\ build.pc = "idle"
    OBVIOUS
  <2>1. CASE Cached(b)
    BY <1>0, <1>1, <1>5, <1>6, <2>1, FromCacheIs DEF Looked, GivenInv
  <2>2. CASE ~Cached(b)
    BY <1>0, <1>2, <1>5, <1>6, <2>2, OnFileGiven DEF Looked, GivenInv
  <2> QED BY <2>1, <2>2
<1>10. recs \in Seq(Pieces)
  BY <1>5, <1>6
<1>11. Answer(recs, g) # Missing =>
         \E r \in ToSet(recs) : r[1] = g /\ r[2] = Answer(recs, g) /\ r \in Pieces
  BY <1>0, <1>10, AnswerIsRecord
<1>12. found' \in Finding
  <2>1. Answer(recs, g) \in Nat \cup {Missing}
    BY <1>11, PiecesAre
  <2> QED BY <1>0, <1>8, <2>1 DEF Finding
<1>13. IndexTypes'
  BY <1>0, <1>7, <1>8, <1>12 DEF IndexTypes
<1>14. NeverInvented'
  <2> SUFFICES ASSUME indexReader.steady, Answer(recs, g) # Missing PROVE IsGiven(g, Answer(recs, g), given)
    BY <1>8 DEF NeverInvented, IsGiven
  <2> QED BY <1>9, <1>11 DEF Given
<1>15. GivenInv'
  <2>1. indexReader.steady => \A e \in ToSet(k) : Given(e[2], given)
    <3>1. <<b, recs>>[2] = recs
      OBVIOUS
    <3> QED BY <1>0, <1>7, <1>9, <3>1 DEF GivenInv
  <2> HIDE DEF Given, Listed
  <2> QED BY <1>0, <1>8, <1>9, <1>14, <2>1 DEF GivenInv
<1> QED BY <1>13, <1>15 DEF LookupInv

\* In every reachable state what a reader may find was given.
LEMMA LookupAlways == IndexSpec => []LookupInv
<1>1. IndexInit => LookupInv
  <2> SUFFICES ASSUME IndexInit PROVE LookupInv
    OBVIOUS
  <2>1. /\ <<>> \in Seq(Record) /\ <<>> \in Seq(Nat) /\ <<>> \in Seq(Entry) /\ <<>> \in Seq(Pieces)
        /\ NoRepeats(<<>>)
    BY DEF NoRepeats, ToSet
  <2>2. build = [pc |-> "idle", file |-> Idle.file, format |-> "v2",
                 hash |-> "fnv1a-64", nb |-> 1, next |-> 0, buf |-> <<>>, complete |-> FALSE]
    BY DEF IndexInit, Idle
  <2>3. build \in Building /\ build.buf = <<>> /\ build.pc = "idle"
    BY <2>1, <2>2 DEF Building, Formats, HashNames, IndexFiles, Places
  <2>4. indexReader = [open |-> FALSE, format |-> "v2", hash |-> "fnv1a-64", nb |-> 1,
                       offsets |-> <<>>, cache |-> <<>>, ahead |-> <<>>, fresh |-> FALSE, steady |-> FALSE]
    BY DEF IndexInit, Closed
  <2>5. indexReader \in IndexReading /\ indexReader.cache = <<>> /\ ~indexReader.open /\ ~indexReader.steady
    BY <2>1, <2>4 DEF IndexReading, Formats, HashNames
  <2>6. found \in Finding /\ found.slot = Missing
    BY DEF IndexInit, NotAsked, Finding, Missing
  <2>7. offsets = <<>> /\ meta.state = "none" /\ data = <<>> /\ DOMAIN buckets = {}
    BY DEF IndexInit
  <2>8. IndexTypes
    BY <2>1, <2>3, <2>5, <2>6, <2>7 DEF IndexTypes
  <2> HIDE DEF Given, Listed
  <2>9. GivenInv
    BY <2>1, <2>3, <2>5, <2>6, <2>7, NothingGiven DEF GivenInv, NeverInvented
  <2> QED BY <2>8, <2>9 DEF LookupInv
<1>2. LookupInv /\ [IndexNext]_indexVars => LookupInv'
  <2> SUFFICES ASSUME LookupInv, [IndexNext]_indexVars PROVE LookupInv'
    OBVIOUS
  <2>1. CASE UNCHANGED indexVars
    BY <2>1 DEF indexVars, LookupInv, IndexTypes, GivenInv, NeverInvented
  <2>2. CASE IndexNext
    <3>1. CASE \E f \in KeyFiles, format \in {"v1", "v2", "v3"}, hash \in Hashes, nb \in BucketCounts :
                 BeginIndex(f, format, hash, nb)
      BY <3>1, BeginGives DEF Formats
    <3>2. CASE \/ CreateData \/ SkipBucket \/ CreateBucket \/ FillBucket \/ AppendBucket \/ Spill
               \/ BucketsDone \/ CreateOffsets \/ WriteOffsets \/ CreateMeta \/ Finish
               \/ StopIndex
      BY <3>2, BuildingGives
    <3>3. CASE \E g \in Grams : Lookup(g)
      BY <3>3, LookupGives
    <3>4. CASE Open \/ CloseIndex \/ \E f \in KeyFiles : VerifyIndex(f)
      BY <3>4, OpenGives
    <3> QED BY <2>2, <3>1, <3>2, <3>3, <3>4 DEF IndexNext
  <2> QED BY <2>1, <2>2
<1> QED BY <1>1, <1>2, PTL DEF IndexSpec

\* Whatever builds, stopped at or within any write, have left, a reader opened while
\* none runs gives for a gram only a slot some build was given for it, or the low bytes
\* of one that was cut, until the next build begins (slot_index.rs 130-177,
\* disk_slot_index.py 247-281).
THEOREM SlotsGiven == IndexSpec => []NeverInvented
<1>1. LookupInv => NeverInvented
  BY DEF LookupInv, GivenInv
<1> QED BY <1>1, LookupAlways, PTL

-----------------------------------------------------------------------------
(* Disk slot index: what a build lays down.                                *)

\* The records of the buckets before b, and how many there are.
BeforeSet(f, hash, nb, b) == {r \in Records(f) : BucketOf(hash, r[1], nb) < b}
Before(f, hash, nb, b) == Cardinality(BeforeSet(f, hash, nb, b))

LEMMA BeforeIs ==
  ASSUME NEW f, Grammed(f), NEW hash, NEW nb \in Nat \ {0}, NEW b
  PROVE  /\ IsFiniteSet(BeforeSet(f, hash, nb, b)) /\ Before(f, hash, nb, b) \in Nat
         /\ Before(f, hash, nb, 0) = 0
         /\ \A c \in Nat, d \in Nat : c <= d => Before(f, hash, nb, c) <= Before(f, hash, nb, d)
<1>1. \A c : IsFiniteSet(BeforeSet(f, hash, nb, c))
  <2>1. \A c : BeforeSet(f, hash, nb, c) \subseteq Records(f)
    BY DEF BeforeSet
  <2> QED BY <2>1, RecordsAre, FS_Subset
<1>2. Before(f, hash, nb, b) \in Nat
  BY <1>1, FS_CardinalityType DEF Before
<1>3. \A r \in Records(f) : BucketOf(hash, r[1], nb) \in Nat
  <2>1. \A r \in Records(f) : r[1] \in Nat
    BY RecordsAre DEF Record
  <2> QED BY <2>1, BucketIs
<1>4. Before(f, hash, nb, 0) = 0
  <2>1. BeforeSet(f, hash, nb, 0) = {}
    BY <1>3 DEF BeforeSet
  <2> QED BY <2>1, FS_EmptySet DEF Before
<1>5. ASSUME NEW c \in Nat, NEW d \in Nat, c <= d PROVE Before(f, hash, nb, c) <= Before(f, hash, nb, d)
  <2>1. BeforeSet(f, hash, nb, c) \subseteq BeforeSet(f, hash, nb, d)
    <3>1. ASSUME NEW r \in Records(f), BucketOf(hash, r[1], nb) < c PROVE BucketOf(hash, r[1], nb) < d
      BY <1>3, <1>5, <3>1
    <3> QED BY <3>1 DEF BeforeSet
  <2> QED BY <1>1, <2>1, FS_Subset DEF Before
<1> QED BY <1>1, <1>2, <1>4, <1>5

\* A bucket begins where the one before it ends.
LEMMA BeforeNext ==
  ASSUME NEW f, Grammed(f), NEW hash, NEW nb \in Nat \ {0}, NEW b \in Nat
  PROVE  Before(f, hash, nb, b + 1) = Before(f, hash, nb, b) + Len(BucketRecords(f, hash, nb, b))
<1> DEFINE P == BeforeSet(f, hash, nb, b)
           S == BucketSet(f, hash, nb, b)
           Q == BeforeSet(f, hash, nb, b + 1)
<1>1. IsFiniteSet(P) /\ IsFiniteSet(S) /\ Len(BucketRecords(f, hash, nb, b)) = Cardinality(S)
  BY BeforeIs, BucketRecordsAre
<1>2. \A r \in Records(f) : BucketOf(hash, r[1], nb) \in Nat
  <2>1. \A r \in Records(f) : r[1] \in Nat
    BY RecordsAre DEF Record
  <2> QED BY <2>1, BucketIs
<1>3. \A n \in Nat : n < b + 1 <=> n < b \/ n = b
  OBVIOUS
<1>4. Q = P \cup S
  BY <1>2, <1>3 DEF BeforeSet, BucketSet
<1>5. P \cap S = {}
  BY <1>2 DEF BeforeSet, BucketSet
<1> HIDE DEF P, S, Q
<1>6. Cardinality(Q) = Cardinality(P) + Cardinality(S) - Cardinality(P \cap S) /\ Cardinality(P \cap S) = 0
  BY <1>1, <1>4, <1>5, FS_Union, FS_EmptySet
<1>7. Cardinality(P) \in Nat /\ Cardinality(S) \in Nat
  BY <1>1, FS_CardinalityType
<1>8. Cardinality(Q) = Cardinality(P) + Cardinality(S)
  BY <1>6, <1>7
<1> QED BY <1>1, <1>8 DEF P, S, Q, Before

-----------------------------------------------------------------------------
\* What a build has laid down: buckets in files of their own, or one after another.
FilesDone(bk, c) ==
  \A b \in 0..(c.next - 1) :
    \/ BucketRecords(c.file, c.hash, c.nb, b) = <<>>
    \/ b \in DOMAIN bk /\ bk[b] = BucketRecords(c.file, c.hash, c.nb, b)

LaidAt(w, f, hash, nb, b) ==
  LET s == BucketRecords(f, hash, nb, b)
      o == Before(f, hash, nb, b) IN
  \A i \in 1..Len(s) : o + i \in 1..Len(w) /\ w[o + i] = s[i]

LaidUpto(w, f, hash, nb, n) ==
  /\ w \in Seq(Record) /\ Len(w) = Before(f, hash, nb, n)
  /\ \A b \in 0..(n - 1) : LaidAt(w, f, hash, nb, b)

Laid(w, c) == LaidUpto(w, c.file, c.hash, c.nb, c.next)

LEMMA LaidMore ==
  ASSUME NEW f, Grammed(f), NEW hash, NEW nb \in Nat \ {0}, NEW n \in Nat,
         NEW w, LaidUpto(w, f, hash, nb, n)
  PROVE  LaidUpto(w \o BucketRecords(f, hash, nb, n), f, hash, nb, n + 1)
<1>0. w \in Seq(Record) /\ Len(w) = Before(f, hash, nb, n)
  BY DEF LaidUpto
<1>8. \A b \in 0..(n - 1) : LaidAt(w, f, hash, nb, b)
  BY DEF LaidUpto
<1> DEFINE s == BucketRecords(f, hash, nb, n)
           v == w \o s
<1>1. s \in Seq(Record) /\ Before(f, hash, nb, n + 1) = Before(f, hash, nb, n) + Len(s)
  BY BucketRecordsAre, BeforeNext
<1> HIDE DEF s
<1>2. PICK a \in Nat, c \in Nat : a = Len(w) /\ c = Len(s)
  BY <1>0, <1>1, LenProperties
<1>3. /\ v \in Seq(Record) /\ Len(v) = a + c
      /\ \A i \in 1..(a + c) : v[i] = IF i <= a THEN w[i] ELSE s[i - a]
  BY <1>0, <1>1, <1>2, SMTT(30)
<1> HIDE DEF v
<1>4. ASSUME NEW b \in 0..n PROVE LaidAt(v, f, hash, nb, b)
  <2>1. CASE b = n
    <3>1. ASSUME NEW i \in 1..c PROVE a + i \in 1..(a + c) /\ v[a + i] = s[i]
      <4>1. a + i \in 1..(a + c) /\ ~(a + i <= a) /\ (a + i) - a = i
        BY <1>2
      <4> QED BY <1>3, <4>1
    <3> QED BY <1>0, <1>1, <1>2, <1>3, <2>1, <3>1 DEF LaidAt, s
  <2>2. CASE b # n
    <3>1. b \in 0..(n - 1)
      BY <2>2
    <3>2. LaidAt(w, f, hash, nb, b)
      BY <1>8, <3>1
    <3>3. \A j \in 1..a : j \in 1..(a + c) /\ v[j] = w[j]
      BY <1>2, <1>3
    <3> QED BY <1>2, <1>3, <3>2, <3>3 DEF LaidAt
  <2> QED BY <2>1, <2>2
<1>5. (n + 1) - 1 = n
  OBVIOUS
<1> QED BY <1>0, <1>1, <1>2, <1>3, <1>4, <1>5 DEF v, s, LaidUpto

\* A bucket is read back from where it was laid.
LEMMA LaidRead ==
  ASSUME NEW f, Grammed(f), NEW hash, NEW nb \in Nat \ {0}, NEW b \in 0..(nb - 1),
         NEW w \in Seq(Record), Len(w) = Before(f, hash, nb, nb), LaidAt(w, f, hash, nb, b)
  PROVE  /\ Before(f, hash, nb, b + 1) <= Len(w)
         /\ SubSeq(w, Before(f, hash, nb, b) + 1, Before(f, hash, nb, b + 1)) = BucketRecords(f, hash, nb, b)
<1> DEFINE s == BucketRecords(f, hash, nb, b)
<1>1. s \in Seq(Record) /\ b \in Nat /\ b + 1 <= nb /\ b + 1 \in Nat
  BY BucketRecordsAre
<1>2. PICK o \in Nat, n \in Nat, e \in Nat, l \in Nat :
        o = Before(f, hash, nb, b) /\ n = Len(s) /\ e = Before(f, hash, nb, b + 1) /\ l = Len(w)
  BY <1>1, BeforeIs, LenProperties
<1>3. e = o + n
  BY <1>1, <1>2, BeforeNext
<1>4. e <= l
  BY <1>1, <1>2, BeforeIs
<1>5. \A i \in 1..n : w[o + i] = s[i]
  BY <1>2 DEF LaidAt
<1> HIDE DEF s
<1>6. /\ SubSeq(w, o + 1, o + n) \in Seq(Record) /\ Len(SubSeq(w, o + 1, o + n)) = n
      /\ \A i \in 1..n : SubSeq(w, o + 1, o + n)[i] = w[o + i]
  <2>1. o + n <= Len(w)
    BY <1>2, <1>3, <1>4
  <2> QED BY <2>1, SliceOf, SMTT(60)
<1>7. SubSeq(w, o + 1, o + n) = s
  BY <1>1, <1>2, <1>5, <1>6, SeqEqual
<1> QED BY <1>2, <1>3, <1>4, <1>7 DEF s

\* What is written when a build reaches a place.
Underway(c) == c.pc \notin {"idle", "data"} \/ c.complete
Written(c) == c.pc \in {"offsets", "table", "meta", "finish"} \/ c.complete

\* The table of offsets of a build.
TableOf(c) == [n \in 1..(c.nb + 1) |-> Before(c.file, c.hash, c.nb, n - 1)]

OkMeta(c) == [state |-> "ok", format |-> c.format, hash |-> c.hash,
              nb |-> c.nb, count |-> Len(c.file.grams)]

\* How far a build has come, and that what it has written is there.
Progress(bk, d, o, m, c) ==
  /\ c.pc # "idle" => ~c.complete
  /\ c.pc # "idle" \/ c.complete =>
       c.file.whole /\ c.next \in 0..c.nb /\ (c.hash = "fnv1a-64" => c.format # "v1")
  /\ c.buf # <<>> => c.pc = "bucket" /\ c.format = "v3"
  /\ c.pc = "data" => c.format = "v3" /\ c.next = 0
  /\ c.pc = "fill" => c.format # "v3" /\ c.next < c.nb
  /\ c.pc \in {"offsets", "table"} => c.format = "v3"
  /\ Written(c) => c.next = c.nb
  /\ Underway(c) /\ c.format # "v3" => FilesDone(bk, c)
  /\ Underway(c) /\ c.format = "v3" => Laid(d \o c.buf, c)
  /\ (c.pc \in {"meta", "finish"} \/ c.complete) /\ c.format = "v3" => o = TableOf(c)
  /\ c.complete => m = OkMeta(c)

IndexBuildInv == Progress(buckets, data, offsets, meta, build)

LEMMA OffsetTableIs == build \in Building => OffsetTable = TableOf(build)
BY DEF OffsetTable, TableOf, Before, BeforeSet

\* A build step that does not move from bucket to bucket, and leaves what it has written.
SameWork(c, d) ==
  /\ d.file = c.file /\ d.format = c.format /\ d.hash = c.hash /\ d.nb = c.nb
  /\ d.next = c.next

LEMMA SameWorkKeeps ==
  ASSUME NEW c, NEW d, SameWork(c, d), NEW bk, NEW w
  PROVE  /\ FilesDone(bk, c) <=> FilesDone(bk, d)
         /\ Laid(w, c) <=> Laid(w, d)
         /\ TableOf(c) = TableOf(d) /\ OkMeta(c) = OkMeta(d)
BY DEF SameWork, FilesDone, Laid, TableOf, OkMeta

\* Another bucket in a file of its own.
LEMMA FilesMore ==
  ASSUME NEW c \in Building, NEW d, Moved(c, d, "bucket", c.next + 1, c.buf), NEW bk, NEW new,
         FilesDone(bk, c), DOMAIN bk \subseteq DOMAIN new,
         \A b \in 0..(c.next - 1) : b \in DOMAIN bk => new[b] = bk[b],
         LET s == BucketRecords(c.file, c.hash, c.nb, c.next) IN
         s = <<>> \/ (c.next \in DOMAIN new /\ new[c.next] = s)
  PROVE  FilesDone(new, d)
<1>1. PICK n \in Nat : n = c.next
  BY DEF Building
<1>2. d.file = c.file /\ d.hash = c.hash /\ d.nb = c.nb /\ d.next = n + 1
  BY <1>1 DEF Moved, Building
<1>3. \A b \in 0..((n + 1) - 1) : b = n \/ b \in 0..(n - 1)
  BY <1>1
<1> QED BY <1>1, <1>2, <1>3 DEF FilesDone

\* Another bucket through the buffer of the one file.
LEMMA DataMore ==
  ASSUME NEW c \in Building, NEW d, NEW w,
         Laid(w, c), d.file = c.file /\ d.hash = c.hash /\ d.nb = c.nb /\ d.next = c.next + 1
  PROVE  Laid(w \o BucketRecords(c.file, c.hash, c.nb, c.next), d)
<1>1. Grammed(c.file) /\ c.nb \in Nat \ {0} /\ c.next \in Nat
  BY FilesAre DEF Building
<1>2. LaidUpto(w \o BucketRecords(c.file, c.hash, c.nb, c.next), c.file, c.hash, c.nb, c.next + 1)
  BY <1>1, LaidMore DEF Laid
<1> QED BY <1>2 DEF Laid

\* An empty bucket adds nothing to the one file.
LEMMA DataSkip ==
  ASSUME NEW c \in Building, NEW d, NEW w,
         Laid(w, c), d.file = c.file /\ d.hash = c.hash /\ d.nb = c.nb /\ d.next = c.next + 1,
         BucketRecords(c.file, c.hash, c.nb, c.next) = <<>>
  PROVE  Laid(w, d)
<1>1. w \o <<>> = w
  BY ConcatNothing DEF Laid, LaidUpto
<1> QED BY <1>1, DataMore

\* Nothing is laid before the first bucket.
LEMMA DataFirst ==
  ASSUME NEW c \in Building, c.next = 0
  PROVE  Laid(<<>>, c)
<1>1. Before(c.file, c.hash, c.nb, c.next) = 0
  BY FilesAre, BeforeIs DEF Building
<1>2. \A b \in 0..(c.next - 1) : FALSE
  OBVIOUS
<1> QED BY <1>1, <1>2 DEF Laid, LaidUpto

\* Every step of a build keeps what it has written.
LEMMA BuildKeeps ==
  ASSUME LookupInv, IndexBuildInv,
         \/ CreateData \/ SkipBucket \/ CreateBucket \/ FillBucket \/ AppendBucket \/ Spill
         \/ BucketsDone \/ CreateOffsets \/ WriteOffsets \/ CreateMeta \/ Finish
         \/ StopIndex
  PROVE  IndexBuildInv'
<1> USE DEF BuildAt, BuildGoto
<1>1. PICK c : c = build
  OBVIOUS
<1>2. c \in Building /\ Progress(buckets, data, offsets, meta, c)
  BY <1>1 DEF LookupInv, IndexTypes, IndexBuildInv
<1>3. /\ c.pc \in Places /\ c.next \in Nat /\ c.nb \in Nat \ {0} /\ c.buf \in Seq(Record)
      /\ c.complete \in BOOLEAN
  BY <1>2 DEF Building
<1>4. /\ "data" \in Places /\ "bucket" \in Places /\ "fill" \in Places /\ "offsets" \in Places
      /\ "table" \in Places /\ "meta" \in Places /\ "finish" \in Places /\ "idle" \in Places
      /\ <<>> \in Seq(Record) /\ c.next + 1 \in Nat
  BY <1>3 DEF Places
<1> SUFFICES Progress(buckets', data', offsets', meta', build')
  BY DEF IndexBuildInv
<1>5. ASSUME NEW pc \in Places, NEW next, next \in Nat, NEW buf, buf \in Seq(Record), Moved(c, build', pc, next, buf)
      PROVE  /\ build'.pc = pc /\ build'.next = next /\ build'.buf = buf
             /\ build'.file = c.file /\ build'.format = c.format /\ build'.hash = c.hash /\ build'.nb = c.nb
             /\ build'.complete = c.complete
             /\ build' \in Building
  BY <1>2, <1>5, Advanced
<1>6. ASSUME NEW pc \in Places, NEW buf, buf \in Seq(Record), Moved(c, build', pc, c.next, buf)
      PROVE  /\ \A bk : FilesDone(bk, c) <=> FilesDone(bk, build')
             /\ \A w : Laid(w, c) <=> Laid(w, build')
             /\ TableOf(c) = TableOf(build')
  <2>1. SameWork(c, build')
    BY <1>3, <1>5, <1>6 DEF SameWork
  <2> QED BY <2>1, SameWorkKeeps
<1>7. data \o <<>> = data /\ data \in Seq(Pieces) /\ c.buf \in Seq(Pieces)
  BY <1>3, ConcatNothing, PiecesAre, SeqWidens DEF GivenInv, Given, LookupInv
<1>8. CASE CreateData
  <2>1. /\ c.pc = "data" /\ data' = <<>> /\ Moved(c, build', "bucket", c.next, c.buf)
        /\ UNCHANGED <<buckets, offsets, meta>>
    BY <1>1, <1>2, <1>8 DEF CreateData, Moved, Building
  <2>2. c.next = 0 /\ c.buf = <<>> /\ c.format = "v3"
    BY <1>2, <2>1 DEF Progress
  <2>3. /\ build'.pc = "bucket" /\ build'.next = 0 /\ build'.buf = <<>> /\ build' \in Building
        /\ build'.complete = c.complete /\ build'.file = c.file /\ build'.format = c.format
        /\ build'.hash = c.hash /\ build'.nb = c.nb
    <3>1. /\ "bucket" \in Places /\ c.next \in Nat /\ c.buf \in Seq(Record)
          /\ Moved(c, build', "bucket", c.next, c.buf)
      BY <1>3, <1>4, <2>1
    <3>2. /\ build'.pc = "bucket" /\ build'.next = c.next /\ build'.buf = c.buf
          /\ build'.file = c.file /\ build'.format = c.format /\ build'.hash = c.hash
          /\ build'.nb = c.nb /\ build'.complete = c.complete /\ build' \in Building
      BY <1>5, <3>1, ZenonT(30)
    <3> QED BY <2>2, <3>2
  <2>4. Laid(<<>>, build')
    BY <2>3, DataFirst
  <2>5. data' \o build'.buf = <<>>
    <3>1. <<>> \o <<>> = <<>>
      OBVIOUS
    <3> QED BY <2>1, <2>3, <3>1
  <2> QED BY <1>2, <1>3, <2>1, <2>2, <2>3, <2>4, <2>5 DEF Progress, Underway, Written
<1>9. CASE SkipBucket
  <2>1. /\ c.pc = "bucket" /\ c.next < c.nb /\ Moved(c, build', "bucket", c.next + 1, c.buf)
        /\ UNCHANGED <<buckets, data, offsets, meta>>
    BY <1>1, <1>2, <1>9 DEF SkipBucket, Moved, Building
  <2>2. /\ build'.pc = "bucket" /\ build'.next = c.next + 1 /\ build'.buf = c.buf
        /\ build'.complete = c.complete /\ build'.file = c.file /\ build'.format = c.format
        /\ build'.hash = c.hash /\ build'.nb = c.nb
    BY <1>3, <1>4, <1>5, <2>1, ZenonT(30)
  <2>3. BucketRecords(c.file, c.hash, c.nb, c.next) = <<>>
    BY <1>1, <1>9 DEF SkipBucket, Current
  <2>4. FilesDone(buckets, c) => FilesDone(buckets, build')
    BY <1>2, <2>1, <2>3, FilesMore
  <2>5. Laid(data \o c.buf, c) => Laid(data \o c.buf, build')
    BY <1>2, <2>2, <2>3, DataSkip
  <2>6. c.next + 1 \in 0..c.nb
    BY <1>3, <2>1
  <2> QED BY <1>2, <1>3, <2>1, <2>2, <2>4, <2>5, <2>6 DEF Progress, Underway, Written
<1>10. CASE CreateBucket
  <2>1. /\ c.pc = "bucket" /\ c.next < c.nb /\ Moved(c, build', "fill", c.next, c.buf)
        /\ c.format # "v3" /\ UNCHANGED <<data, offsets, meta>> /\ PutBucket(c.next, <<>>)
    BY <1>1, <1>2, <1>10 DEF CreateBucket, Moved, Building
  <2>2. /\ build'.pc = "fill" /\ build'.next = c.next /\ build'.buf = c.buf
        /\ build'.complete = c.complete /\ build'.file = c.file /\ build'.format = c.format
        /\ build'.hash = c.hash /\ build'.nb = c.nb
    BY <1>3, <1>4, <1>5, <2>1, ZenonT(30)
  <2>3. FilesDone(buckets, c)
    BY <1>2, <2>1 DEF Progress, Underway
  <2>4. FilesDone(buckets', c)
    <3>1. \A b \in 0..(c.next - 1) : b # c.next
      BY <1>3
    <3>2. \A b \in 0..(c.next - 1) : b \in DOMAIN buckets => b \in DOMAIN buckets' /\ buckets'[b] = buckets[b]
      BY <2>1, <3>1 DEF PutBucket
    <3> QED BY <2>3, <3>2 DEF FilesDone
  <2>5. FilesDone(buckets', build')
    BY <1>3, <1>4, <1>6, <2>1, <2>4
  <2> QED BY <1>2, <1>3, <2>1, <2>2, <2>5 DEF Progress, Underway, Written
<1>11. CASE FillBucket
  <2>1. /\ c.pc = "fill" /\ Moved(c, build', "bucket", c.next + 1, c.buf)
        /\ UNCHANGED <<data, offsets, meta>> /\ PutBucket(c.next, Current)
    BY <1>1, <1>2, <1>11 DEF FillBucket, Moved, Building
  <2>2. /\ build'.pc = "bucket" /\ build'.next = c.next + 1 /\ build'.buf = c.buf
        /\ build'.complete = c.complete /\ build'.file = c.file /\ build'.format = c.format
        /\ build'.hash = c.hash /\ build'.nb = c.nb
    BY <1>3, <1>4, <1>5, <2>1, ZenonT(30)
  <2>3. FilesDone(buckets, c) /\ c.next < c.nb /\ c.format # "v3"
    BY <1>2, <2>1 DEF Progress, Underway
  <2>4. PICK s : s = BucketRecords(c.file, c.hash, c.nb, c.next) /\ s = Current
    BY <1>1 DEF Current
  <2>5. FilesDone(buckets', build')
    <3>1. \A b \in 0..(c.next - 1) : b # c.next
      BY <1>3
    <3>2. \A b \in 0..(c.next - 1) : b \in DOMAIN buckets => buckets'[b] = buckets[b]
      BY <2>1, <3>1 DEF PutBucket
    <3>3. DOMAIN buckets \subseteq DOMAIN buckets' /\ c.next \in DOMAIN buckets' /\ buckets'[c.next] = s
      BY <2>1, <2>4 DEF PutBucket
    <3> QED BY <1>2, <2>1, <2>3, <2>4, <3>2, <3>3, FilesMore
  <2>6. c.next + 1 \in 0..c.nb
    BY <1>3, <2>3
  <2> QED BY <1>2, <1>3, <2>1, <2>2, <2>3, <2>5, <2>6 DEF Progress, Underway, Written
<1>12. CASE AppendBucket
  <2>1. PICK s : s = BucketRecords(c.file, c.hash, c.nb, c.next) /\ s = Current
    BY <1>1 DEF Current
  <2>2. s \in Seq(Record) /\ c.buf \o s \in Seq(Record)
    <3>1. s \in Seq(Record)
      <4>1. Grammed(c.file)
        BY <1>2, FilesAre DEF Building
      <4> QED BY <2>1, <4>1, BucketRecordsAre
    <3> QED BY <1>3, <3>1
  <2>3. /\ c.pc = "bucket" /\ Moved(c, build', "bucket", c.next + 1, c.buf \o s)
        /\ c.format = "v3" /\ c.next < c.nb /\ UNCHANGED <<buckets, data, offsets, meta>>
    BY <1>1, <1>2, <1>12, <2>1 DEF AppendBucket, Moved, Building
  <2>4. /\ build'.pc = "bucket" /\ build'.next = c.next + 1 /\ build'.buf = c.buf \o s
        /\ build'.complete = c.complete /\ build'.file = c.file /\ build'.format = c.format
        /\ build'.hash = c.hash /\ build'.nb = c.nb
    <3>1. PICK buf \in Seq(Record) : buf = c.buf \o s
      BY <2>2
    <3>2. Moved(c, build', "bucket", c.next + 1, buf)
      BY <2>3, <3>1
    <3>3. /\ build'.pc = "bucket" /\ build'.next = c.next + 1 /\ build'.buf = buf
          /\ build'.complete = c.complete /\ build'.file = c.file /\ build'.format = c.format
          /\ build'.hash = c.hash /\ build'.nb = c.nb
      BY <1>4, <1>5, <3>2
    <3> QED BY <3>1, <3>3
  <2>5. Laid(data \o c.buf, c)
    BY <1>2, <2>3 DEF Progress, Underway
  <2>6. Laid((data \o c.buf) \o s, build')
    BY <1>2, <2>1, <2>4, <2>5, DataMore
  <2>7. data' \o build'.buf = (data \o c.buf) \o s
    <3>1. Regroups(data, c.buf, s)
      <4>1. s \in Seq(Pieces)
        BY <2>2, PiecesAre, SeqWidens
      <4> QED BY <1>7, <4>1, Regroup
    <3> QED BY <2>3, <2>4, <3>1 DEF Regroups
  <2>8. c.next + 1 \in 0..c.nb
    BY <1>3, <2>3
  <2> QED BY <1>2, <1>3, <2>3, <2>4, <2>6, <2>7, <2>8 DEF Progress, Underway, Written
<1>13. CASE Spill
  <2>1. /\ c.pc # "idle" /\ c.buf # <<>> /\ Moved(c, build', c.pc, c.next, <<>>)
        /\ data' = data \o c.buf /\ UNCHANGED <<buckets, offsets, meta>>
    BY <1>1, <1>2, <1>13 DEF Spill, Moved, Building
  <2>2. c.pc = "bucket" /\ c.format = "v3" /\ Laid(data \o c.buf, c)
    BY <1>2, <2>1 DEF Progress, Underway
  <2>3. /\ build'.pc = "bucket" /\ build'.next = c.next /\ build'.buf = <<>>
        /\ build'.complete = c.complete /\ build'.file = c.file /\ build'.format = c.format
        /\ build'.hash = c.hash /\ build'.nb = c.nb
    BY <1>3, <1>4, <1>5, <2>1, <2>2, ZenonT(30)
  <2>4. data' \o build'.buf = data \o c.buf
    <3>1. data \o c.buf \in Seq(Pieces)
      BY <1>7
    <3> QED BY <2>1, <2>3, <3>1, ConcatNothing
  <2>5. Laid(data' \o build'.buf, build')
    BY <1>3, <1>4, <1>6, <2>1, <2>2, <2>4
  <2> QED BY <1>2, <1>3, <2>1, <2>2, <2>3, <2>5 DEF Progress, Underway, Written
<1>14. CASE BucketsDone
  <2>1. /\ c.pc = "bucket" /\ c.next = c.nb /\ c.buf = <<>> /\ UNCHANGED <<buckets, data, offsets, meta>>
        /\ Moved(c, build', IF c.format = "v3" THEN "offsets" ELSE "meta", c.next, c.buf)
    BY <1>1, <1>2, <1>14 DEF BucketsDone, Moved, Building
  <2>2. (IF c.format = "v3" THEN "offsets" ELSE "meta") \in Places
    BY <1>4
  <2>3. /\ build'.pc = (IF c.format = "v3" THEN "offsets" ELSE "meta") /\ build'.next = c.next /\ build'.buf = c.buf
        /\ build'.complete = c.complete /\ build'.file = c.file /\ build'.format = c.format
        /\ build'.hash = c.hash /\ build'.nb = c.nb
    BY <1>3, <1>5, <2>1, <2>2
  <2>4. /\ FilesDone(buckets, c) <=> FilesDone(buckets, build')
        /\ Laid(data \o c.buf, c) <=> Laid(data \o c.buf, build')
    BY <1>3, <1>6, <2>1, <2>2
  <2> QED BY <1>2, <1>3, <2>1, <2>3, <2>4 DEF Progress, Underway, Written
<1>15. CASE CreateOffsets
  <2>1. /\ c.pc = "offsets" /\ Moved(c, build', "table", c.next, c.buf)
        /\ UNCHANGED <<buckets, data, meta>>
    BY <1>1, <1>2, <1>15 DEF CreateOffsets, Moved, Building
  <2>2. /\ build'.pc = "table" /\ build'.next = c.next /\ build'.buf = c.buf
        /\ build'.complete = c.complete /\ build'.file = c.file /\ build'.format = c.format
        /\ build'.hash = c.hash /\ build'.nb = c.nb
    BY <1>3, <1>4, <1>5, <2>1, ZenonT(30)
  <2>3. Laid(data \o c.buf, c) <=> Laid(data \o c.buf, build')
    BY <1>3, <1>4, <1>6, <2>1
  <2> QED BY <1>2, <1>3, <2>1, <2>2, <2>3 DEF Progress, Underway, Written
<1>16. CASE WriteOffsets
  <2>1. /\ c.pc = "table" /\ Moved(c, build', "meta", c.next, c.buf)
        /\ offsets' = OffsetTable /\ UNCHANGED <<buckets, data, meta>>
    BY <1>1, <1>2, <1>16 DEF WriteOffsets, Moved, Building
  <2>2. /\ build'.pc = "meta" /\ build'.next = c.next /\ build'.buf = c.buf
        /\ build'.complete = c.complete /\ build'.file = c.file /\ build'.format = c.format
        /\ build'.hash = c.hash /\ build'.nb = c.nb
    BY <1>3, <1>4, <1>5, <2>1, ZenonT(30)
  <2>3. Laid(data \o c.buf, c) <=> Laid(data \o c.buf, build')
    BY <1>3, <1>4, <1>6, <2>1
  <2>4. offsets' = TableOf(build')
    BY <1>1, <1>2, <1>3, <1>4, <1>6, <2>1, OffsetTableIs
  <2> QED BY <1>2, <1>3, <2>1, <2>2, <2>3, <2>4 DEF Progress, Underway, Written
<1>17. CASE CreateMeta
  <2>1. /\ c.pc = "meta" /\ Moved(c, build', "finish", c.next, c.buf)
        /\ UNCHANGED <<buckets, data, offsets>>
    BY <1>1, <1>2, <1>17 DEF CreateMeta, Moved, Building
  <2>2. /\ build'.pc = "finish" /\ build'.next = c.next /\ build'.buf = c.buf
        /\ build'.complete = c.complete /\ build'.file = c.file /\ build'.format = c.format
        /\ build'.hash = c.hash /\ build'.nb = c.nb
    BY <1>3, <1>4, <1>5, <2>1, ZenonT(30)
  <2>3. /\ FilesDone(buckets, c) <=> FilesDone(buckets, build')
        /\ Laid(data \o c.buf, c) <=> Laid(data \o c.buf, build')
        /\ TableOf(c) = TableOf(build')
    BY <1>3, <1>4, <1>6, <2>1
  <2> QED BY <1>2, <1>3, <2>1, <2>2, <2>3 DEF Progress, Underway, Written
<1>18. CASE Finish
  <2>1. /\ c.pc = "finish" /\ UNCHANGED <<buckets, data, offsets>>
        /\ build' = [c EXCEPT !.pc = "idle", !.complete = TRUE]
        /\ meta' = OkMeta(c)
    BY <1>1, <1>18 DEF Finish, OkMeta, Count
  <2>2. /\ build'.pc = "idle" /\ build'.next = c.next /\ build'.buf = c.buf
        /\ build'.complete = TRUE /\ build'.file = c.file /\ build'.format = c.format
        /\ build'.hash = c.hash /\ build'.nb = c.nb
    BY <1>2, <2>1 DEF Building
  <2>3. /\ FilesDone(buckets, c) <=> FilesDone(buckets, build')
        /\ Laid(data \o c.buf, c) <=> Laid(data \o c.buf, build')
        /\ TableOf(c) = TableOf(build') /\ OkMeta(c) = OkMeta(build')
    <3>1. SameWork(c, build')
      BY <2>2 DEF SameWork
    <3> QED BY <3>1, SameWorkKeeps
  <2>4. c.buf = <<>>
    BY <1>2, <2>1 DEF Progress
  <2> QED BY <1>2, <1>3, <2>1, <2>2, <2>3, <2>4 DEF Progress, Underway, Written
<1>19. CASE StopIndex
  <2>1. c.pc # "idle" /\ Moved(c, build', "idle", c.next, <<>>)
    BY <1>1, <1>2, <1>19 DEF StopIndex, Moved, Building
  <2>2. build'.pc = "idle" /\ build'.buf = <<>> /\ build'.complete = c.complete
    BY <1>3, <1>4, <1>5, <2>1, ZenonT(30)
  <2> QED BY <1>2, <1>3, <2>1, <2>2 DEF Progress, Underway, Written
<1> QED BY <1>8, <1>9, <1>10, <1>11, <1>12, <1>13, <1>14, <1>15, <1>16, <1>17, <1>18, <1>19

-----------------------------------------------------------------------------
(* Disk slot index: what its readers find.                                 *)

\* A build begins with nothing written.
LEMMA BuildBegins ==
  ASSUME IndexTypes, IndexBuildInv, NEW f \in KeyFiles, NEW format \in Formats, NEW hash \in Hashes,
         NEW nb \in BucketCounts, BeginIndex(f, format, hash, nb)
  PROVE  IndexBuildInv'
<1>1. CASE f.whole
  <2>1. build' = [pc |-> IF format = "v3" THEN "data" ELSE "bucket", file |-> f, format |-> format,
                  hash |-> hash, nb |-> nb, next |-> 0, buf |-> <<>>, complete |-> FALSE]
    BY <1>1 DEF BeginIndex, Idle
  <2>2. nb \in Nat \ {0} /\ f \in IndexFiles
    BY SlotIndexAssumption DEF IndexFiles
  <2>3. /\ build'.pc = (IF format = "v3" THEN "data" ELSE "bucket") /\ build'.next = 0 /\ build'.buf = <<>>
        /\ build'.complete = FALSE /\ build'.file = f /\ build'.format = format
        /\ build'.hash = hash /\ build'.nb = nb
    BY <2>1
  <2>4. hash = "fnv1a-64" => format # "v1"
    BY DEF BeginIndex
  <2>5. FilesDone(buckets', build')
    BY <2>3 DEF FilesDone
  <2>6. 0 \in 0..nb
    BY <2>2
  <2> QED BY <1>1, <2>3, <2>4, <2>5, <2>6 DEF IndexBuildInv, Progress, Underway, Written
<1>2. CASE ~f.whole
  <2>1. UNCHANGED <<buckets, data, offsets, meta, build>>
    BY <1>2 DEF BeginIndex
  <2> QED BY <2>1 DEF IndexBuildInv
<1> QED BY <1>1, <1>2

\* A reader of the index the last build has left.
Fits(rd, c) ==
  /\ rd.format = c.format /\ rd.hash = c.hash /\ rd.nb = c.nb
  /\ rd.format = "v3" => rd.offsets = TableOf(c)
  /\ \A e \in ToSet(rd.cache) : BucketRecords(c.file, c.hash, c.nb, e[1]) \in {<<>>, e[2]}

ReaderInv ==
  /\ indexReader.fresh => build.complete /\ indexReader.steady /\ Fits(indexReader, build)
  /\ build.pc # "idle" => ~indexVerdict.asked
  /\ LookupExact

IndexInv == LookupInv /\ IndexBuildInv /\ ReaderInv

\* A finished build is on disk: every bucket that holds something reads back as it was built.
LEMMA OnDiskIs ==
  ASSUME IndexTypes, GivenInv, IndexBuildInv, build.complete, NEW b \in 0..(build.nb - 1),
         NEW offs, build.format = "v3" => offs = TableOf(build)
  PROVE  /\ BucketRecords(build.file, build.hash, build.nb, b) \in {<<>>, OnFile(build.format, offs, b)}
         /\ build.format = "v3" => offs[b + 2] <= Len(data) /\ data \in Seq(Record)
<1>1. PICK c : c = build
  OBVIOUS
<1>2. c \in Building /\ Progress(buckets, data, offsets, meta, c) /\ c.complete
  BY <1>1 DEF IndexTypes, IndexBuildInv
<1>3. Grammed(c.file) /\ c.nb \in Nat \ {0} /\ c.pc = "idle" /\ c.buf = <<>> /\ c.next = c.nb
  BY <1>2, FilesAre DEF Building, Progress, Written
<1>4. PICK s : s = BucketRecords(c.file, c.hash, c.nb, b)
  OBVIOUS
<1>5. CASE c.format # "v3"
  <2>1. FilesDone(buckets, c)
    BY <1>2, <1>5 DEF Progress, Underway
  <2>2. s = <<>> \/ (b \in DOMAIN buckets /\ buckets[b] = s)
    BY <1>1, <1>3, <1>4, <2>1 DEF FilesDone
  <2> QED BY <1>1, <1>4, <1>5, <2>2 DEF OnFile
<1>6. CASE c.format = "v3"
  <2>1. Laid(data \o c.buf, c)
    BY <1>2, <1>6 DEF Progress, Underway
  <2>2. data \in Seq(Record) /\ Len(data) = Before(c.file, c.hash, c.nb, c.nb) /\ LaidAt(data, c.file, c.hash, c.nb, b)
    <3>1. PICK w : w = data \o <<>>
      OBVIOUS
    <3>2. w \in Seq(Record) /\ Len(w) = Before(c.file, c.hash, c.nb, c.nb) /\ LaidAt(w, c.file, c.hash, c.nb, b)
      BY <1>1, <1>3, <2>1, <3>1 DEF Laid, LaidUpto
    <3>3. data \o <<>> = data
      BY ConcatNothing DEF GivenInv, Given
    <3> QED BY <3>1, <3>2, <3>3
  <2>3. /\ Before(c.file, c.hash, c.nb, b + 1) <= Len(data)
        /\ SubSeq(data, Before(c.file, c.hash, c.nb, b) + 1, Before(c.file, c.hash, c.nb, b + 1)) = s
    BY <1>1, <1>3, <1>4, <2>2, LaidRead
  <2>4. PICK o, e : o = Before(c.file, c.hash, c.nb, b) /\ e = Before(c.file, c.hash, c.nb, b + 1)
    OBVIOUS
  <2>5. offs[b + 1] = o /\ offs[b + 2] = e
    <3>1. b + 1 \in 1..(c.nb + 1) /\ b + 2 \in 1..(c.nb + 1) /\ (b + 1) - 1 = b /\ (b + 2) - 1 = b + 1
      BY <1>1, <1>3
    <3>2. \A n \in 1..(c.nb + 1) : offs[n] = Before(c.file, c.hash, c.nb, n - 1)
      BY <1>1, <1>6 DEF TableOf
    <3> QED BY <2>4, <3>1, <3>2
  <2>6. (IF e < Len(data) THEN e ELSE Len(data)) = e
    <3>1. e \in Nat
      BY <1>3, <2>4, BeforeIs
    <3>2. Len(data) \in Nat
      BY <1>3, <2>2, BeforeIs
    <3> QED BY <2>3, <2>4, <3>1, <3>2
  <2>7. OnFile(c.format, offs, b) = s
    BY <1>6, <2>3, <2>4, <2>5, <2>6 DEF OnFile, Slice
  <2> QED BY <1>1, <1>4, <2>2, <2>3, <2>4, <2>5, <2>7
<1> QED BY <1>5, <1>6

\* So it is through a reader that was opened on it, from its cache or from disk.
LEMMA LookedIs ==
  ASSUME IndexInv, indexReader.fresh, NEW b \in 0..(build.nb - 1)
  PROVE  BucketRecords(build.file, build.hash, build.nb, b) \in {<<>>, Looked(b)}
<1>1. IndexTypes /\ GivenInv /\ IndexBuildInv /\ build.complete /\ Fits(indexReader, build)
  BY DEF IndexInv, LookupInv, ReaderInv
<1>2. CASE Cached(b)
  <2>1. indexReader \in IndexReading
    BY <1>1 DEF IndexTypes
  <2>2. FromCache(b) \in ToSet(indexReader.cache) /\ FromCache(b)[1] = b
    BY <1>2, <2>1, FromCacheIs
  <2> QED BY <1>1, <1>2, <2>2 DEF Looked, Fits
<1>3. CASE ~Cached(b)
  <2>1. indexReader.format = build.format /\ (build.format = "v3" => indexReader.offsets = TableOf(build))
    BY <1>1 DEF Fits
  <2>2. BucketRecords(build.file, build.hash, build.nb, b)
          \in {<<>>, OnFile(build.format, indexReader.offsets, b)}
    BY <1>1, <2>1, OnDiskIs
  <2> QED BY <1>3, <2>1, <2>2 DEF Looked
<1> QED BY <1>2, <1>3

\* The bucket of a gram of the keys file holds its record.
Bucketed(f, hash, nb, r, b, s) ==
  b = BucketOf(hash, r[1], nb) /\ s = BucketRecords(f, hash, nb, b)

Holds(f, nb, r, b, s) ==
  /\ b \in 0..(nb - 1) /\ r[1] \in Nat /\ r[2] \in Nat /\ r = <<r[1], r[2]>>
  /\ s # <<>> /\ s \in Seq(Record) /\ Rising(s)
  /\ r \in ToSet(s) /\ ToSet(s) \subseteq Records(f)

LEMMA BucketHas ==
  ASSUME NEW f, Grammed(f), NEW hash, NEW nb \in Nat \ {0}, NEW r \in Records(f),
         NEW b, NEW s, Bucketed(f, hash, nb, r, b, s)
  PROVE  Holds(f, nb, r, b, s)
<1>1. r \in Record
  BY RecordsAre
<1>2. r[1] \in Nat /\ r[2] \in Nat /\ r = <<r[1], r[2]>>
  BY <1>1 DEF Record
<1>3. b = BucketOf(hash, r[1], nb) /\ b \in 0..(nb - 1)
  BY <1>2, BucketIs DEF Bucketed
<1>4. s = BucketRecords(f, hash, nb, b)
  BY DEF Bucketed
<1>5. s \in Seq(Record) /\ Rising(s) /\ ToSet(s) = BucketSet(f, hash, nb, b) /\ ToSet(s) \subseteq Records(f)
  BY <1>4, BucketRecordsAre
<1>6. r \in ToSet(s)
  BY <1>3, <1>5 DEF BucketSet
<1>7. s # <<>>
  BY <1>6 DEF ToSet
<1> QED BY <1>2, <1>3, <1>5, <1>6, <1>7 DEF Holds

\* A gram of a keys file that was built is found at its slot.
LEMMA FoundAt ==
  ASSUME IndexInv, build.complete, NEW g \in ToSet(build.file.grams), NEW recs,
         BucketRecords(build.file, build.hash, build.nb, BucketOf(build.hash, g, build.nb)) \in {<<>>, recs}
  PROVE  <<g, Answer(recs, g)>> \in Records(build.file)
<1>1. Grammed(build.file) /\ build.nb \in Nat \ {0}
  BY FilesAre DEF IndexInv, LookupInv, IndexTypes, Building
<1>2. PICK s \in Nat : <<g, s>> \in Records(build.file)
  BY <1>1, RecordsAre
<1>3. PICK r \in Records(build.file) : r = <<g, s>> /\ r[1] = g /\ r[2] = s
  BY <1>2
<1>4. PICK b : b = BucketOf(build.hash, g, build.nb)
  OBVIOUS
<1>5. PICK q : q = BucketRecords(build.file, build.hash, build.nb, b)
  OBVIOUS
<1>10. Bucketed(build.file, build.hash, build.nb, r, b, q)
  BY <1>3, <1>4, <1>5 DEF Bucketed
<1>6. /\ q # <<>> /\ q \in Seq(Record) /\ Rising(q) /\ r \in ToSet(q) /\ ToSet(q) \subseteq Records(build.file)
      /\ g \in Nat
  <2>1. /\ q # <<>> /\ q \in Seq(Record) /\ Rising(q) /\ r \in ToSet(q) /\ ToSet(q) \subseteq Records(build.file)
        /\ r[1] \in Nat
    <3>1. Holds(build.file, build.nb, r, b, q)
      BY <1>1, <1>10, BucketHas
    <3> QED BY <3>1 DEF Holds
  <2> QED BY <1>3, <2>1
<1>7. q = recs
  BY <1>4, <1>5, <1>6
<1>8. <<g, s>> \in ToSet(q)
  BY <1>3, <1>6
<1>9. <<g, Answer(q, g)>> \in ToSet(q)
  BY <1>2, <1>6, <1>8, RunHasRecords
<1> QED BY <1>6, <1>7, <1>9

\* A file of whole records has those it has.
LEMMA WholeIs == ASSUME NEW recs \in Seq(Record) PROVE WholeRecs(recs) = recs
<1>1. CASE recs = <<>>
  BY <1>1 DEF WholeRecs
<1>2. CASE recs # <<>>
  <2>1. PICK n \in Nat : n = Len(recs) /\ n # 0
    BY <1>2, LenProperties, NonEmpty
  <2>2. n \in 1..Len(recs)
    BY <2>1
  <2>3. recs[n] \in Record
    BY <2>2, ElementOfSeq
  <2>4. PICK e \in Record : e = recs[n]
    BY <2>3
  <2>5. e = <<e[1], e[2]>> /\ Len(<<e[1], e[2]>>) = 2
    BY DEF Record
  <2>6. Last(recs) = e
    BY <2>1, <2>4 DEF Last
  <2> QED BY <2>5, <2>6 DEF WholeRecs
<1> QED BY <1>1, <1>2

\* slot-index verify accepts a finished index whose hash it knows.
LEMMA VerifyAccepts ==
  ASSUME IndexInv, build.complete, build.hash = "fnv1a-64"
  PROVE  Verified(build.file)
<1>1. /\ IndexTypes /\ GivenInv /\ IndexBuildInv /\ build \in Building
      /\ Grammed(build.file) /\ build.nb \in Nat \ {0} /\ build.format \in Formats
  BY FilesAre DEF IndexInv, LookupInv, IndexTypes, Building
<1>2. Progress(buckets, data, offsets, meta, build)
  BY <1>1 DEF IndexBuildInv
<1>3. build.file.whole /\ build.format # "v1" /\ meta = OkMeta(build) /\ (build.format = "v3" => offsets = TableOf(build))
  BY <1>2 DEF Progress
<1>4. /\ meta.state = "ok" /\ meta.format = build.format /\ meta.hash = build.hash
      /\ meta.nb = build.nb /\ meta.count = Len(build.file.grams)
  BY <1>3 DEF OkMeta
<1>7. Grammed(build.file) /\ build.nb \in Nat \ {0}
  BY <1>1
<1>5. RustOpenable
  <2>1. build.format = "v3" => Len(offsets) = build.nb + 1
    <3>1. build.format = "v3" => DOMAIN offsets = 1..(build.nb + 1)
      BY <1>3 DEF TableOf
    <3> QED BY <1>1, <3>1 DEF IndexTypes
  <2> QED BY <1>1, <1>3, <1>4, <2>1 DEF RustOpenable, Openable, Formats
<1>6. ASSUME NEW r \in Records(build.file) PROVE ContainsSlot(r[1], r[2])
  <2>1. PICK b : b = BucketOf(build.hash, r[1], build.nb)
    OBVIOUS
  <2>2. PICK q : q = BucketRecords(build.file, build.hash, build.nb, b)
    OBVIOUS
  <2>9. Bucketed(build.file, build.hash, build.nb, r, b, q)
    BY <2>1, <2>2 DEF Bucketed
  <2>3. /\ b \in 0..(build.nb - 1) /\ q # <<>> /\ q \in Seq(Record) /\ Rising(q) /\ r \in ToSet(q)
        /\ r[1] \in Nat /\ r[2] \in Nat /\ r = <<r[1], r[2]>>
    <3>1. Holds(build.file, build.nb, r, b, q)
      BY <1>7, <2>9, BucketHas, SMTT(30)
    <3> QED BY <3>1 DEF Holds
  <2>4. /\ q \in {<<>>, OnFile(build.format, offsets, b)}
        /\ build.format = "v3" => offsets[b + 2] <= Len(data) /\ data \in Seq(Record)
    BY <1>1, <1>3, <2>2, <2>3, OnDiskIs
  <2>10. build.format = "v3" => WholeRecs(data) = data
    BY <2>4, WholeIs
  <2>5. OnDisk(b) = q
    <3>1. OnFile(build.format, offsets, b) = q
      BY <2>3, <2>4
    <3>2. CASE build.format = "v3"
      BY <1>4, <2>10, <3>1, <3>2 DEF OnDisk, OnFile
    <3>3. CASE build.format # "v3"
      <4>1. b \in DOMAIN buckets /\ buckets[b] = q
        BY <2>3, <3>1, <3>3 DEF OnFile
      <4>2. WholeRecs(q) = q
        BY <2>3, WholeIs
      <4> QED BY <1>4, <3>3, <4>1, <4>2 DEF OnDisk
    <3> QED BY <3>2, <3>3
  <2>6. Readable(b)
    BY <1>4, <2>4, <2>10 DEF Readable
  <2>7. r[2] \in Range(SlotRun(q, r[1]))
    BY <2>3, RunHasRecords
  <2>8. b = BucketOf("fnv1a-64", r[1], meta.nb)
    BY <1>4, <2>1
  <2> QED BY <2>5, <2>6, <2>7, <2>8 DEF ContainsSlot
<1> QED BY <1>3, <1>4, <1>5, <1>6 DEF Verified

-----------------------------------------------------------------------------
\* A build in progress has no reader of its own, and no verdict.
LEMMA ReadersWait ==
  ASSUME IndexInv, LookupInv',
         \/ CreateData \/ SkipBucket \/ CreateBucket \/ FillBucket \/ AppendBucket \/ Spill
         \/ BucketsDone \/ CreateOffsets \/ WriteOffsets \/ CreateMeta \/ Finish
         \/ StopIndex
  PROVE  ReaderInv'
<1>1. build.pc # "idle" /\ BuildQuiet
  BY DEF CreateData, SkipBucket, CreateBucket, FillBucket, AppendBucket, Spill, BucketsDone,
         CreateOffsets, WriteOffsets, CreateMeta, Finish, StopIndex, BuildAt
<1>2. ~build.complete
  BY <1>1 DEF IndexInv, IndexBuildInv, Progress
<1>3. ~indexReader.fresh /\ ~indexVerdict.asked
  BY <1>1, <1>2 DEF IndexInv, ReaderInv
<1>4. indexReader' = indexReader /\ found' = found /\ indexVerdict' = indexVerdict
  BY <1>1 DEF BuildQuiet
<1> QED BY <1>3, <1>4 DEF ReaderInv, LookupExact

LEMMA ReadersBegin ==
  ASSUME IndexInv, NEW f \in KeyFiles, NEW format \in Formats, NEW hash \in Hashes,
         NEW nb \in BucketCounts, BeginIndex(f, format, hash, nb)
  PROVE  ReaderInv'
<1>1. CASE f.whole
  <2>1. /\ indexReader' = [indexReader EXCEPT !.fresh = FALSE, !.steady = FALSE]
        /\ indexVerdict' = IndexNotVerified
    BY <1>1 DEF BeginIndex
  <2>2. indexReader \in IndexReading
    BY DEF IndexInv, LookupInv, IndexTypes
  <2>3. ~indexReader'.fresh /\ ~indexVerdict'.asked
    BY <2>1, <2>2 DEF IndexReading, IndexNotVerified
  <2> QED BY <2>3 DEF ReaderInv, LookupExact
<1>2. CASE ~f.whole
  <2>1. UNCHANGED <<indexReader, found, indexVerdict, build>>
    BY <1>2 DEF BeginIndex
  <2> QED BY <2>1 DEF IndexInv, ReaderInv, LookupExact, Fits
<1> QED BY <1>1, <1>2

LEMMA ReadersOpen ==
  ASSUME IndexInv, Open \/ CloseIndex \/ \E f \in KeyFiles : VerifyIndex(f)
  PROVE  ReaderInv'
<1>0. /\ build \in Building /\ build.file.grams \in Seq(Nat)
      /\ Progress(buckets, data, offsets, meta, build) /\ build.pc \in Places
  BY FilesAre, Fields DEF IndexInv, LookupInv, IndexTypes, IndexBuildInv, Grammed, Building
<1>4. Missing \notin ToSet(build.file.grams)
  BY <1>0, SetOfSeq DEF Missing
<1>1. CASE Open
  <2>1. PICK offs \in OffsetsNow :
          indexReader' = [open |-> TRUE, format |-> meta.format, hash |-> meta.hash, nb |-> meta.nb,
                          offsets |-> IF meta.format = "v3" THEN offs ELSE <<>>,
                          cache |-> <<>>, ahead |-> <<>>,
                          fresh |-> build.complete, steady |-> build.pc = "idle"]
    BY <1>1 DEF Open
  <2>2. found' = NotAsked /\ UNCHANGED <<build, indexVerdict>> /\ NotAsked.gram = Missing
    BY <1>1 DEF Open, NotAsked
  <2>3. ASSUME build.complete PROVE indexReader'.steady /\ Fits(indexReader', build)
    <3>1. meta = OkMeta(build) /\ (build.format = "v3" => offsets = TableOf(build)) /\ build.pc = "idle"
      BY <1>0, <2>3 DEF Progress
    <3>2. meta.format = build.format /\ meta.hash = build.hash /\ meta.nb = build.nb
      BY <3>1 DEF OkMeta
    <3>3. indexReader'.cache = <<>> /\ ToSet(<<>>) = {}
      BY <2>1 DEF ToSet
    <3>4. offs = offsets
      BY <2>1, <3>1 DEF OffsetsNow, BuildAt
    <3> QED BY <2>1, <3>1, <3>2, <3>3, <3>4 DEF Fits
  <2>4. indexReader'.fresh = build.complete
    BY <2>1
  <2>5. build' = build /\ found'.gram = Missing /\ indexVerdict' = indexVerdict
    BY <2>2
  <2>6. Fits(indexReader', build) <=> Fits(indexReader, build)'
    BY <2>5 DEF Fits
  <2> QED BY <1>4, <2>3, <2>4, <2>5, <2>6 DEF IndexInv, ReaderInv, LookupExact
<1>2. CASE CloseIndex
  <2>1. UNCHANGED <<build, indexVerdict>> /\ ~indexReader'.fresh
    BY <1>2 DEF CloseIndex, Closed
  <2> QED BY <2>1 DEF IndexInv, ReaderInv, LookupExact
<1>3. ASSUME NEW f \in KeyFiles, VerifyIndex(f) PROVE ReaderInv'
  <2>1. /\ build.pc = "idle" /\ UNCHANGED <<build, indexReader, found>>
        /\ indexVerdict' = [file |-> f, ok |-> Verified(f), asked |-> TRUE]
    BY <1>3 DEF VerifyIndex
  <2>2. indexVerdict'.file = f /\ indexVerdict'.ok = Verified(f)
    BY <2>1
  <2>3. f = build.file /\ build.complete /\ build.hash = "fnv1a-64" => Verified(f)
    BY VerifyAccepts
  <2>4. LookupExact'
    BY <2>1, <2>2, <2>3 DEF IndexInv, ReaderInv, LookupExact
  <2> QED BY <2>1, <2>4 DEF IndexInv, ReaderInv, Fits
<1> QED BY <1>1, <1>2, <1>3

LEMMA ReadersLook ==
  ASSUME IndexInv, NEW g \in Grams, Lookup(g)
  PROVE  ReaderInv'
<1>0. IndexTypes /\ GivenInv /\ g \in Nat /\ indexReader.open
  BY GramsAre DEF IndexInv, LookupInv, Lookup
<1>1. indexReader \in IndexReading /\ indexReader.nb \in Nat \ {0}
  BY <1>0 DEF IndexTypes, IndexReading
<1>2. PICK b \in 0..(indexReader.nb - 1) : b = ReaderBucket(g)
  BY <1>0, <1>1, BucketIs DEF ReaderBucket
<1>3. b \in Nat
  BY <1>1
<1>4. PICK load \in Loaded(b) :
        /\ indexReader'.cache = Kept(b, load[1])
        /\ indexReader'.format = indexReader.format /\ indexReader'.hash = indexReader.hash
        /\ indexReader'.nb = indexReader.nb /\ indexReader'.offsets = indexReader.offsets
        /\ indexReader'.fresh = indexReader.fresh /\ indexReader'.steady = indexReader.steady
        /\ found' = [gram |-> g, slot |-> Answer(load[1], g)]
        /\ UNCHANGED <<build, indexVerdict>>
  BY <1>0, <1>2, LookupIs
<1>14. load[1] \in Seq(Pieces) /\ (indexReader.steady => load[1] = Looked(b))
  BY <1>0, LoadedIs
<1>5. PICK recs, k : recs = load[1] /\ k = Kept(b, load[1])
  OBVIOUS
<1>6. ToSet(k) \subseteq ToSet(indexReader.cache) \cup {<<b, recs>>}
  BY <1>0, <1>3, <1>5, <1>14, KeptIs
<1>7. /\ indexReader'.cache = k
      /\ indexReader'.format = indexReader.format /\ indexReader'.hash = indexReader.hash
      /\ indexReader'.nb = indexReader.nb /\ indexReader'.offsets = indexReader.offsets
      /\ indexReader'.fresh = indexReader.fresh /\ indexReader'.steady = indexReader.steady
      /\ found' = [gram |-> g, slot |-> Answer(recs, g)]
      /\ UNCHANGED <<build, indexVerdict>>
  BY <1>4, <1>5
<1>8. found'.gram = g /\ found'.slot = Answer(recs, g)
  BY <1>7
<1>9. ASSUME indexReader.fresh
      PROVE  /\ build.complete /\ indexReader.steady /\ Fits(indexReader, build)
             /\ BucketRecords(build.file, build.hash, build.nb, b) \in {<<>>, recs}
             /\ b = BucketOf(build.hash, g, build.nb)
  <2>1. build.complete /\ indexReader.steady /\ Fits(indexReader, build) /\ recs = Looked(b)
    BY <1>5, <1>9, <1>14 DEF IndexInv, ReaderInv
  <2>2. indexReader.nb = build.nb /\ indexReader.hash = build.hash
    BY <2>1 DEF Fits
  <2>3. b \in 0..(build.nb - 1)
    BY <2>2
  <2> QED BY <1>2, <1>9, <2>1, <2>2, <2>3, LookedIs DEF ReaderBucket
<1>10. indexReader.fresh => Fits(indexReader', build)
  <2> SUFFICES ASSUME indexReader.fresh PROVE Fits(indexReader', build)
    OBVIOUS
  <2>1. <<b, recs>>[1] = b /\ <<b, recs>>[2] = recs
    OBVIOUS
  <2>2. \A e \in ToSet(k) : BucketRecords(build.file, build.hash, build.nb, e[1]) \in {<<>>, e[2]}
    BY <1>6, <1>9, <2>1 DEF Fits
  <2> QED BY <1>7, <1>9, <2>2 DEF Fits
<1>11. Fits(indexReader', build) => Fits(indexReader, build)'
  BY <1>7 DEF Fits
<1>12. indexReader.fresh /\ g \in ToSet(build.file.grams) => <<g, Answer(recs, g)>> \in Records(build.file)
  BY <1>9, FoundAt
<1>13. LookupExact'
  BY <1>7, <1>8, <1>12 DEF IndexInv, ReaderInv, LookupExact
<1> QED BY <1>7, <1>8, <1>9, <1>10, <1>11, <1>13 DEF IndexInv, ReaderInv

\* In every reachable state what a finished build left is on disk, and its readers see it.
LEMMA IndexAlways == IndexSpec => []IndexInv
<1>1. IndexInit => IndexBuildInv /\ ReaderInv
  <2> SUFFICES ASSUME IndexInit PROVE IndexBuildInv /\ ReaderInv
    OBVIOUS
  <2>1. build.pc = "idle" /\ build.complete = FALSE /\ build.buf = <<>>
    BY DEF IndexInit, Idle
  <2>2. IndexBuildInv
    BY <2>1 DEF IndexBuildInv, Progress, Underway, Written
  <2>3. ~indexReader.fresh /\ ~indexVerdict.asked
    BY DEF IndexInit, Closed, NotAsked, IndexNotVerified
  <2> QED BY <2>2, <2>3 DEF ReaderInv, LookupExact
<1>2. LookupInv /\ LookupInv' /\ IndexBuildInv /\ ReaderInv /\ [IndexNext]_indexVars => IndexBuildInv' /\ ReaderInv'
  <2> SUFFICES ASSUME LookupInv, LookupInv', IndexBuildInv, ReaderInv, [IndexNext]_indexVars
               PROVE  IndexBuildInv' /\ ReaderInv'
    OBVIOUS
  <2>0. IndexInv /\ IndexTypes
    BY DEF IndexInv, LookupInv
  <2>1. CASE UNCHANGED indexVars
    BY <2>1 DEF indexVars, IndexBuildInv, ReaderInv, LookupExact, Fits
  <2>2. CASE IndexNext
    <3>1. CASE \E f \in KeyFiles, format \in {"v1", "v2", "v3"}, hash \in Hashes, nb \in BucketCounts :
                 BeginIndex(f, format, hash, nb)
      BY <2>0, <3>1, BuildBegins, ReadersBegin DEF Formats
    <3>2. CASE \/ CreateData \/ SkipBucket \/ CreateBucket \/ FillBucket \/ AppendBucket \/ Spill
               \/ BucketsDone \/ CreateOffsets \/ WriteOffsets \/ CreateMeta \/ Finish
               \/ StopIndex
      BY <2>0, <3>2, BuildKeeps, ReadersWait
    <3>3. CASE \E g \in Grams : Lookup(g)
      <4>1. IndexBuildInv'
        BY <3>3 DEF Lookup, IndexBuildInv
      <4> QED BY <2>0, <3>3, <4>1, ReadersLook
    <3>4. CASE Open \/ CloseIndex \/ \E f \in KeyFiles : VerifyIndex(f)
      <4>1. IndexBuildInv'
        BY <3>4 DEF Open, CloseIndex, VerifyIndex, IndexBuildInv
      <4> QED BY <2>0, <3>4, <4>1, ReadersOpen
    <3> QED BY <2>2, <3>1, <3>2, <3>3, <3>4 DEF IndexNext
  <2> QED BY <2>1, <2>2
<1> QED BY <1>1, <1>2, LookupAlways, PTL DEF IndexSpec, IndexInv

\* A reader opened on a finished build gives a slot of the n-gram for every n-gram of
\* the build's keys file, whatever was in the directory before, and slot-index verify
\* accepts the index (disk_slot_index.py 18, slot_index.rs 418).
THEOREM ExactLookups == IndexSpec => []LookupExact
<1>1. IndexInv => LookupExact
  BY DEF IndexInv, ReaderInv
<1> QED BY <1>1, IndexAlways, PTL

-----------------------------------------------------------------------------
(* The types of the views and of the index.                                *)

\* Rows of a view: those of the lists, and padding.
Rows == Rowids \cup {Pad}

\* What is on its way to the files comes from the lists.
RowidInv ==
  /\ view \in Seq(Rows) /\ keysFile \in Seq(Rowids)
  /\ cmd.rows \in Seq(Rows) /\ cmd.lines \in Seq(Rowids)
  /\ \A p \in 1..Len(cmd.keys) : cmd.keys[p] \in Rowids \cup {Bad}
  /\ cmd.at <= Len(cmd.keys)
  /\ cmd.pc # "idle" => cmd.slot \in Slots
  /\ manifest.state = "ok" => manifest.slot \in Slots
  /\ \A r \in index : r[1] \in [1..Heads -> Rowids]
  /\ commands \in 0..MaxCommands

LEMMA RowidsAre ==
  /\ Rowids \subseteq Nat /\ Rows \subseteq Int
  /\ \A l \in Lists : l \in Seq(Int) /\ \A p \in 1..Len(l) : l[p] \in Rowids \cup {Bad}
<1>1. ASSUME NEW l \in Lists
      PROVE  l \in Seq(Nat \cup {Bad}) /\ l \in Seq(Int) /\ ToSet(l) \subseteq Nat \cup {Bad}
             /\ \A p \in 1..Len(l) : l[p] \in ToSet(l)
  <2>1. l \in Seq(Nat \cup {Bad}) /\ l \in Seq(Int)
    BY ViewStoreAssumption, ConstantsAre
  <2> QED BY <2>1, SetOfSeq
<1>2. Rowids \subseteq Nat
  <2> SUFFICES ASSUME NEW r \in Rowids PROVE r \in Nat
    OBVIOUS
  <2>1. PICK l \in Lists : r \in ToSet(l) /\ r # Bad
    BY Zenon DEF Rowids
  <2> QED BY <1>1, <2>1
<1>3. Rows \subseteq Int
  BY <1>2 DEF Rows, Pad
<1>4. ASSUME NEW l \in Lists, NEW p \in 1..Len(l) PROVE l[p] \in Rowids \cup {Bad}
  <2>1. l[p] \in ToSet(l)
    BY <1>1
  <2>2. l[p] \in UNION {ToSet(q) : q \in Lists}
    BY <2>1
  <2> QED BY <2>2, Zenon DEF Rowids
<1> QED BY <1>1, <1>2, <1>3, <1>4

\* A sequence whose elements are all in a set.
LEMMA SeqNarrows ==
  ASSUME NEW T, NEW s \in Seq(T), NEW S, \A p \in 1..Len(s) : s[p] \in S
  PROVE  s \in Seq(S)
<1>1. Len(s) \in Nat /\ s \in [1..Len(s) -> T]
  BY LenProperties
<1>2. s \in [1..Len(s) -> S]
  BY <1>1
<1> QED BY <1>1, <1>2, FunIsSeq

\* The slots and the grams of rowids.
LEMMA SlotsWithin ==
  ASSUME NEW k \in Seq(Rowids), NEW w \in Widths
  PROVE  SlotsOf(k, w) \in Seq(Rows)
<1>1. k \in Seq(Int) /\ \A p \in 1..Len(k) : k[p] \in Rowids
  <2>1. Rowids \in SUBSET Int
    BY RowidsAre
  <2> QED BY <2>1, SeqWidens, LenProperties
<1>2. PICK v \in Seq(Int), n \in Nat : v = SlotsOf(k, w) /\ n = GramCount(k) /\ IsSlots(v, k, n, w)
  BY <1>1, SlotsOfIs, CountIs
<1>3. w \in Nat \ {0} /\ Heads \in Nat \ {0} /\ n * Heads <= Len(k) /\ n * Heads \in Nat /\ Len(k) \in Nat
  BY <1>1, <1>2, CountIs, ConstantsAre DEF Widths
<1>4. ASSUME NEW p \in 1..Len(v) PROVE v[p] \in Rows
  <2>1. PICK g \in 0..(n - 1), x \in 1..w : p = g * w + x
    <3>1. p \in 1..(n * w)
      BY <1>2 DEF IsSlots
    <3> QED BY <1>3, <3>1, BlockPlace
  <2>2. v[p] = IF x <= Heads THEN k[g * Heads + x] ELSE Pad
    BY <1>2, <2>1 DEF IsSlots
  <2>3. ASSUME x <= Heads PROVE k[g * Heads + x] \in Rowids
    <3>1. x \in 1..Heads
      BY <2>3
    <3>2. PICK q : q = g * Heads + x
      OBVIOUS
    <3>3. q \in 1..(n * Heads)
      BY <1>3, <3>1, <3>2, BlockRange
    <3>4. q \in 1..Len(k)
      BY <1>3, <3>3
    <3> QED BY <1>1, <3>2, <3>4
  <2> QED BY <2>2, <2>3, Zenon DEF Rows
<1> QED BY <1>2, <1>4, SeqNarrows

LEMMA GramsWithin ==
  ASSUME NEW k \in Seq(Rowids)
  PROVE  \A r \in IndexOf(k) : r[1] \in [1..Heads -> Rowids]
<1>1. k \in Seq(Int) /\ \A p \in 1..Len(k) : k[p] \in Rowids
  <2>1. Rowids \in SUBSET Int
    BY RowidsAre
  <2> QED BY <2>1, SeqWidens, LenProperties
<1>2. ASSUME NEW i \in 0..(GramCount(k) - 1) PROVE GramAt(k, i) \in [1..Heads -> Rowids]
  <2>1. /\ i * Heads \in Nat /\ i * Heads + Heads <= Len(k)
        /\ GramAt(k, i) \in Seq(Int) /\ Len(GramAt(k, i)) = Heads
        /\ \A x \in 1..Heads : GramAt(k, i)[x] = k[i * Heads + x]
    BY <1>1, GramIs
  <2>2. ASSUME NEW x \in 1..Heads PROVE GramAt(k, i)[x] \in Rowids
    <3>1. PICK a \in Nat : a = i * Heads /\ a + Heads <= Len(k)
      BY <2>1
    <3>2. a + x \in 1..Len(k)
      BY <1>1, <3>1, ConstantsAre, LenProperties
    <3> QED BY <1>1, <2>1, <3>1, <3>2
  <2>3. GramAt(k, i) \in Seq(Rowids)
    BY <2>1, <2>2, SeqNarrows
  <2> QED BY <2>1, <2>3, LenProperties
<1> QED BY <1>2 DEF IndexOf

\* A chunk of a list that holds numbers only.
LEMMA ChunkWithin ==
  ASSUME BuildTypes, RowidInv
  PROVE  /\ Chunk \in Seq(Int) /\ cmd.at + Len(Chunk) <= Len(cmd.keys)
         /\ Numeric(Chunk) => Chunk \in Seq(Rowids)
<1>1. cmd.keys \in Seq(Int) /\ cmd.at \in Nat /\ cmd.at <= Len(cmd.keys)
  BY DEF BuildTypes, Command, RowidInv
<1>5. PICK k \in Seq(Int), at \in Nat : k = cmd.keys /\ at = cmd.at
  BY <1>1
<1>2. k = cmd.keys /\ at = cmd.at /\ at \in 0..Len(k) /\ Len(k) \in Nat
  BY <1>1, <1>5, LenProperties
<1>3. /\ Chunk \in Seq(Int) /\ at + Len(Chunk) <= Len(k)
      /\ \A p \in 1..Len(Chunk) : Chunk[p] = k[at + p]
  BY <1>2, ChunkIs
<1>4. ASSUME Numeric(Chunk) PROVE Chunk \in Seq(Rowids)
  <2>1. ASSUME NEW p \in 1..Len(Chunk) PROVE Chunk[p] \in Rowids
    <3>1. at + p \in 1..Len(k) /\ Chunk[p] = k[at + p]
      <4>1. Len(Chunk) \in Nat
        BY <1>3, LenProperties
      <4>2. PICK c \in Nat, n \in Nat : c = Len(Chunk) /\ n = Len(k)
        BY <1>2, <4>1
      <4>3. p \in 1..c /\ at + c <= n
        BY <1>3, <4>2
      <4>4. at + p \in 1..n
        BY <1>5, <4>2, <4>3
      <4> QED BY <1>3, <4>2, <4>4
    <3>2. Chunk[p] \in Rowids \cup {Bad}
      BY <1>2, <3>1 DEF RowidInv
    <3>3. Chunk[p] # Bad
      BY <1>4 DEF Numeric
    <3> QED BY <3>2, <3>3
  <2> QED BY <1>3, <2>1, SeqNarrows
<1> QED BY <1>2, <1>3, <1>4

-----------------------------------------------------------------------------
LEMMA RowidInit == ASSUME Init PROVE RowidInv
<1>1. <<>> \in Seq(Rows) /\ <<>> \in Seq(Rowids) /\ Len(<<>>) = 0
  OBVIOUS
<1>2. 0 \in 0..MaxCommands
  BY ViewStoreAssumption
<1> QED BY <1>1, <1>2 DEF Init, NoCommand, RowidInv

LEMMA RowidBegin ==
  ASSUME BuildTypes, RowidInv, NEW mode \in {"random", "keys", "stream"}, NEW list \in Lists,
         NEW n \in 0..MaxGrams, NEW slot \in Slots, Begin(mode, list, n, slot)
  PROVE  RowidInv'
<1>1. /\ UNCHANGED <<view, keysFile, manifest, index>>
      /\ commands < MaxCommands /\ commands' = commands + 1
  BY DEF Begin
<1>2. commands' \in 0..MaxCommands
  BY <1>1, ViewStoreAssumption DEF RowidInv
<1>3. CASE Refused(mode, list, n)
  BY <1>1, <1>2, <1>3 DEF Begin, RowidInv
<1>4. CASE ~ Refused(mode, list, n)
  <2>1. PICK k \in Seq(Int) : k = Taken(mode, list, n)
    BY <1>4, TakenIs
  <2>2. ASSUME NEW p \in 1..Len(k) PROVE k[p] \in Rowids \cup {Bad}
    <3>1. list \in Seq(Int) /\ \A q \in 1..Len(list) : list[q] \in Rowids \cup {Bad}
      BY RowidsAre
    <3>2. CASE mode = "stream"
      BY <2>1, <3>1, <3>2 DEF Taken
    <3>3. CASE mode # "stream"
      <4>1. PICK m \in Nat : m = n * Heads
        BY ConstantsAre DEF MaxGrams
      <4>2. m <= Len(list)
        BY <1>4, <3>3, <4>1, <3>1, LenProperties DEF Refused
      <4>3. k = SubSeq(list, 0 + 1, 0 + m) /\ 0 + m <= Len(list) /\ 0 \in Nat
        BY <2>1, <3>3, <4>1, <4>2 DEF Taken
      <4>4. Len(k) = m /\ \A i \in 1..m : k[i] = list[0 + i]
        BY <3>1, <4>3, SliceInt
      <4>5. p \in 1..Len(list) /\ k[p] = list[p]
        BY <3>1, <4>2, <4>4, LenProperties
      <4> QED BY <3>1, <4>5
    <3> QED BY <3>2, <3>3
  <2>3. PICK pc \in {"keys1", "view1"} :
          cmd' = [NoCommand EXCEPT !.pc = pc, !.mode = mode, !.slot = slot, !.keys = k]
    BY <1>4, <2>1 DEF Begin
  <2>4. cmd'.keys = k /\ cmd'.at = 0 /\ cmd'.rows = <<>> /\ cmd'.lines = <<>> /\ cmd'.slot = slot
    BY <2>3 DEF NoCommand
  <2>5. <<>> \in Seq(Rows) /\ <<>> \in Seq(Rowids) /\ 0 <= Len(k)
    BY LenProperties
  <2> QED BY <1>1, <1>2, <2>2, <2>4, <2>5 DEF RowidInv
<1> QED BY <1>3, <1>4

\* A step that leaves the command's data alone, or drops it.
Keeps(c, d) ==
  /\ d.rows = c.rows /\ d.lines = c.lines /\ d.keys = c.keys /\ d.at = c.at /\ d.slot = c.slot

LEMMA RowidWrite ==
  ASSUME BuildTypes, RowidInv, Write
  PROVE  RowidInv'
<1>1. commands' = commands
  BY WriteLeaves
<1>2. cmd \in Command /\ cmd.slot \in Widths /\ <<>> \in Seq(Rows) /\ <<>> \in Seq(Rowids)
  BY DEF BuildTypes, Command
<1>3. CASE TruncateView \/ TruncateKeys \/ EndOfKeys \/ FlushView \/ FinishIndex
  <2>1. PICK pc : cmd' = [cmd EXCEPT !.pc = pc]
    BY <1>3 DEF TruncateView, TruncateKeys, EndOfKeys, FlushView, FinishIndex, Goto
  <2>2. Keeps(cmd, cmd') /\ cmd.pc # "idle"
    BY <1>2, <1>3, <2>1 DEF Command, Keeps, TruncateView, TruncateKeys, EndOfKeys, FlushView, FinishIndex, At
  <2>3. /\ view' = view \/ view' = <<>>
        /\ keysFile' = keysFile \/ keysFile' = <<>>
        /\ UNCHANGED <<manifest, index>>
    BY <1>3 DEF TruncateView, TruncateKeys, EndOfKeys, FlushView, FinishIndex
  <2> QED BY <1>1, <1>2, <2>2, <2>3 DEF RowidInv, Keeps
<1>4. CASE CreateManifest \/ WriteManifest
  <2>1. PICK pc : cmd' = [cmd EXCEPT !.pc = pc]
    BY <1>4 DEF CreateManifest, WriteManifest, Goto
  <2>2. Keeps(cmd, cmd') /\ cmd.pc # "idle"
    BY <1>2, <1>4, <2>1 DEF Command, Keeps, CreateManifest, WriteManifest
  <2>3. manifest'.state = "torn" \/ manifest'.slot = cmd.slot
    BY <1>4 DEF CreateManifest, WriteManifest
  <2>4. UNCHANGED <<view, keysFile, index>>
    BY <1>4 DEF CreateManifest, WriteManifest
  <2> QED BY <1>1, <2>2, <2>3, <2>4 DEF RowidInv, Keeps
<1>5. CASE WriteChunk
  <2>1. PICK c \in Seq(Rowids) : c = Chunk /\ cmd.at + Len(c) <= Len(cmd.keys)
    BY <1>5, ChunkWithin DEF WriteChunk
  <2>2. PICK s \in Seq(Rows) : s = SlotsOf(c, cmd.slot)
    BY <1>2, SlotsWithin
  <2>7. PICK l, r, a : l = cmd.lines \o c /\ r = cmd.rows \o s /\ a = cmd.at + Len(c)
    OBVIOUS
  <2>3. /\ l \in Seq(Rowids) /\ r \in Seq(Rows)
        /\ l = cmd.lines \o c /\ r = cmd.rows \o s /\ a = cmd.at + Len(c)
    <3>1. cmd.lines \in Seq(Rowids) /\ cmd.rows \in Seq(Rows)
      BY DEF RowidInv
    <3> QED BY <2>7, <3>1
  <2>4. cmd' = [cmd EXCEPT !.at = a, !.lines = l, !.rows = r]
    BY <1>5, <2>1, <2>2, <2>3 DEF WriteChunk
  <2>5. /\ cmd'.rows = r /\ cmd'.lines = l /\ cmd'.keys = cmd.keys /\ cmd'.at = a /\ cmd'.slot = cmd.slot
        /\ cmd'.pc = cmd.pc
    BY <1>2, <2>4 DEF Command
  <2>6. UNCHANGED <<view, keysFile, manifest, index>>
    BY <1>5 DEF WriteChunk
  <2> QED BY <1>1, <2>1, <2>3, <2>5, <2>6 DEF RowidInv
<1>6. CASE SpillView
  <2>1. view' = view \o cmd.rows /\ cmd' = [cmd EXCEPT !.rows = <<>>]
        /\ UNCHANGED <<keysFile, manifest, index>>
    BY <1>6 DEF SpillView
  <2>2. view' \in Seq(Rows)
    BY <2>1 DEF RowidInv
  <2>3. /\ cmd'.rows = <<>> /\ cmd'.lines = cmd.lines /\ cmd'.keys = cmd.keys /\ cmd'.at = cmd.at
        /\ cmd'.slot = cmd.slot /\ cmd'.pc = cmd.pc
    BY <1>2, <2>1 DEF Command
  <2> QED BY <1>1, <1>2, <2>1, <2>2, <2>3 DEF RowidInv
<1>7. CASE SpillKeys
  <2>1. keysFile' = keysFile \o cmd.lines /\ cmd' = [cmd EXCEPT !.lines = <<>>]
        /\ UNCHANGED <<view, manifest, index>>
    BY <1>7 DEF SpillKeys
  <2>2. keysFile' \in Seq(Rowids)
    BY <2>1 DEF RowidInv
  <2>3. /\ cmd'.rows = cmd.rows /\ cmd'.lines = <<>> /\ cmd'.keys = cmd.keys /\ cmd'.at = cmd.at
        /\ cmd'.slot = cmd.slot /\ cmd'.pc = cmd.pc
    BY <1>2, <2>1 DEF Command
  <2> QED BY <1>1, <1>2, <2>1, <2>2, <2>3 DEF RowidInv
<1>8. CASE \E withIndex \in BOOLEAN : CloseKeys(withIndex)
  <2>1. PICK withIndex \in BOOLEAN : CloseKeys(withIndex)
    BY <1>8
  <2>2. PICK pc, todo : /\ keysFile' = keysFile \o cmd.lines
                        /\ cmd' = [cmd EXCEPT !.lines = <<>>, !.withIndex = withIndex, !.pc = pc, !.todo = todo]
    BY <2>1, Zenon DEF CloseKeys
  <2>3. keysFile' \in Seq(Rowids)
    BY <2>2 DEF RowidInv
  <2>4. /\ cmd'.rows = cmd.rows /\ cmd'.lines = <<>> /\ cmd'.keys = cmd.keys /\ cmd'.at = cmd.at
        /\ cmd'.slot = cmd.slot
    BY <1>2, <2>2 DEF Command
  <2>5. cmd.pc # "idle" /\ UNCHANGED <<view, manifest, index>>
    BY <2>1 DEF CloseKeys, At
  <2> QED BY <1>1, <1>2, <2>3, <2>4, <2>5 DEF RowidInv
<1>9. CASE \E g \in cmd.todo : IndexGram(g)
  <2>1. PICK g \in cmd.todo : IndexGram(g)
    BY <1>9
  <2>2. /\ index' = {r \in index : r[1] # g} \cup {r \in IndexOf(keysFile) : r[1] = g}
        /\ cmd' = [cmd EXCEPT !.todo = @ \ {g}] /\ UNCHANGED <<view, keysFile, manifest>>
    BY <2>1 DEF IndexGram
  <2>3. Keeps(cmd, cmd') /\ cmd'.pc = cmd.pc
    BY <1>2, <2>2 DEF Command, Keeps
  <2>4. ASSUME NEW r \in index' PROVE r[1] \in [1..Heads -> Rowids]
    <3>1. r \in index \/ r \in IndexOf(keysFile)
      BY <2>2
    <3>2. keysFile \in Seq(Rowids) /\ \A q \in index : q[1] \in [1..Heads -> Rowids]
      BY DEF RowidInv
    <3> QED BY <3>1, <3>2, GramsWithin
  <2> QED BY <1>1, <2>2, <2>3, <2>4 DEF RowidInv, Keeps
<1>10. CASE \E check \in BOOLEAN : EndBuild(check)
  <2>1. PICK check \in BOOLEAN : EndBuild(check)
    BY <1>10
  <2>2. PICK b : cmd' = [NoCommand EXCEPT !.complete = b, !.keys = cmd.keys, !.slot = cmd.slot,
                                          !.withIndex = cmd.withIndex]
    BY <2>1, Zenon DEF EndBuild
  <2>3. /\ cmd'.rows = <<>> /\ cmd'.lines = <<>> /\ cmd'.keys = cmd.keys /\ cmd'.at = 0
        /\ cmd'.pc = "idle"
    BY <2>2 DEF NoCommand
  <2>4. UNCHANGED <<view, keysFile, manifest, index>>
    BY <2>1 DEF EndBuild
  <2>5. 0 <= Len(cmd.keys)
    BY LenProperties DEF BuildTypes, Command
  <2> QED BY <1>1, <1>2, <2>3, <2>4, <2>5 DEF RowidInv
<1>11. CASE RejectStream \/ \E flushed \in BOOLEAN : Stop(flushed)
  <2>1. PICK flushed \in BOOLEAN : Abort(flushed)
    BY <1>11 DEF RejectStream, Stop
  <2>2. /\ view' = view \o cmd.rows \/ view' = view
        /\ keysFile' = keysFile \o cmd.lines \/ keysFile' = keysFile
        /\ cmd' = NoCommand /\ UNCHANGED <<manifest, index>>
    BY <2>1 DEF Abort
  <2>3. view' \in Seq(Rows) /\ keysFile' \in Seq(Rowids)
    <3>1. /\ view \in Seq(Rows) /\ keysFile \in Seq(Rowids)
          /\ cmd.lines \in Seq(Rowids) /\ cmd.rows \in Seq(Rows)
      BY DEF RowidInv
    <3>2. view \o cmd.rows \in Seq(Rows) /\ keysFile \o cmd.lines \in Seq(Rowids)
      BY <3>1
    <3> QED BY <2>2, <3>1, <3>2
  <2>4. /\ cmd'.rows = <<>> /\ cmd'.lines = <<>> /\ cmd'.keys = <<>> /\ cmd'.at = 0
        /\ cmd'.pc = "idle" /\ Len(<<>>) = 0
    BY <2>2 DEF NoCommand
  <2> QED BY <1>1, <1>2, <2>2, <2>3, <2>4 DEF RowidInv
<1> QED BY <1>3, <1>4, <1>5, <1>6, <1>7, <1>8, <1>9, <1>10, <1>11 DEF Write

-----------------------------------------------------------------------------
\* ViewStore's files, commands and readers hold what they should.
LEMMA ViewTyped == Spec => []TypeOK
<1>1. Init => RowidInv
  BY RowidInit
<1>2. ViewInv /\ RowidInv /\ [Next]_vars => RowidInv'
  <2> SUFFICES ASSUME ViewInv, RowidInv, [Next]_vars PROVE RowidInv'
    OBVIOUS
  <2>1. BuildTypes
    BY DEF ViewInv
  <2>2. CASE UNCHANGED vars
    BY <2>2 DEF vars, RowidInv
  <2>3. CASE \E mode \in {"random", "keys", "stream"}, list \in Lists, n \in 0..MaxGrams,
                slot \in Slots : Begin(mode, list, n, slot)
    BY <2>1, <2>3, RowidBegin
  <2>4. CASE Write
    BY <2>1, <2>4, RowidWrite
  <2>5. CASE Read \/ \E withIndex \in BOOLEAN : Verify(withIndex)
    <3>1. UNCHANGED <<view, keysFile, manifest, index, cmd, commands>>
      BY <2>5 DEF Read, LoadIndex, OpenManifest, OpenView, Ask, ReadRecord, Answered, Close, Verify
    <3> QED BY <3>1 DEF RowidInv
  <2> QED BY <2>2, <2>3, <2>4, <2>5, StepKinds
<1>3. ViewInv /\ RowidInv => TypeOK
  <2> SUFFICES ASSUME ViewInv, RowidInv PROVE TypeOK
    OBVIOUS
  <2>1. /\ BuildTypes /\ ReadTypes
    BY DEF ViewInv
  <2>2. cmd.at \in 0..Len(cmd.keys) /\ cmd.complete \in BOOLEAN
    BY <2>1, LenProperties DEF BuildTypes, Command, RowidInv
  <2>3. reader.count \in Nat /\ fetch.state \in {"none", "reading", "ok", "error"}
    BY <2>1 DEF ReadTypes, Reader, Fetch
  <2>4. \A r \in index : r[2] \in Nat
    BY <2>1 DEF BuildTypes, Entries
  <2>5. manifest.state = "ok" => manifest.grans \in Nat
    BY <2>1 DEF BuildTypes
  <2> QED BY <2>2, <2>3, <2>4, <2>5 DEF TypeOK, RowidInv, Rows
<1> QED BY <1>1, <1>2, <1>3, ViewAlways, PTL DEF Spec

-----------------------------------------------------------------------------
\* A build works on its buckets.
KnownInv ==
  /\ DOMAIN buckets \subseteq BucketIds
  /\ build.pc # "idle" => build.nb \in BucketCounts
  /\ build.next \in 0..build.nb
  /\ indexVerdict.ok \in BOOLEAN
  /\ builds \in 0..MaxBuilds

LEMMA KnownBegin ==
  ASSUME IndexTypes, KnownInv, NEW f \in KeyFiles, NEW format \in Formats, NEW hash \in Hashes,
         NEW nb \in BucketCounts, BeginIndex(f, format, hash, nb)
  PROVE  KnownInv'
<1>1. buckets' = buckets /\ builds < MaxBuilds /\ builds' = builds + 1
  BY DEF BeginIndex
<1>2. builds' \in 0..MaxBuilds
  BY <1>1, SlotIndexAssumption DEF KnownInv
<1>3. CASE f.whole
  <2>1. PICK pc : build' = [Idle EXCEPT !.file = f, !.format = format, !.hash = hash, !.nb = nb, !.pc = pc]
    BY <1>3 DEF BeginIndex
  <2>2. build'.nb = nb /\ build'.next = 0 /\ nb \in Nat
    BY <2>1, SlotIndexAssumption DEF Idle
  <2>3. indexVerdict' = IndexNotVerified
    BY <1>3 DEF BeginIndex
  <2> QED BY <1>1, <1>2, <2>2, <2>3 DEF KnownInv, IndexNotVerified
<1>4. CASE ~f.whole
  BY <1>1, <1>2, <1>4 DEF BeginIndex, KnownInv
<1> QED BY <1>3, <1>4

\* The steps of a build.
Builds ==
  \/ CreateData \/ SkipBucket \/ CreateBucket \/ FillBucket \/ AppendBucket \/ Spill
  \/ BucketsDone \/ CreateOffsets \/ WriteOffsets \/ CreateMeta \/ Finish
  \/ StopIndex

LEMMA KnownBuilds ==
  ASSUME IndexTypes, IndexBuildInv, KnownInv, Builds
  PROVE  KnownInv'
<1>1. /\ BuildQuiet /\ build.pc # "idle" /\ build \in Building
      /\ build.nb \in BucketCounts /\ build.nb \in Nat \ {0} /\ build.next \in 0..build.nb
  BY DEF Builds, CreateData, SkipBucket, CreateBucket, FillBucket, AppendBucket, Spill, BucketsDone,
         CreateOffsets, WriteOffsets, CreateMeta, Finish, StopIndex, BuildAt, KnownInv, IndexTypes, Building
<1>2. UNCHANGED <<given, builds, indexVerdict>>
  BY <1>1 DEF BuildQuiet
<1>3. CASE CreateBucket \/ FillBucket \/ (StopIndex /\ BuildAt("fill"))
  <2>1. build.next < build.nb /\ build.next \in Nat
    <3>1. CreateBucket => build.next < build.nb
      BY DEF CreateBucket
    <3>2. BuildAt("fill") => build.next < build.nb
      BY DEF IndexBuildInv, Progress, BuildAt
    <3>3. FillBucket => BuildAt("fill")
      BY DEF FillBucket
    <3> QED BY <1>1, <1>3, <3>1, <3>2, <3>3
  <2>2. build.next \in BucketIds
    <3>1. build.next \in 0..(build.nb - 1)
      BY <1>1, <2>1
    <3> QED BY <1>1, <3>1, Zenon DEF BucketIds
  <2>3. DOMAIN buckets' = DOMAIN buckets \cup {build.next}
    BY <1>3 DEF CreateBucket, FillBucket, StopIndex, PutBucket
  <2>4. build'.nb = build.nb /\ build'.next \in {build.next, build.next + 1}
    BY <1>1, <1>3 DEF CreateBucket, FillBucket, StopIndex, BuildGoto, Building
  <2> QED BY <1>1, <1>2, <2>1, <2>2, <2>3, <2>4 DEF KnownInv
<1>4. CASE SkipBucket \/ AppendBucket
  <2>1. build'.nb = build.nb /\ build'.next = build.next + 1 /\ build.next < build.nb /\ buckets' = buckets
    BY <1>1, <1>4 DEF SkipBucket, AppendBucket, Building
  <2> QED BY <1>1, <1>2, <2>1 DEF KnownInv
<1>5. CASE \/ CreateData \/ Spill \/ BucketsDone \/ CreateOffsets \/ WriteOffsets \/ CreateMeta \/ Finish
           \/ (StopIndex /\ ~BuildAt("fill"))
  <2>1. build'.nb = build.nb /\ build'.next = build.next /\ buckets' = buckets
    BY <1>1, <1>5 DEF CreateData, Spill, BucketsDone, CreateOffsets, WriteOffsets, CreateMeta, Finish,
         StopIndex, BuildGoto, Building
  <2> QED BY <1>1, <1>2, <2>1 DEF KnownInv
<1> QED BY <1>3, <1>4, <1>5 DEF Builds

\* SlotIndex's files, builds and readers hold what they should.
LEMMA IndexTyped == IndexSpec => []IndexTypeOK
<1>1. IndexInit => KnownInv
  <2> SUFFICES ASSUME IndexInit PROVE KnownInv
    OBVIOUS
  <2>1. build = Idle /\ Idle.pc = "idle" /\ Idle.next = 0 /\ Idle.nb = 1 /\ buckets = <<>> /\ given = {}
        /\ indexVerdict = IndexNotVerified /\ builds = 0
    BY DEF IndexInit, Idle
  <2>2. DOMAIN <<>> = {} /\ 0 \in 0..MaxBuilds
    BY SlotIndexAssumption
  <2> QED BY <2>1, <2>2 DEF KnownInv, IndexNotVerified
<1>2. IndexInv /\ KnownInv /\ [IndexNext]_indexVars => KnownInv'
  <2> SUFFICES ASSUME IndexInv, KnownInv, [IndexNext]_indexVars PROVE KnownInv'
    OBVIOUS
  <2>1. IndexTypes /\ IndexBuildInv
    BY DEF IndexInv, LookupInv
  <2>2. CASE UNCHANGED indexVars
    BY <2>2 DEF indexVars, KnownInv
  <2>3. CASE \E f \in KeyFiles, format \in {"v1", "v2", "v3"}, hash \in Hashes, nb \in BucketCounts :
               BeginIndex(f, format, hash, nb)
    BY <2>1, <2>3, KnownBegin DEF Formats
  <2>4. CASE Builds
    BY <2>1, <2>4, KnownBuilds
  <2>5. CASE Open \/ (\E g \in Grams : Lookup(g)) \/ CloseIndex
    <3>1. UNCHANGED <<buckets, build, given, builds, indexVerdict>>
      BY <2>5 DEF Open, Lookup, CloseIndex
    <3> QED BY <3>1 DEF KnownInv
  <2>6. CASE \E f \in KeyFiles : VerifyIndex(f)
    <3>1. UNCHANGED <<buckets, build, given, builds>> /\ indexVerdict'.ok \in BOOLEAN
      BY <2>6 DEF VerifyIndex, Verified
    <3> QED BY <3>1 DEF KnownInv
  <2> QED BY <2>2, <2>3, <2>4, <2>5, <2>6 DEF IndexNext, Builds
<1>3. IndexInv /\ KnownInv => IndexTypeOK
  <2> SUFFICES ASSUME IndexInv, KnownInv PROVE IndexTypeOK
    OBVIOUS
  <2>1. IndexTypes /\ GivenInv
    BY DEF IndexInv, LookupInv
  <2>3. data \in Seq(Pieces) /\ \A b \in DOMAIN buckets : buckets[b] \in Seq(Pieces)
    BY <2>1 DEF GivenInv, Given
  <2>4. build.complete \in BOOLEAN /\ indexReader.open \in BOOLEAN /\ found.slot \in Nat \cup {Missing}
    BY <2>1 DEF IndexTypes, Building, IndexReading, Finding
  <2> QED BY <2>3, <2>4 DEF IndexTypeOK, KnownInv
<1> QED BY <1>1, <1>2, <1>3, IndexAlways, PTL DEF IndexSpec

\* In a behaviour of MCStoreP each part takes its own steps.
LEMMA StorePParts == StorePSpec => Spec /\ IndexSpec
<1>1. StorePInit => Init /\ IndexInit
  BY DEF StorePInit
<1>2. [StorePNext]_<<part, vars, indexVars>> => [Next]_vars /\ [IndexNext]_indexVars
  BY DEF StorePNext
<1> QED BY <1>1, <1>2, PTL DEF StorePSpec, Spec, IndexSpec

\* The files of views and indexes hold rows and records of what the commands were given
\* (view.rs 153-233, slot_index.rs 99-214), whatever is truncated, written or refused.
THEOREM StorePTyped == StorePSpec => []StorePTypeOK
<1>1. TypeOK /\ IndexTypeOK => StorePTypeOK
  BY DEF StorePTypeOK
<1> QED BY <1>1, StorePParts, ViewTyped, IndexTyped, PTL
=============================================================================
