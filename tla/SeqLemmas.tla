------------------------------ MODULE SeqLemmas ------------------------------
(***************************************************************************)
(* What several proofs need of sequences: sequences without repetitions    *)
(* (the keys of a dictionary), sequences of sequences, blocks of one size, *)
(* and the elements of a set in order.                                     *)
(***************************************************************************)
EXTENDS Sorting, Integers, SequencesExt, FiniteSetTheorems, SequenceTheorems,
        WellFoundedInduction, TLAPS

NoRepeats(s) == \A i, j \in 1..Len(s) : i # j => s[i] # s[j]

-----------------------------------------------------------------------------
(* Sequences.                                                              *)

\* A function on 1..n is a sequence.
LEMMA FunIsSeq ==
  ASSUME NEW S, NEW n \in Nat, NEW r \in [1..n -> S]
  PROVE  r \in Seq(S) /\ Len(r) = n
<1>1. r \in Seq(S)
  OBVIOUS
<1>2. DOMAIN r = 1..n /\ DOMAIN r = 1..Len(r) /\ Len(r) \in Nat
  BY <1>1, LenProperties
<1> QED BY <1>1, <1>2

LEMMA SetOfSeq ==
  ASSUME NEW S, NEW s \in Seq(S)
  PROVE  /\ ToSet(s) = {s[i] : i \in 1..Len(s)}
         /\ ToSet(s) \subseteq S
         /\ \A i \in 1..Len(s) : s[i] \in ToSet(s)
BY LenProperties DEF ToSet

LEMMA NonEmpty == ASSUME NEW S, NEW s \in Seq(S) PROVE s # <<>> <=> Len(s) # 0
BY EmptySeq

\* A non-empty sequence is its head and its tail.
LEMMA HeadOrTail ==
  ASSUME NEW S, NEW s \in Seq(S), s # <<>>
  PROVE  /\ Tail(s) \in Seq(S) /\ Head(s) \in ToSet(s) /\ Len(s) \in Nat
         /\ ToSet(s) = {Head(s)} \cup ToSet(Tail(s))
         /\ Len(s) = 1 => ToSet(Tail(s)) = {}
         /\ Len(s) # 1 => Tail(s) # <<>>
<1> DEFINE t == Tail(s)
<1>1. /\ Len(s) \in Nat /\ Len(s) >= 1 /\ t \in Seq(S) /\ Len(t) = Len(s) - 1
      /\ Head(s) = s[1] /\ \A i \in 1..Len(t) : t[i] = s[i + 1]
  BY HeadTailProperties, LenProperties, NonEmpty
<1> HIDE DEF t
<1>2. ToSet(s) = {s[i] : i \in 1..Len(s)} /\ ToSet(t) = {t[i] : i \in 1..Len(t)}
  BY <1>1, SetOfSeq
<1>3. 1 \in 1..Len(s) /\ \A i \in 1..Len(t) : i + 1 \in 1..Len(s)
  BY <1>1
<1>4. ASSUME NEW i \in 1..Len(s) PROVE s[i] \in {Head(s)} \cup ToSet(t)
  <2>1. CASE i = 1
    BY <1>1, <2>1
  <2>2. CASE i # 1
    <3>1. i - 1 \in 1..Len(t) /\ i - 1 + 1 = i
      BY <1>1, <2>2
    <3>2. t[i - 1] = s[i]
      BY <1>1, <3>1
    <3> QED BY <1>2, <3>1, <3>2
  <2> QED BY <2>1, <2>2
<1>5. ToSet(s) = {Head(s)} \cup ToSet(t)
  BY <1>1, <1>2, <1>3, <1>4
<1>6. Len(s) = 1 => ToSet(t) = {}
  <2>1. Len(s) = 1 => 1..Len(t) = {}
    BY <1>1
  <2> QED BY <1>2, <2>1
<1>7. Len(s) # 1 => t # <<>>
  <2>1. Len(s) # 1 => Len(t) # 0
    BY <1>1
  <2> QED BY <1>1, <2>1, NonEmpty
<1> QED BY <1>1, <1>2, <1>3, <1>5, <1>6, <1>7 DEF t

\* A sequence without repetitions is as long as it has elements.
LEMMA DistinctCard ==
  ASSUME NEW S, NEW s \in Seq(S), NoRepeats(s)
  PROVE  IsFiniteSet(ToSet(s)) /\ Cardinality(ToSet(s)) = Len(s)
<1>1. s \in [1..Len(s) -> S] /\ Len(s) \in Nat /\ DOMAIN s = 1..Len(s)
  BY LenProperties
<1>2. s \in Bijection(1..Len(s), ToSet(s))
  BY <1>1 DEF Bijection, Injection, Surjection, ToSet, IsInjective, NoRepeats
<1>3. ExistsBijection(1..Len(s), ToSet(s))
  BY <1>2 DEF ExistsBijection
<1>4. IsFiniteSet(1..Len(s)) /\ Cardinality(1..Len(s)) = Len(s)
  <2>1. Len(s) \in Int /\ 1 \in Int
    BY <1>1
  <2>2. /\ IsFiniteSet(1..Len(s))
        /\ Cardinality(1..Len(s)) = IF 1 > Len(s) THEN 0 ELSE Len(s) - 1 + 1
    BY <2>1, FS_Interval
  <2> QED BY <1>1, <2>2
<1> QED BY <1>3, <1>4, FS_Bijection

\* Taking out an element that occurs once: those after it move up.
LEMMA RemovedAt ==
  ASSUME NEW S, NEW s \in Seq(S), NoRepeats(s), NEW e \in ToSet(s)
  PROVE  \E k \in 1..Len(s) :
           /\ s[k] = e
           /\ RemoveFirst(s, e) \in Seq(S) /\ Len(RemoveFirst(s, e)) = Len(s) - 1
           /\ \A i \in 1..(Len(s) - 1) :
                RemoveFirst(s, e)[i] = IF i < k THEN s[i] ELSE s[i + 1]
<1> DEFINE k == SelectInSeq(s, LAMBDA v : v = e)
           r == RemoveAt(s, k)
<1>1. Len(s) \in Nat /\ ToSet(s) = {s[i] : i \in 1..Len(s)}
  BY SetOfSeq, LenProperties
<1>2. \E i \in 1..Len(s) : s[i] = e
  BY <1>1
<1>3. k \in 1..Len(s) /\ s[k] = e
  <2> DEFINE places == {i \in 1..Len(s) : s[i] = e}
  <2>1. PICK m \in 1..Len(s) : s[m] = e
    BY <1>2
  <2>2. \A i \in 1..Len(s) : s[i] = e => i = m
    BY <2>1 DEF NoRepeats
  <2>3. places = {m} /\ m \in Int
    BY <1>1, <2>1, <2>2
  <2>4. k = Min(places)
    BY <2>3 DEF SelectInSeq
  <2> HIDE DEF places, k
  <2>5. k = m
    BY <2>3, <2>4 DEF Min
  <2> QED BY <2>1, <2>5
<1>4. RemoveFirst(s, e) = r
  BY <1>2 DEF RemoveFirst
<1> HIDE DEF k
<1> DEFINE before == SubSeq(s, 1, k - 1)
           after  == SubSeq(s, k + 1, Len(s))
<1>5. /\ before \in Seq(S) /\ Len(before) = k - 1
      /\ \A i \in 1..(k - 1) : before[i] = s[i]
  <2>1. \A i \in 1..(k - 1) : s[i] \in S
    BY <1>1, <1>3
  <2>2. /\ before \in Seq(S) /\ Len(before) = IF 1 <= k - 1 THEN k - 1 - 1 + 1 ELSE 0
        /\ \A i \in 1..(k - 1 - 1 + 1) : before[i] = s[1 + i - 1]
    BY <1>1, <1>3, <2>1, SubSeqProperties
  <2> HIDE DEF before
  <2> QED BY <1>1, <1>3, <2>2
<1>6. /\ after \in Seq(S) /\ Len(after) = Len(s) - k
      /\ \A i \in 1..(Len(s) - k) : after[i] = s[k + i]
  <2>1. \A i \in (k + 1)..Len(s) : s[i] \in S
    BY <1>1, <1>3
  <2>2. /\ after \in Seq(S)
        /\ Len(after) = IF k + 1 <= Len(s) THEN Len(s) - (k + 1) + 1 ELSE 0
        /\ \A i \in 1..(Len(s) - (k + 1) + 1) : after[i] = s[k + 1 + i - 1]
    BY <1>1, <1>3, <2>1, SubSeqProperties
  <2> HIDE DEF after
  <2> QED BY <1>1, <1>3, <2>2
<1>7. r = before \o after
  BY DEF RemoveAt
<1> HIDE DEF before, after, r
<1>8. /\ r \in Seq(S) /\ Len(r) = Len(s) - 1
      /\ \A i \in 1..Len(r) : r[i] = IF i < k THEN s[i] ELSE s[i + 1]
  <2>1. /\ r \in Seq(S) /\ Len(r) = Len(before) + Len(after)
        /\ \A i \in 1..(Len(before) + Len(after)) :
             r[i] = IF i <= Len(before) THEN before[i] ELSE after[i - Len(before)]
    BY <1>5, <1>6, <1>7, ConcatProperties
  <2>2. Len(r) = Len(s) - 1
    BY <1>1, <1>3, <1>5, <1>6, <2>1
  <2>3. ASSUME NEW i \in 1..Len(r) PROVE r[i] = IF i < k THEN s[i] ELSE s[i + 1]
    <3>1. CASE i < k
      BY <1>1, <1>3, <1>5, <1>6, <2>1, <2>2, <3>1
    <3>2. CASE ~(i < k)
      <4>1. i - (k - 1) \in 1..(Len(s) - k) /\ k + (i - (k - 1)) = i + 1
        BY <1>1, <1>3, <2>2, <3>2
      <4>2. r[i] = after[i - (k - 1)]
        BY <1>1, <1>3, <1>5, <1>6, <2>1, <2>2, <3>2
      <4> QED BY <1>6, <3>2, <4>1, <4>2
    <3> QED BY <3>1, <3>2
  <2> QED BY <2>1, <2>2, <2>3
<1> QED BY <1>1, <1>3, <1>4, <1>8

LEMMA RemoveOnce ==
  ASSUME NEW S, NEW s \in Seq(S), NoRepeats(s), NEW e \in ToSet(s)
  PROVE  /\ RemoveFirst(s, e) \in Seq(S)
         /\ ToSet(RemoveFirst(s, e)) = ToSet(s) \ {e}
         /\ NoRepeats(RemoveFirst(s, e))
<1> DEFINE r == RemoveFirst(s, e)
<1>1. Len(s) \in Nat /\ ToSet(s) = {s[i] : i \in 1..Len(s)}
  BY SetOfSeq, LenProperties
<1>3. PICK k \in 1..Len(s) :
        /\ s[k] = e
        /\ r \in Seq(S) /\ Len(r) = Len(s) - 1
        /\ \A i \in 1..(Len(s) - 1) : r[i] = IF i < k THEN s[i] ELSE s[i + 1]
  BY RemovedAt
<1>8. /\ r \in Seq(S) /\ Len(r) = Len(s) - 1
      /\ \A i \in 1..Len(r) : r[i] = IF i < k THEN s[i] ELSE s[i + 1]
  BY <1>1, <1>3
<1> HIDE DEF r
<1>9. NoRepeats(r)
  <2> SUFFICES ASSUME NEW i \in 1..Len(r), NEW j \in 1..Len(r), i # j PROVE r[i] # r[j]
    BY DEF NoRepeats
  <2> DEFINE at(n) == IF n < k THEN n ELSE n + 1
  <2>1. at(i) \in 1..Len(s) /\ at(j) \in 1..Len(s) /\ at(i) # at(j)
    BY <1>1, <1>3, <1>8
  <2>2. r[i] = s[at(i)] /\ r[j] = s[at(j)]
    BY <1>8
  <2> HIDE DEF at
  <2> QED BY <2>1, <2>2 DEF NoRepeats
<1>10. ToSet(r) = ToSet(s) \ {e}
  <2>1. ToSet(r) = {r[i] : i \in 1..Len(r)}
    BY <1>8, SetOfSeq
  <2>2. ASSUME NEW i \in 1..Len(r) PROVE r[i] \in ToSet(s) \ {e}
    <3>1. CASE i < k
      <4>1. i \in 1..Len(s) /\ i # k /\ r[i] = s[i]
        BY <1>1, <1>3, <1>8, <3>1
      <4> QED BY <1>1, <1>3, <4>1 DEF NoRepeats
    <3>2. CASE ~(i < k)
      <4>1. i + 1 \in 1..Len(s) /\ i + 1 # k /\ r[i] = s[i + 1]
        BY <1>1, <1>3, <1>8, <3>2
      <4> QED BY <1>1, <1>3, <4>1 DEF NoRepeats
    <3> QED BY <3>1, <3>2
  <2>3. ASSUME NEW i \in 1..Len(s), s[i] # e PROVE s[i] \in ToSet(r)
    <3>1. CASE i < k
      <4>1. i \in 1..Len(r) /\ r[i] = s[i]
        BY <1>1, <1>3, <1>8, <3>1
      <4> QED BY <2>1, <4>1
    <3>2. CASE i > k
      <4>1. i - 1 \in 1..Len(r) /\ ~(i - 1 < k) /\ i - 1 + 1 = i
        BY <1>1, <1>3, <1>8, <3>2
      <4>2. r[i - 1] = s[i]
        BY <1>8, <4>1
      <4> QED BY <2>1, <4>1, <4>2
    <3> QED BY <1>1, <1>3, <2>3, <3>1, <3>2
  <2> QED BY <1>1, <2>1, <2>2, <2>3
<1> QED BY <1>8, <1>9, <1>10 DEF r

-----------------------------------------------------------------------------
(* Contexts.                                                               *)

\* A non-empty set of naturals has a least element.
LEMMA LeastNat ==
  ASSUME NEW T \in SUBSET Nat, T # {}
  PROVE  \E m \in T : \A n \in T : m <= n
<1>1. PICK m \in T : \A n \in T : ~ (<<n, m>> \in OpToRel(<, Nat))
  BY NatLessThanWellFounded, WFMin
<1>2. ASSUME NEW n \in T PROVE m <= n
  <2>1. m \in Nat /\ n \in Nat
    OBVIOUS
  <2>2. ~ (n < m)
    BY <1>1, <2>1 DEF OpToRel
  <2> QED BY <2>1, <2>2
<1> QED BY <1>2

-----------------------------------------------------------------------------
(* Sequences of sequences.                                                 *)

\* The flattening is built up from the left.
LEMMA FlattenUnfold ==
  ASSUME NEW S, NEW s \in Seq(Seq(S)), Len(s) # 0
  PROVE  \E f \in [1..Len(s) -> Seq(S)] :
           /\ FlattenSeq(s) = f[Len(s)]
           /\ f[1] = s[1] /\ \A i \in 2..Len(s) : f[i] = f[i - 1] \o s[i]
<1> DEFINE step(f, i) == IF i = 1 THEN s[i] ELSE f[i - 1] \o s[i]
           flat == CHOOSE f : f = [i \in 1..Len(s) |-> step(f, i)]
           Upto(n) == {f \in [1..n -> Seq(S)] : \A i \in 1..n : f[i] = step(f, i)}
           bad == {n \in 1..Len(s) : Upto(n) = {}}
<1>1. Len(s) \in Nat /\ Len(s) >= 1 /\ \A i \in 1..Len(s) : s[i] \in Seq(S)
  BY LenProperties
<1>2. FlattenSeq(s) = flat[Len(s)]
  BY DEF FlattenSeq
<1>3. bad = {}
  <2> SUFFICES ASSUME bad # {} PROVE FALSE
    OBVIOUS
  <2>1. bad \in SUBSET Nat
    BY <1>1
  <2>2. PICK m \in bad : \A n \in bad : m <= n
    BY <2>1, LeastNat
  <2>3. m \in 1..Len(s) /\ Upto(m) = {}
    BY <2>2
  <2>4. CASE m = 1
    <3>1. [i \in 1..m |-> s[1]] \in Upto(m)
      BY <1>1, <2>4
    <3> QED BY <2>3, <3>1
  <2>5. CASE m # 1
    <3>1. m - 1 \in 1..Len(s) /\ m - 1 \notin bad
      <4>1. m - 1 \in 1..Len(s) /\ ~ (m <= m - 1)
        BY <1>1, <2>3, <2>5
      <4> HIDE DEF bad
      <4> QED BY <2>2, <4>1
    <3>2. PICK f \in [1..(m - 1) -> Seq(S)] : \A i \in 1..(m - 1) : f[i] = step(f, i)
      BY <3>1
    <3> DEFINE g == [i \in 1..m |-> IF i = m THEN f[m - 1] \o s[m] ELSE f[i]]
    <3>3. m - 1 \in 1..(m - 1) /\ \A i \in 1..m : i = m \/ i \in 1..(m - 1)
      BY <1>1, <2>3, <2>5
    <3>4. f[m - 1] \o s[m] \in Seq(S)
      BY <1>1, <2>3, <3>3, ConcatProperties
    <3>5. g \in [1..m -> Seq(S)]
      BY <3>3, <3>4
    <3>6. ASSUME NEW i \in 1..m PROVE g[i] = step(g, i)
      <4>1. CASE i = m
        <5>1. g[m - 1] = f[m - 1] /\ g[m] = f[m - 1] \o s[m]
          <6>1. m - 1 \in 1..m /\ m - 1 # m /\ m \in 1..m
            BY <2>3, <3>3
          <6> QED BY <6>1
        <5> HIDE DEF g
        <5> QED BY <2>5, <4>1, <5>1
      <4>2. CASE i # m
        <5>1. i \in 1..(m - 1) /\ i \in 1..m
          BY <3>3, <4>2
        <5>2. g[i] = step(f, i)
          BY <3>2, <4>2, <5>1
        <5>3. i # 1 => i - 1 \in 1..m /\ i - 1 # m
          BY <2>3, <5>1
        <5>4. i # 1 => g[i - 1] = f[i - 1]
          BY <5>3
        <5> HIDE DEF g
        <5> QED BY <5>2, <5>4
      <4> QED BY <4>1, <4>2
    <3> HIDE DEF g, step
    <3>7. g \in Upto(m)
      BY <3>5, <3>6
    <3> QED BY <2>3, <3>7
  <2> QED BY <2>4, <2>5
<1>4. Len(s) \in 1..Len(s) /\ Len(s) \notin bad
  <2>1. Len(s) \in 1..Len(s)
    BY <1>1
  <2> HIDE DEF bad
  <2> QED BY <1>3, <2>1
<1>5. PICK f \in [1..Len(s) -> Seq(S)] : \A i \in 1..Len(s) : f[i] = step(f, i)
  BY <1>4
<1>6. f = [i \in 1..Len(s) |-> step(f, i)]
  <2> HIDE DEF step
  <2> QED BY <1>5
<1>7. flat = [i \in 1..Len(s) |-> step(flat, i)]
  <2> HIDE DEF step
  <2> QED BY <1>6
<1> HIDE DEF flat
<1> DEFINE worse == {n \in 1..Len(s) : flat[n] \notin Seq(S)}
<1>8. \A i \in 1..Len(s) : flat[i] = step(flat, i)
  <2> HIDE DEF step
  <2> QED BY <1>7
<1>9. worse = {}
  <2> SUFFICES ASSUME worse # {} PROVE FALSE
    OBVIOUS
  <2>1. worse \in SUBSET Nat
    BY <1>1
  <2>2. PICK m \in worse : \A n \in worse : m <= n
    BY <2>1, LeastNat
  <2>3. m \in 1..Len(s) /\ flat[m] \notin Seq(S)
    BY <2>2
  <2>4. m # 1
    BY <1>1, <1>8, <2>3
  <2>5. m - 1 \in 1..Len(s) /\ m - 1 \notin worse
    BY <1>1, <2>2, <2>3, <2>4
  <2>6. flat[m - 1] \in Seq(S) /\ s[m] \in Seq(S)
    BY <1>1, <2>3, <2>5
  <2>7. flat[m] = flat[m - 1] \o s[m]
    BY <1>8, <2>3, <2>4
  <2> QED BY <2>3, <2>6, <2>7, ConcatProperties
<1>10. flat \in [1..Len(s) -> Seq(S)]
  <2> HIDE DEF step
  <2> QED BY <1>7, <1>9
<1>11. flat[1] = s[1] /\ \A i \in 2..Len(s) : flat[i] = flat[i - 1] \o s[i]
  <2>1. 1 \in 1..Len(s) /\ \A i \in 2..Len(s) : i \in 1..Len(s) /\ i # 1
    BY <1>1
  <2> QED BY <1>8, <2>1
<1> QED BY <1>2, <1>10, <1>11

LEMMA ConcatSet ==
  ASSUME NEW S, NEW s \in Seq(S), NEW t \in Seq(S)
  PROVE  s \o t \in Seq(S) /\ ToSet(s \o t) = ToSet(s) \cup ToSet(t)
<1> DEFINE q == s \o t
<1>1. /\ q \in Seq(S) /\ Len(q) = Len(s) + Len(t) /\ Len(s) \in Nat /\ Len(t) \in Nat
      /\ \A i \in 1..(Len(s) + Len(t)) : q[i] = IF i <= Len(s) THEN s[i] ELSE t[i - Len(s)]
  BY ConcatProperties, LenProperties
<1> HIDE DEF q
<1>2. /\ ToSet(q) = {q[i] : i \in 1..Len(q)}
      /\ ToSet(s) = {s[i] : i \in 1..Len(s)} /\ ToSet(t) = {t[i] : i \in 1..Len(t)}
  BY <1>1, SetOfSeq
<1>3. ASSUME NEW i \in 1..Len(q) PROVE q[i] \in ToSet(s) \cup ToSet(t)
  <2>1. CASE i <= Len(s)
    BY <1>1, <1>2, <2>1
  <2>2. CASE ~ (i <= Len(s))
    <3>1. i - Len(s) \in 1..Len(t) /\ q[i] = t[i - Len(s)]
      BY <1>1, <2>2
    <3> QED BY <1>2, <3>1
  <2> QED BY <2>1, <2>2
<1>4. ASSUME NEW i \in 1..Len(s) PROVE s[i] \in ToSet(q)
  BY <1>1, <1>2
<1>5. ASSUME NEW i \in 1..Len(t) PROVE t[i] \in ToSet(q)
  <2>1. Len(s) + i \in 1..Len(q) /\ ~ (Len(s) + i <= Len(s)) /\ Len(s) + i - Len(s) = i
    BY <1>1
  <2>2. q[Len(s) + i] = t[i]
    BY <1>1, <2>1
  <2> QED BY <1>2, <2>1, <2>2
<1> QED BY <1>1, <1>2, <1>3, <1>4, <1>5, ZenonT(30) DEF q

\* The elements of the flattening are those of its parts.
LEMMA FlattenElements ==
  ASSUME NEW S, NEW s \in Seq(Seq(S))
  PROVE  /\ FlattenSeq(s) \in Seq(S)
         /\ ToSet(FlattenSeq(s)) = UNION {ToSet(s[i]) : i \in 1..Len(s)}
<1>1. Len(s) \in Nat /\ \A i \in 1..Len(s) : s[i] \in Seq(S)
  BY LenProperties
<1>2. CASE Len(s) = 0
  <2>1. FlattenSeq(s) = s
    BY <1>2 DEF FlattenSeq
  <2>2. s = <<>>
    BY <1>2, EmptySeq
  <2>3. <<>> \in Seq(S)
    BY EmptySeq
  <2>4. 1..Len(s) = {}
    BY <1>2
  <2>5. ToSet(s) = {s[i] : i \in 1..Len(s)}
    BY SetOfSeq
  <2>6. ToSet(s) = {}
    BY <2>4, <2>5
  <2>7. UNION {ToSet(s[i]) : i \in 1..Len(s)} = {}
    BY <2>4
  <2>8. s \in Seq(S)
    BY <2>2, <2>3
  <2> QED BY <2>1, <2>6, <2>7, <2>8
<1>3. CASE Len(s) # 0
  <2>1. PICK f \in [1..Len(s) -> Seq(S)] :
           /\ FlattenSeq(s) = f[Len(s)]
           /\ f[1] = s[1] /\ \A i \in 2..Len(s) : f[i] = f[i - 1] \o s[i]
    BY <1>3, FlattenUnfold
  <2> DEFINE parts(n) == UNION {ToSet(s[i]) : i \in 1..n}
             bad == {n \in 1..Len(s) : ToSet(f[n]) # parts(n)}
  <2>2. bad = {}
    <3> SUFFICES ASSUME bad # {} PROVE FALSE
      OBVIOUS
    <3>1. bad \in SUBSET Nat
      BY <1>1
    <3>2. PICK m \in bad : \A n \in bad : m <= n
      BY <3>1, LeastNat
    <3>3. m \in 1..Len(s) /\ ToSet(f[m]) # parts(m)
      BY <3>2
    <3>4. CASE m = 1
      <4>1. 1..1 = {1}
        OBVIOUS
      <4> QED BY <2>1, <3>3, <3>4, <4>1
    <3>5. CASE m # 1
      <4>1. m - 1 \in 1..Len(s) /\ m - 1 \notin bad /\ m \in 2..Len(s)
        <5> HIDE DEF bad, parts
        <5>1. m - 1 \in 1..Len(s) /\ m \in 2..Len(s) /\ ~ (m <= m - 1)
          <6>1. m \in 1..Len(s) /\ Len(s) \in Nat
            BY <1>1, <3>3
          <6> QED BY <3>5, <6>1
        <5> QED BY <3>2, <5>1
      <4>2. f[m] = f[m - 1] \o s[m] /\ f[m - 1] \in Seq(S) /\ s[m] \in Seq(S)
        BY <1>1, <2>1, <3>3, <4>1
      <4>3. ToSet(f[m]) = ToSet(f[m - 1]) \cup ToSet(s[m])
        BY <4>2, ConcatSet, SMTT(30)
      <4>4. 1..m = 1..(m - 1) \cup {m}
        BY <3>3, SMTT(30)
      <4>5. parts(m) = parts(m - 1) \cup ToSet(s[m])
        BY <4>4
      <4>6. ToSet(f[m - 1]) = parts(m - 1)
        BY <4>1
      <4> HIDE DEF parts
      <4> QED BY <3>3, <4>3, <4>5, <4>6
    <3> QED BY <3>4, <3>5
  <2>3. Len(s) \in 1..Len(s)
    BY <1>1, <1>3
  <2>4. ToSet(f[Len(s)]) = parts(Len(s))
    <3> HIDE DEF parts
    <3> QED BY <2>2, <2>3
  <2>5. f[Len(s)] \in Seq(S)
    BY <2>1, <2>3
  <2>6. ToSet(FlattenSeq(s)) = parts(Len(s))
    <3> HIDE DEF parts
    <3> QED BY <2>1, <2>4
  <2> QED BY <2>5, <2>6, <2>1
<1> QED BY <1>2, <1>3

-----------------------------------------------------------------------------
(* Sequences of blocks of one length.                                      *)

\* A number is so many whole blocks, and the rest.
LEMMA DivMod ==
  ASSUME NEW p \in Nat, NEW w \in Nat \ {0}
  PROVE  p = (p \div w) * w + (p % w) /\ p % w \in 0..(w - 1) /\ p \div w \in Nat
OBVIOUS

LEMMA DivMul ==
  ASSUME NEW n \in Nat, NEW w \in Nat \ {0}
  PROVE  /\ n * w \in Nat /\ (n * w) \div w = n /\ (n * w) % w = 0
         /\ (n + 1) * w = n * w + w
OBVIOUS

LEMMA BlockBelow ==
  ASSUME NEW g \in Nat, NEW n \in Nat, NEW w \in Nat \ {0}
  PROVE  (g < n => g * w + w <= n * w) /\ (g * w < n * w => g < n)
OBVIOUS

\* Every place of n blocks is a place of one of them.
LEMMA BlockPlace ==
  ASSUME NEW n \in Nat, NEW w \in Nat \ {0}, NEW p \in 1..(n * w)
  PROVE  \E g \in 0..(n - 1), x \in 1..w : p = g * w + x
<1> DEFINE g == (p - 1) \div w
           x == ((p - 1) % w) + 1
<1>1. n * w \in Nat /\ p - 1 \in Nat /\ p - 1 < n * w
  BY DivMul
<1>2. p - 1 = g * w + (x - 1) /\ x \in 1..w /\ g \in Nat
  BY <1>1, DivMod
<1>3. g * w <= p - 1
  BY <1>1, <1>2
<1> HIDE DEF g, x
<1>4. g * w < n * w
  <2>1. g * w \in Nat
    BY <1>2, DivMul
  <2> QED BY <1>1, <1>3, <2>1
<1>5. g < n
  BY <1>2, <1>4, BlockBelow
<1>6. p = g * w + x
  <2>1. g * w \in Nat
    BY <1>2, DivMul
  <2> QED BY <1>1, <1>2, <2>1
<1>7. g \in 0..(n - 1)
  BY <1>2, <1>5
<1> QED BY <1>2, <1>6, <1>7

LEMMA BlockRange ==
  ASSUME NEW n \in Nat, NEW w \in Nat \ {0}, NEW g \in 0..(n - 1), NEW x \in 1..w
  PROVE  /\ g \in Nat /\ g * w \in Nat /\ g * w + w <= n * w /\ g * w + x \in 1..(n * w)
         /\ (g + 1) * w = g * w + w /\ n * w \in Nat
<1>1. g \in Nat /\ g < n /\ x \in Nat /\ x >= 1 /\ x <= w
  OBVIOUS
<1>2. g * w \in Nat /\ g * w + w <= n * w /\ n * w \in Nat /\ (g + 1) * w = g * w + w
  BY <1>1, BlockBelow, DivMul
<1> QED BY <1>1, <1>2

\* A slice of a sequence.
LEMMA SliceOf ==
  ASSUME NEW S, NEW s \in Seq(S), NEW a \in Nat, NEW n \in Nat, a + n <= Len(s)
  PROVE  /\ SubSeq(s, a + 1, a + n) \in Seq(S) /\ Len(SubSeq(s, a + 1, a + n)) = n
         /\ \A i \in 1..n : a + i \in 1..Len(s) /\ SubSeq(s, a + 1, a + n)[i] = s[a + i]
<1>1. Len(s) \in Nat
  BY LenProperties
<1>2. a + 1 \in Int /\ a + n \in Int /\ \A i \in (a + 1)..(a + n) : i \in 1..Len(s)
  BY <1>1
<1>3. \A i \in (a + 1)..(a + n) : s[i] \in S
  BY <1>2, ElementOfSeq
<1>4. /\ SubSeq(s, a + 1, a + n) \in Seq(S)
      /\ Len(SubSeq(s, a + 1, a + n)) = IF a + 1 <= a + n THEN a + n - (a + 1) + 1 ELSE 0
      /\ \A i \in 1..(a + n - (a + 1) + 1) : SubSeq(s, a + 1, a + n)[i] = s[a + 1 + i - 1]
  BY <1>2, <1>3, SubSeqProperties
<1>5. (IF a + 1 <= a + n THEN a + n - (a + 1) + 1 ELSE 0) = n /\ a + n - (a + 1) + 1 = n
  OBVIOUS
<1>6. \A i \in 1..n : a + 1 + i - 1 = a + i /\ a + i \in 1..Len(s)
  BY <1>1
<1> QED BY <1>4, <1>5, <1>6

\* One more block.
LEMMA BlockAppend ==
  ASSUME NEW S, NEW a \in Seq(S), NEW b \in Seq(S), NEW k \in Nat, NEW w \in Nat \ {0},
         Len(a) = k * w, Len(b) = w
  PROVE  /\ Len(a \o b) = (k + 1) * w
         /\ \A x \in 1..w : (a \o b)[k * w + x] = b[x]
         /\ \A g \in 0..(k - 1), x \in 1..w : (a \o b)[g * w + x] = a[g * w + x]
<1> DEFINE c == a \o b
<1>1. /\ Len(c) = Len(a) + Len(b)
      /\ \A i \in 1..(Len(a) + Len(b)) : c[i] = IF i <= Len(a) THEN a[i] ELSE b[i - Len(a)]
  BY ConcatProperties
<1> HIDE DEF c
<1>2. k * w \in Nat /\ (k + 1) * w = k * w + w
  BY DivMul
<1>3. PICK z \in Nat : z = k * w
  BY <1>2
<1>4. Len(c) = (k + 1) * w
  BY <1>1, <1>2, <1>3
<1>5. ASSUME NEW x \in 1..w PROVE c[k * w + x] = b[x]
  <2>1. z + x \in 1..(z + w) /\ ~ (z + x <= z) /\ z + x - z = x
    BY <1>3
  <2>2. c[z + x] = b[x]
    BY <1>1, <1>3, <2>1
  <2> QED BY <1>3, <2>2
<1>6. ASSUME NEW g \in 0..(k - 1), NEW x \in 1..w PROVE c[g * w + x] = a[g * w + x]
  <2>1. PICK y : y = g * w + x
    OBVIOUS
  <2>2. y \in 1..z
    BY <1>3, <2>1, BlockRange
  <2>3. y \in 1..(z + w) /\ y <= z
    BY <1>3, <2>2
  <2>4. c[y] = a[y]
    BY <1>1, <1>3, <2>3
  <2> QED BY <2>1, <2>4
<1> QED BY <1>4, <1>5, <1>6 DEF c

\* The first n of the blocks s, each of length w, one after the other.
BlocksAre(c, n, w, s) ==
  /\ Len(c) = n * w
  /\ \A g \in 0..(n - 1), x \in 1..w : c[g * w + x] = s[g + 1][x]

LEMMA BlockStep ==
  ASSUME NEW S, NEW a \in Seq(S), NEW b \in Seq(S), NEW k \in Nat, NEW w \in Nat \ {0},
         NEW s, BlocksAre(a, k, w, s), s[k + 1] = b, Len(b) = w
  PROVE  BlocksAre(a \o b, k + 1, w, s)
<1>1. Len(a) = k * w /\ \A g \in 0..(k - 1), x \in 1..w : a[g * w + x] = s[g + 1][x]
  BY DEF BlocksAre
<1>2. Len(a \o b) = (k + 1) * w
  BY <1>1, BlockAppend
<1>3. ASSUME NEW g \in 0..k, NEW x \in 1..w PROVE (a \o b)[g * w + x] = s[g + 1][x]
  <2>1. CASE g = k
    <3>1. (a \o b)[k * w + x] = b[x]
      BY <1>1, BlockAppend, SMTT(30)
    <3> QED BY <2>1, <3>1
  <2>2. CASE g # k
    <3>1. g \in 0..(k - 1)
      BY <2>2
    <3>2. \A h \in 0..(k - 1), y \in 1..w : (a \o b)[h * w + y] = a[h * w + y]
      BY <1>1, BlockAppend, SMTT(30)
    <3>3. (a \o b)[g * w + x] = a[g * w + x]
      BY <3>1, <3>2, Zenon
    <3>4. a[g * w + x] = s[g + 1][x]
      BY <1>1, <3>1, Zenon
    <3> QED BY <3>3, <3>4, Zenon
  <2> QED BY <2>1, <2>2
<1>4. (k + 1) - 1 = k
  OBVIOUS
<1> QED BY <1>2, <1>3, <1>4 DEF BlocksAre

\* The flattening of blocks of length w has the blocks one after the other.
LEMMA FlattenBlocks ==
  ASSUME NEW S, NEW s \in Seq(Seq(S)), NEW w \in Nat \ {0},
         \A i \in 1..Len(s) : Len(s[i]) = w
  PROVE  /\ FlattenSeq(s) \in Seq(S)
         /\ BlocksAre(FlattenSeq(s), Len(s), w, s)
<1>1. Len(s) \in Nat /\ \A i \in 1..Len(s) : s[i] \in Seq(S)
  BY LenProperties
<1>2. FlattenSeq(s) \in Seq(S)
  BY FlattenElements
<1>3. CASE Len(s) = 0
  <2>1. FlattenSeq(s) = s
    BY <1>3 DEF FlattenSeq
  <2>2. Len(s) = Len(s) * w /\ 0..(Len(s) - 1) = {}
    BY <1>3
  <2> QED BY <1>2, <2>1, <2>2 DEF BlocksAre
<1>4. CASE Len(s) # 0
  <2>1. PICK f \in [1..Len(s) -> Seq(S)] :
           /\ FlattenSeq(s) = f[Len(s)]
           /\ f[1] = s[1] /\ \A i \in 2..Len(s) : f[i] = f[i - 1] \o s[i]
    BY <1>4, FlattenUnfold
  <2> DEFINE bad == {n \in 1..Len(s) : ~ BlocksAre(f[n], n, w, s)}
  <2>2. bad = {}
    <3> SUFFICES ASSUME bad # {} PROVE FALSE
      OBVIOUS
    <3>1. bad \in SUBSET Nat
      BY <1>1
    <3>2. PICK m \in bad : \A n \in bad : m <= n
      BY <3>1, LeastNat
    <3>3. m \in 1..Len(s) /\ ~ BlocksAre(f[m], m, w, s)
      BY <3>2
    <3>4. CASE m = 1
      <4>1. Len(f[1]) = 1 * w
        <5>1. 1 * w = w
          OBVIOUS
        <5> QED BY <1>1, <2>1, <3>3, <3>4, <5>1
      <4>2. ASSUME NEW g \in 0..(1 - 1), NEW x \in 1..w PROVE f[1][g * w + x] = s[g + 1][x]
        <5>1. g = 0 /\ g * w + x = x /\ g + 1 = 1
          OBVIOUS
        <5> QED BY <2>1, <5>1
      <4>3. BlocksAre(f[1], 1, w, s)
        BY <4>1, <4>2 DEF BlocksAre
      <4> QED BY <3>3, <3>4, <4>3
    <3>5. CASE m # 1
      <4>1. m - 1 \in 1..Len(s) /\ m \in 2..Len(s) /\ ~ (m <= m - 1) /\ m - 1 \in Nat /\ (m - 1) + 1 = m
        <5>1. m \in 1..Len(s) /\ Len(s) \in Nat
          BY <1>1, <3>3
        <5> QED BY <3>5, <5>1
      <4>2. BlocksAre(f[m - 1], m - 1, w, s)
        <5>1. m - 1 \notin bad
          <6> HIDE DEF bad
          <6> QED BY <3>2, <4>1
        <5> QED BY <4>1, <5>1
      <4>3. f[m] = f[m - 1] \o s[m] /\ f[m - 1] \in Seq(S) /\ s[m] \in Seq(S) /\ Len(s[m]) = w
        BY <1>1, <2>1, <3>3, <4>1
      <4> HIDE DEF bad
      <4>4. BlocksAre(f[m - 1] \o s[m], (m - 1) + 1, w, s)
        BY <4>1, <4>2, <4>3, BlockStep
      <4> QED BY <3>3, <4>1, <4>3, <4>4
    <3> QED BY <3>4, <3>5
  <2>3. BlocksAre(f[Len(s)], Len(s), w, s)
    <3>1. Len(s) \in 1..Len(s)
      BY <1>1, <1>4
    <3> QED BY <2>2, <3>1
  <2> QED BY <1>2, <2>1, <2>3
<1> QED BY <1>3, <1>4

\* Appending twice.
Regroups(a, b, c) == a \o (b \o c) = (a \o b) \o c

LEMMA Regroup ==
  ASSUME NEW S, NEW a \in Seq(S), NEW b \in Seq(S), NEW c \in Seq(S)
  PROVE  Regroups(a, b, c)
BY ConcatAssociative, SMTT(30) DEF Regroups

\* Appending nothing.
LEMMA ConcatNothing ==
  ASSUME NEW S, NEW s \in Seq(S)
  PROVE  s \o <<>> = s /\ <<>> \o s = s
BY ConcatEmptySeq

-----------------------------------------------------------------------------
(* Sorting: the n-th of the elements that a sort puts in order.            *)

LEMMA SeqWidens ==
  ASSUME NEW T, NEW S \in SUBSET T, NEW s \in Seq(S)
  PROVE  s \in Seq(T)
OBVIOUS

\* R orders S strictly and totally.
Orders(R, S) ==
  /\ \A x \in S : <<x, x>> \notin R
  /\ \A x, y, z \in S : <<x, y>> \in R /\ <<y, z>> \in R => <<x, z>> \in R
  /\ \A x, y \in S : x # y => <<x, y>> \in R \/ <<y, x>> \in R

\* The elements of S that are before x.
Lower(R, S, x) == {y \in S : <<y, x>> \in R}

\* s lists S in the order R, and the n-th of s has n - 1 elements before it.
Enumerates(s, R, S) ==
  /\ s \in [1..Cardinality(S) -> S]
  /\ \A x \in S : \E n \in 1..Cardinality(S) : s[n] = x
  /\ \A i, j \in 1..Cardinality(S) : i < j <=> <<s[i], s[j]>> \in R
  /\ \A n \in 1..Cardinality(S), x \in S : Cardinality(Lower(R, S, x)) = n - 1 <=> x = s[n]

LEMMA Ranks ==
  ASSUME NEW S, IsFiniteSet(S), NEW R, Orders(R, S)
  PROVE  \E s : Enumerates(s, R, S)
<1> DEFINE N == Cardinality(S)
           rank == [x \in S |-> Cardinality(Lower(R, S, x)) + 1]
<1>1. N \in Nat
  BY FS_CardinalityType
<1>2. \A x \in S : /\ IsFiniteSet(Lower(R, S, x)) /\ Cardinality(Lower(R, S, x)) \in Nat
  <2> TAKE x \in S
  <2>1. Lower(R, S, x) \in SUBSET S
    BY DEF Lower
  <2> QED BY <2>1, FS_Subset, FS_CardinalityType
<1>3. ASSUME NEW x \in S, NEW y \in S, <<x, y>> \in R PROVE rank[x] < rank[y]
  <2>1. x \notin Lower(R, S, x) /\ x \in Lower(R, S, y)
    BY <1>3 DEF Lower, Orders
  <2>2. Lower(R, S, x) \cup {x} \in SUBSET Lower(R, S, y)
    BY <1>3 DEF Lower, Orders
  <2>3. Cardinality(Lower(R, S, x) \cup {x}) = Cardinality(Lower(R, S, x)) + 1
    BY <1>2, <2>1, FS_AddElement
  <2>4. Cardinality(Lower(R, S, x) \cup {x}) <= Cardinality(Lower(R, S, y))
    BY <1>2, <2>2, FS_Subset
  <2>5. rank[x] = Cardinality(Lower(R, S, x)) + 1 /\ rank[y] = Cardinality(Lower(R, S, y)) + 1
    OBVIOUS
  <2> HIDE DEF rank
  <2> QED BY <1>2, <2>3, <2>4, <2>5
<1>4. ASSUME NEW x \in S PROVE rank[x] \in 1..N
  <2>1. Lower(R, S, x) \in SUBSET (S \ {x})
    BY DEF Lower, Orders
  <2>2. IsFiniteSet(S \ {x}) /\ Cardinality(S \ {x}) = N - 1
    BY FS_RemoveElement
  <2>3. Cardinality(Lower(R, S, x)) <= N - 1
    BY <2>1, <2>2, FS_Subset
  <2>4. rank[x] = Cardinality(Lower(R, S, x)) + 1
    OBVIOUS
  <2> HIDE DEF rank, N
  <2> QED BY <1>1, <1>2, <2>3, <2>4
<1>5. \A x \in S : rank[x] = Cardinality(Lower(R, S, x)) + 1
  OBVIOUS
<1>6. rank \in [S -> 1..N]
  BY <1>4
<1> HIDE DEF rank, N
<1>7. ASSUME NEW x \in S, NEW y \in S, rank[x] = rank[y] PROVE x = y
  <2> SUFFICES ASSUME x # y PROVE FALSE
    OBVIOUS
  <2>1. rank[x] \in Nat /\ rank[y] \in Nat
    BY <1>6, <1>1
  <2>2. rank[x] < rank[y] \/ rank[y] < rank[x]
    BY <1>3 DEF Orders
  <2> QED BY <1>7, <2>1, <2>2
<1>8. IsFiniteSet(1..N) /\ Cardinality(1..N) = N
  <2>1. 1 \in Int /\ N \in Int
    BY <1>1
  <2>2. IsFiniteSet(1..N) /\ Cardinality(1..N) = IF 1 > N THEN 0 ELSE N - 1 + 1
    BY <2>1, FS_Interval
  <2> QED BY <1>1, <2>2
<1>9. rank \in Surjection(S, 1..N)
  <2>1. rank \in Injection(S, 1..N)
    BY <1>6, <1>7 DEF Injection, IsInjective
  <2>2. Cardinality(S) = Cardinality(1..N)
    BY <1>8 DEF N
  <2> QED BY <1>8, <2>1, <2>2, FS_Injection
<1>10. \A n \in 1..N : \E x \in S : rank[x] = n
  BY <1>9 DEF Surjection
<1> DEFINE s == [n \in 1..N |-> CHOOSE x \in S : rank[x] = n]
<1>11. \A n \in 1..N : s[n] \in S /\ rank[s[n]] = n
  BY <1>10
<1>12. s \in [1..N -> S]
  BY <1>11
<1> HIDE DEF s
<1>13. \A x \in S : s[rank[x]] = x
  <2> TAKE x \in S
  <2>1. rank[x] \in 1..N
    BY <1>6
  <2>2. s[rank[x]] \in S /\ rank[s[rank[x]]] = rank[x]
    BY <1>11, <2>1
  <2> QED BY <2>2, <1>7
<1>14. \A x \in S : \E n \in 1..N : s[n] = x
  BY <1>13, <1>6
<1>15. ASSUME NEW i \in 1..N, NEW j \in 1..N PROVE i < j <=> <<s[i], s[j]>> \in R
  <2>1. i \in Nat /\ j \in Nat
    BY <1>1
  <2>2. s[i] \in S /\ s[j] \in S /\ rank[s[i]] = i /\ rank[s[j]] = j
    BY <1>11
  <2>3. ASSUME <<s[i], s[j]>> \in R PROVE i < j
    BY <1>3, <2>2, <2>3
  <2>4. ASSUME i < j PROVE <<s[i], s[j]>> \in R
    <3>1. s[i] # s[j]
      BY <2>1, <2>2, <2>4
    <3>2. CASE <<s[j], s[i]>> \in R
      BY <1>3, <2>1, <2>2, <2>4, <3>2
    <3> QED BY <2>2, <3>1, <3>2 DEF Orders
  <2> QED BY <2>3, <2>4
<1>16. ASSUME NEW n \in 1..N, NEW x \in S
       PROVE  Cardinality(Lower(R, S, x)) = n - 1 <=> x = s[n]
  <2>1. Cardinality(Lower(R, S, x)) = n - 1 <=> rank[x] = n
    BY <1>1, <1>2, <1>5
  <2> QED BY <2>1, <1>11, <1>13
<1> QED BY <1>12, <1>14, <1>15, <1>16 DEF N, Enumerates

\* What a list by SortedBy is.
SortedAs(s, R, S) ==
  /\ s \in Seq(S) /\ Len(s) = Cardinality(S) /\ ToSet(s) = S
  /\ \A i, j \in 1..Len(s) : i < j <=> <<s[i], s[j]>> \in R

LEMMA ListIsSorted ==
  ASSUME NEW S, IsFiniteSet(S), NEW R, NEW s, Enumerates(s, R, S)
  PROVE  SortedAs(s, R, S)
<1>1. Cardinality(S) \in Nat
  BY FS_CardinalityType
<1>2. s \in Seq(S) /\ Len(s) = Cardinality(S)
  BY <1>1, FunIsSeq DEF Enumerates
<1>3. ToSet(s) = {s[i] : i \in 1..Len(s)} /\ ToSet(s) \subseteq S
  BY <1>2, SetOfSeq
<1>4. S \subseteq ToSet(s)
  BY <1>2, <1>3 DEF Enumerates
<1> QED BY <1>2, <1>3, <1>4 DEF Enumerates, SortedAs

Ascending(S) == {p \in S \X S : p[1] < p[2]}

LEMMA NatsSorted ==
  ASSUME NEW S \in SUBSET Nat, IsFiniteSet(S)
  PROVE  \E s : s = SortedBy(S, <) /\ SortedAs(s, Ascending(S), S)
<1> DEFINE R == Ascending(S)
<1>1. \A x, y \in S : <<x, y>> \in R <=> x < y
  BY DEF Ascending
<1>2. \A x \in S : {y \in S : y < x} = Lower(R, S, x)
  BY <1>1 DEF Lower
<1>3. Orders(R, S)
  <2> HIDE DEF R
  <2> QED BY <1>1 DEF Orders
<1> HIDE DEF R
<1>4. PICK s : Enumerates(s, R, S)
  BY <1>3, Ranks
<1>5. \A n \in 1..Cardinality(S), x \in S : Cardinality({y \in S : y < x}) = n - 1 <=> x = s[n]
  BY <1>2, <1>4 DEF Enumerates
<1>6. SortedBy(S, <) = s
  <2> DEFINE t == [n \in 1..Cardinality(S) |->
                     CHOOSE x \in S : Cardinality({y \in S : y < x}) = n - 1]
  <2>1. SortedBy(S, <) = t
    BY DEF SortedBy
  <2>2. ASSUME NEW n \in 1..Cardinality(S) PROVE t[n] = s[n]
    <3>1. s[n] \in S
      BY <1>4 DEF Enumerates
    <3> QED BY <1>5, <3>1
  <2>3. t = s
    BY <1>4, <2>2 DEF Enumerates
  <2> QED BY <2>1, <2>3
<1>7. SortedAs(s, R, S)
  BY <1>4, ListIsSorted
<1> QED BY <1>6, <1>7 DEF R

\* Pairs in lexicographic order.
Lexicographic(S) == {p \in S \X S : p[1][1] < p[2][1] \/ (p[1][1] = p[2][1] /\ p[1][2] < p[2][2])}

LEMMA PairsOrdered ==
  ASSUME NEW S \in SUBSET (Int \X Int)
  PROVE  /\ Orders(Lexicographic(S), S)
         /\ \A x, y \in S : <<x, y>> \in Lexicographic(S)
                              <=> x[1] < y[1] \/ (x[1] = y[1] /\ x[2] < y[2])
<1>1. \A x, y \in S : <<x, y>> \in Lexicographic(S)
                              <=> x[1] < y[1] \/ (x[1] = y[1] /\ x[2] < y[2])
  BY DEF Lexicographic
<1>2. \A x \in S : x[1] \in Int /\ x[2] \in Int
  OBVIOUS
<1>3. \A x, y \in S : x[1] = y[1] /\ x[2] = y[2] => x = y
  <2> SUFFICES ASSUME NEW x \in S, NEW y \in S, x[1] = y[1], x[2] = y[2] PROVE x = y
    OBVIOUS
  <2>1. x = <<x[1], x[2]>> /\ y = <<y[1], y[2]>>
    OBVIOUS
  <2> QED BY <2>1
<1>4. \A x \in S : <<x, x>> \notin Lexicographic(S)
  BY <1>1, <1>2
<1>5. \A x, y, z \in S : <<x, y>> \in Lexicographic(S) /\ <<y, z>> \in Lexicographic(S)
                           => <<x, z>> \in Lexicographic(S)
  BY <1>1, <1>2
<1>6. \A x, y \in S : x # y => <<x, y>> \in Lexicographic(S) \/ <<y, x>> \in Lexicographic(S)
  BY <1>1, <1>2, <1>3
<1> QED BY <1>1, <1>4, <1>5, <1>6 DEF Orders

\* A finite set of pairs in lexicographic order, and how SortedBy finds its elements.
LEMMA PairsRanked ==
  ASSUME NEW S \in SUBSET (Int \X Int), IsFiniteSet(S)
  PROVE  \E s : /\ SortedAs(s, Lexicographic(S), S)
                /\ s \in [1..Cardinality(S) -> S]
                /\ \A n \in 1..Cardinality(S), x \in S :
                     Cardinality({y \in S : y[1] < x[1] \/ (y[1] = x[1] /\ y[2] < x[2])}) = n - 1
                       <=> x = s[n]
<1> DEFINE R == Lexicographic(S)
<1>1. Orders(R, S)
  BY PairsOrdered
<1>2. \A x, y \in S : <<x, y>> \in R <=> x[1] < y[1] \/ (x[1] = y[1] /\ x[2] < y[2])
  BY PairsOrdered
<1>3. \A x \in S : {y \in S : y[1] < x[1] \/ (y[1] = x[1] /\ y[2] < x[2])} = Lower(R, S, x)
  BY <1>2 DEF Lower
<1> HIDE DEF R
<1>4. PICK s : Enumerates(s, R, S)
  BY <1>1, Ranks
<1>5. \A n \in 1..Cardinality(S), x \in S :
        Cardinality({y \in S : y[1] < x[1] \/ (y[1] = x[1] /\ y[2] < x[2])}) = n - 1
          <=> x = s[n]
  BY <1>3, <1>4 DEF Enumerates
<1>6. SortedAs(s, R, S)
  BY <1>4, ListIsSorted
<1> QED BY <1>4, <1>5, <1>6 DEF R, Enumerates

\* The elements of a sequence are finitely many.
LEMMA FiniteElements ==
  ASSUME NEW S, NEW s \in Seq(S)
  PROVE  IsFiniteSet(ToSet(s)) /\ Cardinality(ToSet(s)) \in Nat
<1>1. Len(s) \in Nat /\ DOMAIN s = 1..Len(s)
  BY LenProperties
<1>2. IsFiniteSet(1..Len(s))
  BY <1>1, FS_Interval
<1>3. s \in Surjection(1..Len(s), ToSet(s))
  BY <1>1 DEF Surjection, ToSet
<1> QED BY <1>2, <1>3, FS_Surjection, FS_CardinalityType
=============================================================================
