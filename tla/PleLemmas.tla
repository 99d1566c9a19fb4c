------------------------------ MODULE PleLemmas ------------------------------
(***************************************************************************)
(* What the proofs about the n-gram contexts share: why the last           *)
(* NgramSize - 1 tokens of a history are enough to keep.                   *)
(***************************************************************************)
EXTENDS PleKeys, SeqLemmas

\* The segment of position i starts within s positions of i exactly when one of
\* the s tokens before i is Eos.
LEMMA SegmentReach ==
  ASSUME NEW h, NEW i \in Nat, NEW s \in Nat, i - s >= 1
  PROVE  (i - SegStart(h, i) >= s) <=> (\A j \in (i - s)..(i - 1) : h[j] # Eos)
<1>1. CASE \E j \in 1..(i - 1) : h[j] = Eos
  <2> DEFINE Back == {n \in Nat : n \in 1..(i - 1) /\ h[i - n] = Eos}
             IsLast(j) == h[j] = Eos /\ \A k \in (j + 1)..(i - 1) : h[k] # Eos
  <2>1. PICK e \in 1..(i - 1) : h[e] = Eos
    BY <1>1
  <2>2. i - e \in Back
    <3>1. i - (i - e) = e /\ i - e \in 1..(i - 1) /\ i - e \in Nat
      OBVIOUS
    <3> QED BY <3>1, <2>1
  <2>3. PICK m \in Back : \A n \in Back : m <= n
    BY <2>2, LeastNat
  <2>4. i - m \in 1..(i - 1) /\ h[i - m] = Eos
    BY <2>3
  <2>5. ASSUME NEW k \in (i - m + 1)..(i - 1) PROVE h[k] # Eos
    <3>1. i - k \in Nat /\ i - k \in 1..(i - 1) /\ i - (i - k) = k /\ i - k < m
      BY <2>3
    <3>2. i - k \notin Back
      BY <2>3, <3>1
    <3> QED BY <3>1, <3>2
  <2> DEFINE last1 == CHOOSE j \in 1..(i - 1) : IsLast(j)
  <2>6. last1 \in 1..(i - 1) /\ IsLast(last1)
    <3>1. \E j \in 1..(i - 1) : IsLast(j)
      BY <2>4, <2>5
    <3> HIDE DEF IsLast
    <3> QED BY <3>1
  <2>7. SegStart(h, i) = 1 + last1
    BY <1>1 DEF SegStart
  <2> HIDE DEF last1
  <2> QED BY <2>6, <2>7
<1>2. CASE ~ \E j \in 1..(i - 1) : h[j] = Eos
  <2>1. SegStart(h, i) = 1
    BY <1>2 DEF SegStart
  <2> QED BY <1>2, <2>1
<1> QED BY <1>1, <1>2

\* Two streams that agree on the last NgramSize tokens up to a position have the
\* same context there.
LEMMA ContextLocal ==
  ASSUME NEW v, NEW q, NEW i \in Nat, NEW d \in Nat, i >= NgramSize,
         \A j \in (i - NgramSize + 1)..i : v[j] = q[j + d]
  PROVE  Context(v, i) = Context(q, i + d)
<1>1. NgramSize \in Nat /\ NgramSize >= 2
  BY KeysAssumption
<1>2. ASSUME NEW s \in 0..(NgramSize - 1)
      PROVE  Shifted(v, i, s) = Shifted(q, i + d, s)
  <2>1. s \in Nat /\ i - s >= 1 /\ i + d - s >= 1 /\ i + d \in Nat
    BY <1>1
  <2>2. (\A j \in (i - s)..(i - 1) : v[j] # Eos)
        <=> (\A j \in (i + d - s)..(i + d - 1) : q[j] # Eos)
    <3>1. ASSUME NEW j \in (i - s)..(i - 1)
          PROVE  v[j] = q[j + d] /\ j + d \in (i + d - s)..(i + d - 1)
      BY <1>1, <2>1
    <3>2. ASSUME NEW j \in (i + d - s)..(i + d - 1)
          PROVE  j - d \in (i - s)..(i - 1) /\ v[j - d] = q[j]
      BY <1>1, <2>1
    <3> QED BY <3>1, <3>2
  <2>3. (i - SegStart(v, i) >= s) <=> (\A j \in (i - s)..(i - 1) : v[j] # Eos)
    BY <2>1, SegmentReach
  <2> DEFINE i2 == i + d
  <2>4. (i2 - SegStart(q, i2) >= s) <=> (\A j \in (i2 - s)..(i2 - 1) : q[j] # Eos)
    <3>1. i2 \in Nat /\ i2 - s >= 1
      BY <2>1
    <3> HIDE DEF i2
    <3> QED BY <2>1, <3>1, SegmentReach
  <2>5. v[i] = q[i2] /\ v[i - s] = q[i2 - s]
    BY <1>1, <2>1
  <2>6. (i - SegStart(v, i) >= s) <=> (i2 - SegStart(q, i2) >= s)
    BY <2>2, <2>3, <2>4
  <2>7. i - s >= 1 /\ i2 - s >= 1
    BY <2>1
  <2> HIDE DEF i2
  <2>8. Shifted(v, i, s) = Shifted(q, i2, s)
    BY <2>5, <2>6, <2>7, ZenonT(30) DEF Shifted
  <2> QED BY <2>8 DEF i2
<1> QED BY <1>2 DEF Context

\* The window of a stream is its last NgramSize - 1 tokens.
LEMMA WindowIsSuffix ==
  ASSUME NEW p \in Seq(Tokens), Len(p) >= NgramSize - 1
  PROVE  /\ Window(p) \in Seq(Tokens)
         /\ Len(Window(p)) = NgramSize - 1
         /\ \A j \in 1..(NgramSize - 1) : Window(p)[j] = p[j + Len(p) - (NgramSize - 1)]
<1>1. NgramSize \in Nat /\ NgramSize >= 2 /\ Len(p) \in Nat
  BY KeysAssumption
<1>2. CASE Len(p) > NgramSize - 1
  <2> DEFINE m == Len(p) - NgramSize + 2
  <2>1. m \in Int /\ Len(p) \in Int /\ \A j \in m..Len(p) : p[j] \in Tokens
    BY <1>1, <1>2, ElementOfSeq
  <2>2. Window(p) = SubSeq(p, m, Len(p))
    BY <1>2 DEF Window
  <2>3. /\ SubSeq(p, m, Len(p)) \in Seq(Tokens)
        /\ Len(SubSeq(p, m, Len(p))) = IF m <= Len(p) THEN Len(p) - m + 1 ELSE 0
        /\ \A j \in 1..(Len(p) - m + 1) : SubSeq(p, m, Len(p))[j] = p[m + j - 1]
    BY <2>1, SubSeqProperties
  <2>4. Window(p) \in Seq(Tokens)
    BY <2>2, <2>3
  <2>5. m <= Len(p) /\ Len(p) - m + 1 = NgramSize - 1
    BY <1>1
  <2>6. Len(Window(p)) = NgramSize - 1
    BY <2>2, <2>3, <2>5
  <2>7. ASSUME NEW j \in 1..(NgramSize - 1)
        PROVE  Window(p)[j] = p[j + Len(p) - (NgramSize - 1)]
    <3>1. m + j - 1 = j + Len(p) - (NgramSize - 1)
      BY <1>1
    <3>2. Window(p)[j] = p[m + j - 1]
      BY <2>2, <2>3, <2>5
    <3> QED BY <3>1, <3>2
  <2> QED BY <2>4, <2>6, <2>7
<1>3. CASE Len(p) = NgramSize - 1
  BY <1>1, <1>3 DEF Window
<1> QED BY <1>1, <1>2, <1>3

\* A cold history is NgramSize - 1 tokens, and its own window.
LEMMA ColdFacts ==
  /\ Cold \in Seq(Tokens) /\ Len(Cold) = NgramSize - 1
  /\ Window(Cold \o <<>>) = Cold
<1>1. NgramSize - 1 \in Nat /\ Eos \in Tokens
  BY KeysAssumption
<1>2. Cold \in [1..(NgramSize - 1) -> Tokens]
  BY <1>1 DEF Cold
<1>3. Cold \in Seq(Tokens) /\ Len(Cold) = NgramSize - 1
  BY <1>1, <1>2
<1>4. Cold \o <<>> = Cold
  BY <1>3, ConcatEmptySeq
<1>5. ~ (Len(Cold) > NgramSize - 1)
  BY <1>1, <1>3
<1>6. Window(Cold) = Cold
  BY <1>5 DEF Window
<1> QED BY <1>3, <1>4, <1>6

\* Keeping the window of a stream is as good as keeping all of it: the window
\* after more tokens, and the row ids of those tokens, are the same.
LEMMA WindowSuffices ==
  ASSUME NEW p \in Seq(Tokens), NEW t \in Seq(Tokens), Len(p) >= NgramSize - 1
  PROVE  /\ Window(Window(p) \o t) = Window(p \o t)
         /\ RowKeys(Window(p), t)
              = [k \in 1..Len(t) |-> Context(p \o t, Len(p \o t) - Len(t) + k)]
<1> DEFINE w == Window(p)
           d == Len(p) - (NgramSize - 1)
           N == NgramSize - 1
           wt == w \o t
           pt == p \o t
<1>1. N \in Nat /\ N >= 1 /\ Len(p) \in Nat /\ Len(t) \in Nat /\ d \in Nat
      /\ Len(p) = N + d /\ NgramSize = N + 1
  BY KeysAssumption
<1>2. /\ w \in Seq(Tokens) /\ Len(w) = N
      /\ \A j \in 1..N : w[j] = p[j + d]
  <2>1. /\ Window(p) \in Seq(Tokens) /\ Len(Window(p)) = NgramSize - 1
        /\ \A j \in 1..(NgramSize - 1) : Window(p)[j] = p[j + Len(p) - (NgramSize - 1)]
    BY WindowIsSuffix
  <2> QED BY <1>1, <2>1
<1> HIDE DEF w
<1>3. /\ wt \in Seq(Tokens) /\ Len(wt) = N + Len(t)
      /\ \A j \in 1..(N + Len(t)) : wt[j] = IF j <= N THEN w[j] ELSE t[j - N]
  BY <1>2, ConcatProperties
<1>4. /\ pt \in Seq(Tokens) /\ Len(pt) = Len(p) + Len(t)
      /\ \A j \in 1..(Len(p) + Len(t)) : pt[j] = IF j <= Len(p) THEN p[j] ELSE t[j - Len(p)]
  BY ConcatProperties
<1> HIDE DEF wt, pt, N, d
<1>5. ASSUME NEW j \in 1..(N + Len(t))
      PROVE  wt[j] = pt[j + d]
  <2>1. CASE j <= N
    <3>1. wt[j] = w[j] /\ w[j] = p[j + d] /\ j + d <= Len(p) /\ j + d \in 1..(Len(p) + Len(t))
      BY <1>1, <1>2, <1>3, <2>1
    <3> QED BY <1>1, <1>4, <3>1
  <2>2. CASE ~ (j <= N)
    <3>1. wt[j] = t[j - N] /\ ~ (j + d <= Len(p)) /\ j + d \in 1..(Len(p) + Len(t))
          /\ j + d - Len(p) = j - N
      BY <1>1, <1>3, <2>2
    <3> QED BY <1>1, <1>4, <3>1
  <2> QED BY <2>1, <2>2
<1>6. Window(wt) = Window(pt)
  <2>1. /\ Window(wt) \in Seq(Tokens) /\ Len(Window(wt)) = N
        /\ \A j \in 1..N : Window(wt)[j] = wt[j + Len(t)]
    <3>1. Len(wt) >= NgramSize - 1 /\ NgramSize - 1 = N
      BY <1>1, <1>3
    <3>2. /\ Window(wt) \in Seq(Tokens) /\ Len(Window(wt)) = N
          /\ \A j \in 1..N : Window(wt)[j] = wt[j + Len(wt) - N]
      BY <1>3, <3>1, WindowIsSuffix
    <3> QED BY <1>1, <1>3, <3>2
  <2>2. /\ Window(pt) \in Seq(Tokens) /\ Len(Window(pt)) = N
        /\ \A j \in 1..N : Window(pt)[j] = pt[j + Len(t) + d]
    <3>1. Len(pt) >= NgramSize - 1 /\ NgramSize - 1 = N
      BY <1>1, <1>4
    <3>2. /\ Window(pt) \in Seq(Tokens) /\ Len(Window(pt)) = N
          /\ \A j \in 1..N : Window(pt)[j] = pt[j + Len(pt) - N]
      BY <1>4, <3>1, WindowIsSuffix
    <3>3. \A j \in 1..N : j + Len(pt) - N = j + Len(t) + d
      BY <1>1, <1>4
    <3> QED BY <3>2, <3>3
  <2>3. ASSUME NEW j \in 1..N PROVE Window(wt)[j] = Window(pt)[j]
    <3>1. j + Len(t) \in 1..(N + Len(t)) /\ (j + Len(t)) + d = j + Len(t) + d
      BY <1>1
    <3>2. wt[j + Len(t)] = pt[j + Len(t) + d]
      BY <1>5, <3>1
    <3> QED BY <2>1, <2>2, <3>2
  <2> QED BY <2>1, <2>2, <2>3, SeqEqual
<1>7. ASSUME NEW k \in 1..Len(t)
      PROVE  Context(wt, Len(w) + k) = Context(pt, Len(pt) - Len(t) + k)
  <2>1. Len(w) + k \in Nat /\ Len(w) + k >= NgramSize
        /\ Len(w) + k + d = Len(pt) - Len(t) + k
    BY <1>1, <1>2, <1>4
  <2> DEFINE i == Len(w) + k
  <2>2. \A j \in (i - NgramSize + 1)..i : wt[j] = pt[j + d]
    <3>1. \A j \in (i - NgramSize + 1)..i : j \in 1..(N + Len(t))
      BY <1>1, <1>2
    <3> HIDE DEF i
    <3> QED BY <1>5, <3>1
  <2>3. Context(wt, i) = Context(pt, i + d)
    <3>1. i \in Nat /\ i >= NgramSize
      BY <2>1
    <3>2. \A j \in (i - NgramSize + 1)..i : wt[j] = pt[j + d]
      BY <2>2
    <3>3. d \in Nat
      BY <1>1
    <3> HIDE DEF i, wt, pt, d
    <3> QED BY <3>1, <3>2, <3>3, ContextLocal, ZenonT(60)
  <2> QED BY <2>1, <2>3
<1>8. RowKeys(w, t) = [k \in 1..Len(t) |-> Context(pt, Len(pt) - Len(t) + k)]
  BY <1>7 DEF RowKeys, wt
<1> QED BY <1>6, <1>8 DEF w, wt, pt

\* Row ids are one context over the vocabulary for each token.
LEMMA RowKeysType ==
  ASSUME NEW h \in Seq(Tokens), NEW t \in Seq(Tokens)
  PROVE  /\ RowKeys(h, t) \in Seq([0..(NgramSize - 1) -> Tokens])
         /\ Len(RowKeys(h, t)) = Len(t)
<1>1. /\ h \o t \in Seq(Tokens) /\ Len(h \o t) = Len(h) + Len(t)
      /\ Len(h) \in Nat /\ Len(t) \in Nat /\ NgramSize \in Nat /\ Eos \in Tokens
  BY ConcatProperties, KeysAssumption
<1> DEFINE q == h \o t
<1>2. ASSUME NEW k \in 1..Len(t), NEW s \in 0..(NgramSize - 1)
      PROVE  Shifted(q, Len(h) + k, s) \in Tokens
  <2>1. q \in Seq(Tokens) /\ Len(h) + k \in 1..Len(q)
    BY <1>1
  <2>2. q[Len(h) + k] \in Tokens
    BY <2>1, ElementOfSeq
  <2>3. Len(h) + k - s >= 1 => q[Len(h) + k - s] \in Tokens
    <3>1. Len(h) + k - s >= 1 => Len(h) + k - s \in 1..Len(q)
      BY <1>1
    <3> QED BY <2>1, <3>1, ElementOfSeq
  <2> HIDE DEF q
  <2> QED BY <1>1, <2>2, <2>3 DEF Shifted
<1> HIDE DEF q
<1>3. ASSUME NEW k \in 1..Len(t)
      PROVE  Context(q, Len(h) + k) \in [0..(NgramSize - 1) -> Tokens]
  BY <1>2 DEF Context
<1>4. RowKeys(h, t) \in [1..Len(t) -> [0..(NgramSize - 1) -> Tokens]]
  BY <1>3 DEF RowKeys, q
<1> QED BY <1>1, <1>4

\* Feeding tok after f to a history that is the window of f: the new window and
\* the row ids are those of the whole stream.
LEMMA WindowFed ==
  ASSUME NEW f \in Seq(Tokens), NEW tok \in Seq(Tokens),
         NEW h, h = Window(Cold \o f)
  PROVE  /\ h \in Seq(Tokens) /\ Len(h) = NgramSize - 1
         /\ f \o tok \in Seq(Tokens)
         /\ Window(h \o tok) \in Seq(Tokens)
         /\ Window(h \o tok) = Window(Cold \o (f \o tok))
         /\ tok = <<>> => h = Window(Cold \o (f \o tok))
         /\ RowKeys(h, tok) = [k \in 1..Len(tok) |->
              Context(Cold \o (f \o tok), Len(Cold \o (f \o tok)) - Len(tok) + k)]
<1> DEFINE p == Cold \o f
<1>1. /\ p \in Seq(Tokens) /\ Len(p) >= NgramSize - 1
      /\ f \o tok \in Seq(Tokens) /\ Cold \o (f \o tok) = p \o tok
      /\ p \o tok \in Seq(Tokens) /\ Len(p \o tok) >= NgramSize - 1
  <2>1. Cold \in Seq(Tokens) /\ Len(Cold) = NgramSize - 1 /\ NgramSize \in Nat
        /\ Len(f) \in Nat /\ Len(tok) \in Nat
    BY ColdFacts, KeysAssumption
  <2>2. p \in Seq(Tokens) /\ Len(p) = Len(Cold) + Len(f) /\ f \o tok \in Seq(Tokens)
    BY <2>1, ConcatProperties
  <2>3. Cold \o (f \o tok) = p \o tok
    BY <2>1, ConcatAssociative, SMTT(30)
  <2> HIDE DEF p
  <2>4. p \o tok \in Seq(Tokens) /\ Len(p \o tok) = Len(p) + Len(tok)
    BY <2>2, ConcatProperties
  <2> QED BY <2>1, <2>2, <2>3, <2>4
<1>2. h = Window(p)
  OBVIOUS
<1> HIDE DEF p
<1>3. h \in Seq(Tokens) /\ Len(h) = NgramSize - 1
  BY <1>1, <1>2, WindowIsSuffix
<1>4. Window(h \o tok) = Window(p \o tok)
  BY <1>1, <1>2, WindowSuffices
<1>5. Window(p \o tok) \in Seq(Tokens)
  BY <1>1, WindowIsSuffix
<1>6. tok = <<>> => p \o tok = p
  BY <1>1, ConcatEmptySeq
<1>7. RowKeys(h, tok) = [k \in 1..Len(tok) |-> Context(p \o tok, Len(p \o tok) - Len(tok) + k)]
  BY <1>1, <1>2, WindowSuffices
<1> QED BY <1>1, <1>2, <1>3, <1>4, <1>5, <1>6, <1>7
=============================================================================
