------------------------------- MODULE PleKeys -------------------------------
(***************************************************************************)
(* The n-gram contexts that row ids are derived from: the pure functions   *)
(* of crates/engramdb-keygen/src/lib.rs and of python/engramdb/ple_math.py *)
(* (two implementations of one definition).  The row ids of a position are *)
(* a fixed hash of the shifted tokens at that position, so the shifted     *)
(* tokens, its context, stand for the row ids.                             *)
(***************************************************************************)
EXTENDS Integers, Sequences

CONSTANTS Tokens,    \* the vocabulary
          Eos,       \* the end-of-sequence token
          NgramSize  \* tokens of the longest n-gram

ASSUME KeysAssumption ==
  /\ Eos \in Tokens
  /\ NgramSize \in Nat /\ NgramSize >= 2

\* The first position of the segment that position i belongs to: the one after
\* the last Eos strictly before i.
SegStart(h, i) ==
  IF \E j \in 1..(i - 1) : h[j] = Eos
  THEN 1 + CHOOSE j \in 1..(i - 1) :
             h[j] = Eos /\ \A k \in (j + 1)..(i - 1) : h[k] # Eos
  ELSE 1

\* _shift_right_ignore_eos: the token s positions earlier in the same segment,
\* or Eos.
Shifted(h, i, s) ==
  IF s = 0 THEN h[i]
  ELSE IF i - SegStart(h, i) >= s /\ i - s >= 1 THEN h[i - s] ELSE Eos

\* What the row ids of position i are computed from.
Context(h, i) == [s \in 0..(NgramSize - 1) |-> Shifted(h, i, s)]

\* rowids_for_seq_with_history: one context for each of tokens.
RowKeys(history, tokens) ==
  [i \in 1..Len(tokens) |-> Context(history \o tokens, Len(history) + i)]

\* The history of a sequence nothing has been fed to.
Cold == [i \in 1..(NgramSize - 1) |-> Eos]

\* MUTANT of Window: one token too few is kept.
WindowShort(s) ==
  IF Len(s) > NgramSize - 2 THEN SubSeq(s, Len(s) - NgramSize + 3, Len(s)) ELSE s

\* s[-(ngram_size - 1):]
Window(s) ==
  IF Len(s) > NgramSize - 1 THEN SubSeq(s, Len(s) - NgramSize + 2, Len(s)) ELSE s
=============================================================================
