----------------------------- MODULE MCPleNGram -----------------------------
(* PleNGram for TLC: single sequences of one or two tokens and batches of   *)
(* two of one token, over bigrams.                                          *)
EXTENDS PleNGram
Contexts == [0..1 -> {"eos", "a"}]
Batches  == {<<s>> : s \in [1..1 -> {"eos", "a"}] \union [1..2 -> {"eos", "a"}]}
            \union {<<s, t>> : s, t \in [1..1 -> {"eos", "a"}]}
=============================================================================
