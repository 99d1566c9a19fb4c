------------------------------ MODULE MCStoreP -------------------------------
(* ViewStore and SlotIndex for TLC, one after the other in one run: they     *)
(* share no state.  Views: records of two rows, up to two records; the lists *)
(* have a gram twice, end within a gram, and hold a bad line.  Indexes: keys *)
(* files with a gram twice, with grams the others lack, in other orders, and *)
(* one that ends within a gram.                                              *)
EXTENDS ViewStore, SlotIndex

MixedLists == {<<0, 1, 1, 0>>, <<1, 0, 1, 0>>, <<1, 0, 0>>, <<1, 0, 0, Bad>>}
Pairs == {<<<<1, 0>>, <<0, 1>>>>}

File(grams, whole) == [grams |-> grams, whole |-> whole]
MixedFiles == {File(<<1, 1>>, TRUE), File(<<2, 1>>, TRUE), File(<<0>>, TRUE), File(<<0>>, FALSE)}

VARIABLE part \* which of the two this behaviour is about

StorePInit == part \in {"view", "index"} /\ Init /\ IndexInit

\* Bound: view verify and a reader of the view change no file, so one of them at
\* a time is enough.
OneReads == verdict'.asked => reader.state = "closed" /\ reader'.state = "closed"

\* Bound: nothing happens between the end of a fetch and the caller's next step.
AnswerTaken == fetch.state \in {"ok", "error"} => fetch' # fetch

\* Bound: the same of slot-index verify and a reader of the index.
OneLooks == indexVerdict'.asked => ~indexReader.open /\ ~indexReader'.open

\* Bound: a reader that a build overtook looks one gram up.
OvertakenOnce == ~indexReader.steady /\ found.gram # Missing => ~indexReader'.open

StorePNext ==
  /\ \/ part = "view" /\ Next /\ OneReads /\ AnswerTaken /\ UNCHANGED indexVars
     \/ part = "index" /\ IndexNext /\ OneLooks /\ OvertakenOnce /\ UNCHANGED vars
  /\ UNCHANGED part

StorePSpec == StorePInit /\ [][StorePNext]_<<part, vars, indexVars>>

StorePTypeOK == TypeOK /\ IndexTypeOK
==============================================================================
