---------------------------- MODULE ServiceProofs ----------------------------
(***************************************************************************)
(* Theorems about the network service and about the table registry behind  *)
(* it.                                                                     *)
(*                                                                         *)
(* The two ends of a connection only count: for any commands, lengths and  *)
(* number of requests, as long as no message was torn the answers that the *)
(* client is given are those to the requests it sent, in their order.      *)
(* What has to be known besides is what lies in the two streams.           *)
(*                                                                         *)
(* A closed pool stays in the registry only while a close is at the pools  *)
(* or after a close has raised, for any number of threads, tables and      *)
(* calls.  The invariant adds that the pool a thread is about to insert is *)
(* in nobody else's hands: not cached, so no close can have closed it.     *)
(***************************************************************************)
EXTENDS Service, Registry, FiniteSetTheorems, SequenceTheorems, TLAPS

-----------------------------------------------------------------------------
(* The service.                                                            *)

Unit     == [of : Nat, pos : 1..3]
Outcome  == [of : Nat, state : {"answer", "wrong_kind", "torn", "error"}]
Answer   == [to : Nat, kind : {"json", "raw", "arrow"}]

\* The types of the variables, without the bounds of TypeOK.
ServiceTypes ==
  /\ toServer \in Seq(Unit) /\ toClient \in Seq(Unit)
  /\ clientOpen \in BOOLEAN /\ serverOpen \in BOOLEAN /\ writing \in BOOLEAN
  /\ asked \in Seq(Commands) /\ results \in Seq(Outcome) /\ answers \in Seq(Answer)
  /\ written \in 0..3 /\ sent \in Seq(Nat) /\ torn \in BOOLEAN

\* Nothing refers to a request or an answer that there was not.
References ==
  /\ \A i \in 1..Len(toServer) : toServer[i].of \in 1..Len(asked)
  /\ \A i \in 1..Len(toClient) : toClient[i].of \in 1..Len(answers)
  /\ \A i \in 1..Len(results) : results[i].of \in 0..Len(answers)
  /\ \A n \in 1..Len(answers) : answers[n].to \in 0..Len(asked)
  /\ \A n \in 1..Len(sent) : sent[n] \in 1..Len(asked)

\* A request has one result, and an answer used at least one unit of a request.
Counts ==
  /\ Len(results) <= Len(asked) /\ Len(asked) <= Len(results) + 1
  /\ Len(asked) <= MaxRequests
  /\ Len(answers) + Len(toServer) <= 3 * Len(asked)

\* What the handler and the client are doing.
Control ==
  /\ writing => serverOpen /\ written < 3 /\ answers # <<>>
  /\ serverOpen /\ ~writing => answers = <<>> \/ written = 3
  /\ ~clientOpen => ~Waiting

\* The number of answers the client was given.
Given == Cardinality(GivenUpTo(results, Len(results)))

\* The n-th answer is to the n-th request that was sent; the requests on their way
\* are those that have no answer yet.
Requests ==
  /\ Len(answers) <= Len(sent)
  /\ \A n \in 1..Len(answers) : answers[n].to = sent[n]
  /\ serverOpen =>
       /\ Len(toServer) = 3 * (Len(sent) - Len(answers))
       /\ \A m \in Nat \ {0}, p \in 1..3 : 3 * (m - 1) + p <= Len(toServer) =>
            toServer[3 * (m - 1) + p] = [of |-> sent[Len(answers) + m], pos |-> p]

\* The answers on their way are those the client was not given yet.
Responses ==
  /\ Given <= Len(answers)
  /\ clientOpen =>
       /\ 3 * Given + Len(toClient) =
            IF answers = <<>> THEN 0 ELSE 3 * (Len(answers) - 1) + written
       /\ \A m \in Nat \ {0}, p \in 1..3 : 3 * (m - 1) + p <= Len(toClient) =>
            toClient[3 * (m - 1) + p] = [of |-> Given + m, pos |-> p]

\* The first k requests got an answer.
Good(rs, k) == \A j \in 1..k : rs[j].state \in {"answer", "wrong_kind"}

\* A result is that of a whole answer, or says that there is none; the n-th whole
\* answer is the n-th answer of the handler.
ResultsInOrder ==
  \A i \in 1..Len(results) :
    /\ results[i].state # "torn"
    /\ results[i].of = 0 <=> results[i].state = "error"
    /\ results[i].of # 0 => results[i].of = Cardinality(GivenUpTo(results, i))

\* As long as no request failed, all of them were sent.
SentInOrder ==
  /\ \A k \in 0..Len(results) : Good(results, k) => k <= Len(sent) /\ \A i \in 1..k : sent[i] = i
  /\ Good(results, Len(results)) => Len(sent) = Len(asked) /\ \A i \in 1..Len(asked) : sent[i] = i

InOrder == Requests /\ Responses /\ ResultsInOrder /\ SentInOrder

Bounds == ServiceTypes /\ References /\ Counts /\ Control

ServiceInv == Bounds /\ (~torn => InOrder)
-----------------------------------------------------------------------------
(* Streams.                                                                *)

\* The first n units of a stream, and the rest.
LEMMA Cut ==
  ASSUME NEW S, NEW s \in Seq(S), NEW n \in 0..Len(s)
  PROVE  /\ SubSeq(s, 1, n) \in Seq(S) /\ Len(SubSeq(s, 1, n)) = n
         /\ \A i \in 1..n : SubSeq(s, 1, n)[i] = s[i]
         /\ SubSeq(s, n + 1, Len(s)) \in Seq(S)
         /\ Len(SubSeq(s, n + 1, Len(s))) = Len(s) - n
         /\ \A i \in 1..(Len(s) - n) : SubSeq(s, n + 1, Len(s))[i] = s[n + i]
<1>1. Len(s) \in Nat /\ \A i \in 1..Len(s) : s[i] \in S
  BY LenProperties, ElementOfSeq
<1>2. \A i \in 1..n : s[i] \in S
  BY <1>1
<1>3. \A i \in (n + 1)..Len(s) : s[i] \in S
  BY <1>1
<1> DEFINE a == SubSeq(s, 1, n)
           b == SubSeq(s, n + 1, Len(s))
<1>4. /\ a \in Seq(S) /\ Len(a) = (IF 1 <= n THEN n - 1 + 1 ELSE 0)
      /\ \A i \in 1..(n - 1 + 1) : a[i] = s[1 + i - 1]
  BY <1>1, <1>2, SubSeqProperties
<1>5. /\ b \in Seq(S)
      /\ Len(b) = (IF n + 1 <= Len(s) THEN Len(s) - (n + 1) + 1 ELSE 0)
      /\ \A i \in 1..(Len(s) - (n + 1) + 1) : b[i] = s[n + 1 + i - 1]
  BY <1>1, <1>3, SubSeqProperties
<1> HIDE DEF a, b
<1>6. Len(a) = n /\ \A i \in 1..n : a[i] = s[i]
  BY <1>1, <1>4
<1>7. Len(b) = Len(s) - n /\ \A i \in 1..(Len(s) - n) : b[i] = s[n + i]
  BY <1>1, <1>5
<1> QED BY <1>4, <1>5, <1>6, <1>7 DEF a, b

LEMMA UnitsType ==
  ASSUME NEW i \in Nat
  PROVE  /\ Units(i) \in Seq(Unit) /\ Len(Units(i)) = 3
         /\ \A p \in 1..3 : Units(i)[p] = [of |-> i, pos |-> p]
<1>1. Units(i) \in [1..3 -> Unit]
  BY DEF Units, Unit
<1>2. Units(i) \in Seq(Unit)
  BY <1>1, 3 \in Nat, SeqDef
<1>3. Len(Units(i)) = 3
  BY <1>2, LenProperties DEF Units
<1> QED BY <1>2, <1>3 DEF Units

\* The end of a message is after at least one unit.
LEMMA EndsNat ==
  ASSUME NEW s \in Seq(Unit), NEW n \in Ends(s)
  PROVE  n \in Nat /\ n >= 1
<1>1. CASE wire = "frames"
  <2>1. s # <<>> /\ n \in {k + 1 : k \in Announced(s[1])}
    BY <1>1 DEF Ends
  <2>2. PICK k \in Announced(s[1]) : n = k + 1
    BY <2>1
  <2>3. k \in Nat
    BY <2>2, ServiceAssumption DEF Announced
  <2> QED BY <2>2, <2>3
<1>2. CASE wire # "frames"
  <2>1. n \in DOMAIN s
    BY <1>2 DEF Ends
  <2> QED BY <2>1, LenProperties
<1> QED BY <1>1, <1>2

\* A stream that starts with a whole message shows its end in one place.
LEMMA WholeFirst ==
  ASSUME NEW s \in Seq(Unit), NEW a \in Nat, Len(s) >= 3,
         \A p \in 1..3 : s[p] = [of |-> a, pos |-> p]
  PROVE  /\ Ends(s) = {3} /\ SubSeq(s, 1, 3) = Units(a)
         /\ Whole(SubSeq(s, 1, 3)) /\ SubSeq(s, 1, 3)[1].of = a
<1>1. Len(s) \in Nat /\ DOMAIN s = 1..Len(s)
  BY LenProperties
<1>2. s[1].pos = 1 /\ s[2].pos = 2 /\ s[3].pos = 3 /\ s[1].of = a
  BY DEF Unit
<1>3. Ends(s) = {3}
  <2>1. CASE wire = "frames"
    <3>1. s # <<>>
      BY <1>1, EmptySeq
    <3>2. Announced(s[1]) = {2}
      BY <1>2 DEF Announced
    <3>3. Ends(s) = {k + 1 : k \in {2}}
      BY <2>1, <3>1, <3>2 DEF Ends
    <3> QED BY <3>3
  <2>2. CASE wire # "frames"
    <3>1. Ends(s) = {p \in 1..Len(s) : s[p].pos = 3 /\ \A q \in 1..(p - 1) : s[q].pos # 3}
      BY <2>2, <1>1 DEF Ends
    <3>2. 3 \in Ends(s)
      <4>1. 3 \in 1..Len(s)
        BY <1>1
      <4>2. \A q \in 1..(3 - 1) : q = 1 \/ q = 2
        OBVIOUS
      <4> QED BY <3>1, <4>1, <4>2, <1>2
    <3>3. ASSUME NEW p \in Ends(s) PROVE p = 3
      <4>1. p \in 1..Len(s) /\ s[p].pos = 3 /\ \A q \in 1..(p - 1) : s[q].pos # 3
        BY <3>1
      <4>2. p # 1 /\ p # 2
        BY <1>2, <4>1
      <4>3. ~(p > 3)
        <5>1. p > 3 => 3 \in 1..(p - 1)
          BY <1>1, <4>1
        <5> QED BY <1>2, <4>1, <5>1
      <4> QED BY <1>1, <4>1, <4>2, <4>3
    <3> QED BY <3>2, <3>3
  <2> QED BY <2>1, <2>2
<1> DEFINE m == SubSeq(s, 1, 3)
<1>4. m \in Seq(Unit) /\ Len(m) = 3 /\ \A p \in 1..3 : m[p] = s[p]
  BY <1>1, Cut
<1>5. m = Units(a)
  <2>1. \A p \in 1..Len(m) : m[p] = Units(a)[p]
    BY <1>4, UnitsType
  <2> HIDE DEF m
  <2> QED BY <1>4, <2>1, UnitsType, SeqEqual
<1>6. m # <<>>
  BY <1>4, EmptySeq
<1>7. m[1].of = a
  BY <1>2, <1>4
<1>8. Whole(m)
  BY <1>5, <1>6, <1>7 DEF Whole
<1> QED BY <1>3, <1>5, <1>7, <1>8

LEMMA NoEnd == Ends(<<>>) = {}
<1>1. CASE wire = "frames"
  BY <1>1 DEF Ends
<1>2. CASE wire # "frames"
  BY <1>2 DEF Ends
<1> QED BY <1>1, <1>2

-----------------------------------------------------------------------------
(* Types and bounds.                                                       *)

LEMMA ServiceStart == Init => ServiceInv
<1> SUFFICES ASSUME Init PROVE ServiceInv
  OBVIOUS
<1>1. ServiceTypes
  <2>1. /\ <<>> \in Seq(Unit) /\ <<>> \in Seq(Commands) /\ <<>> \in Seq(Outcome)
        /\ <<>> \in Seq(Answer) /\ <<>> \in Seq(Nat)
    BY EmptySeq
  <2>2. /\ toServer = <<>> /\ toClient = <<>> /\ clientOpen = TRUE /\ serverOpen = TRUE
        /\ asked = <<>> /\ results = <<>> /\ sent = <<>> /\ torn = FALSE
        /\ writing = FALSE /\ answers = <<>> /\ written = 0
    BY DEF Init
  <2>3. toServer \in Seq(Unit) /\ toClient \in Seq(Unit) /\ asked \in Seq(Commands)
    BY <2>1, <2>2
  <2>4. results \in Seq(Outcome) /\ answers \in Seq(Answer) /\ sent \in Seq(Nat)
    BY <2>1, <2>2
  <2>5. written \in 0..3
    BY <2>2
  <2>6. /\ clientOpen \in BOOLEAN /\ serverOpen \in BOOLEAN /\ writing \in BOOLEAN
        /\ torn \in BOOLEAN
    BY <2>2
  <2> QED BY <2>3, <2>4, <2>5, <2>6 DEF ServiceTypes
<1>2. /\ Len(toServer) = 0 /\ Len(toClient) = 0 /\ Len(asked) = 0 /\ Len(results) = 0
      /\ Len(answers) = 0 /\ Len(sent) = 0
  BY DEF Init
<1>3. References /\ Counts /\ Control
  BY <1>2, ServiceAssumption DEF Init, References, Counts, Control, Waiting
<1>4. GivenUpTo(results, Len(results)) = {}
  BY <1>2 DEF GivenUpTo
<1>5. Given = 0
  BY <1>4, FS_EmptySet DEF Given
<1>6. Requests
  BY <1>2 DEF Requests
<1>7. Responses
  BY <1>2, <1>5 DEF Responses, Init
<1>8. ResultsInOrder /\ SentInOrder
  BY <1>2 DEF ResultsInOrder, SentInOrder
<1> QED BY <1>1, <1>3, <1>6, <1>7, <1>8 DEF ServiceInv, Bounds, InOrder

LEMMA RequestBounds ==
  ASSUME Bounds, NEW cmd \in Commands, NEW n \in 0..3, Request(cmd, n)
  PROVE  Bounds'
<1> DEFINE i == Len(asked) + 1
           units == SubSeq(Units(i), 1, n)
<1>1. /\ ServiceTypes /\ References /\ Counts /\ Control
      /\ Len(asked) \in Nat /\ Len(results) \in Nat /\ Len(answers) \in Nat
      /\ Len(toServer) \in Nat /\ Len(sent) \in Nat /\ Len(toClient) \in Nat
  BY LenProperties DEF Bounds, ServiceTypes
<1>2. /\ ~Waiting /\ clientOpen /\ i <= MaxRequests
      /\ asked' = Append(asked, cmd)
      /\ toServer' = IF serverOpen THEN toServer \o units ELSE toServer
      /\ (n = 3 /\ sent' = Append(sent, i) /\ results' = results)
         \/ (n # 3 /\ results' = Append(results, Error) /\ sent' = sent)
      /\ torn' = (torn \/ n \in 1..2)
      /\ UNCHANGED <<toClient, clientOpen, serverOpen, writing, answers, written>>
  BY DEF Request, server
<1>3. /\ asked' \in Seq(Commands) /\ Len(asked') = i
  BY <1>1, <1>2, AppendProperties DEF ServiceTypes
<1>4. /\ units \in Seq(Unit) /\ Len(units) = n
      /\ \A k \in 1..n : units[k] = [of |-> i, pos |-> k]
  <2>1. /\ Units(i) \in Seq(Unit) /\ Len(Units(i)) = 3
        /\ \A p \in 1..3 : Units(i)[p] = [of |-> i, pos |-> p]
    BY <1>1, UnitsType
  <2>2. units \in Seq(Unit) /\ Len(units) = n /\ \A k \in 1..n : units[k] = Units(i)[k]
    BY <2>1, Cut
  <2>3. \A k \in 1..n : k \in 1..3
    OBVIOUS
  <2> HIDE DEF units, i
  <2> QED BY <2>1, <2>2, <2>3
<1> HIDE DEF units
<1>5. /\ toServer' \in Seq(Unit) /\ Len(toServer') \in Nat /\ Len(toServer') <= Len(toServer) + n
      /\ \A k \in 1..Len(toServer') : toServer'[k].of \in 1..i
  <2>1. CASE serverOpen
    <3>1. /\ toServer \o units \in Seq(Unit) /\ Len(toServer \o units) = Len(toServer) + n
          /\ \A k \in 1..(Len(toServer) + n) : (toServer \o units)[k] =
               IF k <= Len(toServer) THEN toServer[k] ELSE units[k - Len(toServer)]
      BY <1>1, <1>4, ConcatProperties DEF ServiceTypes
    <3>2. ASSUME NEW k \in 1..(Len(toServer) + n) PROVE (toServer \o units)[k].of \in 1..i
      <4>1. CASE k <= Len(toServer)
        <5>1. toServer[k].of \in 1..Len(asked)
          BY <1>1, <4>1 DEF References
        <5> QED BY <1>1, <3>1, <4>1, <5>1, SMTT(30)
      <4>2. CASE ~(k <= Len(toServer))
        <5>1. k - Len(toServer) \in 1..n
          BY <1>1, <4>2
        <5>2. units[k - Len(toServer)].of = i
          BY <1>4, <5>1
        <5> QED BY <1>1, <3>1, <4>2, <5>2, SMTT(30)
      <4> QED BY <4>1, <4>2
    <3> QED BY <1>1, <1>2, <2>1, <3>1, <3>2
  <2>2. CASE ~serverOpen
    <3>1. toServer' = toServer
      BY <1>2, <2>2
    <3>2. \A k \in 1..Len(toServer) : toServer[k].of \in 1..Len(asked)
      BY <1>1 DEF References
    <3>3. 1..Len(asked) \subseteq 1..i
      BY <1>1
    <3> QED BY <1>1, <3>1, <3>2, <3>3 DEF ServiceTypes
  <2> QED BY <2>1, <2>2
<1>6. /\ sent' \in Seq(Nat) /\ \A k \in 1..Len(sent') : sent'[k] \in 1..i
  <2>1. \A k \in 1..Len(sent) : sent[k] \in 1..i
    <3>1. \A k \in 1..Len(sent) : sent[k] \in 1..Len(asked)
      BY <1>1 DEF References
    <3> QED BY <1>1, <3>1
  <2>2. CASE sent' = sent
    BY <1>1, <2>1, <2>2 DEF ServiceTypes
  <2>3. CASE sent' = Append(sent, i)
    <3>1. i \in Nat /\ i \in 1..i
      BY <1>1
    <3>2. /\ sent' \in Seq(Nat) /\ Len(sent') = Len(sent) + 1
          /\ (\A k \in 1..Len(sent) : sent'[k] = sent[k]) /\ sent'[Len(sent) + 1] = i
      BY <1>1, <2>3, <3>1, AppendProperties DEF ServiceTypes
    <3>3. ASSUME NEW k \in 1..(Len(sent) + 1) PROVE sent'[k] \in 1..i
      <4>1. k \in 1..Len(sent) \/ k = Len(sent) + 1
        BY <1>1
      <4> QED BY <2>1, <3>1, <3>2, <4>1
    <3> QED BY <3>2, <3>3
  <2> QED BY <1>2, <2>2, <2>3
<1>7. /\ results' \in Seq(Outcome) /\ Len(results') \in Nat
      /\ \A k \in 1..Len(results') : results'[k].of \in 0..Len(answers)
      /\ Len(results') <= i /\ i <= Len(results') + 1
  <2>0. Len(asked) = Len(results)
    BY <1>1, <1>2 DEF Waiting, Counts
  <2>1. CASE n = 3
    <3>1. results' = results
      BY <1>2, <2>1
    <3> QED BY <1>1, <2>0, <3>1 DEF ServiceTypes, References
  <2>2. CASE n # 3
    <3>1. Error \in Outcome /\ Error.of \in 0..Len(answers)
      BY <1>1 DEF Error, Outcome
    <3>2. results' = Append(results, Error)
      BY <1>2, <2>2
    <3>3. /\ results' \in Seq(Outcome) /\ Len(results') = Len(results) + 1
          /\ (\A k \in 1..Len(results) : results'[k] = results[k])
          /\ results'[Len(results) + 1] = Error
      BY <1>1, <3>1, <3>2, AppendProperties DEF ServiceTypes
    <3>4. ASSUME NEW k \in 1..(Len(results) + 1) PROVE results'[k].of \in 0..Len(answers)
      <4>1. k \in 1..Len(results) \/ k = Len(results) + 1
        BY <1>1
      <4> QED BY <1>1, <3>1, <3>3, <4>1 DEF References
    <3> QED BY <1>1, <2>0, <3>3, <3>4
  <2> QED BY <2>1, <2>2
<1>8. ServiceTypes'
  <2>1. torn' \in BOOLEAN
    BY <1>2
  <2> QED BY <1>1, <1>2, <1>3, <1>5, <1>6, <1>7, <2>1 DEF ServiceTypes
<1>9. References'
  <2>1. \A k \in 1..Len(answers) : answers[k].to \in 0..i
    <3>1. \A k \in 1..Len(answers) : answers[k].to \in 0..Len(asked)
      BY <1>1 DEF References
    <3> QED BY <1>1, <3>1
  <2> HIDE DEF i
  <2> QED BY <1>1, <1>2, <1>3, <1>5, <1>6, <1>7, <2>1 DEF References
<1>10. Counts'
  BY <1>1, <1>2, <1>3, <1>5, <1>7, SMTT(30) DEF Counts
<1>11. Control'
  BY <1>1, <1>2 DEF Control
<1> QED BY <1>8, <1>9, <1>10, <1>11 DEF Bounds

LEMMA ReturnsBounds ==
  ASSUME Bounds, NEW n \in Ends(toClient), Returns(n)
  PROVE  Bounds'
<1> DEFINE m == SubSeq(toClient, 1, n)
           rest == SubSeq(toClient, n + 1, Len(toClient))
<1>1. /\ ServiceTypes /\ References /\ Counts /\ Control
      /\ Len(asked) \in Nat /\ Len(results) \in Nat /\ Len(answers) \in Nat
      /\ Len(toServer) \in Nat /\ Len(sent) \in Nat /\ Len(toClient) \in Nat
  BY LenProperties DEF Bounds, ServiceTypes
<1>2. n \in Nat /\ n >= 1 /\ n <= Len(toClient)
  BY <1>1, EndsNat DEF ServiceTypes, Returns
<1>3. n \in 0..Len(toClient)
  BY <1>1, <1>2
<1>4. PICK result :
        /\ \/ Whole(m) /\ \E kind \in {"answer", "wrong_kind"} : result = [of |-> m[1].of, state |-> kind]
           \/ ~Whole(m) /\ result = Error
           \/ ~Whole(m) /\ result = [of |-> 0, state |-> "torn"]
        /\ results' = Append(results, result)
  BY DEF Returns
<1>5. /\ Waiting /\ toClient' = rest
      /\ UNCHANGED <<toServer, clientOpen, serverOpen, writing, answers, written, asked, sent, torn>>
  BY DEF Returns, server
<1>6. /\ m \in Seq(Unit) /\ Len(m) = n /\ \A i \in 1..n : m[i] = toClient[i]
      /\ rest \in Seq(Unit) /\ Len(rest) = Len(toClient) - n
      /\ \A i \in 1..(Len(toClient) - n) : rest[i] = toClient[n + i]
  BY <1>1, <1>3, Cut, SMTT(30) DEF ServiceTypes
<1> HIDE DEF m, rest
<1>7. result \in Outcome /\ result.of \in 0..Len(answers)
  <2>1. CASE Whole(m)
    <3>1. PICK kind \in {"answer", "wrong_kind"} : result = [of |-> m[1].of, state |-> kind]
      BY <1>4, <2>1
    <3>2. toClient[1].of \in 1..Len(answers)
      BY <1>1, <1>2 DEF References
    <3>3. m[1] = toClient[1]
      <4>1. 1 \in 1..n
        BY <1>2
      <4> QED BY <1>6, <4>1
    <3>4. PICK a \in 1..Len(answers) : m[1].of = a
      BY <3>2, <3>3
    <3>5. result = [of |-> a, state |-> kind] /\ a \in Nat /\ a \in 0..Len(answers)
      BY <1>1, <3>1, <3>4
    <3> QED BY <3>1, <3>5 DEF Outcome
  <2>2. CASE ~Whole(m)
    <3>1. CASE result = Error
      BY <1>1, <3>1 DEF Error, Outcome
    <3>2. CASE result = [of |-> 0, state |-> "torn"]
      BY <1>1, <3>2 DEF Outcome
    <3> QED BY <1>4, <2>2, <3>1, <3>2
  <2> QED BY <2>1, <2>2
<1>8. /\ results' \in Seq(Outcome) /\ Len(results') = Len(results) + 1
      /\ (\A k \in 1..Len(results) : results'[k] = results[k])
      /\ results'[Len(results) + 1] = result
  <2>1. results \in Seq(Outcome) /\ result \in Outcome
    BY <1>1, <1>7 DEF ServiceTypes
  <2>2. results' = Append(results, result)
    BY <1>4
  <2> QED BY <2>1, <2>2, AppendProperties
<1>9. ServiceTypes'
  BY <1>1, <1>5, <1>6, <1>8 DEF ServiceTypes
<1>10. References'
  <2>1. ASSUME NEW i \in 1..Len(toClient') PROVE toClient'[i].of \in 1..Len(answers)
    <3>1. i \in 1..(Len(toClient) - n) /\ n + i \in 1..Len(toClient)
      BY <1>1, <1>2, <1>5, <1>6
    <3> QED BY <1>1, <1>5, <1>6, <3>1 DEF References
  <2>2. ASSUME NEW k \in 1..Len(results') PROVE results'[k].of \in 0..Len(answers)
    <3>1. k \in 1..Len(results) \/ k = Len(results) + 1
      BY <1>1, <1>8
    <3> QED BY <1>1, <1>7, <1>8, <3>1 DEF References
  <2> QED BY <1>1, <1>5, <2>1, <2>2 DEF References
<1>11. Counts'
  BY <1>1, <1>5, <1>8 DEF Counts, Waiting
<1>12. Control'
  BY <1>1, <1>5, <1>8 DEF Control, Waiting, Counts
<1> QED BY <1>9, <1>10, <1>11, <1>12 DEF Bounds

LEMMA GivesUpBounds == ASSUME Bounds, GivesUp PROVE Bounds'
<1>1. /\ ServiceTypes /\ References /\ Counts /\ Control
      /\ Len(asked) \in Nat /\ Len(results) \in Nat /\ Len(answers) \in Nat
  BY LenProperties DEF Bounds, ServiceTypes
<1>2. /\ Waiting /\ results' = Append(results, Error) /\ toClient' = <<>>
      /\ torn' = (torn \/ toClient # <<>>)
      /\ UNCHANGED <<toServer, clientOpen, serverOpen, writing, answers, written, asked, sent>>
  BY DEF GivesUp, server
<1>3. Error \in Outcome /\ Error.of = 0
  BY DEF Error, Outcome
<1>4. /\ results' \in Seq(Outcome) /\ Len(results') = Len(results) + 1
      /\ (\A k \in 1..Len(results) : results'[k] = results[k])
      /\ results'[Len(results) + 1] = Error
  BY <1>1, <1>2, <1>3, AppendProperties DEF ServiceTypes
<1>5. toClient' \in Seq(Unit) /\ Len(toClient') = 0
  BY <1>2, EmptySeq
<1>6. ServiceTypes'
  BY <1>1, <1>2, <1>4, <1>5 DEF ServiceTypes
<1>7. References'
  <2>1. ASSUME NEW k \in 1..Len(results') PROVE results'[k].of \in 0..Len(answers)
    <3>1. k \in 1..Len(results) \/ k = Len(results) + 1
      BY <1>1, <1>4
    <3> QED BY <1>1, <1>3, <1>4, <3>1 DEF References
  <2> QED BY <1>1, <1>2, <1>5, <2>1 DEF References
<1>8. Counts'
  BY <1>1, <1>2, <1>4 DEF Counts, Waiting
<1>9. Control'
  BY <1>1, <1>2, <1>4 DEF Control, Waiting, Counts
<1> QED BY <1>6, <1>7, <1>8, <1>9 DEF Bounds

LEMMA DispatchedNat ==
  ASSUME ServiceTypes, NEW n \in Dispatched
  PROVE  Reading /\ n \in 1..Len(toServer)
<1>1. toServer \in Seq(Unit) /\ Len(toServer) \in Nat
  BY LenProperties DEF ServiceTypes
<1>2. CASE n \in Ends(toServer) /\ Reading /\ n <= Len(toServer)
  BY <1>1, <1>2, EndsNat
<1>3. CASE n = Len(toServer) /\ CutOff
  <2>1. Reading /\ toServer # <<>>
    BY <1>3 DEF CutOff, AtEnd
  <2>2. Len(toServer) # 0
    BY <1>1, <2>1, EmptySeq
  <2> QED BY <1>1, <1>3, <2>1, <2>2
<1> QED BY <1>2, <1>3 DEF Dispatched

LEMMA DispatchBounds ==
  ASSUME Bounds, NEW n \in Dispatched, NEW kind \in {"json", "raw", "arrow", "panic"},
         Dispatch(n, kind)
  PROVE  Bounds'
<1> DEFINE m == SubSeq(toServer, 1, n)
           rest == SubSeq(toServer, n + 1, Len(toServer))
           answer == [to |-> IF Whole(m) THEN m[1].of ELSE 0, kind |-> kind]
<1>1. /\ ServiceTypes /\ References /\ Counts /\ Control
      /\ Len(asked) \in Nat /\ Len(results) \in Nat /\ Len(answers) \in Nat
      /\ Len(toServer) \in Nat /\ Len(sent) \in Nat /\ Len(toClient) \in Nat
  BY LenProperties DEF Bounds, ServiceTypes
<1>2. Reading /\ n \in 1..Len(toServer) /\ n \in 0..Len(toServer)
  BY <1>1, DispatchedNat
<1>3. /\ toServer' = rest
      /\ \/ kind = "panic" /\ serverOpen' = FALSE /\ writing' = FALSE /\ UNCHANGED <<answers, written>>
         \/ /\ kind # "panic" /\ answers' = Append(answers, answer)
            /\ writing' = TRUE /\ written' = 0 /\ UNCHANGED serverOpen
      /\ UNCHANGED <<toClient, clientOpen, asked, results, sent, torn>>
  BY DEF Dispatch, Hangup, client
<1>4. /\ m \in Seq(Unit) /\ Len(m) = n /\ \A i \in 1..n : m[i] = toServer[i]
      /\ rest \in Seq(Unit) /\ Len(rest) = Len(toServer) - n
      /\ \A i \in 1..(Len(toServer) - n) : rest[i] = toServer[n + i]
  BY <1>1, <1>2, Cut, SMTT(30) DEF ServiceTypes
<1> HIDE DEF rest
<1>5. answer.to \in 0..Len(asked) /\ answer.kind = kind
      /\ (kind # "panic" => answer \in Answer)
  <2>1. m[1].of \in 1..Len(asked)
    <3>1. m[1] = toServer[1] /\ 1 \in 1..Len(toServer)
      BY <1>1, <1>2, <1>4
    <3> QED BY <1>1, <3>1 DEF References
  <2> HIDE DEF m
  <2>2. answer.to \in 0..Len(asked) /\ answer.to \in Nat
    BY <1>1, <2>1
  <2> QED BY <2>2 DEF Answer
<1> HIDE DEF answer, m
<1>6. \A i \in 1..Len(toServer') : toServer'[i].of \in 1..Len(asked)
  <2> SUFFICES ASSUME NEW i \in 1..Len(toServer') PROVE toServer'[i].of \in 1..Len(asked)
    OBVIOUS
  <2>1. i \in 1..(Len(toServer) - n) /\ n + i \in 1..Len(toServer)
    BY <1>1, <1>2, <1>3, <1>4
  <2> QED BY <1>1, <1>3, <1>4, <2>1 DEF References
<1>7. CASE kind = "panic"
  <2>1. /\ serverOpen' = FALSE /\ writing' = FALSE /\ UNCHANGED <<answers, written>>
    BY <1>3, <1>7
  <2>2. ServiceTypes'
    BY <1>1, <1>3, <1>4, <2>1 DEF ServiceTypes
  <2>3. References'
    BY <1>1, <1>3, <1>6, <2>1 DEF References
  <2>4. Counts'
    BY <1>1, <1>2, <1>3, <1>4, <2>1 DEF Counts
  <2>5. Control'
    BY <1>1, <1>3, <2>1 DEF Control, Waiting
  <2> QED BY <2>2, <2>3, <2>4, <2>5 DEF Bounds
<1>8. CASE kind # "panic"
  <2>1. /\ answers' = Append(answers, answer) /\ answer \in Answer
        /\ writing' = TRUE /\ written' = 0 /\ UNCHANGED serverOpen
    BY <1>3, <1>5, <1>8
  <2>2. /\ answers' \in Seq(Answer) /\ Len(answers') = Len(answers) + 1 /\ answers' # <<>>
        /\ (\A k \in 1..Len(answers) : answers'[k] = answers[k])
        /\ answers'[Len(answers) + 1] = answer
    <3>1. answers \in Seq(Answer)
      BY <1>1 DEF ServiceTypes
    <3> QED BY <2>1, <3>1, AppendProperties
  <2>3. ServiceTypes'
    BY <1>1, <1>3, <1>4, <2>1, <2>2 DEF ServiceTypes
  <2>4. References'
    <3>1. ASSUME NEW k \in 1..Len(answers') PROVE answers'[k].to \in 0..Len(asked)
      <4>1. k \in 1..Len(answers) \/ k = Len(answers) + 1
        BY <1>1, <2>2
      <4> QED BY <1>1, <1>5, <2>2, <4>1 DEF References
    <3>2. \A i \in 1..Len(toClient) : toClient[i].of \in 1..Len(answers')
      <4>1. \A i \in 1..Len(toClient) : toClient[i].of \in 1..Len(answers)
        BY <1>1 DEF References
      <4> QED BY <1>1, <2>2, <4>1
    <3>3. \A i \in 1..Len(results) : results[i].of \in 0..Len(answers')
      <4>1. \A i \in 1..Len(results) : results[i].of \in 0..Len(answers)
        BY <1>1 DEF References
      <4> QED BY <1>1, <2>2, <4>1
    <3> QED BY <1>1, <1>3, <1>6, <3>1, <3>2, <3>3 DEF References
  <2>5. Counts'
    BY <1>1, <1>2, <1>3, <1>4, <2>2 DEF Counts
  <2>6. Control'
    BY <1>1, <1>2, <1>3, <2>1, <2>2 DEF Control, Waiting, Reading
  <2> QED BY <2>3, <2>4, <2>5, <2>6 DEF Bounds
<1> QED BY <1>7, <1>8

LEMMA WriteBounds == ASSUME Bounds, Write PROVE Bounds'
<1> DEFINE unit == Units(Len(answers))[written + 1]
<1>1. /\ ServiceTypes /\ References /\ Counts /\ Control
      /\ Len(asked) \in Nat /\ Len(results) \in Nat /\ Len(answers) \in Nat
      /\ Len(toServer) \in Nat /\ Len(sent) \in Nat /\ Len(toClient) \in Nat
  BY LenProperties DEF Bounds, ServiceTypes
<1>2. /\ writing /\ toClient' = IF clientOpen THEN Append(toClient, unit) ELSE toClient
      /\ written' = written + 1 /\ writing' = (written < 2)
      /\ UNCHANGED <<toServer, clientOpen, asked, results, sent, torn, serverOpen, answers>>
  BY DEF Write, client
<1>3. serverOpen /\ written \in 0..2 /\ written + 1 \in 1..3 /\ answers # <<>> /\ Len(answers) >= 1
  <2>1. Len(answers) # 0
    BY <1>1, <1>2, EmptySeq DEF Control, ServiceTypes
  <2> QED BY <1>1, <1>2, <2>1 DEF Control, ServiceTypes
<1>4. unit = [of |-> Len(answers), pos |-> written + 1]
  BY <1>1, <1>3, UnitsType
<1>5. unit \in Unit /\ unit.of \in 1..Len(answers)
  BY <1>1, <1>3, <1>4 DEF Unit
<1> HIDE DEF unit
<1>6. /\ toClient' \in Seq(Unit) /\ Len(toClient') \in Nat
      /\ \A i \in 1..Len(toClient') : toClient'[i].of \in 1..Len(answers)
  <2>1. CASE clientOpen
    <3>1. /\ toClient' \in Seq(Unit) /\ Len(toClient') = Len(toClient) + 1
          /\ (\A k \in 1..Len(toClient) : toClient'[k] = toClient[k])
          /\ toClient'[Len(toClient) + 1] = unit
      BY <1>1, <1>2, <1>5, <2>1, AppendProperties DEF ServiceTypes
    <3>2. ASSUME NEW i \in 1..Len(toClient') PROVE toClient'[i].of \in 1..Len(answers)
      <4>1. i \in 1..Len(toClient) \/ i = Len(toClient) + 1
        BY <1>1, <3>1
      <4> QED BY <1>1, <1>5, <3>1, <4>1 DEF References
    <3> QED BY <1>1, <3>1, <3>2
  <2>2. CASE ~clientOpen
    <3>1. toClient' = toClient
      BY <1>2, <2>2
    <3> QED BY <1>1, <3>1 DEF ServiceTypes, References
  <2> QED BY <2>1, <2>2
<1>7. ServiceTypes'
  BY <1>1, <1>2, <1>3, <1>6 DEF ServiceTypes
<1>8. References'
  BY <1>1, <1>2, <1>6 DEF References
<1>9. Counts'
  BY <1>1, <1>2 DEF Counts
<1>10. Control'
  <2>1. writing' => serverOpen' /\ written' < 3 /\ answers' # <<>>
    <3>1. CASE written < 2
      BY <1>2, <1>3, <3>1
    <3>2. CASE ~(written < 2)
      BY <1>2, <3>2
    <3> QED BY <3>1, <3>2
  <2>2. ~writing' => written' = 3
    <3>1. CASE written < 2
      BY <1>2, <3>1
    <3>2. CASE ~(written < 2)
      BY <1>2, <1>3, <3>2
    <3> QED BY <3>1, <3>2
  <2>3. ~clientOpen' => ~Waiting'
    BY <1>1, <1>2 DEF Control, Waiting
  <2> QED BY <2>1, <2>2, <2>3 DEF Control
<1> QED BY <1>7, <1>8, <1>9, <1>10 DEF Bounds

\* Steps that only close an end of the connection, or change nothing.
Closes ==
  /\ UNCHANGED <<toServer, toClient, asked, results, sent, torn, answers, written>>
  /\ \/ serverOpen' = FALSE /\ writing' = FALSE /\ UNCHANGED clientOpen
     \/ ~Waiting /\ clientOpen' = FALSE /\ UNCHANGED <<serverOpen, writing>>
     \/ UNCHANGED <<clientOpen, serverOpen, writing>>

LEMMA ClosesBounds == ASSUME Bounds, Closes PROVE Bounds'
<1>1. ServiceTypes /\ References /\ Counts /\ Control
  BY DEF Bounds
<1>2. ServiceTypes'
  BY <1>1 DEF ServiceTypes, Closes
<1>3. References'
  BY <1>1 DEF References, Closes
<1>4. Counts'
  BY <1>1 DEF Counts, Closes
<1>5. Control'
  BY <1>1 DEF Control, Closes, Waiting
<1> QED BY <1>2, <1>3, <1>4, <1>5 DEF Bounds

-----------------------------------------------------------------------------
(* The order of the results.                                               *)

LEMMA GivenFinite ==
  ASSUME NEW i \in Nat
  PROVE  IsFiniteSet(GivenUpTo(results, i)) /\ Cardinality(GivenUpTo(results, i)) \in Nat
<1>1. IsFiniteSet(1..i)
  BY FS_Interval
<1>2. GivenUpTo(results, i) \in SUBSET (1..i)
  BY DEF GivenUpTo
<1>3. IsFiniteSet(GivenUpTo(results, i))
  BY <1>1, <1>2, FS_Subset
<1> QED BY <1>3, FS_CardinalityType

\* One more result leaves those before it alone.
LEMMA Appended ==
  ASSUME ServiceTypes, NEW r \in Outcome, results' = Append(results, r),
         NEW n \in Nat, n = Len(results)
  PROVE  /\ Len(results') = n + 1
         /\ \A k \in 1..n : results'[k] = results[k]
         /\ results'[n + 1] = r
         /\ \A i \in 1..n : GivenUpTo(results', i) = GivenUpTo(results, i)
         /\ \A k \in 0..n : Good(results', k) <=> Good(results, k)
         /\ Good(results', n + 1) <=> Good(results, n) /\ r.state \in {"answer", "wrong_kind"}
         /\ Given \in Nat
         /\ Given' = IF r.of # 0 THEN Given + 1 ELSE Given
         /\ Cardinality(GivenUpTo(results', n + 1)) = Given'
<1>1. /\ Len(results') = n + 1
      /\ \A k \in 1..n : results'[k] = results[k]
      /\ results'[n + 1] = r
  BY AppendProperties DEF ServiceTypes
<1>2. ASSUME NEW i \in 1..n PROVE GivenUpTo(results', i) = GivenUpTo(results, i)
  <2>1. \A j \in 1..i : j \in 1..n
    OBVIOUS
  <2> QED BY <1>1, <2>1 DEF GivenUpTo
<1>3. ASSUME NEW k \in 0..n PROVE Good(results', k) <=> Good(results, k)
  <2>1. \A j \in 1..k : j \in 1..n
    OBVIOUS
  <2> QED BY <1>1, <2>1 DEF Good
<1>4. Good(results', n + 1) <=> Good(results, n) /\ r.state \in {"answer", "wrong_kind"}
  <2>1. \A j : j \in 1..(n + 1) <=> j \in 1..n \/ j = n + 1
    OBVIOUS
  <2>2. (\A j \in 1..(n + 1) : results'[j].state \in {"answer", "wrong_kind"})
          <=> (\A j \in 1..n : results'[j].state \in {"answer", "wrong_kind"})
              /\ results'[n + 1].state \in {"answer", "wrong_kind"}
    BY <2>1
  <2>3. (\A j \in 1..n : results'[j].state \in {"answer", "wrong_kind"}) <=> Good(results, n)
    BY <1>1 DEF Good
  <2> QED BY <1>1, <2>2, <2>3 DEF Good
<1>5. GivenUpTo(results', n + 1) = IF r.of # 0 THEN GivenUpTo(results, n) \cup {n + 1} ELSE GivenUpTo(results, n)
  <2>1. \A j : j \in 1..(n + 1) <=> j \in 1..n \/ j = n + 1
    OBVIOUS
  <2> QED BY <1>1, <2>1 DEF GivenUpTo
<1>6. IsFiniteSet(GivenUpTo(results, n)) /\ Cardinality(GivenUpTo(results, n)) \in Nat /\ n + 1 \notin GivenUpTo(results, n)
  <2>1. n + 1 \notin 1..n
    OBVIOUS
  <2> QED BY <2>1, GivenFinite DEF GivenUpTo
<1>7. Given = Cardinality(GivenUpTo(results, n)) /\ Given' = Cardinality(GivenUpTo(results', n + 1))
  BY <1>1 DEF Given
<1>8. Cardinality(GivenUpTo(results', n + 1)) = IF r.of # 0 THEN Given + 1 ELSE Given
  <2> DEFINE G == GivenUpTo(results, n)
  <2>1. Cardinality(G \cup {n + 1}) = Cardinality(G) + 1
    <3> HIDE DEF G
    <3> QED BY <1>6, FS_AddElement DEF G
  <2>2. CASE r.of # 0
    BY <1>5, <1>7, <2>1, <2>2
  <2>3. CASE r.of = 0
    BY <1>5, <1>7, <2>3
  <2> QED BY <2>2, <2>3
<1> QED BY <1>1, <1>2, <1>3, <1>4, <1>6, <1>7, <1>8

\* A request that fails.
LEMMA FailedInOrder ==
  ASSUME ServiceTypes, ResultsInOrder, SentInOrder, results' = Append(results, Error), sent' = sent
  PROVE  Given' = Given /\ ResultsInOrder' /\ SentInOrder'
<1>1. Error \in Outcome /\ Error.of = 0 /\ Error.state = "error"
  BY DEF Error, Outcome
<1>2. PICK n \in Nat : n = Len(results)
  BY LenProperties DEF ServiceTypes
<1>3. /\ Len(results') = n + 1
      /\ \A k \in 1..n : results'[k] = results[k]
      /\ results'[n + 1] = Error
      /\ \A i \in 1..n : GivenUpTo(results', i) = GivenUpTo(results, i)
      /\ \A k \in 0..n : Good(results', k) <=> Good(results, k)
      /\ ~Good(results', n + 1) /\ Given' = Given
  BY <1>1, <1>2, Appended
<1>4. ResultsInOrder'
  <2> SUFFICES ASSUME NEW i \in 1..(n + 1)
               PROVE  /\ results'[i].state # "torn"
                      /\ results'[i].of = 0 <=> results'[i].state = "error"
                      /\ results'[i].of # 0 => results'[i].of = Cardinality(GivenUpTo(results', i))
    BY <1>3 DEF ResultsInOrder
  <2>1. CASE i \in 1..n
    <3>1. results'[i] = results[i] /\ GivenUpTo(results', i) = GivenUpTo(results, i)
      BY <1>2, <1>3, <2>1
    <3>2. /\ results[i].state # "torn"
          /\ results[i].of = 0 <=> results[i].state = "error"
          /\ results[i].of # 0 => results[i].of = Cardinality(GivenUpTo(results, i))
      BY <1>2, <1>3, <2>1 DEF ResultsInOrder
    <3> QED BY <3>1, <3>2
  <2>2. CASE i = n + 1
    BY <1>1, <1>3, <2>2
  <2>3. i \in 1..n \/ i = n + 1
    OBVIOUS
  <2> QED BY <2>1, <2>2, <2>3
<1>5. SentInOrder'
  <2>1. ASSUME NEW k \in 0..(n + 1), Good(results', k) PROVE k <= Len(sent) /\ \A i \in 1..k : sent[i] = i
    <3>1. k \in 0..n
      BY <1>3, <2>1
    <3> QED BY <1>2, <1>3, <2>1, <3>1 DEF SentInOrder
  <2> QED BY <1>3, <2>1 DEF SentInOrder
<1> QED BY <1>3, <1>4, <1>5

\* A request that is given a whole answer.
LEMMA GivenInOrder ==
  ASSUME ServiceTypes, ResultsInOrder, SentInOrder, Waiting, Counts, UNCHANGED <<asked, sent>>,
         NEW kind \in {"answer", "wrong_kind"},
         results' = Append(results, [of |-> Given + 1, state |-> kind])
  PROVE  Given' = Given + 1 /\ ResultsInOrder' /\ SentInOrder'
<1> DEFINE r == [of |-> Given + 1, state |-> kind]
<1>1. PICK n \in Nat : n = Len(results)
  BY LenProperties DEF ServiceTypes
<1>2. Given \in Nat
  BY <1>1, GivenFinite DEF Given
<1>3. r \in Outcome /\ r.of = Given + 1 /\ r.of # 0 /\ r.state = kind
  BY <1>2 DEF Outcome
<1> HIDE DEF r
<1>4. results' = Append(results, r)
  BY DEF r
<1>5. /\ Len(results') = n + 1
      /\ \A k \in 1..n : results'[k] = results[k]
      /\ results'[n + 1] = r
      /\ \A i \in 1..n : GivenUpTo(results', i) = GivenUpTo(results, i)
      /\ \A k \in 0..n : Good(results', k) <=> Good(results, k)
      /\ Good(results', n + 1) <=> Good(results, n)
      /\ Given' = Given + 1 /\ Cardinality(GivenUpTo(results', n + 1)) = Given'
  BY <1>1, <1>3, <1>4, Appended
<1>6. ResultsInOrder'
  <2> SUFFICES ASSUME NEW i \in 1..(n + 1)
               PROVE  /\ results'[i].state # "torn"
                      /\ results'[i].of = 0 <=> results'[i].state = "error"
                      /\ results'[i].of # 0 => results'[i].of = Cardinality(GivenUpTo(results', i))
    BY <1>5 DEF ResultsInOrder
  <2>1. CASE i \in 1..n
    <3>1. results'[i] = results[i] /\ GivenUpTo(results', i) = GivenUpTo(results, i)
      BY <1>1, <1>5, <2>1
    <3>2. /\ results[i].state # "torn"
          /\ results[i].of = 0 <=> results[i].state = "error"
          /\ results[i].of # 0 => results[i].of = Cardinality(GivenUpTo(results, i))
      BY <1>1, <1>5, <2>1 DEF ResultsInOrder
    <3> QED BY <3>1, <3>2
  <2>2. CASE i = n + 1
    BY <1>3, <1>5, <2>2
  <2>3. i \in 1..n \/ i = n + 1
    OBVIOUS
  <2> QED BY <2>1, <2>2, <2>3
<1>7. Len(asked) = n + 1
  BY <1>1, LenProperties DEF ServiceTypes, Waiting, Counts
<1>8. SentInOrder'
  <2>1. ASSUME NEW k \in 0..(n + 1), Good(results', k) PROVE k <= Len(sent) /\ \A i \in 1..k : sent[i] = i
    <3>1. CASE k \in 0..n
      BY <1>1, <1>5, <2>1, <3>1 DEF SentInOrder
    <3>2. CASE k = n + 1
      <4>1. Good(results, n)
        BY <1>5, <2>1, <3>2
      <4>2. Len(sent) = Len(asked) /\ \A i \in 1..Len(asked) : sent[i] = i
        BY <1>1, <4>1 DEF SentInOrder
      <4> QED BY <1>7, <3>2, <4>2
    <3> QED BY <3>1, <3>2
  <2>2. ASSUME Good(results', n + 1) PROVE Len(sent) = Len(asked) /\ \A i \in 1..Len(asked) : sent[i] = i
    BY <1>1, <1>5, <2>2 DEF SentInOrder
  <2> QED BY <1>5, <2>1, <2>2 DEF SentInOrder
<1> QED BY <1>5, <1>6, <1>8

-----------------------------------------------------------------------------
(* The order of the streams, one step after the other.                     *)

\* Steps that leave the client's requests and results alone.
LEMMA SameResults ==
  ASSUME UNCHANGED <<asked, results, sent>>, InOrder
  PROVE  Given' = Given /\ ResultsInOrder' /\ SentInOrder'
<1>1. Given' = Given
  BY DEF Given
<1>2. ResultsInOrder'
  BY DEF ResultsInOrder, InOrder
<1>3. SentInOrder'
  BY DEF SentInOrder, InOrder
<1> QED BY <1>1, <1>2, <1>3

\* A stream of whole messages that is not empty has one at its start.
LEMMA FirstRequest ==
  ASSUME Bounds, Requests, serverOpen, toServer # <<>>
  PROVE  /\ Len(answers) + 1 <= Len(sent) /\ Len(toServer) >= 3
         /\ Ends(toServer) = {3} /\ Whole(SubSeq(toServer, 1, 3))
         /\ SubSeq(toServer, 1, 3)[1].of = sent[Len(answers) + 1]
<1>1. /\ Len(toServer) \in Nat /\ Len(answers) \in Nat /\ Len(sent) \in Nat
      /\ toServer \in Seq(Unit) /\ sent \in Seq(Nat)
  BY LenProperties DEF Bounds, ServiceTypes
<1>2. Len(toServer) # 0
  BY <1>1, EmptySeq
<1>3. Len(answers) + 1 <= Len(sent) /\ Len(toServer) >= 3
  BY <1>1, <1>2 DEF Requests
<1>4. sent[Len(answers) + 1] \in Nat
  BY <1>1, <1>3, ElementOfSeq
<1>5. ASSUME NEW p \in 1..3 PROVE toServer[p] = [of |-> sent[Len(answers) + 1], pos |-> p]
  <2>1. /\ 1 \in Nat \ {0} /\ 3 * (1 - 1) + p = p /\ p <= Len(toServer)
    BY <1>1, <1>3
  <2>2. \A m \in Nat \ {0}, q \in 1..3 : 3 * (m - 1) + q <= Len(toServer) =>
          toServer[3 * (m - 1) + q] = [of |-> sent[Len(answers) + m], pos |-> q]
    BY DEF Requests
  <2>3. 3 * (1 - 1) + p <= Len(toServer) =>
          toServer[3 * (1 - 1) + p] = [of |-> sent[Len(answers) + 1], pos |-> p]
    BY <2>1, <2>2
  <2> QED BY <2>1, <2>3
<1> QED BY <1>1, <1>3, <1>4, <1>5, WholeFirst

LEMMA FirstAnswer ==
  ASSUME Bounds, Responses, clientOpen, Len(toClient) >= 3
  PROVE  /\ Ends(toClient) = {3} /\ SubSeq(toClient, 1, 3) = Units(Given + 1)
         /\ Whole(SubSeq(toClient, 1, 3)) /\ SubSeq(toClient, 1, 3)[1].of = Given + 1
<1>1. /\ Len(toClient) \in Nat /\ toClient \in Seq(Unit) /\ Len(results) \in Nat
  BY LenProperties DEF Bounds, ServiceTypes
<1>2. Given \in Nat /\ Given + 1 \in Nat
  <2>1. Given \in Nat
    BY <1>1, GivenFinite DEF Given
  <2> QED BY <2>1
<1>3. ASSUME NEW p \in 1..3 PROVE toClient[p] = [of |-> Given + 1, pos |-> p]
  <2>1. /\ 1 \in Nat \ {0} /\ 3 * (1 - 1) + p = p /\ p <= Len(toClient)
    BY <1>1
  <2>2. \A m \in Nat \ {0}, q \in 1..3 : 3 * (m - 1) + q <= Len(toClient) =>
          toClient[3 * (m - 1) + q] = [of |-> Given + m, pos |-> q]
    BY DEF Responses
  <2>3. 3 * (1 - 1) + p <= Len(toClient) =>
          toClient[3 * (1 - 1) + p] = [of |-> Given + 1, pos |-> p]
    BY <2>1, <2>2
  <2> QED BY <2>1, <2>3
<1> QED BY <1>1, <1>2, <1>3, WholeFirst

\* Less than a whole message shows no end that has come.
LEMMA NoEarlyEnd ==
  ASSUME NEW s \in Seq(Unit), NEW n \in Ends(s), n <= Len(s), Len(s) < 3,
         \A p \in 1..Len(s) : s[p].pos = p
  PROVE  FALSE
<1>1. Len(s) \in Nat /\ n \in Nat /\ n >= 1
  BY EndsNat, LenProperties
<1>2. CASE wire = "frames"
  <2>1. s # <<>> /\ n \in {k + 1 : k \in Announced(s[1])}
    BY <1>2 DEF Ends
  <2>2. s[1].pos = 1
    BY <1>1
  <2>3. Announced(s[1]) = {2}
    BY <2>2 DEF Announced
  <2> QED BY <1>1, <2>1, <2>3
<1>3. CASE wire # "frames"
  <2>1. s[n].pos = 3
    BY <1>3 DEF Ends
  <2> QED BY <1>1, <2>1
<1> QED BY <1>2, <1>3

LEMMA RequestOrder ==
  ASSUME Bounds, InOrder, NEW cmd \in Commands, NEW n \in 0..3, Request(cmd, n), ~torn'
  PROVE  InOrder'
<1> DEFINE i == Len(asked) + 1
           units == SubSeq(Units(i), 1, n)
<1>1. /\ ServiceTypes /\ Counts /\ Requests /\ Responses /\ ResultsInOrder /\ SentInOrder
      /\ Len(asked) \in Nat /\ Len(results) \in Nat /\ Len(answers) \in Nat
      /\ Len(toServer) \in Nat /\ Len(sent) \in Nat
  BY LenProperties DEF Bounds, ServiceTypes, InOrder
<1>2. /\ ~Waiting
      /\ asked' = Append(asked, cmd)
      /\ toServer' = IF serverOpen THEN toServer \o units ELSE toServer
      /\ (n = 3 /\ sent' = Append(sent, i) /\ results' = results)
         \/ (n # 3 /\ results' = Append(results, Error) /\ sent' = sent)
      /\ n \notin 1..2
      /\ UNCHANGED <<toClient, clientOpen, serverOpen, answers, written>>
  BY DEF Request, server
<1>3. /\ units \in Seq(Unit) /\ Len(units) = n
      /\ \A k \in 1..n : units[k] = [of |-> i, pos |-> k]
  <2>1. /\ Units(i) \in Seq(Unit) /\ Len(Units(i)) = 3
        /\ \A p \in 1..3 : Units(i)[p] = [of |-> i, pos |-> p]
    BY <1>1, UnitsType
  <2>2. units \in Seq(Unit) /\ Len(units) = n /\ \A k \in 1..n : units[k] = Units(i)[k]
    BY <2>1, Cut
  <2>3. \A k \in 1..n : k \in 1..3
    OBVIOUS
  <2> HIDE DEF units, i
  <2> QED BY <2>1, <2>2, <2>3
<1> HIDE DEF units
<1>4. CASE n = 0
  <2>1. results' = Append(results, Error) /\ sent' = sent
    BY <1>2, <1>4
  <2>2. Given' = Given /\ ResultsInOrder' /\ SentInOrder'
    BY <1>1, <2>1, FailedInOrder
  <2>3. toServer' = toServer
    <3>1. Len(units) = 0
      BY <1>3, <1>4
    <3>2. units = <<>>
      BY <1>3, <3>1, EmptySeq
    <3> QED BY <1>1, <1>2, <3>2, ConcatEmptySeq DEF ServiceTypes
  <2>4. Requests'
    BY <1>1, <1>2, <2>1, <2>3 DEF Requests
  <2>5. Responses'
    BY <1>1, <1>2, <2>2 DEF Responses
  <2> QED BY <2>2, <2>4, <2>5 DEF InOrder
<1>5. CASE n = 3
  <2>1. sent' = Append(sent, i) /\ results' = results
    BY <1>2, <1>5
  <2>2. Given' = Given
    BY <2>1 DEF Given
  <2>3. /\ Len(sent') = Len(sent) + 1 /\ sent'[Len(sent) + 1] = i
        /\ \A k \in 1..Len(sent) : sent'[k] = sent[k]
    <3>1. i \in Nat
      BY <1>1
    <3> QED BY <1>1, <2>1, <3>1, AppendProperties DEF ServiceTypes
  <2>4. Len(asked') = i
    BY <1>1, <1>2, AppendProperties DEF ServiceTypes
  <2>5. Len(asked) = Len(results)
    BY <1>1, <1>2 DEF Waiting, Counts
  <2>6. ResultsInOrder'
    BY <1>1, <2>1 DEF ResultsInOrder
  <2>7. SentInOrder'
    <3>1. ASSUME NEW k \in 0..Len(results), Good(results, k)
          PROVE  k <= Len(sent') /\ \A j \in 1..k : sent'[j] = j
      <4>1. k <= Len(sent) /\ \A j \in 1..k : sent[j] = j
        BY <1>1, <3>1 DEF SentInOrder
      <4>2. \A j \in 1..k : j \in 1..Len(sent)
        BY <1>1, <4>1
      <4> QED BY <1>1, <2>3, <4>1, <4>2
    <3>2. ASSUME Good(results, Len(results))
          PROVE  Len(sent') = i /\ \A j \in 1..i : sent'[j] = j
      <4>1. Len(sent) = Len(asked) /\ \A j \in 1..Len(asked) : sent[j] = j
        BY <1>1, <3>2 DEF SentInOrder
      <4>2. \A j \in 1..i : j \in 1..Len(sent) \/ j = Len(sent) + 1
        BY <1>1, <4>1
      <4> QED BY <1>1, <2>3, <4>1, <4>2
    <3> QED BY <2>1, <2>4, <3>1, <3>2 DEF SentInOrder
  <2>8. Requests'
    <3>1. /\ Len(answers) <= Len(sent) /\ \A k \in 1..Len(answers) : answers[k].to = sent[k]
      BY <1>1 DEF Requests
    <3>2. Len(answers) <= Len(sent') /\ \A k \in 1..Len(answers) : answers[k].to = sent'[k]
      <4>1. \A k \in 1..Len(answers) : k \in 1..Len(sent)
        BY <1>1, <3>1
      <4> QED BY <1>1, <2>3, <3>1, <4>1
    <3>3. ASSUME serverOpen
          PROVE  /\ Len(toServer') = 3 * (Len(sent') - Len(answers))
                 /\ \A m \in Nat \ {0}, p \in 1..3 : 3 * (m - 1) + p <= Len(toServer') =>
                      toServer'[3 * (m - 1) + p] = [of |-> sent'[Len(answers) + m], pos |-> p]
      <4>1. /\ Len(toServer) = 3 * (Len(sent) - Len(answers))
            /\ \A m \in Nat \ {0}, p \in 1..3 : 3 * (m - 1) + p <= Len(toServer) =>
                 toServer[3 * (m - 1) + p] = [of |-> sent[Len(answers) + m], pos |-> p]
        BY <1>1, <3>3 DEF Requests
      <4>2. /\ Len(toServer') = Len(toServer) + 3
            /\ \A k \in 1..(Len(toServer) + 3) : toServer'[k] =
                 IF k <= Len(toServer) THEN toServer[k] ELSE units[k - Len(toServer)]
        <5>1. toServer' = toServer \o units
          BY <1>2, <3>3
        <5>2. toServer \in Seq(Unit) /\ units \in Seq(Unit) /\ Len(units) = 3
          BY <1>1, <1>3, <1>5 DEF ServiceTypes
        <5>3. /\ Len(toServer \o units) = Len(toServer) + Len(units)
              /\ \A k \in 1..(Len(toServer) + Len(units)) : (toServer \o units)[k] =
                   IF k <= Len(toServer) THEN toServer[k] ELSE units[k - Len(toServer)]
          BY <5>2, ConcatProperties
        <5> QED BY <5>1, <5>2, <5>3
      <4>3. Len(toServer') = 3 * (Len(sent') - Len(answers))
        BY <1>1, <2>3, <4>1, <4>2
      <4>4. ASSUME NEW m \in Nat \ {0}, NEW p \in 1..3, 3 * (m - 1) + p <= Len(toServer')
            PROVE  toServer'[3 * (m - 1) + p] = [of |-> sent'[Len(answers) + m], pos |-> p]
        <5> DEFINE k == 3 * (m - 1) + p
        <5>1. k \in 1..(Len(toServer) + 3)
          BY <1>1, <4>2, <4>4
        <5>2. CASE k <= Len(toServer)
          <6>1. Len(answers) + m \in 1..Len(sent)
            BY <1>1, <4>1, <5>2
          <6>2. toServer[k] = [of |-> sent[Len(answers) + m], pos |-> p]
            BY <4>1, <5>2
          <6>3. toServer'[k] = toServer[k]
            BY <4>2, <5>1, <5>2
          <6> QED BY <2>3, <6>1, <6>2, <6>3
        <5>3. CASE ~(k <= Len(toServer))
          <6>1. Len(answers) + m = Len(sent) + 1 /\ k - Len(toServer) = p
            <7>1. PICK d \in Int : d = Len(sent) - Len(answers)
              <8>1. Len(sent) - Len(answers) \in Int
                BY <1>1
              <8> QED BY <8>1
            <7>2. PICK l \in Nat : l = Len(toServer)
              BY <1>1
            <7>3. l = 3 * d
              BY <4>1, <7>1, <7>2
            <7>4. 3 * (m - 1) + p > 3 * d /\ 3 * (m - 1) + p <= 3 * d + 3
              BY <4>2, <4>4, <5>3, <7>2, <7>3
            <7>5. m - 1 = d
              BY <7>4
            <7> QED BY <1>1, <7>1, <7>2, <7>3, <7>5
          <6>2. toServer'[k] = units[k - Len(toServer)]
            BY <4>2, <5>1, <5>3
          <6>3. units[p] = [of |-> i, pos |-> p]
            BY <1>3, <1>5
          <6> QED BY <2>3, <6>1, <6>2, <6>3
        <5> QED BY <5>2, <5>3
      <4> QED BY <4>3, <4>4
    <3> QED BY <1>2, <3>2, <3>3 DEF Requests
  <2>9. Responses'
    BY <1>1, <1>2, <2>2 DEF Responses
  <2> QED BY <2>6, <2>7, <2>8, <2>9 DEF InOrder
<1>6. n = 0 \/ n = 3
  BY <1>2
<1> QED BY <1>4, <1>5, <1>6

LEMMA ReturnsOrder ==
  ASSUME Bounds, InOrder, NEW n \in Ends(toClient), Returns(n)
  PROVE  InOrder'
<1> DEFINE m == SubSeq(toClient, 1, n)
           rest == SubSeq(toClient, n + 1, Len(toClient))
<1>1. /\ ServiceTypes /\ Counts /\ Control /\ Requests /\ Responses /\ ResultsInOrder /\ SentInOrder
      /\ Len(results) \in Nat /\ Len(toClient) \in Nat /\ Len(answers) \in Nat
      /\ toClient \in Seq(Unit)
  BY LenProperties DEF Bounds, ServiceTypes, InOrder
<1>2. /\ Waiting /\ n <= Len(toClient) /\ toClient' = rest
      /\ UNCHANGED <<toServer, clientOpen, serverOpen, writing, answers, written, asked, sent>>
  BY DEF Returns, server
<1>3. clientOpen
  BY <1>1, <1>2 DEF Control
<1>4. PICK g \in Nat : g = Given
  BY <1>1, GivenFinite DEF Given
<1>6. /\ 3 * g + Len(toClient) = IF answers = <<>> THEN 0 ELSE 3 * (Len(answers) - 1) + written
      /\ \A k \in Nat \ {0}, p \in 1..3 : 3 * (k - 1) + p <= Len(toClient) =>
           toClient[3 * (k - 1) + p] = [of |-> g + k, pos |-> p]
  BY <1>1, <1>3, <1>4 DEF Responses
<1>7. Len(toClient) >= 3
  <2> SUFFICES ASSUME Len(toClient) < 3 PROVE FALSE
    BY <1>1
  <2>1. ASSUME NEW p \in 1..Len(toClient) PROVE toClient[p].pos = p
    <3>1. p \in 1..3 /\ 1 \in Nat \ {0} /\ 3 * (1 - 1) + p = p /\ p <= Len(toClient)
      BY <1>1
    <3>2. 3 * (1 - 1) + p <= Len(toClient) =>
            toClient[3 * (1 - 1) + p] = [of |-> g + 1, pos |-> p]
      BY <1>6, <3>1
    <3> QED BY <3>1, <3>2
  <2> QED BY <1>1, <1>2, <2>1, NoEarlyEnd
<1>8. n = 3 /\ Whole(SubSeq(toClient, 1, 3)) /\ SubSeq(toClient, 1, 3)[1].of = g + 1
  BY <1>1, <1>3, <1>4, <1>7, FirstAnswer
<1>9. PICK kind \in {"answer", "wrong_kind"} :
        results' = Append(results, [of |-> g + 1, state |-> kind])
  <2>1. Whole(m) /\ m[1].of = g + 1
    BY <1>8
  <2>2. \E kind \in {"answer", "wrong_kind"} :
          results' = Append(results, [of |-> m[1].of, state |-> kind])
    BY <2>1 DEF Returns
  <2> HIDE DEF m
  <2> QED BY <2>1, <2>2
<1>10. Given' = g + 1 /\ ResultsInOrder' /\ SentInOrder'
  BY <1>1, <1>2, <1>4, <1>9, GivenInOrder
<1>11. Requests'
  BY <1>1, <1>2 DEF Requests
<1>12. /\ Len(toClient') = Len(toClient) - 3
       /\ \A k \in 1..(Len(toClient) - 3) : toClient'[k] = toClient[3 + k]
  <2>1. 3 \in 0..Len(toClient)
    BY <1>1, <1>7
  <2>2. /\ Len(SubSeq(toClient, 3 + 1, Len(toClient))) = Len(toClient) - 3
        /\ \A k \in 1..(Len(toClient) - 3) :
             SubSeq(toClient, 3 + 1, Len(toClient))[k] = toClient[3 + k]
    BY <1>1, <2>1, Cut
  <2>3. toClient' = SubSeq(toClient, 3 + 1, Len(toClient))
    BY <1>2, <1>8
  <2> QED BY <2>2, <2>3
<1>13. Responses'
  <2>1. 3 * (g + 1) + Len(toClient') = IF answers = <<>> THEN 0 ELSE 3 * (Len(answers) - 1) + written
    BY <1>1, <1>6, <1>12
  <2>2. g + 1 <= Len(answers)
    <3>1. answers # <<>>
      BY <1>1, <1>6, <1>7
    <3>2. 3 * g + Len(toClient) = 3 * (Len(answers) - 1) + written /\ written \in 0..3
      BY <1>1, <1>6, <3>1 DEF ServiceTypes
    <3> QED BY <1>1, <1>7, <3>2
  <2>3. ASSUME NEW k \in Nat \ {0}, NEW p \in 1..3, 3 * (k - 1) + p <= Len(toClient')
        PROVE  toClient'[3 * (k - 1) + p] = [of |-> (g + 1) + k, pos |-> p]
    <3>1. /\ k + 1 \in Nat \ {0} /\ 3 * ((k + 1) - 1) + p <= Len(toClient)
          /\ 3 * ((k + 1) - 1) + p = 3 + (3 * (k - 1) + p) /\ g + (k + 1) = (g + 1) + k
          /\ 3 * (k - 1) + p \in 1..(Len(toClient) - 3)
      BY <1>1, <1>12, <2>3
    <3>2. toClient[3 * ((k + 1) - 1) + p] = [of |-> g + (k + 1), pos |-> p]
      BY <1>6, <3>1
    <3>3. toClient'[3 * (k - 1) + p] = toClient[3 + (3 * (k - 1) + p)]
      BY <1>12, <3>1
    <3> QED BY <3>1, <3>2, <3>3
  <2> QED BY <1>2, <1>10, <2>1, <2>2, <2>3 DEF Responses
<1> QED BY <1>10, <1>11, <1>13 DEF InOrder

LEMMA GivesUpOrder == ASSUME Bounds, InOrder, GivesUp, ~torn' PROVE InOrder'
<1>1. ServiceTypes /\ Requests /\ Responses /\ ResultsInOrder /\ SentInOrder
  BY DEF Bounds, InOrder
<1>2. /\ results' = Append(results, Error)
      /\ UNCHANGED <<toServer, toClient, clientOpen, serverOpen, answers, written, asked, sent>>
  BY DEF GivesUp, server
<1>3. Given' = Given /\ ResultsInOrder' /\ SentInOrder'
  BY <1>1, <1>2, FailedInOrder
<1>4. Requests'
  BY <1>1, <1>2 DEF Requests
<1>5. Responses'
  BY <1>1, <1>2, <1>3 DEF Responses
<1> QED BY <1>3, <1>4, <1>5 DEF InOrder

LEMMA DispatchOrder ==
  ASSUME Bounds, InOrder, NEW n \in Dispatched, NEW kind \in {"json", "raw", "arrow", "panic"},
         Dispatch(n, kind)
  PROVE  InOrder'
<1> DEFINE m == SubSeq(toServer, 1, n)
           rest == SubSeq(toServer, n + 1, Len(toServer))
           answer == [to |-> IF Whole(m) THEN m[1].of ELSE 0, kind |-> kind]
<1>1. /\ ServiceTypes /\ Control /\ Requests /\ Responses
      /\ Len(answers) \in Nat /\ Len(toServer) \in Nat /\ Len(sent) \in Nat /\ Len(toClient) \in Nat
      /\ toServer \in Seq(Unit)
  BY LenProperties DEF Bounds, ServiceTypes, InOrder
<1>2. Reading /\ n \in 1..Len(toServer)
  BY <1>1, DispatchedNat
<1>3. serverOpen /\ ~writing /\ toServer # <<>>
  BY <1>1, <1>2 DEF Reading
<1>4. /\ Len(answers) + 1 <= Len(sent) /\ Len(toServer) >= 3
      /\ Ends(toServer) = {3} /\ Whole(SubSeq(toServer, 1, 3))
      /\ SubSeq(toServer, 1, 3)[1].of = sent[Len(answers) + 1]
  BY <1>1, <1>3, FirstRequest
<1>5. n = 3
  <2>1. ~CutOff
    BY <1>1, <1>4 DEF CutOff, AtEnd, Unfinished
  <2> QED BY <1>4, <2>1 DEF Dispatched
<1>6. /\ toServer' = rest
      /\ \/ serverOpen' = FALSE /\ UNCHANGED <<answers, written>>
         \/ answers' = Append(answers, answer) /\ kind # "panic" /\ written' = 0 /\ UNCHANGED serverOpen
      /\ UNCHANGED <<toClient, clientOpen, asked, results, sent>>
  BY DEF Dispatch, Hangup, client
<1>7. /\ Len(rest) = Len(toServer) - 3
      /\ \A k \in 1..(Len(toServer) - 3) : rest[k] = toServer[3 + k]
  <2>1. 3 \in 0..Len(toServer)
    BY <1>1, <1>4
  <2>2. /\ Len(SubSeq(toServer, 3 + 1, Len(toServer))) = Len(toServer) - 3
        /\ \A k \in 1..(Len(toServer) - 3) :
             SubSeq(toServer, 3 + 1, Len(toServer))[k] = toServer[3 + k]
    BY <1>1, <2>1, Cut
  <2>3. rest = SubSeq(toServer, 3 + 1, Len(toServer))
    BY <1>5
  <2> HIDE DEF rest
  <2> QED BY <2>2, <2>3
<1>8. answer.to = sent[Len(answers) + 1]
  BY <1>4, <1>5
<1>9. answer.to \in Nat
  <2>1. Len(answers) + 1 \in 1..Len(sent) /\ sent \in Seq(Nat)
    BY <1>1, <1>4 DEF ServiceTypes
  <2> HIDE DEF answer
  <2> QED BY <1>8, <2>1, ElementOfSeq
<1>10. kind # "panic" => answer \in Answer
  BY <1>9 DEF Answer
<1> HIDE DEF m, rest, answer
<1>11. Given' = Given /\ ResultsInOrder' /\ SentInOrder'
  BY <1>6, SameResults
<1>12. PICK g \in Nat : g = Given
  BY GivenFinite, LenProperties DEF Given, Bounds, ServiceTypes
<1>13. CASE serverOpen' = FALSE /\ UNCHANGED <<answers, written>>
  <2>1. Requests'
    BY <1>1, <1>6, <1>13 DEF Requests
  <2>2. Responses'
    BY <1>1, <1>6, <1>11, <1>13 DEF Responses
  <2> QED BY <1>11, <2>1, <2>2 DEF InOrder
<1>14. CASE answers' = Append(answers, answer) /\ kind # "panic" /\ written' = 0 /\ UNCHANGED serverOpen
  <2>1. /\ Len(answers') = Len(answers) + 1 /\ answers' # <<>>
        /\ answers'[Len(answers) + 1] = answer
        /\ \A k \in 1..Len(answers) : answers'[k] = answers[k]
    <3>1. answers \in Seq(Answer)
      BY <1>1 DEF ServiceTypes
    <3> QED BY <1>10, <1>14, <3>1, AppendProperties
  <2>2. Requests'
    <3>1. ASSUME NEW k \in 1..(Len(answers) + 1) PROVE answers'[k].to = sent[k]
      <4>1. k \in 1..Len(answers) \/ k = Len(answers) + 1
        BY <1>1
      <4> QED BY <1>1, <1>8, <2>1, <4>1 DEF Requests
    <3>2. /\ Len(toServer) = 3 * (Len(sent) - Len(answers))
          /\ \A k \in Nat \ {0}, p \in 1..3 : 3 * (k - 1) + p <= Len(toServer) =>
               toServer[3 * (k - 1) + p] = [of |-> sent[Len(answers) + k], pos |-> p]
      BY <1>1, <1>3 DEF Requests
    <3>3. Len(toServer') = 3 * (Len(sent) - (Len(answers) + 1))
      BY <1>1, <1>6, <1>7, <3>2
    <3>4. ASSUME NEW k \in Nat \ {0}, NEW p \in 1..3, 3 * (k - 1) + p <= Len(toServer')
          PROVE  toServer'[3 * (k - 1) + p] = [of |-> sent[(Len(answers) + 1) + k], pos |-> p]
      <4>1. /\ k + 1 \in Nat \ {0} /\ 3 * ((k + 1) - 1) + p <= Len(toServer)
            /\ 3 * ((k + 1) - 1) + p = 3 + (3 * (k - 1) + p)
            /\ Len(answers) + (k + 1) = (Len(answers) + 1) + k
            /\ 3 * (k - 1) + p \in 1..(Len(toServer) - 3)
        BY <1>1, <1>6, <1>7, <3>4
      <4>2. toServer[3 * ((k + 1) - 1) + p] = [of |-> sent[Len(answers) + (k + 1)], pos |-> p]
        BY <3>2, <4>1
      <4>3. toServer'[3 * (k - 1) + p] = toServer[3 + (3 * (k - 1) + p)]
        BY <1>6, <1>7, <4>1
      <4> QED BY <4>1, <4>2, <4>3
    <3> QED BY <1>4, <1>6, <1>14, <2>1, <3>1, <3>3, <3>4 DEF Requests
  <2>3. Responses'
    <3>2. ASSUME clientOpen
          PROVE  /\ 3 * g + Len(toClient) = 3 * ((Len(answers) + 1) - 1) + 0
                 /\ \A k \in Nat \ {0}, p \in 1..3 : 3 * (k - 1) + p <= Len(toClient) =>
                      toClient[3 * (k - 1) + p] = [of |-> g + k, pos |-> p]
      <4>1. /\ 3 * g + Len(toClient) = IF answers = <<>> THEN 0 ELSE 3 * (Len(answers) - 1) + written
            /\ \A k \in Nat \ {0}, p \in 1..3 : 3 * (k - 1) + p <= Len(toClient) =>
                 toClient[3 * (k - 1) + p] = [of |-> g + k, pos |-> p]
        BY <1>1, <1>12, <3>2 DEF Responses
      <4>2. 3 * g + Len(toClient) = 3 * ((Len(answers) + 1) - 1) + 0
        <5>1. CASE answers = <<>>
          <6>1. Len(answers) = 0
            BY <5>1
          <6> QED BY <4>1, <5>1, <6>1
        <5>2. CASE answers # <<>>
          <6>1. written = 3
            BY <1>1, <1>3, <5>2 DEF Control
          <6> QED BY <1>1, <4>1, <5>2, <6>1
        <5> QED BY <5>1, <5>2
      <4> QED BY <4>1, <4>2
    <3>3. g <= Len(answers) + 1
      BY <1>1, <1>12 DEF Responses
    <3> QED BY <1>6, <1>11, <1>12, <1>14, <2>1, <3>2, <3>3 DEF Responses
  <2> QED BY <1>11, <2>2, <2>3 DEF InOrder
<1> QED BY <1>6, <1>13, <1>14

LEMMA WriteOrder == ASSUME Bounds, InOrder, Write PROVE InOrder'
<1> DEFINE unit == Units(Len(answers))[written + 1]
<1>1. /\ ServiceTypes /\ Control /\ Requests /\ Responses
      /\ Len(answers) \in Nat /\ Len(toClient) \in Nat /\ written \in 0..3
  BY LenProperties DEF Bounds, ServiceTypes, InOrder
<1>2. /\ writing /\ toClient' = IF clientOpen THEN Append(toClient, unit) ELSE toClient
      /\ written' = written + 1
      /\ UNCHANGED <<toServer, clientOpen, asked, results, sent, serverOpen, answers>>
  BY DEF Write, client
<1>3. written \in 0..2 /\ written + 1 \in 1..3 /\ answers # <<>>
  BY <1>1, <1>2 DEF Control
<1>4. unit = [of |-> Len(answers), pos |-> written + 1] /\ unit \in Unit
  <2>1. unit = [of |-> Len(answers), pos |-> written + 1]
    BY <1>1, <1>3, UnitsType
  <2> HIDE DEF unit
  <2> QED BY <1>1, <1>3, <2>1 DEF Unit
<1> HIDE DEF unit
<1>5. Given' = Given /\ ResultsInOrder' /\ SentInOrder'
  BY <1>2, SameResults
<1>6. Requests'
  BY <1>1, <1>2 DEF Requests
<1>7. PICK g \in Nat : g = Given
  BY GivenFinite, LenProperties DEF Given, Bounds, ServiceTypes
<1>8. Responses'
  <2>1. g <= Len(answers)
    BY <1>1, <1>7 DEF Responses
  <2>2. ASSUME clientOpen
        PROVE  /\ 3 * g + Len(toClient') = 3 * (Len(answers) - 1) + (written + 1)
               /\ \A k \in Nat \ {0}, p \in 1..3 : 3 * (k - 1) + p <= Len(toClient') =>
                    toClient'[3 * (k - 1) + p] = [of |-> g + k, pos |-> p]
    <3>1. /\ 3 * g + Len(toClient) = 3 * (Len(answers) - 1) + written
          /\ \A k \in Nat \ {0}, p \in 1..3 : 3 * (k - 1) + p <= Len(toClient) =>
               toClient[3 * (k - 1) + p] = [of |-> g + k, pos |-> p]
      BY <1>1, <1>3, <1>7, <2>2 DEF Responses
    <3>2. /\ Len(toClient') = Len(toClient) + 1 /\ toClient'[Len(toClient) + 1] = unit
          /\ \A k \in 1..Len(toClient) : toClient'[k] = toClient[k]
      <4>1. toClient \in Seq(Unit) /\ toClient' = Append(toClient, unit)
        BY <1>1, <1>2, <2>2 DEF ServiceTypes
      <4> QED BY <1>4, <4>1, AppendProperties
    <3>3. ASSUME NEW k \in Nat \ {0}, NEW p \in 1..3, 3 * (k - 1) + p <= Len(toClient')
          PROVE  toClient'[3 * (k - 1) + p] = [of |-> g + k, pos |-> p]
      <4>1. CASE 3 * (k - 1) + p <= Len(toClient)
        <5>1. 3 * (k - 1) + p \in 1..Len(toClient)
          BY <1>1, <4>1
        <5> QED BY <3>1, <3>2, <4>1, <5>1
      <4>2. CASE ~(3 * (k - 1) + p <= Len(toClient))
        <5>1. 3 * (k - 1) + p = Len(toClient) + 1
          BY <1>1, <3>2, <3>3, <4>2
        <5>2. k = Len(answers) - g /\ p = written + 1
          <6>1. PICK a \in Nat : a = Len(answers)
            BY <1>1
          <6>2. 3 * g + (3 * (k - 1) + p) = 3 * (a - 1) + written + 1
            BY <1>1, <3>1, <5>1, <6>1
          <6>3. p = written + 1
            BY <1>3, <6>2
          <6> QED BY <1>3, <6>1, <6>2, <6>3
        <5>3. g + k = Len(answers)
          BY <1>1, <5>2
        <5> QED BY <1>4, <3>2, <5>1, <5>2, <5>3
      <4> QED BY <4>1, <4>2
    <3>4. 3 * g + Len(toClient') = 3 * (Len(answers) - 1) + (written + 1)
      BY <1>1, <3>1, <3>2
    <3> QED BY <3>3, <3>4
  <2> QED BY <1>2, <1>3, <1>5, <1>7, <2>1, <2>2 DEF Responses
<1> QED BY <1>5, <1>6, <1>8 DEF InOrder

LEMMA ClosesOrder == ASSUME Bounds, InOrder, Closes PROVE InOrder'
<1>1. /\ Requests /\ Responses
      /\ UNCHANGED <<toServer, toClient, asked, results, sent, answers, written>>
      /\ (serverOpen' => serverOpen) /\ (clientOpen' => clientOpen)
  BY DEF InOrder, Closes
<1>2. Given' = Given /\ ResultsInOrder' /\ SentInOrder'
  BY <1>1, SameResults
<1>3. Requests'
  BY <1>1 DEF Requests, Closes
<1>4. Responses'
  BY <1>1, <1>2 DEF Responses, Closes
<1> QED BY <1>2, <1>3, <1>4 DEF InOrder

-----------------------------------------------------------------------------
(* The invariant, and what it says of the client.                          *)

LEMMA ServiceStep == ServiceInv /\ [Next]_vars => ServiceInv'
<1> SUFFICES ASSUME ServiceInv, [Next]_vars PROVE ServiceInv'
  OBVIOUS
<1>1. Bounds /\ (~torn => InOrder)
  BY DEF ServiceInv
<1>2. ASSUME NEW cmd \in Commands, NEW n \in 0..3, Request(cmd, n) PROVE ServiceInv'
  <2>1. ~torn' => ~torn
    BY <1>2 DEF Request
  <2> QED BY <1>1, <1>2, <2>1, RequestBounds, RequestOrder DEF ServiceInv
<1>3. ASSUME NEW n \in Ends(toClient), Returns(n) PROVE ServiceInv'
  <2>1. torn' = torn
    BY <1>3 DEF Returns
  <2> QED BY <1>1, <1>3, <2>1, ReturnsBounds, ReturnsOrder DEF ServiceInv
<1>4. ASSUME GivesUp PROVE ServiceInv'
  <2>1. ~torn' => ~torn
    BY <1>4 DEF GivesUp
  <2> QED BY <1>1, <1>4, <2>1, GivesUpBounds, GivesUpOrder DEF ServiceInv
<1>5. ASSUME NEW n \in Dispatched, NEW kind \in {"json", "raw", "arrow", "panic"}, Dispatch(n, kind)
      PROVE  ServiceInv'
  <2>1. torn' = torn
    BY <1>5 DEF Dispatch, client
  <2> QED BY <1>1, <1>5, <2>1, DispatchBounds, DispatchOrder DEF ServiceInv
<1>6. ASSUME Write PROVE ServiceInv'
  <2>1. torn' = torn
    BY <1>6 DEF Write, client
  <2> QED BY <1>1, <1>6, <2>1, WriteBounds, WriteOrder DEF ServiceInv
<1>7. ASSUME Closes PROVE ServiceInv'
  <2>1. torn' = torn
    BY <1>7 DEF Closes
  <2> QED BY <1>1, <1>7, <2>1, ClosesBounds, ClosesOrder DEF ServiceInv
<1>8. ClientCloses \/ HandlerReturns \/ WriteFails \/ ServerStops \/ UNCHANGED vars => Closes
  BY DEF ClientCloses, HandlerReturns, WriteFails, ServerStops, Hangup, Closes, vars, client, server
<1> QED BY <1>2, <1>3, <1>4, <1>5, <1>6, <1>7, <1>8
        DEF Next, Waits, ConnectionError, Timeout, Handles

LEMMA ServiceInvariance == Spec => []ServiceInv
<1> QED BY ServiceStart, ServiceStep, PTL DEF Spec

LEMMA Retyped ==
  ASSUME NEW S, NEW T, NEW s \in Seq(S), \A i \in 1..Len(s) : s[i] \in T
  PROVE  s \in Seq(T)
<1>1. Len(s) \in Nat /\ s \in [1..Len(s) -> S]
  BY LenProperties
<1>2. s \in [1..Len(s) -> T]
  BY <1>1
<1> QED BY <1>1, <1>2, SeqDef

\* However the streams are cut, every answer, result and unit refers to a request
\* or an answer that there was, and a connection never has more than three answers
\* for a request (request, service_client.py 45-54; handle, server.py 189-203).
THEOREM ServiceTyped == Spec => []TypeOK
<1>1. ServiceInv => TypeOK
  <2> SUFFICES ASSUME ServiceInv PROVE TypeOK
    OBVIOUS
  <2>1. /\ ServiceTypes /\ References /\ Counts
        /\ Len(asked) \in Nat /\ Len(answers) \in Nat /\ Len(toServer) \in Nat
    BY LenProperties DEF ServiceInv, Bounds, ServiceTypes
  <2>2. 1..Len(asked) \subseteq 1..(3 * MaxRequests) /\ 1..Len(answers) \subseteq 1..(3 * MaxRequests)
    BY <2>1, ServiceAssumption DEF Counts
  <2>3. toServer \in Stream
    <3>1. toServer \in Seq(Unit)
      BY <2>1 DEF ServiceTypes
    <3>2. ASSUME NEW i \in 1..Len(toServer)
          PROVE  toServer[i] \in [of : 1..(3 * MaxRequests), pos : 1..3]
      <4>1. toServer[i] \in Unit /\ toServer[i].of \in 1..(3 * MaxRequests)
        BY <2>1, <2>2, <3>1, ElementOfSeq DEF References
      <4> QED BY <4>1 DEF Unit
    <3> QED BY <3>1, <3>2, Retyped DEF Stream
  <2>4. toClient \in Stream
    <3>1. toClient \in Seq(Unit)
      BY <2>1 DEF ServiceTypes
    <3>2. ASSUME NEW i \in 1..Len(toClient)
          PROVE  toClient[i] \in [of : 1..(3 * MaxRequests), pos : 1..3]
      <4>1. toClient[i] \in Unit /\ toClient[i].of \in 1..(3 * MaxRequests)
        BY <2>1, <2>2, <3>1, ElementOfSeq DEF References
      <4> QED BY <4>1 DEF Unit
    <3> QED BY <3>1, <3>2, Retyped DEF Stream
  <2>5. results \in Seq([of : 0..Len(answers), state : {"answer", "wrong_kind", "torn", "error"}])
    <3>1. results \in Seq(Outcome)
      BY <2>1 DEF ServiceTypes
    <3>2. ASSUME NEW i \in 1..Len(results)
          PROVE  results[i] \in [of : 0..Len(answers), state : {"answer", "wrong_kind", "torn", "error"}]
      <4>1. results[i] \in Outcome /\ results[i].of \in 0..Len(answers)
        BY <2>1, <3>1, ElementOfSeq DEF References
      <4> QED BY <4>1 DEF Outcome
    <3> QED BY <3>1, <3>2, Retyped
  <2>6. answers \in Seq([to : 0..Len(asked), kind : {"json", "raw", "arrow"}])
    <3>1. answers \in Seq(Answer)
      BY <2>1 DEF ServiceTypes
    <3>2. ASSUME NEW n \in 1..Len(answers)
          PROVE  answers[n] \in [to : 0..Len(asked), kind : {"json", "raw", "arrow"}]
      <4>1. answers[n] \in Answer /\ answers[n].to \in 0..Len(asked)
        BY <2>1, <3>1, ElementOfSeq DEF References
      <4> QED BY <4>1 DEF Answer
    <3> QED BY <3>1, <3>2, Retyped
  <2>7. sent \in Seq(1..Len(asked))
    BY <2>1, Retyped DEF References, ServiceTypes
  <2> QED BY <2>1, <2>3, <2>4, <2>5, <2>6, <2>7 DEF TypeOK, ServiceTypes, Counts
<1> QED BY <1>1, ServiceInvariance, PTL

\* As long as no message was torn, the n-th whole answer that the client is given is
\* the answer to the n-th request it sent, and its own as long as no request failed
\* (no request id: service_client.py 45-54, server.py 189-203, serve.rs 331-361).
THEOREM AnswersOrdered == Spec => []AnswersInOrder
<1>1. ServiceInv => AnswersInOrder
  <2> SUFFICES ASSUME ServiceInv, ~torn PROVE AnswersInOrder
    BY DEF AnswersInOrder
  <2>1. /\ ServiceTypes /\ References /\ Requests /\ ResultsInOrder /\ SentInOrder
        /\ Len(results) \in Nat /\ Len(answers) \in Nat /\ DOMAIN results = 1..Len(results)
    BY LenProperties DEF ServiceInv, Bounds, InOrder, ServiceTypes
  <2>2. ASSUME NEW i \in 1..Len(results)
        PROVE  /\ results[i].state # "torn"
               /\ results[i].of = 0 <=> results[i].state = "error"
               /\ results[i].of # 0 => results[i].of = Cardinality(GivenUpTo(results, i))
               /\ results[i].of \in 0..Len(answers)
    BY <2>1 DEF ResultsInOrder, References
  <2>3. ASSUME NEW i \in 1..Len(results), results[i].of # 0
        PROVE  answers[results[i].of].to = sent[results[i].of]
    <3>1. results[i].of \in 1..Len(answers)
      BY <2>1, <2>2, <2>3
    <3> QED BY <2>1, <3>1 DEF Requests
  <2>4. ASSUME NEW i \in 1..Len(results), Good(results, i)
        PROVE  answers[results[i].of].to = i
    <3>1. \A j \in 1..i : j \in 1..Len(results)
      BY <2>1
    <3>2. ASSUME NEW j \in 1..i PROVE results[j].of # 0
      <4>1. results[j].state # "error"
        BY <2>4 DEF Good
      <4> QED BY <2>2, <3>1, <4>1
    <3>3. GivenUpTo(results, i) = 1..i
      BY <3>2 DEF GivenUpTo
    <3>4. Cardinality(1..i) = i
      BY <2>1, FS_Interval
    <3>5. i \in 1..i
      BY <2>1
    <3>6. results[i].of # 0
      BY <3>2, <3>5
    <3>7. results[i].of = i
      BY <2>2, <3>3, <3>4, <3>6
    <3>8. sent[i] = i
      <4>1. i \in 0..Len(results)
        BY <2>1
      <4> QED BY <2>1, <2>4, <3>5, <4>1 DEF SentInOrder
    <3> QED BY <2>3, <3>6, <3>7, <3>8
  <2>5. \A i \in DOMAIN results : results[i].state # "torn"
    BY <2>1, <2>2
  <2>6. \A i \in DOMAIN results : results[i].of # 0 =>
          /\ results[i].of = Cardinality(GivenUpTo(results, i))
          /\ answers[results[i].of].to = sent[results[i].of]
    BY <2>1, <2>2, <2>3
  <2>7. \A i \in DOMAIN results :
          (\A j \in 1..i : results[j].state \in {"answer", "wrong_kind"}) =>
            answers[results[i].of].to = i
    BY <2>1, <2>4 DEF Good
  <2> QED BY <2>5, <2>6, <2>7 DEF AnswersInOrder
<1> QED BY <1>1, ServiceInvariance, PTL

-----------------------------------------------------------------------------
(* The registry.                                                           *)

Names   == Tables \cup {"none"}
Entries == [table : Names, object : Nat]

RegistryTypes ==
  /\ registry \in [Dictionaries -> Seq(Entries)]
  /\ made \in Nat
  /\ step \in [Handlers -> {"out", "make", "insert", "find", "use", "loop", "clear"}]
  /\ key \in [Handlers -> [kind : Dictionaries, table : Names]]
  /\ object \in [Handlers -> Nat]
  /\ cursor \in [Handlers -> [size : Nat, next : Nat \ {0}]]

\* Stores and pools are numbered in the order in which they are made.
Numbered ==
  /\ \A n \in shut : n <= made
  /\ \A n \in Cached("pool") : n <= made
  /\ \A t \in Handlers : step[t] = "insert" => object[t] <= made

\* A thread that is about to insert is the only one to know its object.
Fresh ==
  \A t \in Handlers : step[t] = "insert" =>
    /\ object[t] \notin shut \cup Cached("pool")
    /\ \A s \in Handlers : s # t /\ step[s] = "insert" => object[s] # object[t]

RegistryInv == RegistryTypes /\ shut \subseteq Nat /\ Numbered /\ Fresh /\ ClosedPoolsForgotten

-----------------------------------------------------------------------------
\* The objects of a dictionary are numbers.
LEMMA CachedNumbers ==
  ASSUME RegistryTypes, NEW kind \in Dictionaries
  PROVE  /\ registry[kind] \in Seq(Entries)
         /\ Cached(kind) \subseteq Nat
         /\ \A i \in 1..Len(registry[kind]) : registry[kind][i].object \in Cached(kind)
<1>1. registry[kind] \in Seq(Entries)
  BY DEF RegistryTypes
<1>2. ASSUME NEW i \in 1..Len(registry[kind]) PROVE registry[kind][i].object \in Nat
  <2>1. registry[kind][i] \in Entries
    BY <1>1
  <2> QED BY <2>1 DEF Entries
<1> QED BY <1>1, <1>2 DEF Cached

LEMMA RegistryStart == RegistryInit => RegistryInv
<1> SUFFICES ASSUME RegistryInit PROVE RegistryInv
  OBVIOUS
<1>1. RegistryTypes
  BY DEF RegistryInit, RegistryTypes, NoKey, NoCursor, Names, Dictionaries
<1>2. Cached("pool") = {} /\ shut = {}
  BY DEF RegistryInit, Cached, Dictionaries
<1>3. Numbered /\ Fresh /\ ClosedPoolsForgotten
  BY <1>2 DEF RegistryInit, Numbered, Fresh, ClosedPoolsForgotten
<1> QED BY <1>1, <1>2, <1>3 DEF RegistryInv

\* A step that makes no object and puts none into a dictionary: what is shut was
\* cached, and no thread gets to an insert.
LEMMA QuietStep ==
  ASSUME RegistryInv, RegistryTypes', made' = made,
         shut' \subseteq shut \cup Cached("pool"),
         Cached("pool")' \subseteq Cached("pool"),
         \A t \in Handlers : step'[t] = "insert" => step[t] = "insert" /\ object'[t] = object[t],
         ClosedPoolsForgotten'
  PROVE  RegistryInv'
<1>1. RegistryTypes /\ shut \subseteq Nat /\ Numbered /\ Fresh
  BY DEF RegistryInv
<1>2. Cached("pool") \subseteq Nat
  BY <1>1, CachedNumbers DEF Dictionaries
<1>3. shut' \subseteq Nat
  BY <1>1, <1>2
<1>4. Numbered'
  BY <1>1 DEF Numbered
<1>5. Fresh'
  BY <1>1 DEF Fresh
<1> QED BY <1>3, <1>4, <1>5 DEF RegistryInv

\* The end of a call.
LEMMA LeaveTypes ==
  ASSUME RegistryTypes, NEW t \in Handlers, Leave(t)
  PROVE  /\ step' \in [Handlers -> {"out", "make", "insert", "find", "use", "loop", "clear"}]
         /\ key' \in [Handlers -> [kind : Dictionaries, table : Names]]
         /\ object' \in [Handlers -> Nat]
         /\ cursor' \in [Handlers -> [size : Nat, next : Nat \ {0}]]
         /\ \A s \in Handlers : s # t => /\ step'[s] = step[s] /\ key'[s] = key[s]
                                         /\ object'[s] = object[s]
         /\ step'[t] = "out" /\ object'[t] = 0
BY DEF RegistryTypes, Leave, StepTo, NoKey, NoCursor, Names, Dictionaries

\* A call that ends without a close at the pools behind it.
LEMMA LeaveKeeps ==
  ASSUME RegistryInv, NEW t \in Handlers, Leave(t),
         UNCHANGED <<registry, made, shut>>,
         closeRaised' \/ (closeRaised' = closeRaised /\ ~ClosingPools(t))
  PROVE  RegistryInv'
<1>1. RegistryTypes /\ Numbered /\ ClosedPoolsForgotten
  BY DEF RegistryInv
<1>2. RegistryTypes'
  BY <1>1, LeaveTypes DEF RegistryTypes
<1>3. Cached("pool")' = Cached("pool")
  BY DEF Cached
<1>4. ClosedPoolsForgotten'
  BY <1>1, <1>3, LeaveTypes DEF ClosedPoolsForgotten, ClosingPools
<1>5. \A s \in Handlers : step'[s] = "insert" => step[s] = "insert" /\ object'[s] = object[s]
  BY <1>1, LeaveTypes
<1> QED BY <1>2, <1>3, <1>4, <1>5, QuietStep

\* What is about to be inserted was never cached, so it is not closed.
LEMMA InsertKeeps ==
  ASSUME RegistryInv, NEW t \in Handlers, Insert(t)
  PROVE  RegistryInv'
<1> DEFINE kind   == key[t].kind
           entry  == [table |-> key[t].table, object |-> object[t]]
           places == Places(key[t].kind, key[t].table)
           old    == registry[kind]
           new    == IF places = {} THEN Append(old, entry)
                     ELSE [i \in 1..Len(old) |-> IF i \in places THEN entry ELSE old[i]]
<1>1. RegistryTypes /\ shut \subseteq Nat /\ Numbered /\ Fresh /\ ClosedPoolsForgotten
  BY DEF RegistryInv
<1>2. kind \in Dictionaries /\ entry \in Entries /\ object[t] \in Nat
  BY <1>1 DEF RegistryTypes, Entries
<1>3. step[t] = "insert" /\ registry' = [registry EXCEPT ![kind] = new]
      /\ step' = [step EXCEPT ![t] = "find"]
      /\ UNCHANGED <<made, shut, key, object, cursor, uses, closeRaised>>
  BY DEF Insert, StepTo
<1>4. old \in Seq(Entries)
  BY <1>1, <1>2 DEF RegistryTypes
<1> HIDE DEF kind, entry, places, old, new
<1>5. /\ new \in Seq(Entries)
      /\ \A i \in 1..Len(new) : new[i] = entry \/ (i \in 1..Len(old) /\ new[i] = old[i])
  <2>1. CASE places = {}
    <3>1. new = Append(old, entry)
      BY <2>1 DEF new
    <3>2. new \in Seq(Entries) /\ Len(new) = Len(old) + 1
      BY <1>2, <1>4, <3>1
    <3>3. \A i \in 1..Len(new) : new[i] = entry \/ (i \in 1..Len(old) /\ new[i] = old[i])
      BY <1>2, <1>4, <3>1, <3>2
    <3> QED BY <3>2, <3>3
  <2>2. CASE places # {}
    <3>1. new = [i \in 1..Len(old) |-> IF i \in places THEN entry ELSE old[i]]
      BY <2>2 DEF new
    <3>2. Len(old) \in Nat /\ \A i \in 1..Len(old) : old[i] \in Entries
      BY <1>4
    <3>3. new \in [1..Len(old) -> Entries]
      BY <1>2, <3>1, <3>2
    <3>4. new \in Seq(Entries) /\ Len(new) = Len(old)
      BY <3>2, <3>3
    <3>5. \A i \in 1..Len(old) : new[i] = entry \/ new[i] = old[i]
      BY <3>1
    <3> QED BY <3>4, <3>5
  <2> QED BY <2>1, <2>2
<1>6. RegistryTypes'
  BY <1>1, <1>2, <1>3, <1>5 DEF RegistryTypes
<1>7. Cached("pool")' \subseteq Cached("pool") \cup {object[t]}
  <2>1. CASE kind = "pool"
    <3>1. registry'["pool"] = new
      BY <1>1, <1>2, <1>3, <2>1 DEF RegistryTypes
    <3>2. old = registry["pool"] /\ entry.object = object[t]
      BY <2>1 DEF old, entry
    <3> QED BY <1>5, <3>1, <3>2 DEF Cached
  <2>2. CASE kind # "pool"
    <3>1. registry'["pool"] = registry["pool"]
      BY <1>1, <1>3, <2>2 DEF RegistryTypes, Dictionaries
    <3> QED BY <3>1 DEF Cached
  <2> QED BY <2>1, <2>2
<1>8. object[t] \notin shut /\ object[t] <= made
  BY <1>1, <1>3 DEF Fresh, Numbered
<1>9. Numbered'
  BY <1>1, <1>3, <1>7, <1>8 DEF Numbered
<1>10. Fresh'
  <2>1. \A s \in Handlers : step'[s] = "insert" => s # t /\ step[s] = "insert"
    BY <1>1, <1>3 DEF RegistryTypes
  <2>2. \A s \in Handlers : s # t /\ step[s] = "insert" => object[s] # object[t]
    BY <1>1, <1>3 DEF Fresh
  <2> QED BY <1>1, <1>3, <1>7, <2>1, <2>2 DEF Fresh
<1>11. ClosedPoolsForgotten'
  <2>1. Cached("pool")' \cap shut' # {} => Cached("pool") \cap shut # {}
    BY <1>3, <1>7, <1>8
  <2>2. \A s \in Handlers : ClosingPools(s) => ClosingPools(s)'
    BY <1>1, <1>3 DEF ClosingPools, RegistryTypes
  <2> QED BY <1>1, <1>3, <2>1, <2>2 DEF ClosedPoolsForgotten
<1> QED BY <1>1, <1>3, <1>6, <1>9, <1>10, <1>11 DEF RegistryInv

\* A new object has a number nobody has.
LEMMA MakeKeeps ==
  ASSUME RegistryInv, NEW t \in Handlers, Make(t)
  PROVE  RegistryInv'
<1>1. RegistryTypes /\ shut \subseteq Nat /\ Numbered /\ Fresh /\ ClosedPoolsForgotten
  BY DEF RegistryInv
<1>2. /\ made' = made + 1 /\ object' = [object EXCEPT ![t] = made + 1]
      /\ step[t] = "make" /\ step' = [step EXCEPT ![t] = "insert"]
      /\ UNCHANGED <<registry, shut, key, cursor, closeRaised>>
  BY DEF Make, StepTo
<1>3. RegistryTypes'
  BY <1>1, <1>2 DEF RegistryTypes
<1>4. Cached("pool")' = Cached("pool") /\ Cached("pool") \subseteq Nat
  BY <1>1, <1>2, CachedNumbers DEF Cached, Dictionaries
<1>5. object'[t] = made + 1 /\ \A s \in Handlers : s # t => object'[s] = object[s] /\ step'[s] = step[s]
  BY <1>1, <1>2 DEF RegistryTypes
<1>6. made \in Nat /\ \A s \in Handlers : object[s] \in Nat
  BY <1>1 DEF RegistryTypes
<1>7. Numbered'
  BY <1>1, <1>2, <1>4, <1>5, <1>6 DEF Numbered
<1>8. made + 1 \notin shut \cup Cached("pool") /\ \A s \in Handlers : step[s] = "insert" => object[s] # made + 1
  BY <1>1, <1>4, <1>6 DEF Numbered
<1>9. Fresh'
  BY <1>1, <1>2, <1>4, <1>5, <1>8 DEF Fresh
<1>10. ClosedPoolsForgotten'
  BY <1>1, <1>2, <1>4, <1>5 DEF ClosedPoolsForgotten, ClosingPools
<1> QED BY <1>1, <1>2, <1>3, <1>7, <1>9, <1>10 DEF RegistryInv

\* Looking up changes what a thread has in hand, and gives it what is cached.
LEMMA OpenKeeps ==
  ASSUME RegistryInv, NEW t \in Handlers,
         \/ \E kind \in Dictionaries, table \in Tables : Open(t, kind, table)
         \/ OpenStep(t)
  PROVE  RegistryInv'
<1>1. RegistryTypes /\ Numbered /\ ClosedPoolsForgotten
  BY DEF RegistryInv
<1>2. UNCHANGED <<registry, shut, closeRaised>> => Cached("pool")' = Cached("pool")
  BY DEF Cached
<1>3. ASSUME NEW kind \in Dictionaries, NEW table \in Tables, Open(t, kind, table)
      PROVE  RegistryInv'
  <2>1. /\ step[t] = "out" /\ step' = [step EXCEPT ![t] = IF Places(kind, table) = {} THEN "make" ELSE "find"]
        /\ key' = [key EXCEPT ![t] = [kind |-> kind, table |-> table]]
        /\ UNCHANGED <<registry, made, shut, object, cursor, closeRaised>>
    BY <1>3 DEF Open, Begin, StepTo
  <2>2. RegistryTypes'
    BY <1>1, <2>1 DEF RegistryTypes, Names
  <2>3. ClosedPoolsForgotten'
    BY <1>1, <1>2, <2>1 DEF ClosedPoolsForgotten, ClosingPools, RegistryTypes
  <2>4. \A s \in Handlers : step'[s] = "insert" => step[s] = "insert" /\ object'[s] = object[s]
    BY <1>1, <2>1 DEF RegistryTypes
  <2> QED BY <1>2, <2>1, <2>2, <2>3, <2>4, QuietStep
<1>4. CASE Find(t)
  <2>1. /\ step[t] = "find" /\ step' = [step EXCEPT ![t] = "use"]
        /\ UNCHANGED <<registry, made, shut, key, cursor, closeRaised>>
    BY <1>4 DEF Find, StepTo
  <2>2. PICK i \in Places(key[t].kind, key[t].table) :
          object' = [object EXCEPT ![t] = registry[key[t].kind][i].object]
    BY <1>4 DEF Find
  <2> DEFINE n == registry[key[t].kind][i].object
  <2>3. n \in Nat
    <3>1. key[t].kind \in Dictionaries
      BY <1>1 DEF RegistryTypes
    <3>2. registry[key[t].kind] \in Seq(Entries)
      BY <1>1, <3>1 DEF RegistryTypes
    <3>3. i \in 1..Len(registry[key[t].kind])
      BY <2>2, <3>2 DEF Places
    <3>4. registry[key[t].kind][i] \in Entries
      BY <3>2, <3>3
    <3> QED BY <3>4 DEF Entries
  <2>4. RegistryTypes'
    BY <1>1, <2>1, <2>2, <2>3 DEF RegistryTypes
  <2>5. ClosedPoolsForgotten'
    BY <1>1, <1>2, <2>1 DEF ClosedPoolsForgotten, ClosingPools, RegistryTypes
  <2>6. \A s \in Handlers : step'[s] = "insert" => step[s] = "insert" /\ object'[s] = object[s]
    BY <1>1, <2>1, <2>2 DEF RegistryTypes
  <2> QED BY <1>2, <2>1, <2>4, <2>5, <2>6, QuietStep
<1>5. ASSUME ~ClosingPools(t), Leave(t), UNCHANGED <<registry, made, shut, closeRaised>>
      PROVE  RegistryInv'
  BY <1>5, LeaveKeeps
<1>6. CASE MakeRaises(t) \/ FindNothing(t) \/ Finish(t)
  BY <1>5, <1>6 DEF MakeRaises, FindNothing, Finish, ClosingPools
<1> QED BY <1>3, <1>4, <1>6, MakeKeeps, InsertKeeps DEF OpenStep

\* Only a pool that is cached is closed, by a close at the pools; the dictionary is
\* empty when that close leaves without raising.
LEMMA CloseKeeps ==
  ASSUME RegistryInv, NEW t \in Handlers, CloseDatabase(t) \/ EndStep(t)
  PROVE  RegistryInv'
<1>1. RegistryTypes /\ ClosedPoolsForgotten
  BY DEF RegistryInv
<1>2. \A kind \in Dictionaries : Len(registry[kind]) \in Nat
  BY <1>1 DEF RegistryTypes
<1>3. UNCHANGED registry => Cached("pool")' = Cached("pool")
  BY DEF Cached
<1>4. CASE CloseDatabase(t)
  <2>1. /\ key' = [key EXCEPT ![t] = [kind |-> "store", table |-> "none"]]
        /\ cursor' = [cursor EXCEPT ![t] = [size |-> Len(registry["store"]), next |-> 1]]
        /\ step[t] = "out" /\ step' = [step EXCEPT ![t] = "loop"]
        /\ UNCHANGED <<registry, made, shut, object, closeRaised>>
    BY <1>4 DEF CloseDatabase, Begin, Iterate, StepTo, NoKey
  <2>2. RegistryTypes'
    BY <1>1, <1>2, <2>1 DEF RegistryTypes, Names, Dictionaries
  <2>3. ClosedPoolsForgotten'
    BY <1>1, <1>3, <2>1 DEF ClosedPoolsForgotten, ClosingPools, RegistryTypes
  <2>4. \A s \in Handlers : step'[s] = "insert" => step[s] = "insert" /\ object'[s] = object[s]
    BY <1>1, <2>1 DEF RegistryTypes
  <2> QED BY <1>3, <2>1, <2>2, <2>3, <2>4, QuietStep
<1>5. CASE CloseRaises(t)
  <2>1. Leave(t) /\ closeRaised' /\ registry' = registry /\ made' = made /\ shut' = shut
    BY <1>5 DEF CloseRaises
  <2> QED BY <2>1, LeaveKeeps
<1>6. CASE CloseOne(t)
  <2>1. /\ step[t] = "loop" /\ Len(registry[key[t].kind]) = cursor[t].size
        /\ cursor[t].next <= cursor[t].size
        /\ shut' = IF key[t].kind = "pool"
                    THEN shut \cup {registry["pool"][cursor[t].next].object} ELSE shut
        /\ cursor' = [cursor EXCEPT ![t].next = @ + 1]
        /\ UNCHANGED <<registry, made, step, key, object, closeRaised>>
    BY <1>6 DEF CloseOne, SameSize
  <2>2. RegistryTypes'
    BY <1>1, <2>1 DEF RegistryTypes
  <2>3. key[t].kind = "pool" => registry["pool"][cursor[t].next].object \in Cached("pool")
    BY <1>1, <2>1, CachedNumbers DEF RegistryTypes, Dictionaries
  <2>4. ClosedPoolsForgotten'
    BY <1>1, <1>3, <2>1 DEF ClosedPoolsForgotten, ClosingPools
  <2> QED BY <1>3, <2>1, <2>2, <2>3, <2>4, QuietStep
<1>7. CASE CloseLoopEnds(t)
  <2>1. /\ step[t] = "loop" /\ step' = [step EXCEPT ![t] = "clear"]
        /\ UNCHANGED <<registry, made, shut, key, object, cursor, closeRaised>>
    BY <1>7 DEF CloseLoopEnds, StepTo
  <2>2. RegistryTypes'
    BY <1>1, <2>1 DEF RegistryTypes
  <2>3. ClosedPoolsForgotten'
    BY <1>1, <1>3, <2>1 DEF ClosedPoolsForgotten, ClosingPools, RegistryTypes
  <2>4. \A s \in Handlers : step'[s] = "insert" => step[s] = "insert" /\ object'[s] = object[s]
    BY <1>1, <2>1 DEF RegistryTypes
  <2> QED BY <1>3, <2>1, <2>2, <2>3, <2>4, QuietStep
<1>8. CASE ClearStores(t)
  <2>1. /\ key[t].kind = "store" /\ registry' = [registry EXCEPT !["store"] = <<>>]
        /\ key' = [key EXCEPT ![t] = [kind |-> "pool", table |-> "none"]]
        /\ cursor' = [cursor EXCEPT ![t] = [size |-> Len(registry["pool"]), next |-> 1]]
        /\ step[t] = "clear" /\ step' = [step EXCEPT ![t] = "loop"]
        /\ UNCHANGED <<made, shut, object, closeRaised>>
    BY <1>8 DEF ClearStores, Iterate, StepTo, NoKey
  <2>2. RegistryTypes'
    BY <1>1, <1>2, <2>1 DEF RegistryTypes, Names, Dictionaries
  <2>3. Cached("pool")' = Cached("pool")
    BY <1>1, <2>1 DEF Cached, RegistryTypes
  <2>4. ClosedPoolsForgotten'
    BY <1>1, <2>1, <2>3 DEF ClosedPoolsForgotten, ClosingPools, RegistryTypes
  <2>5. \A s \in Handlers : step'[s] = "insert" => step[s] = "insert" /\ object'[s] = object[s]
    BY <1>1, <2>1 DEF RegistryTypes
  <2> QED BY <2>1, <2>2, <2>3, <2>4, <2>5, QuietStep
<1>9. CASE ClearPools(t)
  <2>1. /\ registry' = [registry EXCEPT !["pool"] = <<>>] /\ Leave(t)
        /\ UNCHANGED <<made, shut, uses, closeRaised>>
    BY <1>9 DEF ClearPools
  <2>2. RegistryTypes'
    <3>1. registry' \in [Dictionaries -> Seq(Entries)] /\ made' \in Nat
      BY <1>1, <2>1 DEF RegistryTypes, Dictionaries
    <3> QED BY <1>1, <2>1, <3>1, LeaveTypes DEF RegistryTypes
  <2>3. Cached("pool")' = {}
    BY <1>1, <2>1 DEF Cached, RegistryTypes, Dictionaries
  <2>4. ClosedPoolsForgotten'
    BY <2>3 DEF ClosedPoolsForgotten
  <2>5. \A s \in Handlers : step'[s] = "insert" => step[s] = "insert" /\ object'[s] = object[s]
    BY <1>1, <2>1, LeaveTypes
  <2> QED BY <2>1, <2>2, <2>3, <2>4, <2>5, QuietStep
<1> QED BY <1>4, <1>5, <1>6, <1>7, <1>8, <1>9 DEF EndStep

\* close forgets every pool it closes, for any threads, tables and calls
\* (tables.py 85-91), unless it raises.
THEOREM PoolsForgotten == RegistrySpec => []ClosedPoolsForgotten
<1>1. RegistryInv /\ UNCHANGED registryVars => RegistryInv'
  <2> SUFFICES ASSUME RegistryInv, UNCHANGED registryVars PROVE RegistryInv'
    OBVIOUS
  <2>1. UNCHANGED <<registry, made, shut, step, key, object, cursor, uses, closeRaised>>
    BY DEF registryVars
  <2>2. RegistryTypes' /\ shut' \subseteq Nat
    BY <2>1 DEF RegistryInv, RegistryTypes
  <2>3. Cached("pool")' = Cached("pool")
    BY <2>1 DEF Cached
  <2>4. Numbered' /\ Fresh'
    BY <2>1, <2>3 DEF RegistryInv, Numbered, Fresh
  <2>5. ClosedPoolsForgotten'
    BY <2>1, <2>3 DEF RegistryInv, ClosedPoolsForgotten, ClosingPools
  <2> QED BY <2>2, <2>4, <2>5 DEF RegistryInv
<1>2. RegistryInv /\ RegistryNext => RegistryInv'
  BY OpenKeeps, CloseKeeps DEF RegistryNext
<1>3. RegistryInv => ClosedPoolsForgotten
  BY DEF RegistryInv
<1> QED BY <1>1, <1>2, <1>3, RegistryStart, PTL DEF RegistrySpec
=============================================================================
