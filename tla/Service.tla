------------------------------- MODULE Service -------------------------------
(***************************************************************************)
(* One connection of the table service: the handler thread of              *)
(* python/engramdb/server.py or crates/engramdb/src/serve.rs, and the      *)
(* synchronous client of service_client.py with its socket timeout.        *)
(* Connections share nothing but the Database (see Registry).              *)
(*                                                                         *)
(* A message is three units: a length and two halves of a body (frames),   *)
(* or two halves and a newline (lines).  A stream holds the units in the   *)
(* order in which they were written; how it is cut into messages is up to  *)
(* the reader, as in the code.                                             *)
(***************************************************************************)
EXTENDS Naturals, Sequences, FiniteSets, SequencesExt

CONSTANTS Commands,    \* the commands the client uses
          Garbage,     \* bound: lengths, in units, that text read as a prefix announces
          MaxRequests  \* bound: requests of the client

ASSUME ServiceAssumption ==
  /\ Commands \subseteq {"ping", "list_tables", "fetch", "fetch_arrow", "view_read"}
  /\ Garbage \subseteq Nat /\ MaxRequests \in Nat

VARIABLES
  impl,        \* "rust" or "python": the server (never changes)
  wire,        \* "frames" or "lines": the protocol (never changes)
  toServer,    \* units the client has sent and the handler has not used
  toClient,    \* units the handler has written and the client has not used
  clientOpen,  \* the client's end is open
  serverOpen,  \* the server's end is open
  asked,       \* the command of every request so far
  results,     \* how each of them ended: the answer it was given (0: none, or torn)
  writing,     \* the handler writes its last answer; it reads otherwise
  answers,     \* every answer of the handler: the request it is to, its kind
  written,     \* units of the last answer that are written
  sent,        \* history: the requests that were sent whole
  torn         \* history: a request or the reading of an answer stopped half-way

config == <<impl, wire>>
client == <<clientOpen, asked, results, sent, torn>>
server == <<serverOpen, writing, answers, written>>
vars == <<config, toServer, toClient, client, server>>

Units(i) == [p \in 1..3 |-> [of |-> i, pos |-> p]]

\* The units that a length prefix u announces: text in its place, anything.
Announced(u) == IF u.pos = 1 THEN {2} ELSE Garbage

\* Where the reader of a stream may see the end of the first message: after the
\* announced number of units, or after the first newline.
Ends(s) ==
  IF wire = "frames" THEN IF s = <<>> THEN {} ELSE {n + 1 : n \in Announced(s[1])}
  ELSE {p \in DOMAIN s : s[p].pos = 3 /\ \A q \in 1..(p - 1) : s[q].pos # 3}

\* The reader of a stream waits for more of the first message.
Unfinished(s) == Ends(s) = {} \/ \E n \in Ends(s) : n > Len(s)

\* What was read is one message as it was written; everything else is no JSON.
Whole(m) == m # <<>> /\ m = Units(m[1].of)

\* The kinds of answer a command may get.  Rows that a table does not have, and
\* no rows at all (Rust), panic in the gather; Python does not catch it either,
\* as pyo3's PanicException is no Exception.
Kinds(cmd) ==
  CASE cmd = "fetch" -> {"panic", "json"} \union IF wire = "frames" THEN {"raw"} ELSE {}
    [] cmd = "fetch_arrow" /\ impl = "python" ->
         {"panic", "json"} \union IF wire = "frames" THEN {"arrow"} ELSE {}
    [] cmd = "view_read" /\ wire = "frames" -> {"raw", "json"}
    [] OTHER -> {"json"}

\* The kind of answer a method of the client insists on.
Expected(cmd) ==
  CASE wire = "lines" -> "json"
    [] cmd \in {"fetch", "view_read"} -> "raw"
    [] cmd = "fetch_arrow" -> "arrow"
    [] OTHER -> "json"

Init ==
  /\ impl \in {"rust", "python"} /\ wire \in {"frames", "lines"}
  /\ toServer = <<>> /\ toClient = <<>> /\ clientOpen = TRUE /\ serverOpen = TRUE
  /\ asked = <<>> /\ results = <<>> /\ sent = <<>> /\ torn = FALSE
  /\ writing = FALSE /\ answers = <<>> /\ written = 0

-----------------------------------------------------------------------------
(* The client.  request sends, and then waits for the answer.              *)

Waiting == Len(asked) > Len(results)

Error == [of |-> 0, state |-> "error"]

\* sendall puts n units on their way: all of them, or it times out or meets a
\* closed connection.
Request(cmd, n) ==
  LET i == Len(asked) + 1 IN
  /\ ~Waiting /\ clientOpen /\ i <= MaxRequests
  /\ asked' = Append(asked, cmd)
  /\ toServer' = IF serverOpen THEN toServer \o SubSeq(Units(i), 1, n) ELSE toServer
  /\ IF n = 3 THEN sent' = Append(sent, i) /\ UNCHANGED results
     ELSE results' = Append(results, Error) /\ UNCHANGED sent
  /\ torn' = (torn \/ n \in 1..2)
  /\ UNCHANGED <<config, toClient, clientOpen, server>>

\* The answer has arrived: its kind is checked, or its JSON parsed.  The kind byte
\* of a torn frame may be any, so it may be returned; an empty frame is an error.
Returns(n) ==
  LET m == SubSeq(toClient, 1, n) IN
  /\ Waiting /\ n <= Len(toClient)
  /\ toClient' = SubSeq(toClient, n + 1, Len(toClient))
  /\ \E result \in
       IF Whole(m)
       THEN {[of |-> m[1].of, state |-> IF answers[m[1].of].kind = Expected(Last(asked))
                                        THEN "answer" ELSE "wrong_kind"]}
       ELSE {Error} \union (IF wire = "frames" /\ n > 1 THEN {[of |-> 0, state |-> "torn"]} ELSE {}) :
         results' = Append(results, result)
  /\ UNCHANGED <<config, toServer, clientOpen, asked, sent, torn, server>>

\* MUTANT of GivesUp: also when no request waits for an answer.
GivesUpIdle ==
  /\ Unfinished(toClient)
  /\ results' = Append(results, Error)
  /\ torn' = (torn \/ toClient # <<>>)
  /\ toClient' = <<>>
  /\ UNCHANGED <<config, toServer, clientOpen, asked, sent, server>>

\* request raises; the units of an unfinished answer are gone.
GivesUp ==
  /\ Waiting /\ Unfinished(toClient)
  /\ results' = Append(results, Error)
  /\ torn' = (torn \/ toClient # <<>>)
  /\ toClient' = <<>>
  /\ UNCHANGED <<config, toServer, clientOpen, asked, sent, server>>

\* MUTANT of ConnectionError: only a connection closed between answers is noticed.
ConnectionErrorBetween == ~serverOpen /\ toClient = <<>> /\ GivesUp

\* recv returns nothing: the server has closed the connection.
ConnectionError == ~serverOpen /\ GivesUp

\* recv times out.  The connection stays as it is, and a late answer stays in it.
Timeout == serverOpen /\ GivesUp

ClientCloses ==
  /\ ~Waiting /\ clientOpen
  /\ clientOpen' = FALSE
  /\ UNCHANGED <<config, toServer, toClient, asked, results, sent, torn, server>>

-----------------------------------------------------------------------------
(* The handler.                                                            *)

Reading == serverOpen /\ ~writing

\* The end of the stream has come before the end of a message.
AtEnd == Reading /\ ~clientOpen /\ Unfinished(toServer)

\* A request that the end of the stream cuts off is dispatched all the same, but
\* by the frames of Rust.
CutOff == AtEnd /\ toServer # <<>> /\ ~(impl = "rust" /\ wire = "frames")

\* The lengths of the requests that may be dispatched now.
Dispatched == {n \in Ends(toServer) : Reading /\ n <= Len(toServer)}
              \union {n \in {Len(toServer)} : CutOff}

Hangup == serverOpen' = FALSE /\ writing' = FALSE

\* MUTANT of HandlerReturns: the end of the stream within a request is not noticed.
HandlerReturnsBetween ==
  /\ AtEnd /\ toServer = <<>>
  /\ Hangup
  /\ UNCHANGED <<config, toServer, toClient, client, answers, written>>

\* The handler returns at the end of the stream.
HandlerReturns ==
  /\ AtEnd /\ ~CutOff
  /\ Hangup
  /\ UNCHANGED <<config, toServer, toClient, client, answers, written>>

\* MUTANT of Dispatch: nothing is answered when the command fails.
DispatchSilently(n, kind) ==
  LET m == SubSeq(toServer, 1, n) IN
  /\ kind \in IF Whole(m) THEN Kinds(asked[m[1].of]) ELSE {"json"}
  /\ toServer' = SubSeq(toServer, n + 1, Len(toServer))
  /\ IF kind \in {"panic", "json"} THEN UNCHANGED server
     ELSE /\ answers' = Append(answers, [to |-> IF Whole(m) THEN m[1].of ELSE 0, kind |-> kind])
          /\ writing' = TRUE /\ written' = 0 /\ UNCHANGED serverOpen
  /\ UNCHANGED <<config, toClient, client>>

\* The request is parsed and carried out: an answer, an error in an answer, or a
\* panic, which ends the thread and closes the connection.
Dispatch(n, kind) ==
  LET m == SubSeq(toServer, 1, n) IN
  /\ kind \in IF Whole(m) THEN Kinds(asked[m[1].of]) ELSE {"json"}
  /\ toServer' = SubSeq(toServer, n + 1, Len(toServer))
  /\ IF kind = "panic" THEN Hangup /\ UNCHANGED <<answers, written>>
     ELSE /\ answers' = Append(answers, [to |-> IF Whole(m) THEN m[1].of ELSE 0, kind |-> kind])
          /\ writing' = TRUE /\ written' = 0 /\ UNCHANGED serverOpen
  /\ UNCHANGED <<config, toClient, client>>

\* write_all; what is written to a client that has gone is lost.
Write ==
  /\ writing
  /\ toClient' = IF clientOpen THEN Append(toClient, Units(Len(answers))[written + 1]) ELSE toClient
  /\ written' = written + 1 /\ writing' = (written < 2)
  /\ UNCHANGED <<config, toServer, client, serverOpen, answers>>

\* A write fails because the client has gone: the handler gives up.
WriteFails ==
  /\ writing /\ ~clientOpen
  /\ Hangup
  /\ UNCHANGED <<config, toServer, toClient, client, answers, written>>

\* The process of the server is stopped.
ServerStops ==
  /\ serverOpen
  /\ Hangup
  /\ UNCHANGED <<config, toServer, toClient, client, answers, written>>

-----------------------------------------------------------------------------
Waits == (\E n \in Ends(toClient) : Returns(n)) \/ ConnectionError \/ Timeout

\* Python's fetch borrows a handle of a pool and may wait for it without end.
Borrowing ==
  /\ impl = "python" /\ Reading /\ Len(toServer) >= 3
  /\ Whole(SubSeq(toServer, 1, 3)) /\ asked[toServer[1].of] = "fetch"

Handles == \/ HandlerReturns \/ Write \/ WriteFails
           \/ \E n \in Dispatched, kind \in {"json", "raw", "arrow", "panic"} : Dispatch(n, kind)

Next == \/ \E cmd \in Commands, n \in 0..3 : Request(cmd, n)
        \/ Waits \/ ClientCloses \/ Handles \/ ServerStops

\* recv returns or times out; the handler goes on unless it waits for a handle.
Fairness == WF_vars(Waits) /\ WF_vars(~Borrowing /\ Handles)

Spec == Init /\ [][Next]_vars /\ Fairness

-----------------------------------------------------------------------------
(* Properties.                                                             *)

Stream == Seq([of : 1..(3 * MaxRequests), pos : 1..3])

TypeOK ==
  /\ toServer \in Stream /\ toClient \in Stream
  /\ clientOpen \in BOOLEAN /\ serverOpen \in BOOLEAN /\ writing \in BOOLEAN
  /\ asked \in Seq(Commands) /\ Len(results) <= Len(asked) /\ Len(asked) <= Len(results) + 1
  /\ results \in Seq([of : 0..Len(answers), state : {"answer", "wrong_kind", "torn", "error"}])
  /\ answers \in Seq([to : 0..Len(asked), kind : {"json", "raw", "arrow"}])
  /\ written \in 0..3 /\ sent \in Seq(1..Len(asked)) /\ torn \in BOOLEAN

\* Of the first i requests, those whose result is a whole answer.
GivenUpTo(rs, i) == {j \in 1..i : rs[j].of # 0}

\* As long as no message was torn, the client is given whole answers, one after
\* the other, and the n-th is the answer to the n-th request it sent; as long as no
\* request failed either, it is the answer to the request that returns it.  There is
\* no request id (service_client.py 45-54, server.py 189-203, serve.rs 331-361): the
\* two ends only count, whatever times out, panics or is answered with an error.
AnswersInOrder ==
  ~torn =>
    /\ \A i \in DOMAIN results : results[i].state # "torn"
    /\ \A i \in DOMAIN results : results[i].of # 0 =>
         /\ results[i].of = Cardinality(GivenUpTo(results, i))
         /\ answers[results[i].of].to = sent[results[i].of]
    /\ \A i \in DOMAIN results :
         (\A j \in 1..i : results[j].state \in {"answer", "wrong_kind"}) =>
           answers[results[i].of].to = i

\* request returns or raises, whatever the server does and however the frames are
\* shifted (service_client.py 18-27: recv ends by data, by the end or by a timeout).
RequestReturns == Waiting ~> ~Waiting

\* A connection that the client has closed does not keep its thread, also when the
\* client left in the middle of a request (server.py 60-62 and 191, serve.rs 322
\* and 334), unless the thread waits for a handle.
HandlerEnds == ~clientOpen ~> ~serverOpen \/ Borrowing
=============================================================================
