------------------------------ MODULE UringRing ------------------------------
(***************************************************************************)
(* Reads through the io_uring of a thread: read_many of UringBatchBackend, *)
(* read_at and read_exact_at of UringBackend, which share one ring         *)
(* (crates/engramdb-io/src/backend.rs), and read_pages of                  *)
(* IoUringPageReader, which has a ring of its own                          *)
(* (crates/engramdb-pyo3/src/lib.rs).  The ring stays from call to call,   *)
(* with whatever a call has left in it.                                    *)
(*                                                                         *)
(* A buffer has units 0..(Units - 1); a read asks for the units of one     *)
(* buffer from some unit on.  The kernel completes reads in any order, in  *)
(* full, short, at the end of the file (0) or with an error (-1).          *)
(***************************************************************************)
EXTENDS Integers, Sequences, SequencesExt, FiniteSets

CONSTANTS Depth,    \* entries of the submission queue
          Units,    \* units of a buffer
          MaxReads, \* bound: buffers of a call
          MaxCalls  \* bound: calls of the thread

ASSUME RingAssumption ==
  Depth \in Nat \ {0} /\ Units \in Nat \ {0} /\ MaxReads \in Nat /\ MaxCalls \in Nat

VARIABLES
  kinds,  \* the calls that go through this ring
  sq,     \* reads pushed and not submitted
  flight, \* reads the kernel works on
  cq,     \* completions, oldest first
  id,     \* number of the latest call
  kind,   \* what it is
  pc,     \* "idle", "push", "submit", "wait" or "reap"
  start,  \* buffers of earlier chunks
  left,   \* completions still to be taken for the chunk
  done,   \* units read_exact_at believes to have
  buf,    \* buf[i]: the units of the i-th buffer of the call that are filled
  size,   \* size[i]: the length the i-th page is cut to
  ringOutcome, \* of the latest call: "none", "ok", "err" or "panic"
  failed  \* history: an earlier call, or this one, failed

ring == <<sq, flight, cq>>
call == <<id, kind, start, left, done, buf, size>>
ringVars == <<kinds, ring, call, pc, ringOutcome, failed>>

Rings == {{"many", "at", "exact"}, {"pages"}}

RingInit ==
  /\ kinds \in Rings
  /\ sq = <<>> /\ flight = {} /\ cq = <<>>
  /\ id = 0 /\ kind \in kinds /\ pc = "idle" /\ start = 0 /\ left = 0 /\ done = 0
  /\ buf = <<>> /\ size = <<>> /\ ringOutcome = "none" /\ failed = FALSE

WholeBuffer == 0..(Units - 1)

\* Reads that go through the ring together.
RingChunk == IF Len(buf) - start < Depth THEN Len(buf) - start ELSE Depth

RingReturn(result) ==
  /\ pc' = "idle" /\ ringOutcome' = result
  /\ failed' = (failed \/ result # "ok")

\* A call for n buffers, without any it returns at once.
Begin(k, n) ==
  /\ pc = "idle" /\ id < MaxCalls
  /\ k \in {"at", "exact"} => n = 1
  /\ id' = id + 1 /\ kind' = k
  /\ start' = 0 /\ left' = 0 /\ done' = 0
  /\ buf' = [i \in 1..n |-> {}] /\ size' = [i \in 1..n |-> Units]
  /\ IF n = 0 THEN RingReturn("ok")
     ELSE pc' = "push" /\ ringOutcome' = "none" /\ UNCHANGED failed
  /\ UNCHANGED <<kinds, ring>>

\* MUTANT of Rest: a second read asks for the whole length again.
RestWhole == Units

\* What the buffer still lacks.
Rest == Units - done

\* The reads of the chunk, each with its place in the chunk as user data.
\* read_exact_at asks for what it does not have yet.
Sqes ==
  [i \in 1..RingChunk |-> [call |-> id, slot |-> start + i, data |-> i - 1,
                       from |-> done, n |-> Rest]]

RingPush ==
  LET room == Depth - Len(sq) IN
  /\ pc = "push"
  /\ sq' = sq \o SubSeq(Sqes, 1, IF RingChunk < room THEN RingChunk ELSE room)
  /\ IF RingChunk <= room THEN pc' = "submit" /\ UNCHANGED <<ringOutcome, failed>>
     ELSE RingReturn("err")
  /\ UNCHANGED <<kinds, flight, cq, call>>

\* submit_and_wait hands everything in the queue to the kernel, or fails before.
Submit(ok) ==
  /\ pc = "submit"
  /\ IF ok
     THEN /\ flight' = flight \cup ToSet(sq) /\ sq' = <<>>
          /\ pc' = "wait" /\ UNCHANGED <<ringOutcome, failed>>
     ELSE RingReturn("err") /\ UNCHANGED <<sq, flight>>
  /\ UNCHANGED <<kinds, cq, call>>

\* The kernel completes a read.  Units go to the buffer of the running call; a
\* buffer of an earlier call is gone.
Complete(x, res) ==
  /\ flight' = flight \ {x}
  /\ cq' = Append(cq, [data |-> x.data, res |-> res])
  /\ buf' = IF x.call = id /\ pc # "idle"
            THEN [buf EXCEPT ![x.slot] = @ \cup x.from..(x.from + res - 1)]
            ELSE buf
  /\ UNCHANGED <<kinds, sq, id, kind, pc, start, left, done, size, ringOutcome, failed>>

Kernel == \E x \in flight : \E res \in {-1} \cup 0..x.n : Complete(x, res)

\* Completions submit_and_wait waits for, those of earlier calls included.
Awaited == RingChunk

Reap == pc' = "reap" /\ left' = RingChunk

Woken ==
  /\ pc = "wait" /\ Len(cq) >= Awaited
  /\ Reap
  /\ UNCHANGED <<kinds, ring, id, kind, start, done, buf, size, ringOutcome, failed>>

\* A signal ends the wait: what was submitted counts as success.
Interrupted ==
  /\ pc = "wait" /\ Len(cq) < Awaited
  /\ Reap
  /\ UNCHANGED <<kinds, ring, id, kind, start, done, buf, size, ringOutcome, failed>>

NoCompletion ==
  /\ pc = "reap" /\ cq = <<>>
  /\ RingReturn("err")
  /\ UNCHANGED <<kinds, ring, call>>

\* A completion is taken from the ring and goes on in this state.
Taken == cq' = Tail(cq) /\ UNCHANGED <<kinds, sq, flight, id, kind>>

\* A refused completion ends the call, and the rest of the chunk stays behind.
Refuse(result) ==
  Taken /\ RingReturn(result) /\ UNCHANGED <<start, left, done, buf, size>>

\* MUTANT of ReadWhole: a short read counts as whole.
ReadWholeShort(c) == c.res >= 0

\* read_many compares with the length it asked for at that place of the chunk.
ReadWhole(c) == c.res = (IF c.data < RingChunk THEN Units ELSE 0)

\* MUTANT of More: the last completion of a chunk is left in the ring.
MoreButOne == left > 2

\* Completions of the chunk are left.
More == left > 1

\* After the last completion of a chunk come the next chunk or the end.
NextChunk ==
  /\ IF More THEN left' = left - 1 /\ UNCHANGED <<pc, start, ringOutcome, failed>>
     ELSE /\ left' = 0 /\ start' = start + RingChunk
          /\ IF start' < Len(buf) THEN pc' = "push" /\ UNCHANGED <<ringOutcome, failed>>
             ELSE RingReturn("ok")
  /\ UNCHANGED done

ReapMany ==
  LET c == Head(cq) IN
  /\ pc = "reap" /\ cq # <<>> /\ kind = "many"
  /\ IF ReadWhole(c) THEN Taken /\ NextChunk /\ UNCHANGED <<buf, size>> ELSE Refuse("err")

\* A page is cut to what was read.  A place outside the call's pages panics.
ReapPage ==
  LET c == Head(cq)
      page == start + c.data + 1 IN
  /\ pc = "reap" /\ cq # <<>> /\ kind = "pages"
  /\ IF c.res <= 0 THEN Refuse("err")
     ELSE IF page > Len(buf) THEN Refuse("panic")
     ELSE /\ Taken /\ NextChunk
          /\ size' = [size EXCEPT ![page] = IF c.res < @ THEN c.res ELSE @]
          /\ UNCHANGED buf

\* read_at returns the number of units, whatever it is.
ReapAt ==
  LET c == Head(cq) IN
  /\ pc = "reap" /\ cq # <<>> /\ kind = "at"
  /\ IF c.res < 0 THEN Refuse("err")
     ELSE /\ Taken /\ RingReturn("ok") /\ size' = [size EXCEPT ![1] = c.res]
          /\ UNCHANGED <<start, left, done, buf>>

\* MUTANT of EndOfFile: at the end of the file the read is tried again.
EndOfFileNever(c) == FALSE

\* Nothing was read.
EndOfFile(c) == c.res = 0

\* read_exact_at goes on until it has all units.
ReapExact ==
  LET c == Head(cq) IN
  /\ pc = "reap" /\ cq # <<>> /\ kind = "exact"
  /\ IF c.res < 0 \/ EndOfFile(c) THEN Refuse("err")
     ELSE /\ Taken
          /\ done' = done + c.res
          /\ IF done' < Units THEN pc' = "push" /\ UNCHANGED <<ringOutcome, failed>>
             ELSE RingReturn("ok")
          /\ UNCHANGED <<start, left, buf, size>>

Thread ==
  \/ RingPush \/ (\E ok \in BOOLEAN : Submit(ok))
  \/ Woken \/ NoCompletion
  \/ ReapMany \/ ReapPage \/ ReapAt \/ ReapExact

RingNext ==
  \/ \E k \in kinds, n \in 0..MaxReads : Begin(k, n)
  \/ Thread \/ Interrupted \/ Kernel

\* The thread runs and the kernel completes every read.
RingFairness == WF_ringVars(Thread) /\ WF_ringVars(Kernel)

RingSpec == RingInit /\ [][RingNext]_ringVars /\ RingFairness

-----------------------------------------------------------------------------
(* Properties.                                                             *)

Sqe == [call : 1..MaxCalls, slot : 1..MaxReads, data : 0..(Depth - 1),
        from : WholeBuffer, n : 1..Units]

RingTypeOK ==
  /\ kinds \in Rings /\ kind \in kinds
  /\ pc \in {"idle", "push", "submit", "wait", "reap"}
  /\ ringOutcome \in {"none", "ok", "err", "panic"} /\ failed \in BOOLEAN
  /\ sq \in Seq(Sqe) /\ Len(sq) <= Depth /\ flight \subseteq Sqe
  /\ cq \in Seq([data : 0..(Depth - 1), res : -1..Units])
  /\ buf \in Seq(SUBSET WholeBuffer) /\ DOMAIN size = DOMAIN buf
  /\ left \in 0..Depth /\ done \in 0..(2 * Units)
  /\ pc \in {"push", "submit", "wait"} => start < Len(buf) /\ done < Units

\* As long as no call of this ring has failed, a call that succeeds has filled
\* every buffer it was given, or exactly the part it returns (backend.rs 69-71,
\* 82-86, pyo3 lib.rs 355-356).
ExactUnlessFailed ==
  ringOutcome = "ok" /\ ~failed => \A i \in 1..Len(buf) :
    CASE kind \in {"many", "exact"} -> buf[i] = WholeBuffer
      [] kind = "at" -> buf[i] = 0..(size[i] - 1)
      [] kind = "pages" -> size[i] > 0 /\ buf[i] = 0..(size[i] - 1)

\* As long as no call has failed, nothing of a call is left in the ring when it
\* returns: no completion for the next one, no read into a buffer that is gone.
CleanUnlessFailed == pc = "idle" /\ ~failed => sq = <<>> /\ flight = {} /\ cq = <<>>

\* Every call returns, after failures too: what it waits for is on its way.
CallReturns == (pc # "idle") ~> (pc = "idle")
=============================================================================
