------------------------- MODULE PrefetchUpperBound -------------------------
(***************************************************************************)
(* The one-step-late reader of scripts/serve_ple_ab.py: fetch answers with *)
(* the rows the previous step's thread has stored, and starts a thread for *)
(* its own.  fetch and close are called from the one thread that runs the  *)
(* model; a step's rows are the number of the call and its token count.    *)
(***************************************************************************)
EXTENDS Naturals

CONSTANTS Counts,    \* token counts of a call
          MaxCalls   \* bound: calls of fetch

VARIABLES
  lock,    \* _lock: "free", or its holder, "caller" or "worker"
  stored,  \* _last: the rows the last thread stored, or Nothing
  worker,  \* _thread: its state, and the rows it reads
  pc,      \* where the calling thread is
  prev,    \* its local variable prev
  asked,   \* the rows the last fetch asked for
  got,     \* what it returned
  calls

vars == <<lock, stored, worker, pc, prev, asked, got, calls>>

Nothing == [call |-> 0, count |-> 0]
NoThread == [state |-> "none", rows |-> Nothing]

\* A prefill, more than four tokens, is read at once.
Prefill(n) == n > 4

Init ==
  /\ lock = "free" /\ stored = Nothing /\ worker = NoThread
  /\ pc = "idle" /\ prev = Nothing /\ asked = Nothing /\ got = Nothing /\ calls = 0

-----------------------------------------------------------------------------
(* fetch                                                                   *)

\* A prefill answers, or raises, before any of the reader's state is touched.
Fetch(n) ==
  /\ pc = "idle" /\ calls < MaxCalls
  /\ calls' = calls + 1
  /\ asked' = [call |-> calls', count |-> n]
  /\ IF Prefill(n) THEN got' \in {asked', Nothing} /\ UNCHANGED pc
                   ELSE pc' = "lock" /\ UNCHANGED got
  /\ UNCHANGED <<lock, stored, worker, prev>>

\* with self._lock: prev, self._last = self._last, None
TakeLock ==
  /\ pc = "lock" /\ lock = "free"
  /\ lock' = "caller"
  /\ prev' = stored /\ stored' = Nothing
  /\ pc' = "join"
  /\ UNCHANGED <<worker, asked, got, calls>>

Alive == worker.state \in {"fetch", "lock", "store"}

\* The previous thread is joined before the lock is given back.
Join ==
  /\ pc = "join" /\ ~Alive
  /\ lock' = "free"
  /\ pc' = "start"
  /\ UNCHANGED <<stored, worker, prev, asked, got, calls>>

\* Start the thread of this step, and return the rows of the previous one, or
\* zeros when there are none of this shape.
Start ==
  /\ pc = "start"
  /\ worker' = [state |-> "fetch", rows |-> asked]
  /\ got' = IF prev.count = asked.count THEN prev ELSE Nothing
  /\ pc' = "idle"
  /\ UNCHANGED <<lock, stored, prev, asked, calls>>

-----------------------------------------------------------------------------
(* The thread, and close                                                   *)

\* inner.fetch returns the rows, or raises and ends the thread.
WorkerFetch ==
  /\ worker.state = "fetch"
  /\ \E state \in {"lock", "ended"} : worker' = [worker EXCEPT !.state = state]
  /\ UNCHANGED <<lock, stored, pc, prev, asked, got, calls>>

WorkerLock ==
  /\ worker.state = "lock" /\ lock = "free"
  /\ lock' = "worker"
  /\ worker' = [worker EXCEPT !.state = "store"]
  /\ UNCHANGED <<stored, pc, prev, asked, got, calls>>

WorkerStore ==
  /\ worker.state = "store"
  /\ stored' = worker.rows
  /\ lock' = "free"
  /\ worker' = [worker EXCEPT !.state = "ended"]
  /\ UNCHANGED <<pc, prev, asked, got, calls>>

\* close joins the last thread without the lock.
Close ==
  /\ pc = "idle" /\ ~Alive
  /\ pc' = "closed"
  /\ UNCHANGED <<lock, stored, worker, prev, asked, got, calls>>

-----------------------------------------------------------------------------
Caller == TakeLock \/ Join \/ Start
Worker == WorkerFetch \/ WorkerLock \/ WorkerStore

Next == (\E n \in Counts : Fetch(n)) \/ Caller \/ Worker \/ Close

\* Both threads keep running.
Spec == Init /\ [][Next]_vars /\ WF_vars(Caller) /\ WF_vars(Worker)

-----------------------------------------------------------------------------
(* Properties.                                                             *)

\* What serve_ple_ab.py 442-445 says of a fetch that had the whole gap between
\* two steps: it should never block.  A fetch that takes the lock before the
\* previous thread has stored its rows waits, in join, for a thread that waits
\* for the lock.
FetchReturns == pc = "lock" ~> pc = "idle"
=============================================================================
