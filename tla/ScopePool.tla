----------------------------- MODULE ScopePool ------------------------------
(***************************************************************************)
(* The resident worker pool of crates/engramdb-io/src/pool.rs and its only *)
(* entry point, scope_run.  Callers hand over jobs that borrow from their  *)
(* stack; the lifetime of a job is erased with transmute, so memory safety *)
(* rests on scope_run returning only after every job has run.              *)
(*                                                                         *)
(* One action is one critical section (a Mutex held from lock to unlock)   *)
(* or one step without a lock.  Condition variables follow std: notify_one *)
(* wakes one waiter if there is one, and a waiter may wake spuriously.     *)
(***************************************************************************)
EXTENDS Naturals, Sequences, FiniteSets

CONSTANTS Callers,   \* threads that call scope_run (gather, view reads)
          Workers,   \* the resident threads of the pool
          MaxJobs,   \* bound: jobs of one call
          MaxCalls   \* bound: calls of all callers

ASSUME ConstantsAssumption ==
  /\ Callers # {}
  /\ IsFiniteSet(Workers)
  /\ MaxJobs \in Nat
  /\ MaxCalls \in Nat

VARIABLES
  ready,     \* the pool exists and ENGRAMDB_NO_POOL is unset (never changes)
  queue,     \* Inner.queue: the wrapped jobs nobody has taken yet
  wpc,       \* wpc[w]: where worker w is in worker_loop and in its job
  wjob,      \* wjob[w]: the wrapped job worker w is executing
  werr,      \* werr[w]: the job panicked (the wrapper's local r is Err)
  cpc,       \* cpc[c]: where caller c is in scope_run
  call,      \* call[c]: number of the current (or last) call of c
  njobs,     \* njobs[c]: jobs.len() of that call
  toNotify,  \* toNotify[c]: notify_one calls submit_many still has to make
  done,      \* done[c]: the completion count of that call
  panics,    \* panics[c]: the payloads recorded for that call
  threads,   \* threads[c]: jobs still running on their own thread (fallback)
  outcome,   \* outcome[c]: how the last call ended
  \* History variables.
  ran,       \* ran[c]: jobs of the call that have run to their end
  counted,   \* counted[c]: jobs of the call that have been counted in done
  failed     \* failed[c]: jobs of the call that panicked

workerVars == <<wpc, wjob, werr>>
callVars   == <<cpc, call, njobs, toNotify, threads, outcome>>
scopeVars  == <<done, panics, ran, counted, failed>>
vars == <<ready, queue, workerVars, callVars, scopeVars>>

Job == [caller : Callers, call : Nat, idx : Nat \ {0}]

\* What wjob holds while a worker has no job.
NoJob == [caller |-> CHOOSE c \in Callers : TRUE, call |-> 0, idx |-> 1]

\* The call a job belongs to is still the current call of its caller.  The
\* Arcs a job of an older call holds are no longer seen by anyone else.
Current(j) == j.call = call[j.caller]

\* f with the entry of job j's call replaced.
ForCall(f, j, v) == IF Current(j) THEN [f EXCEPT ![j.caller] = v] ELSE f

-----------------------------------------------------------------------------
Init ==
  /\ ready \in BOOLEAN
  /\ queue = <<>>
  /\ wpc = [w \in Workers |-> "idle"]
  /\ wjob = [w \in Workers |-> NoJob]
  /\ werr = [w \in Workers |-> FALSE]
  /\ cpc = [c \in Callers |-> "out"]
  /\ call = [c \in Callers |-> 0]
  /\ njobs = [c \in Callers |-> 0]
  /\ toNotify = [c \in Callers |-> 0]
  /\ done = [c \in Callers |-> 0]
  /\ panics = [c \in Callers |-> <<>>]
  /\ threads = [c \in Callers |-> {}]
  /\ outcome = [c \in Callers |-> "none"]
  /\ ran = [c \in Callers |-> {}]
  /\ counted = [c \in Callers |-> {}]
  /\ failed = [c \in Callers |-> {}]

-----------------------------------------------------------------------------
(* Callers: scope_run, submit_many and the wait for the jobs.              *)

CallsMade == Cardinality({p \in Callers \X (1..MaxCalls) : p[2] <= call[p[1]]})

\* MUTANT of BeginCall: the payloads outlive the call (one shared vector).
BeginCallShared(c, n) ==
  /\ cpc[c] = "out"
  /\ CallsMade < MaxCalls
  /\ call' = [call EXCEPT ![c] = @ + 1]
  /\ njobs' = [njobs EXCEPT ![c] = n]
  /\ done' = [done EXCEPT ![c] = 0]
  /\ ran' = [ran EXCEPT ![c] = {}]
  /\ counted' = [counted EXCEPT ![c] = {}]
  /\ failed' = [failed EXCEPT ![c] = {}]
  /\ UNCHANGED <<ready, workerVars, panics>>

\* The next call of c starts with fresh Arcs for the count and the panics.
BeginCall(c, n) ==
  /\ cpc[c] = "out"
  /\ CallsMade < MaxCalls
  /\ call' = [call EXCEPT ![c] = @ + 1]
  /\ njobs' = [njobs EXCEPT ![c] = n]
  /\ done' = [done EXCEPT ![c] = 0]
  /\ panics' = [panics EXCEPT ![c] = <<>>]
  /\ ran' = [ran EXCEPT ![c] = {}]
  /\ counted' = [counted EXCEPT ![c] = {}]
  /\ failed' = [failed EXCEPT ![c] = {}]
  /\ UNCHANGED <<ready, workerVars>>

\* scope_run without jobs returns at once.
ScopeEmpty(c) ==
  /\ BeginCall(c, 0)
  /\ outcome' = [outcome EXCEPT ![c] = "ok"]
  /\ UNCHANGED <<queue, cpc, toNotify, threads>>

\* The pool cannot run n jobs at once: one thread per job instead.
UseThreads(n) == ~ready \/ n > Cardinality(Workers)

\* The fallback on std::thread::scope.
ScopeThreads(c, n) ==
  /\ UseThreads(n)
  /\ BeginCall(c, n)
  /\ cpc' = [cpc EXCEPT ![c] = "join"]
  /\ threads' = [threads EXCEPT ![c] = 1..n]
  /\ outcome' = [outcome EXCEPT ![c] = "none"]
  /\ UNCHANGED <<queue, toNotify>>

\* The wrapped jobs of c's next call, in order.
Wrapped(c, n) == [i \in 1..n |-> [caller |-> c, call |-> call[c] + 1, idx |-> i]]

\* The pooled path: wrap the jobs and append them under one lock.
ScopePooled(c, n) ==
  /\ ~UseThreads(n)
  /\ BeginCall(c, n)
  /\ queue' = queue \o Wrapped(c, n)
  /\ toNotify' = [toNotify EXCEPT ![c] = n]
  /\ cpc' = [cpc EXCEPT ![c] = "notify"]
  /\ outcome' = [outcome EXCEPT ![c] = "none"]
  /\ UNCHANGED threads

\* notify_one on Inner.cv: some waiter, if there is one, goes on.
WakeOne == LET waiting == {w \in Workers : wpc[w] = "waiting"}
           IN \/ waiting = {} /\ UNCHANGED wpc
              \/ \E w \in waiting : wpc' = [wpc EXCEPT ![w] = "idle"]

\* MUTANT of NotifyOne: for _ in 0..=n.
NotifyOneMore(c) ==
  /\ cpc[c] = "notify"
  /\ WakeOne
  /\ toNotify' = [toNotify EXCEPT ![c] = @ - 1]
  /\ cpc' = [cpc EXCEPT ![c] = IF toNotify[c] = 0 THEN "await" ELSE "notify"]
  /\ UNCHANGED <<ready, queue, wjob, werr, call, njobs, threads, outcome, scopeVars>>

\* One of the n notify_one calls submit_many makes after unlocking the queue.
NotifyOne(c) ==
  /\ cpc[c] = "notify"
  /\ WakeOne
  /\ toNotify' = [toNotify EXCEPT ![c] = @ - 1]
  /\ cpc' = [cpc EXCEPT ![c] = IF toNotify[c] = 1 THEN "await" ELSE "notify"]
  /\ UNCHANGED <<ready, queue, wjob, werr, call, njobs, threads, outcome, scopeVars>>

\* MUTANT of AwaitDone: while *g + 1 < n.
AwaitAllButOne(c) ==
  /\ cpc[c] = "await"
  /\ cpc' = [cpc EXCEPT ![c] = IF done[c] + 1 < njobs[c] THEN "blocked" ELSE "drain"]
  /\ UNCHANGED <<ready, queue, workerVars, call, njobs, toNotify, threads, outcome,
                 scopeVars>>

\* while *g < n: wait on the completion count, or go on to the panics.
AwaitDone(c) ==
  /\ cpc[c] = "await"
  /\ cpc' = [cpc EXCEPT ![c] = IF done[c] < njobs[c] THEN "blocked" ELSE "drain"]
  /\ UNCHANGED <<ready, queue, workerVars, call, njobs, toNotify, threads, outcome,
                 scopeVars>>

\* MUTANT of SpuriousCaller: if *g < n instead of while.
WakeUnchecked(c) ==
  /\ cpc[c] = "blocked"
  /\ cpc' = [cpc EXCEPT ![c] = "drain"]
  /\ UNCHANGED <<ready, queue, workerVars, call, njobs, toNotify, threads, outcome,
                 scopeVars>>

\* A condition variable may wake its waiter without a notification.
SpuriousCaller(c) ==
  /\ cpc[c] = "blocked"
  /\ cpc' = [cpc EXCEPT ![c] = "await"]
  /\ UNCHANGED <<ready, queue, workerVars, call, njobs, toNotify, threads, outcome,
                 scopeVars>>

\* Take the recorded panics; replay the first one or return normally.
DrainPanics(c) ==
  /\ cpc[c] = "drain"
  /\ outcome' = [outcome EXCEPT ![c] = IF panics[c] = <<>> THEN "ok" ELSE "panic"]
  /\ panics' = [panics EXCEPT ![c] = <<>>]
  /\ cpc' = [cpc EXCEPT ![c] = "out"]
  /\ UNCHANGED <<ready, queue, workerVars, call, njobs, toNotify, threads,
                 done, ran, counted, failed>>

\* Job i of c runs to its end on a thread of its own, with or without panic.  The
\* threads are there: s.spawn panics where the system has no thread to give, and
\* the call then unwinds without the jobs that were not spawned; not modelled.
ThreadRun(c, i, err) ==
  /\ cpc[c] = "join"
  /\ i \in threads[c]
  /\ threads' = [threads EXCEPT ![c] = @ \ {i}]
  /\ ran' = [ran EXCEPT ![c] = @ \union {i}]
  /\ failed' = [failed EXCEPT ![c] = IF err THEN @ \union {i} ELSE @]
  /\ UNCHANGED <<ready, queue, workerVars, cpc, call, njobs, toNotify, outcome,
                 done, panics, counted>>

\* std::thread::scope returns when every thread has ended, and panics if one did.
ThreadsJoined(c) ==
  /\ cpc[c] = "join"
  /\ threads[c] = {}
  /\ outcome' = [outcome EXCEPT ![c] = IF failed[c] = {} THEN "ok" ELSE "panic"]
  /\ cpc' = [cpc EXCEPT ![c] = "out"]
  /\ UNCHANGED <<ready, queue, workerVars, call, njobs, toNotify, threads, scopeVars>>

-----------------------------------------------------------------------------
(* Workers: worker_loop and the wrapper scope_run puts around each job.    *)

\* Take the front job, if there is one.
PopJob(w) ==
  /\ wpc[w] = "idle"
  /\ queue # <<>>
  /\ wjob' = [wjob EXCEPT ![w] = Head(queue)]
  /\ queue' = Tail(queue)
  /\ wpc' = [wpc EXCEPT ![w] = "run"]
  /\ UNCHANGED <<ready, werr, callVars, scopeVars>>

\* MUTANT of WorkerWait: the queue is checked before its lock is taken.
WaitUnlocked(w) ==
  /\ wpc[w] = "idle"
  /\ wpc' = [wpc EXCEPT ![w] = "waiting"]
  /\ UNCHANGED <<ready, queue, wjob, werr, callVars, scopeVars>>

\* Otherwise wait; the wait releases the queue's lock in the same step.
WorkerWait(w) ==
  /\ wpc[w] = "idle"
  /\ queue = <<>>
  /\ wpc' = [wpc EXCEPT ![w] = "waiting"]
  /\ UNCHANGED <<ready, queue, wjob, werr, callVars, scopeVars>>

SpuriousWorker(w) ==
  /\ wpc[w] = "waiting"
  /\ wpc' = [wpc EXCEPT ![w] = "idle"]
  /\ UNCHANGED <<ready, queue, wjob, werr, callVars, scopeVars>>

\* The job itself ends, with or without a panic; its borrows end with it.
RunJob(w, err) ==
  LET j == wjob[w] IN
  /\ wpc[w] = "run"
  /\ wpc' = [wpc EXCEPT ![w] = "ran"]
  /\ werr' = [werr EXCEPT ![w] = err]
  /\ ran' = ForCall(ran, j, ran[j.caller] \union {j.idx})
  /\ failed' = ForCall(failed, j,
                       IF err THEN failed[j.caller] \union {j.idx} ELSE failed[j.caller])
  /\ UNCHANGED <<ready, queue, wjob, callVars, done, panics, counted>>

\* MUTANT of CountDone: no notify_all.
CountSilently(w) ==
  LET j == wjob[w] IN
  /\ wpc[w] = "ran"
  /\ wpc' = [wpc EXCEPT ![w] = IF werr[w] THEN "record" ELSE "idle"]
  /\ wjob' = [wjob EXCEPT ![w] = IF werr[w] THEN @ ELSE NoJob]
  /\ done' = ForCall(done, j, done[j.caller] + 1)
  /\ counted' = ForCall(counted, j, counted[j.caller] \union {j.idx})
  /\ UNCHANGED <<ready, queue, werr, callVars, panics, ran, failed>>

\* Count the job under the lock of done, and notify_all.
CountDone(w) ==
  LET j == wjob[w] IN
  /\ wpc[w] = "ran"
  /\ wpc' = [wpc EXCEPT ![w] = IF werr[w] THEN "record" ELSE "idle"]
  /\ wjob' = [wjob EXCEPT ![w] = IF werr[w] THEN @ ELSE NoJob]
  /\ done' = ForCall(done, j, done[j.caller] + 1)
  /\ counted' = ForCall(counted, j, counted[j.caller] \union {j.idx})
  /\ cpc' = ForCall(cpc, j, IF cpc[j.caller] = "blocked" THEN "await" ELSE cpc[j.caller])
  /\ UNCHANGED <<ready, queue, werr, call, njobs, toNotify, threads, outcome,
                 panics, ran, failed>>

\* Only now is the payload of a panic recorded.
RecordPanic(w) ==
  LET j == wjob[w] IN
  /\ wpc[w] = "record"
  /\ wpc' = [wpc EXCEPT ![w] = "idle"]
  /\ panics' = ForCall(panics, j, Append(panics[j.caller], j.idx))
  /\ wjob' = [wjob EXCEPT ![w] = NoJob]
  /\ werr' = [werr EXCEPT ![w] = FALSE]
  /\ UNCHANGED <<ready, queue, callVars, done, ran, counted, failed>>

-----------------------------------------------------------------------------
CallerStep(c) ==
  \/ ScopeEmpty(c)
  \/ \E n \in 1..MaxJobs : ScopeThreads(c, n) \/ ScopePooled(c, n)
  \/ NotifyOne(c)
  \/ AwaitDone(c)
  \/ SpuriousCaller(c)
  \/ DrainPanics(c)
  \/ \E i \in threads[c], err \in BOOLEAN : ThreadRun(c, i, err)
  \/ ThreadsJoined(c)

WorkerStep(w) ==
  \/ PopJob(w)
  \/ WorkerWait(w)
  \/ SpuriousWorker(w)
  \/ \E err \in BOOLEAN : RunJob(w, err)
  \/ CountDone(w)
  \/ RecordPanic(w)

Next == \/ \E c \in Callers : CallerStep(c)
        \/ \E w \in Workers : WorkerStep(w)

Spec == Init /\ [][Next]_vars

\* A runnable thread is scheduled, a Mutex is granted and a job ends; nothing
\* makes a caller call again and nothing makes a spurious wakeup happen.
Fairness ==
  /\ \A c \in Callers :
       /\ WF_vars(NotifyOne(c) \/ AwaitDone(c) \/ DrainPanics(c) \/ ThreadsJoined(c))
       /\ WF_vars(\E i \in threads[c], err \in BOOLEAN : ThreadRun(c, i, err))
  /\ \A w \in Workers :
       WF_vars(PopJob(w) \/ (\E err \in BOOLEAN : RunJob(w, err))
               \/ CountDone(w) \/ RecordPanic(w))

FairSpec == Spec /\ Fairness

-----------------------------------------------------------------------------
(* Properties.                                                             *)

TypeOK ==
  /\ ready \in BOOLEAN
  /\ queue \in Seq(Job)
  /\ wpc \in [Workers -> {"idle", "waiting", "run", "ran", "record"}]
  /\ wjob \in [Workers -> Job]
  /\ werr \in [Workers -> BOOLEAN]
  /\ cpc \in [Callers -> {"out", "notify", "await", "blocked", "drain", "join"}]
  /\ call \in [Callers -> Nat]
  /\ njobs \in [Callers -> Nat]
  /\ toNotify \in [Callers -> Nat]
  /\ \A c \in Callers : cpc[c] = "notify" => toNotify[c] # 0
  /\ done \in [Callers -> Nat]
  /\ panics \in [Callers -> Seq(Nat)]
  /\ threads \in [Callers -> SUBSET Nat]
  /\ outcome \in [Callers -> {"none", "ok", "panic"}]
  /\ ran \in [Callers -> SUBSET Nat]
  /\ counted \in [Callers -> SUBSET Nat]
  /\ failed \in [Callers -> SUBSET Nat]

\* A caller is inside the pooled path and has not seen the count reach n.
InPool(c) == cpc[c] \in {"notify", "await", "blocked"}

\* Borrow safety (the SAFETY comment, pool.rs 215-217): whenever a job waits in
\* the queue or runs, the very scope_run call whose stack it borrows from is
\* still waiting for it.
BorrowSafety ==
  /\ \A k \in 1..Len(queue) : Current(queue[k]) /\ InPool(queue[k].caller)
  /\ \A w \in Workers : wpc[w] = "run" => Current(wjob[w]) /\ InPool(wjob[w].caller)

\* No lost wakeup (submit_many, pool.rs 75-86): when jobs are queued and every
\* submitter has made its notify_one calls, some worker is not asleep.
NoLostWakeup ==
  queue # <<>> /\ (\A c \in Callers : cpc[c] # "notify")
    => \E w \in Workers : wpc[w] # "waiting"

\* A call that unwinds had a job that panicked in that very call: panics of an
\* earlier or of another caller's call never surface here (pool.rs 209, 247).
PanicIsOwn == \A c \in Callers : outcome[c] = "panic" => failed[c] # {}

\* What pool.rs 180 promises: if a job panics, the call does not return
\* normally.
PanicReplayed == \A c \in Callers : outcome[c] = "ok" => failed[c] = {}

\* Refinement: scope_run, pooled or not, behaves like a fork-join scope.
Abstract == INSTANCE ForkJoin WITH
              open <- [c \in Callers |-> cpc[c] # "out"],
              todo <- [c \in Callers |-> (1..njobs[c]) \ ran[c]]

\* ForkJoin's jobs run exactly once and never outside their call (pool.rs 174).
ForkJoinSpec == Abstract!Spec

\* Every scope_run returns (no deadlock between submitters, workers and the
\* completion count), whatever mixture of panics and spurious wakeups.
ScopeReturns == \A c \in Callers : cpc[c] # "out" ~> cpc[c] = "out"
=============================================================================
