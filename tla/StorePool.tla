----------------------------- MODULE StorePool ------------------------------
(***************************************************************************)
(* The bounded pool of Store handles of python/engramdb/pool.py, used by   *)
(* several threads: explicitly (acquire / release, which is also what      *)
(* ThreadLocalStore does), or through `with pool as store`, which is what  *)
(* Database.fetch (python/engramdb/tables.py) does for every request.      *)
(*                                                                         *)
(* One action is one operation the interpreter cannot interrupt: a call    *)
(* into queue.LifoQueue, a critical section of _stats_lock, or the load or *)
(* store of one attribute.  Store.close is a no-op in the native binding,  *)
(* so closing the pool changes no handle.                                  *)
(***************************************************************************)
EXTENDS Naturals, Sequences, FiniteSets

CONSTANTS Threads,      \* client or server threads that share the pool
          WithThreads,  \* those that use `with pool as store`
          Handles,      \* the handles opened by __init__, pool_size of them
          NoHandle,     \* None
          MaxOps        \* bound: borrows and closes of one thread

ASSUME PoolAssumption ==
  /\ WithThreads \subseteq Threads
  /\ IsFiniteSet(Handles)
  /\ NoHandle \notin Handles
  /\ MaxOps \in Nat

VARIABLES
  handleQueue, \* _queue: idle handles, the last one is taken first
  closed,      \* _closed
  current,     \* _current: one attribute for all threads
  pc,          \* pc[t]: the next step of thread t
  mine,        \* mine[t]: the handle t's local variable refers to
  borrowed,    \* _stats["borrowed"]
  ops          \* ops[t]: operations t has begun

poolVars == <<handleQueue, closed, current, pc, mine, borrowed, ops>>

PoolSize == Cardinality(Handles)

Goto(t, l) == pc' = [pc EXCEPT ![t] = l]

\* __init__ fills the queue with every handle it opens, in some order.
PoolInit ==
  /\ handleQueue \in {s \in [1..PoolSize -> Handles] :
                        /\ \A i, j \in 1..PoolSize : s[i] = s[j] => i = j
                        /\ \A h \in Handles : \E i \in 1..PoolSize : s[i] = h}
  /\ closed = FALSE
  /\ current = NoHandle
  /\ pc = [t \in Threads |-> "out"]
  /\ mine = [t \in Threads |-> NoHandle]
  /\ borrowed = 0
  /\ ops = [t \in Threads |-> 0]

-----------------------------------------------------------------------------
(* acquire                                                                 *)

\* The closed check of acquire; a closed pool raises before any effect.
Acquire(t) ==
  /\ pc[t] = "out"
  /\ ops[t] < MaxOps
  /\ ops' = [ops EXCEPT ![t] = @ + 1]
  /\ IF closed THEN UNCHANGED pc ELSE Goto(t, "get")
  /\ UNCHANGED <<handleQueue, closed, current, mine, borrowed>>

\* MUTANT of Pop: the handle is looked up and left in the queue.
Peek(t) ==
  /\ handleQueue # <<>>
  /\ mine' = [mine EXCEPT ![t] = handleQueue[Len(handleQueue)]]
  /\ UNCHANGED handleQueue

\* Take the last idle handle off the queue.
Pop(t) ==
  /\ handleQueue # <<>>
  /\ mine' = [mine EXCEPT ![t] = handleQueue[Len(handleQueue)]]
  /\ handleQueue' = SubSeq(handleQueue, 1, Len(handleQueue) - 1)

\* get_nowait, or Empty: go on to the blocking get.
TryGet(t) ==
  /\ pc[t] = "get"
  /\ \/ Pop(t) /\ Goto(t, "got")
     \/ handleQueue = <<>> /\ Goto(t, "blocked") /\ UNCHANGED <<handleQueue, mine>>
  /\ UNCHANGED <<closed, current, borrowed, ops>>

\* The blocking get returns only when there is a handle; it has no timeout.
BlockingGet(t) ==
  /\ pc[t] = "blocked"
  /\ Pop(t)
  /\ Goto(t, "got")
  /\ UNCHANGED <<closed, current, borrowed, ops>>

\* Count the borrow; then return the handle, to __enter__ or to the caller.
CountAcquire(t) ==
  /\ pc[t] = "got"
  /\ borrowed' = borrowed + 1
  /\ Goto(t, IF t \in WithThreads THEN "enter" ELSE "use")
  /\ UNCHANGED <<handleQueue, closed, current, mine, ops>>

-----------------------------------------------------------------------------
(* __enter__ and __exit__                                                  *)

\* self._current = self.acquire()
EnterStore(t) ==
  /\ pc[t] = "enter"
  /\ current' = mine[t]
  /\ Goto(t, "bind")
  /\ UNCHANGED <<handleQueue, closed, mine, borrowed, ops>>

\* return self._current
EnterReturn(t) ==
  /\ pc[t] = "bind"
  /\ mine' = [mine EXCEPT ![t] = current]
  /\ Goto(t, "use")
  /\ UNCHANGED <<handleQueue, closed, current, borrowed, ops>>

\* MUTANT of ExitLoad: __exit__ forgets the release.
ExitUnreleased(t) ==
  /\ pc[t] = "use"
  /\ t \in WithThreads
  /\ mine' = [mine EXCEPT ![t] = current]
  /\ Goto(t, "out")
  /\ UNCHANGED <<handleQueue, closed, current, borrowed, ops>>

\* __exit__ releases what _current refers to now, if anything.
ExitLoad(t) ==
  /\ pc[t] = "use"
  /\ t \in WithThreads
  /\ mine' = [mine EXCEPT ![t] = current]
  /\ Goto(t, IF current = NoHandle THEN "out" ELSE "release")
  /\ UNCHANGED <<handleQueue, closed, current, borrowed, ops>>

\* self._current = None
ExitClear(t) ==
  /\ pc[t] = "clear"
  /\ current' = NoHandle
  /\ Goto(t, "out")
  /\ UNCHANGED <<handleQueue, closed, mine, borrowed, ops>>

-----------------------------------------------------------------------------
(* release                                                                 *)

\* The end of an explicit borrow: release(store), or release_current().
CallRelease(t) ==
  /\ pc[t] = "use"
  /\ t \notin WithThreads
  /\ Goto(t, "release")
  /\ UNCHANGED <<handleQueue, closed, current, mine, borrowed, ops>>

AfterRelease(t) == IF t \in WithThreads THEN "clear" ELSE "out"

\* The closed check of release: into a closed pool nothing is put or counted.
Release(t) ==
  /\ pc[t] = "release"
  /\ IF closed
     THEN Goto(t, AfterRelease(t)) /\ mine' = [mine EXCEPT ![t] = NoHandle]
     ELSE Goto(t, "put") /\ UNCHANGED mine
  /\ UNCHANGED <<handleQueue, closed, current, borrowed, ops>>

\* MUTANT of Put: the reference is cleared before it is put back.
PutCleared(t) ==
  /\ pc[t] = "put"
  /\ Len(handleQueue) < PoolSize
  /\ handleQueue' = Append(handleQueue, NoHandle)
  /\ mine' = [mine EXCEPT ![t] = NoHandle]
  /\ Goto(t, "count")
  /\ UNCHANGED <<closed, current, borrowed, ops>>

\* _queue.put blocks while the queue is full.
Put(t) ==
  /\ pc[t] = "put"
  /\ Len(handleQueue) < PoolSize
  /\ handleQueue' = Append(handleQueue, mine[t])
  /\ mine' = [mine EXCEPT ![t] = NoHandle]
  /\ Goto(t, "count")
  /\ UNCHANGED <<closed, current, borrowed, ops>>

\* max(0, borrowed - 1)
CountRelease(t) ==
  /\ pc[t] = "count"
  /\ borrowed' = IF borrowed = 0 THEN 0 ELSE borrowed - 1
  /\ Goto(t, AfterRelease(t))
  /\ UNCHANGED <<handleQueue, closed, current, mine, ops>>

-----------------------------------------------------------------------------
(* close                                                                   *)

\* The closed check of close.
Close(t) ==
  /\ pc[t] = "out"
  /\ ops[t] < MaxOps
  /\ ops' = [ops EXCEPT ![t] = @ + 1]
  /\ IF closed THEN UNCHANGED pc ELSE Goto(t, "close")
  /\ UNCHANGED <<handleQueue, closed, current, mine, borrowed>>

\* MUTANT of SetClosed: drain first, mark closed afterwards.
DrainFirst(t) ==
  /\ pc[t] = "close"
  /\ Goto(t, "drain")
  /\ UNCHANGED <<handleQueue, closed, current, mine, borrowed, ops>>

\* _closed is set before _lock is taken.
SetClosed(t) ==
  /\ pc[t] = "close"
  /\ closed' = TRUE
  /\ Goto(t, "drain")
  /\ UNCHANGED <<handleQueue, current, mine, borrowed, ops>>

\* The drain loop takes one idle handle per turn until the queue is empty.
\* Closers in this loop exclude each other by _lock, which changes nothing:
\* the loop of the later one ends at once or takes what was put meanwhile.
Drain(t) ==
  /\ pc[t] = "drain"
  /\ IF handleQueue = <<>>
     THEN Goto(t, "out") /\ UNCHANGED handleQueue
     ELSE handleQueue' = SubSeq(handleQueue, 1, Len(handleQueue) - 1) /\ UNCHANGED pc
  /\ UNCHANGED <<closed, current, mine, borrowed, ops>>

-----------------------------------------------------------------------------
AcquireStep(t) == TryGet(t) \/ BlockingGet(t) \/ CountAcquire(t)
WithStep(t)    == EnterStore(t) \/ EnterReturn(t) \/ ExitLoad(t) \/ ExitClear(t)
ReleaseStep(t) == CallRelease(t) \/ Release(t) \/ Put(t) \/ CountRelease(t)
CloseStep(t)   == SetClosed(t) \/ Drain(t)

PoolNext == \E t \in Threads :
              \/ Acquire(t) \/ Close(t)
              \/ AcquireStep(t) \/ WithStep(t) \/ ReleaseStep(t) \/ CloseStep(t)

PoolSpec == PoolInit /\ [][PoolNext]_poolVars

\* Threads that have begun an operation go on with it; a borrower gives its
\* handle back (try/finally or the with block).
PoolFairness ==
  \A t \in Threads :
    WF_poolVars(AcquireStep(t) \/ WithStep(t) \/ ReleaseStep(t))

PoolFairSpec == PoolSpec /\ PoolFairness

-----------------------------------------------------------------------------
(* Properties.                                                             *)

Labels == {"out", "get", "blocked", "got", "enter", "bind", "use", "clear",
           "release", "put", "count", "close", "drain"}

PoolTypeOK ==
  /\ handleQueue \in Seq(Handles)
  /\ closed \in BOOLEAN
  /\ current \in Handles \union {NoHandle}
  /\ pc \in [Threads -> Labels]
  /\ mine \in [Threads -> Handles \union {NoHandle}]
  /\ borrowed \in Nat
  /\ ops \in [Threads -> Nat]

\* t has taken a handle and has not given it back yet.
Borrowing(t) == pc[t] \in {"got", "enter", "bind", "use", "release", "put"}

Idle(h) == \E i \in 1..Len(handleQueue) : handleQueue[i] = h

\* With at most one `with` user there is one borrower per handle (tables.py 79-80,
\* "each request borrows one Store from the pool"): two threads never use the same
\* handle at the same time, and nobody uses an idle one.
OneBorrower ==
  \A s \in Threads : Borrowing(s) =>
    /\ mine[s] \in Handles
    /\ ~Idle(mine[s])
    /\ \A t \in Threads : t # s /\ Borrowing(t) => mine[t] # mine[s]

\* With at most one `with` user no handle is lost while the pool is open: each one
\* is idle or borrowed by some thread, so the pool never shrinks (pool.py 61-62,
\* 95-100).
NoLeak == ~closed => \A h \in Handles : Idle(h) \/ \E t \in Threads : Borrowing(t) /\ mine[t] = h

\* What tables.py 79-80 says of Database.fetch ("each request borrows one Store
\* from the pool"): two requests never read through the same handle.
RequestOwnsStore ==
  \A s, t \in Threads : s # t /\ pc[s] = "use" /\ pc[t] = "use" => mine[s] # mine[t]

\* With at most one `with` user, a thread that waits for a handle gets one, unless
\* the pool is closed (pool.py 83-85).  Two `with` users, as in the threaded server,
\* may overwrite each other's _current and clear it (pool.py 111, 118): the handle
\* is never released and a waiter stays in get (85); see RequestOwnsStore.  Each
\* thread borrows a bounded number of times (MaxOps): queue.LifoQueue is not fair,
\* so a thread that borrows forever may always overtake a waiter.  close wakes
\* nobody, so nothing is said of the waiters of a closed pool.
WaiterServed == \A t \in Threads : pc[t] = "blocked" ~> pc[t] = "use" \/ closed
=============================================================================
